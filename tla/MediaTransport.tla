--------------------------- MODULE MediaTransport ---------------------------
(* The media path of PicoquicClient: the session thread admits object
   writes into PendingMediaQueue and asks for resets; the packet-loop
   thread swaps the requests out in apply_pending_operations(), activates
   streams and hands their bytes to picoquic from prepare_to_send.  One
   mutex guards the shared state, but the packet loop releases it between
   the phases of a pass and while it raises a stream's priority, so the
   two threads interleave there.  close() holds the QUIC close back until
   queued data drained or a deadline passed.

   A payload is its length.  A queued write remembers the offset in its
   stream at which it was admitted ("start"), so that what reaches the wire
   can be compared with what was admitted.  picoquic itself is external. *)
EXTENDS Integers, Sequences, FiniteSets, Functions

CONSTANTS
    Streams,            \* media stream ids the session may open
    Capacity,           \* media_capacity: the connection's admission budget
    Sizes,              \* lengths of the object writes the session makes
    MaxBytes,           \* bound: bytes admitted on the connection
    Deadlines,          \* delivery deadlines the session may pass
    MaxTime,            \* bound: last value of the clock
    DefaultDrain,       \* kDefaultCloseDrainTimeout
    MaxDrain,           \* kMaxCloseDrainTimeout
    Timeouts,           \* delivery timeouts a peer may negotiate
    Requests,           \* control and request streams (reliable writes)
    ReliableCap,        \* kMaxReliablePendingBytes, one unit per write
    MaxReliable         \* bound: write_stream calls

NoDeadline == MaxTime + 1

ASSUME ConstantAssumption ==
    /\ IsFiniteSet(Streams) /\ Streams \cap Requests = {}
    /\ Capacity \in Nat /\ Sizes \subseteq Nat /\ MaxTime \in Nat
    /\ MaxBytes \in Nat /\ MaxReliable \in Nat /\ ReliableCap \in Nat
    /\ Deadlines \subseteq Nat
    /\ DefaultDrain \in Nat /\ MaxDrain \in Nat /\ Timeouts \subseteq Nat

VARIABLES
    now,                \* the steady clock
    (* PicoquicClient::Impl, guarded by its mutex *)
    queue, queued_bytes, subgroup_deadlines, pending_resets,
    pending_media_activations, media_streams_with_pending,
    timed_out_media_streams, peer_stopped_media_streams,
    pending_writes, last_error, disconnected,
    close_requested, close_sent, drain_bound, drain_deadline, loop_exited,
    (* locals of the packet-loop thread *)
    pc, writes, resets, activations, saw_close, sending,
    (* picoquic and the peer *)
    active, fin_sent, reset_applied, stopped, backlog, handed,
    (* the session, and history *)
    ended, closed, admitted, sent, issued, dropped, issued_at_close

implVars == <<queue, queued_bytes, subgroup_deadlines, pending_resets,
              pending_media_activations, media_streams_with_pending,
              timed_out_media_streams>>
flagVars == <<last_error, disconnected, loop_exited>>
closeVars == <<close_requested, close_sent, drain_bound, drain_deadline,
               issued_at_close, closed>>
loopVars == <<pc, writes, resets, activations, saw_close, sending>>
quicVars == <<active, fin_sent, reset_applied, stopped, backlog>>
reliableVars == <<pending_writes, handed, issued, dropped>>
histVars == <<ended, admitted, sent>>

vars == <<now, implVars, peer_stopped_media_streams, flagVars, closeVars,
          loopVars, quicVars, reliableVars, histVars>>

(* ---- the queue ---- *)

NoReset == "none"
Timeout == "DELIVERY_TIMEOUT"
Cancelled == "CANCELLED"
ResetCodes == {Timeout, Cancelled}
AllStreams == Streams \cup Requests
NoResets == [s \in AllStreams |-> NoReset]
EmptyQueue == [s \in Streams |-> <<>>]
NoDeadlines == [s \in Streams |-> NoDeadline]

Write(start, size, fin, object_deadline, subgroup_deadline) ==
    [start |-> start, size |-> size, offset |-> 0, fin |-> fin,
     object_deadline |-> object_deadline,
     subgroup_deadline |-> subgroup_deadline]

remaining_bytes(w) == w.size - w.offset

\* What clear_stream() gives back to the budget, for the streams in S.
QueueBytes(q) == SumFunction([i \in DOMAIN q |-> remaining_bytes(q[i])])
StreamBytes(s) == QueueBytes(queue[s])
BytesOf(S) == SumFunctionOnSet([s \in Streams |-> StreamBytes(s)], S)

\* Bytes admitted since the connection began; bounds the model, not the code.
Admitted(S) == SumFunctionOnSet(admitted, S)

Expired(w) == now >= w.object_deadline \/ now >= w.subgroup_deadline

\* inspect_front(): a front nothing was sent of is subject to its deadlines.
FrontExpired(q) == q # <<>> /\ Head(q).offset = 0 /\ Expired(Head(q))

min(a, b) == IF a < b THEN a ELSE b
max(a, b) == IF a > b THEN a ELSE b

\* The first reset queued for a stream is the one picoquic carries out; a
\* later one finds the stream already reset.
WithReset(rs, s, code) == IF rs[s] = NoReset THEN [rs EXCEPT ![s] = code] ELSE rs

\* Everything queued or armed for stream s is forgotten.
ClearStream(s) ==
    /\ queue' = [queue EXCEPT ![s] = <<>>]
    /\ queued_bytes' = queued_bytes - StreamBytes(s)
    /\ subgroup_deadlines' = [subgroup_deadlines EXCEPT ![s] = NoDeadline]
    /\ pending_media_activations' = pending_media_activations \ {s}
    /\ media_streams_with_pending' = media_streams_with_pending \ {s}

QueueDeliveryTimeoutMutant(s) ==
    /\ ClearStream(s)
    /\ timed_out_media_streams' = timed_out_media_streams \cup {s}
    /\ UNCHANGED pending_resets
\* queue_delivery_timeout_locked(): one reset per stream that timed out.
QueueDeliveryTimeout(s) ==
    /\ ClearStream(s)
    /\ timed_out_media_streams' = timed_out_media_streams \cup {s}
    /\ pending_resets' = IF s \in timed_out_media_streams
                           THEN pending_resets
                           ELSE WithReset(pending_resets, s, Timeout)

\* The connection is over: no queued media survives it.
ClearConnection ==
    /\ queue' = EmptyQueue
    /\ queued_bytes' = 0
    /\ subgroup_deadlines' = NoDeadlines
    /\ pending_media_activations' = {}
    /\ media_streams_with_pending' = {}

\* fail_media_delivery(), and the same lines inlined in provide_media_data().
FailMediaDelivery(message) ==
    /\ last_error' = message
    /\ ClearConnection
    /\ UNCHANGED <<timed_out_media_streams, pending_resets>>

(* ---- the session thread ---- *)

Failed == last_error # ""

Init ==
    /\ now = 0
    /\ queue = EmptyQueue /\ queued_bytes = 0
    /\ subgroup_deadlines = NoDeadlines /\ pending_resets = NoResets
    /\ pending_media_activations = {} /\ media_streams_with_pending = {}
    /\ timed_out_media_streams = {} /\ peer_stopped_media_streams = {}
    /\ pending_writes = <<>> /\ last_error = "" /\ disconnected = FALSE
    /\ close_requested = FALSE /\ close_sent = FALSE
    /\ drain_bound = [value |-> DefaultDrain, negotiated |-> FALSE]
    /\ drain_deadline = 0 /\ loop_exited = FALSE
    /\ pc = "idle" /\ writes = <<>> /\ resets = NoResets
    /\ activations = {} /\ saw_close = FALSE /\ sending = <<>>
    /\ active = {} /\ fin_sent = {} /\ reset_applied = NoResets
    /\ stopped = {} /\ backlog = {} /\ handed = <<>>
    /\ ended = {} /\ closed = FALSE
    /\ admitted = [s \in Streams |-> 0] /\ sent = [s \in Streams |-> 0]
    /\ issued = 0 /\ dropped = {} /\ issued_at_close = 0

(* try_write_object(), the accepted case; every other case leaves the
   transport unchanged.  Its caller, SubgroupSenderState, writes no more to
   a stream it finished, reset or was told is over (ended). *)
TryWriteObject(s, size, fin, object_deadline, subgroup_deadline) ==
    /\ s \notin ended
    /\ ~Failed /\ ~close_requested /\ ~disconnected /\ ~closed
    /\ s \notin timed_out_media_streams
    /\ s \notin peer_stopped_media_streams
    /\ size > 0 \/ fin
    /\ size <= Capacity - queued_bytes
    /\ Admitted(Streams) + size <= MaxBytes
    /\ queue' = [queue EXCEPT ![s] = Append(@,
            Write(admitted[s], size, fin, object_deadline, subgroup_deadline))]
    /\ queued_bytes' = queued_bytes + size
    /\ subgroup_deadlines' =
            [subgroup_deadlines EXCEPT ![s] = min(@, subgroup_deadline)]
    /\ pending_media_activations' = pending_media_activations \cup {s}
    /\ media_streams_with_pending' = media_streams_with_pending \cup {s}
    /\ admitted' = [admitted EXCEPT ![s] = @ + size]
    /\ ended' = IF fin THEN ended \cup {s} ELSE ended
    /\ UNCHANGED <<now, pending_resets, timed_out_media_streams,
                   peer_stopped_media_streams, flagVars, closeVars, loopVars,
                   quicVars, reliableVars, sent>>

\* reset_stream(): a delivery timeout is noted once, another code always.
ResetStream(s, code) ==
    /\ s \notin ended /\ ~closed
    /\ IF code = Timeout
         THEN QueueDeliveryTimeout(s)
         ELSE /\ ClearStream(s)
              /\ pending_resets' = WithReset(pending_resets, s, code)
              /\ UNCHANGED timed_out_media_streams
    /\ ended' = ended \cup {s}
    /\ UNCHANGED <<now, peer_stopped_media_streams, flagVars, closeVars,
                   loopVars, quicVars, reliableVars, admitted, sent>>

\* acknowledge_media_stream_expired(): the sender retired the stream first.
AcknowledgeExpired(s) ==
    /\ s \in timed_out_media_streams /\ ~closed
    /\ timed_out_media_streams' = timed_out_media_streams \ {s}
    /\ ended' = ended \cup {s}
    /\ UNCHANGED <<now, queue, queued_bytes, subgroup_deadlines, pending_resets,
                   pending_media_activations, media_streams_with_pending,
                   peer_stopped_media_streams, flagVars, closeVars, loopVars,
                   quicVars, reliableVars, admitted, sent>>

AcknowledgePeerStopped(s) ==
    /\ s \in peer_stopped_media_streams /\ ~closed
    /\ peer_stopped_media_streams' = peer_stopped_media_streams \ {s}
    /\ ended' = ended \cup {s}
    /\ UNCHANGED <<now, implVars, flagVars, closeVars, loopVars, quicVars,
                   reliableVars, admitted, sent>>

\* write_stream()'s has_room().
HasRoom == Failed \/ Len(pending_writes) < ReliableCap

\* write_stream(): without room it waits at most 30 s (waited) and then queues
\* the write anyway.
WriteStream(r, waited) ==
    /\ ~closed /\ issued < MaxReliable
    /\ waited = ~HasRoom
    /\ ~Failed
    /\ issued' = issued + 1
    /\ pending_writes' = Append(pending_writes, [id |-> issued', stream |-> r])
    /\ UNCHANGED <<now, implVars, peer_stopped_media_streams, flagVars,
                   closeVars, loopVars, quicVars, handed, dropped, histVars>>

\* CloseDrainTracker::note_delivery_timeout(): the largest timeout, clamped;
\* the fallback bound counts only until the first one is negotiated.
NoteDeliveryTimeout(t) ==
    /\ t > 0 /\ ~close_requested
    /\ drain_bound' = [value |-> IF drain_bound.negotiated
                                   THEN max(drain_bound.value, min(t, MaxDrain))
                                   ELSE min(t, MaxDrain),
                       negotiated |-> TRUE]
    /\ UNCHANGED <<now, implVars, peer_stopped_media_streams, flagVars,
                   close_requested, close_sent, drain_deadline,
                   issued_at_close, closed, loopVars,
                   quicVars, reliableVars, histVars>>

\* close(), up to the join.  The clock stops at MaxTime, where a drain that
\* would outlast it counts as elapsed.
Close ==
    /\ ~close_requested
    /\ close_requested' = TRUE
    /\ drain_deadline' = min(now + drain_bound.value, MaxTime)
    /\ issued_at_close' = issued
    /\ UNCHANGED <<now, implVars, peer_stopped_media_streams, flagVars,
                   close_sent, drain_bound, closed,
                   loopVars, quicVars, reliableVars, histVars>>

\* close() after the packet-loop thread was joined.
CloseJoined ==
    /\ close_requested /\ loop_exited /\ ~closed
    /\ ClearConnection
    /\ timed_out_media_streams' = {}
    /\ closed' = TRUE
    /\ UNCHANGED <<now, pending_resets, peer_stopped_media_streams, flagVars,
                   close_requested, close_sent, drain_bound, drain_deadline,
                   issued_at_close, loopVars, quicVars,
                   reliableVars, histVars>>

SessionStep ==
    \/ \E s \in Streams, size \in Sizes, fin \in BOOLEAN,
          od \in Deadlines, sd \in Deadlines :
            TryWriteObject(s, size, fin, od, sd)
    \/ \E s \in Streams, code \in ResetCodes : ResetStream(s, code)
    \/ \E s \in Streams : AcknowledgeExpired(s)
    \/ \E s \in AllStreams : AcknowledgePeerStopped(s)
    \/ \E r \in Requests, waited \in BOOLEAN : WriteStream(r, waited)
    \/ \E t \in Timeouts : NoteDeliveryTimeout(t)
    \/ Close
    \/ CloseJoined

(* ---- the packet loop: one pass, by phase ---- *)

DueMutant == {s \in Streams : now >= subgroup_deadlines[s] /\ queue[s] # <<>>}
\* SubgroupDeadlineTracker::take_expired().
Due == {s \in Streams : now >= subgroup_deadlines[s]}

(* apply_pending_operations(), first critical section: the subgroups whose
   deadline passed are timed out, then every request queue is swapped out
   and close_requested is read, all under one lock. *)
PassBegin ==
    LET due == Due
    IN  /\ pc = "idle"
        /\ queue' = [s \in Streams |-> IF s \in due THEN <<>> ELSE queue[s]]
        /\ queued_bytes' = queued_bytes - BytesOf(due)
        /\ subgroup_deadlines' = [s \in Streams |->
                IF s \in due THEN NoDeadline ELSE subgroup_deadlines[s]]
        /\ media_streams_with_pending' = media_streams_with_pending \ due
        /\ timed_out_media_streams' = timed_out_media_streams \cup due
        /\ activations' = pending_media_activations \ due
        /\ pending_media_activations' = {}
        /\ resets' = [s \in AllStreams |->
                IF s \in due \ timed_out_media_streams
                   /\ pending_resets[s] = NoReset
                  THEN Timeout ELSE pending_resets[s]]
        /\ pending_resets' = NoResets
        /\ writes' = pending_writes
        /\ pending_writes' = <<>>
        /\ saw_close' = close_requested
        /\ pc' = "writes"
        /\ UNCHANGED <<now, peer_stopped_media_streams, flagVars, closeVars,
                       sending, quicVars, handed, issued, dropped, histVars>>

\* apply_reset over a swapped-out queue: picoquic carries a reset out unless
\* the stream was reset before (PICOQUIC_ERROR_STREAM_ALREADY_CLOSED counts
\* as done), and asks for no more of the stream's data.
ResetTargets(rs) ==
    {s \in AllStreams : rs[s] # NoReset /\ reset_applied[s] = NoReset}
ApplyResets(rs) ==
    /\ reset_applied' = [s \in AllStreams |->
            IF s \in ResetTargets(rs) THEN rs[s] ELSE reset_applied[s]]
    /\ active' = active \ ResetTargets(rs)

\* picoquic_stream_send_closed(): the stream was stopped or reset.
SendClosed(r) == reset_applied[r] # NoReset \/ r \in stopped

RequeueMutant(deferred, queued) == queued \o deferred
\* Deferred writes go back in front of those queued meanwhile.
Requeue(deferred, queued) == deferred \o queued

\* The reliable writes are offered to picoquic in order, without the mutex: one
\* for a closed stream is refused and dropped, another may be taken.
OfferWrite ==
    /\ pc = "writes" /\ writes # <<>>
    /\ writes' = Tail(writes)
    /\ LET w == Head(writes)
       IN  IF SendClosed(w.stream)
             THEN dropped' = dropped \cup {w.id} /\ UNCHANGED <<handed, backlog>>
             ELSE /\ handed' = Append(handed, w)
                  /\ backlog' = backlog \cup {w.stream}
                  /\ UNCHANGED dropped
    /\ UNCHANGED <<now, implVars, peer_stopped_media_streams, flagVars,
                   closeVars, pc, resets, activations, saw_close, sending,
                   active, fin_sent, reset_applied, stopped, pending_writes,
                   issued, histVars>>

\* The end of the write loop, at the first write picoquic has no room for: it
\* and all later ones are deferred.  Then the resets swapped out are applied.
PassWrites ==
    /\ pc = "writes"
    /\ writes # <<>> => ~SendClosed(Head(writes).stream)
    /\ pending_writes' = Requeue(writes, pending_writes)
    /\ ApplyResets(resets)
    /\ backlog' = backlog \cup ResetTargets(resets)
    /\ pc' = "activate"
    /\ UNCHANGED <<now, implVars, peer_stopped_media_streams, flagVars,
                   closeVars, writes, resets, activations, saw_close, sending,
                   fin_sent, stopped, handed, issued, dropped, histVars>>

\* picoquic_mark_active_stream() fails on a stream that was reset or finished.
CanActivate(s) == reset_applied[s] = NoReset /\ s \notin fin_sent

\* PendingMediaQueue::inspect_front().
FrontStatus(q) ==
    CASE FrontExpired(q) -> "expired"
      [] q = <<>>        -> "empty"
      [] OTHER           -> "available"

InspectedMutant(s) == "available"
\* The front is inspected again under the lock before it is activated.
Inspected(s) == FrontStatus(queue[s])

(* One swapped-out activation.  The queue may have changed since the swap:
   the front may have expired, or the bytes may be gone already. *)
PassActivate(s) ==
    /\ pc = "activate" /\ s \in activations
    /\ activations' = activations \ {s}
    /\ \/ /\ Inspected(s) = "expired"
          /\ QueueDeliveryTimeout(s)
          /\ UNCHANGED <<last_error, pc, active>>
       \/ /\ Inspected(s) = "empty"
          /\ media_streams_with_pending' = media_streams_with_pending \ {s}
          /\ UNCHANGED <<queue, queued_bytes, subgroup_deadlines,
                         pending_media_activations, timed_out_media_streams,
                         pending_resets, last_error, pc, active>>
       \/ /\ Inspected(s) = "available" /\ CanActivate(s)
          /\ active' = active \cup {s}
          /\ UNCHANGED <<implVars, last_error, pc>>
       \/ /\ Inspected(s) = "available" /\ ~CanActivate(s)
          /\ FailMediaDelivery("activation")
          /\ pc' = "exiting"
          /\ UNCHANGED active
    /\ UNCHANGED <<now, peer_stopped_media_streams, disconnected, loop_exited,
                   closeVars, writes, resets, saw_close, sending, fin_sent,
                   reset_applied, stopped, backlog, reliableVars, histVars>>

(* The resets queued since the first swap, then the close.  A pass that
   applied a reset leaves the close to a later pass, so that the reset
   frames go out first. *)
PassResets ==
    /\ pc = "activate" /\ activations = {}
    /\ ApplyResets(pending_resets)
    /\ backlog' = backlog \cup ResetTargets(pending_resets)
    /\ pending_resets' = NoResets
    /\ pc' = IF saw_close /\ resets = NoResets /\ pending_resets = NoResets
               THEN "close" ELSE "idle"
    /\ UNCHANGED <<now, queue, queued_bytes, subgroup_deadlines,
                   pending_media_activations, media_streams_with_pending,
                   timed_out_media_streams, peer_stopped_media_streams,
                   flagVars, closeVars, writes, resets, activations, saw_close,
                   sending, fin_sent, stopped, reliableVars, histVars>>

DrainedWritesMutant == media_streams_with_pending = {} /\ backlog = {}
\* close_drain_should_wait(): client-side writes and media still queued, or
\* anything unsent or unacknowledged inside picoquic.
Drained == writes = <<>> /\ media_streams_with_pending = {} /\ backlog = {}
ShouldWaitMutant == ~disconnected /\ ~Drained
ShouldWait == ~disconnected /\ ~Drained /\ now < drain_deadline

PassClose ==
    /\ pc = "close"
    /\ pc' = "idle"
    /\ close_sent' = (close_sent \/ ~ShouldWait)
    /\ UNCHANGED <<now, implVars, peer_stopped_media_streams, flagVars,
                   close_requested, drain_bound, drain_deadline,
                   issued_at_close, closed, writes, resets, activations,
                   saw_close, sending, quicVars, reliableVars, histVars>>

\* A picoquic call (a priority, a reset, an activation) fails for want of
\* memory: the media is abandoned and the packet loop ends.
PassFails ==
    /\ pc \in {"writes", "activate"}
    /\ FailMediaDelivery("picoquic")
    /\ pc' = "exiting"
    /\ UNCHANGED <<now, peer_stopped_media_streams, disconnected, loop_exited,
                   closeVars, writes, resets, activations, saw_close, sending,
                   quicVars, reliableVars, histVars>>

\* after_send ends the loop once the connection is gone.
LoopEnds ==
    /\ pc = "idle" /\ disconnected
    /\ pc' = "exiting"
    /\ UNCHANGED <<now, implVars, peer_stopped_media_streams, flagVars,
                   closeVars, writes, resets, activations, saw_close, sending,
                   quicVars, reliableVars, histVars>>

\* The last lines of the packet-loop thread.
ThreadExit ==
    /\ pc = "exiting"
    /\ pc' = "exited"
    /\ loop_exited' = TRUE
    /\ ClearConnection
    /\ timed_out_media_streams' = {}
    /\ UNCHANGED <<now, pending_resets, peer_stopped_media_streams, last_error,
                   disconnected, closeVars, writes, resets, activations,
                   saw_close, sending, quicVars, reliableVars, histVars>>

(* ---- the packet loop: picoquic calling back ---- *)

AfterConsumeSignMutant(q, n) ==
    IF n = remaining_bytes(Head(q)) THEN Tail(q)
    ELSE [q EXCEPT ![1].offset = @ - n]
\* PendingMediaQueue::consume(): n bytes of the front are copied out; an
\* empty FIN write goes as a whole.
AfterConsume(q, n) ==
    IF n = remaining_bytes(Head(q)) THEN Tail(q)
    ELSE [q EXCEPT ![1].offset = @ + n]

SendsFin(w, n) == w.fin /\ n = remaining_bytes(w)

StillActiveMutant(rest) == FALSE
\* is_still_active: whether picoquic is to ask for this stream again.
StillActive(rest) == rest # <<>>

\* What stays queued after n bytes of the front went: nothing follows a FIN.
Rest(q, n) == IF SendsFin(Head(q), n) THEN <<>> ELSE AfterConsume(q, n)
CanSend(s, n) ==
    /\ FrontStatus(queue[s]) = "available"
    /\ n \in 0..remaining_bytes(Head(queue[s]))
    /\ n > 0 \/ remaining_bytes(Head(queue[s])) = 0

(* provide_media_data(), to its end or to the unlock around the priority
   call.  Its five ways: the front expired; nothing is queued; the next
   write expired while this one was being sent; the next write needs its
   priority set first, so the mutex is released before the bytes reach
   picoquic; or the bytes go straight out. *)
ProvideExpired(s) ==
    /\ FrontStatus(queue[s]) = "expired"
    /\ QueueDeliveryTimeout(s)
    /\ active' = active \ {s}
    /\ UNCHANGED <<pc, sending, sent, fin_sent, backlog>>

ProvideNothing(s) ==
    /\ FrontStatus(queue[s]) = "empty"
    /\ media_streams_with_pending' = media_streams_with_pending \ {s}
    /\ active' = active \ {s}
    /\ UNCHANGED <<queue, queued_bytes, subgroup_deadlines, pending_resets,
                   pending_media_activations, timed_out_media_streams, pc,
                   sending, sent, fin_sent, backlog>>

ProvideThenExpire(s, n) ==
    /\ CanSend(s, n) /\ FrontExpired(Rest(queue[s], n))
    /\ QueueDeliveryTimeout(s)
    /\ active' = active \ {s}
    /\ sent' = [sent EXCEPT ![s] = @ + n]
    /\ backlog' = backlog \cup {s}
    /\ UNCHANGED <<pc, sending, fin_sent>>

RaisesPriority(s, n) ==
    n = remaining_bytes(Head(queue[s])) /\ Rest(queue[s], n) # <<>>

ProvideUnlocked(s, n) ==
    /\ CanSend(s, n) /\ RaisesPriority(s, n) /\ ~FrontExpired(Rest(queue[s], n))
    /\ queue' = [queue EXCEPT ![s] = Rest(queue[s], n)]
    /\ queued_bytes' = queued_bytes - n
    /\ sending' = <<s, n>>
    /\ pc' = "unlocked"
    /\ UNCHANGED <<subgroup_deadlines, pending_media_activations,
                   media_streams_with_pending, pending_resets,
                   timed_out_media_streams, active, sent, fin_sent, backlog>>

ProvideBytes(s, n) ==
    LET finishes == SendsFin(Head(queue[s]), n)
        rest == Rest(queue[s], n)
    IN  /\ CanSend(s, n) /\ ~RaisesPriority(s, n) /\ ~FrontExpired(rest)
        /\ queue' = [queue EXCEPT ![s] = rest]
        /\ queued_bytes' = queued_bytes - (IF finishes THEN StreamBytes(s) ELSE n)
        /\ media_streams_with_pending' = IF StillActive(rest)
                                           THEN media_streams_with_pending
                                           ELSE media_streams_with_pending \ {s}
        /\ active' = IF StillActive(rest) THEN active ELSE active \ {s}
        /\ sent' = [sent EXCEPT ![s] = @ + n]
        /\ fin_sent' = IF finishes THEN fin_sent \cup {s} ELSE fin_sent
        /\ backlog' = backlog \cup {s}
        /\ UNCHANGED <<subgroup_deadlines, pending_media_activations,
                       pending_resets, timed_out_media_streams, pc, sending>>

ProvideMediaData(s) ==
    /\ pc = "idle" /\ s \in active
    /\ \/ ProvideExpired(s) \/ ProvideNothing(s)
       \/ \E n \in 0..Capacity : ProvideThenExpire(s, n) \/ ProvideUnlocked(s, n)
                                  \/ ProvideBytes(s, n)
    /\ UNCHANGED <<now, peer_stopped_media_streams, flagVars, closeVars, writes,
                   resets, activations, saw_close, reset_applied, stopped,
                   reliableVars, ended, admitted>>

\* provide_media_data() after the lock was taken again: still_active was
\* decided before the unlock.
ProvideResume ==
    /\ pc = "unlocked"
    /\ sent' = [sent EXCEPT ![sending[1]] = @ + sending[2]]
    /\ backlog' = backlog \cup {sending[1]}
    /\ sending' = <<>>
    /\ pc' = "idle"
    /\ UNCHANGED <<now, implVars, peer_stopped_media_streams, flagVars,
                   closeVars, writes, resets, activations, saw_close, active,
                   fin_sent, reset_applied, stopped, reliableVars, ended,
                   admitted>>

\* The priority of the next write, or the buffer for this one, is refused: the
\* media is abandoned and picoquic closes the connection on the error.
ProvideFails ==
    /\ \/ pc = "unlocked"
       \/ pc = "idle" /\ \E s \in active : FrontStatus(queue[s]) = "available"
    /\ FailMediaDelivery("picoquic")
    /\ active' = {}
    /\ sending' = <<>>
    /\ pc' = "idle"
    /\ UNCHANGED <<now, peer_stopped_media_streams, disconnected, loop_exited,
                   closeVars, writes, resets, activations, saw_close, fin_sent,
                   reset_applied, stopped, backlog, reliableVars, histVars>>

\* picoquic_callback_stop_sending, on a media or a request stream.
StopSending(s) ==
    /\ pc = "idle" /\ ~disconnected
    /\ s \notin stopped /\ reset_applied[s] = NoReset
    /\ IF s \in Streams
         THEN (sent[s] > 0 \/ s \in fin_sent) /\ ClearStream(s)
         ELSE /\ \E i \in 1..Len(handed) : handed[i].stream = s
              /\ UNCHANGED <<queue, queued_bytes, subgroup_deadlines,
                             pending_media_activations,
                             media_streams_with_pending>>
    /\ stopped' = stopped \cup {s}
    /\ peer_stopped_media_streams' = peer_stopped_media_streams \cup {s}
    /\ pending_resets' = WithReset(pending_resets, s, Cancelled)
    /\ UNCHANGED <<now, timed_out_media_streams, flagVars, closeVars, loopVars,
                   active, fin_sent, reset_applied, backlog, reliableVars,
                   histVars>>

\* picoquic_callback_stream_released: all of the stream was acknowledged.
StreamReleased(s) ==
    /\ pc = "idle"
    /\ s \in fin_sent \/ reset_applied[s] # NoReset
    /\ s \notin backlog
    /\ ClearStream(s)
    /\ UNCHANGED <<now, pending_resets, timed_out_media_streams,
                   peer_stopped_media_streams, flagVars, closeVars, loopVars,
                   quicVars, reliableVars, histVars>>

\* picoquic_callback_close and its kin: the peer, a timeout or our own close.
ConnectionClosed ==
    /\ pc = "idle" /\ ~disconnected
    /\ disconnected' = TRUE
    /\ ClearConnection
    /\ timed_out_media_streams' = {}
    /\ active' = {}
    /\ UNCHANGED <<now, pending_resets, peer_stopped_media_streams, last_error,
                   loop_exited, closeVars, loopVars, fin_sent, reset_applied,
                   stopped, backlog, reliableVars, histVars>>

\* picoquic sends what it holds for a stream and the peer acknowledges it.
Acknowledged(s) ==
    /\ pc = "idle" /\ s \in backlog /\ ~disconnected
    /\ backlog' = backlog \ {s}
    /\ UNCHANGED <<now, implVars, peer_stopped_media_streams, flagVars,
                   closeVars, loopVars, active, fin_sent, reset_applied,
                   stopped, reliableVars, histVars>>

Tick ==
    /\ now < MaxTime
    /\ now' = now + 1
    /\ UNCHANGED <<implVars, peer_stopped_media_streams, flagVars, closeVars,
                   loopVars, quicVars, reliableVars, histVars>>

PassStep ==
    \/ PassBegin \/ OfferWrite \/ PassWrites \/ PassResets \/ PassClose
    \/ \E s \in Streams : PassActivate(s)
    \/ ThreadExit \/ ProvideResume

PicoquicStep ==
    \/ \E s \in Streams : ProvideMediaData(s)
    \/ ProvideFails \/ PassFails \/ LoopEnds
    \/ \E s \in AllStreams : StopSending(s) \/ Acknowledged(s)
    \/ \E s \in Streams : StreamReleased(s)
    \/ ConnectionClosed

\* close() returned and the packet-loop thread is gone.
Terminated == closed /\ pc = "exited" /\ UNCHANGED vars

Next == SessionStep \/ PassStep \/ PicoquicStep \/ Tick \/ Terminated

Spec == Init /\ [][Next]_vars

(* The packet loop keeps running its passes (time_check fires every 10 ms)
   and its after_send check, time passes, close() returns from its join,
   and a connection picoquic was told to close, or failed a callback of, is
   over some time later.  Nothing is assumed of the peer or of the rest of
   the session. *)
FairSpec ==
    /\ Spec
    /\ WF_vars(PassStep) /\ WF_vars(Tick) /\ WF_vars(CloseJoined)
    /\ SF_vars(LoopEnds)
    /\ SF_vars(ConnectionClosed /\ (close_sent \/ Failed))

(* ---- properties ---- *)

PendingWrite ==
    [start : Nat, size : Nat, offset : Nat, fin : BOOLEAN,
     object_deadline : Nat, subgroup_deadline : Nat]

ReliableWrite == [id : Nat, stream : Requests]

MediaTypes ==
    /\ queue \in [Streams -> Seq(PendingWrite)]
    /\ subgroup_deadlines \in [Streams -> Nat]
    /\ pending_resets \in [AllStreams -> ResetCodes \cup {NoReset}]
    /\ pending_media_activations \subseteq Streams
    /\ media_streams_with_pending \subseteq Streams
    /\ timed_out_media_streams \subseteq Streams
ReliableTypes ==
    /\ pending_writes \in Seq(ReliableWrite) /\ handed \in Seq(ReliableWrite)
    /\ issued \in Nat /\ dropped \subseteq Nat
FlagTypes ==
    /\ last_error \in {"", "activation", "picoquic"}
    /\ disconnected \in BOOLEAN /\ loop_exited \in BOOLEAN
CloseTypes ==
    /\ close_requested \in BOOLEAN /\ close_sent \in BOOLEAN
    /\ drain_bound \in [value : Nat, negotiated : BOOLEAN]
    /\ drain_deadline \in Nat /\ issued_at_close \in Nat /\ closed \in BOOLEAN
LoopTypes ==
    /\ pc \in {"idle", "writes", "activate", "close", "unlocked", "exiting",
               "exited"}
    /\ writes \in Seq(ReliableWrite)
    /\ resets \in [AllStreams -> ResetCodes \cup {NoReset}]
    /\ activations \subseteq Streams /\ saw_close \in BOOLEAN
    /\ sending \in {<<>>} \cup (Streams \X Nat)
    /\ sending = <<>> <=> pc # "unlocked"
QuicTypes ==
    /\ active \subseteq Streams /\ fin_sent \subseteq Streams
    /\ reset_applied \in [AllStreams -> ResetCodes \cup {NoReset}]
    /\ stopped \subseteq AllStreams /\ backlog \subseteq AllStreams
HistTypes ==
    /\ ended \subseteq AllStreams
    /\ admitted \in [Streams -> Nat] /\ sent \in [Streams -> Nat]

\* Every variable has its type (queued_bytes: see Accounting), and the packet
\* loop holds copied bytes exactly while it is between unlock and lock.
TypeOK ==
    /\ now \in 0..MaxTime /\ peer_stopped_media_streams \subseteq AllStreams
    /\ MediaTypes /\ ReliableTypes /\ FlagTypes /\ CloseTypes /\ LoopTypes
    /\ QuicTypes /\ HistTypes

\* The budget counts exactly the bytes admitted and not yet handed to
\* picoquic, so it neither leaks (admission would block for ever) nor lets
\* more than the capacity be queued.  PendingMediaQueue subtracts on four
\* different paths (consume, clear_stream on reset, stop, expiry).
Accounting == queued_bytes = BytesOf(Streams) /\ queued_bytes <= Capacity

\* No lost wake-up: a stream with queued media counts against the close and
\* the packet loop is going to look at it, because its activation is still
\* requested, was swapped out by the running pass, or picoquic polls it.
NoStrandedMedia ==
    \A s \in Streams : queue[s] # <<>> =>
        /\ s \in media_streams_with_pending
        /\ s \in pending_media_activations \cup activations \cup active

\* Bytes handed to picoquic, with those copied out across the unlock.
HandedOver(s) ==
    sent[s] + (IF sending # <<>> /\ sending[1] = s THEN sending[2] ELSE 0)

\* What is queued continues what went out, without a gap or an overlap, up to
\* the last byte admitted: objects of a subgroup reach the wire in order even
\* when clears and resets race with the copy.
ContiguousDelivery ==
    \A s \in Streams :
        LET q == queue[s] IN q # <<>> =>
            /\ q[1].start + q[1].offset = HandedOver(s)
            /\ \A i \in 1..Len(q)-1 : q[i+1].start = q[i].start + q[i].size
            /\ q[Len(q)].start + q[Len(q)].size = admitted[s]

ResetUnderway(s) ==
    \/ pending_resets[s] # NoReset \/ reset_applied[s] # NoReset
    \/ resets[s] # NoReset /\ pc = "writes"

\* Admitted media is dropped only together with a reset of its stream or with
\* the connection, and a FIN ends a stream only at the last byte admitted to it:
\* a subscriber never sees a subgroup stop short silently.
NoSilentTruncation ==
    /\ \A s \in Streams :
        queue[s] = <<>> =>
            \/ HandedOver(s) = admitted[s]
            \/ ResetUnderway(s)
            \/ Failed \/ disconnected \/ loop_exited \/ closed
    /\ \A s \in fin_sent :
        sent[s] = admitted[s] /\ queue[s] = <<>> /\ s \in ended

\* Every admitted byte is accounted for: queued in order against the budget,
\* handed to picoquic once, or dropped where the subscriber can see it.
MediaAccounted == Accounting /\ ContiguousDelivery /\ NoSilentTruncation

\* The packet loop never asks picoquic to activate a finished or a reset
\* stream, which would fail the whole connection: the recheck of the queue
\* between the swap and the activation is what prevents it.
NoFatalActivation == last_error # "activation"

\* Reliable writes reach picoquic in the order of the write_stream() calls,
\* whatever was deferred and whatever was queued meanwhile.
ReliableInOrder ==
    LET waiting == handed \o (IF pc = "writes" THEN writes ELSE <<>>)
                          \o pending_writes
    IN  \A i \in 1..Len(waiting)-1 : waiting[i].id < waiting[i+1].id

HandedIds == {handed[i].id : i \in 1..Len(handed)}

\* The QUIC close is issued before the drain deadline only when everything
\* owed was delivered: each write_stream() from before close() reached picoquic
\* or its stream was closed by the peer, all queued media went out or its
\* stream was reset, and nothing (resets included) is left unacknowledged.  The
\* only resets it may overtake are ones another thread requests meanwhile.
CloseAfterDelivery ==
    [][close_sent' /\ ~close_sent =>
        \/ disconnected \/ Failed \/ now >= drain_deadline
        \/ /\ \A i \in 1..issued_at_close : i \in HandedIds \cup dropped
           /\ backlog = {}
           /\ \A s \in Streams :
                \/ sent[s] = admitted[s] \/ reset_applied[s] # NoReset
                \/ pending_resets[s] # NoReset /\ s \in ended]_vars

\* A subgroup deadline is enforced whether or not the session ever runs again:
\* a stream that has one is again without one later.
DeadlineEnforced ==
    \A s \in Streams : []<>(subgroup_deadlines[s] = NoDeadline)

\* close() returns: the drain cannot hold it for ever, not even when the peer
\* acknowledges nothing, resets keep being queued or the loop failed first.
\* (The request is never withdrawn, so this is close_requested ~> closed.)
CloseCompletes == []<>(close_requested => closed)
=============================================================================
