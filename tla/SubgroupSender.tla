--------------------------- MODULE SubgroupSender ---------------------------
(* SubgroupSenderState: one sender per subscription maps the subgroups of a
   track to QUIC streams, opens and finishes those streams, and holds the
   object a full transport refused.  The session thread runs one operation
   at a time; between any two of its transport calls the packet-loop thread
   may report that a stream expired or that the peer stopped it.

   A subgroup that finished, was reset or expired is closed for good.  One
   the peer stopped is reopened when a REQUEST_UPDATE renews the
   subscription (Forward 0 to 1, draft 18).  Both histories are bounded;
   a sender whose history is full fails instead of forgetting. *)
EXTENDS Integers, Sequences, FiniteSets

CONSTANTS
    Senders,        \* subscriptions, by request id
    Keys,           \* subgroups, as <<group id, subgroup id>>
    LastObject,     \* object ids of a subgroup are 0..LastObject
    Draft18,        \* renewal (draft 18) or UNSUBSCRIBE (earlier drafts)
    LiveSource,     \* FINs come from finish_group(), not with the last object
    MaxSparseRanges,      \* kMaximumSparseRanges
    MaxStreams,     \* bound: streams opened
    MaxUpdates      \* bound: REQUEST_UPDATEs

ASSUME SenderAssumption ==
    /\ Keys \subseteq Nat \X Nat /\ IsFiniteSet(Keys)
    /\ LastObject \in Nat /\ MaxSparseRanges \in Nat /\ MaxStreams \in Nat
    /\ MaxUpdates \in Nat /\ Draft18 \in BOOLEAN /\ LiveSource \in BOOLEAN

Objects == 0..LastObject
StreamIds == 1..MaxStreams
Locations == {k[1] : k \in Keys} \X Objects
None == -1
NoKey == <<>>
NoPending == [object |-> None, header |-> FALSE]

VARIABLES
    (* SubgroupSenderState, for each sender *)
    streams, last_object_id, pending_objects, stream_keys, closed_subgroups,
    peer_stopped_subgroups, completion_history_exhausted, stream_count,
    (* ActiveSubscription *)
    live, forward, start, admitted_objects, updates,
    (* the transport's event sets *)
    expired, peer_stopped,
    (* the operation the session thread is in *)
    phase, op, todo, changed, saw_expired,
    (* history: what happened to each stream *)
    opened, written, finished, reset, expired_ever, stopped_ever, stopped_at,
    renewals

senderVars == <<streams, last_object_id, pending_objects, stream_keys,
                closed_subgroups, peer_stopped_subgroups,
                completion_history_exhausted, stream_count>>
callerVars == <<live, forward, start, admitted_objects, updates>>
eventVars == <<expired, peer_stopped>>
opVars == <<phase, op, todo, changed, saw_expired>>
streamVars == <<opened, written, finished, reset>>
pastVars == <<expired_ever, stopped_ever, stopped_at, renewals>>
subgroupVars == <<senderVars, callerVars, eventVars, opVars, streamVars, pastVars>>

Idle == [kind |-> "none"]

SenderInit ==
    /\ streams = [c \in Senders |-> [k \in Keys |-> 0]]
    /\ last_object_id = [c \in Senders |-> [k \in Keys |-> None]]
    /\ pending_objects = [c \in Senders |-> [k \in Keys |-> NoPending]]
    /\ stream_keys = [c \in Senders |-> [i \in StreamIds |-> NoKey]]
    /\ closed_subgroups = [c \in Senders |-> {}]
    /\ peer_stopped_subgroups = [c \in Senders |-> {}]
    /\ completion_history_exhausted = [c \in Senders |-> FALSE]
    /\ stream_count = [c \in Senders |-> 0]
    /\ live = [c \in Senders |-> TRUE]
    /\ forward = [c \in Senders |-> 1]
    /\ start \in [Senders -> Locations]
    /\ admitted_objects = [c \in Senders |-> {}]
    /\ updates = [c \in Senders |-> 0]
    /\ expired = {} /\ peer_stopped = {}
    /\ phase = "idle" /\ op = Idle /\ todo = {} /\ changed = {}
    /\ saw_expired = FALSE
    /\ opened = <<>>
    /\ written = [i \in StreamIds |-> <<>>]
    /\ finished = {} /\ reset = {}
    /\ expired_ever = {} /\ stopped_ever = {}
    /\ stopped_at = [i \in StreamIds |-> [done |-> 0, begun |-> 0]]
    /\ renewals = [c \in Senders |-> 0]

(* ---- completion history and streams ---- *)

\* BoundedSubgroupCompletionTracker as the set it represents, in maximal runs
\* of consecutive groups; the ranges themselves are in CompletionTracker.
Runs(S) == {k \in S : <<k[1] - 1, k[2]>> \notin S}
Records(S, k) ==
    \/ k \in S
    \/ <<k[1] - 1, k[2]>> \in S \/ <<k[1] + 1, k[2]>> \in S
    \/ Cardinality(Runs(S)) < MaxSparseRanges
Recorded(S, k) == IF Records(S, k) THEN S \cup {k} ELSE S

is_closed(c, k) == k \in closed_subgroups[c] \cup peer_stopped_subgroups[c]

\* The streams the sender has open, as <<key, stream id>>.
OpenStreams(c) == {<<k, streams[c][k]>> : k \in {x \in Keys : streams[c][x] # 0}}

\* close_subgroup(): the stream, if it is open, is forgotten and the completion
\* recorded for good.
CloseSubgroup(c, k) ==
    /\ streams' = [streams EXCEPT ![c][k] = 0]
    /\ stream_keys' = IF streams[c][k] = 0 THEN stream_keys
            ELSE [stream_keys EXCEPT ![c][streams[c][k]] = NoKey]
    /\ pending_objects' = [pending_objects EXCEPT ![c][k] = NoPending]
    /\ closed_subgroups' = [closed_subgroups EXCEPT ![c] = Recorded(@, k)]
    /\ completion_history_exhausted' = [completion_history_exhausted EXCEPT
            ![c] = @ \/ ~Records(closed_subgroups[c], k)]
    /\ UNCHANGED <<last_object_id, peer_stopped_subgroups, stream_count>>

\* A stop the peer asked for is renewable; one that raced with expiry is not.
Renewable(stop, late) == stop /\ ~late

\* retire_transport_stream(): sender c, which owns stream i, gives it up.
Retire(c, i, stop, late) ==
    LET k == stream_keys[c][i]
        record == IF Renewable(stop, late) THEN peer_stopped_subgroups[c]
                                           ELSE closed_subgroups[c]
    IN  /\ streams' = [streams EXCEPT ![c][k] = IF @ = i THEN 0 ELSE @]
        /\ stream_keys' = [stream_keys EXCEPT ![c][i] = NoKey]
        /\ pending_objects' = [pending_objects EXCEPT ![c][k] = NoPending]
        /\ IF Renewable(stop, late)
             THEN /\ peer_stopped_subgroups' =
                        [peer_stopped_subgroups EXCEPT ![c] = Recorded(@, k)]
                  /\ UNCHANGED closed_subgroups
             ELSE /\ closed_subgroups' =
                        [closed_subgroups EXCEPT ![c] = Recorded(@, k)]
                  /\ UNCHANGED peer_stopped_subgroups
        /\ completion_history_exhausted' = [completion_history_exhausted
                EXCEPT ![c] = @ \/ ~Records(record, k)]
        /\ UNCHANGED <<last_object_id, stream_count>>

\* The session fails: serve_subscriptions() returns the operation's error.
SessionFails ==
    /\ phase' = "failed" /\ op' = Idle
    /\ UNCHANGED <<todo, changed, saw_expired>>
OperationDone ==
    /\ phase' = "idle" /\ op' = Idle
    /\ UNCHANGED <<todo, changed, saw_expired>>

(* ---- observe_transport_stream_state() ---- *)

Least(S) == CHOOSE i \in S : \A j \in S : i <= j

\* Every operation begins by looking at all streams the sender owns.
Observe(operation) ==
    /\ op' = operation
    /\ phase' = "scan"
    /\ todo' = {i \in StreamIds : stream_keys[operation.c][i] # NoKey}
    /\ changed' = {}
    /\ UNCHANGED saw_expired
Observed(kind) == phase = "scan" /\ todo = {} /\ changed = {} /\ op.kind = kind

\* First loop, one stream: two reads, each under the transport's mutex.
ScanExpired ==
    /\ phase = "scan" /\ todo # {}
    /\ saw_expired' = (Least(todo) \in expired)
    /\ phase' = "scan_stop"
    /\ UNCHANGED <<op, todo, changed, senderVars, callerVars, eventVars,
                   streamVars, pastVars>>
ScanPeerStopped ==
    /\ phase = "scan_stop"
    /\ changed' = IF saw_expired \/ Least(todo) \in peer_stopped
                    THEN changed \cup {Least(todo)} ELSE changed
    /\ todo' = todo \ {Least(todo)}
    /\ phase' = "scan"
    /\ UNCHANGED <<op, saw_expired, senderVars, callerVars, eventVars,
                   streamVars, pastVars>>

\* Mutant: expiry is not read again.
RereadMutant == FALSE
\* Second loop, one stream that changed: expiry is read again, ...
Reread == Least(changed) \in expired
RetireReads ==
    /\ phase = "scan" /\ todo = {} /\ changed # {}
    /\ saw_expired' = Reread
    /\ phase' = "retire"
    /\ UNCHANGED <<op, todo, changed, senderVars, callerVars, eventVars,
                   streamVars, pastVars>>
\* ... then the stop, and the stream is retired and its events acknowledged.
RetireObserved ==
    LET i == Least(changed)
        stop == i \in peer_stopped
    IN  /\ phase = "retire"
        /\ Retire(op.c, i, stop, saw_expired)
        /\ expired' = IF saw_expired THEN expired \ {i} ELSE expired
        /\ peer_stopped' = IF stop THEN peer_stopped \ {i} ELSE peer_stopped
        /\ changed' = changed \ {i}
        /\ phase' = "scan"
        /\ UNCHANGED <<op, todo, saw_expired, callerVars, streamVars, pastVars>>

(* ---- try_serve() ---- *)

\* object_matches_filter() for the filters without an end.
Matches(location, k, o) ==
    k[1] > location[1] \/ (k[1] = location[1] /\ o >= location[2])
\* The objects the subgroup's frontier still holds, lowest id first.
Frontier(c, k) ==
    {o \in Objects : <<k, o>> \notin admitted_objects[c] /\ Matches(start[c], k, o)}

\* The scheduler offers the first object of a frontier.
Serve(c, k) ==
    /\ phase = "idle" /\ live[c] /\ forward[c] = 1
    /\ Frontier(c, k) # {}
    /\ Observe([kind |-> "serve", c |-> c, k |-> k,
                object |-> Least(Frontier(c, k))])
    /\ UNCHANGED <<senderVars, callerVars, eventVars, streamVars, pastVars>>

\* kSkipped or kAccepted: the frontier moves past the object.
Admit ==
    /\ admitted_objects' = [admitted_objects EXCEPT
            ![op.c] = @ \cup {<<op.k, op.object>>}]
    /\ UNCHANGED <<live, forward, start, updates>>
Skip == Admit /\ OperationDone
\* A completion that could not be recorded fails the operation.
SkipIfRecorded ==
    IF op.k \in closed_subgroups'[op.c]
      THEN Skip
      ELSE SessionFails /\ UNCHANGED callerVars

\* The object is late: its stream, if it has one, is reset for good.
\* reset_stream() with DELIVERY_TIMEOUT also marks the stream expired.
ResetSubgroup(c, k) ==
    LET i == streams[c][k]
    IN  /\ CloseSubgroup(c, k)
        /\ reset' = reset \cup ({i} \ {0})
        /\ expired' = expired \cup ({i} \ {0})
        /\ UNCHANGED <<opened, written, finished, peer_stopped>>

FailsClosed(c) == completion_history_exhausted[c]

ServeRejected ==
    /\ Observed("serve")
    /\ FailsClosed(op.c)
    /\ SessionFails
    /\ UNCHANGED <<senderVars, callerVars, eventVars, streamVars, pastVars>>
ServeClosed ==
    /\ Observed("serve")
    /\ ~FailsClosed(op.c) /\ is_closed(op.c, op.k)
    /\ Skip
    /\ UNCHANGED <<senderVars, eventVars, streamVars, pastVars>>
Servable == Observed("serve") /\ ~FailsClosed(op.c) /\ ~is_closed(op.c, op.k)

ServeLate ==
    /\ Servable
    /\ pending_objects[op.c][op.k] = NoPending
    /\ ResetSubgroup(op.c, op.k)
    /\ SkipIfRecorded
    /\ UNCHANGED pastVars

\* The pending object is not the one offered, or the encoder refuses an
\* object id that does not increase within the stream.
ServeOutOfOrder ==
    LET pending == pending_objects[op.c][op.k].object
    IN  /\ Servable
        /\ \/ pending \notin {None, op.object}
           \/ /\ pending = None
              /\ streams[op.c][op.k] # 0
              /\ op.object <= last_object_id[op.c][op.k]
        /\ SessionFails
        /\ UNCHANGED <<senderVars, callerVars, eventVars, streamVars, pastVars>>

\* The object becomes the subgroup's pending object, behind a subgroup header
\* if its stream is new.
Enqueue(new) ==
    /\ pending_objects' = [pending_objects EXCEPT
            ![op.c][op.k] = [object |-> op.object, header |-> new]]
    /\ phase' = "write"
    /\ UNCHANGED <<op, todo, changed, saw_expired, closed_subgroups,
                   peer_stopped_subgroups, completion_history_exhausted,
                   callerVars, eventVars, written, finished, reset, pastVars>>
ServeOnNewStream ==
    LET i == Len(opened) + 1
    IN  /\ Servable
        /\ streams[op.c][op.k] = 0
        /\ i \in StreamIds
        /\ opened' = Append(opened, [c |-> op.c, k |-> op.k,
                                     renewal |-> renewals[op.c]])
        /\ streams' = [streams EXCEPT ![op.c][op.k] = i]
        /\ stream_keys' = [stream_keys EXCEPT ![op.c][i] = op.k]
        /\ last_object_id' = [last_object_id EXCEPT ![op.c][op.k] = None]
        /\ stream_count' = [stream_count EXCEPT ![op.c] = @ + 1]
        /\ Enqueue(TRUE)
ServeOnOpenStream ==
    /\ Servable
    /\ streams[op.c][op.k] # 0
    /\ pending_objects[op.c][op.k] = NoPending
    /\ op.object > last_object_id[op.c][op.k]
    /\ UNCHANGED <<opened, streams, stream_keys, last_object_id, stream_count>>
    /\ Enqueue(FALSE)
ServePending ==
    /\ Servable
    /\ pending_objects[op.c][op.k].object = op.object
    /\ phase' = "write"
    /\ UNCHANGED <<op, todo, changed, saw_expired, senderVars, callerVars,
                   eventVars, streamVars, pastVars>>

(* The write itself, once the pending object has a stream. *)
Writes == phase = "write" /\ op.kind = "serve"
Refuses(i) == i \in expired \cup peer_stopped

WriteLate ==
    /\ Writes
    /\ ResetSubgroup(op.c, op.k)
    /\ SkipIfRecorded
    /\ UNCHANGED pastVars
\* Mutant: the object is passed over.
WriteBlockedMutant ==
    /\ Writes
    /\ ~Refuses(streams[op.c][op.k])
    /\ Skip
    /\ UNCHANGED <<senderVars, eventVars, streamVars, pastVars>>
\* kWouldBlock: the object stays pending and the scheduler tries others.
WriteBlocked ==
    /\ Writes
    /\ ~Refuses(streams[op.c][op.k])
    /\ OperationDone
    /\ UNCHANGED <<senderVars, callerVars, eventVars, streamVars, pastVars>>
\* kFailed: look again; only a stream that ended explains the refusal.
WriteRefused ==
    /\ Writes
    /\ Refuses(streams[op.c][op.k])
    /\ Observe([op EXCEPT !.kind = "recheck"])
    /\ UNCHANGED <<senderVars, callerVars, eventVars, streamVars, pastVars>>
Recheck ==
    /\ Observed("recheck")
    /\ IF is_closed(op.c, op.k)
         THEN Skip
         ELSE SessionFails /\ UNCHANGED callerVars
    /\ UNCHANGED <<senderVars, eventVars, streamVars, pastVars>>

\* kAccepted: the transport has the bytes.
Accepted(i) ==
    /\ Writes
    /\ ~Refuses(i)
    /\ written' = [written EXCEPT ![i] =
            Append(@, pending_objects[op.c][op.k])]
    /\ UNCHANGED <<opened, reset, eventVars, pastVars>>
WriteAccepted ==
    /\ op.kind = "serve" /\ (op.object # LastObject \/ LiveSource)
    /\ Accepted(streams[op.c][op.k])
    /\ last_object_id' = [last_object_id EXCEPT ![op.c][op.k] = op.object]
    /\ pending_objects' = [pending_objects EXCEPT ![op.c][op.k] = NoPending]
    /\ Skip
    /\ UNCHANGED <<finished, streams, stream_keys, stream_count,
                   closed_subgroups, peer_stopped_subgroups,
                   completion_history_exhausted>>
\* The subgroup's last object carries the FIN.
WriteFinAccepted ==
    /\ op.kind = "serve" /\ op.object = LastObject /\ ~LiveSource
    /\ Accepted(streams[op.c][op.k])
    /\ finished' = finished \cup {streams[op.c][op.k]}
    /\ CloseSubgroup(op.c, op.k)
    /\ SkipIfRecorded

(* ---- finish_group() ---- *)

KeyBefore(a, b) == a[1] < b[1] \/ (a[1] = b[1] /\ a[2] <= b[2])
FirstOpen(S) == CHOOSE p \in S : \A q \in S : KeyBefore(p[1], q[1])

\* UNSUBSCRIBE, before draft 18: finish every open stream, then PUBLISH_DONE.
Unsubscribe(c) ==
    /\ phase = "idle" /\ live[c] /\ ~Draft18
    /\ Observe([kind |-> "finish", c |-> c, open |-> {}, ends |-> TRUE])
    /\ UNCHANGED <<senderVars, callerVars, eventVars, streamVars, pastVars>>
\* A live source moves to its next group once the open ones are written.
FinishGroup(c) ==
    /\ phase = "idle" /\ live[c] /\ LiveSource
    /\ OpenStreams(c) # {}
    /\ \A p \in OpenStreams(c) : Frontier(c, p[1]) = {}
    /\ Observe([kind |-> "finish", c |-> c, open |-> {}, ends |-> FALSE])
    /\ UNCHANGED <<senderVars, callerVars, eventVars, streamVars, pastVars>>

FinishBegin ==
    /\ Observed("finish")
    /\ IF FailsClosed(op.c)
         THEN SessionFails
         ELSE /\ op' = [op EXCEPT !.open = OpenStreams(op.c)]
              /\ phase' = "finish"
              /\ UNCHANGED <<todo, changed, saw_expired>>
    /\ UNCHANGED <<senderVars, callerVars, eventVars, streamVars, pastVars>>

\* On to the next stream, unless the completion could not be recorded.
Finishes == phase = "finish" /\ op.open # {}
Finishing == FirstOpen(op.open)
FinishNext ==
    IF Finishing[1] \in closed_subgroups'[op.c]
      THEN /\ op' = [op EXCEPT !.kind = "finish", !.open = @ \ {Finishing}]
           /\ phase' = "finish"
           /\ UNCHANGED <<todo, changed, saw_expired>>
      ELSE SessionFails

\* Another stream's refusal already retired this one.
FinishSkips ==
    /\ Finishes
    /\ is_closed(op.c, Finishing[1])
    /\ op' = [op EXCEPT !.open = @ \ {Finishing}]
    /\ UNCHANGED <<phase, todo, changed, saw_expired, senderVars, callerVars,
                   eventVars, streamVars, pastVars>>
\* The subgroup deadline passes while the FIN waits (live sources only).
FinishLate ==
    /\ Finishes
    /\ ~op.ends /\ ~is_closed(op.c, Finishing[1])
    /\ ResetSubgroup(op.c, Finishing[1])
    /\ FinishNext
    /\ UNCHANGED <<callerVars, pastVars>>
FinishAccepted ==
    /\ Finishes
    /\ ~is_closed(op.c, Finishing[1]) /\ ~Refuses(Finishing[2])
    /\ finished' = finished \cup {Finishing[2]}
    /\ CloseSubgroup(op.c, Finishing[1])
    /\ FinishNext
    /\ UNCHANGED <<callerVars, eventVars, opened, written, reset, pastVars>>
FinishRefused ==
    /\ Finishes
    /\ ~is_closed(op.c, Finishing[1]) /\ Refuses(Finishing[2])
    /\ pending_objects' = [pending_objects EXCEPT
            ![op.c][Finishing[1]] = NoPending]
    /\ Observe([op EXCEPT !.kind = "finish_recheck"])
    /\ UNCHANGED <<streams, last_object_id, stream_keys, closed_subgroups,
                   peer_stopped_subgroups, completion_history_exhausted,
                   stream_count, callerVars, eventVars, streamVars, pastVars>>
\* A stopped stream is recorded for good too: finish_group() ends the group.
FinishRecheck ==
    /\ Observed("finish_recheck")
    /\ IF is_closed(op.c, Finishing[1])
         THEN CloseSubgroup(op.c, Finishing[1]) /\ FinishNext
         ELSE SessionFails /\ UNCHANGED senderVars
    /\ UNCHANGED <<callerVars, eventVars, streamVars, pastVars>>

\* The loop is over: forget every stream; UNSUBSCRIBE ends the subscription.
FinishEnd ==
    /\ phase = "finish" /\ op.open = {}
    /\ streams' = [streams EXCEPT ![op.c] = [k \in Keys |-> 0]]
    /\ stream_keys' = [stream_keys EXCEPT ![op.c] = [i \in StreamIds |-> NoKey]]
    /\ pending_objects' = [pending_objects EXCEPT
            ![op.c] = [k \in Keys |-> NoPending]]
    /\ live' = [live EXCEPT ![op.c] = ~op.ends]
    /\ OperationDone
    /\ UNCHANGED <<last_object_id, closed_subgroups, peer_stopped_subgroups,
                   completion_history_exhausted, stream_count, forward, start,
                   admitted_objects, updates, eventVars, streamVars, pastVars>>

(* ---- REQUEST_UPDATE, the stall victim, completion ---- *)

\* discard_unadmitted(), for each pending object the filter no longer matches:
\* a stream nothing was admitted to is forgotten with its object.
Unmatched(c) == {k \in Keys : /\ pending_objects[c][k] # NoPending
                              /\ ~Matches(start'[c], k, pending_objects[c][k].object)}
Unused(c) == {k \in Unmatched(c) : last_object_id[c][k] = None}
Uncounted(c) == Cardinality(Unused(c))
Discard(c) ==
    /\ pending_objects' = [pending_objects EXCEPT ![c] = [k \in Keys |->
            IF k \in Unmatched(c) THEN NoPending ELSE pending_objects[c][k]]]
    /\ streams' = [streams EXCEPT ![c] = [k \in Keys |->
            IF k \in Unused(c) THEN 0 ELSE streams[c][k]]]
    /\ stream_keys' = [stream_keys EXCEPT ![c] = [i \in StreamIds |->
            IF stream_keys[c][i] \in Unused(c) THEN NoKey
                                               ELSE stream_keys[c][i]]]
    /\ stream_count' = [stream_count EXCEPT ![c] = @ - Uncounted(c)]

\* apply_request_update(): the new filter and Forward value.
ApplyUpdate(c, location, fwd) ==
    /\ start' = [start EXCEPT ![c] = location]
    /\ forward' = [forward EXCEPT ![c] = fwd]
    /\ updates' = [updates EXCEPT ![c] = @ + 1]
    /\ UNCHANGED <<live, admitted_objects>>
Renews(c, fwd) == Draft18 /\ forward[c] = 0 /\ fwd = 1

RequestUpdate(c, location, fwd) ==
    /\ phase = "idle" /\ live[c] /\ updates[c] < MaxUpdates
    /\ ~Renews(c, fwd)
    /\ ApplyUpdate(c, location, fwd)
    /\ Discard(c)
    /\ UNCHANGED <<last_object_id, closed_subgroups, peer_stopped_subgroups,
                   completion_history_exhausted, eventVars, opVars, streamVars,
                   pastVars>>
\* renew_peer_stopped_subgroups() looks at the streams before it clears.
Renew(c) == Observe([kind |-> "renew", c |-> c])
RequestRenewal(c, location, fwd) ==
    /\ phase = "idle" /\ live[c] /\ updates[c] < MaxUpdates
    /\ Renews(c, fwd)
    /\ ApplyUpdate(c, location, fwd)
    /\ Renew(c)
    /\ UNCHANGED <<senderVars, eventVars, streamVars, pastVars>>
RenewEnd ==
    /\ Observed("renew")
    /\ peer_stopped_subgroups' = [peer_stopped_subgroups EXCEPT ![op.c] = {}]
    /\ UNCHANGED callerVars
    /\ Discard(op.c)
    /\ renewals' = [renewals EXCEPT ![op.c] = @ + 1]
    /\ OperationDone
    /\ UNCHANGED <<last_object_id, closed_subgroups,
                   completion_history_exhausted, eventVars, streamVars,
                   expired_ever, stopped_ever, stopped_at>>

\* The stall timer picks a blocked subscription and cancels it.
StallCancel(c) ==
    /\ phase = "idle" /\ live[c] /\ forward[c] = 1
    /\ \E k \in Keys : pending_objects[c][k] # NoPending
    /\ Observe([kind |-> "cancel", c |-> c, open |-> {}, ok |-> TRUE])
    /\ UNCHANGED <<senderVars, callerVars, eventVars, streamVars, pastVars>>
\* cancel_all_open_subgroups(): every stream is reset, whatever became of those
\* before it.
CancelBegin ==
    /\ Observed("cancel")
    /\ op' = [op EXCEPT !.open = OpenStreams(op.c)]
    /\ phase' = "cancel"
    /\ UNCHANGED <<todo, changed, saw_expired, senderVars, callerVars, eventVars,
                   streamVars, pastVars>>
CancelNext ==
    LET k == Finishing[1]
    IN  /\ phase = "cancel" /\ op.open # {}
        /\ CloseSubgroup(op.c, k)
        /\ reset' = reset \cup {Finishing[2]}
        /\ op' = [op EXCEPT !.open = @ \ {Finishing},
                            !.ok = @ /\ k \in closed_subgroups'[op.c]]
        /\ UNCHANGED <<phase, todo, changed, saw_expired, callerVars, eventVars,
                       opened, written, finished, pastVars>>
\* The first failure is returned when the loop is over.
CancelEnd ==
    /\ phase = "cancel" /\ op.open = {}
    /\ IF op.ok
         THEN live' = [live EXCEPT ![op.c] = FALSE] /\ OperationDone
         ELSE UNCHANGED live /\ SessionFails
    /\ UNCHANGED <<forward, start, admitted_objects, updates, senderVars,
                   eventVars, streamVars, pastVars>>

\* Every matching object was admitted: PUBLISH_DONE, and the sender is gone.
Complete(c) ==
    /\ phase = "idle" /\ live[c]
    /\ \A k \in Keys : Frontier(c, k) = {}
    /\ LiveSource => OpenStreams(c) = {}
    /\ live' = [live EXCEPT ![c] = FALSE]
    /\ UNCHANGED <<senderVars, forward, start, admitted_objects, updates,
                   eventVars, opVars, streamVars, pastVars>>

(* ---- dispatch_peer_stopped_media_streams() ---- *)

Owners(i) == {c \in Senders : live[c] /\ stream_keys[c][i] # NoKey}
\* Mutant: the end of the stream is not recorded.
RetireOwnedMutant(i, stop, late) == UNCHANGED senderVars
RetireOwned(i, stop, late) ==
    IF Owners(i) = {} THEN UNCHANGED senderVars
    ELSE \E c \in Owners(i) : Retire(c, i, stop, late)

Dispatch ==
    /\ phase = "idle"
    /\ phase' = "expiry" /\ todo' = expired
    /\ UNCHANGED <<op, changed, saw_expired, senderVars, callerVars, eventVars,
                   streamVars, pastVars>>
DispatchExpiry ==
    /\ phase = "expiry" /\ todo # {}
    /\ RetireOwned(Least(todo), FALSE, TRUE)
    /\ expired' = expired \ {Least(todo)}
    /\ todo' = todo \ {Least(todo)}
    /\ UNCHANGED <<phase, op, changed, saw_expired, callerVars, peer_stopped,
                   streamVars, pastVars>>
DispatchStops ==
    /\ phase = "expiry" /\ todo = {}
    /\ phase' = "stops" /\ todo' = peer_stopped
    /\ UNCHANGED <<op, changed, saw_expired, senderVars, callerVars, eventVars,
                   streamVars, pastVars>>
DispatchStop ==
    LET i == Least(todo)
    IN  /\ phase = "stops" /\ todo # {}
        /\ RetireOwned(i, TRUE, i \in expired)
        /\ peer_stopped' = peer_stopped \ {i}
        /\ todo' = todo \ {i}
        /\ UNCHANGED <<phase, op, changed, saw_expired, callerVars, expired,
                       streamVars, pastVars>>
DispatchEnd ==
    /\ phase = "stops" /\ todo = {}
    /\ IF \E c \in Senders : live[c] /\ completion_history_exhausted[c]
         THEN SessionFails ELSE OperationDone
    /\ UNCHANGED <<senderVars, callerVars, eventVars, streamVars, pastVars>>

(* ---- transport events ---- *)

Used(i) == written[i] # <<>> \/ i \in finished

\* A deadline passed: the packet loop resets the stream and reports it.  Media
\* of a stream that was stopped or reset is gone and expires no more.
Expires(i) ==
    /\ phase # "failed"
    /\ Used(i) /\ i \notin expired_ever \cup stopped_ever \cup reset
    /\ expired' = expired \cup {i}
    /\ expired_ever' = expired_ever \cup {i}
    /\ UNCHANGED <<peer_stopped, stopped_ever, stopped_at, renewals, senderVars,
                   callerVars, opVars, streamVars>>
\* STOP_SENDING for a stream the peer has seen.
PeerStops(i) ==
    LET c == opened[i].c
    IN  /\ phase # "failed"
        /\ Used(i) /\ i \notin stopped_ever
        /\ peer_stopped' = peer_stopped \cup {i}
        /\ stopped_ever' = stopped_ever \cup {i}
        /\ stopped_at' = [stopped_at EXCEPT ![i] = [done |-> renewals[c],
                begun |-> IF op.kind = "renew" /\ op.c = c
                            THEN renewals[c] + 1 ELSE renewals[c]]]
        /\ UNCHANGED <<expired, expired_ever, renewals, senderVars, callerVars,
                       opVars, streamVars>>

Finished == phase = "failed" \/ \A c \in Senders : ~live[c]
SenderTerminated == Finished /\ UNCHANGED subgroupVars

ServeStep ==
    \/ \E c \in Senders, k \in Keys : Serve(c, k)
    \/ ServeRejected \/ ServeClosed \/ ServeLate \/ ServeOutOfOrder
    \/ ServeOnNewStream \/ ServeOnOpenStream \/ ServePending
    \/ WriteLate \/ WriteBlocked \/ WriteRefused \/ Recheck
    \/ WriteAccepted \/ WriteFinAccepted
FinishStep ==
    \/ \E c \in Senders : Unsubscribe(c) \/ FinishGroup(c)
    \/ FinishBegin \/ FinishSkips \/ FinishLate \/ FinishAccepted
    \/ FinishRefused \/ FinishRecheck \/ FinishEnd
UpdateStep ==
    \/ \E c \in Senders, location \in Locations, fwd \in {0, 1} :
            RequestUpdate(c, location, fwd) \/ RequestRenewal(c, location, fwd)
    \/ RenewEnd
    \/ \E c \in Senders : StallCancel(c) \/ Complete(c)
    \/ CancelBegin \/ CancelNext \/ CancelEnd
DispatchStep ==
    Dispatch \/ DispatchExpiry \/ DispatchStops \/ DispatchStop \/ DispatchEnd
ObserveStep ==
    ScanExpired \/ ScanPeerStopped \/ RetireReads \/ RetireObserved
TransportStep == \E i \in StreamIds : Expires(i) \/ PeerStops(i)

SenderNext ==
    \/ ServeStep \/ FinishStep \/ UpdateStep \/ DispatchStep
    \/ ObserveStep \/ TransportStep \/ SenderTerminated

SenderSpec == SenderInit /\ [][SenderNext]_subgroupVars

(* ---- properties ---- *)

Pending == [object : Objects \cup {None}, header : BOOLEAN]
SenderTypes ==
    /\ streams \in [Senders -> [Keys -> StreamIds \cup {0}]]
    /\ last_object_id \in [Senders -> [Keys -> Objects \cup {None}]]
    /\ pending_objects \in [Senders -> [Keys -> Pending]]
    /\ stream_keys \in [Senders -> [StreamIds -> Keys \cup {NoKey}]]
    /\ closed_subgroups \in [Senders -> SUBSET Keys]
    /\ peer_stopped_subgroups \in [Senders -> SUBSET Keys]
    /\ completion_history_exhausted \in [Senders -> BOOLEAN]
    /\ stream_count \in [Senders -> Nat]
CallerTypes ==
    /\ live \in [Senders -> BOOLEAN] /\ forward \in [Senders -> {0, 1}]
    /\ start \in [Senders -> Locations]
    /\ admitted_objects \in [Senders -> SUBSET (Keys \X Objects)]
    /\ updates \in [Senders -> 0..MaxUpdates]
    /\ renewals \in [Senders -> 0..MaxUpdates]
EventTypes ==
    /\ expired \subseteq StreamIds /\ peer_stopped \subseteq StreamIds
    /\ todo \subseteq StreamIds /\ changed \subseteq StreamIds
    /\ finished \subseteq StreamIds /\ reset \subseteq StreamIds
    /\ expired_ever \subseteq StreamIds /\ stopped_ever \subseteq StreamIds
    /\ opened \in Seq([c : Senders, k : Keys, renewal : 0..MaxUpdates])
\* The sender's maps keep their types; stream_count never wraps below zero
\* and no stream carries more than the track has.
SenderTypeOK == SenderTypes /\ CallerTypes /\ EventTypes

OpenedIds == 1..Len(opened)
OwnedBy(i, c, k) == opened[i].c = c /\ opened[i].k = k

\* A sender only writes to, finishes or resets a stream that has not ended: an
\* open stream was neither finished nor reset, its end, if it ended, is still
\* waiting to be observed, and a pending object always has its stream
\* (try_serve's second lookup never misses).  This is what PicoquicClient
\* relies on when it forgets an acknowledged stream.
OpenStreamsAreUsable ==
    /\ \A c \in Senders : live[c] => \A k \in Keys :
        LET i == streams[c][k]
        IN  i # 0 => /\ OwnedBy(i, c, k) /\ stream_keys[c][i] = k
                     /\ i \notin finished \cup reset
                     /\ i \in expired_ever => i \in expired
                     /\ i \in stopped_ever => i \in peer_stopped
    /\ \A c \in Senders, k \in Keys :
            pending_objects[c][k] # NoPending => streams[c][k] # 0

\* The subgroup is given a second stream only when nothing was admitted to the
\* first (discard_unadmitted), or when the peer stopped the first and a
\* renewal completed in between; never after a FIN, a reset or an expiry, in
\* whatever order expiry and stop reach the sender's reads of the transport,
\* and however the bounded histories fill up.
ReopenOnlyAfterRenewal ==
    \A i, j \in OpenedIds :
        (i < j /\ OwnedBy(i, opened[j].c, opened[j].k)) =>
            \/ ~Used(i) /\ i \notin reset
            \/ /\ i \in stopped_ever \ (finished \cup reset \cup expired_ever)
               /\ stopped_at[i].done < opened[j].renewal

\* A completed renewal renews: a subgroup still recorded as stopped was stopped
\* after the last renewal began, so its objects are not skipped on account of
\* a stop the subscriber has already taken back.
RenewalReopens ==
    op.kind # "renew" =>
        \A c \in Senders : \A k \in peer_stopped_subgroups[c] :
            \E i \in OpenedIds \cap stopped_ever :
                OwnedBy(i, c, k) /\ stopped_at[i].begun >= renewals[c]

\* What a subscriber reads on a stream: one subgroup header, first, and
\* strictly increasing object ids.
StreamsWellFormed ==
    \A i \in StreamIds : \A n \in 1..Len(written[i]) :
        /\ written[i][n].header <=> n = 1
        /\ n > 1 => written[i][n - 1].object < written[i][n].object

\* PUBLISH_DONE's Stream Count is the number of streams the subscriber can see
\* (opened and not discarded before anything was admitted).
StreamCountExact ==
    \A c \in Senders :
        stream_count[c] = Cardinality({i \in OpenedIds : opened[i].c = c /\
            (Used(i) \/ i \in reset \/ streams[c][opened[i].k] = i)})

\* The frontier passes an object only if the transport took it or its subgroup
\* ended: a blocked or refused object is never dropped on the way.
NoSilentSkip ==
    \A c \in Senders : \A a \in admitted_objects[c] :
        \/ a[1] \in closed_subgroups[c]
        \/ \E i \in OpenedIds :
            /\ OwnedBy(i, c, a[1])
            /\ \/ i \in stopped_ever
               \/ \E n \in 1..Len(written[i]) : written[i][n].object = a[2]

\* Until a REQUEST_UPDATE has moved a subscription, the session only fails when
\* a completion history is full: no order of expiries, stops and refused writes is mistaken for a
\* transport failure.
FailsOnlyExhausted ==
    phase = "failed" => \E c \in Senders :
        completion_history_exhausted[c] \/ updates[c] > 0

\* On the wire: every stream a sender holds is still usable, carries one
\* header and ordered objects, and is counted once in PUBLISH_DONE, in
\* whatever order the transport's events meet the sender's operations.
StreamsSound ==
    SenderTypeOK /\ OpenStreamsAreUsable /\ StreamsWellFormed /\ StreamCountExact

\* A subgroup is given a second stream only by a renewal, and a renewal gives
\* every stopped subgroup its chance of one.
RenewalSound == ReopenOnlyAfterRenewal /\ RenewalReopens

\* No object is passed over without a reason the subscriber can see, and the
\* session does not fail without one.
NothingSkipped == NoSilentSkip /\ FailsOnlyExhausted
=============================================================================
