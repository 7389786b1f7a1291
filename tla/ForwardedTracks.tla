-------------------------- MODULE ForwardedTracks --------------------------
(* MoqtSession::publish for a batch plan (moqt_session.cpp): the setup
   exchange, PUBLISH_NAMESPACE, one PUBLISH per track, and the passes over
   the plan that send what the peer asked to have forwarded.  A relay may
   answer PUBLISH_OK with forward=0 and switch a track later with a
   REQUEST_UPDATE, so the passes race the updates.

   Drafts 14 and 16 share one control stream: whatever is not the answer
   waited for is deferred.  From draft 17 every request has its own
   stream.  A control message is a record; n numbers the messages of the
   control stream.  The sender is abstract: an object handed to it counts
   as sent (SubgroupSender has the details), and writes succeed. *)
EXTENDS Integers, Sequences, FiniteSets, SequencesExt, FiniteSetsExt, Functions

CONSTANTS
  PublishTracks, \* build_published_tracks: the tracks, in publish order
  Plan,          \* the track of each object of the plan
  Loopable,      \* tracks with loopable objects
  CatalogTracks, \* the tracks publish_catalog_ publishes: the catalog, never looped
  Scenarios,     \* <<draft, auto_forward_, loop>> to start from
  PeerMaxIds,    \* MAX_REQUEST_ID values a peer grants, 0 for none
  MaxUpdates,    \* bound: REQUEST_UPDATEs of the peer
  MaxOthers,     \* bound: other messages of the peer
  MaxCycle       \* bound: cycles of a looping input

TrackSet == Range(PublishTracks)

\* build_published_tracks lists each track of the plan once.
ASSUME PublishAssumption ==
  /\ PublishTracks \in Seq(TrackSet) /\ IsInjective(PublishTracks)
  /\ Plan \in Seq(TrackSet) /\ Loopable \subseteq Range(Plan)
  /\ Scenarios \subseteq {14, 16, 17, 18} \X BOOLEAN \X BOOLEAN
  /\ PeerMaxIds \subseteq Nat

VARIABLES
  draft, autoForward, looping,
  pc,             \* where publish() is
  result,         \* "none", "success", "failure", "rejected" or "violation"
  inbox,          \* control messages of the peer not yet read
  pending,        \* pending_control_bytes_, whole messages
  deferred,       \* deferred_messages of collect_control_acknowledgements
  sawSetup, peerMax,
  nextRequest,    \* next_request_id
  streamIn,       \* answers and updates on each request stream
  finished,       \* requests whose stream the peer finished
  stopped,        \* requests with an unclaimed STOP_SENDING of the peer
  forward,        \* publish_ok_by_request_id, the forward flag
  terminated,     \* terminated_publish_request_ids
  expected,       \* next_draft16_request_id_ of the PeerRequestIdValidator
  index, cycle, only, downgraded, replayed,
  sent,           \* history: the plan indices handed to the sender, per track
  done,           \* requests that were sent PUBLISH_DONE
  handled,        \* history: numbers of the control messages that were acted on
  stops,          \* history: requests whose stop was claimed
  count, updates, others, peerId, waiting

setupVars == <<draft, autoForward, looping>>
controlVars == <<inbox, pending, deferred, handled>>
peerVars == <<count, updates, others, peerId>>
requestVars == <<nextRequest, streamIn, finished, stopped, forward, terminated, expected, stops>>
passVars == <<index, cycle, only, downgraded, replayed, sent, done>>
vars == <<setupVars, pc, result, controlVars, sawSetup, peerMax, requestVars, passVars,
          peerVars, waiting>>

-----------------------------------------------------------------------------
(* Requests. *)

UsesRequestStreams == draft >= 17
UsesPeerMaxRequestId == draft < 17
CanReceiveUpdates == draft = 16 \/ draft >= 18

\* The numbers of a set in ascending order.
Ascending(S) ==
  CHOOSE f \in [1..Cardinality(S) -> S] : \A i, j \in DOMAIN f : i < j => f[i] < f[j]

\* publish_selected_tracks announces the catalog only.
Selected ==
  LET places == Ascending({i \in DOMAIN PublishTracks : PublishTracks[i] \in CatalogTracks})
  IN  [i \in DOMAIN places |-> PublishTracks[places[i]]]

\* The tracks this publish announces, in order, and their request ids.
Published == IF autoForward THEN PublishTracks ELSE Selected
RequestOf(t) == 2 * (CHOOSE i \in DOMAIN Published : Published[i] = t)
RequestIds == {2 * i : i \in DOMAIN Published}
TrackOf(r) == Published[r \div 2]
AllIds == 0..(2 * Len(PublishTracks) + 2)

Objects(t) == {i \in DOMAIN Plan : Plan[i] = t}
AnyForwarding == \E r \in DOMAIN forward : forward[r] # 0

Running == result = "none"
At(p) == Running /\ pc = p
End(outcome) == result' = outcome /\ pc' = "ended"

Init ==
  /\ \E s \in Scenarios : draft = s[1] /\ autoForward = s[2] /\ looping = s[3]
  /\ pc = "connected" /\ result = "none"
  /\ inbox = <<>> /\ pending = <<>> /\ deferred = <<>> /\ handled = {}
  /\ sawSetup = FALSE /\ peerMax = 0 /\ nextRequest = 2
  /\ streamIn = [r \in AllIds |-> <<>>] /\ finished = {} /\ stopped = {}
  /\ forward = <<>> /\ terminated = {} /\ expected = 1 /\ stops = {}
  /\ index = 1 /\ cycle = 0 /\ only = {} /\ downgraded = {} /\ replayed = {}
  /\ sent = [t \in TrackSet |-> <<>>] /\ done = {}
  /\ count = 0 /\ updates = 0 /\ others = 0 /\ peerId = 1
  /\ waiting = {}

-----------------------------------------------------------------------------
(* The peer.  Answers follow requests; updates and other messages come at
   any time after.  `waiting` is what the peer may still answer. *)

Post(m) ==
  /\ inbox' = Append(inbox, [m EXCEPT !.n = count + 1])
  /\ count' = count + 1

Message(type, id, existing, value) ==
  [type |-> type, id |-> id, existing |-> existing, value |-> value, n |-> 0]

peerUnchanged ==
  UNCHANGED <<setupVars, pc, result, pending, deferred, handled, sawSetup, peerMax,
              nextRequest, forward, terminated, expected, stops, passVars>>

PeerSetup ==
  /\ Running /\ count = 0
  /\ \/ \E limit \in PeerMaxIds : Post(Message("setup", 0, 0, limit))
     \/ Post(Message("unknown", 0, 0, 0))
  /\ peerUnchanged /\ UNCHANGED <<streamIn, finished, stopped, updates, others, peerId, waiting>>

\* A MAX_REQUEST_ID, or a SUBSCRIBE of the relay with its next request id.
PeerOther ==
  /\ Running /\ count > 0 /\ others < MaxOthers /\ ~UsesRequestStreams
  /\ others' = others + 1
  /\ \/ draft = 16 /\ \E limit \in PeerMaxIds \ {0} : Post(Message("maxid", 0, 0, limit))
        /\ UNCHANGED peerId
     \/ Post(Message("subscribe", peerId, 0, 0)) /\ peerId' = peerId + 2
  /\ peerUnchanged /\ UNCHANGED <<streamIn, finished, stopped, updates, waiting>>

\* The answer to request r: accepted (for a PUBLISH with a forward flag),
\* rejected or, on a request stream, sent elsewhere with GOAWAY.
PeerAnswer ==
  /\ Running
  /\ \E r \in waiting, f \in {0, 1},
        kind \in {"ok", "error"} \cup IF draft >= 18 THEN {"goaway"} ELSE {} :
       LET m == Message(IF r = 0 /\ kind = "ok" THEN "nsok" ELSE kind, r, 0,
                        IF draft = 17 THEN 1 ELSE f)
       IN  /\ (r = 0 \/ kind # "ok") => f = 0
           /\ waiting' = waiting \ {r}
           /\ IF UsesRequestStreams
              THEN streamIn' = [streamIn EXCEPT ![r] = Append(@, m)]
                   /\ UNCHANGED <<inbox, count>>
              ELSE Post(m) /\ UNCHANGED streamIn
  /\ peerUnchanged /\ UNCHANGED <<finished, stopped, updates, others, peerId>>

\* REQUEST_UPDATE of a published track, once its PUBLISH was accepted.
PeerUpdate ==
  /\ Running /\ updates < MaxUpdates /\ CanReceiveUpdates
  /\ \E r \in DOMAIN forward, f \in {0, 1} :
       LET m == Message("update", peerId, r, f)
       IN  /\ r \notin finished
           /\ IF UsesRequestStreams
              THEN streamIn' = [streamIn EXCEPT ![r] = Append(@, m)]
                   /\ UNCHANGED <<inbox, count>>
              ELSE Post(m) /\ UNCHANGED streamIn
  /\ updates' = updates + 1 /\ peerId' = peerId + 2
  /\ peerUnchanged /\ UNCHANGED <<finished, stopped, others, waiting>>

\* The subscriber ends a PUBLISH: it finishes its half of the request stream,
\* or sends STOP_SENDING on ours.
PeerEnd ==
  /\ Running /\ draft >= 18 /\ others < MaxOthers
  /\ \E r \in DOMAIN forward :
       \/ r \notin finished /\ finished' = finished \cup {r} /\ UNCHANGED stopped
       \/ r \notin stops /\ stopped' = stopped \cup {r} /\ UNCHANGED finished
  /\ others' = others + 1
  /\ peerUnchanged /\ UNCHANGED <<streamIn, inbox, count, updates, peerId, waiting>>

-----------------------------------------------------------------------------
(* Setup. *)

\* ensure_control_stream and the SETUP of ensure_setup.
SendSetup ==
  /\ At("connected")
  /\ pc' = "setup"
  /\ UNCHANGED <<setupVars, result, controlVars, sawSetup, peerMax, requestVars, passVars,
                 peerVars, waiting>>

\* A read of the control stream: everything that has arrived joins the buffer.
ReadControl ==
  /\ Running /\ inbox # <<>>
  /\ \/ pc \in {"setup", "acks"} /\ pending = <<>>
     \/ pc \in {"await", "pass", "replayPoll"} /\ draft = 16
  /\ pending' = pending \o inbox /\ inbox' = <<>>
  /\ UNCHANGED <<setupVars, pc, result, deferred, handled, sawSetup, peerMax, requestVars,
                 passVars, peerVars, waiting>>

\* The loop of ensure_setup goes on for a draft-16 peer that granted nothing
\* yet, if there is something to publish.
SetupDone(limit) == draft = 14 \/ UsesRequestStreams \/ ~autoForward \/ limit # 0

\* ensure_setup, one buffered message.
SetupMessage ==
  /\ At("setup") /\ pending # <<>>
  /\ LET m == Head(pending)
         answered == ~sawSetup /\ m.type = "setup"
         granted == sawSetup /\ draft = 16 /\ m.type = "maxid"
         limit == IF m.value # 0 THEN m.value ELSE peerMax
     IN  \/ /\ ~sawSetup /\ ~answered
            /\ End("rejected")
            /\ UNCHANGED <<pending, handled, sawSetup, peerMax>>
         \/ /\ sawSetup /\ ~granted
            /\ pc' = "namespace"
            /\ UNCHANGED <<result, pending, handled, sawSetup, peerMax>>
         \/ /\ answered \/ granted
            /\ pending' = Tail(pending) /\ handled' = handled \cup {m.n}
            /\ sawSetup' = TRUE /\ peerMax' = limit
            /\ pc' = IF SetupDone(limit) THEN "namespace" ELSE "setup"
            /\ UNCHANGED result
  /\ UNCHANGED <<setupVars, inbox, deferred, requestVars, passVars, peerVars, waiting>>

\* No SETUP, or no MAX_REQUEST_ID, within five seconds.
SetupTimeout ==
  /\ At("setup") /\ pending = <<>> /\ inbox = <<>>
  /\ End("failure")
  /\ UNCHANGED <<setupVars, controlVars, sawSetup, peerMax, requestVars, passVars, peerVars,
                 waiting>>

\* publish(): PUBLISH_NAMESPACE is request 0.
Namespace ==
  /\ At("namespace")
  /\ waiting' = waiting \cup {0}
  /\ pc' = IF UsesRequestStreams THEN "answer" ELSE "acks"
  /\ nextRequest' = 0
  /\ UNCHANGED <<setupVars, result, controlVars, sawSetup, peerMax, streamIn, finished, stopped,
                 forward, terminated, expected, stops, passVars, peerVars>>

-----------------------------------------------------------------------------
(* PUBLISH and its answers. *)

\* PUBLISH of the next track; nextRequest = 0 while the namespace is announced.
PublishStep ==
  /\ At("publish") /\ nextRequest \in RequestIds
  /\ IF UsesPeerMaxRequestId /\ nextRequest > peerMax
     THEN End("failure") /\ UNCHANGED <<waiting, nextRequest>>
     ELSE /\ waiting' = waiting \cup {nextRequest}
          /\ pc' = IF UsesRequestStreams THEN "answer" ELSE pc
          /\ nextRequest' = IF UsesRequestStreams THEN nextRequest ELSE nextRequest + 2
          /\ UNCHANGED result
  /\ UNCHANGED <<setupVars, controlVars, sawSetup, peerMax, streamIn, finished, stopped, forward,
                 terminated, expected, stops, passVars, peerVars>>

PublishForwarded == autoForward /\ PublishStep
PublishSelected == ~autoForward /\ PublishStep

PublishedAll ==
  /\ At("publish") /\ nextRequest \notin RequestIds
  /\ pc' = IF UsesRequestStreams THEN "published" ELSE "acks"
  /\ UNCHANGED <<setupVars, result, controlVars, sawSetup, peerMax, requestVars, passVars,
                 peerVars, waiting>>

\* send_request_stream_and_wait: the answer on the request's own stream.
AnswerStep(acks) ==
  /\ At("answer") /\ streamIn[nextRequest] # <<>>
  /\ LET m == Head(streamIn[nextRequest])
     IN  /\ streamIn' = [streamIn EXCEPT ![nextRequest] = Tail(@)]
         /\ nextRequest' = nextRequest + 2
         /\ IF m.type \in {"error", "goaway"}
            THEN End(IF m.type = "error" THEN "rejected" ELSE "failure") /\ UNCHANGED forward
            ELSE forward' = acks /\ pc' = "publish" /\ UNCHANGED result
  /\ UNCHANGED <<setupVars, controlVars, sawSetup, peerMax, finished, stopped, terminated,
                 expected, stops, passVars, peerVars, waiting>>

NamespaceAnswered == nextRequest = 0 /\ AnswerStep(forward)

\* For a PUBLISH the answer says whether to forward.
PublishAnswered ==
  /\ nextRequest # 0
  /\ AnswerStep([r \in DOMAIN forward \cup {nextRequest} |->
                   IF r = nextRequest THEN Head(streamIn[r]).value ELSE forward[r]])

\* collect_control_acknowledgements: is m an answer it still waits for?
Awaited(m) ==
  IF nextRequest = 0 THEN m.type \in {"nsok", "error"} /\ m.id = 0
  ELSE m.type \in {"ok", "error"} /\ m.id # 0

\* Mutant: a message that is not waited for is dropped.
DeferMutant(queue, m) == queue
Defer(queue, m) == Append(queue, m)

\* One buffered message: an answer is taken, anything else is kept for later.
Collect ==
  /\ At("acks") /\ pending # <<>>
  /\ LET m == Head(pending)
         acks == IF m.type = "ok"
                 THEN [r \in DOMAIN forward \cup {m.id} |->
                         IF r = m.id THEN m.value ELSE forward[r]]
                 ELSE forward
         all == nextRequest = 0 \/ DOMAIN acks = RequestIds
     IN  \/ /\ ~Awaited(m)
            /\ deferred' = Defer(deferred, m) /\ pending' = Tail(pending)
            /\ UNCHANGED <<pc, result, handled, forward, nextRequest>>
         \/ /\ Awaited(m) /\ m.type = "error"
            /\ End("rejected") /\ handled' = handled \cup {m.n}
            /\ pending' = <<>> /\ deferred' = <<>>
            /\ UNCHANGED <<forward, nextRequest>>
         \/ /\ Awaited(m) /\ m.type # "error"
            /\ handled' = handled \cup {m.n} /\ forward' = acks
            /\ IF all
               THEN /\ pending' = deferred \o Tail(pending) /\ deferred' = <<>>
                    /\ pc' = IF nextRequest = 0 THEN "publish" ELSE "published"
                    /\ nextRequest' = IF nextRequest = 0 THEN 2 ELSE nextRequest
               ELSE pending' = Tail(pending) /\ UNCHANGED <<deferred, pc, nextRequest>>
            /\ UNCHANGED result
  /\ UNCHANGED <<setupVars, inbox, sawSetup, peerMax, streamIn, finished, stopped, terminated,
                 expected, stops, passVars, peerVars, waiting>>

\* No answer within two seconds; what was read stays buffered.
AckTimeout ==
  /\ \/ At("acks") /\ pending = <<>> /\ inbox = <<>>
     \/ At("answer") /\ streamIn[nextRequest] = <<>>
  /\ pending' = deferred \o pending /\ deferred' = <<>>
  /\ End("failure")
  /\ UNCHANGED <<setupVars, inbox, handled, sawSetup, peerMax, requestVars, passVars,
                 peerVars, waiting>>

-----------------------------------------------------------------------------
(* REQUEST_UPDATEs between two objects: poll_forward_updates. *)

Polls == pc \in {"await", "pass", "replayPoll"} /\ autoForward

Live(r) == r \in RequestIds /\ r \notin terminated

\* Where the next update to handle is: only at the head of the buffer.
NextUpdate(queue) ==
  IF queue # <<>> /\ Head(queue).type = "update" THEN {1} ELSE {}

ControlUpdate == draft = 16 /\ NextUpdate(pending) # {}
StreamStop(r) == draft >= 18 /\ Live(r) /\ r \in stopped
StreamUpdate(r) == draft >= 18 /\ Live(r) /\ r \notin stopped /\ streamIn[r] # <<>>
StreamFin(r) == draft >= 18 /\ Live(r) /\ r \notin stopped /\ streamIn[r] = <<>> /\ r \in finished

\* Something poll_forward_updates would act on before it returns.
PollReady ==
  Polls /\ \/ draft = 16 /\ (inbox # <<>> \/ ControlUpdate)
           \/ \E r \in RequestIds : StreamStop(r) \/ StreamUpdate(r) \/ StreamFin(r)

\* poll_draft16_control_updates: the update names the PUBLISH; its own id has
\* to be the next one of the peer.
PollControl ==
  /\ Running /\ Polls /\ inbox = <<>> /\ ControlUpdate
  /\ \E i \in NextUpdate(pending) :
       LET m == pending[i]
       IN  IF m.id # expected
           THEN End("violation") /\ UNCHANGED <<pending, handled, forward, expected>>
           ELSE /\ pending' = RemoveAt(pending, i) /\ handled' = handled \cup {m.n}
                /\ forward' = [forward EXCEPT ![m.existing] = m.value]
                /\ expected' = expected + 2
                /\ UNCHANGED <<pc, result>>
  /\ UNCHANGED <<setupVars, inbox, deferred, sawSetup, peerMax, nextRequest, streamIn,
                 finished, stopped, terminated, stops, passVars, peerVars, waiting>>

\* poll_retained_publish_request_updates, one message of a request stream.
PollStream ==
  /\ Running /\ Polls
  /\ \E r \in RequestIds :
       /\ StreamUpdate(r)
       /\ streamIn' = [streamIn EXCEPT ![r] = Tail(@)]
       /\ forward' = [forward EXCEPT ![r] = Head(streamIn[r]).value]
  /\ UNCHANGED <<setupVars, pc, result, controlVars, sawSetup, peerMax, nextRequest, finished,
                 stopped, terminated, expected, stops, passVars, peerVars, waiting>>

\* Mutant: a stopped request is not remembered as terminated.
TerminatedMutant(r) == IF r \in stopped THEN terminated ELSE terminated \cup {r}
Terminated(r) == terminated \cup {r}

\* The subscriber stopped the track: its streams are reset with CANCELLED and
\* it forwards no more.
PollStop ==
  /\ Running /\ Polls
  /\ \E r \in RequestIds :
       /\ StreamStop(r)
       /\ terminated' = Terminated(r) /\ stopped' = stopped \ {r}
       /\ forward' = [forward EXCEPT ![r] = 0] /\ stops' = stops \cup {r}
  /\ UNCHANGED <<setupVars, pc, result, controlVars, sawSetup, peerMax, nextRequest, streamIn,
                 finished, expected, passVars, peerVars, waiting>>

\* The peer finished its half of the request stream: no more updates.
PollFin ==
  /\ Running /\ Polls
  /\ \E r \in RequestIds : StreamFin(r) /\ terminated' = Terminated(r)
  /\ UNCHANGED <<setupVars, pc, result, controlVars, sawSetup, peerMax, nextRequest, streamIn,
                 finished, stopped, forward, expected, stops, passVars, peerVars, waiting>>

-----------------------------------------------------------------------------
(* Passes over the plan. *)

passUnchanged ==
  UNCHANGED <<setupVars, controlVars, sawSetup, peerMax, requestVars, peerVars, waiting>>

BeginPass(tracks, from) == pc' = "pass" /\ index' = from /\ only' = tracks

\* All answers are in: forward_published_tracks waits for a track to forward,
\* publish_selected_tracks sends at once.
Accepted ==
  /\ At("published")
  /\ IF autoForward THEN pc' = "await" /\ UNCHANGED <<index, only>>
     ELSE BeginPass(Range(Published), 1)
  /\ UNCHANGED <<result, cycle, downgraded, replayed, sent, done>> /\ passUnchanged

\* await_forward: some track forwards, none can, or subscriber_timeout is over.
AwaitForward ==
  /\ At("await")
  /\ IF cycle = 0 \/ AnyForwarding
     THEN BeginPass(Range(Published),
                    IF cycle = 0 THEN 1 ELSE Min(UNION {Objects(t) : t \in Loopable}))
     ELSE pc' = "finish" /\ UNCHANGED <<index, only>>
  /\ UNCHANGED <<result, cycle, downgraded, replayed, sent, done>> /\ passUnchanged

Downgraded(t) == downgraded \cup {t}

\* The next object is sent, or its track is noted as not forwarding.
PassStep ==
  /\ At("pass") /\ index <= Len(Plan)
  /\ LET t == Plan[index]
     IN  \/ /\ t \notin only
            /\ UNCHANGED <<downgraded, sent>>
         \/ /\ t \in only /\ forward[RequestOf(t)] # 0
            /\ sent' = [sent EXCEPT ![t] = Append(@, index)]
            /\ UNCHANGED downgraded
         \/ /\ t \in only /\ forward[RequestOf(t)] = 0
            /\ downgraded' = Downgraded(t)
            /\ UNCHANGED sent
  /\ index' = index + 1
  /\ UNCHANGED <<pc, result, cycle, only, replayed, done>> /\ passUnchanged

\* run_pass: updates first, then the object.
PassObject == autoForward /\ ~PollReady /\ PassStep

\* publish_selected_tracks does not poll; what is not forwarded is dormant.
SelectedObject == ~autoForward /\ PassStep

\* After a pass: a replay, the next cycle, or the end.
PassEnd ==
  /\ At("pass") /\ index > Len(Plan)
  /\ LET again == looping /\ Range(Published) \cap Loopable # {}
     IN  \/ ~looping /\ autoForward /\ CanReceiveUpdates /\ pc' = "replay" /\ UNCHANGED <<index, only, cycle>>
         \/ ~looping /\ ~(autoForward /\ CanReceiveUpdates) /\ pc' = "finish"
            /\ UNCHANGED <<index, only, cycle>>
         \/ looping /\ ~again /\ pc' = "finish" /\ UNCHANGED <<index, only, cycle>>
         \/ again /\ cycle < MaxCycle /\ cycle' = cycle + 1
            /\ pc' = "await" /\ UNCHANGED <<index, only>>
  /\ UNCHANGED <<result, downgraded, replayed, sent, done>> /\ passUnchanged

NotForwarding ==
  {t \in Range(Published) : t \notin replayed /\ forward[RequestOf(t)] = 0
                            /\ RequestOf(t) \notin terminated}

Flipped ==
  {t \in downgraded : t \notin replayed /\ forward[RequestOf(t)] # 0}

\* The test of the replay loop.
Replay ==
  /\ At("replay") /\ NotForwarding # {}
  /\ pc' = "replayPoll"
  /\ UNCHANGED <<result, passVars>> /\ passUnchanged

\* Nothing is left to wait for, or the deadline has passed.
ReplayOver ==
  /\ At("replay")
  /\ pc' = "finish"
  /\ UNCHANGED <<result, passVars>> /\ passUnchanged

\* Its body, after the poll: a waiting request of a draft-16 peer ends it,
\* switched tracks are sent from the start of the plan.
ReplayFlipped ==
  /\ At("replayPoll") /\ ~PollReady
  /\ \/ /\ draft = 16 /\ pending # <<>>
        /\ pc' = "finish" /\ UNCHANGED <<index, only, downgraded, replayed>>
     \/ /\ ~(draft = 16 /\ pending # <<>>) /\ Flipped = {}
        /\ pc' = "replay" /\ UNCHANGED <<index, only, downgraded, replayed>>
     \/ /\ ~(draft = 16 /\ pending # <<>>) /\ Flipped # {}
        /\ downgraded' = downgraded \ Flipped /\ replayed' = replayed \cup Flipped
        /\ BeginPass(Flipped, 1)
  /\ UNCHANGED <<result, cycle, sent, done>> /\ passUnchanged

-----------------------------------------------------------------------------
(* The end. *)

Forwarded == {t \in Range(Published) : forward[RequestOf(t)] # 0}

\* Tracks that get PUBLISH_DONE: forwarded, and not looping on.
Finished == {t \in Forwarded : ~(looping /\ t \in Loopable)}

\* PUBLISH_DONE for what was forwarded; the rest waits for a SUBSCRIBE.
FinishStep ==
  /\ At("finish")
  /\ done' = done \cup {RequestOf(t) : t \in Finished}
  /\ downgraded' = downgraded \cup (Range(Published) \ Forwarded)
  /\ UNCHANGED <<result, index, cycle, only, replayed, sent>> /\ passUnchanged

Finish ==
  autoForward /\ FinishStep /\ pc' = IF downgraded' # {} THEN "serve" ELSE "close"

\* publish_selected_tracks is followed by serve_subscriptions in any case.
SelectedFinish == ~autoForward /\ FinishStep /\ pc' = "serve"

\* serve_subscriptions of the downgraded tracks (PriorityScheduler and
\* PeerRequests), up to its end.
ServeDownstream ==
  /\ At("serve")
  /\ \/ pc' = "close" /\ UNCHANGED result
     \/ End("failure")
  /\ UNCHANGED passVars /\ passUnchanged

\* PUBLISH_NAMESPACE_DONE, or the reset of the namespace's request stream,
\* unless the input loops.
NamespaceDone ==
  /\ At("close")
  /\ End("success")
  /\ UNCHANGED passVars /\ passUnchanged

Peer == PeerSetup \/ PeerOther \/ PeerAnswer \/ PeerUpdate \/ PeerEnd

Session ==
  \/ SendSetup \/ ReadControl \/ SetupMessage \/ SetupTimeout \/ Namespace
  \/ PublishForwarded \/ PublishSelected \/ PublishedAll
  \/ NamespaceAnswered \/ PublishAnswered \/ Collect \/ AckTimeout
  \/ PollControl \/ PollStream \/ PollStop \/ PollFin
  \/ Accepted \/ AwaitForward \/ PassObject \/ SelectedObject \/ PassEnd \/ Replay \/ ReplayOver \/ ReplayFlipped
  \/ Finish \/ SelectedFinish \/ ServeDownstream \/ NamespaceDone

Next == Peer \/ Session

\* The session's own loop is always running and every wait in it has a
\* deadline; a deadline tested for ever has passed at some test.
Spec == Init /\ [][Next]_vars /\ WF_vars(Session) /\ SF_vars(ReplayOver)

-----------------------------------------------------------------------------
(* Properties. *)

Buffered == deferred \o pending \o inbox

\* Every control message of the peer was acted on or is still buffered, in the
\* order it came: waiting for one answer, or giving up on it, loses no other
\* message (collect_control_acknowledgements, ensure_setup, poll_draft16_*).
NothingDropped ==
  result \notin {"rejected", "violation"} =>
    /\ 1..count = handled \cup {m.n : m \in Range(Buffered)}
    /\ \A i, j \in DOMAIN Buffered : i < j => Buffered[i].n < Buffered[j].n

\* A draft-16 peer that numbers its requests in order is never closed for it:
\* no REQUEST_UPDATE is handled ahead of a request that came before it.
RequestOrderKept == result # "violation"

SentWhole(t) == IsSuffix(Ascending(Objects(t)), sent[t])

\* A track that ends with PUBLISH_DONE has been sent whole and in plan order, in
\* its pass or in its replay, unless it was off at one of its objects, was
\* switched on since and got no replay: the wait was over, or no track was off any
\* more. (It is still in downgraded, which a replay clears.)
DoneIsWhole ==
  \A r \in done : looping \/ TrackOf(r) \in downgraded \/ SentWhole(TrackOf(r))

\* Of those, no track is left out while the publish may still wait: when none is
\* off any more, all that end have been sent whole. docs/relay-interop.md:249
\* says "The file publish waits for it, up to `--timeout` from the last switch, and
\* replays a track switched on after its first pass from the start of the plan".
\* The loop at moqt_session.cpp:7011 is left without a look at what was skipped.
SwitchedOnReplayed ==
  \A r \in done :
    draft >= 18 /\ ~looping /\ NotForwarding = {} => SentWhole(TrackOf(r))

\* However answers, updates and timeouts interleave with the passes, no message
\* of the peer is lost, and no object of a track that ends with PUBLISH_DONE but
\* of one that was switched on and got no replay.
ForwardSound == NothingDropped /\ RequestOrderKept /\ DoneIsWhole

\* After the subscriber stopped a published track none of its objects is sent,
\* whatever updates were still on their way.
StoppedStaysSilent ==
  [][\A r \in stops : sent'[TrackOf(r)] = sent[TrackOf(r)]]_vars

=============================================================================
