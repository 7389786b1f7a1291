---------------------------- MODULE PeerRequests ----------------------------
(* The requests of the peer in serve_subscriptions (moqt_session.cpp): how
   SUBSCRIBE, SUBSCRIBE_NAMESPACE, SUBSCRIBE_TRACKS, FETCH, TRACK_STATUS,
   their updates and their end are read, validated, answered and kept.
   Drafts 14 and 16 carry them on the control stream (draft 16 has a
   stream of its own for SUBSCRIBE_NAMESPACE), later drafts open one
   stream per request.  Streams are delivered independently of each other.

   A subscription is the number of objects it has still to be sent; which
   one goes next is PriorityScheduler's subject.  Messages decode; a
   malformed one closes the session at once. *)
EXTENDS Integers, Sequences, FiniteSets, SequencesExt, FiniteSetsExt

CONSTANTS
  Objects,      \* tracks_by_name: the number of objects of each track
  Namespace,    \* track_namespace, a sequence of components
  AskedPrefixes, \* namespace prefixes a peer asks for
  Scenarios,    \* [draft, looping, entered, kinds, max]: how serve_subscriptions
                \* was called, the requests the peer makes and their number
  MaxRequests   \* bound: requests of the peer, updates included

Tracks == DOMAIN Objects

ASSUME RequestsAssumption ==
  /\ IsFiniteSet(Tracks) /\ \A t \in Tracks : Objects[t] \in Nat
  /\ \A s \in Scenarios : s.draft \in {14, 16, 18, 22, 23} /\ s.looping \in BOOLEAN
                          /\ s.entered \in {"await", "catalog", "downgraded"}
  /\ MaxRequests \in Nat /\ \A s \in Scenarios : s.max \in 0..MaxRequests

VARIABLES
  scenario,
  net,    \* what the peer sent and what has arrived
  st      \* the local state of serve_subscriptions

vars == <<scenario, net, st>>

draft == scenario.draft
Kinds == scenario.kinds
UsesRequestStreams == draft >= 17

-----------------------------------------------------------------------------
(* Namespaces and request ids. *)

\* namespace_prefix_matches; draft 16 wants the whole namespace.
PrefixMatches(p) ==
  IsPrefix(p, Namespace) /\ (draft = 16 => p = <<>> \/ p = Namespace)

\* namespace_prefixes_overlap
Overlap(p, q) == IsPrefix(p, q) \/ IsPrefix(q, p)

\* PeerRequestIdValidator::validate accepts id.
ValidId(id) ==
  CASE draft = 16 -> id = st.expected
    [] draft >= 18 -> id % 2 = 1 /\ id \notin st.seen
    [] OTHER -> TRUE

\* Its state afterwards.
Counted(s, id) == [s EXCEPT !.expected = @ + 2, !.seen = @ \cup {id}]

\* An answer to the message with this id.
Answer(s, id, what) == [s EXCEPT !.out[id] = Append(@, what)]

Ends(s, why) == [s EXCEPT !.result = why, !.pc = "ended"]

\* A request that is answered and needs nothing more.
Refused(id) == Answer(Counted(st, id), id, "error")

-----------------------------------------------------------------------------
(* Subscriptions. *)

Subscription(m) ==
  [track |-> m.arg, forward |-> m.forward, start |-> 0,
   left |-> IF m.arg \in Tracks THEN Objects[m.arg] ELSE 0]

\* finalize_subscription: PUBLISH_DONE.
Finalized(s, r) == [Answer(s, r, "done") EXCEPT !.completed = @ \cup {r}]

Put(f, r, v) == [x \in DOMAIN f \cup {r} |-> IF x = r THEN v ELSE f[x]]
Drop(f, r) == [x \in DOMAIN f \ {r} |-> f[x]]

\* A new subscription: active while it has objects to send or, from draft 21,
\* until its track ends; over at once otherwise.
Established(s, r, sub) ==
  IF sub.left > 0 \/ draft >= 21 THEN [s EXCEPT !.active = Put(@, r, sub)] ELSE Finalized(s, r)

\* held_until_track_end: a looping track has no end.
Held == draft >= 21 /\ scenario.looping

-----------------------------------------------------------------------------
(* PUBLISHes of ours for SUBSCRIBE_TRACKS. *)

\* One id per track, from this one on.
OwnSequence(first) == [i \in 1..Cardinality(Tracks) |-> first + 2 * (i - 1)]
OwnIds(first) == {OwnSequence(first)[i] : i \in 1..Cardinality(Tracks)}

\* subscribe_tracks_next_request_id after one SUBSCRIBE_TRACKS
NextOwn(s) == s.ownNext + 2 * Cardinality(Tracks)

\* publish_discovered_tracks: publish_selected_tracks with the next ids of our
\* own.  It returns when the plan was sent, so never for a looping plan; the
\* peer's answers may fail it.  `forward` is what the peer answered.
Publishes(s, r, forward) ==
  LET issued == [s EXCEPT !.own = @ \o OwnSequence(s.ownNext),
                          !.published[r] = @ + 1]
      kept == [issued EXCEPT !.ownNext = NextOwn(s)]
  IN  IF scenario.looping THEN [kept EXCEPT !.pc = "selected"]
      ELSE [kept EXCEPT !.dormant = IF forward = 0 /\ scenario.entered = "catalog"
                                    THEN @ \cup OwnIds(s.ownNext) ELSE @]

-----------------------------------------------------------------------------
(* The peer. *)

Ids == {2 * i - 1 : i \in 1..MaxRequests}

Init ==
  /\ scenario \in Scenarios
  /\ net = [inbox |-> <<>>, streams |-> <<>>, requestIn |-> [r \in Ids |-> <<>>],
            next |-> 1, asked |-> <<>>, ended |-> {}]
  /\ st = [pc |-> "poll", result |-> "none", buffer |-> <<>>, expected |-> 1, seen |-> {},
           waiting |-> <<>>, pending |-> <<>>, active |-> <<>>,
           dormant |-> IF scenario.entered = "catalog" THEN {2} ELSE {},
           completed |-> {}, established |-> {}, prefixes |-> {}, discovery |-> <<>>,
           joinable |-> <<>>, withdrawn |-> {}, handled |-> {},
           ownNext |-> IF scenario.entered = "catalog" THEN 4 ELSE 2,
           own |-> CASE scenario.entered = "catalog" -> <<2>>
                     [] scenario.entered = "downgraded" -> OwnSequence(2)
                     [] OTHER -> <<>>,
           published |-> [r \in Ids |-> 0], out |-> [r \in Ids \cup {2} |-> <<>>]]

Running == st.result = "none"

\* What the peer has put on the control stream, on the streams it opened and on
\* those of its requests.  Streams are delivered independently: a poll of the
\* session may or may not see what is there.
Send(m) ==
  LET counted == [net EXCEPT !.next = @ + 2, !.asked = Put(@, m.id, m)]
  IN  net' = CASE UsesRequestStreams /\ m.kind = "update" ->
                    [counted EXCEPT !.requestIn[m.existing] = Append(@, m)]
               [] (UsesRequestStreams \/ (draft = 16 /\ m.kind = "namespace")) /\ m.kind # "update" ->
                    [counted EXCEPT !.streams = Append(@, m)]
               [] OTHER -> [counted EXCEPT !.inbox = Append(@, m)]

\* UNSUBSCRIBE and GOAWAY have no id of their own.
SendEnd(m) == net' = [net EXCEPT !.inbox = Append(@, m), !.ended = @ \cup {m.existing}]

Message(kind, arg, forward, existing) ==
  [id |-> net.next, kind |-> kind, arg |-> arg, forward |-> forward, existing |-> existing]

\* Requests of the peer that it may think open: not answered yet, or accepted.
Open(kinds) ==
  {r \in DOMAIN net.asked : net.asked[r].kind \in kinds
                            /\ (st.out[r] = <<>> \/ st.out[r][1] = "ok")}

\* A conforming peer numbers its requests 1, 3, 5...
PeerRequest ==
  /\ Running /\ net.next < 2 * scenario.max
  /\ \/ \E t \in Tracks \cup {"unknown"}, f \in {0, 1} :
          "subscribe" \in Kinds /\ Send(Message("subscribe", t, f, 0))
     \/ \E p \in AskedPrefixes : "namespace" \in Kinds /\ Send(Message("namespace", p, 0, 0))
     \/ \E p \in AskedPrefixes, f \in {0, 1} :
          "tracks" \in Kinds /\ draft >= 18 /\ Send(Message("tracks", p, f, 0))
     \/ \E j \in Open({"subscribe"}) : "fetch" \in Kinds /\ Send(Message("fetch", j, 0, 0))
     \/ \E t \in Tracks \cup {"unknown"} : "status" \in Kinds /\ Send(Message("status", t, 0, 0))
  /\ UNCHANGED <<scenario, st>>

\* An update changes the forward flag, the start of the filter (SUBSCRIBE) or
\* the prefix (discovery); the peer may not have seen PUBLISH_DONE yet.
PeerUpdate ==
  /\ Running /\ net.next < 2 * scenario.max /\ "update" \in Kinds
  /\ \/ \E r \in Open({"subscribe"}) \cup (st.dormant \cap {2}), f, g \in {0, 1} :
          f + g > 0 /\ (r = 2 => draft <= 16) /\ Send(Message("update", g, f, r))
     \/ \E r \in Open({"namespace", "tracks"}), f \in {0, 1}, p \in AskedPrefixes :
          /\ draft >= 22
          /\ Send(Message("update", p, IF net.asked[r].kind = "tracks" THEN f ELSE 0, r))
  /\ UNCHANGED <<scenario, st>>

PeerUnsubscribe ==
  /\ Running /\ ~UsesRequestStreams /\ "unsubscribe" \in Kinds
  /\ \E r \in DOMAIN net.asked \ net.ended :
       net.asked[r].kind = "subscribe" /\ SendEnd(Message("unsubscribe", 0, 0, r))
  /\ UNCHANGED <<scenario, st>>

PeerGoaway ==
  /\ Running /\ draft >= 22 /\ "goaway" \in Kinds /\ net.ended = {}
  /\ SendEnd(Message("goaway", 0, 0, 0))
  /\ UNCHANGED <<scenario, st>>

-----------------------------------------------------------------------------
(* Request streams. *)

\* The next stream accepted, and a request of this kind on it.  An id the
\* validator does not accept closes the session.
Accepts(kind, next) ==
  /\ Running /\ st.pc = "poll" /\ net.streams # <<>>
  /\ LET m == Head(net.streams)
     IN  /\ m.kind = kind
         /\ st' = IF ValidId(m.id) THEN [next EXCEPT !.handled = @ \cup {m.id}]
                  ELSE Ends(st, "invalid request id")
         /\ net' = [net EXCEPT !.streams = Tail(@)]
  /\ UNCHANGED scenario

\* SUBSCRIBE: an unknown track or, on draft 18, a second subscription of a
\* track is refused.
Subscribed(m) ==
  LET s == Counted(st, m.id)
  IN  IF m.arg \notin Tracks \/ (draft = 18 /\ m.arg \in st.established) THEN Refused(m.id)
      ELSE Established([Answer(s, m.id, "ok") EXCEPT !.established = @ \cup {m.arg},
                                                     !.joinable = Put(@, m.id, m.arg)],
                       m.id, Subscription(m))

AcceptSubscribe == net.streams # <<>> /\ UsesRequestStreams
                   /\ Accepts("subscribe", Subscribed(Head(net.streams)))

\* A namespace prefix that overlaps one already accepted: draft 22 looks at
\* the requests still kept, drafts 16 and 18 at every prefix accepted so far,
\* draft 23 allows it.
NamespaceOverlaps(p) ==
  CASE draft >= 23 -> FALSE
    [] draft = 22 -> \E r \in DOMAIN st.discovery :
                       /\ st.discovery[r].kind = "namespace" /\ st.discovery[r].active
                       /\ Overlap(p, st.discovery[r].prefix)
    [] OTHER -> \E q \in st.prefixes : Overlap(p, q)

Retained(kind, p, f) ==
  [kind |-> kind, prefix |-> p, forward |-> f, active |-> TRUE, published |-> f # 0]

NamespaceAccepted(m) ==
  LET s == Counted(st, m.id)
  IN  IF NamespaceOverlaps(m.arg) \/ ~PrefixMatches(m.arg) THEN Refused(m.id)
      ELSE [Answer(s, m.id, "ok") EXCEPT
              !.prefixes = @ \cup {m.arg},
              !.discovery = IF draft >= 18 THEN Put(@, m.id, Retained("namespace", m.arg, 0)) ELSE @]

AcceptNamespace == net.streams # <<>> /\ UsesRequestStreams
                   /\ Accepts("namespace", NamespaceAccepted(Head(net.streams)))

\* poll_draft16_namespace_streams
AcceptDraft16Namespace == net.streams # <<>> /\ draft = 16
                          /\ Accepts("namespace", NamespaceAccepted(Head(net.streams)))

TracksOverlap(p, self) ==
  \E r \in DOMAIN st.discovery \ {self} :
    /\ st.discovery[r].kind = "tracks" /\ st.discovery[r].active
    /\ Overlap(p, st.discovery[r].prefix)

\* SUBSCRIBE_TRACKS: forward=1 publishes every track at once; the wrong
\* namespace ends the session.
TracksAccepted(m, forward) ==
  LET s == Counted(st, m.id)
      kept == [Answer(s, m.id, "ok") EXCEPT
                 !.discovery = Put(@, m.id, Retained("tracks", m.arg, m.forward))]
  IN  IF draft >= 22 /\ TracksOverlap(m.arg, 0) THEN Refused(m.id)
      ELSE IF ~PrefixMatches(m.arg) THEN Ends(Refused(m.id), "failure")
      ELSE IF m.forward = 0 THEN kept ELSE Publishes(kept, m.id, forward)

AcceptTracks ==
  \E forward \in {0, 1} :
    net.streams # <<>> /\ Accepts("tracks", TracksAccepted(Head(net.streams), forward))

\* answer_catalog_joining_fetch on draft 18: the catalog of a subscription
\* this session accepted; NOT_SUPPORTED otherwise.
AcceptFetch ==
  /\ net.streams # <<>>
  /\ LET m == Head(net.streams)
         served == draft = 18 /\ m.arg \in DOMAIN st.joinable /\ st.joinable[m.arg] = "catalog"
                   /\ Objects["catalog"] > 0
     IN  Accepts("fetch", Answer(Counted(st, m.id), m.id, IF served THEN "ok" ELSE "error"))

\* answer_track_status
AcceptStatus ==
  /\ net.streams # <<>>
  /\ LET m == Head(net.streams)
     IN  Accepts("status", Answer(Counted(st, m.id), m.id, IF m.arg \in Tracks THEN "ok" ELSE "error"))

-----------------------------------------------------------------------------
(* Updates on request streams. *)

Take(r) == [net EXCEPT !.requestIn[r] = Tail(@)]

\* apply_request_update on a subscription; a filter that starts later leaves
\* fewer objects.
Applied(sub, m) ==
  [sub EXCEPT !.forward = m.forward, !.left = IF m.arg > sub.start THEN @ \div 2 ELSE @,
              !.start = m.arg]

\* process_subscription_request_update
UpdateActive(s, m) ==
  Answer([Counted(s, m.id) EXCEPT !.active[m.existing] = Applied(@, m),
                                  !.handled = @ \cup {m.id}], m.id, "ok")

\* A SUBSCRIBE that is still active; what follows PUBLISH_DONE is not read.
SubscribeUpdate ==
  /\ Running /\ st.pc = "poll"
  /\ \E r \in DOMAIN st.active \cap Ids :
       LET m == Head(net.requestIn[r])
       IN  /\ net.requestIn[r] # <<>>
           /\ st' = IF ValidId(m.id) THEN UpdateActive(st, m) ELSE Ends(st, "invalid request id")
           /\ net' = Take(r)
  /\ UNCHANGED scenario

\* Mutant: an updated prefix is compared with nothing.
UpdateOverlapsMutant(r, p) == FALSE
\* The new prefix overlaps another request of the same kind.
UpdateOverlaps(r, p) ==
  LET kind == st.discovery[r].kind
  IN  /\ ~(draft >= 23 /\ kind = "namespace")
      /\ \E q \in DOMAIN st.discovery \ {r} :
           /\ st.discovery[q].kind = kind /\ st.discovery[q].active
           /\ Overlap(p, st.discovery[q].prefix)

\* An update that starts the PUBLISHes of a SUBSCRIBE_TRACKS; draft 23 never
\* publishes a track twice for one request.
Resumes(d, m) ==
  /\ d.kind = "tracks" /\ m.forward = 1 /\ PrefixMatches(m.arg)
  /\ ~(draft >= 23 /\ d.published)

\* DiscoveryRequests::poll, one REQUEST_UPDATE with a new prefix.
DiscoveryUpdated(r, m, forward) ==
  LET s == [Counted(st, m.id) EXCEPT !.handled = @ \cup {m.id}]
      d == st.discovery[r]
      moved == [d EXCEPT !.prefix = m.arg, !.forward = m.forward,
                         !.published = @ \/ Resumes(d, m)]
      ok == Answer([s EXCEPT !.discovery[r] = moved], m.id, "ok")
  IN  IF UpdateOverlaps(r, m.arg)
      THEN Answer([s EXCEPT !.discovery[r].active = FALSE], m.id, "error")
      ELSE IF Resumes(d, m) THEN Publishes(ok, r, forward) ELSE ok

DiscoveryUpdate ==
  /\ Running /\ st.pc = "poll" /\ draft >= 22
  /\ \E r \in DOMAIN st.discovery, forward \in {0, 1} :
       LET m == Head(net.requestIn[r])
       IN  /\ st.discovery[r].active /\ net.requestIn[r] # <<>>
           /\ st' = IF ValidId(m.id) THEN DiscoveryUpdated(r, m, forward)
                    ELSE Ends(st, "invalid request id")
           /\ net' = Take(r)
  /\ UNCHANGED scenario

\* Nothing more was seen on request streams.
PollDone ==
  /\ Running /\ st.pc = "poll"
  /\ st' = [st EXCEPT !.pc = "control"]
  /\ UNCHANGED <<scenario, net>>

-----------------------------------------------------------------------------
(* The control stream. *)

\* The next buffered control message is of this kind.
Control(kind, next) ==
  /\ Running /\ st.pc = "control" /\ st.buffer # <<>>
  /\ Head(st.buffer).kind = kind
  /\ st' = next
  /\ UNCHANGED <<scenario, net>>

\* The message is consumed; with an id, the validator has to accept it.
Consumed(next) ==
  LET m == Head(st.buffer)
  IN  IF ValidId(m.id)
      THEN [next EXCEPT !.buffer = Tail(@), !.handled = @ \cup {m.id}]
      ELSE Ends(st, "invalid request id")

\* SUBSCRIBE waits until the control stream has nothing more to read.
ControlSubscribe ==
  /\ st.buffer # <<>>
  /\ LET m == Head(st.buffer)
     IN  Control("subscribe", Consumed([Counted(st, m.id) EXCEPT
                                          !.waiting = Append(@, m.id), !.pending = Put(@, m.id, Subscription(m))]))

\* SUBSCRIBE_NAMESPACE on the control stream (draft 14).
ControlNamespace ==
  /\ st.buffer # <<>>
  /\ LET m == Head(st.buffer)
     IN  Control("namespace", IF PrefixMatches(m.arg)
                              THEN Consumed(Answer(Counted(st, m.id), m.id, "ok"))
                              ELSE Ends(st, "failure"))

\* FETCH and TRACK_STATUS: NOT_SUPPORTED on draft 16, skipped on draft 14.
ControlUnsupported ==
  /\ st.buffer # <<>>
  /\ LET m == Head(st.buffer)
     IN  /\ m.kind \in {"fetch", "status"}
         /\ Control(m.kind, Consumed(IF draft = 16 THEN Refused(m.id)
                                     ELSE [st EXCEPT !.withdrawn = @ \cup {m.id}]))

\* A published track that was not forwarded starts with its first update; with
\* nothing to send it is over, which only draft 14 tells the peer.
Woken(s, m) ==
  LET sub == Applied([track |-> "catalog", forward |-> 0, left |-> Objects["catalog"], start |-> 0], m)
      awake == [s EXCEPT !.dormant = @ \ {m.existing}]
  IN  IF sub.left > 0 \/ scenario.looping
      THEN [awake EXCEPT !.active = Put(@, m.existing, sub)]
      ELSE IF draft = 14 THEN Finalized(awake, m.existing) ELSE awake

\* REQUEST_UPDATE of draft 16, for a waiting, an active or a dormant request;
\* any other closes the session.
ControlUpdate ==
  /\ st.buffer # <<>> /\ draft = 16
  /\ LET m == Head(st.buffer)
         s == Counted(st, m.id)
     IN  Control("update",
           IF ~ValidId(m.id) THEN Ends(st, "invalid request id")
           ELSE IF m.existing \in DOMAIN st.pending
           THEN Consumed(Answer([s EXCEPT !.pending[m.existing] = Applied(@, m)], m.id, "ok"))
           ELSE IF m.existing \in DOMAIN st.active THEN Consumed(UpdateActive(st, m))
           ELSE IF m.existing \in st.dormant THEN Consumed(Answer(Woken(s, m), m.id, "ok"))
           ELSE Ends(st, "unknown request"))

\* SUBSCRIBE_UPDATE of draft 14 has no answer; a start that goes back, or a
\* subscription that is over, ends the publish.
ControlSubscribeUpdate ==
  /\ st.buffer # <<>> /\ draft = 14
  /\ LET m == Head(st.buffer)
         s == [st EXCEPT !.withdrawn = @ \cup {m.id}]
     IN  Control("update",
           IF m.existing \in DOMAIN st.pending /\ m.arg >= st.pending[m.existing].start
           THEN Consumed([s EXCEPT !.pending[m.existing] = Applied(@, m)])
           ELSE IF m.existing \in DOMAIN st.active /\ m.arg >= st.active[m.existing].start
           THEN Consumed([s EXCEPT !.active[m.existing] = Applied(@, m)])
           ELSE IF m.existing \in st.dormant THEN Consumed(Woken(s, m))
           ELSE Ends(st, "unknown request"))

\* UNSUBSCRIBE: a waiting SUBSCRIBE is forgotten, an active one is finalized.
ControlUnsubscribe ==
  /\ st.buffer # <<>>
  /\ LET r == Head(st.buffer).existing
         s == [st EXCEPT !.buffer = Tail(@), !.pending = Drop(@, r), !.withdrawn = @ \cup {r}]
     IN  Control("unsubscribe",
           IF r \in DOMAIN st.active THEN [Finalized(s, r) EXCEPT !.active = Drop(@, r)] ELSE s)

\* SessionControlReader: a GOAWAY ends the publish with a migration.
ControlGoaway == Control("goaway", Ends(st, "migrate"))

\* Requests are answered only when the control stream has been read empty.
ControlDone ==
  /\ Running /\ st.pc = "control" /\ st.buffer = <<>>
  /\ IF st.waiting # <<>> /\ net.inbox # <<>>
     THEN st' = [st EXCEPT !.buffer = net.inbox, !.pc = "poll"] /\ net' = [net EXCEPT !.inbox = <<>>]
     ELSE st' = [st EXCEPT !.pc = "drain"] /\ UNCHANGED net
  /\ UNCHANGED scenario

RefusedTrack(s, r) == Answer(s, r, "error")

\* The next waiting SUBSCRIBE: forgotten, refused or accepted.
Drained ==
  LET r == Head(st.waiting)
      s == [st EXCEPT !.waiting = Tail(@), !.pending = Drop(@, r)]
      sub == st.pending[r]
  IN  IF r \notin DOMAIN st.pending THEN s
      ELSE IF sub.track \notin Tracks THEN RefusedTrack(s, r)
      ELSE Established(Answer(s, r, "ok"), r, sub)

DrainSubscribe ==
  /\ Running /\ st.pc = "drain"
  /\ st' = IF st.waiting = <<>> THEN [st EXCEPT !.pc = "serve"] ELSE Drained
  /\ UNCHANGED <<scenario, net>>

-----------------------------------------------------------------------------
(* Serving, and the end. *)

Over == {r \in DOMAIN st.active : st.active[r].left = 0 /\ ~Held}
Sendable == {r \in DOMAIN st.active : st.active[r].left > 0 /\ st.active[r].forward = 1}

\* Mutant: a subscription that was finalized stays active.
FinalizedActiveMutant(r) == Finalized(st, r)
FinalizedActive(r) == [Finalized(st, r) EXCEPT !.active = Drop(@, r)]

FinalizeSubscription ==
  /\ Running /\ st.pc = "serve"
  /\ \E r \in Over : st' = [FinalizedActive(r) EXCEPT !.pc = IF Over = {r} THEN "poll" ELSE "serve"]
  /\ UNCHANGED <<scenario, net>>

\* One object, then the requests are looked at again.
ServeObject ==
  /\ Running /\ st.pc = "serve" /\ Over = {} /\ net.inbox = <<>>
  /\ \E r \in Sendable : st' = [st EXCEPT !.active[r].left = @ - 1, !.pc = "poll"]
  /\ UNCHANGED <<scenario, net>>

\* A read of the control stream, between objects or while there is nothing to
\* send; on request-stream drafts it returns after 25 ms.
ReadControl ==
  /\ Running /\ st.pc = "serve" /\ Over = {}
  /\ \/ net.inbox # <<>>
     \/ UsesRequestStreams /\ Sendable = {}
  /\ st' = [st EXCEPT !.buffer = @ \o net.inbox, !.pc = "poll"]
  /\ net' = [net EXCEPT !.inbox = <<>>]
  /\ UNCHANGED scenario

\* No request within subscriber_timeout: the namespace ends.
IdleExit ==
  /\ Running /\ st.pc = "serve" /\ Over = {} /\ Sendable = {} /\ net.inbox = <<>>
  /\ st' = Ends(st, "success")
  /\ UNCHANGED <<scenario, net>>

Peer == PeerRequest \/ PeerUpdate \/ PeerUnsubscribe \/ PeerGoaway

Session ==
  \/ AcceptSubscribe \/ AcceptNamespace \/ AcceptDraft16Namespace \/ AcceptTracks
  \/ AcceptFetch \/ AcceptStatus \/ SubscribeUpdate \/ DiscoveryUpdate \/ PollDone
  \/ ControlSubscribe \/ ControlNamespace \/ ControlUnsupported \/ ControlUpdate
  \/ ControlSubscribeUpdate \/ ControlUnsubscribe \/ ControlGoaway \/ ControlDone
  \/ DrainSubscribe \/ FinalizeSubscription \/ ServeObject \/ ReadControl \/ IdleExit

Next == Peer \/ Session
Spec == Init /\ [][Next]_vars

-----------------------------------------------------------------------------
(* Properties. *)

\* Every request gets the answers its protocol allows: refused once, or
\* accepted once and ended by at most one PUBLISH_DONE with nothing after it,
\* whatever updates, withdrawals and completions cross each other.
AnswersWellFormed ==
  /\ \A r \in Ids : st.out[r] \in {<<>>, <<"ok">>, <<"error">>, <<"ok", "done">>}
  /\ st.out[2] \in {<<>>, <<"done">>}

\* A request that was read is answered, waits its turn, or was withdrawn.
ReadIsAnswered ==
  \A r \in st.handled :
    st.out[r] # <<>> \/ r \in DOMAIN st.pending \/ r \in st.withdrawn \/ ~Running

\* Every request is answered, and answered well.
AnswersSound == AnswersWellFormed /\ ReadIsAnswered

\* No two discovery requests in force have overlapping prefixes (draft 22
\* for namespaces, drafts 22 and 23 for tracks), also after their updates.
NoPrefixOverlap ==
  \A q, r \in DOMAIN st.discovery :
    (/\ q # r /\ st.discovery[q].active /\ st.discovery[r].active
     /\ st.discovery[q].kind = st.discovery[r].kind
     /\ draft = 22 \/ (draft = 23 /\ st.discovery[q].kind = "tracks"))
    => ~Overlap(st.discovery[q].prefix, st.discovery[r].prefix)

\* Draft 23: one SUBSCRIBE_TRACKS makes the session publish its tracks once.
PublishedOnce == draft >= 23 => \A r \in Ids : st.published[r] <= 1

\* Every request of our own has an id of its own, except that a session entered
\* from forward_published_tracks starts again at 2 (moqt_session.cpp:8179).
OwnIdsUnique == scenario.entered # "downgraded" => IsInjective(st.own)

\* Discovery requests, their updates and the PUBLISHes they cause never
\* contradict each other.
DiscoverySound == NoPrefixOverlap /\ PublishedOnce /\ OwnIdsUnique
=============================================================================
