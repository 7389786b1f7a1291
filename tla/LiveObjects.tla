----------------------------- MODULE LiveObjects -----------------------------
(* publish_live_objects (moqt_session.cpp): a session that sends what a
   live object source produces to the tracks' subscribers, until the
   source ends, the control stream does or close() stops it, and then
   finishes the tracks in the order of MSF 11.3.

   A write that would block calls back into the handlers of the control
   messages, so subscriptions change while a catalog group is half sent.
   What a control message holds and how it is validated is PeerRequests'
   subject, what a stopped subgroup does to an object SubgroupSender's.
   The peer's messages are taken at the points where the session polls. *)
EXTENDS Integers, Sequences, FiniteSets

CONSTANTS
  Scenarios,     \* [draft, auto, indefinite, live, stops, objects]
  MaxRequests    \* bound: SUBSCRIBEs and updates of the peer

Tracks == {"catalog", "video"}

\* Location o comes before location p of the same track.
Before(o, p) == o.group < p.group \/ (o.group = p.group /\ o.object < p.object)

\* A source numbers its catalogs in rising order, as CatalogPublisher does, and
\* only a catalog ends a broadcast.
SourceObjects == [track : Tracks, group : Nat, object : Nat, closing : BOOLEAN]
ASSUME ScenariosAssumption ==
  /\ MaxRequests \in Nat
  /\ Scenarios \subseteq [draft : Nat, auto : BOOLEAN, indefinite : BOOLEAN, live : BOOLEAN,
                          stops : BOOLEAN, objects : Seq(SourceObjects)]
  /\ \A sc \in Scenarios : \A i, j \in DOMAIN sc.objects :
       /\ sc.objects[i].closing => sc.objects[i].track = "catalog"
       /\ i < j /\ sc.objects[i].track = "catalog" /\ sc.objects[j].track = "catalog"
            => Before(sc.objects[i], sc.objects[j])

VARIABLES
  scenario,
  src,     \* the source: objects produced and taken, closed, its encoding failed
  peer,    \* requests the peer made
  s        \* the local state of publish_live_objects

objectVars == <<scenario, src, peer, s>>

draft == scenario.draft
auto == scenario.auto                  \* auto_forward_
UsesRequestStreams == draft >= 17
NeedsPermission == ~auto \/ UsesRequestStreams
None == [track |-> "none", group |-> 0, object |-> 0, closing |-> FALSE]

Put(f, x, v) == [y \in DOMAIN f \cup {x} |-> IF y = x THEN v ELSE f[y]]
Drop(f, x) == [y \in DOMAIN f \ {x} |-> f[y]]

ObjectsInit ==
  /\ scenario \in Scenarios
  /\ src = [produced |-> IF scenario.live THEN 0 ELSE Len(scenario.objects), taken |-> 0,
            closed |-> ~scenario.live, failed |-> FALSE]
  /\ peer = [asked |-> 0, fin |-> FALSE]
  /\ s = [pc |-> "announce", result |-> "none", stop |-> FALSE, ret |-> "none",
          subs |-> <<>>, subscribed |-> {}, established |-> {}, settings |-> <<>>,
          publishes |-> <<>>, terminated |-> {}, largest |-> 0, sentAny |-> FALSE,
          unserved |-> FALSE, sent |-> FALSE, latest |-> None, group |-> <<>>, offset |-> 0,
          closedGroups |-> {}, sending |-> <<>>, closing |-> None,
          mediaOnce |-> FALSE, awaiting |-> TRUE, out |-> <<>>, ended |-> {}]

-----------------------------------------------------------------------------
(* The source: a thread of its own when it is live. *)

SourceProduces ==
  /\ ~src.failed /\ src.produced < Len(scenario.objects)
  /\ src' = [src EXCEPT !.produced = @ + 1]
  /\ UNCHANGED <<scenario, peer, s>>

\* close() of the ingest, or an error of it, which closes it too.
SourceCloses ==
  /\ ~src.closed
  /\ \E error \in BOOLEAN : src' = [src EXCEPT !.closed = TRUE, !.failed = error]
  /\ UNCHANGED <<scenario, peer, s>>

\* close() of another thread stores stop_requested_.
Stop ==
  /\ scenario.stops /\ ~s.stop /\ s.pc # "over"
  /\ s' = [s EXCEPT !.stop = TRUE]
  /\ UNCHANGED <<scenario, src, peer>>

-----------------------------------------------------------------------------
(* Subscriptions. *)

SubsOf(x, t) == {r \in DOMAIN x.subs : x.subs[r].track = t}

\* refresh_subscriber_forward_permission
Refreshed(x, t) ==
  LET forwards == \/ \E r \in SubsOf(x, t) : x.subs[r].forward = 1
                  \/ t \in DOMAIN x.settings /\ x.settings[t] = 1
  IN  [x EXCEPT !.subscribed = IF forwards THEN @ \cup {t} ELSE @ \ {t}]

\* subscription_forwards_objects: drafts 14 and 16 do not look at the flag.
Forwards(f) == draft < 17 \/ f = 1

\* accept_subscribe, with a filter that starts at the first location or after
\* the largest one; a fill of drafts 21 and later sends the catalog at once.
Accepted(x, r, t, f, later, fill) ==
  LET filled == fill /\ draft >= 21 /\ t = "catalog" /\ x.sentAny
      sub == [track |-> t, forward |-> f, since |-> Len(x.out), filled |-> filled,
              start |-> IF later /\ t = "catalog" /\ x.sentAny THEN x.largest + 1 ELSE 0]
      kept == [x EXCEPT !.subs = Put(@, r, sub), !.established = @ \cup {t},
                        !.unserved = @ \/ (t = "catalog" /\ ~filled)]
  IN  IF draft = 18 /\ t \in x.established THEN x
      ELSE IF Forwards(f) THEN [kept EXCEPT !.subscribed = @ \cup {t}] ELSE kept

\* Requests ended by a PUBLISH_DONE.
DoneIds(x) == {x.out[i].group : i \in {j \in DOMAIN x.out : x.out[j].track = "done"}}

\* end_subscription
Ended(x, r) ==
  LET t == x.subs[r].track
      gone == [x EXCEPT !.subs = Drop(@, r), !.ended = @ \cup ({r} \ DoneIds(x))]
      left == IF SubsOf(gone, t) # {} THEN gone
              ELSE [gone EXCEPT !.established = @ \ {t}, !.unserved = @ /\ t # "catalog"]
  IN  Refreshed(left, t)

-----------------------------------------------------------------------------
(* PUBLISHes of the session. *)

\* publish_tracks: one PUBLISH per track, answered with a forward state.
Publishing(x, answers) ==
  IF x.publishes # <<>> THEN x
  ELSE [x EXCEPT !.publishes = [t \in Tracks |-> IF t = "catalog" THEN 2 ELSE 4],
                 !.settings = answers,
                 !.subscribed = @ \cup {t \in Tracks : answers[t] = 1}]

Answers == [Tracks -> {0, 1}]

\* Setup and namespace, then the PUBLISHes of auto-forward.
Announce ==
  /\ s.pc = "announce"
  /\ \E a \in Answers :
       s' = [(IF auto /\ UsesRequestStreams THEN Publishing(s, a) ELSE s) EXCEPT !.pc = "control"]
  /\ UNCHANGED <<scenario, src, peer>>

-----------------------------------------------------------------------------
(* Control messages. *)

\* Where control messages are handled: at the top of the loop and while a
\* write of the loop would block.
Polling == s.pc = "control" \/ (s.pc \in {"sendCatalog", "sendMedia"} /\ s.ret # "flush" /\ ~s.stop /\ ~peer.fin)

HandleSubscribe ==
  /\ Polling /\ peer.asked < MaxRequests
  /\ \E t \in Tracks, f \in {0, 1}, later, fill \in BOOLEAN :
       s' = Accepted(s, 2 * peer.asked + 1, t, f, later, fill)
  /\ peer' = [peer EXCEPT !.asked = @ + 1]
  /\ UNCHANGED <<scenario, src>>

\* apply_subscriber_request_update
HandleUpdate ==
  /\ Polling /\ draft >= 16 /\ peer.asked < MaxRequests
  /\ \E r \in DOMAIN s.subs, f \in {0, 1} :
       s' = Refreshed([s EXCEPT !.subs[r].forward = f], s.subs[r].track)
  /\ peer' = [peer EXCEPT !.asked = @ + 1]
  /\ UNCHANGED <<scenario, src>>

\* UNSUBSCRIBE, or the request stream was stopped or reset; the latter is also
\* noticed while the last groups are finished.
HandleEnd ==
  /\ Polling \/ (UsesRequestStreams /\ ~s.stop /\ (s.pc = "flushGroups" \/ s.ret = "flush"))
  /\ \E r \in DOMAIN s.subs : s' = Ended(s, r)
  /\ UNCHANGED <<scenario, src, peer>>

\* SUBSCRIBE_TRACKS with forward=1 publishes the tracks, once.
HandleTracks ==
  /\ Polling /\ draft >= 18 /\ s.publishes = <<>>
  /\ \E a \in Answers : s' = Publishing(s, a)
  /\ UNCHANGED <<scenario, src, peer>>

HandlePublishUpdate ==
  /\ Polling /\ draft >= 18 /\ peer.asked < MaxRequests
  /\ \E t \in DOMAIN s.settings, f \in {0, 1} :
       /\ s.publishes[t] \notin s.terminated
       /\ s' = Refreshed([s EXCEPT !.settings[t] = f], t)
  /\ peer' = [peer EXCEPT !.asked = @ + 1]
  /\ UNCHANGED <<scenario, src>>

\* STOP_SENDING on the stream of a PUBLISH: its forward state no longer counts.
HandlePublishStop ==
  /\ Polling /\ draft >= 18
  /\ \E t \in DOMAIN s.settings :
       s' = Refreshed([s EXCEPT !.settings = Drop(@, t),
                                !.terminated = @ \cup {s.publishes[t]}], t)
  /\ UNCHANGED <<scenario, src, peer>>

HandleFin ==
  /\ Polling /\ ~peer.fin /\ scenario.stops
  /\ peer' = [peer EXCEPT !.fin = TRUE]
  /\ UNCHANGED <<scenario, src, s>>

-----------------------------------------------------------------------------
(* The catalog. *)

Over(x, why) == [x EXCEPT !.pc = "over", !.result = why]

\* The latest catalog is due: not sent yet, or a subscription has not seen it.
ShouldSend(x) ==
  /\ x.latest # None
  /\ IF auto THEN (~UsesRequestStreams \/ "catalog" \in x.subscribed) /\ (~x.sent \/ x.unserved)
     ELSE x.unserved

\* A Group after everything sent.
NextCatalogGroup(x) ==
  (IF x.sentAny /\ x.largest > x.latest.group THEN x.largest ELSE x.latest.group) + 1

CatalogGroups(x) ==
  {x.out[i].group : i \in {j \in DOMAIN x.out : x.out[j].track = "catalog"}}

\* Mutant: a late subscriber is taken for served.
ResentMutant(x) == x
\* A late subscriber gets the catalog Group again, as a new one that its filter
\* includes; later catalogs of the source move up with it.
Resent(x) ==
  LET g == NextCatalogGroup(x)
      moved == [i \in DOMAIN x.group |-> [x.group[i] EXCEPT !.group = g]]
  IN  IF \E r \in SubsOf(x, "catalog") : x.subs[r].start <= g
      THEN [x EXCEPT !.offset = @ + (g - x.latest.group), !.latest.group = g, !.group = moved,
                     !.closedGroups = CatalogGroups(x),
                     !.sending = moved]
      ELSE x

\* send_retained_catalog, up to its first write.
CatalogBegun(x, ret) ==
  LET served == [x EXCEPT !.unserved = FALSE, !.pc = "sendCatalog", !.ret = ret]
  IN  IF ~ShouldSend(x) THEN [x EXCEPT !.pc = ret]
      ELSE IF ~x.sent /\ x.latest.group \notin x.closedGroups
      THEN [served EXCEPT !.sending = <<x.latest>>]
      ELSE Resent(served)

SendCatalogObject ==
  /\ s.pc = "sendCatalog"
  /\ s' = IF s.sending = <<>> THEN [s EXCEPT !.sent = TRUE, !.pc = s.ret, !.ret = "none"]
          ELSE [s EXCEPT !.sending = Tail(@), !.out = Append(@, Head(s.sending)),
                         !.largest = Head(s.sending).group, !.sentAny = TRUE]
  /\ UNCHANGED <<scenario, src, peer>>

-----------------------------------------------------------------------------
(* The loop. *)

HasMedia(x) == "video" \in x.subscribed

WaitsForSubscription ==
  /\ ~s.mediaOnce /\ NeedsPermission
  /\ \/ s.subs = <<>> /\ s.subscribed = {}
     \/ s.sent /\ ~HasMedia(s)

\* The control stream was read: a stop, the deadline of the first subscription,
\* or on with the catalog.
ControlRead ==
  /\ s.pc = "control"
  /\ s' = IF s.stop THEN [s EXCEPT !.pc = "flushGroups"] ELSE CatalogBegun(s, "permit")
  /\ UNCHANGED <<scenario, src, peer>>

SubscribeTimeout ==
  /\ s.pc = "control" /\ WaitsForSubscription /\ ~scenario.indefinite
  /\ s' = [s EXCEPT !.pc = "flushGroups"]
  /\ UNCHANGED <<scenario, src, peer>>

\* Without a subscription of a media track the source is not read, unless the
\* wait has no bound.
Permit ==
  /\ s.pc = "permit"
  /\ LET x == [s EXCEPT !.mediaOnce = @ \/ HasMedia(s)]
         held == ~x.mediaOnce /\ ~scenario.indefinite /\ NeedsPermission
                 /\ (x.subscribed = {} \/ x.sent)
     IN  s' = IF peer.fin THEN [s EXCEPT !.pc = "flushGroups"]
              ELSE [x EXCEPT !.pc = IF held THEN "control" ELSE "source"]
  /\ UNCHANGED <<scenario, src, peer>>

\* live_object_matches_request_union
WantedBy(x, o) ==
  \/ draft < 18
  \/ \E r \in SubsOf(x, o.track) : x.subs[r].forward = 1
  \/ o.track \in DOMAIN x.settings /\ x.settings[o.track] = 1
  \/ SubsOf(x, o.track) = {} /\ o.track \notin DOMAIN x.settings

\* A media object goes out when its track is forwarded.
MediaTaken(x, o) ==
  LET gated == IF auto THEN ~x.sent \/ (UsesRequestStreams /\ o.track \notin x.subscribed)
               ELSE o.track \notin x.subscribed
  IN  IF gated \/ ~WantedBy(x, o) THEN [x EXCEPT !.pc = "control"]
      ELSE [x EXCEPT !.pc = "sendMedia", !.ret = "control", !.sending = <<o>>]

\* A catalog of the source joins the Group retained for new subscriptions;
\* from draft 22 it also goes to the old ones.
CatalogTaken(x, o) ==
  LET kept == [x EXCEPT !.latest = o,
                        !.group = IF @ # <<>> /\ Head(@).group = o.group THEN Append(@, o) ELSE <<o>>]
      due == IF draft < 22 THEN kept
             ELSE [kept EXCEPT !.sent = FALSE, !.unserved = SubsOf(x, "catalog") # {}]
  IN  CatalogBegun(due, "control")

\* The closing catalog has to be the last object of the source.
ClosingTaken(x, o) ==
  IF src.taken + 1 < src.produced THEN Over(x, "failure")
  ELSE [x EXCEPT !.closing = o, !.pc = "flushGroups"]

TakeObject ==
  /\ s.pc = "source" /\ ~src.failed /\ src.taken < src.produced
  /\ LET read == scenario.objects[src.taken + 1]
         o == [read EXCEPT !.group = @ + IF read.track = "catalog" THEN s.offset ELSE 0]
         x == [s EXCEPT !.awaiting = FALSE]
     IN  s' = CASE s.awaiting /\ read.track # "catalog" -> Over(s, "failure")
                [] read.closing -> ClosingTaken(x, o)
                [] ~read.closing /\ read.track = "catalog" -> CatalogTaken(x, o)
                [] OTHER -> MediaTaken(x, o)
  /\ src' = [src EXCEPT !.taken = @ + 1]
  /\ UNCHANGED <<scenario, peer>>

\* next_object() threw the error of the source or returned nothing; what the source does before is_finished() is
\* asked comes in between.
SourceEmpty ==
  /\ s.pc = "source" /\ (src.failed \/ src.taken = src.produced)
  /\ s' = IF src.failed THEN Over(s, "failure") ELSE [s EXCEPT !.pc = "empty"]
  /\ UNCHANGED <<scenario, src, peer>>

\* is_finished: the ingest was closed; a finite source has no predicate.
Finished == src.closed

AskFinished ==
  /\ s.pc = "empty"
  /\ s' = CASE ~Finished -> [s EXCEPT !.pc = "control"]
            [] Finished /\ s.awaiting -> Over(s, "failure")
            [] OTHER -> [s EXCEPT !.pc = "flushGroups"]
  /\ UNCHANGED <<scenario, src, peer>>

SendMediaObject ==
  /\ s.pc = "sendMedia"
  /\ s' = [s EXCEPT !.sending = <<>>, !.out = Append(@, Head(s.sending)), !.pc = s.ret, !.ret = "none"]
  /\ UNCHANGED <<scenario, src, peer>>

\* Mutant: only the end of the control stream is looked at.
InterruptedMutant == peer.fin /\ s.ret # "flush"
\* A write that would block gives up on a stop and, in the loop, on the end of
\* the control stream.
Interrupted == s.stop \/ (peer.fin /\ s.ret # "flush")

WriteInterrupted ==
  /\ s.pc \in {"sendCatalog", "sendMedia"} /\ Interrupted
  /\ s' = IF s.ret = "flush" THEN Over(s, "success")
          ELSE [s EXCEPT !.pc = "flushGroups", !.sending = <<>>, !.ret = "none"]
  /\ UNCHANGED <<scenario, src, peer>>

-----------------------------------------------------------------------------
(* The flush. *)

\* PUBLISH_DONE of request r.
Done(t, r) == [track |-> "done", group |-> r, object |-> t, closing |-> FALSE]

\* Request ids in the order of their map.
Ascending(S) ==
  CHOOSE f \in [1..Cardinality(S) -> S] : \A i, j \in DOMAIN f : i < j => f[i] < f[j]

\* send_publish_dones: the requests of the catalog, or those of the media.
DonesOf(x, t) ==
  LET subs == Ascending(SubsOf(x, t))
      own == IF t \in DOMAIN x.publishes /\ x.publishes[t] \notin x.terminated
             THEN <<x.publishes[t]>> ELSE <<>>
  IN  [i \in 1..Len(subs \o own) |-> Done(t, (subs \o own)[i])]

FlushGroups ==
  /\ s.pc = "flushGroups"
  /\ s' = [s EXCEPT !.pc = "flushMedia",
                    !.closedGroups = CatalogGroups(s)]
  /\ UNCHANGED <<scenario, src, peer>>

\* The track whose requests a round of send_publish_dones ends.
Phase(catalog) == IF catalog THEN "catalog" ELSE "video"

FlushMedia ==
  /\ s.pc = "flushMedia"
  /\ LET x == [s EXCEPT !.out = @ \o DonesOf(s, Phase(FALSE))]
     IN  s' = IF s.closing = None THEN [x EXCEPT !.pc = "flush"]
              ELSE CatalogBegun([x EXCEPT !.latest = s.closing, !.closing = None, !.sent = FALSE,
                                          !.unserved = SubsOf(s, "catalog") # {}], "flush")
  /\ UNCHANGED <<scenario, src, peer>>

\* Mutant: a PUBLISH the peer stopped is ended once more.
CatalogDonesMutant(x) == DonesOf([x EXCEPT !.terminated = {}], Phase(TRUE))
CatalogDones(x) == DonesOf(x, Phase(TRUE))

FlushCatalog ==
  /\ s.pc = "flush"
  /\ s' = Over([s EXCEPT !.out = @ \o CatalogDones(s) \o <<[None EXCEPT !.track = "namespace"]>>],
               "success")
  /\ UNCHANGED <<scenario, src, peer>>

\* On a stop the flush has two seconds, and a write that fails ends it too.
FlushCut ==
  /\ s.stop /\ s.pc \in {"flushGroups", "flushMedia", "flush"}
  /\ s' = Over(s, "success")
  /\ UNCHANGED <<scenario, src, peer>>

Peer == \/ HandleSubscribe \/ HandleUpdate \/ HandleEnd \/ HandleTracks
        \/ HandlePublishUpdate \/ HandlePublishStop \/ HandleFin

Session ==
  \/ Announce \/ ControlRead \/ Permit \/ TakeObject \/ SourceEmpty \/ AskFinished
  \/ WriteInterrupted \/ FlushGroups \/ FlushMedia \/ FlushCatalog \/ FlushCut

ObjectsNext == \/ SourceProduces \/ SourceCloses \/ Stop \/ Peer \/ SubscribeTimeout
        \/ Session \/ SendCatalogObject \/ SendMediaObject

\* The publishing thread runs on; a write may block for ever, because the peer
\* owes no flow control credit.
ObjectsSpec == ObjectsInit /\ [][ObjectsNext]_objectVars /\ WF_objectVars(Session)

-----------------------------------------------------------------------------
(* Properties. *)

\* No catalog subscription is forgotten: when the loop goes on with the source
\* and nothing is marked as unserved, every forwarding catalog subscription has
\* been sent a catalog since it was accepted, whatever was accepted, updated or
\* ended while a catalog group was being written.
CatalogReaches ==
  s.pc = "permit" /\ ~s.unserved /\ s.latest # None =>
    \A r \in SubsOf(s, "catalog") :
      \/ s.subs[r].forward = 0 \/ s.subs[r].filled
      \/ \E i \in (s.subs[r].since + 1)..Len(s.out) : s.out[i].track = "catalog"

\* The locations of the catalog track grow: groups inserted for late
\* subscribers and the source's own never share or reuse a location.
CatalogLocationsGrow ==
  \A i, j \in DOMAIN s.out :
    i < j /\ s.out[i].track = "catalog" /\ s.out[j].track = "catalog" =>
      Before(s.out[i], s.out[j])

\* Every subscriber of the catalog is served, at locations of its own.
CatalogTrackSound == CatalogReaches /\ CatalogLocationsGrow

\* MSF 11.3: media PUBLISH_DONEs, then the closing catalog, then those of the
\* catalog; nothing of a track follows a PUBLISH_DONE of it.
EndOrder ==
  \A i, j \in DOMAIN s.out :
    i < j => /\ ~(s.out[i].track = "done" /\ s.out[j].track = s.out[i].object)
             /\ ~(s.out[i].closing /\ s.out[j].track = "done" /\ s.out[j].object = "video")

\* A publish that was not stopped ends every request that is still open with
\* one PUBLISH_DONE, and none that the peer has ended.
DonesExact ==
  /\ Cardinality(DoneIds(s)) = Cardinality({j \in DOMAIN s.out : s.out[j].track = "done"})
  /\ DoneIds(s) \cap (s.ended \cup s.terminated) = {}
  /\ s.result = "success" /\ ~s.stop =>
       DOMAIN s.subs \cup ({s.publishes[t] : t \in DOMAIN s.publishes} \ s.terminated) \subseteq DoneIds(s)

\* A gap of a live source is not its end: the publish goes on, through any
\* number of empty reads, until the source closes or its closing catalog came.
GapIsNotEnd ==
  s.pc = "over" /\ s.result = "success" /\ s.mediaOnce /\ ~s.stop /\ ~peer.fin =>
    src.closed \/ (src.taken > 0 /\ scenario.objects[src.taken].closing)

\* The publish ends when its source does, in the order MSF prescribes and with
\* one PUBLISH_DONE for every request that is still open.
EndsSound == EndOrder /\ DonesExact /\ GapIsNotEnd

\* close() ends the publish.
StopEnds == s.stop ~> s.pc = "over"
=============================================================================
