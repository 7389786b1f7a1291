---------------------------- MODULE LiveFragments ----------------------------
(* publish_live (moqt_session.cpp) for fragments read from SRT callers or
   from stdin: an input thread numbers and queues fragments, the
   publishing loop sends them to the tracks' requests, and end_broadcast()
   may write the closing catalog from a third thread. The loop has three
   shapes: SRT, stdin in forward mode and stdin awaiting subscriptions.

   An input token is a moof with its mdat (stdin) or a fragment (SRT). How
   SRT sheds is LiveMediaQueue's subject, how its threads end
   LiveSrtPublish's, what a request holds PeerRequests', what a stopped or
   expired subgroup does to an object SubgroupSender's: here a write that
   was offered may come back unpublished. Filters are left out. *)
EXTENDS Integers, Sequences, FiniteSets, SequencesExt, FiniteSetsExt

CONSTANTS
  Scenarios,    \* [source, auto, draft, loc, input, republish, asks, max, ends]; asks
                \* and ends: what the peer, the application and the transport do;
                \* max: the bound on messages of the peer; republish: the bound on
                \* catalog groups up to which the catalog is republished
  MaxQueued     \* fragments the LOC queue holds (512)

VARIABLES
  scenario,
  inp,   \* the input thread, its queue and its stop flag
  m,     \* members of MoqtSession that end_broadcast() shares with publish_live()
  cast,  \* a thread in end_broadcast()
  asked, \* messages of the peer so far
  s      \* the local state of publish_live

fragmentVars == <<scenario, inp, m, cast, asked, s>>

srt == scenario.source = "srt"
auto == scenario.auto                     \* auto_forward_
draft == scenario.draft
loc == scenario.loc
Input == scenario.input
Asks(what) == what \in scenario.asks /\ asked < scenario.max

UsesRequestStreams == draft >= 17
\* subscription_forwards_objects: drafts 14 and 16 do not look at the flag.
Forwards(f) == draft < 17 \/ f = 1

Media == {Input[i].track : i \in DOMAIN Input}
Tracks == Media \cup {"catalog"}

Put(f, x, v) == [y \in DOMAIN f \cup {x} |-> IF y = x THEN v ELSE f[y]]
Drop(f, x) == [y \in DOMAIN f \ {x} |-> f[y]]

FragmentsInit ==
  /\ scenario \in Scenarios
  /\ inp = [on |-> FALSE, read |-> 0, half |-> FALSE, groups |-> <<>>, queue |-> <<>>,
            dropped |-> <<>>, lost |-> {}, eof |-> FALSE, error |-> FALSE,
            stop |-> FALSE, over |-> FALSE]
  /\ m = [known |-> FALSE, last |-> FALSE, next |-> 0, ended |-> FALSE, object |-> 0,
          streams |-> {}, closed |-> FALSE]
  /\ cast = [pc |-> "idle", group |-> 0]
  /\ asked = 0
  /\ s = [pc |-> "discover", ret |-> "none", result |-> "none", stop |-> FALSE,
          subs |-> <<>>, subscribed |-> {}, established |-> {}, settings |-> <<>>,
          publishes |-> <<>>, terminated |-> {}, ended |-> {},
          deferred |-> FALSE, doneTo |-> 0, owed |-> 0, sending |-> 0, sentAt |-> FALSE,
          lastGroup |-> <<>>, waiting |-> {}, hand |-> <<>>, taken |-> {}, unsent |-> {},
          eof |-> FALSE, deadline |-> FALSE, fin |-> FALSE, todo |-> <<>>,
          resume |-> <<>>, out |-> <<>>]

-----------------------------------------------------------------------------
(* The input thread. *)

Fragment(i, g, o) == [at |-> i, track |-> Input[i].track, group |-> g, object |-> o]

NextGroup(x, t) == IF t \in DOMAIN x.groups THEN x.groups[t].group + 1 ELSE 0

\* A keyframe opens its track's next group; another track follows the video.
Grouped(x, t, key) ==
  LET follows == /\ t # "video" /\ "video" \in DOMAIN x.groups
                 /\ t \in DOMAIN x.groups => x.groups[t].group # x.groups["video"].group
      at(g) == Put(x.groups, t, [group |-> g, next |-> 0])
  IN  IF key THEN at(NextGroup(x, t))
      ELSE IF follows THEN at(x.groups["video"].group)
      ELSE x.groups

\* A CMAF fragment is queued, and fragments older than each track's latest two
\* groups leave the queue. Media before a first keyframe is dropped.
CmafPushed(x, i) ==
  LET t == Input[i].track
      g == Grouped(x, t, Input[i].key)
      q == Append(x.queue, Fragment(i, g[t].group, g[t].next))
      recent(f) == f.group + 1 >= g[f.track].group
  IN  IF t \notin DOMAIN g THEN [x EXCEPT !.lost = @ \cup {i}]
      ELSE [x EXCEPT !.groups = [g EXCEPT ![t].next = @ + 1],
                     !.queue = SelectSeq(q, recent),
                     !.lost = @ \cup {q[j].at : j \in {k \in DOMAIN q : ~recent(q[k])}}]

\* LocTrackEncoder::encode: a keyframe, or any sample of another track, opens
\* a group; video waits for its first keyframe.
LocGrouped(x, t, key) ==
  IF key \/ t # "video" THEN Put(x.groups, t, [group |-> NextGroup(x, t), next |-> 0])
  ELSE x.groups

\* The group of the fragment was dropped before.
StillDropped(x, f) == f.track \in DOMAIN x.dropped /\ f.group <= x.dropped[f.track]

\* A LOC object is queued; beyond the depth the whole group in front leaves.
LocPushed(x, i) ==
  LET t == Input[i].track
      g == LocGrouped(x, t, Input[i].key)
      f == Fragment(i, g[t].group, g[t].next)
      y == [x EXCEPT !.groups = [g EXCEPT ![t].next = @ + 1]]
      q == Append(y.queue, f)
      gone(e) == e.track = q[1].track /\ e.group = q[1].group
      stays(e) == ~gone(e)
  IN  IF t \notin DOMAIN g THEN [x EXCEPT !.lost = @ \cup {i}]
      ELSE IF StillDropped(x, f) THEN [y EXCEPT !.lost = @ \cup {i}]
      ELSE IF Len(q) <= MaxQueued THEN [y EXCEPT !.queue = q]
      ELSE [y EXCEPT !.queue = SelectSeq(q, stays),
                     !.dropped = Put(@, q[1].track, q[1].group),
                     !.lost = @ \cup {q[j].at : j \in {k \in DOMAIN q : gone(q[k])}}]

InputMoof ==
  /\ ~srt /\ inp.on /\ ~inp.over /\ ~inp.half /\ inp.read < Len(Input)
  /\ inp' = [inp EXCEPT !.half = TRUE]
  /\ UNCHANGED <<scenario, m, cast, asked, s>>

\* The fragment is complete: numbered and queued. What cannot be parsed is
\* skipped, or ends the input when it is LOC.
InputMdat ==
  /\ ~srt /\ ~inp.over /\ inp.half
  /\ LET i == inp.read + 1
         x == [inp EXCEPT !.half = FALSE, !.read = i]
     IN  inp' = IF Input[i].bad /\ loc
                THEN [x EXCEPT !.error = TRUE, !.eof = TRUE, !.over = TRUE, !.lost = @ \cup {i}]
                ELSE IF Input[i].bad THEN [x EXCEPT !.lost = @ \cup {i}]
                ELSE IF loc THEN LocPushed(x, i) ELSE CmafPushed(x, i)
  /\ UNCHANGED <<scenario, m, cast, asked, s>>

\* SRT: the fragments come numbered.
InputPush ==
  /\ srt /\ inp.on /\ ~inp.over /\ inp.read < Len(Input)
  /\ LET i == inp.read + 1
     IN  inp' = [inp EXCEPT !.read = i,
                            !.queue = Append(@, Fragment(i, Input[i].group, Input[i].object))]
  /\ UNCHANGED <<scenario, m, cast, asked, s>>

\* The end of the input, or its stop flag.
InputEnds ==
  /\ inp.on /\ ~inp.over
  /\ inp.stop \/ (inp.read = Len(Input) /\ ~inp.half)
  /\ inp' = [inp EXCEPT !.eof = TRUE, !.over = TRUE]
  /\ UNCHANGED <<scenario, m, cast, asked, s>>

InputThread == InputMoof \/ InputMdat \/ InputPush \/ InputEnds

-----------------------------------------------------------------------------
(* How the publish leaves its loop. *)

Boxes(i) == <<<<i, "moof">>, <<i, "mdat">>>>
AllBoxes(is) == FlattenSeq([j \in DOMAIN is |-> Boxes(is[j])])

\* unsent is the fragment that drain_queue took and was writing.
Leave(x, why) ==
  [x EXCEPT !.pc = "join", !.result = why,
            !.unsent = IF x.pc = "serve" THEN {x.hand.at} ELSE {}]

\* Mutant: the moof that waits for its mdat is forgotten.
PendingMutant == <<>>
\* pending_input_moof
Pending == IF inp.half THEN <<<<inp.read + 1, "moof">>>> ELSE <<>>

\* join_stdin_thread: the init segment, the CMAF fragments still queued, the
\* pending moof and what the reader has not parsed.
Resume ==
  LET unread == [j \in 1 .. (Len(Input) - inp.read) |-> inp.read + j]
      queued == [j \in DOMAIN inp.queue |-> inp.queue[j].at]
      rest == AllBoxes(unread)
  IN  (IF loc THEN <<>> ELSE AllBoxes(queued)) \o Pending
        \o (IF inp.half THEN Tail(rest) ELSE rest)

JoinInput ==
  /\ s.pc = "join"
  /\ inp' = [inp EXCEPT !.stop = TRUE]
  /\ s' = [s EXCEPT !.pc = "joining"]
  /\ UNCHANGED <<scenario, m, cast, asked>>

Joined ==
  /\ s.pc = "joining" /\ inp.over
  /\ s' = [s EXCEPT !.pc = IF s.result = "ok" THEN "finish" ELSE "guard",
                    !.resume = IF srt THEN @ ELSE Resume]
  /\ UNCHANGED <<scenario, inp, m, cast, asked>>

-----------------------------------------------------------------------------
(* Setup. *)

\* What ended a discovery: its result, close(), or a failure.
Discoveries ==
  {"ready"} \cup (IF s.stop THEN {"stopped"} ELSE {})
    \cup (IF "fault" \in scenario.ends THEN {"failure"} ELSE {})

Undiscovered(x, why) ==
  [x EXCEPT !.pc = "over", !.result = IF why = "stopped" THEN "closed" ELSE "failure"]

\* The SRT manager waits for every caller's tracks, while fragments are queued.
SrtDiscover ==
  /\ srt /\ s.pc = "discover"
  /\ \E why \in Discoveries :
       /\ inp' = [inp EXCEPT !.on = why = "ready"]
       /\ s' = IF why = "ready" THEN [s EXCEPT !.pc = "announce"] ELSE Undiscovered(s, why)
  /\ UNCHANGED <<scenario, m, cast, asked>>

\* Everything from the init segment on that is not below the given position.
InputFrom(first) == AllBoxes([j \in 1..(Len(Input) - first + 1) |-> first + j - 1])

\* ftyp and moov, the look-ahead for frame rates and the catalog. From here a
\* retry has the input but for what the look-ahead took from stdin: it is read
\* after live_resume_bytes_ was set.
StdinDiscover ==
  /\ ~srt /\ s.pc = "discover"
  /\ \E why \in Discoveries, ahead \in {0, 1} :
       s' = IF why = "ready"
            THEN [s EXCEPT !.pc = "announce", !.resume = InputFrom(1 + ahead)]
            ELSE Undiscovered(s, why)
  /\ UNCHANGED <<scenario, inp, m, cast, asked>>

NamespaceAnswers == {"ok"} \cup (IF "fault" \in scenario.ends THEN {"late", "refused"} ELSE {})

\* PUBLISH_NAMESPACE and its answer.
SrtAnnounce ==
  /\ srt /\ s.pc = "announce" /\ ~m.closed
  /\ \E answer \in NamespaceAnswers :
       IF answer = "ok"
       THEN /\ s' = [s EXCEPT !.pc = "top"]
            /\ m' = [m EXCEPT !.known = TRUE]
       ELSE s' = Leave(s, "failure") /\ UNCHANGED m
  /\ UNCHANGED <<scenario, inp, cast, asked>>

\* Stdin PUBLISHes its media on the control stream without waiting.
ControlPublishes ==
  IF UsesRequestStreams THEN <<>> ELSE [t \in Media |-> IF t = "video" THEN 2 ELSE 4]

\* Stdin on a control stream goes on without an answer. Then its thread starts,
\* and every way out joins it and sets live_resume_bytes_ again.
StdinAnnounce ==
  /\ ~srt /\ s.pc = "announce" /\ ~m.closed
  /\ \E answer \in NamespaceAnswers :
       IF answer = "ok" \/ (answer = "late" /\ ~UsesRequestStreams)
       THEN /\ m' = [m EXCEPT !.known = TRUE]
            /\ inp' = [inp EXCEPT !.on = TRUE]
            /\ s' = [s EXCEPT !.pc = IF auto /\ UsesRequestStreams THEN "preannounce" ELSE "top",
                              !.publishes = ControlPublishes, !.resume = InputFrom(1)]
       ELSE /\ s' = [s EXCEPT !.pc = "over", !.result = "failure"]
            /\ UNCHANGED <<inp, m>>
  /\ UNCHANGED <<scenario, cast, asked>>

-----------------------------------------------------------------------------
(* CatalogPublisher and send_catalog. *)

Emitted(c) == [c EXCEPT !.last = TRUE, !.next = @ + 1]

Written(kind, t, id, g, o) == [kind |-> kind, track |-> t, id |-> id, group |-> g, object |-> o]

\* catalog_publish_done_deferred and its sender, once a catalog request is answered.
Owing(x, r) == IF r = 0 THEN x ELSE [x EXCEPT !.deferred = TRUE, !.doneTo = r, !.owed = 0]

\* serve_catalog_fill: the catalog object last written, on a fetch stream.
Fills(fill) == fill /\ draft >= 21 /\ m.object # 0

\* Mutant: a later subscription finds the catalog unchanged.
EmitsMutant(joining, filled) == ~m.ended /\ ~m.last
\* publish() and, for a joining subscription it leaves empty-handed,
\* force_independent(); both throw once the broadcast has ended.
Emits(joining, filled) == ~m.ended /\ (~m.last \/ (joining /\ ~filled))

\* send_catalog for request r up to the write, then on to pc ret.
SendCatalog(x, r, joining, fill, ret) ==
  LET filled == joining /\ Fills(fill)
      y == IF filled THEN [x EXCEPT !.out = Append(@, Written("fill", "catalog", r, m.object - 1, 0))]
           ELSE x
  IN  IF Emits(joining, filled)
      THEN /\ s' = [y EXCEPT !.pc = "catalog", !.ret = ret, !.sending = m.next, !.owed = r]
           /\ m' = Emitted(m)
      ELSE /\ s' = Owing([y EXCEPT !.pc = ret], r)
           /\ UNCHANGED m

\* send_catalog_objects: one stream per independent catalog.
WriteCatalog ==
  /\ s.pc = "catalog" /\ ~m.closed
  /\ s' = Owing([s EXCEPT !.pc = s.ret, !.sentAt = TRUE,
                          !.out = Append(@, Written("catalog", "catalog", 0, s.sending, 0))], s.owed)
  /\ m' = [m EXCEPT !.object = s.sending + 1]
  /\ UNCHANGED <<scenario, inp, cast, asked>>

-----------------------------------------------------------------------------
(* Requests. *)

SubsOf(x, t) == {r \in DOMAIN x.subs : x.subs[r].track = t}
AnyForward(x, t) == \E r \in SubsOf(x, t) : x.subs[r].forward = 1

\* refresh_published_track_forwarding; SRT keeps its PUBLISHes among the subs.
Refreshed(x, t) ==
  LET forward == AnyForward(x, t) \/ (t \in DOMAIN x.settings /\ x.settings[t] = 1)
  IN  [x EXCEPT !.subscribed = IF forward THEN @ \cup {t} ELSE @ \ {t}]

\* The catalog's PUBLISH_DONE is owed while a catalog subscription remains.
CatalogGone(x) == [x EXCEPT !.deferred = @ /\ SubsOf(x, "catalog") # {}]

\* A PUBLISH of stdin whose stream end_broadcast() has taken away makes the
\* next poll of the PUBLISH streams fail.
PollFails ==
  /\ ~srt /\ draft >= 18
  /\ \E t \in DOMAIN s.publishes : s.publishes[t] \notin s.terminated \cup m.streams

Polling == (s.pc = "control" \/ (srt /\ s.pc = "serve")) /\ ~PollFails /\ ~m.closed

\* A SUBSCRIBE for track t is answered with SUBSCRIBE_OK.
AnswerSubscribe(t, f, fill) ==
  LET r == 2 * asked + 1
      joins == t = "catalog" /\ Forwards(f)
      sub == [track |-> t, forward |-> f, joined |-> joins, since |-> Len(s.out)]
      x == [s EXCEPT !.subs = Put(@, r, sub), !.established = @ \cup {t},
                     !.subscribed = IF t # "catalog" /\ Forwards(f) THEN @ \cup {t} ELSE @]
  IN  IF joins THEN SendCatalog(x, r, TRUE, fill, s.pc)
      ELSE s' = (IF t = "catalog" THEN Owing(x, r) ELSE x) /\ UNCHANGED m

SubscribeAsked ==
  /\ Polling /\ Asks("subscribe")
  /\ asked' = asked + 1
  /\ UNCHANGED <<scenario, inp, cast>>

SrtSubscribe ==
  /\ srt /\ UsesRequestStreams /\ SubscribeAsked
  /\ \E t \in Tracks, f \in {0, 1}, fill \in {FALSE, draft >= 21} : AnswerSubscribe(t, f, fill)

\* Stdin refuses a second subscription for a track on draft 18.
StdinSubscribe ==
  /\ ~srt /\ UsesRequestStreams /\ SubscribeAsked
  /\ \E t \in Tracks, f \in {0, 1}, fill \in {FALSE, draft >= 21} :
       IF draft = 18 /\ t \in s.established THEN UNCHANGED <<s, m>>
       ELSE AnswerSubscribe(t, f, fill)

\* Drafts 14 and 16 subscribe on the control stream.
SrtControlSubscribe ==
  /\ srt /\ ~UsesRequestStreams /\ SubscribeAsked
  /\ \E t \in Tracks, f \in {0, 1} : AnswerSubscribe(t, f, FALSE)

StdinControlSubscribe ==
  /\ ~srt /\ ~UsesRequestStreams /\ SubscribeAsked
  /\ \E t \in Tracks, f \in {0, 1} : AnswerSubscribe(t, f, FALSE)

UpdateAsked ==
  /\ Polling /\ Asks("update") /\ draft >= 16
  /\ asked' = asked + 1
  /\ UNCHANGED <<scenario, inp, cast>>

\* apply_subscriber_request_update: the catalog goes out if it never did.
Updated(r, f) ==
  LET t == s.subs[r].track
      x == [s EXCEPT !.subs[r].forward = f]
  IN  IF t = "catalog" /\ AnyForward(x, t) THEN SendCatalog(x, 0, FALSE, FALSE, s.pc)
      ELSE s' = (IF t = "catalog" THEN x ELSE Refreshed(x, t)) /\ UNCHANGED m

SrtUpdate == srt /\ UpdateAsked /\ \E r \in DOMAIN s.subs, f \in {0, 1} : Updated(r, f)
StdinUpdate == ~srt /\ UpdateAsked /\ \E r \in DOMAIN s.subs, f \in {0, 1} : Updated(r, f)

\* Mutant: the subscription stays on the books.
EndedMutant(x, r) == Refreshed([x EXCEPT !.ended = @ \cup {r}], x.subs[r].track)
\* end_peer_stopped_subscriptions and what follows it.
Ended(x, r) ==
  LET t == x.subs[r].track
      y == [x EXCEPT !.subs = Drop(@, r), !.ended = @ \cup {r}, !.established = @ \ {t}]
  IN  IF t = "catalog" THEN CatalogGone(y) ELSE Refreshed(y, t)

\* Peers stop requests on request streams; stdin also looks between fragments.
HandleStop ==
  /\ Polling \/ (~srt /\ s.pc = "drain")
  /\ Asks("stop") /\ draft >= 18 /\ ~m.closed
  /\ \E r \in DOMAIN s.subs \ Range(s.publishes) : s' = Ended(s, r)
  /\ asked' = asked + 1
  /\ UNCHANGED <<scenario, inp, m, cast>>

PublishIds == [t \in Tracks |-> CASE t = "video" -> 2 [] t = "audio" -> 4 [] OTHER -> 6]
Answers == [Tracks -> {0, 1}]

\* publish_discovered_tracks (SRT): a PUBLISHed track is a subscription.
Discovered(x, fresh, answers) ==
  LET ids == {PublishIds[t] : t \in fresh}
      name(id) == CHOOSE t \in fresh : PublishIds[t] = id
      sub(id) == [track |-> name(id), forward |-> answers[name(id)], joined |-> FALSE, since |-> 0]
  IN  [x EXCEPT !.subs = [id \in DOMAIN @ \cup ids |-> IF id \in ids THEN sub(id) ELSE @[id]],
                !.publishes = PublishIds,
                !.subscribed = @ \cup {t \in fresh \cap Media : answers[t] = 1}]

\* publish_live_tracks (stdin): its answers are settings.
Published(x, fresh, answers) ==
  [x EXCEPT !.publishes = [t \in DOMAIN @ \cup fresh |-> PublishIds[t]],
            !.settings = [t \in DOMAIN @ \cup fresh |-> IF t \in fresh THEN answers[t] ELSE @[t]]]

TracksAsked ==
  /\ Polling /\ Asks("tracks") /\ draft >= 18
  /\ asked' = asked + 1
  /\ UNCHANGED <<scenario, inp, cast>>

\* SUBSCRIBE_TRACKS with forward=1: what is not PUBLISHed yet is, and a catalog
\* answered with forward=1 goes out unless it did.
SrtTracks ==
  /\ srt /\ TracksAsked
  /\ \E answers \in Answers :
       LET fresh == Tracks \ DOMAIN s.publishes
           x == Discovered(s, fresh, answers)
       IN  IF "catalog" \in fresh /\ answers["catalog"] = 1
           THEN SendCatalog(x, PublishIds["catalog"], FALSE, FALSE, s.pc)
           ELSE /\ s' = IF "catalog" \in fresh THEN Owing(x, PublishIds["catalog"]) ELSE x
                /\ UNCHANGED m

\* Stdin takes every media track for wanted and sends the catalog if it never did.
StdinTracks ==
  /\ ~srt /\ TracksAsked
  /\ \E answers \in Answers :
       LET fresh == Tracks \ DOMAIN s.publishes
           x == [Published(s, fresh, answers) EXCEPT !.subscribed = @ \cup Media]
           c == [m EXCEPT !.streams = @ \cup {PublishIds[t] : t \in fresh}]
       IN  IF Emits(FALSE, FALSE)
           THEN /\ s' = [x EXCEPT !.pc = "catalog", !.ret = s.pc, !.sending = m.next,
                                  !.owed = PublishIds["catalog"]]
                /\ m' = Emitted(c)
           ELSE s' = Owing(x, PublishIds["catalog"]) /\ m' = c

\* Stdin: PUBLISH_OK on the control stream, and REQUEST_UPDATEs of a PUBLISH.
HandlePublishUpdate ==
  /\ Polling /\ Asks("publish") /\ ~srt /\ draft # 17
  /\ \E t \in DOMAIN s.publishes, f \in {0, 1} :
       /\ s.publishes[t] \notin s.terminated
       /\ s' = Refreshed([s EXCEPT !.settings = Put(@, t, f)], t)
  /\ asked' = asked + 1
  /\ UNCHANGED <<scenario, inp, m, cast>>

PublishEndAsked ==
  /\ Polling /\ Asks("publish") /\ draft >= 18
  /\ asked' = asked + 1
  /\ UNCHANGED <<scenario, inp, m, cast>>

\* The peer stops, or finishes, the stream of a PUBLISH: SRT ends the
\* subscription either way, stdin only when it was stopped.
SrtPublishEnd ==
  /\ srt /\ PublishEndAsked
  /\ \E t \in DOMAIN s.publishes, stopped \in BOOLEAN :
       LET id == s.publishes[t]
           x == Refreshed([s EXCEPT !.terminated = @ \cup {id}, !.subs = Drop(@, id)], t)
       IN  /\ id \notin s.terminated
           /\ s' = IF stopped /\ t = "catalog" THEN CatalogGone(x) ELSE x

StdinPublishEnd ==
  /\ ~srt /\ PublishEndAsked
  /\ \E t \in DOMAIN s.publishes, stopped \in BOOLEAN :
       LET x == [s EXCEPT !.terminated = @ \cup {s.publishes[t]}]
           y == Refreshed([x EXCEPT !.settings = Drop(@, t)], t)
       IN  /\ s.publishes[t] \notin s.terminated
           /\ s' = IF ~stopped THEN x ELSE IF t = "catalog" THEN CatalogGone(y) ELSE y

\* PUBLISH_ERROR and REQUEST_ERROR of drafts 14 and 16 end the publish.
HandleRejection ==
  /\ Polling /\ Asks("reject") /\ ~srt /\ draft < 17
  /\ s' = Leave(s, "failure")
  /\ asked' = asked + 1
  /\ UNCHANGED <<scenario, inp, m, cast>>

\* The control stream ends; forward mode does not look.
HandleFin ==
  /\ Polling /\ Asks("fin") /\ (srt \/ ~auto)
  /\ s' = [s EXCEPT !.fin = TRUE]
  /\ asked' = asked + 1
  /\ UNCHANGED <<scenario, inp, m, cast>>

Peer ==
  \/ SrtSubscribe \/ StdinSubscribe \/ SrtControlSubscribe \/ StdinControlSubscribe
  \/ SrtUpdate \/ StdinUpdate \/ HandleStop \/ SrtTracks \/ StdinTracks
  \/ HandlePublishUpdate \/ SrtPublishEnd \/ StdinPublishEnd \/ HandleRejection \/ HandleFin

-----------------------------------------------------------------------------
(* Fragments. *)

\* live_object_matches_request_union
Matches(x, t) ==
  LET settings == ~srt /\ t \in DOMAIN x.settings
  IN  \/ draft < 17
      \/ SubsOf(x, t) = {} /\ ~settings
      \/ AnyForward(x, t)
      \/ settings /\ x.settings[t] = 1

\* The track is wanted, or everything is.
Permitted(x, t) == auto \/ t \in x.subscribed

\* A LOC object that was not sent keeps back the rest of its group.
LocHeld(x, t) == IF loc THEN [x EXCEPT !.waiting = @ \cup {t}] ELSE x

\* The LOC object depends on one of its group that was not sent.
Behind(x, f) ==
  /\ loc /\ f.object # 0
  /\ \/ f.track \in x.waiting \/ f.track \notin DOMAIN x.lastGroup
     \/ x.lastGroup[f.track] # f.group

\* drain_queue takes a fragment: skipped, or about to be served.
TakeFragment ==
  /\ s.pc = "drain" /\ ~inp.error /\ inp.queue # <<>>
  /\ LET f == Head(inp.queue)
         t == f.track
         x == [s EXCEPT !.taken = @ \cup {f.at}]
         y == IF f.object = 0 THEN [x EXCEPT !.waiting = @ \ {t}] ELSE x
     IN  s' = IF ~Permitted(s, t) THEN LocHeld(x, t)
              ELSE IF Behind(s, f) THEN x
              ELSE IF ~Matches(s, t) THEN LocHeld(y, t)
              ELSE [y EXCEPT !.pc = "serve", !.hand = f]
  /\ inp' = [inp EXCEPT !.queue = Tail(@)]
  /\ UNCHANGED <<scenario, m, cast, asked>>

\* SRT asks again whether the object is wanted after it polled control.
Eligible(x) == srt => Permitted(x, x.hand.track) /\ Matches(x, x.hand.track)

Unpublished(x) == LocHeld(x, x.hand.track)

\* The write: published, refused because the request or its stream has gone.
ServeFragment ==
  /\ s.pc = "serve" /\ ~m.closed
  /\ \E taken \in (IF "refuse" \in scenario.asks THEN BOOLEAN ELSE {TRUE}) :
       LET f == s.hand
           x == [s EXCEPT !.pc = "drain"]
       IN  s' = IF taken /\ Eligible(s)
                THEN [x EXCEPT !.lastGroup = Put(@, f.track, f.group),
                               !.out = Append(@, Written("media", f.track, 0, f.group, f.object))]
                ELSE Unpublished(x)
  /\ UNCHANGED <<scenario, inp, m, cast, asked>>

AfterDrain == IF srt THEN "control" ELSE IF auto THEN "republish" ELSE "top"

DrainEnds ==
  /\ s.pc = "drain"
  /\ inp.error \/ inp.queue = <<>>
  /\ s' = IF inp.error THEN Leave(s, "failure") ELSE [s EXCEPT !.pc = AfterDrain]
  /\ UNCHANGED <<scenario, inp, m, cast, asked>>

-----------------------------------------------------------------------------
(* The loops. *)

\* Forward mode PUBLISHes its media on request streams; a missing answer is
\* tolerated, a refusal is not.
Preannounce ==
  /\ s.pc = "preannounce" /\ ~m.closed
  /\ \E answers \in Answers, fault \in (IF "fault" \in scenario.ends THEN {"none", "late", "refused"} ELSE {"none"}) :
       /\ s' = CASE fault = "none" -> [Published(s, Media, answers) EXCEPT !.pc = "top"]
                 [] fault = "late" -> [s EXCEPT !.pc = "top"]
                 [] OTHER -> Leave(s, "failure")
       /\ m' = IF fault = "none" THEN [m EXCEPT !.streams = @ \cup {PublishIds[t] : t \in Media}] ELSE m
  /\ UNCHANGED <<scenario, inp, cast, asked>>

InputDone == inp.eof /\ inp.queue = <<>>
Waiting == s.subs = <<>> /\ s.subscribed = {}

AtTop == s.pc = "top" /\ UNCHANGED <<scenario, inp, m, cast, asked>>

\* close() was called, or the next pass begins.
SrtTop ==
  /\ srt /\ AtTop
  /\ s' = IF s.stop THEN Leave(s, "closed") ELSE [s EXCEPT !.pc = "drain", !.eof = InputDone]

ForwardTop ==
  /\ ~srt /\ auto /\ AtTop
  /\ s' = IF s.stop THEN Leave(s, "closed") ELSE [s EXCEPT !.pc = "control"]

\* Awaiting stdin ends once it has sent everything to someone.
AwaitTop ==
  /\ ~srt /\ ~auto /\ AtTop
  /\ s' = IF s.stop THEN Leave(s, "closed")
          ELSE IF InputDone /\ ~Waiting THEN Leave(s, IF inp.error THEN "failure" ELSE "ok")
          ELSE [s EXCEPT !.pc = "control"]

\* process_control_messages returns.
ControlRead ==
  /\ s.pc = "control"
  /\ s' = IF PollFails THEN Leave(s, "failure")
          ELSE [s EXCEPT !.pc = IF ~srt /\ auto THEN "drain" ELSE "republish"]
  /\ UNCHANGED <<scenario, inp, m, cast, asked>>

\* No subscription within the subscriber timeout.
SubscribeTimeout ==
  /\ s.pc = "control" /\ ~srt /\ ~auto /\ Waiting /\ "timeout" \in scenario.ends
  /\ s' = Leave(s, "ok")
  /\ UNCHANGED <<scenario, inp, m, cast, asked>>

\* The interval of catalog republication may have elapsed.
RepublishDue == s.sentAt /\ ~m.ended /\ m.next < scenario.republish

\* maybe_republish_catalog; forward mode looked at the end of the input before.
Republish ==
  /\ s.pc = "republish"
  /\ LET x == IF srt THEN s ELSE [s EXCEPT !.eof = InputDone]
     IN  \/ /\ RepublishDue
            /\ s' = [x EXCEPT !.pc = "catalog", !.ret = "check", !.sending = m.next]
            /\ m' = Emitted(m)
         \/ s' = [x EXCEPT !.pc = "check"] /\ UNCHANGED m
  /\ UNCHANGED <<scenario, inp, cast, asked>>

\* Mutant: every pass after the end starts the wait anew.
ExpiresMutant == FALSE
\* Forward mode waits for late subscribers once its input has ended.
Expires == s.deadline

AtCheck == s.pc = "check" /\ UNCHANGED <<scenario, inp, m, cast, asked>>

SrtCheck ==
  /\ srt /\ AtCheck
  /\ s' = IF s.fin \/ s.eof THEN Leave(s, "ok") ELSE [s EXCEPT !.pc = "top"]

ForwardCheck ==
  /\ ~srt /\ auto /\ AtCheck
  /\ s' = [s EXCEPT !.pc = "top", !.deadline = s.eof]

\* Awaiting stdin drains only while a track is subscribed.
AwaitCheck ==
  /\ ~srt /\ ~auto /\ AtCheck
  /\ s' = IF s.fin THEN Leave(s, "ok")
          ELSE [s EXCEPT !.pc = IF s.subscribed # {} THEN "drain" ELSE "top"]

DeadlineExpires ==
  /\ s.pc = "check" /\ ~srt /\ auto /\ s.eof /\ Expires
  /\ s' = Leave(s, "ok")
  /\ UNCHANGED <<scenario, inp, m, cast, asked>>

\* A write or read of the transport fails.
TransportFails ==
  /\ "fault" \in scenario.ends /\ s.pc \in {"control", "catalog", "serve"}
  /\ s' = Leave(s, "failure")
  /\ UNCHANGED <<scenario, inp, m, cast, asked>>

\* After close() every write fails.
ClosedFails ==
  /\ m.closed /\ s.pc \in {"announce", "preannounce", "control", "catalog", "serve"}
  /\ s' = IF ~srt /\ s.pc = "announce" THEN [s EXCEPT !.pc = "over", !.result = "failure"]
          ELSE Leave(s, "failure")
  /\ UNCHANGED <<scenario, inp, m, cast, asked>>

-----------------------------------------------------------------------------
(* The end of the publish. *)

Sorted(ids) == SetToSortSeq(ids, LAMBDA a, b : a < b)

AtFinish == s.pc = "finish" /\ UNCHANGED <<scenario, inp, m, cast, asked>>

\* PUBLISH_DONEs in order of the requests.
SrtFinish ==
  /\ srt /\ AtFinish
  /\ s' = [s EXCEPT !.pc = "dones", !.todo = Sorted(DOMAIN s.subs)]

\* PUBLISHes on request streams whose tracks are still forwarded.
PublishesOwed ==
  IF ~UsesRequestStreams THEN {}
  ELSE {s.publishes[t] : t \in {u \in DOMAIN s.publishes : u = "catalog" \/ u \in s.subscribed}}

\* Stdin ends its subscriptions, then its PUBLISHes.
StdinFinish ==
  /\ ~srt /\ AtFinish
  /\ s' = IF inp.error THEN [s EXCEPT !.pc = "guard", !.result = "failure"]
          ELSE [s EXCEPT !.pc = "dones", !.todo = Sorted(DOMAIN s.subs) \o Sorted(PublishesOwed)]

TrackOf(id) ==
  IF id \in DOMAIN s.subs THEN s.subs[id].track
  ELSE CHOOSE t \in DOMAIN s.publishes : s.publishes[t] = id

\* The stream of a PUBLISH of stdin is still known.
Reachable(id) == srt \/ id \notin Range(s.publishes) \/ id \in m.streams

\* One PUBLISH_DONE; of the catalog's requests only the first gets one.
WriteDone ==
  /\ s.pc = "dones" /\ s.todo # <<>>
  /\ LET id == Head(s.todo)
         t == TrackOf(id)
         x == [s EXCEPT !.todo = Tail(@)]
     IN  s' = IF t = "catalog" /\ ~s.deferred THEN x
              ELSE IF ~Reachable(id) \/ m.closed THEN [x EXCEPT !.pc = "guard", !.result = "failure"]
              ELSE [x EXCEPT !.out = Append(@, Written("done", t, id, 0, 0)),
                             !.deferred = @ /\ t # "catalog"]
  /\ UNCHANGED <<scenario, inp, m, cast, asked>>

DonesWritten ==
  /\ s.pc = "dones" /\ s.todo = <<>>
  /\ s' = [s EXCEPT !.pc = "guard"]
  /\ UNCHANGED <<scenario, inp, m, cast, asked>>

\* ~DeferredCatalogPublishDoneGuard, however publish_live returns.
Guarded(x) ==
  IF x.deferred /\ Reachable(x.doneTo) /\ ~m.closed
  THEN [x EXCEPT !.out = Append(@, Written("done", "catalog", x.doneTo, 0, 0)), !.deferred = FALSE]
  ELSE x

Return ==
  /\ s.pc = "guard"
  /\ s' = [Guarded(s) EXCEPT !.pc = "over"]
  /\ UNCHANGED <<scenario, inp, m, cast, asked>>

PublishLoop ==
  \/ SrtDiscover \/ StdinDiscover \/ SrtAnnounce \/ StdinAnnounce \/ Preannounce
  \/ SrtTop \/ ForwardTop \/ AwaitTop \/ ControlRead \/ SubscribeTimeout
  \/ TakeFragment \/ ServeFragment \/ DrainEnds \/ WriteCatalog \/ Republish
  \/ SrtCheck \/ ForwardCheck \/ AwaitCheck \/ DeadlineExpires \/ ClosedFails \/ JoinInput \/ Joined
  \/ SrtFinish \/ StdinFinish \/ WriteDone \/ DonesWritten \/ Return

-----------------------------------------------------------------------------
(* Other threads. *)

\* close() stores stop_requested_, ...
CloseSession ==
  /\ "close" \in scenario.ends /\ ~s.stop /\ s.pc # "over"
  /\ s' = [s EXCEPT !.stop = TRUE]
  /\ UNCHANGED <<scenario, inp, m, cast, asked>>

\* ... forgets the PUBLISH streams and closes the transport.
CloseTransport ==
  /\ s.stop /\ ~m.closed
  /\ m' = [m EXCEPT !.closed = TRUE, !.streams = {}]
  /\ UNCHANGED <<scenario, inp, cast, asked, s>>

\* end_broadcast(): the closing catalog is numbered, ...
BroadcastEnds ==
  /\ "broadcast" \in scenario.ends /\ cast.pc = "idle" /\ m.known /\ s.pc # "over"
  /\ cast' = [pc |-> "write", group |-> m.next]
  /\ m' = [Emitted(m) EXCEPT !.ended = TRUE]
  /\ UNCHANGED <<scenario, inp, asked, s>>

\* ... written, ...
BroadcastWrites ==
  /\ cast.pc = "write" /\ ~m.closed
  /\ cast' = [cast EXCEPT !.pc = "dones"]
  /\ s' = [s EXCEPT !.out = Append(@, Written("closing", "catalog", 0, cast.group, 0))]
  /\ m' = [m EXCEPT !.object = cast.group + 1]
  /\ UNCHANGED <<scenario, inp, asked>>

\* ... and PUBLISH_DONE goes to every PUBLISH whose stream is known.
BroadcastDone ==
  /\ cast.pc = "dones"
  /\ IF m.streams = {} THEN cast' = [cast EXCEPT !.pc = "over"] /\ UNCHANGED <<m, s>>
     ELSE LET id == CHOOSE i \in m.streams : \A j \in m.streams : i <= j
          IN  /\ m' = [m EXCEPT !.streams = @ \ {id}]
              /\ s' = [s EXCEPT !.out = Append(@, Written("done", "published", id, 0, 0))]
              /\ UNCHANGED cast
  /\ UNCHANGED <<scenario, inp, asked>>

FragmentsNext ==
  \/ InputThread \/ PublishLoop \/ Peer \/ TransportFails
  \/ CloseSession \/ CloseTransport \/ BroadcastEnds \/ BroadcastWrites \/ BroadcastDone

\* The threads run; the end of a bounded wait comes.
FragmentsFairness ==
  /\ WF_fragmentVars(InputThread) /\ WF_fragmentVars(PublishLoop)
  /\ SF_fragmentVars(DeadlineExpires)

FragmentsSpec == FragmentsInit /\ [][FragmentsNext]_fragmentVars /\ FragmentsFairness

-----------------------------------------------------------------------------
(* Properties. *)

OutAt(kinds) == {i \in DOMAIN s.out : s.out[i].kind \in kinds}

\* Whenever a SUBSCRIBE for the catalog with forward=1 was answered and the
\* broadcast had not ended, the subscriber gets a whole catalog after it: the
\* first one, a repeated one or a fill, whoever else had it before.
CatalogReaches ==
  s.pc \notin {"catalog", "join", "joining", "guard", "over"} /\ ~m.ended =>
    \A r \in DOMAIN s.subs : s.subs[r].joined =>
      \E i \in OutAt({"catalog", "fill"}) :
        i > s.subs[r].since /\ s.out[i].id \in {0, r}

\* LOC objects depend on those before them in their group: of every group the
\* objects sent are its first ones, however requests pause, stop and resume,
\* writes are refused and the queue drops groups (loc_waiting_for_group).
LocPrefix ==
  loc => \A i \in OutAt({"media"}) : s.out[i].object > 0 =>
    \E j \in OutAt({"media"}) :
      /\ j < i /\ s.out[j].track = s.out[i].track /\ s.out[j].group = s.out[i].group
      /\ s.out[j].object = s.out[i].object - 1

\* What stdin leaves for a retry, once its thread ran, is these fragments of the
\* input, in order and every moof with its mdat.
Leaves(is) ==
  ~srt /\ s.pc = "over" /\ inp.on => s.resume = AllBoxes(Sorted(DOMAIN Input \cap is))

\* The input thread dropped or trimmed them, or drain_queue sent or skipped them.
DoneWith == inp.lost \cup (s.taken \ s.unsent)
LocQueue == IF loc THEN {inp.queue[j].at : j \in DOMAIN inp.queue} ELSE {}

\* However the publish ends, a retry gets all that the input thread and
\* drain_queue were not done with, but for the fragment in hand when its write
\* failed and, of LOC, what was still queued.
ResumeExact == Leaves(DOMAIN Input \ (DoneWith \cup s.unsent \cup LocQueue))

\* The same of CMAF without the fragment in hand. docs/publisher-api.md:358 says
\* "a retryable failure records the unsent stdin bytes"; drain_queue takes a
\* fragment from the queue before it writes it, and join_stdin_thread saves the
\* queue.
ResumeWhole == ~loc /\ s.result = "failure" => Leaves(DOMAIN Input \ DoneWith)

\* PUBLISH_DONEs of media subscriptions: never two, none to one the peer ended,
\* and one to each that is left when the publish completes.
DonesExact ==
  LET done(r) == {i \in OutAt({"done"}) : s.out[i].id = r}
      subscribes == {r \in DOMAIN s.subs : r \notin Range(s.publishes)}
  IN  /\ \A r \in DOMAIN s.subs : Cardinality(done(r)) <= 1
      /\ \A i \in OutAt({"done"}) : s.out[i].track # "catalog" => s.out[i].id \notin s.ended
      /\ s.pc = "over" /\ s.result = "ok" =>
           \A r \in subscribes : s.subs[r].track # "catalog" => done(r) # {}

\* However publish_live returns before close(), the catalog subscriptions that
\* are left were not all forgotten: one of them, no more, gets a PUBLISH_DONE
\* (catalog_publish_done_deferred is one flag for all of them).
CatalogDone ==
  LET dones == {i \in OutAt({"done"}) : s.out[i].track = "catalog"}
  IN  /\ Cardinality(dones) <= 1
      /\ s.pc = "over" /\ ~m.closed /\ s.owed = 0
           /\ (\E r \in SubsOf(s, "catalog") : r \notin Range(s.publishes)) => dones # {}

\* Once the input has ended or close() was called, SRT and forward mode return.
\* (Neither is ever undone, so this is the leads-to of the two.)
PublishEnds ==
  []<>((srt \/ auto) /\ m.known /\ (inp.eof \/ s.stop) => s.pc = "over")

\* Neither a decoder nor a retry misses part of what it needs: a LOC group has
\* no holes in front, and a publish that ends leaves the rest of its input, but
\* for what ResumeExact names.
NothingMissing == LocPrefix /\ ResumeExact

\* PUBLISH_DONEs in whatever order requests, stops, end_broadcast() and the end
\* of the publish come: exact for media, one for all of the catalog's.
DonesSound == DonesExact /\ CatalogDone
=============================================================================
