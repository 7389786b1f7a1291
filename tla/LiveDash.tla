------------------------------ MODULE LiveDash ------------------------------
(* Live DASH ingest (live_dash_ingest.cpp): an HTTP server whose workers,
   one thread per connection, push the boxes of their uploads into one
   session; the session numbers groups and objects over all paths and
   queues them for the publishing thread, which freezes the set of tracks
   when it takes the source. stop() is called by the stop monitor and by
   the main thread (main.cpp).

   An upload is a sequence of tokens: boxes and, when chunked, the framing
   between them. A box is not split: the reader of a path buffers bytes
   until a box is whole. A call into the session runs under its mutex. *)
EXTENDS Integers, Sequences, FiniteSets, SequencesExt, FiniteSetsExt

CONSTANTS
  Scenarios,  \* [pack, depth, max, ends, uploads: <<[path, http, wire]>>]; ends:
              \* whether signals, hangups and the end of the publish happen
  Sockets,    \* socket numbers, reused after close
  MaxRead     \* bound: tokens of one recv

\* The boxes of a scenario's uploads.
BoxesOf(s) == UNION {ToSet(u.wire) : u \in ToSet(s.uploads)}

\* A media track is named for the path of its upload and its handler type: none has
\* the catalog's name, and the name says whether it is video.
ASSUME DashAssumption ==
  MaxRead \in Nat /\ \A s \in Scenarios :
    /\ s.pack \in {"cmaf", "locmaf", "loc"} /\ s.depth \in Nat \ {0} /\ s.max \in Nat
    /\ s.uploads \in Seq(ToSet(s.uploads))
    /\ \A u \in ToSet(s.uploads) : u.wire \in Seq(ToSet(u.wire))
    /\ \A b \in BoxesOf(s) : /\ b.time \in Nat /\ {b.key, b.video, b.bad} \subseteq BOOLEAN
                             /\ \A t \in b.tracks : t.name # "catalog" /\ t.video \in BOOLEAN
    /\ \A b, c \in BoxesOf(s) : \A t \in c.tracks :
         b.type = "moof" /\ b.track = t.name => b.video = t.video

VARIABLES
  scenario,
  d,        \* LiveDashIngestSession
  server,   \* LiveDashIngestServer::Impl and the accept thread
  worker,   \* per upload: its connection and the thread that handles it
  main,     \* the publishing thread
  monitor   \* the stop monitor's thread

vars == <<scenario, d, server, worker, main, monitor>>

Uploads == DOMAIN scenario.uploads
Upload(w) == scenario.uploads[w]
pack == scenario.pack
NoBox == [type |-> "none", tracks |-> {}, track |-> "none", video |-> FALSE,
          time |-> 0, key |-> FALSE, bad |-> FALSE]

Get(f, x, default) == IF x \in DOMAIN f THEN f[x] ELSE default
Put(f, x, v) == [y \in DOMAIN f \cup {x} |-> IF y = x THEN v ELSE f[y]]

Init ==
  /\ scenario \in Scenarios
  /\ d = [paths |-> <<>>, tracks |-> {}, frozen |-> FALSE, dirty |-> FALSE, queue |-> <<>>,
          closed |-> FALSE, error |-> FALSE, started |-> FALSE, group |-> 0, start |-> 0,
          ids |-> <<>>, inGroup |-> {}, next |-> <<>>, loc |-> <<>>, dropped |-> <<>>, catalogs |-> 0]
  /\ server = [pc |-> "poll", stop |-> FALSE, active |-> {}, listening |-> TRUE, client |-> 0]
  /\ worker = [w \in DOMAIN scenario.uploads |->
                 [pc |-> "waiting", fd |-> 0, shut |-> FALSE, read |-> 0, state |-> "size", status |-> 0]]
  /\ main = [pc |-> "waitTracks", announced |-> {}, seen |-> {}, out |-> <<>>, result |-> "none"]
  /\ monitor = "watching"

-----------------------------------------------------------------------------
(* Boxes. *)

Failed(x) == [x EXCEPT !.error = TRUE, !.closed = TRUE]
FailedAndCleared(x) == [Failed(x) EXCEPT !.queue = <<>>]

PathOf(x, p) == x.paths[p]

\* moov of a path without tracks: they join the session's until those are frozen.
Registered(x, p, box) ==
  IF x.frozen THEN x
  ELSE IF box.bad /\ pack # "cmaf" THEN Failed(x)
  ELSE [x EXCEPT !.paths[p].tracks = box.tracks, !.paths[p].initialized = TRUE,
                 !.tracks = @ \cup box.tracks, !.dirty = TRUE]

InitBox(x, p, box) ==
  CASE PathOf(x, p).initialized /\ pack = "loc" -> Failed(x)
    [] PathOf(x, p).initialized /\ pack # "loc" -> x
    [] ~PathOf(x, p).initialized /\ box.type = "ftyp" -> x
    [] OTHER -> Registered(x, p, box)

HasVideo(x) == \E t \in x.tracks : t.video

Object(track, group, object, box) ==
  [track |-> track, group |-> group, object |-> object, time |-> box.time, key |-> box.key]

\* The rest of a group that was dropped is dropped too.
LocLate(x, o) == o.track \in DOMAIN x.dropped /\ o.group <= x.dropped[o.track]

\* The queue without one group of one track.
WithoutGroup(q, track, group) ==
  LET kept == {i \in DOMAIN q : q[i].track # track \/ q[i].group # group}
      places == CHOOSE f \in [1..Cardinality(kept) -> kept] :
                  \A a, b \in 1..Cardinality(kept) : a < b => f[a] < f[b]
  IN  [i \in DOMAIN places |-> q[places[i]]]

\* The queue over its depth: the whole group of the oldest object goes.
LocEnqueued(x, o) ==
  LET q == Append(x.queue, o)
      old == q[1]
  IN  IF LocLate(x, o) THEN x
      ELSE IF Len(q) <= scenario.depth THEN [x EXCEPT !.queue = q]
      ELSE [x EXCEPT !.queue = WithoutGroup(q, old.track, old.group),
                     !.dropped = Put(@, old.track, old.group)]

\* enqueue_locked
Enqueued(x, o) ==
  IF pack = "loc" THEN LocEnqueued(x, o)
  ELSE [x EXCEPT !.queue = Append(IF Len(@) >= scenario.depth THEN Tail(@) ELSE @, o)]

\* LocTrackEncoder::encode on one sample: the next location of its track. A
\* jump of the decode time asks for a keyframe, a step back is an error.
LocEncoded(x, box) ==
  LET e == Get(x.loc, box.track, [started |-> FALSE, wait |-> TRUE, group |-> 0, object |-> 0, due |-> box.time])
      wait == e.wait \/ (box.video /\ box.time # e.due)
      opens == ~e.started \/ ~box.video \/ box.key
      group == IF opens /\ e.started THEN e.group + 1 ELSE e.group
      object == IF opens THEN 0 ELSE e.object
      after == [started |-> TRUE, wait |-> wait /\ ~opens, group |-> group, object |-> object + 1,
                due |-> box.time + 1]
  IN  IF box.time < e.due THEN FailedAndCleared(x)
      ELSE IF box.video /\ wait /\ ~box.key
      THEN [x EXCEPT !.loc = Put(@, box.track, [e EXCEPT !.wait = TRUE, !.due = box.time + 1])]
      ELSE IF group > scenario.max THEN FailedAndCleared(x)
      ELSE Enqueued([x EXCEPT !.loc = Put(@, box.track, after)], Object(box.track, group, object, box))

\* A keyframe later than the one that opened the shared group opens the next.
OpensGroup(x, box) == x.started /\ box.time > x.start

InGroup(x, box) == ~box.video \/ box.track \in x.inGroup

\* A keyframe of a video track: it opens the shared group, joins the one that
\* another track opened at the same time, or comes too late.
Keyframe(x, box) ==
  CASE ~x.started ->
         [x EXCEPT !.started = TRUE, !.start = box.time, !.inGroup = {box.track}]
    [] OpensGroup(x, box) ->
         [x EXCEPT !.group = @ + 1, !.start = box.time, !.ids = <<>>, !.inGroup = {box.track}]
    [] OTHER -> [x EXCEPT !.inGroup = @ \cup {box.track}]

\* Fragments of a session with video share the groups its keyframes open.
SharedGroup(x, box) ==
  LET key == box.video /\ box.key
      y == IF key THEN Keyframe(x, box) ELSE x
      id == Get(y.ids, box.track, 0)
  IN  CASE key /\ x.started /\ box.time < x.start -> x
        [] key /\ OpensGroup(x, box) /\ x.group >= scenario.max -> FailedAndCleared(x)
        [] ~y.started \/ ~InGroup(y, box) -> y
        [] OTHER -> Enqueued([y EXCEPT !.ids = Put(@, box.track, id + 1)],
                             Object(box.track, y.group, id, box))

\* Mutant: the counter of the track does not advance.
OwnGroupMutant(x, box) ==
  Enqueued([x EXCEPT !.next = Put(@, box.track, 0)], Object(box.track, 0, 0, box))
\* Without video every fragment is a group of its track.
OwnGroup(x, box) ==
  LET g == Get(x.next, box.track, 0)
  IN  IF g > scenario.max THEN FailedAndCleared(x)
      ELSE Enqueued([x EXCEPT !.next = Put(@, box.track, g + 1)], Object(box.track, g, 0, box))

\* mdat after a moof: the fragment of that moof.
MediaBox(x, p, box) ==
  LET moof == PathOf(x, p).moof
      y == [x EXCEPT !.paths[p].moof = NoBox]
      published == \E t \in x.tracks : t.name = moof.track
  IN  CASE moof = NoBox -> x
        [] moof # NoBox /\ (moof.bad \/ box.bad) ->
             IF pack = "cmaf" THEN y ELSE IF pack = "loc" THEN FailedAndCleared(y) ELSE Failed(y)
        [] moof # NoBox /\ ~(moof.bad \/ box.bad) /\ ~published -> y
        [] OTHER -> IF pack = "loc" THEN LocEncoded(y, moof)
                    ELSE IF HasVideo(x) THEN SharedGroup(y, moof) ELSE OwnGroup(y, moof)

\* process_box_locked
Processed(x, p, box) ==
  CASE box.type \in {"ftyp", "moov"} -> InitBox(x, p, box)
    [] box.type \in {"moof", "mdat"} /\ ~PathOf(x, p).initialized -> x
    [] box.type = "moof" /\ PathOf(x, p).initialized -> [x EXCEPT !.paths[p].moof = box]
    [] OTHER -> MediaBox(x, p, box)

\* ingest: an unknown path is added until the tracks are frozen.
Ingested(x, p, boxes) ==
  LET known == IF p \in DOMAIN x.paths THEN x
               ELSE [x EXCEPT !.paths = Put(@, p, [tracks |-> {}, initialized |-> FALSE, moof |-> NoBox])]
      after[n \in 0..Len(boxes)] ==
        IF n = 0 THEN known
        ELSE IF after[n - 1].error THEN after[n - 1] ELSE Processed(after[n - 1], p, boxes[n])
  IN  IF x.error \/ (p \notin DOMAIN x.paths /\ x.frozen) THEN x ELSE after[Len(boxes)]

-----------------------------------------------------------------------------
(* The worker of a connection. *)

\* ChunkedBodyDecoder::parse_available, on one token of the body.
Decoded(state, token) ==
  CASE state = "size" -> IF token.type = "size" THEN "data" ELSE IF token.type = "last" THEN "trailer" ELSE "failed"
    [] state = "data" -> "crlf"
    [] state = "crlf" -> IF token.type = "crlf" THEN "size" ELSE "failed"
    [] state = "trailer" -> IF token.type = "crlf" THEN "complete" ELSE "trailer"
    [] OTHER -> state

\* feed_body on n tokens: the boxes that come out and the decoder after them.
Fed(w, n) ==
  LET u == Upload(w)
      tokens == SubSeq(u.wire, worker[w].read + 1, worker[w].read + n)
      after[k \in 0..n] ==
        IF k = 0 THEN [state |-> worker[w].state, boxes |-> <<>>]
        ELSE [state |-> Decoded(after[k - 1].state, tokens[k]),
              boxes |-> IF after[k - 1].state = "data" THEN Append(after[k - 1].boxes, tokens[k])
                                                       ELSE after[k - 1].boxes]
  IN  IF u.http = "chunked" THEN after[n]
      ELSE [state |-> IF worker[w].read + n = Len(u.wire) THEN "complete" ELSE "size", boxes |-> tokens]

Receiving(w) == worker[w].pc \in {"headers", "body"}

\* The response is sent, then the connection is closed.
Finish(w, status) == [worker EXCEPT ![w].pc = "deregister", ![w].status = status]

\* The request is refused or its body follows.
ReadHeaders(w) ==
  /\ worker[w].pc = "headers" /\ ~worker[w].shut
  /\ worker' = IF Upload(w).http \in {"chunked", "length"} THEN [worker EXCEPT ![w].pc = "body"]
               ELSE Finish(w, 400)
  /\ UNCHANGED <<scenario, d, server, main, monitor>>

\* recv returned some tokens: they go to the session at once.
ReadBody(w) ==
  /\ worker[w].pc = "body" /\ ~worker[w].shut
  /\ \E n \in 1..MaxRead :
       /\ worker[w].read + n <= Len(Upload(w).wire)
       /\ LET fed == Fed(w, n)
              after == [worker EXCEPT ![w].read = @ + n, ![w].state = fed.state]
          IN  /\ d' = IF fed.boxes = <<>> THEN d ELSE Ingested(d, Upload(w).path, fed.boxes)
              /\ worker' = CASE fed.state = "failed" -> Finish(w, 400)
                             [] fed.state = "complete" -> [after EXCEPT ![w].pc = "deregister", ![w].status = 204]
                             [] OTHER -> after
  /\ UNCHANGED <<scenario, server, main, monitor>>

\* The peer closed the connection, or stop() shut it down.
ReadEnd(w) ==
  /\ Receiving(w)
  /\ worker' = Finish(w, 400)
  /\ UNCHANGED <<scenario, d, server, main, monitor>>

\* recv timed out after a stop.
ReadStopped(w) ==
  /\ Receiving(w) /\ server.stop
  /\ worker' = [worker EXCEPT ![w].pc = "deregister"]
  /\ UNCHANGED <<scenario, d, server, main, monitor>>

\* The accept thread holds the server's mutex while it joins workers.
Unlocked == server.pc # "reap"

\* Mutant: the socket is closed before it is deregistered.
CloseClientMutant(w) ==
  /\ \/ /\ worker[w].pc = "deregister"
        /\ worker' = [worker EXCEPT ![w].pc = "closed"]
        /\ UNCHANGED server
     \/ /\ worker[w].pc = "closed" /\ Unlocked
        /\ server' = [server EXCEPT !.active = @ \ {worker[w].fd}]
        /\ worker' = [worker EXCEPT ![w].pc = "done"]
  /\ UNCHANGED <<scenario, d, main, monitor>>
\* close_client: deregistered under the mutex, then closed.
CloseClient(w) ==
  /\ \/ /\ worker[w].pc = "deregister" /\ Unlocked
        /\ server' = [server EXCEPT !.active = @ \ {worker[w].fd}]
        /\ worker' = [worker EXCEPT ![w].pc = "close"]
     \/ /\ worker[w].pc = "close"
        /\ worker' = [worker EXCEPT ![w].pc = "done"]
        /\ UNCHANGED server
  /\ UNCHANGED <<scenario, d, main, monitor>>

\* The thread ends after it stored done.
Exit(w) ==
  /\ worker[w].pc = "done"
  /\ worker' = [worker EXCEPT ![w].pc = "exited"]
  /\ UNCHANGED <<scenario, d, server, main, monitor>>

Worker(w) == \/ ReadHeaders(w) \/ ReadBody(w) \/ ReadStopped(w) \/ CloseClient(w)
             \/ Exit(w) \/ (worker[w].shut /\ ReadEnd(w))

-----------------------------------------------------------------------------
(* The accept thread. *)

\* Sockets that are open.
HoldsSocket(w) == worker[w].pc \in {"accepted", "headers", "body", "deregister", "close"}
InUse == {worker[w].fd : w \in {v \in Uploads : HoldsSocket(v)}}

AcceptStops ==
  /\ server.pc = "poll" /\ server.stop
  /\ server' = [server EXCEPT !.pc = "ended"]
  /\ UNCHANGED <<scenario, d, worker, main, monitor>>

\* accept() takes a waiting connection.
Accept ==
  /\ server.pc = "poll" /\ server.listening
  /\ \E w \in Uploads, fd \in Sockets \ InUse :
       /\ worker[w].pc = "waiting"
       /\ worker' = [worker EXCEPT ![w].pc = "accepted", ![w].fd = fd]
       /\ server' = [server EXCEPT !.pc = "accepted", !.client = w]
  /\ UNCHANGED <<scenario, d, main, monitor>>

\* Under the mutex: refused after a stop; otherwise the finished workers are
\* joined first.
Accepted ==
  /\ server.pc = "accepted"
  /\ server' = [server EXCEPT !.pc = IF server.stop THEN "ended" ELSE "reap"]
  /\ worker' = IF server.stop THEN [worker EXCEPT ![server.client].pc = "exited"] ELSE worker
  /\ UNCHANGED <<scenario, d, main, monitor>>

\* The worker stored done, so that the join waits only for its thread's end.
Reapable(w) == worker[w].pc = "done"

Register ==
  /\ server.pc = "reap"
  /\ \A w \in Uploads : ~Reapable(w)
  /\ server' = [server EXCEPT !.pc = "poll", !.active = @ \cup {worker[server.client].fd}]
  /\ worker' = [worker EXCEPT ![server.client].pc = "headers"]
  /\ UNCHANGED <<scenario, d, main, monitor>>

AcceptThread == AcceptStops \/ Accepted \/ Register

-----------------------------------------------------------------------------
(* stop(), called by the monitor and by the main thread. *)

\* The first caller shuts the sockets down; a later one returns at once.
ShutDown ==
  /\ server' = [server EXCEPT !.stop = TRUE]
  /\ worker' = [w \in Uploads |-> [worker[w] EXCEPT !.shut = @ \/ (HoldsSocket(w) /\ worker[w].fd \in server.active)]]

\* Mutant: the flag is set only when somebody waits for tracks.
ClosedMutant(x) == [x EXCEPT !.closed = main.pc = "waitTracks"]
\* LiveDashIngestSession::close
Closed(x) == [x EXCEPT !.closed = TRUE]

\* The steps of stop() after its first, by the caller whose state is pc.
StopStep(pc, next) ==
  \/ /\ pc = "close" /\ next = "joinAccept"
     /\ d' = Closed(d)
     /\ UNCHANGED server
  \/ /\ pc = "joinAccept" /\ next = "joinWorkers" /\ server.pc = "ended"
     /\ server' = [server EXCEPT !.listening = FALSE]
     /\ UNCHANGED d
  \/ /\ pc = "joinWorkers" /\ next = "stopped"
     /\ \A w \in Uploads : worker[w].pc \in {"waiting", "exited"}
     /\ UNCHANGED <<d, server>>

StopSteps == {"close", "joinAccept", "joinWorkers", "stopped"}

\* A signal: DashStopTarget::stop, as long as the server is registered.
MonitorStops ==
  /\ scenario.ends /\ monitor = "watching" /\ main.pc # "ended" /\ Unlocked
  /\ IF server.stop THEN monitor' = "stopped" /\ UNCHANGED <<server, worker>>
     ELSE monitor' = "close" /\ ShutDown
  /\ UNCHANGED <<scenario, d, main>>

MonitorStep ==
  /\ monitor' \in StopSteps /\ StopStep(monitor, monitor')
  /\ UNCHANGED <<scenario, worker, main>>

\* The main thread: wait_for_tracks, until some tracks have settled, a timeout
\* or the session is closed.
WaitForTracks ==
  /\ main.pc = "waitTracks"
  /\ main' = [main EXCEPT !.pc = IF d.tracks = {} THEN "stop" ELSE "source",
                          !.result = IF d.tracks = {} THEN "failure" ELSE @]
  /\ UNCHANGED <<scenario, d, server, worker, monitor>>

\* source(): the tracks are announced and frozen.
TakeSource ==
  /\ main.pc = "source"
  /\ d' = [d EXCEPT !.frozen = TRUE]
  /\ main' = [main EXCEPT !.pc = "next", !.announced = {t.name : t \in d.tracks}]
  /\ UNCHANGED <<scenario, server, worker, monitor>>

Catalog(x) == [track |-> "catalog", group |-> x.catalogs, object |-> 0, time |-> 0, key |-> FALSE]

CatalogDue == d.dirty

\* next_object_blocking: a due catalog, then the queue.
NextObject ==
  /\ main.pc = "next" /\ ~d.error /\ (CatalogDue \/ d.queue # <<>>)
  /\ main' = [main EXCEPT !.out = Append(@, IF CatalogDue THEN Catalog(d) ELSE Head(d.queue))]
  /\ d' = IF CatalogDue THEN [d EXCEPT !.dirty = FALSE, !.catalogs = @ + 1]
          ELSE [d EXCEPT !.queue = Tail(@)]
  /\ UNCHANGED <<scenario, server, worker, monitor>>

\* It throws the session's error, or nothing came in time.
NextNothing ==
  /\ main.pc = "next" /\ (d.error \/ (d.queue = <<>> /\ ~d.dirty))
  /\ main' = IF d.error THEN [main EXCEPT !.pc = "stop", !.result = "failure"]
             ELSE [main EXCEPT !.pc = "finished"]
  /\ UNCHANGED <<scenario, d, server, worker, monitor>>

\* finished(), asked in a call of its own.
AskFinished ==
  /\ main.pc = "finished"
  /\ main' = IF d.closed THEN [main EXCEPT !.pc = "stop", !.result = "success"]
             ELSE [main EXCEPT !.pc = "next"]
  /\ UNCHANGED <<scenario, d, server, worker, monitor>>

\* The publish ended for a reason of its own.
PublishEnds ==
  /\ scenario.ends /\ main.pc = "next"
  /\ main' = [main EXCEPT !.pc = "stop", !.result = "relay"]
  /\ UNCHANGED <<scenario, d, server, worker, monitor>>

MainStops ==
  /\ main.pc = "stop" /\ Unlocked
  /\ IF server.stop THEN main' = [main EXCEPT !.pc = "stopped"] /\ UNCHANGED <<server, worker>>
     ELSE main' = [main EXCEPT !.pc = "close"] /\ ShutDown
  /\ UNCHANGED <<scenario, d, monitor>>

MainStep ==
  /\ \E next \in StopSteps : StopStep(main.pc, next) /\ main' = [main EXCEPT !.pc = next]
  /\ UNCHANGED <<scenario, worker, monitor>>

\* DashStopRegistration takes the mutex the monitor holds during stop().
Unregistered == monitor \in {"watching", "stopped"}

\* The server goes out of scope.
Destroy ==
  /\ main.pc = "stopped" /\ Unregistered
  /\ main' = [main EXCEPT !.pc = "ended"]
  /\ UNCHANGED <<scenario, d, server, worker, monitor>>

MainThread == \/ WaitForTracks \/ TakeSource \/ NextObject \/ NextNothing \/ AskFinished
              \/ MainStops \/ MainStep \/ Destroy

Terminated == main.pc = "ended" /\ UNCHANGED vars

Next ==
  \/ \E w \in Uploads : Worker(w) \/ (scenario.ends /\ ReadEnd(w))
  \/ Accept \/ AcceptThread \/ MonitorStops \/ MonitorStep \/ MainThread \/ PublishEnds
  \/ Terminated

\* Threads run on; connections, signals and the end of the publish are not owed.
Fairness ==
  /\ WF_vars(AcceptThread) /\ WF_vars(MonitorStep) /\ WF_vars(MainThread)
  /\ \A w \in 1..3 : WF_vars(w \in Uploads /\ Worker(w))

Spec == Init /\ [][Next]_vars /\ Fairness

-----------------------------------------------------------------------------
(* Properties. *)

OutTracks == {main.out[i].track : i \in DOMAIN main.out}

Precedes(a, b) == a.group < b.group \/ (a.group = b.group /\ a.object < b.object)

\* Audio that came before the first video track has groups of its own; the shared
\* groups that it joins then start over at the first group (see the README).
StartsOver(track) == HasVideo(d) /\ track \in DOMAIN d.next

\* Whatever order the workers push their boxes in, and whatever the queue
\* sheds, the locations of a track only grow.
LocationsGrow ==
  \A i, j \in DOMAIN main.out :
    LET a == main.out[i] b == main.out[j]
    IN  i < j /\ a.track = b.track /\ ~StartsOver(a.track) => Precedes(a, b)

\* The groups of a session are aligned: in all video tracks a group begins with
\* a keyframe, of the same time, although each track has its own worker.
GroupsAligned ==
  \A i, j \in DOMAIN main.out :
    LET a == main.out[i] b == main.out[j]
        video(o) == \E t \in d.tracks : t.name = o.track /\ t.video
    IN  pack # "loc" /\ video(a) /\ video(b) /\ a.object = 0 =>
          /\ a.key
          /\ b.object = 0 /\ a.group = b.group => a.time = b.time

\* A shed LOC group is cut, not holed: no object of it follows a missing one.
NoHoles ==
  pack = "loc" =>
    \A i \in DOMAIN main.out :
      main.out[i].object > 0 =>
        \E j \in 1..(i - 1) : /\ main.out[j].track = main.out[i].track
                              /\ main.out[j].group = main.out[i].group
                              /\ main.out[j].object = main.out[i].object - 1

\* The publisher sees the catalog first, and only tracks it has announced:
\* paths that race with source() are in the snapshot or silent for ever.
AnnouncedOnly ==
  /\ OutTracks \subseteq main.announced \cup {"catalog"}
  /\ main.out # <<>> => main.out[1].track = "catalog"
  /\ main.pc = "next" => {t.name : t \in d.tracks} = main.announced

\* What the publisher gets from the session, however the workers' uploads
\* interleave: growing locations, aligned groups, no hole, announced tracks only.
DashObjects == LocationsGrow /\ GroupsAligned /\ NoHoles /\ AnnouncedOnly

\* The sockets stop() shuts down are those of the running workers: a number
\* that is reused is never deregistered by its former owner.
SocketsOwned ==
  /\ \A w \in Uploads : Receiving(w) => worker[w].fd \in server.active
  /\ \A w \in Uploads : server.stop /\ Receiving(w) => worker[w].shut

\* After main has left, no thread is inside the destroyed server.
NothingOutlives ==
  main.pc = "ended" =>
    /\ monitor \in {"watching", "stopped"}
    /\ \A w \in Uploads : worker[w].pc \in {"waiting", "exited"}

\* The threads of the server use only sockets and a server that are theirs.
DashThreads == SocketsOwned /\ NothingOutlives

\* A stop ends the publish, the workers and the accept thread.
StopReturns == server.stop ~> main.pc = "ended"
=============================================================================
