# TLA+ models of moqxr

moqxr publishes media over Media over QUIC Transport (MoQT): it takes MP4
files, fMP4 on stdin, live SRT or live DASH input, cuts it into objects
(group / subgroup / object) and serves subscriptions over picoquic or
WebTransport, for eight drafts of the protocol. This directory models the parts
of it that are hard to test: where threads interleave, where messages of several
streams cross, where something queued may expire, be stopped or be refused, and
where a long sequence of legal calls has to leave consistent state behind.
Paths below are relative to the repository; a bare line number is one of
`src/transport/moqt_session.cpp`.

Each module names its definitions after the code; `PROJECT.json` maps every
definition to the lines it models, every run to its question, every property to
a mutation of the code that breaks it, and every hazard to the line where it
bites.

## Running

    tlc -config MediaStreams.cfg MCMediaTransport    # a run: cfg and module
    tlapm MediaTransportProofs.tla                   # a proof module

## Inventory

| Part | State | Operations | Hard behaviour | What makes it correct |
|---|---|---|---|---|
| QUIC client, sending side (`transport/picoquic_client.cpp`, `pending_media_queue.h`, `picoquic_close_drain.h`, `picoquic_stream_errors.h`) | pending writes per media stream, byte budget, subgroup deadlines, pending resets and activations, expired and stopped streams, reliable writes, close flags | session thread: `try_write_object`, `reset_stream`, `write_stream`, acknowledgements, `close`; packet-loop thread: `apply_pending_operations`, `provide_media_data`, stream and connection callbacks | two threads, one mutex released between the phases of a pass and while a priority is set; deadlines; a close that has to wait, but not forever | admitted bytes are sent in order, or the stream is reset; nothing admitted is forgotten; a FIN is only sent after all bytes; close comes after delivery and always completes |
| Transports, receiving side (`picoquic_client.cpp`, `webtransport_client.cpp`, `PeerUnidirectionalStreams`) | `received_streams`, `accepted_streams`, pending opens, connection flags, `state_` | `connect`, callbacks, `open_stream`, `accept_stream`, `read_stream`, `close`, `poll` | callbacks, reads and close interleave; an entry read away reappears with the next callback | bytes and FINs reach the session once and in order; an end is blamed on who caused it |
| Subgroup sender (`SubgroupSenderState`) | stream, last object and blocked object of each subgroup; closed and peer-stopped subgroups | `try_serve`, `finish_group`, `discard_pending`, `renew`, `observe_transport_stream_state`, dispatch of transport events | transport events arrive between any two transport calls; bounded history | a closed subgroup is never reopened; a stopped one is, on renewal; no object is skipped silently; streams carry a header and increasing objects |
| Completed-subgroup history (`BoundedSubgroupCompletionTracker`) | disjoint ranges of group ids per subgroup id, a count | `contains`, `insert`, `clear` | joining ranges, limit of sparse ranges | it is an exact set, or it says that it cannot record |
| Session scheduler (`serve_subscriptions`) | active subscriptions, frontiers, heap of candidates, loop generations, stall timer | enqueue, pass, admit, refuse, park, resume, finalize | the heap is filled from many places and never cleaned; looping input | no request is forgotten; objects of a subgroup in order; a stall hits the lowest priority |
| Session control (`serve_subscriptions`, request-id validator, discovery) | pending, active and ended requests, discovery requests, request streams | one handler per message of the peer | messages on streams that deliver independently, in any order | each request is answered once, and well; prefixes in force do not overlap |
| Publisher-initiated tracks (setup, PUBLISH_NAMESPACE, `forward_published_tracks`, `publish_selected_tracks`) | deferred control messages, answers, forward flags, passes over the plan | setup, publish, collect answers, passes, downgrade | answers and updates race the passes | no control message is dropped; a stopped track stays silent; PUBLISH_DONE follows the whole track, but for one switched on and not replayed |
| Live publishing of fragments (`publish_live`, `end_broadcast`) | input thread's queue, requests, catalog, what is left for a retry | read, serve, accept, update, stop, repeat the catalog, end | three threads; three shapes of the loop | every catalog subscriber is served; groups have no holes in front; a retry gets what the failed publish had not taken for sending |
| Live publishing of objects (`publish_live_objects`) | subscriptions, the newest catalog group, closing sequence | next object, serve, accept inside a blocked write, wind down | handlers run inside blocked writes | every catalog subscriber is served, every subscription released, in the order of MSF 11.3 |
| Live SRT publishing threads (`publish_live`, `live_srt_ingest.cpp`) | worker and joiner thread, `stop_requested_`, loop locals | receive, push, join, drain, serve, `close` | one stop flag for two messages; the end of input found by another thread | the publish ends, for the reason it reports, with everything pushed before the end served |
| Live media queue (`live_media_queue.h`) | fragments, their bytes and duration, recovery boundary, tracks waiting for a keyframe | `push`, `try_pop`, `mark_eof` | shedding at a limit, several tracks, 64-bit edges | a track resumes at a keyframe; tracks are cut at one boundary; bounds are exact |
| Live DASH ingest (`live_dash_ingest.cpp`) | accept thread, workers, sockets, one session with groups, tracks and a bounded queue | accept, receive, push box, take source, next object, `stop` | one worker per path, groups of the whole session; sockets closed by two threads | locations grow, groups are aligned, no LOC group has a hole, `stop()` returns |
| Catalog (`msf_catalog.cpp`) | last catalog, group, object and delta counters | `publish`, `force_independent`, `end_broadcast`, `reset` | deltas against a catalog that may have been refused | a subscriber that joins anywhere holds the publisher's catalog |
| Publisher API (`publisher_api.cpp`) | active session, stop flag, resume state | publish, disconnect, migrate on GOAWAY, retry | disconnect races connect; a new session overlaps the old one | nothing stays up; a session carries on where the last one stopped |
| Endpoint failover and stop signals (`endpoint_failover.cpp`, `main.cpp`) | endpoint, attempt, replay window, stop flags | `publish_with_failover`, `begin_attempt`, `next_object`, signal | sessions that fail at any object; a signal at any moment | endpoints and retries in order; no gap and no repetition; a stop ends the publish |
| Control codec, libmoq backend, SRT demultiplexing, packaging, authorization, DRM, TLS, command line | none, or that of one call | encode, decode, segment, one-shot calls | boundaries of integers and boxes | see "Not modelled" |

How the parts interact: an ingest thread pushes into a queue, the publishing
loop on the session thread pops and serves through the scheduler and a subgroup
sender per subscription, the sender calls the transport, and the transport's
packet-loop thread calls nobody back: it leaves bytes, expired and stopped
streams in maps that the session thread polls. `close()`, `disconnect()` and
`end_broadcast()` may come from any thread. On failure the whole publish returns
to the Publisher API and from there to the failover policy, which build a new
session and replay.

## Modules

| Module | Models | Composes |
|---|---|---|
| `MediaTransport` | the QUIC client, sending side | |
| `MediaTransportProofs` | theorems about it and about `SubgroupSender`, its caller | `MediaTransport`, `SubgroupSender`, `DataTheorems` |
| `PeerStreams` | the receiving side of both clients, up to the session's `poll` | |
| `SubgroupSender` | subgroup senders, with the transport's event sets as environment | |
| `CompletionTracker` | the range representation of completed subgroups | refines `CompletedSubgroups` |
| `CompletedSubgroups` | the abstract specification: a set, an explicit refusal at the limit | |
| `CompletionTrackerProofs` | theorems about it, the refinement included, and about the scheduler | `CompletionTracker`, `PriorityScheduler` |
| `PriorityScheduler` | the scheduler of `serve_subscriptions` | |
| `PeerRequests` | the peer's requests in `serve_subscriptions` | |
| `PeerRequestsProofs` | theorems about it and `PeerStreams` | `PeerRequests`, `PeerStreams`, `DataTheorems` |
| `ForwardedTracks` | a batch publish from setup to PUBLISH_DONE | |
| `ForwardedTracksProofs` | theorems about it | `ForwardedTracks`, `DataTheorems` |
| `LiveObjects` | `publish_live_objects` | |
| `LiveFragments` | `publish_live`, its input thread and `end_broadcast` | |
| `LiveMediaQueue` | the live media queue, with the fragments SRT ingest makes | |
| `LiveSrtPublish` | the threads around the queue | `LiveMediaQueue` (INSTANCE) |
| `LiveDash` | the DASH server, its workers and its session | |
| `LiveInputsProofs` | theorems about the two inputs | `LiveMediaQueue`, `LiveDash`, `DataTheorems` |
| `CatalogPublisher` | the catalog track | |
| `LivePublishProofs` | theorems about the three loops of a live publish and its catalog | `LiveObjects`, `LiveSrtPublish`, `CatalogPublisher`, `DataTheorems` |
| `PublisherLifecycle` | the Publisher API around sessions | |
| `EndpointFailover` | failover policy, replay window, stop signals | |
| `EndpointFailoverProofs` | theorems about both loops around a publish | `EndpointFailover`, `PublisherLifecycle`, `DataTheorems` |
| `DataTheorems` | lemmas about sums, extreme values, `Tail` and `Append`, and induction over the naturals and finite sets | |
| `MC*` | instances for TLC | several modules each, below |

**Layers.** `publish_live`, for its two inputs, is over 3,000 lines; a single model of the program
would be out of reach. The modules cut it where the code has a narrow interface, and
each side replaces the other by the outcomes that interface has: for the
scheduler a candidate is admitted or would block, for the live loops an offered
object may come back unpublished, for the publisher a session takes input and
ends in any way. A header comment of each module says what it leaves to which
other.

**Several parts in one run.** Components that share no state are checked side by
side: the MC module has a variable `part`, chosen in the initial state, that says
which component a behaviour runs; the others stay as they started. The state
space is the sum of the parts', not their product, and a temporal property is
checked on each part under that part's own fairness.

### MediaTransport

The variables of `PicoquicClient::Impl` keep their names. A payload is its
length, and a queued write also remembers at which offset of its stream it was
admitted, so that what reaches the wire can be compared with what was
admitted. `pc`, `writes`, `resets`, `activations`, `saw_close` and `sending` are
the packet-loop thread's locals: a pass is `PassBegin` (swap under the mutex),
`PassWrites`, one `PassActivate` per stream, `PassResets`, `PassClose`, and
session-thread steps fall in between. A data callback (`ProvideMediaData`) is
one step, unless it raises a priority: then `ProvideUnlocked` consumes and
releases the mutex, and `ProvideResume` takes it again. picoquic is external: its
streams are active, reset, stopped or finished, `Acknowledged` and `backlog` stand
for what the peer has not yet acknowledged, a deferred reliable write is one
picoquic refused.

Assumptions. A reset of a stream picoquic has already released counts as
already closed (picoquic's source is not in the repository; the hazard list
has the line). `close()` may be called on another thread than the session's, so
session calls may still arrive after `close_requested`. A failing
`picoquic_close` is not modelled.

### PeerStreams

One step is one holding of `impl.mutex`. A byte is its position in its stream, so
order, loss and repetition are visible; a stream begins with a type of one or two
bytes which the draft knows or not. The scenario says whether the client is the
QUIC or the WebTransport one: they share the variables, and differ in the
callbacks (`QuicDatagram`, `Http3Datagram`, ...), in which entries
`accept_stream` offers, and in what a reset, STOP_SENDING or the end of the
CONNECT stream does. `LoopOpens` and `OpenReturns` are the packet-loop half of
`open_stream` over HTTP/3, which times out independently. Left out: wording of
errors and the check of the peer's settings (`peer_close.h`,
`webtransport_requirements.h`).

### SubgroupSender

Variables of `SubgroupSenderState` keep their names; `live`, `forward`, `start`,
`admitted_objects` and `updates` are the caller's `ActiveSubscription`. One
operation runs at a time (`phase`, `op`), but each of its transport calls, and each
stream that `finish_group` or `cancel_all_open_subgroups` ends, is a step of its own, and the packet-loop thread's `Expire` and `Stop` events fall in
between. `observe_transport_stream_state` reads expiry and stop in two calls,
twice: all four reads are steps. The completion history is the abstract set
that `CompletionTracker` implements, with the same limit. Left out: failures of
the transport as such, the `resource_status` callback inside `finish_group`,
object properties, filters with an end, and how a draft-18 subscription ends.

### CompletionTracker and CompletedSubgroups

`ranges_by_subgroup_` is a function from subgroup ids to functions from first to
last group (0 .. `MaxGroup`). Each outcome of `insert` is an action, and
`contains` is the code's single `upper_bound` lookup, not a search. The abstract
specification knows the set of completed groups only, and when an insertion may be
refused: when the number of maximal runs has reached the limit and the group
would start a new one.

### PriorityScheduler

`active` is `active_subscriptions` with the frontier of each request, `eligible`
the heap as a bag (the code never removes stale or duplicate entries, so neither
does the model), `blocked` the candidates a pass has put aside. A pass pops
(`pc = "pass"`) until one candidate is admitted or all would block; updates,
pauses, ends and new requests come between passes. A looping input counts cycles,
with `origins` and `oldest` for `GenerationAvailability`. Pacing by media time and
the round-robin of the drafts without priorities are left out. `MaxLead` stands for
`kMaximumGenerationLeadCycles` (64), hence positive. No liveness is claimed: see the observation on parked leaders.

### PeerRequests

`net` is what the peer sent, per stream, and what has arrived: any stream may
deliver next. `st` gathers the locals of `serve_subscriptions`. Each iteration's
polls (control stream, request streams, discovery streams) are actions that run a
handler as a whole: read, validate the id, decide, answer, store. A subscription
is the number of objects left. The scenario fixes the draft, how
`serve_subscriptions` was entered, whether the input loops, and the requests the
peer uses. Messages decode; of parameters only the prefix, the forward flag and
the start are kept.

### ForwardedTracks

`pc` walks through `publish()`: setup, namespace, PUBLISH per track, collecting
answers, first pass, waiting for a forward, replay, PUBLISH_DONE, downgrade to
`serve_subscriptions`. `inbox`, `deferred` and `pending` are the three
places a control message can be in on drafts 14 and 16; later drafts have
`streamIn`. An object handed to the sender counts as sent.

### LiveObjects and LiveFragments

Both keep the locals of the publishing function in one record `s`, whose `pc`
names the place in the loop, and the history `s.out` of all that was written.
`LiveObjects`: a write that blocks lets handlers run, so `HandleSubscribe`,
`HandleUpdate`, `HandleEnd` and the others may come in the middle of a catalog
group as well as in the loop.
`LiveFragments` has three threads: the input thread `inp` (reads, numbers, queues
fragments, blocks on a full queue), the loop in its three shapes (SRT, stdin
forward mode, stdin awaiting subscriptions), and `cast` in `end_broadcast()`;
`m` is what they share. A stdin token is a `moof` or `mdat`, so that what a
failed publish leaves for its retry can be compared box by box. `drain_queue` takes a
fragment from the queue in one step and writes it in the next: what the write of a
catalog or of an object that fails leaves in hand is `unsent`.

### LiveMediaQueue and LiveSrtPublish

Every queue operation holds the mutex and is one action. `push` is translated
with its shedding: bounds exceeded, earliest keyframe that fits, what is kept,
which tracks now wait for a keyframe, or a limit exceeded for good. What is kept is the set of
positions `Kept`, listed in order (`InOrder`). Words are `0..WordMax`, with the
code's overflow checks. `LiveSrtPublish` adds the ingest
worker, the joiner, the loop with the order of its reads, and `close()` on
another thread; what control messages and a serve do is an outcome, and a serve
may block forever.

### LiveDash

An upload is a sequence of tokens: boxes and, when chunked, the framing between
them. Threads: accept, one worker per connection (`recv`, push boxes, reply,
unregister, close), the publishing thread (`source()` freezes the tracks,
`next_object`), the stop monitor. Socket numbers are reused as soon as they are
closed. CMAF, LOC and LOCMAF packaging differ in how a box becomes an object and in
what the full queue sheds. The counters of a path are kept by track, which is the
same as long as different paths make different slugs (see the observations).

### CatalogPublisher

Tracks by name with attributes and a protection flag, root lists, `isComplete`.
All five operations hold the mutex and are one action each, refusals included
(`threw`); the history `out` has the objects since the last `reset()`, and
`joined` what a subscriber that came with each of them holds by now.

### PublisherLifecycle and EndpointFailover

`PublisherLifecycle` follows one `Publisher`: the publishing thread `pub`, the
thread `disc` in `disconnect()`, what `state_mutex_` guards (`shared`), every session
made (`ses`), what the running one has done (`run`), and the resume state that stdin
(`LiveResumeState`, `resume`) and a live source (the catalog chain in `work`) hand on. Six scenarios cover the batch, fragment and
object routes and both libmoq routes. On the fragment route `ReadFragment` and `SkipFragment`
are the input thread, `TakeFragment` and `SendFragment` the two halves of the drain: a
session that fails in between saves the queue and not what is in its hand. `hist` notes what
was sent, what was passed over unserved (trimmed, dropped before a keyframe, unparsable, of a
track without subscription), and what a failure lost. `EndpointFailover` is the loop outside: an
object is its position in the source and its kind (catalog, video group boundary,
other); the signal handler, the monitor's loop of `disconnect()` calls and the two
places where `stop_requested_` is cleared are separate steps. The forced exit
after `kStopTimeout` or a second signal is left out, so that `StopEnds` has to hold
without it.

## Runs

| Run (module / cfg) | Instance | Shows |
|---|---|---|
| `media_streams` (`MCMediaTransport` / `MediaStreams`) | 2 media and 2 request streams, interchangeable, budget 2, writes of 1 or 2 bytes, deadlines before and after the end of the clock; a behaviour writes media or reliable data | admitted bytes reach the wire in order or the stream is reset, a FIN follows all bytes, the budget is exact (`MediaAccounted`); admitted media always has somebody who will send it (`NoStrandedMedia`); no activation meets a stream picoquic has ended (`NoFatalActivation`); refused writes keep their order (`ReliableInOrder`); the close waits for all of it (`CloseAfterDelivery`) |
| `subgroups` (`MCSubgroups`) | tracker: groups 0..5, 2 subgroups, 3 ranges; renewal: draft 18, 2 sparse groups of 2 objects, history of 1 range, 3 streams, 2 updates of which the last keeps the start, 2 ends by the transport; finish: earlier drafts, 2 adjacent groups of a live source; scheduler: 2 requests on 2 tracks, 2 priorities, 2 filters, drafts 16 and 21, looping or not, 2 cycles, 1 update, heap of 3, the video request beginning with the whole track and the audio request with the lower priority | the tracker's ranges are maximal and its count exact (`TrackerSound`), and it implements the abstract set (`ImplementsExactSet`); streams are usable, well formed and counted (`MCStreamsSound`); only a stopped and renewed subgroup is reopened, and it is (`RenewalSound`); no object is skipped without a reason, only an exhausted history fails the session (`NothingSkipped`); no request is forgotten, candidates are frontiers, no parked leader waits for nobody, needed cycles are retained (`SchedulerSound`); objects in order, a stall ends the lowest priority (`ServedByPriority`) |
| `requests` (`MCPeerRequests`) | 13 scenarios over drafts 14 to 23, up to 4 requests; 6 scenarios of 2 streams with 2 bytes over both transports | each request is answered once and well (`AnswersSound`); discovery requests do not overlap, cause one PUBLISH, own ids are unique (`DiscoverySound`); bytes, FINs and streams reach the session once, a type closes the session only if it is wrong, an end is blamed on its cause (`ReceiveSound`) |
| `live_objects` (`MCLiveObjects`) | 8 scenarios, up to 4 objects, 2 requests | catalog subscribers are served at fresh locations (`CatalogTrackSound`); MSF's order at the end, exact PUBLISH_DONEs, a gap is not the end (`EndsSound`); `close()` ends it (`StopEnds`) |
| `live_fragments` (`MCLiveFragments`) | fragments: 12 scenarios over source, mode, draft and packaging, up to 4 fragments, 3 messages of the peer; media: `MediaTransport` with 1 stream, 1 byte, FIN-only writes, negotiated timeouts 1 and 3 against a drain bound of 2 | each catalog subscriber gets a whole catalog (`CatalogReaches`); LOC groups have no hole, and a retry gets all but what was sent or skipped, the fragment in hand at the failure and a LOC queue (`NothingMissing`); PUBLISH_DONEs are exact for media and one for all catalog subscriptions together (`DonesSound`); the publish ends (`PublishEnds`); a missed subgroup deadline ends in a reset (`DeadlineEnforced`), a requested close completes (`CloseCompletes`) |
| `forward` (`MCForward`) | batch: a catalog and a video track of 2 objects, 7 drafts and modes, 2 updates; srt: 3 pushes into a queue of 2; catalog: 7 catalogs, 5 calls | no control message is dropped or reordered, PUBLISH_DONE follows the whole track unless it was off at an object and got no replay (`ForwardSound`); a stopped track is silent (`StoppedStaysSilent`); SRT ends for the reason it reports (`SrtEndsSound`); subscribers hold the publisher's catalog (`CatalogSound`); publishes end (`PublishesEnd`) |
| `live_inputs` (`MCLiveInputs`) | dash: 6 scenarios of 1 or 2 uploads, queue depth 1 to 3; queue: 2 video tracks, audio, init, room for 2, top of the word at 3, 4 pushes | locations grow, groups are aligned, no holes, only announced tracks (`DashObjects`); no thread touches another's socket, nothing outlives `stop()` (`DashThreads`), which returns (`StopReturns`); resume at keyframes, aligned cuts, no wrap (`QueueSound`), an empty queue takes the next keyframe (`KeyframeResumes`) |
| `publisher` (`MCPublisher`) | failover: 2 endpoints, 2 attempts each, window of 2, 4 objects; lifecycle: 6 routes, 1 retry, 1 migration, 1 `disconnect()` | what a retry is handed is exact, bounded and in order (`ReplaySound`); groups and catalog continue, and so does the input but for what a failed session had in hand or had looked ahead (`ResumeSound`); nothing stays up, nothing is counted twice (`LifecycleSound`); a stop ends the publish (`StopsEnd`) |
| `publisher_lookahead`, `live_fragments_hand`, `forward_switched_on`, `catalog_convert` | as `publisher`, `live_fragments` and `forward`; 6 calls of the catalog | **findings**, see below |

Deadlock is checked in `media_streams`, `live_inputs`, `subgroups` and `live_fragments`; of the
latter two, the scheduler and the publish may stop, so they may stutter. So may the other systems: a publish that has returned, a peer that says nothing more.

### Why the bounds are enough

The hazards are about pairs and triples of steps, and each instance has room for
them. Two bytes of budget allow a partial copy of one write, two writes behind
each other, or one on each stream with the budget used up; deadlines pass at the
last tick or never. Three streams and two updates allow a subgroup to be opened,
stopped, renewed and opened again while the other fills the history. A subgroup that the transport
ends twice is one that expires and is stopped between two reads, the hard case. Six groups
allow three ranges with gaps, both bridges and the refusal. Three candidates in
the heap are two live ones and a stale duplicate. Two or three requests are what
it takes for one to cross the update or the end of another, four for an update
of a discovery request to collide with one accepted meanwhile. Two bytes per
stream split a type over two callbacks. Two objects per catalog group leave one
half sent when a subscriber comes. Four fragments have a group change, a queue
that is full and a fragment in the hands of each thread. A queue with room for
two sheds on the third push, and the fourth shows where each track resumed. Two
endpoints of two attempts allow a boundary inside, at the edge of and outside
the window. Scenarios instead of free constants keep the product of drafts,
modes and requests small; each handler of each draft is reached by some scenario
(TLC's coverage shows no action and no disjunct unfired).

### Fairness

Only threads of the program are fair, never the peer, the application or the
input.

* `MediaTransport` (`FairSpec`, in `live_fragments` part of `MCFairness`): the packet loop runs its passes (picoquic's
  `time_check` fires every 10 ms) and its check after sending, time passes,
  `close()` returns from its join, and a connection that picoquic was told to
  close, or whose callback failed, is over at some time. The last two need strong
  fairness because other callbacks interleave.
* `ForwardedTracks`: the session's thread runs; its waits have timeouts, so a
  silent peer does not stop it. `ReplayOver` is strongly fair: the sender takes
  the replay in the end (it has its own deadline).
* `LiveObjects`: the session's thread runs; its writes time out.
* `LiveFragments`: the input thread and the publishing loop run; the timer of a
  blocked write expires although other steps interleave (strong fairness). Input may
  be silent forever, hence `PublishEnds` starts from its end or from `close()`.
* `LiveSrtPublish`: worker, joiner, loop and the thread in `close()` run;
  receiving is not fair and a serve may block forever.
* `LiveDash`: the accept thread, each worker, the monitor and the main thread run;
  clients may hang, so `StopReturns` starts from `stop()`.
* `EndpointFailover`, `PublisherLifecycle`: the publishing and the disconnecting
  thread run, and a session that was closed ends; otherwise a session may last
  forever.

## Findings

* `publisher_lookahead` (9765): a stdin publish saves for its retry what the
  reader holds after the init segment, then looks ahead for frame rates and reads
  further media. A failure before the input thread starts loses that media, against
  the comment at 9737 and `docs/publisher-api.md:358`.
* `live_fragments_hand` (10395): `drain_queue` takes a fragment from the queue before it
  writes it; when the write fails, the fragment is not sent and not put back, and the
  retry continues behind it, against `docs/publisher-api.md:358` ("a retryable failure
  records the unsent stdin bytes").
* `forward_switched_on` (7011): a track that was off in its pass and is switched on
  before the wait for such tracks begins, with no other track off, is not replayed and gets
  PUBLISH_DONE without its objects, against `docs/relay-interop.md:249` and the comment
  at 6992.
* `catalog_convert` (`src/msf_catalog.cpp:853`): the final catalog of
  `end_broadcast(kConvertToVod)` keeps the tracks' protection references and not
  the entries they refer to, fails its own validation, and is never sent.

## Observations

Met while modelling and kept in the models as the code has them; none is the
subject of a run, either because no document of the repository says otherwise or
because the case is outside what a model shows. Where a property would fail, its
definition names the exception.

Transports
* `write_stream` gives up waiting for room after 30 s and queues anyway, and
  `has_room` cannot see writes a running pass has swapped out
  (`picoquic_client.cpp:368`, `1142`).
* WebTransport `open_stream` leaves a pointer to its local record in
  `pending_opens` when it times out (`webtransport_client.cpp:1320-1326`).
* A packet loop that exits with an error while connected leaves reads to time
  out: the waits of `accept_stream` and `read_stream` do not look at
  `loop_exited`.
* WebTransport reports STOP_SENDING and a reset as FIN to readers, so a stream
  reset before its type closes the session; over QUIC its entry just stays.
* An invalid datagram marks the close as requested over WebTransport and not over
  QUIC, so `state()` differs. `accepted_streams` never shrinks.

Sender and scheduler
* A REQUEST_UPDATE that lowers the Start Location inside an open subgroup fails
  the session (3164); one that raises it past an open subgroup leaves that stream
  open at PUBLISH_DONE (4904).
* UNSUBSCRIBE sends a FIN on subgroup streams that have not carried every object
  (5636).
* The heap keeps duplicates; on draft 21 and later a parked leader is left waiting
  when every other request is paused (4933).

Requests and publisher-initiated tracks
* On draft 16 a REQUEST_UPDATE that crosses PUBLISH_DONE closes the session; ids
  that arrive in another order because streams deliver independently do too
  (comment at 2005-2010); a dormant published track is dropped without
  PUBLISH_DONE. A pending SUBSCRIBE that is unsubscribed gets no answer.
* `established_subscription_tracks` is never erased.
* A session entered from `forward_published_tracks` counts its own request ids
  from 2 again (7095 and 8179); the peer's maximum is checked as `next > max`
  (6651, 7150) and by the validator as `>= max` (297).
* `forward_published_tracks` passes the control stream as the peer's (7079), so on
  drafts with two a GOAWAY is not read there.
* `publish_discovered_tracks` on a looping plan does not return (5105, 5481), and
  its stream map is local, so updates of dormant tracks are not read from draft 18
  on.

Live publishing
* `end_broadcast()` during a draft-18 stdin publish with PUBLISHes fails
  `publish_live` (13337-13363, 4547-4551); after the loop's end it writes a catalog
  behind PUBLISH_DONE; two concurrent calls can throw.
* `publish_live` answers the catalog subscriptions with one deferred flag
  (11607-11624), so only one of them gets a PUBLISH_DONE, where `docs/publisher-api.md:316`
  says it is sent "for the requests the session still tracks". `CatalogDone` states what
  the code does: one, and not none. On drafts 14 and 16 UNSUBSCRIBE is
  ignored in `publish_live`, and PUBLISHed tracks of stdin never get one.
* Stdin awaiting subscriptions does not end while only the catalog is subscribed
  and fragments are queued (11470-11480, 11555). A LOC resume does not keep the
  queue (`ResumeExact` excepts `LocQueue`).
* In `publish_live_objects` the first catalog subscriber gets its group from the
  current object on, also with forward=0; a source that closes between
  `next_object` and `is_finished` (12896) may lose an encoding error.

Inputs, catalog and publisher
* The queue's recovery boundary is compared with the 33-bit PTS as received
  (`live_media_queue.h:66`): after a wrap every later fragment is dropped.
* DASH: two uploads to one path interleave their bytes; paths that make the same
  slug collide; CMAF shedding pops single objects. Audio pushed before the first video
  path registers gets groups of its own (`live_dash_ingest.cpp:656-668`); it then joins
  the shared groups, which start at the same first group, so what was queued of it before
  and what follows may share locations. `LocationsGrow` excepts these tracks
  (`StartsOver`), and one scenario of `live_inputs` is this one.
* `CatalogPublisher::publish()` of a catalog that changes `isComplete` or the
  version and adds or removes a track sends a delta without that change
  (`msf_catalog.cpp:1066`).
* An attempt that fails before it has read its replay loses the window for the
  next one, which starts in the middle of a group (`endpoint_failover.cpp:25`).
* The live routes of libmoq ignore a `disconnect()` before their handle is
  registered; statistics go backwards on migration; a retry of
  `publish_live_objects` does not replay the catalog chain.

## Proofs

All theorems hold for every value of the constants that satisfies the modules'
`ASSUME`s; TLC has evaluated those, and every property below, on the instances
above. Each is proved from an inductive invariant: it holds in the initial states,
every action keeps it (one step of the proof per action), and it implies the
property.

`MediaTransportProofs`, from `ConstantAssumption`:

* `TypeCorrect`: `Spec => []TypeOK`, one step per action; helper lemmas state the
  type of what `AfterConsume`, `ClearStream`, `QueueDeliveryTimeout` and the like
  return.
* `MediaNeverStranded` and `ActivationNeverFatal`: neither is inductive. `Safe`
  adds: an activation is in at most one of the session's set and the
  pass's set (`PassesDisjoint`); a loop that ended is over (`ExitIsOver`); a
  stream with an applied reset has nothing queued or active (`ResetIsQuiet`), and
  neither has a finished one (`FinIsQuiet`). The last two carry the argument for
  activation: the pass re-inspects the queue under the mutex just before it
  activates, and a queue that is not empty excludes a reset or a finished stream.
* `EveryByteAccounted` (`[]MediaAccounted`): `Delivering` says that the queue of a
  stream runs without a gap from what picoquic was given to what was admitted
  (`QueuesContinue`), that a connection that is over has nothing queued, and that
  a stream noted as timed out has its reset on the way. `queued_bytes_` is
  a sum over all streams, and each action moves one summand (`SumUpdate`).
* `ReliableNeverReordered` (`[]ReliableInOrder`): `Reliable` orders the three
  places of a `write_stream` call, handed over, in the running pass and queued;
  a refused write goes back in front.
* `CloseOvertakesNothing`, the step property `CloseAfterDelivery`: when a pass has
  seen the close and has nothing deferred, every write still queued is younger than
  the close (`ClosingPass`).

and, from `SenderAssumption`:

* `RenewalIsSound` (`[]RenewalSound`) and `OpenStreamsStayUsable`
  (`[]OpenStreamsAreUsable`, part of `StreamsSound`), both from `SenderInv`. Its
  first half, `StreamsKept`, says of every stream ever opened that its end is
  accounted for (`EndRecorded`): it is still held, or recorded closed, or had no
  object, or was only stopped and is recorded so until the next renewal; and of
  every stream held that it is the last of its subgroup (`LastOfKey`) and what ended
  it is still to be read. The second half, `OperationKept`, is about the middle of
  an operation: what a scan has read of a stream is older than what is so
  (`ScanSound`), and a renewal has every stopped stream either in its scan or
  stopped after it began; a finish works on a copy of the open streams, each
  still the last of its subgroup (`FinishSound`).

`CompletionTrackerProofs`, from the assumption on `MaxGroup`, `Subgroups` and
`MaxRanges`:

* `TrackerInvariant` with `Inv` = type, `RangesApart`, finitely many ranges,
  `CountExact` and `StorageBounded`. `RangesApart` is the heart: because ranges
  neither overlap nor touch, the single range that `upper_bound` finds decides
  membership (`ContainsIsHolds`), and each outcome of `insert` adds exactly one
  group (`AboveAdds`, `BelowAdds`, `BridgeAdds`, `NewAdds`).
* `TrackerStaysSound` (`[]TrackerSound`, `RangesApart` and `CountExact`) follows.
* `TrackerIsExact`: `Spec => ImplementsExactSet`, every step is a step of
  `CompletedSubgroups` or a stutter. Stored ranges correspond one to one to
  maximal runs of the abstract set (`RangesAreRuns`), so the code's limit is
  the abstract one (`RefusedIsIsolated`).

and about `PriorityScheduler`, from `SchedulerAssumption` (types of the plan and of the
constants, `MaxLead` positive):

* `SchedulerForgetsNobody` (`[]SchedulerSound`): `SchedulerInv` is what the run checks,
  strengthened. The frontiers of a request list exactly what it has still to send, each
  subgroup in object order (`FrontOf`); any finite set has such a list (`OrderExists`), so
  the sort is well defined. A request that may be scheduled has its current candidate in the
  heap or among the blocked ones (`HeapKept`). A parked leader has an unparked request
  `MaxLead` cycles behind it, or one that has just restarted (`LeadersWait`): when that one
  moves, ends or is updated, `ResumedFacts` lets go or finds another.
* `ServiceFollowsPriority`, the step property `ServedByPriority`: `OrderInv` adds that no
  candidate is newer than its request (`CandidatesKnown`), that the blocked ones are
  live, in priority order and no worse than the heap (`BlockedInOrder`), and that what
  is admitted was sent (`AdmittedSent`). The order of the heap is total because
  different candidates have different keys (`HeapKeyTells`).

`ForwardedTracksProofs`, from `PublishAssumption` (the published tracks are distinct,
the plan names only them, the drafts are 14, 16, 17 and 18):

* `NothingLostOrSkipped` (`[]ForwardSound`): `ForwardInv` reads `deferred`, `pending`
  and `inbox` as one sequence. Its numbers rise and, with those of the handled messages,
  are `1..count` (`Numbered`); on draft 16 its requests are exactly the odd ids from
  `expected` up to the peer's next (`InOrder`), which is why a valid request is never
  refused. A message that is acted on is taken from any of the three places
  (`Without`), a wait that ends puts the deferred ones back in front (`Rearranged`).
  For the passes, each published track either is downgraded or ends with its
  objects before `index` (`PassCovers`); a downgraded one, off at an object, is the exception
  of `DoneIsWhole`, and `forward_switched_on` shows it is needed; whatever came before a replay does not matter
  to that. The objects sent are then an ascending suffix (`EndsIsSuffix`).
* `StoppedTracksSilent`, the step property `StoppedStaysSilent`: a claimed stop leaves
  the forward flag at 0 and the request terminated (`Stops`), and an update of a
  terminated request changes nothing.

`LiveInputsProofs`, from `QueueAssumption` for the queue and `DashAssumption` for
`DashObjects` (depths, limits and times are numbers; the name of a track says whether it
is video and is not the catalog's):

* `ShedsStayDecodable` (`[]QueueSound`). `QueueInv` says what the queue holds of each
  video track: every fragment that is no keyframe follows the one before it, in
  the queue or popped (`Contiguous`); the newest queued one is the last produced,
  unless the track waits for a keyframe (`NothingLost`), and a waiting track has
  nothing queued (`WaitsEmpty`). The heart is a recovery: groups are closed
  (`GroupsClosed`), so from a kept keyframe on everything of its track is kept
  (`KeptFacts`), and what is retained, a listing of positions in order, is
  contiguous again (`RetainedOrder`).
* `DrainedQueueResumes`, the step property `KeyframeResumes`: the boundary is the start
  of a keyframe (`BoundaryIsKey`), so a later keyframe is not before it, and a
  recovery never drops the keyframe it is cut at.
* `ThreadsOwnTheServer` (`[]DashThreads`), from `DashInv`: a socket is its connection's
  until it was deregistered, and deregistered before it is closed, so a reused number
  is in the set for its new owner only (`OwnSocket`); between the look at the flag and the
  registration the accept thread holds the mutex that `stop()` needs (`OneInHand`), which is
  why no worker is missed; and once the flag is set, its first caller is in `stop()` or
  has left a quiet server (`OneStops`), which covers the second caller, who returns at once.
* `UploadsPublishedInOrder` (`[]DashObjects`), from `ObjectsInv`. It reads what was handed over
  and then the queue as one list and says of each track that its locations climb
  (`Climbs`, `Before`) and stay below the one its counters give next (`AllPassed`); that
  is what a shed leaves true, because it only takes from the list (`SublistKeeps`). A first
  object of a video track is a keyframe of the time at which its group was opened
  (`Keyed`, `SameTimes`), so two paths that open the same group agree whichever comes
  first. For LOC, the object before one of a group went out or is queued before it,
  and the one before the encoder's next is there too, unless its group was cut
  (`ChainInv`); a cut takes a whole group, so no successor is left (`CutGone`). The
  boxes of one `recv` are a recursive function, and the invariant is carried along it by
  induction over their number (`IngestedKeeps`). `SourceTaken` says that
  announced and frozen are one step.

`PeerRequestsProofs`, from `RequestsAssumption` (finitely many tracks; drafts 14, 16, 18, 22 and 23):

* `EveryRequestAnsweredWell` (`[]AnswersSound`) and `DiscoveryNeverContradicts`
  (`[]DiscoverySound`), from one invariant, `RequestInv`, because a handler that
  answers a discovery request changes both. `FreshIds` reads the streams of the peer
  as lines, the control stream read ahead and not as one: a request is in one
  place of one line and its id has not been handled. `Phases` gives each
  request one phase (unread, waiting for the control stream to be read empty, served,
  answered, withdrawn) that its answer rules the others out of; it is what makes an
  UNSUBSCRIBE, an update and the end of the track harmless in any order. `OwnIssued`
  says that our ids are below the next one (`IssuedMore`); a session that came
  from `forward_published_tracks` starts it anew at 2, hence the exception (see the
  observations). `DiscoveryKept` ties the rounds of PUBLISHes to the flag of the kept
  request. Each handler is one lemma over what it takes from a line (`StreamTaken`,
  `UpdateTaken`, `ControlTaken`).
* `StreamsReceivedWhole` (`[]ReceiveSound`) of `PeerStreams`, from `StreamsAssumption` (the ids
  of the peer's streams differ from this side's), for any number of streams, bytes and types.
  `PeerInv` says of each stream that what was read followed by what is stored is what was
  sent, and that a FIN that was read has nothing stored behind it (`Carried`), through
  chunks appended in the callbacks, entries erased by a read and made anew by the next
  callback; a stream has its entry in `poll()` until enough of it was read
  to know its type (`TypesKnown`); only streams that exist are stored, those of this side
  after `open_stream` returned the id or the packet loop created them (`StoredKnown`),
  which is why `accept_stream` over HTTP/3 never offers one of our own; and
  whoever is blamed for the end closed (`EndKnown`).

`LivePublishProofs`, from `CatalogAssumption`, which only the second needs, and
`ScenariosAssumption`, which only the last two need (a source numbers its catalogs in
rising order and ends with one):

* `PublishEndsForItsReason` (`[]SrtEndsSound`): `Ends` says who may have set the stop
  flag (`FlagHasReason`), that the end of input is marked after the last push
  (`EofIsLast`), and that an iteration that saw it has an empty queue (`EofSeen`):
  the loop reads the end before it drains.
* `SubscribersFollowCatalog` (`[]CatalogSound`): `Consistent` ties the counters to
  the last object emitted (`CountersContinue`), and a delta applied to the last catalog
  gives the new one (`DeltaLeads`), whatever the catalogs are.
* `CatalogReachesEveryone` (`[]CatalogTrackSound`) and `PublishEndsInOrder` (`[]EndsSound`) of
  `LiveObjects`, from one invariant, `ObjectsInv`, over the session's record. A handler runs
  wherever a write blocks, so each part must hold in the middle of an object: a
  subscription of the catalog is owed a group, is being sent one or was sent one
  (`CatalogOwed`); no catalog written is after the newest (`LocationsGrow`), and what the
  source has yet to give comes after the newest, whatever groups were inserted
  (`GroupKept`). `DonesKnown` says for each phase of the end, serving,
  leaving and closing, which requests have their PUBLISH_DONE, and `LeftInTime` why the
  loop was left: the source had closed or had handed over a closing catalog.

`EndpointFailoverProofs`, from the assumptions on endpoints, retries, depth and objects,
and for `PublisherLifecycle` from `LifecycleAssumption`, which only gives the constants
their types:

* `RetryResumesExactly` (`[]ReplaySound`): `Inv` has the budget of sessions
  (`BudgetInv`), the stop flags (`StopInv`), and the replay window (`WindowInv`): what
  is retained and what is left to replay are the newest media objects in order,
  within the bound (`HeldCount`), the retained catalog is the newest, and each object
  was handed over only after all that was due before it.
* `SessionsClosedOnce` (`[]LifecycleSound`) of `PublisherLifecycle`: `LifecycleInv` says
  that a session still marked as connecting is the newest one and nobody has begun to
  close it, and that every older one that was up is closed (`SessionsKnown`). While a session
  runs or the publish has returned, one that is up and not closed is the active one, and
  with the stop flag set `disconnect()` is on its way to close just that one
  (`ActiveKnown`): `disconnect()` leaves a connecting session alone because the
  publishing thread looks at the flag after the connect and closes it itself.
* `SessionsContinue` (`[]ResumeSound`): `ResumeInv` says where what the next session
  needs is at each moment, in `run` while a session is underway and in `resume` otherwise.
  All groups in use are below the free ones (`GroupsKnown`), also in a session that fails
  before its floors are applied, whose `run` still has the initial values. What was
  read of the input was sent, was passed over (`Passed`: unserved, in hand when its write
  failed, or lost in a look-ahead), is held, or is the one fragment in hand, which comes
  after all that was sent and before all that is held (`InputKnown`); a list of held fragments is never mistaken for the mark
  of no bytes (`UnsentKept`). The kept catalog chain and what the session was handed are runs of
  catalog objects up to the newest (`RunsOn`), and a replay that is done has handed over
  exactly the chain (`CatalogKept`).

`DataTheorems` proves what these need of their data, among it induction over the naturals
and over finite sets, stated for a set in place of a predicate
(`NatSetInduction`, `SubsetInduction`): that is how `SumFunctionOnSet`, a fold in an
unspecified order, gets its algebra, and how a finite set of positions is listed
in rising order (`RisingExists`).

Only model-checked: `DeadlineEnforced`, `CloseCompletes` and the other liveness
properties, which need fairness or `ENABLED` and are out of the proof system's
reach, the rest of `SubgroupSender` (`NothingSkipped`, and that streams are well
formed and counted) and the properties of `LiveFragments`: their
invariants are as large as the ones above and are not written yet. No module declares
a RECURSIVE operator, so none is excluded from a proof on that account.

## Not modelled

* Control message codec: byte layout of fourteen message types over eight drafts.
  It has no state; what a property could say of it is what its unit tests compare.
* WebTransport client, sending side: the same queue, deadlines and drain as the QUIC
  client's. The capsule before the close and the mapping of error codes are its own.
* SRT demultiplexing and H.264 / AAC parsing, packaging and segmentation, JSON text
  of catalogs: sequential transformations of bytes.
* libmoq backend: drives a library that is not in the repository;
  `PublisherLifecycle` keeps its handle and outcomes.
* Authorization, DRM, TLS, command line: cryptography, files, parsing.

Inside modelled components: see the notes under "components" in `PROJECT.json`.
Hazards without a property carry a note saying why: the cap on reliable writes,
what picoquic answers to a reset of a released stream, the abandoned record of
`open_stream`, and the PTS wrap.

## Plan

Modelled: everything above. Proofs still worth writing, most important first:

1. `SubgroupSender`: `ReopenOnlyAfterRenewal`, with the closed history as the
   strengthening.
2. `LiveFragments`: `DonesSound`, along `PublishEndsInOrder` of `LiveObjects`.
