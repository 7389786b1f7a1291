--------------------------- MODULE LiveMediaQueue ---------------------------
(* LiveMediaQueue of src/src/live_media_queue.h: the queue between the SRT
   ingest threads and the publishing loop, bounded in bytes and in media
   time.  When a push would exceed a bound the queue sheds: it keeps what
   starts at or after the earliest keyframe that fits (the recovery
   boundary), and from then on a video track that was cut resumes only at
   a keyframe.  If no keyframe fits, the limit is exceeded for good.  All
   operations hold one mutex, so each is one step.

   A fragment is what build_fragment_from_sample makes of a sample: its
   track, SAP type, times and size.  seq, nextSeq, lastPopped and gopStart
   are history: a fragment's place in its track, what the source produced
   and what the consumer received. *)
EXTENDS Integers, Sequences, Functions, FiniteSetsExt

CONSTANTS Video, Audio, Inits,  \* video, audio and initialization tracks
          Times,                \* start times, in microseconds
          Durations, Sizes,     \* fragment durations and payload sizes
          MaxBytes,             \* max_bytes_
          MaxDuration,          \* max_media_duration_
          WordMax,              \* 2^64 - 1
          MaxPushes             \* bound on the fragments the source produces

ASSUME QueueAssumption ==
    /\ Video \cap (Audio \cup Inits) = {} /\ Audio \cap Inits = {}
    /\ Times \subseteq Nat /\ Durations \subseteq Nat /\ Sizes \subseteq Nat
    /\ MaxBytes \in Nat /\ MaxDuration \in Nat /\ WordMax \in Nat

None == -1
Tracks == Video \cup Audio \cup Inits

VARIABLES entries,          \* entries_
          videoTracks,      \* video_tracks_
          awaiting,         \* awaiting_recovery_keyframe_
          boundary,         \* active_recovery_boundary_, or None
          queuedBytes,      \* queued_bytes_
          queuedDuration,   \* queued_media_duration_
          eof,              \* eof_
          exceeded,         \* resource_limit_exceeded_
          nextSeq,          \* history: fragments each track has produced
          gopStart,         \* history: start time of a track's last keyframe
          lastPopped        \* history: seq of the last fragment popped

queueVars == <<entries, videoTracks, awaiting, boundary, queuedBytes,
               queuedDuration, eof, exceeded>>
queueHistory == <<nextSeq, gopStart, lastPopped>>
mediaQueueVars == <<queueVars, queueHistory>>

-----------------------------------------------------------------------------
(* The fragments the ingest can produce next for a track.  A keyframe has
   SAP type 2, other video 0, audio 1.  Nothing that follows a keyframe in
   its track is presented before it: groups are closed, and the 33-bit PTS
   of the source, which is used as received, has not wrapped. *)
SapType(t, key) == IF t \notin Video THEN 1 ELSE IF key THEN 2 ELSE 0

Fragments(t) ==
    {f \in [track : {t}, seq : {nextSeq[t]}, init : {t \in Inits},
            start : Times, duration : Durations, size : Sizes,
            key : BOOLEAN, sap : {0, 1, 2}] :
        /\ f.key => t \in Video
        /\ f.sap = SapType(t, f.key)
        /\ t \in Video => f.start >= gopStart[t]}

IsVideoFragment(f) == f.key \/ f.sap \in {0, 2}

-----------------------------------------------------------------------------
(* should_retain, for the entry at index i: the code's video_started map
   says that a keyframe of the track was retained at or before i. *)
StartedBy(es, i, T) ==
    \E j \in 1 .. i : /\ ~es[j].init /\ es[j].track = es[i].track
                      /\ es[j].start >= T /\ es[j].key

ShouldRetain(es, i, vt, T) ==
    \/ es[i].init
    \/ /\ es[i].start >= T
       /\ es[i].track \in vt => StartedBy(es, i, T)

\* A finite set of positions, in rising order.
InOrder(K) ==
    CHOOSE places \in [1 .. Cardinality(K) -> K] :
        \A a, b \in 1 .. Cardinality(K) : a < b => places[a] < places[b]

Kept(es, vt, T) == {i \in DOMAIN es : ShouldRetain(es, i, vt, T)}

Retained(es, vt, T) ==
    LET places == InOrder(Kept(es, vt, T))
    IN  [k \in DOMAIN places |-> es[places[k]]]

\* Mutant: a track restarts with any fragment after the boundary.
StartedMutant(es, vt, T) ==
    {t \in vt : \E i \in DOMAIN es : es[i].track = t /\ es[i].start >= T}

(* The video tracks that the retained entries restart. *)
Started(es, vt, T) ==
    {t \in vt : \E i \in DOMAIN es : es[i].track = t /\ ~es[i].init
                                     /\ ShouldRetain(es, i, vt, T)}

(* measure: the sum of the payloads and the media time from the earliest
   start to the latest end, each saturating at 64 bits with a flag. *)
Media(es) == {es[i] : i \in {j \in DOMAIN es : ~es[j].init}}

TotalBytes(es) == SumFunctionOnSet([i \in DOMAIN es |-> es[i].size], DOMAIN es)

MediaEnd(f) == Min({WordMax, f.start + f.duration})

Span(es) == IF Media(es) = {} THEN 0
            ELSE Max({MediaEnd(f) : f \in Media(es)})
                 - Min({f.start : f \in Media(es)})

WithinLimits(es) ==
    /\ TotalBytes(es) <= WordMax
    /\ \A f \in Media(es) : f.start + f.duration <= WordMax
    /\ TotalBytes(es) <= MaxBytes
    /\ Span(es) <= MaxDuration

ApplyBounds(es) ==
    /\ queuedBytes' = TotalBytes(es)
    /\ queuedDuration' = Span(es)

(* The start times of the queued keyframes at which what remains fits. *)
RecoveryTimes(es, vt) ==
    {T \in {f.start : f \in {e \in Media(es) : e.key}} :
        WithinLimits(Retained(es, vt, T))}

-----------------------------------------------------------------------------
QueueInit ==
    /\ entries = <<>>
    /\ videoTracks = {} /\ awaiting = {} /\ boundary = None
    /\ queuedBytes = 0 /\ queuedDuration = 0
    /\ eof = FALSE /\ exceeded = FALSE
    /\ nextSeq = [t \in Tracks |-> 0]
    /\ gopStart = [t \in Tracks |-> 0]
    /\ lastPopped = [t \in Tracks |-> None]

(* The source hands over its next fragment of a track. *)
Produce(f) ==
    /\ nextSeq' = [nextSeq EXCEPT ![f.track] = @ + 1]
    /\ gopStart' = IF f.key THEN [gopStart EXCEPT ![f.track] = f.start]
                            ELSE gopStart
    /\ UNCHANGED lastPopped

(* A track is video once it has shown a video fragment, and a track first
   seen during a recovery waits for its keyframe. *)
IsVideo(f) == ~f.init /\ (f.track \in videoTracks \/ IsVideoFragment(f))

NowVideo(f) == IF IsVideo(f) THEN videoTracks \cup {f.track} ELSE videoTracks

NowAwaiting(f) ==
    IF IsVideo(f) /\ boundary # None /\ f.track \notin videoTracks
    THEN awaiting \cup {f.track} ELSE awaiting

\* Mutant: the boundary itself is shed too.
BeforeBoundaryClosedMutant(f) == ~f.init /\ boundary # None /\ f.start <= boundary

(* push returns kShedToKeyframe before it appends. *)
BeforeBoundary(f) == ~f.init /\ boundary # None /\ f.start < boundary

AwaitsKeyframe(f) == IsVideo(f) /\ f.track \in NowAwaiting(f) /\ ~f.key

Sheds(f) == BeforeBoundary(f) \/ AwaitsKeyframe(f)

Resumed(f) == IF IsVideo(f) THEN NowAwaiting(f) \ {f.track} ELSE awaiting

(* push after the limit was exceeded: kNoDecodableBoundary. *)
PushExceeded(f) ==
    /\ exceeded
    /\ UNCHANGED queueVars

PushShed(f) ==
    /\ ~exceeded /\ Sheds(f)
    /\ videoTracks' = NowVideo(f)
    /\ awaiting' = NowAwaiting(f)
    /\ UNCHANGED <<entries, boundary, queuedBytes, queuedDuration, eof, exceeded>>

PushAccepted(f) ==
    LET es == Append(entries, f) IN
    /\ ~exceeded /\ ~Sheds(f) /\ WithinLimits(es)
    /\ entries' = es
    /\ videoTracks' = NowVideo(f)
    /\ awaiting' = Resumed(f)
    /\ ApplyBounds(es)
    /\ UNCHANGED <<boundary, eof, exceeded>>

(* push cuts the queue at the earliest keyframe that fits. *)
PushRecovers(f) ==
    LET es   == Append(entries, f)
        T    == Min(RecoveryTimes(es, NowVideo(f)))
        kept == Retained(es, NowVideo(f), T)
    IN  /\ ~exceeded /\ ~Sheds(f) /\ ~WithinLimits(es)
        /\ RecoveryTimes(es, NowVideo(f)) # {}
        /\ entries' = kept
        /\ videoTracks' = NowVideo(f)
        /\ boundary' = T
        /\ awaiting' = NowVideo(f) \ Started(es, NowVideo(f), T)
        /\ ApplyBounds(kept)
        /\ UNCHANGED <<eof, exceeded>>

(* push finds no keyframe to recover at: the entry is taken back. *)
PushFails(f) ==
    LET es == Append(entries, f) IN
    /\ ~exceeded /\ ~Sheds(f) /\ ~WithinLimits(es)
    /\ RecoveryTimes(es, NowVideo(f)) = {}
    /\ exceeded' = TRUE
    /\ videoTracks' = NowVideo(f)
    /\ awaiting' = Resumed(f)
    /\ UNCHANGED <<entries, boundary, queuedBytes, queuedDuration, eof>>

Push(f) ==
    /\ \/ PushExceeded(f) \/ PushShed(f) \/ PushAccepted(f)
       \/ PushRecovers(f) \/ PushFails(f)
    /\ Produce(f)

TryPop ==
    /\ entries # <<>>
    /\ entries' = Tail(entries)
    /\ ApplyBounds(Tail(entries))
    /\ lastPopped' = [lastPopped EXCEPT ![Head(entries).track] = Head(entries).seq]
    /\ UNCHANGED <<videoTracks, awaiting, boundary, eof, exceeded, nextSeq, gopStart>>

MarkEof ==
    /\ ~eof
    /\ eof' = TRUE
    /\ UNCHANGED <<entries, videoTracks, awaiting, boundary, queuedBytes,
                   queuedDuration, exceeded, queueHistory>>

Done == eof /\ entries = <<>>

Pushes == FoldFunction(+, 0, nextSeq)

QueueNext ==
    \/ /\ ~eof /\ Pushes < MaxPushes
       /\ \E t \in Tracks : \E f \in Fragments(t) : Push(f)
    \/ TryPop
    \/ MarkEof

QueueSpec == QueueInit /\ [][QueueNext]_mediaQueueVars
-----------------------------------------------------------------------------
(* The variables hold values of the code's types. *)
QueueTypeOK ==
    /\ \A i \in DOMAIN entries : entries[i].track \in Tracks
                                 /\ entries[i].start \in Times
    /\ awaiting \subseteq videoTracks /\ videoTracks \subseteq Video
    /\ boundary \in Times \cup {None}
    /\ queuedBytes \in 0 .. MaxBytes /\ queuedDuration \in 0 .. MaxDuration
    /\ eof \in BOOLEAN /\ exceeded \in BOOLEAN

(* The fragment of its track that the consumer receives before an entry. *)
Earlier(i) == {j \in 1 .. i - 1 : entries[j].track = entries[i].track}

Predecessor(i) == IF Earlier(i) = {} THEN lastPopped[entries[i].track]
                                     ELSE entries[Max(Earlier(i))].seq

(* A shed never leaves the consumer a video fragment it cannot decode:
   whenever fragments of a video track were dropped, the next one that the
   consumer gets is a keyframe, over any number of sheds and while the
   consumer pops. *)
DecodableResume ==
    \A i \in DOMAIN entries :
        entries[i].track \in Video =>
            entries[i].key \/ entries[i].seq = Predecessor(i) + 1

(* After a shed, every queued media fragment, audio included, starts at or
   after the recovery boundary, so that tracks resume aligned. *)
AlignedToBoundary == \A f \in Media(entries) : f.start >= boundary

(* The reported sizes are the real ones, in unbounded arithmetic, and stay
   within both limits. *)
BoundsExact ==
    /\ queuedBytes = TotalBytes(entries)
    /\ queuedBytes <= MaxBytes
    /\ \A f, g \in Media(entries) : f.start + f.duration - g.start <= queuedDuration
    /\ queuedDuration <= MaxDuration

(* The queue is sound at every moment, whatever was shed and popped. *)
QueueSound == QueueTypeOK /\ DecodableResume /\ AlignedToBoundary /\ BoundsExact

(* Publication resumes after a shed: a keyframe that reaches an empty
   queue and starts no earlier than any keyframe before it is admitted, so
   a drained queue never turns away the next group the source offers. *)
KeyframeResumes ==
    [][nextSeq' # nextSeq /\ entries = <<>> /\ ~exceeded /\ entries' = <<>> /\ ~exceeded'
          => \A t \in Video : \A f \in Fragments(t) :
                ~(/\ f.key /\ \A u \in Video : f.start >= gopStart[u]
                  /\ Push(f))]_mediaQueueVars
=============================================================================
