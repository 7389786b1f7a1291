------------------------ MODULE PublisherLifecycle ------------------------
(* Publisher (publisher_api.cpp): one publish at a time and disconnect()
   from another thread.  A publish makes a session, connects it, runs it
   and, on draft 22, moves to a new session when the relay says GOAWAY.
   publish_with_failover() calls publish again after a retryable failure.

   A live publish carries on where the session before it stopped: stdin
   with LiveResumeState (unsent media, first free media and catalog group)
   and a live source by replaying its newest catalog.  What a session does
   in between is in other modules; here it takes input, sends some of it
   and ends in any way.

   A fragment is its position in the input.  The init segment is part of
   every bytes but NoBytes.  A source object is "base" or "delta" of the
   catalog, a "stray" delta of a group without a base, or "media". *)
EXTENDS Integers, Sequences, SequencesExt, FiniteSetsExt

CONSTANTS Scenarios,      \* records [route, draft22, input]: input bounds the
                          \* fragments or objects of the input
          Attempts,       \* retry_count + 1, for one endpoint
          MaxMigrations,  \* kMaxGoawayMigrations
          MaxGroupId,     \* kMaxGroupId
          InitialGroupId, \* PublisherConfig::initial_group_id
          MaxReplay,      \* kMaxCatalogReplayObjects
          MaxDisconnects  \* bound: calls of disconnect()

ASSUME LifecycleAssumption ==
  /\ Attempts \in Nat \ {0} /\ MaxMigrations \in Nat /\ MaxGroupId \in Nat
  /\ InitialGroupId \in Nat /\ MaxReplay \in Nat /\ MaxDisconnects \in Nat
  /\ Scenarios \subseteq
       [route : {"batch", "fragments", "objects", "libmoqPlan", "libmoqLive"},
        draft22 : BOOLEAN, input : Nat]

VARIABLES scenario,
          pub,       \* the publishing thread
          shared,  \* what state_mutex_ guards
          ses,     \* every ActiveSession made, in order
          run,       \* what the running session has done
          work,       \* the locals of publish_live and publish_live_objects
          resume,  \* the caller's LiveResumeState
          src,     \* the input
          disc,       \* the thread in disconnect()
          hist     \* history: everything sent, skipped and lost

lifecycleVars == <<scenario, pub, shared, ses, run, work, resume, src, disc, hist>>

NoBytes == <<0>>
Rest(bytes) == IF bytes = NoBytes THEN <<>> ELSE bytes
NoResume == [bytes |-> NoBytes, floor |-> 0, catalog |-> 0]
NoWork == [bytes |-> NoBytes, floor |-> 0, catalog |-> 0, prior |-> 0,
           seen |-> FALSE, whole |-> FALSE, chain |-> <<>>, replay |-> 0]
NoSession == [phase |-> "floors", pending |-> <<>>, saved |-> NoBytes, hand |-> 0,
              floor |-> 0, group |-> -1, next |-> 0, handed |-> <<>>, media |-> FALSE, objects |-> 0]

Fragments == scenario.route = "fragments"
Objects == scenario.route = "objects"
Libmoq == scenario.route \in {"libmoqPlan", "libmoqLive"}

LifecycleInit ==
  /\ scenario \in Scenarios
  /\ pub = [pc |-> "attempt", attempt |-> 1, migrations |-> 0, then |-> "", kind |-> "ok"]
  /\ shared = [stop |-> FALSE, active |-> 0, handle |-> "none", objects |-> 0]
  /\ ses = <<>> /\ run = NoSession /\ work = NoWork /\ resume = NoResume
  /\ src = [at |-> 0, objects |-> <<>>]
  /\ disc = [pc |-> "idle", session |-> 0, calls |-> 0]
  /\ hist = [media |-> <<>>, catalogs |-> <<>>, lost |-> {}, failed |-> {},
             skipped |-> {}, objects |-> 0]

Current == Len(ses)
At(pc) == pub.pc = pc
Go(q, pc) == [q EXCEPT !.pc = pc]

-----------------------------------------------------------------------------
(* publish_with_failover(), for one endpoint. *)

\* A publish that returns is over or, failed, tried again.
Returned(q, kind) ==
  IF kind \in {"retryable"} /\ q.attempt < Attempts
  THEN [q EXCEPT !.pc = "attempt", !.attempt = @ + 1]
  ELSE [q EXCEPT !.pc = "over", !.kind = kind]

\* A publish starts: native routes and libmoq's plan forget an earlier
\* disconnect(), libmoq's live routes do not look at it.
Enter ==
  /\ At("attempt")
  /\ shared' = IF scenario.route = "libmoqLive" THEN shared
               ELSE [shared EXCEPT !.stop = FALSE]
  /\ pub' = [Go(pub, IF Libmoq THEN "register" ELSE "create") EXCEPT !.migrations = 0]
  /\ work' = [NoWork EXCEPT !.bytes = resume.bytes, !.floor = resume.floor,
                         !.catalog = resume.catalog]
  /\ hist' = [hist EXCEPT !.objects = 0]
  /\ UNCHANGED <<scenario, ses, run, resume, src, disc>>

-----------------------------------------------------------------------------
(* The libmoq routes. *)

\* The handle disconnect() cancels. Only a plan looks back at stop_requested_.
Register ==
  /\ At("register")
  /\ shared' = [shared EXCEPT !.handle =
                  IF scenario.route = "libmoqPlan" /\ shared.stop THEN "cancelled" ELSE "set"]
  /\ pub' = Go(pub, "libmoq")
  /\ UNCHANGED <<scenario, ses, run, work, resume, src, disc, hist>>

\* publish_*_via_libmoq() (external) returns on its own or cancelled.
LibmoqReturns ==
  /\ At("libmoq")
  /\ \E kind \in {"ok", "fatal"} : pub' = Returned(pub, kind)
  /\ shared' = [shared EXCEPT !.handle = "none"]
  /\ UNCHANGED <<scenario, ses, run, work, resume, src, disc, hist>>

-----------------------------------------------------------------------------
(* A native session, up to its publish. *)

\* set_active_session() refuses a session once disconnect() was called.
SessionMade ==
  /\ At("create")
  /\ IF shared.stop
     THEN pub' = Returned(pub, "ok") /\ UNCHANGED <<ses, shared, run>>
     ELSE /\ ses' = Append(ses, [connecting |-> TRUE, up |-> FALSE, close |-> "no"])
          /\ shared' = [shared EXCEPT !.active = Current + 1, !.objects = 0]
          /\ run' = NoSession
          /\ pub' = Go(pub, "connect")
  /\ UNCHANGED <<scenario, work, resume, src, disc, hist>>

Connects ==
  /\ At("connect")
  /\ \E up \in BOOLEAN : ses' = [ses EXCEPT ![Current].up = up]
  /\ pub' = Go(pub, "connected")
  /\ UNCHANGED <<scenario, shared, run, work, resume, src, disc, hist>>

\* clear_active_session()
Cleared == IF shared.active = Current THEN [shared EXCEPT !.active = 0] ELSE shared

\* Close, if there is something to close, and go on.
Closing(q, then) == [q EXCEPT !.pc = IF ses[Current].up THEN "close" ELSE then, !.then = then]

\* Mutant: a session connected after disconnect() is used.
ConnectFinishesMutant ==
  /\ At("connected")
  /\ ses' = [ses EXCEPT ![Current].connecting = FALSE]
  /\ IF ~ses[Current].up
     THEN pub' = Returned(pub, "retryable") /\ shared' = Cleared
     ELSE pub' = Go(pub, "run") /\ UNCHANGED shared
  /\ UNCHANGED <<scenario, run, work, resume, src, disc, hist>>

\* finish_connect()
ConnectFinishes ==
  /\ At("connected")
  /\ ses' = [ses EXCEPT ![Current].connecting = FALSE]
  /\ CASE shared.stop -> pub' = Closing(pub, "stopped") /\ UNCHANGED shared
       [] ~shared.stop /\ ~ses[Current].up ->
            pub' = Returned(pub, "retryable") /\ shared' = Cleared
       [] OTHER -> pub' = Go(pub, "run") /\ UNCHANGED shared
  /\ UNCHANGED <<scenario, run, work, resume, src, disc, hist>>

-----------------------------------------------------------------------------
(* MoqtSession::publish_live on stdin. *)

Floor(own) == Max({InitialGroupId, own})

\* apply_live_group_floors()
Floors ==
  /\ At("run") /\ Fragments /\ run.phase = "floors"
  /\ IF Max({Floor(work.floor), Floor(work.catalog)}) > MaxGroupId
     THEN run' = [run EXCEPT !.phase = "refused"]
     ELSE run' = [run EXCEPT !.phase = "setup", !.floor = Floor(work.floor),
                         !.group = Floor(work.floor) - 1, !.next = Floor(work.catalog)]
  /\ UNCHANGED <<scenario, pub, shared, ses, work, resume, src, disc, hist>>

\* The init segment, and the look-ahead for frame rates: what it takes from
\* the input is not in live_resume_bytes_.
ReadInit ==
  /\ At("run") /\ run.phase = "setup"
  /\ \E ahead \in 0..Min({1, scenario.input - src.at}) :
       /\ run' = [run EXCEPT !.phase = "read", !.saved = Rest(work.bytes),
                         !.pending = Rest(work.bytes) \o [i \in 1..ahead |-> src.at + i]]
       /\ src' = [src EXCEPT !.at = @ + ahead]
  /\ UNCHANGED <<scenario, pub, shared, ses, work, resume, disc, hist>>

\* The namespace is accepted and the input thread starts; from here
\* join_stdin() saves all that was read and not sent.
StartInput ==
  /\ At("run") /\ run.phase = "read"
  /\ run' = [run EXCEPT !.phase = "live", !.saved = run.pending]
  /\ UNCHANGED <<scenario, pub, shared, ses, work, resume, src, disc, hist>>

\* A catalog in a group of its own.
SendCatalog ==
  /\ At("run") /\ run.phase = "live" /\ run.next <= MaxGroupId
  /\ run' = [run EXCEPT !.next = @ + 1, !.objects = @ + 1]
  /\ hist' = [hist EXCEPT !.catalogs = Append(@, <<Current, run.next>>), !.objects = @ + 1]
  /\ UNCHANGED <<scenario, pub, shared, ses, work, resume, src, disc>>

Live == At("run") /\ run.phase = "live"
Queued(list) == [run EXCEPT !.pending = list, !.saved = list]

\* The input thread reads the next fragment.
ReadFragment ==
  /\ Live /\ src.at < scenario.input
  /\ src' = [src EXCEPT !.at = @ + 1]
  /\ run' = Queued(Append(run.pending, src.at + 1))
  /\ UNCHANGED <<scenario, pub, shared, ses, work, resume, disc, hist>>

\* A fragment the session does not serve: it cannot be parsed, comes before its
\* track's first keyframe, is trimmed from the queue or nobody asks for it.
SkipFragment ==
  /\ Live
  /\ \E k \in DOMAIN run.pending :
       /\ run' = Queued(RemoveAt(run.pending, k))
       /\ hist' = [hist EXCEPT !.skipped = @ \cup {run.pending[k]}]
  /\ UNCHANGED <<scenario, pub, shared, ses, work, resume, src, disc>>

\* drain_queue() takes a fragment. From here join_stdin() does not save it.
TakeFragment ==
  /\ Live /\ run.hand = 0 /\ run.pending # <<>>
  /\ run' = [Queued(Tail(run.pending)) EXCEPT !.hand = Head(run.pending)]
  /\ UNCHANGED <<scenario, pub, shared, ses, work, resume, src, disc, hist>>

\* It is written, in the running group or the next one.
SendFragment ==
  /\ Live /\ run.hand # 0
  /\ \E g \in {run.group, run.group + 1} :
       /\ g >= run.floor /\ g <= MaxGroupId
       /\ run' = [run EXCEPT !.group = g, !.objects = @ + 1, !.hand = 0]
       /\ hist' = [hist EXCEPT !.media = Append(@, <<Current, g, run.hand>>), !.objects = @ + 1]
  /\ UNCHANGED <<scenario, pub, shared, ses, work, resume, src, disc>>

\* Mutant: the floor is the largest group sent.
MediaFloorMutant == run.group

\* live_resume_group_floor()
MediaFloor == run.group + 1

\* live_resume_group_floor() or its counterpart for the catalog has no value.
Exhausted == run.group >= MaxGroupId \/ run.next > MaxGroupId

-----------------------------------------------------------------------------
(* publish_live_objects of a source with its own catalog. *)

\* The chain of object i: a base and the deltas of its group, within the
\* limits on objects and, fits, on bytes.
Chained(c, i, fits) ==
  LET kind == src'.objects[i]
      chain == IF kind = "base" THEN <<>> ELSE c.chain
      whole == kind = "base" \/ (kind = "delta" /\ c.chain # <<>> /\ c.whole)
  IN  IF whole /\ Len(chain) < MaxReplay /\ fits
      THEN [c EXCEPT !.seen = TRUE, !.whole = TRUE, !.chain = Append(chain, i)]
      ELSE [c EXCEPT !.seen = TRUE, !.whole = FALSE, !.chain = <<>>]

Replays == work.replay > 0 /\ work.replay <= Len(work.chain)

\* resumable_source.next_object() while it replays the catalog, ...
ReplayCatalog ==
  /\ At("run") /\ Objects /\ Replays
  /\ run' = [run EXCEPT !.handed = Append(@, work.chain[work.replay]), !.objects = @ + 1]
  /\ work' = [work EXCEPT !.replay = @ + 1]
  /\ hist' = [hist EXCEPT !.objects = @ + 1]
  /\ UNCHANGED <<scenario, pub, shared, ses, resume, src, disc>>

\* ... and from the source. Before draft 22 the source is passed as it is.
NextObject ==
  /\ At("run") /\ Objects /\ ~Replays /\ Len(src.objects) < scenario.input
  /\ \E kind \in {"base", "delta", "stray", "media"}, fits \in BOOLEAN :
       LET i == Len(src.objects) + 1
       IN  /\ kind = "delta" => \E j \in DOMAIN src.objects : src.objects[j] # "media"
           /\ kind = "media" \/ ~scenario.draft22 => fits
           /\ src' = [src EXCEPT !.objects = Append(@, kind)]
           /\ run' = [run EXCEPT !.handed = IF kind = "media" THEN @ ELSE Append(@, i),
                             !.media = @ \/ kind = "media", !.objects = @ + 1]
           /\ work' = IF scenario.draft22 /\ kind # "media"
                   THEN [Chained(work, i, fits) EXCEPT !.replay = 0]
                   ELSE [work EXCEPT !.replay = 0]
  /\ hist' = [hist EXCEPT !.objects = @ + 1]
  /\ UNCHANGED <<scenario, pub, shared, ses, resume, disc>>

-----------------------------------------------------------------------------
(* The end of a session, of which nothing is kept but what is saved here. *)

Closed == ses[Current].close # "no"

\* The input ended; what is running, and so stats(), stays until disconnect().
SessionReturns ==
  /\ At("run")
  /\ Fragments => Live /\ run.pending = <<>> /\ run.hand = 0 /\ src.at = scenario.input
  /\ shared' = [shared EXCEPT !.objects = work.prior + run.objects]
  /\ resume' = NoResume
  /\ pub' = Returned(pub, "ok")
  /\ run' = NoSession /\ work' = NoWork
  /\ UNCHANGED <<scenario, ses, src, disc, hist>>

\* A publish stopped by disconnect() or close() may also return success.
SessionStops ==
  /\ At("run") /\ Closed /\ run.hand = 0
  /\ shared' = [shared EXCEPT !.objects = work.prior + run.objects]
  /\ resume' = NoResume
  /\ pub' = Returned(pub, "ok")
  /\ run' = NoSession /\ work' = NoWork
  /\ UNCHANGED <<scenario, ses, src, disc, hist>>

\* What no retry gets: what the look-ahead read, and the fragment that was taken
\* when its write failed.
Lookahead == IF run.phase = "read" THEN ToSet(run.pending) \ ToSet(run.saved) ELSE {}
InHand == {run.hand} \ {0}

\* On stdin, what *resume keeps for the retry: the unsent media, if any was
\* read, and floors that never go back.
Saved(kind) ==
  IF ~Fragments \/ kind \notin {"retryable", "permanent"}
  THEN [resume |-> resume, kind |-> kind]
  ELSE LET bytes == IF run.saved = NoBytes THEN resume.bytes ELSE run.saved
       IN  IF Exhausted
           THEN [resume |-> [resume EXCEPT !.bytes = bytes], kind |-> "fatal"]
           ELSE [resume |-> [bytes |-> bytes,
                             floor |-> Max({resume.floor, MediaFloor}),
                             catalog |-> Max({resume.catalog, run.next})],
                 kind |-> kind]

\* publish_failure_kind(): a transport that is down makes any failure retryable.
FailureKind(status, down) ==
  IF status = "fatal" /\ (down \/ Closed) THEN "retryable" ELSE status

\* The session fails; after disconnect() that is a success.
SessionFails ==
  /\ At("run")
  /\ IF shared.stop
     THEN pub' = Closing(pub, "stopped") /\ UNCHANGED <<resume, hist>>
     ELSE \E status \in {"fatal", "retryable", "permanent"}, down \in BOOLEAN :
            LET saved == Saved(FailureKind(status, down))
            IN  /\ run.phase = "refused" => status = "fatal"
                /\ pub' = [Closing(pub, "failed") EXCEPT !.kind = saved.kind]
                /\ resume' = saved.resume
                /\ hist' = [hist EXCEPT !.lost = @ \cup Lookahead,
                                        !.failed = @ \cup InHand]
  /\ run' = NoSession /\ work' = NoWork
  /\ UNCHANGED <<scenario, shared, ses, src, disc>>

\* GOAWAY: read once the session runs, between two drains of the queue. Its new
\* session starts where it stopped.
Goaway ==
  /\ At("run") /\ scenario.draft22 /\ ~shared.stop
  /\ Fragments => Live /\ run.hand = 0
  /\ IF Fragments /\ Exhausted
     THEN /\ pub' = [Closing(pub, "failed") EXCEPT !.kind = "fatal"]
          /\ UNCHANGED <<work, resume>>
     ELSE /\ pub' = Closing(pub, "migrate")
          /\ work' = [work EXCEPT !.prior = @ + run.objects,
                            !.bytes = IF Fragments THEN run.saved ELSE @,
                            !.floor = IF Fragments THEN MediaFloor ELSE @,
                            !.catalog = IF Fragments THEN run.next ELSE @]
          /\ resume' = IF Fragments
                       THEN [bytes |-> run.saved, floor |-> MediaFloor, catalog |-> run.next]
                       ELSE resume
  /\ run' = NoSession
  /\ UNCHANGED <<scenario, shared, ses, src, disc, hist>>

\* prepare_migration(): its limit, and a URI that migration_endpoint() refuses.
Unprepared(uri) == pub.migrations = MaxMigrations \/ uri = "bad"

\* The source's catalog has a part that was not kept.
Unreplayable == Objects /\ work.seen /\ ~work.whole

Migrate ==
  /\ At("migrate")
  /\ shared' = Cleared
  /\ \E uri \in {"good", "bad"} :
       IF Unprepared(uri) \/ Unreplayable
       THEN pub' = Returned(pub, "fatal") /\ UNCHANGED work
       ELSE /\ pub' = [Go(pub, "create") EXCEPT !.migrations = @ + 1]
            /\ work' = IF work.chain # <<>> THEN [work EXCEPT !.replay = 1] ELSE work
  /\ UNCHANGED <<scenario, ses, run, resume, src, disc, hist>>

Failed ==
  /\ At("failed")
  /\ shared' = Cleared
  /\ pub' = Returned(pub, pub.kind)
  /\ UNCHANGED <<scenario, ses, run, work, resume, src, disc, hist>>

\* finish_stopped_publish()
Stopped ==
  /\ At("stopped")
  /\ shared' = Cleared
  /\ pub' = Returned(pub, "ok")
  /\ UNCHANGED <<scenario, ses, run, work, resume, src, disc, hist>>

-----------------------------------------------------------------------------
(* ActiveSession::close() and disconnect(). *)

\* std::call_once: one thread closes, another waits for it.
CloseBegins(n, who) ==
  /\ ses[n].close = "no"
  /\ ses' = [ses EXCEPT ![n].close = who]

CloseEnds(n, who) ==
  /\ ses[n].close = who
  /\ ses' = [ses EXCEPT ![n].close = "closed"]

PublisherCloses ==
  /\ At("close")
  /\ \/ CloseBegins(Current, "publisher") /\ UNCHANGED pub
     \/ CloseEnds(Current, "publisher") /\ UNCHANGED pub
     \/ ses[Current].close = "closed" /\ pub' = Go(pub, pub.then) /\ UNCHANGED ses
  /\ UNCHANGED <<scenario, shared, run, work, resume, src, disc, hist>>

\* disconnect() leaves a session that connects to the publishing thread.
DisconnectCalled ==
  /\ disc.pc = "idle" /\ disc.calls < MaxDisconnects
  /\ LET n == shared.active
     IN  disc' = [pc |-> IF n # 0 /\ ~ses[n].connecting THEN "close" ELSE "idle",
               session |-> n, calls |-> disc.calls + 1]
  /\ shared' = [shared EXCEPT !.stop = TRUE,
                              !.handle = IF @ = "set" THEN "cancelled" ELSE @]
  /\ UNCHANGED <<scenario, pub, ses, run, work, resume, src, hist>>

DisconnectCloses ==
  /\ disc.pc = "close"
  /\ CloseBegins(disc.session, "disconnect") \/ CloseEnds(disc.session, "disconnect")
  /\ UNCHANGED <<scenario, pub, shared, run, work, resume, src, disc, hist>>

DisconnectEnds ==
  /\ disc.pc = "close" /\ ses[disc.session].close = "closed"
  /\ disc' = [disc EXCEPT !.pc = "idle"]
  /\ shared' = IF shared.active = disc.session THEN [shared EXCEPT !.active = 0] ELSE shared
  /\ UNCHANGED <<scenario, pub, ses, run, work, resume, src, hist>>

-----------------------------------------------------------------------------
Lifecycle ==
  \/ Enter \/ Register \/ SessionMade \/ Connects \/ ConnectFinishes
  \/ PublisherCloses \/ Migrate \/ Failed \/ Stopped

Session ==
  \/ Floors \/ ReadInit \/ StartInput \/ SendCatalog
  \/ ReadFragment \/ SkipFragment \/ TakeFragment \/ SendFragment
  \/ ReplayCatalog \/ NextObject
  \/ SessionReturns \/ SessionStops \/ SessionFails \/ Goaway \/ LibmoqReturns

Disconnecting == DisconnectCalled \/ DisconnectCloses \/ DisconnectEnds

LifecycleNext == Lifecycle \/ Session \/ Disconnecting

\* Both threads run; a session or a libmoq publish may last for ever until it
\* is closed or cancelled.
LifecycleFairness ==
  /\ WF_lifecycleVars(Lifecycle)
  /\ WF_lifecycleVars(DisconnectCloses \/ DisconnectEnds)
  /\ WF_lifecycleVars(pub.pc = "run" /\ Closed /\ SessionFails)
  /\ WF_lifecycleVars(shared.handle = "cancelled" /\ LibmoqReturns)

LifecycleSpec == LifecycleInit /\ [][LifecycleNext]_lifecycleVars /\ LifecycleFairness

-----------------------------------------------------------------------------
(* Properties *)

\* The transport, whose close() frees the QUIC context, is never closed under
\* a connect(): the session that connects has not begun to close.
ConnectIsSafe == At("connect") => ses[Current].close = "no"

\* Media and catalog groups of a later session, of a migration or of a retry,
\* are above all those sent before.
GroupsNeverReused ==
  LET apart(sent) == \A i, j \in DOMAIN sent :
                       sent[i][1] < sent[j][1] => sent[i][2] < sent[j][2]
  IN  apart(hist.media) /\ apart(hist.catalogs)

\* However sessions fail, migrate and are tried again, no fragment of the input
\* is sent twice or out of order. One that is passed over was not served by the
\* session that had it (skipped), or was lost where a session failed: the
\* fragment in hand when its write failed (failed), or what was read between
\* the look-ahead and the input thread (lost). A migration loses nothing.
InputOnce ==
  LET sent == [i \in DOMAIN hist.media |-> hist.media[i][3]]
  IN  \A i \in DOMAIN sent :
        /\ i > 1 => sent[i - 1] < sent[i]
        /\ 1..sent[i] \subseteq ToSet(sent) \cup hist.skipped \cup hist.failed \cup hist.lost

\* The same without the last exception. moqt_session.cpp:9737 says "A failure before
\* the stdin thread starts must still hand a retry the media that followed the
\* init segment, which the reader holds unparsed"; the look-ahead for frame
\* rates takes media out of the reader that no retry gets.
InputWhole ==
  LET sent == [i \in DOMAIN hist.media |-> hist.media[i][3]]
  IN  \A i \in DOMAIN sent : 1..sent[i] \subseteq ToSet(sent) \cup hist.skipped \cup hist.failed

\* What a session is handed of the source's catalog is a run of it that ends
\* with the newest one and, after a migration, begins with a base.
CatalogRebuilt ==
  LET handed == run.handed
      given == {i \in DOMAIN src.objects : src.objects[i] # "media"}
  IN  Objects /\ scenario.draft22 /\ pub.attempt = 1 /\ ~Replays /\ given # {} =>
        /\ run.media => handed # <<>>
        /\ handed # <<>> =>
             /\ ToSet(handed) = {i \in given : i >= handed[1]}
             /\ \A i \in 2..Len(handed) : handed[i - 1] < handed[i]
             /\ handed[1] = Min(given) \/ src.objects[handed[1]] = "base"

\* A session that takes over, after a GOAWAY or in a retry, continues the
\* groups, the input and the catalog where the one before it stopped.
ResumeSound == GroupsNeverReused /\ InputOnce /\ CatalogRebuilt

\* When the publish has returned and disconnect() too, nothing stays
\* connected, whatever disconnect() met: a connect, a migration or the end.
NothingStaysUp ==
  At("over") /\ disc.pc = "idle" /\ shared.stop =>
    /\ shared.active = 0
    /\ \A n \in DOMAIN ses : ses[n].up => ses[n].close = "closed"

\* The statistics of a publish that succeeded count what all its sessions sent.
StatsExact ==
  At("over") /\ pub.kind = "ok" /\ disc.calls = 0 /\ ~Libmoq => shared.objects = hist.objects

\* Sessions are connected, closed and counted once, however disconnect() and the
\* publishing thread interleave.
LifecycleSound == ConnectIsSafe /\ NothingStaysUp /\ StatsExact

\* disconnect() ends the publish, unless a later attempt forgets it. (The
\* live routes of libmoq also miss one made before their handle is set.)
DisconnectEndsPublish ==
  (shared.stop /\ scenario.route # "libmoqLive") ~> (At("over") \/ ~shared.stop)
=============================================================================
