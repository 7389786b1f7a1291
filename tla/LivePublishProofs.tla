-------------------------- MODULE LivePublishProofs --------------------------
(* Proofs about the parts of live publishing that decide what a subscriber
   is told about a broadcast.

   LiveSrtPublish, for any tracks, fragments and limits of the queue:
   whatever order the worker, the joiner, the loop and close() run in, a
   publish that reports success ended for the reason it reports and left no
   admitted fragment in the queue.

   CatalogPublisher, for any set of catalogs, any number of operations and
   any limits: wherever a subscriber joins, the deltas lead it to the
   publisher's catalog; groups are well formed; and the catalog that ends
   the broadcast is the last.

   LiveObjects, for any scenarios and any number of requests: no subscriber
   of the catalog is forgotten, whatever it asks while a group is written,
   catalogs go out at rising locations, and the flush ends every request
   that is open, once, in the order of MSF.  The proofs are about records
   of the loop's state, before and after what a handler does to them. *)
EXTENDS LiveSrtPublish, CatalogPublisher, LiveObjects, DataTheorems

-----------------------------------------------------------------------------
(* LiveSrtPublish.
   --------------------- the parts of the invariant ---------------------- *)

\* The flag is set by close(), by admit after the limit was exceeded, or by
\* the loop that is over; a worker about to set it has exceeded the limit.
FlagHasReason ==
    /\ stopRequested => closeCalled \/ exceeded \/ pc \in {"join", "returned"}
    /\ worker = "storing" => exceeded
    /\ pc = "limit" => closeCalled \/ exceeded
    /\ closed => closeCalled

\* The end of the input is marked once, by the joiner, after the worker ended:
\* from then on nothing is pushed.
EofIsLast ==
    /\ eof <=> joiner = "done"
    /\ eof => worker = "ended"

\* An iteration that saw the end of the input has an empty queue.
EofSeen == isEof => eof /\ entries = <<>>

\* The loop is left with an error, by close(), at the end of the control
\* stream or at the end of the input.
LeftForAReason ==
    /\ status # "ok" => pc \in {"exit", "join", "returned"}
    /\ pc \in {"exit", "join", "returned"} /\ status = "ok" /\ ~closed
         => isEof \/ controlFin

\* The loop's status is its own, never an outcome.
StatusKnown == status \in {"ok", "failed", "resource"}

\* A publish that returned as done saw the final state of the queue.
DoneIsFinal ==
    /\ outcome # "running" => pc = "returned"
    /\ outcome = "done" =>
         status = "ok" /\ ~closed /\ ~exceeded /\ joiner = "done"

\* The inductive invariant.
Ends ==
    /\ FlagHasReason /\ EofIsLast /\ EofSeen /\ LeftForAReason /\ StatusKnown
    /\ DoneIsFinal

(* ---- proof ---- *)

\* push() neither marks the end of the input nor takes the limit back.
LEMMA PushKeeps ==
    ASSUME NEW f, Queue!Push(f)
    PROVE  eof' = eof /\ (exceeded => exceeded')
  BY DEF Queue!Push, Queue!PushExceeded, Queue!PushShed, Queue!PushAccepted, Queue!PushRecovers,
     Queue!PushFails, Queue!queueVars

\* A new publish has done nothing yet.
LEMMA InitEnds == Init => Ends
  BY DEF Init, Queue!QueueInit, Ends, FlagHasReason, EofIsLast, EofSeen, LeftForAReason, StatusKnown,
     DoneIsFinal

\* Every step of every thread keeps the invariant.
LEMMA NextEnds == Ends /\ [Next]_vars => Ends'
<1> SUFFICES ASSUME Ends, [Next]_vars PROVE Ends' OBVIOUS
<1> USE DEF Ends, FlagHasReason, EofIsLast, EofSeen, LeftForAReason,
            StatusKnown, DoneIsFinal
<1>1. CASE WorkerCheck BY <1>1 DEF WorkerCheck, queueVars, loopVars, closeVars
<1>2. CASE ConnectionLost BY <1>2 DEF ConnectionLost, queueVars, loopVars, closeVars
<1>3. CASE WorkerAdmit
  <2>1. eof' = eof /\ (exceeded => exceeded') BY <1>3, PushKeeps DEF WorkerAdmit
  <2>2. worker = "feeding" /\ worker' = IF exceeded' THEN "storing" ELSE "feeding" BY <1>3 DEF WorkerAdmit
  <2>3. UNCHANGED <<loopVars, closeVars, joiner, stopRequested>> BY <1>3 DEF WorkerAdmit
  <2>4. ~eof /\ joiner # "done" BY <2>2
  <2> QED BY <2>1, <2>2, <2>3, <2>4 DEF loopVars, closeVars
<1>4. CASE WorkerStoresStop BY <1>4 DEF WorkerStoresStop, queueVars, loopVars, closeVars
<1>5. CASE WorkerFed BY <1>5 DEF WorkerFed, queueVars, loopVars, closeVars
<1>6. CASE JoinerMarksEof BY <1>6 DEF JoinerMarksEof, InputEnds, Queue!MarkEof, loopVars, closeVars
<1>7. CASE Close BY <1>7 DEF Close, queueVars, loopVars, ingestVars
<1>8. CASE CloseTransport BY <1>8 DEF CloseTransport, queueVars, loopVars, ingestVars
<1>9. CASE LoopTop BY <1>9 DEF LoopTop, CloseTest, queueVars, ingestVars, closeVars
<1>10. CASE LoopLimit
  <2>0. /\ pc = "limit" /\ status = "ok" /\ outcome = "running"
        /\ UNCHANGED <<exceeded, entries, eof, worker, joiner, stopRequested, closeCalled, isEof, status,
             outcome, controlFin>>
    BY <1>10 DEF LoopLimit, queueVars, ingestVars, closeVars
  <2>c. closed' = ~exceeded /\ pc' = IF ~exceeded THEN "exit" ELSE "eof"
    <3>1. CloseTest(2) = ~exceeded BY DEF CloseTest
    <3> QED BY <1>10, <3>1, Zenon DEF LoopLimit
  <2>1. CASE exceeded
    <3>1. ~closed' /\ pc' = "eof" BY <2>1, <2>c, Zenon
    <3> QED BY <2>0, <2>1, <3>1
  <2>2. CASE ~exceeded
    <3>1. closed' /\ pc' = "exit" BY <2>2, <2>c, Zenon
    <3> QED BY <2>0, <2>2, <3>1
  <2> QED BY <2>1, <2>2
<1>11. CASE LoopReadsEof BY <1>11 DEF LoopReadsEof, Queue!Done, queueVars, ingestVars, closeVars
<1>12. CASE DrainChecks BY <1>12 DEF DrainChecks, LeaveLoop, queueVars, ingestVars, closeVars
<1>13. CASE DrainPops BY <1>13 DEF DrainPops, Queue!TryPop, ingestVars, closeVars
<1>14. CASE DrainEmpty BY <1>14 DEF DrainEmpty, queueVars, ingestVars, closeVars
<1>15. CASE FragmentSkipped BY <1>15 DEF FragmentSkipped, queueVars, ingestVars, closeVars
<1>16. CASE ServeEnds BY <1>16 DEF ServeEnds, LeaveLoop, queueVars, ingestVars, closeVars
<1>17. CASE ServeBlocked BY <1>17 DEF ServeBlocked, queueVars, ingestVars, closeVars
<1>18. CASE ServeFails BY <1>18 DEF ServeFails, LeaveLoop, queueVars, ingestVars, closeVars
<1>19. CASE BlockedServeEnds BY <1>19 DEF BlockedServeEnds, LeaveLoop, queueVars, ingestVars, closeVars
<1>20. CASE LoopControl BY <1>20 DEF LoopControl, LeaveLoop, queueVars, ingestVars, closeVars
<1>21. CASE LoopExit BY <1>21 DEF LoopExit, queueVars, ingestVars, closeVars
<1>22. CASE LoopReturns
  <2>0. /\ pc = "join" /\ pc' = "returned" /\ joiner = "done"
        /\ UNCHANGED <<exceeded, entries, eof, worker, joiner, stopRequested, closeCalled, isEof, status,
             closed, controlFin>>
    BY <1>22 DEF LoopReturns, queueVars, ingestVars, closeVars
  <2>1. outcome' = "done" => ~closed /\ FinalStatus = "ok"
    <3>1. CASE closed BY <1>22, <3>1 DEF LoopReturns
    <3>2. CASE ~closed /\ FinalStatus = "ok" BY <3>2
    <3>3. CASE ~closed /\ FinalStatus # "ok"
      <4>1. FinalStatus # "done" BY DEF FinalStatus, StatusKnown
      <4> QED BY <1>22, <3>3, <4>1 DEF LoopReturns
    <3> QED BY <3>1, <3>2, <3>3
  <2>2. outcome' = "done" => status = "ok" /\ ~exceeded BY <2>1 DEF FinalStatus
  <2> QED BY <2>0, <2>1, <2>2
<1>23. CASE UNCHANGED vars BY <1>23 DEF vars, queueVars, loopVars, ingestVars, closeVars
<1> QED BY <1>1, <1>2, <1>3, <1>4, <1>5, <1>6, <1>7, <1>8, <1>9, <1>10, <1>11,
     <1>12, <1>13, <1>14, <1>15, <1>16, <1>17, <1>18, <1>19, <1>20, <1>21,
     <1>22, <1>23
  DEF Next, Ingest, LoopStep, Terminated

\* publish_live for SRT reports "closed" only if close() ran, "done" only if
\* nothing was lost to the queue's limit and every admitted fragment was taken,
\* for any interleaving of the worker, the joiner, the loop and close().
THEOREM PublishEndsForItsReason == Spec => []SrtEndsSound
<1>1. Ends => SrtEndsSound
  BY DEF Ends, FlagHasReason, EofIsLast, EofSeen, LeftForAReason, StatusKnown, DoneIsFinal, SrtEndsSound,
     EndsForItsReason, EofDrainsQueue
<1>2. Ends /\ [Next]_vars => Ends' BY NextEnds
<1> QED BY InitEnds, <1>1, <1>2, PTL DEF Spec

-----------------------------------------------------------------------------
(* CatalogPublisher.
   --------------------- the parts of the invariant ---------------------- *)

\* q is a sequence, whatever its elements are.
IsSequence(q) == Len(q) \in Nat /\ q = [i \in 1..Len(q) |-> q[i]]

\* initial_group_id_, next_group_id_, next_object_id_ and deltas_in_group_.
Counters == [initial : Nat, group : Nat, object : Nat, deltas : Nat]

\* The publisher's counters, and what it remembers of the last catalog.
CatalogTypes ==
  /\ IsSequence(out) /\ ended \in BOOLEAN
  /\ next \in Counters
  /\ last = <<>> <=> out = <<>>
  /\ last # <<>> => last = <<last[1]>> /\ IsCatalog(last[1])

\* The counters continue the last object that was emitted.
CountersContinue ==
  out # <<>> =>
    LET o == out[Len(out)]
    IN  /\ o.object \in Nat /\ o.group \in Nat
        /\ next.group = o.group + 1
        /\ next.object = o.object + 1 /\ next.deltas = o.object

\* The catalog of a broadcast that goes on.
Running(c) == c.live = TRUE /\ c.complete = FALSE

\* Until the end of the broadcast no catalog says that it is over.
LiveUntilEnd ==
  ~ended => /\ \A i \in DOMAIN out : out[i].catalog.live /\ ~out[i].catalog.complete
            /\ last # <<>> => Running(last[1])

\* The inductive invariant.
Consistent ==
  /\ CatalogTypes /\ CountersContinue /\ LiveUntilEnd
  /\ SubscribersAgree /\ GroupsWellFormed /\ EndIsFinal

(* ---- lemmas ---- *)

\* Appending to a sequence of any elements.
LEMMA AppendAny ==
  ASSUME NEW q, IsSequence(q), NEW o
  PROVE  /\ IsSequence(Append(q, o)) /\ Append(q, o) # <<>>
         /\ Len(Append(q, o)) = Len(q) + 1 /\ Append(q, o)[Len(q) + 1] = o
         /\ DOMAIN q = 1..Len(q) /\ DOMAIN Append(q, o) = 1..(Len(q) + 1)
         /\ \A i \in 1..Len(q) : Append(q, o)[i] = q[i]
<1> DEFINE S == {q[i] : i \in 1..Len(q)} \cup {o}
<1>1. q \in Seq(S) BY IsASeq DEF IsSequence
<1>2. o \in S OBVIOUS
<1> HIDE DEF S
<1>3. Append(q, o) \in Seq(S) /\ Append(q, o) # <<>> /\ Len(Append(q, o)) = Len(q) + 1
  BY <1>1, <1>2, AppendProperties
<1>4. Append(q, o)[Len(q) + 1] = o /\ \A i \in 1..Len(q) : Append(q, o)[i] = q[i]
  BY <1>1, <1>2, AppendProperties
<1>5. Len(q) \in Nat /\ DOMAIN q = 1..Len(q) BY <1>1, LenProperties
<1>6. /\ Len(Append(q, o)) \in Nat /\ DOMAIN Append(q, o) = 1..Len(Append(q, o))
      /\ Append(q, o) = [i \in 1..Len(Append(q, o)) |-> Append(q, o)[i]]
  BY <1>3, LenProperties
<1>7. IsSequence(Append(q, o)) BY <1>6 DEF IsSequence
<1> QED BY <1>3, <1>4, <1>5, <1>6, <1>7

\* A delta of whole tracks leads from one catalog to the next.
LEMMA DeltaLeads ==
  ASSUME NEW old, NEW new, IsCatalog(old), IsCatalog(new),
         \A t \in DOMAIN old.tracks \cap DOMAIN new.tracks : old.tracks[t] = new.tracks[t],
         old.root = new.root, old.protections = new.protections,
         old.live = new.live, old.complete = new.complete,
         NEW o, o.removed = Removed(old, new),
         o.catalog.tracks = [t \in Added(old, new) |-> new.tracks[t]]
  PROVE  Applied(old, o) = new
<1> DEFINE f == [t \in (DOMAIN old.tracks \ o.removed) \cup DOMAIN o.catalog.tracks |->
                   IF t \in DOMAIN o.catalog.tracks THEN o.catalog.tracks[t]
                   ELSE old.tracks[t]]
<1>1. DOMAIN o.catalog.tracks = Added(old, new) OBVIOUS
<1>2. DOMAIN f = DOMAIN new.tracks BY <1>1 DEF Added, Removed
<1>3. \A t \in DOMAIN f : f[t] = new.tracks[t] BY <1>1 DEF Added, Removed
<1>4. f = new.tracks
  <2>1. new.tracks = [t \in DOMAIN new.tracks |-> new.tracks[t]] BY DEF IsCatalog
  <2>2. f = [t \in DOMAIN f |-> f[t]] OBVIOUS
  <2> HIDE DEF f
  <2> QED BY <1>2, <1>3, <2>1, <2>2
<1>5. Applied(old, o) = [old EXCEPT !.tracks = f] BY DEF Applied
<1> HIDE DEF f
<1>6. old = [tracks |-> old.tracks, protections |-> old.protections, root |-> old.root,
             complete |-> old.complete, live |-> old.live]
  BY DEF IsCatalog
<1>7. [old EXCEPT !.tracks = f] =
        [tracks |-> f, protections |-> old.protections, root |-> old.root,
         complete |-> old.complete, live |-> old.live]
  BY <1>6
<1>8. new = [tracks |-> new.tracks, protections |-> new.protections, root |-> new.root,
             complete |-> new.complete, live |-> new.live]
  BY DEF IsCatalog
<1> QED BY <1>4, <1>5, <1>7, <1>8

\* The catalogs made here are catalogs.
LEMMA FinalIsCatalog ==
  /\ IsCatalog(EmptyCatalog)
  /\ \A base, mode : IsCatalog(base) => IsCatalog(FinalCatalog(base, mode))
<1>1. IsCatalog(EmptyCatalog) BY DEF IsCatalog, EmptyCatalog
<1>2. ASSUME NEW base, NEW mode, IsCatalog(base) PROVE IsCatalog(FinalCatalog(base, mode))
  <2>1. CASE mode = "terminate"
    <3>1. FinalCatalog(base, mode) =
            [tracks |-> <<>>, protections |-> FALSE, root |-> 0,
             complete |-> TRUE, live |-> TRUE]
      BY <2>1 DEF FinalCatalog, EmptyCatalog
    <3> QED BY <3>1 DEF IsCatalog
  <2>2. CASE mode # "terminate"
    <3>0. base = [tracks |-> base.tracks, protections |-> base.protections,
                  root |-> base.root, complete |-> base.complete, live |-> base.live]
          /\ base.tracks = [t \in DOMAIN base.tracks |-> base.tracks[t]]
      BY <1>2 DEF IsCatalog
    <3>1. FinalCatalog(base, mode) =
            [tracks |-> base.tracks, protections |-> FALSE, root |-> base.root,
             complete |-> FALSE, live |-> FALSE]
      BY <2>2, <3>0 DEF FinalCatalog
    <3> QED BY <3>0, <3>1 DEF IsCatalog
  <2> QED BY <2>1, <2>2
<1> QED BY <1>1, <1>2

\* Emitting an object that the counters and the catalogs allow for.
LEMMA EmitKeeps ==
  ASSUME Consistent, ~ended, ended' \in BOOLEAN,
         NEW o, NEW c, Emit(o), last' = <<c>>, IsCatalog(c),
         next' \in Counters,
         o.object \in Nat, o.group \in Nat, next'.group = o.group + 1,
         next'.object = o.object + 1, next'.deltas = o.object,
         o.object <= MaxDeltas, o.full <=> o.object = 0,
         out = <<>> => o.full,
         out # <<>> => IF o.full THEN o.group > out[Len(out)].group
                       ELSE /\ o.group = out[Len(out)].group
                            /\ o.object = out[Len(out)].object + 1,
         \A i \in DOMAIN out : out[i].full => Receives(joined[i], o) = c,
         o.full => o.catalog = c,
         ended' \/ (o.catalog.live /\ ~o.catalog.complete /\ Running(c))
  PROVE  Consistent'
<1>0. IsSequence(out) BY DEF Consistent, CatalogTypes
<1>1. out' = Append(out, o) BY DEF Emit
<1>2. /\ IsSequence(out') /\ out' # <<>>
      /\ Len(out') = Len(out) + 1 /\ out'[Len(out) + 1] = o
      /\ DOMAIN out = 1..Len(out) /\ DOMAIN out' = 1..(Len(out) + 1)
      /\ \A i \in 1..Len(out) : out'[i] = out[i]
  BY <1>0, <1>1, AppendAny
<1>3. Len(out) \in Nat /\ (Len(out) = 0 => out = <<>>) BY <1>0 DEF IsSequence
<1>a. CatalogTypes'
  <2>1. last' # <<>> /\ last'[1] = c OBVIOUS
  <2>2. (last = <<>> <=> out = <<>>)' BY <1>2, <2>1
  <2>3. last' = <<last'[1]>> /\ IsCatalog(last'[1]) BY <2>1
  <2> QED BY <1>2, <2>2, <2>3 DEF CatalogTypes, IsSequence
<1>b. CountersContinue' BY <1>2 DEF CountersContinue
<1>c. LiveUntilEnd'
  <2>1. \A i \in DOMAIN out : out[i].catalog.live /\ ~out[i].catalog.complete
    BY DEF Consistent, LiveUntilEnd
  <2>2. ASSUME ~ended', NEW i \in DOMAIN out'
        PROVE  out'[i].catalog.live /\ ~out'[i].catalog.complete
    <3>1. i = Len(out) + 1 \/ i \in 1..Len(out) BY <1>2, <1>3
    <3> QED BY <1>2, <2>1, <2>2, <3>1
  <2>3. last'[1] = c OBVIOUS
  <2> QED BY <2>2, <2>3 DEF LiveUntilEnd
<1>d. SubscribersAgree'
  <2> SUFFICES ASSUME NEW i \in DOMAIN out', out'[i].full PROVE joined'[i] = c BY DEF SubscribersAgree
  <2>1. joined' = [k \in DOMAIN out \cup {Len(out) + 1} |->
                     Receives(IF k \in DOMAIN out THEN joined[k] ELSE EmptyCatalog, o)]
    BY DEF Emit
  <2>2. CASE i = Len(out) + 1
    <3>1. i \notin DOMAIN out /\ i \in DOMAIN out \cup {Len(out) + 1} BY <1>2, <1>3, <2>2
    <3>2. joined'[i] = Receives(EmptyCatalog, o) BY <2>1, <3>1
    <3> QED BY <1>2, <2>2, <3>2 DEF Receives
  <2>3. CASE i \in 1..Len(out)
    <3>1. joined'[i] = Receives(joined[i], o) BY <1>2, <2>1, <2>3
    <3> QED BY <1>2, <2>3, <3>1
  <2> QED BY <1>2, <1>3, <2>2, <2>3
<1>e. GroupsWellFormed'
  <2> SUFFICES ASSUME NEW i \in 1..(Len(out) + 1)
               PROVE /\ out'[i].full <=> out'[i].object = 0
                     /\ out'[i].object <= MaxDeltas
                     /\ i > 1 => IF out'[i].full THEN out'[i].group > out'[i - 1].group
                                 ELSE /\ out'[i].group = out'[i - 1].group
                                      /\ out'[i].object = out'[i - 1].object + 1
    BY <1>2 DEF GroupsWellFormed
  <2>2. CASE i = Len(out) + 1
    <3>1. out'[i] = o BY <1>2, <2>2
    <3>2. ASSUME i > 1 PROVE out'[i - 1] = out[Len(out)] /\ out # <<>> BY <1>2, <1>3, <2>2, <3>2
    <3>3. i > 1 => IF o.full THEN o.group > out'[i - 1].group
                   ELSE o.group = out'[i - 1].group /\ o.object = out'[i - 1].object + 1
      BY <3>2
    <3> QED BY <3>1, <3>3
  <2>3. CASE i \in 1..Len(out)
    <3>1. out'[i] = out[i] BY <1>2, <2>3
    <3>2. i > 1 => out'[i - 1] = out[i - 1] BY <1>2, <1>3, <2>3
    <3>3. /\ out[i].full <=> out[i].object = 0
          /\ out[i].object <= MaxDeltas
          /\ i > 1 => IF out[i].full THEN out[i].group > out[i - 1].group
                      ELSE /\ out[i].group = out[i - 1].group
                           /\ out[i].object = out[i - 1].object + 1
      BY <1>2, <2>3 DEF Consistent, GroupsWellFormed
    <3> QED BY <3>1, <3>2, <3>3
  <2> QED BY <1>3, <2>2, <2>3
<1>f. EndIsFinal'
  <2> SUFFICES ASSUME NEW i \in DOMAIN out', i # Len(out')
               PROVE  out'[i].catalog.live /\ ~out'[i].catalog.complete
    BY DEF EndIsFinal
  <2>1. i \in 1..Len(out) BY <1>2, <1>3
  <2> QED BY <1>2, <2>1 DEF Consistent, LiveUntilEnd
<1> QED BY <1>a, <1>b, <1>c, <1>d, <1>e, <1>f DEF Consistent

\* An operation that leaves the catalogs and the counters alone.
LEMMA SilentKeeps ==
  ASSUME Consistent, UNCHANGED <<last, next, ended, out, joined>>
  PROVE  Consistent'
  BY DEF Consistent, CatalogTypes, CountersContinue, LiveUntilEnd, SubscribersAgree, GroupsWellFormed,
     EndIsFinal

\* What the counters are after a full catalog, a delta, set_initial_group_id()
\* and reset().
LEMMA CountersMove ==
  ASSUME NEW n \in Counters
  PROVE  /\ n.initial \in Nat /\ n.group \in Nat /\ n.object \in Nat /\ n.deltas \in Nat
         /\ [n EXCEPT !.group = @ + 1, !.object = 1, !.deltas = 0] \in Counters
         /\ [n EXCEPT !.object = @ + 1, !.deltas = @ + 1] \in Counters
         /\ [n EXCEPT !.group = n.initial, !.object = 0, !.deltas = 0] \in Counters
         /\ \A g \in Nat, h \in Nat : [n EXCEPT !.initial = g, !.group = h] \in Counters
<1>1. n.initial \in Nat /\ n.group \in Nat /\ n.object \in Nat /\ n.deltas \in Nat BY DEF Counters
<1>2. \A k \in Counters, v \in Nat :
        /\ [k EXCEPT !.group = v] \in Counters /\ [k EXCEPT !.initial = v] \in Counters
        /\ [k EXCEPT !.object = v] \in Counters /\ [k EXCEPT !.deltas = v] \in Counters
  BY DEF Counters
<1>3. \A k \in Counters, u \in Nat, v \in Nat :
        [k EXCEPT !.object = u, !.deltas = v] \in Counters
  <2> TAKE k \in Counters, u \in Nat, v \in Nat
  <2>1. [k EXCEPT !.object = u] \in Counters BY <1>2
  <2>2. [k EXCEPT !.object = u, !.deltas = v] = [[k EXCEPT !.object = u] EXCEPT !.deltas = v] BY Zenon
  <2> QED BY <1>2, <2>1, <2>2, Zenon
<1>4. \A w \in Nat, u \in Nat, v \in Nat :
        [n EXCEPT !.group = w, !.object = u, !.deltas = v] \in Counters
  <2> TAKE w \in Nat, u \in Nat, v \in Nat
  <2>1. [n EXCEPT !.group = w] \in Counters BY <1>2
  <2>2. [n EXCEPT !.group = w, !.object = u, !.deltas = v] =
          [[n EXCEPT !.group = w] EXCEPT !.object = u, !.deltas = v]
    BY Zenon
  <2> QED BY <1>3, <2>1, <2>2, Zenon
<1>5. \A g \in Nat, h \in Nat : [n EXCEPT !.initial = g, !.group = h] \in Counters
  <2> TAKE g \in Nat, h \in Nat
  <2>1. [n EXCEPT !.initial = g] \in Counters BY <1>2
  <2>2. [n EXCEPT !.initial = g, !.group = h] = [[n EXCEPT !.initial = g] EXCEPT !.group = h] BY Zenon
  <2> QED BY <1>2, <2>1, <2>2, Zenon
<1>6. n.group + 1 \in Nat /\ n.object + 1 \in Nat /\ n.deltas + 1 \in Nat
      /\ 0 \in Nat /\ 1 \in Nat
  BY <1>1
<1>7. [n EXCEPT !.group = @ + 1, !.object = 1, !.deltas = 0] \in Counters BY <1>4, <1>6, Zenon
<1>8. [n EXCEPT !.object = @ + 1, !.deltas = @ + 1] \in Counters BY <1>3, <1>6, Zenon
<1>9. [n EXCEPT !.group = n.initial, !.object = 0, !.deltas = 0] \in Counters BY <1>1, <1>4, <1>6, Zenon
<1> QED BY <1>1, <1>5, <1>7, <1>8, <1>9

\* emit_independent(): a full catalog as the first object of a new group.
LEMMA IndependentKeeps ==
  ASSUME Consistent, ~ended, ended' \in BOOLEAN, NEW c, IsCatalog(c), Independent(c),
         ended' \/ Running(c)
  PROVE  Consistent'
<1>1. CASE Throws("invalid") BY <1>1, SilentKeeps DEF Throws
<1>2. CASE ~Throws("invalid")
  <2> DEFINE o == [group |-> next.group, object |-> 0, full |-> TRUE,
                   catalog |-> c, removed |-> {}]
  <2>0. next' = [next EXCEPT !.group = @ + 1, !.object = 1, !.deltas = 0] BY <1>2 DEF Independent
  <2>1. Emit(o) /\ last' = <<c>> BY <1>2 DEF Independent
  <2>2. next \in Counters BY DEF Consistent, CatalogTypes
  <2>n. next' \in Counters /\ next.group \in Nat BY <2>0, <2>2, CountersMove
  <2>3. next'.group = next.group + 1 /\ next'.object = 1 /\ next'.deltas = 0 BY <2>0, <2>2 DEF Counters
  <2>4. o.object = 0 /\ o.group = next.group OBVIOUS
  <2>d. o.full /\ o.catalog = c OBVIOUS
  <2> HIDE DEF o
  <2>a. MaxDeltas \in Nat BY CatalogAssumption
  <2>b. o.group \in Nat /\ o.object \in Nat /\ o.object <= MaxDeltas BY <2>n, <2>4, <2>a
  <2>c. /\ next'.group = o.group + 1
        /\ next'.object = o.object + 1 /\ next'.deltas = o.object
    BY <2>3, <2>4
  <2>5. out # <<>> => o.group > out[Len(out)].group
    <3>1. out # <<>> => out[Len(out)].group \in Nat /\ next.group = out[Len(out)].group + 1
      BY DEF Consistent, CountersContinue
    <3> QED BY <2>4, <3>1
  <2>6. \A x : Receives(x, o) = c BY <2>d DEF Receives
  <2>7. ended' \/ (o.catalog.live /\ ~o.catalog.complete) BY <2>d DEF Running
  <2> QED BY <2>1, <2>3, <2>n, <2>4, <2>b, <2>c, <2>d, <2>5, <2>6, <2>7, EmitKeeps
<1> QED BY <1>1, <1>2

\* emit_delta(): whole tracks come or go, and every subscriber follows.
LEMMA DeltaKeeps ==
  ASSUME Consistent, ~ended, ended' \in BOOLEAN, last # <<>>, NEW c \in Desired,
         DeltaSuffices(last[1], c), Delta(c)
  PROVE  Consistent'
<1>1. CASE Throws("invalid") BY <1>1, SilentKeeps DEF Throws
<1>2. CASE ~Throws("invalid")
  <2> DEFINE old == last[1]
             added == [t \in Added(old, c) |-> c.tracks[t]]
             o == [group |-> next.group - 1, object |-> next.object,
                   full |-> FALSE, removed |-> Removed(old, c),
                   catalog |-> [EmptyCatalog EXCEPT !.tracks = added]]
  <2>0. next' = [next EXCEPT !.object = @ + 1, !.deltas = @ + 1] BY <1>2 DEF Delta
  <2>1. Emit(o) /\ last' = <<c>> BY <1>2 DEF Delta
  <2>2. next \in Counters BY DEF Consistent, CatalogTypes
  <2>n. next' \in Counters BY <2>0, <2>2, CountersMove
  <2>3. /\ next'.group = next.group
        /\ next'.object = next.object + 1 /\ next'.deltas = next.deltas + 1
    BY <2>0, <2>2 DEF Counters
  <2>4. out # <<>> /\ IsCatalog(old) /\ Running(old) BY DEF Consistent, CatalogTypes, LiveUntilEnd
  <2>5. IsCatalog(c) /\ Running(c) BY CatalogAssumption DEF Running
  <2>6. /\ out[Len(out)].object \in Nat /\ out[Len(out)].group \in Nat
        /\ next.group = out[Len(out)].group + 1
        /\ next.object = out[Len(out)].object + 1
        /\ next.deltas = out[Len(out)].object
    BY <2>4 DEF Consistent, CountersContinue
  <2>7. /\ \A t \in DOMAIN old.tracks \cap DOMAIN c.tracks : old.tracks[t] = c.tracks[t]
        /\ old.root = c.root /\ old.protections = c.protections
        /\ next.deltas < MaxDeltas
    BY DEF DeltaSuffices
  <2>8. /\ o.group = next.group - 1 /\ o.object = next.object /\ o.full = FALSE
        /\ o.removed = Removed(old, c)
        /\ o.catalog = [EmptyCatalog EXCEPT !.tracks = added]
    OBVIOUS
  <2>9. /\ o.catalog.tracks = added
        /\ o.catalog.live = TRUE /\ o.catalog.complete = FALSE
    BY <2>8 DEF EmptyCatalog
  <2>10. Applied(old, o) = c
    <3>1. o.catalog.tracks = [t \in Added(old, c) |-> c.tracks[t]] BY <2>9
    <3>2. o.removed = Removed(old, c) /\ old.live = c.live /\ old.complete = c.complete
      BY <2>4, <2>5, <2>8 DEF Running
    <3> HIDE DEF o, old
    <3> QED BY <2>4, <2>5, <2>7, <3>1, <3>2, DeltaLeads
  <2>11. \A i \in DOMAIN out : out[i].full => Receives(joined[i], o) = c
    <3>1. \A i \in DOMAIN out : out[i].full => joined[i] = old BY DEF Consistent, SubscribersAgree
    <3>2. \A x : Receives(x, o) = Applied(x, o) BY <2>8 DEF Receives
    <3> HIDE DEF o, old
    <3> QED BY <2>10, <3>1, <3>2
  <2>g. o.group = next.group - 1 /\ o.object = next.object BY <2>8
  <2>m. MaxDeltas \in Nat BY CatalogAssumption
  <2> HIDE DEF o, old
  <2>12. /\ o.object \in Nat /\ o.group \in Nat
         /\ next'.group = o.group + 1
         /\ next'.object = o.object + 1 /\ next'.deltas = o.object
         /\ o.object <= MaxDeltas /\ o.object # 0
         /\ o.group = out[Len(out)].group /\ o.object = out[Len(out)].object + 1
    BY <2>3, <2>6, <2>7, <2>g, <2>m
  <2>13. ~o.full BY <2>8
  <2>14. o.catalog.live /\ ~o.catalog.complete BY <2>9
  <2> QED BY <2>1, <2>3, <2>n, <2>4, <2>5, <2>11, <2>12, <2>13, <2>14, EmitKeeps
<1> QED BY <1>1, <1>2

(* ---- the theorem ---- *)

LEMMA InitConsistent == CatalogInit => Consistent
<1> SUFFICES ASSUME CatalogInit PROVE Consistent OBVIOUS
<1>1. /\ last = <<>> /\ ended = FALSE /\ out = <<>>
      /\ next = [initial |-> 0, group |-> 0, object |-> 0, deltas |-> 0]
  BY DEF CatalogInit
<1>2. IsSequence(out) BY <1>1 DEF IsSequence
<1>3. DOMAIN out = {} BY <1>1
<1>4. CatalogTypes
  <2>1. next \in Counters BY <1>1 DEF Counters
  <2> QED BY <1>1, <1>2, <2>1 DEF CatalogTypes
<1>5. CountersContinue /\ LiveUntilEnd BY <1>1, <1>3 DEF CountersContinue, LiveUntilEnd
<1>6. SubscribersAgree /\ GroupsWellFormed /\ EndIsFinal
  BY <1>3 DEF SubscribersAgree, GroupsWellFormed, EndIsFinal
<1> QED BY <1>4, <1>5, <1>6 DEF Consistent

LEMMA NextConsistent == Consistent /\ [CatalogNext]_catVars => Consistent'
<1> SUFFICES ASSUME Consistent, [CatalogNext]_catVars PROVE Consistent' OBVIOUS
<1>0. ended \in BOOLEAN BY DEF Consistent, CatalogTypes
<1>1. CASE UNCHANGED catVars BY <1>1, SilentKeeps DEF catVars
<1>2. ASSUME NEW c \in Desired, PublishCatalog(c) PROVE Consistent'
  <2>0. ended' = ended BY <1>2 DEF PublishCatalog
  <2>1. IsCatalog(c) /\ Running(c) BY CatalogAssumption DEF Running
  <2>2. \/ \E why : Throws(why)
        \/ UNCHANGED <<last, next, out, joined>>
        \/ ~ended /\ Independent(c)
        \/ ~ended /\ last # <<>> /\ DeltaSuffices(last[1], c) /\ Delta(c)
    BY <1>2 DEF PublishCatalog
  <2>3. CASE (\E why : Throws(why)) \/ UNCHANGED <<last, next, out, joined>>
    BY <2>0, <2>3, SilentKeeps DEF Throws
  <2>4. CASE ~ended /\ Independent(c) BY <1>0, <2>0, <2>1, <2>4, IndependentKeeps
  <2>5. CASE ~ended /\ last # <<>> /\ DeltaSuffices(last[1], c) /\ Delta(c) BY <1>0, <2>0, <2>5, DeltaKeeps
  <2> QED BY <2>2, <2>3, <2>4, <2>5
<1>3. CASE ForceIndependent
  <2>0. ended' = ended BY <1>3 DEF ForceIndependent
  <2>1. \/ \E why : Throws(why)
        \/ UNCHANGED <<last, next, out, joined>>
        \/ ~ended /\ last # <<>> /\ Independent(last[1])
    BY <1>3 DEF ForceIndependent
  <2>2. CASE (\E why : Throws(why)) \/ UNCHANGED <<last, next, out, joined>>
    BY <2>0, <2>2, SilentKeeps DEF Throws
  <2>3. CASE ~ended /\ last # <<>> /\ Independent(last[1])
    <3>1. IsCatalog(last[1]) /\ Running(last[1]) BY <2>3 DEF Consistent, CatalogTypes, LiveUntilEnd
    <3> QED BY <1>0, <2>0, <2>3, <3>1, IndependentKeeps
  <2> QED BY <2>1, <2>2, <2>3
<1>4. ASSUME NEW mode \in {"terminate", "vod"}, EndBroadcast(mode) PROVE Consistent'
  <2>1. CASE ended BY <1>4, <2>1, SilentKeeps DEF EndBroadcast, Throws
  <2>2. CASE ~ended
    <3> DEFINE base == IF last = <<>> THEN EmptyCatalog ELSE last[1]
    <3>1. Independent(FinalCatalog(base, mode)) /\ ended' = (threw' = "") BY <1>4, <2>2 DEF EndBroadcast
    <3>2. IsCatalog(base) BY FinalIsCatalog DEF Consistent, CatalogTypes
    <3>3. IsCatalog(FinalCatalog(base, mode)) BY <3>2, FinalIsCatalog
    <3>4. ended' \in BOOLEAN /\ (threw' # "" => ended' = FALSE) /\ (~ended' => threw' # "") BY <3>1, Zenon
    <3>5. ended = FALSE BY <1>0, <2>2
    <3> HIDE DEF base
    <3>6. CASE threw' = ""
      <4>1. ended' BY <3>4, <3>6
      <4> QED BY <2>2, <3>1, <3>3, <3>4, <3>6, <4>1, IndependentKeeps
    <3>7. CASE threw' # ""
      <4>1. Throws("invalid") BY <3>1, <3>7 DEF Independent
      <4> QED BY <4>1, SilentKeeps DEF Throws
    <3> QED BY <3>6, <3>7
  <2> QED BY <2>1, <2>2
<1>5. ASSUME NEW g \in Initials, SetInitialGroupId(g) PROVE Consistent'
  <2>1. /\ UNCHANGED <<last, ended, out, joined>>
        /\ next' = [next EXCEPT !.initial = g, !.group = IF last = <<>> THEN g ELSE @]
    BY <1>5 DEF SetInitialGroupId
  <2>2. next \in Counters /\ g \in Nat BY CatalogAssumption DEF Consistent, CatalogTypes
  <2>a. next' = [next EXCEPT !.initial = g, !.group = IF last = <<>> THEN g ELSE next.group] BY <2>1
  <2>b. next.group \in Nat BY <2>2 DEF Counters
  <2>c. next' \in Counters BY <2>2, <2>a, <2>b, CountersMove
  <2>3. last # <<>> => /\ next'.group = next.group
                       /\ next'.object = next.object /\ next'.deltas = next.deltas
    BY <2>2, <2>a DEF Counters
  <2>4. CatalogTypes' BY <2>1, <2>c DEF Consistent, CatalogTypes, IsSequence
  <2>5. CountersContinue' BY <2>1, <2>3 DEF Consistent, CatalogTypes, CountersContinue
  <2> QED BY <2>1, <2>4, <2>5 DEF Consistent, LiveUntilEnd, SubscribersAgree,
                                  GroupsWellFormed, EndIsFinal
<1>6. CASE Reset
  <2>1. /\ last' = <<>> /\ ended' = FALSE /\ out' = <<>>
        /\ next' = [next EXCEPT !.group = next.initial, !.object = 0, !.deltas = 0]
    BY <1>6 DEF Reset
  <2>2. next \in Counters BY DEF Consistent, CatalogTypes
  <2>3. next' \in Counters BY <2>1, <2>2, CountersMove
  <2>4. IsSequence(out') /\ DOMAIN out' = {} BY <2>1 DEF IsSequence
  <2>5. CatalogTypes' BY <2>1, <2>3, <2>4 DEF CatalogTypes, IsSequence
  <2>6. CountersContinue' /\ LiveUntilEnd' BY <2>1, <2>4 DEF CountersContinue, LiveUntilEnd
  <2>7. SubscribersAgree' /\ GroupsWellFormed' /\ EndIsFinal'
    BY <2>4 DEF SubscribersAgree, GroupsWellFormed, EndIsFinal
  <2> QED BY <2>5, <2>6, <2>7 DEF Consistent
<1> QED BY <1>1, <1>2, <1>3, <1>4, <1>5, <1>6 DEF CatalogNext

\* Whatever order publish(), force_independent(), end_broadcast(),
\* set_initial_group_id() and reset() are called in, a subscriber that joins at
\* any full catalog holds after the deltas what publish() last took, the groups
\* are well formed and the catalog that ends the broadcast is the last one.
THEOREM SubscribersFollowCatalog == CatalogSpec => []CatalogSound
<1>1. Consistent => CatalogSound BY DEF Consistent, CatalogSound
<1> QED BY <1>1, InitConsistent, NextConsistent, PTL DEF CatalogSpec

-----------------------------------------------------------------------------
(* LiveObjects.
   ------------------------------ the types ------------------------------ *)

\* What a record of publish_live_objects holds.
Catalogs == [track : {"catalog"}, group : Nat, object : Nat, closing : BOOLEAN]
Dones == [track : {"done"}, group : Nat, object : Tracks, closing : {FALSE}]
Namespace == [None EXCEPT !.track = "namespace"]
Messages == SourceObjects \cup Dones \cup {Namespace}
Subs == [track : Tracks, forward : {0, 1}, since : Nat, filled : BOOLEAN, start : Nat]
MapsTo(V, K) == UNION {[D -> V] : D \in SUBSET K}
Points == {"announce", "control", "permit", "source", "empty", "sendCatalog", "sendMedia",
           "flushGroups", "flushMedia", "flush", "over"}

States ==
  [pc : Points, result : {"none", "success", "failure"}, stop : BOOLEAN,
   ret : {"none", "permit", "control", "flush"},
   subs : MapsTo(Subs, Nat), subscribed : SUBSET Tracks, established : SUBSET Tracks,
   settings : MapsTo({0, 1}, Tracks), publishes : MapsTo({2, 4}, Tracks),
   terminated : SUBSET {2, 4}, largest : Nat, sentAny : BOOLEAN, unserved : BOOLEAN,
   sent : BOOLEAN, latest : Catalogs \cup {None}, group : Seq(Catalogs), offset : Nat,
   closedGroups : SUBSET Nat, sending : Seq(SourceObjects), closing : Catalogs \cup {None},
   mediaOnce : BOOLEAN, awaiting : BOOLEAN, out : Seq(Messages), ended : SUBSET Nat]
Sources == [produced : Nat, taken : Nat, closed : BOOLEAN, failed : BOOLEAN]
Peers == [asked : Nat, fin : BOOLEAN]

(* ---- the invariant ---- *)

\* The session serves subscriptions, has left the loop, or is sending the
\* closing catalog after the PUBLISH_DONEs of the media.
Serving(x) ==
  \/ x.pc \in {"announce", "control", "permit", "source", "empty", "sendMedia"}
  \/ x.pc = "sendCatalog" /\ x.ret # "flush"
Leaving(x) == x.pc \in {"flushGroups", "flushMedia"}
Closing(x) == x.pc = "flush" \/ (x.pc = "sendCatalog" /\ x.ret = "flush")

\* What is sent now, and where the session goes on when it has been.
SendingKnown(x) ==
  /\ x.pc \notin {"sendCatalog", "sendMedia", "over"} => x.ret = "none" /\ x.sending = <<>>
  /\ x.pc = "sendMedia" => x.ret = "control" /\ Len(x.sending) = 1 /\ x.sending[1].track = "video"
  /\ x.pc = "sendCatalog" =>
       /\ x.ret \in {"permit", "control", "flush"}
       /\ \A i \in DOMAIN x.sending : x.sending[i].track = "catalog"
  /\ x.pc = "over" /\ x.ret = "flush" => x.stop
  /\ x.closing # None => Leaving(x) \/ x.pc = "over"
  /\ x.result # "none" => x.pc = "over"

\* What goes out before the flush is no PUBLISH_DONE and ends no broadcast.
EndsInOrder(x) ==
  /\ \A i \in DOMAIN x.group : ~x.group[i].closing
  /\ Serving(x) \/ Leaving(x) =>
       /\ ~x.latest.closing
       /\ \A i \in DOMAIN x.sending : ~x.sending[i].closing
       /\ \A i \in DOMAIN x.out : x.out[i].track \in Tracks /\ ~x.out[i].closing
  /\ Closing(x) => \A i \in DOMAIN x.out :
       x.out[i].track \in Tracks \/ (x.out[i].track = "done" /\ x.out[i].object = "video")
  /\ \A i, j \in DOMAIN x.out :
       i < j => /\ ~(x.out[i].track = "done" /\ x.out[j].track = x.out[i].object)
                /\ ~(x.out[i].closing /\ x.out[j].track = "done" /\ x.out[j].object = "video")

\* Ids of the peer's requests are odd, those of the PUBLISHes 2 and 4.
AskedIds(n) == {2 * k + 1 : k \in 0..n - 1}
PublishIds == [t \in Tracks |-> IF t = "catalog" THEN 2 ELSE 4]
IsDone(x, i, r) == i \in DOMAIN x.out /\ x.out[i].track = "done" /\ x.out[i].group = r

RequestsKnown(x, asked) ==
  /\ DOMAIN x.subs \subseteq AskedIds(asked) /\ x.ended \subseteq AskedIds(asked)
  /\ x.ended \cap DOMAIN x.subs = {}
  /\ x.publishes = <<>> \/ x.publishes = PublishIds
  /\ DOMAIN x.settings \subseteq DOMAIN x.publishes

DonesKnown(x) ==
  /\ \A i, j \in DOMAIN x.out :
       (x.out[i].track = "done" /\ x.out[j].track = "done" /\ x.out[i].group = x.out[j].group) => i = j
  /\ \A i \in DOMAIN x.out : x.out[i].track = "done" => x.out[i].group \notin x.ended \cup x.terminated
  /\ Closing(x) =>
       /\ \A i \in DOMAIN x.out : x.out[i].track = "done" =>
            /\ x.out[i].group # 2
            /\ (x.out[i].group \in DOMAIN x.subs) => x.subs[x.out[i].group].track = "video"
       /\ \A r \in SubsOf(x, "video") : \E i \in DOMAIN x.out : IsDone(x, i, r)
       /\ x.publishes # <<>> /\ 4 \notin x.terminated => \E i \in DOMAIN x.out : IsDone(x, i, 4)
  /\ x.result = "success" /\ ~x.stop =>
       \A r \in DOMAIN x.subs \cup ({x.publishes[t] : t \in DOMAIN x.publishes} \ x.terminated) :
         \E i \in DOMAIN x.out : IsDone(x, i, r)

\* What ends the loop of a publish that served media.
LeftInTime(x, r, p, os) ==
  (Leaving(x) \/ Closing(x) \/ x.result = "success") /\ x.mediaOnce /\ ~x.stop /\ ~p.fin =>
      r.closed \/ (r.taken > 0 /\ os[r.taken].closing)

CatalogAt(x, i) == i \in DOMAIN x.out /\ x.out[i].track = "catalog"

\* The group kept for late subscribers, and the catalogs still to come.
GroupKept(x, taken, os) ==
  /\ \A i, j \in DOMAIN x.group : i < j => x.group[i].object < x.group[j].object
  /\ Serving(x) =>
       /\ x.latest = None <=> x.group = <<>>
       /\ \A i \in DOMAIN x.group : /\ x.group[i].group = x.latest.group
                                    /\ x.group[i].object <= x.latest.object
       /\ x.latest # None => \A k \in taken + 1..Len(os) :
            os[k].track = "catalog" =>
              Before(x.latest, [os[k] EXCEPT !.group = @ + x.offset])
  /\ x.closing # None /\ x.latest # None => Before(x.latest, x.closing)

LocationsGrow(x) ==
  /\ \A i, j \in DOMAIN x.out : i < j /\ CatalogAt(x, i) /\ CatalogAt(x, j) => Before(x.out[i], x.out[j])
  /\ x.pc = "sendCatalog" =>
       /\ \A i, j \in DOMAIN x.sending : i < j => Before(x.sending[i], x.sending[j])
       /\ \A i \in DOMAIN x.out, j \in DOMAIN x.sending :
            CatalogAt(x, i) => Before(x.out[i], x.sending[j])
       /\ x.ret # "flush" => /\ x.latest # None
                             /\ \A j \in DOMAIN x.sending : ~Before(x.latest, x.sending[j])
  /\ Serving(x) \/ Leaving(x) =>
       \A i \in DOMAIN x.out : CatalogAt(x, i) => x.latest # None /\ ~Before(x.latest, x.out[i])
  /\ Serving(x) /\ x.pc # "sendCatalog" /\ ~x.sent =>
       \A i \in DOMAIN x.out : CatalogAt(x, i) => Before(x.out[i], x.latest)
  /\ IF x.sentAny THEN \E i \in DOMAIN x.out : CatalogAt(x, i) /\ x.out[i].group = x.largest
                  ELSE \A i \in DOMAIN x.out : ~CatalogAt(x, i)

\* A subscription of the catalog is owed a group, is being sent one, or has
\* been sent one.
CatalogOwed(x) ==
  /\ \A r \in DOMAIN x.subs : /\ x.subs[r].since <= Len(x.out)
                              /\ x.subs[r].start <= IF x.sentAny THEN x.largest + 1 ELSE 0
  /\ Serving(x) =>
       \A r \in SubsOf(x, "catalog") :
         \/ x.unserved \/ x.subs[r].filled
         \/ x.pc = "sendCatalog" /\ x.sending # <<>>
         \/ \E i \in x.subs[r].since + 1..Len(x.out) : CatalogAt(x, i)

ObjectsInv ==
  /\ SendingKnown(s) /\ EndsInOrder(s)
  /\ RequestsKnown(s, peer.asked) /\ DonesKnown(s)
  /\ LeftInTime(s, src, peer, scenario.objects)
  /\ GroupKept(s, src.taken, scenario.objects) /\ LocationsGrow(s) /\ CatalogOwed(s)


(* ---- sequences ---- *)

\* What the session does to a sequence: append, concatenate, take the head.
LEMMA Appended ==
    ASSUME NEW S, NEW u \in Seq(S), NEW v \in S
    PROVE  /\ Append(u, v) \in Seq(S) /\ Append(u, v) # <<>>
           /\ DOMAIN u = 1..Len(u) /\ Len(u) \in Nat
           /\ DOMAIN Append(u, v) = 1..Len(u) + 1 /\ Len(Append(u, v)) = Len(u) + 1
           /\ \A i \in 1..Len(u) : Append(u, v)[i] = u[i]
           /\ Append(u, v)[Len(u) + 1] = v
  BY AppendFacts

LEMMA Joined ==
    ASSUME NEW S, NEW u \in Seq(S), NEW v \in Seq(S)
    PROVE  /\ u \o v \in Seq(S) /\ Len(u) \in Nat /\ Len(v) \in Nat
           /\ DOMAIN u = 1..Len(u) /\ DOMAIN v = 1..Len(v)
           /\ DOMAIN (u \o v) = 1..Len(u) + Len(v) /\ Len(u \o v) = Len(u) + Len(v)
           /\ \A i \in 1..Len(u) : (u \o v)[i] = u[i]
           /\ \A i \in 1..Len(v) : (u \o v)[Len(u) + i] = v[i]
<1>1. /\ u \o v \in Seq(S) /\ Len(u \o v) = Len(u) + Len(v)
      /\ \A i \in 1..Len(u) + Len(v) : (u \o v)[i] = IF i <= Len(u) THEN u[i] ELSE v[i - Len(u)]
  BY ConcatProperties
<1>2. Len(u) \in Nat /\ Len(v) \in Nat /\ DOMAIN u = 1..Len(u) /\ DOMAIN v = 1..Len(v)
      /\ DOMAIN (u \o v) = 1..Len(u \o v)
  BY <1>1
<1>3. \A i \in 1..Len(u) : (u \o v)[i] = u[i] BY <1>1, <1>2
<1>4. \A i \in 1..Len(v) : (u \o v)[Len(u) + i] = v[i]
  <2> TAKE i \in 1..Len(v)
  <2>1. Len(u) + i \in 1..Len(u) + Len(v) /\ ~(Len(u) + i <= Len(u)) /\ (Len(u) + i) - Len(u) = i BY <1>2
  <2> QED BY <1>1, <2>1
<1> QED BY <1>1, <1>2, <1>3, <1>4

\* A sequence that is not empty has a first element.
LEMMA NotEmpty ==
    ASSUME NEW S, NEW u \in Seq(S)
    PROVE  u # <<>> <=> DOMAIN u # {}
<1>1. DOMAIN u = 1..Len(u) /\ Len(u) \in Nat OBVIOUS
<1>2. u = <<>> <=> Len(u) = 0 BY EmptySeq
<1> QED BY <1>1, <1>2

\* A sequence of one element.
LEMMA Single ==
    ASSUME NEW v
    PROVE  DOMAIN <<v>> = {1} /\ <<v>>[1] = v /\ <<v>> # <<>> /\ Len(<<v>>) = 1
<1>1. <<v>> \in Seq({v}) /\ Len(<<v>>) = 1 /\ <<v>>[1] = v OBVIOUS
<1>2. DOMAIN <<v>> = 1..1 BY <1>1
<1>3. <<v>> # <<>> BY <1>1, EmptySeq
<1> QED BY <1>1, <1>2, <1>3

\* A place in a joined sequence is in its first or in its second part.
LEMMA JoinedPlaces ==
    ASSUME NEW m \in Nat, NEW n \in Nat, NEW i \in 1..m + n
    PROVE  i \in 1..m \/ \E j \in 1..n : i = m + j
<1>1. CASE i <= m BY <1>1
<1>2. CASE ~(i <= m)
  <2>1. i - m \in 1..n /\ i = m + (i - m) BY <1>2
  <2> QED BY <2>1
<1> QED BY <1>1, <1>2

(* ---- the session's helpers ---- *)

\* The two records differ in their subscriptions and PUBLISHes only.
SameLoop(x, y) ==
  /\ y.pc = x.pc /\ y.result = x.result /\ y.stop = x.stop /\ y.ret = x.ret
  /\ y.largest = x.largest /\ y.sentAny = x.sentAny /\ y.sent = x.sent /\ y.latest = x.latest
  /\ y.group = x.group /\ y.offset = x.offset /\ y.closedGroups = x.closedGroups
  /\ y.sending = x.sending /\ y.closing = x.closing /\ y.mediaOnce = x.mediaOnce
  /\ y.awaiting = x.awaiting /\ y.out = x.out

\* The two records have the same subscriptions and PUBLISHes.
SameRequests(x, y) ==
  /\ y.subs = x.subs /\ y.settings = x.settings /\ y.publishes = x.publishes
  /\ y.terminated = x.terminated /\ y.ended = x.ended

\* A map's values, and the map extended or cut.
LEMMA MapFacts ==
    ASSUME NEW V, NEW K, NEW f \in MapsTo(V, K)
    PROVE  DOMAIN f \subseteq K /\ \A y \in DOMAIN f : f[y] \in V
  BY DEF MapsTo

LEMMA MapPut ==
    ASSUME NEW V, NEW K, NEW f \in MapsTo(V, K), NEW y \in K, NEW v \in V
    PROVE  Put(f, y, v) \in MapsTo(V, K)
<1> DEFINE E == DOMAIN f \cup {y}
<1>1. DOMAIN f \subseteq K /\ \A z \in DOMAIN f : f[z] \in V BY MapFacts
<1>2. E \in SUBSET K /\ Put(f, y, v) \in [E -> V] BY <1>1 DEF Put
<1> QED BY <1>2 DEF MapsTo

LEMMA MapDrop ==
    ASSUME NEW V, NEW K, NEW f \in MapsTo(V, K), NEW y
    PROVE  Drop(f, y) \in MapsTo(V, K)
<1> DEFINE E == DOMAIN f \ {y}
<1>1. DOMAIN f \subseteq K /\ \A z \in DOMAIN f : f[z] \in V BY MapFacts
<1>2. E \in SUBSET K /\ Drop(f, y) \in [E -> V] BY <1>1 DEF Drop
<1> QED BY <1>2 DEF MapsTo

\* A map with one value replaced.
LEMMA MapReplaced ==
    ASSUME NEW V, NEW K, NEW f \in MapsTo(V, K), NEW y \in DOMAIN f, NEW v \in V
    PROVE  [f EXCEPT ![y] = v] \in MapsTo(V, K)
<1>1. PICK D \in SUBSET K : f \in [D -> V] BY DEF MapsTo
<1>2. [f EXCEPT ![y] = v] \in [D -> V] BY <1>1
<1> QED BY <1>2 DEF MapsTo

\* The empty map.
LEMMA MapEmpty ==
    ASSUME NEW V, NEW K
    PROVE  <<>> \in MapsTo(V, K) /\ DOMAIN <<>> = {}
<1>1. <<>> \in [{} -> V] /\ {} \in SUBSET K OBVIOUS
<1> QED BY <1>1 DEF MapsTo

\* refresh_subscriber_forward_permission changes the permission only.
LEMMA RefreshedFacts ==
    ASSUME NEW x \in States, NEW t \in Tracks
    PROVE  /\ Refreshed(x, t) \in States /\ SameLoop(x, Refreshed(x, t))
           /\ SameRequests(x, Refreshed(x, t)) /\ Refreshed(x, t).unserved = x.unserved
<1> DEFINE v == Refreshed(x, t).subscribed
<1>1. PICK w : Refreshed(x, t) = [x EXCEPT !.subscribed = w] /\ w \in SUBSET Tracks
  <2> DEFINE forwards == \/ \E r \in SubsOf(x, t) : x.subs[r].forward = 1
                         \/ t \in DOMAIN x.settings /\ x.settings[t] = 1
  <2>1. Refreshed(x, t) = [x EXCEPT !.subscribed = IF forwards THEN @ \cup {t} ELSE @ \ {t}]
    BY DEF Refreshed
  <2> HIDE DEF forwards
  <2>2. Refreshed(x, t) = [x EXCEPT !.subscribed = IF forwards THEN x.subscribed \cup {t}
                                                    ELSE x.subscribed \ {t}]
    BY <2>1
  <2>3. x.subscribed \in SUBSET Tracks BY DEF States
  <2> QED BY <2>2, <2>3
<1>2. Refreshed(x, t) \in States BY <1>1 DEF States
<1> QED BY <1>1, <1>2 DEF States, SameLoop, SameRequests

\* accept_subscribe adds at most the one subscription, which the catalog owes a
\* group unless the fill of its request sent one.
AcceptedAs(x, r, t, y) ==
  /\ y \in States /\ SameLoop(x, y)
  /\ y.settings = x.settings /\ y.publishes = x.publishes
  /\ y.terminated = x.terminated /\ y.ended = x.ended
  /\ \/ y.subs = x.subs /\ y.unserved = x.unserved
     \/ /\ DOMAIN y.subs = DOMAIN x.subs \cup {r}
        /\ \A q \in DOMAIN x.subs : q # r => y.subs[q] = x.subs[q]
        /\ y.subs[r].track = t /\ y.subs[r].since = Len(x.out)
        /\ y.subs[r].start <= IF x.sentAny THEN x.largest + 1 ELSE 0
        /\ t = "catalog" => y.unserved \/ y.subs[r].filled
        /\ x.unserved => y.unserved

LEMMA AcceptedFacts ==
    ASSUME NEW x \in States, NEW r \in Nat, NEW t \in Tracks, NEW f \in {0, 1},
           NEW later \in BOOLEAN, NEW fill \in BOOLEAN
    PROVE  AcceptedAs(x, r, t, Accepted(x, r, t, f, later, fill))
<1> DEFINE filled == fill /\ draft >= 21 /\ t = "catalog" /\ x.sentAny
           sub == [track |-> t, forward |-> f, since |-> Len(x.out), filled |-> filled,
                   start |-> IF later /\ t = "catalog" /\ x.sentAny THEN x.largest + 1 ELSE 0]
           kept == [x EXCEPT !.subs = Put(@, r, sub), !.established = @ \cup {t},
                             !.unserved = @ \/ (t = "catalog" /\ ~filled)]
           kept2 == [kept EXCEPT !.subscribed = @ \cup {t}]
           y == Accepted(x, r, t, f, later, fill)
<1>1. y = x \/ y = kept \/ y = kept2 BY DEF Accepted
<1> SUFFICES AcceptedAs(x, r, t, y) OBVIOUS
<1> HIDE DEF y
<1>2. /\ x.subs \in MapsTo(Subs, Nat) /\ x.out \in Seq(Messages) /\ x.largest \in Nat
      /\ x.sentAny \in BOOLEAN /\ x.unserved \in BOOLEAN /\ x.established \in SUBSET Tracks
      /\ x.subscribed \in SUBSET Tracks
  BY DEF States
<1>3. filled \in BOOLEAN OBVIOUS
<1> HIDE DEF filled
<1>4. sub \in Subs BY <1>2, <1>3 DEF Subs
<1>5. sub.track = t /\ sub.since = Len(x.out) /\ sub.filled = filled
      /\ sub.start <= IF x.sentAny THEN x.largest + 1 ELSE 0
  BY <1>2
<1> HIDE DEF sub
<1> DEFINE m == Put(x.subs, r, sub)
<1>6. /\ m \in MapsTo(Subs, Nat) /\ DOMAIN m = DOMAIN x.subs \cup {r} /\ m[r] = sub
      /\ \A q \in DOMAIN x.subs : q # r => m[q] = x.subs[q]
  <2>1. x.subs \in MapsTo(Subs, Nat) /\ r \in Nat /\ sub \in Subs BY <1>2, <1>4
  <2>2. Put(x.subs, r, sub) \in MapsTo(Subs, Nat) BY <2>1, MapPut
  <2> QED BY <2>2 DEF Put
<1>7. kept = [x EXCEPT !.subs = m, !.established = x.established \cup {t},
                       !.unserved = x.unserved \/ (t = "catalog" /\ ~filled)]
  OBVIOUS
<1> HIDE DEF m, kept
<1>8. /\ kept \in States
      /\ kept.subs = m /\ kept.unserved = (x.unserved \/ (t = "catalog" /\ ~filled))
      /\ SameLoop(x, kept)
      /\ kept.settings = x.settings /\ kept.publishes = x.publishes
      /\ kept.terminated = x.terminated /\ kept.ended = x.ended
  <2>1. x.established \cup {t} \in SUBSET Tracks BY <1>2
  <2>2. (x.unserved \/ (t = "catalog" /\ ~filled)) \in BOOLEAN OBVIOUS
  <2>3. kept \in States BY <1>6, <1>7, <2>1, <2>2 DEF States
  <2> QED BY <1>7, <2>3 DEF States, SameLoop
<1>9. /\ kept2 \in States
      /\ kept2.subs = m /\ kept2.unserved = (x.unserved \/ (t = "catalog" /\ ~filled))
      /\ SameLoop(x, kept2)
      /\ kept2.settings = x.settings /\ kept2.publishes = x.publishes
      /\ kept2.terminated = x.terminated /\ kept2.ended = x.ended
  <2>1. kept.subscribed \cup {t} \in SUBSET Tracks BY <1>8 DEF States
  <2>2. kept2 \in States BY <1>8, <2>1 DEF States
  <2> QED BY <1>8, <2>2 DEF States, SameLoop
<1> HIDE DEF kept2
<1>10. CASE y = x BY <1>10 DEF SameLoop, AcceptedAs
<1>11. CASE y = kept BY <1>11, <1>3, <1>5, <1>6, <1>8 DEF AcceptedAs
<1>12. CASE y = kept2 BY <1>12, <1>3, <1>5, <1>6, <1>9 DEF AcceptedAs
<1> QED BY <1>1, <1>10, <1>11, <1>12

\* end_subscription takes the one subscription away.
LEMMA EndedFacts ==
    ASSUME NEW x \in States, NEW r \in DOMAIN x.subs, NEW y, y = Ended(x, r)
    PROVE  /\ y \in States /\ SameLoop(x, y)
           /\ y.settings = x.settings /\ y.publishes = x.publishes
           /\ y.terminated = x.terminated /\ y.ended = x.ended \cup ({r} \ DoneIds(x))
           /\ DOMAIN y.subs = DOMAIN x.subs \ {r}
           /\ \A q \in DOMAIN y.subs : y.subs[q] = x.subs[q]
           /\ y.unserved = x.unserved \/ SubsOf(y, "catalog") = {}
<1> DEFINE t == x.subs[r].track
           m == Drop(x.subs, r)
           e == x.ended \cup ({r} \ DoneIds(x))
           gone == [x EXCEPT !.subs = m, !.ended = e]
           none == SubsOf(gone, t) = {}
           left == IF ~none THEN gone
                   ELSE [gone EXCEPT !.established = @ \ {t}, !.unserved = @ /\ t # "catalog"]
<1>1. y = Refreshed(left, t) BY DEF Ended
<1>2. x.subs \in MapsTo(Subs, Nat) /\ x.ended \in SUBSET Nat BY DEF States
<1>3. /\ m \in MapsTo(Subs, Nat) /\ DOMAIN m = DOMAIN x.subs \ {r}
      /\ \A q \in DOMAIN x.subs \ {r} : m[q] = x.subs[q]
      /\ x.subs[r] \in Subs /\ r \in Nat
  <2>1. DOMAIN x.subs \subseteq Nat /\ \A q \in DOMAIN x.subs : x.subs[q] \in Subs BY <1>2, MapFacts
  <2>2. x.subs[r] \in Subs /\ r \in Nat BY <2>1
  <2>3. m \in MapsTo(Subs, Nat) BY <1>2, MapDrop
  <2> QED BY <2>2, <2>3 DEF Drop
<1>4. t \in Tracks BY <1>3 DEF Subs
<1>5. e \in SUBSET Nat BY <1>2, <1>3
<1> HIDE DEF m, e
<1>6. /\ gone \in States /\ SameLoop(x, gone) /\ gone.subs = m /\ gone.ended = e
      /\ gone.settings = x.settings /\ gone.publishes = x.publishes
      /\ gone.terminated = x.terminated /\ gone.unserved = x.unserved
  <2>1. gone \in States BY <1>3, <1>5 DEF States
  <2> QED BY <2>1 DEF States, SameLoop
<1> HIDE DEF gone, none, t
<1>7. /\ left \in States /\ SameLoop(x, left) /\ left.subs = m /\ left.ended = e
      /\ left.settings = x.settings /\ left.publishes = x.publishes
      /\ left.terminated = x.terminated
      /\ left.unserved = x.unserved \/ (t = "catalog" /\ none)
  <2>1. CASE ~none BY <1>6, <2>1
  <2>2. CASE none
    <3> DEFINE z == [gone EXCEPT !.established = @ \ {t}, !.unserved = @ /\ t # "catalog"]
    <3>1. \A es \in SUBSET Tracks, b \in BOOLEAN :
            [gone EXCEPT !.established = es, !.unserved = b] \in States
      BY <1>6 DEF States
    <3>2. z \in States
      <4>1. gone.established \ {t} \in SUBSET Tracks /\ (gone.unserved /\ t # "catalog") \in BOOLEAN
        BY <1>6 DEF States
      <4> QED BY <3>1, <4>1
    <3>3. /\ z.subs = gone.subs /\ z.ended = gone.ended /\ z.settings = gone.settings
          /\ z.publishes = gone.publishes /\ z.terminated = gone.terminated
          /\ z.unserved = (gone.unserved /\ t # "catalog") /\ SameLoop(gone, z)
      BY <1>6, <3>2 DEF States, SameLoop
    <3>4. left = z BY <2>2
    <3> HIDE DEF z
    <3>5. SameLoop(x, z) BY <1>6, <3>3 DEF SameLoop
    <3>6. z.unserved = x.unserved \/ t = "catalog"
      <4>1. x.unserved \in BOOLEAN BY DEF States
      <4> QED BY <1>6, <3>3, <4>1
    <3> HIDE DEF left
    <3> QED BY <1>6, <2>2, <3>2, <3>3, <3>4, <3>5, <3>6
  <2> QED BY <2>1, <2>2
<1> HIDE DEF left
<1>8. /\ y \in States /\ SameLoop(left, y) /\ SameRequests(left, y) /\ y.unserved = left.unserved
  BY <1>1, <1>4, <1>7, RefreshedFacts
<1>9. SameLoop(x, y) BY <1>7, <1>8 DEF SameLoop
<1>10. y.subs = m /\ y.ended = e /\ y.settings = x.settings /\ y.publishes = x.publishes
       /\ y.terminated = x.terminated
  BY <1>7, <1>8 DEF SameRequests
<1>11. t = "catalog" /\ none => SubsOf(y, "catalog") = {} BY <1>6, <1>10 DEF none, SubsOf
<1> QED BY <1>3, <1>7, <1>8, <1>9, <1>10, <1>11 DEF e

\* publish_tracks publishes every track, once.
LEMMA PublishingFacts ==
    ASSUME NEW x \in States, NEW a \in Answers, NEW y, y = Publishing(x, a)
    PROVE  /\ y \in States /\ SameLoop(x, y)
           /\ y.subs = x.subs /\ y.terminated = x.terminated /\ y.ended = x.ended
           /\ y.unserved = x.unserved
           /\ \/ y.publishes = x.publishes /\ y.settings = x.settings
              \/ x.publishes = <<>> /\ y.publishes = PublishIds
<1> DEFINE w == x.subscribed \cup {t \in Tracks : a[t] = 1}
           z == [x EXCEPT !.publishes = PublishIds, !.settings = a, !.subscribed = w]
<1>1. y = x \/ (x.publishes = <<>> /\ y = z) BY DEF Publishing, PublishIds
<1>2. PublishIds \in MapsTo({2, 4}, Tracks)
  <2>1. PublishIds \in [Tracks -> {2, 4}] BY DEF PublishIds
  <2> QED BY <2>1 DEF MapsTo
<1>3. a \in MapsTo({0, 1}, Tracks) BY DEF MapsTo, Answers
<1>4. w \in SUBSET Tracks BY DEF States
<1> HIDE DEF w
<1>5. z \in States BY <1>2, <1>3, <1>4 DEF States
<1>6. SameLoop(x, z) /\ z.subs = x.subs /\ z.terminated = x.terminated /\ z.ended = x.ended
      /\ z.unserved = x.unserved /\ z.publishes = PublishIds
  BY <1>5 DEF States, SameLoop
<1> HIDE DEF z
<1>7. SameLoop(x, x) BY DEF SameLoop
<1> QED BY <1>1, <1>5, <1>6, <1>7

\* What send_retained_catalog leaves alone up to its first write.
SameEnd(x, y) ==
  /\ y.result = x.result /\ y.stop = x.stop /\ y.mediaOnce = x.mediaOnce
  /\ y.awaiting = x.awaiting /\ y.out = x.out /\ y.largest = x.largest
  /\ y.sentAny = x.sentAny /\ y.closing = x.closing /\ y.sent = x.sent
SameCatalog(x, y) == y.latest = x.latest /\ y.group = x.group /\ y.offset = x.offset

\* The group of a catalog, or of the retained ones, moved to g.
MovedTo(o, g) == [o EXCEPT !.group = g]

LEMMA NextGroupFacts ==
    ASSUME NEW x \in States, x.latest # None, NEW g, g = NextCatalogGroup(x)
    PROVE  g \in Nat /\ g > x.latest.group /\ x.latest.group \in Nat
           /\ (x.sentAny => g > x.largest)
<1>1. x.latest \in Catalogs /\ x.largest \in Nat BY DEF States
<1>2. x.latest.group \in Nat BY <1>1 DEF Catalogs
<1>3. CASE x.sentAny /\ x.largest > x.latest.group
  <2>1. g = x.largest + 1 BY <1>3 DEF NextCatalogGroup
  <2> QED BY <1>1, <1>2, <1>3, <2>1
<1>4. CASE ~(x.sentAny /\ x.largest > x.latest.group)
  <2>1. g = x.latest.group + 1 BY <1>4 DEF NextCatalogGroup
  <2> QED BY <1>1, <1>2, <1>4, <2>1
<1> QED BY <1>3, <1>4

\* Resent moves the latest catalog and its group to a new group, or nothing
\* when no subscription of the catalog takes that group.
LEMMA ResentFacts ==
    ASSUME NEW x \in States, x.latest # None, NEW y, y = Resent(x)
    PROVE  /\ y \in States /\ SameRequests(x, y) /\ SameEnd(x, y)
           /\ y.pc = x.pc /\ y.ret = x.ret /\ y.unserved = x.unserved
           /\ \/ /\ y = x
                 /\ \A r \in SubsOf(x, "catalog") : ~(x.subs[r].start <= NextCatalogGroup(x))
              \/ \E g \in Nat :
                 /\ g > x.latest.group /\ (x.sentAny => g > x.largest)
                 /\ y.latest = MovedTo(x.latest, g)
                 /\ y.offset = x.offset + (g - x.latest.group)
                 /\ y.sending = y.group /\ DOMAIN y.group = DOMAIN x.group
                 /\ \A i \in DOMAIN x.group : y.group[i] = MovedTo(x.group[i], g)
<1> DEFINE g == NextCatalogGroup(x)
           moved == [i \in DOMAIN x.group |-> MovedTo(x.group[i], g)]
           takes == \E r \in SubsOf(x, "catalog") : x.subs[r].start <= g
           z == [x EXCEPT !.offset = @ + (g - x.latest.group), !.latest.group = g,
                          !.group = moved, !.closedGroups = CatalogGroups(x), !.sending = moved]
<1>1. y = IF takes THEN z ELSE x BY DEF Resent, MovedTo
<1>2. g \in Nat /\ g > x.latest.group /\ x.latest.group \in Nat /\ (x.sentAny => g > x.largest)
  BY NextGroupFacts
<1> HIDE DEF g
<1>3. CASE ~takes BY <1>1, <1>3 DEF g, SameRequests, SameEnd
<1>4. CASE takes
  <2>1. x.latest \in Catalogs /\ x.group \in Seq(Catalogs) /\ x.offset \in Nat
        /\ x.out \in Seq(Messages)
    BY DEF States
  <2>2. MovedTo(x.latest, g) \in Catalogs BY <1>2, <2>1 DEF Catalogs, MovedTo
  <2>3. moved \in Seq(Catalogs) /\ DOMAIN moved = DOMAIN x.group
        /\ \A i \in DOMAIN x.group : moved[i] = MovedTo(x.group[i], g)
    <3>1. DOMAIN x.group = 1..Len(x.group) /\ Len(x.group) \in Nat
          /\ \A i \in 1..Len(x.group) : x.group[i] \in Catalogs
      BY <2>1
    <3>2. \A i \in 1..Len(x.group) : MovedTo(x.group[i], g) \in Catalogs BY <1>2, <3>1 DEF Catalogs, MovedTo
    <3>3. moved \in [1..Len(x.group) -> Catalogs] BY <3>1, <3>2
    <3> QED BY <3>1, <3>3, SeqDef
  <2>4. moved \in Seq(SourceObjects)
    <3>1. Catalogs \subseteq SourceObjects BY DEF Catalogs, SourceObjects, Tracks
    <3> QED BY <2>3, <3>1
  <2>5. x.offset + (g - x.latest.group) \in Nat BY <1>2, <2>1
  <2>6. CatalogGroups(x) \in SUBSET Nat
    <3>1. \A i \in DOMAIN x.out : x.out[i] \in Messages BY <2>1
    <3>2. \A i \in DOMAIN x.out : x.out[i].track = "catalog" => x.out[i].group \in Nat
      BY <3>1 DEF Messages, SourceObjects, Dones, Namespace, None
    <3> QED BY <3>2 DEF CatalogGroups
  <2>7. z = [x EXCEPT !.offset = x.offset + (g - x.latest.group), !.latest = MovedTo(x.latest, g),
                      !.group = moved, !.closedGroups = CatalogGroups(x), !.sending = moved]
    BY DEF MovedTo, States
  <2> HIDE DEF moved, z
  <2>8. z \in States BY <2>2, <2>3, <2>4, <2>5, <2>6, <2>7 DEF States
  <2>9. /\ SameRequests(x, z) /\ SameEnd(x, z)
        /\ z.pc = x.pc /\ z.ret = x.ret /\ z.unserved = x.unserved
        /\ z.latest = MovedTo(x.latest, g) /\ z.offset = x.offset + (g - x.latest.group)
        /\ z.sending = moved /\ z.group = moved
    BY <2>7, <2>8 DEF States, SameRequests, SameEnd
  <2>10. y = z BY <1>1, <1>4
  <2> QED BY <1>2, <2>3, <2>8, <2>9, <2>10
<1> QED BY <1>3, <1>4

\* send_retained_catalog up to its first write: nothing is due, the latest
\* catalog is sent for the first time, its group is sent again, or no
\* subscription takes the new group.
LEMMA BegunFacts ==
    ASSUME NEW x \in States, NEW ret \in {"permit", "control", "flush"},
           NEW y, y = CatalogBegun(x, ret)
    PROVE  /\ y \in States /\ SameRequests(x, y) /\ SameEnd(x, y)
           /\ \/ /\ y.pc = ret /\ y.ret = x.ret /\ y.unserved = x.unserved
                 /\ y.sending = x.sending /\ SameCatalog(x, y)
              \/ /\ x.latest # None /\ y.pc = "sendCatalog" /\ y.ret = ret
                 /\ \/ y.sending = <<x.latest>> /\ ~x.sent /\ SameCatalog(x, y)
                    \/ /\ y.sending = x.sending /\ SameCatalog(x, y)
                       /\ \A r \in SubsOf(x, "catalog") : ~(x.subs[r].start <= NextCatalogGroup(x))
                    \/ \E g \in Nat :
                       /\ g > x.latest.group /\ (x.sentAny => g > x.largest)
                       /\ y.latest = MovedTo(x.latest, g)
                       /\ y.offset = x.offset + (g - x.latest.group)
                       /\ y.sending = y.group /\ DOMAIN y.group = DOMAIN x.group
                       /\ \A i \in DOMAIN x.group : y.group[i] = MovedTo(x.group[i], g)
<1> DEFINE served == [x EXCEPT !.unserved = FALSE, !.pc = "sendCatalog", !.ret = ret]
           first == [served EXCEPT !.sending = <<x.latest>>]
           skips == [x EXCEPT !.pc = ret]
           fresh == ~x.sent /\ x.latest.group \notin x.closedGroups
<1>1. /\ ~ShouldSend(x) => y = skips
      /\ ShouldSend(x) => x.latest # None
      /\ ShouldSend(x) /\ fresh => y = first
      /\ ShouldSend(x) /\ ~fresh => y = Resent(served)
  BY DEF CatalogBegun, ShouldSend
<1>2. CASE ~ShouldSend(x)
  <2>1. skips \in States BY DEF States, Points
  <2>2. /\ skips.pc = ret /\ skips.ret = x.ret /\ skips.unserved = x.unserved
        /\ skips.sending = x.sending /\ SameCatalog(x, skips)
        /\ SameRequests(x, skips) /\ SameEnd(x, skips)
    BY <2>1 DEF States, SameRequests, SameEnd, SameCatalog
  <2> HIDE DEF skips
  <2> QED BY <1>1, <1>2, <2>1, <2>2
<1>3. /\ served \in States /\ SameRequests(x, served) /\ SameEnd(x, served)
      /\ served.pc = "sendCatalog" /\ served.ret = ret /\ served.sending = x.sending
      /\ SameCatalog(x, served) /\ served.closedGroups = x.closedGroups
  <2>1. served \in States BY DEF States, Points
  <2> QED BY <2>1 DEF States, SameRequests, SameEnd, SameCatalog
<1>4. CASE ShouldSend(x) /\ fresh
  <2>1. x.latest # None /\ ~x.sent /\ y = first BY <1>1, <1>4
  <2>2. x.latest \in SourceObjects BY <2>1 DEF States, Catalogs, SourceObjects, Tracks
  <2>3. <<x.latest>> \in Seq(SourceObjects) BY <2>2
  <2> HIDE DEF served
  <2>4. first \in States BY <1>3, <2>3 DEF States
  <2>5. SameRequests(x, first) /\ SameEnd(x, first) /\ SameCatalog(x, first)
        /\ first.sending = <<x.latest>> /\ first.pc = "sendCatalog" /\ first.ret = ret
    BY <1>3, <2>4 DEF States, SameRequests, SameEnd, SameCatalog
  <2> HIDE DEF first
  <2> QED BY <2>1, <2>4, <2>5
<1>5. CASE ShouldSend(x) /\ ~fresh
  <2>1. x.latest # None /\ y = Resent(served) BY <1>1, <1>5
  <2> HIDE DEF served
  <2>2. served.latest = x.latest /\ served.group = x.group /\ served.offset = x.offset
        /\ served.largest = x.largest /\ served.sentAny = x.sentAny /\ served.subs = x.subs
        /\ served.sending = x.sending
    BY <1>3 DEF SameCatalog, SameEnd, SameRequests
  <2>3. NextCatalogGroup(served) = NextCatalogGroup(x)
        /\ SubsOf(served, "catalog") = SubsOf(x, "catalog")
    BY <2>2 DEF NextCatalogGroup, SubsOf
  <2>4. y \in States /\ SameRequests(served, y) /\ SameEnd(served, y)
        /\ y.pc = "sendCatalog" /\ y.ret = ret
    BY <1>3, <2>1, <2>2, ResentFacts
  <2>5. SameRequests(x, y) /\ SameEnd(x, y) BY <1>3, <2>4 DEF SameRequests, SameEnd
  <2>6. CASE /\ y = served
             /\ \A r \in SubsOf(served, "catalog") : ~(served.subs[r].start <= NextCatalogGroup(served))
    BY <1>3, <2>1, <2>2, <2>3, <2>4, <2>5, <2>6
  <2>7. ASSUME NEW g \in Nat,
               g > served.latest.group, served.sentAny => g > served.largest,
               y.latest = MovedTo(served.latest, g),
               y.offset = served.offset + (g - served.latest.group),
               y.sending = y.group, DOMAIN y.group = DOMAIN served.group,
               \A i \in DOMAIN served.group : y.group[i] = MovedTo(served.group[i], g)
        PROVE  \E h \in Nat :
                 /\ h > x.latest.group /\ (x.sentAny => h > x.largest)
                 /\ y.latest = MovedTo(x.latest, h)
                 /\ y.offset = x.offset + (h - x.latest.group)
                 /\ y.sending = y.group /\ DOMAIN y.group = DOMAIN x.group
                 /\ \A i \in DOMAIN x.group : y.group[i] = MovedTo(x.group[i], h)
    BY <2>2, <2>7
  <2>8. \/ /\ y = served
           /\ \A r \in SubsOf(served, "catalog") : ~(served.subs[r].start <= NextCatalogGroup(served))
        \/ \E g \in Nat :
               /\ g > served.latest.group /\ (served.sentAny => g > served.largest)
               /\ y.latest = MovedTo(served.latest, g)
               /\ y.offset = served.offset + (g - served.latest.group)
               /\ y.sending = y.group /\ DOMAIN y.group = DOMAIN served.group
               /\ \A i \in DOMAIN served.group : y.group[i] = MovedTo(served.group[i], g)
    BY <1>3, <2>1, <2>2, ResentFacts
  <2> QED BY <2>1, <2>4, <2>5, <2>6, <2>7, <2>8
<1> QED BY <1>2, <1>4, <1>5

(* ---- PUBLISH_DONEs ---- *)

\* The PUBLISHes of track t that the peer has not stopped.
OwnOf(x, t) == IF t \in DOMAIN x.publishes /\ x.publishes[t] \notin x.terminated
               THEN {x.publishes[t]} ELSE {}

\* The PUBLISH_DONEs d of track t.
EndsTrack(x, t, d) ==
  /\ \A i \in DOMAIN d : /\ d[i].track = "done" /\ d[i].object = t /\ d[i].closing = FALSE
                         /\ d[i].group \in SubsOf(x, t) \cup OwnOf(x, t)
  /\ \A i, j \in DOMAIN d : d[i].group = d[j].group => i = j
  /\ \A r \in SubsOf(x, t) \cup OwnOf(x, t) : \E i \in DOMAIN d : d[i].group = r

\* A set of request ids has an ascending enumeration, which reaches all of it.
LEMMA IdsAscend ==
    ASSUME NEW n \in Nat, NEW S \in SUBSET (1..n)
    PROVE  /\ Ascending(S) \in Seq(S) /\ Len(Ascending(S)) \in Nat
           /\ DOMAIN Ascending(S) = 1..Len(Ascending(S))
           /\ \A i, j \in 1..Len(Ascending(S)) : i < j => Ascending(S)[i] < Ascending(S)[j]
           /\ \A y \in S : \E i \in 1..Len(Ascending(S)) : Ascending(S)[i] = y
<1> DEFINE a == Ascending(S)
           c == Cardinality(S)
<1>1. /\ IsFiniteSet(S) /\ c \in Nat
      /\ \E f \in [1..c -> S] : Rises(f, c)
  BY RisingExists
<1>2. \E f \in [1..c -> S] : \A i, j \in DOMAIN f : i < j => f[i] < f[j] BY <1>1 DEF Rises
<1>3. a \in [1..c -> S] /\ \A i, j \in DOMAIN a : i < j => a[i] < a[j] BY <1>2 DEF Ascending
<1> HIDE DEF a
<1>4. \A y \in S : \E i \in 1..c : a[i] = y
  <2>1. \A i, j \in 1..c : a[i] = a[j] => i = j
    <3> TAKE i, j \in 1..c
    <3>1. a[i] \in S /\ a[j] \in S /\ i \in Nat /\ j \in Nat BY <1>1, <1>3
    <3>2. a[i] \in Nat /\ a[j] \in Nat
      <4>1. \A y \in S : y \in Nat OBVIOUS
      <4> QED BY <3>1, <4>1
    <3>3. (i < j => a[i] < a[j]) /\ (j < i => a[j] < a[i]) BY <1>3
    <3> QED BY <3>1, <3>2, <3>3
  <2>2. a \in Injection(1..c, S) BY <1>3, <2>1 DEF Injection, IsInjective
  <2>3. Cardinality(1..c) = c BY <1>1, FS_Interval
  <2>4. a \in Surjection(1..c, S) BY <1>1, <2>2, <2>3, FS_Injection
  <2> QED BY <2>4 DEF Surjection
<1>5. a \in Seq(S) /\ Len(a) = c /\ DOMAIN a = 1..c BY <1>1, <1>3, SeqDef
<1> QED BY <1>1, <1>3, <1>4, <1>5 DEF a

\* send_publish_dones ends the subscriptions of the track and its own PUBLISH,
\* each once.
LEMMA DonesOfFacts ==
    ASSUME NEW x \in States, NEW n \in Nat, RequestsKnown(x, n), NEW t \in Tracks,
           NEW d, d = DonesOf(x, t)
    PROVE  d \in Seq(Dones) /\ EndsTrack(x, t, d)
<1> DEFINE S == SubsOf(x, t)
           a == Ascending(S)
           own == IF t \in DOMAIN x.publishes /\ x.publishes[t] \notin x.terminated
                  THEN <<x.publishes[t]>> ELSE <<>>
           u == a \o own
<1>1. d = [i \in 1..Len(u) |-> Done(t, u[i])] BY DEF DonesOf
<1>2. S \in SUBSET (1..2 * n + 1) /\ S \subseteq AskedIds(n) /\ 2 * n + 1 \in Nat
  BY DEF SubsOf, RequestsKnown, AskedIds
<1>3. /\ a \in Seq(S) /\ Len(a) \in Nat /\ DOMAIN a = 1..Len(a)
      /\ \A i, j \in 1..Len(a) : i < j => a[i] < a[j]
      /\ \A y \in S : \E i \in 1..Len(a) : a[i] = y
  BY <1>2, IdsAscend
<1>4. OwnOf(x, t) \subseteq {2, 4} BY DEF OwnOf, RequestsKnown, PublishIds
<1>5. own \in Seq(OwnOf(x, t)) /\ Len(own) \in {0, 1} /\ DOMAIN own = 1..Len(own)
      /\ \A r \in OwnOf(x, t) : Len(own) = 1 /\ own[1] = r
  <2>1. CASE t \in DOMAIN x.publishes /\ x.publishes[t] \notin x.terminated
    <3>1. own = <<x.publishes[t]>> /\ OwnOf(x, t) = {x.publishes[t]} BY <2>1 DEF OwnOf
    <3> HIDE DEF own
    <3> QED BY <3>1
  <2>2. CASE ~(t \in DOMAIN x.publishes /\ x.publishes[t] \notin x.terminated)
    <3>1. own = <<>> /\ OwnOf(x, t) = {} BY <2>2 DEF OwnOf
    <3> HIDE DEF own
    <3> QED BY <3>1
  <2> QED BY <2>1, <2>2
<1>6. \A r \in S : r \notin OwnOf(x, t)
  <2> TAKE r \in S
  <2>1. PICK k \in 0..n - 1 : r = 2 * k + 1 BY <1>2 DEF AskedIds
  <2> QED BY <1>4, <2>1
<1> HIDE DEF a, own
<1> DEFINE I == S \cup OwnOf(x, t)
<1>7. a \in Seq(I) /\ own \in Seq(I) BY <1>3, <1>5
<1>8. /\ u \in Seq(I) /\ Len(u) = Len(a) + Len(own) /\ DOMAIN u = 1..Len(u)
      /\ \A i \in 1..Len(a) : u[i] = a[i]
      /\ \A i \in 1..Len(own) : u[Len(a) + i] = own[i]
  BY <1>7, Joined
<1> HIDE DEF u
<1>9. Len(u) \in Nat /\ \A i \in 1..Len(u) : u[i] \in I BY <1>3, <1>5, <1>8
<1>10. I \subseteq Nat BY <1>2, <1>4
<1>11. \A i \in 1..Len(u) : d[i] = Done(t, u[i]) /\ Done(t, u[i]) \in Dones
  BY <1>1, <1>9, <1>10 DEF Done, Dones
<1>12. d \in Seq(Dones) /\ Len(d) = Len(u) /\ DOMAIN d = 1..Len(u)
  <2>1. d \in [1..Len(u) -> Dones] BY <1>1, <1>11
  <2> QED BY <1>9, <2>1, SeqDef
<1>13. \A i \in 1..Len(u) : /\ d[i].track = "done" /\ d[i].object = t /\ d[i].closing = FALSE
                            /\ d[i].group = u[i]
  <2> TAKE i \in 1..Len(u)
  <2>1. d[i] = [track |-> "done", group |-> u[i], object |-> t, closing |-> FALSE] BY <1>11 DEF Done
  <2> QED BY <2>1
<1>14. ASSUME NEW i \in 1..Len(u), NEW j \in 1..Len(u), i < j PROVE u[i] # u[j]
  <2>1. CASE j <= Len(a)
    <3>1. a[i] < a[j] /\ a[i] \in Nat /\ a[j] \in Nat /\ u[i] = a[i] /\ u[j] = a[j]
      BY <1>2, <1>3, <1>8, <1>14, <2>1
    <3> QED BY <3>1
  <2>2. CASE ~(j <= Len(a))
    <3>1. Len(a) \in Nat /\ Len(own) \in {0, 1} /\ Len(u) = Len(a) + Len(own) BY <1>3, <1>5, <1>8
    <3>2. j = Len(a) + 1 /\ Len(own) = 1 /\ i \in 1..Len(a)
      <4>1. i \in Nat /\ j \in Nat /\ 1 <= i /\ i < j /\ j <= Len(a) + Len(own) BY <1>9, <1>14, <3>1
      <4>2. CASE Len(own) = 0 BY <2>2, <3>1, <4>1, <4>2
      <4>3. CASE Len(own) = 1
        <5>1. j = Len(a) + 1 BY <2>2, <3>1, <4>1, <4>3
        <5> QED BY <3>1, <4>1, <4>3, <5>1
      <4> QED BY <3>1, <4>2, <4>3
    <3>3. u[i] = a[i] /\ a[i] \in S BY <1>3, <1>8, <3>2
    <3>4. u[j] = own[1] /\ own[1] \in OwnOf(x, t)
      <4>1. 1 \in 1..Len(own) BY <3>2
      <4>2. u[Len(a) + 1] = own[1] BY <1>8, <4>1
      <4>3. own[1] \in OwnOf(x, t) BY <1>5, <4>1
      <4> QED BY <3>2, <4>2, <4>3
    <3> QED BY <1>6, <3>3, <3>4
  <2> QED BY <2>1, <2>2
<1>15. \A i, j \in 1..Len(u) : d[i].group = d[j].group => i = j
  <2> TAKE i, j \in 1..Len(u)
  <2>1. i < j \/ j < i \/ i = j BY <1>9
  <2> QED BY <1>13, <1>14, <2>1
<1>16. \A r \in I : \E i \in 1..Len(u) : d[i].group = r
  <2> TAKE r \in I
  <2>1. CASE r \in S
    <3>1. PICK i \in 1..Len(a) : a[i] = r BY <1>3, <2>1
    <3>2. i \in 1..Len(u) /\ u[i] = r BY <1>3, <1>5, <1>8, <3>1
    <3> QED BY <1>13, <3>2
  <2>2. CASE r \in OwnOf(x, t)
    <3>1. Len(own) = 1 /\ own[1] = r BY <1>5, <2>2
    <3>2. Len(a) + 1 \in 1..Len(u) /\ u[Len(a) + 1] = r BY <1>3, <1>8, <3>1
    <3> QED BY <1>13, <3>2
  <2> QED BY <2>1, <2>2
<1>17. DOMAIN d = 1..Len(u) /\ Len(d) = Len(u) BY <1>9, <1>12, <1>13
<1>18. EndsTrack(x, t, d) BY <1>9, <1>13, <1>15, <1>16, <1>17 DEF EndsTrack
<1> QED BY <1>12, <1>18

(* ---- types ---- *)

\* The records of the session, the source and the peer.
ObjectsTypes ==
  /\ scenario \in Scenarios /\ src \in Sources /\ peer \in Peers /\ s \in States
  /\ src.taken <= src.produced /\ src.produced <= Len(scenario.objects)

LEMMA ScenarioTypes ==
    ASSUME scenario \in Scenarios
    PROVE  /\ scenario.draft \in Nat /\ scenario.auto \in BOOLEAN /\ scenario.live \in BOOLEAN
           /\ scenario.objects \in Seq(SourceObjects) /\ Len(scenario.objects) \in Nat
           /\ DOMAIN scenario.objects = 1..Len(scenario.objects)
           /\ \A i \in 1..Len(scenario.objects) :
                /\ scenario.objects[i] \in SourceObjects
                /\ scenario.objects[i].closing => scenario.objects[i].track = "catalog"
           /\ \A i, j \in 1..Len(scenario.objects) :
                i < j /\ scenario.objects[i].track = "catalog" /\ scenario.objects[j].track = "catalog"
                  => Before(scenario.objects[i], scenario.objects[j])
  BY ScenariosAssumption

LEMMA InitialTypes == ObjectsInit => ObjectsTypes
<1> SUFFICES ASSUME ObjectsInit PROVE ObjectsTypes OBVIOUS
<1>1. scenario \in Scenarios /\ Len(scenario.objects) \in Nat /\ scenario.live \in BOOLEAN
  BY ScenarioTypes DEF ObjectsInit
<1>2. src \in Sources /\ src.taken <= src.produced /\ src.produced <= Len(scenario.objects)
  BY <1>1 DEF ObjectsInit, Sources
<1>3. peer \in Peers BY DEF ObjectsInit, Peers
<1>4. s \in States
  <2>1. <<>> \in MapsTo(Subs, Nat) /\ <<>> \in MapsTo({0, 1}, Tracks) /\ <<>> \in MapsTo({2, 4}, Tracks)
    BY MapEmpty
  <2> QED BY <2>1 DEF ObjectsInit, States, Points
<1> QED BY <1>1, <1>2, <1>3, <1>4 DEF ObjectsTypes

\* Types of what is compared.
LEMMA LocationTypes ==
    ASSUME NEW x \in States
    PROVE  /\ x.latest.group \in Nat /\ x.latest.object \in Nat
           /\ x.closing # None => x.closing.group \in Nat /\ x.closing.object \in Nat
           /\ DOMAIN x.out = 1..Len(x.out) /\ Len(x.out) \in Nat
           /\ DOMAIN x.group = 1..Len(x.group) /\ Len(x.group) \in Nat
           /\ DOMAIN x.sending = 1..Len(x.sending) /\ Len(x.sending) \in Nat
           /\ \A i \in DOMAIN x.out : /\ x.out[i] \in Messages
                                      /\ CatalogAt(x, i) => x.out[i].group \in Nat /\ x.out[i].object \in Nat
           /\ \A i \in DOMAIN x.group : /\ x.group[i] \in Catalogs
                                        /\ x.group[i].group \in Nat /\ x.group[i].object \in Nat
           /\ \A i \in DOMAIN x.sending : /\ x.sending[i] \in SourceObjects
                                          /\ x.sending[i].group \in Nat /\ x.sending[i].object \in Nat
<1>1. /\ x.latest \in Catalogs \cup {None} /\ x.closing \in Catalogs \cup {None}
      /\ x.out \in Seq(Messages) /\ x.group \in Seq(Catalogs) /\ x.sending \in Seq(SourceObjects)
  BY DEF States
<1>2. x.latest.group \in Nat /\ x.latest.object \in Nat BY <1>1 DEF Catalogs, None
<1>3. x.closing # None => x.closing.group \in Nat /\ x.closing.object \in Nat BY <1>1 DEF Catalogs
<1>4. DOMAIN x.out = 1..Len(x.out) /\ Len(x.out) \in Nat /\ \A i \in DOMAIN x.out : x.out[i] \in Messages
  BY <1>1
<1>5. DOMAIN x.group = 1..Len(x.group) /\ Len(x.group) \in Nat
      /\ \A i \in DOMAIN x.group : x.group[i] \in Catalogs
  BY <1>1
<1>6. DOMAIN x.sending = 1..Len(x.sending) /\ Len(x.sending) \in Nat
      /\ \A i \in DOMAIN x.sending : x.sending[i] \in SourceObjects
  BY <1>1
<1>7. \A i \in DOMAIN x.out : CatalogAt(x, i) => x.out[i].group \in Nat /\ x.out[i].object \in Nat
  BY <1>4 DEF CatalogAt, Messages, SourceObjects, Dones, Namespace, None
<1>8. \A i \in DOMAIN x.group : x.group[i].group \in Nat /\ x.group[i].object \in Nat BY <1>5 DEF Catalogs
<1>9. \A i \in DOMAIN x.sending : x.sending[i].group \in Nat /\ x.sending[i].object \in Nat
  BY <1>6 DEF SourceObjects
<1> QED BY <1>2, <1>3, <1>4, <1>5, <1>6, <1>7, <1>8, <1>9

(* ---- what a step leaves alone ---- *)

\* A step that changes subscriptions and PUBLISHes only.
LEMMA LoopFrame ==
    ASSUME NEW x \in States, NEW y \in States, SameLoop(x, y), NEW r, NEW p, NEW n, NEW os
    PROVE  /\ SendingKnown(x) => SendingKnown(y)
           /\ EndsInOrder(x) => EndsInOrder(y)
           /\ LeftInTime(x, r, p, os) => LeftInTime(y, r, p, os)
           /\ GroupKept(x, n, os) => GroupKept(y, n, os)
           /\ LocationsGrow(x) => LocationsGrow(y)
           /\ (Serving(y) <=> Serving(x)) /\ (Leaving(y) <=> Leaving(x)) /\ (Closing(y) <=> Closing(x))
<1>1. (Serving(y) <=> Serving(x)) /\ (Leaving(y) <=> Leaving(x)) /\ (Closing(y) <=> Closing(x))
  BY DEF SameLoop, Serving, Leaving, Closing
<1>2. SendingKnown(x) => SendingKnown(y) BY <1>1 DEF SameLoop, SendingKnown
<1>3. EndsInOrder(x) => EndsInOrder(y) BY <1>1 DEF SameLoop, EndsInOrder
<1>4. LeftInTime(x, r, p, os) => LeftInTime(y, r, p, os) BY <1>1 DEF SameLoop, LeftInTime
<1>5. GroupKept(x, n, os) => GroupKept(y, n, os) BY <1>1 DEF SameLoop, GroupKept
<1>6. LocationsGrow(x) => LocationsGrow(y) BY <1>1 DEF SameLoop, LocationsGrow, CatalogAt
<1> QED BY <1>1, <1>2, <1>3, <1>4, <1>5, <1>6

\* Before the flush no request has been ended.
LEMMA NoDonesYet ==
    ASSUME NEW x \in States, Serving(x) \/ Leaving(x), EndsInOrder(x), SendingKnown(x)
    PROVE  DonesKnown(x)
<1>1. \A i \in DOMAIN x.out : x.out[i].track # "done" BY DEF EndsInOrder, Tracks
<1>2. ~Closing(x) /\ x.result # "success" BY DEF Serving, Leaving, Closing, SendingKnown
<1> QED BY <1>1, <1>2 DEF DonesKnown

\* What the catalog owes survives changes of the subscriptions.
LEMMA OwedKept ==
    ASSUME NEW x \in States, NEW y \in States, SameLoop(x, y), CatalogOwed(x),
           \A q \in DOMAIN y.subs :
             \/ /\ q \in DOMAIN x.subs /\ y.subs[q].track = x.subs[q].track
                /\ y.subs[q].start = x.subs[q].start /\ y.subs[q].since = x.subs[q].since
                /\ y.subs[q].filled = x.subs[q].filled
             \/ /\ y.subs[q].since <= Len(x.out)
                /\ y.subs[q].start <= IF x.sentAny THEN x.largest + 1 ELSE 0
                /\ y.subs[q].track = "catalog" => y.unserved \/ y.subs[q].filled,
           (x.unserved => y.unserved) \/ SubsOf(y, "catalog") = {}
    PROVE  CatalogOwed(y)
<1>1. \A q \in DOMAIN y.subs : /\ y.subs[q].since <= Len(y.out)
                               /\ y.subs[q].start <= IF y.sentAny THEN y.largest + 1 ELSE 0
  BY DEF CatalogOwed, SameLoop
<1>2. ASSUME Serving(y), NEW q \in SubsOf(y, "catalog")
      PROVE  \/ y.unserved \/ y.subs[q].filled
             \/ y.pc = "sendCatalog" /\ y.sending # <<>>
             \/ \E i \in y.subs[q].since + 1..Len(y.out) : CatalogAt(y, i)
  <2>1. q \in DOMAIN y.subs /\ y.subs[q].track = "catalog" /\ (x.unserved => y.unserved) /\ Serving(x)
    BY <1>2, LoopFrame DEF SubsOf
  <2>2. CASE /\ q \in DOMAIN x.subs /\ y.subs[q].track = x.subs[q].track
             /\ y.subs[q].since = x.subs[q].since /\ y.subs[q].filled = x.subs[q].filled
    <3>1. q \in SubsOf(x, "catalog") BY <2>1, <2>2 DEF SubsOf
    <3>2. \/ x.unserved \/ x.subs[q].filled
          \/ x.pc = "sendCatalog" /\ x.sending # <<>>
          \/ \E i \in x.subs[q].since + 1..Len(x.out) : CatalogAt(x, i)
      BY <2>1, <3>1 DEF CatalogOwed
    <3> QED BY <2>1, <2>2, <3>2 DEF SameLoop, CatalogAt
  <2>3. CASE y.subs[q].track = "catalog" => y.unserved \/ y.subs[q].filled BY <2>1, <2>3
  <2> QED BY <2>1, <2>2, <2>3
<1> QED BY <1>1, <1>2 DEF CatalogOwed

\* A move of the session in its loop, or out of it: what was sent and what is
\* kept stay as they are.
SameData(x, y) ==
  /\ SameCatalog(x, y) /\ y.sent = x.sent /\ y.out = x.out /\ y.largest = x.largest
  /\ y.sentAny = x.sentAny /\ y.sending = x.sending /\ y.ret = x.ret /\ y.closing = x.closing

AtRest(x) == x.pc \in {"announce", "control", "permit", "source", "empty"}

LEMMA MoveFrame ==
    ASSUME NEW x \in States, NEW y \in States, SameData(x, y), SameRequests(x, y),
           y.unserved = x.unserved, AtRest(x),
           \/ AtRest(y) \/ y.pc = "flushGroups" \/ y.pc = "over",
           y.result # "none" => y.pc = "over", y.result # "success",
           SendingKnown(x), EndsInOrder(x), DonesKnown(x), LocationsGrow(x), CatalogOwed(x)
    PROVE  /\ SendingKnown(y) /\ EndsInOrder(y) /\ DonesKnown(y) /\ LocationsGrow(y) /\ CatalogOwed(y)
           /\ \A n, os : GroupKept(x, n, os) => GroupKept(y, n, os)
           /\ \A n : RequestsKnown(x, n) => RequestsKnown(y, n)
<1>1. Serving(x) /\ ~Closing(x) /\ ~Closing(y) /\ (Serving(y) \/ Leaving(y) => ~(y.pc = "over"))
  BY DEF AtRest, Serving, Leaving, Closing
<1>2. x.ret = "none" /\ x.sending = <<>> BY DEF AtRest, SendingKnown
<1>3. SendingKnown(y) BY <1>2 DEF SameData, AtRest, Leaving, SendingKnown
<1>4. EndsInOrder(y)
  <2>1. /\ ~x.latest.closing /\ \A i \in DOMAIN x.sending : ~x.sending[i].closing
        /\ \A i \in DOMAIN x.out : x.out[i].track \in Tracks /\ ~x.out[i].closing
    BY <1>1 DEF EndsInOrder
  <2> QED BY <1>1, <2>1 DEF SameData, SameCatalog, EndsInOrder
<1>5. DonesKnown(y)
  <2>1. \A i \in DOMAIN y.out : y.out[i].track # "done" BY <1>1 DEF EndsInOrder, Tracks, SameData
  <2> QED BY <1>1, <2>1 DEF DonesKnown
<1>6. LocationsGrow(y)
  <2>1. y.pc # "sendCatalog" /\ x.pc # "sendCatalog" /\ (Serving(y) => AtRest(y)) BY DEF AtRest, Serving
  <2> QED BY <1>1, <2>1 DEF SameData, SameCatalog, LocationsGrow, CatalogAt
<1>7. CatalogOwed(y)
  <2>1. SubsOf(y, "catalog") = SubsOf(x, "catalog") /\ y.subs = x.subs BY DEF SameRequests, SubsOf
  <2>2. x.pc # "sendCatalog" BY DEF AtRest
  <2> QED BY <1>1, <2>1, <2>2 DEF SameData, CatalogOwed, CatalogAt
<1>8. \A n, os : GroupKept(x, n, os) => GroupKept(y, n, os) BY <1>1 DEF GroupKept, SameData, SameCatalog
<1>9. \A n : RequestsKnown(x, n) => RequestsKnown(y, n) BY DEF RequestsKnown, SameRequests
<1> QED BY <1>3, <1>4, <1>5, <1>6, <1>7, <1>8, <1>9

\* Locations are ordered.
LEMMA BeforeFacts ==
    ASSUME NEW a, NEW b, NEW c, a.group \in Nat, a.object \in Nat, b.group \in Nat,
           b.object \in Nat, c.group \in Nat, c.object \in Nat
    PROVE  /\ Before(a, b) /\ Before(b, c) => Before(a, c)
           /\ ~Before(b, a) /\ Before(b, c) => Before(a, c)
           /\ Before(a, b) /\ ~Before(c, b) => Before(a, c)
           /\ Before(a, b) => ~Before(b, a)
  BY DEF Before

(* ---- control messages ---- *)

\* A message of the peer that does not disturb the requests or what the catalog owes.
LEMMA MessageStep ==
    ASSUME ObjectsTypes, ObjectsInv, Polling, s' \in States, SameLoop(s, s'), peer' \in Peers,
           RequestsKnown(s', peer'.asked), CatalogOwed(s'), UNCHANGED <<scenario, src>>
    PROVE  ObjectsTypes' /\ ObjectsInv'
<1>1. s \in States BY DEF ObjectsTypes
<1>2. Serving(s) BY DEF Polling, Serving
<1>3. SendingKnown(s') /\ EndsInOrder(s') /\ GroupKept(s', src.taken, scenario.objects) /\ LocationsGrow(s')
      /\ Serving(s')
  BY <1>1, <1>2, LoopFrame DEF ObjectsInv
<1>4. DonesKnown(s') BY <1>3, NoDonesYet
<1>5. LeftInTime(s', src', peer', scenario'.objects)
  BY <1>3 DEF LeftInTime, Serving, Leaving, Closing, SendingKnown
<1>6. ObjectsTypes'
  <2>1. scenario' \in Scenarios /\ src' \in Sources /\ src'.taken <= src'.produced
        /\ src'.produced <= Len(scenario'.objects)
    BY DEF ObjectsTypes
  <2> QED BY <2>1 DEF ObjectsTypes
<1>7. GroupKept(s', src'.taken, scenario'.objects) BY <1>3 DEF GroupKept
<1> QED BY <1>3, <1>4, <1>5, <1>6, <1>7 DEF ObjectsInv

LEMMA SubscribeStep ==
    ASSUME ObjectsTypes, ObjectsInv, HandleSubscribe
    PROVE  ObjectsTypes' /\ ObjectsInv'
<1> DEFINE n == peer.asked
           r == 2 * n + 1
<1>1. PICK t \in Tracks, f \in {0, 1}, later \in BOOLEAN, fill \in BOOLEAN :
        s' = Accepted(s, r, t, f, later, fill)
  BY DEF HandleSubscribe
<1>2. s \in States /\ n \in Nat /\ r \in Nat /\ peer \in Peers BY DEF ObjectsTypes, Peers
<1>3. peer' \in Peers /\ peer'.asked = n + 1 /\ Polling /\ UNCHANGED <<scenario, src>>
  BY <1>2 DEF HandleSubscribe, Peers
<1> HIDE DEF r, n
<1>4. /\ s' \in States /\ SameLoop(s, s')
      /\ s'.settings = s.settings /\ s'.publishes = s.publishes
      /\ s'.terminated = s.terminated /\ s'.ended = s.ended
      /\ \/ s'.subs = s.subs /\ s'.unserved = s.unserved
         \/ /\ DOMAIN s'.subs = DOMAIN s.subs \cup {r}
            /\ \A q \in DOMAIN s.subs : q # r => s'.subs[q] = s.subs[q]
            /\ s'.subs[r].track = t /\ s'.subs[r].since <= Len(s.out)
            /\ s'.subs[r].start <= IF s.sentAny THEN s.largest + 1 ELSE 0
            /\ t = "catalog" => s'.unserved \/ s'.subs[r].filled
            /\ s.unserved => s'.unserved
  <2>1. AcceptedAs(s, r, t, Accepted(s, r, t, f, later, fill)) BY <1>2, AcceptedFacts
  <2>2. Len(s.out) \in Nat BY <1>2, LocationTypes
  <2> QED BY <1>1, <2>1, <2>2 DEF AcceptedAs
<1>5. RequestsKnown(s, n) BY DEF ObjectsInv, n
<1>6. AskedIds(n) \subseteq AskedIds(n + 1) /\ r \in AskedIds(n + 1) /\ r \notin AskedIds(n)
  <2>1. n \in 0..(n + 1) - 1 /\ \A k \in 0..n - 1 : k \in 0..(n + 1) - 1 /\ r # 2 * k + 1 BY <1>2 DEF r
  <2> QED BY <2>1 DEF AskedIds, r
<1>7. RequestsKnown(s', n + 1) BY <1>4, <1>5, <1>6 DEF RequestsKnown
<1>8. CatalogOwed(s') BY <1>2, <1>4, OwedKept DEF ObjectsInv
<1> QED BY <1>3, <1>4, <1>7, <1>8, MessageStep

\* One subscription's forward state changes, or a PUBLISH's.
LEMMA UpdateStep ==
    ASSUME ObjectsTypes, ObjectsInv, HandleUpdate
    PROVE  ObjectsTypes' /\ ObjectsInv'
<1> DEFINE n == peer.asked
<1>1. PICK r \in DOMAIN s.subs, f \in {0, 1} :
        s' = Refreshed([s EXCEPT !.subs[r].forward = f], s.subs[r].track)
  BY DEF HandleUpdate
<1>2. s \in States /\ n \in Nat /\ peer \in Peers BY DEF ObjectsTypes, Peers
<1>3. peer' \in Peers /\ peer'.asked = n + 1 /\ Polling /\ UNCHANGED <<scenario, src>>
  BY <1>2 DEF HandleUpdate, Peers
<1>4. s.subs \in MapsTo(Subs, Nat) /\ s.subs[r] \in Subs BY <1>2, MapFacts DEF States
<1> DEFINE u == [s.subs[r] EXCEPT !.forward = f]
           m == [s.subs EXCEPT ![r] = u]
           z == [s EXCEPT !.subs = m]
<1>5. u \in Subs /\ u.track = s.subs[r].track /\ u.since = s.subs[r].since
      /\ u.filled = s.subs[r].filled /\ u.start = s.subs[r].start
  BY <1>4 DEF Subs
<1>6. s.subs[r].track \in Tracks BY <1>4 DEF Subs
<1>7. s' = Refreshed(z, s.subs[r].track) BY <1>1
<1> HIDE DEF u
<1>8. /\ m \in MapsTo(Subs, Nat) /\ DOMAIN m = DOMAIN s.subs /\ m[r] = u
      /\ \A q \in DOMAIN s.subs : q # r => m[q] = s.subs[q]
  BY <1>4, <1>5, MapReplaced
<1> HIDE DEF m
<1>9. /\ z \in States /\ SameLoop(s, z) /\ z.subs = m /\ z.settings = s.settings
      /\ z.publishes = s.publishes /\ z.terminated = s.terminated /\ z.ended = s.ended
      /\ z.unserved = s.unserved
  <2>1. z \in States BY <1>2, <1>8 DEF States
  <2> QED BY <1>2, <2>1 DEF States, SameLoop
<1> HIDE DEF z, n
<1>10. s' \in States /\ SameLoop(z, s') /\ SameRequests(z, s') /\ s'.unserved = z.unserved
  BY <1>6, <1>7, <1>9, RefreshedFacts
<1>11. /\ s' \in States /\ SameLoop(s, s') /\ s'.subs = m /\ s'.settings = s.settings
       /\ s'.publishes = s.publishes /\ s'.ended = s.ended /\ s'.unserved = s.unserved
  BY <1>9, <1>10 DEF SameLoop, SameRequests
<1>12. RequestsKnown(s', n + 1)
  <2>1. AskedIds(n) \subseteq AskedIds(n + 1) BY <1>2 DEF AskedIds
  <2>2. RequestsKnown(s, n) BY DEF ObjectsInv, n
  <2> QED BY <1>8, <1>11, <2>1, <2>2 DEF RequestsKnown
<1>13. CatalogOwed(s')
  <2>1. \A q \in DOMAIN s'.subs :
          /\ q \in DOMAIN s.subs /\ s'.subs[q].track = s.subs[q].track
          /\ s'.subs[q].start = s.subs[q].start /\ s'.subs[q].since = s.subs[q].since
          /\ s'.subs[q].filled = s.subs[q].filled
    <3> TAKE q \in DOMAIN s'.subs
    <3>1. CASE q = r BY <1>5, <1>8, <1>11, <3>1
    <3>2. CASE q # r BY <1>8, <1>11, <3>2
    <3> QED BY <3>1, <3>2
  <2> QED BY <1>2, <1>11, <2>1, OwedKept DEF ObjectsInv
<1> QED BY <1>3, <1>11, <1>12, <1>13, MessageStep

LEMMA TracksStep ==
    ASSUME ObjectsTypes, ObjectsInv, HandleTracks
    PROVE  ObjectsTypes' /\ ObjectsInv'
<1>1. PICK a \in Answers : s' = Publishing(s, a) BY DEF HandleTracks
<1>2. s \in States /\ peer \in Peers BY DEF ObjectsTypes
<1>3. peer' \in Peers /\ peer' = peer /\ Polling /\ UNCHANGED <<scenario, src>> BY <1>2 DEF HandleTracks
<1>4. /\ s' \in States /\ SameLoop(s, s')
      /\ s'.subs = s.subs /\ s'.terminated = s.terminated /\ s'.ended = s.ended
      /\ s'.unserved = s.unserved
      /\ \/ s'.publishes = s.publishes /\ s'.settings = s.settings
         \/ s.publishes = <<>> /\ s'.publishes = PublishIds
  BY <1>1, <1>2, PublishingFacts
<1>5. DOMAIN s'.settings \subseteq Tracks BY <1>4, MapFacts DEF States
<1>6. RequestsKnown(s', peer'.asked) BY <1>3, <1>4, <1>5 DEF RequestsKnown, ObjectsInv, PublishIds
<1>7. CatalogOwed(s') BY <1>2, <1>4, OwedKept DEF ObjectsInv
<1> QED BY <1>3, <1>4, <1>6, <1>7, MessageStep

LEMMA PublishUpdateStep ==
    ASSUME ObjectsTypes, ObjectsInv, HandlePublishUpdate
    PROVE  ObjectsTypes' /\ ObjectsInv'
<1> DEFINE n == peer.asked
<1>1. PICK t \in DOMAIN s.settings, f \in {0, 1} :
        s' = Refreshed([s EXCEPT !.settings[t] = f], t)
  BY DEF HandlePublishUpdate
<1>2. s \in States /\ n \in Nat /\ peer \in Peers BY DEF ObjectsTypes, Peers
<1>3. peer' \in Peers /\ peer'.asked = n + 1 /\ Polling /\ UNCHANGED <<scenario, src>>
  BY <1>2 DEF HandlePublishUpdate, Peers
<1>4. s.settings \in MapsTo({0, 1}, Tracks) /\ t \in Tracks BY <1>2, MapFacts DEF States
<1> DEFINE m == [s.settings EXCEPT ![t] = f]
           z == [s EXCEPT !.settings = m]
<1>5. m \in MapsTo({0, 1}, Tracks) /\ DOMAIN m = DOMAIN s.settings BY <1>4, MapReplaced
<1>6. s' = Refreshed(z, t) BY <1>1
<1> HIDE DEF m
<1>7. /\ z \in States /\ SameLoop(s, z) /\ z.subs = s.subs /\ z.settings = m
      /\ z.publishes = s.publishes /\ z.ended = s.ended /\ z.unserved = s.unserved
  <2>1. z \in States BY <1>2, <1>5 DEF States
  <2> QED BY <1>2, <2>1 DEF States, SameLoop
<1> HIDE DEF z, n
<1>8. s' \in States /\ SameLoop(z, s') /\ SameRequests(z, s') /\ s'.unserved = z.unserved
  BY <1>4, <1>6, <1>7, RefreshedFacts
<1>9. /\ s' \in States /\ SameLoop(s, s') /\ s'.subs = s.subs /\ s'.settings = m
      /\ s'.publishes = s.publishes /\ s'.ended = s.ended /\ s'.unserved = s.unserved
  BY <1>7, <1>8 DEF SameLoop, SameRequests
<1>10. RequestsKnown(s', n + 1)
  <2>1. AskedIds(n) \subseteq AskedIds(n + 1) BY <1>2 DEF AskedIds
  <2>2. RequestsKnown(s, n) BY DEF ObjectsInv, n
  <2> QED BY <1>5, <1>9, <2>1, <2>2 DEF RequestsKnown
<1>11. CatalogOwed(s') BY <1>2, <1>9, OwedKept DEF ObjectsInv
<1> QED BY <1>3, <1>9, <1>10, <1>11, MessageStep

LEMMA PublishStopStep ==
    ASSUME ObjectsTypes, ObjectsInv, HandlePublishStop
    PROVE  ObjectsTypes' /\ ObjectsInv'
<1>1. PICK t \in DOMAIN s.settings :
        s' = Refreshed([s EXCEPT !.settings = Drop(@, t),
                                 !.terminated = @ \cup {s.publishes[t]}], t)
  BY DEF HandlePublishStop
<1>2. s \in States /\ peer \in Peers BY DEF ObjectsTypes
<1>3. peer' \in Peers /\ peer' = peer /\ Polling /\ UNCHANGED <<scenario, src>>
  BY <1>2 DEF HandlePublishStop
<1>4. s.settings \in MapsTo({0, 1}, Tracks) /\ t \in Tracks /\ s.terminated \in SUBSET {2, 4}
  BY <1>2, MapFacts DEF States
<1>5. RequestsKnown(s, peer.asked) BY DEF ObjectsInv
<1> DEFINE m == Drop(s.settings, t)
           e == s.terminated \cup {s.publishes[t]}
           z == [s EXCEPT !.settings = m, !.terminated = e]
<1>6. m \in MapsTo({0, 1}, Tracks) /\ DOMAIN m = DOMAIN s.settings \ {t}
  <2>1. m \in MapsTo({0, 1}, Tracks) BY <1>4, MapDrop
  <2> QED BY <2>1 DEF Drop
<1>7. e \in SUBSET {2, 4}
  <2>1. s.publishes = PublishIds /\ s.publishes[t] \in {2, 4} BY <1>4, <1>5 DEF RequestsKnown, PublishIds
  <2> QED BY <1>4, <2>1
<1>8. s' = Refreshed(z, t) BY <1>1
<1> HIDE DEF m, e
<1>9. /\ z \in States /\ SameLoop(s, z) /\ z.subs = s.subs /\ z.settings = m
      /\ z.publishes = s.publishes /\ z.ended = s.ended /\ z.unserved = s.unserved
  <2>1. z \in States BY <1>2, <1>6, <1>7 DEF States
  <2> QED BY <1>2, <2>1 DEF States, SameLoop
<1> HIDE DEF z
<1>10. s' \in States /\ SameLoop(z, s') /\ SameRequests(z, s') /\ s'.unserved = z.unserved
  BY <1>4, <1>8, <1>9, RefreshedFacts
<1>11. /\ s' \in States /\ SameLoop(s, s') /\ s'.subs = s.subs /\ s'.settings = m
       /\ s'.publishes = s.publishes /\ s'.ended = s.ended /\ s'.unserved = s.unserved
  BY <1>9, <1>10 DEF SameLoop, SameRequests
<1>12. RequestsKnown(s', peer'.asked) BY <1>3, <1>5, <1>6, <1>11 DEF RequestsKnown
<1>13. CatalogOwed(s') BY <1>2, <1>11, OwedKept DEF ObjectsInv
<1> QED BY <1>3, <1>11, <1>12, <1>13, MessageStep

LEMMA FinStep ==
    ASSUME ObjectsTypes, ObjectsInv, HandleFin
    PROVE  ObjectsTypes' /\ ObjectsInv'
<1>1. s \in States /\ peer \in Peers BY DEF ObjectsTypes
<1>2. peer' \in Peers /\ peer'.asked = peer.asked /\ s' = s /\ Polling /\ UNCHANGED <<scenario, src>>
  BY <1>1 DEF HandleFin, Peers
<1>3. SameLoop(s, s') BY <1>2 DEF SameLoop
<1> QED BY <1>1, <1>2, <1>3, MessageStep DEF ObjectsInv

\* A subscription ends in the loop, or while the last groups are finished: then
\* its PUBLISH_DONE is written already or is not sent any more.
LEMMA EndStep ==
    ASSUME ObjectsTypes, ObjectsInv, HandleEnd
    PROVE  ObjectsTypes' /\ ObjectsInv'
<1>1. PICK r \in DOMAIN s.subs : s' = Ended(s, r) BY DEF HandleEnd
<1>2. s \in States /\ peer \in Peers BY DEF ObjectsTypes
<1>3. peer' \in Peers /\ peer' = peer /\ src' = src /\ scenario' = scenario BY <1>2 DEF HandleEnd
<1>4. /\ s' \in States /\ SameLoop(s, s')
      /\ s'.settings = s.settings /\ s'.publishes = s.publishes
      /\ s'.terminated = s.terminated /\ s'.ended = s.ended \cup ({r} \ DoneIds(s))
      /\ DOMAIN s'.subs = DOMAIN s.subs \ {r}
      /\ \A q \in DOMAIN s'.subs : s'.subs[q] = s.subs[q]
      /\ s'.unserved = s.unserved \/ SubsOf(s', "catalog") = {}
  BY <1>1, <1>2, EndedFacts
<1>5. RequestsKnown(s', peer'.asked)
  <2>1. RequestsKnown(s, peer.asked) BY DEF ObjectsInv
  <2>2. DOMAIN s'.subs \subseteq AskedIds(peer.asked) /\ s'.ended \subseteq AskedIds(peer.asked)
        /\ s'.ended \cap DOMAIN s'.subs = {}
    BY <1>4, <2>1 DEF RequestsKnown
  <2> QED BY <1>3, <1>4, <2>1, <2>2 DEF RequestsKnown
<1>6. CatalogOwed(s')
  <2>1. (s.unserved => s'.unserved) \/ SubsOf(s', "catalog") = {} BY <1>4
  <2>2. \A q \in DOMAIN s'.subs :
          /\ q \in DOMAIN s.subs /\ s'.subs[q].track = s.subs[q].track
          /\ s'.subs[q].start = s.subs[q].start /\ s'.subs[q].since = s.subs[q].since
          /\ s'.subs[q].filled = s.subs[q].filled
    BY <1>4
  <2> QED BY <1>2, <1>4, <2>1, <2>2, OwedKept DEF ObjectsInv
<1>7. CASE Polling BY <1>3, <1>4, <1>5, <1>6, <1>7, MessageStep
<1>8. CASE ~s.stop /\ (s.pc = "flushGroups" \/ s.ret = "flush")
  <2>1. Leaving(s) \/ Closing(s) BY <1>2, <1>8 DEF ObjectsInv, SendingKnown, Leaving, Closing, States
  <2>2. /\ SendingKnown(s') /\ EndsInOrder(s') /\ LocationsGrow(s')
        /\ GroupKept(s', src.taken, scenario.objects)
        /\ LeftInTime(s', src, peer, scenario.objects)
        /\ (Leaving(s') <=> Leaving(s)) /\ (Closing(s') <=> Closing(s))
    BY <1>2, <1>4, LoopFrame DEF ObjectsInv
  <2>3. DonesKnown(s')
    <3>1. CASE Leaving(s) BY <1>4, <2>2, <3>1, NoDonesYet
    <3>2. CASE Closing(s)
      <4>1. DonesKnown(s) /\ s'.out = s.out /\ s'.result = s.result /\ s.result # "success"
        BY <1>4, <3>2 DEF ObjectsInv, SameLoop, SendingKnown, Closing
      <4>2. \A i \in DOMAIN s.out : s.out[i].track = "done" =>
              s.out[i].group \in DoneIds(s)
        BY DEF DoneIds
      <4>3. \A i \in DOMAIN s'.out : s'.out[i].track = "done" =>
              s'.out[i].group \notin s'.ended \cup s'.terminated
        BY <1>4, <4>1, <4>2 DEF DonesKnown
      <4>4. \A i \in DOMAIN s'.out : s'.out[i].track = "done" =>
              /\ s'.out[i].group # 2
              /\ (s'.out[i].group \in DOMAIN s'.subs) => s'.subs[s'.out[i].group].track = "video"
        BY <1>4, <3>2, <4>1 DEF DonesKnown
      <4>5. \A q \in SubsOf(s', "video") : \E i \in DOMAIN s'.out : IsDone(s', i, q)
        <5> TAKE q \in SubsOf(s', "video")
        <5>1. q \in SubsOf(s, "video") BY <1>4 DEF SubsOf
        <5> QED BY <3>2, <4>1, <5>1 DEF DonesKnown, IsDone
      <4>6. s'.publishes # <<>> /\ 4 \notin s'.terminated => \E i \in DOMAIN s'.out : IsDone(s', i, 4)
        BY <1>4, <3>2, <4>1 DEF DonesKnown, IsDone
      <4>7. \A i, j \in DOMAIN s'.out :
              (s'.out[i].track = "done" /\ s'.out[j].track = "done"
                 /\ s'.out[i].group = s'.out[j].group) => i = j
        BY <4>1 DEF DonesKnown
      <4> QED BY <4>1, <4>3, <4>4, <4>5, <4>6, <4>7 DEF DonesKnown
    <3> QED BY <2>1, <3>1, <3>2
  <2>4. ObjectsTypes' BY <1>3, <1>4 DEF ObjectsTypes
  <2> QED BY <1>3, <1>5, <1>6, <2>2, <2>3, <2>4 DEF ObjectsInv
<1> QED BY <1>7, <1>8 DEF HandleEnd

(* ---- the source and close() ---- *)

LEMMA SourceStep ==
    ASSUME ObjectsTypes, ObjectsInv, SourceProduces \/ SourceCloses
    PROVE  ObjectsTypes' /\ ObjectsInv'
<1>1. s' = s /\ peer' = peer /\ scenario' = scenario BY DEF SourceProduces, SourceCloses
<1>2. src \in Sources /\ scenario \in Scenarios /\ src.taken <= src.produced
      /\ src.produced <= Len(scenario.objects) /\ Len(scenario.objects) \in Nat
  BY ScenarioTypes DEF ObjectsTypes
<1>3. /\ src' \in Sources /\ src'.taken = src.taken /\ src'.taken <= src'.produced
      /\ src'.produced <= Len(scenario.objects) /\ (src.closed => src'.closed)
  <2>1. CASE SourceProduces BY <1>2, <2>1 DEF SourceProduces, Sources
  <2>2. CASE SourceCloses BY <1>2, <2>2 DEF SourceCloses, Sources
  <2> QED BY <2>1, <2>2
<1>4. ObjectsTypes' BY <1>1, <1>3 DEF ObjectsTypes
<1>5. LeftInTime(s', src', peer', scenario'.objects) BY <1>1, <1>3 DEF LeftInTime, ObjectsInv
<1> QED BY <1>1, <1>3, <1>4, <1>5 DEF ObjectsInv

LEMMA StopStep ==
    ASSUME ObjectsTypes, ObjectsInv, Stop
    PROVE  ObjectsTypes' /\ ObjectsInv'
<1>1. src' = src /\ peer' = peer /\ scenario' = scenario /\ s' = [s EXCEPT !.stop = TRUE] BY DEF Stop
<1>2. s \in States BY DEF ObjectsTypes
<1>3. s' \in States /\ s'.stop BY <1>1, <1>2 DEF States
<1>4. /\ s'.pc = s.pc /\ s'.result = s.result /\ s'.ret = s.ret /\ s'.closing = s.closing
      /\ SameData(s, s') /\ SameRequests(s, s') /\ s'.unserved = s.unserved
  BY <1>1, <1>2 DEF States, SameData, SameCatalog, SameRequests
<1> HIDE DEF Stop
<1>5. (Serving(s') <=> Serving(s)) /\ (Leaving(s') <=> Leaving(s)) /\ (Closing(s') <=> Closing(s))
  BY <1>4 DEF Serving, Leaving, Closing
<1>6. ObjectsTypes' BY <1>1, <1>3 DEF ObjectsTypes
<1>7. SendingKnown(s') BY <1>3, <1>4, <1>5 DEF ObjectsInv, SendingKnown, SameData
<1>8. EndsInOrder(s') BY <1>4, <1>5 DEF ObjectsInv, EndsInOrder, SameData, SameCatalog
<1>9. RequestsKnown(s', peer'.asked) BY <1>1, <1>4 DEF ObjectsInv, RequestsKnown, SameRequests
<1>10. DonesKnown(s')
  <2>1. SubsOf(s', "video") = SubsOf(s, "video") BY <1>4 DEF SubsOf, SameRequests
  <2> QED BY <1>3, <1>4, <1>5, <2>1 DEF ObjectsInv, DonesKnown, SameRequests, SameData, IsDone
<1>11. LeftInTime(s', src', peer', scenario'.objects) BY <1>3 DEF LeftInTime
<1>12. GroupKept(s', src'.taken, scenario'.objects)
  BY <1>1, <1>4, <1>5 DEF ObjectsInv, GroupKept, SameData, SameCatalog
<1>13. LocationsGrow(s') BY <1>4, <1>5 DEF ObjectsInv, LocationsGrow, SameData, SameCatalog, CatalogAt
<1>14. CatalogOwed(s')
  <2>1. SubsOf(s', "catalog") = SubsOf(s, "catalog") BY <1>4 DEF SubsOf, SameRequests
  <2> QED BY <1>4, <1>5, <2>1 DEF ObjectsInv, CatalogOwed, SameData, SameRequests, CatalogAt
<1> QED BY <1>6, <1>7, <1>8, <1>9, <1>10, <1>11, <1>12, <1>13, <1>14 DEF ObjectsInv

(* ---- the catalog ---- *)

\* Moving a location to a group.
LEMMA MovedFacts ==
    ASSUME NEW o \in Catalogs, NEW g \in Nat
    PROVE  /\ MovedTo(o, g) \in Catalogs /\ MovedTo(o, g).group = g
           /\ MovedTo(o, g).object = o.object /\ MovedTo(o, g).closing = o.closing
           /\ MovedTo(o, g).track = "catalog" /\ MovedTo(o, g) # None
  BY DEF MovedTo, Catalogs, None

\* What send_retained_catalog starts to send comes after all that was sent.
LEMMA BegunLocations ==
    ASSUME NEW x \in States, NEW ret \in {"permit", "control", "flush"},
           NEW y, y = CatalogBegun(x, ret),
           \A i \in DOMAIN x.out : CatalogAt(x, i) => ~Before(x.latest, x.out[i]),
           ~x.sent => \A i \in DOMAIN x.out : CatalogAt(x, i) => Before(x.out[i], x.latest),
           \A i, j \in DOMAIN x.group : i < j => x.group[i].object < x.group[j].object,
           x.sending = <<>>, x.pc # "sendCatalog"
    PROVE  y.pc = "sendCatalog" =>
             /\ \A i, j \in DOMAIN y.sending : i < j => Before(y.sending[i], y.sending[j])
             /\ \A i \in DOMAIN y.out, j \in DOMAIN y.sending :
                  CatalogAt(y, i) => Before(y.out[i], y.sending[j])
<1> SUFFICES ASSUME y.pc = "sendCatalog"
             PROVE  /\ \A i, j \in DOMAIN y.sending : i < j => Before(y.sending[i], y.sending[j])
                    /\ \A i \in DOMAIN y.out, j \in DOMAIN y.sending :
                         CatalogAt(y, i) => Before(y.out[i], y.sending[j])
  OBVIOUS
<1>1. /\ y \in States /\ SameEnd(x, y)
      /\ \/ y.sending = <<x.latest>> /\ ~x.sent
         \/ y.sending = x.sending
         \/ \E g \in Nat :
            /\ g > x.latest.group
            /\ y.sending = y.group /\ DOMAIN y.group = DOMAIN x.group
            /\ \A i \in DOMAIN x.group : y.group[i] = MovedTo(x.group[i], g)
  BY BegunFacts
<1>2. y.out = x.out /\ \A i : CatalogAt(y, i) <=> CatalogAt(x, i) BY <1>1 DEF SameEnd, CatalogAt
<1>3. CASE y.sending = <<x.latest>> /\ ~x.sent BY <1>2, <1>3
<1>4. CASE y.sending = x.sending BY <1>4
<1>5. ASSUME NEW g \in Nat, g > x.latest.group, y.sending = y.group, DOMAIN y.group = DOMAIN x.group,
             \A i \in DOMAIN x.group : y.group[i] = MovedTo(x.group[i], g)
      PROVE  /\ \A i, j \in DOMAIN y.sending : i < j => Before(y.sending[i], y.sending[j])
             /\ \A i \in DOMAIN y.out, j \in DOMAIN y.sending :
                  CatalogAt(y, i) => Before(y.out[i], y.sending[j])
  <2>1. \A i \in DOMAIN y.sending : /\ i \in DOMAIN x.group /\ y.sending[i].group = g
                                    /\ y.sending[i].object = x.group[i].object
    <3> TAKE i \in DOMAIN y.sending
    <3>1. i \in DOMAIN x.group /\ y.sending[i] = MovedTo(x.group[i], g) BY <1>5
    <3>2. x.group[i] \in Catalogs BY <3>1, LocationTypes
    <3> QED BY <3>1, <3>2, MovedFacts
  <2>2. \A i, j \in DOMAIN y.sending : i < j => Before(y.sending[i], y.sending[j]) BY <2>1 DEF Before
  <2>3. \A i \in DOMAIN x.out : CatalogAt(x, i) => x.out[i].group < g
    <3> TAKE i \in DOMAIN x.out
    <3> SUFFICES ASSUME CatalogAt(x, i) PROVE x.out[i].group < g OBVIOUS
    <3>1. x.out[i].group \in Nat /\ x.latest.group \in Nat BY LocationTypes
    <3>2. ~(x.latest.group < x.out[i].group) BY DEF Before
    <3> QED BY <1>5, <3>1, <3>2
  <2> QED BY <1>2, <2>1, <2>2, <2>3 DEF Before
<1> QED BY <1>1, <1>3, <1>4, <1>5

\* The invariant of a record between the actions that compute it.
RecordInv(x, n, taken, os) ==
  /\ SendingKnown(x) /\ EndsInOrder(x) /\ RequestsKnown(x, n) /\ DonesKnown(x)
  /\ GroupKept(x, taken, os) /\ LocationsGrow(x) /\ CatalogOwed(x)

\* A location stays before another when the offset of the other grows by as much
\* as its own group.
LEMMA ShiftKeepsOrder ==
  ASSUME NEW a \in Int, NEW d \in Int, NEW p \in Int, NEW g \in Int, NEW less \in BOOLEAN,
         a < p + d \/ (a = p + d /\ less)
  PROVE  g < p + (d + (g - a)) \/ (g = p + (d + (g - a)) /\ less)
<1>1. a < p + d => g < p + (d + (g - a)) OBVIOUS
<1>2. a = p + d => g = p + (d + (g - a)) OBVIOUS
<1> QED BY <1>1, <1>2

\* send_retained_catalog, called from the loop.
LEMMA BegunStep ==
    ASSUME NEW x \in States, AtRest(x), NEW ret \in {"permit", "control"},
           NEW y, y = CatalogBegun(x, ret), NEW n, NEW taken \in Nat, NEW os \in Seq(SourceObjects),
           RecordInv(x, n, taken, os)
    PROVE  y \in States /\ RecordInv(y, n, taken, os) /\ Serving(y)
<1> DEFINE Moves(g) ==
             /\ g > x.latest.group /\ (x.sentAny => g > x.largest)
             /\ y.latest = MovedTo(x.latest, g)
             /\ y.offset = x.offset + (g - x.latest.group)
             /\ y.sending = y.group /\ DOMAIN y.group = DOMAIN x.group
             /\ \A i \in DOMAIN x.group : y.group[i] = MovedTo(x.group[i], g)
           Skipped == /\ y.sending = x.sending /\ SameCatalog(x, y)
                      /\ \A r \in SubsOf(x, "catalog") : ~(x.subs[r].start <= NextCatalogGroup(x))
           First == y.sending = <<x.latest>> /\ ~x.sent /\ SameCatalog(x, y)
           Rests == /\ y.pc = ret /\ y.ret = x.ret /\ y.unserved = x.unserved
                    /\ y.sending = x.sending /\ SameCatalog(x, y)
           Sends == x.latest # None /\ y.pc = "sendCatalog" /\ y.ret = ret
<1>1. /\ y \in States /\ SameRequests(x, y) /\ SameEnd(x, y)
      /\ Rests \/ (Sends /\ (First \/ Skipped \/ \E g \in Nat : Moves(g)))
  BY BegunFacts
<1> HIDE DEF Moves, Skipped, First, Rests, Sends
<1>2. /\ SendingKnown(x) /\ EndsInOrder(x) /\ RequestsKnown(x, n) /\ DonesKnown(x)
      /\ GroupKept(x, taken, os) /\ LocationsGrow(x) /\ CatalogOwed(x)
  BY DEF RecordInv
<1>3. x.ret = "none" /\ x.sending = <<>> /\ x.closing = None /\ x.result = "none" /\ Serving(x)
      /\ x.pc # "sendCatalog"
  BY <1>2 DEF AtRest, SendingKnown, Serving, Leaving
<1>4. /\ y.out = x.out /\ y.closing = None /\ y.result = "none" /\ y.largest = x.largest
      /\ y.sentAny = x.sentAny /\ y.sent = x.sent /\ y.subs = x.subs
      /\ \A i : CatalogAt(y, i) <=> CatalogAt(x, i)
  BY <1>1, <1>3 DEF SameEnd, SameRequests, CatalogAt
<1>5. Rests => CatalogOwed(y) /\ RecordInv(y, n, taken, os) /\ Serving(y)
  <2> SUFFICES ASSUME Rests PROVE CatalogOwed(y) /\ RecordInv(y, n, taken, os) /\ Serving(y) OBVIOUS
  <2>1. AtRest(y) /\ SameData(x, y) /\ y.unserved = x.unserved /\ y.result = "none"
    BY <1>1, <1>3, <1>4 DEF Rests, AtRest, SameData, SameEnd
  <2> QED BY <1>1, <1>2, <2>1, MoveFrame DEF RecordInv, AtRest, Serving
<1>6. ASSUME Sends PROVE RecordInv(y, n, taken, os) /\ Serving(y)
  <2>1. x.latest # None /\ y.pc = "sendCatalog" /\ y.ret \in {"permit", "control"} /\ Serving(y)
        /\ x.latest \in Catalogs
    BY <1>6 DEF Sends, Serving, States
  <2>2. First \/ Skipped \/ \E g \in Nat : Moves(g) BY <1>1, <2>1 DEF Rests
  <2>4. ASSUME NEW g \in Nat, Moves(g)
        PROVE  /\ y.sending = y.group /\ DOMAIN y.group = DOMAIN x.group /\ g > x.latest.group
               /\ y.latest \in Catalogs /\ y.latest # None /\ y.latest.group = g
               /\ y.latest.object = x.latest.object /\ y.latest.closing = x.latest.closing
               /\ y.offset = x.offset + (g - x.latest.group)
               /\ \A i \in DOMAIN x.group :
                    /\ y.group[i].group = g /\ y.group[i].object = x.group[i].object
                    /\ y.group[i].closing = x.group[i].closing /\ y.group[i].track = "catalog"
    <3>1. /\ y.latest = MovedTo(x.latest, g) /\ y.sending = y.group /\ DOMAIN y.group = DOMAIN x.group
          /\ g > x.latest.group /\ y.offset = x.offset + (g - x.latest.group)
          /\ \A i \in DOMAIN x.group : y.group[i] = MovedTo(x.group[i], g) /\ x.group[i] \in Catalogs
      BY <2>4, LocationTypes DEF Moves
    <3>2. /\ y.latest \in Catalogs /\ y.latest # None /\ y.latest.group = g
          /\ y.latest.object = x.latest.object /\ y.latest.closing = x.latest.closing
      <4>1. x.latest \in Catalogs /\ g \in Nat /\ y.latest = MovedTo(x.latest, g) BY <2>1, <3>1
      <4>2. /\ MovedTo(x.latest, g) \in Catalogs /\ MovedTo(x.latest, g).group = g
            /\ MovedTo(x.latest, g).object = x.latest.object
            /\ MovedTo(x.latest, g).closing = x.latest.closing /\ MovedTo(x.latest, g) # None
        BY <4>1, MovedFacts
      <4> QED BY <4>1, <4>2
    <3>3. \A i \in DOMAIN x.group :
                    /\ y.group[i].group = g /\ y.group[i].object = x.group[i].object
                    /\ y.group[i].closing = x.group[i].closing /\ y.group[i].track = "catalog"
      <4> TAKE i \in DOMAIN x.group
      <4>1. x.group[i] \in Catalogs /\ y.group[i] = MovedTo(x.group[i], g) BY <3>1
      <4>2. /\ MovedTo(x.group[i], g).group = g /\ MovedTo(x.group[i], g).object = x.group[i].object
            /\ MovedTo(x.group[i], g).closing = x.group[i].closing
            /\ MovedTo(x.group[i], g).track = "catalog"
        BY <4>1, MovedFacts
      <4> QED BY <4>1, <4>2
    <3> QED BY <3>1, <3>2, <3>3
  <2>5. Skipped => y.sending = <<>> /\ y.latest = x.latest /\ y.group = x.group /\ y.offset = x.offset
    BY <1>3 DEF Skipped, SameCatalog
  <2>6. First => /\ y.sending = <<x.latest>> /\ DOMAIN y.sending = {1} /\ y.sending[1] = x.latest
                 /\ ~x.sent /\ y.latest = x.latest /\ y.group = x.group /\ y.offset = x.offset
    <3> SUFFICES ASSUME First
                 PROVE  /\ y.sending = <<x.latest>> /\ DOMAIN y.sending = {1} /\ y.sending[1] = x.latest
                        /\ ~x.sent /\ y.latest = x.latest /\ y.group = x.group /\ y.offset = x.offset
      OBVIOUS
    <3>1. y.sending = <<x.latest>> /\ ~x.sent /\ y.latest = x.latest /\ y.group = x.group
          /\ y.offset = x.offset
      BY DEF First, SameCatalog
    <3> QED BY <3>1
  <2>7. ~x.latest.closing /\ (\A i \in DOMAIN x.group : ~x.group[i].closing)
        /\ \A i \in DOMAIN x.out : x.out[i].track \in Tracks /\ ~x.out[i].closing
    BY <1>2, <1>3 DEF EndsInOrder
  <2>8. SendingKnown(y)
    <3>1. \A i \in DOMAIN y.sending : y.sending[i].track = "catalog"
      <4>1. x.latest.track = "catalog" BY <2>1 DEF Catalogs
      <4> QED BY <2>2, <2>4, <2>5, <2>6, <4>1
    <3> QED BY <1>4, <2>1, <3>1 DEF SendingKnown
  <2>9. EndsInOrder(y)
    <3>1. ~y.latest.closing /\ (\A i \in DOMAIN y.group : ~y.group[i].closing)
          /\ \A i \in DOMAIN y.sending : ~y.sending[i].closing
      BY <2>2, <2>4, <2>5, <2>6, <2>7
    <3>2. ~Closing(y) BY <2>1 DEF Closing
    <3>3. \A i, j \in DOMAIN y.out :
            i < j => /\ ~(y.out[i].track = "done" /\ y.out[j].track = y.out[i].object)
                     /\ ~(y.out[i].closing /\ y.out[j].track = "done" /\ y.out[j].object = "video")
      BY <1>2, <1>4 DEF EndsInOrder
    <3> QED BY <1>4, <2>7, <3>1, <3>2, <3>3 DEF EndsInOrder
  <2>10. RequestsKnown(y, n) BY <1>1, <1>2 DEF RequestsKnown, SameRequests
  <2>11. DonesKnown(y) BY <1>1, <2>1, <2>8, <2>9, NoDonesYet
  <2>12. GroupKept(y, taken, os)
    <3>1. /\ \A i, j \in DOMAIN x.group : i < j => x.group[i].object < x.group[j].object
          /\ x.latest = None <=> x.group = <<>>
          /\ \A i \in DOMAIN x.group : /\ x.group[i].group = x.latest.group
                                       /\ x.group[i].object <= x.latest.object
          /\ \A k \in taken + 1..Len(os) : os[k].track = "catalog" =>
               Before(x.latest, [os[k] EXCEPT !.group = @ + x.offset])
      BY <1>2, <1>3, <2>1 DEF GroupKept
    <3>2. CASE First \/ Skipped BY <1>4, <2>5, <2>6, <3>1, <3>2 DEF GroupKept
    <3>3. ASSUME NEW g \in Nat, Moves(g) PROVE GroupKept(y, taken, os)
      <4>1. y.group # <<>> /\ y.latest # None
        <5>1. y.group \in Seq(Catalogs) /\ x.group \in Seq(Catalogs) BY <1>1 DEF States
        <5>2. DOMAIN x.group # {}
          <6>1. x.group # <<>> BY <2>1, <3>1
          <6> QED BY <5>1, <6>1, NotEmpty
        <5> QED BY <2>4, <3>3, <5>1, <5>2
      <4>2. \A k \in taken + 1..Len(os) : os[k].track = "catalog" =>
               Before(y.latest, [os[k] EXCEPT !.group = @ + y.offset])
        <5> TAKE k \in taken + 1..Len(os)
        <5> SUFFICES ASSUME os[k].track = "catalog"
                     PROVE  Before(y.latest, [os[k] EXCEPT !.group = @ + y.offset])
          OBVIOUS
        <5>1. os[k] \in SourceObjects
          <6>1. k \in 1..Len(os) OBVIOUS
          <6> QED BY <6>1
        <5>2. /\ [os[k] EXCEPT !.group = @ + x.offset].group = os[k].group + x.offset
              /\ [os[k] EXCEPT !.group = @ + x.offset].object = os[k].object
              /\ [os[k] EXCEPT !.group = @ + y.offset].group = os[k].group + y.offset
              /\ [os[k] EXCEPT !.group = @ + y.offset].object = os[k].object
              /\ os[k].group \in Nat /\ os[k].object \in Nat
          BY <5>1 DEF SourceObjects
        <5>3. Before(x.latest, [os[k] EXCEPT !.group = @ + x.offset]) BY <3>1
        <5>4. x.offset \in Nat /\ x.latest.group \in Nat /\ x.latest.object \in Nat
          BY LocationTypes DEF States
        <5>5. x.latest.group < os[k].group + x.offset
              \/ (x.latest.group = os[k].group + x.offset /\ x.latest.object < os[k].object)
          BY <5>2, <5>3 DEF Before
        <5>6. y.latest.group = g /\ y.latest.object = x.latest.object
              /\ y.offset = x.offset + (g - x.latest.group)
          BY <2>4, <3>3
        <5>7. y.latest.group < os[k].group + y.offset
              \/ (y.latest.group = os[k].group + y.offset /\ y.latest.object < os[k].object)
          <6>1. os[k].group \in Int /\ x.offset \in Int /\ x.latest.group \in Int BY <5>2, <5>4
          <6>2. g < os[k].group + (x.offset + (g - x.latest.group))
                \/ (g = os[k].group + (x.offset + (g - x.latest.group)) /\ x.latest.object < os[k].object)
            BY <5>5, <6>1, ShiftKeepsOrder
          <6> QED BY <5>6, <6>2
        <5> QED BY <5>2, <5>7 DEF Before
      <4>3. \A i \in DOMAIN y.group : /\ y.group[i].group = y.latest.group
                                      /\ y.group[i].object <= y.latest.object
        BY <2>4, <3>1, <3>3
      <4>4. \A i, j \in DOMAIN y.group : i < j => y.group[i].object < y.group[j].object BY <2>4, <3>1, <3>3
      <4> QED BY <1>4, <4>1, <4>2, <4>3, <4>4 DEF GroupKept
    <3> QED BY <2>2, <3>2, <3>3
  <2>13. LocationsGrow(y)
    <3>1. /\ \A i \in DOMAIN x.out : CatalogAt(x, i) => ~Before(x.latest, x.out[i])
          /\ ~x.sent => \A i \in DOMAIN x.out : CatalogAt(x, i) => Before(x.out[i], x.latest)
      BY <1>2, <1>3 DEF LocationsGrow
    <3>2. \A i, j \in DOMAIN x.group : i < j => x.group[i].object < x.group[j].object BY <1>2 DEF GroupKept
    <3>3. /\ \A i, j \in DOMAIN y.sending : i < j => Before(y.sending[i], y.sending[j])
          /\ \A i \in DOMAIN y.out, j \in DOMAIN y.sending :
               CatalogAt(y, i) => Before(y.out[i], y.sending[j])
      BY <1>3, <2>1, <3>1, <3>2, BegunLocations
    <3>4. y.latest # None BY <2>1, <2>2, <2>4, <2>5, <2>6
    <3>5. \A j \in DOMAIN y.sending : ~Before(y.latest, y.sending[j])
      <4>1. CASE First
        <5>1. ~Before(x.latest, x.latest) BY LocationTypes DEF Before
        <5> QED BY <2>6, <4>1, <5>1
      <4>2. CASE Skipped BY <2>5, <4>2
      <4>3. ASSUME NEW g \in Nat, Moves(g), NEW j \in DOMAIN y.sending
            PROVE  ~Before(y.latest, y.sending[j])
        <5>1. j \in DOMAIN x.group /\ y.sending[j].group = g /\ y.sending[j].object = x.group[j].object
              /\ y.latest.group = g /\ y.latest.object = x.latest.object
          BY <2>4, <4>3
        <5>2. x.group[j].object <= x.latest.object BY <1>2, <1>3, <5>1 DEF GroupKept
        <5>3. x.group[j].object \in Nat /\ x.latest.object \in Nat BY <5>1, LocationTypes
        <5> QED BY <5>1, <5>2, <5>3 DEF Before
      <4> QED BY <2>2, <4>1, <4>2, <4>3
    <3>6. \A i \in DOMAIN y.out : CatalogAt(y, i) => ~Before(y.latest, y.out[i])
      <4>1. CASE First \/ Skipped BY <1>4, <2>5, <2>6, <3>1, <4>1
      <4>2. ASSUME NEW g \in Nat, Moves(g), NEW i \in DOMAIN y.out, CatalogAt(y, i)
            PROVE  ~Before(y.latest, y.out[i])
        <5>1. /\ y.out[i] = x.out[i] /\ ~Before(x.latest, x.out[i]) /\ x.out[i].group \in Nat
              /\ x.latest.group \in Nat /\ x.out[i].object \in Nat
          BY <1>4, <3>1, <4>2, LocationTypes
        <5>2. ~(x.latest.group < x.out[i].group) /\ y.latest.group = g /\ g > x.latest.group
          BY <2>4, <4>2, <5>1 DEF Before
        <5> QED BY <5>1, <5>2 DEF Before
      <4> QED BY <2>2, <4>1, <4>2
    <3>7. \A i, j \in DOMAIN y.out : i < j /\ CatalogAt(y, i) /\ CatalogAt(y, j) => Before(y.out[i], y.out[j])
      BY <1>2, <1>4 DEF LocationsGrow
    <3>8. IF y.sentAny THEN \E i \in DOMAIN y.out : CatalogAt(y, i) /\ y.out[i].group = y.largest
                       ELSE \A i \in DOMAIN y.out : ~CatalogAt(y, i)
      BY <1>2, <1>4 DEF LocationsGrow
    <3> QED BY <2>1, <3>3, <3>4, <3>5, <3>6, <3>7, <3>8 DEF LocationsGrow
  <2>14. CatalogOwed(y)
    <3>1. \A r \in DOMAIN y.subs : /\ y.subs[r].since <= Len(y.out)
                                   /\ y.subs[r].start <= IF y.sentAny THEN y.largest + 1 ELSE 0
      BY <1>2, <1>4 DEF CatalogOwed
    <3>2. y.sending # <<>> \/ SubsOf(y, "catalog") = {}
      <4>1. CASE First BY <2>6, <4>1
      <4>2. CASE Skipped
        <5>1. \A r \in SubsOf(x, "catalog") : ~(x.subs[r].start <= NextCatalogGroup(x)) BY <4>2 DEF Skipped
        <5>2. /\ NextCatalogGroup(x) \in Nat /\ NextCatalogGroup(x) > x.latest.group
              /\ x.latest.group \in Nat /\ (x.sentAny => NextCatalogGroup(x) > x.largest)
          BY <2>1, NextGroupFacts
        <5>3. ASSUME NEW r \in SubsOf(x, "catalog") PROVE FALSE
          <6>1. r \in DOMAIN x.subs /\ x.subs[r] \in Subs /\ x.largest \in Nat
            BY <5>3, MapFacts DEF SubsOf, States
          <6>2. x.subs[r].start \in Nat BY <6>1 DEF Subs
          <6>3. x.subs[r].start <= IF x.sentAny THEN x.largest + 1 ELSE 0 BY <1>2, <6>1 DEF CatalogOwed
          <6> QED BY <5>1, <5>2, <5>3, <6>1, <6>2, <6>3
        <5> QED BY <1>4, <5>3 DEF SubsOf
      <4>3. ASSUME NEW g \in Nat, Moves(g) PROVE y.sending # <<>>
        <5>1. x.group \in Seq(Catalogs) /\ y.group \in Seq(Catalogs) BY <1>1 DEF States
        <5>2. DOMAIN x.group # {}
          <6>1. x.latest # None BY <2>1
          <6>2. x.latest = None <=> x.group = <<>> BY <1>2, <1>3 DEF GroupKept
          <6> QED BY <5>1, <6>1, <6>2, NotEmpty
        <5> QED BY <2>4, <4>3, <5>1, <5>2
      <4> QED BY <2>2, <4>1, <4>2, <4>3
    <3> QED BY <2>1, <3>1, <3>2 DEF CatalogOwed
  <2> QED BY <2>1, <2>8, <2>9, <2>10, <2>11, <2>12, <2>13, <2>14 DEF RecordInv
<1> QED BY <1>1, <1>5, <1>6 DEF Sends, Rests

(* ---- the session's loop ---- *)

\* A step of the session leaves the peer, the scenario and what the source
\* produced alone.
LEMMA SessionFrame ==
    ASSUME ObjectsTypes, s' \in States, peer' = peer, scenario' = scenario,
           src' = src \/ (src.taken < src.produced /\ src' = [src EXCEPT !.taken = @ + 1]),
           RecordInv(s', peer.asked, src'.taken, scenario.objects),
           LeftInTime(s', src', peer, scenario.objects)
    PROVE  ObjectsTypes' /\ ObjectsInv'
<1>1. src' \in Sources /\ src'.taken <= src'.produced /\ src'.produced <= Len(scenario.objects)
  BY DEF ObjectsTypes, Sources
<1>2. ObjectsTypes' BY <1>1 DEF ObjectsTypes
<1> QED BY <1>2 DEF ObjectsInv, RecordInv

LEMMA RecordOf == ObjectsInv => RecordInv(s, peer.asked, src.taken, scenario.objects)
  BY DEF ObjectsInv, RecordInv

\* In the loop nothing has to be explained yet.
LEMMA NoReasonNeeded ==
    ASSUME NEW x \in States, NEW r, NEW p, NEW os, SendingKnown(x), Serving(x)
    PROVE  LeftInTime(x, r, p, os)
  BY DEF LeftInTime, SendingKnown, Serving, Leaving, Closing

\* A step that moves the session in its loop or out of it.
LEMMA MoveStep ==
    ASSUME ObjectsTypes, ObjectsInv, s' \in States, SameData(s, s'), SameRequests(s, s'),
           s'.unserved = s.unserved, AtRest(s), AtRest(s') \/ s'.pc = "flushGroups" \/ s'.pc = "over",
           s'.result # "none" => s'.pc = "over", s'.result # "success",
           UNCHANGED <<scenario, src, peer>>,
           s'.pc = "flushGroups" /\ s'.mediaOnce /\ ~s'.stop /\ ~peer.fin => src.closed
    PROVE  ObjectsTypes' /\ ObjectsInv'
<1>1. s \in States /\ RecordInv(s, peer.asked, src.taken, scenario.objects) BY RecordOf DEF ObjectsTypes
<1>2. RecordInv(s', peer.asked, src.taken, scenario.objects) BY <1>1, MoveFrame DEF RecordInv
<1>3. LeftInTime(s', src, peer, scenario.objects) BY DEF LeftInTime, Leaving, Closing, AtRest
<1> QED BY <1>2, <1>3, SessionFrame

LEMMA InitStep == ObjectsInit => ObjectsInv
<1> SUFFICES ASSUME ObjectsInit PROVE ObjectsInv OBVIOUS
<1>1. /\ s.pc = "announce" /\ s.result = "none" /\ s.ret = "none" /\ s.subs = <<>> /\ s.publishes = <<>>
      /\ s.settings = <<>> /\ s.sentAny = FALSE /\ s.latest = None /\ s.group = <<>> /\ s.sending = <<>>
      /\ s.closing = None /\ s.out = <<>> /\ s.ended = {} /\ s.sent = FALSE
  BY DEF ObjectsInit
<1>2. DOMAIN s.subs = {} /\ DOMAIN s.settings = {} /\ DOMAIN s.publishes = {} /\ DOMAIN s.group = {}
      /\ DOMAIN s.sending = {} /\ DOMAIN s.out = {} /\ None.closing = FALSE
  BY <1>1, MapEmpty DEF None
<1>3. Serving(s) /\ ~Leaving(s) /\ ~Closing(s) /\ SubsOf(s, "catalog") = {} /\ SubsOf(s, "video") = {}
  BY <1>1, <1>2 DEF Serving, Leaving, Closing, SubsOf
<1>4. SendingKnown(s) BY <1>1, <1>2 DEF SendingKnown
<1>5. EndsInOrder(s) BY <1>1, <1>2, <1>3 DEF EndsInOrder
<1>6. RequestsKnown(s, peer.asked) BY <1>1, <1>2 DEF RequestsKnown
<1>7. DonesKnown(s) BY <1>1, <1>2, <1>3 DEF DonesKnown
<1>8. LeftInTime(s, src, peer, scenario.objects) BY <1>1, <1>3 DEF LeftInTime
<1>9. GroupKept(s, src.taken, scenario.objects) BY <1>1, <1>2 DEF GroupKept
<1>10. LocationsGrow(s) BY <1>1, <1>2, <1>3 DEF LocationsGrow, CatalogAt
<1>11. CatalogOwed(s) BY <1>1, <1>2, <1>3 DEF CatalogOwed
<1> QED BY <1>4, <1>5, <1>6, <1>7, <1>8, <1>9, <1>10, <1>11 DEF ObjectsInv

LEMMA AnnounceStep ==
    ASSUME ObjectsTypes, ObjectsInv, Announce
    PROVE  ObjectsTypes' /\ ObjectsInv'
<1>1. s \in States /\ AtRest(s) /\ RecordInv(s, peer.asked, src.taken, scenario.objects)
      /\ UNCHANGED <<scenario, src, peer>>
  BY RecordOf DEF ObjectsTypes, Announce, AtRest
<1>2. PICK a \in Answers :
        s' = [(IF auto /\ UsesRequestStreams THEN Publishing(s, a) ELSE s) EXCEPT !.pc = "control"]
  BY DEF Announce
<1> DEFINE z == IF auto /\ UsesRequestStreams THEN Publishing(s, a) ELSE s
<1>3. /\ z \in States /\ SameLoop(s, z) /\ z.subs = s.subs /\ z.ended = s.ended /\ z.unserved = s.unserved
      /\ \/ z.publishes = s.publishes /\ z.settings = s.settings
         \/ s.publishes = <<>> /\ z.publishes = PublishIds
  <2>1. CASE auto /\ UsesRequestStreams BY <1>1, <2>1, PublishingFacts
  <2>2. CASE ~(auto /\ UsesRequestStreams) BY <1>1, <2>2 DEF SameLoop
  <2> QED BY <2>1, <2>2
<1>4. s' = [z EXCEPT !.pc = "control"] BY <1>2
<1> HIDE DEF z
<1>5. s' \in States /\ SameData(z, s') /\ SameRequests(z, s') /\ s'.unserved = z.unserved
      /\ s'.pc = "control" /\ s'.result = z.result
  <2>1. s' \in States BY <1>3, <1>4 DEF States, Points
  <2> QED BY <1>3, <1>4, <2>1 DEF States, SameData, SameCatalog, SameRequests
<1>6. DOMAIN z.settings \subseteq Tracks BY <1>3, MapFacts DEF States
<1>7. /\ SendingKnown(z) /\ EndsInOrder(z) /\ GroupKept(z, src.taken, scenario.objects) /\ LocationsGrow(z)
      /\ Serving(z) /\ AtRest(z)
  BY <1>1, <1>3, LoopFrame DEF RecordInv, SameLoop, AtRest, Serving
<1>8. RequestsKnown(z, peer.asked) /\ DonesKnown(z)
  BY <1>1, <1>3, <1>6, <1>7, NoDonesYet DEF RecordInv, RequestsKnown, PublishIds
<1>9. CatalogOwed(z) BY <1>1, <1>3, OwedKept DEF RecordInv
<1>10. s'.result = "none" /\ AtRest(s') /\ Serving(s') BY <1>5, <1>7 DEF SendingKnown, AtRest, Serving
<1>11. RecordInv(s', peer.asked, src.taken, scenario.objects)
  BY <1>3, <1>5, <1>7, <1>8, <1>9, <1>10, MoveFrame DEF RecordInv
<1>12. LeftInTime(s', src, peer, scenario.objects) BY <1>5, <1>10, <1>11, NoReasonNeeded DEF RecordInv
<1> QED BY <1>1, <1>5, <1>11, <1>12, SessionFrame

LEMMA TimeoutStep ==
    ASSUME ObjectsTypes, ObjectsInv, SubscribeTimeout
    PROVE  ObjectsTypes' /\ ObjectsInv'
<1>1. s \in States /\ AtRest(s) /\ s.result = "none" /\ ~s.mediaOnce
  BY DEF ObjectsTypes, ObjectsInv, SendingKnown, SubscribeTimeout, WaitsForSubscription, AtRest
<1>2. s' = [s EXCEPT !.pc = "flushGroups"] /\ UNCHANGED <<scenario, src, peer>> BY DEF SubscribeTimeout
<1>3. s' \in States /\ SameData(s, s') /\ SameRequests(s, s') /\ s'.unserved = s.unserved
      /\ s'.pc = "flushGroups" /\ s'.result = "none" /\ ~s'.mediaOnce
  <2>1. s' \in States BY <1>1, <1>2 DEF States, Points
  <2> QED BY <1>1, <1>2, <2>1 DEF States, SameData, SameCatalog, SameRequests
<1> QED BY <1>1, <1>2, <1>3, MoveStep

LEMMA ControlStep ==
    ASSUME ObjectsTypes, ObjectsInv, ControlRead
    PROVE  ObjectsTypes' /\ ObjectsInv'
<1>1. s \in States /\ AtRest(s) /\ s.result = "none" /\ UNCHANGED <<scenario, src, peer>>
  BY DEF ObjectsTypes, ObjectsInv, SendingKnown, ControlRead, AtRest
<1>2. CASE s.stop
  <2>1. s' = [s EXCEPT !.pc = "flushGroups"] BY <1>2 DEF ControlRead
  <2>2. s' \in States /\ SameData(s, s') /\ SameRequests(s, s') /\ s'.unserved = s.unserved
        /\ s'.pc = "flushGroups" /\ s'.result = "none" /\ s'.stop
    <3>1. s' \in States BY <1>1, <2>1 DEF States, Points
    <3> QED BY <1>1, <1>2, <2>1, <3>1 DEF States, SameData, SameCatalog, SameRequests
  <2> QED BY <1>1, <2>2, MoveStep
<1>3. CASE ~s.stop
  <2>1. s' = CatalogBegun(s, "permit") BY <1>3 DEF ControlRead
  <2>2. /\ src.taken \in Nat /\ scenario.objects \in Seq(SourceObjects)
        /\ RecordInv(s, peer.asked, src.taken, scenario.objects)
    BY RecordOf, ScenarioTypes DEF ObjectsTypes, Sources
  <2>3. s' \in States /\ RecordInv(s', peer.asked, src.taken, scenario.objects) /\ Serving(s')
    BY <1>1, <2>1, <2>2, BegunStep
  <2>4. LeftInTime(s', src, peer, scenario.objects) BY <2>3, NoReasonNeeded DEF RecordInv
  <2> QED BY <1>1, <2>3, <2>4, SessionFrame
<1> QED BY <1>2, <1>3

LEMMA PermitStep ==
    ASSUME ObjectsTypes, ObjectsInv, Permit
    PROVE  ObjectsTypes' /\ ObjectsInv'
<1>1. s \in States /\ AtRest(s) /\ s.result = "none" /\ UNCHANGED <<scenario, src, peer>>
  BY DEF ObjectsTypes, ObjectsInv, SendingKnown, Permit, AtRest
<1>2. \/ peer.fin /\ s' = [s EXCEPT !.pc = "flushGroups"]
      \/ \E m \in BOOLEAN, p \in {"control", "source"} : s' = [s EXCEPT !.mediaOnce = m, !.pc = p]
  <2> DEFINE m == s.mediaOnce \/ HasMedia(s)
             x == [s EXCEPT !.mediaOnce = m]
             held == ~x.mediaOnce /\ ~scenario.indefinite /\ NeedsPermission
                       /\ (x.subscribed = {} \/ x.sent)
  <2>1. s' = IF peer.fin THEN [s EXCEPT !.pc = "flushGroups"]
             ELSE [x EXCEPT !.pc = IF held THEN "control" ELSE "source"]
    BY DEF Permit
  <2>2. m \in BOOLEAN BY DEF HasMedia
  <2> HIDE DEF m, held
  <2>3. x = [s EXCEPT !.mediaOnce = m] OBVIOUS
  <2>4. \A p : [x EXCEPT !.pc = p] = [s EXCEPT !.mediaOnce = m, !.pc = p] BY <2>3
  <2> QED BY <2>1, <2>2, <2>4
<1>3. s' \in States /\ SameData(s, s') /\ SameRequests(s, s') /\ s'.unserved = s.unserved
      /\ s'.result = "none" /\ (s'.pc = "flushGroups" => peer.fin)
      /\ s'.pc \in {"flushGroups", "control", "source"}
  <2>1. CASE peer.fin /\ s' = [s EXCEPT !.pc = "flushGroups"]
    <3>1. s' \in States BY <1>1, <2>1 DEF States, Points
    <3> QED BY <1>1, <2>1, <3>1 DEF States, SameData, SameCatalog, SameRequests
  <2>2. ASSUME NEW m \in BOOLEAN, NEW p \in {"control", "source"}, s' = [s EXCEPT !.mediaOnce = m, !.pc = p]
        PROVE  s' \in States /\ SameData(s, s') /\ SameRequests(s, s') /\ s'.unserved = s.unserved
               /\ s'.result = "none" /\ s'.pc = p
    <3>1. s' \in States BY <1>1, <2>2 DEF States, Points
    <3> QED BY <1>1, <2>2, <3>1 DEF States, SameData, SameCatalog, SameRequests
  <2> QED BY <1>2, <2>1, <2>2
<1> QED BY <1>1, <1>3, MoveStep DEF AtRest

LEMMA EmptyStep ==
    ASSUME ObjectsTypes, ObjectsInv, SourceEmpty \/ AskFinished
    PROVE  ObjectsTypes' /\ ObjectsInv'
<1>1. s \in States /\ AtRest(s) /\ s.result = "none" /\ UNCHANGED <<scenario, src, peer>>
  BY DEF ObjectsTypes, ObjectsInv, SendingKnown, SourceEmpty, AskFinished, AtRest
<1>2. \/ s' = [s EXCEPT !.pc = "over", !.result = "failure"]
      \/ \E p \in {"empty", "control"} : s' = [s EXCEPT !.pc = p]
      \/ src.closed /\ s' = [s EXCEPT !.pc = "flushGroups"]
  BY DEF SourceEmpty, AskFinished, Over, Finished
<1>3. s' \in States /\ SameData(s, s') /\ SameRequests(s, s') /\ s'.unserved = s.unserved
      /\ s'.result # "success" /\ (s'.result # "none" => s'.pc = "over")
      /\ (s'.pc = "flushGroups" => src.closed)
      /\ s'.pc \in {"flushGroups", "control", "empty", "over"}
  <2>1. CASE s' = [s EXCEPT !.pc = "over", !.result = "failure"]
    <3>1. s' \in States BY <1>1, <2>1 DEF States, Points
    <3> QED BY <1>1, <2>1, <3>1 DEF States, SameData, SameCatalog, SameRequests
  <2>2. ASSUME NEW p \in {"empty", "control", "flushGroups"}, s' = [s EXCEPT !.pc = p]
        PROVE  s' \in States /\ SameData(s, s') /\ SameRequests(s, s') /\ s'.unserved = s.unserved
               /\ s'.result = "none" /\ s'.pc = p
    <3>1. s' \in States BY <1>1, <2>2 DEF States, Points
    <3> QED BY <1>1, <2>2, <3>1 DEF States, SameData, SameCatalog, SameRequests
  <2> QED BY <1>2, <2>1, <2>2
<1> QED BY <1>1, <1>3, MoveStep DEF AtRest

(* ---- the objects of the source ---- *)

\* The object read next, and its location with the groups inserted before it.
LEMMA ReadFacts ==
    ASSUME ObjectsTypes, src.taken < src.produced,
           NEW read, read = scenario.objects[src.taken + 1],
           NEW o, o = [read EXCEPT !.group = @ + IF read.track = "catalog" THEN s.offset ELSE 0]
    PROVE  /\ src.taken \in Nat /\ src.taken + 1 \in 1..Len(scenario.objects)
           /\ scenario.objects \in Seq(SourceObjects) /\ Len(scenario.objects) \in Nat
           /\ read \in SourceObjects /\ read.closing \in BOOLEAN /\ (read.closing => read.track = "catalog")
           /\ o \in SourceObjects /\ o.track = read.track /\ o.closing = read.closing
           /\ o.object = read.object
           /\ o.group = read.group + IF read.track = "catalog" THEN s.offset ELSE 0
           /\ read.track = "catalog" => o \in Catalogs /\ o # None
           /\ read.track # "catalog" => o.track = "video" /\ ~o.closing
<1>1. src.taken \in Nat /\ src.produced \in Nat /\ src.produced <= Len(scenario.objects)
      /\ scenario \in Scenarios /\ s \in States
  BY DEF ObjectsTypes, Sources
<1>2. Len(scenario.objects) \in Nat /\ scenario.objects \in Seq(SourceObjects)
      /\ \A i \in 1..Len(scenario.objects) :
           /\ scenario.objects[i] \in SourceObjects
           /\ scenario.objects[i].closing => scenario.objects[i].track = "catalog"
  BY <1>1, ScenarioTypes
<1>3. src.taken + 1 \in 1..Len(scenario.objects) BY <1>1, <1>2
<1>4. read \in SourceObjects /\ (read.closing => read.track = "catalog") BY <1>2, <1>3
<1>5. read.group \in Nat /\ read.object \in Nat /\ read.closing \in BOOLEAN /\ read.track \in Tracks
  BY <1>4 DEF SourceObjects
<1> DEFINE d == IF read.track = "catalog" THEN s.offset ELSE 0
<1>6. d \in Nat BY <1>1 DEF States
<1>7. o = [read EXCEPT !.group = read.group + d] OBVIOUS
<1> HIDE DEF d
<1>8. o \in SourceObjects /\ o.track = read.track /\ o.closing = read.closing
      /\ o.object = read.object /\ o.group = read.group + d
  BY <1>4, <1>5, <1>6, <1>7 DEF SourceObjects
<1>9. read.track = "catalog" => o \in Catalogs /\ o # None BY <1>8 DEF SourceObjects, Catalogs, None
<1>10. read.track # "catalog" => o.track = "video" /\ ~o.closing BY <1>4, <1>5, <1>8 DEF Tracks
<1> QED BY <1>1, <1>2, <1>3, <1>4, <1>5, <1>8, <1>9, <1>10 DEF d

\* An object that was taken is no longer to come.
LEMMA GroupLater ==
    ASSUME NEW x, NEW n \in Nat, NEW os \in Seq(SourceObjects), GroupKept(x, n, os)
    PROVE  GroupKept(x, n + 1, os)
<1>1. \A k \in (n + 1) + 1..Len(os) : k \in n + 1..Len(os) OBVIOUS
<1> QED BY <1>1 DEF GroupKept

\* An object is taken and dropped, or ends the publish.
LEMMA TakenMove ==
    ASSUME ObjectsTypes, ObjectsInv, s' \in States, SameData(s, s'), SameRequests(s, s'),
           s'.unserved = s.unserved, AtRest(s), AtRest(s') \/ s'.pc = "over",
           s'.result # "none" => s'.pc = "over", s'.result # "success",
           UNCHANGED <<scenario, peer>>, src.taken < src.produced, src' = [src EXCEPT !.taken = @ + 1]
    PROVE  ObjectsTypes' /\ ObjectsInv'
<1>1. s \in States /\ RecordInv(s, peer.asked, src.taken, scenario.objects)
      /\ src.taken \in Nat /\ src'.taken = src.taken + 1 /\ scenario.objects \in Seq(SourceObjects)
  BY RecordOf, ScenarioTypes DEF ObjectsTypes, Sources
<1>2. RecordInv(s', peer.asked, src.taken, scenario.objects) BY <1>1, MoveFrame DEF RecordInv
<1>3. RecordInv(s', peer.asked, src'.taken, scenario.objects) BY <1>1, <1>2, GroupLater DEF RecordInv
<1>4. LeftInTime(s', src', peer, scenario.objects) BY DEF LeftInTime, Leaving, Closing, AtRest
<1> QED BY <1>3, <1>4, SessionFrame

\* The next catalog comes after the latest one, and before those still to come.
LEMMA NextCatalog ==
    ASSUME ObjectsTypes, ObjectsInv, Serving(s), src.taken < src.produced,
           NEW read, read = scenario.objects[src.taken + 1],
           NEW o, o = [read EXCEPT !.group = @ + IF read.track = "catalog" THEN s.offset ELSE 0],
           read.track = "catalog"
    PROVE  /\ s.latest # None => Before(s.latest, o)
           /\ \A k \in (src.taken + 1) + 1..Len(scenario.objects) :
                scenario.objects[k].track = "catalog" =>
                  Before(o, [scenario.objects[k] EXCEPT !.group = @ + s.offset])
<1> DEFINE os == scenario.objects
<1>1. /\ src.taken \in Nat /\ src.taken + 1 \in 1..Len(os) /\ Len(os) \in Nat
      /\ read \in SourceObjects /\ o.object = read.object /\ o.group = read.group + s.offset
  BY ReadFacts
<1>2. s \in States /\ scenario \in Scenarios BY DEF ObjectsTypes
<1>3. s.offset \in Nat BY <1>2 DEF States
<1>4. /\ \A i \in 1..Len(os) : os[i] \in SourceObjects
      /\ \A i, j \in 1..Len(os) :
              i < j /\ os[i].track = "catalog" /\ os[j].track = "catalog" => Before(os[i], os[j])
  BY <1>2, ScenarioTypes
<1>5. \A k \in 1..Len(os) :
        /\ [os[k] EXCEPT !.group = @ + s.offset].group = os[k].group + s.offset
        /\ [os[k] EXCEPT !.group = @ + s.offset].object = os[k].object
        /\ os[k].group \in Nat /\ os[k].object \in Nat
  <2> TAKE k \in 1..Len(os)
  <2>1. os[k] \in SourceObjects BY <1>4
  <2> QED BY <2>1 DEF SourceObjects
<1>6. s.latest # None => Before(s.latest, o)
  <2> SUFFICES ASSUME s.latest # None PROVE Before(s.latest, o) OBVIOUS
  <2>1. \A k \in src.taken + 1..Len(os) : os[k].track = "catalog" =>
          Before(s.latest, [os[k] EXCEPT !.group = @ + s.offset])
    BY DEF ObjectsInv, GroupKept
  <2>2. src.taken + 1 \in src.taken + 1..Len(os) BY <1>1
  <2>3. Before(s.latest, [read EXCEPT !.group = @ + s.offset]) BY <2>1, <2>2
  <2>4. o = [read EXCEPT !.group = @ + s.offset] OBVIOUS
  <2> QED BY <2>3, <2>4
<1>7. ASSUME NEW k \in (src.taken + 1) + 1..Len(os), os[k].track = "catalog"
      PROVE  Before(o, [os[k] EXCEPT !.group = @ + s.offset])
  <2>1. k \in 1..Len(os) /\ src.taken + 1 < k BY <1>1
  <2>2. Before(read, os[k]) BY <1>1, <1>4, <1>7, <2>1
  <2>3. read.group \in Nat /\ read.object \in Nat BY <1>1 DEF SourceObjects
  <2>4. read.group < os[k].group \/ (read.group = os[k].group /\ read.object < os[k].object)
    BY <2>2 DEF Before
  <2>5. o.group < os[k].group + s.offset
        \/ (o.group = os[k].group + s.offset /\ o.object < os[k].object)
    BY <1>1, <1>3, <1>5, <2>1, <2>3, <2>4
  <2> QED BY <1>5, <2>1, <2>5 DEF Before
<1> QED BY <1>6, <1>7

\* A catalog of the source, ready to be sent.
LEMMA CatalogDue ==
    ASSUME ObjectsTypes, ObjectsInv, s.pc = "source", src.taken < src.produced,
           NEW read, read = scenario.objects[src.taken + 1],
           NEW o, o = [read EXCEPT !.group = @ + IF read.track = "catalog" THEN s.offset ELSE 0],
           read.track = "catalog", ~read.closing,
           NEW y \in States,
           y.pc = s.pc, y.result = s.result, y.ret = s.ret, y.sending = s.sending, y.closing = s.closing,
           y.out = s.out, y.largest = s.largest, y.sentAny = s.sentAny, y.offset = s.offset,
           SameRequests(s, y), y.latest = o,
           y.group = IF s.group # <<>> /\ Head(s.group).group = o.group THEN Append(s.group, o) ELSE <<o>>,
           y.unserved = s.unserved \/ y.unserved = (SubsOf(s, "catalog") # {})
    PROVE  RecordInv(y, peer.asked, src.taken + 1, scenario.objects)
<1>1. /\ src.taken \in Nat /\ o \in Catalogs /\ o # None /\ ~o.closing
      /\ o.group \in Nat /\ o.object \in Nat
  BY ReadFacts DEF Catalogs
<1>2. /\ s \in States /\ AtRest(s) /\ Serving(s) /\ Serving(y) /\ ~Leaving(y) /\ ~Closing(y) /\ AtRest(y)
      /\ s.closing = None /\ s.ret = "none" /\ s.sending = <<>> /\ s.result = "none"
      /\ SubsOf(y, "catalog") = SubsOf(s, "catalog") /\ y.subs = s.subs
      /\ \A i : CatalogAt(y, i) <=> CatalogAt(s, i)
  BY DEF ObjectsTypes, ObjectsInv, SendingKnown, AtRest, Serving, Leaving, Closing, SubsOf, SameRequests,
     CatalogAt
<1>3. /\ s.latest # None => Before(s.latest, o)
      /\ \A k \in (src.taken + 1) + 1..Len(scenario.objects) :
              scenario.objects[k].track = "catalog" =>
                Before(o, [scenario.objects[k] EXCEPT !.group = @ + s.offset])
  BY <1>2, NextCatalog
<1>4. SendingKnown(y) BY <1>2 DEF ObjectsInv, SendingKnown, AtRest
<1>5. /\ s.latest = None <=> s.group = <<>>
      /\ \A i, j \in DOMAIN s.group : i < j => s.group[i].object < s.group[j].object
      /\ \A i \in DOMAIN s.group : /\ s.group[i].group = s.latest.group
                                   /\ s.group[i].object <= s.latest.object
                                   /\ ~s.group[i].closing
                                   /\ s.group[i].object \in Nat /\ s.group[i].group \in Nat
  BY <1>2, LocationTypes DEF ObjectsInv, GroupKept, EndsInOrder
<1>6. s.group \in Seq(Catalogs) BY <1>2 DEF States
<1>7. /\ y.group # <<>>
      /\ \A i, j \in DOMAIN y.group : i < j => y.group[i].object < y.group[j].object
      /\ \A i \in DOMAIN y.group : /\ y.group[i].group = o.group /\ y.group[i].object <= o.object
                                   /\ ~y.group[i].closing
  <2>1. CASE s.group # <<>> /\ Head(s.group).group = o.group
    <3>1. y.group = Append(s.group, o) BY <2>1
    <3>2. /\ y.group # <<>> /\ DOMAIN s.group = 1..Len(s.group) /\ Len(s.group) \in Nat
          /\ DOMAIN y.group = 1..Len(s.group) + 1
          /\ \A i \in 1..Len(s.group) : y.group[i] = s.group[i]
          /\ y.group[Len(s.group) + 1] = o
      BY <1>1, <1>6, <3>1, Appended
    <3>3. DOMAIN s.group # {} BY <1>6, <2>1, NotEmpty
    <3>4. s.group[1].group = o.group /\ 1 \in DOMAIN s.group
      <4>1. 1 \in DOMAIN s.group BY <3>2, <3>3
      <4>2. Head(s.group) = s.group[1] BY <1>6, <2>1
      <4> QED BY <2>1, <4>1, <4>2
    <3>5. s.latest.group = o.group /\ s.latest # None BY <1>5, <2>1, <3>4
    <3>6. s.latest.object < o.object /\ s.latest.object \in Nat
      <4>1. Before(s.latest, o) BY <1>3, <3>5
      <4>2. s.latest.group \in Nat /\ s.latest.object \in Nat BY <1>2, LocationTypes
      <4> QED BY <1>1, <3>5, <4>1, <4>2 DEF Before
    <3>7. \A i \in 1..Len(s.group) : s.group[i].object < o.object BY <1>1, <1>5, <3>2, <3>6
    <3>8. \A i, j \in DOMAIN y.group : i < j => y.group[i].object < y.group[j].object
      <4> TAKE i, j \in DOMAIN y.group
      <4> SUFFICES ASSUME i < j PROVE y.group[i].object < y.group[j].object OBVIOUS
      <4>1. i \in 1..Len(s.group) BY <3>2
      <4>2. CASE j \in 1..Len(s.group) BY <1>5, <3>2, <4>1, <4>2
      <4>3. CASE j = Len(s.group) + 1 BY <3>2, <3>7, <4>1, <4>3
      <4> QED BY <3>2, <4>2, <4>3
    <3>9. \A i \in DOMAIN y.group : /\ y.group[i].group = o.group /\ y.group[i].object <= o.object
                                    /\ ~y.group[i].closing
      <4> TAKE i \in DOMAIN y.group
      <4>1. CASE i \in 1..Len(s.group)
        <5>1. s.group[i].object < o.object /\ s.group[i].object \in Nat /\ s.group[i].group = o.group
              /\ y.group[i] = s.group[i] /\ ~s.group[i].closing
          BY <1>5, <3>2, <3>5, <3>7, <4>1
        <5>2. s.group[i].object <= o.object BY <1>1, <5>1
        <5> QED BY <5>1, <5>2
      <4>2. CASE i = Len(s.group) + 1
        <5>1. y.group[i] = o /\ o.object <= o.object BY <1>1, <3>2, <4>2
        <5> QED BY <1>1, <5>1
      <4> QED BY <3>2, <4>1, <4>2
    <3> QED BY <3>2, <3>8, <3>9
  <2>2. CASE ~(s.group # <<>> /\ Head(s.group).group = o.group)
    <3>1. y.group = <<o>> BY <2>2
    <3>2. DOMAIN y.group = {1} /\ y.group[1] = o /\ y.group # <<>>
      <4>1. DOMAIN <<o>> = {1} /\ <<o>>[1] = o /\ <<o>> # <<>> BY Single
      <4> QED BY <3>1, <4>1, Zenon
    <3>3. \A i \in DOMAIN y.group : i = 1 /\ y.group[i] = o BY <3>2
    <3>4. o.object <= o.object BY <1>1
    <3>5. \A i, j \in DOMAIN y.group : i < j => y.group[i].object < y.group[j].object BY <3>3
    <3> QED BY <1>1, <3>2, <3>3, <3>4, <3>5
  <2> QED BY <2>1, <2>2
<1>8. EndsInOrder(y)
  <2>1. /\ \A i \in DOMAIN s.out : s.out[i].track \in Tracks /\ ~s.out[i].closing
        /\ \A i, j \in DOMAIN s.out :
             i < j => /\ ~(s.out[i].track = "done" /\ s.out[j].track = s.out[i].object)
                      /\ ~(s.out[i].closing /\ s.out[j].track = "done" /\ s.out[j].object = "video")
    BY <1>2 DEF ObjectsInv, EndsInOrder
  <2>2. DOMAIN y.sending = {} BY <1>2, MapEmpty
  <2>3. ~y.latest.closing /\ (\A i \in DOMAIN y.group : ~y.group[i].closing)
        /\ \A i \in DOMAIN y.sending : ~y.sending[i].closing
    BY <1>1, <1>7, <2>2
  <2>4. /\ \A i \in DOMAIN y.out : y.out[i].track \in Tracks /\ ~y.out[i].closing
        /\ \A i, j \in DOMAIN y.out :
             i < j => /\ ~(y.out[i].track = "done" /\ y.out[j].track = y.out[i].object)
                      /\ ~(y.out[i].closing /\ y.out[j].track = "done" /\ y.out[j].object = "video")
    BY <2>1
  <2>5. ~Closing(y) BY <1>2
  <2> QED BY <2>3, <2>4, <2>5 DEF EndsInOrder
<1>9. RequestsKnown(y, peer.asked) BY DEF ObjectsInv, RequestsKnown, SameRequests
<1>10. DonesKnown(y) BY <1>2, <1>4, <1>8, NoDonesYet
<1>11. GroupKept(y, src.taken + 1, scenario.objects) BY <1>1, <1>2, <1>3, <1>7 DEF GroupKept
<1>12. LocationsGrow(y)
  <2>1. \A i \in DOMAIN s.out : CatalogAt(s, i) => Before(s.out[i], o) /\ ~Before(o, s.out[i])
    <3> TAKE i \in DOMAIN s.out
    <3> SUFFICES ASSUME CatalogAt(s, i) PROVE Before(s.out[i], o) /\ ~Before(o, s.out[i]) OBVIOUS
    <3>1. s.latest # None /\ ~Before(s.latest, s.out[i]) BY <1>2 DEF ObjectsInv, LocationsGrow
    <3>2. s.out[i].group \in Nat /\ s.out[i].object \in Nat /\ s.latest.group \in Nat
          /\ s.latest.object \in Nat
      BY <1>2, LocationTypes
    <3> QED BY <1>1, <1>3, <3>1, <3>2, BeforeFacts
  <2>2. /\ \A i, j \in DOMAIN s.out : i < j /\ CatalogAt(s, i) /\ CatalogAt(s, j) => Before(s.out[i], s.out[j])
        /\ IF s.sentAny THEN \E i \in DOMAIN s.out : CatalogAt(s, i) /\ s.out[i].group = s.largest
                        ELSE \A i \in DOMAIN s.out : ~CatalogAt(s, i)
    BY DEF ObjectsInv, LocationsGrow
  <2>3. y.pc # "sendCatalog" /\ y.latest # None BY <1>1
  <2> QED BY <1>2, <2>1, <2>2, <2>3 DEF LocationsGrow
<1>13. CatalogOwed(y)
  <2>1. /\ \A r \in DOMAIN s.subs : /\ s.subs[r].since <= Len(s.out)
                                    /\ s.subs[r].start <= IF s.sentAny THEN s.largest + 1 ELSE 0
        /\ \A r \in SubsOf(s, "catalog") :
             \/ s.unserved \/ s.subs[r].filled
             \/ \E i \in s.subs[r].since + 1..Len(s.out) : CatalogAt(s, i)
    BY <1>2 DEF ObjectsInv, CatalogOwed
  <2>2. (s.unserved => y.unserved) \/ SubsOf(s, "catalog") = {} \/ y.unserved OBVIOUS
  <2> QED BY <1>2, <2>1, <2>2 DEF CatalogOwed
<1> QED BY <1>4, <1>8, <1>9, <1>10, <1>11, <1>12, <1>13 DEF RecordInv

\* The record with a media object about to be written, and with the closing
\* catalog taken.
LEMMA MediaRecord ==
    ASSUME NEW x \in States, NEW u \in Seq(SourceObjects), NEW y,
           y = [x EXCEPT !.awaiting = FALSE, !.pc = "sendMedia", !.ret = "control", !.sending = u]
    PROVE  /\ y \in States /\ y.pc = "sendMedia" /\ y.ret = "control" /\ y.sending = u
           /\ y.closing = x.closing /\ y.result = x.result /\ SameRequests(x, y) /\ y.unserved = x.unserved
           /\ y.out = x.out /\ y.largest = x.largest /\ y.sentAny = x.sentAny /\ y.sent = x.sent
           /\ SameCatalog(x, y)
<1>1. y \in States BY DEF States, Points
<1> QED BY <1>1 DEF States, SameRequests, SameCatalog

LeftWith(x, o) == [x EXCEPT !.awaiting = FALSE, !.closing = o, !.pc = "flushGroups"]

LEMMA ClosingRecord ==
    ASSUME NEW x \in States, NEW o \in Catalogs, NEW y, y = LeftWith(x, o)
    PROVE  /\ y \in States /\ y.pc = "flushGroups" /\ y.ret = x.ret /\ y.sending = x.sending
           /\ y.closing = o /\ y.result = x.result /\ SameRequests(x, y) /\ y.unserved = x.unserved
           /\ y.out = x.out /\ y.largest = x.largest /\ y.sentAny = x.sentAny /\ y.sent = x.sent
           /\ SameCatalog(x, y)
<1>1. y \in States BY DEF States, Points, LeftWith
<1> QED BY <1>1 DEF States, SameRequests, SameCatalog, LeftWith

\* A media object is about to be written.
LEMMA MediaBegun ==
    ASSUME ObjectsTypes, ObjectsInv, s.pc = "source", NEW o \in SourceObjects, o.track = "video", ~o.closing,
           src.taken < src.produced, src' = [src EXCEPT !.taken = @ + 1], UNCHANGED <<scenario, peer>>,
           s' = [s EXCEPT !.awaiting = FALSE, !.pc = "sendMedia", !.ret = "control", !.sending = <<o>>]
    PROVE  ObjectsTypes' /\ ObjectsInv'
<1>1. /\ s \in States /\ RecordInv(s, peer.asked, src.taken, scenario.objects)
      /\ src.taken \in Nat /\ src'.taken = src.taken + 1 /\ scenario.objects \in Seq(SourceObjects)
      /\ Serving(s) /\ s.pc # "sendCatalog" /\ ~Closing(s) /\ s.closing = None /\ s.result = "none"
  BY RecordOf, ScenarioTypes DEF ObjectsTypes, Sources, Serving, Closing, ObjectsInv, SendingKnown, Leaving
<1>2. <<o>> \in Seq(SourceObjects) /\ DOMAIN <<o>> = {1} /\ <<o>>[1] = o /\ Len(<<o>>) = 1 BY Single
<1> DEFINE one == <<o>>
<1>3. s' = [s EXCEPT !.awaiting = FALSE, !.pc = "sendMedia", !.ret = "control", !.sending = one] OBVIOUS
<1>4. one \in Seq(SourceObjects) /\ DOMAIN one = {1} /\ one[1] = o /\ Len(one) = 1 BY <1>2
<1> HIDE DEF one
<1>5. /\ s' \in States /\ s'.pc = "sendMedia" /\ s'.ret = "control" /\ s'.sending = one
      /\ s'.closing = s.closing /\ s'.result = s.result /\ SameRequests(s, s') /\ s'.unserved = s.unserved
      /\ s'.out = s.out /\ s'.largest = s.largest /\ s'.sentAny = s.sentAny /\ s'.sent = s.sent
      /\ SameCatalog(s, s')
  BY <1>1, <1>3, <1>4, MediaRecord
<1> HIDE DEF SameCatalog
<1>6. Serving(s') /\ ~Closing(s') /\ ~Leaving(s') BY <1>5 DEF Serving, Closing, Leaving
<1>7. SendingKnown(s') BY <1>1, <1>4, <1>5 DEF SendingKnown
<1>8. EndsInOrder(s')
  <2>1. \A i \in DOMAIN s'.sending : ~s'.sending[i].closing BY <1>4, <1>5
  <2> QED BY <1>1, <1>5, <1>6, <2>1 DEF RecordInv, EndsInOrder, SameCatalog
<1>9. RequestsKnown(s', peer.asked) BY <1>1, <1>5 DEF RecordInv, RequestsKnown, SameRequests
<1>10. DonesKnown(s') BY <1>5, <1>6, <1>7, <1>8, NoDonesYet
<1>11. GroupKept(s', src'.taken, scenario.objects)
  <2>1. GroupKept(s, src'.taken, scenario.objects) BY <1>1, GroupLater DEF RecordInv
  <2> QED BY <1>1, <1>5, <1>6, <2>1 DEF GroupKept, SameCatalog
<1>12. LocationsGrow(s') BY <1>1, <1>5, <1>6 DEF RecordInv, LocationsGrow, SameCatalog, CatalogAt
<1>13. CatalogOwed(s')
  <2>1. SubsOf(s', "catalog") = SubsOf(s, "catalog") /\ s'.subs = s.subs BY <1>5 DEF SameRequests, SubsOf
  <2> QED BY <1>1, <1>5, <1>6, <2>1 DEF RecordInv, CatalogOwed, CatalogAt
<1>14. RecordInv(s', peer.asked, src'.taken, scenario.objects)
  BY <1>7, <1>8, <1>9, <1>10, <1>11, <1>12, <1>13 DEF RecordInv
<1>15. LeftInTime(s', src', peer, scenario.objects) BY <1>5, <1>6, <1>7, NoReasonNeeded
<1> QED BY <1>5, <1>14, <1>15, SessionFrame

\* The closing catalog is the source's last object.
LEMMA ClosingStep ==
    ASSUME ObjectsTypes, ObjectsInv, s.pc = "source", scenario.objects[src.taken + 1].closing,
           NEW o \in Catalogs, s.latest # None => Before(s.latest, o),
           src.taken < src.produced, src' = [src EXCEPT !.taken = @ + 1], UNCHANGED <<scenario, peer>>,
           s' = LeftWith(s, o)
    PROVE  ObjectsTypes' /\ ObjectsInv'
<1>1. /\ s \in States /\ RecordInv(s, peer.asked, src.taken, scenario.objects)
      /\ src \in Sources
      /\ Serving(s) /\ s.pc # "sendCatalog" /\ ~Closing(s) /\ s.closing = None /\ s.result = "none"
      /\ s.sending = <<>> /\ s.ret = "none"
  BY RecordOf DEF ObjectsTypes, Serving, Closing, ObjectsInv, SendingKnown, Leaving
<1>2. /\ src.taken \in Nat /\ scenario.objects \in Seq(SourceObjects)
      /\ src'.taken = src.taken + 1 /\ src'.taken > 0 /\ scenario.objects[src'.taken].closing
  BY <1>1, ScenarioTypes DEF Sources, ObjectsTypes
<1>3. /\ s' \in States /\ s'.pc = "flushGroups" /\ s'.ret = s.ret /\ s'.sending = s.sending
      /\ s'.closing = o /\ s'.result = s.result /\ SameRequests(s, s') /\ s'.unserved = s.unserved
      /\ s'.out = s.out /\ s'.largest = s.largest /\ s'.sentAny = s.sentAny /\ s'.sent = s.sent
      /\ SameCatalog(s, s')
  BY <1>1, ClosingRecord
<1>4. ~Serving(s') /\ ~Closing(s') /\ Leaving(s') BY <1>1, <1>3 DEF Serving, Closing, Leaving
<1>5. SendingKnown(s') BY <1>1, <1>3, <1>4 DEF SendingKnown
<1>6. EndsInOrder(s') BY <1>1, <1>3, <1>4 DEF RecordInv, EndsInOrder, SameCatalog
<1>7. RequestsKnown(s', peer.asked) BY <1>1, <1>3 DEF RecordInv, RequestsKnown, SameRequests
<1>8. DonesKnown(s') BY <1>3, <1>4, <1>5, <1>6, NoDonesYet
<1>9. GroupKept(s', src'.taken, scenario.objects)
  <2>1. \A i, j \in DOMAIN s'.group : i < j => s'.group[i].object < s'.group[j].object
    BY <1>1, <1>3 DEF RecordInv, GroupKept, SameCatalog
  <2>2. s'.latest # None => Before(s'.latest, s'.closing) BY <1>3 DEF SameCatalog
  <2> QED BY <1>4, <2>1, <2>2 DEF GroupKept
<1>10. LocationsGrow(s') BY <1>1, <1>3, <1>4 DEF RecordInv, LocationsGrow, SameCatalog, CatalogAt
<1>11. CatalogOwed(s') BY <1>1, <1>3, <1>4 DEF RecordInv, CatalogOwed, SameRequests
<1>12. RecordInv(s', peer.asked, src'.taken, scenario.objects)
  BY <1>5, <1>6, <1>7, <1>8, <1>9, <1>10, <1>11 DEF RecordInv
<1>13. LeftInTime(s', src', peer, scenario.objects) BY <1>2 DEF LeftInTime
<1> QED BY <1>3, <1>12, <1>13, SessionFrame

LEMMA TakeStep ==
    ASSUME ObjectsTypes, ObjectsInv, TakeObject
    PROVE  ObjectsTypes' /\ ObjectsInv'
<1> DEFINE read == scenario.objects[src.taken + 1]
           o == [read EXCEPT !.group = @ + IF read.track = "catalog" THEN s.offset ELSE 0]
           x == [s EXCEPT !.awaiting = FALSE]
<1>1. /\ s' = CASE s.awaiting /\ read.track # "catalog" -> Over(s, "failure")
                [] read.closing -> ClosingTaken(x, o)
                [] ~read.closing /\ read.track = "catalog" -> CatalogTaken(x, o)
                [] OTHER -> MediaTaken(x, o)
      /\ s.pc = "source" /\ src.taken < src.produced /\ src' = [src EXCEPT !.taken = @ + 1]
      /\ UNCHANGED <<scenario, peer>>
  BY DEF TakeObject
<1>2. /\ src.taken \in Nat /\ scenario.objects \in Seq(SourceObjects)
      /\ read.closing \in BOOLEAN /\ (read.closing => read.track = "catalog")
      /\ o \in SourceObjects /\ o.track = read.track /\ o.closing = read.closing
      /\ read.track = "catalog" => o \in Catalogs /\ o # None
  BY <1>1, ReadFacts
<1>3. read.track # "catalog" => o.track = "video" /\ ~o.closing BY <1>1, ReadFacts
<1>4. /\ s \in States /\ AtRest(s) /\ Serving(s) /\ s.result = "none" /\ s.sending = <<>>
      /\ RecordInv(s, peer.asked, src.taken, scenario.objects)
  BY <1>1, RecordOf DEF ObjectsTypes, ObjectsInv, SendingKnown, AtRest, Serving
<1>5. /\ x \in States /\ SameData(s, x) /\ SameRequests(s, x) /\ x.unserved = s.unserved
      /\ x.pc = s.pc /\ x.result = s.result /\ x.sending = s.sending /\ x.awaiting = FALSE
  <2>1. x \in States BY <1>4 DEF States
  <2> QED BY <1>4, <2>1 DEF States, SameData, SameCatalog, SameRequests
<1>6. \/ s' = Over(s, "failure")
      \/ read.closing /\ s' = ClosingTaken(x, o)
      \/ ~read.closing /\ read.track = "catalog" /\ s' = CatalogTaken(x, o)
      \/ read.track # "catalog" /\ s' = MediaTaken(x, o)
  <2> HIDE DEF read, o, x
  <2>1. CASE s.awaiting /\ read.track # "catalog" BY <1>1, <1>2, <2>1
  <2>2. CASE read.closing BY <1>1, <1>2, <2>2
  <2>3. CASE ~read.closing /\ read.track = "catalog" BY <1>1, <1>2, <2>3
  <2>4. CASE ~(s.awaiting /\ read.track # "catalog") /\ ~read.closing /\ read.track # "catalog"
    BY <1>1, <1>2, <2>4
  <2> QED BY <2>1, <2>2, <2>3, <2>4
<1>7. CASE s' = Over(s, "failure")
  <2>1. s' = [s EXCEPT !.pc = "over", !.result = "failure"] BY <1>7 DEF Over
  <2>2. s' \in States /\ SameData(s, s') /\ SameRequests(s, s') /\ s'.unserved = s.unserved
        /\ s'.pc = "over" /\ s'.result = "failure"
    <3>1. s' \in States BY <1>4, <2>1 DEF States, Points
    <3> QED BY <1>4, <2>1, <3>1 DEF States, SameData, SameCatalog, SameRequests
  <2> QED BY <1>1, <1>4, <2>2, TakenMove
<1>8. CASE read.closing /\ s' = ClosingTaken(x, o)
  <2>1. CASE src.taken + 1 < src.produced
    <3>1. s' = [s EXCEPT !.awaiting = FALSE, !.pc = "over", !.result = "failure"]
      BY <1>8, <2>1 DEF ClosingTaken, Over
    <3>2. s' \in States /\ SameData(s, s') /\ SameRequests(s, s') /\ s'.unserved = s.unserved
          /\ s'.pc = "over" /\ s'.result = "failure"
      <4>1. s' \in States BY <1>4, <3>1 DEF States, Points
      <4> QED BY <1>4, <3>1, <4>1 DEF States, SameData, SameCatalog, SameRequests
    <3> QED BY <1>1, <1>4, <3>2, TakenMove
  <2>2. CASE ~(src.taken + 1 < src.produced)
    <3>1. s' = LeftWith(s, o) BY <1>8, <2>2 DEF ClosingTaken, LeftWith
    <3>2. o \in Catalogs /\ (s.latest # None => Before(s.latest, o))
          /\ scenario.objects[src.taken + 1].closing
      BY <1>1, <1>2, <1>4, <1>8, NextCatalog
    <3> HIDE DEF read, o, x
    <3> QED BY <1>1, <3>1, <3>2, ClosingStep
  <2> QED BY <2>1, <2>2
<1>9. CASE ~read.closing /\ read.track = "catalog" /\ s' = CatalogTaken(x, o)
  <2> DEFINE group == IF s.group # <<>> /\ Head(s.group).group = o.group THEN Append(s.group, o) ELSE <<o>>
             kept == [x EXCEPT !.latest = o, !.group = group]
             due == IF draft < 22 THEN kept
                    ELSE [kept EXCEPT !.sent = FALSE, !.unserved = SubsOf(s, "catalog") # {}]
  <2>1. s' = CatalogBegun(due, "control")
    <3>1. x.group = s.group /\ SubsOf(x, "catalog") = SubsOf(s, "catalog")
      BY <1>5 DEF SameData, SameCatalog, SameRequests, SubsOf
    <3>2. [x EXCEPT !.latest = o,
                    !.group = IF @ # <<>> /\ Head(@).group = o.group THEN Append(@, o) ELSE <<o>>] = kept
      BY <3>1
    <3> HIDE DEF x, o
    <3> QED BY <1>9, <3>1, <3>2 DEF CatalogTaken
  <2>2. group \in Seq(Catalogs)
    <3>1. s.group \in Seq(Catalogs) /\ o \in Catalogs BY <1>2, <1>4, <1>9 DEF States
    <3>2. Append(s.group, o) \in Seq(Catalogs) /\ <<o>> \in Seq(Catalogs) BY <3>1
    <3> QED BY <3>2
  <2> HIDE DEF read, o
  <2>3. /\ kept \in States /\ SameRequests(s, kept) /\ kept.latest = o /\ kept.group = group
        /\ kept.pc = s.pc /\ kept.result = s.result /\ kept.ret = s.ret /\ kept.sending = s.sending
        /\ kept.closing = s.closing /\ kept.out = s.out /\ kept.largest = s.largest
        /\ kept.sentAny = s.sentAny /\ kept.offset = s.offset /\ kept.unserved = s.unserved
    <3>1. kept = [s EXCEPT !.awaiting = FALSE, !.latest = o, !.group = group] OBVIOUS
    <3> HIDE DEF x, group, kept
    <3>2. kept \in States BY <1>2, <1>4, <1>9, <2>2, <3>1 DEF States
    <3> QED BY <1>4, <3>1, <3>2 DEF States, SameRequests
  <2> HIDE DEF kept, x
  <2>4. /\ due \in States /\ SameRequests(s, due) /\ due.latest = o /\ due.group = group
        /\ due.pc = s.pc /\ due.result = s.result /\ due.ret = s.ret /\ due.sending = s.sending
        /\ due.closing = s.closing /\ due.out = s.out /\ due.largest = s.largest
        /\ due.sentAny = s.sentAny /\ due.offset = s.offset
        /\ (due.unserved = s.unserved \/ due.unserved = (SubsOf(s, "catalog") # {}))
    <3> DEFINE b == SubsOf(s, "catalog") # {}
               z == [kept EXCEPT !.sent = FALSE, !.unserved = b]
    <3>1. b \in BOOLEAN OBVIOUS
    <3>2. CASE draft < 22 BY <2>3, <3>2
    <3>3. CASE ~(draft < 22)
      <4>1. due = z BY <3>3
      <4> HIDE DEF b, due, group
      <4>2. z \in States BY <2>3, <3>1 DEF States
      <4>3. /\ SameRequests(kept, z) /\ z.latest = kept.latest /\ z.group = kept.group
            /\ z.pc = kept.pc /\ z.result = kept.result /\ z.ret = kept.ret /\ z.sending = kept.sending
            /\ z.closing = kept.closing /\ z.out = kept.out /\ z.largest = kept.largest
            /\ z.sentAny = kept.sentAny /\ z.offset = kept.offset /\ z.unserved = b
        BY <2>3, <4>2 DEF States, SameRequests
      <4> HIDE DEF z
      <4>4. SameRequests(s, z) BY <2>3, <4>3 DEF SameRequests
      <4> QED BY <2>3, <4>1, <4>2, <4>3, <4>4 DEF b
    <3> QED BY <3>2, <3>3
  <2> HIDE DEF due
  <2>5. RecordInv(due, peer.asked, src.taken + 1, scenario.objects)
    <3>1. /\ read = scenario.objects[src.taken + 1]
          /\ o = [read EXCEPT !.group = @ + IF read.track = "catalog" THEN s.offset ELSE 0]
      BY DEF read, o
    <3>2. due.group = IF s.group # <<>> /\ Head(s.group).group = o.group THEN Append(s.group, o) ELSE <<o>>
      BY <2>4 DEF group
    <3>3. s.pc = "source" /\ src.taken < src.produced BY <1>1
    <3> QED BY <1>9, <2>4, <3>1, <3>2, <3>3, CatalogDue
  <2>6. AtRest(due) /\ src.taken + 1 \in Nat BY <1>1, <1>2, <2>4 DEF AtRest
  <2>7. s' \in States /\ RecordInv(s', peer.asked, src.taken + 1, scenario.objects) /\ Serving(s')
    BY <1>2, <2>1, <2>4, <2>5, <2>6, BegunStep
  <2>8. src'.taken = src.taken + 1 BY <1>1 DEF ObjectsTypes, Sources
  <2>9. LeftInTime(s', src', peer, scenario.objects) BY <2>7, NoReasonNeeded DEF RecordInv
  <2> QED BY <1>1, <2>7, <2>8, <2>9, SessionFrame
<1>10. CASE read.track # "catalog" /\ s' = MediaTaken(x, o)
  <2>1. \/ s' = [s EXCEPT !.awaiting = FALSE, !.pc = "control"]
        \/ s' = [s EXCEPT !.awaiting = FALSE, !.pc = "sendMedia", !.ret = "control", !.sending = <<o>>]
    <3> HIDE DEF o
    <3> QED BY <1>10 DEF MediaTaken
  <2>2. CASE s' = [s EXCEPT !.awaiting = FALSE, !.pc = "control"]
    <3>1. s' \in States /\ SameData(s, s') /\ SameRequests(s, s') /\ s'.unserved = s.unserved
          /\ s'.pc = "control" /\ s'.result = "none"
      <4>1. s' \in States BY <1>4, <2>2 DEF States, Points
      <4> QED BY <1>4, <2>2, <4>1 DEF States, SameData, SameCatalog, SameRequests
    <3> QED BY <1>1, <1>4, <3>1, TakenMove DEF AtRest
  <2>3. CASE s' = [s EXCEPT !.awaiting = FALSE, !.pc = "sendMedia", !.ret = "control", !.sending = <<o>>]
    <3> HIDE DEF o, read, x
    <3> QED BY <1>1, <1>2, <1>3, <1>10, <2>3, MediaBegun
  <2> QED BY <2>1, <2>2, <2>3
<1> HIDE DEF read, o, x
<1> QED BY <1>6, <1>7, <1>8, <1>9, <1>10

(* ---- writing ---- *)

\* A publish that is over keeps what it sent and to whom.
LEMMA OverFrame ==
    ASSUME NEW x \in States, NEW y \in States, NEW n, NEW taken, NEW os, RecordInv(x, n, taken, os),
           y.pc = "over", y.result = "success", y.stop, x.stop,
           SameRequests(x, y), y.ret = x.ret, y.out = x.out, y.group = x.group, y.latest = x.latest,
           y.closing = x.closing, y.largest = x.largest, y.sentAny = x.sentAny
    PROVE  RecordInv(y, n, taken, os)
<1>1. ~Serving(y) /\ ~Leaving(y) /\ ~Closing(y) BY DEF Serving, Leaving, Closing
<1>2. SendingKnown(y) BY <1>1 DEF SendingKnown
<1>3. EndsInOrder(y) BY <1>1 DEF RecordInv, EndsInOrder
<1>4. RequestsKnown(y, n) BY DEF RecordInv, RequestsKnown, SameRequests
<1>5. DonesKnown(y) BY <1>1 DEF RecordInv, DonesKnown, SameRequests
<1>6. GroupKept(y, taken, os) BY <1>1 DEF RecordInv, GroupKept
<1>7. LocationsGrow(y) BY <1>1 DEF RecordInv, LocationsGrow, CatalogAt
<1>8. CatalogOwed(y) BY <1>1 DEF RecordInv, CatalogOwed, SameRequests
<1> QED BY <1>2, <1>3, <1>4, <1>5, <1>6, <1>7, <1>8 DEF RecordInv

LEMMA CutStep ==
    ASSUME ObjectsTypes, ObjectsInv, FlushCut
    PROVE  ObjectsTypes' /\ ObjectsInv'
<1>1. s \in States /\ RecordInv(s, peer.asked, src.taken, scenario.objects) /\ s.stop
      /\ UNCHANGED <<scenario, src, peer>> /\ s' = [s EXCEPT !.pc = "over", !.result = "success"]
  BY RecordOf DEF ObjectsTypes, FlushCut, Over
<1>2. /\ s' \in States /\ s'.pc = "over" /\ s'.result = "success" /\ s'.stop
      /\ SameRequests(s, s') /\ s'.ret = s.ret /\ s'.out = s.out /\ s'.group = s.group
      /\ s'.latest = s.latest /\ s'.closing = s.closing /\ s'.largest = s.largest
      /\ s'.sentAny = s.sentAny
  <2>1. s' \in States BY <1>1 DEF States, Points
  <2> QED BY <1>1, <2>1 DEF States, SameRequests
<1>3. RecordInv(s', peer.asked, src.taken, scenario.objects) BY <1>1, <1>2, OverFrame
<1>4. LeftInTime(s', src, peer, scenario.objects) BY <1>2 DEF LeftInTime
<1> QED BY <1>1, <1>2, <1>3, <1>4, SessionFrame

\* A write is given up in the loop: the session goes on with the flush.
LEMMA InterruptStep ==
    ASSUME ObjectsTypes, ObjectsInv, WriteInterrupted
    PROVE  ObjectsTypes' /\ ObjectsInv'
<1>1. /\ s \in States /\ RecordInv(s, peer.asked, src.taken, scenario.objects)
      /\ UNCHANGED <<scenario, src, peer>> /\ s.pc \in {"sendCatalog", "sendMedia"}
      /\ (s.stop \/ (peer.fin /\ s.ret # "flush"))
      /\ s' = IF s.ret = "flush" THEN Over(s, "success")
              ELSE [s EXCEPT !.pc = "flushGroups", !.sending = <<>>, !.ret = "none"]
  BY RecordOf DEF ObjectsTypes, WriteInterrupted, Interrupted
<1>2. CASE s.ret = "flush"
  <2>1. s.stop /\ s' = [s EXCEPT !.pc = "over", !.result = "success"] BY <1>1, <1>2 DEF Over
  <2>2. /\ s' \in States /\ s'.pc = "over" /\ s'.result = "success" /\ s'.stop
        /\ SameRequests(s, s') /\ s'.ret = s.ret /\ s'.out = s.out /\ s'.group = s.group
        /\ s'.latest = s.latest /\ s'.closing = s.closing /\ s'.largest = s.largest
        /\ s'.sentAny = s.sentAny
    <3>1. s \in States BY <1>1
    <3>2. s' \in States BY <2>1, <3>1 DEF States, Points
    <3> QED BY <2>1, <3>1, <3>2 DEF States, SameRequests
  <2>3. RecordInv(s', peer.asked, src.taken, scenario.objects) BY <1>1, <2>1, <2>2, OverFrame
  <2>4. LeftInTime(s', src, peer, scenario.objects) BY <2>2 DEF LeftInTime
  <2> QED BY <1>1, <2>2, <2>3, <2>4, SessionFrame
<1>3. CASE s.ret # "flush"
  <2>1. s' = [s EXCEPT !.pc = "flushGroups", !.sending = <<>>, !.ret = "none"] BY <1>1, <1>3
  <2>2. /\ s' \in States /\ s'.pc = "flushGroups" /\ s'.ret = "none" /\ s'.sending = <<>>
        /\ s'.stop = s.stop /\ s'.result = s.result /\ s'.closing = s.closing
        /\ SameRequests(s, s') /\ s'.out = s.out /\ SameCatalog(s, s')
        /\ s'.largest = s.largest /\ s'.sentAny = s.sentAny
    <3>1. <<>> \in Seq(SourceObjects) OBVIOUS
    <3>2. s \in States BY <1>1
    <3>3. s' \in States BY <2>1, <3>1, <3>2 DEF States, Points
    <3> QED BY <2>1, <3>2, <3>3 DEF States, SameRequests, SameCatalog
  <2>3. /\ Serving(s) /\ ~Serving(s') /\ Leaving(s') /\ ~Closing(s')
        /\ s.closing = None /\ s.result = "none"
    BY <1>1, <1>3, <2>2 DEF Serving, Leaving, Closing, RecordInv, SendingKnown
  <2>4. SendingKnown(s') BY <2>2, <2>3 DEF SendingKnown
  <2>5. EndsInOrder(s')
    <3>1. DOMAIN s'.sending = {} BY <2>2, MapEmpty
    <3> QED BY <1>1, <2>2, <2>3, <3>1 DEF RecordInv, EndsInOrder, SameCatalog
  <2>6. RequestsKnown(s', peer.asked) BY <1>1, <2>2 DEF RecordInv, RequestsKnown, SameRequests
  <2>7. DonesKnown(s') BY <2>2, <2>3, <2>4, <2>5, NoDonesYet
  <2>8. GroupKept(s', src.taken, scenario.objects) BY <1>1, <2>2, <2>3 DEF RecordInv, GroupKept, SameCatalog
  <2>9. LocationsGrow(s') BY <1>1, <2>2, <2>3 DEF RecordInv, LocationsGrow, SameCatalog, CatalogAt
  <2>10. CatalogOwed(s') BY <1>1, <2>2, <2>3 DEF RecordInv, CatalogOwed, SameRequests
  <2>11. RecordInv(s', peer.asked, src.taken, scenario.objects)
    BY <2>4, <2>5, <2>6, <2>7, <2>8, <2>9, <2>10 DEF RecordInv
  <2>12. LeftInTime(s', src, peer, scenario.objects) BY <1>1, <1>3, <2>2 DEF LeftInTime
  <2> QED BY <1>1, <2>2, <2>11, <2>12, SessionFrame
<1> QED BY <1>2, <1>3

\* What a write appends to the stream of objects.
LEMMA WriteFacts ==
    ASSUME NEW x \in States, NEW o \in SourceObjects
    PROVE  /\ Append(x.out, o) \in Seq(Messages) /\ Len(x.out) \in Nat
           /\ Len(Append(x.out, o)) = Len(x.out) + 1
           /\ DOMAIN x.out = 1..Len(x.out) /\ DOMAIN Append(x.out, o) = 1..Len(x.out) + 1
           /\ \A i \in 1..Len(x.out) : Append(x.out, o)[i] = x.out[i]
           /\ Append(x.out, o)[Len(x.out) + 1] = o
<1>1. o \in Messages /\ x.out \in Seq(Messages) BY DEF Messages, States
<1> QED BY <1>1, Appended

LEMMA MediaWritten ==
    ASSUME ObjectsTypes, ObjectsInv, SendMediaObject
    PROVE  ObjectsTypes' /\ ObjectsInv'
<1>1. /\ s \in States /\ RecordInv(s, peer.asked, src.taken, scenario.objects)
      /\ UNCHANGED <<scenario, src, peer>> /\ s.pc = "sendMedia"
      /\ s' = [s EXCEPT !.sending = <<>>, !.out = Append(@, Head(s.sending)), !.pc = s.ret, !.ret = "none"]
  BY RecordOf DEF ObjectsTypes, SendMediaObject
<1>2. /\ s.ret = "control" /\ Len(s.sending) = 1 /\ s.sending[1].track = "video" /\ s.closing = None
      /\ s.result = "none" /\ Serving(s)
  BY <1>1 DEF RecordInv, SendingKnown, Serving, Leaving
<1> DEFINE o == Head(s.sending)
           written == Append(s.out, o)
           n == Len(s.out)
<1>3. o = s.sending[1] /\ o \in SourceObjects /\ o.track = "video" /\ ~o.closing /\ s.sending # <<>>
  <2>1. s.sending \in Seq(SourceObjects) BY <1>1 DEF States
  <2>2. s.sending # <<>> BY <1>2, <2>1
  <2>3. o = s.sending[1] /\ 1 \in DOMAIN s.sending BY <1>2, <2>1, <2>2
  <2>4. ~s.sending[1].closing BY <1>1, <1>2, <2>3 DEF RecordInv, EndsInOrder
  <2>5. s.sending[1] \in SourceObjects BY <2>1, <2>3
  <2> QED BY <1>2, <2>2, <2>3, <2>4, <2>5
<1>4. s' = [s EXCEPT !.sending = <<>>, !.out = written, !.pc = "control", !.ret = "none"] BY <1>1, <1>2
<1> HIDE DEF o
<1>5. /\ written \in Seq(Messages) /\ n \in Nat /\ DOMAIN s.out = 1..n /\ DOMAIN written = 1..n + 1
      /\ Len(written) = n + 1 /\ written[n + 1] = o /\ \A i \in 1..n : written[i] = s.out[i]
  <2>1. s \in States /\ o \in SourceObjects BY <1>1, <1>3
  <2> QED BY <2>1, WriteFacts
<1> HIDE DEF written, n
<1>6. /\ s' \in States /\ s'.pc = "control" /\ s'.ret = "none" /\ s'.sending = <<>> /\ s'.out = written
      /\ s'.result = s.result /\ s'.closing = s.closing /\ SameRequests(s, s') /\ SameCatalog(s, s')
      /\ s'.unserved = s.unserved /\ s'.largest = s.largest /\ s'.sentAny = s.sentAny /\ s'.sent = s.sent
  <2>1. <<>> \in Seq(SourceObjects) OBVIOUS
  <2>2. s \in States /\ written \in Seq(Messages) BY <1>1, <1>5
  <2>3. s' \in States BY <1>4, <2>1, <2>2 DEF States, Points
  <2> QED BY <1>4, <2>2, <2>3 DEF States, SameRequests, SameCatalog
<1>7. Serving(s') /\ ~Closing(s') /\ ~Leaving(s') BY <1>6 DEF Serving, Closing, Leaving
<1>8. /\ \A i \in DOMAIN s'.out : CatalogAt(s', i) <=> (i \in DOMAIN s.out /\ CatalogAt(s, i))
      /\ \A i \in DOMAIN s.out : i \in DOMAIN s'.out /\ s'.out[i] = s.out[i]
  <2>1. \A i \in 1..n + 1 : i \in 1..n \/ i = n + 1 BY <1>5
  <2>2. \A i \in 1..n : i \in 1..n + 1 BY <1>5
  <2> QED BY <1>3, <1>5, <1>6, <2>1, <2>2 DEF CatalogAt
<1>9. SendingKnown(s') BY <1>2, <1>6 DEF SendingKnown
<1>10. EndsInOrder(s')
  <2>1. DOMAIN s'.sending = {} BY <1>6, MapEmpty
  <2>2. \A i \in DOMAIN s'.out : s'.out[i].track \in Tracks /\ ~s'.out[i].closing
    <3> TAKE i \in DOMAIN s'.out
    <3>1. CASE i \in 1..n BY <1>1, <1>2, <1>5, <1>6, <3>1 DEF RecordInv, EndsInOrder
    <3>2. CASE i = n + 1 BY <1>3, <1>5, <1>6, <3>2 DEF Tracks
    <3> QED BY <1>5, <1>6, <3>1, <3>2
  <2>3. \A i, j \in DOMAIN s'.out :
            i < j => /\ ~(s'.out[i].track = "done" /\ s'.out[j].track = s'.out[i].object)
                     /\ ~(s'.out[i].closing /\ s'.out[j].track = "done" /\ s'.out[j].object = "video")
    BY <2>2 DEF Tracks
  <2>4. ~s'.latest.closing /\ \A i \in DOMAIN s'.group : ~s'.group[i].closing
    BY <1>1, <1>2, <1>6 DEF RecordInv, EndsInOrder, SameCatalog
  <2> QED BY <1>7, <2>1, <2>2, <2>3, <2>4 DEF EndsInOrder
<1>11. RequestsKnown(s', peer.asked) BY <1>1, <1>6 DEF RecordInv, RequestsKnown, SameRequests
<1>12. DonesKnown(s') BY <1>6, <1>7, <1>9, <1>10, NoDonesYet
<1>13. GroupKept(s', src.taken, scenario.objects) BY <1>1, <1>2, <1>6 DEF RecordInv, GroupKept, SameCatalog
<1>14. LocationsGrow(s')
  <2>1. /\ \A i, j \in DOMAIN s.out : i < j /\ CatalogAt(s, i) /\ CatalogAt(s, j) => Before(s.out[i], s.out[j])
        /\ \A i \in DOMAIN s.out : CatalogAt(s, i) => s.latest # None /\ ~Before(s.latest, s.out[i])
        /\ ~s.sent => \A i \in DOMAIN s.out : CatalogAt(s, i) => Before(s.out[i], s.latest)
        /\ IF s.sentAny THEN \E i \in DOMAIN s.out : CatalogAt(s, i) /\ s.out[i].group = s.largest
                        ELSE \A i \in DOMAIN s.out : ~CatalogAt(s, i)
    BY <1>1, <1>2 DEF RecordInv, LocationsGrow
  <2>2. s'.latest = s.latest /\ s'.pc # "sendCatalog" BY <1>6 DEF SameCatalog
  <2>3. /\ \A i, j \in DOMAIN s'.out : i < j /\ CatalogAt(s', i) /\ CatalogAt(s', j) => Before(s'.out[i], s'.out[j])
        /\ \A i \in DOMAIN s'.out : CatalogAt(s', i) => s'.latest # None /\ ~Before(s'.latest, s'.out[i])
        /\ ~s'.sent => \A i \in DOMAIN s'.out : CatalogAt(s', i) => Before(s'.out[i], s'.latest)
    BY <1>6, <1>8, <2>1, <2>2
  <2>4. IF s'.sentAny THEN \E i \in DOMAIN s'.out : CatalogAt(s', i) /\ s'.out[i].group = s'.largest
                      ELSE \A i \in DOMAIN s'.out : ~CatalogAt(s', i)
    BY <1>6, <1>8, <2>1
  <2> QED BY <2>2, <2>3, <2>4 DEF LocationsGrow
<1>15. CatalogOwed(s')
  <2>1. SubsOf(s', "catalog") = SubsOf(s, "catalog") /\ s'.subs = s.subs BY <1>6 DEF SameRequests, SubsOf
  <2>2. /\ \A r \in DOMAIN s.subs : /\ s.subs[r].since <= n /\ s.subs[r].since \in Nat
                                    /\ s.subs[r].start <= IF s.sentAny THEN s.largest + 1 ELSE 0
        /\ \A r \in SubsOf(s, "catalog") :
             \/ s.unserved \/ s.subs[r].filled
             \/ \E i \in s.subs[r].since + 1..n : CatalogAt(s, i)
    <3>1. \A r \in DOMAIN s.subs : s.subs[r] \in Subs BY <1>1, MapFacts DEF States
    <3>2. \A r \in DOMAIN s.subs : s.subs[r].since \in Nat BY <3>1 DEF Subs
    <3> QED BY <1>1, <1>2, <3>2 DEF RecordInv, CatalogOwed, n
  <2>3. \A r \in DOMAIN s.subs : s.subs[r].since <= n + 1 BY <1>5, <2>2
  <2>4. ASSUME NEW r \in SubsOf(s, "catalog"), NEW i \in s.subs[r].since + 1..n, CatalogAt(s, i)
        PROVE  i \in s.subs[r].since + 1..n + 1 /\ CatalogAt(s', i)
    <3>1. i \in DOMAIN s.out BY <2>4 DEF CatalogAt
    <3>2. s.subs[r].since \in Nat BY <2>2 DEF SubsOf
    <3> QED BY <1>5, <1>8, <2>4, <3>1, <3>2
  <2>5. \A r \in SubsOf(s, "catalog") :
             \/ s.unserved \/ s.subs[r].filled
             \/ \E i \in s.subs[r].since + 1..n + 1 : CatalogAt(s', i)
    BY <2>2, <2>4
  <2>6. Len(s'.out) = n + 1 BY <1>5, <1>6
  <2>7. \A r \in DOMAIN s'.subs : /\ s'.subs[r].since <= Len(s'.out)
                                  /\ s'.subs[r].start <= IF s'.sentAny THEN s'.largest + 1 ELSE 0
    BY <1>6, <2>1, <2>2, <2>3, <2>6
  <2>8. \A r \in SubsOf(s', "catalog") :
             \/ s'.unserved \/ s'.subs[r].filled
             \/ \E i \in s'.subs[r].since + 1..Len(s'.out) : CatalogAt(s', i)
    BY <1>6, <2>1, <2>5, <2>6
  <2> QED BY <2>7, <2>8 DEF CatalogOwed
<1>16. RecordInv(s', peer.asked, src.taken, scenario.objects)
  BY <1>9, <1>10, <1>11, <1>12, <1>13, <1>14, <1>15 DEF RecordInv
<1>17. LeftInTime(s', src, peer, scenario.objects) BY <1>6, <1>7, <1>9, NoReasonNeeded
<1> QED BY <1>1, <1>6, <1>16, <1>17, SessionFrame

\* The group is written: back to where it was due.
LEMMA CatalogSent ==
    ASSUME ObjectsTypes, ObjectsInv, s.pc = "sendCatalog", s.sending = <<>>, UNCHANGED <<scenario, src, peer>>,
           s' = [s EXCEPT !.sent = TRUE, !.pc = s.ret, !.ret = "none"]
    PROVE  ObjectsTypes' /\ ObjectsInv'
<1>1. s \in States /\ RecordInv(s, peer.asked, src.taken, scenario.objects) BY RecordOf DEF ObjectsTypes
<1>2. s.ret \in {"permit", "control", "flush"} /\ s.closing = None /\ s.result = "none"
  BY <1>1 DEF RecordInv, SendingKnown, Leaving
<1>3. /\ s' \in States /\ s'.pc = s.ret /\ s'.ret = "none" /\ s'.sent = TRUE /\ s'.sending = <<>>
      /\ s'.out = s.out /\ s'.stop = s.stop /\ s'.mediaOnce = s.mediaOnce
      /\ s'.result = s.result /\ s'.closing = s.closing /\ SameRequests(s, s') /\ SameCatalog(s, s')
      /\ s'.unserved = s.unserved /\ s'.largest = s.largest /\ s'.sentAny = s.sentAny
  <2>1. s.ret \in Points BY <1>2 DEF Points
  <2>2. s' \in States BY <1>1, <2>1 DEF States
  <2> QED BY <1>1, <2>2 DEF States, SameRequests, SameCatalog
<1>4. /\ (Serving(s') <=> Serving(s)) /\ ~Leaving(s) /\ ~Leaving(s') /\ (Closing(s') <=> Closing(s))
      /\ s'.pc # "sendCatalog"
  BY <1>2, <1>3 DEF Serving, Leaving, Closing
<1>5. SendingKnown(s') BY <1>2, <1>3 DEF SendingKnown
<1>6. EndsInOrder(s') BY <1>1, <1>3, <1>4 DEF RecordInv, EndsInOrder, SameCatalog
<1>7. RequestsKnown(s', peer.asked) BY <1>1, <1>3 DEF RecordInv, RequestsKnown, SameRequests
<1>8. DonesKnown(s')
  <2>1. SubsOf(s', "video") = SubsOf(s, "video") BY <1>3 DEF SubsOf, SameRequests
  <2> QED BY <1>1, <1>2, <1>3, <1>4, <2>1 DEF RecordInv, DonesKnown, SameRequests, IsDone
<1>9. GroupKept(s', src.taken, scenario.objects) BY <1>1, <1>3, <1>4 DEF RecordInv, GroupKept, SameCatalog
<1>10. LocationsGrow(s') BY <1>1, <1>3, <1>4 DEF RecordInv, LocationsGrow, SameCatalog, CatalogAt
<1>11. CatalogOwed(s')
  <2>1. SubsOf(s', "catalog") = SubsOf(s, "catalog") /\ s'.subs = s.subs BY <1>3 DEF SameRequests, SubsOf
  <2> QED BY <1>1, <1>3, <1>4, <2>1 DEF RecordInv, CatalogOwed, CatalogAt
<1>12. RecordInv(s', peer.asked, src.taken, scenario.objects)
  BY <1>5, <1>6, <1>7, <1>8, <1>9, <1>10, <1>11 DEF RecordInv
<1>13. LeftInTime(s', src, peer, scenario.objects) BY <1>2, <1>3, <1>4 DEF ObjectsInv, LeftInTime
<1> QED BY <1>3, <1>12, <1>13, SessionFrame

\* The rest of a sequence.
LEMMA RestFacts ==
    ASSUME NEW S, NEW u \in Seq(S), u # <<>>
    PROVE  /\ Head(u) = u[1] /\ 1 \in DOMAIN u /\ u[1] \in S /\ Tail(u) \in Seq(S)
           /\ \A i \in DOMAIN Tail(u) : i + 1 \in DOMAIN u /\ Tail(u)[i] = u[i + 1] /\ i \in Nat /\ i >= 1
<1>1. Len(u) \in Nat /\ DOMAIN u = 1..Len(u) /\ Len(u) # 0 BY EmptySeq
<1>2. Head(u) = u[1] /\ 1 \in DOMAIN u /\ u[1] \in S /\ Tail(u) \in Seq(S) BY <1>1
<1>3. Len(Tail(u)) = Len(u) - 1 /\ DOMAIN Tail(u) = 1..Len(Tail(u))
      /\ \A i \in 1..Len(Tail(u)) : Tail(u)[i] = u[i + 1]
  BY <1>1, <1>2
<1> QED BY <1>1, <1>2, <1>3

\* The first object still to be written goes out.
SentOne(x, rest, written, o) ==
  [x EXCEPT !.sending = rest, !.out = written, !.largest = o.group, !.sentAny = TRUE]

SentAs(x, y, rest, written, o) ==
  /\ y \in States /\ y.pc = x.pc /\ y.ret = x.ret /\ y.sending = rest /\ y.out = written
  /\ y.largest = o.group /\ y.sentAny = TRUE /\ y.sent = x.sent /\ y.unserved = x.unserved
  /\ y.result = x.result /\ y.stop = x.stop /\ y.mediaOnce = x.mediaOnce /\ y.closing = x.closing
  /\ SameRequests(x, y) /\ SameCatalog(x, y)

LEMMA SentOneRecord ==
    ASSUME NEW x \in States, NEW o \in SourceObjects, NEW rest \in Seq(SourceObjects),
           NEW written \in Seq(Messages)
    PROVE  SentAs(x, SentOne(x, rest, written, o), rest, written, o)
<1> DEFINE y == SentOne(x, rest, written, o)
<1>1. o.group \in Nat BY DEF SourceObjects
<1>2. y = [x EXCEPT !.sending = rest, !.out = written, !.largest = o.group, !.sentAny = TRUE] BY DEF SentOne
<1> HIDE DEF y
<1>3. y \in States BY <1>1, <1>2 DEF States
<1>4. SentAs(x, y, rest, written, o) BY <1>2, <1>3 DEF States, SameRequests, SameCatalog, SentAs
<1> QED BY <1>4 DEF y

\* A record with the first object of a group written.
WrittenAs(x, y, o) ==
  /\ 1 \in DOMAIN x.sending /\ o = x.sending[1] /\ o \in SourceObjects
  /\ \A i \in DOMAIN y.sending : /\ i + 1 \in DOMAIN x.sending /\ y.sending[i] = x.sending[i + 1]
                                 /\ i \in Nat /\ i >= 1
  /\ Len(x.out) \in Nat /\ Len(y.out) = Len(x.out) + 1 /\ y.out[Len(x.out) + 1] = o
  /\ DOMAIN x.out = 1..Len(x.out) /\ DOMAIN y.out = 1..Len(x.out) + 1
  /\ \A i \in 1..Len(x.out) : y.out[i] = x.out[i]
  /\ y.pc = "sendCatalog" /\ y.ret = x.ret
  /\ y.largest = o.group /\ y.sentAny = TRUE /\ y.sent = x.sent /\ y.unserved = x.unserved
  /\ y.result = x.result /\ y.stop = x.stop /\ y.mediaOnce = x.mediaOnce /\ y.closing = x.closing
  /\ SameRequests(x, y) /\ SameCatalog(x, y)

LEMMA WrittenRecord ==
    ASSUME NEW x \in States, NEW y \in States, x.pc = "sendCatalog", NEW o, WrittenAs(x, y, o),
           NEW asked, NEW taken, NEW os, RecordInv(x, asked, taken, os)
    PROVE  /\ RecordInv(y, asked, taken, os) /\ ~Leaving(x) /\ ~Leaving(y) /\ (Closing(y) <=> Closing(x))
           /\ y.result = "none"
<1> DEFINE n == Len(x.out)
<1>1. x \in States /\ RecordInv(x, asked, taken, os) OBVIOUS
<1>2. x.ret \in {"permit", "control", "flush"} /\ x.closing = None /\ x.result = "none"
      /\ \A i \in DOMAIN x.sending : x.sending[i].track = "catalog"
  BY <1>1 DEF RecordInv, SendingKnown, Leaving
<1>4. /\ o = x.sending[1] /\ 1 \in DOMAIN x.sending /\ o \in SourceObjects
      /\ \A i \in DOMAIN y.sending : /\ i + 1 \in DOMAIN x.sending /\ y.sending[i] = x.sending[i + 1]
                                     /\ i \in Nat /\ i >= 1
  BY DEF WrittenAs
<1>5. o.track = "catalog" /\ o.group \in Nat /\ o.object \in Nat BY <1>2, <1>4 DEF SourceObjects
<1>6. /\ n \in Nat /\ DOMAIN x.out = 1..n /\ DOMAIN y.out = 1..n + 1
      /\ Len(y.out) = n + 1 /\ y.out[n + 1] = o /\ \A i \in 1..n : y.out[i] = x.out[i]
  BY DEF WrittenAs
<1>7. /\ y.pc = "sendCatalog" /\ y.ret = x.ret
      /\ y.largest = o.group /\ y.sentAny = TRUE /\ y.sent = x.sent /\ y.unserved = x.unserved
      /\ y.result = x.result /\ y.stop = x.stop /\ y.mediaOnce = x.mediaOnce /\ y.closing = x.closing
      /\ SameRequests(x, y) /\ SameCatalog(x, y)
  BY DEF WrittenAs
<1> HIDE DEF n
<1>8. /\ (Serving(y) <=> Serving(x)) /\ ~Leaving(x) /\ ~Leaving(y) /\ (Closing(y) <=> Closing(x))
      /\ (Serving(x) <=> x.ret # "flush") /\ (Closing(x) <=> x.ret = "flush")
  BY <1>2, <1>7 DEF Serving, Leaving, Closing
<1>9. \A i \in 1..n + 1 : i \in 1..n \/ i = n + 1 BY <1>6
<1>10. /\ \A i \in 1..n : CatalogAt(y, i) <=> CatalogAt(x, i)
       /\ CatalogAt(y, n + 1) /\ y.out[n + 1] = o /\ n + 1 \in 1..n + 1 /\ DOMAIN y.out = 1..n + 1
       /\ \A i \in 1..n : y.out[i] = x.out[i] /\ i \in 1..n + 1 /\ i < n + 1
  <2>1. \A i \in 1..n : i \in 1..n + 1 /\ i < n + 1 BY <1>6
  <2>2. n + 1 \in 1..n + 1 BY <1>6
  <2> QED BY <1>5, <1>6, <1>7, <2>1, <2>2 DEF CatalogAt
<1>11. SendingKnown(y)
  <2>1. \A i \in DOMAIN y.sending : y.sending[i].track = "catalog" BY <1>2, <1>4
  <2> QED BY <1>2, <1>7, <2>1 DEF SendingKnown
<1>12. EndsInOrder(y)
  <2>1. \A i \in DOMAIN y.group : ~y.group[i].closing BY <1>1, <1>7 DEF RecordInv, EndsInOrder, SameCatalog
  <2>2. Serving(y) =>
          /\ ~y.latest.closing
          /\ \A i \in DOMAIN y.sending : ~y.sending[i].closing
          /\ \A i \in DOMAIN y.out : y.out[i].track \in Tracks /\ ~y.out[i].closing
    <3> SUFFICES ASSUME Serving(y)
                 PROVE  /\ ~y.latest.closing
                        /\ \A i \in DOMAIN y.sending : ~y.sending[i].closing
                        /\ \A i \in DOMAIN y.out : y.out[i].track \in Tracks /\ ~y.out[i].closing
      OBVIOUS
    <3>1. /\ ~x.latest.closing /\ \A i \in DOMAIN x.sending : ~x.sending[i].closing
          /\ \A i \in DOMAIN x.out : x.out[i].track \in Tracks /\ ~x.out[i].closing
      BY <1>1, <1>8 DEF RecordInv, EndsInOrder
    <3>2. \A i \in DOMAIN y.sending : ~y.sending[i].closing BY <1>4, <1>7, <3>1
    <3>3. ~o.closing BY <1>4, <3>1
    <3>4. \A i \in DOMAIN y.out : y.out[i].track \in Tracks /\ ~y.out[i].closing
      <4> TAKE i \in DOMAIN y.out
      <4>1. CASE i \in 1..n BY <1>6, <1>10, <3>1, <4>1
      <4>2. CASE i = n + 1 BY <1>5, <1>10, <3>3, <4>2 DEF Tracks
      <4> QED BY <1>9, <1>10, <4>1, <4>2
    <3> QED BY <1>7, <3>1, <3>2, <3>4 DEF SameCatalog
  <2>3. Closing(y) => \A i \in DOMAIN y.out :
           y.out[i].track \in Tracks \/ (y.out[i].track = "done" /\ y.out[i].object = "video")
    <3> SUFFICES ASSUME Closing(y), NEW i \in DOMAIN y.out
                 PROVE  y.out[i].track \in Tracks \/ (y.out[i].track = "done" /\ y.out[i].object = "video")
      OBVIOUS
    <3>1. CASE i \in 1..n
      <4>1. x.out[i].track \in Tracks \/ (x.out[i].track = "done" /\ x.out[i].object = "video")
        BY <1>1, <1>6, <1>8, <3>1 DEF RecordInv, EndsInOrder
      <4> QED BY <1>10, <3>1, <4>1
    <3>2. CASE i = n + 1 BY <1>5, <1>10, <3>2 DEF Tracks
    <3> QED BY <1>9, <1>10, <3>1, <3>2
  <2>4. \A i, j \in DOMAIN y.out :
            i < j => /\ ~(y.out[i].track = "done" /\ y.out[j].track = y.out[i].object)
                     /\ ~(y.out[i].closing /\ y.out[j].track = "done" /\ y.out[j].object = "video")
    <3> TAKE i, j \in DOMAIN y.out
    <3> SUFFICES ASSUME i < j
                 PROVE  /\ ~(y.out[i].track = "done" /\ y.out[j].track = y.out[i].object)
                        /\ ~(y.out[i].closing /\ y.out[j].track = "done" /\ y.out[j].object = "video")
      OBVIOUS
    <3>1. i \in 1..n BY <1>6, <1>10
    <3>2. CASE j \in 1..n
      <4>1. /\ ~(x.out[i].track = "done" /\ x.out[j].track = x.out[i].object)
            /\ ~(x.out[i].closing /\ x.out[j].track = "done" /\ x.out[j].object = "video")
        BY <1>1, <1>6, <3>1, <3>2 DEF RecordInv, EndsInOrder
      <4> QED BY <1>10, <3>1, <3>2, <4>1
    <3>3. CASE j = n + 1
      <4>1. y.out[i].track = "done" => y.out[i].object = "video" BY <1>2, <1>8, <1>10, <2>2, <2>3 DEF Tracks
      <4>2. y.out[j].track = "catalog" BY <1>5, <1>10, <3>3
      <4> QED BY <4>1, <4>2
    <3> QED BY <1>9, <1>10, <3>2, <3>3
  <2> QED BY <1>8, <2>1, <2>2, <2>3, <2>4 DEF EndsInOrder
<1>13. RequestsKnown(y, asked) BY <1>1, <1>7 DEF RecordInv, RequestsKnown, SameRequests
<1>14. DonesKnown(y)
  <2>1. \A i \in DOMAIN y.out : y.out[i].track = "done" =>
          i \in DOMAIN x.out /\ y.out[i] = x.out[i]
    BY <1>5, <1>6, <1>9, <1>10
  <2>2. \A i \in DOMAIN x.out : i \in DOMAIN y.out /\ y.out[i] = x.out[i] BY <1>6, <1>10
  <2>3. SubsOf(y, "video") = SubsOf(x, "video") BY <1>7 DEF SubsOf, SameRequests
  <2>4. \A r : (\E i \in DOMAIN x.out : IsDone(x, i, r)) => \E i \in DOMAIN y.out : IsDone(y, i, r)
    BY <2>2 DEF IsDone
  <2>5. /\ \A i, j \in DOMAIN x.out :
             (x.out[i].track = "done" /\ x.out[j].track = "done" /\ x.out[i].group = x.out[j].group) => i = j
        /\ \A i \in DOMAIN x.out : x.out[i].track = "done" => x.out[i].group \notin x.ended \cup x.terminated
    BY <1>1 DEF RecordInv, DonesKnown
  <2>6. Closing(y) =>
          /\ \A i \in DOMAIN y.out : y.out[i].track = "done" =>
               /\ y.out[i].group # 2
               /\ (y.out[i].group \in DOMAIN y.subs) => y.subs[y.out[i].group].track = "video"
          /\ \A r \in SubsOf(y, "video") : \E i \in DOMAIN y.out : IsDone(y, i, r)
          /\ y.publishes # <<>> /\ 4 \notin y.terminated => \E i \in DOMAIN y.out : IsDone(y, i, 4)
    <3> SUFFICES ASSUME Closing(y)
                 PROVE  /\ \A i \in DOMAIN y.out : y.out[i].track = "done" =>
                             /\ y.out[i].group # 2
                             /\ (y.out[i].group \in DOMAIN y.subs) => y.subs[y.out[i].group].track = "video"
                        /\ \A r \in SubsOf(y, "video") : \E i \in DOMAIN y.out : IsDone(y, i, r)
                        /\ y.publishes # <<>> /\ 4 \notin y.terminated => \E i \in DOMAIN y.out : IsDone(y, i, 4)
      OBVIOUS
    <3>1. /\ \A i \in DOMAIN x.out : x.out[i].track = "done" =>
               /\ x.out[i].group # 2
               /\ (x.out[i].group \in DOMAIN x.subs) => x.subs[x.out[i].group].track = "video"
          /\ \A r \in SubsOf(x, "video") : \E i \in DOMAIN x.out : IsDone(x, i, r)
          /\ x.publishes # <<>> /\ 4 \notin x.terminated => \E i \in DOMAIN x.out : IsDone(x, i, 4)
      BY <1>1, <1>8 DEF RecordInv, DonesKnown
    <3> QED BY <1>7, <2>1, <2>3, <2>4, <3>1 DEF SameRequests
  <2>7. y.result # "success" BY <1>2, <1>7
  <2>8. y.ended = x.ended /\ y.terminated = x.terminated BY <1>7 DEF SameRequests
  <2> QED BY <2>1, <2>5, <2>6, <2>7, <2>8 DEF DonesKnown
<1>15. GroupKept(y, taken, os) BY <1>1, <1>7, <1>8 DEF RecordInv, GroupKept, SameCatalog
<1>16. LocationsGrow(y)
  <2>1. /\ \A i, j \in DOMAIN x.out : i < j /\ CatalogAt(x, i) /\ CatalogAt(x, j) => Before(x.out[i], x.out[j])
        /\ \A i, j \in DOMAIN x.sending : i < j => Before(x.sending[i], x.sending[j])
        /\ \A i \in DOMAIN x.out, j \in DOMAIN x.sending : CatalogAt(x, i) => Before(x.out[i], x.sending[j])
        /\ x.ret # "flush" => /\ x.latest # None
                              /\ \A j \in DOMAIN x.sending : ~Before(x.latest, x.sending[j])
                              /\ \A i \in DOMAIN x.out : CatalogAt(x, i) => ~Before(x.latest, x.out[i])
    BY <1>1, <1>8 DEF RecordInv, LocationsGrow
  <2>2. \A i \in 1..n : CatalogAt(x, i) => Before(x.out[i], o) BY <1>4, <1>6, <2>1
  <2>3. \A i \in DOMAIN y.sending : Before(o, y.sending[i])
    <3> TAKE i \in DOMAIN y.sending
    <3>1. 1 < i + 1 BY <1>4
    <3> QED BY <1>4, <2>1, <3>1
  <2>4. \A i, j \in DOMAIN y.out : i < j /\ CatalogAt(y, i) /\ CatalogAt(y, j) => Before(y.out[i], y.out[j])
    <3> TAKE i, j \in DOMAIN y.out
    <3> SUFFICES ASSUME i < j, CatalogAt(y, i), CatalogAt(y, j) PROVE Before(y.out[i], y.out[j]) OBVIOUS
    <3>1. i \in 1..n BY <1>6, <1>10
    <3>2. CASE j \in 1..n BY <1>6, <1>10, <2>1, <3>1, <3>2
    <3>3. CASE j = n + 1 BY <1>10, <2>2, <3>1, <3>3
    <3> QED BY <1>9, <1>10, <3>2, <3>3
  <2>5. \A i, j \in DOMAIN y.sending : i < j => Before(y.sending[i], y.sending[j])
    <3> TAKE i, j \in DOMAIN y.sending
    <3> SUFFICES ASSUME i < j PROVE Before(y.sending[i], y.sending[j]) OBVIOUS
    <3>1. i + 1 < j + 1 BY <1>4, <1>7
    <3> QED BY <1>4, <1>7, <2>1, <3>1
  <2>6. \A i \in DOMAIN y.out, j \in DOMAIN y.sending : CatalogAt(y, i) => Before(y.out[i], y.sending[j])
    <3> TAKE i \in DOMAIN y.out, j \in DOMAIN y.sending
    <3> SUFFICES ASSUME CatalogAt(y, i) PROVE Before(y.out[i], y.sending[j]) OBVIOUS
    <3>1. CASE i \in 1..n BY <1>4, <1>6, <1>7, <1>10, <2>1, <3>1
    <3>2. CASE i = n + 1 BY <1>7, <1>10, <2>3, <3>2
    <3> QED BY <1>9, <1>10, <3>1, <3>2
  <2>7. y.ret # "flush" => /\ y.latest # None
                            /\ \A j \in DOMAIN y.sending : ~Before(y.latest, y.sending[j])
    BY <1>4, <1>7, <2>1 DEF SameCatalog
  <2>8. y.ret # "flush" =>
          \A i \in DOMAIN y.out : CatalogAt(y, i) => y.latest # None /\ ~Before(y.latest, y.out[i])
    <3> SUFFICES ASSUME y.ret # "flush", NEW i \in DOMAIN y.out, CatalogAt(y, i)
                 PROVE  y.latest # None /\ ~Before(y.latest, y.out[i])
      OBVIOUS
    <3>1. CASE i \in 1..n BY <1>6, <1>7, <1>10, <2>1, <3>1 DEF SameCatalog
    <3>2. CASE i = n + 1 BY <1>4, <1>7, <1>10, <2>1, <3>2 DEF SameCatalog
    <3> QED BY <1>9, <1>10, <3>1, <3>2
  <2>9. \E i \in DOMAIN y.out : CatalogAt(y, i) /\ y.out[i].group = y.largest BY <1>7, <1>10
  <2>10. Serving(y) \/ Leaving(y) => y.ret # "flush" BY <1>7, <1>8
  <2> QED BY <1>7, <2>4, <2>5, <2>6, <2>7, <2>8, <2>9, <2>10 DEF LocationsGrow
<1>17. CatalogOwed(y)
  <2>1. SubsOf(y, "catalog") = SubsOf(x, "catalog") /\ y.subs = x.subs BY <1>7 DEF SameRequests, SubsOf
  <2>2. \A r \in DOMAIN x.subs : x.subs[r] \in Subs BY <1>1, MapFacts DEF States
  <2>3. \A r \in DOMAIN x.subs : x.subs[r].since \in Nat /\ x.subs[r].start \in Nat BY <2>2 DEF Subs
  <2>4. \A r \in DOMAIN x.subs : /\ x.subs[r].since <= n
                                 /\ x.subs[r].start <= IF x.sentAny THEN x.largest + 1 ELSE 0
    BY <1>1 DEF RecordInv, CatalogOwed, n
  <2>5. x.sentAny => x.largest <= o.group
    <3> SUFFICES ASSUME x.sentAny PROVE x.largest <= o.group OBVIOUS
    <3>1. PICK i \in DOMAIN x.out : CatalogAt(x, i) /\ x.out[i].group = x.largest
      BY <1>1 DEF RecordInv, LocationsGrow
    <3>2. Before(x.out[i], o) BY <1>1, <1>4, <3>1 DEF RecordInv, LocationsGrow
    <3>3. x.out[i].group \in Nat BY <1>1, <3>1, LocationTypes
    <3> QED BY <1>5, <3>1, <3>2, <3>3 DEF Before
  <2>6. \A r \in DOMAIN y.subs : /\ y.subs[r].since <= Len(y.out)
                                  /\ y.subs[r].start <= IF y.sentAny THEN y.largest + 1 ELSE 0
    <3> TAKE r \in DOMAIN y.subs
    <3>1. y.subs[r].since <= Len(y.out) BY <1>6, <1>7, <2>1, <2>3, <2>4
    <3>2. x.largest \in Nat BY <1>1 DEF States
    <3>3. y.subs[r].start <= o.group + 1 BY <1>5, <2>1, <2>3, <2>4, <2>5, <3>2
    <3> QED BY <1>7, <3>1, <3>3
  <2>7. \A r \in SubsOf(y, "catalog") : \E i \in y.subs[r].since + 1..Len(y.out) : CatalogAt(y, i)
    <3> TAKE r \in SubsOf(y, "catalog")
    <3>1. x.subs[r].since \in Nat /\ x.subs[r].since <= n BY <2>1, <2>3, <2>4 DEF SubsOf
    <3>2. n + 1 \in y.subs[r].since + 1..Len(y.out) BY <1>6, <1>7, <2>1, <3>1
    <3> QED BY <1>10, <3>2
  <2> QED BY <2>6, <2>7 DEF CatalogOwed
<1> QED BY <1>2, <1>7, <1>8, <1>11, <1>12, <1>13, <1>14, <1>15, <1>16, <1>17 DEF RecordInv

LEMMA CatalogWritten ==
    ASSUME ObjectsTypes, ObjectsInv, s.pc = "sendCatalog", s.sending # <<>>, UNCHANGED <<scenario, src, peer>>,
           s' = SentOne(s, Tail(s.sending), Append(s.out, Head(s.sending)), Head(s.sending))
    PROVE  ObjectsTypes' /\ ObjectsInv'
<1> DEFINE o == Head(s.sending)
           rest == Tail(s.sending)
           written == Append(s.out, o)
<1>1. s \in States /\ RecordInv(s, peer.asked, src.taken, scenario.objects) BY RecordOf DEF ObjectsTypes
<1>2. s.sending \in Seq(SourceObjects) BY <1>1 DEF States
<1>3. /\ o = s.sending[1] /\ 1 \in DOMAIN s.sending /\ o \in SourceObjects /\ rest \in Seq(SourceObjects)
      /\ \A i \in DOMAIN rest : /\ i + 1 \in DOMAIN s.sending /\ rest[i] = s.sending[i + 1]
                                /\ i \in Nat /\ i >= 1
  BY <1>2, RestFacts
<1> HIDE DEF o, rest
<1>4. /\ written \in Seq(Messages) /\ Len(s.out) \in Nat /\ DOMAIN s.out = 1..Len(s.out)
      /\ DOMAIN written = 1..Len(s.out) + 1 /\ Len(written) = Len(s.out) + 1 /\ written[Len(s.out) + 1] = o
      /\ \A i \in 1..Len(s.out) : written[i] = s.out[i]
  BY <1>1, <1>3, WriteFacts
<1>5. s' = SentOne(s, rest, written, o) BY DEF o, rest
<1> HIDE DEF written
<1>6. /\ s' \in States /\ s'.pc = s.pc /\ s'.ret = s.ret /\ s'.sending = rest /\ s'.out = written
      /\ s'.largest = o.group /\ s'.sentAny = TRUE /\ s'.sent = s.sent /\ s'.unserved = s.unserved
      /\ s'.result = s.result /\ s'.stop = s.stop /\ s'.mediaOnce = s.mediaOnce /\ s'.closing = s.closing
      /\ SameRequests(s, s') /\ SameCatalog(s, s')
  <2>1. SentAs(s, SentOne(s, rest, written, o), rest, written, o) BY <1>1, <1>3, <1>4, SentOneRecord
  <2> QED BY <1>5, <2>1 DEF SentAs
<1>7. WrittenAs(s, s', o) BY <1>3, <1>4, <1>6 DEF WrittenAs
<1>8. /\ RecordInv(s', peer.asked, src.taken, scenario.objects)
      /\ ~Leaving(s) /\ ~Leaving(s') /\ (Closing(s') <=> Closing(s)) /\ s'.result = "none"
  BY <1>1, <1>6, <1>7, WrittenRecord
<1>9. LeftInTime(s', src, peer, scenario.objects) BY <1>6, <1>8 DEF ObjectsInv, LeftInTime
<1> QED BY <1>6, <1>8, <1>9, SessionFrame

LEMMA CatalogStep ==
    ASSUME ObjectsTypes, ObjectsInv, SendCatalogObject
    PROVE  ObjectsTypes' /\ ObjectsInv'
<1>1. CASE s.sending = <<>>
  <2>1. s' = [s EXCEPT !.sent = TRUE, !.pc = s.ret, !.ret = "none"]
        /\ s.pc = "sendCatalog" /\ UNCHANGED <<scenario, src, peer>>
    BY <1>1 DEF SendCatalogObject
  <2> QED BY <1>1, <2>1, CatalogSent
<1>2. CASE s.sending # <<>>
  <2>1. s' = SentOne(s, Tail(s.sending), Append(s.out, Head(s.sending)), Head(s.sending))
        /\ s.pc = "sendCatalog" /\ UNCHANGED <<scenario, src, peer>>
    BY <1>2 DEF SendCatalogObject, SentOne
  <2> QED BY <1>2, <2>1, CatalogWritten
<1> QED BY <1>1, <1>2

(* ---- the flush ---- *)

\* w is u followed by v.
Extended(u, v, w) ==
  /\ Len(u) \in Nat /\ Len(v) \in Nat /\ Len(w) = Len(u) + Len(v)
  /\ DOMAIN u = 1..Len(u) /\ DOMAIN v = 1..Len(v) /\ DOMAIN w = 1..Len(u) + Len(v)
  /\ \A i \in DOMAIN u : i \in DOMAIN w /\ w[i] = u[i]
  /\ \A j \in DOMAIN v : Len(u) + j \in DOMAIN w /\ w[Len(u) + j] = v[j]
  /\ \A i \in DOMAIN w : i \in DOMAIN u \/ \E j \in DOMAIN v : i = Len(u) + j
  /\ \A i \in DOMAIN u, j \in DOMAIN v : i < Len(u) + j /\ i \in Nat /\ j \in Nat

LEMMA ExtendedBy ==
    ASSUME NEW S, NEW u \in Seq(S), NEW v \in Seq(S)
    PROVE  u \o v \in Seq(S) /\ Extended(u, v, u \o v)
<1> DEFINE w == u \o v
<1>1. /\ w \in Seq(S) /\ Len(u) \in Nat /\ Len(v) \in Nat
      /\ DOMAIN u = 1..Len(u) /\ DOMAIN v = 1..Len(v)
      /\ DOMAIN w = 1..Len(u) + Len(v) /\ Len(w) = Len(u) + Len(v)
      /\ \A i \in 1..Len(u) : w[i] = u[i]
      /\ \A i \in 1..Len(v) : w[Len(u) + i] = v[i]
  BY Joined
<1> HIDE DEF w
<1>2. \A i \in DOMAIN w : i \in DOMAIN u \/ \E j \in DOMAIN v : i = Len(u) + j
  <2> TAKE i \in DOMAIN w
  <2>1. Len(u) \in Nat /\ Len(v) \in Nat /\ i \in 1..Len(u) + Len(v) BY <1>1
  <2>2. i \in 1..Len(u) \/ \E j \in 1..Len(v) : i = Len(u) + j BY <2>1, JoinedPlaces
  <2> QED BY <1>1, <2>2
<1>3. /\ \A i \in DOMAIN u : i \in DOMAIN w
      /\ \A j \in DOMAIN v : Len(u) + j \in DOMAIN w
      /\ \A i \in DOMAIN u, j \in DOMAIN v : i < Len(u) + j /\ i \in Nat /\ j \in Nat
  BY <1>1
<1>4. Extended(u, v, w) BY <1>1, <1>2, <1>3 DEF Extended
<1> QED BY <1>1, <1>4 DEF w

LEMMA GroupsStep ==
    ASSUME ObjectsTypes, ObjectsInv, FlushGroups
    PROVE  ObjectsTypes' /\ ObjectsInv'
<1>1. s \in States /\ RecordInv(s, peer.asked, src.taken, scenario.objects) BY RecordOf DEF ObjectsTypes
<1>2. s.pc = "flushGroups" /\ UNCHANGED <<scenario, src, peer>>
      /\ s' = [s EXCEPT !.pc = "flushMedia", !.closedGroups = CatalogGroups(s)]
  BY DEF FlushGroups
<1>3. CatalogGroups(s) \in SUBSET Nat
  <2>1. \A i \in DOMAIN s.out : CatalogAt(s, i) => s.out[i].group \in Nat BY <1>1, LocationTypes
  <2> QED BY <2>1 DEF CatalogGroups, CatalogAt
<1>4. /\ s' \in States /\ s'.pc = "flushMedia" /\ s'.ret = s.ret /\ s'.sending = s.sending
      /\ s'.stop = s.stop /\ s'.result = s.result /\ s'.closing = s.closing /\ s'.mediaOnce = s.mediaOnce
      /\ SameRequests(s, s') /\ s'.out = s.out /\ SameCatalog(s, s')
      /\ s'.largest = s.largest /\ s'.sentAny = s.sentAny
  <2>1. s' \in States BY <1>1, <1>2, <1>3 DEF States, Points
  <2> QED BY <1>1, <1>2, <2>1 DEF States, SameRequests, SameCatalog
<1>5. /\ ~Serving(s) /\ ~Serving(s') /\ Leaving(s) /\ Leaving(s') /\ ~Closing(s) /\ ~Closing(s')
  BY <1>2, <1>4 DEF Serving, Leaving, Closing
<1>6. SendingKnown(s') BY <1>1, <1>2, <1>4, <1>5 DEF RecordInv, SendingKnown
<1>7. EndsInOrder(s') BY <1>1, <1>4, <1>5 DEF RecordInv, EndsInOrder, SameCatalog
<1>8. RequestsKnown(s', peer.asked) BY <1>1, <1>4 DEF RecordInv, RequestsKnown, SameRequests
<1>9. DonesKnown(s') BY <1>4, <1>5, <1>6, <1>7, NoDonesYet
<1>10. GroupKept(s', src.taken, scenario.objects) BY <1>1, <1>4, <1>5 DEF RecordInv, GroupKept, SameCatalog
<1>11. LocationsGrow(s') BY <1>1, <1>4, <1>5 DEF RecordInv, LocationsGrow, SameCatalog, CatalogAt
<1>12. CatalogOwed(s') BY <1>1, <1>4, <1>5 DEF RecordInv, CatalogOwed, SameRequests
<1>13. RecordInv(s', peer.asked, src.taken, scenario.objects)
  BY <1>6, <1>7, <1>8, <1>9, <1>10, <1>11, <1>12 DEF RecordInv
<1>14. LeftInTime(s', src, peer, scenario.objects) BY <1>4, <1>5 DEF ObjectsInv, LeftInTime
<1> QED BY <1>2, <1>4, <1>13, <1>14, SessionFrame

\* The media have their PUBLISH_DONEs, and the closing catalog is sent, if any.
FlushedAs(x, y, d) ==
  /\ Extended(x.out, d, y.out) /\ EndsTrack(x, "video", d)
  /\ SameRequests(x, y) /\ y.result = x.result /\ y.closing = None
  /\ y.largest = x.largest /\ y.sentAny = x.sentAny /\ Closing(y)
  /\ y.pc = "flush" => y.ret = "none" /\ y.sending = <<>>
  /\ \A i \in DOMAIN y.sending : y.sending[i].track = "catalog"
  /\ DOMAIN y.group = DOMAIN x.group
  /\ \A i \in DOMAIN y.group : /\ y.group[i].object = x.group[i].object
                               /\ y.group[i].closing = x.group[i].closing
  /\ y.pc = "sendCatalog" =>
       /\ \A i, j \in DOMAIN y.sending : i < j => Before(y.sending[i], y.sending[j])
       /\ \A i \in DOMAIN y.out, j \in DOMAIN y.sending :
            CatalogAt(y, i) => Before(y.out[i], y.sending[j])

LEMMA FlushedRecord ==
    ASSUME NEW x \in States, NEW y \in States, x.pc = "flushMedia", NEW d, FlushedAs(x, y, d),
           NEW asked \in Nat, NEW taken, NEW os, RecordInv(x, asked, taken, os)
    PROVE  RecordInv(y, asked, taken, os)
<1> DEFINE n == Len(x.out)
<1>1. /\ Leaving(x) /\ ~Serving(y) /\ ~Leaving(y) /\ Closing(y) /\ x.result = "none" /\ y.result = "none"
      /\ y.pc \in {"flush", "sendCatalog"} /\ (y.pc = "sendCatalog" => y.ret = "flush")
  BY DEF FlushedAs, Serving, Leaving, Closing, RecordInv, SendingKnown
<1>2. Extended(x.out, d, y.out) /\ EndsTrack(x, "video", d) /\ SameRequests(x, y) BY DEF FlushedAs
<1>3. /\ n \in Nat
      /\ \A i \in DOMAIN x.out : i \in DOMAIN y.out /\ y.out[i] = x.out[i]
      /\ \A j \in DOMAIN d : n + j \in DOMAIN y.out /\ y.out[n + j] = d[j]
      /\ \A i \in DOMAIN y.out : i \in DOMAIN x.out \/ \E j \in DOMAIN d : i = n + j
      /\ \A i \in DOMAIN x.out, j \in DOMAIN d : i < n + j /\ i \in Nat /\ j \in Nat
  BY <1>2 DEF Extended
<1> HIDE DEF n
<1>4. \A i \in DOMAIN x.out : x.out[i].track \in Tracks /\ ~x.out[i].closing
  BY <1>1 DEF RecordInv, EndsInOrder
<1>5. \A j \in DOMAIN d : /\ d[j].track = "done" /\ d[j].object = "video" /\ ~d[j].closing
                          /\ d[j].group \in SubsOf(x, "video") \cup OwnOf(x, "video")
  BY <1>2 DEF EndsTrack
<1>6. \A i \in DOMAIN y.out : y.out[i].track = "done" => \E j \in DOMAIN d : i = n + j /\ y.out[i] = d[j]
  BY <1>3, <1>4 DEF Tracks
<1>7. \A i \in DOMAIN y.out : CatalogAt(y, i) => i \in DOMAIN x.out /\ CatalogAt(x, i) /\ y.out[i] = x.out[i]
  <2> TAKE i \in DOMAIN y.out
  <2>1. CASE i \in DOMAIN x.out BY <1>3, <2>1 DEF CatalogAt
  <2>2. ASSUME NEW j \in DOMAIN d, i = n + j PROVE ~CatalogAt(y, i) BY <1>3, <1>5, <2>2 DEF CatalogAt
  <2> QED BY <1>3, <2>1, <2>2
<1>8. SendingKnown(y) BY <1>1 DEF FlushedAs, SendingKnown
<1>9. EndsInOrder(y)
  <2>1. \A i \in DOMAIN y.out : y.out[i].track \in Tracks \/ (y.out[i].track = "done" /\ y.out[i].object = "video")
    <3> TAKE i \in DOMAIN y.out
    <3>1. CASE i \in DOMAIN x.out BY <1>3, <1>4, <3>1
    <3>2. ASSUME NEW j \in DOMAIN d, i = n + j
          PROVE  y.out[i].track = "done" /\ y.out[i].object = "video"
      BY <1>3, <1>5, <3>2
    <3> QED BY <1>3, <3>1, <3>2
  <2>2. \A i \in DOMAIN y.out : ~y.out[i].closing
    <3> TAKE i \in DOMAIN y.out
    <3>1. CASE i \in DOMAIN x.out BY <1>3, <1>4, <3>1
    <3>2. ASSUME NEW j \in DOMAIN d, i = n + j PROVE ~y.out[i].closing BY <1>3, <1>5, <3>2
    <3> QED BY <1>3, <3>1, <3>2
  <2>3. \A i, j \in DOMAIN y.out : i < j => ~(y.out[i].track = "done" /\ y.out[j].track = y.out[i].object)
    <3> TAKE i, j \in DOMAIN y.out
    <3> SUFFICES ASSUME i < j, y.out[i].track = "done", y.out[j].track = y.out[i].object PROVE FALSE OBVIOUS
    <3>1. PICK k \in DOMAIN d : i = n + k /\ y.out[i] = d[k] BY <1>6
    <3>2. y.out[i].object = "video" BY <1>5, <3>1
    <3>3. CASE j \in DOMAIN x.out
      <4>1. j < n + k /\ j \in Nat /\ k \in Nat BY <1>3, <3>3
      <4> QED BY <1>3, <3>1, <4>1
    <3>4. ASSUME NEW l \in DOMAIN d, j = n + l PROVE FALSE
      <4>1. y.out[j].track = "done" BY <1>3, <1>5, <3>4
      <4> QED BY <3>2, <4>1
    <3> QED BY <1>3, <3>3, <3>4
  <2>4. \A i \in DOMAIN y.group : ~y.group[i].closing
    <3>1. \A i \in DOMAIN x.group : ~x.group[i].closing BY DEF RecordInv, EndsInOrder
    <3> QED BY <3>1 DEF FlushedAs
  <2> QED BY <1>1, <2>1, <2>2, <2>3, <2>4 DEF EndsInOrder
<1>10. RequestsKnown(x, asked) BY DEF RecordInv
<1>11. RequestsKnown(y, asked) BY <1>2, <1>10 DEF RequestsKnown, SameRequests
<1>12. \A r \in SubsOf(x, "video") \cup OwnOf(x, "video") :
         /\ r \notin x.ended \cup x.terminated /\ r # 2
         /\ r \in DOMAIN x.subs => x.subs[r].track = "video"
  <2> TAKE r \in SubsOf(x, "video") \cup OwnOf(x, "video")
  <2>1. x.terminated \in SUBSET {2, 4} BY DEF States
  <2>2. CASE r \in SubsOf(x, "video")
    <3>1. r \in DOMAIN x.subs /\ x.subs[r].track = "video" BY <2>2 DEF SubsOf
    <3>2. r \in AskedIds(asked) /\ r \notin x.ended BY <1>10, <3>1 DEF RequestsKnown
    <3>3. PICK k \in 0..asked - 1 : r = 2 * k + 1 BY <3>2 DEF AskedIds
    <3>4. r # 2 /\ r # 4 BY <3>3
    <3> QED BY <2>1, <3>1, <3>2, <3>4
  <2>3. CASE r \in OwnOf(x, "video")
    <3>1. "video" \in DOMAIN x.publishes /\ r = x.publishes["video"] /\ r \notin x.terminated
      BY <2>3 DEF OwnOf
    <3>2. x.publishes = PublishIds BY <1>10, <3>1, MapEmpty DEF RequestsKnown
    <3>3. r = 4 BY <3>1, <3>2 DEF PublishIds, Tracks
    <3>4. r \notin AskedIds(asked)
      <4>1. \A k \in 0..asked - 1 : 2 * k + 1 # 4 OBVIOUS
      <4> QED BY <3>3, <4>1 DEF AskedIds
    <3>5. r \notin x.ended /\ r \notin DOMAIN x.subs BY <1>10, <3>4 DEF RequestsKnown
    <3> QED BY <3>1, <3>3, <3>5
  <2> QED BY <2>2, <2>3
<1>13. DonesKnown(y)
  <2>1. \A i \in DOMAIN y.out : y.out[i].track = "done" =>
          y.out[i].group \in SubsOf(x, "video") \cup OwnOf(x, "video")
    <3> TAKE i \in DOMAIN y.out
    <3> SUFFICES ASSUME y.out[i].track = "done"
                 PROVE  y.out[i].group \in SubsOf(x, "video") \cup OwnOf(x, "video")
      OBVIOUS
    <3>1. PICK j \in DOMAIN d : i = n + j /\ y.out[i] = d[j] BY <1>6
    <3> QED BY <1>5, <3>1
  <2>2. \A i, j \in DOMAIN y.out :
          (y.out[i].track = "done" /\ y.out[j].track = "done" /\ y.out[i].group = y.out[j].group) => i = j
    <3> TAKE i, j \in DOMAIN y.out
    <3> SUFFICES ASSUME y.out[i].track = "done", y.out[j].track = "done", y.out[i].group = y.out[j].group
                 PROVE  i = j
      OBVIOUS
    <3>1. PICK k \in DOMAIN d : i = n + k /\ y.out[i] = d[k] BY <1>6
    <3>2. PICK l \in DOMAIN d : j = n + l /\ y.out[j] = d[l] BY <1>6
    <3>3. k = l BY <1>2, <3>1, <3>2 DEF EndsTrack
    <3> QED BY <3>1, <3>2, <3>3
  <2>3. \A r \in SubsOf(x, "video") \cup OwnOf(x, "video") : \E i \in DOMAIN y.out : IsDone(y, i, r)
    <3> TAKE r \in SubsOf(x, "video") \cup OwnOf(x, "video")
    <3>1. PICK j \in DOMAIN d : d[j].group = r BY <1>2 DEF EndsTrack
    <3>2. n + j \in DOMAIN y.out /\ y.out[n + j] = d[j] /\ d[j].track = "done" BY <1>3, <1>5
    <3>3. IsDone(y, n + j, r) BY <3>1, <3>2 DEF IsDone
    <3> QED BY <3>2, <3>3
  <2>4. SubsOf(y, "video") = SubsOf(x, "video") /\ y.subs = x.subs /\ y.ended = x.ended
        /\ y.terminated = x.terminated /\ y.publishes = x.publishes
    BY <1>2 DEF SubsOf, SameRequests
  <2>5. x.publishes # <<>> /\ 4 \notin x.terminated => 4 \in OwnOf(x, "video")
    <3> SUFFICES ASSUME x.publishes # <<>>, 4 \notin x.terminated PROVE 4 \in OwnOf(x, "video") OBVIOUS
    <3>1. x.publishes = PublishIds BY <1>10 DEF RequestsKnown
    <3>2. "video" \in DOMAIN x.publishes /\ x.publishes["video"] = 4 BY <3>1 DEF PublishIds, Tracks
    <3> QED BY <3>2 DEF OwnOf
  <2>6. \A i \in DOMAIN y.out : y.out[i].track = "done" =>
          /\ y.out[i].group \notin y.ended \cup y.terminated
          /\ y.out[i].group # 2
          /\ (y.out[i].group \in DOMAIN y.subs) => y.subs[y.out[i].group].track = "video"
    BY <1>12, <2>1, <2>4
  <2>7. \A r \in SubsOf(y, "video") : \E i \in DOMAIN y.out : IsDone(y, i, r) BY <2>3, <2>4
  <2>8. y.publishes # <<>> /\ 4 \notin y.terminated => \E i \in DOMAIN y.out : IsDone(y, i, 4)
    BY <2>3, <2>4, <2>5
  <2> QED BY <1>1, <2>2, <2>6, <2>7, <2>8 DEF DonesKnown
<1>14. GroupKept(y, taken, os)
  <2>1. \A i, j \in DOMAIN x.group : i < j => x.group[i].object < x.group[j].object
    BY DEF RecordInv, GroupKept
  <2>2. \A i, j \in DOMAIN y.group : i < j => y.group[i].object < y.group[j].object BY <2>1 DEF FlushedAs
  <2>3. y.closing = None BY DEF FlushedAs
  <2> QED BY <1>1, <2>2, <2>3 DEF GroupKept
<1>15. LocationsGrow(y)
  <2>1. \A i, j \in DOMAIN y.out : i < j /\ CatalogAt(y, i) /\ CatalogAt(y, j) => Before(y.out[i], y.out[j])
    <3>1. \A i, j \in DOMAIN x.out : i < j /\ CatalogAt(x, i) /\ CatalogAt(x, j) => Before(x.out[i], x.out[j])
      BY DEF RecordInv, LocationsGrow
    <3> QED BY <1>7, <3>1
  <2>2. IF y.sentAny THEN \E i \in DOMAIN y.out : CatalogAt(y, i) /\ y.out[i].group = y.largest
                     ELSE \A i \in DOMAIN y.out : ~CatalogAt(y, i)
    <3>1. IF x.sentAny THEN \E i \in DOMAIN x.out : CatalogAt(x, i) /\ x.out[i].group = x.largest
                       ELSE \A i \in DOMAIN x.out : ~CatalogAt(x, i)
      BY DEF RecordInv, LocationsGrow
    <3>2. y.largest = x.largest /\ y.sentAny = x.sentAny BY DEF FlushedAs
    <3>3. \A i \in DOMAIN x.out : CatalogAt(x, i) =>
            i \in DOMAIN y.out /\ CatalogAt(y, i) /\ y.out[i].group = x.out[i].group
      BY <1>3 DEF CatalogAt
    <3> QED BY <1>7, <3>1, <3>2, <3>3
  <2>3. y.pc = "sendCatalog" =>
          /\ \A i, j \in DOMAIN y.sending : i < j => Before(y.sending[i], y.sending[j])
          /\ \A i \in DOMAIN y.out, j \in DOMAIN y.sending : CatalogAt(y, i) => Before(y.out[i], y.sending[j])
    BY DEF FlushedAs
  <2> QED BY <1>1, <2>1, <2>2, <2>3 DEF LocationsGrow
<1>16. CatalogOwed(y)
  <2>1. /\ y.subs = x.subs /\ y.largest = x.largest /\ y.sentAny = x.sentAny
        /\ Len(y.out) = Len(x.out) + Len(d) /\ Len(x.out) \in Nat /\ Len(d) \in Nat
    BY DEF FlushedAs, SameRequests, Extended
  <2>2. \A r \in DOMAIN x.subs : /\ x.subs[r].since <= Len(x.out)
                                 /\ x.subs[r].start <= IF x.sentAny THEN x.largest + 1 ELSE 0
    BY DEF RecordInv, CatalogOwed
  <2>3. \A r \in DOMAIN x.subs : x.subs[r].since \in Nat
    <3>1. \A r \in DOMAIN x.subs : x.subs[r] \in Subs BY MapFacts DEF States
    <3> QED BY <3>1 DEF Subs
  <2>4. \A r \in DOMAIN x.subs : x.subs[r].since <= Len(y.out) BY <2>1, <2>2, <2>3
  <2> QED BY <1>1, <2>1, <2>2, <2>4 DEF CatalogOwed
<1> QED BY <1>8, <1>9, <1>11, <1>13, <1>14, <1>15, <1>16 DEF RecordInv

\* The closing catalog of x is the latest one of z.
ClosedAs(x, z, written) ==
  /\ z.out = written /\ z.latest = x.closing /\ z.closing = None /\ z.sent = FALSE
  /\ SameRequests(x, z) /\ z.group = x.group /\ z.sending = x.sending /\ z.result = x.result
  /\ z.stop = x.stop /\ z.mediaOnce = x.mediaOnce /\ z.pc = x.pc /\ z.ret = x.ret
  /\ z.largest = x.largest /\ z.sentAny = x.sentAny

\* The closing catalog is the next one of the track, and its group is sent.
LEMMA ClosingBegun ==
    ASSUME NEW x \in States, x.pc = "flushMedia", NEW asked, NEW taken, NEW os,
           RecordInv(x, asked, taken, os), x.closing # None,
           NEW written \in Seq(Messages), NEW d, Extended(x.out, d, written), EndsTrack(x, "video", d),
           NEW z \in States, ClosedAs(x, z, written), NEW y, y = CatalogBegun(z, "flush")
    PROVE  y \in States /\ FlushedAs(x, y, d) /\ y.stop = x.stop /\ y.mediaOnce = x.mediaOnce
<1> USE DEF ClosedAs
<1>1. /\ Leaving(x) /\ x.sending = <<>> /\ x.ret = "none" BY DEF Leaving, RecordInv, SendingKnown
<1>2. \A i \in DOMAIN written : CatalogAt(z, i) => i \in DOMAIN x.out /\ CatalogAt(x, i) /\ written[i] = x.out[i]
  <2> TAKE i \in DOMAIN written
  <2>1. CASE i \in DOMAIN x.out
    <3>1. written[i] = x.out[i] BY <2>1 DEF Extended
    <3> QED BY <2>1, <3>1 DEF CatalogAt
  <2>2. ASSUME NEW j \in DOMAIN d, i = Len(x.out) + j PROVE ~CatalogAt(z, i)
    <3>1. written[i] = d[j] /\ d[j].track = "done" BY <2>2 DEF Extended, EndsTrack
    <3> QED BY <3>1 DEF CatalogAt
  <2>3. i \in DOMAIN x.out \/ \E j \in DOMAIN d : i = Len(x.out) + j BY DEF Extended
  <2> QED BY <2>1, <2>2, <2>3
<1>3. \A i \in DOMAIN x.out : CatalogAt(x, i) => Before(x.out[i], x.closing) /\ ~Before(x.closing, x.out[i])
  <2> TAKE i \in DOMAIN x.out
  <2> SUFFICES ASSUME CatalogAt(x, i)
               PROVE  Before(x.out[i], x.closing) /\ ~Before(x.closing, x.out[i])
    OBVIOUS
  <2>1. x.latest # None /\ ~Before(x.latest, x.out[i]) BY <1>1 DEF RecordInv, LocationsGrow
  <2>2. Before(x.latest, x.closing) BY <2>1 DEF RecordInv, GroupKept
  <2>3. /\ x.latest.group \in Nat /\ x.latest.object \in Nat
        /\ x.closing.group \in Nat /\ x.closing.object \in Nat
        /\ x.out[i].group \in Nat /\ x.out[i].object \in Nat
    BY LocationTypes
  <2> QED BY <2>1, <2>2, <2>3, BeforeFacts
<1>4. y.pc = "sendCatalog" =>
           /\ \A i, j \in DOMAIN y.sending : i < j => Before(y.sending[i], y.sending[j])
           /\ \A i \in DOMAIN y.out, j \in DOMAIN y.sending :
                CatalogAt(y, i) => Before(y.out[i], y.sending[j])
  <2>1. \A i \in DOMAIN z.out : CatalogAt(z, i) => ~Before(z.latest, z.out[i]) BY <1>2, <1>3
  <2>2. \A i \in DOMAIN z.out : CatalogAt(z, i) => Before(z.out[i], z.latest) BY <1>2, <1>3
  <2>3. \A i, j \in DOMAIN z.group : i < j => z.group[i].object < z.group[j].object
    BY DEF RecordInv, GroupKept
  <2>4. z.sending = <<>> /\ z.pc # "sendCatalog" BY <1>1
  <2> QED BY <2>1, <2>2, <2>3, <2>4, BegunLocations
<1> DEFINE Moves(g) ==
             /\ y.sending = y.group /\ DOMAIN y.group = DOMAIN z.group
             /\ \A i \in DOMAIN z.group : y.group[i] = MovedTo(z.group[i], g)
           Stays == y.group = z.group /\ (y.sending = <<>> \/ y.sending = <<z.latest>>)
<1>5. /\ y \in States /\ SameRequests(z, y) /\ SameEnd(z, y)
      /\ \/ y.pc = "flush" /\ y.ret = "none" /\ y.sending = <<>>
         \/ y.pc = "sendCatalog" /\ y.ret = "flush"
      /\ Stays \/ \E g \in Nat : Moves(g)
  BY <1>1, BegunFacts DEF SameCatalog
<1>6. /\ DOMAIN y.group = DOMAIN x.group
      /\ \A i \in DOMAIN y.group : /\ y.group[i].object = x.group[i].object
                                   /\ y.group[i].closing = x.group[i].closing
  <2>1. CASE Stays BY <2>1
  <2>2. ASSUME NEW g \in Nat, Moves(g)
        PROVE  /\ DOMAIN y.group = DOMAIN x.group
               /\ \A i \in DOMAIN y.group : /\ y.group[i].object = x.group[i].object
                                            /\ y.group[i].closing = x.group[i].closing
    <3>1. DOMAIN y.group = DOMAIN x.group /\ \A i \in DOMAIN x.group : y.group[i] = MovedTo(x.group[i], g)
      BY <2>2
    <3>2. \A i \in DOMAIN x.group : x.group[i] \in Catalogs BY LocationTypes
    <3> HIDE DEF Moves, Stays
    <3>3. \A i \in DOMAIN x.group : /\ MovedTo(x.group[i], g).object = x.group[i].object
                                    /\ MovedTo(x.group[i], g).closing = x.group[i].closing
      BY <3>2, MovedFacts
    <3> QED BY <3>1, <3>3
  <2> HIDE DEF Moves, Stays
  <2> QED BY <1>5, <2>1, <2>2
<1>7. \A i \in DOMAIN y.sending : y.sending[i].track = "catalog"
  <2>1. CASE y.sending = <<>> BY <2>1, MapEmpty
  <2>2. CASE y.sending = <<z.latest>>
    <3>1. z.latest.track = "catalog" BY DEF States, Catalogs
    <3>2. DOMAIN <<z.latest>> = {1} /\ <<z.latest>>[1] = z.latest BY Single
    <3> QED BY <2>2, <3>1, <3>2
  <2>3. CASE y.sending = y.group
    <3>1. \A i \in DOMAIN y.group : y.group[i] \in Catalogs BY <1>5, LocationTypes
    <3>2. \A i \in DOMAIN y.group : y.group[i].track = "catalog" BY <3>1 DEF Catalogs
    <3> QED BY <2>3, <3>2
  <2> QED BY <1>5, <2>1, <2>2, <2>3
<1> HIDE DEF Moves, Stays
<1>8. /\ y.out = written /\ y.stop = x.stop /\ y.mediaOnce = x.mediaOnce /\ y.result = x.result
      /\ y.closing = None /\ y.largest = x.largest /\ y.sentAny = x.sentAny /\ SameRequests(x, y)
  BY <1>5 DEF SameEnd, SameRequests
<1>9. Closing(y) /\ (y.pc = "flush" => y.ret = "none" /\ y.sending = <<>>) BY <1>5 DEF Closing
<1> QED BY <1>4, <1>5, <1>6, <1>7, <1>8, <1>9 DEF FlushedAs

\* What a round of send_publish_dones appends.
LEMMA RoundFacts ==
    ASSUME NEW x \in States, NEW n \in Nat, RequestsKnown(x, n), NEW t \in Tracks,
           NEW d, d = DonesOf(x, t)
    PROVE  /\ d \in Seq(Messages) /\ x.out \o d \in Seq(Messages)
           /\ Extended(x.out, d, x.out \o d) /\ EndsTrack(x, t, d)
<1>1. d \in Seq(Dones) /\ EndsTrack(x, t, d) BY DonesOfFacts
<1>2. d \in Seq(Messages) BY <1>1 DEF Messages
<1>3. x.out \in Seq(Messages) BY DEF States
<1> QED BY <1>1, <1>2, <1>3, ExtendedBy

LEMMA MediaFlushed ==
    ASSUME ObjectsTypes, ObjectsInv, FlushMedia
    PROVE  ObjectsTypes' /\ ObjectsInv'
<1> DEFINE d == DonesOf(s, "video")
           written == s.out \o d
           w == SubsOf(s, "catalog") # {}
           z == [s EXCEPT !.out = written, !.latest = s.closing, !.closing = None, !.sent = FALSE, !.unserved = w]
<1>1. s \in States /\ RecordInv(s, peer.asked, src.taken, scenario.objects) /\ peer.asked \in Nat
  BY RecordOf DEF ObjectsTypes, Peers
<1>2. /\ s.pc = "flushMedia" /\ UNCHANGED <<scenario, src, peer>>
      /\ s.closing = None => s' = [s EXCEPT !.out = written, !.pc = "flush"]
      /\ s.closing # None => s' = CatalogBegun(z, "flush")
  BY DEF FlushMedia, Phase
<1>3. /\ written \in Seq(Messages) /\ Extended(s.out, d, written) /\ EndsTrack(s, "video", d)
  <2>1. RequestsKnown(s, peer.asked) /\ "video" \in Tracks BY <1>1 DEF RecordInv, Tracks
  <2> QED BY <1>1, <2>1, RoundFacts
<1> HIDE DEF d, written
<1>4. s' \in States /\ FlushedAs(s, s', d) /\ s'.stop = s.stop /\ s'.mediaOnce = s.mediaOnce
  <2>1. CASE s.closing = None
    <3>1. s' = [s EXCEPT !.out = written, !.pc = "flush"] BY <1>2, <2>1
    <3>2. s \in States /\ s.ret = "none" /\ s.sending = <<>> BY <1>1, <1>2 DEF RecordInv, SendingKnown
    <3>3. /\ s' \in States /\ s'.out = written /\ s'.pc = "flush" /\ s'.ret = "none" /\ s'.sending = <<>>
          /\ s'.stop = s.stop /\ s'.mediaOnce = s.mediaOnce /\ s'.result = s.result
          /\ s'.closing = None /\ s'.largest = s.largest /\ s'.sentAny = s.sentAny
          /\ s'.group = s.group /\ SameRequests(s, s')
      <4>1. s' \in States BY <1>3, <3>1, <3>2 DEF States, Points
      <4> QED BY <2>1, <3>1, <3>2, <4>1 DEF States, SameRequests
    <3>4. Closing(s') /\ DOMAIN s'.sending = {} BY <3>3, MapEmpty DEF Closing
    <3> QED BY <1>3, <3>3, <3>4 DEF FlushedAs
  <2>2. CASE s.closing # None
    <3>1. s' = CatalogBegun(z, "flush") /\ s \in States /\ s.closing \in Catalogs \cup {None} /\ w \in BOOLEAN
      <4>1. s.closing \in Catalogs \cup {None} BY <1>1 DEF States
      <4> QED BY <1>1, <1>2, <2>2, <4>1
    <3> HIDE DEF w
    <3>2. z \in States BY <1>3, <3>1 DEF States
    <3>3. ClosedAs(s, z, written) BY <3>1, <3>2 DEF States, SameRequests, ClosedAs
    <3> HIDE DEF z
    <3>4. s.pc = "flushMedia" BY <1>2
    <3> QED BY <1>1, <1>3, <2>2, <3>1, <3>2, <3>3, <3>4, ClosingBegun
  <2> QED BY <2>1, <2>2
<1>5. RecordInv(s', peer.asked, src.taken, scenario.objects) BY <1>1, <1>2, <1>4, FlushedRecord
<1>6. LeftInTime(s', src, peer, scenario.objects) BY <1>2, <1>4 DEF ObjectsInv, LeftInTime, Leaving
<1> QED BY <1>2, <1>4, <1>5, <1>6, SessionFrame

\* The last round, of the catalog, and the end of the namespace.
LEMMA CatalogFlushed ==
    ASSUME ObjectsTypes, ObjectsInv, FlushCatalog
    PROVE  ObjectsTypes' /\ ObjectsInv'
<1> DEFINE d == DonesOf(s, "catalog")
           mid == s.out \o d
           written == mid \o <<Namespace>>
           n == Len(s.out)
           m == Len(mid)
<1>1. s \in States /\ RecordInv(s, peer.asked, src.taken, scenario.objects) /\ peer.asked \in Nat
  BY RecordOf DEF ObjectsTypes, Peers
<1>2. /\ s.pc = "flush" /\ UNCHANGED <<scenario, src, peer>>
      /\ s' = [s EXCEPT !.out = written, !.pc = "over", !.result = "success"]
  <2>1. s' = Over([s EXCEPT !.out = s.out \o d \o <<Namespace>>], "success")
    BY DEF FlushCatalog, CatalogDones, Phase, Namespace
  <2> QED BY <1>1, <2>1 DEF FlushCatalog, Over, States
<1>3. mid \in Seq(Messages) /\ Extended(s.out, d, mid) /\ EndsTrack(s, "catalog", d)
  <2>1. RequestsKnown(s, peer.asked) /\ "catalog" \in Tracks BY <1>1 DEF RecordInv, Tracks
  <2> QED BY <1>1, <2>1, RoundFacts
<1> HIDE DEF d, mid
<1>4. written \in Seq(Messages) /\ Extended(mid, <<Namespace>>, written)
  <2>1. <<Namespace>> \in Seq(Messages) BY DEF Messages
  <2> QED BY <1>3, <2>1, ExtendedBy
<1>5. /\ Len(<<Namespace>>) = 1 /\ DOMAIN <<Namespace>> = {1} /\ <<Namespace>>[1] = Namespace
      /\ Namespace.track = "namespace" /\ Namespace.closing = FALSE
  BY Single DEF Namespace, None
<1> HIDE DEF written
<1>6. /\ n \in Nat /\ m \in Nat /\ Len(written) = m + 1 /\ n <= m
      /\ \A i \in DOMAIN s.out : i \in DOMAIN written /\ written[i] = s.out[i] /\ i \in Nat /\ i <= n
      /\ \A j \in DOMAIN d : n + j \in DOMAIN written /\ written[n + j] = d[j] /\ n + j \in Nat /\ n < n + j /\ n + j <= m
      /\ m + 1 \in DOMAIN written /\ written[m + 1] = Namespace
      /\ \A i \in DOMAIN written : i \in DOMAIN s.out \/ (\E j \in DOMAIN d : i = n + j) \/ i = m + 1
  <2>1. /\ n \in Nat /\ m \in Nat /\ Len(written) = m + 1 /\ n <= m /\ Len(d) \in Nat /\ m = n + Len(d)
        /\ DOMAIN s.out = 1..n /\ DOMAIN d = 1..Len(d) /\ DOMAIN mid = 1..m /\ DOMAIN written = 1..m + 1
    BY <1>3, <1>4, <1>5 DEF Extended
  <2>2. \A i \in DOMAIN s.out : i \in DOMAIN written /\ written[i] = s.out[i] /\ i \in Nat /\ i <= n
    BY <1>3, <1>4, <2>1 DEF Extended
  <2>3. \A j \in DOMAIN d : n + j \in DOMAIN written /\ written[n + j] = d[j] /\ n + j \in Nat /\ n < n + j /\ n + j <= m
    <3> TAKE j \in DOMAIN d
    <3>1. n + j \in DOMAIN mid /\ mid[n + j] = d[j] /\ j \in 1..Len(d) BY <1>3, <2>1 DEF Extended
    <3>2. n + j \in DOMAIN written /\ written[n + j] = mid[n + j] BY <1>4, <3>1 DEF Extended
    <3> QED BY <2>1, <3>1, <3>2
  <2>4. m + 1 \in DOMAIN written /\ written[m + 1] = Namespace BY <1>4, <1>5 DEF Extended
  <2>5. \A i \in DOMAIN written : i \in DOMAIN s.out \/ (\E j \in DOMAIN d : i = n + j) \/ i = m + 1
    <3> TAKE i \in DOMAIN written
    <3>1. i \in DOMAIN mid \/ i = m + 1 BY <1>4, <1>5 DEF Extended
    <3>2. i \in DOMAIN mid => i \in DOMAIN s.out \/ \E j \in DOMAIN d : i = n + j BY <1>3 DEF Extended
    <3> QED BY <3>1, <3>2
  <2> QED BY <2>1, <2>2, <2>3, <2>4, <2>5
<1> HIDE DEF n, m
<1>7. /\ s' \in States /\ s'.out = written /\ s'.pc = "over" /\ s'.result = "success" /\ s'.stop = s.stop
      /\ s'.mediaOnce = s.mediaOnce /\ s'.ret = s.ret /\ s'.closing = s.closing /\ s'.group = s.group
      /\ s'.largest = s.largest /\ s'.sentAny = s.sentAny /\ SameRequests(s, s')
  <2>1. s \in States BY <1>1
  <2>2. s' \in States BY <1>2, <1>4, <2>1 DEF States, Points
  <2> QED BY <1>2, <2>1, <2>2 DEF States, SameRequests
<1>8. Closing(s) /\ ~Serving(s') /\ ~Leaving(s') /\ ~Closing(s') /\ s.ret = "none" /\ s.closing = None
      /\ s.result = "none"
  BY <1>1, <1>2, <1>7 DEF Closing, Serving, Leaving, RecordInv, SendingKnown
<1>9. /\ \A i \in DOMAIN s.out : s.out[i].track \in Tracks \/ (s.out[i].track = "done" /\ s.out[i].object = "video")
      /\ \A j \in DOMAIN d : /\ d[j].track = "done" /\ d[j].object = "catalog" /\ d[j].closing = FALSE
                              /\ d[j].group \in SubsOf(s, "catalog") \cup OwnOf(s, "catalog")
  BY <1>1, <1>3, <1>8 DEF RecordInv, EndsInOrder, EndsTrack
<1>10. SendingKnown(s') BY <1>7, <1>8 DEF SendingKnown
<1>11. EndsInOrder(s')
  <2>1. \A i, j \in DOMAIN written :
          i < j => /\ ~(written[i].track = "done" /\ written[j].track = written[i].object)
                   /\ ~(written[i].closing /\ written[j].track = "done" /\ written[j].object = "video")
    <3> TAKE i, j \in DOMAIN written
    <3> SUFFICES ASSUME i < j
                 PROVE  /\ ~(written[i].track = "done" /\ written[j].track = written[i].object)
                        /\ ~(written[i].closing /\ written[j].track = "done" /\ written[j].object = "video")
      OBVIOUS
    <3>1. CASE j \in DOMAIN s.out
      <4>1. j <= n /\ j \in Nat /\ written[j] = s.out[j] BY <1>6, <3>1
      <4>2. ASSUME NEW k \in DOMAIN d, i = n + k PROVE FALSE
        <5>1. n + k \in Nat /\ n < n + k BY <1>6
        <5> QED BY <1>6, <4>1, <4>2, <5>1
      <4>3. i # m + 1 BY <1>6, <4>1
      <4>4. i \in DOMAIN s.out BY <1>6, <4>2, <4>3
      <4>5. written[i] = s.out[i] BY <1>6, <4>4
      <4> QED BY <1>1, <3>1, <4>1, <4>4, <4>5 DEF RecordInv, EndsInOrder
    <3>2. ASSUME NEW l \in DOMAIN d, j = n + l
          PROVE  /\ ~(written[i].track = "done" /\ written[j].track = written[i].object)
                 /\ ~(written[i].closing /\ written[j].track = "done" /\ written[j].object = "video")
      <4>1. written[j].track = "done" /\ written[j].object = "catalog" BY <1>6, <1>9, <3>2
      <4>2. written[i].track = "done" => written[i].object # "done"
        <5>1. CASE i \in DOMAIN s.out BY <1>6, <1>9, <5>1 DEF Tracks
        <5>2. ASSUME NEW k \in DOMAIN d, i = n + k PROVE written[i].object = "catalog" BY <1>6, <1>9, <5>2
        <5>3. CASE i = m + 1 BY <1>5, <1>6, <5>3
        <5> QED BY <1>6, <5>1, <5>2, <5>3
      <4> QED BY <4>1, <4>2
    <3>3. CASE j = m + 1
      <4>1. written[j].track = "namespace" BY <1>5, <1>6, <3>3
      <4>2. written[i].track = "done" => written[i].object # "namespace"
        <5>1. CASE i \in DOMAIN s.out BY <1>6, <1>9, <5>1 DEF Tracks
        <5>2. ASSUME NEW k \in DOMAIN d, i = n + k PROVE written[i].object = "catalog" BY <1>6, <1>9, <5>2
        <5>3. CASE i = m + 1 BY <1>5, <1>6, <5>3
        <5> QED BY <1>6, <5>1, <5>2, <5>3
      <4> QED BY <4>1, <4>2
    <3> QED BY <1>6, <3>1, <3>2, <3>3
  <2>2. \A i \in DOMAIN s'.group : ~s'.group[i].closing BY <1>1, <1>7 DEF RecordInv, EndsInOrder
  <2> QED BY <1>7, <1>8, <2>1, <2>2 DEF EndsInOrder
<1>12. RequestsKnown(s', peer.asked) BY <1>1, <1>7 DEF RecordInv, RequestsKnown, SameRequests
<1>13. GroupKept(s', src.taken, scenario.objects) BY <1>1, <1>7, <1>8 DEF RecordInv, GroupKept
<1>14. LocationsGrow(s')
  <2>1. \A i \in DOMAIN written : CatalogAt(s', i) => i \in DOMAIN s.out /\ CatalogAt(s, i) /\ written[i] = s.out[i]
    <3> TAKE i \in DOMAIN written
    <3> SUFFICES ASSUME CatalogAt(s', i) PROVE i \in DOMAIN s.out /\ CatalogAt(s, i) /\ written[i] = s.out[i]
      OBVIOUS
    <3>1. written[i].track = "catalog" BY <1>7 DEF CatalogAt
    <3>2. ASSUME NEW j \in DOMAIN d, i = n + j PROVE FALSE BY <1>6, <1>9, <3>1, <3>2
    <3>3. i # m + 1 BY <1>5, <1>6, <3>1
    <3> QED BY <1>6, <3>1, <3>2, <3>3 DEF CatalogAt
  <2>2. \A i \in DOMAIN s.out : CatalogAt(s, i) => i \in DOMAIN written /\ CatalogAt(s', i) /\ written[i] = s.out[i]
    BY <1>6, <1>7 DEF CatalogAt
  <2>3. /\ \A i, j \in DOMAIN s.out : i < j /\ CatalogAt(s, i) /\ CatalogAt(s, j) => Before(s.out[i], s.out[j])
        /\ IF s.sentAny THEN \E i \in DOMAIN s.out : CatalogAt(s, i) /\ s.out[i].group = s.largest
                        ELSE \A i \in DOMAIN s.out : ~CatalogAt(s, i)
    BY <1>1 DEF RecordInv, LocationsGrow
  <2>4. \A i, j \in DOMAIN written : i < j /\ CatalogAt(s', i) /\ CatalogAt(s', j) => Before(written[i], written[j])
    BY <2>1, <2>3
  <2>5. IF s.sentAny THEN \E i \in DOMAIN written : CatalogAt(s', i) /\ written[i].group = s.largest
                     ELSE \A i \in DOMAIN written : ~CatalogAt(s', i)
    BY <2>1, <2>2, <2>3
  <2> QED BY <1>7, <1>8, <2>4, <2>5 DEF LocationsGrow
<1>15. CatalogOwed(s')
  <2>1. \A r \in DOMAIN s.subs : /\ s.subs[r].since <= n
                                 /\ s.subs[r].start <= IF s.sentAny THEN s.largest + 1 ELSE 0
    BY <1>1 DEF RecordInv, CatalogOwed, n
  <2>2. \A r \in DOMAIN s.subs : s.subs[r].since \in Nat
    <3>1. \A r \in DOMAIN s.subs : s.subs[r] \in Subs BY <1>1, MapFacts DEF States
    <3> QED BY <3>1 DEF Subs
  <2>3. \A r \in DOMAIN s.subs : s.subs[r].since <= Len(written) BY <1>6, <2>1, <2>2
  <2> QED BY <1>7, <1>8, <2>1, <2>3 DEF CatalogOwed, SameRequests
<1>16. \A r \in SubsOf(s, "catalog") \cup OwnOf(s, "catalog") :
         /\ r \notin s.ended \cup s.terminated
         /\ r = 2 \/ (r \in DOMAIN s.subs /\ s.subs[r].track = "catalog")
  <2> TAKE r \in SubsOf(s, "catalog") \cup OwnOf(s, "catalog")
  <2>1. s.terminated \in SUBSET {2, 4} /\ RequestsKnown(s, peer.asked) BY <1>1 DEF States, RecordInv
  <2>2. CASE r \in SubsOf(s, "catalog")
    <3>1. r \in DOMAIN s.subs /\ s.subs[r].track = "catalog" BY <2>2 DEF SubsOf
    <3>2. r \in AskedIds(peer.asked) /\ r \notin s.ended BY <2>1, <3>1 DEF RequestsKnown
    <3>3. PICK k \in 0..peer.asked - 1 : r = 2 * k + 1 BY <3>2 DEF AskedIds
    <3>4. r # 2 /\ r # 4 BY <1>1, <3>3
    <3> QED BY <2>1, <3>1, <3>2, <3>4
  <2>3. CASE r \in OwnOf(s, "catalog")
    <3>1. "catalog" \in DOMAIN s.publishes /\ r = s.publishes["catalog"] /\ r \notin s.terminated
      BY <2>3 DEF OwnOf
    <3>2. s.publishes = PublishIds BY <2>1, <3>1, MapEmpty DEF RequestsKnown
    <3>3. r = 2 BY <3>1, <3>2 DEF PublishIds, Tracks
    <3>4. r \notin AskedIds(peer.asked)
      <4>1. \A k \in 0..peer.asked - 1 : 2 * k + 1 # 2 BY <1>1
      <4> QED BY <3>3, <4>1 DEF AskedIds
    <3>5. r \notin s.ended BY <2>1, <3>4 DEF RequestsKnown
    <3> QED BY <3>1, <3>3, <3>5
  <2> QED BY <2>2, <2>3
<1>17. /\ \A i \in DOMAIN s.out : s.out[i].track = "done" =>
            /\ s.out[i].group # 2 /\ s.out[i].group \notin s.ended \cup s.terminated
            /\ s.out[i].group \in DOMAIN s.subs => s.subs[s.out[i].group].track = "video"
       /\ \A r \in SubsOf(s, "video") : \E i \in DOMAIN s.out : IsDone(s, i, r)
       /\ s.publishes # <<>> /\ 4 \notin s.terminated => \E i \in DOMAIN s.out : IsDone(s, i, 4)
       /\ \A i, j \in DOMAIN s.out :
            (s.out[i].track = "done" /\ s.out[j].track = "done" /\ s.out[i].group = s.out[j].group) => i = j
  BY <1>1, <1>8 DEF RecordInv, DonesKnown
<1>18. \A i \in DOMAIN written : written[i].track = "done" =>
         i \in DOMAIN s.out \/ \E j \in DOMAIN d : i = n + j
  <2> TAKE i \in DOMAIN written
  <2>1. written[i].track = "done" => i # m + 1 BY <1>5, <1>6
  <2> QED BY <1>6, <2>1
<1>19. ASSUME NEW i \in DOMAIN s.out, NEW j \in DOMAIN d, s.out[i].track = "done"
       PROVE  s.out[i].group # d[j].group
  BY <1>9, <1>16, <1>17, <1>19
<1>20. DonesKnown(s')
  <2>1. \A i, j \in DOMAIN written :
          (written[i].track = "done" /\ written[j].track = "done" /\ written[i].group = written[j].group) => i = j
    <3> TAKE i, j \in DOMAIN written
    <3> SUFFICES ASSUME written[i].track = "done", written[j].track = "done", written[i].group = written[j].group
                 PROVE  i = j
      OBVIOUS
    <3>1. CASE i \in DOMAIN s.out /\ j \in DOMAIN s.out BY <1>6, <1>17, <3>1
    <3>2. ASSUME NEW l \in DOMAIN d, j = n + l, i \in DOMAIN s.out PROVE FALSE BY <1>6, <1>19, <3>2
    <3>3. ASSUME NEW k \in DOMAIN d, i = n + k, j \in DOMAIN s.out PROVE FALSE BY <1>6, <1>19, <3>3
    <3>4. ASSUME NEW k \in DOMAIN d, NEW l \in DOMAIN d, i = n + k, j = n + l PROVE k = l
      BY <1>3, <1>6, <3>4 DEF EndsTrack
    <3> QED BY <1>18, <3>1, <3>2, <3>3, <3>4
  <2>2. \A i \in DOMAIN written : written[i].track = "done" => written[i].group \notin s.ended \cup s.terminated
    <3> TAKE i \in DOMAIN written
    <3> SUFFICES ASSUME written[i].track = "done" PROVE written[i].group \notin s.ended \cup s.terminated
      OBVIOUS
    <3>1. CASE i \in DOMAIN s.out BY <1>6, <1>17, <3>1
    <3>2. ASSUME NEW j \in DOMAIN d, i = n + j PROVE written[i].group \notin s.ended \cup s.terminated
      BY <1>6, <1>9, <1>16, <3>2
    <3> QED BY <1>18, <3>1, <3>2
  <2>3. \A r \in SubsOf(s, "catalog") \cup OwnOf(s, "catalog") : \E i \in DOMAIN written : IsDone(s', i, r)
    <3> TAKE r \in SubsOf(s, "catalog") \cup OwnOf(s, "catalog")
    <3>1. PICK j \in DOMAIN d : d[j].group = r BY <1>3 DEF EndsTrack
    <3>2. n + j \in DOMAIN written /\ written[n + j] = d[j] /\ d[j].track = "done" BY <1>6, <1>9
    <3> QED BY <1>7, <3>1, <3>2 DEF IsDone
  <2>4. ASSUME NEW r, \E i \in DOMAIN s.out : IsDone(s, i, r)
        PROVE  \E i \in DOMAIN written : IsDone(s', i, r)
    <3>1. PICK i \in DOMAIN s.out : s.out[i].track = "done" /\ s.out[i].group = r BY <2>4 DEF IsDone
    <3>2. i \in DOMAIN written /\ written[i] = s.out[i] BY <1>6
    <3> QED BY <1>7, <3>1, <3>2 DEF IsDone
  <2>5. \A r \in DOMAIN s.subs : \E i \in DOMAIN written : IsDone(s', i, r)
    <3> TAKE r \in DOMAIN s.subs
    <3>1. s.subs[r] \in Subs BY <1>1, MapFacts DEF States
    <3>2. s.subs[r].track = "catalog" \/ s.subs[r].track = "video" BY <3>1 DEF Subs, Tracks
    <3>3. r \in SubsOf(s, "catalog") \/ r \in SubsOf(s, "video") BY <3>2 DEF SubsOf
    <3> QED BY <1>17, <2>3, <2>4, <3>3
  <2>6. \A t \in DOMAIN s.publishes : s.publishes[t] \notin s.terminated =>
          \E i \in DOMAIN written : IsDone(s', i, s.publishes[t])
    <3> TAKE t \in DOMAIN s.publishes
    <3> SUFFICES ASSUME s.publishes[t] \notin s.terminated
                 PROVE  \E i \in DOMAIN written : IsDone(s', i, s.publishes[t])
      OBVIOUS
    <3>1. s.publishes = PublishIds /\ s.publishes # <<>> BY <1>1, MapEmpty DEF RecordInv, RequestsKnown
    <3>2. (t = "catalog" \/ t = "video") /\ s.publishes["video"] = 4 BY <3>1 DEF PublishIds, Tracks
    <3>3. t = "catalog" => s.publishes[t] \in OwnOf(s, "catalog") BY DEF OwnOf
    <3> QED BY <1>17, <2>3, <2>4, <3>1, <3>2, <3>3
  <2>7. s'.subs = s.subs /\ s'.publishes = s.publishes /\ s'.terminated = s.terminated /\ s'.ended = s.ended
    BY <1>7 DEF SameRequests
  <2>8. \A r \in DOMAIN s'.subs \cup ({s'.publishes[t] : t \in DOMAIN s'.publishes} \ s'.terminated) :
          \E i \in DOMAIN s'.out : IsDone(s', i, r)
    BY <1>7, <2>5, <2>6, <2>7
  <2> QED BY <1>7, <1>8, <2>1, <2>2, <2>7, <2>8 DEF DonesKnown
<1>21. RecordInv(s', peer.asked, src.taken, scenario.objects)
  BY <1>10, <1>11, <1>12, <1>13, <1>14, <1>15, <1>20 DEF RecordInv
<1>22. LeftInTime(s', src, peer, scenario.objects) BY <1>7, <1>8 DEF ObjectsInv, LeftInTime
<1> QED BY <1>2, <1>7, <1>21, <1>22, SessionFrame

(* ---- the theorems ---- *)

\* Every step of the publish preserves the invariant.
LEMMA ObjectsStep ==
    ASSUME ObjectsTypes, ObjectsInv, [ObjectsNext]_objectVars
    PROVE  ObjectsTypes' /\ ObjectsInv'
<1>1. CASE SourceProduces \/ SourceCloses BY <1>1, SourceStep
<1>2. CASE Stop BY <1>2, StopStep
<1>3. CASE Peer
  <2>1. CASE HandleSubscribe BY <2>1, SubscribeStep
  <2>2. CASE HandleUpdate BY <2>2, UpdateStep
  <2>3. CASE HandleEnd BY <2>3, EndStep
  <2>4. CASE HandleTracks BY <2>4, TracksStep
  <2>5. CASE HandlePublishUpdate BY <2>5, PublishUpdateStep
  <2>6. CASE HandlePublishStop BY <2>6, PublishStopStep
  <2>7. CASE HandleFin BY <2>7, FinStep
  <2> QED BY <1>3, <2>1, <2>2, <2>3, <2>4, <2>5, <2>6, <2>7 DEF Peer
<1>4. CASE SubscribeTimeout BY <1>4, TimeoutStep
<1>5. CASE Session
  <2>1. CASE Announce BY <2>1, AnnounceStep
  <2>2. CASE ControlRead BY <2>2, ControlStep
  <2>3. CASE Permit BY <2>3, PermitStep
  <2>4. CASE TakeObject BY <2>4, TakeStep
  <2>5. CASE SourceEmpty \/ AskFinished BY <2>5, EmptyStep
  <2>6. CASE WriteInterrupted BY <2>6, InterruptStep
  <2>7. CASE FlushGroups BY <2>7, GroupsStep
  <2>8. CASE FlushMedia BY <2>8, MediaFlushed
  <2>9. CASE FlushCatalog BY <2>9, CatalogFlushed
  <2>10. CASE FlushCut BY <2>10, CutStep
  <2> QED BY <1>5, <2>1, <2>2, <2>3, <2>4, <2>5, <2>6, <2>7, <2>8, <2>9, <2>10 DEF Session
<1>6. CASE SendCatalogObject BY <1>6, CatalogStep
<1>7. CASE SendMediaObject BY <1>7, MediaWritten
<1>8. CASE UNCHANGED objectVars BY <1>8 DEF objectVars, ObjectsTypes, ObjectsInv
<1> QED BY <1>1, <1>2, <1>3, <1>4, <1>5, <1>6, <1>7, <1>8 DEF ObjectsNext

\* The records keep their types and the invariant holds in every state of
\* publish_live_objects.
THEOREM ObjectsInvariant == ObjectsSpec => [](ObjectsTypes /\ ObjectsInv)
<1>1. ObjectsInit => ObjectsTypes /\ ObjectsInv BY InitialTypes, InitStep
<1>2. ObjectsTypes /\ ObjectsInv /\ [ObjectsNext]_objectVars => (ObjectsTypes /\ ObjectsInv)' BY ObjectsStep
<1> QED BY <1>1, <1>2, PTL DEF ObjectsSpec

\* What the invariant says of the catalog.
LEMMA InvReaches == ObjectsInv => CatalogTrackSound
<1> SUFFICES ASSUME ObjectsInv PROVE CatalogTrackSound OBVIOUS
<1>1. CatalogReaches
  <2> SUFFICES ASSUME s.pc = "permit", ~s.unserved, NEW r \in SubsOf(s, "catalog")
               PROVE  s.subs[r].filled \/ \E i \in (s.subs[r].since + 1)..Len(s.out) : s.out[i].track = "catalog"
    BY DEF CatalogReaches
  <2>1. Serving(s) BY DEF Serving
  <2>2. s.subs[r].filled \/ \E i \in s.subs[r].since + 1..Len(s.out) : CatalogAt(s, i)
    BY <2>1 DEF ObjectsInv, CatalogOwed
  <2> QED BY <2>2 DEF CatalogAt
<1>2. CatalogLocationsGrow BY DEF ObjectsInv, LocationsGrow, CatalogAt, CatalogLocationsGrow
<1> QED BY <1>1, <1>2 DEF CatalogTrackSound

\* Requests that were ended once each are as many as the PUBLISH_DONEs.
LEMMA DonesCounted ==
    ASSUME NEW x \in States, DonesKnown(x)
    PROVE  Cardinality(DoneIds(x)) = Cardinality({j \in DOMAIN x.out : x.out[j].track = "done"})
<1> DEFINE J == {j \in DOMAIN x.out : x.out[j].track = "done"}
           f == [j \in J |-> x.out[j].group]
<1>1. IsFiniteSet(J)
  <2>1. DOMAIN x.out = 1..Len(x.out) /\ Len(x.out) \in Nat BY LocationTypes
  <2>2. IsFiniteSet(1..Len(x.out)) /\ J \in SUBSET (1..Len(x.out)) BY <2>1, FS_Interval
  <2> QED BY <2>2, FS_Subset
<1>2. DoneIds(x) = {x.out[j].group : j \in J} BY DEF DoneIds
<1>3. \A i, j \in J : x.out[i].group = x.out[j].group => i = j BY DEF DonesKnown
<1> HIDE DEF J
<1>4. f \in Bijection(J, DoneIds(x))
  <2>1. f \in [J -> DoneIds(x)] /\ DOMAIN f = J BY <1>2
  <2>2. IsInjective(f) BY <1>3 DEF IsInjective
  <2>3. \A g \in DoneIds(x) : \E j \in J : f[j] = g BY <1>2
  <2> QED BY <2>1, <2>2, <2>3 DEF Bijection, Injection, Surjection
<1>5. ExistsBijection(J, DoneIds(x)) BY <1>4 DEF ExistsBijection
<1>6. Cardinality(DoneIds(x)) = Cardinality(J) BY <1>1, <1>5, FS_Bijection
<1> QED BY <1>6 DEF J

\* What the invariant says of the end.
LEMMA InvEnds == ObjectsTypes /\ ObjectsInv => EndsSound
<1> SUFFICES ASSUME ObjectsTypes, ObjectsInv PROVE EndsSound OBVIOUS
<1>1. EndOrder BY DEF ObjectsInv, EndsInOrder, EndOrder
<1>2. DonesExact
  <2>1. s \in States /\ DonesKnown(s) BY DEF ObjectsTypes, ObjectsInv
  <2>2. Cardinality(DoneIds(s)) = Cardinality({j \in DOMAIN s.out : s.out[j].track = "done"})
    BY <2>1, DonesCounted
  <2>3. \A r \in DoneIds(s) : r \notin s.ended \cup s.terminated BY <2>1 DEF DoneIds, DonesKnown
  <2>4. \A r : (\E i \in DOMAIN s.out : IsDone(s, i, r)) => r \in DoneIds(s) BY DEF DoneIds, IsDone
  <2>5. s.result = "success" /\ ~s.stop =>
     DOMAIN s.subs \cup ({s.publishes[t] : t \in DOMAIN s.publishes} \ s.terminated) \subseteq DoneIds(s)
    BY <2>1, <2>4 DEF DonesKnown
  <2> QED BY <2>2, <2>3, <2>5 DEF DonesExact
<1>3. GapIsNotEnd BY DEF ObjectsInv, LeftInTime, GapIsNotEnd
<1> QED BY <1>1, <1>2, <1>3 DEF EndsSound

\* send_retained_catalog forgets no subscription of the catalog, and the groups
\* it inserts for late subscribers and the source's own never share a location.
THEOREM CatalogReachesEveryone == ObjectsSpec => []CatalogTrackSound
<1>1. ObjectsInv => CatalogTrackSound BY InvReaches
<1> QED BY <1>1, ObjectsInvariant, PTL

\* The flush of publish_live_objects ends the tracks in the order of MSF 11.3,
\* every open request with one PUBLISH_DONE and no ended one with another; a
\* gap of the source is never taken for its end.
THEOREM PublishEndsInOrder == ObjectsSpec => []EndsSound
<1>1. ObjectsTypes /\ ObjectsInv => EndsSound BY InvEnds
<1> QED BY <1>1, ObjectsInvariant, PTL
=============================================================================
