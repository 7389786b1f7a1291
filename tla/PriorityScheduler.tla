------------------------- MODULE PriorityScheduler -------------------------
(* The priority scheduler of serve_subscriptions (moqt_session.cpp): which
   object of which subscription a batch publish sends next, for the drafts
   with uses_priority_scheduler.  Every active request has a frontier, the
   next object of each of its subgroups; the session has one heap of
   candidates.  A pass pops candidates until one is admitted; a pass in
   which every candidate would block starts the stall timer.  A looping
   input repeats the plan in cycles, and a request may lead the slowest
   one by MaxLead cycles before it is parked.

   The sender below is abstract: a candidate is admitted or would block
   (SubgroupSender has the details).  Objects are available at once (the
   unpaced mode), a publisher priority is the default one. *)
EXTENDS Integers, Sequences, FiniteSets, Bags, SequencesExt, FiniteSetsExt

CONSTANTS
  Plan,        \* plan.objects: [track, group, subgroup, object, time]
  Requests,    \* request ids of peers
  TrackOf,     \* the track each request names
  OrderOf,     \* the group order it asks for: 1 ascending, 2 descending
  Priorities,  \* subscriber priorities, smaller first
  Filters,     \* location filters <<first group, last group>>
  Drafts,      \* negotiated draft: 16, 18 or 21
  Looping,     \* values of loop_state.enabled
  MaxLead,     \* kMaximumGenerationLeadCycles
  MaxCycle,    \* bound: cycles of a looping input
  MaxPriorityUpdates,  \* bound: REQUEST_UPDATEs
  MaxHeap      \* bound: entries of the heap

ASSUME SchedulerAssumption ==
  /\ Len(Plan) \in Nat /\ DOMAIN Plan = 1..Len(Plan)
  /\ \A i \in DOMAIN Plan :
       /\ DOMAIN Plan[i] = {"track", "group", "subgroup", "object", "time"}
       /\ {Plan[i].group, Plan[i].subgroup, Plan[i].object, Plan[i].time} \subseteq Nat
  /\ Requests \subseteq Nat /\ TrackOf \in [Requests -> {Plan[i].track : i \in DOMAIN Plan}]
  /\ OrderOf \in [Requests -> {1, 2}]
  /\ Priorities \subseteq Nat /\ Filters \subseteq Nat \X Nat /\ Drafts \subseteq {16, 18, 21}
  /\ Looping \subseteq BOOLEAN
  /\ {MaxLead, MaxCycle, MaxPriorityUpdates, MaxHeap} \subseteq Nat /\ MaxLead > 0

VARIABLES
  draft, looping,
  active,                 \* active_subscriptions: request id -> ActiveSubscription
  ended,                  \* completed_request_ids, and why each ended
  eligible,               \* eligible_candidates, a bag
  blocked,                \* blocked_candidates of the running pass
  pc,                     \* "control" between passes, "pass" inside one
  stalled,                \* priority_stall_started_at has a value
  origins,                \* generation_origins_: cycles with a recorded origin
  oldest,                 \* oldest_retained_cycle_
  sent,                   \* history: <<request, cycle, plan index>> admitted
  priorityUpdates

requestVars == <<active, ended, priorityUpdates, sent>>
originVars == <<origins, oldest>>
passVars == <<eligible, blocked, pc, stalled>>
schedulerVars == <<draft, looping, requestVars, originVars, passVars>>

Indices == DOMAIN Plan
CycleTime == Max({Plan[i].time : i \in Indices}) + 1

-----------------------------------------------------------------------------
(* Ordering. *)

LexLess(a, b) ==
  \E i \in DOMAIN a : a[i] < b[i] /\ \A j \in 1..(i - 1) : a[j] = b[j]

\* make_looped_object: the time of an object in a cycle of the loop.
LoopedTime(i, cycle) == Plan[i].time + cycle * CycleTime

GroupRank(i, order) == IF order = 2 THEN -Plan[i].group ELSE Plan[i].group

\* precedes(): the order inside one request's frontier.
FrontierKey(a, i) ==
  <<GroupRank(i, a.group_order), Plan[i].subgroup, Plan[i].object, i>>

\* precedes_cross_request(): the order of the session's heap.  Entries that
\* differ in their generation alone tie there; at most one of them is live, so
\* the order between them shows in nothing.
HeapKey(c) ==
  <<c.priority, c.time, c.round, c.request, c.group_order,
    GroupRank(c.index, c.group_order), Plan[c.index].subgroup,
    Plan[c.index].object, c.index, c.generation>>

HeadOf(a) ==
  CHOOSE i \in a.scheduler_frontiers :
    \A j \in a.scheduler_frontiers \ {i} : LexLess(FrontierKey(a, i), FrontierKey(a, j))

\* std::next(scheduler_frontier_it): what follows index i in the frontier.
After(a, i) ==
  {j \in a.scheduler_frontiers : LexLess(FrontierKey(a, i), FrontierKey(a, j))}

NextAfter(a, i) ==
  CHOOSE j \in After(a, i) :
    \A k \in After(a, i) \ {j} : LexLess(FrontierKey(a, j), FrontierKey(a, k))

Candidate(r, a, i) ==
  [request |-> r, generation |-> a.generation, cycle |-> a.cycle, index |-> i,
   priority |-> a.priority, time |-> LoopedTime(i, a.cycle), round |-> a.round,
   group_order |-> a.group_order]

-----------------------------------------------------------------------------
(* Frontiers. *)

\* object_matches_filter with the track of the request.
Selected(a) ==
  {i \in Indices : Plan[i].track = a.track /\ Plan[i].group \in a.filter[1]..a.filter[2]}

SubgroupOf(i) == <<Plan[i].group, Plan[i].subgroup>>

ObjectKey(i) == <<Plan[i].object, i>>

\* The std::sort of a subgroup's object_indices.
InObjectOrder(S) ==
  CHOOSE s \in SetToSeqs(S) :
    \A j, k \in DOMAIN s : j < k => LexLess(ObjectKey(s[j]), ObjectKey(s[k]))

\* Mutant: the objects of a subgroup are listed last first.
SubgroupFrontiersMutant(a) ==
  LET left == Selected(a) \ a.admitted
  IN  [k \in {SubgroupOf(i) : i \in left} |->
         Reverse(InObjectOrder({i \in left : SubgroupOf(i) = k}))]

\* object_indices of every subgroup, in object order.
SubgroupFrontiers(a) ==
  LET left == Selected(a) \ a.admitted
  IN  [k \in {SubgroupOf(i) : i \in left} |-> InObjectOrder({i \in left : SubgroupOf(i) = k})]

\* rebuild_priority_frontiers
Rebuilt(a) ==
  LET f == SubgroupFrontiers(a)
  IN  [a EXCEPT !.generation = @ + 1, !.subgroup_frontiers = f,
                !.scheduler_frontiers = {Head(f[k]) : k \in DOMAIN f},
                !.completed = f = <<>>]

\* generation_origin() as rebuild_priority_frontiers and track_end_at call it:
\* cycle 0 has its own origin, a later one is recorded on first use.
NeedsOrigin(a) == a.cycle > 0 /\ a.scheduler_frontiers # {}

\* minimum_active_loop_cycle, over the requests of f.
RunningCycles(f) == {f[r].cycle : r \in {q \in DOMAIN f : ~f[q].completed}}

\* advance_subscription_to_next_loop_object below the lead limit.
Advanced(a, f) ==
  LET running == RunningCycles(f)
      limit == IF running = {} THEN a.cycle + 1 ELSE Min(running) + MaxLead
  IN  CASE ~looping \/ Selected(a) = {} ->
             [a EXCEPT !.parked = FALSE, !.completed = TRUE]
        [] looping /\ Selected(a) # {} /\ a.cycle >= limit ->
             [a EXCEPT !.parked = TRUE, !.completed = FALSE]
        [] OTHER ->
             [Rebuilt([a EXCEPT !.parked = FALSE, !.cycle = @ + 1, !.admitted = {}])
                EXCEPT !.completed = FALSE]

\* resume_generation_leaders: every parked request tries again.  The minimum
\* does not move while they do: each of them is ahead of it.
Resumed(f) ==
  [r \in DOMAIN f |-> IF f[r].parked THEN Advanced(f[r], f) ELSE f[r]]

\* enqueue_active_candidate
Enqueues(a) ==
  ~a.completed /\ ~a.paused /\ ~a.parked /\ a.scheduler_frontiers # {}

Pushed(heap, r, a) ==
  IF Enqueues(a) THEN heap (+) SetToBag({Candidate(r, a, HeadOf(a))}) ELSE heap

\* The candidates resume_generation_leaders pushes.
PushedResumed(heap, f) ==
  LET g == Resumed(f)
  IN  heap (+) SetToBag({Candidate(r, g[r], HeadOf(g[r])) :
                           r \in {q \in DOMAIN f : f[q].parked /\ Enqueues(g[q])}})

WithoutRequest(f, r) == [q \in DOMAIN f \ {r} |-> f[q]]

\* erase_active_subscription
Erased(f, r) == Resumed(WithoutRequest(f, r))

\* held_until_track_end: from draft 21 a completed request stays until its
\* track ends, for a looping track for ever.
Held(a) == draft = 21 /\ looping

\* Cycles whose origin the new records ask for.
RecordOrigins(f) ==
  LET new == {f[r].cycle : r \in {q \in DOMAIN f : NeedsOrigin(f[q])}} \ origins
  IN  /\ origins' = origins \cup new
      /\ UNCHANGED oldest

-----------------------------------------------------------------------------
Fresh(r, p, filter) ==
  [track |-> TrackOf[r], priority |-> p, group_order |-> OrderOf[r], filter |-> filter,
   cycle |-> oldest, admitted |-> {}, round |-> 0, generation |-> 0,
   subgroup_frontiers |-> <<>>, scheduler_frontiers |-> {},
   paused |-> FALSE, parked |-> FALSE, completed |-> FALSE]

SchedulerInit ==
  /\ draft \in Drafts /\ looping \in Looping
  /\ active = <<>> /\ ended = <<>> /\ eligible = EmptyBag
  /\ blocked = <<>> /\ pc = "control" /\ stalled = FALSE
  /\ origins = {} /\ oldest = 0
  /\ sent = {} /\ priorityUpdates = 0

\* A SUBSCRIBE that is answered with SUBSCRIBE_OK.  One that selects nothing is
\* finished at once, from draft 21 it is kept as a completed one.
Subscribe(r, p, filter) ==
  LET a == Fresh(r, p, filter)
      b == Rebuilt(a)
  IN  /\ pc = "control" /\ r \notin DOMAIN active \cup DOMAIN ended
      /\ IF Selected(a) # {}
         THEN /\ active' = [q \in DOMAIN active \cup {r} |-> IF q = r THEN b ELSE active[q]]
              /\ eligible' = Pushed(eligible, r, b)
              /\ RecordOrigins(active') /\ UNCHANGED ended
         ELSE /\ UNCHANGED <<eligible, originVars>>
              /\ IF draft = 21
                 THEN /\ active' = [q \in DOMAIN active \cup {r} |->
                                      IF q = r THEN [a EXCEPT !.completed = TRUE] ELSE active[q]]
                      /\ UNCHANGED ended
                 ELSE /\ ended' = [q \in DOMAIN ended \cup {r} |->
                                     IF q = r THEN "done" ELSE ended[q]]
                      /\ UNCHANGED active
      /\ UNCHANGED <<draft, looping, sent, priorityUpdates, blocked, pc, stalled>>

\* apply_update_to_active: forward, priority and filter change together; the
\* frontiers are rebuilt without what was admitted before.  While it is empty
\* the request itself does not count for the lead limit.
Updated(r, p, paused, filter) ==
  LET a == Rebuilt([active[r] EXCEPT !.priority = p, !.paused = paused,
                                     !.filter = filter, !.parked = FALSE])
  IN  IF a.subgroup_frontiers = <<>>
      THEN Advanced(a, [active EXCEPT ![r] = a])
      ELSE a

UpdateRequest(r, p, paused, filter) ==
  /\ pc = "control" /\ r \in DOMAIN active /\ priorityUpdates < MaxPriorityUpdates
  /\ active[r].cycle < MaxCycle
  /\ priorityUpdates' = priorityUpdates + 1
  /\ active' = [active EXCEPT ![r] = Updated(r, p, paused, filter)]
  /\ eligible' = Pushed(eligible, r, active'[r])
  /\ RecordOrigins(active')
  /\ UNCHANGED <<draft, looping, ended, sent, blocked, pc, stalled>>

\* A request leaves active_subscriptions; parked leaders try again.
End(r, why) ==
  /\ ended' = [q \in DOMAIN ended \cup {r} |-> IF q = r THEN why ELSE ended[q]]
  /\ active' = Erased(active, r)
  /\ RecordOrigins(active')

\* UNSUBSCRIBE, in the drafts that have it.
UnsubscribeRequest(r) ==
  /\ pc = "control" /\ r \in DOMAIN active /\ draft = 16
  /\ End(r, "unsubscribed")
  /\ eligible' = PushedResumed(eligible, WithoutRequest(active, r))
  /\ UNCHANGED <<draft, looping, sent, priorityUpdates, blocked, pc, stalled>>

\* completed_request_ids_to_finalize, before a pass may begin.
Finalizable == {r \in DOMAIN active : active[r].completed /\ ~Held(active[r])}

Finalize(r) ==
  /\ pc = "control" /\ r \in Finalizable
  /\ End(r, "done")
  /\ eligible' = PushedResumed(eligible, WithoutRequest(active, r))
  /\ UNCHANGED <<draft, looping, sent, priorityUpdates, blocked, pc, stalled>>

-----------------------------------------------------------------------------
(* A pass. *)

\* retain_generations
PassBegin ==
  LET needed == {active[r].cycle : r \in DOMAIN active}
      low == IF oldest > Min(needed) THEN oldest ELSE Min(needed)
      kept == {c \in origins : c \in low..Max(needed)}
  IN  /\ pc = "control" /\ DOMAIN active # {} /\ Finalizable = {}
      /\ pc' = "pass" /\ blocked' = <<>>
      /\ oldest' = low /\ origins' = kept
      /\ UNCHANGED <<draft, looping, requestVars, eligible, stalled>>

Top ==
  CHOOSE c \in BagToSet(eligible) :
    \A d \in BagToSet(eligible) \ {c} : LexLess(HeapKey(c), HeapKey(d))

Popped == eligible (-) SetToBag({Top})

\* The checks on a popped candidate: is it still its request's?
Live(c) ==
  /\ c.request \in DOMAIN active
  /\ LET a == active[c.request]
     IN  /\ ~a.completed /\ ~a.paused
         /\ c.generation = a.generation /\ c.cycle = a.cycle /\ c.round = a.round
         /\ c.index \in a.scheduler_frontiers

PopStale ==
  /\ pc = "pass" /\ eligible # EmptyBag /\ ~Live(Top)
  /\ eligible' = Popped
  /\ UNCHANGED <<draft, looping, requestVars, originVars, blocked, pc, stalled>>

\* kWouldBlock: remember the candidate, offer the next subgroup instead.
PopBlocked ==
  LET c == Top
      a == active[c.request]
  IN  /\ pc = "pass" /\ eligible # EmptyBag /\ Live(Top)
      /\ BagCardinality(eligible) + Len(blocked) < MaxHeap
      /\ blocked' = Append(blocked, c)
      /\ eligible' = IF After(a, c.index) = {} THEN Popped
                     ELSE Popped (+) SetToBag({Candidate(c.request, a, NextAfter(a, c.index))})
      /\ UNCHANGED <<draft, looping, requestVars, originVars, pc, stalled>>

\* The request after one of its objects was admitted or skipped.
Served(a, i) ==
  LET rest == Tail(a.subgroup_frontiers[SubgroupOf(i)])
  IN  [a EXCEPT !.admitted = @ \cup {i}, !.round = @ + 1,
                !.subgroup_frontiers[SubgroupOf(i)] = rest,
                !.scheduler_frontiers =
                   (@ \ {i}) \cup (IF rest = <<>> THEN {} ELSE {Head(rest)})]

\* "priority scheduler lost its subgroup frontier" unless the served object
\* is the first one left of its subgroup.
Tracked(a, i) ==
  /\ SubgroupOf(i) \in DOMAIN a.subgroup_frontiers
  /\ a.subgroup_frontiers[SubgroupOf(i)] # <<>>
  /\ Head(a.subgroup_frontiers[SubgroupOf(i)]) = i

\* Mutant: what would block is forgotten.
PutBackMutant(heap) == heap

\* The blocked candidates return to the heap.
PutBack(heap) == heap (+) ToBag(blocked)

PopServe ==
  LET c == Top
      r == c.request
      a == Served(active[r], c.index)
      f == [active EXCEPT ![r] = a]
      g == IF a.scheduler_frontiers = {} THEN [f EXCEPT ![r] = Advanced(a, f)] ELSE f
  IN  /\ pc = "pass" /\ eligible # EmptyBag /\ Live(Top)
      /\ Tracked(active[r], c.index)
      /\ c.cycle < MaxCycle
      /\ active' = Resumed(g)
      /\ eligible' = PutBack(Pushed(PushedResumed(Popped, g), r, Resumed(g)[r]))
      /\ RecordOrigins(active')
      /\ sent' = sent \cup {<<r, c.cycle, c.index>>}
      /\ stalled' = FALSE /\ blocked' = <<>> /\ pc' = "control"
      /\ UNCHANGED <<draft, looping, ended, priorityUpdates>>

\* The heap ran empty.  Candidates that would block come back; the first such
\* pass starts the timer, a pass without candidates stops it.
PassStalls ==
  /\ pc = "pass" /\ eligible = EmptyBag
  /\ eligible' = PutBack(eligible) /\ blocked' = <<>> /\ pc' = "control"
  /\ stalled' = (blocked # <<>>)
  /\ UNCHANGED <<draft, looping, requestVars, originVars>>

Victim == Last(blocked).request

\* The stall lasted subscriber_timeout: the last blocked candidate's request is
\* reset and ended as TOO_FAR_BEHIND.
CancelStalled ==
  LET r == Victim
  IN  /\ pc = "pass" /\ eligible = EmptyBag /\ stalled /\ blocked # <<>>
      /\ End(r, "too_far_behind")
      /\ eligible' = PushedResumed(PutBack(eligible), WithoutRequest(active, r))
      /\ stalled' = FALSE /\ blocked' = <<>> /\ pc' = "control"
      /\ UNCHANGED <<draft, looping, sent, priorityUpdates>>

SchedulerNext ==
  \/ \E r \in Requests :
       \/ \E p \in Priorities, filter \in Filters :
            \/ Subscribe(r, p, filter)
            \/ \E paused \in BOOLEAN : UpdateRequest(r, p, paused, filter)
       \/ UnsubscribeRequest(r) \/ Finalize(r)
  \/ PassBegin \/ PopStale \/ PopBlocked \/ PopServe \/ PassStalls \/ CancelStalled

SchedulerSpec == SchedulerInit /\ [][SchedulerNext]_schedulerVars

-----------------------------------------------------------------------------
(* Properties. *)

\* No request is forgotten: between passes a request that still has objects to
\* send, and is neither paused nor parked, has its first one in the heap.
NoLostCandidate ==
  pc = "control" =>
    \A r \in DOMAIN active :
      Enqueues(active[r]) =>
        BagIn(Candidate(r, active[r], HeadOf(active[r])), eligible)

\* Every live candidate is the first unsent object of its subgroup, so the
\* scheduler never fails with "lost its subgroup frontier".
FrontierTracked ==
  \A c \in BagToSet(eligible) : Live(c) => Tracked(active[c.request], c.index)

\* A parked leader waits for somebody, on the drafts that end a request once
\* its filter is exhausted: once the finished requests are gone, another request
\* is still running that can move on and wake it (or that its own subscriber has
\* paused).
LeaderResumesBeforeDraft21 ==
  pc = "control" /\ Finalizable = {} /\ draft # 21 =>
    \A r \in DOMAIN active :
      active[r].parked =>
        \E q \in DOMAIN active \ {r} : ~active[q].completed /\ ~active[q].parked

\* The cycle a request has reached is retained, with its origin once the
\* request needs it, however far the others lead.
CycleRetained ==
  \A r \in DOMAIN active :
    /\ active[r].cycle >= oldest
    /\ NeedsOrigin(active[r]) => active[r].cycle \in origins

\* The heap and the frontiers agree: no request is forgotten, no candidate is
\* out of its subgroup's order, and no parked leader waits for nobody, after
\* any order of sends, refusals, updates, pauses and ends.
SchedulerSound ==
  NoLostCandidate /\ FrontierTracked /\ LeaderResumesBeforeDraft21 /\ CycleRetained

\* An object is sent once per cycle, after the smaller objects of its subgroup
\* that the filter still selects, whatever updates came in between.
SentInOrder ==
  [][\A t \in sent' \ sent :
       \A i \in Selected(active[t[1]]) :
         SubgroupOf(i) = SubgroupOf(t[3]) /\ Plan[i].object < Plan[t[3]].object
           => <<t[1], t[2], i>> \in sent]_schedulerVars

\* A stall ends a subscription of the lowest priority that could not send.
StallEndsLowest ==
  [][\A r \in DOMAIN ended' \ DOMAIN ended :
       ended'[r] = "too_far_behind" =>
         \A c \in ToSet(blocked) : c.priority <= active[r].priority]_schedulerVars

\* What a subscriber sees: objects in order, and an end for falling behind only
\* where the priorities ask for it.
ServedByPriority == SentInOrder /\ StallEndsLowest
=============================================================================
