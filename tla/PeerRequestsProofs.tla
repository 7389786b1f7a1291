------------------------- MODULE PeerRequestsProofs -------------------------
(* Proofs about PeerRequests, for any tracks, prefixes, draft and number of
   requests: every request the peer makes is answered well (AnswersSound),
   and the discovery requests a session keeps never contradict each other
   (DiscoverySound).

   The invariant is RequestInv.  FreshIds reads the streams of the peer as
   lines on which a request is in one place only, until it is handled.
   Phases gives each request one phase: unread, waiting for the control
   stream to be read empty, being served, answered, or withdrawn; an
   answer already sent rules out the others, so none is given twice.
   Discovery says that a kept request published its tracks once at most,
   that no prefixes overlap, and that our own ids rise.

   And about PeerStreams, for any streams, bytes and types of streams: what
   the peer sends reaches the session whole, in order and once
   (ReceiveSound).  The invariant is PeerInv. *)
EXTENDS PeerRequests, PeerStreams, DataTheorems

(* ---- messages under way ---- *)

\* UNSUBSCRIBE and GOAWAY ask for nothing: they have no request id.
IsRequest(m) == m.kind \notin {"unsubscribe", "goaway"}

Args == AskedPrefixes \cup Tracks \cup Ids \cup {"unknown", 0, 1}
Messages ==
  [id : Nat, arg : Args, forward : {0, 1}, existing : Ids \cup {0, 2},
   kind : {"subscribe", "namespace", "tracks", "fetch", "status", "update",
           "unsubscribe", "goaway"}]

\* Where a message waits: on a stream the peer opened (0), on the control
\* stream, read ahead or not (2), or on the stream of a request.
Lines == {0, 2} \cup Ids
Line(l) == IF l = 0 THEN net.streams
           ELSE IF l = 2 THEN st.buffer \o net.inbox ELSE net.requestIn[l]

NetTypes ==
  /\ DOMAIN net = {"inbox", "streams", "requestIn", "next", "asked", "ended"}
  /\ net = [f \in DOMAIN net |-> net[f]]
  /\ net.inbox \in Seq(Messages) /\ net.streams \in Seq(Messages)
  /\ net.requestIn \in [Ids -> Seq(Messages)]
  /\ net.next \in {2 * i - 1 : i \in Nat \ {0}} /\ DOMAIN net.asked \subseteq Ids

\* No two requests under way have the same id; none has an id already handled.
\* Streams of requests carry requests only.
FreshIds ==
  /\ \A l \in Lines : \A i \in 1..Len(Line(l)) :
       /\ IsRequest(Line(l)[i]) => /\ Line(l)[i].id \in Ids \ st.handled
                                   /\ Line(l)[i].id < net.next
       /\ Line(l)[i].kind = "tracks" => draft >= 18
       /\ l \in Ids => IsRequest(Line(l)[i])
  /\ \A k, l \in Lines : \A i \in 1..Len(Line(k)), j \in 1..Len(Line(l)) :
       /\ IsRequest(Line(k)[i]) /\ IsRequest(Line(l)[j])
       /\ Line(k)[i].id = Line(l)[j].id
       => k = l /\ i = j
  /\ \A r \in st.handled : r < net.next

(* ---- requests ---- *)

\* The local state of serve_subscriptions.
Fields ==
  {"pc", "result", "buffer", "expected", "seen", "waiting", "pending", "active", "dormant",
   "completed", "established", "prefixes", "discovery", "joinable", "withdrawn", "handled",
   "ownNext", "own", "published", "out"}
IsState(s) ==
  /\ s = [f \in Fields |-> s[f]]
  /\ s.buffer \in Seq(Messages) /\ s.handled \subseteq Ids
  /\ s.out = [r \in Ids \cup {2} |-> s.out[r]]
  /\ s.published \in [Ids -> Nat] /\ s.own \in Seq(Nat) /\ s.ownNext \in Nat
StTypes == IsState(st)

Unread(r) == r \notin st.handled /\ st.out[r] = <<>>
Waits(r) == r \in st.handled /\ r \in DOMAIN st.pending /\ st.out[r] = <<>>
Serving(r) == r \in st.handled /\ r \in DOMAIN st.active /\ st.out[r] = <<"ok">>
Answered(r) == r \in st.handled /\ st.out[r] \in {<<"ok">>, <<"error">>, <<"ok", "done">>}
Withdrawn(r) == r \in st.handled /\ r \in st.withdrawn /\ st.out[r] = <<>>

\* A request of the peer is in one of these phases.
Phase(r) ==
  /\ r \in DOMAIN st.pending => Waits(r)
  /\ r \in DOMAIN st.active => Serving(r)
  /\ Unread(r) \/ Waits(r) \/ Serving(r) \/ Answered(r) \/ Withdrawn(r)

\* The PUBLISH of ours that serve_subscriptions was entered with wakes and
\* ends once.
OwnPhase ==
  /\ st.out[2] \in {<<>>, <<"done">>} /\ DOMAIN st.pending \subseteq Ids
  /\ st.out[2] # <<>> => 2 \notin DOMAIN st.active
  /\ draft <= 16 => /\ st.dormant \subseteq {2}
                    /\ 2 \in st.dormant => 2 \notin DOMAIN st.active /\ st.out[2] = <<>>

Phases == OwnPhase /\ \A r \in Ids : Phase(r)

(* ---- discovery ---- *)

\* A kept discovery request; its tracks were published once at most.
DiscoveryKept ==
  /\ \A r \in DOMAIN st.discovery :
       /\ r \in st.handled
       /\ DOMAIN st.discovery[r] = {"kind", "prefix", "forward", "active", "published"}
       /\ st.discovery[r] = [f \in DOMAIN st.discovery[r] |-> st.discovery[r][f]]
       /\ st.discovery[r].active \in BOOLEAN /\ st.discovery[r].published \in BOOLEAN
  /\ draft >= 23 =>
       \A r \in Ids :
         /\ r \notin DOMAIN st.discovery => st.published[r] = 0
         /\ r \in DOMAIN st.discovery =>
              st.published[r] <= IF st.discovery[r].published THEN 1 ELSE 0

\* The ids of our own rise with every PUBLISH; n is the next one.
Issued(own, n) ==
  /\ \A i \in 1..Len(own) : own[i] < n
  /\ \A i, j \in 1..Len(own) : own[i] = own[j] => i = j
OwnIssued == scenario.entered # "downgraded" => Issued(st.own, st.ownNext)

Discovery == DiscoveryKept /\ NoPrefixOverlap /\ OwnIssued

RequestInv ==
  scenario \in Scenarios /\ NetTypes /\ StTypes /\ FreshIds /\ Phases /\ Discovery

(* ---- the lines ---- *)

\* Every line holds messages.
LEMMA LinesTyped ==
    ASSUME NetTypes, StTypes
    PROVE  \A l \in Lines : Line(l) \in Seq(Messages)
<1> SUFFICES ASSUME NEW l \in Lines PROVE Line(l) \in Seq(Messages) OBVIOUS
<1>1. net.streams \in Seq(Messages) /\ st.buffer \o net.inbox \in Seq(Messages)
  BY DEF NetTypes, StTypes, IsState
<1>2. CASE l \in Ids BY <1>1, <1>2 DEF NetTypes, Line
<1> QED BY <1>1, <1>2 DEF Line, Lines

\* Ids are odd: 0 and 2 name lines of their own.
LEMMA IdFacts ==
    ASSUME NEW r \in Ids
    PROVE  r \in Nat /\ r # 0 /\ r # 2
  BY RequestsAssumption DEF Ids

\* Nothing moved.
LEMMA LinesSame ==
    ASSUME NetTypes, FreshIds, scenario' = scenario, st'.handled = st.handled,
           net'.next = net.next, \A l \in Lines : Line(l)' = Line(l)
    PROVE  FreshIds'
  BY DEF FreshIds, draft

\* The next message of the peer joins line k.
LEMMA LineGrows ==
    ASSUME NetTypes, StTypes, FreshIds, scenario' = scenario, st'.handled = st.handled,
           NEW k \in Lines, NEW m \in Messages, Line(k)' = Append(Line(k), m),
           \A l \in Lines \ {k} : Line(l)' = Line(l),
           net'.next \in Nat, net'.next >= net.next,
           IsRequest(m) => m.id \in Ids /\ m.id = net.next /\ net'.next > net.next,
           m.kind = "tracks" => draft >= 18, k \in Ids => IsRequest(m)
    PROVE  FreshIds'
<1> DEFINE n == Len(Line(k))
<1>1. net.next \in Nat BY DEF NetTypes
<1>2. /\ n \in Nat /\ Len(Line(k)') = n + 1 /\ Line(k)'[n+1] = m
      /\ \A i \in 1..n : Line(k)'[i] = Line(k)[i]
  BY LinesTyped
<1>3. \A i \in 1..(n+1) : i \in 1..n \/ i = n + 1 BY <1>2
<1>4. ASSUME NEW l \in Lines, NEW i \in 1..Len(Line(l)')
      PROVE  \/ i \in 1..Len(Line(l)) /\ Line(l)'[i] = Line(l)[i]
             \/ l = k /\ i = n + 1 /\ Line(l)'[i] = m
  <2>1. CASE l = k BY <1>2, <1>3, <1>4, <2>1
  <2>2. CASE l # k BY <1>4, <2>2
  <2> QED BY <2>1, <2>2
<1> HIDE DEF n
<1>5. \A l \in Lines : \A i \in 1..Len(Line(l)) :
        /\ IsRequest(Line(l)[i]) => /\ Line(l)[i].id \in Ids \ st.handled
                                    /\ Line(l)[i].id < net.next
        /\ Line(l)[i].kind = "tracks" => draft >= 18
        /\ l \in Ids => IsRequest(Line(l)[i])
  BY DEF FreshIds
<1>6. \A l, o \in Lines : \A i \in 1..Len(Line(l)), j \in 1..Len(Line(o)) :
        /\ IsRequest(Line(l)[i]) /\ IsRequest(Line(o)[j])
        /\ Line(l)[i].id = Line(o)[j].id
        => l = o /\ i = j
  BY DEF FreshIds
<1>7. \A r \in st.handled : r < net.next BY DEF FreshIds
<1>8. \A r \in Ids : r \in Nat BY IdFacts
<1>9. ASSUME NEW l \in Lines, NEW i \in 1..Len(Line(l)')
      PROVE  /\ IsRequest(Line(l)'[i]) => /\ Line(l)'[i].id \in Ids \ st.handled
                                          /\ Line(l)'[i].id < net'.next
             /\ Line(l)'[i].kind = "tracks" => draft >= 18
             /\ l \in Ids => IsRequest(Line(l)'[i])
  <2>1. CASE i \in 1..Len(Line(l)) /\ Line(l)'[i] = Line(l)[i] BY <1>1, <1>5, <1>8, <2>1
  <2>2. CASE l = k /\ Line(l)'[i] = m BY <1>1, <1>7, <2>2
  <2> QED BY <1>4, <2>1, <2>2
<1>10. ASSUME NEW l \in Lines, NEW o \in Lines,
              NEW i \in 1..Len(Line(l)'), NEW j \in 1..Len(Line(o)'),
              IsRequest(Line(l)'[i]), IsRequest(Line(o)'[j]),
              Line(l)'[i].id = Line(o)'[j].id
       PROVE  l = o /\ i = j
  <2>1. CASE i \in 1..Len(Line(l)) /\ Line(l)'[i] = Line(l)[i]
             /\ j \in 1..Len(Line(o)) /\ Line(o)'[j] = Line(o)[j]
    BY <1>6, <1>10, <2>1
  <2>2. CASE i \in 1..Len(Line(l)) /\ Line(l)'[i] = Line(l)[i] /\ Line(o)'[j] = m
    BY <1>1, <1>5, <1>8, <1>10, <2>2
  <2>3. CASE j \in 1..Len(Line(o)) /\ Line(o)'[j] = Line(o)[j] /\ Line(l)'[i] = m
    BY <1>1, <1>5, <1>8, <1>10, <2>3
  <2> QED BY <1>4, <2>1, <2>2, <2>3
<1>11. \A r \in st'.handled : r < net'.next
  <2> SUFFICES ASSUME NEW r \in st.handled PROVE r < net'.next OBVIOUS
  <2>1. r \in Nat BY <1>8 DEF StTypes, IsState
  <2> QED BY <1>1, <1>7, <2>1
<1> QED BY <1>9, <1>10, <1>11 DEF FreshIds, draft

\* The first message of line k is taken, and handled or passed over.
LEMMA LineShrinks ==
    ASSUME NetTypes, StTypes, FreshIds, scenario' = scenario, net'.next = net.next,
           NEW k \in Lines, Line(k) # <<>>, Line(k)' = Tail(Line(k)),
           \A l \in Lines \ {k} : Line(l)' = Line(l),
           \/ st'.handled = st.handled
           \/ IsRequest(Head(Line(k))) /\ st'.handled = st.handled \cup {Head(Line(k)).id}
    PROVE  FreshIds'
<1> DEFINE n == Len(Line(k))
<1>1. /\ n \in Nat \ {0} /\ Head(Line(k)) = Line(k)[1] /\ Len(Line(k)') = n - 1
      /\ \A i \in 1..(n-1) : Line(k)'[i] = Line(k)[i+1] /\ i + 1 \in 1..n
      /\ 1 \in 1..n
  BY LinesTyped, TailFacts
<1>2. ASSUME NEW l \in Lines, NEW i \in 1..Len(Line(l)')
      PROVE  \/ l # k /\ i \in 1..Len(Line(l)) /\ Line(l)'[i] = Line(l)[i]
             \/ l = k /\ i + 1 \in 1..Len(Line(l)) /\ Line(l)'[i] = Line(l)[i+1] /\ i # 0
  <2>1. CASE l = k BY <1>1, <1>2, <2>1
  <2>2. CASE l # k BY <1>2, <2>2
  <2> QED BY <2>1, <2>2
<1> HIDE DEF n
<1>3. \A l \in Lines : \A i \in 1..Len(Line(l)) :
        /\ IsRequest(Line(l)[i]) => /\ Line(l)[i].id \in Ids \ st.handled
                                    /\ Line(l)[i].id < net.next
        /\ Line(l)[i].kind = "tracks" => draft >= 18
        /\ l \in Ids => IsRequest(Line(l)[i])
  BY DEF FreshIds
<1>4. \A l, o \in Lines : \A i \in 1..Len(Line(l)), j \in 1..Len(Line(o)) :
        /\ IsRequest(Line(l)[i]) /\ IsRequest(Line(o)[j])
        /\ Line(l)[i].id = Line(o)[j].id
        => l = o /\ i = j
  BY DEF FreshIds
<1>5. ASSUME NEW l \in Lines, NEW i \in 1..Len(Line(l)')
      PROVE  \E x \in 1..Len(Line(l)) : /\ Line(l)'[i] = Line(l)[x]
                                        /\ x = IF l = k THEN i + 1 ELSE i
                                        /\ l = k => x # 1
  BY <1>2, <1>5
<1>6. ASSUME NEW l \in Lines, NEW i \in 1..Len(Line(l)')
      PROVE  /\ IsRequest(Line(l)'[i]) => /\ Line(l)'[i].id \in Ids \ st'.handled
                                          /\ Line(l)'[i].id < net'.next
             /\ Line(l)'[i].kind = "tracks" => draft >= 18
             /\ l \in Ids => IsRequest(Line(l)'[i])
  <2>1. PICK x \in 1..Len(Line(l)) : Line(l)'[i] = Line(l)[x] /\ (l = k => x # 1) BY <1>5, <1>6
  <2>2. IsRequest(Line(l)[x]) /\ IsRequest(Line(k)[1]) => Line(l)[x].id # Line(k)[1].id
    BY <1>1, <1>4, <2>1 DEF n
  <2> QED BY <1>1, <1>3, <2>1, <2>2
<1>7. ASSUME NEW l \in Lines, NEW o \in Lines,
             NEW i \in 1..Len(Line(l)'), NEW j \in 1..Len(Line(o)'),
             IsRequest(Line(l)'[i]), IsRequest(Line(o)'[j]),
             Line(l)'[i].id = Line(o)'[j].id
      PROVE  l = o /\ i = j
  <2>1. PICK x \in 1..Len(Line(l)) : Line(l)'[i] = Line(l)[x] /\ x = IF l = k THEN i + 1 ELSE i BY <1>5
  <2>2. PICK y \in 1..Len(Line(o)) : Line(o)'[j] = Line(o)[y] /\ y = IF o = k THEN j + 1 ELSE j BY <1>5
  <2>3. l = o /\ x = y BY <1>4, <1>7, <2>1, <2>2
  <2> QED BY <2>1, <2>2, <2>3
<1>8. \A r \in st'.handled : r < net'.next BY <1>1, <1>3 DEF FreshIds, n
<1> QED BY <1>6, <1>7, <1>8 DEF FreshIds, draft

\* The first message of a line.
LEMMA HeadFresh ==
    ASSUME NetTypes, StTypes, FreshIds, NEW l \in Lines, Line(l) # <<>>
    PROVE  /\ Head(Line(l)) \in Messages
           /\ IsRequest(Head(Line(l))) => Head(Line(l)).id \in Ids \ st.handled
           /\ Head(Line(l)).kind = "tracks" => draft >= 18
           /\ l \in Ids => IsRequest(Head(Line(l)))
<1>1. Line(l) \in Seq(Messages) BY LinesTyped
<1>2. Head(Line(l)) = Line(l)[1] /\ 1 \in 1..Len(Line(l)) /\ Line(l)[1] \in Messages BY <1>1, TailFacts
<1> QED BY <1>2 DEF FreshIds

\* What st' keeps of the requests.
SameRequests ==
  /\ st'.handled = st.handled /\ st'.out = st.out /\ st'.dormant = st.dormant
  /\ DOMAIN st'.pending = DOMAIN st.pending /\ DOMAIN st'.active = DOMAIN st.active
  /\ st.withdrawn \subseteq st'.withdrawn

\* What st' keeps of the discovery requests and our own ids.
SameDiscovery ==
  /\ st.handled \subseteq st'.handled /\ st'.discovery = st.discovery
  /\ st'.published = st.published /\ st'.own = st.own /\ st'.ownNext = st.ownNext

\* t differs from s in the fields F only.
Agree(s, t, F) == \A f \in Fields \ F : t[f] = s[f]

\* Counting a request changes which ids were seen, and nothing else.
LEMMA CountedState ==
    ASSUME NEW s, IsState(s), NEW id
    PROVE  IsState(Counted(s, id)) /\ Agree(s, Counted(s, id), {"expected", "seen"})
  BY DEF Counted, IsState, Agree, Fields

\* Leaving serve_subscriptions changes the result, and nothing else.
LEMMA EndsState ==
    ASSUME NEW s, IsState(s), NEW why
    PROVE  IsState(Ends(s, why)) /\ Agree(s, Ends(s, why), {"result", "pc"})
  BY DEF Ends, IsState, Agree, Fields

\* The peer is told `what` on request r, and nothing else.
Told(s, t, r, what) ==
  /\ r \in Ids \cup {2} => t.out[r] = Append(s.out[r], what)
  /\ \A x \in (Ids \cup {2}) \ {r} : t.out[x] = s.out[x]

\* An answer is told on the stream of its request, and on no other.
LEMMA AnswerState ==
    ASSUME NEW s, IsState(s), NEW id, NEW what
    PROVE  /\ IsState(Answer(s, id, what)) /\ Agree(s, Answer(s, id, what), {"out"})
           /\ Told(s, Answer(s, id, what), id, what)
<1>1. IsState(Answer(s, id, what)) /\ Agree(s, Answer(s, id, what), {"out"})
  BY DEF Answer, IsState, Agree, Fields
<1>2. Answer(s, id, what).out = [s.out EXCEPT ![id] = Append(@, what)] BY DEF Answer, IsState, Fields
<1>3. DOMAIN s.out = Ids \cup {2} BY DEF IsState
<1> QED BY <1>1, <1>2, <1>3 DEF Told

\* A subscription that is over is told PUBLISH_DONE and noted as completed.
LEMMA FinalizedState ==
    ASSUME NEW s, IsState(s), NEW r
    PROVE  /\ IsState(Finalized(s, r)) /\ Agree(s, Finalized(s, r), {"out", "completed"})
           /\ Told(s, Finalized(s, r), r, "done")
<1> DEFINE a == Answer(s, r, "done")
<1>1. IsState(a) /\ Agree(s, a, {"out"}) /\ Told(s, a, r, "done") BY AnswerState
<1>2. Finalized(s, r) = [a EXCEPT !.completed = @ \cup {r}] BY DEF Finalized
<1> HIDE DEF a
<1>3. IsState(Finalized(s, r)) /\ Agree(a, Finalized(s, r), {"completed"})
  BY <1>1, <1>2 DEF IsState, Agree, Fields
<1>4. Agree(s, Finalized(s, r), {"out", "completed"}) BY <1>1, <1>3 DEF Agree
<1>5. Finalized(s, r).out = a.out BY <1>3 DEF Agree, Fields
<1> QED BY <1>1, <1>3, <1>4, <1>5 DEF Told

\* An established subscription is served, or told at once that it is done.
LEMMA EstablishedState ==
    ASSUME NEW s, IsState(s), NEW r, NEW sub
    PROVE  /\ IsState(Established(s, r, sub))
           /\ Agree(s, Established(s, r, sub), {"active", "out", "completed"})
           /\ \/ /\ Established(s, r, sub).out = s.out
                 /\ Established(s, r, sub).active = Put(s.active, r, sub)
              \/ /\ Established(s, r, sub).active = s.active
                 /\ Told(s, Established(s, r, sub), r, "done")
<1>1. CASE sub.left > 0 \/ draft >= 21
  <2>1. Established(s, r, sub) = [s EXCEPT !.active = Put(@, r, sub)] BY <1>1 DEF Established
  <2>2. IsState(Established(s, r, sub)) /\ Agree(s, Established(s, r, sub), {"active"})
        /\ Established(s, r, sub).active = Put(s.active, r, sub)
    BY <2>1 DEF IsState, Agree, Fields
  <2> QED BY <2>2 DEF Agree, Fields
<1>2. CASE ~(sub.left > 0 \/ draft >= 21)
  <2>1. Established(s, r, sub) = Finalized(s, r) BY <1>2 DEF Established
  <2> QED BY <2>1, FinalizedState DEF Agree, Fields
<1> QED BY <1>1, <1>2

\* Put changes a map in one place.
LEMMA PutFacts ==
   \A f, r, v : /\ DOMAIN Put(f, r, v) = DOMAIN f \cup {r}
                /\ Put(f, r, v)[r] = v
                /\ \A x \in DOMAIN f \ {r} : Put(f, r, v)[x] = f[x]
  BY DEF Put

(* ---- the phases ---- *)

\* A request not handled yet has no answer and waits for none.
LEMMA UnreadFacts ==
    ASSUME Phases, NEW id \in Ids \ st.handled
    PROVE  st.out[id] = <<>> /\ id \notin DOMAIN st.pending /\ id \notin DOMAIN st.active
  BY DEF Phases, Phase, Unread, Waits, Serving, Answered, Withdrawn

\* The phases are kept if those of request id and of our own are.
LEMMA PhasesChanged ==
    ASSUME Phases, NEW id,
           \A r \in Ids \ {id} :
             /\ r \in st'.handled <=> r \in st.handled
             /\ st'.out[r] = st.out[r]
             /\ r \in DOMAIN st'.pending <=> r \in DOMAIN st.pending
             /\ r \in DOMAIN st'.active <=> r \in DOMAIN st.active
             /\ r \in st.withdrawn => r \in st'.withdrawn,
           OwnPhase', id \in Ids => Phase(id)'
    PROVE  Phases'
<1> SUFFICES ASSUME NEW r \in Ids, r # id PROVE Phase(r)' BY DEF Phases
<1>1. Phase(r) BY DEF Phases
<1> QED BY <1>1 DEF Phase, Unread, Waits, Serving, Answered, Withdrawn

\* The phases are kept by what leaves the requests alone.
LEMMA PhasesSame ==
    ASSUME Phases, scenario' = scenario, SameRequests
    PROVE  Phases'
<1>1. OwnPhase' BY DEF Phases, OwnPhase, SameRequests, draft
<1>2. 0 \notin Ids BY IdFacts
<1> QED BY <1>1, <1>2, PhasesChanged DEF SameRequests

\* A request is answered at once.
LEMMA PhasesAnswered ==
    ASSUME Phases, scenario' = scenario, NEW id \in Ids \ st.handled,
           NEW what \in {"ok", "error"}, Told(st, st', id, what),
           st'.handled = st.handled \cup {id}, draft <= 16 => st'.dormant = st.dormant,
           DOMAIN st'.pending = DOMAIN st.pending, DOMAIN st'.active = DOMAIN st.active,
           st.withdrawn \subseteq st'.withdrawn
    PROVE  Phases'
<1>1. id # 2 /\ st'.out[2] = st.out[2] BY IdFacts DEF Told
<1>2. OwnPhase' BY <1>1 DEF Phases, OwnPhase, draft
<1>3. st.out[id] = <<>> /\ id \notin DOMAIN st.pending /\ id \notin DOMAIN st.active BY UnreadFacts
<1>4. st'.out[id] = <<what>> BY <1>3 DEF Told
<1>5. Phase(id)' BY <1>3, <1>4 DEF Phase, Answered, Waits, Serving
<1>6. \A r \in Ids \ {id} : st'.out[r] = st.out[r] BY DEF Told
<1> QED BY <1>2, <1>5, <1>6, PhasesChanged

\* A step that leaves the discovery requests and our ids alone.
LEMMA DiscoverySame ==
    ASSUME Discovery, scenario' = scenario, SameDiscovery
    PROVE  Discovery'
<1>1. DiscoveryKept' BY DEF Discovery, DiscoveryKept, SameDiscovery, draft
<1>2. NoPrefixOverlap' BY DEF Discovery, NoPrefixOverlap, SameDiscovery, draft
<1>3. OwnIssued' BY DEF Discovery, OwnIssued, SameDiscovery
<1> QED BY <1>1, <1>2, <1>3 DEF Discovery

(* ---- messages that are taken ---- *)

\* What is read from a stream the peer opened.
LEMMA StreamTaken ==
    ASSUME NetTypes, StTypes, FreshIds, net.streams # <<>>, scenario' = scenario,
           net' = [net EXCEPT !.streams = Tail(@)], st'.buffer = st.buffer,
           \/ st'.handled = st.handled
           \/ /\ IsRequest(Head(net.streams))
              /\ st'.handled = st.handled \cup {Head(net.streams).id}
    PROVE  NetTypes' /\ FreshIds'
<1>1. /\ net'.streams = Tail(net.streams) /\ net'.inbox = net.inbox /\ net'.next = net.next
      /\ net'.requestIn = net.requestIn /\ net'.asked = net.asked
      /\ DOMAIN net' = DOMAIN net /\ net' = [f \in DOMAIN net |-> net'[f]]
  BY DEF NetTypes
<1>2. NetTypes' BY <1>1, TailFacts DEF NetTypes
<1>3. \A l \in Lines \ {0} : Line(l)' = Line(l) BY <1>1 DEF Line, Lines
<1>4. 0 \in Lines /\ Line(0) = net.streams /\ Line(0)' = Tail(net.streams) BY <1>1 DEF Line, Lines
<1> QED BY <1>1, <1>2, <1>3, <1>4, LineShrinks

\* What is read from the stream of a request.
LEMMA UpdateTaken ==
    ASSUME NetTypes, StTypes, FreshIds, NEW r \in Ids, net.requestIn[r] # <<>>,
           scenario' = scenario, net' = Take(r), st'.buffer = st.buffer,
           \/ st'.handled = st.handled
           \/ /\ IsRequest(Head(net.requestIn[r]))
              /\ st'.handled = st.handled \cup {Head(net.requestIn[r]).id}
    PROVE  NetTypes' /\ FreshIds'
<1>1. /\ net'.requestIn = [net.requestIn EXCEPT ![r] = Tail(@)] /\ net'.inbox = net.inbox
      /\ net'.streams = net.streams /\ net'.asked = net.asked /\ net'.next = net.next
      /\ DOMAIN net' = DOMAIN net /\ net' = [f \in DOMAIN net |-> net'[f]]
  BY DEF NetTypes, Take
<1>2. net.requestIn[r] \in Seq(Messages) /\ net.requestIn \in [Ids -> Seq(Messages)] BY DEF NetTypes
<1>3. Tail(net.requestIn[r]) \in Seq(Messages) BY <1>2, TailFacts
<1>4. net'.requestIn \in [Ids -> Seq(Messages)] BY <1>1, <1>2, <1>3
<1>5. NetTypes' BY <1>1, <1>4 DEF NetTypes
<1>6. r # 0 /\ r # 2 BY IdFacts
<1>7. r \in Lines /\ Line(r) = net.requestIn[r] /\ Line(r)' = Tail(net.requestIn[r])
  BY <1>1, <1>2, <1>6 DEF Line, Lines
<1>8. \A l \in Lines \ {r} : Line(l)' = Line(l) BY <1>1, <1>2 DEF Line, Lines
<1> QED BY <1>1, <1>5, <1>7, <1>8, LineShrinks

\* The head of two sequences in a row is that of the first, if it is not empty.
LEMMA TailConcat ==
    ASSUME NEW S, NEW a \in Seq(S), NEW b \in Seq(S), a # <<>>
    PROVE  a \o b # <<>> /\ Head(a \o b) = Head(a) /\ Tail(a \o b) = Tail(a) \o b
<1> DEFINE c == a \o b
           d == Tail(a) \o b
<1>1. /\ Len(a) \in Nat \ {0} /\ Len(b) \in Nat /\ Len(c) = Len(a) + Len(b) /\ c \in Seq(S)
      /\ \A i \in 1..Len(c) : c[i] = IF i <= Len(a) THEN a[i] ELSE b[i - Len(a)]
  BY TailFacts, ConcatProperties
<1>2. /\ Tail(a) \in Seq(S) /\ Len(Tail(a)) = Len(a) - 1 /\ Head(a) = a[1]
      /\ \A i \in 1..(Len(a) - 1) : Tail(a)[i] = a[i+1]
  BY TailFacts
<1>3. /\ d \in Seq(S) /\ Len(d) = Len(a) - 1 + Len(b)
      /\ \A i \in 1..Len(d) : d[i] = IF i <= Len(a) - 1 THEN Tail(a)[i] ELSE b[i - (Len(a) - 1)]
  BY <1>2, ConcatProperties
<1>4. c # <<>> BY <1>1
<1>5. /\ Head(c) = c[1] /\ Tail(c) \in Seq(S) /\ Len(Tail(c)) = Len(c) - 1
      /\ \A i \in 1..(Len(c) - 1) : Tail(c)[i] = c[i+1]
  BY <1>1, <1>4, TailFacts
<1> HIDE DEF c, d
<1>6. Head(c) = Head(a) BY <1>1, <1>2, <1>5
<1>7. ASSUME NEW i \in 1..Len(d) PROVE Tail(c)[i] = d[i]
  <2>1. i + 1 \in 1..Len(c) /\ i \in 1..(Len(c) - 1) /\ Tail(c)[i] = c[i+1] BY <1>1, <1>3, <1>5
  <2>2. CASE i <= Len(a) - 1 BY <1>1, <1>2, <1>3, <2>1, <2>2
  <2>3. CASE ~(i <= Len(a) - 1)
    <3>1. i + 1 - Len(a) = i - (Len(a) - 1) /\ ~(i + 1 <= Len(a)) BY <1>1, <1>3, <2>3
    <3>2. c[i+1] = b[i + 1 - Len(a)] /\ d[i] = b[i - (Len(a) - 1)] BY <1>1, <1>3, <2>1, <2>3, <3>1
    <3> QED BY <2>1, <3>1, <3>2
  <2> QED BY <2>2, <2>3
<1>8. Tail(c) = d BY <1>1, <1>3, <1>5, <1>7, SeqEqual
<1> QED BY <1>4, <1>6, <1>8 DEF c, d

\* What is read from the control stream.
LEMMA ControlTaken ==
    ASSUME NetTypes, StTypes, FreshIds, st.buffer # <<>>, scenario' = scenario,
           net' = net, st'.buffer = Tail(st.buffer),
           \/ st'.handled = st.handled
           \/ /\ IsRequest(Head(st.buffer))
              /\ st'.handled = st.handled \cup {Head(st.buffer).id}
    PROVE  NetTypes' /\ FreshIds'
<1>1. NetTypes' BY DEF NetTypes
<1>2. st.buffer \in Seq(Messages) /\ net.inbox \in Seq(Messages) BY DEF NetTypes, StTypes, IsState
<1>3. /\ st.buffer \o net.inbox # <<>> /\ Head(st.buffer \o net.inbox) = Head(st.buffer)
      /\ Tail(st.buffer \o net.inbox) = Tail(st.buffer) \o net.inbox
  <2> DEFINE a == st.buffer
             b == net.inbox
  <2>1. a \in Seq(Messages) /\ b \in Seq(Messages) /\ a # <<>> BY <1>2
  <2> HIDE DEF a, b
  <2>2. a \o b # <<>> /\ Head(a \o b) = Head(a) /\ Tail(a \o b) = Tail(a) \o b BY <2>1, TailConcat
  <2> QED BY <2>2 DEF a, b
<1>4. 2 \in Lines /\ Line(2) = st.buffer \o net.inbox /\ Line(2)' = Tail(st.buffer) \o net.inbox
  BY DEF Line, Lines
<1>5. \A l \in Lines \ {2} : Line(l)' = Line(l) BY DEF Line, Lines
<1> QED BY <1>1, <1>3, <1>4, <1>5, LineShrinks

\* Nothing is read, or what arrived is read ahead.
LEMMA NothingTaken ==
    ASSUME NetTypes, StTypes, FreshIds, scenario' = scenario, st'.handled = st.handled,
           \/ net' = net /\ st'.buffer = st.buffer
           \/ net' = [net EXCEPT !.inbox = <<>>] /\ st'.buffer = st.buffer \o net.inbox
    PROVE  NetTypes' /\ FreshIds'
<1>1. CASE net' = net /\ st'.buffer = st.buffer
  <2>1. NetTypes' BY <1>1 DEF NetTypes
  <2>2. \A l \in Lines : Line(l)' = Line(l) BY <1>1 DEF Line
  <2> QED BY <1>1, <2>1, <2>2, LinesSame
<1>2. CASE net' = [net EXCEPT !.inbox = <<>>] /\ st'.buffer = st.buffer \o net.inbox
  <2>1. /\ net'.inbox = <<>> /\ net'.streams = net.streams /\ net'.next = net.next
        /\ net'.requestIn = net.requestIn /\ net'.asked = net.asked
        /\ DOMAIN net' = DOMAIN net /\ net' = [f \in DOMAIN net |-> net'[f]]
    BY <1>2 DEF NetTypes
  <2>2. NetTypes' BY <2>1 DEF NetTypes
  <2>3. st.buffer \in Seq(Messages) /\ net.inbox \in Seq(Messages) BY DEF NetTypes, StTypes, IsState
  <2>4. (st.buffer \o net.inbox) \o <<>> = st.buffer \o net.inbox BY <2>3
  <2>5. \A l \in Lines : Line(l)' = Line(l) BY <1>2, <2>1, <2>4 DEF Line
  <2> QED BY <2>1, <2>2, <2>5, LinesSame
<1> QED BY <1>1, <1>2

(* ---- accepted and refused ---- *)

\* A request is counted and answered.
LEMMA AnsweredState ==
    ASSUME StTypes, NEW id, NEW what
    PROVE  /\ IsState(Answer(Counted(st, id), id, what))
           /\ Agree(st, Answer(Counted(st, id), id, what), {"out", "expected", "seen"})
           /\ Told(st, Answer(Counted(st, id), id, what), id, what)
<1> DEFINE c == Counted(st, id)
           a == Answer(c, id, what)
<1>1. IsState(c) /\ Agree(st, c, {"expected", "seen"}) BY CountedState DEF StTypes
<1> HIDE DEF c
<1>2. IsState(a) /\ Agree(c, a, {"out"}) /\ Told(c, a, id, what) BY <1>1, AnswerState
<1> HIDE DEF a
<1>3. Agree(st, a, {"out", "expected", "seen"}) BY <1>1, <1>2 DEF Agree
<1>4. c.out = st.out BY <1>1 DEF Agree, Fields
<1>5. Told(st, a, id, what) BY <1>2, <1>4 DEF Told
<1> QED BY <1>2, <1>3, <1>5 DEF a, c

\* A fresh request that is subscribed: it is served, or over at once.
LEMMA PhasesSubscribed ==
    ASSUME Phases, scenario' = scenario, NEW id \in Ids \ st.handled, NEW s,
           Told(st, s, id, "ok"), st'.handled = st.handled \cup {id},
           st'.dormant = st.dormant, DOMAIN st'.pending = DOMAIN st.pending,
           st.withdrawn \subseteq st'.withdrawn,
           \/ st'.out = s.out /\ DOMAIN st'.active = DOMAIN st.active \cup {id}
           \/ Told(s, st', id, "done") /\ DOMAIN st'.active = DOMAIN st.active
    PROVE  Phases'
<1>1. id # 2 /\ \A r \in (Ids \cup {2}) \ {id} : st'.out[r] = st.out[r] BY IdFacts DEF Told
<1>2. OwnPhase' BY <1>1 DEF Phases, OwnPhase, draft
<1>3. st.out[id] = <<>> /\ id \notin DOMAIN st.pending /\ id \notin DOMAIN st.active BY UnreadFacts
<1>4. s.out[id] = <<"ok">> BY <1>3 DEF Told
<1>5. Phase(id)'
  <2>1. CASE st'.out = s.out /\ DOMAIN st'.active = DOMAIN st.active \cup {id}
    BY <1>3, <1>4, <2>1 DEF Phase, Serving, Waits
  <2>2. CASE Told(s, st', id, "done") /\ DOMAIN st'.active = DOMAIN st.active
    <3>1. st'.out[id] = <<"ok", "done">> BY <1>4, <2>2 DEF Told
    <3> QED BY <1>3, <2>2, <3>1 DEF Phase, Serving, Waits, Answered
  <2> QED BY <2>1, <2>2
<1> QED BY <1>1, <1>2, <1>5, PhasesChanged

\* A request read from a stream the peer opened, if its effect on the phases
\* and on discovery is sound.
LEMMA AcceptsStep ==
    ASSUME RequestInv, NEW kind \in {"subscribe", "namespace", "tracks", "fetch", "status"},
           NEW next, Accepts(kind, next), IsState(next), next.buffer = st.buffer,
           next.handled = st.handled,
           /\ Head(net.streams).id \in Ids \ st.handled /\ scenario' = scenario
           /\ IsState(st') /\ Agree(next, st', {"handled"})
           /\ st'.handled = st.handled \cup {Head(net.streams).id}
           => Phases' /\ Discovery'
    PROVE  RequestInv'
<1> DEFINE m == Head(net.streams)
<1>1. /\ net.streams # <<>> /\ m.kind = kind /\ scenario' = scenario
      /\ net' = [net EXCEPT !.streams = Tail(@)]
      /\ st' = IF ValidId(m.id) THEN [next EXCEPT !.handled = @ \cup {m.id}]
               ELSE Ends(st, "invalid request id")
  BY DEF Accepts
<1>2. IsRequest(m) /\ m.id \in Ids \ st.handled
  <2>1. Line(0) = net.streams /\ 0 \in Lines /\ IsRequest(m) BY <1>1 DEF Line, Lines, IsRequest
  <2> QED BY <1>1, <2>1, HeadFresh DEF RequestInv
<1> HIDE DEF m
<1>3. CASE ValidId(m.id)
  <2>1. IsState(st') /\ Agree(next, st', {"handled"}) /\ st'.handled = st.handled \cup {m.id}
    BY <1>1, <1>2, <1>3 DEF IsState, Agree, Fields
  <2>2. Phases' /\ Discovery' BY <1>1, <1>2, <2>1 DEF m
  <2>3. st'.buffer = st.buffer BY <2>1 DEF Agree, Fields
  <2>4. NetTypes' /\ FreshIds' BY <1>1, <1>2, <2>1, <2>3, StreamTaken DEF RequestInv, m
  <2> QED BY <1>1, <2>1, <2>2, <2>4 DEF RequestInv, StTypes
<1>4. CASE ~ValidId(m.id)
  <2>1. IsState(st') /\ Agree(st, st', {"result", "pc"}) BY <1>1, <1>4, EndsState DEF RequestInv, StTypes
  <2>2. /\ SameRequests /\ SameDiscovery /\ st'.buffer = st.buffer
    BY <2>1 DEF Agree, Fields, SameRequests, SameDiscovery
  <2>3. NetTypes' /\ FreshIds' BY <1>1, <2>2, StreamTaken DEF RequestInv, SameRequests, m
  <2> QED BY <1>1, <2>1, <2>2, <2>3, PhasesSame, DiscoverySame DEF RequestInv, StTypes
<1> QED BY <1>3, <1>4

\* SUBSCRIBE on a stream of its own keeps the invariant.
LEMMA AcceptSubscribeStep ==
    ASSUME RequestInv, AcceptSubscribe
    PROVE  RequestInv'
<1> DEFINE m == Head(net.streams)
           next == Subscribed(m)
           a == Answer(Counted(st, m.id), m.id, "ok")
<1>1. Accepts("subscribe", next) BY DEF AcceptSubscribe
<1>2. StTypes /\ Phases /\ Discovery BY DEF RequestInv
<1>3. CASE m.arg \notin Tracks \/ (draft = 18 /\ m.arg \in st.established)
  <2>1. next = Answer(Counted(st, m.id), m.id, "error") BY <1>3 DEF Subscribed, Refused
  <2> HIDE DEF next, m
  <2>2. /\ IsState(next) /\ Agree(st, next, {"out", "expected", "seen"})
        /\ Told(st, next, m.id, "error")
    BY <1>2, <2>1, AnsweredState
  <2>3. next.buffer = st.buffer /\ next.handled = st.handled BY <2>2 DEF Agree, Fields
  <2>4. ASSUME m.id \in Ids \ st.handled, scenario' = scenario,
               IsState(st'), Agree(next, st', {"handled"}), st'.handled = st.handled \cup {m.id}
        PROVE  Phases' /\ Discovery'
    <3>1. /\ st'.pending = st.pending /\ st'.active = st.active /\ st'.dormant = st.dormant
          /\ st'.withdrawn = st.withdrawn /\ st'.out = next.out /\ SameDiscovery
      BY <2>2, <2>4 DEF Agree, Fields, SameDiscovery
    <3>2. Told(st, st', m.id, "error") BY <2>2, <3>1 DEF Told
    <3> QED BY <1>2, <2>4, <3>1, <3>2, PhasesAnswered, DiscoverySame
  <2> QED BY <1>1, <2>2, <2>3, <2>4, AcceptsStep DEF m
<1>4. CASE ~(m.arg \notin Tracks \/ (draft = 18 /\ m.arg \in st.established))
  <2> DEFINE b == [a EXCEPT !.established = @ \cup {m.arg}, !.joinable = Put(@, m.id, m.arg)]
  <2>1. next = Established(b, m.id, Subscription(m)) BY <1>4 DEF Subscribed
  <2>2. /\ IsState(a) /\ Agree(st, a, {"out", "expected", "seen"})
        /\ Told(st, a, m.id, "ok")
    BY <1>2, AnsweredState
  <2> HIDE DEF next, m, a
  <2>3. IsState(b) /\ Agree(a, b, {"established", "joinable"}) BY <2>2 DEF IsState, Agree, Fields
  <2>4. Told(st, b, m.id, "ok") BY <2>2, <2>3 DEF Told, Agree, Fields
  <2> HIDE DEF b
  <2>5. /\ IsState(next) /\ Agree(b, next, {"active", "out", "completed"})
        /\ \/ next.out = b.out /\ next.active = Put(b.active, m.id, Subscription(m))
           \/ next.active = b.active /\ Told(b, next, m.id, "done")
    BY <2>1, <2>3, EstablishedState
  <2>6. next.buffer = st.buffer /\ next.handled = st.handled /\ b.active = st.active
    BY <2>2, <2>3, <2>5 DEF Agree, Fields
  <2>7. ASSUME m.id \in Ids \ st.handled, scenario' = scenario,
               IsState(st'), Agree(next, st', {"handled"}), st'.handled = st.handled \cup {m.id}
        PROVE  Phases' /\ Discovery'
    <3>1. /\ st'.pending = st.pending /\ st'.active = next.active /\ st'.dormant = st.dormant
          /\ st'.withdrawn = st.withdrawn /\ st'.out = next.out /\ SameDiscovery
      BY <2>2, <2>3, <2>5, <2>7 DEF Agree, Fields, SameDiscovery
    <3>2. \/ st'.out = b.out /\ DOMAIN st'.active = DOMAIN st.active \cup {m.id}
          \/ Told(b, st', m.id, "done") /\ DOMAIN st'.active = DOMAIN st.active
      BY <2>5, <2>6, <3>1 DEF Told, Put
    <3> QED BY <1>2, <2>4, <2>7, <3>1, <3>2, PhasesSubscribed, DiscoverySame
  <2> QED BY <1>1, <2>5, <2>6, <2>7, AcceptsStep DEF m
<1> QED BY <1>3, <1>4

\* A request that is answered at once and not kept.
LEMMA AnsweredOnce ==
    ASSUME RequestInv, NEW kind \in {"subscribe", "namespace", "tracks", "fetch", "status"},
           NEW next, Accepts(kind, next), IsState(next), NEW what \in {"ok", "error"},
           Agree(st, next, {"out", "expected", "seen", "result", "pc"}),
           Told(st, next, Head(net.streams).id, what)
    PROVE  RequestInv'
<1> DEFINE m == Head(net.streams)
<1>1. next.buffer = st.buffer /\ next.handled = st.handled BY DEF Agree, Fields
<1>2. Told(st, next, m.id, what) OBVIOUS
<1> HIDE DEF m
<1>3. ASSUME m.id \in Ids \ st.handled, scenario' = scenario,
             IsState(st'), Agree(next, st', {"handled"}), st'.handled = st.handled \cup {m.id}
      PROVE  Phases' /\ Discovery'
  <2>1. /\ st'.pending = st.pending /\ st'.active = st.active /\ st'.dormant = st.dormant
        /\ st'.withdrawn = st.withdrawn /\ st'.out = next.out /\ SameDiscovery
    BY <1>3 DEF Agree, Fields, SameDiscovery
  <2>2. Told(st, st', m.id, what) BY <1>2, <2>1 DEF Told
  <2> QED BY <1>3, <2>1, <2>2, PhasesAnswered, DiscoverySame DEF RequestInv
<1> QED BY <1>1, <1>3, AcceptsStep DEF m

\* A request that is answered, and changes nothing else, keeps the invariant.
LEMMA RefusedOnce ==
    ASSUME RequestInv, NEW kind \in {"subscribe", "namespace", "tracks", "fetch", "status"},
           NEW what \in {"ok", "error"}, NEW id, id = Head(net.streams).id,
           Accepts(kind, Answer(Counted(st, id), id, what))
    PROVE  RequestInv'
<1> DEFINE next == Answer(Counted(st, id), id, what)
<1>1. StTypes BY DEF RequestInv
<1>2. /\ IsState(next) /\ Agree(st, next, {"out", "expected", "seen"})
      /\ Told(st, next, id, what)
  BY <1>1, AnsweredState
<1>3. Accepts(kind, next) OBVIOUS
<1> HIDE DEF next
<1>4. Agree(st, next, {"out", "expected", "seen", "result", "pc"}) BY <1>2 DEF Agree
<1>5. Told(st, next, Head(net.streams).id, what) BY <1>2
<1> QED BY <1>2, <1>3, <1>4, <1>5, AnsweredOnce

\* FETCH keeps the invariant.
LEMMA AcceptFetchStep ==
    ASSUME RequestInv, AcceptFetch
    PROVE  RequestInv'
<1> DEFINE m == Head(net.streams)
           served == draft = 18 /\ m.arg \in DOMAIN st.joinable /\ st.joinable[m.arg] = "catalog"
                     /\ Objects["catalog"] > 0
           what == IF served THEN "ok" ELSE "error"
<1>1. Accepts("fetch", Answer(Counted(st, m.id), m.id, what)) BY DEF AcceptFetch
<1>2. what \in {"ok", "error"} /\ m.id = Head(net.streams).id OBVIOUS
<1> HIDE DEF what, m
<1> QED BY <1>1, <1>2, RefusedOnce

\* TRACK_STATUS keeps the invariant.
LEMMA AcceptStatusStep ==
    ASSUME RequestInv, AcceptStatus
    PROVE  RequestInv'
<1> DEFINE m == Head(net.streams)
           what == IF m.arg \in Tracks THEN "ok" ELSE "error"
<1>1. Accepts("status", Answer(Counted(st, m.id), m.id, what)) BY DEF AcceptStatus
<1>2. what \in {"ok", "error"} /\ m.id = Head(net.streams).id OBVIOUS
<1> HIDE DEF what, m
<1> QED BY <1>1, <1>2, RefusedOnce

\* A discovery request is kept.
LEMMA DiscoveryAdded ==
    ASSUME Discovery, scenario' = scenario, st.handled \subseteq Ids,
           NEW id \in Ids \ st.handled, NEW kind, NEW p, NEW f,
           st'.handled = st.handled \cup {id},
           st'.discovery = Put(st.discovery, id, Retained(kind, p, f)),
           draft = 22 \/ (draft = 23 /\ kind = "tracks") =>
             \A r \in DOMAIN st.discovery :
               st.discovery[r].kind = kind /\ st.discovery[r].active
               => ~Overlap(p, st.discovery[r].prefix),
           \A r \in Ids \ {id} : st'.published[r] = st.published[r],
           st.published[id] \in Nat,
           \/ st'.published[id] = st.published[id]
           \/ f # 0 /\ st'.published[id] = st.published[id] + 1,
           OwnIssued'
    PROVE  Discovery'
<1> DEFINE d == Retained(kind, p, f)
<1>1. /\ DOMAIN d = {"kind", "prefix", "forward", "active", "published"}
      /\ d = [x \in DOMAIN d |-> d[x]] /\ d.kind = kind /\ d.prefix = p /\ d.active = TRUE
      /\ f # 0 => d.published
      /\ d.published \in BOOLEAN
  BY DEF Retained
<1>2. /\ DOMAIN st'.discovery = DOMAIN st.discovery \cup {id}
      /\ st'.discovery[id] = d
      /\ \A x \in DOMAIN st.discovery \ {id} : st'.discovery[x] = st.discovery[x]
  BY DEF Put
<1> HIDE DEF d
<1>3. id \notin DOMAIN st.discovery /\ DOMAIN st.discovery \subseteq Ids BY DEF Discovery, DiscoveryKept
<1>4. \A r \in DOMAIN st.discovery :
        /\ r \in st.handled
        /\ DOMAIN st.discovery[r] = {"kind", "prefix", "forward", "active", "published"}
        /\ st.discovery[r] = [x \in DOMAIN st.discovery[r] |-> st.discovery[r][x]]
        /\ st.discovery[r].active \in BOOLEAN /\ st.discovery[r].published \in BOOLEAN
  BY DEF Discovery, DiscoveryKept
<1>5. ASSUME NEW r \in DOMAIN st'.discovery
      PROVE  /\ r \in st'.handled
             /\ DOMAIN st'.discovery[r] = {"kind", "prefix", "forward", "active", "published"}
             /\ st'.discovery[r] = [x \in DOMAIN st'.discovery[r] |-> st'.discovery[r][x]]
             /\ st'.discovery[r].active \in BOOLEAN /\ st'.discovery[r].published \in BOOLEAN
  <2>1. CASE r = id BY <1>1, <1>2, <2>1
  <2>2. CASE r # id BY <1>2, <1>4, <2>2
  <2> QED BY <2>1, <2>2
<1>6. ASSUME draft >= 23, NEW r \in Ids
      PROVE  /\ r \notin DOMAIN st'.discovery => st'.published[r] = 0
             /\ r \in DOMAIN st'.discovery =>
                  st'.published[r] <= IF st'.discovery[r].published THEN 1 ELSE 0
  <2>1. /\ r \notin DOMAIN st.discovery => st.published[r] = 0
        /\ r \in DOMAIN st.discovery =>
             st.published[r] <= IF st.discovery[r].published THEN 1 ELSE 0
    BY <1>6 DEF Discovery, DiscoveryKept
  <2>2. CASE r = id
    <3>1. st.published[id] = 0 BY <1>3, <2>1, <2>2
    <3>2. CASE f # 0 BY <1>1, <1>2, <2>2, <3>1, <3>2
    <3>3. CASE f = 0 BY <1>1, <1>2, <2>2, <3>1, <3>3
    <3> QED BY <3>2, <3>3
  <2>3. CASE r # id BY <1>2, <2>1, <2>3
  <2> QED BY <2>2, <2>3
<1>7. DiscoveryKept' BY <1>5, <1>6 DEF DiscoveryKept, draft
<1>8. ASSUME NEW q \in DOMAIN st'.discovery, NEW r \in DOMAIN st'.discovery, q # r,
             st'.discovery[q].active, st'.discovery[r].active,
             st'.discovery[q].kind = st'.discovery[r].kind,
             draft = 22 \/ (draft = 23 /\ st'.discovery[q].kind = "tracks")
      PROVE  ~Overlap(st'.discovery[q].prefix, st'.discovery[r].prefix)
  <2>1. CASE q = id BY <1>1, <1>2, <1>8, <2>1
  <2>2. CASE r = id
    <3>1. ~Overlap(p, st.discovery[q].prefix) BY <1>1, <1>2, <1>8, <2>2
    <3> QED BY <1>1, <1>2, <1>8, <2>2, <3>1 DEF Overlap
  <2>3. CASE q # id /\ r # id BY <1>2, <1>8, <2>3 DEF Discovery, NoPrefixOverlap
  <2> QED BY <2>1, <2>2, <2>3
<1>9. NoPrefixOverlap' BY <1>8 DEF NoPrefixOverlap, draft
<1> QED BY <1>7, <1>9 DEF Discovery

\* SUBSCRIBE_NAMESPACE on a stream of its own keeps the invariant.
LEMMA NamespaceStep ==
    ASSUME RequestInv, net.streams # <<>>,
           Accepts("namespace", NamespaceAccepted(Head(net.streams)))
    PROVE  RequestInv'
<1> DEFINE m == Head(net.streams)
           next == NamespaceAccepted(m)
           a == Answer(Counted(st, m.id), m.id, "ok")
<1>1. Accepts("namespace", next) OBVIOUS
<1>2. StTypes /\ Phases /\ Discovery BY DEF RequestInv
<1>3. CASE NamespaceOverlaps(m.arg) \/ ~PrefixMatches(m.arg)
  <2>1. next = Answer(Counted(st, m.id), m.id, "error") BY <1>3 DEF NamespaceAccepted, Refused
  <2> HIDE DEF next
  <2> QED BY <1>1, <2>1, RefusedOnce
<1>4. CASE ~(NamespaceOverlaps(m.arg) \/ ~PrefixMatches(m.arg))
  <2>1. next = [a EXCEPT !.prefixes = @ \cup {m.arg},
                         !.discovery = IF draft >= 18
                                       THEN Put(@, m.id, Retained("namespace", m.arg, 0)) ELSE @]
    BY <1>4 DEF NamespaceAccepted
  <2>2. /\ IsState(a) /\ Agree(st, a, {"out", "expected", "seen"})
        /\ Told(st, a, m.id, "ok")
    BY <1>2, AnsweredState
  <2> HIDE DEF a, next
  <2>3. /\ IsState(next) /\ Agree(a, next, {"prefixes", "discovery"})
        /\ next.discovery = IF draft >= 18
                            THEN Put(st.discovery, m.id, Retained("namespace", m.arg, 0))
                            ELSE st.discovery
    BY <2>1, <2>2 DEF IsState, Agree, Fields
  <2>4. /\ Agree(st, next, {"out", "expected", "seen", "prefixes", "discovery"})
        /\ Told(st, next, m.id, "ok") /\ next.buffer = st.buffer /\ next.handled = st.handled
    BY <2>2, <2>3 DEF Agree, Told, Fields
  <2>5. ~NamespaceOverlaps(m.arg) BY <1>4
  <2> HIDE DEF m
  <2>6. ASSUME m.id \in Ids \ st.handled, scenario' = scenario,
               IsState(st'), Agree(next, st', {"handled"}), st'.handled = st.handled \cup {m.id}
        PROVE  Phases' /\ Discovery'
    <3>1. /\ st'.pending = st.pending /\ st'.active = st.active /\ st'.dormant = st.dormant
          /\ st'.withdrawn = st.withdrawn /\ st'.out = next.out
          /\ st'.published = st.published /\ st'.own = st.own /\ st'.ownNext = st.ownNext
          /\ st'.discovery = next.discovery
      BY <2>4, <2>6 DEF Agree, Fields
    <3>2. Told(st, st', m.id, "ok") BY <2>4, <3>1 DEF Told
    <3>3. Phases' BY <1>2, <2>6, <3>1, <3>2, PhasesAnswered
    <3>4. CASE ~(draft >= 18)
      <4>1. SameDiscovery BY <2>3, <2>6, <3>1, <3>4 DEF SameDiscovery
      <4> QED BY <1>2, <2>6, <3>3, <4>1, DiscoverySame
    <3>5. CASE draft >= 18
      <4>1. st'.discovery = Put(st.discovery, m.id, Retained("namespace", m.arg, 0)) BY <2>3, <3>1, <3>5
      <4>2. OwnIssued' BY <1>2, <2>6, <3>1 DEF Discovery, OwnIssued
      <4>3. draft = 22 \/ (draft = 23 /\ "namespace" = "tracks") =>
               \A r \in DOMAIN st.discovery :
                 st.discovery[r].kind = "namespace" /\ st.discovery[r].active
                 => ~Overlap(m.arg, st.discovery[r].prefix)
        BY <2>5 DEF NamespaceOverlaps
      <4>4. st.handled \subseteq Ids /\ st.published[m.id] \in Nat BY <1>2, <2>6 DEF StTypes, IsState
      <4>5. st'.published[m.id] = st.published[m.id] BY <3>1
      <4>6. Discovery' BY <1>2, <2>6, <3>1, <4>1, <4>2, <4>3, <4>4, <4>5, DiscoveryAdded
      <4> QED BY <3>3, <4>6
    <3> QED BY <3>4, <3>5
  <2> QED BY <1>1, <2>3, <2>4, <2>6, AcceptsStep DEF m
<1> QED BY <1>3, <1>4

(* ---- PUBLISHes of our own ---- *)

\* One round of PUBLISHes takes one id for each track, two apart.
LEMMA OwnSequenceFacts ==
    ASSUME NEW n \in Nat
    PROVE  /\ Cardinality(Tracks) \in Nat /\ OwnSequence(n) \in Seq(Nat)
           /\ Len(OwnSequence(n)) = Cardinality(Tracks)
           /\ \A i \in 1..Cardinality(Tracks) : OwnSequence(n)[i] = n + 2 * (i - 1)
<1> DEFINE c == Cardinality(Tracks)
<1>1. c \in Nat BY RequestsAssumption, FS_CardinalityType
<1>2. OwnSequence(n) = [i \in 1..c |-> n + 2 * (i - 1)] BY DEF OwnSequence
<1> HIDE DEF c
<1>3. \A i \in 1..c : n + 2 * (i - 1) \in Nat BY <1>1
<1>4. OwnSequence(n) \in Seq(Nat) /\ Len(OwnSequence(n)) = c BY <1>1, <1>2, <1>3
<1> QED BY <1>1, <1>2, <1>4 DEF c

\* The ids of one more round of PUBLISHes are above all others.
LEMMA IssuedMore ==
    ASSUME NEW own \in Seq(Nat), NEW n \in Nat, Issued(own, n)
    PROVE  Issued(own \o OwnSequence(n), n + 2 * Cardinality(Tracks))
<1> DEFINE c == Cardinality(Tracks)
           q == OwnSequence(n)
           new == own \o q
<1>1. /\ c \in Nat /\ q \in Seq(Nat) /\ Len(q) = c
      /\ \A i \in 1..c : q[i] = n + 2 * (i - 1)
  BY OwnSequenceFacts
<1>2. new = own \o q OBVIOUS
<1> HIDE DEF c, q, new
<1>3. /\ Len(own \o q) = Len(own) + Len(q)
      /\ \A i \in 1..(Len(own) + Len(q)) :
           (own \o q)[i] = IF i <= Len(own) THEN own[i] ELSE q[i - Len(own)]
  BY <1>1, ConcatProperties, Zenon
<1>4. /\ Len(new) = Len(own) + c /\ Len(own) \in Nat
      /\ \A i \in 1..Len(new) : new[i] = IF i <= Len(own) THEN own[i] ELSE q[i - Len(own)]
  BY <1>1, <1>2, <1>3
<1>5. /\ \A i \in 1..Len(own) : own[i] < n /\ own[i] \in Nat
      /\ \A i, j \in 1..Len(own) : own[i] = own[j] => i = j
  BY DEF Issued
<1>6. ASSUME NEW i \in 1..Len(new)
      PROVE  \/ i \in 1..Len(own) /\ new[i] = own[i] /\ new[i] < n
             \/ i > Len(own) /\ new[i] = n + 2 * (i - Len(own) - 1)
                /\ n <= new[i] /\ new[i] < n + 2 * c
  <2>1. CASE i <= Len(own) BY <1>4, <1>5, <2>1
  <2>2. CASE i > Len(own)
    <3>1. i - Len(own) \in 1..c /\ new[i] = q[i - Len(own)] BY <1>1, <1>4, <2>2
    <3>2. q[i - Len(own)] = n + 2 * (i - Len(own) - 1) BY <1>1, <3>1
    <3> QED BY <1>1, <1>4, <2>2, <3>1, <3>2
  <2> QED BY <1>4, <2>1, <2>2
<1>7. ASSUME NEW i \in 1..Len(new) PROVE new[i] < n + 2 * c BY <1>1, <1>6, <1>5
<1>8. ASSUME NEW i \in 1..Len(new) PROVE n \in Int /\ new[i] \in Int BY <1>1, <1>4, <1>5, <1>6
<1>9. ASSUME NEW i \in 1..Len(new), NEW j \in 1..Len(new), new[i] = new[j] PROVE i = j
  <2>1. CASE i \in 1..Len(own) /\ new[i] = own[i] /\ new[i] < n
             /\ j \in 1..Len(own) /\ new[j] = own[j]
    BY <1>5, <1>9, <2>1
  <2>2. CASE /\ i > Len(own) /\ new[i] = n + 2 * (i - Len(own) - 1)
             /\ j > Len(own) /\ new[j] = n + 2 * (j - Len(own) - 1)
    <3>1. i \in Int /\ j \in Int /\ Len(own) \in Int BY <1>1, <1>4
    <3>2. n + 2 * (i - Len(own) - 1) = n + 2 * (j - Len(own) - 1) BY <1>9, <2>2
    <3> QED BY <3>1, <3>2
  <2>3. n \in Int /\ new[i] \in Int /\ new[j] \in Int BY <1>8
  <2>4. ~(new[i] < n /\ n <= new[j]) /\ ~(new[j] < n /\ n <= new[i]) BY <1>9, <2>3
  <2> QED BY <1>6, <2>1, <2>2, <2>4
<1> QED BY <1>7, <1>9 DEF c, q, new, Issued

\* One more round of PUBLISHes, for the request r.
IssuesFor(s, t, r) ==
  /\ t.own = s.own \o OwnSequence(s.ownNext) /\ t.ownNext = NextOwn(s)
  /\ t.published[r] = s.published[r] + 1
  /\ \A x \in Ids \ {r} : t.published[x] = s.published[x]

\* One more round of PUBLISHes keeps our ids apart.
LEMMA IssuedKept ==
    ASSUME StTypes, OwnIssued, scenario' = scenario, NEW r, IssuesFor(st, st', r)
    PROVE  OwnIssued'
<1> SUFFICES ASSUME scenario.entered # "downgraded" PROVE Issued(st'.own, st'.ownNext) BY DEF OwnIssued
<1>1. st.own \in Seq(Nat) /\ st.ownNext \in Nat /\ Issued(st.own, st.ownNext)
  BY DEF OwnIssued, StTypes, IsState
<1>2. Issued(st.own \o OwnSequence(st.ownNext), st.ownNext + 2 * Cardinality(Tracks)) BY <1>1, IssuedMore
<1> QED BY <1>2 DEF IssuesFor, NextOwn

\* Publishing for a request counts a round and extends our ids.
LEMMA PublishesState ==
    ASSUME NEW s, IsState(s), NEW r \in Ids, NEW forward
    PROVE  /\ IsState(Publishes(s, r, forward))
           /\ Agree(s, Publishes(s, r, forward), {"own", "published", "ownNext", "pc", "dormant"})
           /\ IssuesFor(s, Publishes(s, r, forward), r)
<1> DEFINE i == [s EXCEPT !.own = @ \o OwnSequence(s.ownNext), !.published[r] = @ + 1]
           k == [i EXCEPT !.ownNext = NextOwn(s)]
           p == Publishes(s, r, forward)
<1>1. /\ s = [f \in Fields |-> s[f]] /\ s.published \in [Ids -> Nat]
      /\ s.own \in Seq(Nat) /\ s.ownNext \in Nat
  BY DEF IsState
<1>2. Cardinality(Tracks) \in Nat /\ OwnSequence(s.ownNext) \in Seq(Nat) BY <1>1, OwnSequenceFacts
<1>3. s.own \o OwnSequence(s.ownNext) \in Seq(Nat) BY <1>1, <1>2
<1>4. /\ i = [f \in Fields |-> i[f]] /\ i.own = s.own \o OwnSequence(s.ownNext)
      /\ i.published = [s.published EXCEPT ![r] = @ + 1]
      /\ Agree(s, i, {"own", "published"})
  BY <1>1 DEF Agree, Fields
<1> HIDE DEF i
<1>5. /\ k = [f \in Fields |-> k[f]] /\ k.ownNext = NextOwn(s) /\ Agree(i, k, {"ownNext"})
  BY <1>4 DEF Agree, Fields
<1> HIDE DEF k
<1>6. p = [f \in Fields |-> p[f]] /\ Agree(k, p, {"pc", "dormant"})
  <2>1. p = IF scenario.looping THEN [k EXCEPT !.pc = "selected"]
            ELSE [k EXCEPT !.dormant = IF forward = 0 /\ scenario.entered = "catalog"
                                       THEN @ \cup OwnIds(s.ownNext) ELSE @]
    BY DEF Publishes, i, k
  <2> HIDE DEF p
  <2>2. CASE scenario.looping BY <1>5, <2>1, <2>2 DEF Agree, Fields
  <2>3. CASE ~scenario.looping BY <1>5, <2>1, <2>3 DEF Agree, Fields
  <2> QED BY <2>2, <2>3
<1> HIDE DEF p
<1>7. Agree(s, p, {"own", "published", "ownNext", "pc", "dormant"}) BY <1>4, <1>5, <1>6 DEF Agree
<1>8. /\ p.own = s.own \o OwnSequence(s.ownNext) /\ p.ownNext = NextOwn(s)
      /\ p.published = [s.published EXCEPT ![r] = @ + 1]
  BY <1>4, <1>5, <1>6 DEF Agree, Fields
<1>9. p.published \in [Ids -> Nat] /\ NextOwn(s) \in Nat
  <2>1. p.published \in [Ids -> Nat] BY <1>1, <1>8
  <2>2. s.ownNext + 2 * Cardinality(Tracks) \in Nat BY <1>1, <1>2
  <2> QED BY <2>1, <2>2 DEF NextOwn
<1>10. IssuesFor(s, p, r) BY <1>1, <1>8 DEF IssuesFor
<1>11. /\ p.buffer = s.buffer /\ p.handled = s.handled /\ p.out = s.out BY <1>7 DEF Agree, Fields
<1>12. IsState(p) BY <1>3, <1>6, <1>8, <1>9, <1>11 DEF IsState
<1> QED BY <1>7, <1>10, <1>12 DEF p

\* SUBSCRIBE_TRACKS keeps the invariant.
LEMMA AcceptTracksStep ==
    ASSUME RequestInv, AcceptTracks
    PROVE  RequestInv'
<1>1. PICK forward \in {0, 1} :
        net.streams # <<>> /\ Accepts("tracks", TracksAccepted(Head(net.streams), forward))
  BY DEF AcceptTracks
<1> DEFINE m == Head(net.streams)
           next == TracksAccepted(m, forward)
           a == Answer(Counted(st, m.id), m.id, "ok")
           e == Answer(Counted(st, m.id), m.id, "error")
           d == Retained("tracks", m.arg, m.forward)
           k == [a EXCEPT !.discovery = Put(@, m.id, d)]
<1>2. Accepts("tracks", next) BY <1>1
<1>3. StTypes /\ Phases /\ Discovery /\ NetTypes /\ FreshIds BY DEF RequestInv
<1>4. m.kind = "tracks" /\ m.id \in Ids \ st.handled /\ draft >= 18
  <2>1. m.kind = "tracks" BY <1>2 DEF Accepts
  <2>2. Line(0) = net.streams /\ 0 \in Lines /\ IsRequest(m) BY <2>1 DEF Line, Lines, IsRequest
  <2> QED BY <1>1, <1>3, <2>1, <2>2, HeadFresh
<1>5. /\ IsState(e) /\ Agree(st, e, {"out", "expected", "seen"}) /\ Told(st, e, m.id, "error")
      /\ IsState(a) /\ Agree(st, a, {"out", "expected", "seen"}) /\ Told(st, a, m.id, "ok")
  BY <1>3, AnsweredState
<1>6. CASE draft >= 22 /\ TracksOverlap(m.arg, 0)
  <2>1. next = e BY <1>6 DEF TracksAccepted, Refused
  <2> QED BY <1>2, <2>1, RefusedOnce
<1>7. CASE ~(draft >= 22 /\ TracksOverlap(m.arg, 0)) /\ ~PrefixMatches(m.arg)
  <2>1. next = Ends(e, "failure") BY <1>7 DEF TracksAccepted, Refused
  <2> HIDE DEF e, next
  <2>2. IsState(next) /\ Agree(e, next, {"result", "pc"}) BY <1>5, <2>1, EndsState
  <2>3. Agree(st, next, {"out", "expected", "seen", "result", "pc"}) BY <1>5, <2>2 DEF Agree
  <2>4. Told(st, next, Head(net.streams).id, "error") BY <1>5, <2>2 DEF Agree, Told, Fields
  <2> QED BY <1>2, <2>2, <2>3, <2>4, AnsweredOnce
<1>8. CASE ~(draft >= 22 /\ TracksOverlap(m.arg, 0)) /\ PrefixMatches(m.arg)
  <2>1. next = IF m.forward = 0 THEN k ELSE Publishes(k, m.id, forward) BY <1>8 DEF TracksAccepted
  <2> HIDE DEF a, d, next
  <2>2. /\ IsState(k) /\ Agree(a, k, {"discovery"})
        /\ k.discovery = Put(st.discovery, m.id, d)
    BY <1>5 DEF IsState, Agree, Fields
  <2> HIDE DEF k
  <2>3. /\ Agree(st, k, {"out", "expected", "seen", "discovery"}) /\ k.out = a.out
    BY <1>5, <2>2 DEF Agree, Fields
  <2>4. /\ IsState(next)
        /\ Agree(k, next, {"own", "published", "ownNext", "pc", "dormant"})
        /\ \/ /\ next.own = k.own /\ next.ownNext = k.ownNext /\ next.published = k.published
              /\ next.dormant = k.dormant
           \/ m.forward # 0 /\ IssuesFor(k, next, m.id)
    <3>1. CASE m.forward = 0 BY <2>1, <2>2, <3>1 DEF Agree
    <3>2. CASE m.forward # 0 BY <1>4, <2>1, <2>2, <3>2, PublishesState
    <3> QED BY <3>1, <3>2
  <2>5. /\ next.buffer = st.buffer /\ next.handled = st.handled /\ next.out = a.out
        /\ next.pending = st.pending /\ next.active = st.active
        /\ next.withdrawn = st.withdrawn /\ next.discovery = Put(st.discovery, m.id, d)
        /\ k.own = st.own /\ k.ownNext = st.ownNext /\ k.published = st.published
        /\ k.dormant = st.dormant
    BY <2>2, <2>3, <2>4 DEF Agree, Fields
  <2>6. draft = 22 \/ (draft = 23 /\ "tracks" = "tracks") =>
          \A r \in DOMAIN st.discovery :
            st.discovery[r].kind = "tracks" /\ st.discovery[r].active
            => ~Overlap(m.arg, st.discovery[r].prefix)
    <3>1. 0 \notin DOMAIN st.discovery BY <1>3, IdFacts DEF Discovery, DiscoveryKept, StTypes, IsState
    <3> QED BY <1>8, <3>1 DEF TracksOverlap
  <2> HIDE DEF m
  <2>7. ASSUME scenario' = scenario,
               IsState(st'), Agree(next, st', {"handled"}), st'.handled = st.handled \cup {m.id}
        PROVE  Phases' /\ Discovery'
    <3>1. /\ st'.pending = st.pending /\ st'.active = st.active /\ st'.dormant = next.dormant
          /\ st'.withdrawn = st.withdrawn /\ st'.out = a.out
          /\ st'.published = next.published /\ st'.own = next.own
          /\ st'.ownNext = next.ownNext /\ st'.discovery = Put(st.discovery, m.id, d)
      BY <2>5, <2>7 DEF Agree, Fields
    <3>2. Told(st, st', m.id, "ok") BY <1>5, <3>1 DEF Told
    <3>3. draft <= 16 => st'.dormant = st.dormant BY <1>3, <1>4, RequestsAssumption DEF RequestInv, draft
    <3>4. Phases' BY <1>3, <1>4, <2>7, <3>1, <3>2, <3>3, PhasesAnswered
    <3>5. /\ \/ /\ st'.own = st.own /\ st'.ownNext = st.ownNext
                /\ st'.published = st.published
             \/ m.forward # 0 /\ IssuesFor(st, st', m.id)
      BY <2>4, <2>5, <3>1 DEF IssuesFor, NextOwn
    <3>6. OwnIssued'
      <4>1. CASE st'.own = st.own /\ st'.ownNext = st.ownNext BY <1>3, <2>7, <4>1 DEF Discovery, OwnIssued
      <4>2. CASE IssuesFor(st, st', m.id) BY <1>3, <2>7, <4>2, IssuedKept DEF Discovery
      <4> QED BY <3>5, <4>1, <4>2
    <3>7. st.handled \subseteq Ids /\ st.published[m.id] \in Nat BY <1>3, <1>4 DEF StTypes, IsState
    <3>8. /\ \A r \in Ids \ {m.id} : st'.published[r] = st.published[r]
          /\ \/ st'.published[m.id] = st.published[m.id]
             \/ m.forward # 0 /\ st'.published[m.id] = st.published[m.id] + 1
      BY <3>5 DEF IssuesFor
    <3>9. st'.discovery = Put(st.discovery, m.id, Retained("tracks", m.arg, m.forward)) BY <3>1 DEF d
    <3>10. Discovery' BY <1>3, <1>4, <2>6, <2>7, <3>6, <3>7, <3>8, <3>9, DiscoveryAdded
    <3> QED BY <3>4, <3>10
  <2> QED BY <1>2, <2>4, <2>5, <2>7, AcceptsStep DEF m
<1> QED BY <1>6, <1>7, <1>8

(* ---- updates on request streams ---- *)

\* An update read from the stream of a request.
LEMMA UpdateStep ==
    ASSUME RequestInv, NEW r \in Ids, net.requestIn[r] # <<>>, scenario' = scenario,
           net' = Take(r), NEW next,
           st' = IF ValidId(Head(net.requestIn[r]).id) THEN next
                 ELSE Ends(st, "invalid request id"),
           IsState(next), next.buffer = st.buffer,
           next.handled = st.handled \cup {Head(net.requestIn[r]).id},
           st' = next => Phases' /\ Discovery'
    PROVE  RequestInv'
<1> DEFINE m == Head(net.requestIn[r])
<1>1. IsRequest(m)
  <2>1. r \in Lines /\ Line(r) = net.requestIn[r] BY IdFacts DEF Line, Lines
  <2> QED BY <2>1, HeadFresh DEF RequestInv
<1> HIDE DEF m
<1>2. CASE st' = next
  <2>1. NetTypes' /\ FreshIds' BY <1>1, <1>2, UpdateTaken DEF RequestInv, m
  <2> QED BY <1>2, <2>1 DEF RequestInv, StTypes
<1>3. CASE st' = Ends(st, "invalid request id")
  <2>1. IsState(st') /\ Agree(st, st', {"result", "pc"}) BY <1>3, EndsState DEF RequestInv, StTypes
  <2>2. /\ SameRequests /\ SameDiscovery /\ st'.buffer = st.buffer
    BY <2>1 DEF Agree, Fields, SameRequests, SameDiscovery
  <2>3. NetTypes' /\ FreshIds' BY <2>2, UpdateTaken DEF RequestInv, SameRequests
  <2> QED BY <2>1, <2>2, <2>3, PhasesSame, DiscoverySame DEF RequestInv, StTypes
<1> QED BY <1>2, <1>3

\* What an update of an active subscription changes.
LEMMA UpdateActiveState ==
    ASSUME StTypes, NEW m, m.id \in Ids
    PROVE  /\ IsState(UpdateActive(st, m))
           /\ Agree(st, UpdateActive(st, m), {"out", "expected", "seen", "active", "handled"})
           /\ DOMAIN UpdateActive(st, m).active = DOMAIN st.active
           /\ UpdateActive(st, m).handled = st.handled \cup {m.id}
           /\ Told(st, UpdateActive(st, m), m.id, "ok")
<1> DEFINE c == Counted(st, m.id)
           u == [c EXCEPT !.active[m.existing] = Applied(@, m), !.handled = @ \cup {m.id}]
<1>1. IsState(c) /\ Agree(st, c, {"expected", "seen"}) BY CountedState DEF StTypes
<1> HIDE DEF c
<1>2. /\ IsState(u) /\ Agree(c, u, {"active", "handled"})
      /\ DOMAIN u.active = DOMAIN c.active /\ u.handled = c.handled \cup {m.id}
  BY <1>1 DEF IsState, Agree, Fields
<1>3. UpdateActive(st, m) = Answer(u, m.id, "ok") BY DEF UpdateActive, c
<1> HIDE DEF u
<1>4. /\ IsState(UpdateActive(st, m)) /\ Agree(u, UpdateActive(st, m), {"out"})
      /\ Told(u, UpdateActive(st, m), m.id, "ok")
  BY <1>2, <1>3, AnswerState
<1>5. /\ c.active = st.active /\ c.handled = st.handled /\ u.out = c.out /\ c.out = st.out
      /\ UpdateActive(st, m).active = u.active /\ UpdateActive(st, m).handled = u.handled
  BY <1>1, <1>2, <1>4 DEF Agree, Fields
<1>6. Agree(st, UpdateActive(st, m), {"out", "expected", "seen", "active", "handled"})
  BY <1>1, <1>2, <1>4 DEF Agree
<1>7. Told(st, UpdateActive(st, m), m.id, "ok") BY <1>4, <1>5 DEF Told
<1> QED BY <1>2, <1>4, <1>5, <1>6, <1>7

\* An update of a SUBSCRIBE on its stream keeps the invariant.
LEMMA SubscribeUpdateStep ==
    ASSUME RequestInv, SubscribeUpdate
    PROVE  RequestInv'
<1>1. PICK r \in DOMAIN st.active \cap Ids :
        /\ net.requestIn[r] # <<>>
        /\ st' = IF ValidId(Head(net.requestIn[r]).id) THEN UpdateActive(st, Head(net.requestIn[r]))
                 ELSE Ends(st, "invalid request id")
        /\ net' = Take(r)
  BY DEF SubscribeUpdate
<1> DEFINE m == Head(net.requestIn[r])
           next == UpdateActive(st, m)
<1>2. scenario' = scenario BY DEF SubscribeUpdate
<1>3. m.id \in Ids \ st.handled
  <2>1. r \in Lines /\ Line(r) = net.requestIn[r] BY <1>1, IdFacts DEF Line, Lines
  <2> QED BY <1>1, <2>1, HeadFresh DEF RequestInv
<1> HIDE DEF m
<1>4. /\ IsState(next) /\ Agree(st, next, {"out", "expected", "seen", "active", "handled"})
      /\ DOMAIN next.active = DOMAIN st.active /\ next.handled = st.handled \cup {m.id}
      /\ Told(st, next, m.id, "ok")
  BY <1>3, UpdateActiveState DEF RequestInv
<1> HIDE DEF next
<1>5. next.buffer = st.buffer BY <1>4 DEF Agree, Fields
<1>6. ASSUME st' = next PROVE Phases' /\ Discovery'
  <2>1. /\ st'.pending = st.pending /\ st'.dormant = st.dormant /\ st'.withdrawn = st.withdrawn
        /\ SameDiscovery
    BY <1>4, <1>6 DEF Agree, Fields, SameDiscovery
  <2> QED BY <1>2, <1>3, <1>4, <1>6, <2>1, PhasesAnswered, DiscoverySame DEF RequestInv
<1>7. st' = IF ValidId(m.id) THEN next ELSE Ends(st, "invalid request id") BY <1>1 DEF m, next
<1> QED BY <1>1, <1>2, <1>4, <1>5, <1>6, <1>7, UpdateStep DEF m

\* Nothing happens to the requests; what arrived may be read ahead.
LEMMA QuietStep ==
    ASSUME RequestInv, scenario' = scenario, IsState(st'), SameRequests, SameDiscovery,
           \/ net' = net /\ st'.buffer = st.buffer
           \/ net' = [net EXCEPT !.inbox = <<>>] /\ st'.buffer = st.buffer \o net.inbox
    PROVE  RequestInv'
<1>1. NetTypes' /\ FreshIds' BY NothingTaken DEF RequestInv, SameRequests
<1> QED BY <1>1, PhasesSame, DiscoverySame DEF RequestInv, StTypes

\* A poll of the streams that finds no more keeps the invariant.
LEMMA PollDoneStep ==
    ASSUME RequestInv, PollDone
    PROVE  RequestInv'
<1>1. st' = [st EXCEPT !.pc = "control"] /\ scenario' = scenario /\ net' = net BY DEF PollDone
<1>2. IsState(st') /\ Agree(st, st', {"pc"}) BY <1>1 DEF RequestInv, StTypes, IsState, Agree, Fields
<1>3. SameRequests /\ SameDiscovery /\ st'.buffer = st.buffer
  BY <1>2 DEF Agree, Fields, SameRequests, SameDiscovery
<1> QED BY <1>1, <1>2, <1>3, QuietStep

\* A kept discovery request becomes d.
LEMMA DiscoveryChanged ==
    ASSUME Discovery, scenario' = scenario, st.handled \subseteq st'.handled,
           st.published \in [Ids -> Nat], NEW r \in DOMAIN st.discovery, NEW d,
           DOMAIN st'.discovery = DOMAIN st.discovery, st'.discovery[r] = d,
           \A q \in DOMAIN st.discovery \ {r} : st'.discovery[q] = st.discovery[q],
           DOMAIN d = {"kind", "prefix", "forward", "active", "published"},
           d = [f \in DOMAIN d |-> d[f]], d.kind = st.discovery[r].kind,
           d.active \in BOOLEAN, d.published \in BOOLEAN,
           st.discovery[r].published => d.published,
           d.active => \A q \in DOMAIN st.discovery \ {r} :
                         /\ draft = 22 \/ (draft = 23 /\ d.kind = "tracks")
                         /\ st.discovery[q].kind = d.kind /\ st.discovery[q].active
                         => ~Overlap(d.prefix, st.discovery[q].prefix),
           \A x \in Ids \ {r} : st'.published[x] = st.published[x],
           \/ st'.published[r] = st.published[r]
           \/ /\ draft >= 23 => ~st.discovery[r].published
              /\ d.published /\ st'.published[r] = st.published[r] + 1,
           OwnIssued'
    PROVE  Discovery'
<1>1. \A q \in DOMAIN st.discovery :
        /\ q \in st.handled
        /\ DOMAIN st.discovery[q] = {"kind", "prefix", "forward", "active", "published"}
        /\ st.discovery[q] = [x \in DOMAIN st.discovery[q] |-> st.discovery[q][x]]
        /\ st.discovery[q].active \in BOOLEAN /\ st.discovery[q].published \in BOOLEAN
  BY DEF Discovery, DiscoveryKept
<1>2. ASSUME NEW q \in DOMAIN st'.discovery
      PROVE  /\ q \in st'.handled
             /\ DOMAIN st'.discovery[q] = {"kind", "prefix", "forward", "active", "published"}
             /\ st'.discovery[q] = [x \in DOMAIN st'.discovery[q] |-> st'.discovery[q][x]]
             /\ st'.discovery[q].active \in BOOLEAN /\ st'.discovery[q].published \in BOOLEAN
  <2>1. CASE q = r BY <1>1, <2>1
  <2>2. CASE q # r BY <1>1, <1>2, <2>2
  <2> QED BY <2>1, <2>2
<1>3. ASSUME draft >= 23, NEW x \in Ids
      PROVE  /\ x \notin DOMAIN st'.discovery => st'.published[x] = 0
             /\ x \in DOMAIN st'.discovery =>
                  st'.published[x] <= IF st'.discovery[x].published THEN 1 ELSE 0
  <2>1. /\ x \notin DOMAIN st.discovery => st.published[x] = 0
        /\ x \in DOMAIN st.discovery =>
             st.published[x] <= IF st.discovery[x].published THEN 1 ELSE 0
    BY <1>3 DEF Discovery, DiscoveryKept
  <2>2. CASE x # r BY <2>1, <2>2
  <2>3. CASE x = r
    <3>1. st.published[r] \in Nat BY <1>3, <2>3
    <3>2. CASE ~d.published
      <4>1. st'.published[r] = st.published[r] /\ ~st.discovery[r].published BY <3>2
      <4> QED BY <2>1, <2>3, <3>1, <3>2, <4>1
    <3>3. CASE d.published
      <4>1. st'.published[r] <= 1
        <5>1. CASE st.discovery[r].published BY <1>3, <2>1, <2>3, <3>1, <5>1
        <5>2. CASE ~st.discovery[r].published BY <1>3, <2>1, <2>3, <3>1, <5>2
        <5> QED BY <5>1, <5>2
      <4> QED BY <2>3, <3>3, <4>1
    <3> QED BY <3>2, <3>3
  <2> QED BY <2>2, <2>3
<1>4. DiscoveryKept' BY <1>2, <1>3 DEF DiscoveryKept, draft
<1>5. ASSUME NEW p \in DOMAIN st'.discovery, NEW q \in DOMAIN st'.discovery, p # q,
             st'.discovery[p].active, st'.discovery[q].active,
             st'.discovery[p].kind = st'.discovery[q].kind,
             draft = 22 \/ (draft = 23 /\ st'.discovery[p].kind = "tracks")
      PROVE  ~Overlap(st'.discovery[p].prefix, st'.discovery[q].prefix)
  <2>1. CASE p = r BY <1>5, <2>1
  <2>2. CASE q = r
    <3>1. ~Overlap(d.prefix, st.discovery[p].prefix) BY <1>5, <2>2
    <3> QED BY <1>5, <2>2, <3>1 DEF Overlap
  <2>3. CASE p # r /\ q # r BY <1>5, <2>3 DEF Discovery, NoPrefixOverlap
  <2> QED BY <2>1, <2>2, <2>3
<1>6. NoPrefixOverlap' BY <1>5 DEF NoPrefixOverlap, draft
<1> QED BY <1>4, <1>6 DEF Discovery

\* An update of a discovery request keeps the invariant, also when it is refused.
LEMMA DiscoveryUpdateStep ==
    ASSUME RequestInv, DiscoveryUpdate
    PROVE  RequestInv'
<1>1. PICK r \in DOMAIN st.discovery, forward \in {0, 1} :
        /\ st.discovery[r].active /\ net.requestIn[r] # <<>>
        /\ st' = IF ValidId(Head(net.requestIn[r]).id)
                 THEN DiscoveryUpdated(r, Head(net.requestIn[r]), forward)
                 ELSE Ends(st, "invalid request id")
        /\ net' = Take(r)
  BY DEF DiscoveryUpdate
<1>2. scenario' = scenario /\ draft >= 22 BY DEF DiscoveryUpdate
<1>3. StTypes /\ Phases /\ Discovery /\ NetTypes /\ FreshIds BY DEF RequestInv
<1> DEFINE m == Head(net.requestIn[r])
           next == DiscoveryUpdated(r, m, forward)
           c == Counted(st, m.id)
           s == [c EXCEPT !.handled = @ \cup {m.id}]
           d == st.discovery[r]
           moved == [d EXCEPT !.prefix = m.arg, !.forward = m.forward,
                              !.published = @ \/ Resumes(d, m)]
           shut == [d EXCEPT !.active = FALSE]
           t == [s EXCEPT !.discovery[r] = moved]
           u == [s EXCEPT !.discovery[r].active = FALSE]
           ok == Answer(t, m.id, "ok")
<1>4. r \in Ids /\ m.id \in Ids \ st.handled
  <2>1. r \in Ids BY <1>3 DEF Discovery, DiscoveryKept, StTypes, IsState
  <2>2. r \in Lines /\ Line(r) = net.requestIn[r] BY <2>1, IdFacts DEF Line, Lines
  <2> QED BY <1>1, <1>3, <2>1, <2>2, HeadFresh
<1>5. next = IF UpdateOverlaps(r, m.arg) THEN Answer(u, m.id, "error")
             ELSE IF Resumes(d, m) THEN Publishes(ok, r, forward) ELSE ok
  BY DEF DiscoveryUpdated
<1>6. st' = IF ValidId(m.id) THEN next ELSE Ends(st, "invalid request id") BY <1>1
<1>7. /\ DOMAIN d = {"kind", "prefix", "forward", "active", "published"}
      /\ d = [f \in DOMAIN d |-> d[f]] /\ d.active \in BOOLEAN /\ d.published \in BOOLEAN
  BY <1>3 DEF Discovery, DiscoveryKept
<1>8. IsState(c) /\ Agree(st, c, {"expected", "seen"}) BY <1>3, CountedState DEF StTypes
<1> HIDE DEF c, next
<1>9. /\ IsState(s) /\ Agree(c, s, {"handled"}) /\ s.handled = st.handled \cup {m.id}
  BY <1>4, <1>8 DEF IsState, Agree, Fields
<1>10. s.discovery = st.discovery BY <1>8, <1>9 DEF Agree, Fields
<1> HIDE DEF s
<1>11. /\ IsState(t) /\ Agree(s, t, {"discovery"})
       /\ t.discovery = [st.discovery EXCEPT ![r] = moved]
  BY <1>9, <1>10 DEF IsState, Agree, Fields
<1>12. /\ IsState(u) /\ Agree(s, u, {"discovery"})
       /\ u.discovery = [st.discovery EXCEPT ![r] = shut]
  BY <1>1, <1>9, <1>10 DEF IsState, Agree, Fields
<1> HIDE DEF t, u
<1>13. /\ Agree(st, t, {"expected", "seen", "handled", "discovery"})
       /\ Agree(st, u, {"expected", "seen", "handled", "discovery"})
       /\ t.handled = st.handled \cup {m.id} /\ u.handled = st.handled \cup {m.id}
       /\ t.out = st.out /\ u.out = st.out
  BY <1>8, <1>9, <1>11, <1>12 DEF Agree, Fields
<1>14. /\ DOMAIN moved = DOMAIN d /\ moved = [f \in DOMAIN moved |-> moved[f]]
       /\ moved.kind = d.kind /\ moved.prefix = m.arg /\ moved.active = d.active
       /\ moved.published = (d.published \/ Resumes(d, m))
       /\ DOMAIN shut = DOMAIN d /\ shut = [f \in DOMAIN shut |-> shut[f]]
       /\ shut.kind = d.kind /\ shut.active = FALSE /\ shut.published = d.published
  BY <1>7
<1> HIDE DEF moved, shut
<1>15. CASE UpdateOverlaps(r, m.arg)
  <2>1. next = Answer(u, m.id, "error") BY <1>5, <1>15
  <2>2. /\ IsState(next) /\ Agree(u, next, {"out"}) /\ Told(u, next, m.id, "error")
    BY <1>12, <2>1, AnswerState
  <2>3. /\ next.buffer = st.buffer /\ next.handled = st.handled \cup {m.id}
        /\ next.pending = st.pending /\ next.active = st.active
        /\ next.withdrawn = st.withdrawn /\ next.dormant = st.dormant
        /\ next.published = st.published /\ next.own = st.own /\ next.ownNext = st.ownNext
        /\ next.discovery = [st.discovery EXCEPT ![r] = shut]
    BY <1>12, <1>13, <2>2 DEF Agree, Fields
  <2>4. Told(st, next, m.id, "error") BY <1>13, <2>2 DEF Told
  <2> HIDE DEF m
  <2>5. ASSUME st' = next PROVE Phases' /\ Discovery'
    <3>1. Phases' BY <1>2, <1>3, <1>4, <2>3, <2>4, <2>5, PhasesAnswered
    <3>2. OwnIssued' BY <1>2, <1>3, <2>3, <2>5 DEF Discovery, OwnIssued
    <3>3. st.published \in [Ids -> Nat] /\ st.handled \subseteq st'.handled
      BY <1>3, <2>3, <2>5 DEF StTypes, IsState
    <3>4. /\ DOMAIN st'.discovery = DOMAIN st.discovery /\ st'.discovery[r] = shut
          /\ \A q \in DOMAIN st.discovery \ {r} : st'.discovery[q] = st.discovery[q]
      BY <2>3, <2>5
    <3>5. /\ DOMAIN shut = {"kind", "prefix", "forward", "active", "published"}
          /\ shut = [f \in DOMAIN shut |-> shut[f]] /\ shut.kind = st.discovery[r].kind
          /\ shut.active \in BOOLEAN /\ shut.published \in BOOLEAN /\ ~shut.active
          /\ st.discovery[r].published => shut.published
      BY <1>7, <1>14
    <3>6. /\ \A x \in Ids \ {r} : st'.published[x] = st.published[x]
          /\ st'.published[r] = st.published[r]
      BY <2>3, <2>5
    <3>7. Discovery' BY <1>2, <1>3, <3>2, <3>3, <3>4, <3>5, <3>6, DiscoveryChanged
    <3> QED BY <3>1, <3>7
  <2> QED BY <1>1, <1>2, <1>4, <1>6, <2>2, <2>3, <2>5, UpdateStep DEF m
<1>16. CASE ~UpdateOverlaps(r, m.arg)
  <2>1. next = IF Resumes(d, m) THEN Publishes(ok, r, forward) ELSE ok BY <1>5, <1>16
  <2>2. /\ IsState(ok) /\ Agree(t, ok, {"out"}) /\ Told(t, ok, m.id, "ok") BY <1>11, AnswerState
  <2> HIDE DEF ok
  <2>3. /\ IsState(next)
        /\ Agree(ok, next, {"own", "published", "ownNext", "pc", "dormant"})
        /\ \/ /\ next.own = ok.own /\ next.ownNext = ok.ownNext
              /\ next.published = ok.published
           \/ Resumes(d, m) /\ IssuesFor(ok, next, r)
    <3>1. CASE ~Resumes(d, m) BY <2>1, <2>2, <3>1 DEF Agree
    <3>2. CASE Resumes(d, m) BY <1>4, <2>1, <2>2, <3>2, PublishesState
    <3> QED BY <3>1, <3>2
  <2>4. /\ next.buffer = st.buffer /\ next.handled = st.handled \cup {m.id}
        /\ next.pending = st.pending /\ next.active = st.active
        /\ next.withdrawn = st.withdrawn /\ next.out = ok.out
        /\ next.discovery = [st.discovery EXCEPT ![r] = moved]
        /\ ok.published = st.published /\ ok.own = st.own /\ ok.ownNext = st.ownNext
    BY <1>11, <1>13, <2>2, <2>3 DEF Agree, Fields
  <2>5. Told(st, next, m.id, "ok") BY <1>13, <2>2, <2>4 DEF Told
  <2>6. \A q \in DOMAIN st.discovery \ {r} :
          /\ draft = 22 \/ (draft = 23 /\ moved.kind = "tracks")
          /\ st.discovery[q].kind = moved.kind /\ st.discovery[q].active
          => ~Overlap(moved.prefix, st.discovery[q].prefix)
    BY <1>14, <1>16 DEF UpdateOverlaps
  <2>7. Resumes(d, m) => (draft >= 23 => ~st.discovery[r].published) BY DEF Resumes
  <2> HIDE DEF m, d
  <2>8. ASSUME st' = next PROVE Phases' /\ Discovery'
    <3>1. draft <= 16 => st'.dormant = st.dormant BY <1>2, <1>3, RequestsAssumption DEF RequestInv, draft
    <3>2. Phases' BY <1>2, <1>3, <1>4, <2>4, <2>5, <2>8, <3>1, PhasesAnswered
    <3>3. \/ /\ st'.own = st.own /\ st'.ownNext = st.ownNext
             /\ st'.published = st.published
          \/ Resumes(d, m) /\ IssuesFor(st, st', r)
      BY <2>3, <2>4, <2>8 DEF IssuesFor, NextOwn
    <3>4. OwnIssued'
      <4>1. CASE st'.own = st.own /\ st'.ownNext = st.ownNext BY <1>2, <1>3, <4>1 DEF Discovery, OwnIssued
      <4>2. CASE IssuesFor(st, st', r) BY <1>2, <1>3, <4>2, IssuedKept DEF Discovery
      <4> QED BY <3>3, <4>1, <4>2
    <3>5. st.published \in [Ids -> Nat] /\ st.handled \subseteq st'.handled
      BY <1>3, <2>4, <2>8 DEF StTypes, IsState
    <3>6. /\ DOMAIN st'.discovery = DOMAIN st.discovery /\ st'.discovery[r] = moved
          /\ \A q \in DOMAIN st.discovery \ {r} : st'.discovery[q] = st.discovery[q]
      BY <2>4, <2>8
    <3>7. /\ DOMAIN moved = {"kind", "prefix", "forward", "active", "published"}
          /\ moved = [f \in DOMAIN moved |-> moved[f]] /\ moved.kind = st.discovery[r].kind
          /\ moved.active \in BOOLEAN /\ moved.published \in BOOLEAN
          /\ st.discovery[r].published => moved.published
          /\ Resumes(d, m) => moved.published
      BY <1>7, <1>14 DEF d, Resumes
    <3>8. /\ \A x \in Ids \ {r} : st'.published[x] = st.published[x]
          /\ \/ st'.published[r] = st.published[r]
             \/ /\ draft >= 23 => ~st.discovery[r].published
                /\ moved.published /\ st'.published[r] = st.published[r] + 1
      BY <2>7, <3>3, <3>7 DEF IssuesFor
    <3>9. Discovery' BY <1>2, <1>3, <2>6, <3>4, <3>5, <3>6, <3>7, <3>8, DiscoveryChanged
    <3> QED BY <3>2, <3>9
  <2> QED BY <1>1, <1>2, <1>4, <1>6, <2>3, <2>4, <2>8, UpdateStep DEF m
<1> QED BY <1>15, <1>16

(* ---- the control stream ---- *)

\* The next buffered message of the control stream.
LEMMA BufferHead ==
    ASSUME NetTypes, StTypes, FreshIds, st.buffer # <<>>
    PROVE  /\ Head(st.buffer) \in Messages
           /\ IsRequest(Head(st.buffer)) => Head(st.buffer).id \in Ids \ st.handled
<1> DEFINE a == st.buffer
           b == net.inbox
<1>1. a \in Seq(Messages) /\ b \in Seq(Messages) /\ a # <<>> BY DEF NetTypes, StTypes, IsState
<1> HIDE DEF a, b
<1>2. a \o b # <<>> /\ Head(a \o b) = Head(a) BY <1>1, TailConcat
<1>3. 2 \in Lines /\ Line(2) = a \o b BY DEF Line, Lines, a, b
<1>4. Head(a) \in Messages /\ (IsRequest(Head(a)) => Head(a).id \in Ids \ st.handled)
  BY <1>2, <1>3, HeadFresh
<1> QED BY <1>4 DEF a

\* The session ends.
LEMMA EndsStep ==
    ASSUME RequestInv, scenario' = scenario, net' = net, NEW why, st' = Ends(st, why)
    PROVE  RequestInv'
<1>1. IsState(st') /\ Agree(st, st', {"result", "pc"}) BY EndsState DEF RequestInv, StTypes
<1>2. SameRequests /\ SameDiscovery /\ st'.buffer = st.buffer
  BY <1>1 DEF Agree, Fields, SameRequests, SameDiscovery
<1> QED BY <1>1, <1>2, QuietStep

\* A request read from the control stream, if its effect on the phases is sound.
LEMMA ConsumedStep ==
    ASSUME RequestInv, scenario' = scenario, net' = net, st.buffer # <<>>,
           IsRequest(Head(st.buffer)), NEW next, st' = Consumed(next), IsState(next),
           next.buffer = st.buffer,
           next.handled \cup {Head(st.buffer).id} = st.handled \cup {Head(st.buffer).id},
           next.discovery = st.discovery, next.published = st.published, next.own = st.own,
           next.ownNext = st.ownNext,
           /\ Head(st.buffer).id \in Ids \ st.handled
           /\ Agree(next, st', {"buffer", "handled"})
           /\ st'.handled = st.handled \cup {Head(st.buffer).id}
           => Phases'
    PROVE  RequestInv'
<1> DEFINE m == Head(st.buffer)
           b == Tail(st.buffer)
<1>1. m.id \in Ids \ st.handled BY BufferHead DEF RequestInv
<1>2. b \in Seq(Messages) BY TailFacts DEF RequestInv, StTypes, IsState
<1> HIDE DEF m, b
<1>3. CASE ValidId(m.id)
  <2>1. st' = [next EXCEPT !.buffer = b, !.handled = @ \cup {m.id}] BY <1>3 DEF Consumed, m, b
  <2>2. next.handled \cup {m.id} = st.handled \cup {m.id} BY DEF m
  <2>3. /\ IsState(st') /\ Agree(next, st', {"buffer", "handled"}) /\ st'.buffer = b
        /\ st'.handled = st.handled \cup {m.id}
    <3>1. /\ st' = [x \in Fields |-> st'[x]] /\ Agree(next, st', {"buffer", "handled"})
          /\ st'.buffer = b /\ st'.handled = next.handled \cup {m.id}
      BY <2>1 DEF IsState, Agree, Fields
    <3>2. st'.handled = st.handled \cup {m.id} /\ st'.handled \subseteq Ids BY <1>1, <2>2, <3>1 DEF IsState
    <3>3. /\ st'.out = next.out /\ st'.published = next.published
          /\ st'.own = next.own /\ st'.ownNext = next.ownNext
      BY <3>1 DEF Agree, Fields
    <3>4. IsState(st') BY <1>2, <3>1, <3>2, <3>3 DEF IsState
    <3> QED BY <3>1, <3>2, <3>4
  <2>4. Phases' BY <1>1, <2>3 DEF m
  <2>5. SameDiscovery BY <2>3 DEF Agree, Fields, SameDiscovery
  <2>6. NetTypes' /\ FreshIds' BY <2>3, ControlTaken DEF RequestInv, m, b
  <2> QED BY <2>3, <2>4, <2>5, <2>6, DiscoverySame DEF RequestInv, StTypes
<1>4. CASE ~ValidId(m.id)
  <2>1. st' = Ends(st, "invalid request id") BY <1>4 DEF Consumed, m
  <2> QED BY <2>1, EndsStep
<1> QED BY <1>3, <1>4

\* It is answered at once.
LEMMA ConsumedAnswered ==
    ASSUME RequestInv, scenario' = scenario, net' = net, st.buffer # <<>>,
           IsRequest(Head(st.buffer)), NEW next, st' = Consumed(next), IsState(next),
           next.handled \cup {Head(st.buffer).id} = st.handled \cup {Head(st.buffer).id},
           Agree(st, next, {"out", "expected", "seen", "active", "pending", "handled"}),
           DOMAIN next.pending = DOMAIN st.pending, DOMAIN next.active = DOMAIN st.active,
           NEW what \in {"ok", "error"}, Told(st, next, Head(st.buffer).id, what)
    PROVE  RequestInv'
<1> DEFINE m == Head(st.buffer)
<1>1. /\ next.buffer = st.buffer /\ next.discovery = st.discovery /\ next.published = st.published
      /\ next.own = st.own /\ next.ownNext = st.ownNext
  BY DEF Agree, Fields
<1>2. Told(st, next, m.id, what) OBVIOUS
<1> HIDE DEF m
<1>3. ASSUME m.id \in Ids \ st.handled, Agree(next, st', {"buffer", "handled"}),
             st'.handled = st.handled \cup {m.id}
      PROVE  Phases'
  <2>1. /\ st'.pending = next.pending /\ st'.active = next.active /\ st'.dormant = st.dormant
        /\ st'.withdrawn = st.withdrawn /\ st'.out = next.out
    BY <1>3 DEF Agree, Fields
  <2>2. Told(st, st', m.id, what) BY <1>2, <2>1 DEF Told
  <2> QED BY <1>3, <2>1, <2>2, PhasesAnswered DEF RequestInv
<1> QED BY <1>1, <1>3, ConsumedStep DEF m

\* It has no answer of its own: it is noted as withdrawn.
LEMMA ConsumedSilently ==
    ASSUME RequestInv, scenario' = scenario, net' = net, st.buffer # <<>>,
           IsRequest(Head(st.buffer)), NEW next, st' = Consumed(next), IsState(next),
           Agree(st, next, {"active", "pending", "withdrawn"}),
           DOMAIN next.pending = DOMAIN st.pending, DOMAIN next.active = DOMAIN st.active,
           next.withdrawn = st.withdrawn \cup {Head(st.buffer).id}
    PROVE  RequestInv'
<1>0. PICK id : id = Head(st.buffer).id OBVIOUS
<1>1. /\ next.buffer = st.buffer /\ next.discovery = st.discovery /\ next.published = st.published
      /\ next.own = st.own /\ next.ownNext = st.ownNext /\ next.handled = st.handled
  BY DEF Agree, Fields
<1>2. next.withdrawn = st.withdrawn \cup {id} BY <1>0
<1>3. ASSUME id \in Ids \ st.handled, Agree(next, st', {"buffer", "handled"}),
             st'.handled = st.handled \cup {id}
      PROVE  Phases'
  <2>1. /\ st'.pending = next.pending /\ st'.active = next.active /\ st'.dormant = st.dormant
        /\ id \in st'.withdrawn /\ st.withdrawn \subseteq st'.withdrawn /\ st'.out = st.out
        /\ id \in st'.handled
        /\ DOMAIN st'.pending = DOMAIN st.pending /\ DOMAIN st'.active = DOMAIN st.active
    <3>1. /\ st'.pending = next.pending /\ st'.active = next.active /\ st'.dormant = st.dormant
          /\ st'.withdrawn = next.withdrawn /\ st'.out = st.out
      BY <1>3 DEF Agree, Fields
    <3> QED BY <1>2, <1>3, <3>1
  <2>2. OwnPhase' BY <2>1 DEF RequestInv, Phases, OwnPhase, draft
  <2>3. st.out[id] = <<>> /\ id \notin DOMAIN st.pending /\ id \notin DOMAIN st.active
    BY <1>3, UnreadFacts DEF RequestInv
  <2>4. Phase(id)' BY <1>3, <2>1, <2>3 DEF Phase, Withdrawn
  <2> QED BY <1>3, <2>1, <2>2, <2>4, PhasesChanged DEF RequestInv
<1> QED BY <1>0, <1>1, <1>3, ConsumedStep

\* SUBSCRIBE on the control stream keeps the invariant.
LEMMA ControlSubscribeStep ==
    ASSUME RequestInv, ControlSubscribe
    PROVE  RequestInv'
<1> DEFINE m == Head(st.buffer)
           c == Counted(st, m.id)
           next == [c EXCEPT !.waiting = Append(@, m.id),
                             !.pending = Put(@, m.id, Subscription(m))]
<1>1. /\ st.buffer # <<>> /\ m.kind = "subscribe" /\ scenario' = scenario /\ net' = net
      /\ st' = Consumed(next)
  BY DEF ControlSubscribe, Control
<1>2. IsRequest(m) BY <1>1 DEF IsRequest
<1>3. IsState(c) /\ Agree(st, c, {"expected", "seen"}) BY CountedState DEF RequestInv, StTypes
<1> HIDE DEF c
<1>4. /\ IsState(next) /\ Agree(c, next, {"waiting", "pending"})
      /\ next.pending = Put(c.pending, m.id, Subscription(m))
  BY <1>3 DEF IsState, Agree, Fields
<1> HIDE DEF next, m
<1>5. /\ Agree(st, next, {"expected", "seen", "waiting", "pending"})
      /\ c.pending = st.pending
  BY <1>3, <1>4 DEF Agree, Fields
<1>6. DOMAIN next.pending = DOMAIN st.pending \cup {m.id} BY <1>4, <1>5 DEF Put
<1>7. /\ next.buffer = st.buffer /\ next.discovery = st.discovery
      /\ next.published = st.published /\ next.own = st.own
      /\ next.ownNext = st.ownNext /\ next.handled = st.handled
  BY <1>5 DEF Agree, Fields
<1>8. PICK id : id = m.id OBVIOUS
<1>9. ASSUME id \in Ids \ st.handled, Agree(next, st', {"buffer", "handled"}),
             st'.handled = st.handled \cup {id}
      PROVE  Phases'
  <2>1. /\ DOMAIN st'.pending = DOMAIN st.pending \cup {id} /\ st'.active = st.active
        /\ st'.dormant = st.dormant /\ st'.withdrawn = st.withdrawn /\ st'.out = st.out
    BY <1>5, <1>6, <1>8, <1>9 DEF Agree, Fields
  <2>2. OwnPhase' BY <1>1, <1>9, <2>1 DEF RequestInv, Phases, OwnPhase, draft
  <2>3. st.out[id] = <<>> /\ id \notin DOMAIN st.pending /\ id \notin DOMAIN st.active
    BY <1>9, UnreadFacts DEF RequestInv
  <2>4. Phase(id)' BY <1>9, <2>1, <2>3 DEF Phase, Waits
  <2> QED BY <1>9, <2>1, <2>2, <2>4, PhasesChanged DEF RequestInv
<1> QED BY <1>1, <1>2, <1>4, <1>7, <1>8, <1>9, ConsumedStep DEF m

\* SUBSCRIBE_NAMESPACE on the control stream keeps the invariant.
LEMMA ControlNamespaceStep ==
    ASSUME RequestInv, ControlNamespace
    PROVE  RequestInv'
<1> DEFINE m == Head(st.buffer)
           next == Answer(Counted(st, m.id), m.id, "ok")
<1>1. /\ st.buffer # <<>> /\ m.kind = "namespace" /\ scenario' = scenario /\ net' = net
      /\ st' = IF PrefixMatches(m.arg) THEN Consumed(next) ELSE Ends(st, "failure")
  BY DEF ControlNamespace, Control
<1>2. IsRequest(m) BY <1>1 DEF IsRequest
<1>3. /\ IsState(next) /\ Agree(st, next, {"out", "expected", "seen"})
      /\ Told(st, next, m.id, "ok")
  BY AnsweredState DEF RequestInv
<1> HIDE DEF next
<1>4. CASE st' = Consumed(next)
  <2>1. /\ next.handled = st.handled /\ next.pending = st.pending /\ next.active = st.active
        /\ Agree(st, next, {"out", "expected", "seen", "active", "pending", "handled"})
    BY <1>3 DEF Agree, Fields
  <2> HIDE DEF m
  <2>2. IsRequest(Head(st.buffer)) /\ Told(st, next, Head(st.buffer).id, "ok") BY <1>2, <1>3 DEF m
  <2> QED BY <1>1, <1>3, <1>4, <2>1, <2>2, ConsumedAnswered
<1>5. CASE st' = Ends(st, "failure") BY <1>1, <1>5, EndsStep
<1> QED BY <1>1, <1>4, <1>5

\* A request the control stream does not serve keeps the invariant.
LEMMA ControlUnsupportedStep ==
    ASSUME RequestInv, ControlUnsupported
    PROVE  RequestInv'
<1> DEFINE m == Head(st.buffer)
           a == Answer(Counted(st, m.id), m.id, "error")
           b == [st EXCEPT !.withdrawn = @ \cup {m.id}]
<1>1. /\ st.buffer # <<>> /\ m.kind \in {"fetch", "status"} /\ scenario' = scenario
      /\ net' = net /\ st' = Consumed(IF draft = 16 THEN a ELSE b)
  BY DEF ControlUnsupported, Control, Refused
<1>2. IsRequest(m) BY <1>1 DEF IsRequest
<1>3. CASE draft = 16
  <2>1. /\ IsState(a) /\ Agree(st, a, {"out", "expected", "seen"})
        /\ Told(st, a, m.id, "error") /\ st' = Consumed(a)
    BY <1>1, <1>3, AnsweredState DEF RequestInv
  <2> HIDE DEF a
  <2>2. /\ a.handled = st.handled /\ a.pending = st.pending /\ a.active = st.active
        /\ Agree(st, a, {"out", "expected", "seen", "active", "pending", "handled"})
    BY <2>1 DEF Agree, Fields
  <2>3. IsRequest(Head(st.buffer)) /\ Told(st, a, Head(st.buffer).id, "error") BY <1>2, <2>1
  <2> HIDE DEF m
  <2> QED BY <1>1, <2>1, <2>2, <2>3, ConsumedAnswered
<1>4. CASE draft # 16
  <2>1. /\ IsState(b) /\ Agree(st, b, {"withdrawn"}) /\ st' = Consumed(b)
        /\ b.withdrawn = st.withdrawn \cup {m.id}
    BY <1>1, <1>4 DEF RequestInv, StTypes, IsState, Agree, Fields
  <2> HIDE DEF b
  <2>2. /\ b.pending = st.pending /\ b.active = st.active
        /\ Agree(st, b, {"active", "pending", "withdrawn"})
    BY <2>1 DEF Agree, Fields
  <2>3. IsRequest(Head(st.buffer)) /\ b.withdrawn = st.withdrawn \cup {Head(st.buffer).id} BY <1>2, <2>1
  <2> HIDE DEF m
  <2> QED BY <1>1, <2>1, <2>2, <2>3, ConsumedSilently
<1> QED BY <1>3, <1>4

\* The PUBLISH that was not forwarded wakes up: it is served, or over.
LEMMA WokenState ==
    ASSUME NEW s, IsState(s), NEW m, m.existing = 2
    PROVE  /\ IsState(Woken(s, m))
           /\ Agree(s, Woken(s, m), {"dormant", "active", "out", "completed"})
           /\ Woken(s, m).dormant = s.dormant \ {2}
           /\ \A r \in Ids : Woken(s, m).out[r] = s.out[r]
           /\ \/ /\ DOMAIN Woken(s, m).active = DOMAIN s.active \cup {2}
                 /\ Woken(s, m).out[2] = s.out[2]
              \/ /\ DOMAIN Woken(s, m).active = DOMAIN s.active
                 /\ Woken(s, m).out[2] \in {s.out[2], Append(s.out[2], "done")}
<1> DEFINE sub == Applied([track |-> "catalog", forward |-> 0, left |-> Objects["catalog"],
                           start |-> 0], m)
           a == [s EXCEPT !.dormant = @ \ {m.existing}]
           w == Woken(s, m)
<1>1. w = IF sub.left > 0 \/ scenario.looping THEN [a EXCEPT !.active = Put(@, m.existing, sub)]
          ELSE IF draft = 14 THEN Finalized(a, m.existing) ELSE a
  BY DEF Woken
<1>2. /\ IsState(a) /\ Agree(s, a, {"dormant"}) /\ a.dormant = s.dormant \ {2} BY DEF IsState, Agree, Fields
<1>3. 2 \notin Ids BY IdFacts
<1> HIDE DEF a, w, sub
<1>4. a.out = s.out /\ a.active = s.active BY <1>2 DEF Agree, Fields
<1>5. CASE w = [a EXCEPT !.active = Put(@, m.existing, sub)]
  <2>1. /\ IsState(w) /\ Agree(a, w, {"active"}) /\ w.active = Put(a.active, 2, sub)
    BY <1>2, <1>5 DEF IsState, Agree, Fields
  <2>2. /\ Agree(s, w, {"dormant", "active", "out", "completed"})
        /\ w.dormant = s.dormant \ {2} /\ w.out = s.out
    BY <1>2, <1>4, <2>1 DEF Agree, Fields
  <2>3. DOMAIN w.active = DOMAIN s.active \cup {2} BY <1>4, <2>1 DEF Put
  <2> QED BY <2>1, <2>2, <2>3 DEF w
<1>6. CASE w = Finalized(a, m.existing)
  <2>1. /\ IsState(w) /\ Agree(a, w, {"out", "completed"}) /\ Told(a, w, 2, "done")
    BY <1>2, <1>6, FinalizedState
  <2>2. /\ Agree(s, w, {"dormant", "active", "out", "completed"})
        /\ w.dormant = s.dormant \ {2} /\ w.active = s.active
    BY <1>2, <1>4, <2>1 DEF Agree, Fields
  <2>3. w.out[2] = Append(s.out[2], "done") /\ \A r \in Ids : w.out[r] = s.out[r]
    BY <1>3, <1>4, <2>1 DEF Told
  <2> QED BY <2>1, <2>2, <2>3 DEF w
<1>7. CASE w = a
  <2>1. Agree(s, w, {"dormant", "active", "out", "completed"}) BY <1>2, <1>7 DEF Agree
  <2> QED BY <1>2, <1>4, <1>7, <2>1 DEF w
<1> QED BY <1>1, <1>5, <1>6, <1>7

\* Waking the PUBLISH of ours keeps the phases.
LEMMA PhasesWoken ==
    ASSUME Phases, scenario' = scenario, draft <= 16, 2 \in st.dormant,
           NEW id \in Ids \ st.handled, st'.handled = st.handled \cup {id},
           DOMAIN st'.pending = DOMAIN st.pending, st'.dormant = st.dormant \ {2},
           st.withdrawn \subseteq st'.withdrawn,
           \/ DOMAIN st'.active = DOMAIN st.active \cup {2} /\ st'.out[2] = st.out[2]
           \/ /\ DOMAIN st'.active = DOMAIN st.active
              /\ st'.out[2] \in {st.out[2], Append(st.out[2], "done")},
           \A r \in Ids \ {id} : st'.out[r] = st.out[r],
           \/ st'.out[id] = <<"ok">>
           \/ st'.out[id] = <<>> /\ id \in st'.withdrawn
    PROVE  Phases'
<1>1. 2 \notin Ids BY IdFacts
<1>2. 2 \notin DOMAIN st.active /\ st.out[2] = <<>> /\ st.dormant \subseteq {2}
      /\ DOMAIN st.pending \subseteq Ids
  BY DEF Phases, OwnPhase
<1>3. Append(<<>>, "done") = <<"done">> OBVIOUS
<1>4. OwnPhase'
  <2>1. st'.out[2] \in {<<>>, <<"done">>} BY <1>2, <1>3
  <2>2. st'.out[2] # <<>> => 2 \notin DOMAIN st'.active BY <1>2
  <2>3. st'.dormant \subseteq {2} /\ 2 \notin st'.dormant BY <1>2
  <2> QED BY <1>2, <2>1, <2>2, <2>3 DEF OwnPhase
<1>5. st.out[id] = <<>> /\ id \notin DOMAIN st.pending /\ id \notin DOMAIN st.active BY UnreadFacts
<1>6. Phase(id)' BY <1>1, <1>5 DEF Phase, Waits, Serving, Answered, Withdrawn
<1>7. \A r \in Ids \ {id} : r \in DOMAIN st'.active <=> r \in DOMAIN st.active BY <1>1
<1> QED BY <1>4, <1>6, <1>7, PhasesChanged

\* An update on the control stream keeps the invariant.
LEMMA ControlUpdateStep ==
    ASSUME RequestInv, ControlUpdate
    PROVE  RequestInv'
<1> DEFINE m == Head(st.buffer)
           s == Counted(st, m.id)
           p == [s EXCEPT !.pending[m.existing] = Applied(@, m)]
<1>1. /\ st.buffer # <<>> /\ draft = 16 /\ m.kind = "update" /\ scenario' = scenario
      /\ net' = net
  BY DEF ControlUpdate, Control
<1>2. \/ st' = Ends(st, "invalid request id") \/ st' = Ends(st, "unknown request")
      \/ m.existing \in DOMAIN st.pending /\ st' = Consumed(Answer(p, m.id, "ok"))
      \/ st' = Consumed(UpdateActive(st, m))
      \/ m.existing \in st.dormant /\ st' = Consumed(Answer(Woken(s, m), m.id, "ok"))
  BY DEF ControlUpdate, Control
<1>3. IsRequest(m) BY <1>1 DEF IsRequest
<1>4. StTypes /\ Phases /\ m.id \in Ids \ st.handled BY <1>1, <1>3, BufferHead DEF RequestInv
<1>5. IsState(s) /\ Agree(st, s, {"expected", "seen"}) BY <1>4, CountedState DEF StTypes
<1> HIDE DEF s
<1>6. CASE st' = Ends(st, "invalid request id") \/ st' = Ends(st, "unknown request") BY <1>1, <1>6, EndsStep
<1>7. CASE m.existing \in DOMAIN st.pending /\ st' = Consumed(Answer(p, m.id, "ok"))
  <2>1. /\ IsState(p) /\ Agree(s, p, {"pending"}) /\ DOMAIN p.pending = DOMAIN s.pending
    BY <1>5 DEF IsState, Agree, Fields
  <2> HIDE DEF p
  <2> DEFINE next == Answer(p, m.id, "ok")
  <2>2. /\ IsState(next) /\ Agree(p, next, {"out"}) /\ Told(p, next, m.id, "ok") BY <2>1, AnswerState
  <2>3. st' = Consumed(next) BY <1>7
  <2> HIDE DEF next
  <2>4. /\ Agree(st, next, {"out", "expected", "seen", "active", "pending", "handled"})
        /\ next.handled = st.handled /\ next.active = st.active
        /\ DOMAIN next.pending = DOMAIN st.pending /\ p.out = st.out
    BY <1>5, <2>1, <2>2 DEF Agree, Fields
  <2>5. Told(st, next, m.id, "ok") BY <2>2, <2>4 DEF Told
  <2>6. IsRequest(Head(st.buffer)) /\ Told(st, next, Head(st.buffer).id, "ok") BY <1>3, <2>5
  <2> HIDE DEF m
  <2> QED BY <1>1, <2>2, <2>3, <2>4, <2>6, ConsumedAnswered
<1>8. CASE st' = Consumed(UpdateActive(st, m))
  <2> DEFINE next == UpdateActive(st, m)
  <2>1. /\ IsState(next) /\ Agree(st, next, {"out", "expected", "seen", "active", "handled"})
        /\ DOMAIN next.active = DOMAIN st.active /\ next.handled = st.handled \cup {m.id}
        /\ Told(st, next, m.id, "ok")
    BY <1>4, UpdateActiveState
  <2>2. st' = Consumed(next) BY <1>8
  <2> HIDE DEF next
  <2>3. /\ Agree(st, next, {"out", "expected", "seen", "active", "pending", "handled"})
        /\ next.pending = st.pending
    BY <2>1 DEF Agree, Fields
  <2>4. /\ IsRequest(Head(st.buffer)) /\ Told(st, next, Head(st.buffer).id, "ok")
        /\ next.handled = st.handled \cup {Head(st.buffer).id}
    BY <1>3, <2>1
  <2> HIDE DEF m
  <2> QED BY <1>1, <2>1, <2>2, <2>3, <2>4, ConsumedAnswered
<1>9. CASE m.existing \in st.dormant /\ st' = Consumed(Answer(Woken(s, m), m.id, "ok"))
  <2> DEFINE w == Woken(s, m)
             next == Answer(w, m.id, "ok")
  <2>1. m.existing = 2 /\ 2 \in st.dormant BY <1>1, <1>4, <1>9 DEF Phases, OwnPhase
  <2>2. /\ IsState(w) /\ Agree(s, w, {"dormant", "active", "out", "completed"})
        /\ w.dormant = s.dormant \ {2} /\ \A r \in Ids : w.out[r] = s.out[r]
        /\ \/ DOMAIN w.active = DOMAIN s.active \cup {2} /\ w.out[2] = s.out[2]
           \/ /\ DOMAIN w.active = DOMAIN s.active
              /\ w.out[2] \in {s.out[2], Append(s.out[2], "done")}
    BY <1>5, <2>1, WokenState
  <2> HIDE DEF w
  <2>3. /\ IsState(next) /\ Agree(w, next, {"out"}) /\ Told(w, next, m.id, "ok") BY <2>2, AnswerState
  <2>4. st' = Consumed(next) BY <1>9 DEF w
  <2> HIDE DEF next
  <2>5. /\ s.out = st.out /\ s.active = st.active /\ s.dormant = st.dormant
        /\ next.active = w.active /\ next.dormant = w.dormant /\ next.pending = st.pending
        /\ next.withdrawn = st.withdrawn /\ next.handled = st.handled
        /\ next.buffer = st.buffer /\ next.discovery = st.discovery
        /\ next.published = st.published /\ next.own = st.own /\ next.ownNext = st.ownNext
    BY <1>5, <2>2, <2>3 DEF Agree, Fields
  <2>6. PICK id : id = m.id OBVIOUS
  <2>7. /\ next.out[id] = <<"ok">> /\ next.out[2] = w.out[2]
        /\ \A r \in Ids \ {id} : next.out[r] = st.out[r]
    <3>1. w.out[id] = <<>> /\ id # 2 /\ id \in Ids BY <1>4, <2>2, <2>5, <2>6, UnreadFacts, IdFacts
    <3> QED BY <2>2, <2>3, <2>5, <2>6, <3>1 DEF Told
  <2>8. ASSUME Agree(next, st', {"buffer", "handled"}), st'.handled = st.handled \cup {id}
        PROVE  Phases'
    <3>1. /\ st'.active = w.active /\ st'.dormant = st.dormant \ {2}
          /\ st'.pending = st.pending /\ st'.withdrawn = st.withdrawn /\ st'.out = next.out
      BY <2>2, <2>5, <2>8 DEF Agree, Fields
    <3>2. \/ DOMAIN st'.active = DOMAIN st.active \cup {2} /\ st'.out[2] = st.out[2]
          \/ /\ DOMAIN st'.active = DOMAIN st.active
             /\ st'.out[2] \in {st.out[2], Append(st.out[2], "done")}
      BY <2>2, <2>5, <2>7, <3>1
    <3>3. /\ st'.out[id] = <<"ok">> /\ \A r \in Ids \ {id} : st'.out[r] = st.out[r] BY <2>7, <3>1
    <3>4. id \in Ids \ st.handled /\ draft <= 16 BY <1>1, <1>4, <2>6
    <3> QED BY <1>1, <1>4, <2>1, <2>8, <3>1, <3>2, <3>3, <3>4, PhasesWoken
  <2>9. IsRequest(Head(st.buffer)) /\ id = Head(st.buffer).id BY <1>3, <2>6
  <2> HIDE DEF m
  <2> QED BY <1>1, <2>3, <2>4, <2>5, <2>8, <2>9, ConsumedStep
<1> QED BY <1>2, <1>6, <1>7, <1>8, <1>9

\* An update of a SUBSCRIBE on the control stream keeps the invariant.
LEMMA ControlSubscribeUpdateStep ==
    ASSUME RequestInv, ControlSubscribeUpdate
    PROVE  RequestInv'
<1> DEFINE m == Head(st.buffer)
           s == [st EXCEPT !.withdrawn = @ \cup {m.id}]
           p == [s EXCEPT !.pending[m.existing] = Applied(@, m)]
           a == [s EXCEPT !.active[m.existing] = Applied(@, m)]
<1>1. /\ st.buffer # <<>> /\ draft = 14 /\ m.kind = "update" /\ scenario' = scenario
      /\ net' = net
  BY DEF ControlSubscribeUpdate, Control
<1>2. \/ st' = Ends(st, "unknown request")
      \/ st' = Consumed(p) \/ st' = Consumed(a)
      \/ m.existing \in st.dormant /\ st' = Consumed(Woken(s, m))
  BY DEF ControlSubscribeUpdate, Control
<1>3. IsRequest(m) BY <1>1 DEF IsRequest
<1>4. StTypes /\ Phases /\ m.id \in Ids \ st.handled BY <1>1, <1>3, BufferHead DEF RequestInv
<1>5. /\ IsState(s) /\ Agree(st, s, {"withdrawn"}) /\ s.withdrawn = st.withdrawn \cup {m.id}
  BY <1>4 DEF StTypes, IsState, Agree, Fields
<1> HIDE DEF s
<1>6. CASE st' = Ends(st, "unknown request") BY <1>1, <1>6, EndsStep
<1>7. ASSUME NEW next, st' = Consumed(next), IsState(next), Agree(s, next, {"pending", "active"}),
             DOMAIN next.pending = DOMAIN s.pending, DOMAIN next.active = DOMAIN s.active
      PROVE  RequestInv'
  <2>1. /\ Agree(st, next, {"active", "pending", "withdrawn"})
        /\ DOMAIN next.pending = DOMAIN st.pending /\ DOMAIN next.active = DOMAIN st.active
        /\ next.withdrawn = s.withdrawn
    BY <1>5, <1>7 DEF Agree, Fields
  <2>2. /\ IsRequest(Head(st.buffer))
        /\ next.withdrawn = st.withdrawn \cup {Head(st.buffer).id}
    BY <1>3, <1>5, <2>1
  <2> HIDE DEF m
  <2> QED BY <1>1, <1>7, <2>1, <2>2, ConsumedSilently
<1>8. CASE st' = Consumed(p)
  <2>1. /\ IsState(p) /\ Agree(s, p, {"pending", "active"})
        /\ DOMAIN p.pending = DOMAIN s.pending /\ DOMAIN p.active = DOMAIN s.active
    BY <1>5 DEF IsState, Agree, Fields
  <2> HIDE DEF p
  <2> QED BY <1>7, <1>8, <2>1
<1>9. CASE st' = Consumed(a)
  <2>1. /\ IsState(a) /\ Agree(s, a, {"pending", "active"})
        /\ DOMAIN a.pending = DOMAIN s.pending /\ DOMAIN a.active = DOMAIN s.active
    BY <1>5 DEF IsState, Agree, Fields
  <2> HIDE DEF a
  <2> QED BY <1>7, <1>9, <2>1
<1>10. CASE m.existing \in st.dormant /\ st' = Consumed(Woken(s, m))
  <2> DEFINE w == Woken(s, m)
  <2>1. m.existing = 2 /\ 2 \in st.dormant BY <1>1, <1>4, <1>10 DEF Phases, OwnPhase
  <2>2. /\ IsState(w) /\ Agree(s, w, {"dormant", "active", "out", "completed"})
        /\ w.dormant = s.dormant \ {2} /\ \A r \in Ids : w.out[r] = s.out[r]
        /\ \/ DOMAIN w.active = DOMAIN s.active \cup {2} /\ w.out[2] = s.out[2]
           \/ /\ DOMAIN w.active = DOMAIN s.active
              /\ w.out[2] \in {s.out[2], Append(s.out[2], "done")}
    BY <1>5, <2>1, WokenState
  <2>3. st' = Consumed(w) BY <1>10
  <2> HIDE DEF w
  <2>4. /\ s.out = st.out /\ s.active = st.active /\ s.dormant = st.dormant
        /\ w.pending = st.pending /\ w.withdrawn = s.withdrawn /\ w.handled = st.handled
        /\ w.buffer = st.buffer /\ w.discovery = st.discovery
        /\ w.published = st.published /\ w.own = st.own /\ w.ownNext = st.ownNext
    BY <1>5, <2>2 DEF Agree, Fields
  <2>5. PICK id : id = m.id OBVIOUS
  <2>6. ASSUME Agree(w, st', {"buffer", "handled"}), st'.handled = st.handled \cup {id}
        PROVE  Phases'
    <3>1. /\ st'.active = w.active /\ st'.dormant = st.dormant \ {2}
          /\ st'.pending = st.pending /\ st'.withdrawn = s.withdrawn /\ st'.out = w.out
      BY <2>2, <2>4, <2>6 DEF Agree, Fields
    <3>2. \/ DOMAIN st'.active = DOMAIN st.active \cup {2} /\ st'.out[2] = st.out[2]
          \/ /\ DOMAIN st'.active = DOMAIN st.active
             /\ st'.out[2] \in {st.out[2], Append(st.out[2], "done")}
      BY <2>2, <2>4, <3>1
    <3>3. id \in Ids \ st.handled /\ draft <= 16 BY <1>1, <1>4, <2>5
    <3>4. /\ st'.out[id] = <<>> /\ \A r \in Ids \ {id} : st'.out[r] = st.out[r]
      BY <1>4, <2>2, <2>4, <3>1, <3>3, UnreadFacts
    <3>5. id \in st'.withdrawn /\ st.withdrawn \subseteq st'.withdrawn BY <1>5, <2>5, <3>1
    <3> QED BY <1>1, <1>4, <2>1, <2>6, <3>1, <3>2, <3>3, <3>4, <3>5, PhasesWoken
  <2>7. IsRequest(Head(st.buffer)) /\ id = Head(st.buffer).id BY <1>3, <2>5
  <2> HIDE DEF m
  <2> QED BY <1>1, <2>2, <2>3, <2>4, <2>6, <2>7, ConsumedStep
<1> QED BY <1>2, <1>6, <1>8, <1>9, <1>10

\* UNSUBSCRIBE keeps the invariant: it withdraws what waits, and ends what is served.
LEMMA ControlUnsubscribeStep ==
    ASSUME RequestInv, ControlUnsubscribe
    PROVE  RequestInv'
<1>1. PICK r : r = Head(st.buffer).existing OBVIOUS
<1> DEFINE s == [st EXCEPT !.buffer = Tail(@), !.pending = Drop(@, r),
                           !.withdrawn = @ \cup {r}]
           f == Finalized(s, r)
<1>2. /\ st.buffer # <<>> /\ Head(st.buffer).kind = "unsubscribe" /\ scenario' = scenario
      /\ net' = net
      /\ st' = IF r \in DOMAIN st.active THEN [f EXCEPT !.active = Drop(@, r)] ELSE s
  BY <1>1 DEF ControlUnsubscribe, Control
<1>3. StTypes /\ Phases /\ Discovery /\ NetTypes /\ FreshIds BY DEF RequestInv
<1>4. Tail(st.buffer) \in Seq(Messages) BY <1>2, <1>3, TailFacts DEF StTypes, IsState
<1>5. /\ IsState(s) /\ Agree(st, s, {"buffer", "pending", "withdrawn"})
      /\ s.buffer = Tail(st.buffer) /\ s.withdrawn = st.withdrawn \cup {r}
      /\ s.pending = Drop(st.pending, r)
  BY <1>3, <1>4 DEF StTypes, IsState, Agree, Fields
<1>6. DOMAIN s.pending = DOMAIN st.pending \ {r} BY <1>5 DEF Drop
<1>7. s.out = st.out /\ s.active = st.active BY <1>5 DEF Agree, Fields
<1> HIDE DEF s
<1>8. IsState(f) /\ Agree(s, f, {"out", "completed"}) /\ Told(s, f, r, "done") BY <1>5, FinalizedState
<1> HIDE DEF f
<1>9. /\ IsState(st') /\ Agree(s, st', {"out", "completed", "active"})
      /\ \/ r \notin DOMAIN st.active /\ st'.out = st.out /\ st'.active = st.active
         \/ /\ r \in DOMAIN st.active /\ Told(st, st', r, "done")
            /\ DOMAIN st'.active = DOMAIN st.active \ {r}
  <2>1. CASE r \notin DOMAIN st.active
    <3>1. st' = s BY <1>2, <2>1
    <3> QED BY <1>5, <1>7, <2>1, <3>1 DEF Agree
  <2>2. CASE r \in DOMAIN st.active
    <3>1. st' = [f EXCEPT !.active = Drop(@, r)] BY <1>2, <2>2
    <3>2. /\ IsState(st') /\ Agree(f, st', {"active"}) /\ st'.active = Drop(f.active, r)
      BY <1>8, <3>1 DEF IsState, Agree, Fields
    <3>3. /\ Agree(s, st', {"out", "completed", "active"}) /\ f.active = st.active
          /\ st'.out = f.out
      BY <1>7, <1>8, <3>2 DEF Agree, Fields
    <3>4. DOMAIN st'.active = DOMAIN st.active \ {r} BY <3>2, <3>3 DEF Drop
    <3>5. Told(st, st', r, "done") BY <1>7, <1>8, <3>3 DEF Told
    <3> QED BY <2>2, <3>2, <3>3, <3>4, <3>5
  <2> QED BY <2>1, <2>2
<1>10. /\ st'.buffer = Tail(st.buffer) /\ st'.withdrawn = st.withdrawn \cup {r}
       /\ DOMAIN st'.pending = DOMAIN st.pending \ {r}
       /\ st'.handled = st.handled /\ st'.dormant = st.dormant /\ SameDiscovery
  <2>1. /\ st'.pending = s.pending /\ st'.buffer = s.buffer /\ st'.withdrawn = s.withdrawn
        /\ st'.handled = st.handled /\ st'.dormant = st.dormant /\ SameDiscovery
    BY <1>5, <1>9 DEF Agree, Fields, SameDiscovery
  <2> QED BY <1>5, <1>6, <2>1
<1>11. \A x \in (Ids \cup {2}) \ {r} : st'.out[x] = st.out[x] BY <1>9 DEF Told
<1>12. OwnPhase /\ (r \in Ids => Phase(r)) /\ 2 \notin Ids BY <1>3, IdFacts DEF Phases
<1>13. OwnPhase'
  <2>1. DOMAIN st'.pending \subseteq Ids BY <1>10, <1>12 DEF OwnPhase
  <2>2. /\ st'.out[2] \in {<<>>, <<"done">>}
        /\ st'.out[2] # <<>> => 2 \notin DOMAIN st'.active
        /\ draft <= 16 /\ 2 \in st.dormant => 2 \notin DOMAIN st'.active /\ st'.out[2] = <<>>
    <3>1. CASE r # 2
      <4>1. st'.out[2] = st.out[2] /\ (2 \in DOMAIN st'.active <=> 2 \in DOMAIN st.active)
        BY <1>9, <1>11, <3>1
      <4> QED BY <1>12, <4>1 DEF OwnPhase
    <3>2. CASE r = 2 /\ r \in DOMAIN st.active
      <4>1. st.out[2] = <<>> /\ st'.out[2] = Append(st.out[2], "done")
            /\ 2 \notin DOMAIN st'.active /\ (draft <= 16 => 2 \notin st.dormant)
        BY <1>9, <1>12, <3>2 DEF OwnPhase, Told
      <4>2. Append(<<>>, "done") = <<"done">> OBVIOUS
      <4> QED BY <4>1, <4>2
    <3>3. CASE r = 2 /\ r \notin DOMAIN st.active BY <1>9, <1>12, <3>3 DEF OwnPhase
    <3> QED BY <3>1, <3>2, <3>3
  <2> QED BY <1>2, <1>10, <1>12, <2>1, <2>2 DEF OwnPhase, draft
<1>14. ASSUME r \in Ids PROVE Phase(r)'
  <2>1. r \notin DOMAIN st'.pending /\ r \in st'.withdrawn BY <1>10
  <2>2. CASE r \in DOMAIN st.active
    <3>1. st.out[r] = <<"ok">> /\ r \in st.handled BY <1>12, <1>14, <2>2 DEF Phase, Serving
    <3>2. st'.out[r] = <<"ok", "done">> /\ r \notin DOMAIN st'.active BY <1>9, <1>14, <2>2, <3>1 DEF Told
    <3> QED BY <1>10, <2>1, <3>1, <3>2 DEF Phase, Answered
  <2>3. CASE r \notin DOMAIN st.active
    <3>1. st'.out[r] = st.out[r] /\ r \notin DOMAIN st'.active BY <1>9, <2>3
    <3> QED BY <1>10, <1>12, <1>14, <2>1, <2>3, <3>1
            DEF Phase, Unread, Waits, Serving, Answered, Withdrawn
  <2> QED BY <2>2, <2>3
<1>15. Phases'
  <2>1. \A x \in Ids \ {r} : /\ x \in DOMAIN st'.pending <=> x \in DOMAIN st.pending
                             /\ x \in DOMAIN st'.active <=> x \in DOMAIN st.active
    BY <1>9, <1>10
  <2> QED BY <1>3, <1>10, <1>11, <1>13, <1>14, <2>1, PhasesChanged
<1>16. NetTypes' /\ FreshIds' BY <1>2, <1>3, <1>10, ControlTaken
<1> QED BY <1>2, <1>3, <1>9, <1>10, <1>15, <1>16, DiscoverySame DEF RequestInv, StTypes

\* GOAWAY keeps the invariant.
LEMMA ControlGoawayStep ==
    ASSUME RequestInv, ControlGoaway
    PROVE  RequestInv'
<1>1. st' = Ends(st, "migrate") /\ scenario' = scenario /\ net' = net BY DEF ControlGoaway, Control
<1> QED BY <1>1, EndsStep

\* The end of the buffered messages keeps the invariant.
LEMMA ControlDoneStep ==
    ASSUME RequestInv, ControlDone
    PROVE  RequestInv'
<1>1. IsState(st) /\ net.inbox \in Seq(Messages) BY DEF RequestInv, StTypes, NetTypes
<1>2. scenario' = scenario /\ st.buffer = <<>> BY DEF ControlDone
<1>3. CASE st' = [st EXCEPT !.buffer = net.inbox, !.pc = "poll"]
           /\ net' = [net EXCEPT !.inbox = <<>>]
  <2>1. IsState(st') /\ Agree(st, st', {"pc", "buffer"}) /\ st'.buffer = net.inbox
    BY <1>1, <1>3 DEF IsState, Agree, Fields
  <2>2. SameRequests /\ SameDiscovery BY <2>1 DEF Agree, Fields, SameRequests, SameDiscovery
  <2>3. st'.buffer = st.buffer \o net.inbox BY <1>1, <1>2, <2>1
  <2> QED BY <1>2, <1>3, <2>1, <2>2, <2>3, QuietStep
<1>4. CASE st' = [st EXCEPT !.pc = "drain"] /\ net' = net
  <2>1. IsState(st') /\ Agree(st, st', {"pc"}) BY <1>1, <1>4 DEF IsState, Agree, Fields
  <2>2. SameRequests /\ SameDiscovery /\ st'.buffer = st.buffer
    BY <2>1 DEF Agree, Fields, SameRequests, SameDiscovery
  <2> QED BY <1>2, <1>4, <2>1, <2>2, QuietStep
<1> QED BY <1>3, <1>4 DEF ControlDone

\* Reading the control stream keeps the invariant.
LEMMA ReadControlStep ==
    ASSUME RequestInv, ReadControl
    PROVE  RequestInv'
<1>1. /\ scenario' = scenario /\ net' = [net EXCEPT !.inbox = <<>>]
      /\ st' = [st EXCEPT !.buffer = @ \o net.inbox, !.pc = "poll"]
  BY DEF ReadControl
<1>2. IsState(st) /\ net.inbox \in Seq(Messages) BY DEF RequestInv, StTypes, NetTypes
<1>3. st.buffer \o net.inbox \in Seq(Messages) BY <1>2 DEF IsState
<1>4. IsState(st') /\ Agree(st, st', {"pc", "buffer"}) /\ st'.buffer = st.buffer \o net.inbox
  BY <1>1, <1>2, <1>3 DEF IsState, Agree, Fields
<1>5. SameRequests /\ SameDiscovery BY <1>4 DEF Agree, Fields, SameRequests, SameDiscovery
<1> QED BY <1>1, <1>4, <1>5, QuietStep

\* Serving an object keeps the invariant.
LEMMA ServeObjectStep ==
    ASSUME RequestInv, ServeObject
    PROVE  RequestInv'
<1>1. PICK r \in Sendable : st' = [st EXCEPT !.active[r].left = @ - 1, !.pc = "poll"] BY DEF ServeObject
<1>2. scenario' = scenario /\ net' = net BY DEF ServeObject
<1>3. /\ IsState(st') /\ Agree(st, st', {"pc", "active"})
      /\ DOMAIN st'.active = DOMAIN st.active
  BY <1>1 DEF RequestInv, StTypes, IsState, Agree, Fields
<1>4. SameRequests /\ SameDiscovery /\ st'.buffer = st.buffer
  BY <1>3 DEF Agree, Fields, SameRequests, SameDiscovery
<1> QED BY <1>2, <1>3, <1>4, QuietStep

\* Leaving an idle session keeps the invariant.
LEMMA IdleExitStep ==
    ASSUME RequestInv, IdleExit
    PROVE  RequestInv'
<1>1. st' = Ends(st, "success") /\ scenario' = scenario /\ net' = net BY DEF IdleExit
<1> QED BY <1>1, EndsStep

(* ---- answered when the stream is empty ---- *)

\* A SUBSCRIBE that waited is answered.
LEMMA PhasesDrained ==
    ASSUME Phases, scenario' = scenario, NEW r \in DOMAIN st.pending,
           st'.handled = st.handled, st'.dormant = st.dormant,
           DOMAIN st'.pending = DOMAIN st.pending \ {r}, st.withdrawn \subseteq st'.withdrawn,
           \A x \in (Ids \cup {2}) \ {r} : st'.out[x] = st.out[x],
           \/ st'.out[r] \in {<<"error">>, <<"ok", "done">>} /\ DOMAIN st'.active = DOMAIN st.active
           \/ st'.out[r] = <<"ok">> /\ DOMAIN st'.active = DOMAIN st.active \cup {r}
    PROVE  Phases'
<1>1. r \in Ids /\ r # 2 /\ Phase(r) /\ OwnPhase BY IdFacts DEF Phases, OwnPhase
<1>2. r \in st.handled /\ st.out[r] = <<>> BY <1>1 DEF Phase, Waits
<1>3. <<>> # <<"ok">> OBVIOUS
<1>4. r \notin DOMAIN st.active BY <1>1, <1>2, <1>3 DEF Phase, Serving
<1>5. OwnPhase' BY <1>1 DEF OwnPhase, draft
<1>6. Phase(r)' BY <1>2, <1>4 DEF Phase, Serving, Answered
<1> QED BY <1>5, <1>6, PhasesChanged

\* Answering a SUBSCRIBE that waited keeps the invariant.
LEMMA DrainSubscribeStep ==
    ASSUME RequestInv, DrainSubscribe
    PROVE  RequestInv'
<1>1. PICK r : r = Head(st.waiting) OBVIOUS
<1> DEFINE s == [st EXCEPT !.waiting = Tail(@), !.pending = Drop(@, r)]
           sub == st.pending[r]
           a == Answer(s, r, "ok")
           e == Answer(s, r, "error")
<1>2. scenario' = scenario /\ net' = net BY DEF DrainSubscribe
<1>3. \/ st' = [st EXCEPT !.pc = "serve"]
      \/ r \notin DOMAIN st.pending /\ st' = s
      \/ r \in DOMAIN st.pending /\ st' = e
      \/ r \in DOMAIN st.pending /\ st' = Established(a, r, sub)
  BY <1>1 DEF DrainSubscribe, Drained, RefusedTrack
<1>4. StTypes /\ Phases BY DEF RequestInv
<1>5. /\ IsState(s) /\ Agree(st, s, {"waiting", "pending"}) /\ s.pending = Drop(st.pending, r)
  BY <1>4 DEF StTypes, IsState, Agree, Fields
<1>6. DOMAIN s.pending = DOMAIN st.pending \ {r} /\ s.out = st.out /\ s.active = st.active
  BY <1>5 DEF Drop, Agree, Fields
<1> HIDE DEF s, sub
<1>7. CASE st' = [st EXCEPT !.pc = "serve"]
  <2>1. IsState(st') /\ Agree(st, st', {"pc"}) BY <1>4, <1>7 DEF StTypes, IsState, Agree, Fields
  <2>2. SameRequests /\ SameDiscovery /\ st'.buffer = st.buffer
    BY <2>1 DEF Agree, Fields, SameRequests, SameDiscovery
  <2> QED BY <1>2, <2>1, <2>2, QuietStep
<1>8. CASE r \notin DOMAIN st.pending /\ st' = s
  <2>1. SameRequests /\ SameDiscovery /\ st'.buffer = st.buffer
    BY <1>5, <1>6, <1>8 DEF Agree, Fields, SameRequests, SameDiscovery
  <2> QED BY <1>2, <1>5, <1>8, <2>1, QuietStep
<1>9. r \in DOMAIN st.pending => st.out[r] = <<>> /\ r \in Ids BY <1>4 DEF Phases, OwnPhase, Phase, Waits
<1>10. ASSUME NEW t, st' = t, IsState(t), r \in DOMAIN st.pending,
              Agree(s, t, {"out", "active", "completed"}),
              \A x \in (Ids \cup {2}) \ {r} : t.out[x] = st.out[x],
              \/ t.out[r] \in {<<"error">>, <<"ok", "done">>} /\ DOMAIN t.active = DOMAIN st.active
              \/ t.out[r] = <<"ok">> /\ DOMAIN t.active = DOMAIN st.active \cup {r}
       PROVE  RequestInv'
  <2>1. /\ t.handled = st.handled /\ t.dormant = st.dormant /\ t.buffer = st.buffer
        /\ t.withdrawn = st.withdrawn /\ DOMAIN t.pending = DOMAIN st.pending \ {r}
    BY <1>5, <1>6, <1>10 DEF Agree, Fields
  <2>2. SameDiscovery BY <1>5, <1>10 DEF Agree, Fields, SameDiscovery
  <2>3. NetTypes' /\ FreshIds' BY <1>2, <1>10, <2>1, NothingTaken DEF RequestInv
  <2>4. Phases' BY <1>2, <1>4, <1>10, <2>1, PhasesDrained
  <2> QED BY <1>2, <1>10, <2>2, <2>3, <2>4, DiscoverySame DEF RequestInv, StTypes
<1>11. CASE r \in DOMAIN st.pending /\ st' = e
  <2>1. IsState(e) /\ Agree(s, e, {"out"}) /\ Told(s, e, r, "error") BY <1>5, AnswerState
  <2> HIDE DEF e
  <2>2. /\ Agree(s, e, {"out", "active", "completed"}) /\ e.active = st.active
    BY <1>6, <2>1 DEF Agree, Fields
  <2>3. e.out[r] = <<"error">> /\ \A x \in (Ids \cup {2}) \ {r} : e.out[x] = st.out[x]
    BY <1>6, <1>9, <1>11, <2>1 DEF Told
  <2> QED BY <1>10, <1>11, <2>1, <2>2, <2>3
<1>12. CASE r \in DOMAIN st.pending /\ st' = Established(a, r, sub)
  <2> DEFINE t == Established(a, r, sub)
  <2>1. IsState(a) /\ Agree(s, a, {"out"}) /\ Told(s, a, r, "ok") BY <1>5, AnswerState
  <2> HIDE DEF a
  <2>2. /\ IsState(t) /\ Agree(a, t, {"active", "out", "completed"})
        /\ \/ t.out = a.out /\ t.active = Put(a.active, r, sub)
           \/ t.active = a.active /\ Told(a, t, r, "done")
    BY <2>1, EstablishedState
  <2>3. st' = t BY <1>12
  <2> HIDE DEF t
  <2>4. Agree(s, t, {"out", "active", "completed"}) /\ a.active = st.active
    BY <1>6, <2>1, <2>2 DEF Agree, Fields
  <2>5. a.out[r] = <<"ok">> /\ \A x \in (Ids \cup {2}) \ {r} : a.out[x] = st.out[x]
    BY <1>6, <1>9, <1>12, <2>1 DEF Told
  <2>6. CASE t.out = a.out /\ t.active = Put(a.active, r, sub)
    <3>1. DOMAIN t.active = DOMAIN st.active \cup {r} BY <2>4, <2>6 DEF Put
    <3> QED BY <1>10, <1>12, <2>2, <2>3, <2>4, <2>5, <2>6, <3>1
  <2>7. CASE t.active = a.active /\ Told(a, t, r, "done")
    <3>1. /\ t.out[r] = <<"ok", "done">>
          /\ \A x \in (Ids \cup {2}) \ {r} : t.out[x] = st.out[x]
      BY <1>9, <1>12, <2>5, <2>7 DEF Told
    <3> QED BY <1>10, <1>12, <2>2, <2>3, <2>4, <2>7, <3>1
  <2> QED BY <2>2, <2>6, <2>7
<1> QED BY <1>3, <1>7, <1>8, <1>11, <1>12

\* Ending a served subscription keeps the invariant.
LEMMA FinalizeSubscriptionStep ==
    ASSUME RequestInv, FinalizeSubscription
    PROVE  RequestInv'
<1>1. PICK r \in Over :
        st' = [FinalizedActive(r) EXCEPT !.pc = IF Over = {r} THEN "poll" ELSE "serve"]
  BY DEF FinalizeSubscription
<1> DEFINE f == Finalized(st, r)
           g == FinalizedActive(r)
<1>2. scenario' = scenario /\ net' = net /\ r \in DOMAIN st.active BY DEF FinalizeSubscription, Over
<1>3. StTypes /\ Phases BY DEF RequestInv
<1>4. IsState(f) /\ Agree(st, f, {"out", "completed"}) /\ Told(st, f, r, "done")
  BY <1>3, FinalizedState DEF StTypes
<1>5. g = [f EXCEPT !.active = Drop(@, r)] BY DEF FinalizedActive
<1> HIDE DEF f, g
<1>6. /\ IsState(g) /\ Agree(f, g, {"active"}) /\ g.active = Drop(f.active, r)
  BY <1>4, <1>5 DEF IsState, Agree, Fields
<1>7. IsState(st') /\ Agree(g, st', {"pc"})
  <2> DEFINE v == IF Over = {r} THEN "poll" ELSE "serve"
  <2>1. st' = [g EXCEPT !.pc = v] BY <1>1 DEF g
  <2> HIDE DEF v
  <2> QED BY <1>6, <2>1 DEF IsState, Agree, Fields
<1>8. /\ st'.handled = st.handled /\ st'.dormant = st.dormant /\ st'.buffer = st.buffer
      /\ st'.pending = st.pending /\ st'.withdrawn = st.withdrawn /\ st'.out = f.out
      /\ st'.active = Drop(st.active, r) /\ SameDiscovery
  BY <1>4, <1>6, <1>7 DEF Agree, Fields, SameDiscovery
<1>9. Told(st, st', r, "done") /\ DOMAIN st'.active = DOMAIN st.active \ {r} BY <1>4, <1>8 DEF Told, Drop
<1>10. OwnPhase /\ (r \in Ids => Phase(r)) /\ 2 \notin Ids BY <1>3, IdFacts DEF Phases
<1>11. OwnPhase'
  <2>1. CASE r # 2
    <3>1. st'.out[2] = st.out[2] BY <1>9, <2>1 DEF Told
    <3> QED BY <1>2, <1>8, <1>9, <1>10, <2>1, <3>1 DEF OwnPhase, draft
  <2>2. CASE r = 2
    <3>1. st.out[2] = <<>> /\ st'.out[2] = Append(st.out[2], "done")
          /\ 2 \notin DOMAIN st'.active /\ (draft <= 16 => 2 \notin st.dormant)
      BY <1>2, <1>9, <1>10, <2>2 DEF OwnPhase, Told
    <3>2. Append(<<>>, "done") = <<"done">> OBVIOUS
    <3> QED BY <1>2, <1>8, <1>10, <3>1, <3>2 DEF OwnPhase, draft
  <2> QED BY <2>1, <2>2
<1>12. ASSUME r \in Ids PROVE Phase(r)'
  <2>1. st.out[r] = <<"ok">> /\ r \in st.handled BY <1>2, <1>10, <1>12 DEF Phase, Serving
  <2>2. <<>> # <<"ok">> OBVIOUS
  <2>3. r \notin DOMAIN st.pending BY <1>10, <1>12, <2>1, <2>2 DEF Phase, Waits
  <2>4. st'.out[r] = <<"ok", "done">> /\ r \notin DOMAIN st'.active BY <1>9, <1>12, <2>1 DEF Told
  <2> QED BY <1>8, <2>1, <2>3, <2>4 DEF Phase, Answered
<1>13. Phases'
  <2>1. \A x \in Ids \ {r} : x \in DOMAIN st'.active <=> x \in DOMAIN st.active BY <1>9
  <2>2. \A x \in Ids \ {r} : st'.out[x] = st.out[x] BY <1>9 DEF Told
  <2> QED BY <1>3, <1>8, <1>11, <1>12, <2>1, <2>2, PhasesChanged
<1>14. NetTypes' /\ FreshIds' BY <1>2, <1>8, NothingTaken DEF RequestInv
<1> QED BY <1>2, <1>7, <1>8, <1>13, <1>14, DiscoverySame DEF RequestInv, StTypes

(* ---- the peer ---- *)

\* The next id of the peer is one of Ids while it may ask.
LEMMA NextId ==
    ASSUME RequestInv, net.next < 2 * scenario.max
    PROVE  net.next \in Ids /\ net.next + 2 \in {2 * i - 1 : i \in Nat \ {0}}
<1>1. PICK i \in Nat \ {0} : net.next = 2 * i - 1 BY DEF RequestInv, NetTypes
<1>2. scenario.max \in 0..MaxRequests /\ MaxRequests \in Nat BY RequestsAssumption DEF RequestInv
<1>3. i \in 1..MaxRequests BY <1>1, <1>2
<1>4. i + 1 \in Nat \ {0} /\ net.next + 2 = 2 * (i + 1) - 1 BY <1>1
<1> QED BY <1>1, <1>3, <1>4 DEF Ids

\* What is appended to the inbox is appended to the control stream.
LEMMA InboxGrows ==
    ASSUME NetTypes, StTypes, NEW m \in Messages, st' = st,
           net'.inbox = Append(net.inbox, m), net'.streams = net.streams,
           net'.requestIn = net.requestIn
    PROVE  Line(2)' = Append(Line(2), m) /\ \A l \in Lines \ {2} : Line(l)' = Line(l)
<1> DEFINE a == st.buffer
           b == net.inbox
<1>1. a \in Seq(Messages) /\ b \in Seq(Messages) BY DEF NetTypes, StTypes, IsState
<1>2. Line(2) = a \o b /\ Line(2)' = a \o Append(b, m) BY DEF Line
<1>3. \A l \in Lines \ {2} : Line(l)' = Line(l) BY DEF Line, Lines
<1> HIDE DEF a, b
<1>4. Append(b, m) = b \o <<m>> /\ <<m>> \in Seq(Messages) BY <1>1, AppendIsConcat
<1>5. a \o b \in Seq(Messages) BY <1>1
<1>6. Append(a \o b, m) = (a \o b) \o <<m>> BY <1>5, AppendIsConcat
<1>7. (a \o b) \o <<m>> = a \o (b \o <<m>>) BY <1>1, <1>4, ConcatAssociative
<1> QED BY <1>2, <1>3, <1>4, <1>6, <1>7

\* A request of the peer is under way.
LEMMA SendStep ==
    ASSUME RequestInv, scenario' = scenario, st' = st, net.next < 2 * scenario.max,
           NEW m \in Messages, m.id = net.next, IsRequest(m), m.kind = "tracks" => draft >= 18,
           m.kind = "update" /\ UsesRequestStreams => m.existing \in Ids, Send(m)
    PROVE  RequestInv'
<1>1. NetTypes /\ StTypes /\ FreshIds /\ Phases /\ Discovery BY DEF RequestInv
<1>2. net.next \in Ids /\ net.next + 2 \in {2 * i - 1 : i \in Nat \ {0}}
      /\ net.next \in Nat /\ net.next + 2 \in Nat
  BY NextId, IdFacts
<1> DEFINE c == [net EXCEPT !.next = @ + 2, !.asked = Put(@, m.id, m)]
<1>3. /\ c = [f \in DOMAIN net |-> c[f]] /\ DOMAIN c = DOMAIN net
      /\ c.next = net.next + 2 /\ c.asked = Put(net.asked, m.id, m)
      /\ c.inbox = net.inbox /\ c.streams = net.streams /\ c.requestIn = net.requestIn
  BY <1>1 DEF NetTypes
<1>4. \/ /\ m.existing \in Ids
         /\ net' = [c EXCEPT !.requestIn[m.existing] = Append(@, m)]
      \/ net' = [c EXCEPT !.streams = Append(@, m)]
      \/ net' = [c EXCEPT !.inbox = Append(@, m)]
  BY DEF Send
<1> HIDE DEF c
<1>5. DOMAIN Put(net.asked, m.id, m) \subseteq Ids
  <2>1. DOMAIN Put(net.asked, m.id, m) = DOMAIN net.asked \cup {m.id} BY DEF Put
  <2>2. DOMAIN net.asked \subseteq Ids /\ m.id \in Ids BY <1>1, <1>2 DEF NetTypes
  <2> QED BY <2>1, <2>2
<1>6. PICK id : id = m.existing OBVIOUS
<1>7. SameRequests /\ SameDiscovery /\ StTypes' BY <1>1 DEF SameRequests, SameDiscovery, StTypes
<1>8. ASSUME NetTypes', FreshIds' PROVE RequestInv'
  BY <1>1, <1>7, <1>8, PhasesSame, DiscoverySame DEF RequestInv
<1>9. CASE id \in Ids /\ net' = [c EXCEPT !.requestIn[id] = Append(@, m)]
  <2>1. /\ net' = [f \in DOMAIN net' |-> net'[f]] /\ DOMAIN net' = DOMAIN net
        /\ net'.inbox = net.inbox /\ net'.streams = net.streams
        /\ net'.requestIn = [net.requestIn EXCEPT ![id] = Append(@, m)]
        /\ net'.next = net.next + 2 /\ net'.asked = Put(net.asked, m.id, m)
    BY <1>1, <1>3, <1>9 DEF NetTypes
  <2>2. net.requestIn \in [Ids -> Seq(Messages)] BY <1>1 DEF NetTypes
  <2>3. Append(net.requestIn[id], m) \in Seq(Messages) BY <1>9, <2>2
  <2>4. net'.requestIn \in [Ids -> Seq(Messages)]
    <3> DEFINE S == Seq(Messages)
               v == Append(net.requestIn[id], m)
               old == net.requestIn
    <3>1. v \in S /\ old \in [Ids -> S] /\ net'.requestIn = [old EXCEPT ![id] = v] BY <2>1, <2>2, <2>3
    <3> HIDE DEF S, v, old
    <3>2. net'.requestIn \in [Ids -> S] BY <3>1
    <3> QED BY <3>2 DEF S
  <2>5. NetTypes' BY <1>1, <1>2, <1>5, <2>1, <2>4 DEF NetTypes
  <2>6. /\ id # 0 /\ id # 2 /\ id \in Lines
        /\ Line(id)' = Append(Line(id), m) /\ \A l \in Lines \ {id} : Line(l)' = Line(l)
    <3>1. id # 0 /\ id # 2 /\ id \in Lines BY <1>9, IdFacts DEF Lines
    <3>2. net'.requestIn[id] = Append(net.requestIn[id], m)
          /\ \A l \in Ids \ {id} : net'.requestIn[l] = net.requestIn[l]
      BY <1>9, <2>1, <2>2
    <3> QED BY <1>9, <2>1, <3>1, <3>2 DEF Line, Lines
  <2>7. net'.next \in Nat /\ net'.next > net.next BY <1>2, <2>1
  <2>8. FreshIds' BY <1>1, <1>2, <2>6, <2>7, LineGrows
  <2> QED BY <1>8, <2>5, <2>8
<1>10. CASE net' = [c EXCEPT !.streams = Append(@, m)]
  <2>1. /\ net' = [f \in DOMAIN net' |-> net'[f]] /\ DOMAIN net' = DOMAIN net
        /\ net'.inbox = net.inbox /\ net'.streams = Append(net.streams, m)
        /\ net'.requestIn = net.requestIn
        /\ net'.next = net.next + 2 /\ net'.asked = Put(net.asked, m.id, m)
    BY <1>1, <1>3, <1>10 DEF NetTypes
  <2>2. Append(net.streams, m) \in Seq(Messages) BY <1>1 DEF NetTypes
  <2>3. NetTypes' BY <1>1, <1>2, <1>5, <2>1, <2>2 DEF NetTypes
  <2>4. /\ 0 \in Lines /\ 0 \notin Ids
        /\ Line(0)' = Append(Line(0), m) /\ \A l \in Lines \ {0} : Line(l)' = Line(l)
    BY <2>1, IdFacts DEF Line, Lines
  <2>5. net'.next \in Nat /\ net'.next > net.next BY <1>2, <2>1
  <2>6. FreshIds' BY <1>1, <1>2, <2>4, <2>5, LineGrows
  <2> QED BY <1>8, <2>3, <2>6
<1>11. CASE net' = [c EXCEPT !.inbox = Append(@, m)]
  <2>1. /\ net' = [f \in DOMAIN net' |-> net'[f]] /\ DOMAIN net' = DOMAIN net
        /\ net'.inbox = Append(net.inbox, m) /\ net'.streams = net.streams
        /\ net'.requestIn = net.requestIn
        /\ net'.next = net.next + 2 /\ net'.asked = Put(net.asked, m.id, m)
    BY <1>1, <1>3, <1>11 DEF NetTypes
  <2>2. Append(net.inbox, m) \in Seq(Messages) BY <1>1 DEF NetTypes
  <2>3. NetTypes' BY <1>1, <1>2, <1>5, <2>1, <2>2 DEF NetTypes
  <2>4. 2 \in Lines /\ 2 \notin Ids BY IdFacts DEF Lines
  <2>5. Line(2)' = Append(Line(2), m) /\ \A l \in Lines \ {2} : Line(l)' = Line(l) BY <1>1, <2>1, InboxGrows
  <2>6. net'.next \in Nat /\ net'.next > net.next BY <1>2, <2>1
  <2>7. FreshIds' BY <1>1, <1>2, <2>4, <2>5, <2>6, LineGrows
  <2> QED BY <1>8, <2>3, <2>7
<1> QED BY <1>4, <1>6, <1>9, <1>10, <1>11

\* So is an UNSUBSCRIBE or a GOAWAY.
LEMMA SendEndStep ==
    ASSUME RequestInv, scenario' = scenario, st' = st, NEW m \in Messages, ~IsRequest(m),
           m.kind # "tracks", SendEnd(m)
    PROVE  RequestInv'
<1>1. NetTypes /\ StTypes /\ FreshIds /\ Phases /\ Discovery BY DEF RequestInv
<1>2. /\ net' = [f \in DOMAIN net' |-> net'[f]] /\ DOMAIN net' = DOMAIN net
      /\ net'.inbox = Append(net.inbox, m) /\ net'.streams = net.streams
      /\ net'.requestIn = net.requestIn /\ net'.next = net.next /\ net'.asked = net.asked
  BY <1>1 DEF NetTypes, SendEnd
<1>3. Append(net.inbox, m) \in Seq(Messages) /\ net.next \in Nat BY <1>1 DEF NetTypes
<1>4. NetTypes' BY <1>1, <1>2, <1>3 DEF NetTypes
<1>5. 2 \in Lines /\ 2 \notin Ids BY IdFacts DEF Lines
<1>6. Line(2)' = Append(Line(2), m) /\ \A l \in Lines \ {2} : Line(l)' = Line(l) BY <1>1, <1>2, InboxGrows
<1>7. FreshIds' BY <1>1, <1>2, <1>3, <1>5, <1>6, LineGrows
<1>8. SameRequests /\ SameDiscovery /\ StTypes' BY <1>1 DEF SameRequests, SameDiscovery, StTypes
<1> QED BY <1>1, <1>4, <1>7, <1>8, PhasesSame, DiscoverySame DEF RequestInv

\* A new request of the peer keeps the invariant.
LEMMA PeerRequestStep ==
    ASSUME RequestInv, PeerRequest
    PROVE  RequestInv'
<1>1. /\ net.next < 2 * scenario.max /\ scenario' = scenario /\ st' = st
      /\ net.next \in Nat /\ DOMAIN net.asked \subseteq Ids
  BY NextId, IdFacts DEF PeerRequest, RequestInv, NetTypes
<1>2. ASSUME NEW kind \in {"subscribe", "namespace", "tracks", "fetch", "status"},
             NEW arg \in Args, NEW f \in {0, 1}, kind = "tracks" => draft >= 18,
             Send(Message(kind, arg, f, 0))
      PROVE  RequestInv'
  <2> DEFINE m == Message(kind, arg, f, 0)
  <2>1. /\ m \in Messages /\ m.id = net.next /\ m.kind = kind BY <1>1 DEF Message, Messages
  <2> HIDE DEF m
  <2>2. IsRequest(m) /\ m.kind # "update" BY <2>1 DEF IsRequest
  <2>3. Send(m) BY <1>2 DEF m
  <2> QED BY <1>1, <1>2, <2>1, <2>2, <2>3, SendStep
<1>3. CASE \E t \in Tracks \cup {"unknown"}, f \in {0, 1} : Send(Message("subscribe", t, f, 0))
  BY <1>2, <1>3 DEF Args
<1>4. CASE \E p \in AskedPrefixes : Send(Message("namespace", p, 0, 0)) BY <1>2, <1>4 DEF Args
<1>5. CASE \E p \in AskedPrefixes, f \in {0, 1} : draft >= 18 /\ Send(Message("tracks", p, f, 0))
  BY <1>2, <1>5 DEF Args
<1>6. CASE \E j \in Open({"subscribe"}) : Send(Message("fetch", j, 0, 0))
  <2>1. \A j \in Open({"subscribe"}) : j \in Args BY <1>1 DEF Open, Args
  <2> QED BY <1>2, <1>6, <2>1
<1>7. CASE \E t \in Tracks \cup {"unknown"} : Send(Message("status", t, 0, 0)) BY <1>2, <1>7 DEF Args
<1> QED BY <1>3, <1>4, <1>5, <1>6, <1>7 DEF PeerRequest

\* An update the peer sends keeps the invariant.
LEMMA PeerUpdateStep ==
    ASSUME RequestInv, PeerUpdate
    PROVE  RequestInv'
<1>1. /\ net.next < 2 * scenario.max /\ scenario' = scenario /\ st' = st
      /\ net.next \in Nat /\ DOMAIN net.asked \subseteq Ids
  BY NextId, IdFacts DEF PeerUpdate, RequestInv, NetTypes
<1>2. ASSUME NEW arg \in Args, NEW f \in {0, 1}, NEW r \in Ids \cup {2},
             r = 2 => draft <= 16, Send(Message("update", arg, f, r))
      PROVE  RequestInv'
  <2> DEFINE m == Message("update", arg, f, r)
  <2>1. /\ m \in Messages /\ m.id = net.next /\ m.kind = "update" /\ m.existing = r
    BY <1>1 DEF Message, Messages
  <2> HIDE DEF m
  <2>2. IsRequest(m) BY <2>1 DEF IsRequest
  <2>3. Send(m) BY <1>2 DEF m
  <2>4. draft \in Nat BY RequestsAssumption DEF RequestInv, draft
  <2>5. UsesRequestStreams => m.existing \in Ids BY <1>2, <2>1, <2>4 DEF UsesRequestStreams
  <2> QED BY <1>1, <2>1, <2>2, <2>3, <2>5, SendStep
<1>3. CASE \E r \in Open({"subscribe"}) \cup (st.dormant \cap {2}), f, g \in {0, 1} :
             (r = 2 => draft <= 16) /\ Send(Message("update", g, f, r))
  <2>1. PICK r \in Open({"subscribe"}) \cup (st.dormant \cap {2}), f \in {0, 1}, g \in {0, 1} :
          (r = 2 => draft <= 16) /\ Send(Message("update", g, f, r))
    BY <1>3
  <2>2. r \in Ids \cup {2} /\ g \in Args BY <1>1, <2>1 DEF Open, Args
  <2> QED BY <1>2, <2>1, <2>2
<1>4. CASE \E r \in Open({"namespace", "tracks"}), f \in {0, 1}, p \in AskedPrefixes :
             Send(Message("update", p, IF net.asked[r].kind = "tracks" THEN f ELSE 0, r))
  <2>1. PICK r \in Open({"namespace", "tracks"}), f \in {0, 1}, p \in AskedPrefixes :
          Send(Message("update", p, IF net.asked[r].kind = "tracks" THEN f ELSE 0, r))
    BY <1>4
  <2> DEFINE v == IF net.asked[r].kind = "tracks" THEN f ELSE 0
  <2>2. r \in Ids /\ r # 2 /\ p \in Args /\ v \in {0, 1} BY <1>1, <2>1, IdFacts DEF Open, Args
  <2>3. Send(Message("update", p, v, r)) BY <2>1
  <2> HIDE DEF v
  <2> QED BY <1>2, <2>2, <2>3
<1> QED BY <1>3, <1>4 DEF PeerUpdate

\* UNSUBSCRIBE and GOAWAY keep the invariant while they are under way.
LEMMA PeerEndStep ==
    ASSUME RequestInv, PeerUnsubscribe \/ PeerGoaway
    PROVE  RequestInv'
<1>1. /\ scenario' = scenario /\ st' = st /\ net.next \in Nat /\ DOMAIN net.asked \subseteq Ids
  BY DEF PeerUnsubscribe, PeerGoaway, RequestInv, NetTypes
<1>2. PICK kind \in {"unsubscribe", "goaway"}, r \in Ids \cup {0} :
        SendEnd(Message(kind, 0, 0, r))
  BY <1>1 DEF PeerUnsubscribe, PeerGoaway
<1> DEFINE m == Message(kind, 0, 0, r)
<1>3. m \in Messages /\ m.kind = kind BY <1>1 DEF Message, Messages, Args
<1> HIDE DEF m
<1>4. ~IsRequest(m) /\ m.kind # "tracks" BY <1>3 DEF IsRequest
<1>5. SendEnd(m) BY <1>2 DEF m
<1> QED BY <1>1, <1>3, <1>4, <1>5, SendEndStep

(* ---- the invariant ---- *)

\* The invariant holds when serve_subscriptions is entered.
LEMMA RequestInit ==
    ASSUME Init
    PROVE  RequestInv
<1>1. NetTypes
  <2>1. 1 = 2 * 1 - 1 /\ 1 \in Nat \ {0} OBVIOUS
  <2>2. DOMAIN net = {"inbox", "streams", "requestIn", "next", "asked", "ended"}
        /\ net = [f \in DOMAIN net |-> net[f]] /\ net.inbox = <<>> /\ net.streams = <<>>
        /\ net.requestIn = [r \in Ids |-> <<>>] /\ net.next = 1 /\ net.asked = <<>>
    BY DEF Init
  <2>3. net.inbox \in Seq(Messages) /\ net.streams \in Seq(Messages) BY <2>2
  <2>4. net.requestIn \in [Ids -> Seq(Messages)]
    <3>1. <<>> \in Seq(Messages) OBVIOUS
    <3> QED BY <2>2, <3>1, Zenon
  <2>5. net.next \in {2 * i - 1 : i \in Nat \ {0}} BY <2>1, <2>2
  <2>6. DOMAIN net.asked \subseteq Ids BY <2>2
  <2> QED BY <2>2, <2>3, <2>4, <2>5, <2>6 DEF NetTypes
<1> DEFINE first == CASE scenario.entered = "catalog" -> <<2>>
                      [] scenario.entered = "downgraded" -> OwnSequence(2)
                      [] OTHER -> <<>>
           next == IF scenario.entered = "catalog" THEN 4 ELSE 2
           own == st.own
<1>2. /\ st = [f \in Fields |-> st[f]] /\ st.buffer = <<>> /\ st.handled = {}
      /\ st.published = [r \in Ids |-> 0] /\ st.own = first /\ st.ownNext = next
      /\ st.out = [r \in Ids \cup {2} |-> <<>>] /\ st.pending = <<>> /\ st.active = <<>>
      /\ st.dormant = (IF scenario.entered = "catalog" THEN {2} ELSE {})
      /\ st.discovery = <<>>
  BY DEF Init, Fields
<1>21. st.handled = {} /\ DOMAIN st.pending = {} /\ DOMAIN st.active = {} BY DEF Init
<1>22. st.buffer = <<>> BY DEF Init
<1>23. st.dormant \subseteq {2} BY DEF Init
<1>24. \A r \in Ids \cup {2} : st.out[r] = <<>> BY DEF Init
<1>3. scenario \in Scenarios /\ scenario.entered \in {"await", "catalog", "downgraded"}
  BY RequestsAssumption DEF Init
<1>4. \/ scenario.entered = "catalog" /\ own = <<2>> /\ st.ownNext = 4
      \/ scenario.entered = "downgraded" /\ own = OwnSequence(2) /\ st.ownNext = 2
      \/ scenario.entered = "await" /\ own = <<>> /\ st.ownNext = 2
  BY <1>2, <1>3
<1>5. own \in Seq(Nat) /\ st.ownNext \in Nat
  <2>1. OwnSequence(2) \in Seq(Nat) /\ 2 \in Nat /\ 4 \in Nat BY OwnSequenceFacts
  <2>2. <<2>> \in Seq(Nat) /\ <<>> \in Seq(Nat) OBVIOUS
  <2> QED BY <1>4, <2>1, <2>2, Zenon
<1> HIDE DEF own, first, next
<1>6. StTypes
  <2>1. st.buffer \in Seq(Messages) /\ st.handled \subseteq Ids BY <1>21, <1>22
  <2>2. st.published \in [Ids -> Nat] /\ st.out = [r \in Ids \cup {2} |-> st.out[r]] BY <1>2
  <2>3. st.own \in Seq(Nat) /\ st.ownNext \in Nat BY <1>5 DEF own
  <2> QED BY <1>2, <2>1, <2>2, <2>3 DEF StTypes, IsState
<1>7. \A r \in Ids : net.requestIn[r] = <<>> BY DEF Init
<1>8. FreshIds
  <2>1. \A l \in Lines : Line(l) = <<>> BY <1>2, <1>7 DEF Init, Lines, Line
  <2>2. \A l \in Lines : \A i \in 1..Len(Line(l)) : FALSE BY <2>1
  <2> QED BY <1>21, <2>2 DEF FreshIds
<1>9. Phases
  <2> QED BY <1>21, <1>23, <1>24 DEF Phases, OwnPhase, Phase, Unread
<1>10. DiscoveryKept /\ NoPrefixOverlap BY <1>2 DEF DiscoveryKept, NoPrefixOverlap
<1>11. OwnIssued
  <2>1. CASE scenario.entered = "catalog" BY <1>4, <2>1 DEF OwnIssued, Issued, own
  <2>2. CASE scenario.entered = "await" BY <1>4, <2>2 DEF OwnIssued, Issued, own
  <2> QED BY <1>3, <2>1, <2>2 DEF OwnIssued
<1> QED BY <1>1, <1>3, <1>6, <1>8, <1>9, <1>10, <1>11 DEF RequestInv, Discovery

\* Every step keeps it.
LEMMA RequestStep ==
    ASSUME RequestInv, [Next]_vars
    PROVE  RequestInv'
<1>1. CASE PeerRequest BY <1>1, PeerRequestStep
<1>2. CASE PeerUpdate BY <1>2, PeerUpdateStep
<1>3. CASE PeerUnsubscribe BY <1>3, PeerEndStep
<1>4. CASE PeerGoaway BY <1>4, PeerEndStep
<1>5. CASE AcceptSubscribe BY <1>5, AcceptSubscribeStep
<1>6. CASE AcceptNamespace BY <1>6, NamespaceStep DEF AcceptNamespace
<1>7. CASE AcceptDraft16Namespace BY <1>7, NamespaceStep DEF AcceptDraft16Namespace
<1>8. CASE AcceptTracks BY <1>8, AcceptTracksStep
<1>9. CASE AcceptFetch BY <1>9, AcceptFetchStep
<1>10. CASE AcceptStatus BY <1>10, AcceptStatusStep
<1>11. CASE SubscribeUpdate BY <1>11, SubscribeUpdateStep
<1>12. CASE DiscoveryUpdate BY <1>12, DiscoveryUpdateStep
<1>13. CASE PollDone BY <1>13, PollDoneStep
<1>14. CASE ControlSubscribe BY <1>14, ControlSubscribeStep
<1>15. CASE ControlNamespace BY <1>15, ControlNamespaceStep
<1>16. CASE ControlUnsupported BY <1>16, ControlUnsupportedStep
<1>17. CASE ControlUpdate BY <1>17, ControlUpdateStep
<1>18. CASE ControlSubscribeUpdate BY <1>18, ControlSubscribeUpdateStep
<1>19. CASE ControlUnsubscribe BY <1>19, ControlUnsubscribeStep
<1>20. CASE ControlGoaway BY <1>20, ControlGoawayStep
<1>21. CASE ControlDone BY <1>21, ControlDoneStep
<1>22. CASE DrainSubscribe BY <1>22, DrainSubscribeStep
<1>23. CASE FinalizeSubscription BY <1>23, FinalizeSubscriptionStep
<1>24. CASE ServeObject BY <1>24, ServeObjectStep
<1>25. CASE ReadControl BY <1>25, ReadControlStep
<1>26. CASE IdleExit BY <1>26, IdleExitStep
<1>27. CASE UNCHANGED vars
  <2>1. scenario' = scenario /\ st' = st /\ net' = net BY <1>27 DEF vars
  <2>2. SameRequests /\ SameDiscovery /\ IsState(st')
    BY <2>1 DEF SameRequests, SameDiscovery, RequestInv, StTypes
  <2> QED BY <2>1, <2>2, QuietStep
<1> QED BY <1>1, <1>2, <1>3, <1>4, <1>5, <1>6, <1>7, <1>8, <1>9, <1>10, <1>11, <1>12,
           <1>13, <1>14, <1>15, <1>16, <1>17, <1>18, <1>19, <1>20, <1>21, <1>22, <1>23,
           <1>24, <1>25, <1>26, <1>27
        DEF Next, Peer, Session

\* Whatever updates, withdrawals, unsubscriptions and completions cross each
\* other in serve_subscriptions, each request the peer makes is refused once,
\* or accepted once and ended by at most one PUBLISH_DONE after which nothing
\* is sent on it; and what was read from a stream is answered, still waits for
\* the control stream to be read empty, or was withdrawn by the peer.
THEOREM EveryRequestAnsweredWell == Spec => []AnswersSound
<1>1. RequestInv => AnswersSound
  <2> SUFFICES ASSUME RequestInv PROVE AnswersSound OBVIOUS
  <2>1. Phases /\ st.handled \subseteq Ids BY DEF RequestInv, StTypes, IsState
  <2>2. AnswersWellFormed
    BY <2>1 DEF AnswersWellFormed, Phases, OwnPhase, Phase, Unread, Waits, Serving, Answered, Withdrawn
  <2>3. ReadIsAnswered
    <3> SUFFICES ASSUME NEW r \in st.handled
                 PROVE  st.out[r] # <<>> \/ r \in DOMAIN st.pending \/ r \in st.withdrawn
      BY DEF ReadIsAnswered
    <3>1. Phase(r) BY <2>1 DEF Phases
    <3>2. <<>> # <<"ok">> /\ <<>> # <<"error">> /\ <<>> # <<"ok", "done">> OBVIOUS
    <3> QED BY <3>1, <3>2 DEF Phase, Unread, Waits, Serving, Answered, Withdrawn
  <2> QED BY <2>2, <2>3 DEF AnswersSound
<1> QED BY <1>1, RequestInit, RequestStep, PTL DEF Spec

\* The discovery requests a session keeps never contradict each other, also
\* after their prefixes were updated: on draft 22 no two namespaces, on drafts
\* 22 and 23 no two SUBSCRIBE_TRACKS in force overlap.  On draft 23 one
\* SUBSCRIBE_TRACKS publishes the tracks once, however often it is updated,
\* and no two PUBLISHes of ours have the same request id, unless the session
\* was entered from forward_published_tracks.
THEOREM DiscoveryNeverContradicts == Spec => []DiscoverySound
<1>1. RequestInv => DiscoverySound
  <2> SUFFICES ASSUME RequestInv PROVE DiscoverySound OBVIOUS
  <2>1. Discovery /\ st.published \in [Ids -> Nat] /\ st.own \in Seq(Nat)
    BY DEF RequestInv, StTypes, IsState
  <2>2. PublishedOnce
    <3> SUFFICES ASSUME draft >= 23, NEW r \in Ids PROVE st.published[r] <= 1 BY DEF PublishedOnce
    <3>1. /\ r \notin DOMAIN st.discovery => st.published[r] = 0
          /\ r \in DOMAIN st.discovery =>
               st.published[r] <= IF st.discovery[r].published THEN 1 ELSE 0
      BY <2>1 DEF Discovery, DiscoveryKept
    <3>2. st.published[r] \in Nat BY <2>1
    <3> QED BY <3>1, <3>2
  <2>3. OwnIdsUnique BY <2>1 DEF Discovery, OwnIssued, Issued, OwnIdsUnique, IsInjective
  <2> QED BY <2>1, <2>2, <2>3 DEF Discovery, DiscoverySound
<1> QED BY <1>1, RequestInit, RequestStep, PTL DEF Spec

(* ---- streams of the peer ---- *)

\* The records of the receiving side.
Connections ==
  [loop : {"starting", "ready", "exited"}, up : BOOLEAN, connected : BOOLEAN,
   failed : BOOLEAN, disconnected : BOOLEAN, close : BOOLEAN, protocol : BOOLEAN,
   told : BOOLEAN, state : {"connecting", "connected", "failed", "closed"}]
Entries == [bytes : Seq(Nat), fin : BOOLEAN]
Stores == UNION {[D -> Entries] : D \in SUBSET (Streams \cup {Media, ConnectId})}
Openings ==
  [id : {Request, Media}, call : {"none", "ok", "failed", "waits"},
   record : {"none", "pending", "done", "failed"}, streams : SUBSET {Request, Media}]
Senders ==
  [sent : [Streams -> Nat], end : [Streams -> {"open", "fin", "reset"}],
   stop : BOOLEAN, closed : BOOLEAN]
Polls == UNION {[D -> [prefix : Nat, typed : BOOLEAN]] : D \in SUBSET PeerUni}
Readers ==
  [pc : {"accept", "read", "over"}, todo : SUBSET PeerUni, streams : Polls,
   order : Seq(PeerUni), taken : [Streams -> Seq(Nat)], fins : SUBSET Streams,
   fault : Nat, why : {"none", "error", "peer", "close"}]

PeerTypes ==
  /\ streams \in StreamScenarios /\ types \in [streams.uni -> Types]
  /\ conn \in Connections /\ received \in Stores /\ accepted \in SUBSET PeerUni
  /\ open \in Openings /\ peer \in Senders /\ session \in Readers
  /\ closer \in {"none", "waits", "returned"}

\* The first n bytes of a stream.
Leading(n) == [i \in 1..n |-> i]

\* A stream of which t was read and d is stored, f says that its FIN was read:
\* together they are the n bytes that were sent, and the FIN is real unless a
\* STOP_SENDING counts for one.
Carried(t, d, f, n, end, stopped) ==
  /\ t \o d.bytes = Leading(n)
  /\ (f \/ d.fin) /\ ~stopped => end # "open"
  /\ end = "fin" => f \/ d.fin
  /\ f /\ ~stopped => Len(t) = n

\* The peer asked to stop this stream of an HTTP/3 session.
StoppedByPeer(s) == http3 /\ s = Request /\ peer.stop

StreamsCarried ==
  \A s \in Streams :
    Carried(session.taken[s], Received(s), s \in session.fins, peer.sent[s], peer.end[s],
            StoppedByPeer(s))

\* The session's own stream; what is stored is of streams that there are.
StoredKnown ==
  /\ open.id = streams.own /\ open.streams \subseteq {open.id}
  /\ DOMAIN received \cap PeerUni \subseteq streams.uni
  /\ Media \in DOMAIN received => Media \in open.streams

TakenUp ==
  /\ AcceptedOnce /\ accepted \subseteq streams.uni
  /\ DOMAIN session.streams \subseteq accepted /\ session.todo \subseteq DOMAIN session.streams
  /\ \A s \in PeerUni \ accepted : session.taken[s] = <<>>

\* The type of a stream, once enough of it was read, is one the draft knows.
Good(s, x) == Len(x.taken[s]) >= types[s].size /\ types[s].known

TypesKnown ==
  /\ session.fault # 0 =>
       /\ session.pc = "over" /\ session.fault \in DOMAIN session.streams
       /\ ~Good(session.fault, session)
  /\ \A s \in accepted \ {session.fault} :
       IF s \in DOMAIN session.streams
       THEN /\ session.streams[s].prefix = Min({PrefixLimit, Len(session.taken[s])})
            /\ session.streams[s].typed => Good(s, session)
       ELSE Good(s, session)

\* Who ended the session, and why it may still be used.
EndKnown ==
  /\ conn.told => peer.closed /\ conn.disconnected
  /\ conn.state = "connected" => conn.connected
  /\ closer # "none" => conn.close
  /\ session.why = "peer" =>
       peer.closed /\ (conn.close \/ (conn.state = "connected" /\ conn.disconnected))

PeerInv == StreamsCarried /\ StoredKnown /\ TakenUp /\ TypesKnown /\ EndKnown

(* ---- its data ---- *)

Entry(f, s) == IF s \in DOMAIN f THEN f[s] ELSE NoData

\* The n bytes after the first m.
Following(m, n) == [i \in 1..n |-> m + i]

LEMMA NoDataTyped == NoData \in Entries
  BY DEF NoData, Entries

LEMMA EntryTyped ==
    ASSUME NEW f \in Stores, NEW s
    PROVE  Entry(f, s) \in Entries /\ Entry(f, s).bytes \in Seq(Nat) /\ Entry(f, s).fin \in BOOLEAN
  BY NoDataTyped DEF Entry, Stores, Entries

\* An entry of received_streams is replaced, or erased.
LEMMA StoreFacts ==
    ASSUME PeerTypes, NEW s \in Streams \cup {Media, ConnectId}, NEW d \in Entries
    PROVE  /\ Store(s, d) \in Stores /\ DOMAIN Store(s, d) = DOMAIN received \cup {s}
           /\ \A r : Entry(Store(s, d), r) = IF r = s THEN d ELSE Entry(received, r)
<1> DEFINE f == Store(s, d)
<1>1. f = [r \in {s} \cup DOMAIN received |-> IF r = s THEN d ELSE received[r]] BY DEF Store, With
<1>2. \A r \in DOMAIN received : received[r] \in Entries /\ r \in Streams \cup {Media, ConnectId}
  BY DEF PeerTypes, Stores
<1> HIDE DEF f
<1>3. f \in Stores
  <2>1. f \in [{s} \cup DOMAIN received -> Entries] BY <1>1, <1>2
  <2> QED BY <1>2, <2>1 DEF Stores
<1>4. DOMAIN f = DOMAIN received \cup {s} BY <1>1
<1>5. \A r : Entry(f, r) = IF r = s THEN d ELSE Entry(received, r) BY <1>1 DEF Entry
<1> QED BY <1>3, <1>4, <1>5 DEF f

LEMMA ErasedFacts ==
    ASSUME PeerTypes, NEW s
    PROVE  /\ Erased(s) \in Stores /\ DOMAIN Erased(s) = DOMAIN received \ {s}
           /\ \A r : Entry(Erased(s), r) = IF r = s THEN NoData ELSE Entry(received, r)
<1>1. \A r \in DOMAIN received : received[r] \in Entries /\ r \in Streams \cup {Media, ConnectId}
  BY DEF PeerTypes, Stores
<1>2. Erased(s) \in [DOMAIN received \ {s} -> Entries] BY <1>1 DEF Erased
<1>3. \A r : Entry(Erased(s), r) = IF r = s THEN NoData ELSE Entry(received, r) BY DEF Entry, Erased
<1> QED BY <1>1, <1>2, <1>3 DEF Stores, Erased

LEMMA FollowingTyped ==
    ASSUME NEW m \in Nat, NEW n \in Nat
    PROVE  /\ Following(m, n) \in Seq(Nat) /\ Len(Following(m, n)) = n
           /\ \A i \in 1..n : Following(m, n)[i] = m + i
  BY DEF Following

LEMMA Extended ==
    ASSUME NEW u \in Seq(Nat), NEW c \in Seq(Nat), NEW m \in Nat, NEW n \in Nat,
           u = Leading(m), c = Following(m, n)
    PROVE  u \o c = Leading(m + n)
<1>1. Len(c) = n /\ \A i \in 1..n : c[i] = m + i BY FollowingTyped
<1>2. Len(u) = m /\ \A i \in 1..m : u[i] = i BY DEF Leading
<1> DEFINE w == u \o c
<1>3. /\ w \in Seq(Nat) /\ Len(w) = Len(u) + Len(c)
      /\ \A i \in 1..Len(u) + Len(c) : w[i] = IF i <= Len(u) THEN u[i] ELSE c[i - Len(u)]
  BY ConcatProperties
<1> HIDE DEF w
<1>4. \A i \in 1..(m + n) : w[i] = i
  <2> TAKE i \in 1..(m + n)
  <2>1. CASE i <= m BY <1>1, <1>2, <1>3, <2>1
  <2>2. CASE i > m
    <3>1. i - m \in 1..n BY <2>2
    <3>2. c[i - m] = i BY <1>1, <3>1
    <3> QED BY <1>1, <1>2, <1>3, <2>2, <3>2
  <2> QED BY <2>1, <2>2
<1>5. w = Leading(m + n) BY <1>1, <1>2, <1>3, <1>4 DEF Leading
<1> QED BY <1>5 DEF w

\* Bytes that arrive follow those that are there.
LEMMA Arrived ==
    ASSUME NEW t \in Seq(Nat), NEW b \in Seq(Nat), NEW m \in Nat, NEW n \in Nat
    PROVE  /\ b \o Following(m, n) \in Seq(Nat)
           /\ t \o b = Leading(m) => t \o (b \o Following(m, n)) = Leading(m + n)
<1> DEFINE c == Following(m, n)
<1>1. c \in Seq(Nat) BY FollowingTyped
<1> HIDE DEF c
<1>2. /\ b \o c \in Seq(Nat) /\ t \o b \in Seq(Nat)
      /\ (t \o b) \o c = t \o (b \o c)
  BY <1>1, ConcatProperties, ConcatAssociative
<1> DEFINE u == t \o b
<1>3. u \in Seq(Nat) /\ u \o c = t \o (b \o c) BY <1>2
<1> HIDE DEF u
<1>4. u = Leading(m) => t \o (b \o c) = Leading(m + n) BY <1>1, <1>3, Extended DEF c
<1> QED BY <1>2, <1>4 DEF c, u

\* A chunk is moved from what is stored to what was read.
LEMMA Moved ==
    ASSUME NEW t \in Seq(Nat), NEW d \in Entries, NEW f \in BOOLEAN, NEW n \in Nat,
           NEW end \in {"open", "fin", "reset"}, NEW stopped \in BOOLEAN,
           Carried(t, d, f, n, end, stopped)
    PROVE  /\ Carried(t \o d.bytes, NoData, f \/ d.fin, n, end, stopped)
           /\ t \o d.bytes \in Seq(Nat) /\ Len(t \o d.bytes) = n /\ Len(t) <= n
<1> DEFINE u == t \o d.bytes
<1>1. d.bytes \in Seq(Nat) /\ d.fin \in BOOLEAN BY DEF Entries
<1>2. u \in Seq(Nat) /\ Len(u) = Len(t) + Len(d.bytes) /\ u \o <<>> = u
  BY <1>1, ConcatProperties, ConcatEmptySeq
<1> HIDE DEF u
<1>3. u = Leading(n) BY DEF Carried, u
<1>4. Len(u) = n /\ Len(t) <= n BY <1>1, <1>2, <1>3 DEF Leading
<1>5. Carried(u, NoData, f \/ d.fin, n, end, stopped) BY <1>1, <1>2, <1>3, <1>4 DEF Carried, NoData
<1> QED BY <1>2, <1>4, <1>5 DEF u

LEMMA ReceivedIsEntry == \A s : Received(s) = Entry(received, s)
  BY DEF Received, Entry

LEMMA StreamIds ==
  /\ Streams = PeerUni \cup {Request} /\ Request \notin PeerUni /\ Media \notin Streams
  /\ ConnectId \notin Streams /\ ConnectId # Media /\ PeerUni \subseteq Nat \ {0} /\ Media \in Nat
  BY StreamsAssumption DEF Streams

LEMMA LeastOfTwo ==
    ASSUME NEW a \in Nat, NEW b \in Nat
    PROVE  Min({a, b}) = IF a <= b THEN a ELSE b
<1>1. Min({a, b}) \in {a, b} /\ \A y \in {a, b} : Min({a, b}) <= y BY NatMin
<1> QED BY <1>1

(* ---- its steps ---- *)

\* More of a stream arrives, perhaps its FIN.
More(d, m, n, fin) == [bytes |-> d.bytes \o Following(m, n), fin |-> d.fin \/ fin]

LEMMA CarriedMore ==
    ASSUME NEW t \in Seq(Nat), NEW d \in Entries, NEW f \in BOOLEAN, NEW m \in Nat, NEW n \in Nat,
           NEW fin \in BOOLEAN, NEW stopped \in BOOLEAN, Carried(t, d, f, m, "open", stopped)
    PROVE  /\ More(d, m, n, fin) \in Entries
           /\ Carried(t, More(d, m, n, fin), f, m + n, IF fin THEN "fin" ELSE "open", stopped)
<1>1. d.bytes \in Seq(Nat) /\ d.fin \in BOOLEAN BY DEF Entries
<1>2. d.bytes \o Following(m, n) \in Seq(Nat) /\ t \o (d.bytes \o Following(m, n)) = Leading(m + n)
  BY <1>1, Arrived DEF Carried
<1> QED BY <1>1, <1>2 DEF Carried, Entries, More

\* A reset, which may count for a FIN, or a STOP_SENDING that does.
LEMMA CarriedReset ==
    ASSUME NEW t, NEW d \in Entries, NEW f \in BOOLEAN, NEW n, NEW stopped \in BOOLEAN,
           Carried(t, d, f, n, "open", stopped)
    PROVE  /\ Carried(t, d, f, n, "reset", stopped)
           /\ Carried(t, [d EXCEPT !.fin = TRUE], f, n, "reset", stopped)
  BY DEF Carried, Entries

LEMMA CarriedStopped ==
    ASSUME NEW t, NEW d \in Entries, NEW f \in BOOLEAN, NEW n, NEW end, NEW stopped \in BOOLEAN,
           Carried(t, d, f, n, end, stopped)
    PROVE  Carried(t, d, f, n, end, TRUE) /\ Carried(t, [d EXCEPT !.fin = TRUE], f, n, end, TRUE)
  BY DEF Carried, Entries

LEMMA PeerInitial == PeerInit => PeerTypes /\ PeerInv
<1> SUFFICES ASSUME PeerInit PROVE PeerTypes /\ PeerInv OBVIOUS
<1> USE DEF PeerInit
<1>1. PeerTypes
  <2>1. streams \in StreamScenarios /\ types \in [streams.uni -> Types] OBVIOUS
  <2>2. conn \in Connections BY DEF Connections
  <2>3. received \in Stores /\ accepted \in SUBSET PeerUni
    <3>1. received \in [{} -> Entries] BY EmptySeq
    <3> QED BY <3>1 DEF Stores
  <2>4. open \in Openings BY <2>1, StreamsAssumption DEF Openings
  <2>5. peer \in Senders BY DEF Senders
  <2>6. session \in Readers
    <3>1. session.streams \in [{} -> [prefix : Nat, typed : BOOLEAN]] BY EmptySeq
    <3>2. session.streams \in Polls BY <3>1 DEF Polls
    <3>3. session.taken \in [Streams -> Seq(Nat)] /\ session.order \in Seq(PeerUni) OBVIOUS
    <3> QED BY <3>2, <3>3 DEF Readers
  <2> QED BY <2>1, <2>2, <2>3, <2>4, <2>5, <2>6 DEF PeerTypes
<1>2. DOMAIN received = {} /\ DOMAIN session.streams = {} /\ DOMAIN session.order = {} OBVIOUS
<1>3. StreamsCarried
  <2> SUFFICES ASSUME NEW r \in Streams
               PROVE  Carried(session.taken[r], Received(r), r \in session.fins, peer.sent[r],
                              peer.end[r], StoppedByPeer(r))
    BY DEF StreamsCarried
  <2>1. /\ Received(r) = NoData /\ session.taken[r] = <<>> /\ r \notin session.fins
        /\ peer.sent[r] = 0 /\ peer.end[r] = "open" /\ StoppedByPeer(r) = FALSE
    BY <1>2 DEF Received, StoppedByPeer
  <2>2. <<>> \o <<>> = Leading(0) BY DEF Leading
  <2> QED BY <2>1, <2>2 DEF Carried, NoData
<1>4. StoredKnown BY <1>2 DEF StoredKnown
<1>5. TakenUp BY <1>2 DEF TakenUp, AcceptedOnce, ToSet, Streams
<1>6. TypesKnown BY DEF TypesKnown
<1>7. EndKnown BY DEF EndKnown
<1> QED BY <1>1, <1>3, <1>4, <1>5, <1>6, <1>7 DEF PeerInv

\* What a step that neither stores nor reads anything keeps.
LEMMA NothingStored ==
    ASSUME PeerTypes, PeerInv, UNCHANGED <<streams, types, received, accepted, session>>,
           peer'.sent = peer.sent, peer'.end = peer.end, peer'.stop = peer.stop,
           open'.id = open.id, open.streams \subseteq open'.streams,
           open'.streams \subseteq {open.id}
    PROVE  StreamsCarried' /\ StoredKnown' /\ TakenUp' /\ TypesKnown'
<1>1. StreamsCarried' BY DEF PeerInv, StreamsCarried, Received, StoppedByPeer, http3
<1>2. StoredKnown' BY DEF PeerInv, StoredKnown
<1>3. TakenUp' BY DEF PeerInv, TakenUp, AcceptedOnce
<1>4. TypesKnown' BY DEF PeerInv, TypesKnown, Good
<1> QED BY <1>1, <1>2, <1>3, <1>4

\* Steps of the connection alone.
LEMMA ConnectionSteps ==
    ASSUME PeerTypes, PeerInv, conn' \in Connections,
           UNCHANGED <<streams, types, received, accepted, open, session>>,
           peer' = peer \/ peer' = [peer EXCEPT !.closed = TRUE],
           closer' \in {"none", "waits", "returned"}, EndKnown'
    PROVE  PeerTypes' /\ PeerInv'
<1>1. peer' \in Senders /\ peer'.sent = peer.sent /\ peer'.end = peer.end /\ peer'.stop = peer.stop
  BY DEF PeerTypes, Senders
<1>2. PeerTypes' BY <1>1 DEF PeerTypes, Stores, Streams, Readers
<1>3. StreamsCarried' /\ StoredKnown' /\ TakenUp' /\ TypesKnown'
  BY <1>1, NothingStored DEF PeerInv, StoredKnown
<1> QED BY <1>2, <1>3 DEF PeerInv

LEMMA LoopReadyStep == PeerTypes /\ PeerInv /\ LoopReady => PeerTypes' /\ PeerInv'
<1> SUFFICES ASSUME PeerTypes, PeerInv, LoopReady PROVE PeerTypes' /\ PeerInv' OBVIOUS
<1>1. conn' \in Connections /\ EndKnown' BY DEF LoopReady, PeerTypes, Connections, PeerInv, EndKnown
<1> QED BY <1>1, ConnectionSteps DEF LoopReady, PeerTypes

LEMMA HandshakeStep == PeerTypes /\ PeerInv /\ Handshake => PeerTypes' /\ PeerInv'
<1> SUFFICES ASSUME PeerTypes, PeerInv, Handshake PROVE PeerTypes' /\ PeerInv' OBVIOUS
<1>1. \/ conn' = [conn EXCEPT !.connected = TRUE]
      \/ conn' = [conn EXCEPT !.failed = TRUE]
  BY DEF Handshake, QuicReady, ConnectAccepted, ConnectRefused
<1>2. conn' \in Connections /\ EndKnown' BY <1>1 DEF Handshake, PeerTypes, Connections, PeerInv, EndKnown
<1> QED BY <1>2, ConnectionSteps DEF Handshake, PeerTypes

LEMMA ConnectStep == PeerTypes /\ PeerInv /\ Connect => PeerTypes' /\ PeerInv'
<1> SUFFICES ASSUME PeerTypes, PeerInv, Connect PROVE PeerTypes' /\ PeerInv' OBVIOUS
<1>1. PICK timeout \in BOOLEAN :
        IF http3 THEN Http3Connected(timeout) ELSE QuicConnected(timeout)
  BY DEF Connect
<1> DEFINE c == IF timeout THEN [conn EXCEPT !.failed = TRUE] ELSE conn
<1>2. /\ c \in Connections /\ c.told = conn.told /\ c.disconnected = conn.disconnected
      /\ c.connected = conn.connected /\ c.close = conn.close
  BY DEF PeerTypes, Connections
<1>3. \/ conn' = [c EXCEPT !.state = "failed"]
      \/ conn' = [c EXCEPT !.state = "connected"] /\ c.connected
  <2>1. CASE http3 BY <1>1, <2>1 DEF Http3Connected
  <2>2. CASE ~http3 BY <1>1, <2>2 DEF QuicConnected
  <2> QED BY <2>1, <2>2
<1> HIDE DEF c
<1>4. /\ conn' \in Connections /\ conn'.told = conn.told /\ conn'.disconnected = conn.disconnected
      /\ conn'.connected = conn.connected /\ conn'.close = conn.close
      /\ conn'.state = "connected" => conn.connected
  BY <1>2, <1>3 DEF Connections
<1>5. conn.state = "connecting" /\ UNCHANGED <<streams, types, received, accepted, open, peer, session, closer>>
  BY DEF Connect
<1>6. EndKnown' BY <1>4, <1>5 DEF PeerInv, EndKnown
<1> QED BY <1>4, <1>5, <1>6, ConnectionSteps DEF PeerTypes

LEMMA ConnectionClosesStep == PeerTypes /\ PeerInv /\ ConnectionCloses => PeerTypes' /\ PeerInv'
<1> SUFFICES ASSUME PeerTypes, PeerInv, ConnectionCloses PROVE PeerTypes' /\ PeerInv' OBVIOUS
<1>1. PICK byPeer \in BOOLEAN, established \in BOOLEAN :
        LET c == IF byPeer THEN Noted(conn) ELSE conn
        IN  /\ conn' = IF http3 THEN Http3Closed(c, established) ELSE QuicClosed(c)
            /\ peer' = [peer EXCEPT !.closed = @ \/ byPeer]
  BY DEF ConnectionCloses
<1>2. peer' = peer \/ peer' = [peer EXCEPT !.closed = TRUE] BY <1>1 DEF PeerTypes, Senders
<1>3. PICK c \in Connections :
        /\ conn' = IF http3 THEN Http3Closed(c, established) ELSE QuicClosed(c)
        /\ c = conn \/ (byPeer /\ c = [conn EXCEPT !.told = TRUE])
  BY <1>1 DEF Noted, PeerTypes, Connections
<1>4. /\ conn' \in Connections /\ conn'.disconnected /\ conn'.told = c.told
      /\ conn'.state = conn.state /\ (conn.connected => conn'.connected) /\ conn'.close = conn.close
  <2>1. CASE http3 BY <1>3, <2>1 DEF Http3Closed, PeerTypes, Connections
  <2>2. CASE ~http3 BY <1>3, <2>2 DEF QuicClosed, PeerTypes, Connections
  <2> QED BY <2>1, <2>2
<1>5. peer'.closed = (peer.closed \/ byPeer) BY <1>1 DEF PeerTypes, Senders
<1>6. UNCHANGED <<session, closer>> BY DEF ConnectionCloses
<1>7. EndKnown' BY <1>3, <1>4, <1>5, <1>6 DEF PeerInv, EndKnown, PeerTypes, Connections
<1> QED BY <1>2, <1>4, <1>7, ConnectionSteps DEF ConnectionCloses, PeerTypes

LEMMA LoopExitsStep == PeerTypes /\ PeerInv /\ LoopExits => PeerTypes' /\ PeerInv'
<1> SUFFICES ASSUME PeerTypes, PeerInv, LoopExits PROVE PeerTypes' /\ PeerInv' OBVIOUS
<1>1. conn' \in Connections /\ EndKnown' BY DEF LoopExits, PeerTypes, Connections, PeerInv, EndKnown
<1> QED BY <1>1, ConnectionSteps DEF LoopExits, PeerTypes

LEMMA CloseStep == PeerTypes /\ PeerInv /\ Close => PeerTypes' /\ PeerInv'
<1> SUFFICES ASSUME PeerTypes, PeerInv, Close PROVE PeerTypes' /\ PeerInv' OBVIOUS
<1>1. conn' \in Connections /\ EndKnown' BY DEF Close, PeerTypes, Connections, PeerInv, EndKnown
<1> QED BY <1>1, ConnectionSteps DEF Close, PeerTypes

LEMMA CloseReturnsStep == PeerTypes /\ PeerInv /\ CloseReturns => PeerTypes' /\ PeerInv'
<1> SUFFICES ASSUME PeerTypes, PeerInv, CloseReturns PROVE PeerTypes' /\ PeerInv' OBVIOUS
<1>1. conn' \in Connections /\ EndKnown' BY DEF CloseReturns, PeerTypes, Connections, PeerInv, EndKnown
<1> QED BY <1>1, ConnectionSteps DEF CloseReturns, PeerTypes

\* Steps of open_stream() and of a datagram that fails it.
LEMMA OpeningSteps ==
    ASSUME PeerTypes, PeerInv, conn' \in Connections, EndKnown', open' \in Openings,
           open'.id = open.id, open.streams \subseteq open'.streams,
           open'.streams \subseteq {open.id},
           UNCHANGED <<streams, types, received, accepted, session, peer, closer>>
    PROVE  PeerTypes' /\ PeerInv'
<1>1. PeerTypes' BY DEF PeerTypes, Stores, Streams, Readers, Senders
<1>2. StreamsCarried' /\ StoredKnown' /\ TakenUp' /\ TypesKnown' BY NothingStored
<1> QED BY <1>1, <1>2 DEF PeerInv

LEMMA OpenStreamsKnown ==
    ASSUME PeerTypes, PeerInv
    PROVE  open.id \in {Request, Media} /\ open.streams \subseteq {open.id}
  BY DEF PeerTypes, Openings, PeerInv, StoredKnown

LEMMA OpenStep ==
  PeerTypes /\ PeerInv /\ (OpenStream \/ LoopOpens \/ OpenReturns) => PeerTypes' /\ PeerInv'
<1> SUFFICES ASSUME PeerTypes, PeerInv, OpenStream \/ LoopOpens \/ OpenReturns
             PROVE  PeerTypes' /\ PeerInv'
  OBVIOUS
<1> DEFINE Opened == /\ open' \in Openings /\ open'.id = open.id
                     /\ open.streams \subseteq open'.streams /\ open'.streams \subseteq {open.id}
<1>1. open.id \in {Request, Media} /\ open.streams \subseteq {open.id} /\ open \in Openings
  BY OpenStreamsKnown DEF PeerTypes
<1>5. Opened
  <2>1. CASE OpenStream /\ ~http3 BY <1>1, <2>1 DEF OpenStream, Openings
  <2>2. CASE OpenStream /\ http3 /\ conn.failed BY <1>1, <2>2 DEF OpenStream, Openings
  <2>3. CASE OpenStream /\ http3 /\ ~conn.failed BY <1>1, <2>3 DEF OpenStream, Openings
  <2>4. CASE LoopOpens
    <3>1. \/ open' = [open EXCEPT !.record = "done", !.streams = {open.id}]
          \/ open' = [open EXCEPT !.record = "failed"]
      BY <2>4 DEF LoopOpens
    <3>2. {open.id} \in SUBSET {Request, Media} BY <1>1
    <3>3. CASE open' = [open EXCEPT !.record = "failed"] BY <1>1, <3>3 DEF Openings
    <3>4. CASE open' = [open EXCEPT !.record = "done", !.streams = {open.id}]
      BY <1>1, <3>2, <3>4 DEF Openings
    <3> QED BY <3>1, <3>3, <3>4
  <2>5. CASE OpenReturns BY <1>1, <2>5 DEF OpenReturns, Openings
  <2> QED BY <2>1, <2>2, <2>3, <2>4, <2>5
<1>6. UNCHANGED <<conn, streams, types, received, accepted, session, peer, closer>>
  BY DEF OpenStream, LoopOpens, OpenReturns
<1>7. conn' \in Connections /\ EndKnown' BY <1>6 DEF PeerTypes, PeerInv, EndKnown
<1> QED BY <1>5, <1>6, <1>7, OpeningSteps

LEMMA ReceivedTyped ==
    ASSUME PeerTypes, NEW s
    PROVE  /\ Received(s) \in Entries /\ Received(s).bytes \in Seq(Nat)
           /\ Received(s).fin \in BOOLEAN /\ Received(s) = Entry(received, s)
  BY EntryTyped, ReceivedIsEntry DEF PeerTypes

\* The streams are carried once d is stored of stream s and the peer has sent p.
CarriedWith(s, d, p) ==
  \A r \in Streams :
    Carried(session.taken[r], IF r = s THEN d ELSE Received(r), r \in session.fins, p.sent[r],
            p.end[r], (http3 /\ r = Request /\ p.stop))

\* Steps that store something of stream s, and of none of the others.
LEMMA StoredStep ==
    ASSUME PeerTypes, PeerInv, NEW s \in Streams \cup {Media, ConnectId}, NEW d \in Entries,
           received' = Store(s, d), peer' \in Senders, conn' \in Connections, EndKnown',
           UNCHANGED <<streams, types, accepted, open, session, closer>>,
           s \in PeerUni => s \in streams.uni, s = Media => s \in open.streams,
           CarriedWith(s, d, peer')
    PROVE  PeerTypes' /\ PeerInv'
<1>1. /\ received' \in Stores /\ DOMAIN received' = DOMAIN received \cup {s}
      /\ \A r : Entry(received', r) = IF r = s THEN d ELSE Entry(received, r)
  <2>1. /\ Store(s, d) \in Stores /\ DOMAIN Store(s, d) = DOMAIN received \cup {s}
        /\ \A r : Entry(Store(s, d), r) = IF r = s THEN d ELSE Entry(received, r)
    BY StoreFacts
  <2> QED BY <2>1
<1>2. PeerTypes' BY <1>1 DEF PeerTypes, Stores, Streams, Readers, Senders
<1>3. StreamsCarried'
  <2> SUFFICES ASSUME NEW r \in Streams
               PROVE  Carried(session.taken[r], Received(r)', r \in session.fins, peer'.sent[r],
                              peer'.end[r], (http3 /\ r = Request /\ peer'.stop))
    BY DEF StreamsCarried, Streams, StoppedByPeer, http3
  <2>1. Received(r)' = Entry(received', r) /\ Received(r) = Entry(received, r) BY DEF Received, Entry
  <2>2. Received(r)' = IF r = s THEN d ELSE Received(r) BY <1>1, <2>1
  <2> QED BY <2>2 DEF CarriedWith
<1>4. StoredKnown' BY <1>1 DEF PeerInv, StoredKnown
<1>5. TakenUp' /\ TypesKnown' BY DEF PeerInv, TakenUp, AcceptedOnce, TypesKnown, Good
<1> QED BY <1>2, <1>3, <1>4, <1>5 DEF PeerInv

\* A stream that may still send is one of the peer's or the session's own.
LEMMA SendsFacts ==
    ASSUME PeerTypes, PeerInv, NEW s \in Streams, Sends(s)
    PROVE  /\ s \in PeerUni => s \in streams.uni
           /\ Carried(session.taken[s], Received(s), s \in session.fins, peer.sent[s], "open",
                      StoppedByPeer(s))
<1>1. s \in PeerUni => s \in streams.uni BY StreamIds DEF Sends, PeerTypes, Openings
<1>2. peer.end[s] = "open" BY DEF Sends
<1> QED BY <1>1, <1>2 DEF PeerInv, StreamsCarried

LEMMA StreamDataStep == PeerTypes /\ PeerInv /\ StreamData => PeerTypes' /\ PeerInv'
<1> SUFFICES ASSUME PeerTypes, PeerInv, StreamData PROVE PeerTypes' /\ PeerInv' OBVIOUS
<1>1. PICK s \in Streams, n \in 0..MaxBytes, fin \in BOOLEAN :
        /\ Sends(s) /\ received' = Stored(s, n, fin)
        /\ peer' = [peer EXCEPT !.sent[s] = @ + n, !.end[s] = IF fin THEN "fin" ELSE @]
  BY DEF StreamData
<1> DEFINE d == Received(s)
           t == session.taken[s]
           f == s \in session.fins
           m == peer.sent[s]
           e == More(d, m, n, fin)
           stopped == http3 /\ s = Request /\ peer.stop
<1>2. /\ d \in Entries /\ m \in Nat /\ n \in Nat /\ t \in Seq(Nat)
      /\ f \in BOOLEAN /\ stopped \in BOOLEAN
  BY ReceivedTyped, StreamsAssumption DEF PeerTypes, Senders, Readers
<1>3. received' = Store(s, e) BY <1>1 DEF Stored, Following, More
<1>4. Carried(t, d, f, m, "open", stopped) /\ (s \in PeerUni => s \in streams.uni) /\ s # Media
  BY <1>1, SendsFacts, StreamIds DEF StoppedByPeer
<1> HIDE DEF d, t, f, m, stopped
<1>5. e \in Entries /\ Carried(t, e, f, m + n, IF fin THEN "fin" ELSE "open", stopped)
  BY <1>2, <1>4, CarriedMore
<1> HIDE DEF e
<1>6. /\ peer' \in Senders /\ peer'.stop = peer.stop /\ peer'.closed = peer.closed
      /\ peer'.sent = [peer.sent EXCEPT ![s] = m + n]
      /\ peer'.end = [peer.end EXCEPT ![s] = IF fin THEN "fin" ELSE "open"]
  <2>1. peer.sent \in [Streams -> Nat] /\ peer.end \in [Streams -> {"open", "fin", "reset"}]
    BY DEF PeerTypes, Senders
  <2>2. peer.end[s] = "open" BY <1>1 DEF Sends
  <2>3. /\ [peer.sent EXCEPT ![s] = m + n] \in [Streams -> Nat]
        /\ [peer.end EXCEPT ![s] = IF fin THEN "fin" ELSE "open"] \in [Streams -> {"open", "fin", "reset"}]
    BY <1>2, <2>1
  <2>4. peer' = [peer EXCEPT !.sent = [peer.sent EXCEPT ![s] = m + n],
                             !.end = [peer.end EXCEPT ![s] = IF fin THEN "fin" ELSE "open"]]
    BY <1>1, <2>2 DEF PeerTypes, Senders, m
  <2> QED BY <2>3, <2>4 DEF PeerTypes, Senders
<1>7. UNCHANGED <<streams, types, conn, accepted, open, session, closer>> BY DEF StreamData
<1>8. conn' \in Connections /\ EndKnown' BY <1>6, <1>7 DEF PeerTypes, PeerInv, EndKnown
<1>9. CarriedWith(s, e, peer')
  <2> SUFFICES ASSUME NEW r \in Streams
               PROVE  Carried(session.taken[r], IF r = s THEN e ELSE Received(r), r \in session.fins,
                              peer'.sent[r], peer'.end[r], (http3 /\ r = Request /\ peer'.stop))
    BY DEF CarriedWith
  <2>1. CASE r = s
    <3>1. peer'.sent[r] = m + n /\ peer'.end[r] = IF fin THEN "fin" ELSE "open"
      BY <1>6, <2>1 DEF PeerTypes, Senders
    <3> QED BY <1>5, <1>6, <2>1, <3>1 DEF t, f, stopped
  <2>2. CASE r # s
    <3>1. peer'.sent[r] = peer.sent[r] /\ peer'.end[r] = peer.end[r] BY <1>6, <2>2 DEF PeerTypes, Senders
    <3> QED BY <1>6, <2>2, <3>1 DEF PeerInv, StreamsCarried, StoppedByPeer
  <2> QED BY <2>1, <2>2
<1> QED BY <1>3, <1>4, <1>5, <1>6, <1>7, <1>8, <1>9, StoredStep

LEMMA StreamResetStep == PeerTypes /\ PeerInv /\ StreamReset => PeerTypes' /\ PeerInv'
<1> SUFFICES ASSUME PeerTypes, PeerInv, StreamReset PROVE PeerTypes' /\ PeerInv' OBVIOUS
<1>1. PICK s \in Streams :
        Sends(s) /\ received' = Reset(s) /\ peer' = [peer EXCEPT !.end[s] = "reset"]
  BY DEF StreamReset
<1> DEFINE d == Received(s)
           e == [d EXCEPT !.fin = TRUE]
           t == session.taken[s]
           f == s \in session.fins
           m == peer.sent[s]
           stopped == http3 /\ s = Request /\ peer.stop
<1>2. d \in Entries /\ e \in Entries /\ f \in BOOLEAN /\ stopped \in BOOLEAN
  <2>1. d \in Entries /\ f \in BOOLEAN /\ stopped \in BOOLEAN BY ReceivedTyped
  <2> QED BY <2>1 DEF Entries
<1>3. Carried(t, d, f, m, "open", stopped) /\ (s \in PeerUni => s \in streams.uni) /\ s # Media
  BY <1>1, SendsFacts, StreamIds DEF StoppedByPeer
<1> HIDE DEF d, t, f, m, stopped
<1>4. Carried(t, d, f, m, "reset", stopped) /\ Carried(t, e, f, m, "reset", stopped)
  BY <1>2, <1>3, CarriedReset
<1> HIDE DEF e
<1>5. /\ peer' \in Senders /\ peer'.stop = peer.stop /\ peer'.closed = peer.closed
      /\ peer'.sent = peer.sent /\ peer'.end[s] = "reset"
      /\ \A r \in Streams \ {s} : peer'.end[r] = peer.end[r]
  BY <1>1 DEF PeerTypes, Senders
<1>6. UNCHANGED <<streams, types, conn, accepted, open, session, closer>> BY DEF StreamReset
<1>7. conn' \in Connections /\ EndKnown' BY <1>5, <1>6 DEF PeerTypes, PeerInv, EndKnown
<1>8. CarriedWith(s, d, peer') /\ CarriedWith(s, e, peer')
  <2> SUFFICES ASSUME NEW r \in Streams, NEW c \in {d, e}
               PROVE  Carried(session.taken[r], IF r = s THEN c ELSE Received(r), r \in session.fins,
                              peer'.sent[r], peer'.end[r], (http3 /\ r = Request /\ peer'.stop))
    BY DEF CarriedWith
  <2>1. CASE r = s BY <1>4, <1>5, <2>1 DEF t, f, stopped, m
  <2>2. CASE r # s BY <1>5, <2>2 DEF PeerInv, StreamsCarried, StoppedByPeer
  <2> QED BY <2>1, <2>2
<1>9. CASE http3
  <2>1. received' = Store(s, e) BY <1>1, <1>9 DEF Reset, d, e
  <2> QED BY <1>2, <1>3, <1>5, <1>6, <1>7, <1>8, <2>1, StoredStep
<1>10. CASE ~http3
  <2>1. received' = received BY <1>1, <1>10 DEF Reset
  <2>2. StreamsCarried'
    BY <1>6, <1>8, <2>1 DEF StreamsCarried, CarriedWith, Received, StoppedByPeer, Streams, http3, d
  <2>3. PeerTypes' BY <1>5, <1>6, <2>1 DEF PeerTypes, Stores, Streams, Readers, Senders
  <2>4. StoredKnown' /\ TakenUp' /\ TypesKnown'
    BY <1>6, <2>1 DEF PeerInv, StoredKnown, TakenUp, AcceptedOnce, TypesKnown, Good
  <2> QED BY <1>7, <2>2, <2>3, <2>4 DEF PeerInv
<1> QED BY <1>9, <1>10

LEMMA StopSendingStep == PeerTypes /\ PeerInv /\ StopSending => PeerTypes' /\ PeerInv'
<1> SUFFICES ASSUME PeerTypes, PeerInv, StopSending PROVE PeerTypes' /\ PeerInv' OBVIOUS
<1>1. /\ open.streams # {} /\ peer' = [peer EXCEPT !.stop = TRUE]
      /\ UNCHANGED <<streams, types, conn, accepted, open, session, closer>>
  BY DEF StopSending
<1>2. open.id \in {Request, Media} /\ open.id \in open.streams BY <1>1, OpenStreamsKnown
<1>3. /\ peer' \in Senders /\ peer'.sent = peer.sent /\ peer'.end = peer.end /\ peer'.stop
      /\ peer'.closed = peer.closed
  BY <1>1 DEF PeerTypes, Senders
<1>4. conn' \in Connections /\ EndKnown' BY <1>1, <1>3 DEF PeerTypes, PeerInv, EndKnown
<1>5. CASE http3
  <2> DEFINE s == open.id
             e == [Received(s) EXCEPT !.fin = TRUE]
  <2>1. received' = Store(s, e) BY <1>5 DEF StopSending
  <2>2. e \in Entries BY ReceivedTyped DEF Entries
  <2>3. CarriedWith(s, e, peer')
    <3> SUFFICES ASSUME NEW r \in Streams
                 PROVE  Carried(session.taken[r], IF r = s THEN e ELSE Received(r), r \in session.fins,
                                peer'.sent[r], peer'.end[r], (http3 /\ r = Request /\ peer'.stop))
      BY DEF CarriedWith
    <3> DEFINE d == Received(r)
               t == session.taken[r]
               f == r \in session.fins
               n == peer.sent[r]
               end == peer.end[r]
               stopped == http3 /\ r = Request /\ peer.stop
    <3>1. Carried(t, d, f, n, end, stopped) /\ stopped \in BOOLEAN /\ f \in BOOLEAN
      BY DEF PeerInv, StreamsCarried, StoppedByPeer
    <3>2. d \in Entries /\ (r = s => e = [d EXCEPT !.fin = TRUE]) BY ReceivedTyped
    <3>3. peer'.sent[r] = n /\ peer'.end[r] = end BY <1>3
    <3> HIDE DEF d, t, f, n, end, stopped, e
    <3>4. Carried(t, d, f, n, end, TRUE) /\ Carried(t, [d EXCEPT !.fin = TRUE], f, n, end, TRUE)
      BY <3>1, <3>2, CarriedStopped
    <3>5. CASE r = Request
      <4>1. (http3 /\ r = Request /\ peer'.stop) = TRUE BY <1>3, <1>5, <3>5
      <4> QED BY <3>2, <3>3, <3>4, <4>1 DEF d, t, f
    <3>6. CASE r # Request
      <4>1. r # s BY <1>2, <3>6, StreamIds
      <4> QED BY <3>1, <3>3, <3>6, <4>1 DEF d, t, f, stopped
    <3> QED BY <3>5, <3>6
  <2>4. s \in Streams \cup {Media, ConnectId} /\ s \notin PeerUni BY <1>2, StreamIds
  <2> HIDE DEF e
  <2> QED BY <1>1, <1>2, <1>3, <1>4, <2>1, <2>2, <2>3, <2>4, StoredStep
<1>6. CASE ~http3
  <2>1. received' = received BY <1>6 DEF StopSending
  <2>2. StreamsCarried'
    BY <1>1, <1>3, <1>6, <2>1 DEF PeerInv, StreamsCarried, Received, StoppedByPeer, http3
  <2>3. PeerTypes' BY <1>1, <1>3, <2>1 DEF PeerTypes, Stores, Streams, Readers, Senders
  <2>4. StoredKnown' /\ TakenUp' /\ TypesKnown'
    BY <1>1, <2>1 DEF PeerInv, StoredKnown, TakenUp, AcceptedOnce, TypesKnown, Good
  <2> QED BY <1>4, <2>2, <2>3, <2>4 DEF PeerInv
<1> QED BY <1>5, <1>6

LEMMA InvalidDatagramStep == PeerTypes /\ PeerInv /\ InvalidDatagram => PeerTypes' /\ PeerInv'
<1> SUFFICES ASSUME PeerTypes, PeerInv, InvalidDatagram PROVE PeerTypes' /\ PeerInv' OBVIOUS
<1>1. UNCHANGED <<streams, types, received, accepted, peer, session, closer>> BY DEF InvalidDatagram
<1>2. open \in Openings /\ conn \in Connections /\ open.streams \subseteq {open.id}
  BY OpenStreamsKnown DEF PeerTypes
<1>3. CASE QuicDatagram
  <2>1. conn' \in Connections /\ EndKnown'
    BY <1>1, <1>2, <1>3 DEF QuicDatagram, Connections, PeerInv, EndKnown
  <2> QED BY <1>1, <1>2, <1>3, <2>1, OpeningSteps DEF QuicDatagram
<1>4. CASE Http3Datagram
  <2>1. conn' \in Connections /\ EndKnown'
    BY <1>1, <1>2, <1>4 DEF Http3Datagram, Connections, PeerInv, EndKnown
  <2>2. open' = open \/ open' = [open EXCEPT !.record = "failed"] BY <1>4 DEF Http3Datagram
  <2>3. open' \in Openings /\ open'.id = open.id /\ open'.streams = open.streams BY <1>2, <2>2 DEF Openings
  <2> QED BY <1>1, <1>2, <2>1, <2>3, OpeningSteps
<1> QED BY <1>3, <1>4 DEF InvalidDatagram

LEMMA ConnectStreamEndsStep == PeerTypes /\ PeerInv /\ ConnectStreamEnds => PeerTypes' /\ PeerInv'
<1> SUFFICES ASSUME PeerTypes, PeerInv, ConnectStreamEnds PROVE PeerTypes' /\ PeerInv' OBVIOUS
<1> DEFINE d == [bytes |-> <<>>, fin |-> TRUE]
<1>1. PICK capsule \in BOOLEAN :
        conn' = [(IF capsule THEN Noted(conn) ELSE conn) EXCEPT !.disconnected = TRUE]
  BY DEF ConnectStreamEnds
<1>2. /\ received' = Store(ConnectId, d) /\ peer' = [peer EXCEPT !.closed = TRUE]
      /\ UNCHANGED <<streams, types, accepted, open, session, closer>>
  BY DEF ConnectStreamEnds
<1>3. /\ peer' \in Senders /\ peer'.sent = peer.sent /\ peer'.end = peer.end
      /\ peer'.stop = peer.stop /\ peer'.closed
  BY <1>2 DEF PeerTypes, Senders
<1>4. PICK c \in Connections :
        /\ conn' = [c EXCEPT !.disconnected = TRUE]
        /\ c = conn \/ c = [conn EXCEPT !.told = TRUE]
  BY <1>1 DEF Noted, PeerTypes, Connections
<1>5. conn' \in Connections /\ EndKnown' BY <1>2, <1>3, <1>4 DEF PeerInv, EndKnown, Connections, PeerTypes
<1>6. d \in Entries BY DEF Entries
<1>7. CarriedWith(ConnectId, d, peer')
  BY <1>3, StreamIds DEF CarriedWith, PeerInv, StreamsCarried, StoppedByPeer
<1>8. ConnectId \notin PeerUni /\ ConnectId # Media BY StreamIds
<1> HIDE DEF d
<1> QED BY <1>2, <1>3, <1>5, <1>6, <1>7, <1>8, StoredStep

\* What poll() knows of the streams is as it was.
SameReads(x) ==
  /\ x.streams = session.streams /\ x.order = session.order /\ x.taken = session.taken
  /\ x.fins = session.fins /\ x.fault = session.fault

\* The session ends without reading anything.
LEMMA Ended ==
    ASSUME PeerTypes, PeerInv, NEW failed \in BOOLEAN
    PROVE  /\ Fails(failed) \in Readers /\ Fails(failed).pc = "over"
           /\ SameReads(Fails(failed))
           /\ Fails(failed).why = "peer" =>
                peer.closed /\ conn.state = "connected" /\ conn.disconnected
  BY DEF PeerTypes, Readers, Connections, Fails, Usable, Blamed, PeerInv, EndKnown, SameReads

\* Steps of poll() that read nothing.
LEMMA NothingRead ==
    ASSUME PeerTypes, PeerInv, session' \in Readers, SameReads(session'),
           session'.todo \subseteq DOMAIN session.streams,
           session.fault # 0 => session'.pc = "over", closer' = closer,
           session'.why = session.why \/
             (session'.why = "peer" => peer.closed /\ conn.state = "connected" /\ conn.disconnected),
           UNCHANGED <<streams, types, conn, received, accepted, open, peer>>
    PROVE  PeerTypes' /\ PeerInv'
<1>1. PeerTypes' BY DEF PeerTypes, Stores, Streams, Senders
<1>2. StreamsCarried' /\ StoredKnown'
  BY DEF PeerInv, StreamsCarried, Received, StoppedByPeer, http3, SameReads, StoredKnown
<1>3. TakenUp' BY DEF PeerInv, TakenUp, AcceptedOnce, SameReads
<1>4. TypesKnown' BY DEF PeerInv, TypesKnown, Good, SameReads
<1>5. EndKnown' BY DEF PeerInv, EndKnown
<1> QED BY <1>1, <1>2, <1>3, <1>4, <1>5 DEF PeerInv

\* o lists the streams that were taken up, each once.
OnceIn(o, all) ==
  /\ \A i, j \in DOMAIN o : i # j => o[i] # o[j]
  /\ ToSet(o) = all /\ all \subseteq PeerUni

\* A stream of the peer is taken up.
LEMMA TakesUpStep ==
    ASSUME PeerTypes, PeerInv, NEW s \in Candidates,
           session.pc = "accept", accepted' = accepted \cup {s},
           session' = [session EXCEPT !.order = Append(@, s),
                         !.streams = With(@, s, [prefix |-> 0, typed |-> FALSE])],
           UNCHANGED <<streams, types, conn, received, open, peer, closer>>
    PROVE  PeerTypes' /\ PeerInv'
<1>1. s \in PeerUni \ accepted /\ s \in streams.uni
  BY DEF Candidates, QuicCandidates, Http3Candidates, PeerInv, StoredKnown
<1> DEFINE news == With(session.streams, s, [prefix |-> 0, typed |-> FALSE])
           order == Append(session.order, s)
<1>2. session.streams \in Polls /\ session.order \in Seq(PeerUni) /\ session \in Readers
  BY DEF PeerTypes, Readers
<1>3. /\ news \in Polls /\ DOMAIN news = DOMAIN session.streams \cup {s}
      /\ news[s] = [prefix |-> 0, typed |-> FALSE]
      /\ \A r \in DOMAIN session.streams \ {s} : news[r] = session.streams[r]
  <2>1. \A r \in DOMAIN session.streams : session.streams[r] \in [prefix : Nat, typed : BOOLEAN] /\ r \in PeerUni
    BY <1>2 DEF Polls
  <2>2. news \in [DOMAIN session.streams \cup {s} -> [prefix : Nat, typed : BOOLEAN]] BY <2>1 DEF With
  <2> QED BY <1>1, <2>1, <2>2 DEF Polls, With
<1>4. /\ order \in Seq(PeerUni) /\ DOMAIN order = 1..(Len(session.order) + 1)
      /\ DOMAIN session.order = 1..Len(session.order) /\ Len(session.order) \in Nat
      /\ order[Len(session.order) + 1] = s
      /\ \A i \in 1..Len(session.order) : order[i] = session.order[i]
  BY <1>1, <1>2, AppendFacts
<1> HIDE DEF news, order
<1>5. session' = [session EXCEPT !.order = order, !.streams = news] BY <1>2 DEF order, news, Readers
<1>6. /\ session' \in Readers /\ session'.order = order /\ session'.streams = news
      /\ session'.taken = session.taken /\ session'.fins = session.fins
      /\ session'.todo = session.todo /\ session'.fault = session.fault
      /\ session'.why = session.why /\ session'.pc = session.pc
  BY <1>2, <1>3, <1>4, <1>5 DEF Readers
<1>7. PeerTypes' BY <1>1, <1>6 DEF PeerTypes, Stores, Streams, Senders
<1>8. StreamsCarried' /\ StoredKnown'
  BY <1>6 DEF PeerInv, StreamsCarried, Received, StoppedByPeer, http3, StoredKnown
<1>9. AcceptedOnce'
  <2>1. \A i, j \in DOMAIN session.order : i # j => session.order[i] # session.order[j]
    BY DEF PeerInv, TakenUp, AcceptedOnce
  <2>2. \A i \in DOMAIN session.order : session.order[i] \in accepted
    BY DEF PeerInv, TakenUp, AcceptedOnce, ToSet
  <2>3. \A r \in accepted : \E i \in DOMAIN session.order : session.order[i] = r
    BY DEF PeerInv, TakenUp, AcceptedOnce, ToSet
  <2>4. \A i, j \in DOMAIN order : i # j => order[i] # order[j] BY <1>1, <1>4, <2>1, <2>2
  <2>5. ToSet(order) = accepted \cup {s}
    <3>1. \A i \in DOMAIN order : order[i] \in accepted \cup {s} BY <1>4, <2>2
    <3>2. \A r \in accepted \cup {s} : \E i \in DOMAIN order : order[i] = r BY <1>4, <2>3
    <3> QED BY <3>1, <3>2 DEF ToSet
  <2>6. accepted \cup {s} \subseteq PeerUni BY <1>1 DEF PeerTypes
  <2>7. OnceIn(order, accepted') BY <2>4, <2>5, <2>6 DEF OnceIn
  <2>8. AcceptedOnce' <=> OnceIn(session'.order, accepted') BY DEF AcceptedOnce, OnceIn
  <2> QED BY <1>6, <2>7, <2>8
<1>10. TakenUp' BY <1>1, <1>3, <1>6, <1>9 DEF PeerInv, TakenUp
<1>11. TypesKnown'
  <2>1. session.fault = 0 BY DEF PeerInv, TypesKnown
  <2>2. session.taken[s] = <<>> /\ s \notin DOMAIN session.streams BY <1>1 DEF PeerInv, TakenUp
  <2>3. Min({PrefixLimit, 0}) = 0 BY LeastOfTwo, StreamsAssumption
  <2>4. news[s].prefix = Min({PrefixLimit, Len(session.taken[s])}) /\ ~news[s].typed BY <1>3, <2>2, <2>3
  <2>5. \A r \in accepted : Good(r, session)' <=> Good(r, session) BY <1>6 DEF Good
  <2> QED BY <1>3, <1>6, <2>1, <2>2, <2>4, <2>5 DEF PeerInv, TypesKnown
<1>12. EndKnown' BY <1>6 DEF PeerInv, EndKnown
<1> QED BY <1>7, <1>8, <1>10, <1>11, <1>12 DEF PeerInv

LEMMA PollAcceptStep == PeerTypes /\ PeerInv /\ PollAccept => PeerTypes' /\ PeerInv'
<1> SUFFICES ASSUME PeerTypes, PeerInv, PollAccept PROVE PeerTypes' /\ PeerInv' OBVIOUS
<1>1. /\ UNCHANGED <<streams, types, conn, received, open, peer, closer>>
      /\ session.pc = "accept" /\ session.fault = 0
  BY DEF PollAccept, PeerInv, TypesKnown
<1>2. CASE ~Usable \/ ConnectionOver
  <2>1. session' = Fails(conn.failed) /\ accepted' = accepted BY <1>2 DEF PollAccept
  <2>2. Fails(conn.failed).todo = session.todo BY DEF Fails, PeerTypes, Readers
  <2>3. conn.failed \in BOOLEAN BY DEF PeerTypes, Connections
  <2> QED BY <1>1, <2>1, <2>2, <2>3, Ended, NothingRead DEF PeerInv, TakenUp
<1>3. CASE Usable /\ ~ConnectionOver /\ Candidates # {}
  <2> DEFINE s == Min(Candidates)
  <2>1. Candidates \in SUBSET Nat BY StreamIds DEF Candidates, QuicCandidates, Http3Candidates
  <2>2. s \in Candidates BY <1>3, <2>1, NatMin
  <2>3. /\ accepted' = accepted \cup {s}
        /\ session' = [session EXCEPT !.order = Append(@, s),
                         !.streams = With(@, s, [prefix |-> 0, typed |-> FALSE])]
    BY <1>3 DEF PollAccept
  <2> HIDE DEF s
  <2> QED BY <1>1, <2>2, <2>3, TakesUpStep
<1>4. CASE Usable /\ ~ConnectionOver /\ Candidates = {}
  <2>1. session' = [session EXCEPT !.pc = "read", !.todo = DOMAIN session.streams] /\ accepted' = accepted
    BY <1>4 DEF PollAccept
  <2>2. DOMAIN session.streams \in SUBSET PeerUni BY DEF PeerTypes, Readers, Polls
  <2>3. session' \in Readers /\ SameReads(session') /\ session'.why = session.why
        /\ session'.todo = DOMAIN session.streams
    BY <2>1, <2>2 DEF PeerTypes, Readers, SameReads
  <2> QED BY <1>1, <2>1, <2>3, NothingRead
<1> QED BY <1>2, <1>3, <1>4

\* How much of the type of a stream there is, once more of it was read.
LEMMA PrefixGrows ==
    ASSUME NEW a \in Nat, NEW b \in Nat
    PROVE  Min({PrefixLimit, Min({PrefixLimit, a}) + b}) = Min({PrefixLimit, a + b})
<1>1. PrefixLimit \in Nat BY StreamsAssumption
<1>2. Min({PrefixLimit, a}) = IF PrefixLimit <= a THEN PrefixLimit ELSE a BY <1>1, LeastOfTwo
<1> DEFINE m == Min({PrefixLimit, a})
<1>3. m \in Nat /\ m + b \in Nat /\ a + b \in Nat BY <1>1, <1>2
<1> HIDE DEF m
<1>4. Min({PrefixLimit, m + b}) = IF PrefixLimit <= m + b THEN PrefixLimit ELSE m + b
  BY <1>1, <1>3, LeastOfTwo
<1>5. Min({PrefixLimit, a + b}) = IF PrefixLimit <= a + b THEN PrefixLimit ELSE a + b
  BY <1>1, <1>3, LeastOfTwo
<1>6. m = IF PrefixLimit <= a THEN PrefixLimit ELSE a BY <1>2 DEF m
<1>7. Min({PrefixLimit, m + b}) = Min({PrefixLimit, a + b}) BY <1>1, <1>4, <1>5, <1>6
<1> QED BY <1>7 DEF m

LEMMA PrefixKnown ==
    ASSUME NEW n \in Nat, NEW z \in 1..PrefixLimit
    PROVE  Min({PrefixLimit, n}) \in Nat /\ (Min({PrefixLimit, n}) >= z <=> n >= z)
<1>1. PrefixLimit \in Nat BY StreamsAssumption
<1>2. Min({PrefixLimit, n}) = IF PrefixLimit <= n THEN PrefixLimit ELSE n BY <1>1, LeastOfTwo
<1> QED BY <1>1, <1>2

\* What a read of stream s takes: x is the session after it.
TakenBy(x, s) ==
  /\ x.taken = [session.taken EXCEPT ![s] = @ \o received[s].bytes]
  /\ x.fins = IF received[s].fin THEN session.fins \cup {s} ELSE session.fins
  /\ x.order = session.order /\ x.why = session.why

LEMMA TookFacts ==
    ASSUME PeerTypes, PeerInv, NEW s \in Streams, s \in DOMAIN received
    PROVE  /\ received[s] = Received(s) /\ received[s].bytes \in Seq(Nat)
           /\ Took(session, s) \in Readers /\ TakenBy(Took(session, s), s)
           /\ Took(session, s).pc = session.pc /\ Took(session, s).todo = session.todo
           /\ Took(session, s).streams = session.streams
           /\ Took(session, s).fault = session.fault
           /\ Len(Took(session, s).taken[s]) = Len(session.taken[s]) + Len(received[s].bytes)
           /\ \A r \in Streams \ {s} : Took(session, s).taken[r] = session.taken[r]
<1>1. received[s] = Received(s) /\ received[s] \in Entries /\ received[s].bytes \in Seq(Nat)
  BY ReceivedTyped DEF Received
<1> DEFINE b == received[s].bytes
           fin == received[s].fin
           news == [session.taken EXCEPT ![s] = @ \o b]
           fins == IF fin THEN session.fins \cup {s} ELSE session.fins
<1>2. session \in Readers /\ session.taken \in [Streams -> Seq(Nat)] /\ session.fins \in SUBSET Streams
  BY DEF PeerTypes, Readers
<1>3. session.taken[s] \o b \in Seq(Nat) /\ Len(session.taken[s] \o b) = Len(session.taken[s]) + Len(b)
  BY <1>1, <1>2, ConcatProperties
<1>4. /\ news \in [Streams -> Seq(Nat)] /\ fins \in SUBSET Streams
      /\ Len(news[s]) = Len(session.taken[s]) + Len(b)
      /\ \A r \in Streams \ {s} : news[r] = session.taken[r]
  BY <1>2, <1>3
<1>5. Took(session, s) = [session EXCEPT !.taken = news, !.fins = fins] BY <1>2 DEF Took, Readers
<1> HIDE DEF news, fins
<1>6. /\ Took(session, s) \in Readers /\ Took(session, s).taken = news /\ Took(session, s).fins = fins
      /\ Took(session, s).pc = session.pc /\ Took(session, s).todo = session.todo
      /\ Took(session, s).streams = session.streams /\ Took(session, s).order = session.order
      /\ Took(session, s).fault = session.fault /\ Took(session, s).why = session.why
  BY <1>2, <1>4, <1>5 DEF Readers
<1>7. TakenBy(Took(session, s), s) BY <1>6 DEF TakenBy, news, fins
<1> QED BY <1>1, <1>4, <1>6, <1>7

\* The other streams and s are still carried after a read of s.
LEMMA ReadCarried ==
    ASSUME PeerTypes, PeerInv, NEW s \in Streams, s \in DOMAIN received,
           TakenBy(session', s), received' = Erased(s), UNCHANGED <<streams, peer>>
    PROVE  received' \in Stores /\ StreamsCarried'
<1>1. /\ received' \in Stores
      /\ \A r : Entry(received', r) = IF r = s THEN NoData ELSE Entry(received, r)
  <2>1. /\ Erased(s) \in Stores
        /\ \A r : Entry(Erased(s), r) = IF r = s THEN NoData ELSE Entry(received, r)
    BY ErasedFacts
  <2> QED BY <2>1
<1>2. StreamsCarried'
  <2> SUFFICES ASSUME NEW r \in Streams
               PROVE  Carried(session'.taken[r], Received(r)', r \in session'.fins, peer.sent[r],
                              peer.end[r], StoppedByPeer(r))
    BY DEF StreamsCarried, Streams, StoppedByPeer, http3
  <2>1. Received(r)' = IF r = s THEN NoData ELSE Received(r)
    <3>1. Received(r)' = Entry(received', r) /\ Received(r) = Entry(received, r) BY DEF Received, Entry
    <3> QED BY <1>1, <3>1
  <2> DEFINE d == Received(s)
             t == session.taken[s]
             f == s \in session.fins
             n == peer.sent[s]
             end == peer.end[s]
             stopped == StoppedByPeer(s)
  <2>2. Carried(t, d, f, n, end, stopped) BY DEF PeerInv, StreamsCarried
  <2>3. /\ t \in Seq(Nat) /\ d \in Entries /\ f \in BOOLEAN /\ n \in Nat
        /\ end \in {"open", "fin", "reset"} /\ stopped \in BOOLEAN /\ d.fin \in BOOLEAN
    BY ReceivedTyped DEF PeerTypes, Readers, Senders, StoppedByPeer
  <2>4. received[s] = d /\ session.taken \in [Streams -> Seq(Nat)] BY DEF Received, PeerTypes, Readers
  <2>5. /\ session'.taken[s] = t \o d.bytes /\ (r # s => session'.taken[r] = session.taken[r])
        /\ (s \in session'.fins <=> f \/ d.fin) /\ (r # s => (r \in session'.fins <=> r \in session.fins))
    BY <2>4 DEF TakenBy
  <2>6. CASE r = s
    <3> HIDE DEF d, t, f, n, end, stopped
    <3>1. Carried(t \o d.bytes, NoData, f \/ d.fin, n, end, stopped) BY <2>2, <2>3, Moved
    <3>2. (s \in session'.fins) = (f \/ d.fin) BY <2>5
    <3> QED BY <2>1, <2>5, <2>6, <3>1, <3>2 DEF n, end, stopped
  <2>7. CASE r # s
    <3>1. (r \in session'.fins) = (r \in session.fins) BY <2>5, <2>7
    <3> QED BY <2>1, <2>5, <2>7, <3>1 DEF PeerInv, StreamsCarried
  <2> QED BY <2>6, <2>7
<1> QED BY <1>1, <1>2

\* What poll() makes of the chunk of stream s: it closes the session, forgets
\* the stream, or reads on.
Rejected(x, s) ==
  x.pc = "over" /\ x.fault = s /\ x.streams = session.streams /\ ~Good(s, x)

Forgot(x, s) ==
  /\ x.pc = "read" /\ x.fault = 0 /\ Good(s, x) /\ s \notin x.todo
  /\ x.streams = [r \in DOMAIN session.streams \ {s} |-> session.streams[r]]

ReadsOn(x, s) ==
  /\ x.pc = "read" /\ x.fault = 0 /\ DOMAIN x.streams = DOMAIN session.streams
  /\ x.streams[s].prefix = Min({PrefixLimit, Len(x.taken[s])})
  /\ x.streams[s].typed => Good(s, x)
  /\ \A r \in DOMAIN session.streams \ {s} : x.streams[r] = session.streams[r]

LEMMA PolledFacts ==
    ASSUME PeerTypes, PeerInv, session.pc = "read", NEW s \in session.todo, s \in DOMAIN received
    PROVE  /\ Polled(s) \in Readers /\ TakenBy(Polled(s), s) /\ Polled(s).todo \subseteq session.todo
           /\ Rejected(Polled(s), s) \/ Forgot(Polled(s), s) \/ ReadsOn(Polled(s), s)
<1> DEFINE state == session.streams[s]
           data == received[s]
           prefix == Min({PrefixLimit, state.prefix + Len(data.bytes)})
           verdict == IF state.typed THEN "typed" ELSE Judged(s, prefix, data.fin)
           x == Took(session, s)
           y == Polled(s)
<1>1. /\ s \in DOMAIN session.streams /\ s \in accepted /\ s \in streams.uni /\ s \in PeerUni
      /\ s \in Streams /\ session.fault = 0
  BY StreamIds DEF PeerTypes, PeerInv, TakenUp, TypesKnown
<1>2. /\ data \in Entries /\ data.bytes \in Seq(Nat) /\ data.fin \in BOOLEAN
      /\ x \in Readers /\ TakenBy(x, s) /\ x.pc = "read" /\ x.todo = session.todo
      /\ x.streams = session.streams /\ x.fault = 0
      /\ Len(x.taken[s]) = Len(session.taken[s]) + Len(data.bytes)
  BY <1>1, TookFacts, ReceivedTyped
<1>3. /\ session.streams \in [DOMAIN session.streams -> [prefix : Nat, typed : BOOLEAN]]
      /\ DOMAIN session.streams \in SUBSET PeerUni
      /\ Len(session.taken[s]) \in Nat /\ Len(data.bytes) \in Nat /\ session.todo \in SUBSET PeerUni
  BY <1>1, <1>2 DEF PeerTypes, Readers, Polls
<1>4. /\ state.prefix = Min({PrefixLimit, Len(session.taken[s])})
      /\ state.typed => Good(s, session)
      /\ s # 0
  BY <1>1, StreamIds DEF PeerInv, TypesKnown
<1>5. prefix = Min({PrefixLimit, Len(x.taken[s])}) BY <1>2, <1>3, <1>4, PrefixGrows
<1>6. types[s].size \in 1..PrefixLimit /\ types[s].known \in BOOLEAN /\ PrefixLimit \in Nat
  BY <1>1, StreamsAssumption DEF PeerTypes
<1> DEFINE a == Len(session.taken[s])
           b == Len(data.bytes)
           n == Len(x.taken[s])
           z == types[s].size
           k == types[s].known
<1>20. n = a + b /\ a \in Nat /\ b \in Nat /\ z \in 1..PrefixLimit /\ prefix = Min({PrefixLimit, n})
  BY <1>2, <1>3, <1>5, <1>6
<1>21. (Good(s, session) <=> a >= z /\ k) /\ (Good(s, x) <=> n >= z /\ k) BY DEF Good
<1> HIDE DEF a, b, n, z, k, x, state, prefix
<1>22. n \in Nat /\ n >= a BY <1>20
<1>7. prefix \in Nat /\ (prefix >= z <=> n >= z) BY <1>20, <1>22, PrefixKnown
<1>8. state.typed => Good(s, x) BY <1>4, <1>6, <1>20, <1>21, <1>22
<1>9. /\ verdict \in {"typed", "unknown", "truncated", "more"}
      /\ verdict = "typed" => Good(s, x)
      /\ verdict \in {"unknown", "truncated"} => ~Good(s, x)
      /\ verdict = "more" => ~data.fin
  BY <1>7, <1>8, <1>21 DEF Judged, z, k
<1>10. /\ verdict \in {"unknown", "truncated"} => y = [x EXCEPT !.pc = "over", !.fault = s]
       /\ verdict \in {"typed", "more"} /\ data.fin =>
            y = [x EXCEPT !.todo = @ \ {s}, !.streams = [r \in DOMAIN @ \ {s} |-> @[r]]]
       /\ verdict \in {"typed", "more"} /\ ~data.fin =>
            y = [x EXCEPT !.streams[s] = [prefix |-> prefix, typed |-> verdict = "typed"],
                          !.todo = IF data.bytes = <<>> THEN @ \ {s} ELSE @]
  BY DEF Polled, x, prefix, state
<1> HIDE DEF y, verdict
<1>11. CASE verdict \in {"unknown", "truncated"}
  <2>1. y = [x EXCEPT !.pc = "over", !.fault = s] BY <1>10, <1>11
  <2>2. s \in Nat BY <1>1, StreamIds
  <2>3. y \in Readers /\ TakenBy(y, s) /\ y.todo = session.todo /\ y.taken = x.taken
        /\ y.pc = "over" /\ y.fault = s /\ y.streams = session.streams
    BY <1>2, <2>1, <2>2 DEF Readers, TakenBy
  <2>4. Rejected(y, s) BY <1>9, <1>11, <2>3 DEF Rejected, Good
  <2> QED BY <2>3, <2>4 DEF y
<1>12. CASE verdict \in {"typed", "more"} /\ data.fin
  <2> DEFINE rest == [r \in DOMAIN session.streams \ {s} |-> session.streams[r]]
  <2>1. y = [x EXCEPT !.todo = session.todo \ {s}, !.streams = rest] BY <1>2, <1>10, <1>12
  <2>2. rest \in Polls
    <3>1. rest \in [DOMAIN session.streams \ {s} -> [prefix : Nat, typed : BOOLEAN]] BY <1>3
    <3> QED BY <1>3, <3>1 DEF Polls
  <2> HIDE DEF rest
  <2>3. y \in Readers /\ TakenBy(y, s) /\ y.todo = session.todo \ {s} /\ y.taken = x.taken
        /\ y.pc = "read" /\ y.fault = 0 /\ y.streams = rest
    BY <1>2, <1>3, <2>1, <2>2 DEF Readers, TakenBy
  <2>4. Forgot(y, s) BY <1>9, <1>12, <2>3 DEF Forgot, Good, rest
  <2> QED BY <2>3, <2>4 DEF y
<1>13. CASE verdict \in {"typed", "more"} /\ ~data.fin
  <2> DEFINE news == [session.streams EXCEPT ![s] = [prefix |-> prefix, typed |-> verdict = "typed"]]
             todo == IF data.bytes = <<>> THEN session.todo \ {s} ELSE session.todo
  <2>1. y = [x EXCEPT !.streams = news, !.todo = todo] BY <1>2, <1>10, <1>13 DEF Readers
  <2>2. news \in Polls /\ DOMAIN news = DOMAIN session.streams
    <3>1. news \in [DOMAIN session.streams -> [prefix : Nat, typed : BOOLEAN]] BY <1>1, <1>3, <1>7
    <3> QED BY <1>3, <3>1 DEF Polls
  <2>3. news[s].prefix = prefix /\ (news[s].typed <=> verdict = "typed")
        /\ \A r \in DOMAIN session.streams \ {s} : news[r] = session.streams[r]
    BY <1>1, <1>3
  <2>4. todo \in SUBSET PeerUni /\ todo \subseteq session.todo BY <1>3
  <2> HIDE DEF news, todo
  <2>5. y \in Readers /\ TakenBy(y, s) /\ y.todo = todo /\ y.taken = x.taken
        /\ y.pc = "read" /\ y.fault = 0 /\ y.streams = news
    BY <1>2, <2>1, <2>2, <2>4 DEF Readers, TakenBy
  <2>6. ReadsOn(y, s) BY <1>5, <1>9, <2>2, <2>3, <2>5 DEF ReadsOn, Good
  <2> QED BY <2>4, <2>5, <2>6 DEF y
<1> QED BY <1>9, <1>11, <1>12, <1>13

\* poll() reads a chunk of stream s.
LEMMA ReadsStep ==
    ASSUME PeerTypes, PeerInv, session.pc = "read", NEW s \in session.todo, s \in DOMAIN received,
           session' = Polled(s), received' = Erased(s),
           conn' = IF session'.fault # 0 THEN [conn EXCEPT !.close = TRUE] ELSE conn,
           closer' = IF session'.fault # 0 THEN "waits" ELSE closer,
           UNCHANGED <<streams, types, accepted, open, peer>>
    PROVE  PeerTypes' /\ PeerInv'
<1> DEFINE y == session'
<1>1. /\ s \in DOMAIN session.streams /\ s \in accepted /\ s \in PeerUni /\ s \in Streams
      /\ s # 0 /\ session.fault = 0
  BY StreamIds DEF PeerTypes, PeerInv, TakenUp, TypesKnown
<1>2. /\ y \in Readers /\ TakenBy(y, s) /\ y.todo \subseteq session.todo
      /\ Rejected(y, s) \/ Forgot(y, s) \/ ReadsOn(y, s)
  <2>1. /\ Polled(s) \in Readers /\ TakenBy(Polled(s), s) /\ Polled(s).todo \subseteq session.todo
        /\ Rejected(Polled(s), s) \/ Forgot(Polled(s), s) \/ ReadsOn(Polled(s), s)
    BY PolledFacts
  <2> QED BY <2>1
<1>3. received' \in Stores /\ StreamsCarried' BY <1>1, <1>2, ReadCarried
<1>4. DOMAIN received' = DOMAIN received \ {s} BY ErasedFacts
<1>5. conn' \in Connections /\ closer' \in {"none", "waits", "returned"} BY DEF PeerTypes, Connections
<1>6. PeerTypes'
  <2>1. /\ streams' \in StreamScenarios /\ types' \in [streams'.uni -> Types]
        /\ accepted' \in SUBSET PeerUni /\ open' \in Openings /\ peer' \in Senders
    BY DEF PeerTypes, Senders, Streams
  <2>2. (session \in Readers)' /\ (received \in Stores)' BY <1>2, <1>3 DEF Readers, Stores, Streams
  <2> QED BY <1>5, <2>1, <2>2 DEF PeerTypes, Senders, Streams
<1>7. StoredKnown' BY <1>4 DEF PeerInv, StoredKnown
<1>8. \A r \in Streams \ {s} : y.taken[r] = session.taken[r] BY <1>1, <1>2 DEF TakenBy, PeerTypes, Readers
<1>9. \A r \in Streams \ {s} : Good(r, session)' <=> Good(r, session)
  <2>1. y.taken = session'.taken OBVIOUS
  <2> HIDE DEF y
  <2> QED BY <1>8, <2>1 DEF Good
<1>10. Good(s, session)' <=> Good(s, y) BY DEF Good
<1>11. /\ y.order = session.order
       /\ DOMAIN y.streams \subseteq DOMAIN session.streams
       /\ DOMAIN session.streams \ {s} \subseteq DOMAIN y.streams
       /\ s \notin DOMAIN y.streams => s \notin y.todo
       /\ \A r \in DOMAIN session.streams \ {s} : y.streams[r] = session.streams[r]
  <2> HIDE DEF y
  <2>1. y.order = session.order BY <1>2 DEF TakenBy
  <2>2. CASE Rejected(y, s) BY <1>1, <2>1, <2>2 DEF Rejected
  <2>3. CASE Forgot(y, s) BY <1>1, <2>1, <2>3 DEF Forgot
  <2>4. CASE ReadsOn(y, s) BY <1>1, <2>1, <2>4 DEF ReadsOn
  <2> QED BY <1>2, <2>2, <2>3, <2>4
<1>12. TakenUp'
  <2>1. AcceptedOnce' BY <1>11 DEF PeerInv, TakenUp, AcceptedOnce
  <2>2. y.todo \subseteq DOMAIN y.streams BY <1>2, <1>11 DEF PeerInv, TakenUp
  <2>3. \A r \in PeerUni \ accepted : y.taken[r] = <<>> BY <1>1, <1>8, StreamIds DEF PeerInv, TakenUp
  <2> QED BY <1>11, <2>1, <2>2, <2>3 DEF PeerInv, TakenUp
<1>13. TypesKnown'
  <2>1. \A r \in accepted \ {s} :
          IF r \in DOMAIN y.streams
          THEN /\ y.streams[r].prefix = Min({PrefixLimit, Len(y.taken[r])})
               /\ y.streams[r].typed => Good(r, session)'
          ELSE Good(r, session)'
    <3> TAKE r \in accepted \ {s}
    <3>1. r \in Streams \ {s} /\ r # 0 BY StreamIds DEF PeerTypes
    <3>2. IF r \in DOMAIN session.streams
          THEN /\ session.streams[r].prefix = Min({PrefixLimit, Len(session.taken[r])})
               /\ session.streams[r].typed => Good(r, session)
          ELSE Good(r, session)
      BY <1>1, <3>1 DEF PeerInv, TypesKnown
    <3>3. y.taken[r] = session.taken[r] /\ (Good(r, session)' <=> Good(r, session)) BY <1>8, <1>9, <3>1
    <3>4. r \in DOMAIN y.streams <=> r \in DOMAIN session.streams BY <1>11
    <3> HIDE DEF y
    <3> QED BY <1>11, <3>2, <3>3, <3>4
  <2>5. y = session' /\ accepted' = accepted OBVIOUS
  <2>2. CASE Rejected(y, s)
    <3>1. y.fault = s /\ y.pc = "over" /\ s \in DOMAIN y.streams /\ ~Good(s, session)'
      BY <1>1, <1>10, <2>2 DEF Rejected
    <3> HIDE DEF y
    <3> QED BY <1>1, <2>1, <2>5, <3>1 DEF TypesKnown
  <2>3. CASE Forgot(y, s)
    <3>1. y.fault = 0 /\ s \notin DOMAIN y.streams /\ Good(s, session)' BY <1>1, <1>10, <2>3 DEF Forgot
    <3> HIDE DEF y
    <3> QED BY <1>1, <2>1, <2>5, <3>1 DEF TypesKnown
  <2>4. CASE ReadsOn(y, s)
    <3>1. /\ y.fault = 0 /\ s \in DOMAIN y.streams
          /\ y.streams[s].prefix = Min({PrefixLimit, Len(y.taken[s])})
          /\ y.streams[s].typed => Good(s, session)'
      BY <1>1, <1>10, <2>4 DEF ReadsOn
    <3> HIDE DEF y
    <3> QED BY <1>1, <2>1, <2>5, <3>1 DEF TypesKnown
  <2> QED BY <1>2, <2>2, <2>3, <2>4
<1>14. EndKnown'
  <2>1. y.why = session.why BY <1>2 DEF TakenBy
  <2>2. /\ conn'.told = conn.told /\ conn'.disconnected = conn.disconnected
        /\ conn'.state = conn.state /\ conn'.connected = conn.connected
        /\ (conn.close \/ y.fault # 0) => conn'.close
    BY DEF PeerTypes, Connections
  <2> HIDE DEF y
  <2>3. closer' # "none" => conn'.close BY <2>2 DEF PeerInv, EndKnown, y
  <2> QED BY <2>1, <2>2, <2>3 DEF PeerInv, EndKnown, y
<1> QED BY <1>3, <1>6, <1>7, <1>12, <1>13, <1>14 DEF PeerInv

LEMMA PollReadStep == PeerTypes /\ PeerInv /\ PollRead => PeerTypes' /\ PeerInv'
<1> SUFFICES ASSUME PeerTypes, PeerInv, PollRead PROVE PeerTypes' /\ PeerInv' OBVIOUS
<1> DEFINE s == Min(session.todo)
           ends == ReadOver(s)
<1>1. /\ session.pc = "read" /\ session.fault = 0
      /\ closer' = IF session'.fault # 0 THEN "waits" ELSE closer
      /\ UNCHANGED <<streams, types, accepted, open, peer>>
      /\ session \in Readers /\ session.todo \subseteq DOMAIN session.streams
  BY DEF PollRead, PeerTypes, PeerInv, TypesKnown, TakenUp
<1>2. session.todo # {} => s \in session.todo
  <2>1. session.todo \in SUBSET Nat BY StreamIds DEF PeerTypes, Readers
  <2> QED BY <2>1, NatMin
<1>3. CASE session.todo = {}
  <2>1. session' = [session EXCEPT !.pc = "accept"] /\ UNCHANGED <<received, conn>> BY <1>3 DEF PollRead
  <2>2. /\ session' \in Readers /\ SameReads(session') /\ session'.why = session.why
        /\ session'.todo = session.todo
    BY <1>1, <2>1 DEF Readers, SameReads
  <2> QED BY <1>1, <2>1, <2>2, NothingRead DEF SameReads
<1>4. CASE session.todo # {} /\ ends
  <2>1. session' = Fails(ReadFailed) /\ UNCHANGED <<received, conn>>
    <3>1. ~(Usable /\ Readable(s)) BY <1>4 DEF ReadOver, Readable, Http3Readable
    <3> HIDE DEF s
    <3> QED BY <1>4, <3>1 DEF PollRead, s
  <2>2. Fails(ReadFailed).todo = session.todo /\ ReadFailed \in BOOLEAN
    BY <1>1 DEF Fails, ReadFailed, PeerTypes, Readers, Connections
  <2>3. /\ session' \in Readers /\ session'.pc = "over" /\ SameReads(session')
        /\ session'.todo = session.todo
        /\ session'.why = "peer" => peer.closed /\ conn.state = "connected" /\ conn.disconnected
    BY <2>1, <2>2, Ended
  <2> QED BY <1>1, <2>1, <2>3, NothingRead DEF SameReads
<1>5. CASE session.todo # {} /\ Usable /\ Readable(s) /\ ~ends
  <2>1. /\ session' = Polled(s) /\ received' = Erased(s)
        /\ conn' = IF session'.fault # 0 THEN [conn EXCEPT !.close = TRUE] ELSE conn
    BY <1>5 DEF PollRead
  <2>2. s \in session.todo /\ s \in DOMAIN received BY <1>2, <1>5 DEF Readable, QuicReadable, Http3Readable
  <2> HIDE DEF s
  <2> QED BY <1>1, <2>1, <2>2, ReadsStep
<1>6. CASE session.todo # {} /\ ~(Usable /\ Readable(s)) /\ ~ends
  <2>1. session' = [session EXCEPT !.todo = @ \ {s}] /\ UNCHANGED <<received, conn>> BY <1>6 DEF PollRead
  <2>2. /\ session' \in Readers /\ SameReads(session') /\ session'.why = session.why
        /\ session'.todo \subseteq session.todo
    BY <1>1, <2>1 DEF Readers, SameReads
  <2> QED BY <1>1, <2>1, <2>2, NothingRead DEF SameReads
<1> QED BY <1>3, <1>4, <1>5, <1>6

LEMMA ReadRequestStep == PeerTypes /\ PeerInv /\ ReadRequest => PeerTypes' /\ PeerInv'
<1> SUFFICES ASSUME PeerTypes, PeerInv, ReadRequest PROVE PeerTypes' /\ PeerInv' OBVIOUS
<1> DEFINE y == session'
<1>1. /\ session' = Took(session, Request) /\ received' = Erased(Request)
      /\ UNCHANGED <<streams, types, conn, accepted, open, peer, closer>>
      /\ Request \in DOMAIN received /\ Request \in Streams
  BY StreamIds DEF ReadRequest, Readable, QuicReadable, Http3Readable
<1>2. /\ y \in Readers /\ TakenBy(y, Request) /\ y.pc = session.pc /\ y.todo = session.todo
      /\ y.streams = session.streams /\ y.fault = session.fault
      /\ \A r \in Streams \ {Request} : y.taken[r] = session.taken[r]
  <2> DEFINE x == Took(session, Request)
  <2>1. /\ x \in Readers /\ TakenBy(x, Request) /\ x.pc = session.pc /\ x.todo = session.todo
        /\ x.streams = session.streams /\ x.fault = session.fault
        /\ \A r \in Streams \ {Request} : x.taken[r] = session.taken[r]
    BY <1>1, TookFacts
  <2>2. y = x BY <1>1
  <2> HIDE DEF x
  <2> QED BY <2>1, <2>2
<1>3. received' \in Stores /\ StreamsCarried' BY <1>1, <1>2, ReadCarried
<1>4. DOMAIN received' = DOMAIN received \ {Request} BY <1>1, ErasedFacts
<1>5. PeerTypes'
  <2>1. (session \in Readers)' /\ (received \in Stores)' BY <1>2, <1>3 DEF Readers, Stores, Streams
  <2> QED BY <1>1, <2>1 DEF PeerTypes, Senders, Streams
<1>6. StoredKnown' BY <1>1, <1>4 DEF PeerInv, StoredKnown
<1>7. \A r \in PeerUni : y.taken[r] = session.taken[r] BY <1>2, StreamIds
<1>8. y.order = session.order /\ y.why = session.why BY <1>2 DEF TakenBy
<1> HIDE DEF y
<1>9. TakenUp' BY <1>1, <1>2, <1>7, <1>8 DEF PeerInv, TakenUp, AcceptedOnce, y
<1>10. \A r \in PeerUni : Good(r, session)' <=> Good(r, session) BY <1>1, <1>7 DEF Good, y
<1>11. TypesKnown'
  <2>1. accepted \in SUBSET PeerUni /\ DOMAIN session.streams \in SUBSET PeerUni
    BY DEF PeerTypes, Readers, Polls
  <2> QED BY <1>1, <1>2, <1>7, <1>10, <2>1 DEF PeerInv, TypesKnown, y
<1>12. EndKnown' BY <1>1, <1>8 DEF PeerInv, EndKnown, y
<1> QED BY <1>3, <1>5, <1>6, <1>9, <1>11, <1>12 DEF PeerInv

LEMMA PeerStep == PeerTypes /\ PeerInv /\ [PeerNext]_peerVars => PeerTypes' /\ PeerInv'
<1> SUFFICES ASSUME PeerTypes, PeerInv, [PeerNext]_peerVars PROVE PeerTypes' /\ PeerInv' OBVIOUS
<1>1. CASE UNCHANGED peerVars
  <2>1. conn' \in Connections /\ closer' \in {"none", "waits", "returned"} /\ EndKnown'
    BY <1>1 DEF peerVars, PeerTypes, PeerInv, EndKnown
  <2> QED BY <1>1, <2>1, ConnectionSteps DEF peerVars
<1>2. CASE PeerNext
  BY <1>2, LoopReadyStep, HandshakeStep, ConnectStep, StreamDataStep, StreamResetStep, StopSendingStep,
     InvalidDatagramStep, ConnectStreamEndsStep, ConnectionClosesStep, LoopExitsStep, OpenStep,
     PollAcceptStep, PollReadStep, ReadRequestStep, CloseStep, CloseReturnsStep DEF PeerNext
<1> QED BY <1>1, <1>2

LEMMA PeerInvSound == PeerTypes /\ PeerInv => ReceiveSound
<1> SUFFICES ASSUME PeerTypes, PeerInv PROVE ReceiveSound OBVIOUS
<1>1. ASSUME NEW s \in Streams
      PROVE  /\ session.taken[s] \o Received(s).bytes = [i \in 1..peer.sent[s] |-> i]
             /\ (s \in session.fins \/ Received(s).fin) /\ ~StoppedByPeer(s) => peer.end[s] # "open"
             /\ peer.end[s] = "fin" => s \in session.fins \/ Received(s).fin
             /\ s \in session.fins /\ ~StoppedByPeer(s) => Len(session.taken[s]) = peer.sent[s]
  BY DEF PeerInv, StreamsCarried, Carried, Leading
<1>2. BytesOnce BY <1>1 DEF BytesOnce
<1>3. FinsReal BY <1>1 DEF FinsReal, StoppedByPeer
<1>4. AcceptedOnce BY DEF PeerInv, TakenUp
<1>5. TypesJudged
  <2>1. /\ session.fault # 0 => ~Good(session.fault, session)
        /\ session.fault # 0 => session.fault \in DOMAIN session.streams
    BY DEF PeerInv, TypesKnown
  <2>2. \A s \in ToSet(session.order) : s \notin DOMAIN session.streams => Good(s, session)
    <3> SUFFICES ASSUME NEW s \in ToSet(session.order), s \notin DOMAIN session.streams
                 PROVE  Good(s, session)
      OBVIOUS
    <3>1. s \in accepted BY <1>4 DEF AcceptedOnce
    <3>2. s # session.fault
      <4>1. s \in PeerUni BY <3>1 DEF PeerTypes
      <4> QED BY <2>1, <4>1, StreamIds
    <3> QED BY <3>1, <3>2 DEF PeerInv, TypesKnown
  <2> QED BY <2>1, <2>2 DEF TypesJudged, Good
<1>6. EndsExplained BY DEF EndsExplained, PeerInv, EndKnown, Reported
<1> QED BY <1>2, <1>3, <1>4, <1>5, <1>6 DEF ReceiveSound

\* Callbacks that append to received_streams and reads that erase its entries, in
\* any interleaving with close(), failures and open_stream(): each stream of the
\* peer is taken up once, its bytes and its FIN are read once and in order, its type is
\* judged rightly, and the end of the session is blamed on who caused it.
THEOREM StreamsReceivedWhole == PeerSpec => []ReceiveSound
<1>1. PeerInit => PeerTypes /\ PeerInv BY PeerInitial
<1>2. PeerTypes /\ PeerInv /\ [PeerNext]_peerVars => PeerTypes' /\ PeerInv' BY PeerStep
<1>3. PeerTypes /\ PeerInv => ReceiveSound BY PeerInvSound
<1> QED BY <1>1, <1>2, <1>3, PTL DEF PeerSpec
=============================================================================
