-------------------------- MODULE LiveInputsProofs --------------------------
(* Proofs about the two live inputs.

   LiveMediaQueue, for any tracks, times, sizes and limits: whatever is
   shed and popped, the consumer is never handed a video fragment it
   cannot decode, tracks resume at the recovery boundary, the reported
   sizes are exact and within the limits, and a drained queue admits the
   next keyframe.

   LiveDash, for any uploads, sockets and end of the publish: stop() shuts
   down the sockets of the running workers and of no other, and no thread
   outlives the server.  The invariant is DashInv: each connection owns
   its socket until it deregistered it (OwnSocket), the accept thread has
   one connection in hand under the mutex (OneInHand), and whoever called
   stop() first is still in it or left a quiet server (OneStops).

   And whatever the uploads hold and however they interleave, what the
   session hands over is what the publisher is promised.  The invariant is
   ObjectsInv: of each track, what was handed over, then what is queued,
   then the location the counters give next, only climb (OrderInv); first
   objects of video groups are keyframes of their group's time
   (AlignedInv); and a LOC object's predecessor went out or is queued
   before it (ChainInv). *)
EXTENDS LiveMediaQueue, LiveDash, DataTheorems

-----------------------------------------------------------------------------
(* LiveMediaQueue. *)

\* r lists what es holds at the positions in K, in order: e names the places.
Lists(r, es, K, e) ==
    /\ e \in [DOMAIN r -> K]
    /\ \A a, b \in DOMAIN r : a < b => e[a] < e[b]
    /\ \A i \in K : \E a \in DOMAIN r : e[a] = i
    /\ \A a \in DOMAIN r : r[a] = es[e[a]]

LEMMA InOrderFacts ==
    ASSUME NEW n \in Nat, NEW K \in SUBSET (1..n), NEW e, e = InOrder(K)
    PROVE  /\ Cardinality(K) \in Nat /\ e \in [1..Cardinality(K) -> K]
           /\ Rises(e, Cardinality(K))
           /\ \A i \in K : \E a \in 1..Cardinality(K) : e[a] = i
<1> DEFINE c == Cardinality(K)
<1>0. K \subseteq Int OBVIOUS
<1>1. IsFiniteSet(K) /\ c \in Nat /\ \E list \in [1..c -> K] : Rises(list, c) BY RisingExists
<1>2. e \in [1..c -> K] /\ Rises(e, c) BY <1>1 DEF InOrder, Rises
<1>3. IsFiniteSet(1..c) /\ Cardinality(1..c) = c BY <1>1, FS_Interval
<1> DEFINE R == {e[a] : a \in 1..c}
<1> HIDE DEF c
<1>4. e \in Bijection(1..c, R)
  <2>1. e \in [1..c -> R] /\ \A y \in R : \E a \in 1..c : e[a] = y BY <1>2
  <2>2. ASSUME NEW a \in 1..c, NEW b \in 1..c, e[a] = e[b] PROVE a = b
    <3>1. a < b \/ b < a \/ a = b BY <1>1
    <3>2. e[a] \in Int BY <1>0, <1>2, Zenon
    <3>3. (a < b => e[a] < e[b]) /\ (b < a => e[b] < e[a]) BY <1>2 DEF Rises
    <3> QED BY <2>2, <3>1, <3>2, <3>3
  <2> HIDE DEF R
  <2> QED BY <2>1, <2>2 DEF Bijection, Injection, Surjection, IsInjective
<1>5. Cardinality(R) = c
  <2>1. ExistsBijection(1..c, R) BY <1>4 DEF ExistsBijection
  <2> QED BY <1>3, <2>1, FS_Bijection
<1>6. R \in SUBSET K BY <1>2
<1>7. R = K BY <1>1, <1>5, <1>6, FS_Subset DEF c
<1>8. \A i \in K : \E a \in 1..c : e[a] = i BY <1>7
<1> QED BY <1>1, <1>2, <1>8 DEF c

LEMMA RetainedFacts ==
    ASSUME NEW S, NEW es \in Seq(S), NEW vt, NEW T
    PROVE  /\ Retained(es, vt, T) \in Seq(S)
           /\ \E e : Lists(Retained(es, vt, T), es, Kept(es, vt, T), e)
<1> DEFINE K == Kept(es, vt, T)
           e == InOrder(K)
           r == Retained(es, vt, T)
           c == Cardinality(K)
<1>1. Len(es) \in Nat /\ DOMAIN es = 1..Len(es) /\ \A i \in 1..Len(es) : es[i] \in S
  BY LenProperties, ElementOfSeq
<1>2. K \in SUBSET (1..Len(es)) BY <1>1 DEF Kept
<1>3. r = [k \in DOMAIN e |-> es[e[k]]] BY DEF Retained
<1> HIDE DEF K, r
<1>4. /\ c \in Nat /\ e \in [1..c -> K] /\ Rises(e, c)
      /\ \A i \in K : \E a \in 1..c : e[a] = i
  BY <1>1, <1>2, InOrderFacts
<1> HIDE DEF e, c
<1>5. DOMAIN e = 1..c BY <1>4
<1>6. r = [k \in 1..c |-> es[e[k]]] BY <1>3, <1>5
<1>7. \A k \in 1..c : es[e[k]] \in S BY <1>1, <1>2, <1>4
<1>8. r \in Seq(S) BY <1>4, <1>6, <1>7
<1>9. DOMAIN r = 1..c /\ \A a \in 1..c : r[a] = es[e[a]] BY <1>6
<1>10. Lists(r, es, K, e) BY <1>4, <1>9 DEF Lists, Rises
<1> QED BY <1>8, <1>10 DEF r, K

(* ---- the parts of the invariant ---- *)

Frag == [track : Tracks, seq : Nat, init : BOOLEAN, start : Times, duration : Durations,
         size : Sizes, key : BOOLEAN, sap : {0, 1, 2}]

QueueTypes ==
    /\ entries \in Seq(Frag)
    /\ videoTracks \subseteq Video /\ awaiting \subseteq videoTracks
    /\ boundary \in Times \cup {None}
    /\ nextSeq \in [Tracks -> Nat] /\ gopStart \in [Tracks -> Nat]
    /\ lastPopped \in [Tracks -> Int]

FlagTypes == eof \in BOOLEAN /\ exceeded \in BOOLEAN

\* Nothing queued behind a keyframe of its track starts before it, and no
\* queued keyframe starts after the track's last one.
GroupsClosed(es, starts) ==
    \A i \in DOMAIN es : es[i].track \in Video /\ es[i].key =>
        /\ es[i].start <= starts[es[i].track]
        /\ \A j \in DOMAIN es :
              i < j /\ es[j].track = es[i].track => es[i].start <= es[j].start

\* Queued fragments of video tracks are media of a track known to be video,
\* and keyframes are of video tracks.
Seen(es, vt) ==
    \A i \in DOMAIN es : /\ es[i].track \in Video => es[i].track \in vt /\ ~es[i].init
                         /\ es[i].key => es[i].track \in Video

\* A fragment that is no keyframe follows the one before it in its track.
Contiguous(es, popped) ==
    \A i \in DOMAIN es : es[i].track \in Video /\ ~es[i].key =>
        /\ \A j \in DOMAIN es :
              /\ j < i /\ es[j].track = es[i].track
              /\ \A k \in DOMAIN es : j < k /\ k < i => es[k].track # es[i].track
              => es[i].seq = es[j].seq + 1
        /\ (\A j \in DOMAIN es : j < i => es[j].track # es[i].track)
              => es[i].seq = popped[es[i].track] + 1

\* The newest fragment of a track is the last one that it produced.
UpToDate(es, popped, next, t) ==
    /\ \A j \in DOMAIN es :
          es[j].track = t /\ (\A k \in DOMAIN es : j < k => es[k].track # t)
              => es[j].seq + 1 = next[t]
    /\ (\A j \in DOMAIN es : es[j].track # t) => popped[t] + 1 = next[t]

\* A track that waits for a keyframe has nothing queued.
WaitsEmpty == \A i \in DOMAIN entries : entries[i].track \notin awaiting

\* A video track that does not wait for a keyframe has lost nothing since its
\* last one, which started at or after the recovery boundary.
NothingLost ==
    ~exceeded =>
        /\ \A t \in Video : t \notin awaiting => UpToDate(entries, lastPopped, nextSeq, t)
        /\ \A t \in videoTracks : t \notin awaiting => boundary <= gopStart[t]

\* The boundary is the start of a keyframe.
BoundaryIsKey == boundary # None => \E u \in Video : boundary <= gopStart[u]

Measured ==
    /\ WithinLimits(entries)
    /\ queuedBytes = TotalBytes(entries) /\ queuedDuration = Span(entries)

\* The inductive invariant.
QueueInv ==
    /\ QueueTypes /\ FlagTypes /\ GroupsClosed(entries, gopStart)
    /\ Seen(entries, videoTracks) /\ Contiguous(entries, lastPopped)
    /\ WaitsEmpty /\ NothingLost /\ BoundaryIsKey /\ AlignedToBoundary /\ Measured

(* ---- measure ---- *)

LEMMA QueueConstants ==
    /\ Video \cap (Audio \cup Inits) = {} /\ Audio \cap Inits = {}
    /\ Times \subseteq Nat /\ Durations \subseteq Nat /\ Sizes \subseteq Nat
    /\ MaxBytes \in Nat /\ MaxDuration \in Nat /\ WordMax \in Nat
  BY QueueAssumption

LEMMA FragFields ==
    ASSUME NEW f \in Frag
    PROVE  /\ f.track \in Tracks /\ f.seq \in Nat /\ f.init \in BOOLEAN /\ f.key \in BOOLEAN
           /\ f.start \in Times /\ f.start \in Nat
           /\ f.duration \in Durations /\ f.duration \in Nat
           /\ f.size \in Sizes /\ f.size \in Nat
<1>1. /\ f.track \in Tracks /\ f.seq \in Nat /\ f.init \in BOOLEAN /\ f.key \in BOOLEAN
      /\ f.start \in Times /\ f.duration \in Durations /\ f.size \in Sizes
  BY DEF Frag
<1> QED BY <1>1, QueueConstants

\* A sequence of fragments, spelled out.
LEMMA EntryFields ==
    ASSUME NEW es \in Seq(Frag)
    PROVE  /\ Len(es) \in Nat /\ DOMAIN es = 1..Len(es)
           /\ \A i \in DOMAIN es :
                /\ es[i] \in Frag /\ es[i].track \in Tracks /\ es[i].seq \in Nat
                /\ es[i].init \in BOOLEAN /\ es[i].key \in BOOLEAN
                /\ es[i].start \in Times /\ es[i].start \in Nat
                /\ es[i].duration \in Nat /\ es[i].size \in Nat
           /\ \A f \in Media(es) : f \in Frag /\ f.start \in Nat /\ f.duration \in Nat
<1>1. Len(es) \in Nat /\ DOMAIN es = 1..Len(es) /\ \A i \in 1..Len(es) : es[i] \in Frag
  BY LenProperties, ElementOfSeq
<1>2. \A f \in Media(es) : f \in Frag BY <1>1 DEF Media
<1> QED BY <1>1, <1>2, FragFields

LEMMA SumShift ==
    ASSUME NEW n \in Nat, NEW f, NEW g, \A i \in 1..n + 1 : f[i] \in Int,
           \A i \in 1..n : g[i] = f[i + 1]
    PROVE  SumFunctionOnSet(g, 1..n) = SumFunctionOnSet(f, 2..n + 1)
<1> DEFINE G == {k \in Nat : k <= n =>
                   SumFunctionOnSet(g, 1..k) = SumFunctionOnSet(f, 2..k + 1)}
<1>1. 0 \in G
  <2>1. 1..0 = {} /\ 2..0 + 1 = {} OBVIOUS
  <2> QED BY <2>1, SumEmpty
<1>2. ASSUME NEW k \in Nat, k \in G PROVE k + 1 \in G
  <2> SUFFICES ASSUME k + 1 <= n
               PROVE  SumFunctionOnSet(g, 1..k + 1) = SumFunctionOnSet(f, 2..(k + 1) + 1)
    OBVIOUS
  <2>1. SumFunctionOnSet(g, 1..k) = SumFunctionOnSet(f, 2..k + 1) BY <1>2
  <2>2. 1..k + 1 = 1..k \cup {k + 1} /\ k + 1 \notin 1..k OBVIOUS
  <2>3. 2..(k + 1) + 1 = 2..k + 1 \cup {k + 2} /\ k + 2 \notin 2..k + 1 OBVIOUS
  <2>4. IsFiniteSet(1..k) /\ IsFiniteSet(2..k + 1) BY FS_Interval
  <2>5. \A i \in 1..k \cup {k + 1} : g[i] \in Int
    <3>1. \A i \in 1..k \cup {k + 1} : i \in 1..n /\ i + 1 \in 1..n + 1 OBVIOUS
    <3> QED BY <3>1
  <2>6. \A i \in 2..k + 1 \cup {k + 2} : f[i] \in Int
    <3>1. \A i \in 2..k + 1 \cup {k + 2} : i \in 1..n + 1 OBVIOUS
    <3> QED BY <3>1
  <2>7. SumFunctionOnSet(g, 1..k + 1) = g[k + 1] + SumFunctionOnSet(g, 1..k) BY <2>2, <2>4, <2>5, SumAdd
  <2>8. SumFunctionOnSet(f, 2..(k + 1) + 1) = f[k + 2] + SumFunctionOnSet(f, 2..k + 1)
    BY <2>3, <2>4, <2>6, SumAdd
  <2>9. g[k + 1] = f[k + 2]
    <3>1. k + 1 \in 1..n /\ (k + 1) + 1 = k + 2 OBVIOUS
    <3> QED BY <3>1
  <2> QED BY <2>1, <2>7, <2>8, <2>9
<1> HIDE DEF G
<1>3. n \in G BY <1>1, <1>2, NatSetInduction
<1> QED BY <1>3 DEF G

\* The bytes of a queue, and of the queue without its first entry.
LEMMA BytesFacts ==
    ASSUME NEW es \in Seq(Frag)
    PROVE  /\ TotalBytes(es) \in Nat
           /\ es # <<>> => TotalBytes(Tail(es)) <= TotalBytes(es)
<1> DEFINE f == [i \in DOMAIN es |-> es[i].size]
<1>1. Len(es) \in Nat /\ DOMAIN es = 1..Len(es) /\ \A i \in DOMAIN es : es[i].size \in Nat BY EntryFields
<1>a. IsFiniteSet(1..Len(es))
  <2>1. 1 \in Int /\ Len(es) \in Int BY <1>1
  <2> QED BY <2>1, IntervalFinite, Zenon
<1>2. IsFiniteSet(DOMAIN es) BY <1>1, <1>a, Zenon
<1>3. \A i \in DOMAIN es : f[i] = es[i].size /\ f[i] \in Nat BY <1>1
<1>4. TotalBytes(es) = SumFunctionOnSet(f, DOMAIN es) BY DEF TotalBytes
<1> HIDE DEF f
<1>5. TotalBytes(es) \in Nat BY <1>2, <1>3, <1>4, SumNat
<1>6. ASSUME es # <<>> PROVE TotalBytes(Tail(es)) <= TotalBytes(es)
  <2> DEFINE ts == Tail(es)
             g == [i \in DOMAIN ts |-> ts[i].size]
             n == Len(es) - 1
  <2>1. /\ n \in Nat /\ Len(es) = n + 1 /\ DOMAIN ts = 1..n
        /\ \A i \in 1..n : ts[i] = es[i + 1] /\ i + 1 \in 1..Len(es)
    <3>1. /\ Len(es) \in Nat \ {0} /\ DOMAIN ts = 1..(Len(es) - 1)
          /\ \A i \in 1..(Len(es) - 1) : ts[i] = es[i + 1]
      BY <1>6, TailFacts
    <3> QED BY <3>1
  <2>2. TotalBytes(ts) = SumFunctionOnSet(g, 1..n) BY <2>1 DEF TotalBytes
  <2>3. \A i \in 1..n : g[i] = f[i + 1] BY <1>1, <1>3, <2>1
  <2> HIDE DEF g, ts, n
  <2>4. \A i \in 1..n + 1 : f[i] \in Int BY <1>1, <1>3, <2>1
  <2>5. SumFunctionOnSet(g, 1..n) = SumFunctionOnSet(f, 2..n + 1) BY <2>1, <2>3, <2>4, SumShift
  <2>6. 1..n + 1 = 2..n + 1 \cup {1} /\ 1 \notin 2..n + 1 BY <2>1
  <2> DEFINE R == 2..n + 1
  <2>7. IsFiniteSet(R) BY <2>1, FS_Interval
  <2> HIDE DEF R
  <2>a. 1..n + 1 = R \cup {1} /\ 1 \notin R BY <2>6 DEF R
  <2>b. \A i \in R \cup {1} : f[i] \in Nat BY <1>1, <1>3, <2>1, <2>a
  <2>c. \A i \in R \cup {1} : f[i] \in Int BY <2>b
  <2>8. SumFunctionOnSet(f, R \cup {1}) = f[1] + SumFunctionOnSet(f, R) BY <2>7, <2>a, <2>c, SumAdd
  <2>9. SumFunctionOnSet(f, R) \in Nat /\ f[1] \in Nat BY <2>7, <2>b, SumNat
  <2>10. TotalBytes(es) = f[1] + SumFunctionOnSet(f, R) BY <1>1, <1>4, <2>1, <2>8, <2>a
  <2>11. TotalBytes(ts) = SumFunctionOnSet(f, R) BY <2>2, <2>5 DEF R
  <2> QED BY <2>9, <2>10, <2>11 DEF ts
<1> QED BY <1>5, <1>6

\* The media time of a queue whose end times fit 64 bits: the distance from
\* some start to some end, and no shorter than any such distance.
LEMMA SpanFacts ==
    ASSUME NEW es \in Seq(Frag), \A f \in Media(es) : f.start + f.duration <= WordMax
    PROVE  /\ Span(es) \in Nat
           /\ \A f, g \in Media(es) : f.start + f.duration - g.start <= Span(es)
           /\ Media(es) # {} =>
                \E f, g \in Media(es) : Span(es) = f.start + f.duration - g.start
<1> DEFINE M == Media(es)
           ends == {MediaEnd(f) : f \in M}
           starts == {f.start : f \in M}
<1>1. \A f \in M : f.start \in Nat /\ f.duration \in Nat /\ f.start + f.duration <= WordMax BY EntryFields
<1>2. WordMax \in Nat BY QueueConstants
<1>3. Span(es) = IF M = {} THEN 0 ELSE Max(ends) - Min(starts) BY DEF Span
<1> HIDE DEF M
<1>4. \A f \in M : MediaEnd(f) = f.start + f.duration
  <2> SUFFICES ASSUME NEW f \in M PROVE MediaEnd(f) = f.start + f.duration OBVIOUS
  <2> DEFINE x == f.start + f.duration
  <2>1. x \in Nat /\ x <= WordMax BY <1>1
  <2> HIDE DEF x
  <2>2. {WordMax, x} \in SUBSET Int /\ x \in {WordMax, x}
        /\ \A y \in {WordMax, x} : x <= y
    BY <1>2, <2>1
  <2>3. Min({WordMax, x}) = x BY <2>2, ExtremesAre
  <2> QED BY <2>3 DEF MediaEnd, x
<1>5. CASE M = {}
  <2>1. Span(es) = 0 BY <1>3, <1>5
  <2> QED BY <1>5, <2>1 DEF M
<1>6. CASE M # {}
  <2>1. ends \in SUBSET (0..WordMax) /\ ends # {} BY <1>1, <1>2, <1>4, <1>6
  <2>2. starts \in SUBSET (0..WordMax) /\ starts # {} BY <1>1, <1>2, <1>6
  <2>3. Max(ends) \in ends /\ \A y \in ends : y <= Max(ends) BY <1>2, <2>1, Extremes
  <2>4. Min(starts) \in starts /\ \A y \in starts : Min(starts) <= y BY <1>2, <2>2, Extremes
  <2>5. PICK f \in M : Max(ends) = f.start + f.duration BY <1>4, <2>3
  <2>6. PICK g \in M : Min(starts) = g.start BY <2>4
  <2>7. \A h \in M : h.start + h.duration <= f.start + f.duration /\ g.start <= h.start
    BY <1>1, <1>4, <2>3, <2>4, <2>5, <2>6
  <2>8. Span(es) = f.start + f.duration - g.start
    <3>1. Span(es) = (f.start + f.duration) - g.start BY <1>3, <1>6, <2>5, <2>6
    <3> QED BY <1>1, <3>1
  <2>9. Span(es) \in Nat BY <1>1, <2>5, <2>6, <2>7, <2>8
  <2>10. \A h, k \in M : h.start + h.duration - k.start <= Span(es) BY <1>1, <2>5, <2>6, <2>7, <2>8
  <2> QED BY <2>8, <2>9, <2>10 DEF M
<1> QED BY <1>5, <1>6

LEMMA TailMedia ==
    ASSUME NEW es \in Seq(Frag), es # <<>>
    PROVE  Media(Tail(es)) \subseteq Media(es)
<1>1. /\ Len(es) \in Nat \ {0} /\ DOMAIN es = 1..Len(es)
      /\ DOMAIN Tail(es) = 1..(Len(es) - 1)
      /\ \A i \in 1..(Len(es) - 1) : Tail(es)[i] = es[i + 1]
  BY TailFacts
<1>2. \A i \in DOMAIN Tail(es) : i + 1 \in DOMAIN es /\ Tail(es)[i] = es[i + 1] BY <1>1
<1> QED BY <1>2 DEF Media

\* Popping keeps within the limits.
LEMMA TailLimits ==
    ASSUME NEW es \in Seq(Frag), es # <<>>, WithinLimits(es)
    PROVE  Tail(es) \in Seq(Frag) /\ WithinLimits(Tail(es))
<1> DEFINE ts == Tail(es)
<1>1. ts \in Seq(Frag) BY TailFacts
<1>2. Media(ts) \subseteq Media(es) BY TailMedia
<1>3. TotalBytes(es) \in Nat /\ TotalBytes(ts) \in Nat /\ TotalBytes(ts) <= TotalBytes(es)
  BY <1>1, BytesFacts
<1>4. /\ \A f \in Media(es) : f.start + f.duration <= WordMax
      /\ TotalBytes(es) <= WordMax /\ TotalBytes(es) <= MaxBytes /\ Span(es) <= MaxDuration
  BY DEF WithinLimits
<1> HIDE DEF ts
<1>5. \A f \in Media(ts) : f.start + f.duration <= WordMax BY <1>2, <1>4
<1>6. TotalBytes(ts) <= WordMax /\ TotalBytes(ts) <= MaxBytes BY <1>3, <1>4, QueueConstants
<1>7. Span(ts) <= MaxDuration
  <2>1. Span(es) \in Nat /\ \A f, g \in Media(es) : f.start + f.duration - g.start <= Span(es)
    BY <1>4, SpanFacts
  <2>2. Span(ts) \in Nat BY <1>1, <1>5, SpanFacts
  <2>3. CASE Media(ts) = {}
    <3>1. Span(ts) = 0 BY <2>3 DEF Span
    <3> QED BY <3>1, QueueConstants
  <2>4. CASE Media(ts) # {}
    <3>1. PICK f \in Media(ts), g \in Media(ts) : Span(ts) = f.start + f.duration - g.start
      BY <1>1, <1>5, <2>4, SpanFacts
    <3>2. Span(ts) <= Span(es) BY <1>2, <2>1, <3>1
    <3> QED BY <1>4, <2>1, <2>2, <3>2, QueueConstants
  <2> QED BY <2>3, <2>4
<1>8. WithinLimits(ts) BY <1>5, <1>6, <1>7 DEF WithinLimits
<1> QED BY <1>1, <1>8 DEF ts

(* ---- sublists of a queue ---- *)

\* What a listing of some entries of a queue inherits from it.
LEMMA ListedFacts ==
    ASSUME NEW es \in Seq(Frag), NEW r \in Seq(Frag), NEW K \in SUBSET (DOMAIN es), NEW e,
           Lists(r, es, K, e), NEW starts \in [Tracks -> Nat], NEW vt
    PROVE  /\ GroupsClosed(es, starts) => GroupsClosed(r, starts)
           /\ Seen(es, vt) => Seen(r, vt)
           /\ Media(r) \subseteq Media(es)
           /\ \A a, b \in DOMAIN r : e[a] < e[b] => a < b
<1>1. \A a \in DOMAIN r : e[a] \in DOMAIN es /\ r[a] = es[e[a]] /\ e[a] \in Nat
  <2>1. \A a \in DOMAIN r : e[a] \in K /\ r[a] = es[e[a]] BY DEF Lists
  <2>2. DOMAIN es \subseteq Nat BY EntryFields
  <2> QED BY <2>1, <2>2, Zenon
<1>2. \A a, b \in DOMAIN r : a < b => e[a] < e[b] BY DEF Lists
<1>3. DOMAIN r \subseteq Nat BY EntryFields
<1>4. GroupsClosed(es, starts) => GroupsClosed(r, starts)
  <2> SUFFICES ASSUME GroupsClosed(es, starts), NEW a \in DOMAIN r, r[a].track \in Video, r[a].key
               PROVE  /\ r[a].start <= starts[r[a].track]
                      /\ \A b \in DOMAIN r :
                            a < b /\ r[b].track = r[a].track => r[a].start <= r[b].start
    BY DEF GroupsClosed
  <2> DEFINE i == e[a]
  <2>1. i \in DOMAIN es /\ r[a] = es[i] BY <1>1
  <2>2. /\ es[i].start <= starts[es[i].track]
        /\ \A j \in DOMAIN es : i < j /\ es[j].track = es[i].track => es[i].start <= es[j].start
    BY <2>1 DEF GroupsClosed
  <2>3. ASSUME NEW b \in DOMAIN r, a < b, r[b].track = r[a].track PROVE r[a].start <= r[b].start
    <3>1. e[b] \in DOMAIN es /\ r[b] = es[e[b]] /\ i < e[b] BY <1>1, <1>2, <2>3
    <3> HIDE DEF i
    <3> QED BY <2>1, <2>2, <2>3, <3>1
  <2> HIDE DEF i
  <2> QED BY <2>1, <2>2, <2>3
<1>5. Seen(es, vt) => Seen(r, vt) BY <1>1 DEF Seen
<1>6. Media(r) \subseteq Media(es) BY <1>1 DEF Media
<1>7. ASSUME NEW a \in DOMAIN r, NEW b \in DOMAIN r, e[a] < e[b] PROVE a < b
  <2>1. a \in Nat /\ b \in Nat /\ e[a] \in Nat /\ e[b] \in Nat BY <1>1, <1>3
  <2>2. b < a => e[b] < e[a] BY <1>2
  <2>3. a # b BY <1>7, <2>1
  <2> QED BY <1>7, <2>1, <2>2, <2>3
<1> QED BY <1>4, <1>5, <1>6, <1>7

\* The tail lists the entries from the second on.
LEMMA TailLists ==
    ASSUME NEW es \in Seq(Frag), es # <<>>
    PROVE  /\ 2..Len(es) \in SUBSET (DOMAIN es)
           /\ Lists(Tail(es), es, 2..Len(es), [a \in DOMAIN Tail(es) |-> a + 1])
<1>1. /\ Len(es) \in Nat \ {0} /\ DOMAIN es = 1..Len(es)
      /\ DOMAIN Tail(es) = 1..(Len(es) - 1)
      /\ \A i \in 1..(Len(es) - 1) : Tail(es)[i] = es[i + 1]
  BY TailFacts
<1> DEFINE D == DOMAIN Tail(es)
           n == Len(es)
           e == [a \in D |-> a + 1]
<1>2. \A a \in D : a \in Nat /\ a + 1 \in 2..n /\ Tail(es)[a] = es[a + 1] BY <1>1
<1>3. \A i \in 2..n : i - 1 \in D /\ (i - 1) + 1 = i BY <1>1
<1>4. 2..n \in SUBSET (DOMAIN es) BY <1>1
<1> HIDE DEF D, n
<1>5. e \in [D -> 2..n] /\ \A a, b \in D : a < b => e[a] < e[b] BY <1>2
<1>6. \A i \in 2..n : \E a \in D : e[a] = i BY <1>3
<1>7. \A a \in D : Tail(es)[a] = es[e[a]] BY <1>2
<1>8. Lists(Tail(es), es, 2..n, e) BY <1>5, <1>6, <1>7 DEF Lists, D
<1> QED BY <1>4, <1>8 DEF D, n

(* ---- one more fragment ---- *)

\* What the source may hand over.
LEMMA FragmentFacts ==
    ASSUME QueueTypes, NEW t \in Tracks, NEW f \in Fragments(t)
    PROVE  /\ f \in Frag /\ f.track = t /\ f.seq = nextSeq[t]
           /\ f.key => t \in Video
           /\ t \in Video => ~f.init /\ f.start >= gopStart[t] /\ IsVideo(f)
           /\ t \notin Video => ~IsVideo(f)
<1>1. /\ nextSeq[t] \in Nat /\ videoTracks \subseteq Video BY DEF QueueTypes
<1>2. /\ f.track = t /\ f.seq = nextSeq[t] /\ f.init = (t \in Inits) /\ f.start \in Times
      /\ f.duration \in Durations /\ f.size \in Sizes /\ f.key \in BOOLEAN
      /\ f.sap \in {0, 1, 2} /\ f.key => t \in Video
  BY DEF Fragments
<1>3. f.sap = SapType(t, f.key) /\ (t \in Video => f.start >= gopStart[t]) BY DEF Fragments
<1>4. f \in Frag
  <2>1. f \in [track : {t}, seq : {nextSeq[t]}, init : {t \in Inits}, start : Times,
               duration : Durations, size : Sizes, key : BOOLEAN, sap : {0, 1, 2}]
    BY DEF Fragments
  <2>2. (t \in Inits) \in BOOLEAN OBVIOUS
  <2> QED BY <1>1, <2>1, <2>2 DEF Frag
<1>5. t \in Video => t \notin Inits BY QueueConstants
<1>6. t \in Video => ~f.init BY <1>2, <1>5, Zenon
<1>7. t \in Video => f.sap \in {0, 2} BY <1>3 DEF SapType
<1>8. t \notin Video => f.sap \notin {0, 2} /\ ~f.key BY <1>2, <1>3 DEF SapType
<1>9. t \in Video => IsVideo(f) BY <1>6, <1>7 DEF IsVideo, IsVideoFragment
<1>10. t \notin Video => ~IsVideo(f)
  <2>1. f.track = t BY <1>2
  <2>2. ASSUME t \notin Video PROVE f.track \notin videoTracks /\ ~IsVideoFragment(f)
    <3>1. t \notin videoTracks BY <1>1, <2>2
    <3>2. ~IsVideoFragment(f) BY <1>8, <2>2, Zenon DEF IsVideoFragment
    <3> QED BY <2>1, <3>1, <3>2
  <2> QED BY <2>2 DEF IsVideo
<1>11. f.track = t /\ f.seq = nextSeq[t] /\ (f.key => t \in Video) BY DEF Fragments
<1> QED BY <1>3, <1>4, <1>6, <1>9, <1>10, <1>11

\* The track sets a push computes.
LEMMA TrackSets ==
    ASSUME QueueTypes, NEW t \in Tracks, NEW f \in Fragments(t)
    PROVE  /\ NowVideo(f) = IF t \in Video THEN videoTracks \cup {t} ELSE videoTracks
           /\ videoTracks \subseteq NowVideo(f) /\ NowVideo(f) \subseteq Video
           /\ awaiting \subseteq NowAwaiting(f) /\ NowAwaiting(f) \subseteq NowVideo(f)
           /\ NowAwaiting(f) \subseteq awaiting \cup {t}
           /\ t \in Video /\ t \notin NowAwaiting(f) =>
                t \notin awaiting /\ (boundary = None \/ t \in videoTracks)
           /\ t \in NowAwaiting(f) => t \in awaiting \/ t \notin videoTracks
           /\ Resumed(f) \subseteq NowVideo(f) /\ t \notin Resumed(f)
           /\ Resumed(f) = awaiting \ {t}
<1>1. /\ f.track = t /\ (t \in Video => IsVideo(f)) /\ (t \notin Video => ~IsVideo(f)) BY FragmentFacts
<1>2. videoTracks \subseteq Video /\ awaiting \subseteq videoTracks BY DEF QueueTypes
<1>3. CASE t \in Video BY <1>1, <1>2, <1>3 DEF NowVideo, NowAwaiting, Resumed
<1>4. CASE t \notin Video BY <1>1, <1>2, <1>4 DEF NowVideo, NowAwaiting, Resumed
<1> QED BY <1>3, <1>4

\* The source's counters after a push.
LEMMA ProduceFacts ==
    ASSUME QueueTypes, NEW t \in Tracks, NEW f \in Fragments(t), Produce(f)
    PROVE  /\ nextSeq' \in [Tracks -> Nat] /\ gopStart' \in [Tracks -> Nat]
           /\ lastPopped' = lastPopped
           /\ nextSeq'[t] = nextSeq[t] + 1 /\ \A u \in Tracks : u # t => nextSeq'[u] = nextSeq[u]
           /\ f.key => gopStart'[t] = f.start
           /\ ~f.key => gopStart' = gopStart
           /\ \A u \in Tracks : gopStart[u] <= gopStart'[u]
           /\ \A u \in Tracks : u # t => gopStart'[u] = gopStart[u]
<1>1. /\ f \in Frag /\ f.track = t /\ (f.key => t \in Video)
      /\ (t \in Video => f.start >= gopStart[t])
  BY FragmentFacts
<1>2. f.start \in Nat BY <1>1, FragFields
<1>3. nextSeq \in [Tracks -> Nat] /\ gopStart \in [Tracks -> Nat] BY DEF QueueTypes
<1>4. /\ nextSeq' = [nextSeq EXCEPT ![t] = @ + 1] /\ lastPopped' = lastPopped
      /\ gopStart' = IF f.key THEN [gopStart EXCEPT ![t] = f.start] ELSE gopStart
  BY <1>1 DEF Produce
<1>5. /\ nextSeq' \in [Tracks -> Nat] /\ nextSeq'[t] = nextSeq[t] + 1
      /\ \A u \in Tracks : u # t => nextSeq'[u] = nextSeq[u]
  BY <1>3, <1>4
<1>6. CASE f.key
  <2>1. gopStart' = [gopStart EXCEPT ![t] = f.start] BY <1>4, <1>6
  <2>2. f.start >= gopStart[t] BY <1>1, <1>6
  <2>3. /\ gopStart' \in [Tracks -> Nat] /\ gopStart'[t] = f.start
        /\ \A u \in Tracks : u # t => gopStart'[u] = gopStart[u]
    BY <1>2, <1>3, <2>1
  <2>4. \A u \in Tracks : gopStart[u] <= gopStart'[u] BY <1>3, <1>2, <2>2, <2>3
  <2> QED BY <1>4, <1>5, <1>6, <2>3, <2>4
<1>7. CASE ~f.key
  <2>1. gopStart' = gopStart BY <1>4, <1>7
  <2>2. \A u \in Tracks : gopStart[u] <= gopStart[u] BY <1>3
  <2> QED BY <1>3, <1>4, <1>5, <1>7, <2>1, <2>2
<1> QED BY <1>6, <1>7

\* The queue with one more fragment that the push does not shed.
Extended(f) == Append(entries, f)

LEMMA ExtendedPlaces ==
    ASSUME QueueTypes, NEW f \in Frag
    PROVE  /\ Extended(f) \in Seq(Frag) /\ Extended(f) # <<>>
           /\ Len(entries) \in Nat /\ DOMAIN entries = 1..Len(entries)
           /\ DOMAIN Extended(f) = 1..(Len(entries) + 1)
           /\ Len(entries) + 1 \in DOMAIN Extended(f)
           /\ Extended(f)[Len(entries) + 1] = f
           /\ \A i \in DOMAIN entries : /\ i \in DOMAIN Extended(f) /\ Extended(f)[i] = entries[i]
                                        /\ i < Len(entries) + 1 /\ i \in Nat
           /\ \A i \in DOMAIN Extended(f) : /\ i \in DOMAIN entries \/ i = Len(entries) + 1
                                            /\ i \in Nat /\ ~(Len(entries) + 1 < i)
<1>1. entries \in Seq(Frag) BY DEF QueueTypes
<1>2. /\ Extended(f) \in Seq(Frag) /\ Extended(f) # <<>>
      /\ Len(entries) \in Nat /\ DOMAIN entries = 1..Len(entries)
      /\ DOMAIN Extended(f) = 1..(Len(entries) + 1)
      /\ \A i \in 1..Len(entries) : Extended(f)[i] = entries[i]
      /\ Extended(f)[Len(entries) + 1] = f
  BY <1>1, AppendFacts DEF Extended
<1> DEFINE es == Extended(f)
           n == Len(entries)
<1> HIDE DEF es, n
<1>3. n \in Nat /\ DOMAIN es = 1..(n + 1) /\ DOMAIN entries = 1..n BY <1>2 DEF es, n
<1>4. n + 1 \in DOMAIN es /\ \A i \in 1..n : i \in DOMAIN es /\ i < n + 1 /\ i \in Nat BY <1>3
<1>5. \A i \in DOMAIN es : (i \in 1..n \/ i = n + 1) /\ i \in Nat /\ ~(n + 1 < i) BY <1>3
<1> QED BY <1>2, <1>3, <1>4, <1>5 DEF es, n

\* Groups stay closed, and the tracks of the queue stay known.
LEMMA ExtendedGroups ==
    ASSUME QueueTypes, GroupsClosed(entries, gopStart), Seen(entries, videoTracks),
           NEW t \in Tracks, NEW f \in Fragments(t), Produce(f)
    PROVE  /\ GroupsClosed(entries, gopStart') /\ Seen(entries, NowVideo(f))
           /\ GroupsClosed(Extended(f), gopStart') /\ Seen(Extended(f), NowVideo(f))
<1> DEFINE n == Len(entries)
           es == Extended(f)
<1>1. /\ f \in Frag /\ f.track = t /\ (f.key => t \in Video)
      /\ (t \in Video => ~f.init /\ f.start >= gopStart[t])
  BY FragmentFacts
<1>2. /\ gopStart \in [Tracks -> Nat] /\ gopStart' \in [Tracks -> Nat]
      /\ \A u \in Tracks : gopStart[u] <= gopStart'[u] /\ gopStart[u] \in Nat /\ gopStart'[u] \in Nat
      /\ (f.key => gopStart'[t] = f.start)
  BY ProduceFacts DEF QueueTypes
<1>3. \A i \in DOMAIN entries : entries[i].track \in Tracks /\ entries[i].start \in Nat
  BY EntryFields DEF QueueTypes
<1>4. f.start \in Nat BY <1>1, FragFields
<1>5. /\ n + 1 \in DOMAIN es /\ es[n + 1] = f
      /\ \A i \in DOMAIN entries : i \in DOMAIN es /\ es[i] = entries[i] /\ i < n + 1
      /\ \A i \in DOMAIN es : (i \in DOMAIN entries \/ i = n + 1) /\ ~(n + 1 < i)
  BY <1>1, ExtendedPlaces
<1>6. \A i \in DOMAIN entries : entries[i].track \in Video /\ entries[i].key =>
         /\ entries[i].start <= gopStart[entries[i].track]
         /\ \A j \in DOMAIN entries :
              i < j /\ entries[j].track = entries[i].track => entries[i].start <= entries[j].start
  BY DEF GroupsClosed
<1>7. GroupsClosed(entries, gopStart')
  <2>1. \A i \in DOMAIN entries : entries[i].track \in Video /\ entries[i].key =>
           entries[i].start <= gopStart'[entries[i].track]
    BY <1>2, <1>3, <1>6
  <2> QED BY <1>6, <2>1 DEF GroupsClosed
<1>8. /\ videoTracks \subseteq NowVideo(f) /\ (t \in Video => t \in NowVideo(f)) BY TrackSets
<1>9. Seen(entries, NowVideo(f)) BY <1>8 DEF Seen
<1> HIDE DEF n, es
<1>10. GroupsClosed(es, gopStart')
  <2> SUFFICES ASSUME NEW i \in DOMAIN es, es[i].track \in Video, es[i].key
               PROVE  /\ es[i].start <= gopStart'[es[i].track]
                      /\ \A j \in DOMAIN es :
                            i < j /\ es[j].track = es[i].track => es[i].start <= es[j].start
    BY DEF GroupsClosed
  <2>1. CASE i = n + 1
    <3>1. es[i] = f /\ \A j \in DOMAIN es : ~(i < j) BY <1>5, <2>1
    <3>2. gopStart'[t] = f.start BY <1>2, <3>1
    <3> QED BY <1>1, <1>4, <3>1, <3>2
  <2>2. CASE i \in DOMAIN entries
    <3>1. es[i] = entries[i] BY <1>5, <2>2
    <3>2. es[i].start <= gopStart'[es[i].track] BY <1>7, <2>2, <3>1 DEF GroupsClosed
    <3>3. ASSUME NEW j \in DOMAIN es, i < j, es[j].track = es[i].track
          PROVE  es[i].start <= es[j].start
      <4>1. CASE j \in DOMAIN entries BY <1>5, <1>6, <2>2, <3>1, <3>3, <4>1
      <4>2. CASE j = n + 1
        <5>1. es[j] = f /\ es[i].track = t BY <1>1, <1>5, <3>3, <4>2
        <5>2. entries[i].start <= gopStart[t] /\ f.start >= gopStart[t] BY <1>1, <1>6, <2>2, <3>1, <5>1
        <5>3. entries[i].start \in Nat /\ gopStart[t] \in Nat BY <1>2, <1>3, <2>2
        <5> QED BY <1>4, <3>1, <5>1, <5>2, <5>3
      <4> QED BY <1>5, <4>1, <4>2
    <3> QED BY <3>2, <3>3
  <2> QED BY <1>5, <2>1, <2>2
<1>11. Seen(es, NowVideo(f))
  <2> SUFFICES ASSUME NEW i \in DOMAIN es
               PROVE  /\ es[i].track \in Video => es[i].track \in NowVideo(f) /\ ~es[i].init
                      /\ es[i].key => es[i].track \in Video
    BY DEF Seen
  <2>1. CASE i = n + 1 BY <1>1, <1>5, <1>8, <2>1
  <2>2. CASE i \in DOMAIN entries
    <3>1. es[i] = entries[i] BY <1>5, <2>2
    <3> QED BY <1>9, <2>2, <3>1 DEF Seen
  <2> QED BY <1>5, <2>1, <2>2
<1> QED BY <1>7, <1>9, <1>10, <1>11 DEF es

\* A push that is not shed continues the track where it left off, or restarts
\* it with a keyframe.
LEMMA ExtendedOrder ==
    ASSUME QueueTypes, Contiguous(entries, lastPopped), NothingLost, ~exceeded,
           NEW t \in Tracks, NEW f \in Fragments(t), ~Sheds(f), Produce(f)
    PROVE  /\ Contiguous(Extended(f), lastPopped)
           /\ \A u \in Video : u = t \/ u \notin awaiting =>
                 UpToDate(Extended(f), lastPopped, nextSeq', u)
<1> DEFINE n == Len(entries)
           es == Extended(f)
<1>1. f \in Frag /\ f.track = t /\ f.seq = nextSeq[t] /\ (t \in Video => IsVideo(f)) BY FragmentFacts
<1>2. /\ nextSeq'[t] = nextSeq[t] + 1
      /\ \A u \in Tracks : u # t => nextSeq'[u] = nextSeq[u]
  BY ProduceFacts
<1>5. /\ n + 1 \in DOMAIN es /\ es[n + 1] = f
      /\ \A i \in DOMAIN entries : i \in DOMAIN es /\ es[i] = entries[i] /\ i < n + 1
      /\ \A i \in DOMAIN es : (i \in DOMAIN entries \/ i = n + 1) /\ ~(n + 1 < i)
  BY <1>1, ExtendedPlaces
<1>6. nextSeq[t] \in Nat /\ \A i \in DOMAIN entries : entries[i].seq \in Nat BY EntryFields DEF QueueTypes
<1>7. \A u \in Video : u \notin awaiting => UpToDate(entries, lastPopped, nextSeq, u) BY DEF NothingLost
<1> HIDE DEF n, es
<1>8. Contiguous(es, lastPopped)
  <2> SUFFICES ASSUME NEW i \in DOMAIN es, es[i].track \in Video, ~es[i].key
               PROVE  /\ \A j \in DOMAIN es :
                           /\ j < i /\ es[j].track = es[i].track
                           /\ \A k \in DOMAIN es : j < k /\ k < i => es[k].track # es[i].track
                           => es[i].seq = es[j].seq + 1
                      /\ (\A j \in DOMAIN es : j < i => es[j].track # es[i].track)
                           => es[i].seq = lastPopped[es[i].track] + 1
    BY DEF Contiguous
  <2>1. CASE i = n + 1
    <3>1. es[i] = f /\ t \in Video /\ ~f.key BY <1>1, <1>5, <2>1
    <3>2. t \notin awaiting
      <4>1. t \notin NowAwaiting(f) BY <1>1, <3>1 DEF Sheds, AwaitsKeyframe
      <4> QED BY <4>1, TrackSets
    <3>3. UpToDate(entries, lastPopped, nextSeq, t) BY <1>7, <3>1, <3>2
    <3>4. ASSUME NEW j \in DOMAIN es, j < i, es[j].track = es[i].track,
                 \A k \in DOMAIN es : j < k /\ k < i => es[k].track # es[i].track
          PROVE  es[i].seq = es[j].seq + 1
      <4>1. j \in DOMAIN entries /\ es[j] = entries[j] BY <1>5, <2>1, <3>4
      <4>2. \A k \in DOMAIN entries : j < k => entries[k].track # t BY <1>1, <1>5, <2>1, <3>1, <3>4
      <4>3. entries[j].seq + 1 = nextSeq[t] BY <1>1, <3>1, <3>3, <3>4, <4>1, <4>2 DEF UpToDate
      <4> QED BY <1>1, <3>1, <4>1, <4>3
    <3>5. ASSUME \A j \in DOMAIN es : j < i => es[j].track # es[i].track
          PROVE  es[i].seq = lastPopped[es[i].track] + 1
      <4>1. \A j \in DOMAIN entries : entries[j].track # t BY <1>1, <1>5, <2>1, <3>1, <3>5
      <4>2. lastPopped[t] + 1 = nextSeq[t] BY <3>3, <4>1 DEF UpToDate
      <4> QED BY <1>1, <3>1, <4>2
    <3> QED BY <3>4, <3>5
  <2>2. CASE i \in DOMAIN entries
    <3>1. es[i] = entries[i] BY <1>5, <2>2
    <3>2. /\ \A j \in DOMAIN entries :
               /\ j < i /\ entries[j].track = entries[i].track
               /\ \A k \in DOMAIN entries : j < k /\ k < i => entries[k].track # entries[i].track
               => entries[i].seq = entries[j].seq + 1
          /\ (\A j \in DOMAIN entries : j < i => entries[j].track # entries[i].track)
               => entries[i].seq = lastPopped[entries[i].track] + 1
      BY <2>2, <3>1 DEF Contiguous
    <3>3. \A j \in DOMAIN es : j < i => j \in DOMAIN entries /\ es[j] = entries[j]
      <4>1. i \in Nat /\ i < n + 1 /\ n \in Nat BY <1>1, <2>2, ExtendedPlaces DEF n
      <4>2. ~(n + 1 < i) BY <4>1
      <4> QED BY <1>5, <4>1, <4>2
    <3>4. ASSUME NEW j \in DOMAIN es, j < i, es[j].track = es[i].track,
                 \A k \in DOMAIN es : j < k /\ k < i => es[k].track # es[i].track
          PROVE  es[i].seq = es[j].seq + 1
      <4>1. j \in DOMAIN entries /\ es[j] = entries[j] BY <3>3, <3>4
      <4>2. \A k \in DOMAIN entries : j < k /\ k < i => entries[k].track # entries[i].track
        BY <1>5, <3>1, <3>4
      <4>3. j < i /\ entries[j].track = entries[i].track BY <3>1, <3>4, <4>1
      <4> QED BY <3>1, <3>2, <4>1, <4>2, <4>3
    <3>5. ASSUME \A j \in DOMAIN es : j < i => es[j].track # es[i].track
          PROVE  es[i].seq = lastPopped[es[i].track] + 1
      <4>1. \A j \in DOMAIN entries : j < i => entries[j].track # entries[i].track BY <1>5, <3>1, <3>5
      <4> QED BY <3>1, <3>2, <4>1
    <3> QED BY <3>4, <3>5
  <2> QED BY <1>5, <2>1, <2>2
<1>9. ASSUME NEW u \in Video, u = t \/ u \notin awaiting
      PROVE  UpToDate(es, lastPopped, nextSeq', u)
  <2>1. CASE u = t
    <3>1. es[n + 1].track = t /\ es[n + 1].seq + 1 = nextSeq'[t] BY <1>1, <1>2, <1>5
    <3>2. ASSUME NEW j \in DOMAIN es, es[j].track = t,
                 \A k \in DOMAIN es : j < k => es[k].track # t
          PROVE  es[j].seq + 1 = nextSeq'[t]
      <4>1. ~(j < n + 1) BY <1>5, <3>1, <3>2
      <4>2. j = n + 1 BY <1>5, <4>1
      <4> QED BY <3>1, <4>2
    <3>3. ~(\A j \in DOMAIN es : es[j].track # t) BY <1>5, <3>1
    <3> QED BY <2>1, <3>2, <3>3 DEF UpToDate
  <2>2. CASE u # t
    <3>1. UpToDate(entries, lastPopped, nextSeq, u) BY <1>7, <1>9, <2>2
    <3>2. nextSeq'[u] = nextSeq[u]
      <4>1. u \in Tracks BY DEF Tracks
      <4> QED BY <1>2, <2>2, <4>1
    <3>3. es[n + 1].track # u BY <1>1, <1>5, <2>2
    <3>4. ASSUME NEW j \in DOMAIN es, es[j].track = u,
                 \A k \in DOMAIN es : j < k => es[k].track # u
          PROVE  es[j].seq + 1 = nextSeq'[u]
      <4>1. j \in DOMAIN entries /\ es[j] = entries[j] BY <1>5, <3>3, <3>4
      <4>2. \A k \in DOMAIN entries : j < k => entries[k].track # u BY <1>5, <3>4
      <4> QED BY <3>1, <3>2, <3>4, <4>1, <4>2 DEF UpToDate
    <3>5. (\A j \in DOMAIN es : es[j].track # u) => lastPopped[u] + 1 = nextSeq'[u]
      BY <1>5, <3>1, <3>2 DEF UpToDate
    <3> QED BY <3>4, <3>5 DEF UpToDate
  <2> QED BY <2>1, <2>2
<1> QED BY <1>8, <1>9 DEF es

(* ---- a recovery ---- *)

\* What a shed keeps: everything of a video track from a kept keyframe on,
\* and nothing of it without such a keyframe.
LEMMA KeptFacts ==
    ASSUME NEW es \in Seq(Frag), NEW starts \in [Tracks -> Nat], NEW vt, NEW T \in Nat,
           GroupsClosed(es, starts), Seen(es, vt)
    PROVE  \A i \in Kept(es, vt, T) : es[i].track \in Video =>
              \E h \in Kept(es, vt, T) :
                 /\ h <= i /\ es[h].track = es[i].track /\ es[h].key /\ es[h].start >= T
                 /\ \A k \in DOMAIN es : h <= k /\ es[k].track = es[i].track => k \in Kept(es, vt, T)
<1> DEFINE K == Kept(es, vt, T)
<1> SUFFICES ASSUME NEW i \in K, es[i].track \in Video
             PROVE  \E h \in K :
               /\ h <= i /\ es[h].track = es[i].track /\ es[h].key /\ es[h].start >= T
               /\ \A k \in DOMAIN es : h <= k /\ es[k].track = es[i].track => k \in K
  OBVIOUS
<1>1. \A k \in DOMAIN es : k \in K <=> ShouldRetain(es, k, vt, T) BY DEF Kept
<1>2. i \in DOMAIN es BY DEF Kept
<1> HIDE DEF K
<1>3. /\ Len(es) \in Nat /\ DOMAIN es = 1..Len(es)
      /\ \A k \in DOMAIN es : es[k].start \in Nat /\ k \in Nat
  BY EntryFields
<1>4. \A k \in DOMAIN es : es[k].track = es[i].track => es[k].track \in vt /\ ~es[k].init BY DEF Seen
<1>5. StartedBy(es, i, T) BY <1>1, <1>2, <1>4 DEF ShouldRetain
<1>6. PICK h \in 1..i : /\ ~es[h].init /\ es[h].track = es[i].track
                        /\ es[h].start >= T /\ es[h].key
  BY <1>5 DEF StartedBy
<1>7. h \in DOMAIN es /\ h <= i /\ h \in Nat /\ 1 <= h BY <1>2, <1>3
<1>8. ASSUME NEW k \in DOMAIN es, h <= k, es[k].track = es[i].track
      PROVE  k \in K
  <2>1. es[k].start >= T
    <3>1. CASE k = h BY <1>6, <3>1
    <3>2. CASE h < k
      <4>1. es[h].start <= es[k].start BY <1>6, <1>7, <1>8, <3>2 DEF GroupsClosed
      <4> QED BY <1>3, <1>6, <1>7, <4>1
    <3> QED BY <1>3, <1>7, <1>8, <3>1, <3>2
  <2>2. h \in 1..k BY <1>3, <1>7, <1>8
  <2>3. StartedBy(es, k, T) BY <1>6, <1>8, <2>2 DEF StartedBy
  <2> QED BY <1>1, <2>1, <2>3 DEF ShouldRetain
<1>9. h \in K BY <1>6, <1>7, <1>8
<1> QED BY <1>6, <1>7, <1>8, <1>9

\* A shed queue is contiguous, and holds the newest of every track it keeps.
LEMMA RetainedOrder ==
    ASSUME NEW es \in Seq(Frag), NEW starts \in [Tracks -> Nat], NEW vt, NEW T \in Nat,
           GroupsClosed(es, starts), Seen(es, vt), NEW popped, Contiguous(es, popped),
           NEW r \in Seq(Frag), NEW e, Lists(r, es, Kept(es, vt, T), e)
    PROVE  /\ Contiguous(r, popped)
           /\ \A next : \A u \in Video :
                UpToDate(es, popped, next, u) /\ (\E i \in Kept(es, vt, T) : es[i].track = u)
                   => UpToDate(r, popped, next, u)
<1> DEFINE K == Kept(es, vt, T)
<1>1. \A i \in K : es[i].track \in Video =>
         \E h \in K :
            /\ h <= i /\ es[h].track = es[i].track /\ es[h].key
            /\ \A k \in DOMAIN es : h <= k /\ es[k].track = es[i].track => k \in K
  BY KeptFacts
<1>2. K \in SUBSET (DOMAIN es) BY DEF Kept
<1>3. DOMAIN es \subseteq Nat /\ DOMAIN r \subseteq Nat BY EntryFields
<1>4. \A a, b \in DOMAIN r : e[a] < e[b] => a < b BY <1>2, ListedFacts
<1> HIDE DEF K
<1>5. /\ \A a \in DOMAIN r : e[a] \in K /\ r[a] = es[e[a]]
      /\ \A a, b \in DOMAIN r : a < b => e[a] < e[b]
      /\ \A i \in K : \E a \in DOMAIN r : e[a] = i
  BY DEF Lists, K
<1>6. \A a \in DOMAIN r : e[a] \in DOMAIN es /\ e[a] \in Nat BY <1>2, <1>3, <1>5, Zenon
<1>7. \A h \in K : h \in Nat BY <1>2, <1>3
<1>8. \A k \in DOMAIN es : k \in Nat BY <1>3
<1>9. Contiguous(r, popped)
  <2> SUFFICES ASSUME NEW a \in DOMAIN r, r[a].track \in Video, ~r[a].key
               PROVE  /\ \A b \in DOMAIN r :
                           /\ b < a /\ r[b].track = r[a].track
                           /\ \A c \in DOMAIN r : b < c /\ c < a => r[c].track # r[a].track
                           => r[a].seq = r[b].seq + 1
                      /\ (\A b \in DOMAIN r : b < a => r[b].track # r[a].track)
                           => r[a].seq = popped[r[a].track] + 1
    BY DEF Contiguous
  <2> DEFINE i == e[a]
             u == es[i].track
  <2>1. i \in K /\ i \in DOMAIN es /\ r[a] = es[i] /\ i \in Nat BY <1>5, <1>6
  <2>2. PICK h \in K : /\ h <= i /\ es[h].track = u /\ es[h].key
                       /\ \A k \in DOMAIN es : h <= k /\ es[k].track = u => k \in K
    BY <1>1, <2>1
  <2>3. PICK pos \in DOMAIN r : e[pos] = h BY <1>5
  <2>4. h < i /\ h \in Nat
    <3>1. h # i BY <2>1, <2>2
    <3> QED BY <1>7, <2>1, <2>2, <3>1
  <2>5. pos < a /\ r[pos].track = u BY <1>4, <1>5, <2>2, <2>3, <2>4
  <2>6. \A j \in DOMAIN es :
           /\ j < i /\ es[j].track = u
           /\ \A k \in DOMAIN es : j < k /\ k < i => es[k].track # u
           => es[i].seq = es[j].seq + 1
    BY <2>1 DEF Contiguous
  <2> HIDE DEF i, u
  <2>u. r[a].track = u /\ e[a] = i BY <2>1 DEF u, i
  <2>7. ASSUME NEW b \in DOMAIN r, b < a, r[b].track = r[a].track,
               \A c \in DOMAIN r : b < c /\ c < a => r[c].track # r[a].track
        PROVE  r[a].seq = r[b].seq + 1
    <3> DEFINE j == e[b]
    <3>1. j \in DOMAIN es /\ r[b] = es[j] /\ j < i /\ es[j].track = u /\ j \in Nat BY <1>5, <1>6, <2>7, <2>u
    <3>2. ASSUME NEW k \in DOMAIN es, j < k, k < i, es[k].track = u PROVE FALSE
      <4>1. PICK m \in K : j < m /\ m < i /\ es[m].track = u
        <5>1. CASE h <= k BY <2>2, <3>2, <5>1
        <5>2. CASE ~(h <= k)
          <6>1. j < h BY <1>8, <2>4, <3>1, <3>2, <5>2
          <6> QED BY <2>2, <2>4, <6>1
        <5> QED BY <5>1, <5>2
      <4>2. PICK c \in DOMAIN r : e[c] = m BY <1>5
      <4>3. b < c /\ c < a /\ r[c].track = u BY <1>4, <1>5, <2>u, <4>1, <4>2
      <4> QED BY <2>7, <2>u, <4>3
    <3> HIDE DEF j
    <3>3. es[i].seq = es[j].seq + 1 BY <2>6, <3>1, <3>2
    <3> QED BY <2>1, <3>1, <3>3
  <2> QED BY <2>5, <2>7, <2>u
<1>10. ASSUME NEW u \in Video, NEW next, UpToDate(es, popped, next, u),
              NEW i \in K, es[i].track = u
       PROVE  UpToDate(r, popped, next, u)
  <2>2. PICK h \in K : /\ h <= i /\ es[h].track = u
                       /\ \A k \in DOMAIN es : h <= k /\ es[k].track = u => k \in K
    BY <1>1, <1>10
  <2>3. PICK pos \in DOMAIN r : e[pos] = h BY <1>5
  <2>4. r[pos].track = u BY <1>5, <2>2, <2>3
  <2>5. ASSUME NEW b \in DOMAIN r, r[b].track = u, \A c \in DOMAIN r : b < c => r[c].track # u
        PROVE  r[b].seq + 1 = next[u]
    <3> DEFINE j == e[b]
    <3>1. j \in DOMAIN es /\ r[b] = es[j] /\ es[j].track = u /\ j \in Nat BY <1>5, <1>6, <2>5
    <3>2. ASSUME NEW k \in DOMAIN es, j < k, es[k].track = u PROVE FALSE
      <4>1. PICK m \in K : j < m /\ es[m].track = u
        <5>1. CASE h <= k BY <2>2, <3>2, <5>1
        <5>2. CASE ~(h <= k)
          <6>1. j < h BY <1>7, <1>8, <3>1, <3>2, <5>2
          <6> QED BY <2>2, <6>1
        <5> QED BY <5>1, <5>2
      <4>2. PICK c \in DOMAIN r : e[c] = m BY <1>5
      <4>3. b < c /\ r[c].track = u BY <1>4, <1>5, <4>1, <4>2
      <4> QED BY <2>5, <4>3
    <3> HIDE DEF j
    <3>3. es[j].seq + 1 = next[u] BY <1>10, <3>1, <3>2 DEF UpToDate
    <3> QED BY <3>1, <3>3
  <2> QED BY <2>4, <2>5 DEF UpToDate
<1> QED BY <1>9, <1>10 DEF K

(* ---- the actions ---- *)

\* What every push may rely on.
LEMMA PushTypes ==
    ASSUME QueueInv, NEW t \in Tracks, NEW f \in Fragments(t), Produce(f)
    PROVE  /\ QueueTypes /\ FlagTypes /\ GroupsClosed(entries, gopStart)
           /\ Seen(entries, videoTracks) /\ Contiguous(entries, lastPopped)
           /\ WaitsEmpty /\ NothingLost /\ BoundaryIsKey /\ AlignedToBoundary /\ Measured
           /\ nextSeq' \in [Tracks -> Nat] /\ gopStart' \in [Tracks -> Nat]
           /\ lastPopped' \in [Tracks -> Int] /\ lastPopped' = lastPopped
           /\ GroupsClosed(entries, gopStart') /\ Seen(entries, NowVideo(f))
           /\ boundary # None => \E u \in Video : boundary <= gopStart'[u]
           /\ boundary \in Int /\ (boundary # None => boundary \in Nat)
<1>1. /\ QueueTypes /\ FlagTypes /\ GroupsClosed(entries, gopStart)
      /\ Seen(entries, videoTracks) /\ Contiguous(entries, lastPopped)
      /\ WaitsEmpty /\ NothingLost /\ BoundaryIsKey /\ AlignedToBoundary /\ Measured
  BY DEF QueueInv
<1>2. /\ nextSeq' \in [Tracks -> Nat] /\ gopStart' \in [Tracks -> Nat]
      /\ lastPopped' = lastPopped
      /\ \A u \in Tracks : gopStart[u] <= gopStart'[u]
  BY <1>1, ProduceFacts
<1>3. /\ lastPopped \in [Tracks -> Int] /\ gopStart \in [Tracks -> Nat]
      /\ boundary \in Times \cup {None}
  BY <1>1 DEF QueueTypes
<1>4. GroupsClosed(entries, gopStart') /\ Seen(entries, NowVideo(f)) BY <1>1, ExtendedGroups
<1>5. boundary \in Int /\ (boundary # None => boundary \in Nat) BY <1>3, QueueConstants DEF None
<1>6. ASSUME boundary # None PROVE \E u \in Video : boundary <= gopStart'[u]
  <2>1. PICK u \in Video : boundary <= gopStart[u] BY <1>1, <1>6 DEF BoundaryIsKey
  <2>2. u \in Tracks BY DEF Tracks
  <2>3. gopStart[u] \in Nat /\ gopStart'[u] \in Nat /\ gopStart[u] <= gopStart'[u] BY <1>2, <1>3, <2>2
  <2> QED BY <1>5, <2>1, <2>3
<1> QED BY <1>1, <1>2, <1>3, <1>4, <1>5, <1>6

LEMMA PushExceededStep ==
    ASSUME QueueInv, NEW t \in Tracks, NEW f \in Fragments(t), Produce(f), PushExceeded(f)
    PROVE  QueueInv'
<1>1. /\ QueueTypes /\ FlagTypes /\ GroupsClosed(entries, gopStart')
      /\ Seen(entries, videoTracks) /\ Contiguous(entries, lastPopped)
      /\ WaitsEmpty /\ AlignedToBoundary /\ Measured
      /\ nextSeq' \in [Tracks -> Nat] /\ gopStart' \in [Tracks -> Nat]
      /\ lastPopped' \in [Tracks -> Int] /\ lastPopped' = lastPopped
      /\ boundary # None => \E u \in Video : boundary <= gopStart'[u]
  BY PushTypes
<1>2. /\ exceeded /\ entries' = entries /\ videoTracks' = videoTracks /\ awaiting' = awaiting
      /\ boundary' = boundary /\ queuedBytes' = queuedBytes
      /\ queuedDuration' = queuedDuration /\ eof' = eof /\ exceeded' = exceeded
  BY DEF PushExceeded, queueVars
<1>3. QueueTypes' /\ FlagTypes' BY <1>1, <1>2 DEF QueueTypes, FlagTypes
<1>4. GroupsClosed(entries, gopStart)' /\ Seen(entries, videoTracks)'
      /\ Contiguous(entries, lastPopped)'
  BY <1>1, <1>2
<1>5. WaitsEmpty' /\ AlignedToBoundary' /\ Measured'
  BY <1>1, <1>2 DEF WaitsEmpty, AlignedToBoundary, Measured
<1>6. NothingLost' /\ BoundaryIsKey' BY <1>1, <1>2 DEF NothingLost, BoundaryIsKey
<1> QED BY <1>3, <1>4, <1>5, <1>6 DEF QueueInv

\* No entry of the queue is of a track that a push makes wait.
LEMMA StillEmpty ==
    ASSUME QueueInv, NEW t \in Tracks, NEW f \in Fragments(t), Produce(f)
    PROVE  \A i \in DOMAIN entries : entries[i].track \notin NowAwaiting(f)
<1>1. QueueTypes /\ WaitsEmpty /\ Seen(entries, videoTracks) BY PushTypes
<1>2. /\ NowAwaiting(f) \subseteq awaiting \cup {t} /\ NowAwaiting(f) \subseteq NowVideo(f)
      /\ NowVideo(f) \subseteq Video
      /\ (t \in NowAwaiting(f) => t \in awaiting \/ t \notin videoTracks)
  BY <1>1, TrackSets
<1> SUFFICES ASSUME NEW i \in DOMAIN entries, entries[i].track \in NowAwaiting(f)
             PROVE  FALSE
  OBVIOUS
<1>3. entries[i].track \notin awaiting BY <1>1 DEF WaitsEmpty
<1>4. entries[i].track = t /\ t \notin videoTracks /\ t \in Video BY <1>2, <1>3
<1> QED BY <1>1, <1>4 DEF Seen

LEMMA PushFailsStep ==
    ASSUME QueueInv, NEW t \in Tracks, NEW f \in Fragments(t), Produce(f), PushFails(f)
    PROVE  QueueInv'
<1>1. /\ QueueTypes /\ FlagTypes /\ GroupsClosed(entries, gopStart')
      /\ Seen(entries, NowVideo(f)) /\ Contiguous(entries, lastPopped)
      /\ WaitsEmpty /\ AlignedToBoundary /\ Measured
      /\ nextSeq' \in [Tracks -> Nat] /\ gopStart' \in [Tracks -> Nat]
      /\ lastPopped' \in [Tracks -> Int] /\ lastPopped' = lastPopped
      /\ boundary # None => \E u \in Video : boundary <= gopStart'[u]
  BY PushTypes
<1>2. /\ exceeded' = TRUE /\ entries' = entries /\ videoTracks' = NowVideo(f)
      /\ awaiting' = Resumed(f) /\ boundary' = boundary /\ queuedBytes' = queuedBytes
      /\ queuedDuration' = queuedDuration /\ eof' = eof
  BY DEF PushFails
<1>3. /\ NowVideo(f) \subseteq Video /\ Resumed(f) \subseteq NowVideo(f)
      /\ Resumed(f) = awaiting \ {t}
  BY <1>1, TrackSets
<1>4. QueueTypes' /\ FlagTypes' BY <1>1, <1>2, <1>3 DEF QueueTypes, FlagTypes
<1>5. GroupsClosed(entries, gopStart)' /\ Seen(entries, videoTracks)'
      /\ Contiguous(entries, lastPopped)'
  BY <1>1, <1>2
<1>6. AlignedToBoundary' /\ Measured' BY <1>1, <1>2 DEF AlignedToBoundary, Measured
<1>7. WaitsEmpty' BY <1>1, <1>2, <1>3 DEF WaitsEmpty
<1>8. NothingLost' /\ BoundaryIsKey' BY <1>1, <1>2 DEF NothingLost, BoundaryIsKey
<1> QED BY <1>4, <1>5, <1>6, <1>7, <1>8 DEF QueueInv

LEMMA PushShedStep ==
    ASSUME QueueInv, NEW t \in Tracks, NEW f \in Fragments(t), Produce(f), PushShed(f)
    PROVE  QueueInv'
<1>1. /\ QueueTypes /\ FlagTypes /\ GroupsClosed(entries, gopStart')
      /\ Seen(entries, NowVideo(f)) /\ Contiguous(entries, lastPopped)
      /\ NothingLost /\ AlignedToBoundary /\ Measured
      /\ nextSeq' \in [Tracks -> Nat] /\ gopStart' \in [Tracks -> Nat]
      /\ lastPopped' \in [Tracks -> Int] /\ lastPopped' = lastPopped
      /\ boundary # None => \E u \in Video : boundary <= gopStart'[u]
      /\ boundary \in Int
  BY PushTypes
<1>2. /\ ~exceeded /\ Sheds(f) /\ entries' = entries /\ videoTracks' = NowVideo(f)
      /\ awaiting' = NowAwaiting(f) /\ boundary' = boundary /\ queuedBytes' = queuedBytes
      /\ queuedDuration' = queuedDuration /\ eof' = eof /\ exceeded' = exceeded
  BY DEF PushShed
<1>3. /\ NowVideo(f) = (IF t \in Video THEN videoTracks \cup {t} ELSE videoTracks)
      /\ NowVideo(f) \subseteq Video /\ awaiting \subseteq NowAwaiting(f)
      /\ NowAwaiting(f) \subseteq NowVideo(f)
      /\ (t \in Video /\ t \notin NowAwaiting(f) =>
             t \notin awaiting /\ (boundary = None \/ t \in videoTracks))
  BY <1>1, TrackSets
<1>4. QueueTypes' /\ FlagTypes' BY <1>1, <1>2, <1>3 DEF QueueTypes, FlagTypes
<1>5. GroupsClosed(entries, gopStart)' /\ Seen(entries, videoTracks)'
      /\ Contiguous(entries, lastPopped)'
  BY <1>1, <1>2
<1>6. AlignedToBoundary' /\ Measured' BY <1>1, <1>2 DEF AlignedToBoundary, Measured
<1>7. WaitsEmpty' BY <1>2, StillEmpty DEF WaitsEmpty
<1>8. BoundaryIsKey' BY <1>1, <1>2 DEF BoundaryIsKey
<1>9. /\ f \in Frag /\ f.track = t /\ (t \in Video => f.start >= gopStart[t])
      /\ (t \in Video => IsVideo(f))
  BY <1>1, FragmentFacts
<1>10. /\ \A u \in Tracks : u # t => nextSeq'[u] = nextSeq[u] /\ gopStart'[u] = gopStart[u]
  BY <1>1, ProduceFacts
<1>11. /\ \A u \in Video : u \notin awaiting => UpToDate(entries, lastPopped, nextSeq, u)
       /\ \A u \in videoTracks : u \notin awaiting => boundary <= gopStart[u]
  BY <1>1, <1>2 DEF NothingLost
<1>12. t \in Video => t \in NowAwaiting(f)
  <2> SUFFICES ASSUME t \in Video, t \notin NowAwaiting(f) PROVE FALSE OBVIOUS
  <2>1. boundary # None /\ f.start < boundary BY <1>2, <1>9 DEF Sheds, AwaitsKeyframe, BeforeBoundary
  <2>2. boundary <= gopStart[t] BY <1>3, <1>11, <2>1
  <2>3. f.start \in Nat /\ gopStart[t] \in Nat BY <1>1, <1>9, FragFields DEF QueueTypes
  <2> QED BY <1>1, <1>9, <2>1, <2>2, <2>3
<1>13. \A u \in Video : u \notin NowAwaiting(f) => UpToDate(entries, lastPopped, nextSeq', u)
  <2> SUFFICES ASSUME NEW u \in Video, u \notin NowAwaiting(f)
               PROVE  UpToDate(entries, lastPopped, nextSeq', u)
    OBVIOUS
  <2>1. u # t /\ u \in Tracks /\ u \notin awaiting BY <1>3, <1>12 DEF Tracks
  <2>2. nextSeq'[u] = nextSeq[u] /\ UpToDate(entries, lastPopped, nextSeq, u) BY <1>10, <1>11, <2>1
  <2> QED BY <2>2 DEF UpToDate
<1>14. \A u \in NowVideo(f) : u \notin NowAwaiting(f) => boundary <= gopStart'[u]
  <2> SUFFICES ASSUME NEW u \in NowVideo(f), u \notin NowAwaiting(f)
               PROVE  boundary <= gopStart'[u]
    OBVIOUS
  <2>1. u \in Video /\ u # t /\ u \in Tracks /\ u \notin awaiting BY <1>3, <1>12 DEF Tracks
  <2>2. u \in videoTracks BY <1>3, <2>1
  <2> QED BY <1>10, <1>11, <2>1, <2>2
<1>15. NothingLost' BY <1>1, <1>2, <1>13, <1>14 DEF NothingLost
<1> QED BY <1>4, <1>5, <1>6, <1>7, <1>8, <1>15 DEF QueueInv

LEMMA PushAcceptedStep ==
    ASSUME QueueInv, NEW t \in Tracks, NEW f \in Fragments(t), Produce(f), PushAccepted(f)
    PROVE  QueueInv'
<1>1. /\ QueueTypes /\ FlagTypes /\ GroupsClosed(entries, gopStart)
      /\ Seen(entries, videoTracks) /\ Contiguous(entries, lastPopped)
      /\ NothingLost /\ AlignedToBoundary /\ WaitsEmpty
      /\ nextSeq' \in [Tracks -> Nat] /\ gopStart' \in [Tracks -> Nat]
      /\ lastPopped' \in [Tracks -> Int] /\ lastPopped' = lastPopped
      /\ boundary # None => \E u \in Video : boundary <= gopStart'[u]
      /\ boundary \in Int
  BY PushTypes
<1> DEFINE es == Extended(f)
           n == Len(entries)
<1>2. /\ ~exceeded /\ ~Sheds(f) /\ WithinLimits(es) /\ entries' = es
      /\ videoTracks' = NowVideo(f) /\ awaiting' = Resumed(f)
      /\ queuedBytes' = TotalBytes(es) /\ queuedDuration' = Span(es)
      /\ boundary' = boundary /\ eof' = eof /\ exceeded' = exceeded
  BY DEF PushAccepted, ApplyBounds, Extended
<1>3. /\ f \in Frag /\ f.track = t /\ (t \in Video => IsVideo(f) /\ ~f.init)
      /\ (t \in Video => f.start >= gopStart[t]) /\ f.start \in Nat
  BY <1>1, FragmentFacts, FragFields
<1>4. /\ es \in Seq(Frag) /\ n + 1 \in DOMAIN es /\ es[n + 1] = f
      /\ \A i \in DOMAIN es : (i \in DOMAIN entries /\ es[i] = entries[i]) \/ i = n + 1
  BY <1>1, <1>3, ExtendedPlaces
<1> HIDE DEF es, n
<1>5. /\ NowVideo(f) = (IF t \in Video THEN videoTracks \cup {t} ELSE videoTracks)
      /\ NowVideo(f) \subseteq Video /\ Resumed(f) = awaiting \ {t}
      /\ Resumed(f) \subseteq NowVideo(f)
      /\ (t \in Video /\ t \notin NowAwaiting(f) =>
             t \notin awaiting /\ (boundary = None \/ t \in videoTracks))
  BY <1>1, TrackSets
<1>6. /\ \A u \in Tracks : u # t => gopStart'[u] = gopStart[u]
      /\ (f.key => gopStart'[t] = f.start) /\ (~f.key => gopStart' = gopStart)
  BY <1>1, ProduceFacts
<1>7. QueueTypes' /\ FlagTypes' BY <1>1, <1>2, <1>4, <1>5 DEF QueueTypes, FlagTypes
<1>8. GroupsClosed(entries, gopStart)' /\ Seen(entries, videoTracks)'
  <2>1. GroupsClosed(es, gopStart') /\ Seen(es, NowVideo(f)) BY <1>1, ExtendedGroups DEF es
  <2> QED BY <1>2, <2>1
<1>9. /\ Contiguous(es, lastPopped)
      /\ \A u \in Video : u = t \/ u \notin awaiting => UpToDate(es, lastPopped, nextSeq', u)
  BY <1>1, <1>2, ExtendedOrder DEF es
<1>10. Contiguous(entries, lastPopped)' BY <1>1, <1>2, <1>9
<1>11. WaitsEmpty'
  <2> SUFFICES ASSUME NEW i \in DOMAIN es PROVE es[i].track \notin Resumed(f) BY <1>2 DEF WaitsEmpty
  <2>1. CASE i = n + 1 BY <1>3, <1>4, <1>5, <2>1
  <2>2. CASE i \in DOMAIN entries /\ es[i] = entries[i] BY <1>1, <1>5, <2>2 DEF WaitsEmpty
  <2> QED BY <1>4, <2>1, <2>2
<1>12. boundary = None \/ (boundary \in Int /\ (~f.init => f.start >= boundary))
  BY <1>1, <1>2, <1>3 DEF Sheds, BeforeBoundary
<1>13. None <= f.start /\ None \in Int BY <1>3 DEF None
<1>14. AlignedToBoundary'
  <2> SUFFICES ASSUME NEW g \in Media(es) PROVE g.start >= boundary BY <1>2 DEF AlignedToBoundary
  <2>1. PICK i \in DOMAIN es : g = es[i] /\ ~es[i].init BY DEF Media
  <2>2. CASE i = n + 1 BY <1>3, <1>4, <1>12, <1>13, <2>1, <2>2
  <2>3. CASE i \in DOMAIN entries /\ es[i] = entries[i]
    <3>1. g \in Media(entries) BY <2>1, <2>3 DEF Media
    <3> QED BY <1>1, <3>1 DEF AlignedToBoundary
  <2> QED BY <1>4, <2>2, <2>3
<1>15. BoundaryIsKey' BY <1>1, <1>2 DEF BoundaryIsKey
<1>16. Measured' BY <1>2 DEF Measured
<1>17. /\ \A u \in videoTracks : u \notin awaiting => boundary <= gopStart[u] BY <1>1, <1>2 DEF NothingLost
<1>18. ASSUME NEW u \in NowVideo(f), u \notin Resumed(f) PROVE boundary <= gopStart'[u]
  <2>1. u \in Video /\ u \in Tracks BY <1>5 DEF Tracks
  <2>2. CASE u # t
    <3>1. u \in videoTracks /\ u \notin awaiting BY <1>5, <1>18, <2>2
    <3> QED BY <1>6, <1>17, <2>1, <2>2, <3>1
  <2>3. CASE u = t /\ f.key
    <3>1. gopStart'[u] = f.start /\ ~f.init BY <1>3, <1>6, <2>1, <2>3
    <3> QED BY <1>3, <1>12, <1>13, <3>1
  <2>4. CASE u = t /\ ~f.key
    <3>1. t \notin NowAwaiting(f) BY <1>2, <1>3, <2>1, <2>4 DEF Sheds, AwaitsKeyframe
    <3>2. t \notin awaiting /\ (boundary = None \/ t \in videoTracks) BY <1>5, <2>1, <2>4, <3>1
    <3>3. gopStart' = gopStart /\ gopStart[u] \in Nat BY <1>1, <1>6, <2>1, <2>4 DEF QueueTypes
    <3>4. CASE boundary = None BY <3>3, <3>4 DEF None
    <3>5. CASE t \in videoTracks BY <1>17, <2>4, <3>2, <3>3, <3>5
    <3> QED BY <3>2, <3>4, <3>5
  <2> QED BY <2>2, <2>3, <2>4
<1>19. ASSUME NEW u \in Video, u \notin Resumed(f)
       PROVE  UpToDate(es, lastPopped, nextSeq', u)
  BY <1>5, <1>9, <1>19
<1>20. NothingLost' BY <1>1, <1>2, <1>18, <1>19 DEF NothingLost
<1> QED BY <1>7, <1>8, <1>10, <1>11, <1>14, <1>15, <1>16, <1>20 DEF QueueInv

\* The recovery boundary: the start of a queued keyframe at which what remains fits.
LEMMA BoundaryFacts ==
    ASSUME NEW es \in Seq(Frag), NEW vt, RecoveryTimes(es, vt) # {}
    PROVE  LET T == Min(RecoveryTimes(es, vt)) IN
           /\ T \in Times /\ T \in Nat /\ WithinLimits(Retained(es, vt, T))
           /\ \E h \in DOMAIN es : /\ ~es[h].init /\ es[h].key /\ es[h].start = T
                                   /\ h \in Kept(es, vt, T)
<1> DEFINE R == RecoveryTimes(es, vt)
           T == Min(R)
<1>1. \A i \in DOMAIN es : es[i].start \in Times /\ es[i].start \in Nat /\ i \in Nat /\ i \in 1..i
  BY EntryFields
<1>2. ASSUME NEW x \in R
      PROVE  /\ WithinLimits(Retained(es, vt, x))
             /\ \E h \in DOMAIN es : ~es[h].init /\ es[h].key /\ es[h].start = x
  BY DEF RecoveryTimes, Media
<1>3. R \in SUBSET Nat BY <1>1, <1>2
<1> HIDE DEF R
<1>4. T \in R /\ T \in Nat BY <1>3, NatMin DEF R
<1>5. PICK h \in DOMAIN es : ~es[h].init /\ es[h].key /\ es[h].start = T BY <1>2, <1>4
<1>6. h \in Kept(es, vt, T)
  <2>1. StartedBy(es, h, T) BY <1>1, <1>4, <1>5 DEF StartedBy
  <2> QED BY <1>1, <1>4, <1>5, <2>1 DEF Kept, ShouldRetain
<1> QED BY <1>1, <1>2, <1>4, <1>5, <1>6 DEF R

LEMMA PushRecoversStep ==
    ASSUME QueueInv, NEW t \in Tracks, NEW f \in Fragments(t), Produce(f), PushRecovers(f)
    PROVE  QueueInv'
<1>1. /\ QueueTypes /\ FlagTypes /\ GroupsClosed(entries, gopStart)
      /\ Seen(entries, videoTracks) /\ Contiguous(entries, lastPopped)
      /\ NothingLost /\ WaitsEmpty
      /\ nextSeq' \in [Tracks -> Nat] /\ gopStart' \in [Tracks -> Nat]
      /\ lastPopped' \in [Tracks -> Int] /\ lastPopped' = lastPopped
  BY PushTypes
<1> DEFINE es == Extended(f)
           vt == NowVideo(f)
           T  == Min(RecoveryTimes(es, vt))
           r  == Retained(es, vt, T)
           K  == Kept(es, vt, T)
           n  == Len(entries)
<1>2. /\ ~exceeded /\ ~Sheds(f) /\ RecoveryTimes(es, vt) # {} /\ entries' = r
      /\ videoTracks' = vt /\ boundary' = T /\ awaiting' = vt \ Started(es, vt, T)
      /\ queuedBytes' = TotalBytes(r) /\ queuedDuration' = Span(r)
      /\ eof' = eof /\ exceeded' = exceeded
  BY DEF PushRecovers, ApplyBounds, Extended
<1>3. f \in Frag /\ f.track = t BY <1>1, FragmentFacts
<1>4. /\ es \in Seq(Frag)
      /\ \A i \in DOMAIN es : (i \in DOMAIN entries /\ es[i] = entries[i]) \/ i = n + 1
      /\ \A i \in DOMAIN entries : i \in DOMAIN es /\ es[i] = entries[i]
      /\ es[n + 1] = f
  BY <1>1, <1>3, ExtendedPlaces
<1>5. /\ vt \subseteq Video /\ videoTracks \subseteq vt /\ (t \in Video => t \in vt)
      /\ awaiting \subseteq vt
  BY <1>1, TrackSets
<1>6. GroupsClosed(es, gopStart') /\ Seen(es, vt) BY <1>1, ExtendedGroups
<1>7. /\ Contiguous(es, lastPopped)
      /\ \A u \in Video : u = t \/ u \notin awaiting => UpToDate(es, lastPopped, nextSeq', u)
  BY <1>1, <1>2, ExtendedOrder
<1> HIDE DEF es, vt, n
<1>8. /\ T \in Times /\ T \in Nat /\ WithinLimits(r)
      /\ \E h \in DOMAIN es : ~es[h].init /\ es[h].key /\ es[h].start = T
  BY <1>2, <1>4, BoundaryFacts
<1>9. r \in Seq(Frag) /\ \E e : Lists(r, es, K, e) BY <1>4, RetainedFacts
<1>10. PICK e : Lists(r, es, K, e) BY <1>9
<1>11. K \in SUBSET (DOMAIN es) /\ \A i \in DOMAIN es : i \in K <=> ShouldRetain(es, i, vt, T) BY DEF Kept
<1>12. Started(es, vt, T) = {u \in vt : \E i \in K : es[i].track = u /\ ~es[i].init} BY DEF Started, Kept
<1>13. \A i \in K : es[i].track \in Video =>
          \E h \in K :
             /\ h <= i /\ es[h].track = es[i].track /\ es[h].key /\ es[h].start >= T
             /\ \A k \in DOMAIN es : h <= k /\ es[k].track = es[i].track => k \in K
  BY <1>1, <1>4, <1>6, <1>8, KeptFacts
<1> HIDE DEF T, r
<1>15. /\ Contiguous(r, lastPopped)
       /\ \A u \in Video : UpToDate(es, lastPopped, nextSeq', u) /\ (\E i \in K : es[i].track = u)
            => UpToDate(r, lastPopped, nextSeq', u)
  <2>1. /\ Contiguous(r, lastPopped)
        /\ \A next : \A u \in Video :
              UpToDate(es, lastPopped, next, u) /\ (\E i \in Kept(es, vt, T) : es[i].track = u)
                 => UpToDate(r, lastPopped, next, u)
    <3>1. gopStart' \in [Tracks -> Nat] /\ T \in Nat BY <1>1, <1>8
    <3> HIDE DEF K
    <3>2. Lists(r, es, Kept(es, vt, T), e) BY <1>10 DEF K
    <3> QED BY <1>4, <1>6, <1>7, <1>9, <3>1, <3>2, RetainedOrder
  <2> QED BY <2>1
<1> HIDE DEF K
<1>14. GroupsClosed(r, gopStart') /\ Seen(r, vt)
  <2>1. gopStart' \in [Tracks -> Nat] BY <1>1
  <2>2. /\ GroupsClosed(es, gopStart') => GroupsClosed(r, gopStart')
        /\ Seen(es, vt) => Seen(r, vt)
    BY <1>4, <1>9, <1>10, <1>11, <2>1, ListedFacts
  <2> QED BY <1>6, <2>2
<1>16. \A a \in DOMAIN r : e[a] \in K /\ r[a] = es[e[a]] BY <1>10 DEF Lists
<1>17. QueueTypes' /\ FlagTypes' BY <1>1, <1>2, <1>5, <1>8, <1>9 DEF QueueTypes, FlagTypes
<1>18. /\ GroupsClosed(entries, gopStart)' /\ Seen(entries, videoTracks)'
       /\ Contiguous(entries, lastPopped)'
  BY <1>1, <1>2, <1>14, <1>15
<1>19. \A i \in DOMAIN es : es[i].track \in Video => es[i].track \in vt /\ ~es[i].init BY <1>6 DEF Seen
<1>20. WaitsEmpty'
  <2> SUFFICES ASSUME NEW a \in DOMAIN r, r[a].track \in vt
               PROVE  r[a].track \in Started(es, vt, T)
    BY <1>2 DEF WaitsEmpty
  <2>1. e[a] \in K /\ r[a] = es[e[a]] /\ e[a] \in DOMAIN es BY <1>11, <1>16
  <2>2. ~es[e[a]].init BY <1>5, <1>19, <2>1
  <2> QED BY <1>12, <2>1, <2>2
<1>21. AlignedToBoundary'
  <2> SUFFICES ASSUME NEW g \in Media(r) PROVE g.start >= T BY <1>2 DEF AlignedToBoundary
  <2>1. PICK a \in DOMAIN r : g = r[a] /\ ~r[a].init BY DEF Media
  <2>2. e[a] \in K /\ r[a] = es[e[a]] /\ e[a] \in DOMAIN es BY <1>11, <1>16
  <2> QED BY <1>11, <2>1, <2>2 DEF ShouldRetain
<1>22. \A i \in DOMAIN es : es[i].track \in Video /\ es[i].key =>
          /\ es[i].start <= gopStart'[es[i].track]
          /\ es[i].start \in Nat /\ gopStart'[es[i].track] \in Nat
  <2>1. \A i \in DOMAIN es : es[i].track \in Tracks /\ es[i].start \in Nat BY <1>4, EntryFields
  <2> QED BY <1>1, <1>6, <2>1 DEF GroupsClosed
<1>23. BoundaryIsKey'
  <2>1. PICK h \in DOMAIN es : ~es[h].init /\ es[h].key /\ es[h].start = T BY <1>8
  <2>2. es[h].track \in Video BY <1>6, <2>1 DEF Seen
  <2>3. T <= gopStart'[es[h].track] BY <1>22, <2>1, <2>2
  <2> QED BY <1>2, <2>2, <2>3 DEF BoundaryIsKey
<1>24. Measured' BY <1>2, <1>8 DEF Measured
<1>25. ASSUME NEW u \in Video, u \notin awaiting'
       PROVE  UpToDate(r, lastPopped, nextSeq', u)
  <2>1. CASE u \in Started(es, vt, T)
    <3>1. PICK i \in K : es[i].track = u BY <1>12, <2>1
    <3>2. u = t \/ u \notin awaiting
      <4>1. i = n + 1 => u = t BY <1>3, <1>4, <3>1
      <4>2. i \in DOMAIN entries => u \notin awaiting BY <1>1, <1>4, <3>1 DEF WaitsEmpty
      <4> QED BY <1>4, <1>11, <4>1, <4>2
    <3> QED BY <1>7, <1>15, <3>1, <3>2
  <2>2. CASE u \notin Started(es, vt, T)
    <3>1. u \notin vt BY <1>2, <1>25, <2>2
    <3>2. u \notin awaiting /\ u # t BY <1>5, <3>1
    <3>3. UpToDate(es, lastPopped, nextSeq', u) BY <1>7, <3>2
    <3>4. \A i \in DOMAIN es : es[i].track # u BY <1>19, <3>1
    <3>5. lastPopped[u] + 1 = nextSeq'[u] BY <3>3, <3>4 DEF UpToDate
    <3>6. \A a \in DOMAIN r : r[a].track # u BY <1>11, <1>16, <3>4
    <3> QED BY <3>5, <3>6 DEF UpToDate
  <2> QED BY <2>1, <2>2
<1>26. ASSUME NEW u \in vt, u \notin awaiting' PROVE T <= gopStart'[u]
  <2>1. u \in Started(es, vt, T) BY <1>2, <1>26
  <2>2. PICK i \in K : es[i].track = u BY <1>12, <2>1
  <2>3. PICK h \in K : es[h].track = u /\ es[h].key /\ es[h].start >= T BY <1>5, <1>13, <2>2
  <2>4. es[h].start <= gopStart'[u] /\ es[h].start \in Nat /\ gopStart'[u] \in Nat
    BY <1>5, <1>11, <1>22, <2>3
  <2> QED BY <1>8, <2>3, <2>4
<1>27. NothingLost' BY <1>1, <1>2, <1>25, <1>26 DEF NothingLost
<1> QED BY <1>17, <1>18, <1>20, <1>21, <1>23, <1>24, <1>27 DEF QueueInv

LEMMA TryPopStep ==
    ASSUME QueueInv, TryPop
    PROVE  QueueInv'
<1>1. /\ QueueTypes /\ FlagTypes /\ GroupsClosed(entries, gopStart)
      /\ Seen(entries, videoTracks) /\ Contiguous(entries, lastPopped)
      /\ WaitsEmpty /\ NothingLost /\ BoundaryIsKey /\ AlignedToBoundary /\ Measured
  BY DEF QueueInv
<1> DEFINE ts == Tail(entries)
           D == DOMAIN ts
           hd == entries[1]
           n == Len(entries)
<1>2. entries \in Seq(Frag) /\ entries # <<>> /\ lastPopped \in [Tracks -> Int]
      /\ gopStart \in [Tracks -> Nat]
  BY <1>1 DEF TryPop, QueueTypes
<1>3. /\ n \in Nat \ {0} /\ DOMAIN entries = 1..n /\ D = 1..(n - 1)
      /\ Head(entries) = hd /\ ts \in Seq(Frag)
      /\ \A i \in 1..(n - 1) : ts[i] = entries[i + 1]
  BY <1>2, TailFacts
<1>4. /\ entries' = ts /\ queuedBytes' = TotalBytes(ts) /\ queuedDuration' = Span(ts)
      /\ lastPopped' = [lastPopped EXCEPT ![hd.track] = hd.seq]
      /\ videoTracks' = videoTracks /\ awaiting' = awaiting /\ boundary' = boundary
      /\ eof' = eof /\ exceeded' = exceeded /\ nextSeq' = nextSeq /\ gopStart' = gopStart
  BY <1>3 DEF TryPop, ApplyBounds
<1>5. /\ 2..n \in SUBSET (DOMAIN entries)
      /\ Lists(ts, entries, 2..n, [a \in D |-> a + 1])
  BY <1>2, TailLists
<1>6. GroupsClosed(ts, gopStart) /\ Seen(ts, videoTracks) /\ Media(ts) \subseteq Media(entries)
  <2> DEFINE e == [a \in D |-> a + 1]
  <2> HIDE DEF ts, n, D, e
  <2>1. Lists(ts, entries, 2..n, e) BY <1>5 DEF e
  <2>2. /\ GroupsClosed(entries, gopStart) => GroupsClosed(ts, gopStart)
        /\ Seen(entries, videoTracks) => Seen(ts, videoTracks)
        /\ Media(ts) \subseteq Media(entries)
    <3>1. ts \in Seq(Frag) /\ 2..n \in SUBSET (DOMAIN entries) BY <1>3, <1>5
    <3> DEFINE K == 2..n
    <3> HIDE DEF K
    <3>2. Lists(ts, entries, K, e) /\ K \in SUBSET (DOMAIN entries) BY <2>1, <3>1 DEF K
    <3> QED BY <1>2, <3>1, <3>2, ListedFacts
  <2> QED BY <1>1, <2>2
<1>7. WithinLimits(ts) BY <1>1, <1>2, TailLimits DEF Measured
<1>8. /\ 1 \in DOMAIN entries
      /\ \A i \in D : /\ i + 1 \in DOMAIN entries /\ ts[i] = entries[i + 1]
                      /\ i \in Nat /\ 1 < i + 1
      /\ \A k \in DOMAIN entries : k \in Nat /\ (k = 1 \/ (k - 1 \in D /\ (k - 1) + 1 = k))
  BY <1>3
<1>9. /\ hd.track \in Tracks /\ hd.seq \in Nat
      /\ \A i \in DOMAIN entries : entries[i].track \in Tracks
  BY <1>2, <1>8, EntryFields
<1> HIDE DEF ts, D, hd, n
<1>10. /\ lastPopped' \in [Tracks -> Int] /\ lastPopped'[hd.track] = hd.seq
       /\ \A u \in Tracks : u # hd.track => lastPopped'[u] = lastPopped[u]
  BY <1>2, <1>4, <1>9
<1>11. QueueTypes' /\ FlagTypes' BY <1>1, <1>3, <1>4, <1>10 DEF QueueTypes, FlagTypes
<1>12. D = DOMAIN ts /\ entries[1] = hd BY DEF D, hd
<1>13. Contiguous(ts, lastPopped')
  <2> SUFFICES ASSUME NEW i \in D, ts[i].track \in Video, ~ts[i].key
               PROVE  /\ \A j \in D :
                           /\ j < i /\ ts[j].track = ts[i].track
                           /\ \A k \in D : j < k /\ k < i => ts[k].track # ts[i].track
                           => ts[i].seq = ts[j].seq + 1
                      /\ (\A j \in D : j < i => ts[j].track # ts[i].track)
                           => ts[i].seq = lastPopped'[ts[i].track] + 1
    BY <1>12 DEF Contiguous
  <2> DEFINE I == i + 1
             u == ts[i].track
  <2>1. I \in DOMAIN entries /\ ts[i] = entries[I] /\ 1 < I /\ I \in Nat BY <1>8
  <2>2. /\ \A j \in DOMAIN entries :
             /\ j < I /\ entries[j].track = u
             /\ \A k \in DOMAIN entries : j < k /\ k < I => entries[k].track # u
             => entries[I].seq = entries[j].seq + 1
        /\ (\A j \in DOMAIN entries : j < I => entries[j].track # u)
             => entries[I].seq = lastPopped[u] + 1
    BY <1>1, <2>1 DEF Contiguous
  <2>3. \A j \in D : (j < i => j + 1 < I) /\ (j + 1 < I => j < i) BY <1>8
  <2>4. u \in Tracks BY <1>9, <2>1
  <2> HIDE DEF I, u
  <2>u. u = ts[i].track BY DEF u
  <2>5. ASSUME NEW j \in D, j < i, ts[j].track = u,
               \A k \in D : j < k /\ k < i => ts[k].track # u
        PROVE  ts[i].seq = ts[j].seq + 1
    <3> DEFINE J == j + 1
    <3>1. J \in DOMAIN entries /\ ts[j] = entries[J] /\ J < I /\ entries[J].track = u
          /\ J \in Nat /\ 1 < J
      BY <1>8, <2>3, <2>5
    <3>2. ASSUME NEW k \in DOMAIN entries, J < k, k < I PROVE entries[k].track # u
      <4>1. k # 1 BY <1>8, <3>1, <3>2
      <4>2. k - 1 \in D /\ ts[k - 1] = entries[k] BY <1>8, <4>1
      <4>3. j < k - 1 /\ k - 1 < i BY <1>8, <3>2 DEF I
      <4> QED BY <2>5, <4>2, <4>3
    <3> HIDE DEF J
    <3>3. entries[I].seq = entries[J].seq + 1 BY <2>2, <3>1, <3>2
    <3> QED BY <2>1, <3>1, <3>3
  <2>6. ASSUME \A j \in D : j < i => ts[j].track # u
        PROVE  ts[i].seq = lastPopped'[u] + 1
    <3>1. ASSUME NEW k \in DOMAIN entries, 1 < k, k < I PROVE entries[k].track # u
      <4>1. k - 1 \in D /\ ts[k - 1] = entries[k] BY <1>8, <3>1
      <4>2. k - 1 < i BY <1>8, <3>1 DEF I
      <4> QED BY <2>6, <4>1, <4>2
    <3>2. CASE hd.track = u
      <4>1. entries[I].seq = entries[1].seq + 1 BY <1>8, <1>12, <2>1, <2>2, <3>1, <3>2
      <4> QED BY <1>10, <1>12, <2>1, <3>2, <4>1
    <3>3. CASE hd.track # u
      <4>1. \A j \in DOMAIN entries : j < I => entries[j].track # u
        <5>1. \A j \in DOMAIN entries : j = 1 \/ 1 < j BY <1>3
        <5> QED BY <1>12, <3>1, <3>3, <5>1
      <4>2. entries[I].seq = lastPopped[u] + 1 BY <2>2, <4>1
      <4> QED BY <1>10, <2>1, <2>4, <3>3, <4>2
    <3> QED BY <3>2, <3>3
  <2> QED BY <2>5, <2>6, <2>u
<1>14. ASSUME NEW u \in Video, UpToDate(entries, lastPopped, nextSeq, u)
       PROVE  UpToDate(ts, lastPopped', nextSeq, u)
  <2>0. u \in Tracks BY DEF Tracks
  <2>1. ASSUME NEW j \in D, ts[j].track = u, \A k \in D : j < k => ts[k].track # u
        PROVE  ts[j].seq + 1 = nextSeq[u]
    <3>1. j + 1 \in DOMAIN entries /\ ts[j] = entries[j + 1] /\ j \in Nat BY <1>8
    <3>2. ASSUME NEW k \in DOMAIN entries, j + 1 < k PROVE entries[k].track # u
      <4>1. k # 1 /\ k \in Nat BY <1>8, <3>1, <3>2
      <4>2. k - 1 \in D /\ ts[k - 1] = entries[k] BY <1>8, <4>1
      <4>3. j < k - 1 BY <3>1, <3>2, <4>1
      <4> QED BY <2>1, <4>2, <4>3
    <3> QED BY <1>14, <2>1, <3>1, <3>2 DEF UpToDate
  <2>2. ASSUME \A j \in D : ts[j].track # u
        PROVE  lastPopped'[u] + 1 = nextSeq[u]
    <3>1. ASSUME NEW k \in DOMAIN entries, k # 1 PROVE entries[k].track # u
      <4>1. k - 1 \in D /\ ts[k - 1] = entries[k] BY <1>8, <3>1
      <4> QED BY <2>2, <4>1
    <3>2. CASE hd.track = u
      <4>1. \A k \in DOMAIN entries : 1 < k => entries[k].track # u BY <3>1
      <4>2. entries[1].seq + 1 = nextSeq[u] BY <1>8, <1>12, <1>14, <3>2, <4>1 DEF UpToDate
      <4> QED BY <1>10, <1>12, <3>2, <4>2
    <3>3. CASE hd.track # u
      <4>1. \A k \in DOMAIN entries : entries[k].track # u BY <1>12, <3>1, <3>3
      <4>2. lastPopped[u] + 1 = nextSeq[u] BY <1>14, <4>1 DEF UpToDate
      <4> QED BY <1>10, <2>0, <3>3, <4>2
    <3> QED BY <3>2, <3>3
  <2> QED BY <1>12, <2>1, <2>2 DEF UpToDate
<1>15. GroupsClosed(entries, gopStart)' /\ Seen(entries, videoTracks)'
       /\ Contiguous(entries, lastPopped)'
  BY <1>4, <1>6, <1>13
<1>16. WaitsEmpty' BY <1>1, <1>4, <1>8, <1>12 DEF WaitsEmpty
<1>17. NothingLost' /\ BoundaryIsKey' BY <1>1, <1>4, <1>14 DEF NothingLost, BoundaryIsKey
<1>18. AlignedToBoundary' /\ Measured' BY <1>1, <1>4, <1>6, <1>7 DEF AlignedToBoundary, Measured
<1> QED BY <1>11, <1>15, <1>16, <1>17, <1>18 DEF QueueInv

LEMMA UnchangedStep ==
    ASSUME QueueInv, UNCHANGED <<entries, videoTracks, awaiting, boundary, queuedBytes, queuedDuration,
                       exceeded, queueHistory>>,
           eof' \in BOOLEAN
    PROVE  QueueInv'
<1>1. /\ QueueTypes /\ FlagTypes /\ GroupsClosed(entries, gopStart)
      /\ Seen(entries, videoTracks) /\ Contiguous(entries, lastPopped)
      /\ WaitsEmpty /\ NothingLost /\ BoundaryIsKey /\ AlignedToBoundary /\ Measured
  BY DEF QueueInv
<1>2. /\ entries' = entries /\ videoTracks' = videoTracks /\ awaiting' = awaiting
      /\ boundary' = boundary /\ queuedBytes' = queuedBytes /\ exceeded' = exceeded
      /\ queuedDuration' = queuedDuration /\ nextSeq' = nextSeq /\ gopStart' = gopStart
      /\ lastPopped' = lastPopped
  BY DEF queueHistory
<1>3. QueueTypes' /\ FlagTypes' BY <1>1, <1>2 DEF QueueTypes, FlagTypes
<1>4. GroupsClosed(entries, gopStart)' /\ Seen(entries, videoTracks)'
      /\ Contiguous(entries, lastPopped)'
  BY <1>1, <1>2
<1>5. WaitsEmpty' /\ AlignedToBoundary' /\ Measured'
  BY <1>1, <1>2 DEF WaitsEmpty, AlignedToBoundary, Measured
<1>6. NothingLost' /\ BoundaryIsKey' BY <1>1, <1>2 DEF NothingLost, BoundaryIsKey
<1> QED BY <1>3, <1>4, <1>5, <1>6 DEF QueueInv

LEMMA QueueInitInv ==
    ASSUME QueueInit
    PROVE  QueueInv
<1>1. /\ entries = <<>> /\ videoTracks = {} /\ awaiting = {} /\ boundary = None
      /\ queuedBytes = 0 /\ queuedDuration = 0 /\ eof = FALSE /\ exceeded = FALSE
      /\ nextSeq = [u \in Tracks |-> 0] /\ gopStart = [u \in Tracks |-> 0]
      /\ lastPopped = [u \in Tracks |-> None]
  BY DEF QueueInit
<1>2. DOMAIN entries = {} /\ entries \in Seq(Frag) BY <1>1
<1>3. QueueTypes /\ FlagTypes
  <2>1. /\ nextSeq \in [Tracks -> Nat] /\ gopStart \in [Tracks -> Nat] BY <1>1
  <2>2. lastPopped \in [Tracks -> Int] BY <1>1 DEF None
  <2>3. boundary \in Times \cup {None} /\ videoTracks \subseteq Video
        /\ awaiting \subseteq videoTracks
    BY <1>1
  <2>4. FlagTypes BY <1>1 DEF FlagTypes
  <2> QED BY <1>2, <2>1, <2>2, <2>3, <2>4 DEF QueueTypes
<1>4. GroupsClosed(entries, gopStart) /\ Seen(entries, videoTracks)
      /\ Contiguous(entries, lastPopped) /\ WaitsEmpty
  BY <1>2 DEF GroupsClosed, Seen, Contiguous, WaitsEmpty
<1>5. NothingLost
  <2>1. \A u \in Video : u \in Tracks BY DEF Tracks
  <2>2. \A u \in Video : lastPopped[u] + 1 = nextSeq[u] BY <1>1, <2>1 DEF None
  <2> QED BY <1>1, <1>2, <2>2 DEF NothingLost, UpToDate
<1>6. Media(entries) = {} BY <1>2 DEF Media
<1>7. BoundaryIsKey /\ AlignedToBoundary BY <1>1, <1>6 DEF BoundaryIsKey, AlignedToBoundary
<1>8. TotalBytes(entries) = 0 BY <1>2, SumEmpty DEF TotalBytes
<1>9. Span(entries) = 0 BY <1>6 DEF Span
<1>10. Measured BY <1>1, <1>6, <1>8, <1>9, QueueConstants DEF Measured, WithinLimits
<1> QED BY <1>3, <1>4, <1>5, <1>7, <1>10 DEF QueueInv

LEMMA QueueStepInv ==
    ASSUME QueueInv, [QueueNext]_mediaQueueVars
    PROVE  QueueInv'
<1>1. ASSUME NEW t \in Tracks, NEW f \in Fragments(t), Push(f) PROVE QueueInv'
  <2>1. Produce(f) BY <1>1 DEF Push
  <2> QED BY <1>1, <2>1, PushExceededStep, PushShedStep, PushAcceptedStep,
             PushRecoversStep, PushFailsStep DEF Push
<1>2. CASE TryPop BY <1>2, TryPopStep
<1>3. CASE MarkEof BY <1>3, UnchangedStep DEF MarkEof
<1>4. CASE UNCHANGED mediaQueueVars
  <2>1. eof' \in BOOLEAN BY <1>4 DEF mediaQueueVars, queueVars, QueueInv, FlagTypes
  <2> QED BY <1>4, <2>1, UnchangedStep DEF mediaQueueVars, queueVars
<1> QED BY <1>1, <1>2, <1>3, <1>4 DEF QueueNext

\* The inductive invariant gives the consumer what QueueSound promises.
LEMMA InvIsSound ==
    ASSUME QueueInv
    PROVE  QueueSound
<1>1. /\ QueueTypes /\ FlagTypes /\ Contiguous(entries, lastPopped)
      /\ AlignedToBoundary /\ Measured
  BY DEF QueueInv
<1>2. entries \in Seq(Frag) BY <1>1 DEF QueueTypes
<1>3. /\ Len(entries) \in Nat /\ DOMAIN entries = 1..Len(entries)
      /\ \A i \in DOMAIN entries : entries[i].track \in Tracks /\ entries[i].start \in Times
  BY <1>2, EntryFields
<1>4. /\ TotalBytes(entries) <= MaxBytes /\ Span(entries) <= MaxDuration
      /\ \A f \in Media(entries) : f.start + f.duration <= WordMax
      /\ queuedBytes = TotalBytes(entries) /\ queuedDuration = Span(entries)
  BY <1>1 DEF Measured, WithinLimits
<1>5. TotalBytes(entries) \in Nat BY <1>2, BytesFacts
<1>6. /\ Span(entries) \in Nat
      /\ \A f, g \in Media(entries) : f.start + f.duration - g.start <= Span(entries)
  BY <1>2, <1>4, SpanFacts
<1>7. QueueTypeOK
  <2>1. queuedBytes \in 0..MaxBytes /\ queuedDuration \in 0..MaxDuration BY <1>4, <1>5, <1>6, QueueConstants
  <2> QED BY <1>1, <1>3, <2>1 DEF QueueTypeOK, QueueTypes, FlagTypes
<1>8. BoundsExact BY <1>4, <1>6 DEF BoundsExact
<1>9. DecodableResume
  <2> SUFFICES ASSUME NEW i \in DOMAIN entries, entries[i].track \in Video, ~entries[i].key
               PROVE  entries[i].seq = Predecessor(i) + 1
    BY DEF DecodableResume
  <2> DEFINE E == Earlier(i)
  <2>1. i \in Nat /\ i \in 1..Len(entries) BY <1>3
  <2>2. \A j \in E : /\ j \in DOMAIN entries /\ j < i /\ j \in Nat
                     /\ entries[j].track = entries[i].track
    BY <1>3, <2>1 DEF Earlier
  <2>3. \A j \in DOMAIN entries : j < i /\ entries[j].track = entries[i].track => j \in E
    BY <1>3, <2>1 DEF Earlier
  <2> HIDE DEF E
  <2>4. CASE E = {}
    <3>1. \A j \in DOMAIN entries : j < i => entries[j].track # entries[i].track BY <2>3, <2>4
    <3>2. entries[i].seq = lastPopped[entries[i].track] + 1 BY <1>1, <3>1 DEF Contiguous
    <3> QED BY <2>4, <3>2 DEF Predecessor, E
  <2>5. CASE E # {}
    <3> DEFINE j == Max(E)
    <3>1. E \in SUBSET (0..i) BY <2>1, <2>2
    <3>2. j \in E /\ \A k \in E : k <= j BY <2>1, <2>5, <3>1, Extremes
    <3> HIDE DEF j
    <3>3. ASSUME NEW k \in DOMAIN entries, j < k, k < i
          PROVE  entries[k].track # entries[i].track
      <4>1. k \notin E
        <5>1. k \in E => k <= j BY <3>2
        <5>2. j \in Nat /\ k \in Nat BY <1>3, <2>2, <3>2
        <5> QED BY <3>3, <5>1, <5>2
      <4> QED BY <2>3, <3>3, <4>1
    <3>4. entries[i].seq = entries[j].seq + 1 BY <1>1, <2>2, <3>2, <3>3 DEF Contiguous
    <3> QED BY <2>5, <3>4 DEF Predecessor, E, j
  <2> QED BY <2>4, <2>5
<1> QED BY <1>1, <1>7, <1>8, <1>9 DEF QueueSound

\* The inductive invariant holds at every moment.
THEOREM QueueInvariant == QueueSpec => []QueueInv
<1>1. QueueInit => QueueInv BY QueueInitInv
<1>2. QueueInv /\ [QueueNext]_mediaQueueVars => QueueInv' BY QueueStepInv
<1> QED BY <1>1, <1>2, PTL DEF QueueSpec

\* For any tracks, fragments and limits, and whatever LiveMediaQueue::push
\* shed and try_pop handed out: after a gap of a video track the consumer gets
\* a keyframe next, every queued fragment starts at or after the recovery
\* boundary, and queued_bytes_ and queued_media_duration_ are exact and within
\* both limits.
THEOREM ShedsStayDecodable == QueueSpec => []QueueSound
<1>1. QueueInv => QueueSound BY InvIsSound
<1> QED BY <1>1, QueueInvariant, PTL

\* A keyframe that starts no earlier than any before it enters a drained queue.
LEMMA KeyframeAdmitted ==
    ASSUME QueueInv, entries = <<>>, ~exceeded, entries' = <<>>, ~exceeded',
           NEW t \in Video, NEW f \in Fragments(t), f.key,
           \A u \in Video : f.start >= gopStart[u], Push(f)
    PROVE  FALSE
<1>0. t \in Tracks BY DEF Tracks
<1>1. QueueTypes /\ BoundaryIsKey /\ Seen(entries, videoTracks) BY DEF QueueInv
<1>2. f \in Frag /\ f.start \in Nat /\ Extended(f) \in Seq(Frag)
  BY <1>0, <1>1, FragmentFacts, FragFields, ExtendedPlaces
<1>3. ~PushExceeded(f) /\ ~PushFails(f) BY DEF PushExceeded, PushFails
<1>4. ~PushShed(f)
  <2>1. ~AwaitsKeyframe(f) BY DEF AwaitsKeyframe
  <2>2. ~BeforeBoundary(f)
    <3> SUFFICES ASSUME boundary # None, f.start < boundary PROVE FALSE BY DEF BeforeBoundary
    <3>1. PICK u \in Video : boundary <= gopStart[u] BY <1>1 DEF BoundaryIsKey
    <3>2. gopStart[u] \in Nat /\ boundary \in Int /\ f.start >= gopStart[u]
      <4>1. u \in Tracks BY DEF Tracks
      <4> QED BY <1>1, <4>1, QueueConstants DEF QueueTypes
    <3> QED BY <1>2, <3>1, <3>2
  <2> QED BY <2>1, <2>2 DEF PushShed, Sheds
<1>5. ~PushAccepted(f)
  <2>1. Extended(f) # <<>> BY <1>1, <1>2, ExtendedPlaces
  <2> QED BY <2>1 DEF PushAccepted, Extended
<1>6. ~PushRecovers(f)
  <2> SUFFICES ASSUME PushRecovers(f) PROVE FALSE OBVIOUS
  <2> DEFINE es == Extended(f)
             vt == NowVideo(f)
             T == Min(RecoveryTimes(es, vt))
             r == Retained(es, vt, T)
  <2>1. RecoveryTimes(es, vt) # {} /\ entries' = r BY DEF PushRecovers, Extended
  <2> HIDE DEF es, vt
  <2>e. es \in Seq(Frag) BY <1>2 DEF es
  <2>2. PICK h \in DOMAIN es : h \in Kept(es, vt, T) BY <2>1, <2>e, BoundaryFacts
  <2>3. PICK e : Lists(r, es, Kept(es, vt, T), e) BY <2>e, RetainedFacts
  <2> HIDE DEF r, T
  <2>4. \E a \in DOMAIN r : e[a] = h BY <2>2, <2>3 DEF Lists
  <2>5. DOMAIN r = {} BY <2>1
  <2> QED BY <2>4, <2>5
<1> QED BY <1>3, <1>4, <1>5, <1>6 DEF Push

\* Publication resumes after any shed: a drained LiveMediaQueue never turns
\* away the keyframe of the next group.
THEOREM DrainedQueueResumes == QueueSpec => KeyframeResumes
<1>1. QueueInv /\ [QueueNext]_mediaQueueVars =>
        [nextSeq' # nextSeq /\ entries = <<>> /\ ~exceeded /\ entries' = <<>> /\ ~exceeded'
           => \A t \in Video : \A f \in Fragments(t) :
                 ~(/\ f.key /\ \A u \in Video : f.start >= gopStart[u]
                   /\ Push(f))]_mediaQueueVars
  BY KeyframeAdmitted
<1> QED BY <1>1, QueueInvariant, PTL DEF QueueSpec, KeyframeResumes

-----------------------------------------------------------------------------
(* LiveDash. *)

(* ---- the parts of the invariant ---- *)

\* The worker of a connection is a record of these fields.
IsWorker(x) ==
  /\ DOMAIN x = {"pc", "fd", "shut", "read", "state", "status"}
  /\ x = [f \in DOMAIN x |-> x[f]] /\ x.shut \in BOOLEAN
  /\ x.pc \in {"waiting", "accepted", "headers", "body", "deregister", "close", "done", "exited"}

ThreadTypes ==
  /\ worker = [w \in Uploads |-> worker[w]] /\ \A w \in Uploads : IsWorker(worker[w])
  /\ DOMAIN server = {"pc", "stop", "active", "listening", "client"}
  /\ server = [f \in DOMAIN server |-> server[f]]
  /\ server.pc \in {"poll", "accepted", "reap", "ended"} /\ server.stop \in BOOLEAN
  /\ DOMAIN main = {"pc", "announced", "seen", "out", "result"}
  /\ main = [f \in DOMAIN main |-> main[f]]

\* No two connections have the same socket, and a worker deregisters its own
\* before it closes it.
OwnSocket ==
  /\ \A v, w \in Uploads : HoldsSocket(v) /\ HoldsSocket(w) /\ worker[v].fd = worker[w].fd => v = w
  /\ \A w \in Uploads :
       worker[w].pc \in {"headers", "body", "deregister"} => worker[w].fd \in server.active

\* The accept thread has at most one connection in hand; it keeps the mutex
\* from the look at the flag until the worker is registered.
OneInHand ==
  /\ \A w \in Uploads : worker[w].pc = "accepted" <=>
       server.pc \in {"accepted", "reap"} /\ server.client = w
  /\ server.pc \in {"accepted", "reap"} => server.client \in Uploads
  /\ server.pc = "reap" => ~server.stop
  /\ server.pc = "ended" => server.stop

\* stop() shut down every socket there was, and there is no other since.
ShutAtStop == \A w \in Uploads : server.stop /\ Receiving(w) => worker[w].shut

\* Nothing of the server runs, and nothing will.
Quiet == server.pc = "ended" /\ \A w \in Uploads : worker[w].pc \in {"waiting", "exited"}

\* The first caller of stop() is still in it, or it returned and the server is
\* quiet.
InStop(pc) == pc \in {"close", "joinAccept", "joinWorkers"}
OneStops ==
  /\ monitor \in {"watching"} \cup StopSteps
  /\ InStop(monitor) \/ InStop(main.pc) \/ main.pc \in {"stopped", "ended"} => server.stop
  /\ monitor = "stopped" => server.stop
  /\ monitor = "joinWorkers" \/ main.pc = "joinWorkers" => server.pc = "ended"
  /\ server.stop => InStop(monitor) \/ InStop(main.pc) \/ Quiet
  /\ main.pc = "ended" => Quiet /\ ~InStop(monitor)

DashInv == ThreadTypes /\ OwnSocket /\ OneInHand /\ ShutAtStop /\ OneStops

(* ---- workers ---- *)

\* What a worker does to its own connection, and to the sockets of the server:
\* it receives, deregisters, closes, ends.
Moves(w) ==
  \/ /\ Receiving(w) /\ worker'[w].pc \in {"headers", "body", "deregister"}
     /\ server' = server
  \/ /\ worker[w].pc = "deregister" /\ worker'[w].pc = "close"
     /\ server' = [server EXCEPT !.active = @ \ {worker[w].fd}]
  \/ worker[w].pc = "close" /\ worker'[w].pc = "done" /\ server' = server
  \/ worker[w].pc = "done" /\ worker'[w].pc = "exited" /\ server' = server

\* One worker moves; the others, and the threads that stop the server, do not.
LEMMA WorkerMoves ==
    ASSUME DashInv, scenario' = scenario, NEW w \in Uploads, Moves(w),
           DOMAIN worker' = Uploads, worker' = [v \in DOMAIN worker' |-> worker'[v]],
           \A v \in Uploads \ {w} : worker'[v] = worker[v],
           IsWorker(worker'[w]), worker'[w].fd = worker[w].fd, worker'[w].shut = worker[w].shut,
           main' = main, monitor' = monitor
    PROVE  DashInv'
<1>1. Uploads' = Uploads BY DEF Uploads
<1>2. /\ server'.pc = server.pc /\ server'.stop = server.stop /\ server'.client = server.client
      /\ DOMAIN server' = DOMAIN server /\ server' = [f \in DOMAIN server' |-> server'[f]]
      /\ \/ server'.active = server.active
         \/ /\ server'.active = server.active \ {worker[w].fd}
            /\ worker[w].pc = "deregister" /\ worker'[w].pc = "close"
  BY DEF Moves, DashInv, ThreadTypes
<1>3. /\ worker[w].pc \notin {"waiting", "accepted", "exited"}
      /\ worker'[w].pc \notin {"waiting", "accepted"}
      /\ HoldsSocket(w)' => HoldsSocket(w)
      /\ Receiving(w)' => Receiving(w)
      /\ worker'[w].pc \in {"headers", "body", "deregister"} =>
           worker[w].pc \in {"headers", "body", "deregister"}
  BY DEF Moves, HoldsSocket, Receiving
<1>4. ThreadTypes' BY <1>1, <1>2 DEF DashInv, ThreadTypes
<1>5. OwnSocket'
  <2>1. \A v \in Uploads : HoldsSocket(v)' => HoldsSocket(v) /\ worker'[v].fd = worker[v].fd
    BY <1>3 DEF HoldsSocket
  <2>2. ASSUME NEW v \in Uploads, worker'[v].pc \in {"headers", "body", "deregister"}
        PROVE  worker'[v].fd \in server'.active
    <3>1. /\ worker[v].pc \in {"headers", "body", "deregister"}
          /\ worker'[v].fd = worker[v].fd /\ worker[v].fd \in server.active
      BY <1>3, <2>2 DEF DashInv, OwnSocket
    <3>2. worker[w].pc = "deregister" /\ worker'[w].pc = "close" => worker[v].fd # worker[w].fd
      BY <2>2, <3>1 DEF DashInv, OwnSocket, HoldsSocket
    <3> QED BY <1>2, <3>1, <3>2
  <2> QED BY <1>1, <2>1, <2>2 DEF DashInv, OwnSocket
<1>6. OneInHand' BY <1>1, <1>2, <1>3 DEF DashInv, OneInHand
<1>7. ShutAtStop' BY <1>1, <1>2, <1>3 DEF DashInv, ShutAtStop, Receiving
<1>8. OneStops'
  <2>1. ~Quiet BY <1>3 DEF Quiet
  <2> QED BY <1>2, <2>1 DEF DashInv, OneStops, InStop, StopSteps
<1> QED BY <1>4, <1>5, <1>6, <1>7, <1>8 DEF DashInv

\* A worker that receives goes on, or finishes its connection.
LEMMA WorkerReceives ==
    ASSUME DashInv, scenario' = scenario, NEW w \in Uploads, Receiving(w), NEW x,
           worker' = [worker EXCEPT ![w] = x], IsWorker(x),
           x.pc \in {"headers", "body", "deregister"},
           x.fd = worker[w].fd, x.shut = worker[w].shut,
           server' = server, main' = main, monitor' = monitor
    PROVE  DashInv'
<1>1. worker = [v \in Uploads |-> worker[v]] BY DEF DashInv, ThreadTypes
<1>2. /\ DOMAIN worker' = Uploads /\ worker' = [v \in DOMAIN worker' |-> worker'[v]]
      /\ worker'[w] = x /\ \A v \in Uploads \ {w} : worker'[v] = worker[v]
  BY <1>1
<1>3. Moves(w) BY <1>2 DEF Moves
<1> QED BY <1>2, <1>3, WorkerMoves

\* Its record, with other fields than socket and flag.
LEMMA ReceivesFields ==
    ASSUME NEW r, IsWorker(r), NEW pc \in {"headers", "body", "deregister"}, NEW status
    PROVE  LET x == [r EXCEPT !.pc = pc, !.status = status]
           IN  IsWorker(x) /\ x.pc = pc /\ x.fd = r.fd /\ x.shut = r.shut
  BY DEF IsWorker

\* Finishing a connection keeps the invariant.
LEMMA FinishStep ==
    ASSUME DashInv, scenario' = scenario, NEW w \in Uploads, Receiving(w), NEW status,
           worker' = Finish(w, status), server' = server, main' = main, monitor' = monitor
    PROVE  DashInv'
<1>1. IsWorker(worker[w]) BY DEF DashInv, ThreadTypes
<1> DEFINE x == [worker[w] EXCEPT !.pc = "deregister", !.status = status]
<1>2. worker' = [worker EXCEPT ![w] = x] BY DEF Finish
<1>3. IsWorker(x) /\ x.pc = "deregister" /\ x.fd = worker[w].fd /\ x.shut = worker[w].shut
  BY <1>1, ReceivesFields
<1> HIDE DEF x
<1> QED BY <1>2, <1>3, WorkerReceives

\* Reading the request keeps the invariant.
LEMMA ReadHeadersStep ==
    ASSUME DashInv, NEW w \in Uploads, ReadHeaders(w)
    PROVE  DashInv'
<1>1. CASE Upload(w).http \in {"chunked", "length"}
  <2> DEFINE x == [worker[w] EXCEPT !.pc = "body"]
  <2>1. IsWorker(worker[w]) /\ Receiving(w) BY DEF DashInv, ThreadTypes, ReadHeaders, Receiving
  <2>2. IsWorker(x) /\ x.pc = "body" /\ x.fd = worker[w].fd /\ x.shut = worker[w].shut BY <2>1 DEF IsWorker
  <2>3. worker' = [worker EXCEPT ![w] = x] BY <1>1 DEF ReadHeaders
  <2> HIDE DEF x
  <2> QED BY <2>1, <2>2, <2>3, WorkerReceives DEF ReadHeaders
<1>2. CASE ~(Upload(w).http \in {"chunked", "length"}) BY <1>2, FinishStep DEF ReadHeaders, Receiving
<1> QED BY <1>1, <1>2

\* Reading the body keeps the invariant, whatever its boxes do to the session.
LEMMA ReadBodyStep ==
    ASSUME DashInv, NEW w \in Uploads, ReadBody(w)
    PROVE  DashInv'
<1>1. PICK n \in 1..MaxRead :
        LET fed == Fed(w, n)
            after == [worker EXCEPT ![w].read = @ + n, ![w].state = fed.state]
        IN  worker' = CASE fed.state = "failed" -> Finish(w, 400)
                        [] fed.state = "complete" ->
                             [after EXCEPT ![w].pc = "deregister", ![w].status = 204]
                        [] OTHER -> after
  BY DEF ReadBody
<1> DEFINE state == Fed(w, n).state
           x == [worker[w] EXCEPT !.read = @ + n, !.state = state]
           y == [x EXCEPT !.pc = "deregister", !.status = 204]
           after == [worker EXCEPT ![w] = x]
<1>2. worker = [v \in Uploads |-> worker[v]] /\ IsWorker(worker[w]) /\ Receiving(w)
      /\ worker[w].pc = "body"
  BY DEF DashInv, ThreadTypes, ReadBody, Receiving
<1>3. IsWorker(x) /\ x.pc = "body" /\ x.fd = worker[w].fd /\ x.shut = worker[w].shut
  <2> HIDE DEF state
  <2> QED BY <1>2 DEF IsWorker
<1>4. IsWorker(y) /\ y.pc = "deregister" /\ y.fd = worker[w].fd /\ y.shut = worker[w].shut
  <2> HIDE DEF x
  <2> QED BY <1>3 DEF IsWorker
<1>5. worker' = CASE state = "failed" -> Finish(w, 400)
                  [] state = "complete" ->
                       [after EXCEPT ![w].pc = "deregister", ![w].status = 204]
                  [] OTHER -> after
  BY <1>1
<1> HIDE DEF state, x
<1>6. [after EXCEPT ![w].pc = "deregister", ![w].status = 204] = [worker EXCEPT ![w] = y] BY <1>2
<1> HIDE DEF after, y
<1>7. \/ worker' = Finish(w, 400) \/ worker' = [worker EXCEPT ![w] = x]
      \/ worker' = [worker EXCEPT ![w] = y]
  BY <1>5, <1>6 DEF after
<1> QED BY <1>2, <1>3, <1>4, <1>7, WorkerReceives, FinishStep DEF ReadBody

\* The end of a connection keeps the invariant.
LEMMA ReadEndStep ==
    ASSUME DashInv, NEW w \in Uploads, ReadEnd(w)
    PROVE  DashInv'
  BY FinishStep DEF ReadEnd

\* A worker that notices the stop keeps the invariant.
LEMMA ReadStoppedStep ==
    ASSUME DashInv, NEW w \in Uploads, ReadStopped(w)
    PROVE  DashInv'
<1> DEFINE x == [worker[w] EXCEPT !.pc = "deregister"]
<1>1. IsWorker(worker[w]) BY DEF DashInv, ThreadTypes
<1>2. IsWorker(x) /\ x.pc = "deregister" /\ x.fd = worker[w].fd /\ x.shut = worker[w].shut
  BY <1>1 DEF IsWorker
<1>3. worker' = [worker EXCEPT ![w] = x] BY DEF ReadStopped
<1> HIDE DEF x
<1> QED BY <1>2, <1>3, WorkerReceives DEF ReadStopped

\* A worker goes to pc.
LEMMA WorkerGoes ==
    ASSUME DashInv, NEW w \in Uploads, scenario' = scenario, main' = main, monitor' = monitor,
           NEW pc \in {"close", "done", "exited"}, worker' = [worker EXCEPT ![w].pc = pc],
           Moves(w)
    PROVE  DashInv'
<1>1. worker = [v \in Uploads |-> worker[v]] /\ IsWorker(worker[w]) BY DEF DashInv, ThreadTypes
<1>2. /\ DOMAIN worker' = Uploads /\ worker' = [v \in DOMAIN worker' |-> worker'[v]]
      /\ \A v \in Uploads \ {w} : worker'[v] = worker[v]
      /\ worker'[w] = [worker[w] EXCEPT !.pc = pc]
  BY <1>1
<1>3. IsWorker(worker'[w]) /\ worker'[w].fd = worker[w].fd /\ worker'[w].shut = worker[w].shut
  BY <1>1, <1>2 DEF IsWorker
<1> QED BY <1>2, <1>3, WorkerMoves

\* close_client keeps the invariant: it deregisters first, then closes.
LEMMA CloseClientStep ==
    ASSUME DashInv, NEW w \in Uploads, CloseClient(w)
    PROVE  DashInv'
<1>1. worker = [v \in Uploads |-> worker[v]] /\ IsWorker(worker[w]) BY DEF DashInv, ThreadTypes
<1>2. CASE worker[w].pc = "deregister"
  <2>1. /\ worker' = [worker EXCEPT ![w].pc = "close"]
        /\ server' = [server EXCEPT !.active = @ \ {worker[w].fd}]
    BY <1>2 DEF CloseClient
  <2>2. worker'[w].pc = "close" BY <1>1, <2>1 DEF IsWorker
  <2> QED BY <1>2, <2>1, <2>2, WorkerGoes DEF CloseClient, Moves
<1>3. CASE worker[w].pc = "close"
  <2>1. worker' = [worker EXCEPT ![w].pc = "done"] /\ server' = server BY <1>3 DEF CloseClient
  <2>2. worker'[w].pc = "done" BY <1>1, <2>1 DEF IsWorker
  <2> QED BY <1>3, <2>1, <2>2, WorkerGoes DEF CloseClient, Moves
<1> QED BY <1>2, <1>3 DEF CloseClient

\* The end of a worker's thread keeps the invariant.
LEMMA ExitStep ==
    ASSUME DashInv, NEW w \in Uploads, Exit(w)
    PROVE  DashInv'
<1>1. worker = [v \in Uploads |-> worker[v]] /\ IsWorker(worker[w]) BY DEF DashInv, ThreadTypes
<1>2. worker'[w].pc = "exited" BY <1>1 DEF Exit, IsWorker
<1> QED BY <1>2, WorkerGoes DEF Exit, Moves

(* ---- the accept thread ---- *)

\* The end of the accept thread keeps the invariant.
LEMMA AcceptStopsStep ==
    ASSUME DashInv, AcceptStops
    PROVE  DashInv'
<1>1. /\ Uploads' = Uploads /\ worker' = worker /\ main' = main /\ monitor' = monitor
      /\ server.pc = "poll" /\ server.stop
  BY DEF AcceptStops, Uploads
<1>2. /\ server'.pc = "ended" /\ server'.stop = server.stop /\ server'.client = server.client
      /\ server'.active = server.active
      /\ DOMAIN server' = DOMAIN server /\ server' = [f \in DOMAIN server' |-> server'[f]]
  BY DEF AcceptStops, DashInv, ThreadTypes
<1>3. ThreadTypes' /\ OwnSocket' /\ ShutAtStop'
  BY <1>1, <1>2 DEF DashInv, ThreadTypes, OwnSocket, ShutAtStop, HoldsSocket, Receiving
<1>4. OneInHand' BY <1>1, <1>2 DEF DashInv, OneInHand
<1>5. OneStops' BY <1>1, <1>2 DEF DashInv, OneStops, InStop, StopSteps, Quiet
<1> QED BY <1>3, <1>4, <1>5 DEF DashInv

\* accept() keeps the invariant: the socket it returns is nobody's.
LEMMA AcceptStep ==
    ASSUME DashInv, Accept
    PROVE  DashInv'
<1>1. PICK w \in Uploads, fd \in Sockets \ InUse :
        /\ worker[w].pc = "waiting"
        /\ worker' = [worker EXCEPT ![w].pc = "accepted", ![w].fd = fd]
        /\ server' = [server EXCEPT !.pc = "accepted", !.client = w]
  BY DEF Accept
<1>2. /\ Uploads' = Uploads /\ main' = main /\ monitor' = monitor /\ server.pc = "poll"
  BY DEF Accept, Uploads
<1>3. worker = [v \in Uploads |-> worker[v]] /\ IsWorker(worker[w]) BY DEF DashInv, ThreadTypes
<1>4. /\ DOMAIN worker' = Uploads /\ worker' = [v \in DOMAIN worker' |-> worker'[v]]
      /\ \A v \in Uploads \ {w} : worker'[v] = worker[v]
      /\ worker'[w] = [worker[w] EXCEPT !.pc = "accepted", !.fd = fd]
  BY <1>1, <1>3
<1>5. IsWorker(worker'[w]) /\ worker'[w].pc = "accepted" /\ worker'[w].fd = fd
  <2>1. DOMAIN worker[w] = {"pc", "fd", "shut", "read", "state", "status"}
        /\ worker[w].shut \in BOOLEAN
    BY <1>3 DEF IsWorker
  <2>2. /\ DOMAIN worker'[w] = DOMAIN worker[w]
        /\ worker'[w] = [f \in DOMAIN worker[w] |->
                           IF f = "fd" THEN fd ELSE IF f = "pc" THEN "accepted" ELSE worker[w][f]]
    BY <1>4, <2>1
  <2>3. worker'[w].pc = "accepted" /\ worker'[w].fd = fd /\ worker'[w].shut = worker[w].shut BY <2>1, <2>2
  <2> QED BY <2>1, <2>2, <2>3 DEF IsWorker
<1>6. /\ server'.pc = "accepted" /\ server'.stop = server.stop /\ server'.client = w
      /\ server'.active = server.active
      /\ DOMAIN server' = DOMAIN server /\ server' = [f \in DOMAIN server' |-> server'[f]]
  BY <1>1 DEF DashInv, ThreadTypes
<1>7. ThreadTypes' BY <1>2, <1>4, <1>5, <1>6 DEF DashInv, ThreadTypes
<1>8. OwnSocket'
  <2>1. \A v \in Uploads : HoldsSocket(v) => worker[v].fd # fd BY <1>1 DEF InUse
  <2>2. ASSUME NEW v \in Uploads \ {w},
               worker'[v].pc \in {"accepted", "headers", "body", "deregister", "close"}
        PROVE  HoldsSocket(v) /\ worker'[v].fd # fd /\ worker'[v] = worker[v]
    <3>1. worker'[v] = worker[v] BY <1>4
    <3>2. HoldsSocket(v) BY <2>2, <3>1 DEF HoldsSocket
    <3> QED BY <2>1, <3>1, <3>2
  <2>3. ASSUME NEW u \in Uploads, NEW v \in Uploads,
               worker'[u].pc \in {"accepted", "headers", "body", "deregister", "close"},
               worker'[v].pc \in {"accepted", "headers", "body", "deregister", "close"},
               worker'[u].fd = worker'[v].fd
        PROVE  u = v
    <3>1. CASE u # w /\ v # w
      <4>1. HoldsSocket(u) /\ HoldsSocket(v) /\ worker[u].fd = worker[v].fd BY <2>2, <2>3, <3>1
      <4> QED BY <4>1 DEF DashInv, OwnSocket
    <3>2. CASE u = w \/ v = w BY <1>5, <2>2, <2>3, <3>2
    <3> QED BY <3>1, <3>2
  <2>4. ASSUME NEW v \in Uploads, worker'[v].pc \in {"headers", "body", "deregister"}
        PROVE  worker'[v].fd \in server'.active
    <3>1. v # w /\ worker'[v] = worker[v] BY <1>4, <1>5, <2>4
    <3> QED BY <1>6, <2>4, <3>1 DEF DashInv, OwnSocket
  <2> QED BY <1>2, <2>3, <2>4 DEF OwnSocket, HoldsSocket
<1>9. OneInHand' BY <1>1, <1>2, <1>4, <1>5, <1>6 DEF DashInv, OneInHand
<1>10. ShutAtStop' BY <1>2, <1>4, <1>5, <1>6 DEF DashInv, ShutAtStop, Receiving
<1>11. OneStops' BY <1>2, <1>6 DEF DashInv, OneStops, InStop, StopSteps, Quiet
<1> QED BY <1>7, <1>8, <1>9, <1>10, <1>11 DEF DashInv

\* The look at the flag keeps the invariant.
LEMMA AcceptedStep ==
    ASSUME DashInv, Accepted
    PROVE  DashInv'
<1> DEFINE c == server.client
<1>1. /\ Uploads' = Uploads /\ main' = main /\ monitor' = monitor /\ server.pc = "accepted"
  BY DEF Accepted, Uploads
<1>2. c \in Uploads /\ worker[c].pc = "accepted" /\ server.stop \in BOOLEAN
      /\ \A v \in Uploads \ {c} : worker[v].pc # "accepted"
  BY <1>1 DEF DashInv, OneInHand, ThreadTypes
<1>3. worker = [v \in Uploads |-> worker[v]] /\ IsWorker(worker[c]) BY <1>2 DEF DashInv, ThreadTypes
<1>4. /\ server'.stop = server.stop /\ server'.client = c /\ server'.active = server.active
      /\ server'.pc = IF server.stop THEN "ended" ELSE "reap"
      /\ DOMAIN server' = DOMAIN server /\ server' = [f \in DOMAIN server' |-> server'[f]]
  BY DEF Accepted, DashInv, ThreadTypes
<1>5. CASE ~server.stop
  <2>1. worker' = worker BY <1>5 DEF Accepted
  <2>2. ThreadTypes' /\ OwnSocket' /\ ShutAtStop'
    BY <1>1, <1>4, <1>5, <2>1 DEF DashInv, ThreadTypes, OwnSocket, ShutAtStop, HoldsSocket, Receiving
  <2>3. OneInHand' BY <1>1, <1>2, <1>4, <1>5, <2>1 DEF DashInv, OneInHand
  <2>4. OneStops' BY <1>1, <1>4, <1>5, <2>1 DEF DashInv, OneStops, InStop, StopSteps, Quiet
  <2> QED BY <2>2, <2>3, <2>4 DEF DashInv
<1>6. CASE server.stop
  <2>1. worker' = [worker EXCEPT ![c].pc = "exited"] BY <1>6 DEF Accepted
  <2>2. /\ DOMAIN worker' = Uploads /\ worker' = [v \in DOMAIN worker' |-> worker'[v]]
        /\ \A v \in Uploads \ {c} : worker'[v] = worker[v]
        /\ worker'[c] = [worker[c] EXCEPT !.pc = "exited"]
    BY <1>2, <1>3, <2>1
  <2>3. IsWorker(worker'[c]) /\ worker'[c].pc = "exited" BY <1>3, <2>2 DEF IsWorker
  <2> HIDE DEF c
  <2>4. ThreadTypes' BY <1>1, <1>4, <1>6, <2>2, <2>3 DEF DashInv, ThreadTypes
  <2>5. OwnSocket'
    <3>1. ASSUME NEW v \in Uploads,
                 worker'[v].pc \in {"accepted", "headers", "body", "deregister", "close"}
          PROVE  worker'[v] = worker[v] /\ HoldsSocket(v)
      <4>1. v # c BY <2>3, <3>1
      <4> QED BY <2>2, <3>1, <4>1 DEF HoldsSocket
    <3>2. ASSUME NEW u \in Uploads, NEW v \in Uploads,
                 worker'[u].pc \in {"accepted", "headers", "body", "deregister", "close"},
                 worker'[v].pc \in {"accepted", "headers", "body", "deregister", "close"},
                 worker'[u].fd = worker'[v].fd
          PROVE  u = v
      <4>1. HoldsSocket(u) /\ HoldsSocket(v) /\ worker[u].fd = worker[v].fd BY <3>1, <3>2
      <4> QED BY <4>1 DEF DashInv, OwnSocket
    <3>3. ASSUME NEW v \in Uploads, worker'[v].pc \in {"headers", "body", "deregister"}
          PROVE  worker'[v].fd \in server'.active
      BY <1>4, <3>1, <3>3 DEF DashInv, OwnSocket
    <3> QED BY <1>1, <3>2, <3>3 DEF OwnSocket, HoldsSocket
  <2>6. OneInHand'
    <3>1. server'.pc = "ended" /\ server'.stop BY <1>4, <1>6
    <3>2. ASSUME NEW v \in Uploads PROVE worker'[v].pc # "accepted"
      <4>1. CASE v = c BY <2>3, <4>1
      <4>2. CASE v # c BY <1>2, <2>2, <4>2
      <4> QED BY <4>1, <4>2
    <3> QED BY <1>1, <3>1, <3>2 DEF OneInHand
  <2>7. ShutAtStop' BY <1>1, <1>4, <2>2, <2>3 DEF DashInv, ShutAtStop, Receiving
  <2>8. OneStops' BY <1>1, <1>4, <1>6, <2>2, <2>3 DEF DashInv, OneStops, InStop, StopSteps, Quiet
  <2> QED BY <2>4, <2>5, <2>6, <2>7, <2>8 DEF DashInv
<1> QED BY <1>2, <1>5, <1>6

\* Registering the worker keeps the invariant.
LEMMA RegisterStep ==
    ASSUME DashInv, Register
    PROVE  DashInv'
<1> DEFINE c == server.client
<1>1. /\ Uploads' = Uploads /\ main' = main /\ monitor' = monitor /\ server.pc = "reap"
  BY DEF Register, Uploads
<1>2. /\ c \in Uploads /\ worker[c].pc = "accepted" /\ ~server.stop
      /\ \A v \in Uploads \ {c} : worker[v].pc # "accepted"
  BY <1>1 DEF DashInv, OneInHand, ThreadTypes
<1>3. worker = [v \in Uploads |-> worker[v]] /\ IsWorker(worker[c]) BY <1>2 DEF DashInv, ThreadTypes
<1>4. /\ server'.stop = server.stop /\ server'.client = c /\ server'.pc = "poll"
      /\ server'.active = server.active \cup {worker[c].fd}
      /\ DOMAIN server' = DOMAIN server /\ server' = [f \in DOMAIN server' |-> server'[f]]
  BY DEF Register, DashInv, ThreadTypes
<1>5. worker' = [worker EXCEPT ![c].pc = "headers"] BY DEF Register
<1> HIDE DEF c
<1>6. /\ DOMAIN worker' = Uploads /\ worker' = [v \in DOMAIN worker' |-> worker'[v]]
      /\ \A v \in Uploads \ {c} : worker'[v] = worker[v]
      /\ worker'[c] = [worker[c] EXCEPT !.pc = "headers"]
  BY <1>2, <1>3, <1>5
<1>7. IsWorker(worker'[c]) /\ worker'[c].pc = "headers" /\ worker'[c].fd = worker[c].fd
  BY <1>3, <1>6 DEF IsWorker
<1>8. ThreadTypes' BY <1>1, <1>4, <1>6, <1>7 DEF DashInv, ThreadTypes
<1>9. OwnSocket'
  <2>1. ASSUME NEW v \in Uploads,
               worker'[v].pc \in {"accepted", "headers", "body", "deregister", "close"}
        PROVE  worker'[v].fd = worker[v].fd /\ HoldsSocket(v)
    BY <1>2, <1>6, <1>7, <2>1 DEF HoldsSocket
  <2>2. ASSUME NEW u \in Uploads, NEW v \in Uploads,
               worker'[u].pc \in {"accepted", "headers", "body", "deregister", "close"},
               worker'[v].pc \in {"accepted", "headers", "body", "deregister", "close"},
               worker'[u].fd = worker'[v].fd
        PROVE  u = v
    <3>1. HoldsSocket(u) /\ HoldsSocket(v) /\ worker[u].fd = worker[v].fd BY <2>1, <2>2
    <3> QED BY <3>1 DEF DashInv, OwnSocket
  <2>3. ASSUME NEW v \in Uploads, worker'[v].pc \in {"headers", "body", "deregister"}
        PROVE  worker'[v].fd \in server'.active
    <3>1. CASE v = c BY <1>4, <1>7, <3>1
    <3>2. CASE v # c BY <1>4, <1>6, <2>3, <3>2 DEF DashInv, OwnSocket
    <3> QED BY <3>1, <3>2
  <2> QED BY <1>1, <2>2, <2>3 DEF OwnSocket, HoldsSocket
<1>10. OneInHand'
  <2>1. ASSUME NEW v \in Uploads PROVE worker'[v].pc # "accepted"
    <3>1. CASE v = c BY <1>7, <3>1
    <3>2. CASE v # c BY <1>2, <1>6, <3>2
    <3> QED BY <3>1, <3>2
  <2> QED BY <1>1, <1>4, <2>1 DEF OneInHand
<1>11. ShutAtStop' BY <1>1, <1>2, <1>4 DEF ShutAtStop
<1>12. OneStops' BY <1>1, <1>2, <1>4 DEF DashInv, OneStops, InStop, StopSteps, Quiet
<1> QED BY <1>8, <1>9, <1>10, <1>11, <1>12 DEF DashInv

(* ---- stop() ---- *)

\* Everything but the part about stop() itself is kept by what leaves the
\* workers and the accept thread alone.
LEMMA ThreadsSame ==
    ASSUME DashInv, scenario' = scenario, worker' = worker,
           server'.pc = server.pc, server'.stop = server.stop, server'.active = server.active,
           server'.client = server.client, DOMAIN server' = DOMAIN server,
           server' = [f \in DOMAIN server' |-> server'[f]],
           DOMAIN main' = DOMAIN main, main' = [f \in DOMAIN main' |-> main'[f]]
    PROVE  ThreadTypes' /\ OwnSocket' /\ OneInHand' /\ ShutAtStop'
<1>1. Uploads' = Uploads BY DEF Uploads
<1>2. ThreadTypes' BY <1>1 DEF DashInv, ThreadTypes
<1>3. OwnSocket' BY <1>1 DEF DashInv, OwnSocket, HoldsSocket
<1>4. OneInHand' BY <1>1 DEF DashInv, OneInHand
<1>5. ShutAtStop' BY <1>1 DEF DashInv, ShutAtStop, Receiving
<1> QED BY <1>2, <1>3, <1>4, <1>5

\* stop() by its first caller: the sockets of all running workers are shut.
LEMMA ShutDownKeeps ==
    ASSUME DashInv, scenario' = scenario, Unlocked, ~server.stop, ShutDown,
           DOMAIN main' = DOMAIN main, main' = [f \in DOMAIN main' |-> main'[f]]
    PROVE  ThreadTypes' /\ OwnSocket' /\ OneInHand' /\ ShutAtStop' /\ server'.stop
           /\ server'.pc = server.pc
<1>1. Uploads' = Uploads BY DEF Uploads
<1>2. /\ server'.pc = server.pc /\ server'.stop /\ server'.client = server.client
      /\ server'.stop \in BOOLEAN /\ server'.active = server.active
      /\ DOMAIN server' = DOMAIN server /\ server' = [f \in DOMAIN server' |-> server'[f]]
  BY DEF ShutDown, DashInv, ThreadTypes
<1>3. ASSUME NEW w \in Uploads
      PROVE  /\ IsWorker(worker'[w]) /\ worker'[w].pc = worker[w].pc
             /\ worker'[w].fd = worker[w].fd
             /\ worker'[w].shut = (worker[w].shut
                                     \/ (HoldsSocket(w) /\ worker[w].fd \in server.active))
  <2>1. IsWorker(worker[w]) BY DEF DashInv, ThreadTypes
  <2>2. worker'[w] = [worker[w] EXCEPT !.shut = worker[w].shut
                                     \/ (HoldsSocket(w) /\ worker[w].fd \in server.active)]
    BY DEF ShutDown
  <2> HIDE DEF HoldsSocket
  <2> QED BY <2>1, <2>2 DEF IsWorker
<1>4. DOMAIN worker' = Uploads /\ worker' = [w \in Uploads |-> worker'[w]] BY DEF ShutDown
<1>5. ThreadTypes' BY <1>1, <1>2, <1>3, <1>4 DEF DashInv, ThreadTypes
<1>6. OwnSocket' BY <1>1, <1>2, <1>3 DEF DashInv, OwnSocket, HoldsSocket
<1>7. OneInHand' BY <1>1, <1>2, <1>3 DEF DashInv, OneInHand, Unlocked
<1>8. ShutAtStop'
  <2>1. ASSUME NEW w \in Uploads, worker'[w].pc \in {"headers", "body"} PROVE worker'[w].shut
    <3>1. HoldsSocket(w) /\ worker[w].fd \in server.active BY <1>3, <2>1 DEF DashInv, OwnSocket, HoldsSocket
    <3> QED BY <1>3, <3>1
  <2> QED BY <1>1, <2>1 DEF ShutAtStop, Receiving
<1> QED BY <1>2, <1>5, <1>6, <1>7, <1>8

\* The call of stop() by the monitor keeps the invariant.
LEMMA MonitorStopsStep ==
    ASSUME DashInv, MonitorStops
    PROVE  DashInv'
<1>1. /\ scenario' = scenario /\ main' = main /\ Unlocked /\ monitor = "watching"
      /\ main.pc # "ended" /\ server.stop \in BOOLEAN
      /\ DOMAIN main' = DOMAIN main /\ main' = [f \in DOMAIN main' |-> main'[f]]
      /\ DOMAIN server = DOMAIN server /\ server = [f \in DOMAIN server |-> server[f]]
  BY DEF MonitorStops, DashInv, ThreadTypes
<1>2. CASE server.stop
  <2>1. monitor' = "stopped" /\ server' = server /\ worker' = worker BY <1>2 DEF MonitorStops
  <2>2. ThreadTypes' /\ OwnSocket' /\ OneInHand' /\ ShutAtStop' BY <1>1, <2>1, ThreadsSame
  <2>3. OneStops' BY <1>1, <1>2, <2>1 DEF DashInv, OneStops, InStop, StopSteps, Quiet, Uploads
  <2> QED BY <2>2, <2>3 DEF DashInv
<1>3. CASE ~server.stop
  <2>1. monitor' = "close" /\ ShutDown BY <1>3 DEF MonitorStops
  <2>2. /\ ThreadTypes' /\ OwnSocket' /\ OneInHand' /\ ShutAtStop' /\ server'.stop
        /\ server'.pc = server.pc
    BY <1>1, <1>3, <2>1, ShutDownKeeps
  <2>3. OneStops' BY <1>1, <1>3, <2>1, <2>2 DEF DashInv, OneStops, InStop, StopSteps
  <2> QED BY <2>2, <2>3 DEF DashInv
<1> QED BY <1>1, <1>2, <1>3

\* The call of stop() by the main thread keeps the invariant.
LEMMA MainStopsStep ==
    ASSUME DashInv, MainStops
    PROVE  DashInv'
<1>1. /\ scenario' = scenario /\ monitor' = monitor /\ Unlocked /\ main.pc = "stop"
      /\ server.stop \in BOOLEAN
      /\ server = [f \in DOMAIN server |-> server[f]]
      /\ main' = [main EXCEPT !.pc = IF server.stop THEN "stopped" ELSE "close"]
  BY DEF MainStops, DashInv, ThreadTypes
<1>2. /\ DOMAIN main' = DOMAIN main /\ main' = [f \in DOMAIN main' |-> main'[f]]
      /\ main'.pc = IF server.stop THEN "stopped" ELSE "close"
  BY <1>1 DEF DashInv, ThreadTypes
<1>3. CASE server.stop
  <2>1. server' = server /\ worker' = worker BY <1>3 DEF MainStops
  <2>2. ThreadTypes' /\ OwnSocket' /\ OneInHand' /\ ShutAtStop' BY <1>1, <1>2, <2>1, ThreadsSame
  <2>3. OneStops' BY <1>1, <1>2, <1>3, <2>1 DEF DashInv, OneStops, InStop, StopSteps, Quiet, Uploads
  <2> QED BY <2>2, <2>3 DEF DashInv
<1>4. CASE ~server.stop
  <2>1. ShutDown BY <1>4 DEF MainStops
  <2>2. /\ ThreadTypes' /\ OwnSocket' /\ OneInHand' /\ ShutAtStop' /\ server'.stop
        /\ server'.pc = server.pc
    BY <1>1, <1>2, <1>4, <2>1, ShutDownKeeps
  <2>3. OneStops' BY <1>1, <1>2, <1>4, <2>2 DEF DashInv, OneStops, InStop, StopSteps
  <2> QED BY <2>2, <2>3 DEF DashInv
<1> QED BY <1>1, <1>3, <1>4

\* The later steps of stop() leave the threads alone; the last one finds the
\* server quiet.
LEMMA StopStepKeeps ==
    ASSUME DashInv, scenario' = scenario, worker' = worker, NEW pc, NEW next, StopStep(pc, next),
           DOMAIN main' = DOMAIN main, main' = [f \in DOMAIN main' |-> main'[f]]
    PROVE  /\ ThreadTypes' /\ OwnSocket' /\ OneInHand' /\ ShutAtStop'
           /\ server'.pc = server.pc /\ server'.stop = server.stop
           /\ \/ pc = "close" /\ next = "joinAccept"
              \/ pc = "joinAccept" /\ next = "joinWorkers" /\ server.pc = "ended"
              \/ /\ pc = "joinWorkers" /\ next = "stopped"
                 /\ \A w \in Uploads : worker[w].pc \in {"waiting", "exited"}
<1>1. /\ server'.pc = server.pc /\ server'.stop = server.stop /\ server'.active = server.active
      /\ server'.client = server.client /\ DOMAIN server' = DOMAIN server
      /\ server' = [f \in DOMAIN server' |-> server'[f]]
  BY DEF StopStep, DashInv, ThreadTypes
<1>2. ThreadTypes' /\ OwnSocket' /\ OneInHand' /\ ShutAtStop' BY <1>1, ThreadsSame
<1> QED BY <1>1, <1>2 DEF StopStep

\* The rest of stop() keeps the invariant, in the monitor ...
LEMMA MonitorStepStep ==
    ASSUME DashInv, MonitorStep
    PROVE  DashInv'
<1>1. /\ scenario' = scenario /\ worker' = worker /\ main' = main
      /\ StopStep(monitor, monitor') /\ monitor' \in StopSteps
      /\ main' = [f \in DOMAIN main' |-> main'[f]]
  BY DEF MonitorStep, DashInv, ThreadTypes
<1>2. /\ ThreadTypes' /\ OwnSocket' /\ OneInHand' /\ ShutAtStop'
      /\ server'.pc = server.pc /\ server'.stop = server.stop
      /\ \/ monitor = "close" /\ monitor' = "joinAccept"
         \/ monitor = "joinAccept" /\ monitor' = "joinWorkers" /\ server.pc = "ended"
         \/ /\ monitor = "joinWorkers" /\ monitor' = "stopped"
            /\ \A w \in Uploads : worker[w].pc \in {"waiting", "exited"}
  BY <1>1, StopStepKeeps
<1>3. OneStops' BY <1>1, <1>2 DEF DashInv, OneStops, InStop, StopSteps, Quiet, Uploads
<1> QED BY <1>2, <1>3 DEF DashInv

\* ... and in the main thread.
LEMMA MainStepStep ==
    ASSUME DashInv, MainStep
    PROVE  DashInv'
<1>1. PICK next \in StopSteps : StopStep(main.pc, next) /\ main' = [main EXCEPT !.pc = next] BY DEF MainStep
<1>2. scenario' = scenario /\ worker' = worker /\ monitor' = monitor BY DEF MainStep
<1>3. /\ DOMAIN main' = DOMAIN main /\ main' = [f \in DOMAIN main' |-> main'[f]]
      /\ main'.pc = next
  BY <1>1 DEF DashInv, ThreadTypes
<1>4. /\ ThreadTypes' /\ OwnSocket' /\ OneInHand' /\ ShutAtStop'
      /\ server'.pc = server.pc /\ server'.stop = server.stop
      /\ \/ main.pc = "close" /\ next = "joinAccept"
         \/ main.pc = "joinAccept" /\ next = "joinWorkers" /\ server.pc = "ended"
         \/ /\ main.pc = "joinWorkers" /\ next = "stopped"
            /\ \A w \in Uploads : worker[w].pc \in {"waiting", "exited"}
  BY <1>1, <1>2, <1>3, StopStepKeeps
<1>5. OneStops' BY <1>2, <1>3, <1>4 DEF DashInv, OneStops, InStop, StopSteps, Quiet, Uploads
<1> QED BY <1>4, <1>5 DEF DashInv

(* ---- the main thread ---- *)

\* The main thread goes on, and nobody else does; the server ends quietly.
LEMMA MainMoves ==
    ASSUME DashInv, scenario' = scenario, server' = server, worker' = worker, monitor' = monitor,
           DOMAIN main' = DOMAIN main, main' = [f \in DOMAIN main' |-> main'[f]],
           ~InStop(main.pc), main.pc # "ended",
           \/ main'.pc \in {"waitTracks", "source", "next", "finished", "stop"}
           \/ main.pc = "stopped" /\ main'.pc = "ended" /\ ~InStop(monitor)
    PROVE  DashInv'
<1>1. ThreadTypes' /\ OwnSocket' /\ OneInHand' /\ ShutAtStop'
  <2>1. server = [f \in DOMAIN server |-> server[f]] BY DEF DashInv, ThreadTypes
  <2> QED BY <2>1, ThreadsSame
<1>2. OneStops' BY DEF DashInv, OneStops, InStop, StopSteps, Quiet, Uploads
<1> QED BY <1>1, <1>2 DEF DashInv

\* The main thread keeps the invariant.
LEMMA MainThreadStep ==
    ASSUME DashInv, MainThread \/ PublishEnds
    PROVE  DashInv'
<1>0. DOMAIN main = {"pc", "announced", "seen", "out", "result"}
      /\ main = [f \in DOMAIN main |-> main[f]]
  BY DEF DashInv, ThreadTypes
<1>1. CASE WaitForTracks
  <2>1. DOMAIN main' = DOMAIN main /\ main' = [f \in DOMAIN main' |-> main'[f]]
        /\ main'.pc \in {"source", "stop"}
    BY <1>0, <1>1 DEF WaitForTracks
  <2> QED BY <1>1, <2>1, MainMoves DEF WaitForTracks, InStop
<1>2. CASE TakeSource
  <2>1. DOMAIN main' = DOMAIN main /\ main' = [f \in DOMAIN main' |-> main'[f]]
        /\ main'.pc = "next"
    BY <1>0, <1>2 DEF TakeSource
  <2> QED BY <1>2, <2>1, MainMoves DEF TakeSource, InStop
<1>3. CASE NextObject
  <2>1. DOMAIN main' = DOMAIN main /\ main' = [f \in DOMAIN main' |-> main'[f]]
        /\ main'.pc = "next"
    BY <1>0, <1>3 DEF NextObject
  <2> QED BY <1>3, <2>1, MainMoves DEF NextObject, InStop
<1>4. CASE NextNothing
  <2>1. DOMAIN main' = DOMAIN main /\ main' = [f \in DOMAIN main' |-> main'[f]]
        /\ main'.pc \in {"stop", "finished"}
    BY <1>0, <1>4 DEF NextNothing
  <2> QED BY <1>4, <2>1, MainMoves DEF NextNothing, InStop
<1>5. CASE AskFinished
  <2>1. DOMAIN main' = DOMAIN main /\ main' = [f \in DOMAIN main' |-> main'[f]]
        /\ main'.pc \in {"stop", "next"}
    BY <1>0, <1>5 DEF AskFinished
  <2> QED BY <1>5, <2>1, MainMoves DEF AskFinished, InStop
<1>6. CASE MainStops BY <1>6, MainStopsStep
<1>7. CASE MainStep BY <1>7, MainStepStep
<1>8. CASE Destroy
  <2>1. DOMAIN main' = DOMAIN main /\ main' = [f \in DOMAIN main' |-> main'[f]]
        /\ main'.pc = "ended"
    BY <1>0, <1>8 DEF Destroy
  <2>2. main.pc = "stopped" /\ ~InStop(monitor) /\ ~InStop(main.pc)
    BY <1>8 DEF Destroy, Unregistered, InStop
  <2> QED BY <1>8, <2>1, <2>2, MainMoves DEF Destroy
<1>9. CASE PublishEnds
  <2>1. DOMAIN main' = DOMAIN main /\ main' = [f \in DOMAIN main' |-> main'[f]]
        /\ main'.pc = "stop"
    BY <1>0, <1>9 DEF PublishEnds
  <2> QED BY <1>9, <2>1, MainMoves DEF PublishEnds, InStop
<1> QED BY <1>1, <1>2, <1>3, <1>4, <1>5, <1>6, <1>7, <1>8, <1>9 DEF MainThread

(* ---- the invariant ---- *)

\* The invariant holds when the server starts.
LEMMA DashInit ==
    ASSUME Init
    PROVE  DashInv
<1>1. ThreadTypes BY DEF Init, ThreadTypes, IsWorker, Uploads
<1>2. \A w \in Uploads : worker[w].pc = "waiting" BY DEF Init, Uploads
<1>3. server.pc = "poll" /\ server.stop = FALSE /\ monitor = "watching" /\ main.pc = "waitTracks"
  BY DEF Init
<1> QED BY <1>1, <1>2, <1>3
        DEF DashInv, OwnSocket, OneInHand, ShutAtStop, OneStops, HoldsSocket, Receiving, InStop

\* Every step keeps it.
LEMMA DashStep ==
    ASSUME DashInv, [Next]_vars
    PROVE  DashInv'
<1>1. ASSUME NEW w \in Uploads, Worker(w) \/ ReadEnd(w) PROVE DashInv'
  BY <1>1, ReadHeadersStep, ReadBodyStep, ReadStoppedStep, CloseClientStep, ExitStep, ReadEndStep DEF Worker
<1>2. CASE Accept BY <1>2, AcceptStep
<1>3. CASE AcceptThread BY <1>3, AcceptStopsStep, AcceptedStep, RegisterStep DEF AcceptThread
<1>4. CASE MonitorStops BY <1>4, MonitorStopsStep
<1>5. CASE MonitorStep BY <1>5, MonitorStepStep
<1>6. CASE MainThread \/ PublishEnds BY <1>6, MainThreadStep
<1>7. CASE UNCHANGED vars
  <2>1. /\ scenario' = scenario /\ server' = server /\ worker' = worker /\ main' = main
        /\ monitor' = monitor
    BY <1>7 DEF vars
  <2>2. /\ server = [f \in DOMAIN server |-> server[f]]
        /\ main = [f \in DOMAIN main |-> main[f]]
    BY DEF DashInv, ThreadTypes
  <2>3. ThreadTypes' /\ OwnSocket' /\ OneInHand' /\ ShutAtStop' BY <2>1, <2>2, ThreadsSame
  <2>4. OneStops' BY <2>1 DEF DashInv, OneStops, InStop, StopSteps, Quiet, Uploads
  <2> QED BY <2>3, <2>4 DEF DashInv
<1> QED BY <1>1, <1>2, <1>3, <1>4, <1>5, <1>6, <1>7 DEF Next, Terminated

\* However accept, the workers, the stop monitor and the main thread interleave:
\* the sockets stop() shuts down are those of the running workers, all of them
\* and no reused number; and when main has left, the monitor is not inside the
\* server and every worker's thread has ended.
THEOREM ThreadsOwnTheServer == Spec => []DashThreads
<1>1. DashInv => DashThreads
  BY DEF DashInv, OwnSocket, ShutAtStop, OneStops, Quiet, InStop, StopSteps, DashThreads, SocketsOwned,
     NothingOutlives, Receiving
<1> QED BY <1>1, DashInit, DashStep, PTL DEF Spec

-----------------------------------------------------------------------------
(* LiveDash: what the session hands over. *)

Boxes == BoxesOf(scenario)
Moofs == {b \in Boxes : b.type = "moof"}
NamesOf(x) == {t.name : t \in x.tracks}
VideoName(n) == n # "catalog" /\ \E b \in Moofs : b.track = n /\ b.video

DashFrag ==
    [track : {b.track : b \in Moofs} \cup {"catalog"}, group : Nat, object : Nat, time : Nat,
     key : BOOLEAN]

\* What LocTrackEncoder keeps of a track.
LocState ==
    {e \in [started : BOOLEAN, wait : BOOLEAN, group : Nat, object : Nat, due : Nat] :
        e.started \/ e.object = 0}

SessionFields ==
    {"paths", "tracks", "frozen", "dirty", "queue", "closed", "error", "started", "group",
     "start", "ids", "inGroup", "next", "loc", "dropped", "catalogs"}

IsPath(p) ==
    /\ DOMAIN p = {"tracks", "initialized", "moof"}
    /\ p.initialized \in BOOLEAN /\ p.moof \in Moofs \cup {NoBox}

SessionTypes(x) ==
    /\ DOMAIN x = SessionFields /\ x = [f \in SessionFields |-> x[f]]
    /\ x.queue \in Seq(DashFrag) /\ x.tracks \subseteq UNION {b.tracks : b \in Boxes}
    /\ x.group \in Nat /\ x.start \in Nat /\ x.catalogs \in Nat
    /\ {x.frozen, x.dirty, x.closed, x.error, x.started} \subseteq BOOLEAN
    /\ \A t \in DOMAIN x.ids : x.ids[t] \in Nat
    /\ \A t \in DOMAIN x.next : x.next[t] \in Nat
    /\ \A t \in DOMAIN x.dropped : x.dropped[t] \in Nat
    /\ \A t \in DOMAIN x.loc : x.loc[t] \in LocState
    /\ \A p \in DOMAIN x.paths : IsPath(x.paths[p])
    /\ pack = "loc" => DOMAIN x.next = {}

\* The location that the next object of a track gets, at the least.
NextGroup(x, t) ==
    IF pack = "loc" THEN IF t \in DOMAIN x.loc THEN x.loc[t].group ELSE 0
    ELSE IF HasVideo(x) THEN x.group ELSE Get(x.next, t, 0)
NextId(x, t) ==
    IF pack = "loc" THEN IF t \in DOMAIN x.loc THEN x.loc[t].object ELSE 0
    ELSE IF HasVideo(x) THEN Get(x.ids, t, 0) ELSE 0

\* StartsOver, of any session.
Restarts(x, t) == HasVideo(x) /\ t \in DOMAIN x.next

\* Any object of s before any of q, if they are of one track; in one list, by place.
Before(x, s, q) ==
    \A i \in DOMAIN s, j \in DOMAIN q :
        s[i].track = q[j].track /\ ~Restarts(x, s[i].track) => Precedes(s[i], q[j])
Climbs(x, s) ==
    \A i, j \in DOMAIN s :
        i < j /\ s[i].track = s[j].track /\ ~Restarts(x, s[i].track) => Precedes(s[i], s[j])

\* What s holds of a track is before the track's next location.
Passed(x, o) ==
    LET n == NextGroup(x, o.track)
    IN  o.group < n \/ (o.group = n /\ o.object < NextId(x, o.track))
AllPassed(x, s) ==
    \A i \in DOMAIN s :
        /\ s[i].track # "catalog" /\ ~Restarts(x, s[i].track) => Passed(x, s[i])
        /\ s[i].track = "catalog" => s[i].group < x.catalogs

OpensVideo(o) == VideoName(o.track) /\ o.object = 0

\* A first object of a video track is a keyframe, and that of the open group is
\* as old as the group.
Keyed(x, s) ==
    \A i \in DOMAIN s :
        OpensVideo(s[i]) =>
            /\ s[i].key /\ s[i].group <= x.group
            /\ s[i].group = x.group => s[i].time = x.start
SameTimes(s, q) ==
    \A i \in DOMAIN s, j \in DOMAIN q :
        OpensVideo(s[i]) /\ OpensVideo(q[j]) /\ s[i].group = q[j].group => s[i].time = q[j].time

Joined(x) == \A t \in x.inGroup : t \in DOMAIN x.ids /\ x.ids[t] > 0

\* Before the first group opens, no video was queued.
NoVideoYet(x, s) == ~x.started => \A i \in DOMAIN s : ~VideoName(s[i].track)

AlignedInv(x, out) ==
    pack # "loc" =>
        /\ Keyed(x, out) /\ Keyed(x, x.queue) /\ Joined(x)
        /\ SameTimes(out, out) /\ SameTimes(out, x.queue) /\ SameTimes(x.queue, x.queue)
        /\ NoVideoYet(x, out) /\ NoVideoYet(x, x.queue)

OrderInv(x, out) ==
    /\ Climbs(x, out) /\ Climbs(x, x.queue) /\ Before(x, out, x.queue)
    /\ AllPassed(x, out) /\ AllPassed(x, x.queue)

\* a is the object before b in its group.
Prior(a, b) == a.track = b.track /\ a.group = b.group /\ a.object = b.object - 1

\* Something of s is the object before o.
HasPrior(s, o) == \E j \in DOMAIN s : Prior(s[j], o)

\* A group that was cut is gone from the queue.
CutGone(x) ==
    \A i \in DOMAIN x.queue :
        x.queue[i].track \in DOMAIN x.dropped => x.dropped[x.queue[i].track] < x.queue[i].group

ChainInv(x, out) ==
    pack = "loc" =>
        /\ \A i \in DOMAIN out : out[i].object > 0 => \E j \in 1..(i - 1) : Prior(out[j], out[i])
        /\ \A i \in DOMAIN x.queue :
              x.queue[i].object > 0 =>
                  HasPrior(out, x.queue[i]) \/ \E j \in 1..(i - 1) : Prior(x.queue[j], x.queue[i])
        /\ ~x.error => \A t \in DOMAIN x.loc :
              x.loc[t].object > 0 =>
                  \/ t \in DOMAIN x.dropped /\ x.loc[t].group <= x.dropped[t]
                  \/ LET next == [track |-> t, group |-> x.loc[t].group, object |-> x.loc[t].object]
                     IN  HasPrior(out, next) \/ HasPrior(x.queue, next)
        /\ CutGone(x)

\* The queue holds objects of published tracks, never a catalog.
QueuePublished(x) == \A i \in DOMAIN x.queue : x.queue[i].track \in NamesOf(x)

SessionInv(x, out) ==
    /\ SessionTypes(x) /\ QueuePublished(x)
    /\ OrderInv(x, out) /\ AlignedInv(x, out) /\ ChainInv(x, out)

\* source() comes before the first object, and freezes what it announces.
SourceTaken ==
    /\ \/ d.frozen /\ main.announced = NamesOf(d)
       \/ ~d.frozen /\ main.out = <<>> /\ main.pc \notin {"next", "finished"}
    /\ main.out = <<>> /\ d.tracks # {} => d.dirty
    /\ main.pc \in {"source", "next", "finished"} => d.tracks # {}
    /\ \A i \in DOMAIN main.out :
          /\ main.out[i].track \in main.announced \cup {"catalog"}
          /\ i = 1 => main.out[i].track = "catalog"

ObjectsInv ==
    /\ main.out \in Seq(DashFrag)
    /\ \A w \in Uploads : worker[w].read \in Nat
    /\ scenario \in Scenarios /\ SourceTaken
    /\ SessionInv(d, main.out)

(* ---- lists ---- *)

\* What DashAssumption says of the boxes of the scenario.
LEMMA BoxFacts ==
    ASSUME scenario \in Scenarios
    PROVE  /\ pack \in {"cmaf", "locmaf", "loc"} /\ scenario.depth \in Nat \ {0}
           /\ scenario.max \in Nat
           /\ \A w \in Uploads : Upload(w).wire \in Seq(Boxes)
           /\ \A b \in Boxes : /\ b.time \in Nat /\ {b.key, b.video, b.bad} \subseteq BOOLEAN
                               /\ \A t \in b.tracks : t.name # "catalog" /\ t.video \in BOOLEAN
           /\ \A b, c \in Boxes : \A t \in c.tracks :
                b.type = "moof" /\ b.track = t.name => b.video = t.video
<1> DEFINE us == scenario.uploads
<1>1. us \in Seq(ToSet(us)) /\ \A u \in ToSet(us) : u.wire \in Seq(ToSet(u.wire)) BY DashAssumption
<1>2. \A w \in Uploads : us[w] \in ToSet(us) BY DEF Uploads, ToSet
<1>3. \A w \in Uploads : ToSet(Upload(w).wire) \subseteq Boxes BY <1>2 DEF Boxes, BoxesOf, Upload
<1>4. ASSUME NEW w \in Uploads PROVE Upload(w).wire \in Seq(Boxes)
  <2>1. Upload(w).wire \in Seq(ToSet(Upload(w).wire)) BY <1>1, <1>2 DEF Upload
  <2> QED BY <1>3, <2>1, SeqMonotonic
<1> QED BY <1>4, DashAssumption DEF pack, Boxes

\* What is left of the queue lists the places of the other groups, in order.
LEMMA WithoutGroupFacts ==
    ASSUME NEW S, NEW q \in Seq(S), NEW t, NEW g, NEW K,
           K = {i \in DOMAIN q : q[i].track # t \/ q[i].group # g}
    PROVE  /\ WithoutGroup(q, t, g) \in Seq(S)
           /\ \E e : Lists(WithoutGroup(q, t, g), q, K, e)
<1> DEFINE e == InOrder(K)
           r == WithoutGroup(q, t, g)
           c == Cardinality(K)
<1>1. Len(q) \in Nat /\ DOMAIN q = 1..Len(q) /\ \A i \in 1..Len(q) : q[i] \in S
  BY LenProperties, ElementOfSeq
<1>2. K \in SUBSET (1..Len(q)) BY <1>1
<1>3. r = [k \in DOMAIN e |-> q[e[k]]] BY DEF WithoutGroup, InOrder
<1> HIDE DEF r
<1>4. /\ c \in Nat /\ e \in [1..c -> K] /\ Rises(e, c)
      /\ \A i \in K : \E a \in 1..c : e[a] = i
  <2> SUFFICES ASSUME NEW D, K \in SUBSET (1..D), D \in Nat
               PROVE  /\ c \in Nat /\ e \in [1..c -> K] /\ Rises(e, c)
                      /\ \A i \in K : \E a \in 1..c : e[a] = i
    BY <1>1, <1>2
  <2> QED BY ONLY K \in SUBSET (1..D), D \in Nat, InOrderFacts
<1> HIDE DEF e, c
<1>5. DOMAIN e = 1..c BY <1>4
<1>6. r = [k \in 1..c |-> q[e[k]]] BY <1>3, <1>5
<1>7. \A k \in 1..c : q[e[k]] \in S BY <1>1, <1>2, <1>4
<1>8. r \in Seq(S) BY <1>4, <1>6, <1>7
<1>9. DOMAIN r = 1..c /\ \A a \in 1..c : r[a] = q[e[a]] BY <1>6
<1>10. Lists(r, q, K, e) BY <1>4, <1>9 DEF Lists, Rises
<1> QED BY <1>8, <1>10 DEF r

\* A queue that has lost some objects keeps what was said of the others.
LEMMA SublistKeeps ==
    ASSUME NEW x, NEW out, NEW q, NEW r, NEW K \in SUBSET (DOMAIN q), NEW e, Lists(r, q, K, e)
    PROVE  /\ Climbs(x, q) => Climbs(x, r)
           /\ Before(x, out, q) => Before(x, out, r)
           /\ AllPassed(x, q) => AllPassed(x, r)
           /\ Keyed(x, q) => Keyed(x, r)
           /\ SameTimes(out, q) => SameTimes(out, r)
           /\ SameTimes(q, q) => SameTimes(r, r)
           /\ NoVideoYet(x, q) => NoVideoYet(x, r)
           /\ \A n : (\A i \in DOMAIN q : q[i].track \in n) => (\A i \in DOMAIN r : r[i].track \in n)
<1>1. \A a \in DOMAIN r : e[a] \in DOMAIN q /\ r[a] = q[e[a]] BY DEF Lists
<1>2. \A a, b \in DOMAIN r : a < b => e[a] < e[b] BY DEF Lists
<1>3. Climbs(x, q) => Climbs(x, r) BY <1>1, <1>2 DEF Climbs
<1>4. Before(x, out, q) => Before(x, out, r) BY <1>1 DEF Before
<1>5. AllPassed(x, q) => AllPassed(x, r) BY <1>1 DEF AllPassed
<1>6. Keyed(x, q) => Keyed(x, r) BY <1>1 DEF Keyed
<1>7. (SameTimes(out, q) => SameTimes(out, r)) /\ (SameTimes(q, q) => SameTimes(r, r)) BY <1>1 DEF SameTimes
<1>8. NoVideoYet(x, q) => NoVideoYet(x, r) BY <1>1 DEF NoVideoYet
<1> QED BY <1>1, <1>3, <1>4, <1>5, <1>6, <1>7, <1>8

\* The tail of a queue is such a list.
LEMMA TailIsSublist ==
    ASSUME NEW S, NEW q \in Seq(S), q # <<>>
    PROVE  /\ Tail(q) \in Seq(S) /\ Head(q) \in S /\ Head(q) = q[1] /\ 1 \in DOMAIN q
           /\ DOMAIN Tail(q) = 1..(Len(q) - 1) /\ Len(q) \in Nat /\ DOMAIN q = 1..Len(q)
           /\ \A i \in DOMAIN Tail(q) : Tail(q)[i] = q[i + 1]
           /\ \E K \in SUBSET (DOMAIN q) : \E e : Lists(Tail(q), q, K, e)
<1> DEFINE n == Len(q)
           r == Tail(q)
           e == [i \in 1..(n - 1) |-> i + 1]
           K == 2..n
<1>1. n \in Nat /\ n > 0 /\ DOMAIN q = 1..n BY EmptySeq, LenProperties
<1>2. r \in Seq(S) /\ Len(r) = n - 1 /\ \A i \in 1..(n - 1) : r[i] = q[i + 1] BY HeadTailProperties
<1>3. DOMAIN r = 1..(n - 1) BY <1>2, LenProperties
<1>4. Head(q) \in S /\ Head(q) = q[1] /\ 1 \in DOMAIN q BY <1>1, ElementOfSeq
<1> HIDE DEF r, n
<1>5. Lists(r, q, K, e)
  <2>1. e \in [1..(n - 1) -> K] /\ \A i \in 1..(n - 1) : e[i] = i + 1 BY <1>1
  <2>2. \A i \in K : i - 1 \in 1..(n - 1) /\ e[i - 1] = i BY <1>1
  <2> HIDE DEF e, K
  <2> QED BY <1>2, <1>3, <2>1, <2>2 DEF Lists
<1>6. K \in SUBSET (DOMAIN q) BY <1>1
<1> HIDE DEF e, K
<1> QED BY <1>1, <1>2, <1>3, <1>4, <1>5, <1>6 DEF r, n

(* ---- one object ---- *)

\* What the parts about order and groups read of a session, but for the queue.
SameCounters(x, z) ==
    /\ z.tracks = x.tracks /\ z.next = x.next /\ z.loc = x.loc /\ z.ids = x.ids
    /\ z.group = x.group /\ z.start = x.start /\ z.started = x.started
    /\ z.catalogs = x.catalogs /\ z.inGroup = x.inGroup

\* What is said of the lists depends on the counters only.
LEMMA SameParts ==
    ASSUME NEW x, NEW z, SameCounters(x, z), NEW s, NEW q
    PROVE  /\ Climbs(z, s) <=> Climbs(x, s)
           /\ Before(z, s, q) <=> Before(x, s, q)
           /\ AllPassed(z, s) <=> AllPassed(x, s)
           /\ Keyed(z, s) <=> Keyed(x, s)
           /\ NoVideoYet(z, s) <=> NoVideoYet(x, s)
           /\ Joined(z) <=> Joined(x)
           /\ NamesOf(z) = NamesOf(x)
<1>1. HasVideo(z) <=> HasVideo(x) BY DEF HasVideo, SameCounters
<1>2. \A t : Restarts(z, t) <=> Restarts(x, t) BY <1>1 DEF Restarts, SameCounters
<1>3. \A o : Passed(z, o) <=> Passed(x, o) BY <1>1 DEF Passed, NextGroup, NextId, SameCounters
<1>4. /\ Climbs(z, s) <=> Climbs(x, s)
      /\ Before(z, s, q) <=> Before(x, s, q)
  BY <1>2 DEF Climbs, Before
<1>5. AllPassed(z, s) <=> AllPassed(x, s) BY <1>2, <1>3 DEF AllPassed, SameCounters
<1> QED BY <1>4, <1>5 DEF Keyed, NoVideoYet, Joined, NamesOf, SameCounters

\* o may be offered to the queue of y: its counters are already past o, and o is
\* after everything of its track.
Offered(y, out, o) ==
    /\ SessionTypes(y) /\ QueuePublished(y) /\ OrderInv(y, out) /\ AlignedInv(y, out)
    /\ out \in Seq(DashFrag)
    /\ o \in DashFrag /\ o.track \in NamesOf(y) /\ o.track # "catalog"
    /\ ~Restarts(y, o.track) =>
         /\ Passed(y, o)
         /\ \A i \in DOMAIN out : out[i].track = o.track => Precedes(out[i], o)
         /\ \A i \in DOMAIN y.queue : y.queue[i].track = o.track => Precedes(y.queue[i], o)
    /\ pack # "loc" =>
         /\ VideoName(o.track) => y.started
         /\ OpensVideo(o) => o.key /\ o.group = y.group /\ o.time = y.start

\* What Append does, place by place.
LEMMA Appended ==
    ASSUME NEW S, NEW q \in Seq(S), NEW o \in S
    PROVE  /\ Append(q, o) \in Seq(S) /\ Len(q) \in Nat
           /\ DOMAIN q = 1..Len(q) /\ DOMAIN Append(q, o) = 1..(Len(q) + 1)
           /\ Append(q, o)[Len(q) + 1] = o
           /\ \A i \in DOMAIN q : Append(q, o)[i] = q[i] /\ i \in DOMAIN Append(q, o)
           /\ \A i \in DOMAIN Append(q, o) : i \in DOMAIN q \/ i = Len(q) + 1
  BY AppendProperties, LenProperties

\* An offered object may be appended to the queue.
LEMMA AppendKeeps ==
    ASSUME NEW y, NEW out, NEW o, Offered(y, out, o)
    PROVE  LET q == Append(y.queue, o)
           IN  /\ q \in Seq(DashFrag) /\ \A i \in DOMAIN q : q[i].track \in NamesOf(y)
               /\ Climbs(y, q) /\ Before(y, out, q) /\ AllPassed(y, q)
               /\ pack # "loc" => /\ Keyed(y, q) /\ SameTimes(out, q) /\ SameTimes(q, q)
                                  /\ NoVideoYet(y, q)
<1> DEFINE p == y.queue
           q == Append(p, o)
           n == Len(p) + 1
<1>1. p \in Seq(DashFrag) /\ o \in DashFrag BY DEF Offered, SessionTypes
<1>2. /\ q \in Seq(DashFrag) /\ Len(p) \in Nat
      /\ DOMAIN p = 1..Len(p) /\ DOMAIN q = 1..n
      /\ q[n] = o /\ \A i \in DOMAIN p : q[i] = p[i]
      /\ \A i \in DOMAIN q : i \in DOMAIN p \/ i = n
  BY <1>1, Appended
<1> HIDE DEF q
<1>3. \A i \in DOMAIN q : q[i].track \in NamesOf(y) BY <1>2 DEF Offered, QueuePublished
<1>4. \A i, j \in DOMAIN q : i < j => i \in DOMAIN p BY <1>2
<1>5. Climbs(y, q)
  <2> SUFFICES ASSUME NEW i \in DOMAIN q, NEW j \in DOMAIN q, i < j,
                      q[i].track = q[j].track, ~Restarts(y, q[i].track)
               PROVE  Precedes(q[i], q[j])
    BY DEF Climbs
  <2>1. i \in DOMAIN p /\ q[i] = p[i] BY <1>2, <1>4
  <2>2. CASE j \in DOMAIN p BY <1>2, <2>1, <2>2 DEF Offered, OrderInv, Climbs
  <2>3. CASE j = n BY <1>2, <2>1, <2>3 DEF Offered
  <2> QED BY <1>2, <2>2, <2>3
<1>6. Before(y, out, q)
  <2> SUFFICES ASSUME NEW i \in DOMAIN out, NEW j \in DOMAIN q,
                      out[i].track = q[j].track, ~Restarts(y, out[i].track)
               PROVE  Precedes(out[i], q[j])
    BY DEF Before
  <2>1. CASE j \in DOMAIN p BY <1>2, <2>1 DEF Offered, OrderInv, Before
  <2>2. CASE j = n BY <1>2, <2>2 DEF Offered
  <2> QED BY <1>2, <2>1, <2>2
<1>7. AllPassed(y, q)
  <2>1. \A i \in DOMAIN p : /\ p[i].track # "catalog" /\ ~Restarts(y, p[i].track) => Passed(y, p[i])
                            /\ p[i].track = "catalog" => p[i].group < y.catalogs
    BY DEF Offered, OrderInv, AllPassed
  <2>2. o.track # "catalog" /\ (~Restarts(y, o.track) => Passed(y, o)) BY DEF Offered
  <2> QED BY <1>2, <2>1, <2>2 DEF AllPassed
<1>8. ASSUME pack # "loc"
      PROVE  /\ Keyed(y, q) /\ SameTimes(out, q) /\ SameTimes(q, q) /\ NoVideoYet(y, q)
  <2>1. /\ Keyed(y, out) /\ Keyed(y, p) /\ SameTimes(out, p) /\ SameTimes(p, p)
        /\ NoVideoYet(y, p)
    BY <1>8 DEF Offered, AlignedInv
  <2>2. /\ VideoName(o.track) => y.started
        /\ OpensVideo(o) => o.key /\ o.group = y.group /\ o.time = y.start
    BY <1>8 DEF Offered
  <2>3. Keyed(y, q)
    <3>1. y.group \in Nat BY DEF Offered, SessionTypes
    <3> QED BY <1>2, <2>1, <2>2, <3>1 DEF Keyed
  <2>4. SameTimes(out, q)
    <3> SUFFICES ASSUME NEW i \in DOMAIN out, NEW j \in DOMAIN q, OpensVideo(out[i]),
                        OpensVideo(q[j]), out[i].group = q[j].group
                 PROVE  out[i].time = q[j].time
      BY DEF SameTimes
    <3>1. CASE j \in DOMAIN p BY <1>2, <2>1, <3>1 DEF SameTimes
    <3>2. CASE j = n BY <1>2, <2>1, <2>2, <3>2 DEF Keyed
    <3> QED BY <1>2, <3>1, <3>2
  <2>5. SameTimes(q, q)
    <3> SUFFICES ASSUME NEW i \in DOMAIN q, NEW j \in DOMAIN q, OpensVideo(q[i]),
                        OpensVideo(q[j]), q[i].group = q[j].group
                 PROVE  q[i].time = q[j].time
      BY DEF SameTimes
    <3>1. CASE i \in DOMAIN p /\ j \in DOMAIN p BY <1>2, <2>1, <3>1 DEF SameTimes
    <3>2. CASE i = n \/ j = n BY <1>2, <2>2, <2>3, <3>2 DEF Keyed
    <3> QED BY <1>2, <3>1, <3>2
  <2>6. NoVideoYet(y, q) BY <1>2, <2>1, <2>2 DEF NoVideoYet
  <2> QED BY <2>3, <2>4, <2>5, <2>6
<1> QED BY <1>2, <1>3, <1>5, <1>6, <1>7, <1>8 DEF q

\* A session whose queue lists what is left of q.
LEMMA ShorterQueue ==
    ASSUME NEW y, NEW out, NEW o, Offered(y, out, o), NEW r,
           r \in Seq(DashFrag),
           \E K \in SUBSET (DOMAIN Append(y.queue, o)) : \E e : Lists(r, Append(y.queue, o), K, e),
           NEW z, z = [y EXCEPT !.queue = r]
    PROVE  SessionTypes(z) /\ QueuePublished(z) /\ OrderInv(z, out) /\ AlignedInv(z, out)
<1> DEFINE q == Append(y.queue, o)
<1>1. /\ q \in Seq(DashFrag) /\ \A i \in DOMAIN q : q[i].track \in NamesOf(y)
      /\ Climbs(y, q) /\ Before(y, out, q) /\ AllPassed(y, q)
      /\ pack # "loc" => /\ Keyed(y, q) /\ SameTimes(out, q) /\ SameTimes(q, q)
                         /\ NoVideoYet(y, q)
  BY AppendKeeps
<1> HIDE DEF q
<1>2. PICK K \in SUBSET (DOMAIN q) : \E e : Lists(r, q, K, e) BY DEF q
<1>3. PICK e : Lists(r, q, K, e) BY <1>2
<1>4. /\ \A i \in DOMAIN r : r[i].track \in NamesOf(y)
      /\ Climbs(y, r) /\ Before(y, out, r) /\ AllPassed(y, r)
      /\ pack # "loc" => Keyed(y, r) /\ SameTimes(out, r) /\ SameTimes(r, r) /\ NoVideoYet(y, r)
  BY <1>1, <1>3, SublistKeeps
<1>5. /\ SessionTypes(y) /\ OrderInv(y, out) /\ AlignedInv(y, out) BY DEF Offered
<1>6. /\ DOMAIN z = SessionFields /\ z.queue = r
      /\ \A f \in SessionFields \ {"queue"} : z[f] = y[f]
  BY <1>5 DEF SessionTypes, SessionFields
<1>7. SameCounters(y, z) /\ NamesOf(z) = NamesOf(y) BY <1>6 DEF SessionFields, SameCounters, NamesOf
<1>8. SessionTypes(z) BY <1>5, <1>6 DEF SessionTypes, SessionFields
<1>9. QueuePublished(z) BY <1>4, <1>6, <1>7 DEF QueuePublished
<1>10. OrderInv(z, out) BY <1>4, <1>5, <1>6, <1>7, SameParts DEF OrderInv
<1>11. AlignedInv(z, out) BY <1>4, <1>5, <1>6, <1>7, SameParts DEF AlignedInv
<1> QED BY <1>8, <1>9, <1>10, <1>11

\* A list is a sublist of itself.
LEMMA WholeIsSublist ==
    ASSUME NEW q
    PROVE  \E K \in SUBSET (DOMAIN q) : \E e : Lists(q, q, K, e)
<1> DEFINE e == [i \in DOMAIN q |-> i]
<1>1. e \in [DOMAIN q -> DOMAIN q] /\ \A i \in DOMAIN q : e[i] = i OBVIOUS
<1> HIDE DEF e
<1>2. Lists(q, q, DOMAIN q, e) BY <1>1 DEF Lists
<1> QED BY <1>2

\* A full queue loses its oldest object.
LEMMA EnqueuedPlain ==
    ASSUME pack # "loc", scenario \in Scenarios, NEW y, NEW out, NEW o, Offered(y, out, o)
    PROVE  \E r : /\ Enqueued(y, o) = [y EXCEPT !.queue = r]
                  /\ SessionInv([y EXCEPT !.queue = r], out)
<1> DEFINE p == y.queue
           q == Append(p, o)
<1>1. p \in Seq(DashFrag) /\ o \in DashFrag /\ scenario.depth \in Nat \ {0} /\ Len(p) \in Nat
  BY BoxFacts, LenProperties DEF Offered, SessionTypes
<1>2. q \in Seq(DashFrag) /\ Len(q) = Len(p) + 1 /\ q # <<>> BY <1>1, AppendProperties
<1>3. ASSUME NEW r, r \in Seq(DashFrag), \E K \in SUBSET (DOMAIN q) : \E e : Lists(r, q, K, e)
      PROVE  SessionInv([y EXCEPT !.queue = r], out)
  <2>1. /\ SessionTypes([y EXCEPT !.queue = r]) /\ QueuePublished([y EXCEPT !.queue = r])
        /\ OrderInv([y EXCEPT !.queue = r], out) /\ AlignedInv([y EXCEPT !.queue = r], out)
    BY <1>3, ShorterQueue
  <2> QED BY <2>1 DEF SessionInv, ChainInv
<1>4. CASE Len(p) < scenario.depth
  <2>1. SessionInv([y EXCEPT !.queue = q], out) BY <1>2, <1>3, WholeIsSublist
  <2>2. ~(Len(p) >= scenario.depth) BY <1>1, <1>4
  <2>3. Enqueued(y, o) = [y EXCEPT !.queue = q] BY <2>2 DEF Enqueued
  <2> QED BY <2>1, <2>3
<1>5. CASE Len(p) >= scenario.depth
  <2>1. p # <<>> BY <1>1, <1>5, EmptySeq
  <2>2. Append(Tail(p), o) = Tail(q)
    <3>1. /\ Tail(p) \in Seq(DashFrag) /\ DOMAIN Tail(p) = 1..(Len(p) - 1)
          /\ \A i \in DOMAIN Tail(p) : Tail(p)[i] = p[i + 1]
          /\ Len(Tail(p)) = Len(p) - 1
      BY <1>1, <2>1, TailIsSublist, HeadTailProperties
    <3>2. /\ Tail(q) \in Seq(DashFrag) /\ DOMAIN Tail(q) = 1..Len(p)
          /\ \A i \in DOMAIN Tail(q) : Tail(q)[i] = q[i + 1]
          /\ Len(Tail(q)) = Len(p)
      BY <1>1, <1>2, TailIsSublist, HeadTailProperties
    <3>3. /\ q[Len(p) + 1] = o /\ DOMAIN p = 1..Len(p) /\ \A i \in 1..Len(p) : q[i] = p[i] BY <1>1, Appended
    <3>4. /\ Append(Tail(p), o) \in Seq(DashFrag) /\ Len(Append(Tail(p), o)) = Len(p)
          /\ Append(Tail(p), o)[Len(p)] = o
          /\ \A i \in 1..(Len(p) - 1) : Append(Tail(p), o)[i] = p[i + 1]
      BY <1>1, <3>1, AppendProperties
    <3>5. Len(p) > 0 BY <1>1, <2>1, EmptySeq
    <3>6. \A i \in 1..Len(p) : Append(Tail(p), o)[i] = Tail(q)[i]
      <4> SUFFICES ASSUME NEW i \in 1..Len(p) PROVE Append(Tail(p), o)[i] = Tail(q)[i] OBVIOUS
      <4>1. CASE i = Len(p) BY <1>1, <3>2, <3>3, <3>4, <4>1
      <4>2. CASE i # Len(p)
        <5>1. i \in 1..(Len(p) - 1) /\ i + 1 \in 1..Len(p) BY <1>1, <4>2
        <5> QED BY <1>1, <3>2, <3>3, <3>4, <5>1
      <4> QED BY <4>1, <4>2
    <3> QED BY <3>2, <3>4, <3>6, SeqEqual
  <2>3. SessionInv([y EXCEPT !.queue = Tail(q)], out) BY <1>2, <1>3, TailIsSublist
  <2>4. Enqueued(y, o) = [y EXCEPT !.queue = Append(Tail(p), o)] BY <1>1, <1>5 DEF Enqueued
  <2> QED BY <2>2, <2>3, <2>4
<1>6. Len(p) < scenario.depth \/ Len(p) >= scenario.depth BY <1>1
<1> HIDE DEF p
<1> QED BY <1>4, <1>5, <1>6

\* The chain of a LOC session, but for one track, whose next object is o.
ChainAsks(y, out, o) ==
    /\ \A i \in DOMAIN out : out[i].object > 0 => \E j \in 1..(i - 1) : Prior(out[j], out[i])
    /\ \A i \in DOMAIN y.queue :
          y.queue[i].object > 0 =>
              HasPrior(out, y.queue[i]) \/ \E j \in 1..(i - 1) : Prior(y.queue[j], y.queue[i])
    /\ \A t \in DOMAIN y.loc :
          t # o.track /\ y.loc[t].object > 0 =>
              \/ t \in DOMAIN y.dropped /\ y.loc[t].group <= y.dropped[t]
              \/ LET next == [track |-> t, group |-> y.loc[t].group, object |-> y.loc[t].object]
                 IN  HasPrior(out, next) \/ HasPrior(y.queue, next)
    /\ CutGone(y)
    /\ o.object > 0 /\ ~LocLate(y, o) => HasPrior(out, o) \/ HasPrior(y.queue, o)
    /\ o.track \in DOMAIN y.loc
    /\ y.loc[o.track].group = o.group /\ y.loc[o.track].object = o.object + 1

\* The session with o at the end of its queue.
LEMMA AppendChain ==
    ASSUME pack = "loc", NEW y, NEW out, NEW o, Offered(y, out, o), ChainAsks(y, out, o),
           ~LocLate(y, o), NEW z, z = [y EXCEPT !.queue = Append(y.queue, o)]
    PROVE  SessionInv(z, out)
<1> DEFINE p == y.queue
           q == Append(p, o)
           n == Len(p) + 1
<1>1. p \in Seq(DashFrag) /\ o \in DashFrag /\ DOMAIN y = SessionFields BY DEF Offered, SessionTypes
<1>2. /\ q \in Seq(DashFrag) /\ Len(p) \in Nat
      /\ DOMAIN p = 1..Len(p) /\ DOMAIN q = 1..n
      /\ q[n] = o /\ \A i \in DOMAIN p : q[i] = p[i]
      /\ \A i \in DOMAIN q : i \in DOMAIN p \/ i = n
  BY <1>1, Appended
<1>3. SessionTypes(z) /\ QueuePublished(z) /\ OrderInv(z, out) /\ AlignedInv(z, out)
  BY <1>2, WholeIsSublist, ShorterQueue
<1>4. z.queue = q /\ z.loc = y.loc /\ z.dropped = y.dropped /\ z.error = y.error BY <1>1 DEF SessionFields
<1> HIDE DEF p, q
<1>5. ChainInv(z, out)
  <2>1. ASSUME NEW i \in DOMAIN q, q[i].object > 0
        PROVE  HasPrior(out, q[i]) \/ \E j \in 1..(i - 1) : Prior(q[j], q[i])
    <3>1. CASE i \in DOMAIN p
      <4>1. HasPrior(out, p[i]) \/ \E j \in 1..(i - 1) : Prior(p[j], p[i])
        BY <1>2, <2>1, <3>1 DEF ChainAsks, p
      <4>2. \A j \in 1..(i - 1) : j \in DOMAIN p BY <1>2, <3>1
      <4> QED BY <1>2, <3>1, <4>1, <4>2
    <3>2. CASE i = n
      <4>1. HasPrior(out, o) \/ HasPrior(p, o) BY <1>2, <2>1, <3>2 DEF ChainAsks, p
      <4>2. \A j \in DOMAIN p : j \in 1..(n - 1) BY <1>2
      <4> QED BY <1>2, <3>2, <4>1, <4>2 DEF HasPrior
    <3> QED BY <1>2, <3>1, <3>2
  <2>2. ASSUME NEW t \in DOMAIN y.loc, y.loc[t].object > 0,
               ~(t \in DOMAIN y.dropped /\ y.loc[t].group <= y.dropped[t])
        PROVE  LET next == [track |-> t, group |-> y.loc[t].group, object |-> y.loc[t].object]
               IN  HasPrior(out, next) \/ HasPrior(q, next)
    <3> DEFINE next == [track |-> t, group |-> y.loc[t].group, object |-> y.loc[t].object]
    <3>1. CASE t # o.track
      <4>1. HasPrior(out, next) \/ HasPrior(p, next) BY <2>2, <3>1 DEF ChainAsks, p
      <4>2. \A j \in DOMAIN p : j \in DOMAIN q /\ q[j] = p[j] BY <1>2
      <4> HIDE DEF next
      <4>3. HasPrior(out, next) \/ HasPrior(q, next) BY <4>1, <4>2 DEF HasPrior
      <4> QED BY <4>3 DEF next
    <3>2. CASE t = o.track
      <4>1. o.object \in Nat BY <1>1 DEF DashFrag
      <4>2. Prior(o, next) BY <3>2, <4>1 DEF Prior, ChainAsks
      <4>3. n \in DOMAIN q /\ q[n] = o BY <1>2
      <4> HIDE DEF next
      <4>4. HasPrior(q, next) BY <4>2, <4>3 DEF HasPrior
      <4> QED BY <4>4 DEF next
    <3> QED BY <3>1, <3>2
  <2>3. CutGone(z)
    <3>1. ASSUME NEW i \in DOMAIN q, q[i].track \in DOMAIN y.dropped
          PROVE  y.dropped[q[i].track] < q[i].group
      <4>1. CASE i \in DOMAIN p BY <1>2, <3>1, <4>1 DEF ChainAsks, CutGone, p
      <4>2. CASE i = n
        <5>1. q[i] = o /\ o.track \in DOMAIN y.dropped /\ ~(o.group <= y.dropped[o.track])
          BY <1>2, <3>1, <4>2 DEF LocLate
        <5>2. o.group \in Nat /\ y.dropped[o.track] \in Nat
          BY <1>1, <5>1 DEF DashFrag, Offered, SessionTypes
        <5> QED BY <5>1, <5>2
      <4> QED BY <1>2, <4>1, <4>2
    <3> QED BY <1>4, <3>1 DEF CutGone
  <2>4. \A i \in DOMAIN out : out[i].object > 0 => \E j \in 1..(i - 1) : Prior(out[j], out[i])
    BY DEF ChainAsks
  <2>5. \A i \in DOMAIN z.queue :
            z.queue[i].object > 0 =>
                HasPrior(out, z.queue[i]) \/ \E j \in 1..(i - 1) : Prior(z.queue[j], z.queue[i])
    BY <1>4, <2>1
  <2>6. \A t \in DOMAIN z.loc :
            z.loc[t].object > 0 =>
                \/ t \in DOMAIN z.dropped /\ z.loc[t].group <= z.dropped[t]
                \/ LET next == [track |-> t, group |-> z.loc[t].group, object |-> z.loc[t].object]
                   IN  HasPrior(out, next) \/ HasPrior(z.queue, next)
    BY <1>4, <2>2
  <2> QED BY <2>3, <2>4, <2>5, <2>6 DEF ChainInv
<1> QED BY <1>3, <1>5 DEF SessionInv

\* A session that has noted a cut.
LEMMA CutNoted ==
    ASSUME NEW y, NEW out, NEW f, \A t \in DOMAIN f : f[t] \in Nat,
           SessionTypes(y) /\ QueuePublished(y) /\ OrderInv(y, out) /\ AlignedInv(y, out),
           NEW z, z = [y EXCEPT !.dropped = f]
    PROVE  SessionTypes(z) /\ QueuePublished(z) /\ OrderInv(z, out) /\ AlignedInv(z, out)
<1>1. /\ DOMAIN z = SessionFields /\ z.dropped = f
      /\ \A g \in SessionFields \ {"dropped"} : z[g] = y[g]
  BY DEF SessionTypes, SessionFields
<1>2. SameCounters(y, z) /\ z.queue = y.queue BY <1>1 DEF SessionFields, SameCounters
<1>3. SessionTypes(z) BY <1>1 DEF SessionTypes, SessionFields
<1>4. QueuePublished(z) BY <1>2, SameParts DEF QueuePublished
<1>5. OrderInv(z, out) BY <1>2, SameParts DEF OrderInv
<1>6. AlignedInv(z, out) BY <1>2, SameParts DEF AlignedInv, SameCounters
<1> QED BY <1>3, <1>4, <1>5, <1>6

\* The oldest group of y's queue goes: the rest stays a chain.
LEMMA CutChain ==
    ASSUME pack = "loc", NEW y, NEW out, SessionInv(y, out), ~y.error, y.queue # <<>>,
           NEW r, r \in Seq(DashFrag), NEW K, NEW e, Lists(r, y.queue, K, e),
           K = {i \in DOMAIN y.queue :
                  y.queue[i].track # y.queue[1].track \/ y.queue[i].group # y.queue[1].group},
           NEW z,
           z = [y EXCEPT !.queue = r, !.dropped = Put(y.dropped, y.queue[1].track, y.queue[1].group)]
    PROVE  ChainInv(z, out)
<1> DEFINE q == y.queue
           old == q[1]
           f == Put(y.dropped, old.track, old.group)
<1>1. q \in Seq(DashFrag) /\ DOMAIN y = SessionFields /\ DOMAIN y.next = {} BY DEF SessionInv, SessionTypes
<1>2. /\ 1 \in DOMAIN q /\ DOMAIN q = 1..Len(q) /\ Len(q) \in Nat
      /\ \A i \in DOMAIN q : q[i] \in DashFrag
  BY <1>1, TailIsSublist, ElementOfSeq
<1>3. z.queue = r /\ z.dropped = f /\ z.loc = y.loc /\ z.error = y.error BY <1>1 DEF SessionFields
<1>4. /\ \A a \in DOMAIN r : e[a] \in K /\ r[a] = q[e[a]]
      /\ \A a, b \in DOMAIN r : a < b => e[a] < e[b]
      /\ \A i \in K : \E a \in DOMAIN r : e[a] = i
  BY DEF Lists
<1>5. K = {i \in DOMAIN q : q[i].track # old.track \/ q[i].group # old.group} OBVIOUS
<1>6. ChainInv(y, out) /\ CutGone(y) /\ Climbs(y, q) BY DEF SessionInv, OrderInv, ChainInv
<1>7. /\ DOMAIN f = DOMAIN y.dropped \cup {old.track}
      /\ f[old.track] = old.group
      /\ \A t \in DOMAIN y.dropped : t # old.track => f[t] = y.dropped[t]
  BY DEF Put
<1> HIDE DEF q, old, f
<1>8. ASSUME NEW i \in DOMAIN r, r[i].object > 0, ~HasPrior(out, r[i])
      PROVE  \E j \in 1..(i - 1) : Prior(r[j], r[i])
  <2>1. e[i] \in K /\ e[i] \in DOMAIN q /\ r[i] = q[e[i]] BY <1>4, <1>5
  <2>2. PICK j \in 1..(e[i] - 1) : Prior(q[j], q[e[i]]) BY <1>6, <1>8, <2>1 DEF ChainInv, q
  <2>3. j \in DOMAIN q /\ j < e[i] BY <1>2, <2>1
  <2>4. j \in K BY <1>5, <2>1, <2>2, <2>3 DEF Prior
  <2>5. PICK a \in DOMAIN r : e[a] = j BY <1>4, <2>4
  <2>6. r[a] = q[j] BY <1>4, <2>5
  <2>7. a < i
    <3>1. \A b \in DOMAIN r : b \in Nat /\ b >= 1 BY LenProperties
    <3>2. ~(i < a) /\ i # a BY <1>2, <1>4, <2>1, <2>3, <2>5
    <3> QED BY <3>1, <3>2
  <2>8. a \in 1..(i - 1)
    <3>1. \A b \in DOMAIN r : b \in Nat /\ b >= 1 BY LenProperties
    <3> QED BY <2>7, <3>1
  <2> QED BY <2>1, <2>2, <2>6, <2>8
<1>9. ASSUME NEW t \in DOMAIN y.loc, y.loc[t].object > 0,
             ~(t \in DOMAIN f /\ y.loc[t].group <= f[t])
      PROVE  LET next == [track |-> t, group |-> y.loc[t].group, object |-> y.loc[t].object]
             IN  HasPrior(out, next) \/ HasPrior(r, next)
  <2> DEFINE next == [track |-> t, group |-> y.loc[t].group, object |-> y.loc[t].object]
  <2>1. y.loc[t].group \in Nat /\ old.group \in Nat
    BY <1>2, <1>9 DEF SessionInv, SessionTypes, LocState, DashFrag, old
  <2>2. ~(t \in DOMAIN y.dropped /\ y.loc[t].group <= y.dropped[t])
    <3>1. CASE t = old.track
      <4>1. t \in DOMAIN y.dropped => y.dropped[t] < old.group /\ y.dropped[t] \in Nat
        BY <1>2, <1>6, <3>1 DEF CutGone, SessionInv, SessionTypes, old, q
      <4> QED BY <1>7, <1>9, <2>1, <3>1, <4>1
    <3>2. CASE t # old.track BY <1>7, <1>9, <3>2
    <3> QED BY <3>1, <3>2
  <2>3. HasPrior(out, next) \/ HasPrior(q, next) BY <1>6, <1>9, <2>2 DEF ChainInv, q
  <2>4. next.track = t /\ next.group = y.loc[t].group OBVIOUS
  <2> HIDE DEF next
  <2>5. ASSUME NEW j \in DOMAIN q, Prior(q[j], next) PROVE HasPrior(r, next)
    <3>1. j \in K
      <4>1. t = old.track => y.loc[t].group # old.group BY <1>7, <1>9, <2>1
      <4> QED BY <1>5, <2>4, <2>5, <4>1 DEF Prior
    <3>2. PICK a \in DOMAIN r : e[a] = j BY <1>4, <3>1
    <3>3. r[a] = q[j] BY <1>4, <3>2
    <3> QED BY <2>5, <3>3 DEF HasPrior
  <2>6. HasPrior(out, next) \/ HasPrior(r, next) BY <2>3, <2>5 DEF HasPrior
  <2> QED BY <2>6 DEF next
<1>10. ASSUME NEW i \in DOMAIN r, r[i].track \in DOMAIN f
       PROVE  f[r[i].track] < r[i].group
  <2>1. e[i] \in K /\ e[i] \in DOMAIN q /\ r[i] = q[e[i]] BY <1>4, <1>5
  <2>2. CASE r[i].track # old.track BY <1>6, <1>7, <1>10, <2>1, <2>2 DEF CutGone, q
  <2>3. CASE r[i].track = old.track
    <3>1. q[e[i]].group # old.group /\ e[i] # 1 BY <1>5, <2>1, <2>3 DEF old
    <3>2. 1 < e[i] BY <1>2, <2>1, <3>1
    <3>3. ~Restarts(y, old.track) BY <1>1 DEF Restarts
    <3>4. Precedes(old, q[e[i]]) BY <1>2, <1>6, <2>1, <2>3, <3>2, <3>3 DEF Climbs, old
    <3>5. old.group < q[e[i]].group BY <3>1, <3>4 DEF Precedes
    <3> QED BY <1>7, <2>1, <2>3, <3>5
  <2> QED BY <2>2, <2>3
<1>11. \A i \in DOMAIN out : out[i].object > 0 => \E j \in 1..(i - 1) : Prior(out[j], out[i])
  BY <1>6 DEF ChainInv
<1>12. CutGone(z) BY <1>3, <1>10 DEF CutGone
<1>13. \A i \in DOMAIN z.queue :
          z.queue[i].object > 0 =>
              HasPrior(out, z.queue[i]) \/ \E j \in 1..(i - 1) : Prior(z.queue[j], z.queue[i])
  BY <1>3, <1>8
<1>14. \A t \in DOMAIN z.loc :
          z.loc[t].object > 0 =>
              \/ t \in DOMAIN z.dropped /\ z.loc[t].group <= z.dropped[t]
              \/ LET next == [track |-> t, group |-> z.loc[t].group, object |-> z.loc[t].object]
                 IN  HasPrior(out, next) \/ HasPrior(z.queue, next)
  BY <1>3, <1>9
<1> QED BY <1>11, <1>12, <1>13, <1>14 DEF ChainInv

\* A full LOC queue loses the oldest group.
LEMMA EnqueuedLoc ==
    ASSUME pack = "loc", scenario \in Scenarios, NEW y, NEW out, NEW o, Offered(y, out, o),
           ChainAsks(y, out, o), ~y.error
    PROVE  \E r, f : /\ Enqueued(y, o) = [y EXCEPT !.queue = r, !.dropped = f]
                     /\ SessionInv([y EXCEPT !.queue = r, !.dropped = f], out)
<1> DEFINE q == Append(y.queue, o)
           old == q[1]
           r == WithoutGroup(q, old.track, old.group)
           f == Put(y.dropped, old.track, old.group)
           z == [y EXCEPT !.queue = q]
<1>1. DOMAIN y = SessionFields /\ y.queue \in Seq(DashFrag) /\ o \in DashFrag BY DEF Offered, SessionTypes
<1>2. /\ q \in Seq(DashFrag) /\ q # <<>> /\ Len(q) \in Nat /\ 1 \in DOMAIN q
      /\ scenario.depth \in Nat \ {0} /\ old \in DashFrag
  BY <1>1, AppendProperties, LenProperties, BoxFacts, TailIsSublist
<1>3. CASE LocLate(y, o)
  <2>1. SessionInv(y, out)
    <3>1. ~(o.object > 0 /\ ~LocLate(y, o)) BY <1>3
    <3>2. \A t \in DOMAIN y.loc :
            y.loc[t].object > 0 =>
                \/ t \in DOMAIN y.dropped /\ y.loc[t].group <= y.dropped[t]
                \/ LET next == [track |-> t, group |-> y.loc[t].group, object |-> y.loc[t].object]
                   IN  HasPrior(out, next) \/ HasPrior(y.queue, next)
      <4>1. o.track \in DOMAIN y.dropped /\ y.loc[o.track].group <= y.dropped[o.track]
        BY <1>3 DEF LocLate, ChainAsks
      <4> QED BY <4>1 DEF ChainAsks
    <3> QED BY <3>2 DEF SessionInv, Offered, ChainInv, ChainAsks
  <2>2. y = [y EXCEPT !.queue = y.queue, !.dropped = y.dropped] BY DEF Offered, SessionTypes
  <2>3. Enqueued(y, o) = y BY <1>3 DEF Enqueued, LocEnqueued
  <2>4. SessionInv([y EXCEPT !.queue = y.queue, !.dropped = y.dropped], out) BY <2>1, <2>2
  <2> QED BY <2>2, <2>3, <2>4
<1>4. CASE ~LocLate(y, o)
  <2>1. SessionInv(z, out) BY <1>4, AppendChain
  <2>2. z.queue = q /\ z.error = y.error /\ z.dropped = y.dropped BY <1>1 DEF SessionFields
  <2> HIDE DEF q
  <2>3. CASE Len(q) <= scenario.depth
    <3>1. Enqueued(y, o) = z BY <1>4, <2>3 DEF Enqueued, LocEnqueued, q
    <3>2. z = [y EXCEPT !.queue = q, !.dropped = y.dropped] OBVIOUS
    <3> QED BY <2>1, <3>1, <3>2
  <2>4. CASE ~(Len(q) <= scenario.depth)
    <3> DEFINE v == [z EXCEPT !.queue = r]
               u == [y EXCEPT !.queue = r, !.dropped = f]
               K == {i \in DOMAIN q : q[i].track # old.track \/ q[i].group # old.group}
    <3>1. r \in Seq(DashFrag) /\ \E e : Lists(r, q, K, e)
      <4> HIDE DEF K
      <4>1. K = {i \in DOMAIN q : q[i].track # old.track \/ q[i].group # old.group} BY DEF K
      <4> HIDE DEF old
      <4> QED BY <1>2, <4>1, WithoutGroupFacts
    <3>2. Enqueued(y, o) = u BY <1>4, <2>4 DEF Enqueued, LocEnqueued, q
    <3>3. PICK e : Lists(r, q, K, e) BY <3>1
    <3>4. u = [z EXCEPT !.queue = r, !.dropped = f] BY <1>1 DEF SessionFields
    <3>5. f = Put(z.dropped, z.queue[1].track, z.queue[1].group) /\ ~z.error BY <2>2
    <3>6. ChainInv(u, out)
      <4>1. K = {i \in DOMAIN z.queue :
                   z.queue[i].track # z.queue[1].track \/ z.queue[i].group # z.queue[1].group}
        BY <2>2
      <4>2. u = [z EXCEPT !.queue = r,
                          !.dropped = Put(z.dropped, z.queue[1].track, z.queue[1].group)]
        BY <3>4, <3>5
      <4>3. z.queue # <<>> /\ Lists(r, z.queue, K, e) /\ ~z.error BY <1>2, <2>2, <3>3
      <4> HIDE DEF K, u, z, r
      <4> QED BY <2>1, <3>1, <4>1, <4>2, <4>3, CutChain
    <3> DEFINE w == [y EXCEPT !.queue = r]
    <3>7. SessionTypes(w) /\ QueuePublished(w) /\ OrderInv(w, out) /\ AlignedInv(w, out)
      <4>1. K \in SUBSET (DOMAIN q) OBVIOUS
      <4> HIDE DEF r, K
      <4> QED BY <3>1, <3>3, <4>1, ShorterQueue DEF q
    <3>8. u = [w EXCEPT !.dropped = f] BY <1>1 DEF SessionFields
    <3>9. \A t \in DOMAIN f : f[t] \in Nat
      <4>1. old.group \in Nat BY <1>2 DEF DashFrag
      <4>2. \A t \in DOMAIN y.dropped : y.dropped[t] \in Nat BY DEF Offered, SessionTypes
      <4> QED BY <4>1, <4>2 DEF Put
    <3>10. SessionTypes(u) /\ QueuePublished(u) /\ OrderInv(u, out) /\ AlignedInv(u, out)
      <4> HIDE DEF w, u, f
      <4> QED BY <3>7, <3>8, <3>9, CutNoted
    <3> QED BY <3>2, <3>6, <3>10 DEF SessionInv
  <2> QED BY <2>3, <2>4
<1> QED BY <1>3, <1>4

(* ---- the session ---- *)

\* How a session may change under its mutex: tracks join until source() froze them.
Grew(x, z) ==
    /\ z.frozen = x.frozen /\ z.catalogs = x.catalogs /\ x.tracks \subseteq z.tracks
    /\ DOMAIN x.paths \subseteq DOMAIN z.paths
    /\ x.frozen => z.tracks = x.tracks
    /\ x.dirty \/ z.tracks # x.tracks => z.dirty

\* Growing composes.
LEMMA GrewOn ==
    ASSUME NEW x, NEW y, NEW z, Grew(x, y), Grew(y, z), {x.frozen, y.frozen} \subseteq BOOLEAN
    PROVE  Grew(x, z)
  BY DEF Grew

\* A step that leaves the counters alone, and the queue too unless it fails the session.
LEMMA CountersKept ==
    ASSUME NEW x, NEW out, SessionInv(x, out), NEW z, SameCounters(x, z),
           DOMAIN z = SessionFields, z = [f \in SessionFields |-> z[f]],
           {z.frozen, z.dirty, z.closed, z.error} \subseteq BOOLEAN, z.dropped = x.dropped,
           \A p \in DOMAIN z.paths : IsPath(z.paths[p]),
           \/ z.queue = x.queue /\ (z.error \/ z.error = x.error)
           \/ z.queue = <<>> /\ z.error
    PROVE  SessionInv(z, out)
<1>1. /\ SessionTypes(x) /\ QueuePublished(x)
      /\ OrderInv(x, out) /\ AlignedInv(x, out) /\ ChainInv(x, out)
  BY DEF SessionInv
<1>2. z.queue \in Seq(DashFrag) BY <1>1, EmptySeq DEF SessionTypes
<1>3. SessionTypes(z)
  <2>1. /\ z.tracks = x.tracks /\ z.next = x.next /\ z.loc = x.loc /\ z.ids = x.ids
        /\ z.group = x.group /\ z.start = x.start /\ z.started = x.started
        /\ z.catalogs = x.catalogs
    BY DEF SameCounters
  <2>2. z.started \in BOOLEAN BY <1>1, <2>1 DEF SessionTypes
  <2> QED BY <1>1, <1>2, <2>1, <2>2 DEF SessionTypes
<1>4. \E K \in SUBSET (DOMAIN x.queue) : \E e : Lists(z.queue, x.queue, K, e)
  <2>1. CASE z.queue = <<>>
    <3>1. DOMAIN z.queue = {} BY <2>1
    <3>2. Lists(z.queue, x.queue, {}, <<>>) BY <2>1, <3>1 DEF Lists
    <3> QED BY <3>2
  <2> QED BY <2>1, WholeIsSublist
<1>5. PICK K \in SUBSET (DOMAIN x.queue) : \E e : Lists(z.queue, x.queue, K, e) BY <1>4
<1>6. PICK e : Lists(z.queue, x.queue, K, e) BY <1>5
<1> DEFINE KeptOf(q, r) ==
         /\ Climbs(x, q) => Climbs(x, r)
         /\ Before(x, out, q) => Before(x, out, r)
         /\ AllPassed(x, q) => AllPassed(x, r)
         /\ Keyed(x, q) => Keyed(x, r)
         /\ SameTimes(out, q) => SameTimes(out, r)
         /\ SameTimes(q, q) => SameTimes(r, r)
         /\ NoVideoYet(x, q) => NoVideoYet(x, r)
<1>7. ASSUME NEW q, q = x.queue, NEW r, r = z.queue PROVE KeptOf(q, r)
  <2>1. K \in SUBSET (DOMAIN q) /\ Lists(r, q, K, e) BY <1>6, <1>7
  <2> QED BY ONLY <2>1, SublistKeeps
<1>8. KeptOf(x.queue, z.queue) BY <1>7
<1>9. QueuePublished(z)
  <2>1. \A i \in DOMAIN z.queue : z.queue[i].track \in NamesOf(x)
    BY <1>1, <1>6, SublistKeeps DEF QueuePublished
  <2> QED BY <2>1, SameParts DEF QueuePublished
<1>10. OrderInv(z, out)
  <2>1. Climbs(x, z.queue) /\ Before(x, out, z.queue) /\ AllPassed(x, z.queue) BY <1>1, <1>8 DEF OrderInv
  <2> QED BY <1>1, <2>1, SameParts DEF OrderInv
<1>11. AlignedInv(z, out)
  <2> SUFFICES ASSUME pack # "loc"
               PROVE  /\ Keyed(z, out) /\ Keyed(z, z.queue) /\ Joined(z)
                      /\ SameTimes(out, out) /\ SameTimes(out, z.queue)
                      /\ SameTimes(z.queue, z.queue)
                      /\ NoVideoYet(z, out) /\ NoVideoYet(z, z.queue)
    BY DEF AlignedInv
  <2>1. /\ Keyed(x, z.queue) /\ SameTimes(out, z.queue) /\ SameTimes(z.queue, z.queue)
        /\ NoVideoYet(x, z.queue)
    BY <1>1, <1>8 DEF AlignedInv
  <2> QED BY <1>1, <2>1, SameParts DEF AlignedInv
<1>12. ChainInv(z, out)
  <2> SUFFICES ASSUME pack = "loc" PROVE ChainInv(z, out) BY DEF ChainInv
  <2>1. CASE z.queue = x.queue
    <3>1. z.loc = x.loc /\ (~z.error => ~x.error) BY <1>1 DEF SameCounters, SessionTypes
    <3>2. CutGone(z) BY <1>1, <2>1 DEF ChainInv, CutGone
    <3> QED BY <1>1, <2>1, <3>1, <3>2 DEF ChainInv
  <2>2. CASE z.queue = <<>> /\ z.error
    <3>1. DOMAIN z.queue = {} BY <2>2
    <3> QED BY <1>1, <2>2, <3>1 DEF ChainInv, CutGone
  <2> QED BY <2>1, <2>2
<1> QED BY <1>3, <1>9, <1>10, <1>11, <1>12 DEF SessionInv

\* A failed session keeps what it had, or loses its whole queue.
LEMMA FailedKeeps ==
    ASSUME NEW x, NEW out, SessionInv(x, out)
    PROVE  /\ SessionInv(Failed(x), out) /\ Grew(x, Failed(x))
           /\ SessionInv(FailedAndCleared(x), out) /\ Grew(x, FailedAndCleared(x))
<1>1. SessionTypes(x) BY DEF SessionInv
<1> DEFINE y == Failed(x)
           z == FailedAndCleared(x)
<1>2. /\ DOMAIN y = SessionFields /\ y = [f \in SessionFields |-> y[f]]
      /\ y.error = TRUE /\ y.closed = TRUE
      /\ \A f \in SessionFields \ {"error", "closed"} : y[f] = x[f]
  BY <1>1 DEF SessionTypes, SessionFields, Failed
<1>3. /\ DOMAIN z = SessionFields /\ z = [f \in SessionFields |-> z[f]]
      /\ z.error = TRUE /\ z.closed = TRUE /\ z.queue = <<>>
      /\ \A f \in SessionFields \ {"error", "closed", "queue"} : z[f] = x[f]
  BY <1>1 DEF SessionTypes, SessionFields, Failed, FailedAndCleared
<1> HIDE DEF y, z
<1>4. SameCounters(x, y) /\ SameCounters(x, z) BY <1>2, <1>3 DEF SameCounters, SessionFields
<1>5. /\ {y.frozen, y.dirty, y.closed, y.error} \subseteq BOOLEAN
      /\ {z.frozen, z.dirty, z.closed, z.error} \subseteq BOOLEAN
      /\ \A p \in DOMAIN y.paths : IsPath(y.paths[p])
      /\ \A p \in DOMAIN z.paths : IsPath(z.paths[p])
      /\ y.dropped = x.dropped /\ z.dropped = x.dropped /\ y.queue = x.queue
  BY <1>1, <1>2, <1>3 DEF SessionTypes, SessionFields
<1>6. SessionInv(y, out) BY <1>2, <1>4, <1>5, CountersKept
<1>7. SessionInv(z, out) BY <1>3, <1>4, <1>5, CountersKept
<1>8. Grew(x, y) /\ Grew(x, z) BY <1>2, <1>3 DEF Grew, SessionFields
<1> QED BY <1>6, <1>7, <1>8 DEF y, z

\* Counters that only move on leave the order of what was queued alone.
LEMMA OrderOn ==
    ASSUME NEW x, NEW out, OrderInv(x, out), out \in Seq(DashFrag), x.queue \in Seq(DashFrag),
           NEW y, y.queue = x.queue, y.catalogs = x.catalogs,
           \A t : ~Restarts(y, t) => ~Restarts(x, t),
           \A o \in DashFrag : ~Restarts(y, o.track) /\ Passed(x, o) => Passed(y, o)
    PROVE  OrderInv(y, out)
<1>1. ASSUME NEW s \in Seq(DashFrag), AllPassed(x, s) PROVE AllPassed(y, s)
  <2>1. \A i \in DOMAIN s : s[i] \in DashFrag BY ElementOfSeq, LenProperties
  <2> QED BY <1>1, <2>1 DEF AllPassed
<1>2. \A s : Climbs(x, s) => Climbs(y, s) BY DEF Climbs
<1>3. \A s, q : Before(x, s, q) => Before(y, s, q) BY DEF Before
<1> QED BY <1>1, <1>2, <1>3 DEF OrderInv

\* What names the tracks of a session.
LEMMA TrackFacts ==
    ASSUME scenario \in Scenarios, NEW x, SessionTypes(x), NEW box \in Moofs,
           \E t \in x.tracks : t.name = box.track
    PROVE  /\ box.track \in NamesOf(x) /\ box.track # "catalog"
           /\ box.time \in Nat /\ box.key \in BOOLEAN /\ box.video \in BOOLEAN
           /\ VideoName(box.track) <=> box.video
           /\ box.video => HasVideo(x)
           /\ \A g, n \in Nat : Object(box.track, g, n, box) \in DashFrag
<1>1. PICK t \in x.tracks : t.name = box.track OBVIOUS
<1>2. PICK c \in Boxes : t \in c.tracks BY DEF SessionTypes
<1>3. box \in Boxes /\ box.type = "moof" /\ \A b \in Moofs : b \in Boxes /\ b.type = "moof" BY DEF Moofs
<1>4. /\ \A b \in Boxes : b.time \in Nat /\ {b.key, b.video, b.bad} \subseteq BOOLEAN
      /\ \A b \in Moofs : b.track = t.name => b.video = t.video
      /\ t.name # "catalog" /\ t.video \in BOOLEAN
  BY <1>2, <1>3, BoxFacts
<1>5. VideoName(box.track) <=> box.video BY <1>1, <1>3, <1>4 DEF VideoName
<1>6. \A g, n \in Nat : Object(box.track, g, n, box) \in DashFrag BY <1>3, <1>4 DEF Object, DashFrag
<1>7. box.video => HasVideo(x) BY <1>1, <1>4 DEF HasVideo
<1> QED BY <1>1, <1>3, <1>4, <1>5, <1>6, <1>7 DEF NamesOf

\* The moov of a path: its tracks join until the session's are frozen.
LEMMA RegisteredKeeps ==
    ASSUME scenario \in Scenarios, NEW x, NEW out, out \in Seq(DashFrag), SessionInv(x, out),
           NEW p \in DOMAIN x.paths, NEW box \in Boxes
    PROVE  SessionInv(Registered(x, p, box), out) /\ Grew(x, Registered(x, p, box))
<1>1. /\ SessionTypes(x) /\ QueuePublished(x)
      /\ OrderInv(x, out) /\ AlignedInv(x, out) /\ ChainInv(x, out)
  BY DEF SessionInv
<1>2. Grew(x, x) BY DEF Grew
<1>3. CASE x.frozen BY <1>2, <1>3 DEF Registered
<1>4. CASE ~x.frozen /\ box.bad /\ pack # "cmaf" BY <1>4, FailedKeeps DEF Registered
<1>5. CASE ~x.frozen /\ ~(box.bad /\ pack # "cmaf")
  <2> DEFINE z == [x EXCEPT !.paths[p].tracks = box.tracks, !.paths[p].initialized = TRUE,
                            !.tracks = @ \cup box.tracks, !.dirty = TRUE]
  <2>1. Registered(x, p, box) = z BY <1>5 DEF Registered
  <2>2. /\ DOMAIN z = SessionFields /\ z = [f \in SessionFields |-> z[f]]
        /\ z.tracks = x.tracks \cup box.tracks /\ z.dirty = TRUE
        /\ DOMAIN z.paths = DOMAIN x.paths
        /\ \A r \in DOMAIN x.paths : r # p => z.paths[r] = x.paths[r]
        /\ z.paths[p] = [x.paths[p] EXCEPT !.tracks = box.tracks, !.initialized = TRUE]
        /\ \A f \in SessionFields \ {"paths", "tracks", "dirty"} : z[f] = x[f]
    BY <1>1 DEF SessionTypes, SessionFields
  <2> HIDE DEF z
  <2>3. /\ z.next = x.next /\ z.loc = x.loc /\ z.ids = x.ids /\ z.queue = x.queue
        /\ z.group = x.group /\ z.start = x.start /\ z.started = x.started
        /\ z.catalogs = x.catalogs /\ z.inGroup = x.inGroup /\ z.dropped = x.dropped
        /\ z.error = x.error /\ z.closed = x.closed /\ z.frozen = x.frozen
    BY <2>2 DEF SessionFields
  <2>4. \A r \in DOMAIN z.paths : IsPath(z.paths[r])
    <3>1. IsPath(x.paths[p]) BY <1>1 DEF SessionTypes
    <3>2. IsPath(z.paths[p]) BY <2>2, <3>1 DEF IsPath
    <3> QED BY <1>1, <2>2, <3>2 DEF SessionTypes
  <2>5. SessionTypes(z)
    <3>1. z.tracks \subseteq UNION {b.tracks : b \in Boxes} BY <1>1, <2>2 DEF SessionTypes
    <3>2. {z.frozen, z.dirty, z.closed, z.error, z.started} \subseteq BOOLEAN
      BY <1>1, <2>2, <2>3 DEF SessionTypes
    <3> QED BY <1>1, <2>2, <2>3, <2>4, <3>1, <3>2 DEF SessionTypes
  <2>6. QueuePublished(z)
    <3>1. NamesOf(x) \subseteq NamesOf(z) BY <2>2 DEF NamesOf
    <3> QED BY <1>1, <2>3, <3>1 DEF QueuePublished
  <2>7. HasVideo(x) => HasVideo(z) BY <2>2 DEF HasVideo
  <2>8. OrderInv(z, out)
    <3>1. \A t : ~Restarts(z, t) => ~Restarts(x, t) BY <2>3, <2>7 DEF Restarts
    <3>2. ASSUME NEW o \in DashFrag, ~Restarts(z, o.track), Passed(x, o)
          PROVE  Passed(z, o)
      <4>1. CASE pack = "loc" \/ (HasVideo(x) <=> HasVideo(z))
        BY <2>3, <3>2, <4>1 DEF Passed, NextGroup, NextId
      <4>2. CASE pack # "loc" /\ ~HasVideo(x) /\ HasVideo(z)
        <5>1. o.track \notin DOMAIN x.next BY <2>3, <3>2, <4>2 DEF Restarts
        <5>2. o.group < 0 \/ o.object < 0 BY <3>2, <4>2, <5>1 DEF Passed, NextGroup, NextId, Get
        <5>3. o.group \in Nat /\ o.object \in Nat BY DEF DashFrag
        <5> QED BY <5>2, <5>3
      <4> QED BY <2>7, <4>1, <4>2
    <3>3. x.queue \in Seq(DashFrag) BY <1>1 DEF SessionTypes
    <3> QED BY <1>1, <2>3, <3>1, <3>2, <3>3, OrderOn
  <2>9. AlignedInv(z, out)
    <3>1. \A s : /\ Keyed(z, s) <=> Keyed(x, s)
                 /\ NoVideoYet(z, s) <=> NoVideoYet(x, s)
      BY <2>3 DEF Keyed, NoVideoYet
    <3>2. Joined(z) <=> Joined(x) BY <2>3 DEF Joined
    <3> QED BY <1>1, <2>3, <3>1, <3>2 DEF AlignedInv
  <2>10. ChainInv(z, out)
    <3>1. CutGone(z) <=> CutGone(x) BY <2>3 DEF CutGone
    <3> QED BY <1>1, <2>3, <3>1 DEF ChainInv
  <2>11. Grew(x, z) BY <1>5, <2>2, <2>3 DEF Grew
  <2> QED BY <2>1, <2>5, <2>6, <2>8, <2>9, <2>10, <2>11 DEF SessionInv
<1> QED BY <1>3, <1>4, <1>5

\* ftyp and moov.
LEMMA InitBoxKeeps ==
    ASSUME scenario \in Scenarios, NEW x, NEW out, out \in Seq(DashFrag), SessionInv(x, out),
           NEW p \in DOMAIN x.paths, NEW box \in Boxes
    PROVE  SessionInv(InitBox(x, p, box), out) /\ Grew(x, InitBox(x, p, box))
<1>1. x.paths[p].initialized \in BOOLEAN BY DEF SessionInv, SessionTypes, IsPath
<1>2. Grew(x, x) BY DEF Grew
<1>3. CASE x.paths[p].initialized /\ pack = "loc"
  <2>1. InitBox(x, p, box) = Failed(x) BY <1>3 DEF InitBox, PathOf
  <2> QED BY <2>1, FailedKeeps
<1>4. CASE (x.paths[p].initialized /\ pack # "loc") \/ (~x.paths[p].initialized /\ box.type = "ftyp")
  <2>1. InitBox(x, p, box) = x BY <1>1, <1>4 DEF InitBox, PathOf
  <2> QED BY <1>2, <2>1
<1>5. CASE ~x.paths[p].initialized /\ box.type # "ftyp"
  <2>1. InitBox(x, p, box) = Registered(x, p, box) BY <1>5 DEF InitBox, PathOf
  <2> QED BY <2>1, RegisteredKeeps
<1> QED BY <1>1, <1>3, <1>4, <1>5

\* Without video a fragment is the next group of its track.
LEMMA OwnGroupKeeps ==
    ASSUME scenario \in Scenarios, pack # "loc", NEW x, NEW out, out \in Seq(DashFrag),
           SessionInv(x, out), NEW box \in Moofs, \E t \in x.tracks : t.name = box.track,
           ~HasVideo(x)
    PROVE  SessionInv(OwnGroup(x, box), out) /\ Grew(x, OwnGroup(x, box))
<1> DEFINE g == Get(x.next, box.track, 0)
           o == Object(box.track, g, 0, box)
           f == Put(x.next, box.track, g + 1)
           y == [x EXCEPT !.next = f]
<1>1. /\ SessionTypes(x) /\ QueuePublished(x) /\ OrderInv(x, out) /\ AlignedInv(x, out)
      /\ x.queue \in Seq(DashFrag)
  BY DEF SessionInv, SessionTypes
<1>2. g \in Nat BY <1>1 DEF SessionTypes, Get
<1>3. CASE g > scenario.max
  <2>1. OwnGroup(x, box) = FailedAndCleared(x) BY <1>3 DEF OwnGroup
  <2> QED BY <2>1, FailedKeeps
<1>4. CASE ~(g > scenario.max)
  <2>1. OwnGroup(x, box) = Enqueued(y, o) BY <1>4 DEF OwnGroup
  <2>2. /\ DOMAIN y = SessionFields /\ y = [h \in SessionFields |-> y[h]] /\ y.next = f
        /\ \A h \in SessionFields \ {"next"} : y[h] = x[h]
    BY <1>1 DEF SessionTypes, SessionFields
  <2>3. /\ DOMAIN f = DOMAIN x.next \cup {box.track} /\ f[box.track] = g + 1
        /\ \A t \in DOMAIN x.next : t # box.track => f[t] = x.next[t]
    BY DEF Put
  <2>4. o.track = box.track /\ o.group = g /\ o.object = 0 BY DEF Object
  <2>5. /\ box.track \in NamesOf(x) /\ box.track # "catalog" /\ ~VideoName(box.track)
        /\ o \in DashFrag
    BY <1>1, <1>2, TrackFacts
  <2> HIDE DEF y, f, o
  <2>6. /\ y.tracks = x.tracks /\ y.loc = x.loc /\ y.ids = x.ids /\ y.queue = x.queue
        /\ y.group = x.group /\ y.start = x.start /\ y.started = x.started
        /\ y.catalogs = x.catalogs /\ y.inGroup = x.inGroup /\ y.dropped = x.dropped
        /\ y.error = x.error /\ y.closed = x.closed /\ y.frozen = x.frozen
        /\ y.dirty = x.dirty /\ y.paths = x.paths
    BY <2>2 DEF SessionFields
  <2>7. SessionTypes(y)
    <3>1. ASSUME NEW t \in DOMAIN f PROVE f[t] \in Nat
      <4>1. CASE t = box.track BY <1>2, <2>3, <4>1
      <4>2. CASE t # box.track
        <5>1. t \in DOMAIN x.next /\ f[t] = x.next[t] BY <2>3, <3>1, <4>2
        <5> QED BY <1>1, <5>1 DEF SessionTypes
      <4> QED BY <4>1, <4>2
    <3>2. {y.frozen, y.dirty, y.closed, y.error, y.started} \subseteq BOOLEAN BY <1>1, <2>6 DEF SessionTypes
    <3> QED BY <1>1, <2>2, <2>6, <3>1, <3>2 DEF SessionTypes
  <2>8. ~HasVideo(y) /\ NamesOf(y) = NamesOf(x) BY <2>6 DEF HasVideo, NamesOf
  <2>9. ASSUME NEW q \in DashFrag, Passed(x, q)
        PROVE  Passed(y, q) /\ (q.track = o.track => Precedes(q, o))
    <3>1. q.group \in Nat /\ q.object \in Nat BY DEF DashFrag
    <3>2. q.group < Get(x.next, q.track, 0) BY <2>9, <3>1 DEF Passed, NextGroup, NextId
    <3>3. q.group < Get(f, q.track, 0)
      <4>1. CASE q.track = box.track
        <5>1. Get(f, q.track, 0) = g + 1 BY <2>3, <4>1 DEF Get
        <5> QED BY <1>2, <3>1, <3>2, <4>1, <5>1
      <4>2. CASE q.track # box.track BY <2>3, <3>2, <4>2 DEF Get
      <4> QED BY <4>1, <4>2
    <3>4. Passed(y, q) BY <2>2, <2>8, <3>3 DEF Passed, NextGroup
    <3>5. q.track = o.track => q.group < g BY <2>4, <3>2
    <3> QED BY <2>4, <3>4, <3>5 DEF Precedes
  <2>10. \A t : ~Restarts(y, t) /\ ~Restarts(x, t) BY <2>8 DEF Restarts
  <2>11. OrderInv(y, out) BY <1>1, <2>6, <2>9, <2>10, OrderOn
  <2>12. AlignedInv(y, out)
    <3>1. \A s : /\ Keyed(y, s) <=> Keyed(x, s)
                 /\ NoVideoYet(y, s) <=> NoVideoYet(x, s)
      BY <2>6 DEF Keyed, NoVideoYet
    <3>2. Joined(y) <=> Joined(x) BY <2>6 DEF Joined
    <3> QED BY <1>1, <2>6, <3>1, <3>2 DEF AlignedInv
  <2>13. Passed(y, o)
    <3>1. NextGroup(y, o.track) = g + 1 BY <2>2, <2>3, <2>4, <2>8 DEF NextGroup, Get
    <3> QED BY <1>2, <2>4, <3>1 DEF Passed
  <2>14. /\ \A i \in DOMAIN out : out[i].track = o.track => Precedes(out[i], o)
         /\ \A i \in DOMAIN y.queue : y.queue[i].track = o.track => Precedes(y.queue[i], o)
    <3>1. ASSUME NEW s \in Seq(DashFrag), AllPassed(x, s), NEW i \in DOMAIN s,
                 s[i].track = o.track
          PROVE  Precedes(s[i], o)
      <4>1. s[i] \in DashFrag BY ElementOfSeq, LenProperties
      <4>2. Passed(x, s[i]) BY <2>4, <2>5, <2>10, <3>1 DEF AllPassed
      <4> QED BY <2>9, <3>1, <4>1, <4>2
    <3> QED BY <1>1, <2>6, <3>1 DEF OrderInv
  <2>15. Offered(y, out, o)
    <3>1. QueuePublished(y) BY <1>1, <2>6, <2>8 DEF QueuePublished
    <3> QED BY <2>4, <2>5, <2>7, <2>8, <2>11, <2>12, <2>13, <2>14, <3>1 DEF Offered, OpensVideo
  <2>16. PICK r : /\ Enqueued(y, o) = [y EXCEPT !.queue = r]
                  /\ SessionInv([y EXCEPT !.queue = r], out)
    BY <2>15, EnqueuedPlain
  <2>17. Grew(x, [y EXCEPT !.queue = r]) BY <2>2, <2>6 DEF Grew, SessionFields
  <2> QED BY <2>1, <2>16, <2>17
<1> QED BY <1>3, <1>4

\* The shared group is open, and takes a fragment of box's track.
Ready(y, out, box) ==
    /\ SessionTypes(y) /\ QueuePublished(y) /\ OrderInv(y, out)
    /\ Keyed(y, out) /\ Keyed(y, y.queue)
    /\ SameTimes(out, out) /\ SameTimes(out, y.queue) /\ SameTimes(y.queue, y.queue)
    /\ y.started /\ HasVideo(y)
    /\ \A t \in y.inGroup : t = box.track \/ (t \in DOMAIN y.ids /\ y.ids[t] > 0)
    /\ box.video /\ Get(y.ids, box.track, 0) = 0 => box.key /\ box.time = y.start

\* A fragment of a session with video is offered at the next place of the shared group.
LEMMA SharedOffer ==
    ASSUME scenario \in Scenarios, pack # "loc", NEW y, NEW out, out \in Seq(DashFrag),
           NEW box \in Moofs, \E t \in y.tracks : t.name = box.track, Ready(y, out, box),
           NEW id, id = Get(y.ids, box.track, 0), NEW o, o = Object(box.track, y.group, id, box),
           NEW z, z = [y EXCEPT !.ids = Put(y.ids, box.track, id + 1)]
    PROVE  Offered(z, out, o)
<1> DEFINE f == Put(y.ids, box.track, id + 1)
<1>1. /\ SessionTypes(y) /\ QueuePublished(y) /\ OrderInv(y, out) /\ y.queue \in Seq(DashFrag)
      /\ y.group \in Nat
  BY DEF Ready, SessionTypes
<1>2. id \in Nat BY <1>1 DEF SessionTypes, Get
<1>3. /\ DOMAIN f = DOMAIN y.ids \cup {box.track} /\ f[box.track] = id + 1
      /\ \A t \in DOMAIN y.ids : t # box.track => f[t] = y.ids[t]
  BY DEF Put
<1>4. o.track = box.track /\ o.group = y.group /\ o.object = id /\ o.key = box.key /\ o.time = box.time
  BY DEF Object
<1>5. /\ box.track \in NamesOf(y) /\ box.track # "catalog" /\ (VideoName(box.track) <=> box.video)
      /\ o \in DashFrag
  BY <1>1, <1>2, TrackFacts
<1>6. /\ DOMAIN z = SessionFields /\ z = [h \in SessionFields |-> z[h]] /\ z.ids = f
      /\ \A h \in SessionFields \ {"ids"} : z[h] = y[h]
  BY <1>1 DEF SessionTypes, SessionFields
<1> HIDE DEF f
<1>7. /\ z.tracks = y.tracks /\ z.loc = y.loc /\ z.next = y.next /\ z.queue = y.queue
      /\ z.group = y.group /\ z.start = y.start /\ z.started = y.started
      /\ z.catalogs = y.catalogs /\ z.inGroup = y.inGroup /\ z.dropped = y.dropped
      /\ z.error = y.error /\ z.closed = y.closed /\ z.frozen = y.frozen
      /\ z.dirty = y.dirty /\ z.paths = y.paths
  BY <1>6 DEF SessionFields
<1>8. SessionTypes(z)
  <2>1. ASSUME NEW t \in DOMAIN f PROVE f[t] \in Nat
    <3>1. CASE t = box.track BY <1>2, <1>3, <3>1
    <3>2. CASE t # box.track
      <4>1. t \in DOMAIN y.ids /\ f[t] = y.ids[t] BY <1>3, <2>1, <3>2
      <4> QED BY <1>1, <4>1 DEF SessionTypes
    <3> QED BY <3>1, <3>2
  <2>2. {z.frozen, z.dirty, z.closed, z.error, z.started} \subseteq BOOLEAN BY <1>1, <1>7 DEF SessionTypes
  <2> QED BY <1>1, <1>6, <1>7, <2>1, <2>2 DEF SessionTypes
<1>9. HasVideo(z) /\ HasVideo(y) /\ NamesOf(z) = NamesOf(y) /\ QueuePublished(z)
  BY <1>1, <1>7 DEF HasVideo, NamesOf, Ready, QueuePublished
<1>10. \A t : Restarts(z, t) <=> Restarts(y, t) BY <1>7, <1>9 DEF Restarts
<1>11. ASSUME NEW q \in DashFrag, Passed(y, q)
       PROVE  Passed(z, q) /\ (q.track = o.track => Precedes(q, o))
  <2>1. q.group \in Nat /\ q.object \in Nat BY DEF DashFrag
  <2>2. q.group < y.group \/ (q.group = y.group /\ q.object < Get(y.ids, q.track, 0))
    BY <1>9, <1>11 DEF Passed, NextGroup, NextId
  <2>3. NextGroup(z, q.track) = y.group /\ NextId(z, q.track) = Get(f, q.track, 0)
    BY <1>6, <1>7, <1>9 DEF NextGroup, NextId
  <2>4. CASE q.track = box.track
    <3>1. Get(f, q.track, 0) = id + 1 BY <1>3, <2>4 DEF Get
    <3>2. q.group < y.group \/ (q.group = y.group /\ q.object < id) BY <2>2, <2>4
    <3> QED BY <1>2, <1>4, <2>1, <2>3, <3>1, <3>2 DEF Passed, Precedes
  <2>5. CASE q.track # box.track
    <3>1. Get(f, q.track, 0) = Get(y.ids, q.track, 0) BY <1>3, <2>5 DEF Get
    <3> QED BY <1>4, <2>2, <2>3, <2>5, <3>1 DEF Passed
  <2> QED BY <2>4, <2>5
<1>12. OrderInv(z, out) BY <1>1, <1>7, <1>10, <1>11, OrderOn
<1>13. AlignedInv(z, out)
  <2>1. \A s : Keyed(z, s) <=> Keyed(y, s) BY <1>7 DEF Keyed
  <2>2. Joined(z)
    <3> SUFFICES ASSUME NEW t \in y.inGroup PROVE t \in DOMAIN f /\ f[t] > 0 BY <1>6, <1>7 DEF Joined
    <3>1. CASE t = box.track BY <1>2, <1>3, <3>1
    <3>2. CASE t # box.track BY <1>3, <3>2 DEF Ready
    <3> QED BY <3>1, <3>2
  <2>3. NoVideoYet(z, out) /\ NoVideoYet(z, z.queue) BY <1>7 DEF NoVideoYet, Ready
  <2> QED BY <1>7, <2>1, <2>2, <2>3 DEF AlignedInv, Ready
<1>14. Passed(z, o)
  <2>1. NextGroup(z, o.track) = y.group /\ NextId(z, o.track) = id + 1
    BY <1>3, <1>4, <1>6, <1>7, <1>9 DEF NextGroup, NextId, Get
  <2> QED BY <1>2, <1>4, <2>1 DEF Passed
<1>15. ASSUME ~Restarts(z, o.track)
       PROVE  /\ \A i \in DOMAIN out : out[i].track = o.track => Precedes(out[i], o)
              /\ \A i \in DOMAIN z.queue : z.queue[i].track = o.track => Precedes(z.queue[i], o)
  <2>1. ASSUME NEW s \in Seq(DashFrag), AllPassed(y, s), NEW i \in DOMAIN s,
               s[i].track = o.track
        PROVE  Precedes(s[i], o)
    <3>1. s[i] \in DashFrag BY ElementOfSeq, LenProperties
    <3>2. Passed(y, s[i]) BY <1>4, <1>5, <1>10, <1>15, <2>1 DEF AllPassed
    <3> QED BY <1>11, <2>1, <3>1, <3>2
  <2> QED BY <1>1, <1>7, <2>1 DEF OrderInv
<1>16. /\ VideoName(o.track) => z.started
       /\ OpensVideo(o) => o.key /\ o.group = z.group /\ o.time = z.start
  BY <1>4, <1>5, <1>7 DEF OpensVideo, Ready
<1> QED BY <1>4, <1>5, <1>8, <1>9, <1>12, <1>13, <1>14, <1>15, <1>16 DEF Offered

\* What a keyframe does to the counters makes the shared group ready for it.
LEMMA KeyframeReady ==
    ASSUME scenario \in Scenarios, pack # "loc", NEW x, NEW out, out \in Seq(DashFrag),
           SessionInv(x, out), NEW box \in Moofs, \E t \in x.tracks : t.name = box.track,
           HasVideo(x), box.key, box.video, ~(x.started /\ box.time < x.start),
           NEW y, y = Keyframe(x, box)
    PROVE  /\ Ready(y, out, box) /\ InGroup(y, box)
           /\ \A h \in SessionFields \ {"started", "start", "inGroup", "group", "ids"} : y[h] = x[h]
<1>1. /\ SessionTypes(x) /\ QueuePublished(x) /\ OrderInv(x, out) /\ AlignedInv(x, out)
      /\ x.queue \in Seq(DashFrag) /\ x.group \in Nat /\ x.start \in Nat /\ x.started \in BOOLEAN
  BY DEF SessionInv, SessionTypes
<1>2. box.time \in Nat BY <1>1, TrackFacts
<1>3. /\ DOMAIN y = SessionFields /\ y = [h \in SessionFields |-> y[h]]
      /\ \A h \in SessionFields \ {"started", "start", "inGroup", "group", "ids"} : y[h] = x[h]
      /\ box.track \in y.inGroup /\ y.started = TRUE
      /\ \/ ~x.started /\ y.start = box.time /\ y.inGroup = {box.track} /\ y.group = x.group /\ y.ids = x.ids
         \/ x.started /\ y.start = box.time /\ y.inGroup = {box.track} /\ y.group = x.group + 1 /\ y.ids = <<>>
         \/ x.started /\ y.start = x.start /\ y.start = box.time /\ y.inGroup = x.inGroup \cup {box.track}
            /\ y.group = x.group /\ y.ids = x.ids
  <2>1. CASE ~x.started
    <3>1. y = [x EXCEPT !.started = TRUE, !.start = box.time, !.inGroup = {box.track}]
      BY <2>1 DEF Keyframe, OpensGroup
    <3> QED BY <1>1, <2>1, <3>1 DEF SessionTypes, SessionFields
  <2>2. CASE x.started /\ OpensGroup(x, box)
    <3>1. y = [x EXCEPT !.group = x.group + 1, !.start = box.time, !.ids = <<>>, !.inGroup = {box.track}]
      BY <2>2 DEF Keyframe
    <3> QED BY <1>1, <2>2, <3>1 DEF SessionTypes, SessionFields
  <2>3. CASE x.started /\ ~OpensGroup(x, box)
    <3>1. y = [x EXCEPT !.inGroup = x.inGroup \cup {box.track}] BY <2>3 DEF Keyframe
    <3>2. x.start = box.time BY <1>1, <1>2, <2>3 DEF OpensGroup
    <3> QED BY <1>1, <2>3, <3>1, <3>2 DEF SessionTypes, SessionFields
  <2> QED BY <1>1, <2>1, <2>2, <2>3
<1>4. /\ y.tracks = x.tracks /\ y.loc = x.loc /\ y.next = x.next /\ y.queue = x.queue
      /\ y.catalogs = x.catalogs /\ y.dropped = x.dropped
      /\ y.error = x.error /\ y.closed = x.closed /\ y.frozen = x.frozen
      /\ y.dirty = x.dirty /\ y.paths = x.paths
  BY <1>3 DEF SessionFields
<1>5. y.group \in Nat /\ y.start \in Nat /\ (y.group = x.group \/ y.group = x.group + 1)
      /\ \A t \in DOMAIN y.ids : y.ids[t] \in Nat
  <2>1. \A t \in DOMAIN x.ids : x.ids[t] \in Nat BY <1>1 DEF SessionTypes
  <2>2. y.ids = x.ids \/ y.ids = <<>> BY <1>3
  <2>3. \A t \in DOMAIN y.ids : y.ids[t] \in Nat BY <2>1, <2>2
  <2>4. y.group = x.group \/ y.group = x.group + 1 BY <1>3
  <2>5. y.start = box.time BY <1>3
  <2> QED BY <1>1, <1>2, <2>3, <2>4, <2>5
<1>6. SessionTypes(y)
  <2>1. {y.frozen, y.dirty, y.closed, y.error, y.started} \subseteq BOOLEAN
    <3>1. {x.frozen, x.dirty, x.closed, x.error} \subseteq BOOLEAN BY <1>1 DEF SessionTypes
    <3>2. y.started \in BOOLEAN BY <1>3
    <3> QED BY <1>4, <3>1, <3>2
  <2> QED BY <1>1, <1>3, <1>4, <1>5, <2>1 DEF SessionTypes
<1>7. HasVideo(y) /\ QueuePublished(y) BY <1>1, <1>4 DEF HasVideo, QueuePublished, NamesOf
<1>8. OrderInv(y, out)
  <2>1. \A t : ~Restarts(y, t) => ~Restarts(x, t) BY <1>4, <1>7 DEF Restarts
  <2>2. ASSUME NEW o \in DashFrag, Passed(x, o) PROVE Passed(y, o)
    <3>1. o.group \in Nat /\ o.object \in Nat BY DEF DashFrag
    <3>2. o.group < x.group \/ (o.group = x.group /\ o.object < Get(x.ids, o.track, 0))
      BY <2>2 DEF Passed, NextGroup, NextId
    <3>3. NextGroup(y, o.track) = y.group /\ NextId(y, o.track) = Get(y.ids, o.track, 0)
      BY <1>7 DEF NextGroup, NextId
    <3>4. CASE y.group = x.group
      <4>1. y.ids = x.ids BY <1>1, <1>3, <3>4
      <4> QED BY <3>2, <3>3, <3>4, <4>1 DEF Passed
    <3>5. CASE y.group = x.group + 1
      <4>1. o.group < y.group BY <1>1, <3>1, <3>2, <3>5
      <4> QED BY <3>3, <4>1 DEF Passed
    <3> QED BY <1>5, <3>4, <3>5
  <2> QED BY <1>1, <1>4, <2>1, <2>2, OrderOn
<1>9. ASSUME NEW s \in Seq(DashFrag), Keyed(x, s), NoVideoYet(x, s) PROVE Keyed(y, s)
  <2> SUFFICES ASSUME NEW i \in DOMAIN s, OpensVideo(s[i])
               PROVE  /\ s[i].key /\ s[i].group <= y.group
                      /\ s[i].group = y.group => s[i].time = y.start
    BY DEF Keyed
  <2>1. s[i].group \in Nat
    <3>1. s[i] \in DashFrag BY ElementOfSeq, LenProperties
    <3> QED BY <3>1 DEF DashFrag
  <2>2. /\ s[i].key /\ s[i].group <= x.group
        /\ s[i].group = x.group => s[i].time = x.start
    BY <1>9 DEF Keyed
  <2>3. x.started BY <1>9 DEF NoVideoYet, OpensVideo
  <2> QED BY <1>1, <1>3, <2>1, <2>2, <2>3
<1>10. /\ Keyed(y, out) /\ Keyed(y, y.queue) /\ SameTimes(out, out)
       /\ SameTimes(out, y.queue) /\ SameTimes(y.queue, y.queue)
  BY <1>1, <1>4, <1>9 DEF AlignedInv
<1>11. ASSUME NEW t \in y.inGroup
       PROVE  t = box.track \/ (t \in DOMAIN y.ids /\ y.ids[t] > 0)
  BY <1>1, <1>3 DEF AlignedInv, Joined
<1>12. box.time = y.start BY <1>3
<1>13. Ready(y, out, box) BY <1>3, <1>6, <1>7, <1>8, <1>10, <1>11, <1>12 DEF Ready
<1>14. InGroup(y, box) BY <1>3 DEF InGroup
<1> QED BY <1>3, <1>13, <1>14

\* Fragments of a session with video, one at a time.
LEMMA SharedGroupKeeps ==
    ASSUME scenario \in Scenarios, pack # "loc", NEW x, NEW out, out \in Seq(DashFrag),
           SessionInv(x, out), NEW box \in Moofs, \E t \in x.tracks : t.name = box.track,
           HasVideo(x)
    PROVE  SessionInv(SharedGroup(x, box), out) /\ Grew(x, SharedGroup(x, box))
<1> DEFINE key == box.video /\ box.key
           y == IF key THEN Keyframe(x, box) ELSE x
           id == Get(y.ids, box.track, 0)
           f == Put(y.ids, box.track, id + 1)
           o == Object(box.track, y.group, id, box)
<1>1. /\ SessionTypes(x) /\ QueuePublished(x) /\ OrderInv(x, out) /\ AlignedInv(x, out)
      /\ x.queue \in Seq(DashFrag)
  BY DEF SessionInv, SessionTypes
<1>2. /\ box.track \in NamesOf(x) /\ (VideoName(box.track) <=> box.video)
      /\ box.key \in BOOLEAN /\ box.video \in BOOLEAN
  BY <1>1, TrackFacts
<1>3. Grew(x, x) BY DEF Grew
<1>4. CASE key /\ x.started /\ box.time < x.start
  <2>1. ~OpensGroup(x, box)
    <3>1. box.time \in Nat /\ x.start \in Nat BY <1>1, TrackFacts DEF SessionTypes
    <3> QED BY <1>4, <3>1 DEF OpensGroup
  <2>2. y.started /\ InGroup(y, box)
    BY <1>4, <2>1 DEF Keyframe, InGroup, SessionTypes, SessionFields, SessionInv
  <2>3. SharedGroup(x, box) = x BY <1>4, <2>1, <2>2 DEF SharedGroup
  <2> QED BY <1>3, <2>3
<1>5. CASE ~(key /\ x.started /\ box.time < x.start)
  <2>1. CASE key /\ OpensGroup(x, box) /\ x.group >= scenario.max
    <3>1. SharedGroup(x, box) = FailedAndCleared(x)
      <4>1. Ready(y, out, box) /\ InGroup(y, box) BY <1>5, <2>1, KeyframeReady
      <4>2. ~(~y.started \/ ~InGroup(y, box)) BY <4>1 DEF Ready
      <4> QED BY <1>5, <2>1, <4>2 DEF SharedGroup
    <3> QED BY <3>1, FailedKeeps
  <2>2. CASE ~(key /\ OpensGroup(x, box) /\ x.group >= scenario.max)
    <3>1. CASE ~y.started \/ ~InGroup(y, box)
      <4>1. ~key
        <5>1. ASSUME key PROVE FALSE
          <6>1. Ready(y, out, box) /\ InGroup(y, box) BY <1>5, <5>1, KeyframeReady
          <6> QED BY <3>1, <6>1 DEF Ready
        <5> QED BY <5>1
      <4>2. SharedGroup(x, box) = x BY <3>1, <4>1 DEF SharedGroup
      <4> QED BY <1>3, <4>2
    <3>2. CASE y.started /\ InGroup(y, box)
      <4>1. Ready(y, out, box)
        <5>1. CASE key BY <1>5, <5>1, KeyframeReady
        <5>2. CASE ~key
          <6>1. box.video => Get(x.ids, box.track, 0) > 0
            <7>1. box.video => box.track \in x.inGroup BY <3>2, <5>2 DEF InGroup
            <7> QED BY <1>1, <7>1 DEF AlignedInv, Joined, Get
          <6>2. ~(0 > 0) OBVIOUS
          <6>3. ~(box.video /\ Get(x.ids, box.track, 0) = 0) BY <6>1, <6>2
          <6> QED BY <1>1, <3>2, <5>2, <6>3 DEF AlignedInv, Joined, Ready
        <5> QED BY <5>1, <5>2
      <4>2. \A h \in SessionFields \ {"started", "start", "inGroup", "group", "ids"} : y[h] = x[h]
        <5>1. CASE key BY <1>5, <5>1, KeyframeReady
        <5> QED BY <5>1
      <4>3. SharedGroup(x, box) = Enqueued([y EXCEPT !.ids = f], o) BY <1>5, <2>2, <3>2 DEF SharedGroup
      <4> HIDE DEF y
      <4>4. y.paths = x.paths /\ y.tracks = x.tracks /\ y.frozen = x.frozen /\ y.catalogs = x.catalogs /\ y.dirty = x.dirty
        BY <4>2 DEF SessionFields
      <4> HIDE DEF id
      <4>5. Offered([y EXCEPT !.ids = f], out, o) BY <4>1, <4>4, SharedOffer DEF id
      <4> HIDE DEF o
      <4>6. PICK r : /\ Enqueued([y EXCEPT !.ids = f], o) = [[y EXCEPT !.ids = f] EXCEPT !.queue = r]
                     /\ SessionInv([[y EXCEPT !.ids = f] EXCEPT !.queue = r], out)
        BY <4>5, EnqueuedPlain
      <4>7. Grew(x, [[y EXCEPT !.ids = f] EXCEPT !.queue = r])
        <5>1. DOMAIN y = SessionFields BY <4>1 DEF Ready, SessionTypes
        <5> QED BY <4>4, <5>1 DEF Grew, SessionFields
      <4> QED BY <4>3, <4>6, <4>7
    <3> QED BY <3>1, <3>2
  <2> QED BY <2>1, <2>2
<1> QED BY <1>4, <1>5

\* A session whose encoder of track t has moved on to e; nothing was queued yet.
LEMMA EncoderMoves ==
    ASSUME pack = "loc", NEW x, NEW out, out \in Seq(DashFrag), SessionInv(x, out), NEW t,
           NEW e \in LocState,
           t \in DOMAIN x.loc => \/ x.loc[t].group < e.group
                                 \/ x.loc[t].group = e.group /\ x.loc[t].object <= e.object,
           NEW y, y = [x EXCEPT !.loc = Put(x.loc, t, e)]
    PROVE  /\ SessionTypes(y) /\ QueuePublished(y) /\ OrderInv(y, out) /\ AlignedInv(y, out)
           /\ y.loc[t] = e /\ DOMAIN y.loc = DOMAIN x.loc \cup {t}
           /\ \A u \in DOMAIN x.loc : u # t => y.loc[u] = x.loc[u]
           /\ \A h \in SessionFields \ {"loc"} : y[h] = x[h]
           /\ NamesOf(y) = NamesOf(x) /\ Grew(x, y)
<1> DEFINE f == Put(x.loc, t, e)
<1>1. /\ SessionTypes(x) /\ QueuePublished(x) /\ OrderInv(x, out) /\ x.queue \in Seq(DashFrag)
  BY DEF SessionInv, SessionTypes
<1>2. /\ DOMAIN f = DOMAIN x.loc \cup {t} /\ f[t] = e
      /\ \A u \in DOMAIN x.loc : u # t => f[u] = x.loc[u]
  BY DEF Put
<1>3. /\ DOMAIN y = SessionFields /\ y = [h \in SessionFields |-> y[h]] /\ y.loc = f
      /\ \A h \in SessionFields \ {"loc"} : y[h] = x[h]
  BY <1>1 DEF SessionTypes, SessionFields
<1> HIDE DEF f
<1>4. /\ y.tracks = x.tracks /\ y.ids = x.ids /\ y.next = x.next /\ y.queue = x.queue
      /\ y.group = x.group /\ y.start = x.start /\ y.started = x.started
      /\ y.catalogs = x.catalogs /\ y.inGroup = x.inGroup /\ y.dropped = x.dropped
      /\ y.error = x.error /\ y.closed = x.closed /\ y.frozen = x.frozen
      /\ y.dirty = x.dirty /\ y.paths = x.paths
  BY <1>3 DEF SessionFields
<1>5. SessionTypes(y)
  <2>1. ASSUME NEW u \in DOMAIN f PROVE f[u] \in LocState
    <3>1. CASE u = t BY <1>2, <3>1
    <3>2. CASE u # t
      <4>1. u \in DOMAIN x.loc /\ f[u] = x.loc[u] BY <1>2, <2>1, <3>2
      <4> QED BY <1>1, <4>1 DEF SessionTypes
    <3> QED BY <3>1, <3>2
  <2>2. {y.frozen, y.dirty, y.closed, y.error, y.started} \subseteq BOOLEAN BY <1>1, <1>4 DEF SessionTypes
  <2> QED BY <1>1, <1>3, <1>4, <2>1, <2>2 DEF SessionTypes
<1>6. NamesOf(y) = NamesOf(x) /\ QueuePublished(y) BY <1>1, <1>4 DEF NamesOf, QueuePublished
<1>7. \A u : ~Restarts(y, u) /\ ~Restarts(x, u) BY <1>1, <1>4 DEF Restarts, SessionTypes
<1>8. ASSUME NEW o \in DashFrag, Passed(x, o) PROVE Passed(y, o)
  <2>1. CASE o.track # t BY <1>2, <1>3, <1>8, <2>1 DEF Passed, NextGroup, NextId
  <2>2. CASE o.track = t
    <3>1. o.group \in Nat /\ o.object \in Nat /\ e.group \in Nat /\ e.object \in Nat
      BY DEF DashFrag, LocState
    <3>2. NextGroup(y, t) = e.group /\ NextId(y, t) = e.object BY <1>2, <1>3 DEF NextGroup, NextId
    <3>3. t \in DOMAIN x.loc
      <4>1. t \notin DOMAIN x.loc => NextGroup(x, t) = 0 /\ NextId(x, t) = 0 BY DEF NextGroup, NextId
      <4> QED BY <1>8, <2>2, <3>1, <4>1 DEF Passed
    <3>4. x.loc[t].group \in Nat /\ x.loc[t].object \in Nat BY <1>1, <3>3 DEF SessionTypes, LocState
    <3>5. o.group < x.loc[t].group \/ (o.group = x.loc[t].group /\ o.object < x.loc[t].object)
      BY <1>8, <2>2, <3>3 DEF Passed, NextGroup, NextId
    <3> QED BY <2>2, <3>1, <3>2, <3>3, <3>4, <3>5 DEF Passed
  <2> QED BY <2>1, <2>2
<1>9. OrderInv(y, out) BY <1>1, <1>4, <1>7, <1>8, OrderOn
<1>10. AlignedInv(y, out) BY DEF AlignedInv
<1>11. Grew(x, y) BY <1>4 DEF Grew
<1> QED BY <1>2, <1>3, <1>5, <1>6, <1>9, <1>10, <1>11

\* LocTrackEncoder::encode on one sample.
LEMMA LocEncodedKeeps ==
    ASSUME scenario \in Scenarios, pack = "loc", NEW x, NEW out, out \in Seq(DashFrag),
           SessionInv(x, out), NEW box \in Moofs, \E t \in x.tracks : t.name = box.track, ~x.error
    PROVE  SessionInv(LocEncoded(x, box), out) /\ Grew(x, LocEncoded(x, box))
<1> DEFINE t == box.track
           e == Get(x.loc, t, [started |-> FALSE, wait |-> TRUE, group |-> 0, object |-> 0, due |-> box.time])
           wait == e.wait \/ (box.video /\ box.time # e.due)
           opens == ~e.started \/ ~box.video \/ box.key
           group == IF opens /\ e.started THEN e.group + 1 ELSE e.group
           object == IF opens THEN 0 ELSE e.object
           after == [started |-> TRUE, wait |-> wait /\ ~opens, group |-> group, object |-> object + 1,
                     due |-> box.time + 1]
           skip == [e EXCEPT !.wait = TRUE, !.due = box.time + 1]
           o == Object(t, group, object, box)
           y == [x EXCEPT !.loc = Put(x.loc, t, after)]
           v == [x EXCEPT !.loc = Put(x.loc, t, skip)]
<1>1. /\ SessionTypes(x) /\ QueuePublished(x) /\ OrderInv(x, out) /\ x.queue \in Seq(DashFrag)
      /\ ChainInv(x, out) /\ DOMAIN x.next = {}
  BY DEF SessionInv, SessionTypes
<1>2. /\ t \in NamesOf(x) /\ t # "catalog" /\ box.key \in BOOLEAN /\ box.video \in BOOLEAN
      /\ box.time \in Nat /\ \A g, n \in Nat : Object(t, g, n, box) \in DashFrag
  BY <1>1, TrackFacts
<1>3. /\ e \in [started : BOOLEAN, wait : BOOLEAN, group : Nat, object : Nat, due : Nat]
      /\ e.started \/ e.object = 0
      /\ t \in DOMAIN x.loc => e = x.loc[t]
      /\ t \notin DOMAIN x.loc => ~e.started /\ e.object = 0 /\ e.group = 0
  <2>1. CASE t \in DOMAIN x.loc
    <3>1. e = x.loc[t] BY <2>1 DEF Get
    <3> QED BY <1>1, <2>1, <3>1 DEF SessionTypes, LocState
  <2>2. CASE t \notin DOMAIN x.loc
    <3>1. e = [started |-> FALSE, wait |-> TRUE, group |-> 0, object |-> 0, due |-> box.time]
      BY <2>2 DEF Get
    <3> HIDE DEF e
    <3> QED BY <1>2, <2>2, <3>1
  <2> QED BY <2>1, <2>2
<1>4. LocEncoded(x, box) =
        IF box.time < e.due THEN FailedAndCleared(x)
        ELSE IF box.video /\ wait /\ ~box.key THEN v
        ELSE IF group > scenario.max THEN FailedAndCleared(x)
        ELSE Enqueued(y, o)
  BY DEF LocEncoded
<1> HIDE DEF e
<1>5. skip \in LocState /\ skip.group = e.group /\ skip.object = e.object
  <2> DEFINE Fields == [started : BOOLEAN, wait : BOOLEAN, group : Nat, object : Nat, due : Nat]
  <2>1. e \in Fields /\ box.time + 1 \in Nat BY <1>2, <1>3
  <2>2. /\ skip \in Fields /\ skip.started = e.started
        /\ skip.group = e.group /\ skip.object = e.object
    BY <2>1
  <2> HIDE DEF skip
  <2> QED BY <1>3, <2>2 DEF LocState
<1>6. after \in LocState /\ group \in Nat /\ object \in Nat
  <2>1. group \in Nat /\ object \in Nat BY <1>3
  <2>2. (wait /\ ~opens) \in BOOLEAN OBVIOUS
  <2> HIDE DEF group, object, wait, opens
  <2> QED BY <1>2, <2>1, <2>2 DEF LocState
<1>7. after.group = group /\ after.object = object + 1 OBVIOUS
<1>8. e.group < group \/ (e.group = group /\ e.object <= object) BY <1>3
<1>9. ~opens => group = e.group /\ object = e.object /\ e.started BY <1>3
<1>10. opens => object = 0 OBVIOUS
<1> HIDE DEF skip, after, group, object, opens, wait
<1>11. CASE box.time < e.due BY <1>4, <1>11, FailedKeeps
<1>12. CASE ~(box.time < e.due) /\ box.video /\ wait /\ ~box.key
  <2>1. LocEncoded(x, box) = v BY <1>4, <1>12
  <2>2. t \in DOMAIN x.loc => \/ x.loc[t].group < skip.group
                              \/ x.loc[t].group = skip.group /\ x.loc[t].object <= skip.object
    BY <1>3, <1>5
  <2> HIDE DEF v
  <2>3. /\ SessionTypes(v) /\ QueuePublished(v) /\ OrderInv(v, out) /\ AlignedInv(v, out)
        /\ v.loc[t] = skip /\ DOMAIN v.loc = DOMAIN x.loc \cup {t}
        /\ \A u \in DOMAIN x.loc : u # t => v.loc[u] = x.loc[u]
        /\ \A h \in SessionFields \ {"loc"} : v[h] = x[h]
        /\ NamesOf(v) = NamesOf(x) /\ Grew(x, v)
    BY <1>5, <2>2, EncoderMoves DEF v
  <2>4. v.queue = x.queue /\ v.dropped = x.dropped /\ v.error = x.error BY <2>3 DEF SessionFields
  <2>5. ChainInv(v, out)
    <3>1. \A u \in DOMAIN v.loc : v.loc[u].object > 0 =>
            /\ u \in DOMAIN x.loc /\ x.loc[u].object = v.loc[u].object
            /\ x.loc[u].group = v.loc[u].group
      <4> SUFFICES ASSUME NEW u \in DOMAIN v.loc, v.loc[u].object > 0
                   PROVE  /\ u \in DOMAIN x.loc /\ x.loc[u].object = v.loc[u].object
                          /\ x.loc[u].group = v.loc[u].group
        OBVIOUS
      <4>1. CASE u = t
        <5>1. ~(0 > 0) OBVIOUS
        <5> QED BY <1>3, <1>5, <2>3, <4>1, <5>1
      <4>2. CASE u # t BY <2>3, <4>2
      <4> QED BY <4>1, <4>2
    <3>2. CutGone(v) BY <1>1, <2>4 DEF ChainInv, CutGone
    <3> QED BY <1>1, <2>4, <3>1, <3>2 DEF ChainInv
  <2> QED BY <2>1, <2>3, <2>5 DEF SessionInv
<1>13. CASE ~(box.time < e.due) /\ ~(box.video /\ wait /\ ~box.key) /\ group > scenario.max
  <2>1. LocEncoded(x, box) = FailedAndCleared(x) BY <1>4, <1>13
  <2> QED BY <2>1, FailedKeeps
<1>14. CASE ~(box.time < e.due) /\ ~(box.video /\ wait /\ ~box.key) /\ ~(group > scenario.max)
  <2>1. LocEncoded(x, box) = Enqueued(y, o) BY <1>4, <1>14
  <2>2. t \in DOMAIN x.loc => \/ x.loc[t].group < after.group
                              \/ x.loc[t].group = after.group /\ x.loc[t].object <= after.object
    BY <1>3, <1>6, <1>7, <1>8
  <2> HIDE DEF y
  <2>3. /\ SessionTypes(y) /\ QueuePublished(y) /\ OrderInv(y, out) /\ AlignedInv(y, out)
        /\ y.loc[t] = after /\ DOMAIN y.loc = DOMAIN x.loc \cup {t}
        /\ \A u \in DOMAIN x.loc : u # t => y.loc[u] = x.loc[u]
        /\ \A h \in SessionFields \ {"loc"} : y[h] = x[h]
        /\ NamesOf(y) = NamesOf(x) /\ Grew(x, y)
    BY <1>6, <2>2, EncoderMoves DEF y
  <2>4. /\ y.queue = x.queue /\ y.dropped = x.dropped /\ y.error = x.error /\ y.paths = x.paths
        /\ y.tracks = x.tracks /\ y.frozen = x.frozen /\ y.catalogs = x.catalogs /\ y.dirty = x.dirty
    BY <2>3 DEF SessionFields
  <2>5. o.track = t /\ o.group = group /\ o.object = object /\ o \in DashFrag BY <1>2, <1>6 DEF Object
  <2> HIDE DEF o
  <2>6. ASSUME NEW q \in DashFrag, q.track = t, Passed(x, q) PROVE Precedes(q, o)
    <3>1. q.group \in Nat /\ q.object \in Nat BY DEF DashFrag
    <3>2. t \in DOMAIN x.loc
      <4>1. t \notin DOMAIN x.loc => NextGroup(x, t) = 0 /\ NextId(x, t) = 0 BY DEF NextGroup, NextId
      <4> QED BY <2>6, <3>1, <4>1 DEF Passed
    <3>3. q.group < e.group \/ (q.group = e.group /\ q.object < e.object)
      BY <1>3, <2>6, <3>2 DEF Passed, NextGroup, NextId
    <3> QED BY <1>3, <1>6, <1>8, <2>5, <3>1, <3>3 DEF Precedes
  <2>7. /\ \A i \in DOMAIN out : out[i].track = o.track => Precedes(out[i], o)
        /\ \A i \in DOMAIN y.queue : y.queue[i].track = o.track => Precedes(y.queue[i], o)
    <3>1. ASSUME NEW s \in Seq(DashFrag), AllPassed(x, s), NEW i \in DOMAIN s,
                 s[i].track = o.track
          PROVE  Precedes(s[i], o)
      <4>1. s[i] \in DashFrag BY ElementOfSeq, LenProperties
      <4>2. Passed(x, s[i]) BY <1>1, <1>2, <2>5, <3>1 DEF AllPassed, Restarts
      <4> QED BY <2>5, <2>6, <3>1, <4>1, <4>2
    <3> QED BY <1>1, <2>4, <3>1 DEF OrderInv
  <2>8. Passed(y, o)
    <3>1. NextGroup(y, t) = group /\ NextId(y, t) = object + 1 BY <1>7, <2>3 DEF NextGroup, NextId
    <3> QED BY <1>6, <2>5, <3>1 DEF Passed
  <2>9. Offered(y, out, o) BY <1>2, <2>3, <2>5, <2>7, <2>8 DEF Offered
  <2>10. ChainAsks(y, out, o)
    <3>1. /\ \A i \in DOMAIN out : out[i].object > 0 => \E j \in 1..(i - 1) : Prior(out[j], out[i])
          /\ \A i \in DOMAIN y.queue :
                y.queue[i].object > 0 =>
                    HasPrior(out, y.queue[i]) \/ \E j \in 1..(i - 1) : Prior(y.queue[j], y.queue[i])
      BY <1>1, <2>4 DEF ChainInv
    <3>2. \A u \in DOMAIN y.loc :
            u # o.track /\ y.loc[u].object > 0 =>
                \/ u \in DOMAIN y.dropped /\ y.loc[u].group <= y.dropped[u]
                \/ LET next == [track |-> u, group |-> y.loc[u].group, object |-> y.loc[u].object]
                   IN  HasPrior(out, next) \/ HasPrior(y.queue, next)
      <4>1. \A u \in DOMAIN y.loc : u # t => u \in DOMAIN x.loc /\ y.loc[u] = x.loc[u] BY <2>3
      <4> QED BY <1>1, <2>4, <2>5, <4>1 DEF ChainInv
    <3>3. CutGone(y) BY <1>1, <2>4 DEF ChainInv, CutGone
    <3>4. ASSUME o.object > 0, ~LocLate(y, o) PROVE HasPrior(out, o) \/ HasPrior(y.queue, o)
      <4>1. ~(0 > 0) OBVIOUS
      <4>2. group = e.group /\ object = e.object /\ e.started BY <1>9, <1>10, <2>5, <3>4, <4>1
      <4>3. t \in DOMAIN x.loc /\ x.loc[t].group = o.group /\ x.loc[t].object = o.object BY <1>3, <2>5, <4>2
      <4> DEFINE next == [track |-> t, group |-> x.loc[t].group, object |-> x.loc[t].object]
      <4>4. ~(t \in DOMAIN x.dropped /\ x.loc[t].group <= x.dropped[t])
        BY <2>4, <2>5, <3>4, <4>3 DEF LocLate
      <4>5. HasPrior(out, next) \/ HasPrior(x.queue, next) BY <1>1, <3>4, <4>3, <4>4 DEF ChainInv
      <4>6. next.track = o.track /\ next.group = o.group /\ next.object = o.object BY <2>5, <4>3
      <4> HIDE DEF next
      <4> QED BY <2>4, <4>5, <4>6 DEF HasPrior, Prior
    <3> QED BY <1>7, <2>3, <2>5, <3>1, <3>2, <3>3, <3>4 DEF ChainAsks
  <2>11. PICK r, f : /\ Enqueued(y, o) = [y EXCEPT !.queue = r, !.dropped = f]
                     /\ SessionInv([y EXCEPT !.queue = r, !.dropped = f], out)
    BY <2>4, <2>9, <2>10, EnqueuedLoc
  <2>12. Grew(x, [y EXCEPT !.queue = r, !.dropped = f])
    <3>1. DOMAIN y = SessionFields BY <2>3 DEF SessionTypes
    <3> QED BY <2>4, <3>1 DEF Grew, SessionFields
  <2> QED BY <2>1, <2>11, <2>12
<1> QED BY <1>11, <1>12, <1>13, <1>14

\* The moof of a path is noted, or taken.
LEMMA MoofNoted ==
    ASSUME NEW x, NEW out, SessionInv(x, out), NEW p \in DOMAIN x.paths,
           NEW m \in Moofs \cup {NoBox}, NEW z, z = [x EXCEPT !.paths[p].moof = m]
    PROVE  SessionInv(z, out) /\ Grew(x, z) /\ z.tracks = x.tracks /\ z.error = x.error
<1>1. SessionTypes(x) BY DEF SessionInv
<1>2. /\ DOMAIN z = SessionFields /\ z = [f \in SessionFields |-> z[f]]
      /\ DOMAIN z.paths = DOMAIN x.paths
      /\ \A r \in DOMAIN x.paths : r # p => z.paths[r] = x.paths[r]
      /\ z.paths[p] = [x.paths[p] EXCEPT !.moof = m]
      /\ \A f \in SessionFields \ {"paths"} : z[f] = x[f]
  BY <1>1 DEF SessionTypes, SessionFields
<1>3. SameCounters(x, z) BY <1>2 DEF SameCounters, SessionFields
<1>4. \A r \in DOMAIN z.paths : IsPath(z.paths[r])
  <2>1. IsPath(x.paths[p]) BY <1>1 DEF SessionTypes
  <2>2. IsPath(z.paths[p]) BY <1>2, <2>1 DEF IsPath
  <2> QED BY <1>1, <1>2, <2>2 DEF SessionTypes
<1>5. /\ z.queue = x.queue /\ z.error = x.error /\ z.dropped = x.dropped /\ z.tracks = x.tracks
      /\ z.frozen = x.frozen /\ z.dirty = x.dirty /\ z.closed = x.closed /\ z.catalogs = x.catalogs
  BY <1>2 DEF SessionFields
<1>6. {z.frozen, z.dirty, z.closed, z.error} \subseteq BOOLEAN BY <1>1, <1>5 DEF SessionTypes
<1>7. SessionInv(z, out) BY <1>2, <1>3, <1>4, <1>5, <1>6, CountersKept
<1> QED BY <1>2, <1>5, <1>7 DEF Grew

\* mdat: the fragment of its moof goes to the packager.
LEMMA MediaBoxKeeps ==
    ASSUME scenario \in Scenarios, NEW x, NEW out, out \in Seq(DashFrag), SessionInv(x, out),
           ~x.error, NEW p \in DOMAIN x.paths, NEW box
    PROVE  SessionInv(MediaBox(x, p, box), out) /\ Grew(x, MediaBox(x, p, box))
<1> DEFINE moof == x.paths[p].moof
           y == [x EXCEPT !.paths[p].moof = NoBox]
           published == \E t \in x.tracks : t.name = moof.track
<1>1. /\ SessionInv(y, out) /\ Grew(x, y) /\ y.tracks = x.tracks /\ y.error = x.error BY MoofNoted
<1>2. moof \in Moofs \cup {NoBox} /\ {x.frozen, y.frozen} \subseteq BOOLEAN
  BY <1>1 DEF SessionInv, SessionTypes, IsPath
<1>3. Grew(x, x) BY DEF Grew
<1>4. MediaBox(x, p, box) =
        IF moof = NoBox THEN x
        ELSE IF moof.bad \/ box.bad
        THEN IF pack = "cmaf" THEN y ELSE IF pack = "loc" THEN FailedAndCleared(y) ELSE Failed(y)
        ELSE IF ~published THEN y
        ELSE IF pack = "loc" THEN LocEncoded(y, moof)
        ELSE IF HasVideo(x) THEN SharedGroup(y, moof) ELSE OwnGroup(y, moof)
  BY DEF MediaBox, PathOf
<1> HIDE DEF moof, y
<1>5. CASE moof = NoBox BY <1>3, <1>4, <1>5
<1>6. CASE moof # NoBox /\ (moof.bad \/ box.bad)
  <2>1. /\ SessionInv(Failed(y), out) /\ Grew(x, Failed(y))
        /\ SessionInv(FailedAndCleared(y), out) /\ Grew(x, FailedAndCleared(y))
    <3>1. /\ SessionInv(Failed(y), out) /\ Grew(y, Failed(y))
          /\ SessionInv(FailedAndCleared(y), out) /\ Grew(y, FailedAndCleared(y))
      BY <1>1, FailedKeeps
    <3> QED BY <1>1, <1>2, <3>1, GrewOn
  <2> QED BY <1>1, <1>4, <1>6, <2>1
<1>7. CASE moof # NoBox /\ ~(moof.bad \/ box.bad) /\ ~published BY <1>1, <1>4, <1>7
<1>8. CASE moof # NoBox /\ ~(moof.bad \/ box.bad) /\ published
  <2>1. moof \in Moofs /\ \E t \in y.tracks : t.name = moof.track BY <1>1, <1>2, <1>8
  <2>2. HasVideo(y) <=> HasVideo(x) BY <1>1 DEF HasVideo
  <2>3. CASE pack = "loc"
    <3>1. SessionInv(LocEncoded(y, moof), out) /\ Grew(y, LocEncoded(y, moof))
      BY <1>1, <2>1, <2>3, LocEncodedKeeps
    <3> QED BY <1>1, <1>2, <1>4, <1>8, <2>3, <3>1, GrewOn
  <2>4. CASE pack # "loc" /\ HasVideo(x)
    <3>1. SessionInv(SharedGroup(y, moof), out) /\ Grew(y, SharedGroup(y, moof))
      BY <1>1, <2>1, <2>2, <2>4, SharedGroupKeeps
    <3> QED BY <1>1, <1>2, <1>4, <1>8, <2>4, <3>1, GrewOn
  <2>5. CASE pack # "loc" /\ ~HasVideo(x)
    <3>1. SessionInv(OwnGroup(y, moof), out) /\ Grew(y, OwnGroup(y, moof))
      BY <1>1, <2>1, <2>2, <2>5, OwnGroupKeeps
    <3> QED BY <1>1, <1>2, <1>4, <1>8, <2>5, <3>1, GrewOn
  <2> QED BY <2>3, <2>4, <2>5
<1> QED BY <1>5, <1>6, <1>7, <1>8

\* Any box.
LEMMA ProcessedKeeps ==
    ASSUME scenario \in Scenarios, NEW x, NEW out, out \in Seq(DashFrag), SessionInv(x, out),
           ~x.error, NEW p \in DOMAIN x.paths, NEW box \in Boxes
    PROVE  SessionInv(Processed(x, p, box), out) /\ Grew(x, Processed(x, p, box))
<1>1. x.paths[p].initialized \in BOOLEAN BY DEF SessionInv, SessionTypes, IsPath
<1>2. Grew(x, x) BY DEF Grew
<1>3. CASE box.type \in {"ftyp", "moov"}
  <2>1. Processed(x, p, box) = InitBox(x, p, box) BY <1>3 DEF Processed
  <2> QED BY <2>1, InitBoxKeeps
<1>4. CASE box.type \in {"moof", "mdat"} /\ ~x.paths[p].initialized
  <2>1. Processed(x, p, box) = x BY <1>4 DEF Processed, PathOf
  <2> QED BY <1>2, <2>1
<1>5. CASE box.type = "moof" /\ x.paths[p].initialized
  <2>1. Processed(x, p, box) = [x EXCEPT !.paths[p].moof = box] BY <1>5 DEF Processed, PathOf
  <2>2. box \in Moofs BY <1>5 DEF Moofs
  <2> QED BY <2>1, <2>2, MoofNoted
<1>6. CASE box.type \notin {"ftyp", "moov", "moof"} /\ ~(box.type = "mdat" /\ ~x.paths[p].initialized)
  <2>1. Processed(x, p, box) = MediaBox(x, p, box) BY <1>6 DEF Processed, PathOf
  <2> QED BY <2>1, MediaBoxKeeps
<1> QED BY <1>1, <1>3, <1>4, <1>5, <1>6

\* The boxes of one recv, in order, until one fails the session.
LEMMA IngestedKeeps ==
    ASSUME scenario \in Scenarios, NEW x, NEW out, out \in Seq(DashFrag), SessionInv(x, out),
           NEW p, NEW boxes \in Seq(Boxes)
    PROVE  SessionInv(Ingested(x, p, boxes), out) /\ Grew(x, Ingested(x, p, boxes))
<1> DEFINE known == IF p \in DOMAIN x.paths THEN x
                    ELSE [x EXCEPT !.paths = Put(@, p, [tracks |-> {}, initialized |-> FALSE,
                                                        moof |-> NoBox])]
           One(z, n) == IF z.error THEN z ELSE Processed(z, p, boxes[n])
           IsRun(f, n) == f = [k \in 0..n |-> IF k = 0 THEN known ELSE One(f[k - 1], k)]
           L == Len(boxes)
<1>1. L \in Nat /\ \A n \in 1..L : boxes[n] \in Boxes BY LenProperties, ElementOfSeq
<1>2. SessionTypes(x) /\ Grew(x, x) /\ x.frozen \in BOOLEAN BY DEF SessionInv, SessionTypes, Grew
<1>3. SessionInv(known, out) /\ Grew(x, known) /\ p \in DOMAIN known.paths
  <2>1. CASE p \in DOMAIN x.paths BY <1>2, <2>1
  <2>2. CASE p \notin DOMAIN x.paths
    <3> DEFINE new == [tracks |-> {}, initialized |-> FALSE, moof |-> NoBox]
               f == Put(x.paths, p, new)
               z == [x EXCEPT !.paths = f]
    <3>1. known = z BY <2>2
    <3>2. IsPath(new) BY DEF IsPath
    <3>3. DOMAIN f = DOMAIN x.paths \cup {p} /\ f[p] = new /\ \A r \in DOMAIN x.paths : f[r] = x.paths[r]
      BY <2>2 DEF Put
    <3> HIDE DEF new, f
    <3>4. /\ DOMAIN z = SessionFields /\ z = [h \in SessionFields |-> z[h]] /\ z.paths = f
          /\ \A h \in SessionFields \ {"paths"} : z[h] = x[h]
      BY <1>2 DEF SessionTypes, SessionFields
    <3> HIDE DEF z, known
    <3>5. SameCounters(x, z) BY <3>4 DEF SameCounters, SessionFields
    <3>6. /\ z.queue = x.queue /\ z.error = x.error /\ z.dropped = x.dropped /\ z.tracks = x.tracks
          /\ z.frozen = x.frozen /\ z.dirty = x.dirty /\ z.closed = x.closed /\ z.catalogs = x.catalogs
      BY <3>4 DEF SessionFields
    <3>7. {z.frozen, z.dirty, z.closed, z.error} \subseteq BOOLEAN BY <1>2, <3>6 DEF SessionTypes
    <3>8. \A r \in DOMAIN z.paths : IsPath(z.paths[r]) BY <1>2, <3>2, <3>3, <3>4 DEF SessionTypes
    <3>9. SessionInv(z, out) BY <3>4, <3>5, <3>6, <3>7, <3>8, CountersKept
    <3>10. Grew(x, z) BY <3>3, <3>4, <3>6 DEF Grew
    <3> QED BY <3>1, <3>3, <3>4, <3>9, <3>10
  <2> QED BY <2>1, <2>2
<1>4. Ingested(x, p, boxes) =
        IF x.error \/ (p \notin DOMAIN x.paths /\ x.frozen) THEN x
        ELSE (CHOOSE f : IsRun(f, L))[L]
  BY DEF Ingested
<1> HIDE DEF known, One
<1>5. \E f : IsRun(f, L)
  <2> DEFINE G == {n \in Nat : \E f : IsRun(f, n)}
  <2>1. 0 \in G
    <3>1. IsRun([k \in 0..0 |-> known], 0) OBVIOUS
    <3> QED BY <3>1
  <2>2. ASSUME NEW n \in Nat, n \in G PROVE n + 1 \in G
    <3>1. PICK f : IsRun(f, n) BY <2>2
    <3> DEFINE g == [k \in 0..(n + 1) |-> IF k = n + 1 THEN One(f[n], n + 1) ELSE f[k]]
    <3>2. /\ DOMAIN f = 0..n
          /\ \A k \in 0..n : f[k] = IF k = 0 THEN known ELSE One(f[k - 1], k)
      BY <3>1
    <3>3. ASSUME NEW k \in 0..(n + 1)
          PROVE  g[k] = IF k = 0 THEN known ELSE One(g[k - 1], k)
      <4>1. CASE k = n + 1
        <5>1. k - 1 = n /\ n \in 0..(n + 1) /\ n # n + 1 /\ k # 0 BY <4>1
        <5>2. g[k] = One(f[n], n + 1) /\ g[n] = f[n] BY <4>1, <5>1
        <5> QED BY <4>1, <5>1, <5>2
      <4>2. CASE k # n + 1
        <5>1. k \in 0..n /\ (k # 0 => k - 1 \in 0..(n + 1) /\ k - 1 # n + 1) BY <4>2
        <5>2. g[k] = f[k] /\ (k # 0 => g[k - 1] = f[k - 1]) BY <4>2, <5>1
        <5> QED BY <3>2, <5>1, <5>2
      <4> QED BY <4>1, <4>2
    <3>4. g = [k \in 0..(n + 1) |-> g[k]] OBVIOUS
    <3> HIDE DEF g
    <3>5. IsRun(g, n + 1) BY <3>3, <3>4
    <3> QED BY <3>5
  <2> HIDE DEF G
  <2>3. L \in G BY <1>1, <2>1, <2>2, NatSetInduction
  <2> QED BY <2>3 DEF G
<1> DEFINE run == CHOOSE f : IsRun(f, L)
<1>6. IsRun(run, L) BY <1>5
<1> HIDE DEF run
<1>7. \A k \in 0..L : run[k] = IF k = 0 THEN known ELSE One(run[k - 1], k) BY <1>6
<1>8. \A n \in Nat : n <= L => SessionInv(run[n], out) /\ Grew(x, run[n]) /\ p \in DOMAIN run[n].paths
  <2> DEFINE G == {n \in Nat : n <= L => /\ SessionInv(run[n], out) /\ Grew(x, run[n])
                                         /\ p \in DOMAIN run[n].paths}
  <2>1. 0 \in G
    <3>1. run[0] = known BY <1>1, <1>7
    <3> QED BY <1>3, <3>1
  <2>2. ASSUME NEW n \in Nat, n \in G, n + 1 <= L
        PROVE  /\ SessionInv(run[n + 1], out) /\ Grew(x, run[n + 1])
               /\ p \in DOMAIN run[n + 1].paths
    <3>1. SessionInv(run[n], out) /\ Grew(x, run[n]) /\ p \in DOMAIN run[n].paths BY <1>1, <2>2
    <3>2. n + 1 \in 0..L /\ n + 1 # 0 /\ (n + 1) - 1 = n /\ n + 1 \in 1..L BY <1>1, <2>2
    <3>3. run[n + 1] = One(run[n], n + 1) BY <1>7, <3>2
    <3>4. CASE run[n].error BY <3>1, <3>3, <3>4 DEF One
    <3>5. CASE ~run[n].error
      <4>1. run[n + 1] = Processed(run[n], p, boxes[n + 1]) BY <3>3, <3>5 DEF One
      <4>2. SessionInv(run[n + 1], out) /\ Grew(run[n], run[n + 1])
        BY <1>1, <3>1, <3>2, <3>5, <4>1, ProcessedKeeps
      <4>3. run[n].frozen \in BOOLEAN BY <3>1 DEF SessionInv, SessionTypes
      <4>4. Grew(x, run[n + 1]) BY <1>2, <3>1, <4>2, <4>3, GrewOn
      <4>5. p \in DOMAIN run[n + 1].paths BY <3>1, <4>2 DEF Grew
      <4> QED BY <4>2, <4>4, <4>5
    <3> QED BY <3>4, <3>5
  <2>3. \A n \in Nat : n \in G => n + 1 \in G BY <2>2
  <2>4. \A n \in Nat : n \in G
    <3> HIDE DEF G
    <3> QED BY <2>1, <2>3, NatSetInduction
  <2> QED BY <2>4
<1>9. SessionInv(run[L], out) /\ Grew(x, run[L]) BY <1>1, <1>8
<1> QED BY <1>2, <1>4, <1>9 DEF run

(* ---- the threads ---- *)

\* What is said of a session depends on the scenario, which stays.
LEMMA SameScenario ==
    ASSUME scenario' = scenario, NEW x, NEW out
    PROVE  SessionInv(x, out)' <=> SessionInv(x, out)
<1>1. pack' = pack /\ Boxes' = Boxes BY DEF pack, Boxes
<1>2. Moofs' = Moofs BY <1>1 DEF Moofs
<1>3. DashFrag' = DashFrag /\ \A n : VideoName(n)' <=> VideoName(n) BY <1>2 DEF DashFrag, VideoName
<1>4. SessionTypes(x)' <=> SessionTypes(x) BY <1>1, <1>2, <1>3 DEF SessionTypes, IsPath
<1>5. OrderInv(x, out)' <=> OrderInv(x, out)
  <2>1. \A o : Passed(x, o)' <=> Passed(x, o) BY <1>1 DEF Passed, NextGroup, NextId
  <2> QED BY <2>1 DEF OrderInv, Climbs, Before, AllPassed
<1>6. AlignedInv(x, out)' <=> AlignedInv(x, out)
  <2>1. \A o : OpensVideo(o)' <=> OpensVideo(o) BY <1>3 DEF OpensVideo
  <2> QED BY <1>1, <1>3, <2>1 DEF AlignedInv, Keyed, SameTimes, NoVideoYet
<1>7. ChainInv(x, out)' <=> ChainInv(x, out) BY <1>1 DEF ChainInv
<1> QED BY <1>4, <1>5, <1>6, <1>7 DEF SessionInv

\* So what holds of the next session now holds after the step.
LEMMA SessionStays ==
    ASSUME scenario' = scenario, SessionInv(d', main'.out)
    PROVE  SessionInv(d, main.out)'
  BY SameScenario

\* What comes out of the body of an upload are boxes of it.
LEMMA FedBoxes ==
    ASSUME scenario \in Scenarios, NEW w \in Uploads, NEW n \in Nat, worker[w].read \in Nat,
           worker[w].read + n <= Len(Upload(w).wire)
    PROVE  Fed(w, n).boxes \in Seq(Boxes)
<1> DEFINE u == Upload(w)
           r == worker[w].read
           tokens == SubSeq(u.wire, r + 1, r + n)
           Out(s, k) == IF s.state = "data" THEN Append(s.boxes, tokens[k]) ELSE s.boxes
           After(s, k) == [state |-> Decoded(s.state, tokens[k]), boxes |-> Out(s, k)]
           first == [state |-> worker[w].state, boxes |-> <<>>]
           IsRun(f, m) == f = [k \in 0..m |-> IF k = 0 THEN first ELSE After(f[k - 1], k)]
<1>1. u.wire \in Seq(Boxes) BY BoxFacts
<1> HIDE DEF u
<1>2. tokens \in Seq(Boxes) /\ Len(tokens) = n
  <2>1. Len(u.wire) \in Nat BY <1>1, LenProperties
  <2>2. \A i \in (r + 1)..(r + n) : u.wire[i] \in Boxes
    <3>1. \A i \in (r + 1)..(r + n) : i \in 1..Len(u.wire) BY <2>1 DEF u
    <3> QED BY <1>1, <3>1, ElementOfSeq
  <2>3. r + 1 \in Int /\ r + n \in Int OBVIOUS
  <2> HIDE DEF r
  <2>4. tokens \in Seq(Boxes) /\ Len(tokens) = IF r + 1 <= r + n THEN (r + n) - (r + 1) + 1 ELSE 0
    BY <2>2, <2>3, SubSeqProperties
  <2>5. (IF r + 1 <= r + n THEN (r + n) - (r + 1) + 1 ELSE 0) = n BY DEF r
  <2> QED BY <2>4, <2>5
<1>3. Fed(w, n) = IF u.http = "chunked" THEN (CHOOSE f : IsRun(f, n))[n]
                  ELSE [state |-> IF r + n = Len(u.wire) THEN "complete" ELSE "size", boxes |-> tokens]
  BY DEF Fed, u
<1> HIDE DEF tokens, r, first
<1>4. \A k \in 1..n : tokens[k] \in Boxes BY <1>2, ElementOfSeq
<1>5. first.boxes = <<>> BY DEF first
<1> HIDE DEF After
<1>6. \E f : IsRun(f, n)
  <2> DEFINE G == {m \in Nat : \E f : IsRun(f, m)}
  <2>1. 0 \in G
    <3>1. IsRun([k \in 0..0 |-> first], 0) OBVIOUS
    <3> QED BY <3>1
  <2>2. ASSUME NEW m \in Nat, m \in G PROVE m + 1 \in G
    <3>1. PICK f : IsRun(f, m) BY <2>2
    <3> DEFINE g == [k \in 0..(m + 1) |-> IF k = m + 1 THEN After(f[m], m + 1) ELSE f[k]]
    <3>2. /\ DOMAIN f = 0..m
          /\ \A k \in 0..m : f[k] = IF k = 0 THEN first ELSE After(f[k - 1], k)
      BY <3>1
    <3>3. ASSUME NEW k \in 0..(m + 1)
          PROVE  g[k] = IF k = 0 THEN first ELSE After(g[k - 1], k)
      <4>1. CASE k = m + 1
        <5>1. k - 1 = m /\ m \in 0..(m + 1) /\ m # m + 1 /\ k # 0 BY <4>1
        <5>2. g[k] = After(f[m], m + 1) /\ g[m] = f[m] BY <4>1, <5>1
        <5> QED BY <4>1, <5>1, <5>2
      <4>2. CASE k # m + 1
        <5>1. k \in 0..m /\ (k # 0 => k - 1 \in 0..(m + 1) /\ k - 1 # m + 1) BY <4>2
        <5>2. g[k] = f[k] /\ (k # 0 => g[k - 1] = f[k - 1]) BY <4>2, <5>1
        <5> QED BY <3>2, <5>1, <5>2
      <4> QED BY <4>1, <4>2
    <3>4. g = [k \in 0..(m + 1) |-> g[k]] OBVIOUS
    <3> HIDE DEF g
    <3>5. IsRun(g, m + 1) BY <3>3, <3>4
    <3> QED BY <3>5
  <2> HIDE DEF G
  <2>3. n \in G BY <2>1, <2>2, NatSetInduction
  <2> QED BY <2>3 DEF G
<1> DEFINE run == CHOOSE f : IsRun(f, n)
<1>7. IsRun(run, n) BY <1>6
<1> HIDE DEF run
<1>8. \A k \in 0..n : run[k] = IF k = 0 THEN first ELSE After(run[k - 1], k) BY <1>7
<1>9. run[n].boxes \in Seq(Boxes)
  <2> DEFINE G == {m \in Nat : m <= n => run[m].boxes \in Seq(Boxes)}
  <2>1. 0 \in G
    <3>1. run[0].boxes = <<>> BY <1>5, <1>8
    <3> QED BY <3>1, EmptySeq
  <2>2. ASSUME NEW m \in Nat, m \in G, m + 1 <= n PROVE run[m + 1].boxes \in Seq(Boxes)
    <3>1. run[m].boxes \in Seq(Boxes) BY <2>2
    <3>2. m + 1 \in 0..n /\ m + 1 # 0 /\ (m + 1) - 1 = m /\ m + 1 \in 1..n BY <2>2
    <3>3. run[m + 1] = After(run[m], m + 1) BY <1>8, <3>2
    <3>4. run[m + 1].boxes = Out(run[m], m + 1) BY <3>3 DEF After
    <3>5. tokens[m + 1] \in Boxes BY <1>4, <3>2
    <3> QED BY <3>1, <3>4, <3>5, AppendProperties
  <2>3. \A m \in Nat : m \in G => m + 1 \in G BY <2>2
  <2>4. \A m \in Nat : m \in G
    <3> HIDE DEF G
    <3> QED BY <2>1, <2>3, NatSetInduction
  <2> QED BY <2>4
<1>10. CASE u.http = "chunked" BY <1>3, <1>9, <1>10 DEF run
<1>11. CASE u.http # "chunked" BY <1>2, <1>3, <1>11
<1> QED BY <1>10, <1>11

\* A step that only lets the session grow and hands nothing over.
LEMMA SessionGrows ==
    ASSUME ObjectsInv, scenario' = scenario, SessionInv(d', main'.out), Grew(d, d'),
           \A w \in Uploads : worker'[w].read \in Nat,
           main'.out = main.out, main'.announced = main.announced,
           main'.pc \in {"next", "finished"} => main.pc \in {"next", "finished"},
           main'.pc = "source" => main.pc = "source" \/ d.tracks # {}
    PROVE  ObjectsInv'
<1>1. SessionInv(d, main.out)' BY SessionStays
<1>2. SourceTaken BY DEF ObjectsInv
<1>3. /\ d'.frozen = d.frozen /\ d.tracks \subseteq d'.tracks
      /\ d.frozen => d'.tracks = d.tracks
      /\ d.dirty \/ d'.tracks # d.tracks => d'.dirty
  BY DEF Grew
<1>4. d.frozen => NamesOf(d)' = NamesOf(d) BY <1>3 DEF NamesOf
<1>5. SourceTaken'
  <2>1. \/ d'.frozen /\ main'.announced = NamesOf(d)'
        \/ ~d'.frozen /\ main'.out = <<>> /\ main'.pc \notin {"next", "finished"}
    BY <1>2, <1>3, <1>4 DEF SourceTaken
  <2>2. main'.out = <<>> /\ d'.tracks # {} => d'.dirty BY <1>2, <1>3 DEF SourceTaken
  <2>3. main'.pc \in {"source", "next", "finished"} => d'.tracks # {} BY <1>2, <1>3 DEF SourceTaken
  <2>4. \A i \in DOMAIN main'.out :
          /\ main'.out[i].track \in main'.announced \cup {"catalog"}
          /\ i = 1 => main'.out[i].track = "catalog"
    BY <1>2 DEF SourceTaken
  <2> QED BY <2>1, <2>2, <2>3, <2>4 DEF SourceTaken
<1>6. DashFrag' = DashFrag /\ Uploads' = Uploads
  <2>1. Moofs' = Moofs BY DEF Moofs, Boxes
  <2> QED BY <2>1 DEF DashFrag, Uploads
<1> QED BY <1>1, <1>5, <1>6 DEF ObjectsInv

\* source() announces the tracks and freezes them.
LEMMA TakeSourceGrows ==
    ASSUME ObjectsInv, DashInv, TakeSource
    PROVE  ObjectsInv'
<1>1. /\ SessionInv(d, main.out) /\ SessionTypes(d) /\ SourceTaken
      /\ main.pc = "source" /\ d' = [d EXCEPT !.frozen = TRUE]
      /\ scenario' = scenario /\ worker' = worker
  BY DEF ObjectsInv, SessionInv, TakeSource
<1>2. /\ main'.pc = "next" /\ main'.announced = NamesOf(d) /\ main'.out = main.out
  BY DEF TakeSource, DashInv, ThreadTypes, NamesOf
<1> DEFINE z == [d EXCEPT !.frozen = TRUE]
<1>3. /\ DOMAIN z = SessionFields /\ z = [f \in SessionFields |-> z[f]] /\ z.frozen = TRUE
      /\ \A f \in SessionFields \ {"frozen"} : z[f] = d[f]
  BY <1>1 DEF SessionTypes, SessionFields
<1>4. d' = z BY <1>1
<1> HIDE DEF z
<1>5. SameCounters(d, z) BY <1>3 DEF SameCounters, SessionFields
<1>6. /\ z.queue = d.queue /\ z.error = d.error /\ z.dropped = d.dropped /\ z.tracks = d.tracks
      /\ z.paths = d.paths /\ z.dirty = d.dirty /\ z.closed = d.closed
  BY <1>3 DEF SessionFields
<1>7. {z.frozen, z.dirty, z.closed, z.error} \subseteq BOOLEAN BY <1>1, <1>3, <1>6 DEF SessionTypes
<1>8. \A p \in DOMAIN z.paths : IsPath(z.paths[p]) BY <1>1, <1>6 DEF SessionTypes
<1>9. SessionInv(z, main.out) BY <1>1, <1>3, <1>5, <1>6, <1>7, <1>8, CountersKept
<1>10. SessionInv(d, main.out)' BY <1>1, <1>2, <1>4, <1>9, SessionStays
<1>11. d'.tracks = d.tracks /\ d'.frozen = TRUE /\ d'.dirty = d.dirty /\ NamesOf(d)' = NamesOf(d)
  BY <1>3, <1>4, <1>6 DEF NamesOf
<1>12. SourceTaken'
  <2>1. ASSUME NEW i \in DOMAIN main.out
        PROVE  /\ main.out[i].track \in NamesOf(d) \cup {"catalog"}
               /\ i = 1 => main.out[i].track = "catalog"
    <3>1. main.out # <<>> BY <2>1
    <3> QED BY <1>1, <3>1 DEF SourceTaken
  <2>2. main.out = <<>> /\ d.tracks # {} => d.dirty BY <1>1 DEF SourceTaken
  <2>3. d.tracks # {} BY <1>1 DEF SourceTaken
  <2> QED BY <1>2, <1>11, <2>1, <2>2, <2>3 DEF SourceTaken
<1>13. DashFrag' = DashFrag /\ Uploads' = Uploads
  <2>1. Moofs' = Moofs BY <1>1 DEF Moofs, Boxes
  <2> QED BY <1>1, <2>1 DEF DashFrag, Uploads
<1> QED BY <1>1, <1>2, <1>10, <1>12, <1>13 DEF ObjectsInv

\* A catalog goes out: the next of its track, and of no other.
LEMMA CatalogGoesOut ==
    ASSUME scenario \in Scenarios, NEW x, NEW out, out \in Seq(DashFrag), SessionInv(x, out),
           NEW z, z = [x EXCEPT !.dirty = FALSE, !.catalogs = x.catalogs + 1],
           NEW s, s = Append(out, Catalog(x))
    PROVE  SessionInv(z, s) /\ s \in Seq(DashFrag)
<1> DEFINE o == Catalog(x)
           n == Len(out) + 1
           q == x.queue
<1>1. /\ SessionTypes(x) /\ QueuePublished(x) /\ OrderInv(x, out) /\ AlignedInv(x, out)
      /\ ChainInv(x, out) /\ q \in Seq(DashFrag) /\ x.catalogs \in Nat
  BY DEF SessionInv, SessionTypes
<1>2. /\ DOMAIN z = SessionFields /\ z = [f \in SessionFields |-> z[f]]
      /\ z.dirty = FALSE /\ z.catalogs = x.catalogs + 1
      /\ \A f \in SessionFields \ {"dirty", "catalogs"} : z[f] = x[f]
  BY <1>1 DEF SessionTypes, SessionFields
<1>3. /\ z.tracks = x.tracks /\ z.next = x.next /\ z.loc = x.loc /\ z.ids = x.ids
      /\ z.group = x.group /\ z.start = x.start /\ z.started = x.started
      /\ z.inGroup = x.inGroup /\ z.queue = q /\ z.dropped = x.dropped
      /\ z.error = x.error /\ z.closed = x.closed /\ z.frozen = x.frozen /\ z.paths = x.paths
  BY <1>2 DEF SessionFields
<1>4. o.track = "catalog" /\ o.group = x.catalogs /\ o.object = 0 /\ o \in DashFrag
  BY <1>1 DEF Catalog, DashFrag
<1> HIDE DEF o
<1>5. /\ s \in Seq(DashFrag) /\ Len(out) \in Nat
      /\ DOMAIN out = 1..Len(out) /\ DOMAIN s = 1..n
      /\ s[n] = o /\ \A i \in DOMAIN out : s[i] = out[i] /\ i \in DOMAIN s
      /\ \A i \in DOMAIN s : i \in DOMAIN out \/ i = n
  BY <1>4, Appended DEF o
<1> HIDE DEF q
<1>6. SessionTypes(z)
  <2>1. {z.frozen, z.dirty, z.closed, z.error, z.started} \subseteq BOOLEAN
    BY <1>1, <1>2, <1>3 DEF SessionTypes
  <2>2. z.catalogs \in Nat /\ z.queue \in Seq(DashFrag) BY <1>1, <1>2, <1>3
  <2>3. DOMAIN z = SessionFields /\ z = [f \in SessionFields |-> z[f]] BY <1>2
  <2> QED BY <1>1, <1>3, <2>1, <2>2, <2>3 DEF SessionTypes
<1>7. NamesOf(z) = NamesOf(x) /\ QueuePublished(z) BY <1>1, <1>3 DEF NamesOf, QueuePublished, q
<1>8. \A i \in DOMAIN q : q[i].track # "catalog"
  <2>1. \A t \in x.tracks : t.name # "catalog"
    <3>1. x.tracks \subseteq UNION {b.tracks : b \in Boxes} BY <1>1 DEF SessionTypes
    <3> QED BY <3>1, BoxFacts
  <2> QED BY <1>1, <2>1 DEF QueuePublished, NamesOf, q
<1>9. HasVideo(z) <=> HasVideo(x) BY <1>3 DEF HasVideo
<1>10. \A t : Restarts(z, t) <=> Restarts(x, t) BY <1>3, <1>9 DEF Restarts
<1>11. \A f : Passed(z, f) <=> Passed(x, f) BY <1>3, <1>9 DEF Passed, NextGroup, NextId
<1>12. Climbs(z, s)
  <2> SUFFICES ASSUME NEW i \in DOMAIN s, NEW j \in DOMAIN s, i < j,
                      s[i].track = s[j].track, ~Restarts(z, s[i].track)
               PROVE  Precedes(s[i], s[j])
    BY DEF Climbs
  <2>1. i \in DOMAIN out /\ s[i] = out[i] BY <1>5
  <2>2. CASE j \in DOMAIN out BY <1>1, <1>5, <1>10, <2>1, <2>2 DEF OrderInv, Climbs
  <2>3. CASE j = n BY <1>1, <1>4, <1>5, <2>1, <2>3 DEF OrderInv, AllPassed, Precedes
  <2> QED BY <1>5, <2>2, <2>3
<1>13. Before(z, s, q)
  <2> SUFFICES ASSUME NEW i \in DOMAIN s, NEW j \in DOMAIN q,
                      s[i].track = q[j].track, ~Restarts(z, s[i].track)
               PROVE  Precedes(s[i], q[j])
    BY DEF Before
  <2>1. i # n BY <1>4, <1>5, <1>8
  <2>2. i \in DOMAIN out /\ s[i] = out[i] BY <1>5, <2>1
  <2> QED BY <1>1, <1>10, <2>2 DEF OrderInv, Before, q
<1>14. AllPassed(z, s) /\ AllPassed(z, q) /\ Climbs(z, q)
  <2>1. ASSUME NEW r \in Seq(DashFrag), AllPassed(x, r) PROVE AllPassed(z, r)
    <3>1. \A i \in DOMAIN r : r[i].group \in Nat
      <4>1. \A i \in DOMAIN r : r[i] \in DashFrag BY ElementOfSeq, LenProperties
      <4> QED BY <4>1 DEF DashFrag
    <3> QED BY <1>1, <1>2, <1>10, <1>11, <2>1, <3>1 DEF AllPassed
  <2>2. AllPassed(z, out) /\ AllPassed(z, q) BY <1>1, <2>1 DEF OrderInv, q
  <2>3. AllPassed(z, s) BY <1>1, <1>2, <1>4, <1>5, <2>2 DEF AllPassed
  <2>4. Climbs(z, q) BY <1>1, <1>10 DEF OrderInv, Climbs, q
  <2> QED BY <2>2, <2>3, <2>4
<1>15. OrderInv(z, s) BY <1>3, <1>12, <1>13, <1>14 DEF OrderInv
<1>16. AlignedInv(z, s)
  <2> SUFFICES ASSUME pack # "loc"
               PROVE  /\ Keyed(z, s) /\ Keyed(z, q) /\ Joined(z)
                      /\ SameTimes(s, s) /\ SameTimes(s, q) /\ SameTimes(q, q)
                      /\ NoVideoYet(z, s) /\ NoVideoYet(z, q)
    BY <1>3 DEF AlignedInv
  <2>1. ~VideoName(o.track) /\ ~OpensVideo(o) BY <1>4 DEF OpensVideo, VideoName
  <2>2. /\ Keyed(x, out) /\ Keyed(x, q) /\ Joined(x) /\ NoVideoYet(x, out) /\ NoVideoYet(x, q)
        /\ SameTimes(out, out) /\ SameTimes(out, q) /\ SameTimes(q, q)
    BY <1>1 DEF AlignedInv, q
  <2>3. Keyed(z, s) /\ Keyed(z, q) /\ Joined(z) BY <1>3, <1>5, <2>1, <2>2 DEF Keyed, Joined
  <2>4. NoVideoYet(z, s) /\ NoVideoYet(z, q) BY <1>3, <1>5, <2>1, <2>2 DEF NoVideoYet
  <2>5. SameTimes(s, s) /\ SameTimes(s, q) BY <1>5, <2>1, <2>2 DEF SameTimes
  <2> QED BY <2>2, <2>3, <2>4, <2>5
<1>17. ChainInv(z, s)
  <2> SUFFICES ASSUME pack = "loc" PROVE ChainInv(z, s) BY DEF ChainInv
  <2>1. \A f : HasPrior(out, f) => HasPrior(s, f) BY <1>5 DEF HasPrior
  <2>2. \A i \in DOMAIN s : s[i].object > 0 => \E j \in 1..(i - 1) : Prior(s[j], s[i])
    <3> SUFFICES ASSUME NEW i \in DOMAIN s, s[i].object > 0
                 PROVE  \E j \in 1..(i - 1) : Prior(s[j], s[i])
      OBVIOUS
    <3>1. i # n BY <1>4, <1>5
    <3>2. i \in DOMAIN out /\ s[i] = out[i] BY <1>5, <3>1
    <3>3. PICK j \in 1..(i - 1) : Prior(out[j], out[i]) BY <1>1, <3>2 DEF ChainInv
    <3>4. j \in DOMAIN out BY <1>5, <3>2
    <3> QED BY <1>5, <3>2, <3>3, <3>4
  <2>3. CutGone(z) BY <1>1, <1>3 DEF ChainInv, CutGone, q
  <2>4. \A i \in DOMAIN z.queue :
          z.queue[i].object > 0 =>
              HasPrior(s, z.queue[i]) \/ \E j \in 1..(i - 1) : Prior(z.queue[j], z.queue[i])
    BY <1>1, <1>3, <2>1 DEF ChainInv, q
  <2>5. ~z.error => \A t \in DOMAIN z.loc :
          z.loc[t].object > 0 =>
              \/ t \in DOMAIN z.dropped /\ z.loc[t].group <= z.dropped[t]
              \/ LET next == [track |-> t, group |-> z.loc[t].group, object |-> z.loc[t].object]
                 IN  HasPrior(s, next) \/ HasPrior(z.queue, next)
    BY <1>1, <1>3, <2>1 DEF ChainInv, q
  <2> QED BY <2>2, <2>3, <2>4, <2>5 DEF ChainInv
<1> QED BY <1>5, <1>6, <1>7, <1>15, <1>16, <1>17 DEF SessionInv

\* The head of the queue goes out.
LEMMA HeadGoesOut ==
    ASSUME NEW x, NEW out, out \in Seq(DashFrag), SessionInv(x, out), x.queue # <<>>,
           scenario \in Scenarios,
           NEW z, z = [x EXCEPT !.queue = Tail(x.queue)],
           NEW s, s = Append(out, Head(x.queue))
    PROVE  SessionInv(z, s) /\ s \in Seq(DashFrag) /\ Head(x.queue).track \in NamesOf(x)
<1> DEFINE q == x.queue
           r == Tail(q)
           o == Head(q)
           n == Len(out) + 1
<1>1. /\ SessionTypes(x) /\ QueuePublished(x) /\ OrderInv(x, out) /\ AlignedInv(x, out)
      /\ ChainInv(x, out) /\ q \in Seq(DashFrag)
  BY DEF SessionInv, SessionTypes
<1>2. /\ r \in Seq(DashFrag) /\ o \in DashFrag /\ o = q[1] /\ 1 \in DOMAIN q
      /\ DOMAIN r = 1..(Len(q) - 1) /\ Len(q) \in Nat /\ DOMAIN q = 1..Len(q)
      /\ \A i \in DOMAIN r : r[i] = q[i + 1]
      /\ \E K \in SUBSET (DOMAIN q) : \E e : Lists(r, q, K, e)
  BY <1>1, TailIsSublist
<1>3. /\ DOMAIN z = SessionFields /\ z = [f \in SessionFields |-> z[f]] /\ z.queue = r
      /\ \A f \in SessionFields \ {"queue"} : z[f] = x[f]
  BY <1>1 DEF SessionTypes, SessionFields
<1>4. /\ z.tracks = x.tracks /\ z.next = x.next /\ z.loc = x.loc /\ z.ids = x.ids
      /\ z.group = x.group /\ z.start = x.start /\ z.started = x.started
      /\ z.inGroup = x.inGroup /\ z.catalogs = x.catalogs /\ z.dropped = x.dropped
      /\ z.error = x.error /\ z.closed = x.closed /\ z.frozen = x.frozen /\ z.paths = x.paths
      /\ z.dirty = x.dirty
  BY <1>3 DEF SessionFields
<1>5. SameCounters(x, z) /\ NamesOf(z) = NamesOf(x) BY <1>4 DEF SameCounters, NamesOf
<1>6. SessionTypes(z)
  <2>1. {z.frozen, z.dirty, z.closed, z.error, z.started} \subseteq BOOLEAN BY <1>1, <1>4 DEF SessionTypes
  <2>2. z.queue \in Seq(DashFrag) BY <1>2, <1>3
  <2>3. DOMAIN z = SessionFields /\ z = [f \in SessionFields |-> z[f]] BY <1>3
  <2> QED BY <1>1, <1>4, <2>1, <2>2, <2>3 DEF SessionTypes
<1>7. s = Append(out, o) OBVIOUS
<1>8. /\ QueuePublished(x) /\ Climbs(x, q) /\ Before(x, out, q) /\ AllPassed(x, q)
      /\ Climbs(x, out) /\ AllPassed(x, out)
      /\ pack # "loc" => /\ Keyed(x, out) /\ Keyed(x, q) /\ Joined(x) /\ NoVideoYet(x, out)
                         /\ NoVideoYet(x, q) /\ SameTimes(out, out) /\ SameTimes(out, q)
                         /\ SameTimes(q, q)
  BY <1>1 DEF OrderInv, AlignedInv
<1>9. o.track \in NamesOf(x) BY <1>1, <1>2 DEF QueuePublished
<1>10. \A i \in DOMAIN r : i + 1 \in DOMAIN q /\ 1 < i + 1 /\ r[i] = q[i + 1] BY <1>2
<1> HIDE DEF r, o
<1>11. /\ s \in Seq(DashFrag) /\ Len(out) \in Nat
       /\ DOMAIN out = 1..Len(out) /\ DOMAIN s = 1..n
       /\ s[n] = o /\ \A i \in DOMAIN out : s[i] = out[i] /\ i \in DOMAIN s
       /\ \A i \in DOMAIN s : i \in DOMAIN out \/ i = n
  BY <1>2, <1>7, Appended
<1> DEFINE KeptOf(u, v) ==
         /\ Climbs(x, u) => Climbs(x, v)
         /\ Before(x, out, u) => Before(x, out, v)
         /\ AllPassed(x, u) => AllPassed(x, v)
         /\ Keyed(x, u) => Keyed(x, v)
         /\ SameTimes(out, u) => SameTimes(out, v)
         /\ SameTimes(u, u) => SameTimes(v, v)
         /\ NoVideoYet(x, u) => NoVideoYet(x, v)
         /\ \A N : (\A i \in DOMAIN u : u[i].track \in N) => (\A i \in DOMAIN v : v[i].track \in N)
<1>12. ASSUME NEW u, u = q, NEW v, v = r PROVE KeptOf(u, v)
  <2>1. PICK K \in SUBSET (DOMAIN u) : \E e : Lists(v, u, K, e) BY <1>2, <1>12
  <2>2. PICK e : Lists(v, u, K, e) BY <2>1
  <2> QED BY ONLY K \in SUBSET (DOMAIN u), <2>2, SublistKeeps
<1>13. KeptOf(q, r) BY <1>12
<1> HIDE DEF q
<1>14. QueuePublished(z)
  <2>1. \A i \in DOMAIN r : r[i].track \in NamesOf(x) BY <1>8, <1>13 DEF QueuePublished, q
  <2> QED BY <1>3, <1>5, <2>1 DEF QueuePublished
<1>15. Climbs(x, s)
  <2> SUFFICES ASSUME NEW i \in DOMAIN s, NEW j \in DOMAIN s, i < j,
                      s[i].track = s[j].track, ~Restarts(x, s[i].track)
               PROVE  Precedes(s[i], s[j])
    BY DEF Climbs
  <2>1. i \in DOMAIN out /\ s[i] = out[i] BY <1>11
  <2>2. CASE j \in DOMAIN out BY <1>8, <1>11, <2>1, <2>2 DEF Climbs
  <2>3. CASE j = n BY <1>2, <1>8, <1>11, <2>1, <2>3 DEF Before
  <2> QED BY <1>11, <2>2, <2>3
<1>16. Before(x, s, r)
  <2> SUFFICES ASSUME NEW i \in DOMAIN s, NEW j \in DOMAIN r,
                      s[i].track = r[j].track, ~Restarts(x, s[i].track)
               PROVE  Precedes(s[i], r[j])
    BY DEF Before
  <2>1. CASE i \in DOMAIN out BY <1>8, <1>11, <1>13, <2>1 DEF Before
  <2>2. CASE i = n BY <1>2, <1>8, <1>10, <1>11, <2>2 DEF Climbs
  <2> QED BY <1>11, <2>1, <2>2
<1>17. AllPassed(x, s) BY <1>2, <1>8, <1>11 DEF AllPassed
<1>18. /\ \A u, v : Before(z, u, v) <=> Before(x, u, v)
       /\ \A u : /\ Climbs(z, u) <=> Climbs(x, u)
                 /\ AllPassed(z, u) <=> AllPassed(x, u)
                 /\ Keyed(z, u) <=> Keyed(x, u)
                 /\ NoVideoYet(z, u) <=> NoVideoYet(x, u)
       /\ Joined(z) <=> Joined(x)
  <2>1. ASSUME NEW u, NEW v
        PROVE  /\ Before(z, u, v) <=> Before(x, u, v)
               /\ Climbs(z, u) <=> Climbs(x, u)
               /\ AllPassed(z, u) <=> AllPassed(x, u)
               /\ Keyed(z, u) <=> Keyed(x, u)
               /\ NoVideoYet(z, u) <=> NoVideoYet(x, u)
               /\ Joined(z) <=> Joined(x)
    BY ONLY <1>5, SameParts
  <2> QED BY ONLY <2>1
<1>19. /\ Climbs(x, r) /\ AllPassed(x, r)
       /\ pack # "loc" => Keyed(x, r) /\ NoVideoYet(x, r) /\ SameTimes(r, r)
  BY <1>8, <1>13
<1>20. OrderInv(z, s)
  <2>1. Climbs(z, s) /\ Climbs(z, r) /\ Before(z, s, r) /\ AllPassed(z, s) /\ AllPassed(z, r)
    BY <1>15, <1>16, <1>17, <1>18, <1>19
  <2> QED BY <1>3, <2>1 DEF OrderInv
<1>21. AlignedInv(z, s)
  <2> SUFFICES ASSUME pack # "loc"
               PROVE  /\ Keyed(z, s) /\ Keyed(z, r) /\ Joined(z)
                      /\ SameTimes(s, s) /\ SameTimes(s, r) /\ SameTimes(r, r)
                      /\ NoVideoYet(z, s) /\ NoVideoYet(z, r)
    BY <1>3 DEF AlignedInv
  <2>1. Keyed(x, s) BY <1>2, <1>8, <1>11 DEF Keyed
  <2>2. NoVideoYet(x, s) BY <1>2, <1>8, <1>11 DEF NoVideoYet
  <2>3. SameTimes(s, r)
    <3> SUFFICES ASSUME NEW i \in DOMAIN s, NEW j \in DOMAIN r, OpensVideo(s[i]),
                        OpensVideo(r[j]), s[i].group = r[j].group
                 PROVE  s[i].time = r[j].time
      BY DEF SameTimes
    <3>1. CASE i \in DOMAIN out BY <1>8, <1>11, <1>13, <3>1 DEF SameTimes
    <3>2. CASE i = n
      <4>1. SameTimes(q, q) BY <1>8
      <4>2. /\ 1 \in DOMAIN q /\ j + 1 \in DOMAIN q
            /\ s[i] = q[1] /\ r[j] = q[j + 1]
        BY <1>2, <1>10, <1>11, <3>2
      <4> QED BY <4>1, <4>2 DEF SameTimes
    <3> QED BY <1>11, <3>1, <3>2
  <2>4. SameTimes(s, s)
    <3> SUFFICES ASSUME NEW i \in DOMAIN s, NEW j \in DOMAIN s, OpensVideo(s[i]),
                        OpensVideo(s[j]), s[i].group = s[j].group
                 PROVE  s[i].time = s[j].time
      BY DEF SameTimes
    <3>1. CASE i \in DOMAIN out /\ j \in DOMAIN out BY <1>8, <1>11, <3>1 DEF SameTimes
    <3>2. CASE i = n /\ j \in DOMAIN out BY <1>2, <1>8, <1>11, <3>2 DEF SameTimes
    <3>3. CASE i \in DOMAIN out /\ j = n BY <1>2, <1>8, <1>11, <3>3 DEF SameTimes
    <3>4. CASE i = n /\ j = n BY <3>4
    <3> QED BY <1>11, <3>1, <3>2, <3>3, <3>4
  <2> QED BY <1>8, <1>18, <1>19, <2>1, <2>2, <2>3, <2>4
<1>22. ChainInv(z, s)
  <2> SUFFICES ASSUME pack = "loc" PROVE ChainInv(z, s) BY DEF ChainInv
  <2>1. \A f : HasPrior(out, f) => HasPrior(s, f) BY <1>11 DEF HasPrior
  <2>2. \A i \in DOMAIN q : q[i].object > 0 =>
          HasPrior(out, q[i]) \/ \E j \in 1..(i - 1) : Prior(q[j], q[i])
    BY <1>1 DEF ChainInv, q
  <2>3. \A f : HasPrior(q, f) => HasPrior(s, f) \/ HasPrior(r, f)
    <3> SUFFICES ASSUME NEW f, NEW j \in DOMAIN q, Prior(q[j], f)
                 PROVE  HasPrior(s, f) \/ HasPrior(r, f)
      BY DEF HasPrior
    <3>1. CASE j = 1
      <4>1. n \in DOMAIN s BY <1>11
      <4> QED BY <1>2, <1>11, <3>1, <4>1 DEF HasPrior
    <3>2. CASE j # 1
      <4>1. j - 1 \in DOMAIN r /\ (j - 1) + 1 = j BY <1>2, <3>2
      <4> QED BY <1>2, <4>1 DEF HasPrior
    <3> QED BY <3>1, <3>2
  <2>4. ASSUME NEW i \in DOMAIN s, s[i].object > 0
        PROVE  \E j \in 1..(i - 1) : Prior(s[j], s[i])
    <3>1. CASE i \in DOMAIN out
      <4>1. PICK j \in 1..(i - 1) : Prior(out[j], out[i]) BY <1>1, <1>11, <2>4, <3>1 DEF ChainInv
      <4>2. j \in DOMAIN out BY <1>11, <3>1
      <4> QED BY <1>11, <3>1, <4>1, <4>2
    <3>2. CASE i = n
      <4>1. HasPrior(out, o) BY <1>2, <1>11, <2>2, <2>4, <3>2
      <4>2. PICK j \in DOMAIN out : Prior(out[j], o) BY <4>1 DEF HasPrior
      <4>3. j \in 1..(n - 1) BY <1>11
      <4> QED BY <1>11, <3>2, <4>2, <4>3
    <3> QED BY <1>11, <2>4, <3>1, <3>2
  <2>5. ASSUME NEW i \in DOMAIN r, r[i].object > 0
        PROVE  HasPrior(s, r[i]) \/ \E j \in 1..(i - 1) : Prior(r[j], r[i])
    <3>1. i + 1 \in DOMAIN q /\ r[i] = q[i + 1] /\ i \in Nat BY <1>2, <1>10
    <3>2. CASE HasPrior(out, q[i + 1]) BY <2>1, <3>1, <3>2
    <3>3. CASE \E j \in 1..((i + 1) - 1) : Prior(q[j], q[i + 1])
      <4>1. PICK j \in 1..i : Prior(q[j], q[i + 1]) BY <3>1, <3>3
      <4>2. CASE j = 1
        <5>1. n \in DOMAIN s BY <1>11
        <5> QED BY <1>2, <1>11, <3>1, <4>1, <4>2, <5>1 DEF HasPrior
      <4>3. CASE j # 1
        <5>1. j - 1 \in 1..(i - 1) /\ j - 1 \in DOMAIN r /\ (j - 1) + 1 = j BY <1>2, <3>1, <4>3
        <5> QED BY <1>2, <3>1, <4>1, <5>1
      <4> QED BY <4>2, <4>3
    <3> QED BY <2>2, <2>5, <3>1, <3>2, <3>3
  <2>6. CutGone(z)
    <3>1. CutGone(x) BY <1>1 DEF ChainInv
    <3> QED BY <1>3, <1>4, <1>10, <3>1 DEF CutGone, q
  <2>7. ~z.error => \A t \in DOMAIN z.loc :
          z.loc[t].object > 0 =>
              \/ t \in DOMAIN z.dropped /\ z.loc[t].group <= z.dropped[t]
              \/ LET next == [track |-> t, group |-> z.loc[t].group, object |-> z.loc[t].object]
                 IN  HasPrior(s, next) \/ HasPrior(z.queue, next)
    <3> SUFFICES ASSUME ~x.error, NEW t \in DOMAIN x.loc, x.loc[t].object > 0,
                        ~(t \in DOMAIN x.dropped /\ x.loc[t].group <= x.dropped[t])
                 PROVE  LET next == [track |-> t, group |-> x.loc[t].group, object |-> x.loc[t].object]
                        IN  HasPrior(s, next) \/ HasPrior(r, next)
      BY <1>3, <1>4
    <3> DEFINE next == [track |-> t, group |-> x.loc[t].group, object |-> x.loc[t].object]
    <3>1. HasPrior(out, next) \/ HasPrior(q, next) BY <1>1 DEF ChainInv, q
    <3> HIDE DEF next
    <3>2. HasPrior(s, next) \/ HasPrior(r, next) BY <2>1, <2>3, <3>1
    <3> QED BY <3>2 DEF next
  <2>8. \A i \in DOMAIN z.queue :
          z.queue[i].object > 0 =>
              HasPrior(s, z.queue[i]) \/ \E j \in 1..(i - 1) : Prior(z.queue[j], z.queue[i])
    BY <1>3, <2>5
  <2> QED BY <2>4, <2>6, <2>7, <2>8 DEF ChainInv
<1> QED BY <1>6, <1>9, <1>11, <1>14, <1>20, <1>21, <1>22 DEF SessionInv, o, q

\* A step that keeps the session, or closes it, and hands nothing over.
LEMMA SessionKept ==
    ASSUME ObjectsInv, scenario' = scenario, d' = d \/ d' = Closed(d),
           \A w \in Uploads : worker'[w].read = worker[w].read,
           main'.out = main.out, main'.announced = main.announced,
           main'.pc \in {"next", "finished"} => main.pc \in {"next", "finished"},
           main'.pc = "source" => main.pc = "source" \/ d.tracks # {}
    PROVE  ObjectsInv'
<1>1. SessionInv(d, main.out) /\ SessionTypes(d) /\ \A w \in Uploads : worker'[w].read \in Nat
  BY DEF ObjectsInv, SessionInv
<1>2. SessionInv(d', main.out) /\ Grew(d, d')
  <2>1. CASE d' = d BY <1>1, <2>1 DEF Grew
  <2>2. CASE d' = Closed(d)
    <3> DEFINE z == Closed(d)
    <3>1. /\ DOMAIN z = SessionFields /\ z = [f \in SessionFields |-> z[f]] /\ z.closed = TRUE
          /\ \A f \in SessionFields \ {"closed"} : z[f] = d[f]
      BY <1>1 DEF SessionTypes, SessionFields, Closed
    <3> HIDE DEF z
    <3>2. SameCounters(d, z) /\ Grew(d, z) BY <3>1 DEF SameCounters, SessionFields, Grew
    <3>3. /\ z.queue = d.queue /\ z.error = d.error /\ z.dropped = d.dropped
          /\ z.paths = d.paths /\ z.frozen = d.frozen /\ z.dirty = d.dirty
      BY <3>1 DEF SessionFields
    <3>4. {z.frozen, z.dirty, z.closed, z.error} \subseteq BOOLEAN BY <1>1, <3>1, <3>3 DEF SessionTypes
    <3>5. \A p \in DOMAIN z.paths : IsPath(z.paths[p]) BY <1>1, <3>3 DEF SessionTypes
    <3>6. SessionInv(z, main.out) BY <1>1, <3>1, <3>2, <3>3, <3>4, <3>5, CountersKept
    <3> QED BY <2>2, <3>2, <3>6 DEF z
  <2> QED BY <2>1, <2>2
<1>3. SessionInv(d', main'.out) BY <1>2
<1> QED BY <1>1, <1>2, <1>3, SessionGrows

\* The boxes of a body go to the session as one call.
LEMMA BodyGrows ==
    ASSUME ObjectsInv, DashInv, NEW w \in Uploads, ReadBody(w)
    PROVE  ObjectsInv'
<1>1. PICK n \in 1..MaxRead :
        /\ worker[w].read + n <= Len(Upload(w).wire)
        /\ LET fed == Fed(w, n)
               after == [worker EXCEPT ![w].read = @ + n, ![w].state = fed.state]
           IN  /\ d' = IF fed.boxes = <<>> THEN d ELSE Ingested(d, Upload(w).path, fed.boxes)
               /\ worker' = CASE fed.state = "failed" -> Finish(w, 400)
                              [] fed.state = "complete" ->
                                   [after EXCEPT ![w].pc = "deregister", ![w].status = 204]
                              [] OTHER -> after
  BY DEF ReadBody
<1>2. n \in Nat /\ worker[w].read \in Nat /\ scenario \in Scenarios /\ scenario' = scenario
      /\ SessionInv(d, main.out) /\ main.out \in Seq(DashFrag) /\ main' = main
  <2>1. MaxRead \in Nat BY DashAssumption
  <2> QED BY <2>1 DEF ObjectsInv, ReadBody
<1>3. Fed(w, n).boxes \in Seq(Boxes) BY <1>1, <1>2, FedBoxes
<1>4. SessionInv(d', main.out) /\ Grew(d, d')
  <2>1. CASE d' = d BY <1>2, <2>1 DEF Grew
  <2>2. CASE d' = Ingested(d, Upload(w).path, Fed(w, n).boxes) BY <1>2, <1>3, <2>2, IngestedKeeps
  <2> QED BY <1>1, <2>1, <2>2
<1>5. \A v \in Uploads : worker'[v].read \in Nat
  <2> DEFINE state == Fed(w, n).state
             x == [worker[w] EXCEPT !.read = @ + n, !.state = state]
             y == [x EXCEPT !.pc = "deregister", !.status = 204]
             z == [worker[w] EXCEPT !.pc = "deregister", !.status = 400]
  <2>1. worker = [v \in Uploads |-> worker[v]] /\ IsWorker(worker[w])
        /\ \A v \in Uploads : worker[v].read \in Nat
    BY DEF DashInv, ThreadTypes, ObjectsInv
  <2>2. x.read \in Nat /\ y.read \in Nat /\ z.read \in Nat
    <3> HIDE DEF state
    <3> QED BY <1>2, <2>1 DEF IsWorker
  <2>3. worker' \in {[worker EXCEPT ![w] = x], [worker EXCEPT ![w] = y], [worker EXCEPT ![w] = z]}
    <3>1. [[worker EXCEPT ![w].read = @ + n, ![w].state = state]
            EXCEPT ![w].pc = "deregister", ![w].status = 204] = [worker EXCEPT ![w] = y]
      <4> HIDE DEF state
      <4> QED BY <2>1
    <3>2. [worker EXCEPT ![w].read = @ + n, ![w].state = state] = [worker EXCEPT ![w] = x]
      <4> HIDE DEF state
      <4> QED BY <2>1
    <3>3. Finish(w, 400) = [worker EXCEPT ![w] = z] BY <2>1 DEF Finish
    <3> HIDE DEF x, y, z
    <3> QED BY <1>1, <3>1, <3>2, <3>3
  <2> HIDE DEF x, y, z
  <2> QED BY <2>1, <2>2, <2>3
<1>6. SessionInv(d', main'.out) BY <1>2, <1>4
<1> QED BY <1>2, <1>4, <1>5, <1>6, SessionGrows

\* Something goes to the publisher: the catalog, or the head of the queue.
LEMMA ObjectGoesOut ==
    ASSUME ObjectsInv, DashInv, NextObject
    PROVE  ObjectsInv'
<1> DEFINE sent == IF CatalogDue THEN Catalog(d) ELSE Head(d.queue)
<1>1. /\ SessionInv(d, main.out) /\ main.out \in Seq(DashFrag) /\ scenario \in Scenarios
      /\ SourceTaken /\ \A w \in Uploads : worker[w].read \in Nat
  BY DEF ObjectsInv
<1>2. /\ main.pc = "next" /\ scenario' = scenario /\ worker' = worker
      /\ main' = [main EXCEPT !.out = Append(main.out, sent)]
      /\ d' = IF CatalogDue THEN [d EXCEPT !.dirty = FALSE, !.catalogs = d.catalogs + 1]
              ELSE [d EXCEPT !.queue = Tail(d.queue)]
      /\ CatalogDue \/ d.queue # <<>>
  BY DEF NextObject
<1> HIDE DEF sent
<1>3. /\ main'.pc = "next" /\ main'.announced = main.announced
      /\ main'.out = Append(main.out, sent)
  BY <1>2 DEF DashInv, ThreadTypes
<1>4. /\ SessionInv(d', main'.out) /\ main'.out \in Seq(DashFrag)
      /\ sent.track \in NamesOf(d) \cup {"catalog"}
      /\ ~CatalogDue => sent.track \in NamesOf(d)
      /\ CatalogDue => sent.track = "catalog"
  <2>1. CASE CatalogDue
    <3>1. sent = Catalog(d) /\ sent.track = "catalog" BY <2>1 DEF sent, Catalog
    <3> QED BY <1>1, <1>2, <1>3, <2>1, <3>1, CatalogGoesOut
  <2>2. CASE ~CatalogDue
    <3>1. sent = Head(d.queue) BY <2>2 DEF sent
    <3> QED BY <1>1, <1>2, <1>3, <2>2, <3>1, HeadGoesOut
  <2> QED BY <2>1, <2>2
<1>5. SessionInv(d, main.out)' BY <1>2, <1>4, SessionStays
<1>6. d'.frozen = d.frozen /\ d'.tracks = d.tracks /\ NamesOf(d)' = NamesOf(d)
  <2>1. SessionTypes(d) BY <1>1 DEF SessionInv
  <2>2. d'.frozen = d.frozen /\ d'.tracks = d.tracks BY <1>2, <2>1 DEF SessionTypes, SessionFields
  <2> QED BY <2>2 DEF NamesOf
<1>7. SourceTaken'
  <2>1. d.frozen /\ main.announced = NamesOf(d) /\ d.tracks # {} BY <1>1, <1>2 DEF SourceTaken
  <2>2. Len(main.out) \in Nat /\ DOMAIN main.out = 1..Len(main.out) BY <1>1
  <2>3. /\ DOMAIN main'.out = 1..(Len(main.out) + 1)
        /\ \A i \in DOMAIN main.out : main'.out[i] = main.out[i]
        /\ main'.out[Len(main.out) + 1] = sent /\ main'.out # <<>>
    BY <1>1, <1>3, <2>2
  <2>4. Len(main.out) = 0 => sent.track = "catalog"
    <3>1. Len(main.out) = 0 => main.out = <<>> BY <1>1
    <3> QED BY <1>1, <1>4, <2>1, <3>1 DEF SourceTaken, CatalogDue
  <2>5. ASSUME NEW i \in DOMAIN main'.out
        PROVE  /\ main'.out[i].track \in NamesOf(d) \cup {"catalog"}
               /\ i = 1 => main'.out[i].track = "catalog"
    <3>1. CASE i \in DOMAIN main.out BY <1>1, <2>1, <2>3, <3>1 DEF SourceTaken
    <3>2. CASE i = Len(main.out) + 1 BY <1>4, <2>2, <2>3, <2>4, <3>2
    <3> QED BY <2>2, <2>3, <3>1, <3>2
  <2> QED BY <1>3, <1>6, <2>1, <2>3, <2>5 DEF SourceTaken
<1>8. DashFrag' = DashFrag /\ Uploads' = Uploads
  <2>1. Moofs' = Moofs BY <1>2 DEF Moofs, Boxes
  <2> QED BY <1>2, <2>1 DEF DashFrag, Uploads
<1> QED BY <1>1, <1>2, <1>4, <1>5, <1>7, <1>8 DEF ObjectsInv

\* Nothing has been pushed and nothing handed over at the start.
LEMMA ObjectsInit ==
    ASSUME Init
    PROVE  ObjectsInv
<1>1. /\ scenario \in Scenarios /\ main.out = <<>> /\ main.pc = "waitTracks"
      /\ \A w \in Uploads : worker[w].read = 0
  BY DEF Init, Uploads
<1>2. /\ d.paths = <<>> /\ d.tracks = {} /\ d.frozen = FALSE /\ d.dirty = FALSE
      /\ d.queue = <<>> /\ d.closed = FALSE /\ d.error = FALSE /\ d.started = FALSE
      /\ d.group = 0 /\ d.start = 0 /\ d.ids = <<>> /\ d.inGroup = {} /\ d.next = <<>>
      /\ d.loc = <<>> /\ d.dropped = <<>> /\ d.catalogs = 0
      /\ DOMAIN d = SessionFields /\ d = [f \in SessionFields |-> d[f]]
  BY DEF Init, SessionFields
<1>3. DOMAIN <<>> = {} /\ <<>> \in Seq(DashFrag) BY EmptySeq
<1>4. SessionTypes(d)
  <2>1. d.queue \in Seq(DashFrag) /\ d.tracks \subseteq UNION {b.tracks : b \in Boxes} BY <1>2, <1>3
  <2>2. /\ DOMAIN d.ids = {} /\ DOMAIN d.next = {} /\ DOMAIN d.dropped = {}
        /\ DOMAIN d.loc = {} /\ DOMAIN d.paths = {}
    BY <1>2, <1>3
  <2>3. /\ DOMAIN d = SessionFields /\ d = [f \in SessionFields |-> d[f]]
        /\ d.group \in Nat /\ d.start \in Nat /\ d.catalogs \in Nat
    BY <1>2
  <2>4. {d.frozen, d.dirty, d.closed, d.error, d.started} \subseteq BOOLEAN BY <1>2
  <2> QED BY ONLY <2>1, <2>2, <2>3, <2>4 DEF SessionTypes
<1>5. QueuePublished(d) /\ OrderInv(d, main.out) /\ AlignedInv(d, main.out)
  BY <1>1, <1>2, <1>3 DEF QueuePublished, OrderInv, Climbs, Before, AllPassed, AlignedInv, Keyed, Joined,
     SameTimes, NoVideoYet
<1>6. ChainInv(d, main.out) BY <1>1, <1>2, <1>3 DEF ChainInv, CutGone
<1>7. SourceTaken BY <1>1, <1>2, <1>3 DEF SourceTaken
<1> QED BY <1>1, <1>3, <1>4, <1>5, <1>6, <1>7 DEF ObjectsInv, SessionInv

\* A worker does nothing to the session but push the boxes it received.
LEMMA WorkerKeepsObjects ==
    ASSUME ObjectsInv, DashInv, NEW w \in Uploads, Worker(w) \/ ReadEnd(w)
    PROVE  ObjectsInv'
<1>1. /\ worker = [v \in Uploads |-> worker[v]] /\ \A v \in Uploads : IsWorker(worker[v])
  BY DEF DashInv, ThreadTypes
<1>2. CASE ReadBody(w) BY <1>2, BodyGrows
<1>3. ASSUME scenario' = scenario, d' = d, main' = main, NEW pc, NEW status,
             \/ worker' = [worker EXCEPT ![w].pc = pc]
             \/ worker' = [worker EXCEPT ![w].pc = pc, ![w].status = status]
      PROVE  ObjectsInv'
  <2>1. \A v \in Uploads : worker'[v].read = worker[v].read BY <1>1, <1>3 DEF IsWorker
  <2> QED BY <1>3, <2>1, SessionKept
<1>4. CASE ReadHeaders(w) BY <1>3, <1>4 DEF ReadHeaders, Finish
<1>5. CASE ReadEnd(w) BY <1>3, <1>5 DEF ReadEnd, Finish
<1>6. CASE ReadStopped(w) BY <1>3, <1>6 DEF ReadStopped
<1>7. CASE CloseClient(w) BY <1>3, <1>7 DEF CloseClient
<1>8. CASE Exit(w) BY <1>3, <1>8 DEF Exit
<1> QED BY <1>2, <1>4, <1>5, <1>6, <1>7, <1>8 DEF Worker

\* The accept thread and stop() leave the session's objects alone.
LEMMA ServerKeepsObjects ==
    ASSUME ObjectsInv, DashInv, Accept \/ AcceptThread \/ MonitorStops \/ MonitorStep
    PROVE  ObjectsInv'
<1>1. /\ worker = [v \in Uploads |-> worker[v]] /\ \A v \in Uploads : IsWorker(worker[v])
  BY DEF DashInv, ThreadTypes
<1>2. scenario' = scenario /\ main' = main /\ (d' = d \/ d' = Closed(d))
  BY DEF Accept, AcceptThread, AcceptStops, Accepted, Register, MonitorStops, MonitorStep, StopStep
<1>3. \A v \in Uploads : worker'[v].read = worker[v].read
  <2>1. CASE Accept
    <3>1. PICK w \in Uploads, fd \in Sockets \ InUse :
            worker' = [worker EXCEPT ![w].pc = "accepted", ![w].fd = fd]
      BY <2>1 DEF Accept
    <3> QED BY <1>1, <3>1 DEF IsWorker
  <2>2. CASE AcceptThread
    <3>1. \/ worker' = worker \/ worker' = [worker EXCEPT ![server.client].pc = "exited"]
          \/ worker' = [worker EXCEPT ![server.client].pc = "headers"]
      BY <2>2 DEF AcceptThread, AcceptStops, Accepted, Register
    <3> DEFINE c == server.client
    <3>2. ASSUME NEW pc, worker' = [worker EXCEPT ![c].pc = pc], NEW v \in Uploads
          PROVE  worker'[v].read = worker[v].read
      <4> HIDE DEF c
      <4> QED BY <1>1, <3>2 DEF IsWorker
    <3> QED BY <3>1, <3>2
  <2>3. CASE MonitorStops BY <1>1, <2>3 DEF MonitorStops, ShutDown, IsWorker
  <2>4. CASE MonitorStep BY <2>4 DEF MonitorStep
  <2> QED BY <2>1, <2>2, <2>3, <2>4
<1> QED BY <1>2, <1>3, SessionKept

\* The publishing thread takes the source, then its objects one by one.
LEMMA MainKeepsObjects ==
    ASSUME ObjectsInv, DashInv, MainThread \/ PublishEnds
    PROVE  ObjectsInv'
<1>1. /\ worker = [v \in Uploads |-> worker[v]] /\ \A v \in Uploads : IsWorker(worker[v])
      /\ DOMAIN main = {"pc", "announced", "seen", "out", "result"}
      /\ main = [f \in DOMAIN main |-> main[f]]
  BY DEF DashInv, ThreadTypes
<1>2. CASE TakeSource BY <1>2, TakeSourceGrows
<1>3. CASE NextObject BY <1>3, ObjectGoesOut
<1>4. CASE WaitForTracks
  <2>1. main'.pc \in {"source", "stop"} /\ (main'.pc = "source" => d.tracks # {})
        /\ main'.out = main.out /\ main'.announced = main.announced
    BY <1>1, <1>4 DEF WaitForTracks
  <2> QED BY <1>4, <2>1, SessionKept DEF WaitForTracks
<1>5. CASE NextNothing
  <2>1. main'.pc \in {"stop", "finished"} /\ main.pc = "next"
        /\ main'.out = main.out /\ main'.announced = main.announced
    BY <1>1, <1>5 DEF NextNothing
  <2> QED BY <1>5, <2>1, SessionKept DEF NextNothing
<1>6. CASE AskFinished
  <2>1. main'.pc \in {"stop", "next"} /\ main.pc = "finished"
        /\ main'.out = main.out /\ main'.announced = main.announced
    BY <1>1, <1>6 DEF AskFinished
  <2> QED BY <1>6, <2>1, SessionKept DEF AskFinished
<1>7. CASE MainStops
  <2>1. main'.pc \in {"stopped", "close"}
        /\ main'.out = main.out /\ main'.announced = main.announced
    BY <1>1, <1>7 DEF MainStops
  <2>2. \A v \in Uploads : worker'[v].read = worker[v].read BY <1>1, <1>7 DEF MainStops, ShutDown, IsWorker
  <2> QED BY <1>7, <2>1, <2>2, SessionKept DEF MainStops
<1>8. CASE MainStep
  <2>1. PICK next \in StopSteps : StopStep(main.pc, next) /\ main' = [main EXCEPT !.pc = next]
    BY <1>8 DEF MainStep
  <2>2. main'.pc \notin {"source", "next", "finished"}
        /\ main'.out = main.out /\ main'.announced = main.announced
    BY <1>1, <2>1 DEF StopSteps
  <2>3. d' = d \/ d' = Closed(d) BY <2>1 DEF StopStep
  <2> QED BY <1>8, <2>2, <2>3, SessionKept DEF MainStep
<1>9. CASE Destroy
  <2>1. main'.pc = "ended"
        /\ main'.out = main.out /\ main'.announced = main.announced
    BY <1>1, <1>9 DEF Destroy
  <2> QED BY <1>9, <2>1, SessionKept DEF Destroy
<1>10. CASE PublishEnds
  <2>1. main'.pc = "stop"
        /\ main'.out = main.out /\ main'.announced = main.announced
    BY <1>1, <1>10 DEF PublishEnds
  <2> QED BY <1>10, <2>1, SessionKept DEF PublishEnds
<1> QED BY <1>2, <1>3, <1>4, <1>5, <1>6, <1>7, <1>8, <1>9, <1>10 DEF MainThread

\* Every step keeps what is said of the session and of what it handed over.
LEMMA ObjectsStep ==
    ASSUME ObjectsInv, DashInv, [Next]_vars
    PROVE  ObjectsInv'
<1>1. ASSUME NEW w \in Uploads, Worker(w) \/ ReadEnd(w) PROVE ObjectsInv' BY <1>1, WorkerKeepsObjects
<1>2. CASE Accept \/ AcceptThread \/ MonitorStops \/ MonitorStep BY <1>2, ServerKeepsObjects
<1>3. CASE MainThread \/ PublishEnds BY <1>3, MainKeepsObjects
<1>4. CASE UNCHANGED vars BY <1>4, SessionKept DEF vars
<1> QED BY <1>1, <1>2, <1>3, <1>4 DEF Next, Terminated

\* What the invariant says of what was handed over is what the publisher is promised.
LEMMA ObjectsAsPromised ==
    ASSUME ObjectsInv
    PROVE  DashObjects
<1>1. /\ SessionTypes(d) /\ OrderInv(d, main.out) /\ AlignedInv(d, main.out)
      /\ ChainInv(d, main.out) /\ SourceTaken /\ main.out \in Seq(DashFrag)
      /\ scenario \in Scenarios
  BY DEF ObjectsInv, SessionInv
<1>2. /\ Len(main.out) \in Nat /\ DOMAIN main.out = 1..Len(main.out)
      /\ \A i \in DOMAIN main.out : main.out[i] \in DashFrag
  BY <1>1, LenProperties, ElementOfSeq
<1>3. LocationsGrow BY <1>1 DEF OrderInv, Climbs, LocationsGrow, Restarts, StartsOver
<1>4. GroupsAligned
  <2> DEFINE video(o) == \E t \in d.tracks : t.name = o.track /\ t.video
  <2>1. ASSUME NEW o \in DashFrag, video(o)
        PROVE  VideoName(o.track)
    <3>1. PICK t \in d.tracks : t.name = o.track /\ t.video BY <2>1
    <3>2. PICK c \in Boxes : t \in c.tracks
      <4>1. t \in UNION {b.tracks : b \in Boxes} BY <1>1 DEF SessionTypes
      <4> QED BY <4>1, Zenon
    <3>3. t.name # "catalog" BY <1>1, <3>2, BoxFacts
    <3>4. PICK b \in Moofs : b.track = o.track BY <3>1, <3>3 DEF DashFrag
    <3>5. b.video = t.video
      <4>1. b \in Boxes /\ b.type = "moof" BY DEF Moofs
      <4> QED BY <1>1, <3>1, <3>2, <3>4, <4>1, BoxFacts
    <3> QED BY <3>1, <3>3, <3>4, <3>5 DEF VideoName
  <2> SUFFICES ASSUME NEW i \in DOMAIN main.out, NEW j \in DOMAIN main.out, pack # "loc",
                      video(main.out[i]), video(main.out[j]), main.out[i].object = 0
               PROVE  /\ main.out[i].key
                      /\ main.out[j].object = 0 /\ main.out[i].group = main.out[j].group
                           => main.out[i].time = main.out[j].time
    BY DEF GroupsAligned
  <2>2. VideoName(main.out[i].track) /\ VideoName(main.out[j].track) BY <1>2, <2>1
  <2> HIDE DEF video
  <2> QED BY <1>1, <2>2 DEF AlignedInv, Keyed, SameTimes, OpensVideo
<1>5. NoHoles BY <1>1 DEF ChainInv, Prior, NoHoles
<1>6. AnnouncedOnly
  <2>1. main.out # <<>> => 1 \in DOMAIN main.out BY <1>1
  <2>2. OutTracks \subseteq main.announced \cup {"catalog"} BY <1>1 DEF OutTracks, SourceTaken
  <2> QED BY <1>1, <2>1, <2>2 DEF SourceTaken, AnnouncedOnly, NamesOf
<1> QED BY <1>3, <1>4, <1>5, <1>6 DEF DashObjects

\* Whatever the workers upload, in whatever order and speed, and whatever the
\* queue sheds: the publisher gets the catalog first and only tracks it has
\* announced, in growing locations of each track, with groups that begin in every
\* video track with a keyframe of the same time and LOC groups without holes.
THEOREM UploadsPublishedInOrder == Spec => []DashObjects
<1>1. Init => DashInv /\ ObjectsInv BY DashInit, ObjectsInit
<1>2. DashInv /\ ObjectsInv /\ [Next]_vars => (DashInv /\ ObjectsInv)' BY DashStep, ObjectsStep
<1>3. DashInv /\ ObjectsInv => DashObjects BY ObjectsAsPromised
<1> QED BY <1>1, <1>2, <1>3, PTL DEF Spec

=============================================================================
