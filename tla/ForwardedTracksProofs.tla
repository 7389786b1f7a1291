------------------------ MODULE ForwardedTracksProofs ------------------------
(* Proofs about ForwardedTracks, for any tracks, plan and peer: no control
   message and no request order is lost while the publisher waits for one
   answer after another, PUBLISH_DONE means that the whole track was sent
   in plan order unless it was switched on late and got no replay, and a
   stopped track stays silent.

   The invariant is ForwardInv.  BuffersKept reads the three buffers of
   the control stream as one sequence: its numbers rise and, with the
   handled ones, are 1..count, and the requests in it are the ones still
   expected.  Stops says that a claimed stop left the forward flag at 0
   for good.  Passes says what a pass over the plan has sent so far: each
   track in scope ends with the objects before the index, so a pass that
   reaches the end of the plan sent them all. *)
EXTENDS ForwardedTracks, DataTheorems

(* ---- ascending sequences ---- *)

\* f enumerates S in ascending order.
Enumerates(f, S) ==
  f \in [1..Cardinality(S) -> S] /\ \A i, j \in DOMAIN f : i < j => f[i] < f[j]

\* A set of places in a sequence has an ascending enumeration.
LEMMA AscendingExists ==
    ASSUME NEW n \in Nat, NEW S \in SUBSET (1..n)
    PROVE  Enumerates(Ascending(S), S) /\ IsFiniteSet(S) /\ Cardinality(S) \in Nat
<1>1. /\ IsFiniteSet(S) /\ Cardinality(S) \in Nat
      /\ \E f \in [1..Cardinality(S) -> S] : Rises(f, Cardinality(S))
  BY RisingExists
<1>2. \E f \in [1..Cardinality(S) -> S] : \A i, j \in DOMAIN f : i < j => f[i] < f[j] BY <1>1 DEF Rises
<1>3. Enumerates(Ascending(S), S) BY <1>2 DEF Ascending, Enumerates
<1> QED BY <1>1, <1>3

\* A set of places has one ascending enumeration.
LEMMA AscendingUnique ==
    ASSUME NEW S \in SUBSET Nat, NEW n \in Nat,
           NEW f \in [1..n -> S], NEW g \in [1..n -> S],
           \A i, j \in 1..n : i < j => f[i] < f[j] /\ g[i] < g[j],
           \A x \in S : \E i \in 1..n : f[i] = x,
           \A x \in S : \E i \in 1..n : g[i] = x
    PROVE  f = g
<1> DEFINE D == {i \in 1..n : f[i] # g[i]}
<1> SUFFICES ASSUME D # {} PROVE FALSE OBVIOUS
<1>1. D \in SUBSET Nat OBVIOUS
<1> DEFINE k == Min(D)
<1>2. k \in D /\ \A i \in D : k <= i BY <1>1, NatMin
<1>3. k \in 1..n /\ f[k] # g[k] /\ f[k] \in S /\ g[k] \in S BY <1>2
<1>4. \A i \in 1..n : i < k => f[i] = g[i] BY <1>2
<1> HIDE DEF k, D
<1>5. f[k] \in Nat /\ g[k] \in Nat BY <1>3
<1>6. ASSUME f[k] < g[k] PROVE FALSE
  <2>1. PICK i \in 1..n : g[i] = f[k] BY <1>3
  <2>2. i < k \/ i = k \/ k < i BY <1>3
  <2>3. CASE i < k
    <3>1. g[i] = f[i] /\ f[i] < f[k] /\ f[i] \in Nat BY <1>3, <1>4, <2>3
    <3> QED BY <2>1, <3>1, <1>5
  <2>4. CASE i = k BY <2>1, <2>4, <1>6, <1>5
  <2>5. CASE k < i
    <3>1. g[k] < g[i] BY <1>3, <2>5
    <3> QED BY <2>1, <3>1, <1>6, <1>5
  <2> QED BY <2>2, <2>3, <2>4, <2>5
<1>7. ASSUME g[k] < f[k] PROVE FALSE
  <2>1. PICK i \in 1..n : f[i] = g[k] BY <1>3
  <2>2. i < k \/ i = k \/ k < i BY <1>3
  <2>3. CASE i < k
    <3>1. f[i] = g[i] /\ g[i] < g[k] /\ g[i] \in Nat BY <1>3, <1>4, <2>3
    <3> QED BY <2>1, <3>1, <1>5
  <2>4. CASE i = k BY <2>1, <2>4, <1>7, <1>5
  <2>5. CASE k < i
    <3>1. f[k] < f[i] BY <1>3, <2>5
    <3> QED BY <2>1, <3>1, <1>7, <1>5
  <2> QED BY <2>2, <2>3, <2>4, <2>5
<1> QED BY <1>3, <1>5, <1>6, <1>7

\* An ascending enumeration reaches every element of its set.
LEMMA AscendingReaches ==
    ASSUME NEW S \in SUBSET Nat, IsFiniteSet(S), NEW f, Enumerates(f, S)
    PROVE  \A x \in S : \E i \in 1..Cardinality(S) : f[i] = x
<1> DEFINE n == Cardinality(S)
<1>1. n \in Nat BY FS_CardinalityType
<1>2. f \in [1..n -> S] /\ \A i, j \in 1..n : i < j => f[i] < f[j] BY DEF Enumerates
<1>3. ASSUME NEW i \in 1..n, NEW j \in 1..n, f[i] = f[j] PROVE i = j
  <2>1. f[i] \in Nat /\ f[j] \in Nat BY <1>2
  <2> QED BY <1>2, <1>3, <2>1
<1>4. f \in Injection(1..n, S) BY <1>2, <1>3 DEF Injection, IsInjective
<1>5. Cardinality(1..n) = n BY <1>1, FS_Interval
<1>6. f \in Surjection(1..n, S) BY <1>4, <1>5, FS_Injection
<1> QED BY <1>6 DEF Surjection

\* The end of s is S in ascending order.
Ends(s, S) ==
  \E k \in 0..Len(s) : /\ {s[i] : i \in k+1..Len(s)} = S
                       /\ \A i, j \in k+1..Len(s) : i < j => s[i] < s[j]

\* What Ends says as DoneIsWhole says it: a suffix of the sent objects.
LEMMA EndsIsSuffix ==
    ASSUME NEW m \in Nat, NEW S \in SUBSET (1..m), NEW s \in Seq(Nat), Ends(s, S)
    PROVE  IsSuffix(Ascending(S), s)
<1> DEFINE l == Len(s)
           n == Cardinality(S)
           a == Ascending(S)
<1>1. PICK k \in 0..l : /\ {s[i] : i \in k+1..l} = S
                        /\ \A i, j \in k+1..l : i < j => s[i] < s[j]
  BY DEF Ends
<1>2. l \in Nat /\ k \in Nat /\ k <= l OBVIOUS
<1>3. n \in Nat /\ IsFiniteSet(S) /\ Enumerates(a, S) BY AscendingExists
<1>4. S \in SUBSET Nat OBVIOUS
<1>5. \A i \in 1..(l-k) : k + i \in k+1..l BY <1>2
<1> DEFINE g == [i \in 1..(l-k) |-> s[k+i]]
<1>6. \A i \in k+1..l : s[i] \in S BY <1>1
<1>7. g \in [1..(l-k) -> S] BY <1>5, <1>6
<1>8. \A i, j \in 1..(l-k) : i < j => g[i] < g[j]
  <2> SUFFICES ASSUME NEW i \in 1..(l-k), NEW j \in 1..(l-k), i < j PROVE s[k+i] < s[k+j] OBVIOUS
  <2>1. k + i < k + j BY <1>2
  <2> QED BY <2>1, <1>1, <1>5
<1>9. \A x \in S : \E i \in 1..(l-k) : g[i] = x
  <2> SUFFICES ASSUME NEW x \in S PROVE \E i \in 1..(l-k) : g[i] = x OBVIOUS
  <2>1. PICK i \in k+1..l : s[i] = x BY <1>1
  <2>2. i - k \in 1..(l-k) /\ k + (i - k) = i BY <1>2
  <2> QED BY <2>1, <2>2
<1>10. l - k = n
  <2> HIDE DEF g, n, l
  <2>1. \A i, j \in 1..(l-k) : g[i] = g[j] => i = j
    <3> SUFFICES ASSUME NEW i \in 1..(l-k), NEW j \in 1..(l-k), g[i] = g[j] PROVE i = j OBVIOUS
    <3>1. g[i] \in Nat /\ g[j] \in Nat BY <1>4, <1>7
    <3> QED BY <3>1, <1>2, <1>8
  <2>2. g \in Bijection(1..(l-k), S) BY <2>1, <1>7, <1>9 DEF Bijection, Injection, Surjection, IsInjective
  <2>3. ExistsBijection(1..(l-k), S) BY <2>2 DEF ExistsBijection
  <2>4. IsFiniteSet(1..(l-k)) /\ Cardinality(1..(l-k)) = l - k BY <1>2, FS_Interval
  <2>5. Cardinality(S) = Cardinality(1..(l-k)) BY <2>3, <2>4, FS_Bijection
  <2> QED BY <2>4, <2>5 DEF n
<1>11. a = g
  <2>1. /\ a \in [1..n -> S] /\ \A i, j \in 1..n : i < j => a[i] < a[j]
        /\ \A x \in S : \E i \in 1..n : a[i] = x
    <3>1. \A x \in S : \E i \in 1..n : a[i] = x BY <1>3, <1>4, AscendingReaches
    <3> QED BY <3>1, <1>3 DEF Enumerates
  <2>2. /\ g \in [1..n -> S] /\ \A i, j \in 1..n : i < j => g[i] < g[j]
        /\ \A x \in S : \E i \in 1..n : g[i] = x
    BY <1>7, <1>8, <1>9, <1>10
  <2> HIDE DEF a, g, n
  <2> QED BY <1>3, <1>4, <2>1, <2>2, AscendingUnique
<1>12. \A i \in 1..n : a[i] = s[k+i] BY <1>10, <1>11
<1>13. a \in Seq(Nat) /\ Len(a) = n /\ n <= l
  <2>1. a \in [1..n -> Nat] BY <1>3, <1>4 DEF Enumerates
  <2> HIDE DEF a, n
  <2>2. n <= l BY <1>2, <1>10
  <2> QED BY <1>3, <2>1, <2>2
<1> HIDE DEF a, g, n
<1>14. Reverse(a) = [i \in 1..n |-> a[n - i + 1]] /\ Reverse(s) = [i \in 1..l |-> s[l - i + 1]]
  BY <1>13 DEF Reverse
<1>15. /\ Reverse(a) \in Seq(Nat) /\ Len(Reverse(a)) = n
       /\ Reverse(s) \in Seq(Nat) /\ Len(Reverse(s)) = l
  <2>1. \A i \in 1..n : n - i + 1 \in 1..n BY <1>3
  <2>2. \A i \in 1..l : l - i + 1 \in 1..l BY <1>2
  <2>3. \A i \in 1..n : a[i] \in Nat BY <1>13
  <2>4. \A i \in 1..l : s[i] \in Nat OBVIOUS
  <2>5. Reverse(a) \in [1..n -> Nat] /\ Reverse(s) \in [1..l -> Nat] BY <2>1, <2>2, <2>3, <2>4, <1>14
  <2>6. ASSUME NEW f, NEW c \in Nat, f \in [1..c -> Nat] PROVE f \in Seq(Nat) /\ Len(f) = c BY <2>6
  <2> QED BY <2>5, <2>6, <1>2, <1>3
<1>16. \A i \in 1..n : Reverse(a)[i] = Reverse(s)[i]
  <2> SUFFICES ASSUME NEW i \in 1..n PROVE a[n - i + 1] = s[l - i + 1] BY <1>13, <1>14, <1>2, <1>3
  <2>1. n - i + 1 \in 1..n /\ k + (n - i + 1) = l - i + 1 BY <1>2, <1>3, <1>10
  <2> QED BY <2>1, <1>12
<1>17. SubSeq(Reverse(a), 1, n) = SubSeq(Reverse(s), 1, n)
  <2> DEFINE x == Reverse(a)
             y == Reverse(s)
  <2>1. x \in Seq(Nat) /\ y \in Seq(Nat) /\ n <= Len(x) /\ n <= Len(y) BY <1>13, <1>15
  <2>2. \A i \in 1..n : x[i] = y[i] BY <1>16
  <2> HIDE DEF x, y
  <2>3. SubSeq(x, 1, n) = [i \in 1..n |-> x[i]] /\ SubSeq(y, 1, n) = [i \in 1..n |-> y[i]] BY <2>1, <1>3
  <2>4. [i \in 1..n |-> x[i]] = [i \in 1..n |-> y[i]] BY <2>2
  <2>5. SubSeq(x, 1, n) = SubSeq(y, 1, n) BY <2>3, <2>4
  <2> QED BY <2>5 DEF x, y
<1> QED BY <1>13, <1>15, <1>17 DEF IsSuffix, IsPrefix, a

(* ---- the tracks ---- *)

\* The published tracks are tracks, each with a request id of its own.
LEMMA PublishedFacts ==
    ASSUME autoForward \in BOOLEAN
    PROVE  /\ Range(Published) \subseteq TrackSet
           /\ DOMAIN Published \subseteq Nat \ {0}
           /\ RequestIds \subseteq Nat
           /\ \A t \in Range(Published) : RequestOf(t) \in RequestIds /\ TrackOf(RequestOf(t)) = t
           /\ \A r \in RequestIds : TrackOf(r) \in Range(Published)
           /\ autoForward => \A r \in RequestIds : RequestOf(TrackOf(r)) = r
<1>1. PublishTracks \in Seq(TrackSet) /\ IsInjective(PublishTracks) BY PublishAssumption
<1>2. DOMAIN PublishTracks = 1..Len(PublishTracks) /\ Len(PublishTracks) \in Nat BY <1>1
<1>3. CASE autoForward
  <2>1. Published = PublishTracks BY <1>3 DEF Published
  <2>2. Range(Published) = TrackSet /\ DOMAIN Published \subseteq Nat \ {0} BY <1>2, <2>1 DEF TrackSet
  <2>3. \A i, j \in DOMAIN Published : Published[i] = Published[j] => i = j BY <1>1, <2>1 DEF IsInjective
  <2>4. RequestIds \subseteq Nat BY <2>2 DEF RequestIds
  <2>5. ASSUME NEW i \in DOMAIN Published
        PROVE  TrackOf(2 * i) = Published[i] /\ RequestOf(Published[i]) = 2 * i
    <3>1. i \in Nat BY <2>2
    <3>2. (2 * i) \div 2 = i BY <3>1
    <3>3. (CHOOSE j \in DOMAIN Published : Published[j] = Published[i]) = i BY <2>3
    <3> QED BY <3>2, <3>3 DEF TrackOf, RequestOf
  <2>6. ASSUME NEW t \in Range(Published)
        PROVE  RequestOf(t) \in RequestIds /\ TrackOf(RequestOf(t)) = t
    <3>1. PICK i \in DOMAIN Published : t = Published[i] BY DEF Range
    <3> QED BY <2>5, <3>1 DEF RequestIds
  <2>7. ASSUME NEW r \in RequestIds
        PROVE  TrackOf(r) \in Range(Published) /\ RequestOf(TrackOf(r)) = r
    <3>1. PICK i \in DOMAIN Published : r = 2 * i BY DEF RequestIds
    <3> QED BY <2>5, <3>1 DEF Range
  <2> QED BY <2>2, <2>4, <2>6, <2>7
<1>4. CASE ~autoForward
  <2> DEFINE P == {i \in DOMAIN PublishTracks : PublishTracks[i] \in CatalogTracks}
             places == Ascending(P)
  <2>1. P \in SUBSET (1..Len(PublishTracks)) BY <1>2
  <2> HIDE DEF P
  <2>2. places \in [1..Cardinality(P) -> P] /\ Cardinality(P) \in Nat
    BY <1>2, <2>1, AscendingExists DEF Enumerates
  <2>3. Published = [i \in DOMAIN places |-> PublishTracks[places[i]]] BY <1>4 DEF Published, Selected, P
  <2> HIDE DEF places
  <2>4. \A i \in DOMAIN places : PublishTracks[places[i]] \in TrackSet
    <3>1. \A i \in 1..Len(PublishTracks) : PublishTracks[i] \in TrackSet BY <1>1
    <3>2. \A i \in DOMAIN places : places[i] \in 1..Len(PublishTracks) BY <2>1, <2>2
    <3> QED BY <3>1, <3>2
  <2>5. Range(Published) \subseteq TrackSet /\ DOMAIN Published \subseteq Nat \ {0}
    BY <2>2, <2>3, <2>4 DEF Range
  <2>6. RequestIds \subseteq Nat BY <2>5 DEF RequestIds
  <2>7. ASSUME NEW i \in DOMAIN Published PROVE TrackOf(2 * i) = Published[i]
    <3>1. i \in Nat BY <2>5
    <3>2. (2 * i) \div 2 = i BY <3>1
    <3> QED BY <3>2 DEF TrackOf
  <2>8. ASSUME NEW t \in Range(Published)
        PROVE  RequestOf(t) \in RequestIds /\ TrackOf(RequestOf(t)) = t
    <3> DEFINE i == CHOOSE j \in DOMAIN Published : Published[j] = t
    <3>1. \E j \in DOMAIN Published : Published[j] = t BY DEF Range
    <3>2. i \in DOMAIN Published /\ Published[i] = t BY <3>1
    <3> QED BY <2>7, <3>2 DEF RequestIds, RequestOf
  <2>9. ASSUME NEW r \in RequestIds PROVE TrackOf(r) \in Range(Published)
    <3>1. PICK i \in DOMAIN Published : r = 2 * i BY DEF RequestIds
    <3> QED BY <2>7, <3>1 DEF Range
  <2> QED BY <1>4, <2>5, <2>6, <2>8, <2>9
<1> QED BY <1>3, <1>4

\* The objects of a track are a set of places in the plan.
LEMMA PlanFacts ==
    /\ Len(Plan) \in Nat
    /\ \A i \in 1..Len(Plan) : Plan[i] \in TrackSet
    /\ \A t : Objects(t) = {i \in 1..Len(Plan) : Plan[i] = t}
  BY PublishAssumption DEF Objects

(* ---- type correctness ---- *)

MessageTypes ==
  {"setup", "unknown", "maxid", "subscribe", "ok", "nsok", "error", "goaway", "update"}
ControlMessage ==
  [type : MessageTypes, id : Nat, existing : Nat, value : Nat, n : Nat]

Announcing == {"connected", "setup", "namespace", "answer", "publish", "acks", "published"}
AfterPass == {"replay", "replayPoll", "finish", "serve", "close"}

PlaceTypes ==
  /\ draft \in {14, 16, 17, 18} /\ autoForward \in BOOLEAN /\ looping \in BOOLEAN
  /\ pc \in Announcing \cup {"await", "pass"} \cup AfterPass \cup {"ended"}
  /\ result \in {"none", "success", "failure", "rejected", "violation"}
  /\ result = "none" <=> pc # "ended"

ControlTypes ==
  /\ inbox \in Seq(ControlMessage) /\ pending \in Seq(ControlMessage)
  /\ deferred \in Seq(ControlMessage) /\ streamIn \in [AllIds -> Seq(ControlMessage)]
  /\ handled \subseteq Nat /\ waiting \subseteq Nat /\ DOMAIN forward \subseteq Nat
  /\ count \in Nat /\ peerId \in Nat /\ expected \in Nat
  /\ nextRequest \in Nat /\ peerMax \in Nat

PassTypes ==
  /\ sent \in [TrackSet -> Seq(Nat)] /\ index \in Nat \ {0} /\ cycle \in Nat
  /\ only \subseteq TrackSet /\ downgraded \subseteq TrackSet /\ replayed \subseteq TrackSet
  /\ cycle # 0 => looping /\ Loopable # {}

\* Every variable the arguments rest on has its type; the publish is at its
\* end exactly when it has a result; only a looping input has cycles.
TypeOK == PlaceTypes /\ ControlTypes /\ PassTypes

(* ---- the kinds of steps ---- *)

\* The end of the passes, either way of publishing.
Finishing == FinishStep /\ pc' \in {"serve", "close"}

\* The peer, the setup exchange, the answers and the updates.
ControlStep ==
  \/ PeerSetup \/ PeerOther \/ PeerAnswer \/ PeerUpdate \/ PeerEnd
  \/ SendSetup \/ ReadControl \/ SetupMessage \/ SetupTimeout \/ Namespace
  \/ PublishStep \/ PublishedAll \/ NamespaceAnswered \/ PublishAnswered \/ Collect
  \/ AckTimeout \/ PollControl \/ PollStream \/ PollStop \/ PollFin

\* The passes over the plan and the end.
PlanStep ==
  \/ Accepted \/ AwaitForward \/ PassStep \/ PassEnd \/ Replay \/ ReplayOver
  \/ ReplayFlipped \/ Finishing \/ ServeDownstream \/ NamespaceDone

\* Every step is of one of the two kinds.
LEMMA StepKinds == Next => ControlStep \/ PlanStep
<1>1. (Finish \/ SelectedFinish) => Finishing BY DEF Finish, SelectedFinish, Finishing
<1>2. (PublishForwarded \/ PublishSelected => PublishStep) /\ (PassObject \/ SelectedObject => PassStep)
  BY DEF PublishForwarded, PublishSelected, PassObject, SelectedObject
<1> QED BY <1>1, <1>2 DEF Next, Peer, Session, ControlStep, PlanStep

\* A control step leaves the passes alone; it stays where it is, goes on with
\* the announcements or ends the publish.
LEMMA ControlPlace ==
    ASSUME TypeOK, ControlStep
    PROVE  /\ UNCHANGED passVars /\ UNCHANGED setupVars
           /\ result = "none"
           /\ \/ pc' = pc /\ result' = "none"
              \/ pc' = "ended" /\ result' \in {"failure", "rejected", "violation"}
              \/ pc \in Announcing /\ pc' \in Announcing /\ result' = "none"
<1>1. CASE PeerSetup BY <1>1 DEF PeerSetup, Post, Message, peerUnchanged, Running, Announcing
<1>2. CASE PeerOther BY <1>2 DEF PeerOther, Post, Message, peerUnchanged, Running, Announcing
<1>3. CASE PeerAnswer BY <1>3 DEF PeerAnswer, Post, Message, peerUnchanged, Running, Announcing
<1>4. CASE PeerUpdate BY <1>4 DEF PeerUpdate, Post, Message, peerUnchanged, Running, Announcing
<1>5. CASE PeerEnd BY <1>5 DEF PeerEnd, peerUnchanged, Running, Announcing
<1>6. CASE SendSetup BY <1>6 DEF SendSetup, At, Running, Announcing
<1>7. CASE ReadControl BY <1>7 DEF ReadControl, Running, Announcing
<1>8. CASE SetupMessage BY <1>8 DEF SetupMessage, At, End, Running, Announcing
<1>9. CASE SetupTimeout BY <1>9 DEF SetupTimeout, At, End, Running, Announcing
<1>10. CASE Namespace BY <1>10 DEF Namespace, At, Running, Announcing
<1>11. CASE PublishStep BY <1>11 DEF PublishStep, At, End, Running, Announcing
<1>12. CASE PublishedAll BY <1>12 DEF PublishedAll, At, Running, Announcing
<1>13. CASE NamespaceAnswered BY <1>13 DEF NamespaceAnswered, AnswerStep, At, End, Running, Announcing
<1>14. CASE PublishAnswered BY <1>14 DEF PublishAnswered, AnswerStep, At, End, Running, Announcing
<1>15. CASE Collect BY <1>15 DEF Collect, At, End, Running, Announcing
<1>16. CASE AckTimeout BY <1>16 DEF AckTimeout, At, End, Running, Announcing
<1>17. CASE PollControl BY <1>17 DEF PollControl, End, Polls, Running, Announcing
<1>18. CASE PollStream BY <1>18 DEF PollStream, Polls, Running, Announcing
<1>19. CASE PollStop BY <1>19 DEF PollStop, Polls, Running, Announcing
<1>20. CASE PollFin BY <1>20 DEF PollFin, Polls, Running, Announcing
<1> QED BY <1>1, <1>2, <1>3, <1>4, <1>5, <1>6, <1>7, <1>8, <1>9, <1>10, <1>11, <1>12,
  <1>13, <1>14, <1>15, <1>16, <1>17, <1>18, <1>19, <1>20 DEF ControlStep

\* A step of the passes leaves the messages and the requests alone.
LEMMA PlanPlace ==
    ASSUME TypeOK, PlanStep
    PROVE  /\ UNCHANGED <<setupVars, controlVars, sawSetup, peerMax, requestVars, peerVars, waiting>>
           /\ result = "none" /\ pc \in {"published", "await", "pass"} \cup AfterPass
           /\ \/ pc' \in {"await", "pass"} \cup AfterPass /\ result' = "none"
              \/ pc' = "ended" /\ result' \in {"success", "failure"}
<1>1. CASE Accepted BY <1>1 DEF Accepted, At, BeginPass, passUnchanged, passVars, Running, AfterPass
<1>2. CASE AwaitForward BY <1>2 DEF AwaitForward, At, BeginPass, passUnchanged, passVars, Running, AfterPass
<1>3. CASE PassStep BY <1>3 DEF PassStep, At, passUnchanged, passVars, Running, AfterPass
<1>4. CASE PassEnd BY <1>4 DEF PassEnd, At, passUnchanged, passVars, Running, AfterPass
<1>5. CASE Replay BY <1>5 DEF Replay, At, passUnchanged, passVars, Running, AfterPass
<1>6. CASE ReplayOver BY <1>6 DEF ReplayOver, At, passUnchanged, passVars, Running, AfterPass
<1>7. CASE ReplayFlipped
  BY <1>7 DEF ReplayFlipped, At, BeginPass, passUnchanged, passVars, Running, AfterPass
<1>8. CASE Finishing BY <1>8 DEF Finishing, FinishStep, At, passUnchanged, passVars, Running, AfterPass
<1>9. CASE ServeDownstream BY <1>9 DEF ServeDownstream, At, End, passUnchanged, passVars, Running, AfterPass
<1>10. CASE NamespaceDone BY <1>10 DEF NamespaceDone, At, End, passUnchanged, passVars, Running, AfterPass
<1> QED BY <1>1, <1>2, <1>3, <1>4, <1>5, <1>6, <1>7, <1>8, <1>9, <1>10 DEF PlanStep

\* The fields of a message.
LEMMA MessageFields ==
    \A m \in ControlMessage :
      /\ m.type \in MessageTypes /\ m.id \in Nat /\ m.existing \in Nat
      /\ m.value \in Nat /\ m.n \in Nat
  BY DEF ControlMessage

\* A message the model makes is a message.
LEMMA MessageTyped ==
    ASSUME NEW type \in MessageTypes, NEW id \in Nat, NEW existing \in Nat, NEW value \in Nat
    PROVE  Message(type, id, existing, value) \in ControlMessage
  BY DEF Message, ControlMessage

\* A posted message joins the end of the inbox with the next number.
LEMMA PostFacts ==
    ASSUME ControlTypes, NEW m \in ControlMessage, Post(m)
    PROVE  /\ count' = count + 1 /\ count' \in Nat /\ inbox' \in Seq(ControlMessage)
           /\ [m EXCEPT !.n = count + 1] \in ControlMessage
           /\ inbox' = Append(inbox, [m EXCEPT !.n = count + 1])
<1>1. [m EXCEPT !.n = count + 1] \in ControlMessage
  <2>1. count + 1 \in Nat BY DEF ControlTypes
  <2> QED BY <2>1 DEF ControlMessage
<1>2. inbox \in Seq(ControlMessage) /\ count \in Nat BY DEF ControlTypes
<1> QED BY <1>1, <1>2 DEF Post

\* A message read from a request stream leaves a shorter stream.
LEMMA StreamRead ==
    ASSUME ControlTypes, NEW r, streamIn[r] # <<>>,
           streamIn' = [streamIn EXCEPT ![r] = Tail(@)]
    PROVE  streamIn' \in [AllIds -> Seq(ControlMessage)]
<1>1. CASE r \in AllIds
  <2>1. streamIn[r] \in Seq(ControlMessage) BY <1>1 DEF ControlTypes
  <2>2. Tail(streamIn[r]) \in Seq(ControlMessage) BY <2>1, TailFacts
  <2> QED BY <2>2 DEF ControlTypes
<1>2. CASE r \notin AllIds BY <1>2 DEF ControlTypes
<1> QED BY <1>1, <1>2

\* A message put on a request stream keeps the streams typed.
LEMMA StreamFed ==
    ASSUME ControlTypes, NEW r, NEW m \in ControlMessage,
           streamIn' = [streamIn EXCEPT ![r] = Append(@, m)]
    PROVE  streamIn' \in [AllIds -> Seq(ControlMessage)]
<1>1. CASE r \in AllIds
  <2>1. streamIn[r] \in Seq(ControlMessage) BY <1>1 DEF ControlTypes
  <2>2. Append(streamIn[r], m) \in Seq(ControlMessage) BY <2>1
  <2> QED BY <2>2 DEF ControlTypes
<1>2. CASE r \notin AllIds BY <1>2 DEF ControlTypes
<1> QED BY <1>1, <1>2

\* Removing the first message leaves the tail.
LEMMA RemoveFirstFacts ==
    ASSUME NEW S, NEW s \in Seq(S), s # <<>>
    PROVE  RemoveAt(s, 1) = Tail(s) /\ s[1] = Head(s)
<1>1. SubSeq(s, 1, 0) = <<>> /\ SubSeq(s, 2, Len(s)) = Tail(s) /\ s[1] = Head(s) OBVIOUS
<1>2. Tail(s) \in Seq(S) BY TailFacts
<1>3. <<>> \o Tail(s) = Tail(s) BY <1>2
<1> QED BY <1>1, <1>3 DEF RemoveAt

\* A step of the peer or the control stream keeps its buffers typed.
LEMMA ControlTyped ==
    ASSUME TypeOK, ControlStep
    PROVE  ControlTypes'
<1>1. CASE PeerSetup
  <2>1. PICK m \in ControlMessage : Post(m)
    <3>1. Message("unknown", 0, 0, 0) \in ControlMessage BY MessageTyped DEF MessageTypes
    <3>2. \A limit \in PeerMaxIds : Message("setup", 0, 0, limit) \in ControlMessage
      BY PublishAssumption, MessageTyped DEF MessageTypes
    <3> QED BY <1>1, <3>1, <3>2 DEF PeerSetup
  <2> QED BY <1>1, <2>1, PostFacts
      DEF PeerSetup, peerUnchanged, TypeOK, ControlTypes
<1>2. CASE PeerOther
  <2>1. PICK m \in ControlMessage : Post(m)
    <3>1. Message("subscribe", peerId, 0, 0) \in ControlMessage
      BY MessageTyped DEF MessageTypes, TypeOK, ControlTypes
    <3>2. \A limit \in PeerMaxIds : Message("maxid", 0, 0, limit) \in ControlMessage
      BY PublishAssumption, MessageTyped DEF MessageTypes
    <3> QED BY <1>2, <3>1, <3>2 DEF PeerOther
  <2>2. peerId' \in Nat BY <1>2 DEF PeerOther, TypeOK, ControlTypes
  <2> QED BY <1>2, <2>1, <2>2, PostFacts
      DEF PeerOther, peerUnchanged, TypeOK, ControlTypes
<1>3. CASE PeerAnswer
  <2>1. PICK r \in waiting, m \in ControlMessage :
          IF UsesRequestStreams
          THEN streamIn' = [streamIn EXCEPT ![r] = Append(@, m)] /\ UNCHANGED <<inbox, count>>
          ELSE Post(m) /\ UNCHANGED streamIn
    <3>1. PICK r \in waiting, f \in {0, 1},
               kind \in {"ok", "error"} \cup IF draft >= 18 THEN {"goaway"} ELSE {} :
            LET m == Message(IF r = 0 /\ kind = "ok" THEN "nsok" ELSE kind, r, 0,
                             IF draft = 17 THEN 1 ELSE f)
            IN  IF UsesRequestStreams
                THEN streamIn' = [streamIn EXCEPT ![r] = Append(@, m)] /\ UNCHANGED <<inbox, count>>
                ELSE Post(m) /\ UNCHANGED streamIn
      BY <1>3 DEF PeerAnswer
    <3>2. r \in Nat /\ (IF draft = 17 THEN 1 ELSE f) \in Nat BY DEF TypeOK, ControlTypes
    <3>3. (IF r = 0 /\ kind = "ok" THEN "nsok" ELSE kind) \in MessageTypes BY DEF MessageTypes
    <3>4. Message(IF r = 0 /\ kind = "ok" THEN "nsok" ELSE kind, r, 0,
                  IF draft = 17 THEN 1 ELSE f) \in ControlMessage
      BY <3>2, <3>3, MessageTyped
    <3> QED BY <3>1, <3>4
  <2>2. waiting' \subseteq Nat BY <1>3 DEF PeerAnswer, TypeOK, ControlTypes
  <2>3. /\ inbox' \in Seq(ControlMessage) /\ count' \in Nat
        /\ streamIn' \in [AllIds -> Seq(ControlMessage)]
    <3>1. CASE UsesRequestStreams BY <2>1, <3>1, StreamFed DEF TypeOK, ControlTypes
    <3>2. CASE ~UsesRequestStreams BY <2>1, <3>2, PostFacts DEF TypeOK, ControlTypes
    <3> QED BY <3>1, <3>2
  <2> QED BY <1>3, <2>2, <2>3
      DEF PeerAnswer, peerUnchanged, TypeOK, ControlTypes
<1>4. CASE PeerUpdate
  <2>1. PICK r \in DOMAIN forward, m \in ControlMessage :
          IF UsesRequestStreams
          THEN streamIn' = [streamIn EXCEPT ![r] = Append(@, m)] /\ UNCHANGED <<inbox, count>>
          ELSE Post(m) /\ UNCHANGED streamIn
    <3>1. PICK r \in DOMAIN forward, f \in {0, 1} :
            LET m == Message("update", peerId, r, f)
            IN  IF UsesRequestStreams
                THEN streamIn' = [streamIn EXCEPT ![r] = Append(@, m)] /\ UNCHANGED <<inbox, count>>
                ELSE Post(m) /\ UNCHANGED streamIn
      BY <1>4 DEF PeerUpdate
    <3>2. Message("update", peerId, r, f) \in ControlMessage
      <4>1. r \in Nat /\ f \in Nat /\ peerId \in Nat /\ "update" \in MessageTypes
        BY DEF TypeOK, ControlTypes, MessageTypes
      <4> QED BY <4>1, MessageTyped
    <3> QED BY <3>1, <3>2
  <2>2. peerId' \in Nat BY <1>4 DEF PeerUpdate, TypeOK, ControlTypes
  <2>3. /\ inbox' \in Seq(ControlMessage) /\ count' \in Nat
        /\ streamIn' \in [AllIds -> Seq(ControlMessage)]
    <3>1. CASE UsesRequestStreams BY <2>1, <3>1, StreamFed DEF TypeOK, ControlTypes
    <3>2. CASE ~UsesRequestStreams BY <2>1, <3>2, PostFacts DEF TypeOK, ControlTypes
    <3> QED BY <3>1, <3>2
  <2> QED BY <1>4, <2>2, <2>3
      DEF PeerUpdate, peerUnchanged, TypeOK, ControlTypes
<1>5. CASE PeerEnd
  BY <1>5, MessageFields DEF PeerEnd, peerUnchanged, TypeOK, ControlTypes, controlVars, requestVars,
     peerVars
<1>6. CASE SendSetup
  BY <1>6, MessageFields DEF SendSetup, At, TypeOK, ControlTypes, controlVars, requestVars, peerVars
<1>7. CASE ReadControl
  BY <1>7, MessageFields DEF ReadControl, TypeOK, ControlTypes, controlVars, requestVars, peerVars
<1>8. CASE SetupMessage
  <2>1. /\ Head(pending) \in ControlMessage /\ Tail(pending) \in Seq(ControlMessage)
        /\ Head(pending).n \in Nat /\ Head(pending).value \in Nat
    BY <1>8, TailFacts, MessageFields DEF SetupMessage, TypeOK, ControlTypes
  <2>2. pending' \in Seq(ControlMessage) /\ handled' \subseteq Nat /\ peerMax' \in Nat
    BY <1>8, <2>1 DEF SetupMessage, TypeOK, ControlTypes
  <2> QED BY <1>8, <2>2
      DEF SetupMessage, TypeOK, ControlTypes, requestVars, peerVars
<1>9. CASE SetupTimeout
  BY <1>9, MessageFields DEF SetupTimeout, At, End, TypeOK, ControlTypes, controlVars, requestVars, peerVars
<1>10. CASE Namespace
  BY <1>10, MessageFields DEF Namespace, At, TypeOK, ControlTypes, controlVars, requestVars, peerVars
<1>11. CASE PublishStep
  <2>1. /\ nextRequest' \in {nextRequest, nextRequest + 2}
        /\ waiting' \in {waiting, waiting \cup {nextRequest}}
    BY <1>11 DEF PublishStep
  <2>2. nextRequest' \in Nat /\ waiting' \subseteq Nat BY <2>1 DEF TypeOK, ControlTypes
  <2> QED BY <1>11, <2>2 DEF PublishStep, TypeOK, ControlTypes, controlVars, peerVars
<1>12. CASE PublishedAll
  BY <1>12, MessageFields DEF PublishedAll, At, TypeOK, ControlTypes, controlVars, requestVars, peerVars
<1>13. CASE NamespaceAnswered
  <2> DEFINE r == nextRequest
  <2>3. streamIn[r] # <<>> /\ streamIn' = [streamIn EXCEPT ![r] = Tail(@)] /\ nextRequest' = r + 2
    BY <1>13 DEF NamespaceAnswered, AnswerStep
  <2>4. r \in Nat BY DEF TypeOK, ControlTypes
  <2> HIDE DEF r
  <2>5. streamIn' \in [AllIds -> Seq(ControlMessage)]
    <3>1. ControlTypes BY DEF TypeOK
    <3> QED BY <2>3, <3>1, StreamRead
  <2>6. nextRequest' \in Nat BY <2>3, <2>4
  <2>1. nextRequest' \in Nat /\ streamIn' \in [AllIds -> Seq(ControlMessage)] BY <2>5, <2>6
  <2>2. DOMAIN forward' \subseteq Nat BY <1>13 DEF NamespaceAnswered, AnswerStep, TypeOK, ControlTypes
  <2> QED BY <1>13, <2>1, <2>2
      DEF NamespaceAnswered, AnswerStep, TypeOK, ControlTypes, controlVars, peerVars
<1>14. CASE PublishAnswered
  <2> DEFINE r == nextRequest
  <2>3. streamIn[r] # <<>> /\ streamIn' = [streamIn EXCEPT ![r] = Tail(@)] /\ nextRequest' = r + 2
    BY <1>14 DEF PublishAnswered, AnswerStep
  <2>4. r \in Nat BY DEF TypeOK, ControlTypes
  <2> HIDE DEF r
  <2>5. streamIn' \in [AllIds -> Seq(ControlMessage)]
    <3>1. ControlTypes BY DEF TypeOK
    <3> QED BY <2>3, <3>1, StreamRead
  <2>6. nextRequest' \in Nat BY <2>3, <2>4
  <2>1. nextRequest' \in Nat /\ streamIn' \in [AllIds -> Seq(ControlMessage)] BY <2>5, <2>6
  <2>2. DOMAIN forward' \subseteq Nat
    <3>1. DOMAIN forward' \subseteq DOMAIN forward \cup {nextRequest}
      BY <1>14 DEF PublishAnswered, AnswerStep
    <3> QED BY <3>1 DEF TypeOK, ControlTypes
  <2> QED BY <1>14, <2>1, <2>2
      DEF PublishAnswered, AnswerStep, TypeOK, ControlTypes, controlVars, peerVars
<1>15. CASE Collect
  <2>1. /\ Head(pending) \in ControlMessage /\ Tail(pending) \in Seq(ControlMessage)
        /\ Head(pending).n \in Nat /\ Head(pending).id \in Nat
    BY <1>15, TailFacts, MessageFields DEF Collect, TypeOK, ControlTypes
  <2>2. /\ pending' \in Seq(ControlMessage) /\ deferred' \in Seq(ControlMessage)
        /\ nextRequest' \in Nat /\ handled' \subseteq Nat
    <3>1. /\ Defer(deferred, Head(pending)) \in Seq(ControlMessage)
          /\ deferred \o Tail(pending) \in Seq(ControlMessage)
      BY <2>1, ConcatProperties DEF Defer, TypeOK, ControlTypes
    <3>2. \/ pending' = Tail(pending) /\ deferred' = Defer(deferred, Head(pending))
          \/ pending' = <<>> /\ deferred' = <<>>
          \/ pending' = Tail(pending) /\ deferred' = deferred
          \/ pending' = deferred \o Tail(pending) /\ deferred' = <<>>
      BY <1>15 DEF Collect
    <3>3. nextRequest' \in {nextRequest, 2} /\ handled' \subseteq handled \cup {Head(pending).n}
      BY <1>15 DEF Collect
    <3>4. <<>> \in Seq(ControlMessage) OBVIOUS
    <3>5. nextRequest \in Nat /\ handled \subseteq Nat /\ deferred \in Seq(ControlMessage)
      BY DEF TypeOK, ControlTypes
    <3>6. pending' \in Seq(ControlMessage) /\ deferred' \in Seq(ControlMessage)
      BY <2>1, <3>1, <3>2, <3>4, <3>5
    <3>7. nextRequest' \in Nat /\ handled' \subseteq Nat BY <2>1, <3>3, <3>5
    <3> QED BY <3>6, <3>7
  <2>3. DOMAIN forward' \subseteq Nat
    <3>1. DOMAIN forward' \subseteq DOMAIN forward \cup {Head(pending).id} BY <1>15 DEF Collect
    <3> QED BY <2>1, <3>1 DEF TypeOK, ControlTypes
  <2> QED BY <1>15, <2>2, <2>3 DEF Collect, TypeOK, ControlTypes, peerVars
<1>16. CASE AckTimeout
  BY <1>16, MessageFields DEF AckTimeout, At, End, TypeOK, ControlTypes, controlVars, requestVars, peerVars
<1>17. CASE PollControl
  <2>1. pending # <<>> BY <1>17 DEF PollControl, ControlUpdate, NextUpdate
  <2>2. /\ Tail(pending) \in Seq(ControlMessage) /\ Head(pending).n \in Nat
        /\ pending[1] = Head(pending) /\ RemoveAt(pending, 1) = Tail(pending)
    BY <2>1, RemoveFirstFacts, TailFacts, MessageFields DEF TypeOK, ControlTypes
  <2>3. /\ pending' \in {pending, Tail(pending)} /\ handled' \subseteq handled \cup {Head(pending).n}
        /\ expected' \in {expected, expected + 2} /\ DOMAIN forward' = DOMAIN forward
    BY <1>17, <2>2 DEF PollControl, NextUpdate
  <2>4. /\ pending' \in Seq(ControlMessage) /\ handled' \subseteq Nat /\ expected' \in Nat
        /\ DOMAIN forward' \subseteq Nat
    <3>1. pending' \in Seq(ControlMessage) BY <2>2, <2>3 DEF TypeOK, ControlTypes
    <3>4. expected' \in Nat
      <4>1. expected \in Nat BY DEF TypeOK, ControlTypes
      <4> QED BY <2>3, <4>1
    <3>2. handled' \subseteq Nat BY <2>2, <2>3 DEF TypeOK, ControlTypes
    <3>3. DOMAIN forward' \subseteq Nat BY <2>3 DEF TypeOK, ControlTypes
    <3> QED BY <3>1, <3>2, <3>3, <3>4
  <2> QED BY <1>17, <2>4 DEF PollControl, TypeOK, ControlTypes, peerVars
<1>18. CASE PollStream
  <2>1. streamIn' \in [AllIds -> Seq(ControlMessage)]
    BY <1>18, StreamRead DEF PollStream, StreamUpdate, TypeOK
  <2>2. DOMAIN forward' = DOMAIN forward BY <1>18 DEF PollStream
  <2> QED BY <1>18, <2>1, <2>2 DEF PollStream, TypeOK, ControlTypes, controlVars, peerVars
<1>19. CASE PollStop
  BY <1>19, MessageFields DEF PollStop, Polls, TypeOK, ControlTypes, controlVars, requestVars, peerVars
<1>20. CASE PollFin
  BY <1>20, MessageFields DEF PollFin, Polls, TypeOK, ControlTypes, controlVars, requestVars, peerVars
<1> QED BY <1>1, <1>2, <1>3, <1>4, <1>5, <1>6, <1>7, <1>8, <1>9, <1>10, <1>11, <1>12,
  <1>13, <1>14, <1>15, <1>16, <1>17, <1>18, <1>19, <1>20 DEF ControlStep

\* A step of the passes keeps what they keep typed.
LEMMA PassTyped ==
    ASSUME TypeOK, PlanStep
    PROVE  PassTypes'
<1>1. CASE Accepted
  <2>1. only' \in {only, Range(Published)} /\ index' \in {index, 1} BY <1>1 DEF Accepted, BeginPass
  <2>2. Range(Published) \subseteq TrackSet BY PublishedFacts DEF TypeOK, PlaceTypes
  <2>3. only' \subseteq TrackSet /\ index' \in Nat \ {0} BY <2>1, <2>2 DEF TypeOK, PassTypes
  <2> QED BY <1>1, <2>3 DEF Accepted, passUnchanged, setupVars, TypeOK, PassTypes
<1>2. CASE AwaitForward
  <2> DEFINE L == UNION {Objects(t) : t \in Loopable}
  <2>1. /\ only' \in {only, Range(Published)}
        /\ index' \in {index, 1} \/ (index' = Min(L) /\ cycle # 0)
    BY <1>2 DEF AwaitForward, BeginPass
  <2>2. Range(Published) \subseteq TrackSet BY PublishedFacts DEF TypeOK, PlaceTypes
  <2>3. ASSUME cycle # 0 PROVE Min(L) \in Nat \ {0}
    <3>1. L \subseteq Nat \ {0}
      <4>1. \A t \in Loopable : Objects(t) \subseteq Nat \ {0} BY PlanFacts
      <4> QED BY <4>1
    <3>2. L # {}
      <4>1. PICK t \in Loopable : TRUE BY <2>3 DEF TypeOK, PassTypes
      <4>2. PICK i \in DOMAIN Plan : Plan[i] = t BY PublishAssumption DEF Range
      <4>3. i \in Objects(t) BY <4>2 DEF Objects
      <4> QED BY <4>3
    <3> HIDE DEF L
    <3> QED BY <3>1, <3>2, NatMin
  <2>4. only' \subseteq TrackSet BY <2>1, <2>2 DEF TypeOK, PassTypes
  <2>5. index' \in Nat \ {0}
    <3> HIDE DEF L
    <3> QED BY <2>1, <2>3 DEF TypeOK, PassTypes
  <2> QED BY <1>2, <2>4, <2>5 DEF AwaitForward, passUnchanged, setupVars, TypeOK, PassTypes
<1>3. CASE PassStep
  <2>1. Plan[index] \in TrackSet /\ index \in Nat BY <1>3, PlanFacts DEF PassStep, TypeOK, PassTypes
  <2>2. /\ downgraded' \in {downgraded, downgraded \cup {Plan[index]}}
        /\ sent' = sent \/ sent' = [sent EXCEPT ![Plan[index]] = Append(@, index)]
        /\ index' = index + 1
    BY <1>3 DEF PassStep, Downgraded
  <2>3. downgraded' \subseteq TrackSet /\ index' \in Nat \ {0} BY <2>1, <2>2 DEF TypeOK, PassTypes
  <2>4. sent' \in [TrackSet -> Seq(Nat)]
    <3>1. sent \in [TrackSet -> Seq(Nat)] BY DEF TypeOK, PassTypes
    <3>2. Append(sent[Plan[index]], index) \in Seq(Nat) BY <2>1, <3>1
    <3> QED BY <2>1, <2>2, <3>1, <3>2
  <2> QED BY <1>3, <2>3, <2>4 DEF PassStep, passUnchanged, setupVars, TypeOK, PassTypes
<1>4. CASE PassEnd
  BY <1>4, PlanFacts DEF PassEnd, At, passUnchanged, setupVars, passVars, TypeOK, PassTypes, PlaceTypes
<1>5. CASE Replay
  BY <1>5, PlanFacts DEF Replay, At, passUnchanged, setupVars, passVars, TypeOK, PassTypes, PlaceTypes
<1>6. CASE ReplayOver
  BY <1>6, PlanFacts DEF ReplayOver, At, passUnchanged, setupVars, passVars, TypeOK, PassTypes, PlaceTypes
<1>7. CASE ReplayFlipped
  <2>1. Flipped \subseteq downgraded BY DEF Flipped
  <2>2. /\ only' \in {only, Flipped} /\ index' \in {index, 1}
        /\ downgraded' \in {downgraded, downgraded \ Flipped}
        /\ replayed' \in {replayed, replayed \cup Flipped}
    BY <1>7 DEF ReplayFlipped, BeginPass
  <2>3. /\ only' \subseteq TrackSet /\ index' \in Nat \ {0}
        /\ downgraded' \subseteq TrackSet /\ replayed' \subseteq TrackSet
    BY <2>1, <2>2 DEF TypeOK, PassTypes
  <2> QED BY <1>7, <2>3 DEF ReplayFlipped, passUnchanged, setupVars, TypeOK, PassTypes
<1>8. CASE Finishing
  <2>1. Range(Published) \subseteq TrackSet BY PublishedFacts DEF TypeOK, PlaceTypes
  <2>2. downgraded' = downgraded \cup (Range(Published) \ Forwarded) BY <1>8 DEF Finishing, FinishStep
  <2>3. downgraded' \subseteq TrackSet BY <2>1, <2>2 DEF TypeOK, PassTypes
  <2> QED BY <1>8, <2>3
      DEF Finishing, FinishStep, passUnchanged, setupVars, TypeOK, PassTypes
<1>9. CASE ServeDownstream
  BY <1>9, PlanFacts DEF ServeDownstream, At, End, passUnchanged, setupVars, passVars, TypeOK, PassTypes,
     PlaceTypes
<1>10. CASE NamespaceDone
  BY <1>10, PlanFacts DEF NamespaceDone, At, End, passUnchanged, setupVars, passVars, TypeOK, PassTypes,
     PlaceTypes
<1> QED BY <1>1, <1>2, <1>3, <1>4, <1>5, <1>6, <1>7, <1>8, <1>9, <1>10 DEF PlanStep

(* ---- the stops ---- *)

\* A stop is claimed for a published track on drafts with request streams,
\* while the passes run; the track then neither forwards nor is updated.
Stops ==
  /\ stopped \subseteq DOMAIN forward
  /\ stops \subseteq RequestIds \cap terminated \cap DOMAIN forward
  /\ \A r \in stops : forward[r] = 0
  /\ stops # {} => pc \notin Announcing /\ draft = 18 /\ autoForward

\* A claimed stop stays claimed and silent whatever update is still read.
LEMMA StopsStep ==
    ASSUME TypeOK, Stops, ControlStep \/ PlanStep
    PROVE  Stops'
<1>1. setupVars' = setupVars /\ Published' = Published /\ RequestIds' = RequestIds
  <2>1. setupVars' = setupVars BY ControlPlace, PlanPlace DEF setupVars
  <2> QED BY <2>1 DEF setupVars, Published, RequestIds
<1>2. stops # {} => pc' \notin Announcing BY ControlPlace, PlanPlace DEF Stops, Announcing, AfterPass
<1> USE DEF setupVars
<1>3. ASSUME UNCHANGED <<stopped, forward, stops>>, terminated \subseteq terminated'
      PROVE  Stops'
  BY <1>1, <1>2, <1>3 DEF Stops
<1>4. CASE PlanStep BY <1>3, <1>4, PlanPlace DEF requestVars
<1>5. CASE PeerEnd
  <2>1. UNCHANGED <<forward, stops, terminated>> /\ stopped' \subseteq stopped \cup DOMAIN forward
    BY <1>5 DEF PeerEnd, peerUnchanged
  <2> QED BY <1>1, <1>2, <2>1 DEF Stops
<1>6. CASE PeerSetup \/ PeerOther \/ PeerAnswer \/ PeerUpdate
  BY <1>3, <1>6 DEF PeerSetup, PeerOther, PeerAnswer, PeerUpdate, peerUnchanged
<1>7. CASE SendSetup \/ ReadControl \/ SetupMessage \/ SetupTimeout \/ Namespace
  BY <1>3, <1>7 DEF SendSetup, ReadControl, SetupMessage, SetupTimeout, Namespace, requestVars
<1>8. CASE PublishStep \/ PublishedAll \/ AckTimeout \/ PollFin
  BY <1>3, <1>8 DEF PublishStep, PublishedAll, AckTimeout, PollFin, Terminated, requestVars
<1>9. CASE NamespaceAnswered \/ PublishAnswered \/ Collect
  <2>1. pc \in Announcing
    BY <1>9 DEF NamespaceAnswered, PublishAnswered, AnswerStep, Collect, At, Announcing
  <2>2. UNCHANGED <<stopped, stops, terminated>> /\ DOMAIN forward \subseteq DOMAIN forward'
    <3>1. CASE NamespaceAnswered BY <3>1 DEF NamespaceAnswered, AnswerStep, End
    <3>2. CASE PublishAnswered BY <3>2 DEF PublishAnswered, AnswerStep, End
    <3>3. CASE Collect BY <3>3 DEF Collect, End
    <3> QED BY <1>9, <3>1, <3>2, <3>3
  <2> QED BY <1>1, <2>1, <2>2 DEF Stops
<1>10. CASE PollControl
  <2>1. draft = 16 BY <1>10 DEF PollControl, ControlUpdate
  <2>2. UNCHANGED <<stopped, stops, terminated>> /\ DOMAIN forward = DOMAIN forward'
    BY <1>10 DEF PollControl, End
  <2> QED BY <1>1, <2>1, <2>2 DEF Stops
<1>11. CASE PollStream
  <2>1. PICK r \in RequestIds : /\ StreamUpdate(r)
                                /\ forward' = [forward EXCEPT ![r] = Head(streamIn[r]).value]
    BY <1>11 DEF PollStream
  <2>2. r \notin stops BY <2>1 DEF StreamUpdate, Live, Stops
  <2>3. UNCHANGED <<stopped, stops, terminated>> BY <1>11 DEF PollStream
  <2> QED BY <1>1, <1>2, <2>1, <2>2, <2>3 DEF Stops
<1>12. CASE PollStop
  <2>1. PICK r \in RequestIds :
          /\ StreamStop(r)
          /\ terminated' = terminated \cup {r} /\ stopped' = stopped \ {r}
          /\ forward' = [forward EXCEPT ![r] = 0] /\ stops' = stops \cup {r}
    BY <1>12 DEF PollStop, Terminated
  <2>2. r \in DOMAIN forward /\ draft = 18 BY <2>1 DEF StreamStop, Stops, TypeOK, PlaceTypes
  <2>3. pc' \notin Announcing /\ autoForward BY <1>12 DEF PollStop, Polls, Announcing
  <2> QED BY <1>1, <2>1, <2>2, <2>3 DEF Stops
<1> QED BY <1>4, <1>5, <1>6, <1>7, <1>8, <1>9, <1>10, <1>11, <1>12 DEF ControlStep

(* ---- the passes ---- *)

\* Nothing is left to send of an empty set.
LEMMA EndsEmpty ==
    ASSUME NEW s \in Seq(Nat)
    PROVE  Ends(s, {})
<1>1. Len(s) \in Nat /\ Len(s)+1..Len(s) = {} OBVIOUS
<1> QED BY <1>1 DEF Ends

\* The next object of the plan goes behind those before it.
LEMMA EndsAppend ==
    ASSUME NEW s \in Seq(Nat), NEW S, NEW x \in Nat, Ends(s, S), \A y \in S : y \in Nat /\ y < x
    PROVE  Ends(Append(s, x), S \cup {x})
<1> DEFINE l == Len(s)
           z == Append(s, x)
<1>1. PICK k \in 0..l : /\ {s[i] : i \in k+1..l} = S
                        /\ \A i, j \in k+1..l : i < j => s[i] < s[j]
  BY DEF Ends
<1>2. l \in Nat /\ Len(z) = l + 1 /\ z[l+1] = x /\ \A i \in 1..l : z[i] = s[i] OBVIOUS
<1> HIDE DEF l, z
<1>3. \A i \in k+1..l+1 : i = l + 1 \/ (i \in k+1..l /\ i \in 1..l) BY <1>2
<1>4. \A i \in k+1..l : i \in k+1..l+1 /\ i \in 1..l BY <1>2
<1>5. l + 1 \in k+1..l+1 BY <1>2
<1>6. {z[i] : i \in k+1..l+1} = S \cup {x} BY <1>1, <1>2, <1>3, <1>4, <1>5
<1>7. ASSUME NEW i \in k+1..l+1, NEW j \in k+1..l+1, i < j PROVE z[i] < z[j]
  <2>1. i \in k+1..l /\ i \in 1..l /\ z[i] = s[i] /\ s[i] \in S BY <1>1, <1>2, <1>3, <1>7
  <2>2. CASE j = l + 1 BY <1>2, <2>1, <2>2
  <2>3. CASE j \in k+1..l /\ j \in 1..l BY <1>1, <1>2, <1>7, <2>1, <2>3
  <2> QED BY <1>3, <2>2, <2>3
<1>8. k \in 0..Len(z) /\ Len(z) = l + 1 BY <1>2
<1> QED BY <1>6, <1>7, <1>8 DEF Ends, z

\* A track is left to the downstream wait, or what was sent of it last is S.
Covered(t, S) == t \in downgraded \/ Ends(sent[t], S)

\* What a pass has dealt with: of its own tracks the objects before index, of
\* the others all.
Reached(t) == {i \in Objects(t) : t \in only => i < index}

PassScope ==
  /\ only \subseteq Range(Published) /\ downgraded \subseteq Range(Published)
  /\ done # {} => pc \in {"serve", "close", "ended"}
  /\ \A r \in done : \E t \in Range(Published) : r = RequestOf(t)

PassCovers == ~looping /\ pc = "pass" => \A t \in Range(Published) : Covered(t, Reached(t))
PassesCovered == ~looping /\ pc \in AfterPass => \A t \in Range(Published) : Covered(t, Objects(t))
DoneCovered == ~looping => \A r \in done : Covered(TrackOf(r), Objects(TrackOf(r)))

\* Objects are neither skipped nor sent out of order: a track the pass is to
\* send either is noted for later or has all its objects so far in order.
Passes == PassScope /\ PassCovers /\ PassesCovered /\ DoneCovered

\* The peer and the control stream do not disturb the passes.
LEMMA PassesControl ==
    ASSUME TypeOK, Passes, ControlStep
    PROVE  Passes'
<1>1. /\ UNCHANGED passVars /\ UNCHANGED <<autoForward, looping>>
      /\ Published' = Published
  BY ControlPlace DEF setupVars, Published
<1>2. pc' = pc \/ pc' = "ended" \/ (pc \in Announcing /\ pc' \in Announcing) BY ControlPlace
<1> USE DEF passVars
<1>3. PassScope' BY <1>1, <1>2 DEF Passes, PassScope, RequestOf, Announcing
<1>4. \A t : Reached(t)' = Reached(t) BY <1>1 DEF Reached, Objects
<1>5. \A t, S : Covered(t, S)' = Covered(t, S) BY <1>1 DEF Covered, Ends
<1>6. PassCovers' /\ PassesCovered'
  BY <1>1, <1>2, <1>4, <1>5 DEF Passes, PassCovers, PassesCovered, AfterPass, Announcing, Objects
<1>7. DoneCovered' BY <1>1, <1>5 DEF Passes, DoneCovered, TrackOf, Objects
<1> QED BY <1>3, <1>6, <1>7 DEF Passes

\* Each step of the passes keeps what they have covered.
LEMMA PassesPlan ==
    ASSUME TypeOK, Passes, PlanStep
    PROVE  Passes'
<1>1. UNCHANGED <<autoForward, looping>> /\ Published' = Published
  <2>1. UNCHANGED setupVars BY PlanPlace
  <2> QED BY <2>1 DEF setupVars, Published
<1>2. /\ sent \in [TrackSet -> Seq(Nat)] /\ index \in Nat \ {0} /\ Range(Published) \subseteq TrackSet
      /\ cycle # 0 => looping
  BY PublishedFacts DEF TypeOK, PassTypes, PlaceTypes
<1>3. \A t : Objects(t) \in SUBSET (1..Len(Plan)) /\ Objects(t)' = Objects(t) BY PlanFacts DEF Objects
<1>4. \A r : TrackOf(r)' = TrackOf(r) /\ RequestOf(r)' = RequestOf(r) BY <1>1 DEF TrackOf, RequestOf
\* The start of a pass over some of the tracks: the others are covered.
<1>5. ASSUME pc' = "pass", index' = 1, only' \subseteq Range(Published), sent' = sent,
             done' = done, done = {}, downgraded' \subseteq downgraded,
             \A t \in Range(Published) \ only' : ~looping => Covered(t, Objects(t))',
             looping' = looping
      PROVE  Passes'
  <2>1. PassScope' BY <1>1, <1>5 DEF Passes, PassScope
  <2>2. ASSUME ~looping, NEW t \in Range(Published) PROVE Covered(t, Reached(t))'
    <3>1. CASE t \in only'
      <4>1. Reached(t)' = {} BY <1>3, <1>5, <3>1 DEF Reached
      <4>2. Ends(sent[t], {}) BY <1>2, EndsEmpty
      <4> QED BY <1>5, <4>1, <4>2 DEF Covered
    <3>2. CASE t \notin only'
      <4>1. Reached(t)' = Objects(t) BY <1>3, <3>2 DEF Reached
      <4>2. Covered(t, Objects(t))' BY <1>5, <2>2, <3>2
      <4> QED BY <1>3, <4>1, <4>2 DEF Covered
    <3> QED BY <3>1, <3>2
  <2>3. PassCovers' BY <1>1, <2>2 DEF PassCovers
  <2>4. PassesCovered' /\ DoneCovered' BY <1>5 DEF PassesCovered, DoneCovered, AfterPass
  <2> QED BY <2>1, <2>3, <2>4 DEF Passes
\* A step that sends nothing and starts no pass.
<1>6. ASSUME pc' # "pass", UNCHANGED <<sent, only, done, downgraded>>,
             pc \in {"serve", "close", "ended"} => pc' \in {"serve", "close", "ended"},
             pc' \in AfterPass => looping \/ pc \in AfterPass
                                  \/ \A t \in Range(Published) : Covered(t, Objects(t))
      PROVE  Passes'
  <2>1. PassScope' BY <1>1, <1>4, <1>6 DEF Passes, PassScope
  <2>2. \A t, S : Covered(t, S)' = Covered(t, S) BY <1>6 DEF Covered, Ends
  <2>3. PassCovers' BY <1>6 DEF PassCovers
  <2>4. PassesCovered' BY <1>1, <1>3, <1>6, <2>2 DEF Passes, PassesCovered
  <2>5. DoneCovered' BY <1>1, <1>3, <1>4, <1>6, <2>2 DEF Passes, DoneCovered
  <2> QED BY <2>1, <2>3, <2>4, <2>5 DEF Passes
<1>7. CASE Accepted
  <2>1. done = {} /\ UNCHANGED <<sent, done, downgraded>> /\ pc = "published"
    BY <1>7 DEF Accepted, At, Passes, PassScope
  <2>2. CASE autoForward
    <3>1. pc' = "await" /\ UNCHANGED only BY <1>7, <2>2 DEF Accepted
    <3> QED BY <1>6, <2>1, <3>1 DEF AfterPass
  <2>3. CASE ~autoForward
    <3>1. pc' = "pass" /\ index' = 1 /\ only' = Range(Published) BY <1>7, <2>3 DEF Accepted, BeginPass
    <3> QED BY <1>1, <1>5, <2>1, <3>1
  <2> QED BY <2>2, <2>3
<1>8. CASE AwaitForward
  <2>1. done = {} /\ UNCHANGED <<sent, done, downgraded>> /\ pc = "await"
    BY <1>8 DEF AwaitForward, At, Passes, PassScope
  <2>2. CASE pc' = "pass" /\ cycle = 0
    <3>1. index' = 1 /\ only' = Range(Published) BY <1>8, <2>2 DEF AwaitForward, BeginPass
    <3> QED BY <1>1, <1>5, <2>1, <2>2, <3>1
  <2>3. CASE cycle # 0
    <3>1. looping /\ looping' BY <1>1, <1>2, <2>3
    <3>2. only' \in {only, Range(Published)} /\ pc' \in {"pass", "finish"}
      BY <1>8 DEF AwaitForward, BeginPass
    <3>3. PassScope' BY <1>1, <2>1, <3>2 DEF Passes, PassScope
    <3> QED BY <3>1, <3>3 DEF Passes, PassCovers, PassesCovered, DoneCovered
  <2>4. cycle # 0 \/ (pc' = "pass" /\ cycle = 0) BY <1>8 DEF AwaitForward, BeginPass
  <2> QED BY <2>2, <2>3, <2>4
<1>9. CASE PassStep
  <2> DEFINE u == Plan[index]
  <2>1. /\ pc = "pass" /\ pc' = "pass" /\ index <= Len(Plan) /\ index' = index + 1
        /\ UNCHANGED <<only, done>> /\ done = {}
        /\ \/ u \notin only /\ UNCHANGED <<downgraded, sent>>
           \/ u \in only /\ sent' = [sent EXCEPT ![u] = Append(@, index)] /\ UNCHANGED downgraded
           \/ u \in only /\ downgraded' = downgraded \cup {u} /\ UNCHANGED sent
    BY <1>9 DEF PassStep, At, Downgraded, Passes, PassScope
  <2>2. PassScope' BY <1>1, <2>1 DEF Passes, PassScope
  <2>3. index \in 1..Len(Plan) /\ Len(Plan) \in Nat BY <1>2, <2>1, PlanFacts
  <2>4. ASSUME ~looping, NEW t \in Range(Published) PROVE Covered(t, Reached(t))'
    <3>1. Covered(t, Reached(t)) /\ sent[t] \in Seq(Nat) /\ t \in TrackSet
      BY <1>2, <2>1, <2>4 DEF Passes, PassCovers
    <3>2. Reached(t)' = {i \in Objects(t) : t \in only => i < index + 1} BY <1>3, <2>1 DEF Reached
    <3>3. CASE t # u \/ t \notin only
      <4>1. Reached(t)' = Reached(t)
        <5>1. \A i \in Objects(t) : i \in Nat /\ (i = index => t = u) BY PlanFacts
        <5> QED BY <2>3, <3>2, <3>3, <5>1 DEF Reached
      <4>2. sent'[t] = sent[t] /\ (t \in downgraded => t \in downgraded') BY <1>2, <2>1, <3>1, <3>3
      <4> QED BY <3>1, <4>1, <4>2 DEF Covered
    <3>4. CASE t = u /\ t \in only
      <4>1. Reached(t)' = Reached(t) \cup {index}
        <5>1. index \in Objects(t) BY <2>3, <3>4, PlanFacts
        <5>2. \A i \in Objects(t) : i \in Nat BY PlanFacts
        <5>3. \A i \in Objects(t) : i < index + 1 <=> i < index \/ i = index BY <2>3, <5>2
        <5> HIDE DEF u
        <5> QED BY <3>2, <3>4, <5>1, <5>3 DEF Reached
      <4>2. \A i \in Reached(t) : i \in Nat /\ i < index BY <3>4, PlanFacts DEF Reached
      <4>3. CASE t \in downgraded' BY <4>3 DEF Covered
      <4>4. CASE t \notin downgraded'
        <5>1. sent'[t] = Append(sent[t], index) /\ t \notin downgraded BY <1>2, <2>1, <3>1, <3>4, <4>4
        <5>2. Ends(sent[t], Reached(t)) BY <3>1, <5>1 DEF Covered
        <5> HIDE DEF Reached
        <5>3. Ends(Append(sent[t], index), Reached(t) \cup {index}) BY <2>3, <3>1, <4>2, <5>2, EndsAppend
        <5> QED BY <4>1, <5>1, <5>3 DEF Covered
      <4> QED BY <4>3, <4>4
    <3> QED BY <3>3, <3>4
  <2>5. PassCovers' BY <1>1, <2>4 DEF PassCovers
  <2>6. PassesCovered' /\ DoneCovered' BY <2>1 DEF PassesCovered, DoneCovered, AfterPass
  <2> QED BY <2>2, <2>5, <2>6 DEF Passes
<1>10. CASE PassEnd
  <2>1. /\ pc = "pass" /\ index > Len(Plan) /\ UNCHANGED <<sent, only, done, downgraded>>
        /\ pc' \in {"replay", "finish", "await"} /\ (pc' = "await" => looping)
    BY <1>10 DEF PassEnd, At
  <2>2. looping \/ \A t \in Range(Published) : Covered(t, Objects(t))
    <3> SUFFICES ASSUME ~looping, NEW t \in Range(Published) PROVE Covered(t, Objects(t)) OBVIOUS
    <3>1. Reached(t) = Objects(t) BY <1>2, <1>3, <2>1, PlanFacts DEF Reached
    <3> QED BY <2>1, <3>1 DEF Passes, PassCovers
  <2> QED BY <1>6, <2>1, <2>2
<1>11. CASE Replay \/ ReplayOver BY <1>6, <1>11 DEF Replay, ReplayOver, At, passVars, AfterPass
<1>12. CASE ReplayFlipped
  <2>1. pc = "replayPoll" /\ UNCHANGED <<sent, done>> /\ done = {}
    BY <1>12 DEF ReplayFlipped, At, Passes, PassScope
  <2>2. CASE pc' # "pass"
    <3>1. UNCHANGED <<only, downgraded>> BY <1>12, <2>2 DEF ReplayFlipped, BeginPass
    <3> QED BY <1>6, <2>1, <2>2, <3>1 DEF AfterPass
  <2>3. CASE pc' = "pass"
    <3>1. only' = Flipped /\ index' = 1 /\ downgraded' = downgraded \ Flipped
      BY <1>12, <2>3 DEF ReplayFlipped, BeginPass
    <3>2. Flipped \subseteq downgraded BY DEF Flipped
    <3>3. only' \subseteq Range(Published) BY <3>1, <3>2 DEF Passes, PassScope
    <3>4. \A t \in Range(Published) \ only' : ~looping => Covered(t, Objects(t))'
      BY <1>3, <2>1, <3>1 DEF Passes, PassesCovered, Covered, AfterPass
    <3> QED BY <1>1, <1>5, <2>1, <2>3, <3>1, <3>3, <3>4
  <2> QED BY <2>2, <2>3
<1>13. CASE Finishing
  <2>1. /\ pc = "finish" /\ pc' \in {"serve", "close"} /\ UNCHANGED <<sent, only>>
        /\ done' = done \cup {RequestOf(t) : t \in Finished} /\ done = {}
        /\ downgraded' = downgraded \cup (Range(Published) \ Forwarded)
    BY <1>13 DEF Finishing, FinishStep, At, Passes, PassScope
  <2>2. Finished \subseteq Range(Published) BY DEF Finished, Forwarded
  <2>3. PassScope' BY <1>1, <1>4, <2>1, <2>2 DEF Passes, PassScope
  <2>4. ASSUME ~looping, NEW t \in Range(Published) PROVE Covered(t, Objects(t))'
    BY <1>3, <2>1, <2>4 DEF Passes, PassesCovered, Covered, AfterPass
  <2>5. PassCovers' /\ PassesCovered' BY <1>1, <2>1, <2>4 DEF PassCovers, PassesCovered
  <2>6. DoneCovered'
    <3> SUFFICES ASSUME ~looping, NEW r \in done'
                 PROVE  Covered(TrackOf(r), Objects(TrackOf(r)))'
      BY <1>1 DEF DoneCovered
    <3>1. PICK t \in Range(Published) : r = RequestOf(t) BY <2>1, <2>2
    <3>2. TrackOf(r) = t BY <3>1, PublishedFacts DEF TypeOK, PlaceTypes
    <3>3. Covered(t, Objects(t))' BY <2>4
    <3> QED BY <1>3, <1>4, <3>2, <3>3 DEF Covered
  <2> QED BY <2>3, <2>5, <2>6 DEF Passes
<1>14. CASE ServeDownstream \/ NamespaceDone
  <2>1. pc \in {"serve", "close"} /\ pc' \in {"close", "ended"} /\ UNCHANGED passVars
    BY <1>14 DEF ServeDownstream, NamespaceDone, At, End
  <2> QED BY <1>6, <2>1 DEF passVars, AfterPass
<1> QED BY <1>7, <1>8, <1>9, <1>10, <1>11, <1>12, <1>13, <1>14 DEF PlanStep

(* ---- the messages ---- *)

IsRequest(m) == m.type \in {"subscribe", "update"}

\* Of the c messages that came, those not in h are in B, in the order they came.
Numbered(B, c, h) ==
  /\ \A i \in 1..Len(B) : B[i].n \in 1..c
  /\ h \subseteq 1..c
  /\ \A k \in 1..c : k \in h \/ \E i \in 1..Len(B) : B[i].n = k
  /\ \A i, j \in 1..Len(B) : i < j => B[i].n < B[j].n

\* The requests in B are those with the odd ids from e up to p, in that order.
InOrder(B, e, p) ==
  /\ \A i \in 1..Len(B) : IsRequest(B[i]) => B[i].id >= e /\ B[i].id < p /\ B[i].id % 2 = 1
  /\ \A k \in Nat : k >= e /\ k < p /\ k % 2 = 1 =>
        \E i \in 1..Len(B) : IsRequest(B[i]) /\ B[i].id = k
  /\ \A i, j \in 1..Len(B) : i < j /\ IsRequest(B[i]) /\ IsRequest(B[j]) => B[i].id < B[j].id

\* C is B without its message k + 1.
Without(B, C, k) ==
  /\ k \in 0..Len(C) /\ Len(B) = Len(C) + 1
  /\ \A i \in 1..Len(C) : C[i] = IF i <= k THEN B[i] ELSE B[i+1]

\* A new message at the end keeps the messages complete and in order.
LEMMA NumberedAppend ==
    ASSUME NEW B \in Seq(ControlMessage), NEW m \in ControlMessage, NEW c \in Nat, NEW h,
           Numbered(B, c, h), m.n = c + 1
    PROVE  Numbered(Append(B, m), c + 1, h)
<1> DEFINE l == Len(B)
           C == Append(B, m)
<1>1. l \in Nat /\ Len(C) = l + 1 /\ C[l+1] = m /\ \A i \in 1..l : C[i] = B[i] OBVIOUS
<1>2. \A i \in 1..l : B[i].n \in 1..c BY DEF Numbered
<1>3. \A i \in 1..l+1 : i \in 1..l \/ i = l + 1 BY <1>1
<1>4. \A i \in 1..l : i \in 1..l+1 BY <1>1
<1> HIDE DEF l, C
<1>5. \A i \in 1..l+1 : C[i].n \in 1..c+1 BY <1>1, <1>2, <1>3
<1>6. h \subseteq 1..c+1 BY DEF Numbered
<1>7. ASSUME NEW k \in 1..c+1 PROVE k \in h \/ \E i \in 1..l+1 : C[i].n = k
  <2>1. CASE k = c + 1
    <3>1. l + 1 \in 1..l+1 BY <1>1
    <3> QED BY <1>1, <2>1, <3>1
  <2>2. CASE k \in 1..c
    <3>1. k \in h \/ \E i \in 1..l : B[i].n = k BY <2>2 DEF Numbered, l
    <3> QED BY <1>1, <1>4, <3>1
  <2> QED BY <2>1, <2>2
<1>8. ASSUME NEW i \in 1..l+1, NEW j \in 1..l+1, i < j PROVE C[i].n < C[j].n
  <2>1. i \in 1..l /\ C[i] = B[i] /\ B[i].n \in 1..c BY <1>1, <1>2, <1>8
  <2>2. CASE j = l + 1 BY <1>1, <2>1, <2>2
  <2>3. CASE j \in 1..l
    <3>1. B[i].n < B[j].n BY <1>8, <2>1, <2>3 DEF Numbered, l
    <3> QED BY <1>1, <2>1, <2>3, <3>1
  <2> QED BY <1>3, <2>2, <2>3
<1>9. Len(C) = l + 1 BY <1>1
<1> QED BY <1>5, <1>6, <1>7, <1>8, <1>9 DEF Numbered, C

\* Each place of C is one of B, the places up to k the same ones.
Shifted(B, C, k) ==
  /\ k + 1 \in 1..Len(B)
  /\ \A i \in 1..Len(C) : \E x \in 1..Len(B) :
       C[i] = B[x] /\ x # k + 1 /\ x = IF i <= k THEN i ELSE i + 1
  /\ \A x \in 1..Len(B) : x = k + 1 \/ \E i \in 1..Len(C) : C[i] = B[x]

\* Leaving out one message leaves the others in place.
LEMMA WithoutPlaces ==
    ASSUME NEW B \in Seq(ControlMessage), NEW C \in Seq(ControlMessage), NEW k \in Nat,
           Without(B, C, k)
    PROVE  Shifted(B, C, k)
<1>1. Len(B) \in Nat /\ Len(C) \in Nat /\ Len(B) = Len(C) + 1 /\ k <= Len(C) BY DEF Without
<1>2. ASSUME NEW i \in 1..Len(C)
      PROVE  \E x \in 1..Len(B) : C[i] = B[x] /\ x # k + 1 /\ x = IF i <= k THEN i ELSE i + 1
  <2> DEFINE x == IF i <= k THEN i ELSE i + 1
  <2>1. x \in 1..Len(B) /\ x # k + 1 BY <1>1
  <2>2. C[i] = B[x] BY DEF Without
  <2> QED BY <2>1, <2>2
<1>3. ASSUME NEW x \in 1..Len(B), x # k + 1
      PROVE  \E i \in 1..Len(C) : C[i] = B[x]
  <2> DEFINE i == IF x <= k THEN x ELSE x - 1
  <2>1. i \in 1..Len(C) /\ x = IF i <= k THEN i ELSE i + 1 BY <1>1, <1>3
  <2>2. C[i] = B[x] BY <2>1 DEF Without
  <2> QED BY <2>1, <2>2
<1> QED BY <1>1, <1>2, <1>3 DEF Shifted

\* A message that is acted on leaves the buffer for the handled ones.
LEMMA NumberedWithout ==
    ASSUME NEW B \in Seq(ControlMessage), NEW C \in Seq(ControlMessage), NEW k \in Nat,
           NEW c \in Nat, NEW h, Without(B, C, k), Numbered(B, c, h)
    PROVE  Numbered(C, c, h \cup {B[k+1].n})
<1>0. Shifted(B, C, k) BY WithoutPlaces
<1>1. /\ k + 1 \in 1..Len(B)
      /\ \A i \in 1..Len(C) : \E x \in 1..Len(B) :
              C[i] = B[x] /\ x # k + 1 /\ x = IF i <= k THEN i ELSE i + 1
      /\ \A x \in 1..Len(B) : x = k + 1 \/ \E i \in 1..Len(C) : C[i] = B[x]
  BY <1>0 DEF Shifted
<1>2. \A i \in 1..Len(C) : C[i].n \in 1..c BY <1>1 DEF Numbered
<1>3. h \cup {B[k+1].n} \subseteq 1..c BY <1>1 DEF Numbered
<1>4. \A m \in 1..c : m \in h \cup {B[k+1].n} \/ \E i \in 1..Len(C) : C[i].n = m
  <2> SUFFICES ASSUME NEW m \in 1..c, m \notin h, m # B[k+1].n
               PROVE  \E i \in 1..Len(C) : C[i].n = m
    OBVIOUS
  <2>1. PICK x \in 1..Len(B) : B[x].n = m BY DEF Numbered
  <2> QED BY <1>1, <2>1
<1>5. ASSUME NEW i \in 1..Len(C), NEW j \in 1..Len(C), i < j PROVE C[i].n < C[j].n
  <2>1. PICK x \in 1..Len(B) : C[i] = B[x] /\ x = IF i <= k THEN i ELSE i + 1 BY <1>1
  <2>2. PICK y \in 1..Len(B) : C[j] = B[y] /\ y = IF j <= k THEN j ELSE j + 1 BY <1>1
  <2>3. x < y BY <1>5, <2>1, <2>2
  <2> QED BY <2>1, <2>2, <2>3 DEF Numbered
<1> QED BY <1>2, <1>3, <1>4, <1>5 DEF Numbered

\* A message that is no request leaves the requests as they are.
LEMMA InOrderAppend ==
    ASSUME NEW B \in Seq(ControlMessage), NEW m \in ControlMessage, NEW e \in Nat, NEW p \in Nat,
           InOrder(B, e, p), p % 2 = 1, e <= p
    PROVE  /\ ~IsRequest(m) => InOrder(Append(B, m), e, p)
           /\ IsRequest(m) /\ m.id = p => InOrder(Append(B, m), e, p + 2)
<1> DEFINE l == Len(B)
           C == Append(B, m)
<1>1. l \in Nat /\ Len(C) = l + 1 /\ C[l+1] = m /\ \A i \in 1..l : C[i] = B[i] OBVIOUS
<1>2. /\ \A i \in 1..l : IsRequest(B[i]) => B[i].id >= e /\ B[i].id < p /\ B[i].id % 2 = 1
      /\ \A k \in Nat : k >= e /\ k < p /\ k % 2 = 1 =>
           \E i \in 1..l : IsRequest(B[i]) /\ B[i].id = k
      /\ \A i, j \in 1..l : i < j /\ IsRequest(B[i]) /\ IsRequest(B[j]) => B[i].id < B[j].id
  BY DEF InOrder
<1>3. \A i \in 1..l+1 : i \in 1..l \/ i = l + 1 BY <1>1
<1>4. (\A i \in 1..l : i \in 1..l+1) /\ l + 1 \in 1..l+1 BY <1>1
<1>5. \A i \in 1..l : B[i].id \in Nat BY MessageFields
<1> HIDE DEF l, C
<1>6. ASSUME ~IsRequest(m) PROVE InOrder(C, e, p)
  <2>1. \A i \in 1..l+1 : IsRequest(C[i]) => i \in 1..l /\ C[i] = B[i] BY <1>1, <1>3, <1>6
  <2>2. \A i \in 1..l+1 : IsRequest(C[i]) => C[i].id >= e /\ C[i].id < p /\ C[i].id % 2 = 1 BY <1>2, <2>1
  <2>3. \A k \in Nat : k >= e /\ k < p /\ k % 2 = 1 =>
           \E i \in 1..l+1 : IsRequest(C[i]) /\ C[i].id = k
    BY <1>1, <1>2, <1>4
  <2>4. \A i, j \in 1..l+1 : i < j /\ IsRequest(C[i]) /\ IsRequest(C[j]) => C[i].id < C[j].id BY <1>2, <2>1
  <2> QED BY <1>1, <2>2, <2>3, <2>4 DEF InOrder
<1>7. ASSUME IsRequest(m), m.id = p PROVE InOrder(C, e, p + 2)
  <2>1. ASSUME NEW i \in 1..l+1, IsRequest(C[i])
        PROVE  C[i].id >= e /\ C[i].id < p + 2 /\ C[i].id % 2 = 1
    <3>1. CASE i = l + 1 BY <1>1, <1>7, <3>1
    <3>2. CASE i \in 1..l BY <1>1, <1>2, <1>5, <2>1, <3>2
    <3> QED BY <1>3, <3>1, <3>2
  <2>2. ASSUME NEW k \in Nat, k >= e, k < p + 2, k % 2 = 1
        PROVE  \E i \in 1..l+1 : IsRequest(C[i]) /\ C[i].id = k
    <3>1. k < p \/ k = p BY <2>2
    <3>2. CASE k < p BY <1>1, <1>2, <1>4, <2>2, <3>2
    <3>3. CASE k = p BY <1>1, <1>4, <1>7, <3>3
    <3> QED BY <3>1, <3>2, <3>3
  <2>3. ASSUME NEW i \in 1..l+1, NEW j \in 1..l+1, i < j, IsRequest(C[i]), IsRequest(C[j])
        PROVE  C[i].id < C[j].id
    <3>1. i \in 1..l /\ C[i] = B[i] BY <1>1, <2>3
    <3>2. CASE j = l + 1 BY <1>1, <1>2, <1>7, <2>3, <3>1, <3>2
    <3>3. CASE j \in 1..l BY <1>1, <1>2, <2>3, <3>1, <3>3
    <3> QED BY <1>3, <3>2, <3>3
  <2> QED BY <1>1, <2>1, <2>2, <2>3 DEF InOrder
<1> QED BY <1>6, <1>7 DEF C

\* Leaving out a message that is no request keeps the requests in order.
LEMMA InOrderWithout ==
    ASSUME NEW B \in Seq(ControlMessage), NEW C \in Seq(ControlMessage), NEW k \in Nat,
           NEW e \in Nat, NEW p \in Nat, Without(B, C, k), InOrder(B, e, p), ~IsRequest(B[k+1])
    PROVE  InOrder(C, e, p)
<1>0. Shifted(B, C, k) BY WithoutPlaces
<1>1. /\ k + 1 \in 1..Len(B)
      /\ \A i \in 1..Len(C) : \E x \in 1..Len(B) :
              C[i] = B[x] /\ x # k + 1 /\ x = IF i <= k THEN i ELSE i + 1
      /\ \A x \in 1..Len(B) : x = k + 1 \/ \E i \in 1..Len(C) : C[i] = B[x]
  BY <1>0 DEF Shifted
<1>2. ASSUME NEW i \in 1..Len(C), IsRequest(C[i])
      PROVE  C[i].id >= e /\ C[i].id < p /\ C[i].id % 2 = 1
  <2>1. PICK x \in 1..Len(B) : C[i] = B[x] BY <1>1
  <2> QED BY <1>2, <2>1 DEF InOrder
<1>3. ASSUME NEW m \in Nat, m >= e, m < p, m % 2 = 1
      PROVE  \E i \in 1..Len(C) : IsRequest(C[i]) /\ C[i].id = m
  <2>1. PICK x \in 1..Len(B) : IsRequest(B[x]) /\ B[x].id = m BY <1>3 DEF InOrder
  <2> QED BY <1>1, <2>1
<1>4. ASSUME NEW i \in 1..Len(C), NEW j \in 1..Len(C), i < j, IsRequest(C[i]), IsRequest(C[j])
      PROVE  C[i].id < C[j].id
  <2>1. PICK x \in 1..Len(B) : C[i] = B[x] /\ x = IF i <= k THEN i ELSE i + 1 BY <1>1
  <2>2. PICK y \in 1..Len(B) : C[j] = B[y] /\ y = IF j <= k THEN j ELSE j + 1 BY <1>1
  <2>3. x < y BY <1>4, <2>1, <2>2
  <2> QED BY <1>4, <2>1, <2>2, <2>3 DEF InOrder
<1> QED BY <1>2, <1>3, <1>4 DEF InOrder

\* Request ids of the peer are odd, so two apart.
LEMMA OddGap ==
    ASSUME NEW a \in Nat, NEW b \in Nat, a % 2 = 1, b % 2 = 1, a < b
    PROVE  a + 2 <= b
  OBVIOUS

\* A request at the head of the buffer is the next one expected.
LEMMA InOrderHead ==
    ASSUME NEW B \in Seq(ControlMessage), NEW C \in Seq(ControlMessage),
           NEW e \in Nat, NEW p \in Nat, e % 2 = 1,
           Without(B, C, 0), InOrder(B, e, p), IsRequest(B[1])
    PROVE  B[1].id = e /\ InOrder(C, e + 2, p)
<1>1. /\ 1 \in 1..Len(B)
      /\ \A i \in 1..Len(C) : \E x \in 1..Len(B) : C[i] = B[x] /\ x = i + 1
      /\ \A x \in 1..Len(B) : x = 1 \/ \E i \in 1..Len(C) : C[i] = B[x]
  <2>1. Shifted(B, C, 0) BY WithoutPlaces
  <2>2. 0 + 1 = 1 /\ \A i \in 1..Len(C) : ~(i <= 0) OBVIOUS
  <2> QED BY <2>1, <2>2 DEF Shifted
<1>2. \A x \in 1..Len(B) : B[x].id \in Nat BY MessageFields
<1>3. B[1].id >= e /\ B[1].id < p BY <1>1 DEF InOrder
<1>4. PICK x \in 1..Len(B) : IsRequest(B[x]) /\ B[x].id = e
  <2>1. e < p BY <1>1, <1>2, <1>3
  <2> QED BY <2>1 DEF InOrder
<1>5. B[1].id = e
  <2>1. CASE x = 1 BY <1>4, <2>1
  <2>2. CASE x # 1
    <3>1. 1 < x BY <2>2
    <3>2. B[1].id < B[x].id BY <1>1, <1>4, <3>1 DEF InOrder
    <3> QED BY <1>1, <1>2, <1>3, <1>4, <3>2
  <2> QED BY <2>1, <2>2
<1>6. ASSUME NEW i \in 1..Len(C), IsRequest(C[i])
      PROVE  C[i].id >= e + 2 /\ C[i].id < p /\ C[i].id % 2 = 1
  <2>1. PICK y \in 1..Len(B) : C[i] = B[y] /\ y = i + 1 BY <1>1
  <2>2. B[1].id < B[y].id /\ B[y].id < p /\ B[y].id % 2 = 1 BY <1>1, <1>6, <2>1 DEF InOrder
  <2>3. B[y].id \in Nat BY <1>2
  <2>4. e < B[y].id BY <1>5, <2>2
  <2>5. e + 2 <= B[y].id BY <2>2, <2>3, <2>4, OddGap
  <2> QED BY <2>1, <2>2, <2>3, <2>5
<1>7. ASSUME NEW m \in Nat, m >= e + 2, m < p, m % 2 = 1
      PROVE  \E i \in 1..Len(C) : IsRequest(C[i]) /\ C[i].id = m
  <2>1. PICK y \in 1..Len(B) : IsRequest(B[y]) /\ B[y].id = m
    <3>1. m >= e BY <1>7
    <3> QED BY <1>7, <3>1 DEF InOrder
  <2>2. y # 1 BY <1>5, <1>7, <2>1
  <2> QED BY <1>1, <2>1, <2>2
<1>8. ASSUME NEW i \in 1..Len(C), NEW j \in 1..Len(C), i < j, IsRequest(C[i]), IsRequest(C[j])
      PROVE  C[i].id < C[j].id
  <2>1. PICK y \in 1..Len(B) : C[i] = B[y] /\ y = i + 1 BY <1>1
  <2>2. PICK z \in 1..Len(B) : C[j] = B[z] /\ z = j + 1 BY <1>1
  <2>3. y < z BY <1>8, <2>1, <2>2
  <2> QED BY <1>8, <2>1, <2>2, <2>3 DEF InOrder
<1> QED BY <1>5, <1>6, <1>7, <1>8 DEF InOrder

\* The places of the three parts in the buffer.
LEMMA BufferParts ==
    ASSUME NEW D \in Seq(ControlMessage), NEW P \in Seq(ControlMessage), NEW I \in Seq(ControlMessage)
    PROVE  /\ D \o P \o I \in Seq(ControlMessage)
           /\ Len(D \o P \o I) = Len(D) + Len(P) + Len(I)
           /\ \A i \in 1..Len(D \o P \o I) :
                (D \o P \o I)[i] = IF i <= Len(D) THEN D[i]
                                   ELSE IF i <= Len(D) + Len(P) THEN P[i - Len(D)]
                                   ELSE I[i - Len(D) - Len(P)]
<1>1. /\ D \o P \in Seq(ControlMessage) /\ Len(D \o P) = Len(D) + Len(P)
      /\ \A i \in 1..Len(D) + Len(P) :
           (D \o P)[i] = IF i <= Len(D) THEN D[i] ELSE P[i - Len(D)]
  BY ConcatProperties
<1> DEFINE H == D \o P
<1>2. /\ H \o I \in Seq(ControlMessage) /\ Len(H \o I) = Len(H) + Len(I)
      /\ \A i \in 1..Len(H) + Len(I) :
           (H \o I)[i] = IF i <= Len(H) THEN H[i] ELSE I[i - Len(H)]
  BY <1>1, ConcatProperties
<1>3. Len(D) \in Nat /\ Len(P) \in Nat /\ Len(I) \in Nat OBVIOUS
<1>4. \A i \in 1..Len(H) + Len(I) :
        (H \o I)[i] = IF i <= Len(D) THEN D[i]
                      ELSE IF i <= Len(D) + Len(P) THEN P[i - Len(D)]
                      ELSE I[i - Len(D) - Len(P)]
  <2> SUFFICES ASSUME NEW i \in 1..Len(H) + Len(I)
               PROVE  (H \o I)[i] = IF i <= Len(D) THEN D[i]
                                    ELSE IF i <= Len(D) + Len(P) THEN P[i - Len(D)]
                                    ELSE I[i - Len(D) - Len(P)]
    OBVIOUS
  <2>1. Len(H) = Len(D) + Len(P) BY <1>1
  <2>2. CASE i <= Len(H)
    <3>1. (H \o I)[i] = H[i] /\ i \in 1..Len(D) + Len(P) BY <1>2, <1>3, <2>1, <2>2
    <3> QED BY <1>1, <1>3, <2>1, <2>2, <3>1
  <2>3. CASE ~(i <= Len(H))
    <3>1. (H \o I)[i] = I[i - Len(H)] BY <1>2, <2>3
    <3>2. i - Len(H) = i - Len(D) - Len(P) /\ ~(i <= Len(D)) /\ ~(i <= Len(D) + Len(P)) BY <1>3, <2>1, <2>3
    <3> QED BY <3>1, <3>2
  <2> QED BY <2>2, <2>3
<1> QED BY <1>1, <1>2, <1>4

\* The buffer without the head of its middle part.
LEMMA BufferWithout ==
    ASSUME NEW D \in Seq(ControlMessage), NEW P \in Seq(ControlMessage),
           NEW I \in Seq(ControlMessage), P # <<>>
    PROVE  /\ D \o P \o I \in Seq(ControlMessage)
           /\ D \o Tail(P) \o I \in Seq(ControlMessage)
           /\ Without(D \o P \o I, D \o Tail(P) \o I, Len(D))
           /\ (D \o P \o I)[Len(D)+1] = Head(P)
<1> DEFINE B == D \o P \o I
           C == D \o Tail(P) \o I
<1>1. /\ Tail(P) \in Seq(ControlMessage) /\ Len(Tail(P)) = Len(P) - 1 /\ Len(P) \in Nat \ {0}
      /\ Head(P) = P[1] /\ \A i \in 1..(Len(P)-1) : Tail(P)[i] = P[i+1]
      /\ Len(D) \in Nat /\ Len(I) \in Nat
  BY TailFacts
<1>2. /\ B \in Seq(ControlMessage) /\ Len(B) = Len(D) + Len(P) + Len(I)
      /\ \A i \in 1..Len(B) : B[i] = IF i <= Len(D) THEN D[i]
                                     ELSE IF i <= Len(D) + Len(P) THEN P[i - Len(D)]
                                     ELSE I[i - Len(D) - Len(P)]
  BY BufferParts
<1> DEFINE T == Tail(P)
<1>3. /\ C \in Seq(ControlMessage) /\ Len(C) = Len(D) + Len(T) + Len(I)
      /\ \A i \in 1..Len(C) : C[i] = IF i <= Len(D) THEN D[i]
                                     ELSE IF i <= Len(D) + Len(T) THEN T[i - Len(D)]
                                     ELSE I[i - Len(D) - Len(T)]
  BY <1>1, BufferParts
<1> HIDE DEF B, C, T
<1>4. Len(B) = Len(C) + 1 /\ Len(D) \in 0..Len(C) /\ Len(T) = Len(P) - 1 BY <1>1, <1>2, <1>3 DEF T
<1>5. ASSUME NEW i \in 1..Len(C) PROVE C[i] = IF i <= Len(D) THEN B[i] ELSE B[i+1]
  <2>1. i \in 1..Len(B) /\ i + 1 \in 1..Len(B) BY <1>1, <1>3, <1>4
  <2>2. CASE i <= Len(D) BY <1>2, <1>3, <2>1, <2>2
  <2>3. CASE Len(D) < i /\ i <= Len(D) + Len(T)
    <3>1. C[i] = T[i - Len(D)] /\ i - Len(D) \in 1..(Len(P)-1) BY <1>1, <1>3, <1>4, <2>3
    <3>2. T[i - Len(D)] = P[(i - Len(D)) + 1] BY <1>1, <3>1 DEF T
    <3>3. B[i+1] = P[(i+1) - Len(D)] BY <1>1, <1>2, <1>4, <2>1, <2>3
    <3>4. (i - Len(D)) + 1 = (i + 1) - Len(D) BY <1>1
    <3> QED BY <1>1, <2>3, <3>1, <3>2, <3>3, <3>4
  <2>4. CASE Len(D) + Len(T) < i
    <3>1. C[i] = I[i - Len(D) - Len(T)] BY <1>1, <1>3, <1>4, <2>4
    <3>2. B[i+1] = I[(i+1) - Len(D) - Len(P)] BY <1>1, <1>2, <1>4, <2>1, <2>4
    <3>3. i - Len(D) - Len(T) = (i+1) - Len(D) - Len(P) /\ ~(i <= Len(D)) BY <1>1, <1>4, <2>4
    <3> QED BY <3>1, <3>2, <3>3
  <2> QED BY <1>1, <1>4, <2>2, <2>3, <2>4
<1>6. B[Len(D)+1] = P[1]
  <2>1. Len(D) + 1 \in 1..Len(B) /\ (Len(D) + 1) - Len(D) = 1 BY <1>1, <1>2
  <2> QED BY <1>1, <1>2, <2>1
<1> QED BY <1>1, <1>2, <1>3, <1>4, <1>5, <1>6 DEF Without, B, C, T

\* A message at the end of the last part is at the end of the buffer.
LEMMA AppendLast ==
    ASSUME NEW D \in Seq(ControlMessage), NEW P \in Seq(ControlMessage),
           NEW I \in Seq(ControlMessage), NEW m \in ControlMessage
    PROVE  D \o P \o Append(I, m) = Append(D \o P \o I, m)
  OBVIOUS

\* The buffer is the same wherever it is cut into parts.
LEMMA Rearranged ==
    ASSUME NEW D \in Seq(ControlMessage), NEW P \in Seq(ControlMessage),
           NEW I \in Seq(ControlMessage)
    PROVE  /\ D \o (P \o I) \o <<>> = D \o P \o I
           /\ <<>> \o (D \o P) \o I = D \o P \o I
           /\ \A m \in ControlMessage : Append(D, m) \o P \o I = D \o (<<m>> \o P) \o I
<1>1. D \o (P \o I) \o <<>> = D \o P \o I OBVIOUS
<1>2. <<>> \o (D \o P) \o I = D \o P \o I OBVIOUS
<1>3. ASSUME NEW m \in ControlMessage PROVE Append(D, m) \o P = D \o (<<m>> \o P) OBVIOUS
<1> QED BY <1>1, <1>2, <1>3

\* No message of the peer is lost or overtaken, and the peer's requests are
\* taken in the order of their ids.
BuffersKept ==
  /\ deferred # <<>> => pc = "acks"
  /\ result # "violation"
  /\ expected % 2 = 1 /\ peerId % 2 = 1 /\ expected <= peerId
  /\ result # "rejected" => Numbered(Buffered, count, handled)
  /\ result # "rejected" /\ draft = 16 => InOrder(Buffered, expected, peerId)

\* Reading, deferring, acting on and putting back keep the buffer whole.
LEMMA BuffersControl ==
    ASSUME TypeOK, BuffersKept, ControlStep
    PROVE  BuffersKept'
<1>1. /\ UNCHANGED <<draft, autoForward, looping>> /\ result = "none"
      /\ \/ pc' = pc /\ result' = "none"
         \/ pc' = "ended" /\ result' \in {"failure", "rejected", "violation"}
         \/ pc \in Announcing /\ pc' \in Announcing /\ result' = "none"
  BY ControlPlace DEF setupVars
<1>2. /\ inbox \in Seq(ControlMessage) /\ pending \in Seq(ControlMessage)
      /\ deferred \in Seq(ControlMessage) /\ Buffered \in Seq(ControlMessage)
      /\ count \in Nat /\ expected \in Nat /\ peerId \in Nat
  BY BufferParts DEF TypeOK, ControlTypes, Buffered
<1>3. /\ Numbered(Buffered, count, handled)
      /\ draft = 16 => InOrder(Buffered, expected, peerId)
      /\ deferred # <<>> => pc = "acks"
      /\ expected % 2 = 1 /\ peerId % 2 = 1 /\ expected <= peerId
  BY <1>1 DEF BuffersKept
\* The messages stay where they are, or move between the parts of the buffer.
<1>4. ASSUME Buffered' = Buffered, UNCHANGED <<count, handled, expected, peerId>>,
             deferred' # <<>> => pc' = "acks", result' # "violation"
      PROVE  BuffersKept'
  BY <1>1, <1>3, <1>4 DEF BuffersKept
\* A new message that is no request, or on an older draft.
<1>5. ASSUME NEW m \in ControlMessage, Post(m), UNCHANGED <<pending, deferred, handled, expected>>,
             pc' = pc, result' = result,
             \/ peerId' = peerId /\ ~IsRequest(m)
             \/ peerId' = peerId + 2 /\ (draft = 16 => IsRequest(m) /\ m.id = peerId)
      PROVE  BuffersKept'
  <2> DEFINE x == [m EXCEPT !.n = count + 1]
  <2>1. x \in ControlMessage /\ inbox' = Append(inbox, x) /\ count' = count + 1
    BY <1>5, PostFacts DEF TypeOK
  <2>2. x.n = count + 1 /\ x.type = m.type /\ x.id = m.id BY <1>5 DEF ControlMessage
  <2>3. IsRequest(x) = IsRequest(m) BY <2>2 DEF IsRequest
  <2> HIDE DEF x
  <2>4. Buffered' = Append(Buffered, x)
    <3>1. Buffered' = deferred \o pending \o Append(inbox, x) BY <1>5, <2>1 DEF Buffered
    <3> QED BY <1>2, <2>1, <3>1, AppendLast DEF Buffered
  <2>5. Numbered(Append(Buffered, x), count + 1, handled)
    <3>1. /\ Buffered \in Seq(ControlMessage) /\ x \in ControlMessage /\ count \in Nat
          /\ Numbered(Buffered, count, handled) /\ x.n = count + 1
      BY <1>2, <1>3, <2>1, <2>2
    <3> QED BY ONLY <3>1, NumberedAppend
  <2>6. peerId' % 2 = 1 /\ expected' % 2 = 1 /\ expected' <= peerId'
    <3>1. expected \in Nat /\ peerId \in Nat /\ expected % 2 = 1 /\ peerId % 2 = 1 /\ expected <= peerId
      BY <1>2, <1>3
    <3>2. expected' = expected /\ (peerId' = peerId \/ peerId' = peerId + 2) BY <1>5
    <3> QED BY ONLY <3>1, <3>2
  <2>7. draft = 16 => InOrder(Append(Buffered, x), expected, peerId')
    <3> SUFFICES ASSUME draft = 16 PROVE InOrder(Append(Buffered, x), expected, peerId') OBVIOUS
    <3>1. /\ ~IsRequest(x) => InOrder(Append(Buffered, x), expected, peerId)
          /\ IsRequest(x) /\ x.id = peerId => InOrder(Append(Buffered, x), expected, peerId + 2)
      <4>1. /\ Buffered \in Seq(ControlMessage) /\ x \in ControlMessage
            /\ expected \in Nat /\ peerId \in Nat /\ peerId % 2 = 1 /\ expected <= peerId
            /\ InOrder(Buffered, expected, peerId)
        BY <1>2, <1>3, <2>1
      <4> QED BY ONLY <4>1, InOrderAppend
    <3> QED BY <1>5, <2>2, <2>3, <3>1
  <2> QED BY <1>1, <1>3, <1>5, <2>1, <2>4, <2>5, <2>6, <2>7 DEF BuffersKept
\* A message that is no request is taken from the middle of the buffer.
<1>6. ASSUME pending # <<>>, Buffered' = deferred \o Tail(pending) \o inbox,
             handled' = handled \cup {Head(pending).n}, UNCHANGED <<count, expected, peerId>>,
             ~IsRequest(Head(pending)), deferred' # <<>> => pc' = "acks", result' # "violation"
      PROVE  BuffersKept'
  <2> DEFINE C == deferred \o Tail(pending) \o inbox
             k == Len(deferred)
  <2>1. C \in Seq(ControlMessage) /\ Without(Buffered, C, k) /\ Buffered[k+1] = Head(pending)
    BY <1>2, <1>6, BufferWithout DEF Buffered
  <2>2. k \in Nat BY <1>2
  <2> HIDE DEF C, k
  <2>3. Numbered(C, count, handled \cup {Buffered[k+1].n})
    <3>1. /\ Buffered \in Seq(ControlMessage) /\ C \in Seq(ControlMessage) /\ k \in Nat
          /\ count \in Nat /\ Without(Buffered, C, k) /\ Numbered(Buffered, count, handled)
      BY <1>2, <1>3, <2>1, <2>2
    <3> QED BY ONLY <3>1, NumberedWithout
  <2>4. draft = 16 => InOrder(C, expected, peerId)
    <3> SUFFICES ASSUME draft = 16 PROVE InOrder(C, expected, peerId) OBVIOUS
    <3>1. /\ Buffered \in Seq(ControlMessage) /\ C \in Seq(ControlMessage) /\ k \in Nat
          /\ expected \in Nat /\ peerId \in Nat /\ Without(Buffered, C, k)
          /\ InOrder(Buffered, expected, peerId) /\ ~IsRequest(Buffered[k+1])
      BY <1>2, <1>3, <1>6, <2>1, <2>2
    <3> QED BY ONLY <3>1, InOrderWithout
  <2>5. Buffered' = C BY <1>6 DEF C
  <2> QED BY <1>1, <1>3, <1>6, <2>1, <2>3, <2>4, <2>5 DEF BuffersKept
<1>7. CASE PeerSetup
  <2>1. PICK m \in ControlMessage : Post(m) /\ ~IsRequest(m)
    <3>1. Message("unknown", 0, 0, 0) \in ControlMessage /\ ~IsRequest(Message("unknown", 0, 0, 0))
      BY MessageTyped DEF MessageTypes, Message, IsRequest
    <3>2. \A limit \in PeerMaxIds : Message("setup", 0, 0, limit) \in ControlMessage
                                    /\ ~IsRequest(Message("setup", 0, 0, limit))
      BY PublishAssumption, MessageTyped DEF MessageTypes, Message, IsRequest
    <3> QED BY <1>7, <3>1, <3>2 DEF PeerSetup
  <2> QED BY <1>5, <1>7, <2>1 DEF PeerSetup, peerUnchanged
<1>8. CASE PeerOther
  <2>1. PICK m \in ControlMessage :
          /\ Post(m)
          /\ \/ peerId' = peerId /\ ~IsRequest(m)
             \/ peerId' = peerId + 2 /\ IsRequest(m) /\ m.id = peerId
    <3>1. Message("subscribe", peerId, 0, 0) \in ControlMessage
          /\ IsRequest(Message("subscribe", peerId, 0, 0)) /\ Message("subscribe", peerId, 0, 0).id = peerId
      BY <1>2, MessageTyped DEF MessageTypes, Message, IsRequest
    <3>2. \A limit \in PeerMaxIds : Message("maxid", 0, 0, limit) \in ControlMessage
                                    /\ ~IsRequest(Message("maxid", 0, 0, limit))
      BY PublishAssumption, MessageTyped DEF MessageTypes, Message, IsRequest
    <3> QED BY <1>8, <3>1, <3>2 DEF PeerOther
  <2> QED BY <1>5, <1>8, <2>1 DEF PeerOther, peerUnchanged
<1>9. CASE PeerAnswer
  <2>1. UNCHANGED <<pending, deferred, handled, expected, peerId, pc, result>>
    BY <1>9 DEF PeerAnswer, peerUnchanged
  <2>2. PICK r \in waiting, f \in {0, 1},
             kind \in {"ok", "error"} \cup IF draft >= 18 THEN {"goaway"} ELSE {} :
          LET m == Message(IF r = 0 /\ kind = "ok" THEN "nsok" ELSE kind, r, 0,
                           IF draft = 17 THEN 1 ELSE f)
          IN  IF UsesRequestStreams THEN UNCHANGED <<inbox, count>> ELSE Post(m)
    BY <1>9 DEF PeerAnswer
  <2> DEFINE type == IF r = 0 /\ kind = "ok" THEN "nsok" ELSE kind
             m == Message(type, r, 0, IF draft = 17 THEN 1 ELSE f)
  <2>3. type \in MessageTypes /\ type \notin {"subscribe", "update"} BY DEF MessageTypes
  <2>4. r \in Nat /\ (IF draft = 17 THEN 1 ELSE f) \in Nat BY DEF TypeOK, ControlTypes
  <2>5. m \in ControlMessage
    <3> HIDE DEF type
    <3> QED BY <2>3, <2>4, MessageTyped
  <2>6. ~IsRequest(m)
    <3> HIDE DEF type
    <3> QED BY <2>3 DEF Message, IsRequest
  <2>7. CASE UsesRequestStreams
    <3>1. UNCHANGED <<inbox, count>> BY <2>2, <2>7
    <3> QED BY <1>3, <1>1, <1>4, <2>1, <3>1 DEF Buffered
  <2>8. CASE ~UsesRequestStreams
    <3>1. Post(m) BY <2>2, <2>8
    <3> HIDE DEF m
    <3> QED BY <1>5, <2>1, <2>5, <2>6, <3>1
  <2> QED BY <2>7, <2>8
<1>10. CASE PeerUpdate
  <2>1. UNCHANGED <<pending, deferred, handled, expected, pc, result>> /\ peerId' = peerId + 2
    BY <1>10 DEF PeerUpdate, peerUnchanged
  <2>2. PICK r \in DOMAIN forward, f \in {0, 1} :
          LET m == Message("update", peerId, r, f)
          IN  IF UsesRequestStreams THEN UNCHANGED <<inbox, count>> ELSE Post(m)
    BY <1>10 DEF PeerUpdate
  <2> DEFINE m == Message("update", peerId, r, f)
  <2>3. m \in ControlMessage
    <3>1. r \in Nat /\ f \in Nat /\ "update" \in MessageTypes BY DEF TypeOK, ControlTypes, MessageTypes
    <3> QED BY <1>2, <3>1, MessageTyped
  <2>4. IsRequest(m) /\ m.id = peerId BY DEF Message, IsRequest
  <2>5. CASE UsesRequestStreams
    <3>1. UNCHANGED <<inbox, count>> /\ draft # 16 BY <2>2, <2>5 DEF UsesRequestStreams, TypeOK, PlaceTypes
    <3>2. Buffered' = Buffered BY <2>1, <3>1 DEF Buffered
    <3>3. peerId' % 2 = 1 /\ expected' <= peerId' BY <1>2, <1>3, <2>1
    <3> QED BY <1>1, <1>3, <2>1, <3>1, <3>2, <3>3 DEF BuffersKept
  <2>6. CASE ~UsesRequestStreams
    <3>1. Post(m) BY <2>2, <2>6
    <3> HIDE DEF m
    <3> QED BY <1>5, <2>1, <2>3, <2>4, <3>1
  <2> QED BY <2>5, <2>6
<1>11. CASE \/ PeerEnd \/ SendSetup \/ SetupTimeout \/ Namespace \/ PublishStep \/ PublishedAll
            \/ NamespaceAnswered \/ PublishAnswered \/ PollStream \/ PollStop \/ PollFin
  <2>1. /\ UNCHANGED <<inbox, pending, deferred, handled, count, expected, peerId>>
        /\ result' # "violation" /\ (pc = "acks" => pc' = "acks")
    <3>1. CASE PeerEnd BY <1>1, <3>1 DEF PeerEnd, peerUnchanged
    <3>2. CASE SendSetup \/ SetupTimeout \/ Namespace \/ PublishedAll
      BY <3>2, <1>1 DEF SendSetup, SetupTimeout, Namespace, PublishedAll, At, End, controlVars, requestVars,
         peerVars
    <3>3. CASE PublishStep BY <3>3, <1>1 DEF PublishStep, At, End, controlVars, peerVars
    <3>4. CASE NamespaceAnswered \/ PublishAnswered
      BY <3>4, <1>1 DEF NamespaceAnswered, PublishAnswered, AnswerStep, At, End, controlVars, peerVars
    <3>5. CASE PollStream \/ PollStop \/ PollFin
      BY <3>5, <1>1 DEF PollStream, PollStop, PollFin, controlVars, peerVars
    <3> QED BY <1>11, <3>1, <3>2, <3>3, <3>4, <3>5
  <2> QED BY <1>3, <1>4, <2>1 DEF Buffered
<1>12. CASE ReadControl
  <2>1. /\ pending' = pending \o inbox /\ inbox' = <<>> /\ pc' = pc /\ result' = result
        /\ UNCHANGED <<deferred, handled, count, expected, peerId>>
    BY <1>12 DEF ReadControl, requestVars, peerVars
  <2>2. Buffered' = deferred \o (pending \o inbox) \o <<>> BY <2>1 DEF Buffered
  <2>3. Buffered' = Buffered BY <1>2, <2>2, Rearranged DEF Buffered
  <2> QED BY <1>1, <1>3, <1>4, <2>1, <2>3
<1>13. CASE SetupMessage
  <2>1. deferred = <<>> /\ UNCHANGED <<deferred, inbox, count, expected, peerId>> /\ pending # <<>>
    BY <1>3, <1>13 DEF SetupMessage, At, requestVars, peerVars
  <2>2. \/ UNCHANGED <<pending, handled>> /\ result' # "violation"
        \/ /\ Head(pending).type \in {"setup", "maxid"} /\ result' = "none"
           /\ pending' = Tail(pending) /\ handled' = handled \cup {Head(pending).n}
    BY <1>1, <1>13 DEF SetupMessage, End
  <2>3. CASE UNCHANGED <<pending, handled>> /\ result' # "violation" BY <1>4, <2>1, <2>3 DEF Buffered
  <2>4. CASE /\ Head(pending).type \in {"setup", "maxid"} /\ result' = "none"
             /\ pending' = Tail(pending) /\ handled' = handled \cup {Head(pending).n}
    BY <1>6, <2>1, <2>4 DEF Buffered, IsRequest
  <2> QED BY <2>2, <2>3, <2>4
<1>14. CASE Collect
  <2> DEFINE m == Head(pending)
  <2>1. /\ pc = "acks" /\ pending # <<>> /\ UNCHANGED <<inbox, count, expected, peerId>>
        /\ \/ deferred' = Append(deferred, m) /\ pending' = Tail(pending) /\ UNCHANGED <<handled, pc, result>>
           \/ result' = "rejected" /\ deferred' = <<>>
           \/ /\ Awaited(m) /\ handled' = handled \cup {m.n} /\ result' = result
              /\ \/ pending' = deferred \o Tail(pending) /\ deferred' = <<>>
                 \/ pending' = Tail(pending) /\ UNCHANGED <<deferred, pc>>
    BY <1>14 DEF Collect, At, End, Defer, peerVars
  <2>2. m \in ControlMessage /\ Tail(pending) \in Seq(ControlMessage) /\ pending = <<m>> \o Tail(pending)
    BY <1>2, <2>1, TailFacts
  <2>3. CASE /\ deferred' = Append(deferred, m) /\ pending' = Tail(pending)
             /\ UNCHANGED <<handled, pc, result>>
    <3>1. Buffered' = Append(deferred, m) \o Tail(pending) \o inbox BY <2>1, <2>3 DEF Buffered
    <3> HIDE DEF m
    <3>2. Append(deferred, m) \o Tail(pending) \o inbox = deferred \o (<<m>> \o Tail(pending)) \o inbox
      BY <1>2, <2>2, Rearranged
    <3>3. Buffered' = Buffered BY <2>2, <3>1, <3>2 DEF Buffered
    <3> QED BY <1>1, <1>4, <2>1, <2>3, <3>3
  <2>4. CASE result' = "rejected" /\ deferred' = <<>> BY <1>3, <2>1, <2>4 DEF BuffersKept
  <2>5. CASE /\ Awaited(m) /\ handled' = handled \cup {m.n} /\ result' = result
             /\ \/ pending' = deferred \o Tail(pending) /\ deferred' = <<>>
                \/ pending' = Tail(pending) /\ UNCHANGED <<deferred, pc>>
    <3>1. ~IsRequest(m) BY <2>5 DEF Awaited, IsRequest
    <3>2. Buffered' = deferred \o Tail(pending) \o inbox
      <4>1. CASE pending' = deferred \o Tail(pending) /\ deferred' = <<>>
        <5>1. Buffered' = <<>> \o (deferred \o Tail(pending)) \o inbox BY <2>1, <4>1 DEF Buffered
        <5> QED BY <1>2, <2>2, <5>1, Rearranged
      <4>2. CASE pending' = Tail(pending) /\ UNCHANGED <<deferred, pc>> BY <2>1, <4>2 DEF Buffered
      <4> QED BY <2>5, <4>1, <4>2
    <3> QED BY <1>1, <1>6, <2>1, <2>5, <3>1, <3>2
  <2> QED BY <2>1, <2>3, <2>4, <2>5
<1>15. CASE AckTimeout
  <2>1. /\ pending' = deferred \o pending /\ deferred' = <<>> /\ result' = "failure"
        /\ UNCHANGED <<inbox, handled, count, expected, peerId>>
    BY <1>15 DEF AckTimeout, End, requestVars, peerVars
  <2>2. Buffered' = <<>> \o (deferred \o pending) \o inbox BY <2>1 DEF Buffered
  <2>3. Buffered' = Buffered BY <1>2, <2>2, Rearranged DEF Buffered
  <2> QED BY <1>4, <2>1, <2>3
<1>16. CASE PollControl
  <2>1. /\ pending # <<>> /\ Head(pending).type = "update" /\ draft = 16 /\ inbox = <<>>
        /\ pc \in {"await", "pass", "replayPoll"} /\ NextUpdate(pending) = {1}
    BY <1>16 DEF PollControl, ControlUpdate, NextUpdate, Polls
  <2>2. deferred = <<>> BY <1>3, <2>1
  <2>3. pending[1] = Head(pending) /\ RemoveAt(pending, 1) = Tail(pending) BY <1>2, <2>1, RemoveFirstFacts
  <2> DEFINE C == deferred \o Tail(pending) \o inbox
  <2>4. C \in Seq(ControlMessage) /\ Without(Buffered, C, 0) /\ Buffered[1] = Head(pending)
    <3>1. Len(deferred) = 0 /\ 0 + 1 = 1 BY <2>2
    <3>2. /\ C \in Seq(ControlMessage) /\ Without(Buffered, C, Len(deferred))
          /\ Buffered[Len(deferred)+1] = Head(pending)
      BY <1>2, <2>1, BufferWithout DEF Buffered
    <3> HIDE DEF C
    <3> QED BY <3>1, <3>2
  <2>5. IsRequest(Buffered[1]) BY <2>1, <2>4 DEF IsRequest
  <2> HIDE DEF C
  <2>6. Buffered[1].id = expected /\ InOrder(C, expected + 2, peerId)
    <3>1. /\ Buffered \in Seq(ControlMessage) /\ C \in Seq(ControlMessage)
          /\ expected \in Nat /\ peerId \in Nat /\ expected % 2 = 1 /\ Without(Buffered, C, 0)
          /\ InOrder(Buffered, expected, peerId) /\ IsRequest(Buffered[1])
      BY <1>2, <1>3, <2>1, <2>4, <2>5
    <3> QED BY ONLY <3>1, InOrderHead
  <2>7. Numbered(C, count, handled \cup {Buffered[1].n})
    <3>1. 0 \in Nat /\ 0 + 1 = 1 OBVIOUS
    <3>2. Numbered(C, count, handled \cup {Buffered[0+1].n})
      <4>1. /\ Buffered \in Seq(ControlMessage) /\ C \in Seq(ControlMessage) /\ 0 \in Nat
            /\ count \in Nat /\ Without(Buffered, C, 0) /\ Numbered(Buffered, count, handled)
        BY <1>2, <1>3, <2>4
      <4> QED BY ONLY <4>1, NumberedWithout
    <3> QED BY <3>1, <3>2
  <2>8. /\ pending' = Tail(pending) /\ handled' = handled \cup {Head(pending).n}
        /\ expected' = expected + 2 /\ UNCHANGED <<pc, result, inbox, deferred, count, peerId>>
    BY <1>16, <2>1, <2>3, <2>4, <2>6 DEF PollControl, peerVars
  <2>9. Buffered' = C BY <2>8 DEF Buffered, C
  <2>10. expected + 2 <= peerId /\ (expected + 2) % 2 = 1
    <3>1. Buffered[1].id < peerId
      <4>1. 1 \in 1..Len(Buffered)
        <5>1. Len(Buffered) = Len(C) + 1 /\ 0 \in 0..Len(C) BY <2>4 DEF Without
        <5>2. Len(C) \in Nat BY <2>4
        <5> QED BY <5>1, <5>2
      <4>2. InOrder(Buffered, expected, peerId) BY <1>3, <2>1
      <4> QED BY <2>5, <4>1, <4>2 DEF InOrder
    <3>2. /\ expected \in Nat /\ peerId \in Nat /\ expected % 2 = 1 /\ peerId % 2 = 1
          /\ expected < peerId
      BY <1>2, <1>3, <2>6, <3>1
    <3> QED BY ONLY <3>2, OddGap
  <2> QED BY <1>1, <1>3, <2>2, <2>4, <2>6, <2>7, <2>8, <2>9, <2>10 DEF BuffersKept
<1> QED BY <1>7, <1>8, <1>9, <1>10, <1>11, <1>12, <1>13, <1>14, <1>15, <1>16 DEF ControlStep

\* The passes touch no buffer of the control stream.
LEMMA BuffersPlan ==
    ASSUME TypeOK, BuffersKept, PlanStep
    PROVE  BuffersKept'
<1>1. /\ UNCHANGED <<draft, inbox, pending, deferred, handled, expected, count, peerId>>
      /\ pc # "acks" /\ result' # "violation" /\ result = "none"
  BY PlanPlace DEF setupVars, controlVars, requestVars, peerVars, AfterPass
<1>2. Buffered' = Buffered BY <1>1 DEF Buffered
<1> QED BY <1>1, <1>2 DEF BuffersKept

(* ---- the invariant holds ---- *)

ForwardInv == TypeOK /\ BuffersKept /\ Stops /\ Passes

\* The invariant holds at the start.
LEMMA InvInit == Init => ForwardInv
<1> SUFFICES ASSUME Init PROVE ForwardInv OBVIOUS
<1>1. PlaceTypes BY PublishAssumption DEF Init, PlaceTypes, Announcing
<1>2. ControlTypes BY DEF Init, ControlTypes
<1>3. PassTypes BY DEF Init, PassTypes
<1>4. BuffersKept
  <2>1. Buffered = <<>> /\ Len(Buffered) = 0 /\ 1..0 = {} BY DEF Init, Buffered
  <2>2. Numbered(Buffered, 0, {}) BY <2>1 DEF Numbered
  <2>3. InOrder(Buffered, 1, 1) BY <2>1 DEF InOrder
  <2> QED BY <2>2, <2>3 DEF Init, BuffersKept
<1>5. Stops BY DEF Init, Stops
<1>6. Passes BY DEF Init, Passes, PassScope, PassCovers, PassesCovered, DoneCovered, AfterPass
<1> QED BY <1>1, <1>2, <1>3, <1>4, <1>5, <1>6 DEF ForwardInv, TypeOK

\* Every step keeps the invariant.
LEMMA InvStep == ForwardInv /\ [Next]_vars => ForwardInv'
<1>1. ASSUME ForwardInv, ControlStep \/ PlanStep PROVE ForwardInv'
  <2>1. TypeOK'
    <3>1. PlaceTypes'
      BY <1>1, ControlPlace, PlanPlace DEF ForwardInv, TypeOK, PlaceTypes, setupVars, Announcing, AfterPass
    <3>2. ControlTypes'
      <4>1. CASE ControlStep BY <1>1, <4>1, ControlTyped DEF ForwardInv
      <4>2. CASE PlanStep
        <5>1. UNCHANGED <<controlVars, peerMax, requestVars, peerVars, waiting>>
          BY <1>1, <4>2, PlanPlace DEF ForwardInv
        <5> QED BY <1>1, <5>1 DEF ForwardInv, TypeOK, ControlTypes, controlVars, requestVars, peerVars
      <4> QED BY <1>1, <4>1, <4>2
    <3>3. PassTypes'
      <4>1. CASE ControlStep
        <5>1. UNCHANGED passVars /\ UNCHANGED setupVars BY <1>1, <4>1, ControlPlace DEF ForwardInv
        <5> QED BY <1>1, <5>1 DEF ForwardInv, TypeOK, PassTypes, passVars, setupVars
      <4>2. CASE PlanStep BY <1>1, <4>2, PassTyped DEF ForwardInv
      <4> QED BY <1>1, <4>1, <4>2
    <3> QED BY <3>1, <3>2, <3>3 DEF TypeOK
  <2>2. BuffersKept' BY <1>1, BuffersControl, BuffersPlan DEF ForwardInv
  <2>3. Stops' BY <1>1, StopsStep DEF ForwardInv
  <2>4. Passes' BY <1>1, PassesControl, PassesPlan DEF ForwardInv
  <2> QED BY <2>1, <2>2, <2>3, <2>4 DEF ForwardInv
<1>2. ASSUME ForwardInv, UNCHANGED vars PROVE ForwardInv'
  <2> USE <1>2 DEF vars, setupVars, controlVars, requestVars, passVars, peerVars
  <2>1. TypeOK' BY DEF ForwardInv, TypeOK, PlaceTypes, ControlTypes, PassTypes
  <2>2. BuffersKept' BY DEF ForwardInv, BuffersKept, Buffered
  <2>3. Stops' BY DEF ForwardInv, Stops, RequestIds, Published
  <2>4. Passes'
    <3>1. Published' = Published BY DEF Published
    <3>2. \A t : RequestOf(t)' = RequestOf(t) /\ TrackOf(t)' = TrackOf(t) /\ Objects(t)' = Objects(t)
      BY <3>1 DEF RequestOf, TrackOf, Objects
    <3>3. \A t, S : Covered(t, S)' = Covered(t, S) BY DEF Covered, Ends
    <3>4. \A t : Reached(t)' = Reached(t) BY DEF Reached, Objects
    <3> QED BY <3>1, <3>2, <3>3, <3>4
            DEF ForwardInv, Passes, PassScope, PassCovers, PassesCovered, DoneCovered
  <2> QED BY <2>1, <2>2, <2>3, <2>4 DEF ForwardInv
<1> QED BY <1>1, <1>2, StepKinds

\* Whatever the peer answers, updates, stops and leaves out, and whenever a
\* wait for it is given up, ForwardInv holds.
THEOREM ForwardInvariant == Spec => []ForwardInv
<1> QED BY InvInit, InvStep, PTL DEF Spec

\* No message of the peer is lost: what came on the control stream was acted on
\* or is buffered in the order it came, and collect_control_acknowledgements and
\* poll_draft16_control_updates never take a request ahead of an earlier one.
\* A track that got PUBLISH_DONE was sent whole and in plan order, unless it was
\* off at one of its objects, was switched on since and got no replay.
THEOREM NothingLostOrSkipped == Spec => []ForwardSound
<1>1. ForwardInv => ForwardSound
  <2> SUFFICES ASSUME ForwardInv PROVE ForwardSound OBVIOUS
  <2>1. NothingDropped
    <3> SUFFICES ASSUME result \notin {"rejected", "violation"} PROVE NothingDropped BY DEF NothingDropped
    <3>1. Numbered(Buffered, count, handled) /\ Buffered \in Seq(ControlMessage)
      BY BufferParts DEF ForwardInv, BuffersKept, TypeOK, ControlTypes, Buffered
    <3>2. DOMAIN Buffered = 1..Len(Buffered) BY <3>1
    <3>3. {m.n : m \in Range(Buffered)} = {Buffered[i].n : i \in 1..Len(Buffered)} BY <3>2 DEF Range
    <3>4. 1..count = handled \cup {Buffered[i].n : i \in 1..Len(Buffered)} BY <3>1 DEF Numbered
    <3> QED BY <3>1, <3>2, <3>3, <3>4 DEF NothingDropped, Numbered
  <2>2. RequestOrderKept BY DEF ForwardInv, BuffersKept, RequestOrderKept
  <2>3. DoneIsWhole
    <3> SUFFICES ASSUME NEW r \in done, ~looping, TrackOf(r) \notin downgraded
                 PROVE  IsSuffix(Ascending(Objects(TrackOf(r))), sent[TrackOf(r)])
      BY DEF DoneIsWhole, SentWhole
    <3> DEFINE t == TrackOf(r)
    <3>1. Ends(sent[t], Objects(t)) BY DEF ForwardInv, Passes, DoneCovered, Covered
    <3>2. PICK u \in Range(Published) : r = RequestOf(u) BY DEF ForwardInv, Passes, PassScope
    <3>3. t \in TrackSet BY <3>2, PublishedFacts DEF ForwardInv, TypeOK, PlaceTypes
    <3>4. sent[t] \in Seq(Nat) BY <3>3 DEF ForwardInv, TypeOK, PassTypes
    <3>5. Objects(t) \in SUBSET (1..Len(Plan)) /\ Len(Plan) \in Nat BY PlanFacts
    <3> HIDE DEF t
    <3> QED BY <3>1, <3>4, <3>5, EndsIsSuffix DEF t
  <2> QED BY <2>1, <2>2, <2>3 DEF ForwardSound
<1> QED BY <1>1, ForwardInvariant, PTL

\* Once the subscriber's STOP_SENDING of a published track was claimed, no step
\* sends an object of it: the updates still on their way do not switch it on.
THEOREM StoppedTracksSilent == Spec => StoppedStaysSilent
<1>1. ForwardInv /\ [Next]_vars => [\A r \in stops : sent'[TrackOf(r)] = sent[TrackOf(r)]]_vars
  <2> SUFFICES ASSUME ForwardInv, Next, NEW r \in stops
               PROVE  sent'[TrackOf(r)] = sent[TrackOf(r)]
    OBVIOUS
  <2>1. CASE ControlStep
    <3>1. UNCHANGED passVars BY <2>1, ControlPlace DEF ForwardInv
    <3> QED BY <3>1 DEF passVars
  <2>2. CASE PlanStep /\ ~PassStep
    BY <2>2 DEF PlanStep, Accepted, AwaitForward, PassEnd, Replay, ReplayOver, ReplayFlipped, Finishing,
       FinishStep, ServeDownstream, NamespaceDone, passVars
  <2>3. CASE PassStep
    <3> DEFINE t == Plan[index]
    <3>1. \/ sent' = sent
          \/ /\ t \in only /\ forward[RequestOf(t)] # 0
             /\ sent' = [sent EXCEPT ![t] = Append(@, index)]
      BY <2>3 DEF PassStep
    <3>2. r \in RequestIds /\ forward[r] = 0 /\ autoForward BY DEF ForwardInv, Stops
    <3>3. TrackOf(r) \in TrackSet /\ RequestOf(TrackOf(r)) = r BY <3>2, PublishedFacts
    <3>4. DOMAIN sent = TrackSet BY DEF ForwardInv, TypeOK, PassTypes
    <3>5. CASE t = TrackOf(r) BY <3>1, <3>2, <3>3, <3>5
    <3>6. CASE t # TrackOf(r) BY <3>1, <3>3, <3>4, <3>6
    <3> QED BY <3>5, <3>6
  <2> QED BY <2>1, <2>2, <2>3, StepKinds
<1> QED BY <1>1, ForwardInvariant, PTL DEF Spec, StoppedStaysSilent

=============================================================================
