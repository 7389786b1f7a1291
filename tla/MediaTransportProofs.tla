------------------------ MODULE MediaTransportProofs ------------------------
(* Proofs about MediaTransport, for any number of streams and any bounds:
   the type invariant; that queued media is never stranded, and the packet
   loop never activates a stream that is over (Safe); that every admitted
   byte is accounted for (Delivering, on top of Safe); that reliable writes
   keep their order (Reliable), and that the QUIC close overtakes nothing
   (all three together).  Then about its caller SubgroupSender, for any
   senders, subgroups and objects: a subgroup is reopened only by a renewal
   that follows a stop, and every stream held is usable (SenderInv). *)
EXTENDS MediaTransport, SubgroupSender, DataTheorems

(* ---- lemmas ---- *)

\* A function that differs in one place from a typed one keeps its type; the
\* only use is WithReset, which queues a reset.
LEMMA WithResetType ==
    ASSUME NEW rs \in [AllStreams -> ResetCodes \cup {NoReset}],
           NEW s \in AllStreams, NEW code \in ResetCodes
    PROVE  /\ WithReset(rs, s, code) \in [AllStreams -> ResetCodes \cup {NoReset}]
           /\ WithReset(rs, s, code)[s] # NoReset
           /\ \A t \in AllStreams : t # s => WithReset(rs, s, code)[t] = rs[t]
  BY DEF WithReset, ResetCodes, NoReset, Timeout, Cancelled

\* The clock value that stands for "no deadline" is a clock value.
LEMMA NoDeadlineType == NoDeadline \in Nat /\ NoDeadline > MaxTime
  BY ConstantAssumption DEF ConstantAssumption, NoDeadline

\* A write of which n more bytes went out is a write, with the same FIN mark.
LEMMA AdvanceType ==
    ASSUME NEW w \in PendingWrite, NEW n \in Nat
    PROVE  /\ [w EXCEPT !.offset = @ + n] \in PendingWrite
           /\ [w EXCEPT !.offset = @ + n].fin = w.fin
  BY DEF PendingWrite

HasFin(q) == \E i \in DOMAIN q : q[i].fin

\* consume() keeps a queue of writes, and adds no FIN to it.
LEMMA AfterConsumeType ==
    ASSUME NEW q \in Seq(PendingWrite), q # <<>>,
           NEW n \in 0..remaining_bytes(Head(q))
    PROVE  /\ AfterConsume(q, n) \in Seq(PendingWrite)
           /\ HasFin(AfterConsume(q, n)) => HasFin(q)
<1>1. /\ Head(q) \in PendingWrite /\ Head(q) = q[1] /\ 1 \in DOMAIN q
      /\ n \in Nat
  <2>1. Head(q) \in PendingWrite /\ Head(q) = q[1] /\ 1 \in DOMAIN q OBVIOUS
  <2>2. remaining_bytes(Head(q)) \in Int BY <2>1 DEF PendingWrite, remaining_bytes
  <2> QED BY <2>1, <2>2
<1>2. CASE n = remaining_bytes(Head(q))
  <2>1. AfterConsume(q, n) = Tail(q) BY <1>2 DEF AfterConsume
  <2>2. /\ Tail(q) \in Seq(PendingWrite)
        /\ \A i \in DOMAIN Tail(q) : i + 1 \in DOMAIN q /\ Tail(q)[i] = q[i+1]
    OBVIOUS
  <2> QED BY <2>1, <2>2 DEF HasFin
<1>3. CASE n # remaining_bytes(Head(q))
  <2> DEFINE w == [q[1] EXCEPT !.offset = @ + n]
  <2>1. AfterConsume(q, n) = [q EXCEPT ![1] = w] BY <1>3 DEF AfterConsume
  <2>2. w \in PendingWrite /\ w.fin = q[1].fin BY <1>1, AdvanceType
  <2> HIDE DEF w
  <2>3. /\ [q EXCEPT ![1] = w] \in Seq(PendingWrite)
        /\ DOMAIN [q EXCEPT ![1] = w] = DOMAIN q
        /\ \A i \in DOMAIN q : [q EXCEPT ![1] = w][i] = IF i = 1 THEN w ELSE q[i]
    BY <1>1, <2>2
  <2> QED BY <1>1, <2>1, <2>2, <2>3 DEF HasFin
<1> QED BY <1>2, <1>3

\* inspect_front() reports one of three states, and "empty" is the empty queue.
LEMMA FrontStatusCases ==
    ASSUME NEW q
    PROVE  /\ FrontStatus(q) \in {"expired", "empty", "available"}
           /\ FrontStatus(q) = "empty" => q = <<>>
           /\ FrontStatus(q) # "empty" => q # <<>>
<1>1. FrontExpired(q) => q # <<>> BY DEF FrontExpired
<1> QED BY <1>1 DEF FrontStatus

\* clear_stream() and its callers keep the types of what they touch.
LEMMA ClearStreamType ==
    ASSUME MediaTypes, NEW s \in Streams, ClearStream(s)
    PROVE  /\ queue' \in [Streams -> Seq(PendingWrite)]
           /\ subgroup_deadlines' \in [Streams -> Nat]
           /\ pending_media_activations' \subseteq Streams
           /\ media_streams_with_pending' \subseteq Streams
<1>1. queue \in [Streams -> Seq(PendingWrite)] BY DEF MediaTypes
<1>2. queue' \in [Streams -> Seq(PendingWrite)] BY <1>1 DEF ClearStream
<1> QED BY <1>2, NoDeadlineType DEF MediaTypes, ClearStream

\* clear_connection() leaves empty queues and nothing armed.
LEMMA ClearConnectionType ==
    ASSUME ClearConnection
    PROVE  /\ queue' \in [Streams -> Seq(PendingWrite)]
           /\ subgroup_deadlines' \in [Streams -> Nat]
           /\ pending_media_activations' \subseteq Streams
           /\ media_streams_with_pending' \subseteq Streams
  BY NoDeadlineType DEF ClearConnection, EmptyQueue, NoDeadlines

\* queue_delivery_timeout_locked() keeps the types of the media state.
LEMMA QueueDeliveryTimeoutType ==
    ASSUME MediaTypes, NEW s \in Streams, QueueDeliveryTimeout(s)
    PROVE  MediaTypes'
<1>1. ClearStream(s) BY DEF QueueDeliveryTimeout
<1>2. pending_resets' \in [AllStreams -> ResetCodes \cup {NoReset}]
  BY WithResetType DEF MediaTypes, QueueDeliveryTimeout, AllStreams, ResetCodes
<1> QED BY <1>1, <1>2, ClearStreamType DEF MediaTypes, QueueDeliveryTimeout

\* provide_media_data() leaves a queue of writes behind, whatever it sent.
LEMMA RestType ==
    ASSUME MediaTypes, NEW s \in Streams, NEW n, CanSend(s, n)
    PROVE  /\ queue[s] # <<>>
           /\ Rest(queue[s], n) \in Seq(PendingWrite)
           /\ [queue EXCEPT ![s] = Rest(queue[s], n)] \in [Streams -> Seq(PendingWrite)]
           /\ HasFin(Rest(queue[s], n)) => HasFin(queue[s])
           /\ SendsFin(Head(queue[s]), n) => Rest(queue[s], n) = <<>> /\ HasFin(queue[s])
<1>1. queue \in [Streams -> Seq(PendingWrite)] BY DEF MediaTypes
<1>2. n \in 0..remaining_bytes(Head(queue[s])) /\ queue[s] # <<>> BY FrontStatusCases DEF CanSend
<1>3. CASE SendsFin(Head(queue[s]), n)
  <2>1. Rest(queue[s], n) = <<>> /\ ~HasFin(<<>>) BY <1>3 DEF Rest, HasFin
  <2>2. Head(queue[s]) = queue[s][1] /\ 1 \in DOMAIN queue[s] BY <1>1, <1>2
  <2>3. HasFin(queue[s]) BY <1>3, <2>2 DEF SendsFin, HasFin
  <2>4. [queue EXCEPT ![s] = <<>>] \in [Streams -> Seq(PendingWrite)] BY <1>1
  <2> QED BY <1>2, <2>1, <2>3, <2>4
<1>4. CASE ~SendsFin(Head(queue[s]), n) BY <1>1, <1>2, <1>4, AfterConsumeType DEF Rest
<1> QED BY <1>3, <1>4

\* fail_media_delivery() keeps the types of what it touches.
LEMMA FailMediaDeliveryType ==
    ASSUME MediaTypes, FlagTypes, NEW message \in {"activation", "picoquic"},
           FailMediaDelivery(message), UNCHANGED <<disconnected, loop_exited>>
    PROVE  MediaTypes' /\ FlagTypes'
  BY ClearConnectionType DEF MediaTypes, FlagTypes, FailMediaDelivery

\* What a step leaves alone keeps its type.
LEMMA UnchangedTypes ==
    /\ MediaTypes /\ UNCHANGED implVars => MediaTypes'
    /\ ReliableTypes /\ UNCHANGED reliableVars => ReliableTypes'
    /\ FlagTypes /\ UNCHANGED flagVars => FlagTypes'
    /\ CloseTypes /\ UNCHANGED closeVars => CloseTypes'
    /\ LoopTypes /\ UNCHANGED loopVars => LoopTypes'
    /\ QuicTypes /\ UNCHANGED quicVars => QuicTypes'
    /\ HistTypes /\ UNCHANGED histVars => HistTypes'
<1>1. MediaTypes /\ UNCHANGED implVars => MediaTypes' BY DEF MediaTypes, implVars
<1>2. ReliableTypes /\ UNCHANGED reliableVars => ReliableTypes' BY DEF ReliableTypes, reliableVars
<1>3. FlagTypes /\ UNCHANGED flagVars => FlagTypes' BY DEF FlagTypes, flagVars
<1>4. CloseTypes /\ UNCHANGED closeVars => CloseTypes' BY DEF CloseTypes, closeVars
<1>5. LoopTypes /\ UNCHANGED loopVars => LoopTypes' BY DEF LoopTypes, loopVars
<1>6. QuicTypes /\ UNCHANGED quicVars => QuicTypes' BY DEF QuicTypes, quicVars
<1>7. HistTypes /\ UNCHANGED histVars => HistTypes' BY DEF HistTypes, histVars
<1> QED BY <1>1, <1>2, <1>3, <1>4, <1>5, <1>6, <1>7

(* ---- the type invariant ---- *)

\* A new PicoquicClient has well-typed state.
LEMMA InitType == Init => TypeOK
<1> SUFFICES ASSUME Init PROVE TypeOK OBVIOUS
<1>0. /\ <<>> \in Seq(ReliableWrite)
      /\ EmptyQueue \in [Streams -> Seq(PendingWrite)]
      /\ NoDeadlines \in [Streams -> Nat]
      /\ NoResets \in [AllStreams -> ResetCodes \cup {NoReset}]
  BY NoDeadlineType DEF EmptyQueue, NoDeadlines, NoResets
<1>1. MediaTypes BY <1>0 DEF Init, MediaTypes
<1>2. ReliableTypes BY <1>0 DEF Init, ReliableTypes
<1>3. FlagTypes BY DEF Init, FlagTypes
<1>4. CloseTypes BY ConstantAssumption DEF ConstantAssumption, Init, CloseTypes
<1>5. LoopTypes BY <1>0 DEF Init, LoopTypes
<1>6. QuicTypes BY <1>0 DEF Init, QuicTypes
<1>7. HistTypes BY DEF Init, HistTypes
<1>8. 0 \in 0..MaxTime BY ConstantAssumption DEF ConstantAssumption
<1>9. now \in 0..MaxTime /\ peer_stopped_media_streams \subseteq AllStreams BY <1>8 DEF Init
<1> QED BY <1>1, <1>2, <1>3, <1>4, <1>5, <1>6, <1>7, <1>9 DEF TypeOK

\* Every step of either thread, of picoquic and of the peer keeps TypeOK.
LEMMA NextType == TypeOK /\ [Next]_vars => TypeOK'
<1> SUFFICES ASSUME TypeOK, [Next]_vars PROVE TypeOK' OBVIOUS
<1> USE UnchangedTypes DEF TypeOK
<1>1. ASSUME NEW s \in Streams, NEW size \in Sizes, NEW fin \in BOOLEAN,
             NEW od \in Deadlines, NEW sd \in Deadlines,
             TryWriteObject(s, size, fin, od, sd)
      PROVE  TypeOK'
  <2>1. size \in Nat /\ od \in Nat /\ sd \in Nat /\ admitted[s] \in Nat
    BY ConstantAssumption DEF ConstantAssumption, HistTypes
  <2>2. Write(admitted[s], size, fin, od, sd) \in PendingWrite BY <2>1 DEF Write, PendingWrite
  <2>3. queue \in [Streams -> Seq(PendingWrite)] BY DEF MediaTypes
  <2>4. queue' \in [Streams -> Seq(PendingWrite)] BY <1>1, <2>2, <2>3 DEF TryWriteObject
  <2>5. subgroup_deadlines' \in [Streams -> Nat] BY <1>1, <2>1 DEF MediaTypes, TryWriteObject, min
  <2>6. MediaTypes' BY <1>1, <2>4, <2>5 DEF MediaTypes, TryWriteObject
  <2>7. HistTypes' BY <1>1, <2>1 DEF HistTypes, TryWriteObject, AllStreams
  <2> QED BY <1>1, <2>6, <2>7 DEF TryWriteObject
<1>2. ASSUME NEW s \in Streams, NEW code \in ResetCodes, ResetStream(s, code)
      PROVE  TypeOK'
  <2>1. s \in AllStreams BY DEF AllStreams
  <2>2. MediaTypes'
    <3>1. CASE code = Timeout BY <1>2, <3>1, QueueDeliveryTimeoutType DEF ResetStream
    <3>2. CASE code # Timeout
      <4>1. pending_resets' \in [AllStreams -> ResetCodes \cup {NoReset}]
        BY <1>2, <2>1, <3>2, WithResetType DEF MediaTypes, ResetStream
      <4> QED BY <1>2, <3>2, <4>1, ClearStreamType DEF MediaTypes, ResetStream
    <3> QED BY <3>1, <3>2
  <2>3. HistTypes' BY <1>2, <2>1 DEF HistTypes, ResetStream
  <2> QED BY <1>2, <2>2, <2>3 DEF ResetStream
<1>3. ASSUME NEW s \in Streams, AcknowledgeExpired(s) PROVE TypeOK'
  BY <1>3 DEF MediaTypes, HistTypes, AcknowledgeExpired, AllStreams
<1>4. ASSUME NEW s \in AllStreams, AcknowledgePeerStopped(s) PROVE TypeOK'
  BY <1>4 DEF HistTypes, AcknowledgePeerStopped
<1>5. ASSUME NEW r \in Requests, NEW waited \in BOOLEAN, WriteStream(r, waited)
      PROVE  TypeOK'
  <2>1. [id |-> issued', stream |-> r] \in ReliableWrite /\ issued' \in Nat
    BY <1>5 DEF ReliableTypes, ReliableWrite, WriteStream
  <2>2. ReliableTypes' BY <1>5, <2>1 DEF ReliableTypes, WriteStream
  <2> QED BY <1>5, <2>2 DEF WriteStream
<1>6. ASSUME NEW t \in Timeouts, NoteDeliveryTimeout(t) PROVE TypeOK'
  <2>1. t \in Nat /\ MaxDrain \in Nat BY ConstantAssumption DEF ConstantAssumption
  <2>2. CloseTypes' BY <1>6, <2>1 DEF CloseTypes, NoteDeliveryTimeout, min, max
  <2> QED BY <1>6, <2>2 DEF NoteDeliveryTimeout
<1>7. CASE Close
  <2>1. MaxTime \in Nat BY ConstantAssumption DEF ConstantAssumption
  <2>2. CloseTypes' BY <1>7, <2>1 DEF CloseTypes, ReliableTypes, Close, min
  <2> QED BY <1>7, <2>2 DEF Close
<1>8. CASE CloseJoined
  <2>1. MediaTypes' /\ CloseTypes' BY <1>8, ClearConnectionType DEF MediaTypes, CloseTypes, CloseJoined
  <2> QED BY <1>8, <2>1 DEF CloseJoined
<1>9. CASE PassBegin
  <2>1. queue \in [Streams -> Seq(PendingWrite)] BY DEF MediaTypes
  <2>2. queue' \in [Streams -> Seq(PendingWrite)] BY <1>9, <2>1 DEF PassBegin
  <2>3. /\ subgroup_deadlines' \in [Streams -> Nat]
        /\ resets' \in [AllStreams -> ResetCodes \cup {NoReset}]
        /\ pending_resets' \in [AllStreams -> ResetCodes \cup {NoReset}]
    BY <1>9, NoDeadlineType DEF MediaTypes, PassBegin, NoResets, ResetCodes
  <2>4. MediaTypes' BY <1>9, <2>2, <2>3 DEF MediaTypes, PassBegin, Due
  <2>5. pending_writes' \in Seq(ReliableWrite) /\ writes' \in Seq(ReliableWrite)
    BY <1>9 DEF PassBegin, ReliableTypes
  <2>6. LoopTypes' BY <1>9, <2>3, <2>5 DEF LoopTypes, MediaTypes, CloseTypes, PassBegin
  <2>7. ReliableTypes' BY <1>9, <2>5 DEF ReliableTypes, PassBegin
  <2> QED BY <1>9, <2>4, <2>6, <2>7 DEF PassBegin
<1>10. CASE OfferWrite
  <2>1. Head(writes) \in ReliableWrite /\ Tail(writes) \in Seq(ReliableWrite)
    BY <1>10 DEF OfferWrite, LoopTypes
  <2>2. Head(writes).stream \in AllStreams /\ Head(writes).id \in Nat BY <2>1 DEF ReliableWrite, AllStreams
  <2>3. LoopTypes' BY <1>10, <2>1 DEF LoopTypes, OfferWrite
  <2>4. ReliableTypes'
    <3>1. handed \in Seq(ReliableWrite) /\ Append(handed, Head(writes)) \in Seq(ReliableWrite)
      BY <2>1 DEF ReliableTypes
    <3>2. handed' \in Seq(ReliableWrite) /\ dropped' \subseteq Nat
      BY <1>10, <2>2, <3>1 DEF ReliableTypes, OfferWrite
    <3> QED BY <1>10, <3>2 DEF ReliableTypes, OfferWrite
  <2>5. QuicTypes' BY <1>10, <2>2 DEF QuicTypes, OfferWrite
  <2> QED BY <1>10, <2>3, <2>4, <2>5 DEF OfferWrite
<1>11. CASE PassWrites
  <2>1. pending_writes' \in Seq(ReliableWrite) BY <1>11 DEF PassWrites, Requeue, LoopTypes, ReliableTypes
  <2>2. ReliableTypes' BY <1>11, <2>1 DEF ReliableTypes, PassWrites
  <2>3. QuicTypes' BY <1>11 DEF QuicTypes, LoopTypes, PassWrites, ApplyResets, ResetTargets
  <2>4. LoopTypes' BY <1>11 DEF LoopTypes, PassWrites
  <2> QED BY <1>11, <2>2, <2>3, <2>4 DEF PassWrites
<1>12. CASE PassResets
  <2>1. MediaTypes' BY <1>12 DEF MediaTypes, PassResets, NoResets
  <2>2. QuicTypes' BY <1>12 DEF QuicTypes, MediaTypes, PassResets, ApplyResets, ResetTargets
  <2>3. LoopTypes' BY <1>12 DEF LoopTypes, PassResets
  <2> QED BY <1>12, <2>1, <2>2, <2>3 DEF PassResets
<1>13. CASE PassClose
  <2>1. LoopTypes' /\ CloseTypes' BY <1>13 DEF LoopTypes, CloseTypes, PassClose
  <2> QED BY <1>13, <2>1 DEF PassClose
<1>14. ASSUME NEW s \in Streams, PassActivate(s) PROVE TypeOK'
  <2>1. LoopTypes' /\ QuicTypes' BY <1>14 DEF LoopTypes, QuicTypes, PassActivate
  <2>2. MediaTypes' /\ FlagTypes'
    <3>1. CASE Inspected(s) = "expired" BY <1>14, <3>1, QueueDeliveryTimeoutType DEF PassActivate, FlagTypes
    <3>2. CASE Inspected(s) = "empty" BY <1>14, <3>2 DEF PassActivate, MediaTypes, FlagTypes
    <3>3. CASE Inspected(s) = "available" /\ CanActivate(s) BY <1>14, <3>3 DEF PassActivate, FlagTypes
    <3>4. CASE Inspected(s) = "available" /\ ~CanActivate(s)
      BY <1>14, <3>4, FailMediaDeliveryType DEF PassActivate
    <3> QED BY <1>14, <3>1, <3>2, <3>3, <3>4 DEF PassActivate
  <2> QED BY <1>14, <2>1, <2>2 DEF PassActivate
<1>15. CASE PassFails
  <2>1. LoopTypes' /\ MediaTypes' /\ FlagTypes' BY <1>15, FailMediaDeliveryType DEF LoopTypes, PassFails
  <2> QED BY <1>15, <2>1 DEF PassFails
<1>16. CASE LoopEnds
  <2>1. LoopTypes' BY <1>16 DEF LoopTypes, LoopEnds
  <2> QED BY <1>16, <2>1 DEF LoopEnds
<1>17. CASE ThreadExit
  <2>1. LoopTypes' /\ MediaTypes' /\ FlagTypes'
    BY <1>17, ClearConnectionType DEF LoopTypes, MediaTypes, FlagTypes, ThreadExit
  <2> QED BY <1>17, <2>1 DEF ThreadExit
<1>18. ASSUME NEW s \in Streams, ProvideMediaData(s)
       PROVE  TypeOK'
  <2> USE DEF AllStreams
  <2>1. ASSUME ProvideExpired(s)
        PROVE  MediaTypes' /\ LoopTypes' /\ QuicTypes' /\ HistTypes'
    <3>1. MediaTypes' BY <2>1, QueueDeliveryTimeoutType DEF ProvideExpired
    <3> QED BY <1>18, <2>1, <3>1
            DEF ProvideExpired, ProvideMediaData, LoopTypes, QuicTypes, HistTypes
  <2>2. ASSUME ProvideNothing(s)
        PROVE  MediaTypes' /\ LoopTypes' /\ QuicTypes' /\ HistTypes'
    BY <1>18, <2>2 DEF ProvideNothing, ProvideMediaData, MediaTypes, LoopTypes, QuicTypes, HistTypes
  <2>3. ASSUME NEW n \in 0..Capacity, ProvideThenExpire(s, n)
        PROVE  MediaTypes' /\ LoopTypes' /\ QuicTypes' /\ HistTypes'
    <3>1. n \in Nat BY ConstantAssumption DEF ConstantAssumption
    <3>2. MediaTypes' BY <2>3, QueueDeliveryTimeoutType DEF ProvideThenExpire
    <3>3. LoopTypes' /\ QuicTypes'
      BY <1>18, <2>3 DEF ProvideThenExpire, ProvideMediaData, LoopTypes, QuicTypes
    <3>4. HistTypes' BY <1>18, <2>3, <3>1 DEF ProvideThenExpire, ProvideMediaData, HistTypes
    <3> QED BY <3>2, <3>3, <3>4
  <2>4. ASSUME NEW n \in 0..Capacity, ProvideUnlocked(s, n)
        PROVE  MediaTypes' /\ LoopTypes' /\ QuicTypes' /\ HistTypes'
    <3>1. n \in Nat BY ConstantAssumption DEF ConstantAssumption
    <3>2. queue' \in [Streams -> Seq(PendingWrite)] BY <2>4, RestType DEF ProvideUnlocked
    <3>3. MediaTypes' BY <2>4, <3>2 DEF ProvideUnlocked, MediaTypes
    <3>4. LoopTypes' BY <1>18, <2>4, <3>1 DEF ProvideUnlocked, ProvideMediaData, LoopTypes
    <3>5. QuicTypes' /\ HistTypes'
      BY <1>18, <2>4 DEF ProvideUnlocked, ProvideMediaData, QuicTypes, HistTypes
    <3> QED BY <3>3, <3>4, <3>5
  <2>5. ASSUME NEW n \in 0..Capacity, ProvideBytes(s, n)
        PROVE  MediaTypes' /\ LoopTypes' /\ QuicTypes' /\ HistTypes'
    <3>1. n \in Nat BY ConstantAssumption DEF ConstantAssumption
    <3>2. queue' \in [Streams -> Seq(PendingWrite)] BY <2>5, RestType DEF ProvideBytes
    <3>3. MediaTypes' BY <2>5, <3>2 DEF ProvideBytes, MediaTypes
    <3>4. LoopTypes' /\ QuicTypes' BY <1>18, <2>5 DEF ProvideBytes, ProvideMediaData, LoopTypes, QuicTypes
    <3>5. HistTypes' BY <1>18, <2>5, <3>1 DEF ProvideBytes, ProvideMediaData, HistTypes
    <3> QED BY <3>3, <3>4, <3>5
  <2>6. MediaTypes' /\ LoopTypes' /\ QuicTypes' /\ HistTypes'
    BY <1>18, <2>1, <2>2, <2>3, <2>4, <2>5 DEF ProvideMediaData
  <2> QED BY <1>18, <2>6 DEF ProvideMediaData
<1>19. CASE ProvideResume
  <2>1. sending \in Streams \X Nat BY <1>19 DEF ProvideResume, LoopTypes
  <2>2. LoopTypes' /\ QuicTypes' /\ HistTypes'
    BY <1>19, <2>1 DEF LoopTypes, QuicTypes, HistTypes, ProvideResume, AllStreams
  <2> QED BY <1>19, <2>2 DEF ProvideResume
<1>20. CASE ProvideFails
  <2>1. LoopTypes' /\ QuicTypes' BY <1>20 DEF LoopTypes, QuicTypes, ProvideFails
  <2>2. MediaTypes' /\ FlagTypes' BY <1>20, FailMediaDeliveryType DEF ProvideFails
  <2> QED BY <1>20, <2>1, <2>2 DEF ProvideFails
<1>21. ASSUME NEW s \in AllStreams, StopSending(s) PROVE TypeOK'
  <2>1. pending_resets' \in [AllStreams -> ResetCodes \cup {NoReset}]
    BY <1>21, WithResetType DEF MediaTypes, StopSending, ResetCodes
  <2>2. MediaTypes' BY <1>21, <2>1, ClearStreamType DEF MediaTypes, StopSending
  <2>3. QuicTypes' BY <1>21 DEF QuicTypes, StopSending
  <2> QED BY <1>21, <2>2, <2>3 DEF StopSending
<1>22. ASSUME NEW s \in Streams, StreamReleased(s) PROVE TypeOK'
  <2>1. MediaTypes' BY <1>22, ClearStreamType DEF MediaTypes, StreamReleased
  <2> QED BY <1>22, <2>1 DEF StreamReleased
<1>23. CASE ConnectionClosed
  <2>1. MediaTypes' /\ FlagTypes' /\ QuicTypes'
    BY <1>23, ClearConnectionType DEF MediaTypes, FlagTypes, QuicTypes, ConnectionClosed
  <2> QED BY <1>23, <2>1 DEF ConnectionClosed
<1>24. ASSUME NEW s \in AllStreams, Acknowledged(s) PROVE TypeOK'
  <2>1. QuicTypes' BY <1>24 DEF QuicTypes, Acknowledged
  <2> QED BY <1>24, <2>1 DEF Acknowledged
<1>25. CASE Tick BY <1>25, ConstantAssumption DEF ConstantAssumption, Tick
<1>26. CASE UNCHANGED vars BY <1>26 DEF vars
<1> QED BY <1>1, <1>2, <1>3, <1>4, <1>5, <1>6, <1>7, <1>8, <1>9, <1>10, <1>11,
     <1>12, <1>13, <1>14, <1>15, <1>16, <1>17, <1>18, <1>19, <1>20, <1>21,
     <1>22, <1>23, <1>24, <1>25, <1>26
  DEF Next, SessionStep, PassStep, PicoquicStep, Terminated

\* Every variable of the media transport keeps its type, whatever the threads,
\* picoquic and the peer do.
THEOREM TypeCorrect == Spec => []TypeOK
  BY InitType, NextType, PTL DEF Spec

(* ---- the inductive invariant and its use ---- *)

\* No more is admitted to the stream: the session ended it, was told it is
\* over, or the connection is gone.
Barred(s) ==
    \/ s \in ended \/ s \in timed_out_media_streams
    \/ s \in peer_stopped_media_streams
    \/ Failed \/ disconnected \/ closed

\* A pass starts with no activation of an earlier one left over.
PassesDisjoint == pc \in {"idle", "close", "unlocked"} => activations = {}

\* The packet loop ends only with the connection.
ExitIsOver == pc \in {"exiting", "exited"} => Failed \/ disconnected

\* A stream with a reset on its way has nothing queued and gets nothing more.
ResetIsQuiet ==
    \A s \in Streams : ResetUnderway(s) => queue[s] = <<>> /\ Barred(s)

\* A queued FIN was the session's last write, and nothing is queued behind one
\* that was sent.
FinIsQuiet ==
    \A s \in Streams :
        /\ s \in fin_sent => queue[s] = <<>> /\ s \in ended
        /\ HasFin(queue[s]) => s \in ended

\* With TypeOK, the inductive invariant.
Safe ==
    /\ PassesDisjoint /\ ExitIsOver /\ ResetIsQuiet /\ FinIsQuiet
    /\ NoStrandedMedia /\ NoFatalActivation

\* Appending a write leaves the earlier ones in place.
LEMMA LongerQueue ==
    ASSUME NEW S, NEW q \in Seq(S), NEW w \in S
    PROVE  /\ DOMAIN q = 1..Len(q) /\ DOMAIN Append(q, w) = 1..(Len(q) + 1)
           /\ Len(q) \in Nat
           /\ Append(q, w)[Len(q) + 1] = w
           /\ \A i \in 1..Len(q) : Append(q, w)[i] = q[i]
  OBVIOUS

\* A new PicoquicClient has nothing queued and no reset under way.
LEMMA InitSafe == Init => Safe
<1> SUFFICES ASSUME Init PROVE Safe OBVIOUS
<1>1. \A s \in Streams : queue[s] = <<>> /\ ~ResetUnderway(s)
  BY DEF Init, EmptyQueue, ResetUnderway, NoResets, AllStreams
<1>2. PassesDisjoint /\ ExitIsOver /\ NoFatalActivation /\ fin_sent = {}
  BY DEF Init, PassesDisjoint, ExitIsOver, NoFatalActivation
<1>3. \A s \in Streams : ~HasFin(queue[s]) BY <1>1 DEF HasFin
<1> QED BY <1>1, <1>2, <1>3 DEF Safe, ResetIsQuiet, FinIsQuiet, NoStrandedMedia

\* A step after which every queue is empty: only the bars remain to be shown.
LEMMA QuietIsSafe ==
    ASSUME \A s \in Streams : queue'[s] = <<>>,
           \A s \in Streams : ResetUnderway(s)' => Barred(s)',
           \A s \in Streams : s \in fin_sent' => s \in ended',
           PassesDisjoint', ExitIsOver', NoFatalActivation'
    PROVE  Safe'
<1>1. \A s \in Streams : ~HasFin(queue'[s]) BY DEF HasFin
<1> QED BY <1>1 DEF Safe, ResetIsQuiet, FinIsQuiet, NoStrandedMedia

\* A step that leaves the queue of a stream alone or clears it keeps what FinIsQuiet says
\* of it, unless it sends a FIN or reopens the stream.
LEMMA ClearKeepsFin ==
    ASSUME FinIsQuiet, NEW C,
           \A s \in Streams : queue'[s] = IF s \in C THEN <<>> ELSE queue[s],
           fin_sent' = fin_sent, ended \subseteq ended'
    PROVE  FinIsQuiet'
<1> SUFFICES ASSUME NEW s \in Streams
             PROVE  /\ s \in fin_sent' => queue'[s] = <<>> /\ s \in ended'
                    /\ HasFin(queue'[s]) => s \in ended'
  BY DEF FinIsQuiet
<1>1. CASE s \in C
  <2>1. queue'[s] = <<>> /\ ~HasFin(queue'[s]) BY <1>1 DEF HasFin
  <2> QED BY <2>1 DEF FinIsQuiet
<1>2. CASE s \notin C BY <1>2 DEF FinIsQuiet
<1> QED BY <1>1, <1>2

\* A step that leaves the queues alone, or clears the streams of C, strands no
\* media when only streams of C lose their wake-up.
LEMMA ClearKeepsServed ==
    ASSUME NoStrandedMedia, NEW C,
           \A s \in Streams : queue'[s] = IF s \in C THEN <<>> ELSE queue[s],
           media_streams_with_pending \ C \subseteq media_streams_with_pending',
           (pending_media_activations \cup activations \cup active) \ C
             \subseteq (pending_media_activations \cup activations \cup active)'
    PROVE  NoStrandedMedia'
  BY DEF NoStrandedMedia

\* A step that clears the streams of C may start resets for those only, and
\* must bar them.
LEMMA ClearKeepsQuiet ==
    ASSUME ResetIsQuiet, NEW C,
           \A s \in Streams : queue'[s] = IF s \in C THEN <<>> ELSE queue[s],
           \A s \in Streams : ResetUnderway(s)' => s \in C \/ ResetUnderway(s),
           \A s \in Streams : Barred(s) => Barred(s)',
           \A s \in C : ResetUnderway(s)' => Barred(s)'
    PROVE  ResetIsQuiet'
  BY DEF ResetIsQuiet

\* What clear_stream() and the delivery timeout do to the queues.
LEMMA ClearStreamEffect ==
    ASSUME MediaTypes, NEW s \in Streams, ClearStream(s)
    PROVE  /\ \A t \in Streams : queue'[t] = IF t \in {s} THEN <<>> ELSE queue[t]
           /\ media_streams_with_pending' = media_streams_with_pending \ {s}
           /\ pending_media_activations' = pending_media_activations \ {s}
<1>1. queue \in [Streams -> Seq(PendingWrite)] BY DEF MediaTypes
<1> QED BY <1>1 DEF ClearStream

\* A delivery timeout clears one stream, records it and resets no other.
LEMMA QueueDeliveryTimeoutEffect ==
    ASSUME MediaTypes, NEW s \in Streams, QueueDeliveryTimeout(s)
    PROVE  /\ ClearStream(s)
           /\ timed_out_media_streams' = timed_out_media_streams \cup {s}
           /\ \A t \in Streams : t # s => pending_resets'[t] = pending_resets[t]
<1>1. s \in AllStreams /\ Streams \subseteq AllStreams /\ Timeout \in ResetCodes
  BY DEF AllStreams, ResetCodes
<1> QED BY <1>1, WithResetType DEF MediaTypes, QueueDeliveryTimeout

\* A delivery timeout of one stream, seen by the three facts about queues: the
\* stream may be dropped from the activations and from what picoquic polls.
LEMMA TimeoutIsSafe ==
    ASSUME MediaTypes, Safe, NEW s \in Streams, QueueDeliveryTimeout(s),
           UNCHANGED <<flagVars, closed, peer_stopped_media_streams, fin_sent, reset_applied, resets, pc>>,
           ended \subseteq ended',
           activations \ {s} \subseteq activations', active \ {s} \subseteq active'
    PROVE  ResetIsQuiet' /\ FinIsQuiet' /\ NoStrandedMedia'
<1>1. /\ \A t \in Streams : queue'[t] = IF t \in {s} THEN <<>> ELSE queue[t]
      /\ media_streams_with_pending' = media_streams_with_pending \ {s}
      /\ pending_media_activations' = pending_media_activations \ {s}
  BY QueueDeliveryTimeoutEffect, ClearStreamEffect
<1>2. \A t \in Streams : ResetUnderway(t)' => t \in {s} \/ ResetUnderway(t)
  BY QueueDeliveryTimeoutEffect DEF ResetUnderway
<1>3. /\ \A t \in Streams : Barred(t) => Barred(t)'
      /\ \A t \in {s} : ResetUnderway(t)' => Barred(t)'
  BY QueueDeliveryTimeoutEffect DEF Barred, Failed, flagVars
<1>4. ResetIsQuiet' BY <1>1, <1>2, <1>3, ClearKeepsQuiet DEF Safe
<1>5. FinIsQuiet' BY <1>1, ClearKeepsFin DEF Safe
<1>6. NoStrandedMedia' BY <1>1, ClearKeepsServed DEF Safe
<1> QED BY <1>4, <1>5, <1>6

\* A step that touches neither the queues nor what serves them.
LEMMA FrameSafe ==
    ASSUME Safe, UNCHANGED <<implVars, peer_stopped_media_streams, last_error, disconnected, closed, resets,
                   activations, active, fin_sent, reset_applied, ended>>,
           pc' # pc => /\ pc \in {"close", "unlocked", "idle"}
                       /\ pc' = "idle" \/ (pc' = "exiting" /\ disconnected)
    PROVE  Safe'
<1>1. FinIsQuiet' /\ NoStrandedMedia' /\ NoFatalActivation'
  BY DEF Safe, FinIsQuiet, NoStrandedMedia, NoFatalActivation, implVars
<1>2. ResetIsQuiet' BY DEF Safe, ResetIsQuiet, ResetUnderway, Barred, Failed, implVars
<1>3. PassesDisjoint' /\ ExitIsOver' BY DEF Safe, PassesDisjoint, ExitIsOver, Failed
<1> QED BY <1>1, <1>2, <1>3 DEF Safe

\* The connection fails: nothing is queued any more and every stream is barred.
LEMMA FailIsSafe ==
    ASSUME Safe, FailMediaDelivery("picoquic"), UNCHANGED <<fin_sent, ended, activations>>,
           pc' = "exiting" \/ (pc' = "idle" /\ pc \in {"idle", "unlocked"})
    PROVE  Safe'
<1>1. \A s \in Streams : queue'[s] = <<>> BY DEF FailMediaDelivery, ClearConnection, EmptyQueue
<1>2. \A s \in Streams : Barred(s)' BY DEF FailMediaDelivery, Barred, Failed
<1>3. PassesDisjoint' /\ ExitIsOver' /\ NoFatalActivation'
  BY DEF FailMediaDelivery, Safe, PassesDisjoint, ExitIsOver, NoFatalActivation, Failed
<1> QED BY <1>1, <1>2, <1>3, QuietIsSafe DEF Safe, FinIsQuiet

\* Every step of either thread, of picoquic and of the peer keeps Safe.
LEMMA NextSafe == TypeOK /\ Safe /\ [Next]_vars => Safe'
<1> SUFFICES ASSUME TypeOK, Safe, [Next]_vars PROVE Safe' OBVIOUS
<1>q. queue \in [Streams -> Seq(PendingWrite)] BY DEF TypeOK, MediaTypes
<1>1. ASSUME NEW s \in Streams, NEW size \in Sizes, NEW fin \in BOOLEAN,
             NEW od \in Deadlines, NEW sd \in Deadlines,
             TryWriteObject(s, size, fin, od, sd)
      PROVE  Safe'
  <2> DEFINE w == Write(admitted[s], size, fin, od, sd)
  <2>1. w \in PendingWrite /\ w.fin = fin
    <3>1. size \in Nat /\ od \in Nat /\ sd \in Nat /\ admitted[s] \in Nat
      BY ConstantAssumption DEF ConstantAssumption, TypeOK, HistTypes
    <3> QED BY <3>1 DEF Write, PendingWrite
  <2>2. queue' = [queue EXCEPT ![s] = Append(@, w)] BY <1>1 DEF TryWriteObject
  <2> HIDE DEF w
  <2>3. queue'[s] = Append(queue[s], w) /\ \A t \in Streams : t # s => queue'[t] = queue[t] BY <1>q, <2>2
  <2>4. ~ResetUnderway(s) /\ s \notin fin_sent
    BY <1>1 DEF TryWriteObject, Safe, ResetIsQuiet, FinIsQuiet, Barred
  <2>5. FinIsQuiet'
    <3>1. HasFin(queue'[s]) => fin \/ HasFin(queue[s]) BY <1>q, <2>1, <2>3, LongerQueue DEF HasFin
    <3>2. fin_sent' = fin_sent /\ ended \subseteq ended' BY <1>1 DEF TryWriteObject, quicVars
    <3> QED BY <1>1, <2>3, <2>4, <3>1, <3>2 DEF TryWriteObject, Safe, FinIsQuiet
  <2>6. ResetIsQuiet'
    BY <1>1, <2>3, <2>4 DEF TryWriteObject, Safe, ResetIsQuiet, ResetUnderway, Barred, Failed, flagVars,
       closeVars, loopVars, quicVars
  <2>7. NoStrandedMedia' BY <1>1, <2>3 DEF TryWriteObject, Safe, NoStrandedMedia, loopVars, quicVars
  <2> QED BY <1>1, <2>5, <2>6, <2>7 DEF TryWriteObject, Safe, PassesDisjoint,
            ExitIsOver, NoFatalActivation, Failed, flagVars, loopVars
<1>3. ASSUME NEW s \in Streams, AcknowledgeExpired(s) PROVE Safe'
  BY <1>3 DEF AcknowledgeExpired, Safe, PassesDisjoint, ExitIsOver, ResetIsQuiet, FinIsQuiet,
     NoStrandedMedia, NoFatalActivation, ResetUnderway, Barred, Failed, flagVars, closeVars, loopVars,
     quicVars
<1>4. ASSUME NEW s \in AllStreams, AcknowledgePeerStopped(s) PROVE Safe'
  BY <1>4 DEF AcknowledgePeerStopped, Safe, PassesDisjoint, ExitIsOver, ResetIsQuiet, FinIsQuiet,
     NoStrandedMedia, NoFatalActivation, ResetUnderway, Barred, Failed, implVars, flagVars, closeVars,
     loopVars, quicVars
<1>8. CASE CloseJoined
  <2>1. \A s \in Streams : queue'[s] = <<>> BY <1>8 DEF CloseJoined, ClearConnection, EmptyQueue
  <2>2. \A s \in Streams : Barred(s)' BY <1>8 DEF CloseJoined, Barred
  <2>3. fin_sent' = fin_sent /\ ended' = ended BY <1>8 DEF CloseJoined, quicVars, histVars
  <2> QED BY <1>8, <2>1, <2>2, <2>3, QuietIsSafe
          DEF CloseJoined, Safe, FinIsQuiet, PassesDisjoint, ExitIsOver,
              NoFatalActivation, Failed, flagVars, loopVars
<1>9. CASE PassBegin
  <2>1. \A s \in Streams : queue'[s] = IF s \in Due THEN <<>> ELSE queue[s] BY <1>9 DEF PassBegin
  <2>2. \A s \in Streams : ResetUnderway(s)' => s \in Due \/ ResetUnderway(s)
    BY <1>9 DEF PassBegin, ResetUnderway, AllStreams, NoResets, quicVars
  <2>3. \A s \in Streams : Barred(s) \/ s \in Due => Barred(s)'
    BY <1>9 DEF PassBegin, Barred, Failed, flagVars, closeVars, histVars
  <2>4. ResetIsQuiet' BY <2>1, <2>2, <2>3 DEF Safe, ResetIsQuiet
  <2>5. FinIsQuiet' BY <1>9, <2>1, ClearKeepsFin DEF Safe, PassBegin, quicVars, histVars
  <2>6. NoStrandedMedia' BY <1>9, <2>1 DEF Safe, NoStrandedMedia, PassesDisjoint, PassBegin, quicVars
  <2> QED BY <1>9, <2>4, <2>5, <2>6 DEF PassBegin, Safe, PassesDisjoint,
            ExitIsOver, NoFatalActivation, flagVars
<1>2. ASSUME NEW s \in Streams, NEW code \in ResetCodes, ResetStream(s, code)
      PROVE  Safe'
  <2>1. PassesDisjoint' /\ ExitIsOver' /\ NoFatalActivation'
    BY <1>2 DEF ResetStream, Safe, PassesDisjoint, ExitIsOver, NoFatalActivation, Failed, flagVars, loopVars
  <2>2. CASE code = Timeout
    <3>1. ResetIsQuiet' /\ FinIsQuiet' /\ NoStrandedMedia'
      BY <1>2, <2>2, TimeoutIsSafe DEF ResetStream, TypeOK, closeVars, loopVars, quicVars
    <3> QED BY <2>1, <3>1 DEF Safe
  <2>3. CASE code # Timeout
    <3>1. ClearStream(s) /\ s \in AllStreams /\ Streams \subseteq AllStreams
      BY <1>2, <2>3 DEF ResetStream, AllStreams
    <3>2. /\ \A t \in Streams : queue'[t] = IF t \in {s} THEN <<>> ELSE queue[t]
          /\ media_streams_with_pending' = media_streams_with_pending \ {s}
          /\ pending_media_activations' = pending_media_activations \ {s}
      BY <3>1, ClearStreamEffect DEF TypeOK
    <3>3. \A t \in Streams : t # s => pending_resets'[t] = pending_resets[t]
      BY <1>2, <2>3, <3>1, WithResetType DEF ResetStream, TypeOK, MediaTypes
    <3>4. \A t \in Streams : ResetUnderway(t)' => t \in {s} \/ ResetUnderway(t)
      BY <1>2, <3>3 DEF ResetStream, ResetUnderway, loopVars, quicVars
    <3>5. /\ \A t \in Streams : Barred(t) => Barred(t)'
          /\ \A t \in {s} : ResetUnderway(t)' => Barred(t)'
      BY <1>2, <2>3 DEF ResetStream, Barred, Failed, flagVars, closeVars
    <3>6. ResetIsQuiet' BY <3>2, <3>4, <3>5, ClearKeepsQuiet DEF Safe
    <3>7. FinIsQuiet' BY <1>2, <3>2, ClearKeepsFin DEF Safe, ResetStream, quicVars
    <3>8. NoStrandedMedia' BY <1>2, <3>2, ClearKeepsServed DEF Safe, ResetStream, loopVars, quicVars
    <3> QED BY <2>1, <3>6, <3>7, <3>8 DEF Safe
  <2> QED BY <2>2, <2>3
<1>5. ASSUME NEW r \in Requests, NEW waited \in BOOLEAN, WriteStream(r, waited)
      PROVE  Safe'
  BY <1>5, FrameSafe DEF WriteStream, flagVars, closeVars, loopVars, quicVars, histVars
<1>6. ASSUME NEW t \in Timeouts, NoteDeliveryTimeout(t) PROVE Safe'
  BY <1>6, FrameSafe DEF NoteDeliveryTimeout, flagVars, loopVars, quicVars, histVars
<1>7. CASE Close BY <1>7, FrameSafe DEF Close, flagVars, loopVars, quicVars, histVars
<1>10. CASE OfferWrite BY <1>10, FrameSafe DEF OfferWrite, flagVars, closeVars, histVars
<1>11. CASE PassWrites
  <2>1. \A s \in Streams : s \in ResetTargets(resets) => queue[s] = <<>>
    BY <1>11 DEF PassWrites, ResetTargets, Safe, ResetIsQuiet, ResetUnderway
  <2>2. NoStrandedMedia' BY <1>11, <2>1 DEF PassWrites, ApplyResets, Safe, NoStrandedMedia, implVars
  <2>3. \A s \in Streams : ResetUnderway(s)' => ResetUnderway(s)
    BY <1>11 DEF PassWrites, ApplyResets, ResetTargets, ResetUnderway, AllStreams, implVars
  <2>4. ResetIsQuiet'
    BY <1>11, <2>3 DEF PassWrites, Safe, ResetIsQuiet, Barred, Failed, implVars, flagVars, closeVars,
       histVars
  <2>5. FinIsQuiet' BY <1>11 DEF PassWrites, Safe, FinIsQuiet, implVars, histVars
  <2> QED BY <1>11, <2>2, <2>4, <2>5 DEF PassWrites, Safe, PassesDisjoint,
            ExitIsOver, NoFatalActivation, flagVars
<1>12. CASE PassResets
  <2>1. \A s \in Streams : s \in ResetTargets(pending_resets) => queue[s] = <<>>
    BY <1>12 DEF PassResets, ResetTargets, Safe, ResetIsQuiet, ResetUnderway
  <2>2. NoStrandedMedia' BY <1>12, <2>1 DEF PassResets, ApplyResets, Safe, NoStrandedMedia
  <2>3. \A s \in Streams : ResetUnderway(s)' => ResetUnderway(s)
    BY <1>12 DEF PassResets, ApplyResets, ResetTargets, ResetUnderway, AllStreams, NoResets
  <2>4. ResetIsQuiet'
    BY <1>12, <2>3 DEF PassResets, Safe, ResetIsQuiet, Barred, Failed, flagVars, closeVars, histVars
  <2>5. FinIsQuiet' BY <1>12 DEF PassResets, Safe, FinIsQuiet, histVars
  <2> QED BY <1>12, <2>2, <2>4, <2>5 DEF PassResets, Safe, PassesDisjoint,
            ExitIsOver, NoFatalActivation, flagVars
<1>13. CASE PassClose BY <1>13, FrameSafe DEF PassClose, flagVars, quicVars, histVars
<1>14. ASSUME NEW s \in Streams, PassActivate(s) PROVE Safe'
  <2> USE DEF PassActivate
  <2>1. CASE Inspected(s) = "expired"
    <3>1. ResetIsQuiet' /\ FinIsQuiet' /\ NoStrandedMedia'
      BY <1>14, <2>1, TimeoutIsSafe DEF TypeOK, flagVars, closeVars, histVars
    <3> QED BY <1>14, <2>1, <3>1 DEF Safe, PassesDisjoint, ExitIsOver,
              NoFatalActivation, Failed
  <2>2. CASE Inspected(s) = "empty"
    <3>1. queue[s] = <<>> BY <2>2, FrontStatusCases DEF Inspected
    <3>2. NoStrandedMedia' BY <1>14, <2>2, <3>1 DEF Safe, NoStrandedMedia
    <3>3. ResetIsQuiet' /\ FinIsQuiet'
      BY <1>14, <2>2 DEF Safe, ResetIsQuiet, FinIsQuiet, ResetUnderway, Barred, Failed, closeVars, histVars
    <3> QED BY <1>14, <2>2, <3>2, <3>3 DEF Safe, PassesDisjoint, ExitIsOver,
              NoFatalActivation, Failed
  <2>3. CASE Inspected(s) = "available"
    <3>1. queue[s] # <<>> BY <2>3, FrontStatusCases DEF Inspected
    <3>2. CanActivate(s) BY <3>1 DEF CanActivate, Safe, ResetIsQuiet, ResetUnderway, FinIsQuiet
    <3>3. NoStrandedMedia' BY <1>14, <2>3, <3>2 DEF Safe, NoStrandedMedia, implVars
    <3>4. ResetIsQuiet' /\ FinIsQuiet'
      BY <1>14, <2>3, <3>2 DEF Safe, ResetIsQuiet, FinIsQuiet, ResetUnderway, Barred, Failed, implVars,
         closeVars, histVars
    <3> QED BY <1>14, <2>3, <3>2, <3>3, <3>4 DEF Safe, PassesDisjoint,
              ExitIsOver, NoFatalActivation, Failed
  <2> QED BY <2>1, <2>2, <2>3, FrontStatusCases DEF Inspected
<1>15. CASE PassFails BY <1>15, FailIsSafe DEF PassFails, quicVars, histVars
<1>16. CASE LoopEnds BY <1>16, FrameSafe DEF LoopEnds, flagVars, closeVars, quicVars, histVars
<1>17. CASE ThreadExit
  <2>1. \A s \in Streams : queue'[s] = <<>> BY <1>17 DEF ThreadExit, ClearConnection, EmptyQueue
  <2>2. \A s \in Streams : Barred(s)' BY <1>17 DEF ThreadExit, Barred, Failed, Safe, ExitIsOver
  <2> QED BY <1>17, <2>1, <2>2, QuietIsSafe
          DEF ThreadExit, Safe, FinIsQuiet, PassesDisjoint, ExitIsOver,
              NoFatalActivation, Failed, quicVars, histVars
<1>19. CASE ProvideResume BY <1>19, FrameSafe DEF ProvideResume, flagVars, closeVars
<1>20. CASE ProvideFails BY <1>20, FailIsSafe DEF ProvideFails, histVars
<1>23. CASE ConnectionClosed
  <2>1. \A s \in Streams : queue'[s] = <<>> BY <1>23 DEF ConnectionClosed, ClearConnection, EmptyQueue
  <2>2. \A s \in Streams : Barred(s)' BY <1>23 DEF ConnectionClosed, Barred
  <2> QED BY <1>23, <2>1, <2>2, QuietIsSafe
          DEF ConnectionClosed, Safe, FinIsQuiet, PassesDisjoint, ExitIsOver,
              NoFatalActivation, Failed, loopVars, histVars
<1>24. ASSUME NEW s \in AllStreams, Acknowledged(s) PROVE Safe'
  BY <1>24, FrameSafe DEF Acknowledged, flagVars, closeVars, loopVars, histVars
<1>25. CASE Tick BY <1>25, FrameSafe DEF Tick, flagVars, closeVars, loopVars, quicVars, histVars
<1>26. CASE UNCHANGED vars BY <1>26, FrameSafe DEF vars, flagVars, closeVars, loopVars, quicVars, histVars
<1>18. ASSUME NEW s \in Streams, ProvideMediaData(s) PROVE Safe'
  <2>0. PassesDisjoint' /\ ExitIsOver' /\ NoFatalActivation'
    BY <1>18 DEF ProvideMediaData, ProvideExpired, ProvideNothing, ProvideThenExpire, ProvideUnlocked,
       ProvideBytes, Safe, PassesDisjoint, ExitIsOver, NoFatalActivation, flagVars
  <2>f. UNCHANGED <<flagVars, closed, peer_stopped_media_streams, reset_applied, resets, activations,
          ended>>
    BY <1>18 DEF ProvideMediaData, closeVars
  <2>1. ASSUME ProvideExpired(s) PROVE Safe'
    BY <2>0, <2>f, <2>1, TimeoutIsSafe DEF ProvideExpired, Safe, TypeOK
  <2>2. ASSUME ProvideNothing(s) PROVE Safe'
    <3>1. queue[s] = <<>> BY <2>2, FrontStatusCases DEF ProvideNothing
    <3>2. NoStrandedMedia' BY <2>2, <2>f, <3>1 DEF ProvideNothing, Safe, NoStrandedMedia
    <3>3. ResetIsQuiet' /\ FinIsQuiet'
      BY <2>2, <2>f DEF ProvideNothing, Safe, ResetIsQuiet, FinIsQuiet, ResetUnderway, Barred, Failed,
         flagVars
    <3> QED BY <2>0, <3>2, <3>3 DEF Safe
  <2>3. ASSUME NEW n, ProvideThenExpire(s, n) PROVE Safe'
    BY <2>0, <2>f, <2>3, TimeoutIsSafe DEF ProvideThenExpire, Safe, TypeOK
  <2>4. ASSUME NEW n, ProvideUnlocked(s, n) \/ ProvideBytes(s, n) PROVE Safe'
    <3> DEFINE rest == Rest(queue[s], n)
    <3>1. CanSend(s, n) /\ queue' = [queue EXCEPT ![s] = rest] BY <2>4 DEF ProvideUnlocked, ProvideBytes
    <3>2. /\ queue[s] # <<>>
          /\ HasFin(rest) => HasFin(queue[s])
          /\ SendsFin(Head(queue[s]), n) => rest = <<>> /\ HasFin(queue[s])
      BY <3>1, RestType DEF TypeOK
    <3>4. /\ fin_sent \subseteq fin_sent'
          /\ \A t \in fin_sent' \ fin_sent : t = s /\ SendsFin(Head(queue[s]), n)
      BY <2>4 DEF ProvideUnlocked, ProvideBytes
    <3>5. /\ rest # <<>> => s \in active' /\ s \in media_streams_with_pending'
          /\ active \ {s} \subseteq active'
          /\ media_streams_with_pending \ {s} \subseteq media_streams_with_pending'
      <4>1. s \in active /\ s \in media_streams_with_pending
        BY <1>18, <3>2 DEF ProvideMediaData, Safe, NoStrandedMedia
      <4>2. CASE ProvideUnlocked(s, n) BY <4>1, <4>2 DEF ProvideUnlocked
      <4>3. CASE ProvideBytes(s, n) BY <4>1, <4>3 DEF ProvideBytes, StillActive
      <4> QED BY <2>4, <4>2, <4>3
    <3> HIDE DEF rest
    <3>6. queue'[s] = rest /\ \A t \in Streams : t # s => queue'[t] = queue[t] BY <1>q, <3>1
    <3>7. FinIsQuiet'
      <4>1. ASSUME NEW t \in Streams, t # s
            PROVE  /\ t \in fin_sent' => queue'[t] = <<>> /\ t \in ended'
                   /\ HasFin(queue'[t]) => t \in ended'
        BY <2>f, <3>4, <3>6, <4>1 DEF Safe, FinIsQuiet
      <4>2. /\ s \in fin_sent' => queue'[s] = <<>> /\ s \in ended'
            /\ HasFin(queue'[s]) => s \in ended'
        BY <2>f, <3>2, <3>4, <3>6 DEF Safe, FinIsQuiet
      <4> QED BY <4>1, <4>2 DEF FinIsQuiet
    <3>8. NoStrandedMedia'
      BY <2>4, <2>f, <3>5, <3>6 DEF ProvideUnlocked, ProvideBytes, Safe, NoStrandedMedia
    <3>9. ResetIsQuiet'
      <4>1. ~ResetUnderway(s) BY <3>2 DEF Safe, ResetIsQuiet
      <4>2. \A t \in Streams : ResetUnderway(t)' => ResetUnderway(t)
        BY <1>18, <2>4, <2>f DEF ProvideUnlocked, ProvideBytes, ProvideMediaData, ResetUnderway
      <4>3. \A t \in Streams : Barred(t) => Barred(t)'
        BY <2>4, <2>f DEF ProvideUnlocked, ProvideBytes, Barred, Failed, flagVars
      <4> QED BY <3>6, <4>1, <4>2, <4>3 DEF Safe, ResetIsQuiet
    <3> QED BY <2>0, <3>7, <3>8, <3>9 DEF Safe
  <2> QED BY <1>18, <2>1, <2>2, <2>3, <2>4 DEF ProvideMediaData
<1>21. ASSUME NEW s \in AllStreams, StopSending(s) PROVE Safe'
  <2> DEFINE C == {s} \cap Streams
  <2>1. /\ \A t \in Streams : queue'[t] = IF t \in C THEN <<>> ELSE queue[t]
        /\ media_streams_with_pending \ C \subseteq media_streams_with_pending'
        /\ pending_media_activations \ C \subseteq pending_media_activations'
    BY <1>21, ClearStreamEffect DEF StopSending, TypeOK
  <2>2. \A t \in Streams : t # s => pending_resets'[t] = pending_resets[t]
    BY <1>21, WithResetType DEF StopSending, TypeOK, MediaTypes, AllStreams, ResetCodes
  <2>3. \A t \in Streams : ResetUnderway(t)' => t \in C \/ ResetUnderway(t)
    BY <1>21, <2>2 DEF StopSending, ResetUnderway, loopVars
  <2>4. /\ \A t \in Streams : Barred(t) => Barred(t)'
        /\ \A t \in C : ResetUnderway(t)' => Barred(t)'
    BY <1>21 DEF StopSending, Barred, Failed, flagVars, closeVars, histVars
  <2>5. UNCHANGED <<fin_sent, ended, active, activations, pc, last_error, disconnected>>
    BY <1>21 DEF StopSending, flagVars, loopVars, histVars
  <2> HIDE DEF C
  <2>6. ResetIsQuiet' BY <2>1, <2>3, <2>4, ClearKeepsQuiet DEF Safe
  <2>7. FinIsQuiet' BY <2>1, <2>5, ClearKeepsFin DEF Safe
  <2>8. NoStrandedMedia' BY <2>1, <2>5, ClearKeepsServed DEF Safe
  <2> QED BY <2>5, <2>6, <2>7, <2>8 DEF Safe, PassesDisjoint, ExitIsOver,
            NoFatalActivation, Failed
<1>22. ASSUME NEW s \in Streams, StreamReleased(s) PROVE Safe'
  <2>1. /\ \A t \in Streams : queue'[t] = IF t \in {s} THEN <<>> ELSE queue[t]
        /\ media_streams_with_pending' = media_streams_with_pending \ {s}
        /\ pending_media_activations' = pending_media_activations \ {s}
    BY <1>22, ClearStreamEffect DEF StreamReleased, TypeOK
  <2>2. /\ \A t \in Streams : ResetUnderway(t)' => ResetUnderway(t)
        /\ \A t \in Streams : Barred(t) => Barred(t)'
    BY <1>22 DEF StreamReleased, ResetUnderway, Barred, Failed, flagVars, closeVars, loopVars, quicVars,
       histVars
  <2>3. UNCHANGED <<fin_sent, ended, active, activations, pc, last_error, disconnected>>
    BY <1>22 DEF StreamReleased, flagVars, loopVars, quicVars, histVars
  <2>4. ResetIsQuiet' BY <2>1, <2>2 DEF Safe, ResetIsQuiet
  <2>5. FinIsQuiet' BY <2>1, <2>3, ClearKeepsFin DEF Safe
  <2>6. NoStrandedMedia' BY <2>1, <2>3, ClearKeepsServed DEF Safe
  <2> QED BY <2>3, <2>4, <2>5, <2>6 DEF Safe, PassesDisjoint, ExitIsOver,
            NoFatalActivation, Failed
<1> QED BY <1>1, <1>2, <1>3, <1>4, <1>5, <1>6, <1>7, <1>8, <1>9, <1>10, <1>11,
     <1>12, <1>13, <1>14, <1>15, <1>16, <1>17, <1>18, <1>19, <1>20, <1>21,
     <1>22, <1>23, <1>24, <1>25, <1>26
  DEF Next, SessionStep, PassStep, PicoquicStep, Terminated

\* The inductive invariant holds throughout.
LEMMA SafeAlways == Spec => []Safe
  BY InitSafe, NextSafe, TypeCorrect, PTL DEF Spec

\* Queued media always has the packet loop's attention and is counted by the
\* close drain: the swap of the activations, the recheck, the resets and the
\* unlocked priority call lose no wake-up.
THEOREM MediaNeverStranded == Spec => []NoStrandedMedia
  BY SafeAlways, PTL DEF Safe

\* The packet loop never fails the connection by activating a stream that was
\* reset or finished since its activation was requested.
THEOREM ActivationNeverFatal == Spec => []NoFatalActivation
  BY SafeAlways, PTL DEF Safe

(* ---- every admitted byte is accounted for ---- *)

\* q is what remains of the bytes a..b: its writes follow each other without a
\* gap, only the first was begun, and a FIN is at the end.
Continues(q, a, b) ==
    q # <<>> =>
        /\ \A i \in 1..Len(q) :
             /\ q[i].offset <= q[i].size
             /\ i # 1 => q[i].offset = 0
             /\ q[i].fin => i = Len(q)
        /\ \A i \in 1..Len(q)-1 : q[i+1].start = q[i].start + q[i].size
        /\ q[1].start + q[1].offset = a
        /\ q[Len(q)].start + q[Len(q)].size = b

\* Every queue continues what picoquic was given.
QueuesContinue ==
    \A s \in Streams : Continues(queue[s], HandedOver(s), admitted[s])

Over == Failed \/ disconnected \/ closed

\* Nothing is queued on a connection that is over.
OverIsEmpty == Over => \A s \in Streams : queue[s] = <<>>

\* A stream noted as timed out has its reset on the way.
TimedOutIsReset ==
    \A s \in timed_out_media_streams : ResetUnderway(s) \/ Failed

\* The loop is recorded as ended by its last step only, and close() returns
\* after it.
ExitRecorded ==
    /\ loop_exited => pc = "exited"
    /\ closed => loop_exited

\* The stream whose bytes are held across the unlock has not been finished.
SendingIsOpen == sending # <<>> => sending[1] \notin fin_sent

\* With TypeOK and Safe, the inductive invariant for MediaAccounted.
Delivering ==
    /\ QueuesContinue /\ NoSilentTruncation /\ Accounting
    /\ OverIsEmpty /\ TimedOutIsReset /\ ExitRecorded /\ SendingIsOpen

\* The numbers of the writes of a queue.
LEMMA QueueNumbers ==
    ASSUME NEW q \in Seq(PendingWrite)
    PROVE  /\ Len(q) \in Nat /\ DOMAIN q = 1..Len(q) /\ (q = <<>> <=> Len(q) = 0)
           /\ \A i \in 1..Len(q) : /\ q[i] \in PendingWrite /\ q[i].start \in Nat
                                   /\ q[i].size \in Nat /\ q[i].offset \in Nat
<1>1. \A i \in 1..Len(q) : q[i] \in PendingWrite OBVIOUS
<1> QED BY <1>1 DEF PendingWrite

\* A write the session admits behind a queue continues it.
LEMMA AppendContinues ==
    ASSUME NEW q \in Seq(PendingWrite), NEW a \in Nat, NEW b \in Nat,
           Continues(q, a, b), q = <<>> => a = b, ~HasFin(q),
           NEW w \in PendingWrite, w.start = b, w.offset = 0
    PROVE  Continues(Append(q, w), a, b + w.size)
<1> DEFINE r == Append(q, w)
<1>1. /\ Len(r) = Len(q) + 1 /\ Len(q) \in Nat /\ DOMAIN q = 1..Len(q)
      /\ r[Len(q) + 1] = w /\ \A i \in 1..Len(q) : r[i] = q[i]
  BY QueueNumbers
<1>w. w.size \in Nat BY DEF PendingWrite
<1> HIDE DEF r
<1>2. CASE q = <<>>
  <2>1. Len(r) = 1 /\ r[1] = w /\ a = b BY <1>1, <1>2
  <2> QED BY <1>w, <2>1 DEF Continues, r
<1>3. CASE q # <<>>
  <2>0. /\ \A i \in 1..Len(q) : /\ q[i].offset <= q[i].size
                                /\ i # 1 => q[i].offset = 0
        /\ \A i \in 1..Len(q)-1 : q[i+1].start = q[i].start + q[i].size
        /\ q[1].start + q[1].offset = a
        /\ q[Len(q)].start + q[Len(q)].size = b
    BY <1>3 DEF Continues
  <2>1. Len(q) >= 1 BY <1>1, <1>3, QueueNumbers
  <2>2. \A i \in 1..Len(q) : ~q[i].fin BY <1>1 DEF HasFin
  <2>3. \A i \in 1..Len(r) : /\ r[i].offset <= r[i].size
                             /\ i # 1 => r[i].offset = 0
                             /\ r[i].fin => i = Len(r)
    <3> SUFFICES ASSUME NEW i \in 1..Len(r)
                 PROVE  /\ r[i].offset <= r[i].size
                        /\ i # 1 => r[i].offset = 0
                        /\ r[i].fin => i = Len(r)
      OBVIOUS
    <3>1. CASE i \in 1..Len(q) BY <1>1, <2>0, <2>2, <3>1
    <3>2. CASE i = Len(q) + 1 BY <1>1, <1>w, <3>2
    <3> QED BY <1>1, <3>1, <3>2
  <2>4. \A i \in 1..Len(r)-1 : r[i+1].start = r[i].start + r[i].size
    <3> SUFFICES ASSUME NEW i \in 1..Len(q)
                 PROVE  r[i+1].start = r[i].start + r[i].size
      BY <1>1
    <3>1. CASE i = Len(q) BY <1>1, <2>0, <3>1
    <3>2. CASE i # Len(q)
      <4>0. Len(q) \in Nat BY QueueNumbers
      <4>1. i \in 1..Len(q)-1 /\ i + 1 \in 1..Len(q) BY <3>2, <4>0
      <4> QED BY <1>1, <2>0, <4>1
    <3> QED BY <3>1, <3>2
  <2>5. r[1] = q[1] /\ r[Len(r)] = w BY <1>1, <2>1
  <2> QED BY <2>0, <2>3, <2>4, <2>5 DEF Continues, r
<1> QED BY <1>2, <1>3

\* What is left after n bytes of the front were copied out continues from
\* there; nothing is left only when all of it went.
LEMMA RestContinues ==
    ASSUME NEW q \in Seq(PendingWrite), q # <<>>, NEW a \in Nat, NEW b \in Nat,
           Continues(q, a, b), NEW n \in 0..remaining_bytes(Head(q))
    PROVE  /\ Continues(Rest(q, n), a + n, b)
           /\ Rest(q, n) = <<>> => a + n = b
<1>0. /\ \A i \in 1..Len(q) : /\ q[i].offset <= q[i].size
                              /\ i # 1 => q[i].offset = 0
                              /\ q[i].fin => i = Len(q)
      /\ \A i \in 1..Len(q)-1 : q[i+1].start = q[i].start + q[i].size
      /\ q[1].start + q[1].offset = a
      /\ q[Len(q)].start + q[Len(q)].size = b
  BY DEF Continues
<1>1. /\ Head(q) = q[1] /\ Len(q) \in Nat /\ Len(q) >= 1 /\ 1 \in 1..Len(q)
      /\ q[1] \in PendingWrite
  BY QueueNumbers
<1>2. /\ q[1].size \in Nat /\ q[1].offset \in Nat /\ q[1].start \in Nat
      /\ q[1].offset <= q[1].size
      /\ n \in Nat /\ n <= q[1].size - q[1].offset
  BY <1>0, <1>1 DEF PendingWrite, remaining_bytes
<1>3. CASE SendsFin(Head(q), n)
  <2>1. Rest(q, n) = <<>> /\ q[1].fin /\ n = q[1].size - q[1].offset
    BY <1>1, <1>3 DEF Rest, SendsFin, remaining_bytes
  <2>2. Len(q) = 1 BY <1>0, <1>1, <2>1
  <2>3. a + n = b BY <1>0, <1>2, <2>1, <2>2
  <2> QED BY <2>1, <2>3 DEF Continues
<1>4. CASE ~SendsFin(Head(q), n) /\ n = remaining_bytes(Head(q))
  <2> DEFINE r == Tail(q)
  <2>1. Rest(q, n) = r /\ n = q[1].size - q[1].offset BY <1>1, <1>4 DEF Rest, AfterConsume, remaining_bytes
  <2>2. /\ r \in Seq(PendingWrite) /\ Len(r) = Len(q) - 1
        /\ \A i \in 1..Len(r) : r[i] = q[i+1]
    BY <1>1
  <2> HIDE DEF r
  <2>5. a + n = q[1].start + q[1].size
    <3>1. q[1].start + q[1].offset = a BY <1>0
    <3> QED BY <1>2, <2>1, <3>1
  <2>6. r = <<>> => a + n = b
    <3>1. r = <<>> => Len(q) = 1 BY <1>1, <2>2, QueueNumbers
    <3> QED BY <1>0, <2>5, <3>1
  <2>7. ASSUME r # <<>>
        PROVE  /\ \A i \in 1..Len(r) : /\ r[i].offset <= r[i].size
                                       /\ i # 1 => r[i].offset = 0
                                       /\ r[i].fin => i = Len(r)
               /\ \A i \in 1..Len(r)-1 : r[i+1].start = r[i].start + r[i].size
               /\ r[1].start + r[1].offset = a + n
               /\ r[Len(r)].start + r[Len(r)].size = b
    <3>0. Len(r) \in Nat /\ Len(r) >= 1 /\ Len(q) = Len(r) + 1 BY <1>1, <2>2, <2>7, QueueNumbers
    <3>2. \A i \in 1..Len(r) : /\ r[i].offset <= r[i].size
                               /\ r[i].offset = 0
                               /\ r[i].fin => i = Len(r)
      <4> SUFFICES ASSUME NEW i \in 1..Len(r)
                   PROVE  /\ r[i].offset <= r[i].size /\ r[i].offset = 0
                          /\ r[i].fin => i = Len(r)
        OBVIOUS
      <4>1. i + 1 \in 1..Len(q) /\ i + 1 # 1 /\ r[i] = q[i+1] BY <2>2, <3>0
      <4> QED BY <1>0, <3>0, <4>1
    <3>3. \A i \in 1..Len(r)-1 : r[i+1].start = r[i].start + r[i].size
      <4> SUFFICES ASSUME NEW i \in 1..Len(r)-1
                   PROVE  r[i+1].start = r[i].start + r[i].size
        OBVIOUS
      <4>1. i \in 1..Len(r) /\ i+1 \in 1..Len(r) /\ i+1 \in 1..Len(q)-1 BY <3>0
      <4>2. r[i] = q[i+1] /\ r[i+1] = q[(i+1)+1] BY <2>2, <4>1
      <4>3. q[(i+1)+1].start = q[i+1].start + q[i+1].size BY <1>0, <4>1
      <4> QED BY <4>2, <4>3
    <3>5. r[1].start + r[1].offset = a + n
      <4>1. 1 \in 1..Len(r) /\ 1 \in 1..Len(q)-1 /\ 1 + 1 = 2 BY <3>0
      <4>2. r[1] = q[2] /\ q[2].start = q[1].start + q[1].size BY <1>0, <2>2, <4>1
      <4>3. r[1].offset = 0 BY <3>2, <4>1
      <4>4. r[1].start = a + n BY <2>5, <4>2
      <4> QED BY <4>3, <4>4, <1>2
    <3>6. r[Len(r)] = q[Len(q)] BY <2>2, <3>0
    <3> QED BY <1>0, <3>2, <3>3, <3>5, <3>6
  <2> QED BY <2>1, <2>6, <2>7 DEF Continues
<1>5. CASE n # remaining_bytes(Head(q))
  <2> DEFINE w == [q[1] EXCEPT !.offset = @ + n]
             r == [q EXCEPT ![1] = w]
  <2>1. Rest(q, n) = r BY <1>5 DEF Rest, AfterConsume, SendsFin
  <2>2. /\ w.start = q[1].start /\ w.size = q[1].size /\ w.fin = q[1].fin
        /\ w.offset = q[1].offset + n
    BY <1>1 DEF PendingWrite
  <2> HIDE DEF w
  <2>3. /\ Len(r) = Len(q) /\ r # <<>>
        /\ \A i \in 1..Len(q) : r[i] = IF i = 1 THEN w ELSE q[i]
    BY <1>1
  <2> HIDE DEF r
  <2>4. \A i \in 1..Len(q) : r[i].start = q[i].start /\ r[i].size = q[i].size /\ r[i].fin = q[i].fin
    BY <2>2, <2>3
  <2>5. \A i \in 1..Len(q) : r[i].offset <= r[i].size /\ (i # 1 => r[i].offset = 0)
    BY <1>0, <1>2, <2>2, <2>3
  <2>6. r[1].start + r[1].offset = a + n
    <3>1. r[1].start = q[1].start /\ r[1].offset = q[1].offset + n BY <1>1, <2>2, <2>3
    <3>2. q[1].start \in Int /\ q[1].offset \in Int /\ q[1].start + q[1].offset = a
      BY <1>0, <1>1, <1>2 DEF PendingWrite
    <3> QED BY <3>1, <3>2
  <2>7. \A i \in 1..Len(q)-1 : r[i+1].start = r[i].start + r[i].size
    <3> SUFFICES ASSUME NEW i \in 1..Len(q)-1
                 PROVE  r[i+1].start = r[i].start + r[i].size
      OBVIOUS
    <3>1. i \in 1..Len(q) /\ i + 1 \in 1..Len(q) BY <1>1
    <3> QED BY <1>0, <2>4, <3>1
  <2>8. r[Len(q)].start + r[Len(q)].size = b BY <1>0, <1>1, <2>4
  <2> QED BY <1>0, <2>1, <2>3, <2>4, <2>5, <2>6, <2>7, <2>8 DEF Continues
<1> QED BY <1>3, <1>4, <1>5

\* A queue that continues a..b holds b - a bytes: the sum clear_stream() takes
\* away telescopes.
LEMMA BytesContinue ==
    ASSUME NEW q \in Seq(PendingWrite), NEW a \in Nat, NEW b \in Nat,
           Continues(q, a, b)
    PROVE  /\ QueueBytes(q) = IF q = <<>> THEN 0 ELSE b - a
           /\ QueueBytes(q) \in Nat
<1> DEFINE f == [i \in DOMAIN q |-> remaining_bytes(q[i])]
<1>1. QueueBytes(q) = SumFunctionOnSet(f, 1..Len(q)) BY QueueNumbers DEF QueueBytes, SumFunction
<1>2. CASE q = <<>>
  <2>1. Len(q) = 0 /\ 1..Len(q) = {} BY <1>2
  <2> QED BY <1>1, <1>2, <2>1, SumEmpty
<1>3. CASE q # <<>>
  <2>0. /\ \A i \in 1..Len(q) : /\ q[i].offset <= q[i].size
                                /\ i # 1 => q[i].offset = 0
        /\ \A i \in 1..Len(q)-1 : q[i+1].start = q[i].start + q[i].size
        /\ q[1].start + q[1].offset = a
        /\ q[Len(q)].start + q[Len(q)].size = b
    BY <1>3 DEF Continues
  <2>1. Len(q) \in Nat /\ Len(q) >= 1 /\ 1 \in 1..Len(q) /\ Len(q) \in 1..Len(q) BY <1>3, QueueNumbers
  <2>2. \A i \in 1..Len(q) : /\ q[i].start \in Nat /\ q[i].size \in Nat
                             /\ q[i].offset \in Nat
                             /\ f[i] = q[i].size - q[i].offset /\ f[i] \in Nat
    BY <2>0, QueueNumbers DEF remaining_bytes
  <2> HIDE DEF f
  <2> DEFINE G == {m \in Nat : m + 1 \in 1..Len(q) =>
                      SumFunctionOnSet(f, 1..(m+1)) = (q[m+1].start + q[m+1].size) - a}
  <2>3. 0 \in G
    <3>1. 1..(0+1) = {} \cup {1} /\ IsFiniteSet({}) /\ 1 \notin {} BY FS_EmptySet
    <3>0. \A i \in {} \cup {1} : f[i] \in Int BY <2>1, <2>2
    <3>2. SumFunctionOnSet(f, {} \cup {1}) = f[1] + SumFunctionOnSet(f, {}) BY <3>0, <3>1, SumAdd
    <3>3. SumFunctionOnSet(f, {}) = 0 BY SumEmpty
    <3>4. SumFunctionOnSet(f, 1..(0+1)) = f[1] BY <3>0, <3>1, <3>2, <3>3
    <3>5. f[1] = (q[1].start + q[1].size) - a BY <2>0, <2>1, <2>2
    <3> QED BY <3>4, <3>5
  <2>4. ASSUME NEW m \in Nat, m \in G PROVE m + 1 \in G
    <3> DEFINE k == (m + 1) + 1
    <3> SUFFICES ASSUME k \in 1..Len(q)
                 PROVE  SumFunctionOnSet(f, 1..k) = (q[k].start + q[k].size) - a
      OBVIOUS
    <3>1. m + 1 \in 1..Len(q)-1 /\ m + 1 \in 1..Len(q) /\ k # 1 BY <2>1
    <3>2. SumFunctionOnSet(f, 1..(m+1)) = (q[m+1].start + q[m+1].size) - a BY <2>4, <3>1
    <3>3. /\ 1..k = (1..(m+1)) \cup {k} /\ k \notin 1..(m+1)
          /\ \A i \in (1..(m+1)) \cup {k} : i \in 1..Len(q)
      BY <3>1
    <3>4. IsFiniteSet(1..(m+1)) BY FS_Interval
    <3>5. \A i \in (1..(m+1)) \cup {k} : f[i] \in Int BY <2>2, <3>3
    <3>6. SumFunctionOnSet(f, (1..(m+1)) \cup {k}) = f[k] + SumFunctionOnSet(f, 1..(m+1))
      BY <3>3, <3>4, <3>5, SumAdd
    <3>7. q[k].start = q[m+1].start + q[m+1].size /\ f[k] = q[k].size BY <2>0, <2>2, <3>1
    <3>8. q[k].size \in Nat /\ q[m+1].start \in Nat /\ q[m+1].size \in Nat /\ q[k].start \in Nat
      BY <2>2, <3>1
    <3> HIDE DEF k
    <3>9. SumFunctionOnSet(f, 1..k) = f[k] + SumFunctionOnSet(f, 1..(m+1)) BY <3>3, <3>6
    <3>10. f[k] + ((q[m+1].start + q[m+1].size) - a) = (q[k].start + q[k].size) - a BY <3>7, <3>8
    <3> QED BY <3>2, <3>9, <3>10
  <2>5. Len(q) - 1 \in G
    <3> HIDE DEF G
    <3> QED BY <2>1, <2>3, <2>4, NatSetInduction
  <2>6. SumFunctionOnSet(f, 1..Len(q)) = b - a
    <3>1. (Len(q) - 1) + 1 = Len(q) /\ Len(q) - 1 \in Nat BY <2>1
    <3>2. (Len(q) - 1) + 1 \in 1..Len(q) =>
            SumFunctionOnSet(f, 1..((Len(q) - 1) + 1))
              = (q[(Len(q) - 1) + 1].start + q[(Len(q) - 1) + 1].size) - a
      BY <2>5
    <3>3. SumFunctionOnSet(f, 1..Len(q)) = (q[Len(q)].start + q[Len(q)].size) - a BY <2>1, <3>1, <3>2, Zenon
    <3>4. q[Len(q)].start + q[Len(q)].size = b BY <2>0
    <3> QED BY <3>3, <3>4, Zenon
  <2>7. SumFunctionOnSet(f, 1..Len(q)) \in Nat
    <3>1. IsFiniteSet(1..Len(q)) BY <2>1, FS_Interval
    <3> QED BY <2>2, <3>1, SumNat
  <2> QED BY <1>1, <1>3, <2>6, <2>7
<1> QED BY <1>2, <1>3

\* Why a stream may stop short of what was admitted to it.
Excused(s) ==
    ResetUnderway(s) \/ Failed \/ disconnected \/ loop_exited \/ closed

ResetOrFailed(s) == ResetUnderway(s) \/ Failed

\* A step that leaves last_error and the resets alone, or moves the resets on.
LEMMA ResetFrame ==
    ASSUME UNCHANGED <<last_error, reset_applied, resets>>,
           pc' = pc \/ pc # "writes",
           NEW s, pending_resets[s] # NoReset => pending_resets'[s] # NoReset,
           ResetOrFailed(s)
    PROVE  ResetOrFailed(s)'
  BY DEF ResetOrFailed, ResetUnderway, Failed

\* A queued reset stays queued when another is.
LEMMA WithResetKeeps ==
    ASSUME MediaTypes, NEW s \in AllStreams, NEW code \in ResetCodes,
           pending_resets' = WithReset(pending_resets, s, code)
    PROVE  \A t \in AllStreams : pending_resets[t] # NoReset => pending_resets'[t] # NoReset
  BY DEF WithReset, MediaTypes, ResetCodes, NoReset, Timeout, Cancelled

\* A delivery timeout leaves the stream with a reset on the way, if every
\* stream noted as timed out had one.
LEMMA TimeoutResets ==
    ASSUME MediaTypes, NEW s \in Streams, QueueDeliveryTimeout(s),
           s \in timed_out_media_streams => ResetOrFailed(s),
           UNCHANGED <<last_error, reset_applied, resets>>, pc' = pc \/ pc # "writes"
    PROVE  /\ ResetOrFailed(s)'
           /\ \A t \in Streams : ResetOrFailed(t) => ResetOrFailed(t)'
<1>1. s \in AllStreams /\ Streams \subseteq AllStreams /\ Timeout \in ResetCodes
  BY DEF AllStreams, ResetCodes
<1>2. \A t \in Streams : pending_resets[t] # NoReset => pending_resets'[t] # NoReset
  BY <1>1, WithResetKeeps DEF QueueDeliveryTimeout
<1>3. \A t \in Streams : ResetOrFailed(t) => ResetOrFailed(t)' BY <1>2, ResetFrame
<1>4. CASE s \in timed_out_media_streams BY <1>3, <1>4
<1>5. CASE s \notin timed_out_media_streams
  <2>1. pending_resets' = WithReset(pending_resets, s, Timeout) BY <1>5 DEF QueueDeliveryTimeout
  <2>2. pending_resets'[s] # NoReset BY <1>1, <2>1, WithResetType DEF MediaTypes
  <2> QED BY <1>3, <2>2 DEF ResetOrFailed, ResetUnderway
<1> QED BY <1>3, <1>4, <1>5

\* A reset under way stays under way until the connection fails.
LEMMA ResetsStay ==
    ASSUME TypeOK, TimedOutIsReset, [Next]_vars
    PROVE  \A s \in Streams : ResetOrFailed(s) => ResetOrFailed(s)'
<1> SUFFICES ASSUME NEW t \in Streams, ResetOrFailed(t) PROVE ResetOrFailed(t)' OBVIOUS
<1>0. t \in AllStreams /\ Streams \subseteq AllStreams /\ MediaTypes
      /\ Timeout \in ResetCodes /\ Cancelled \in ResetCodes
  BY DEF AllStreams, TypeOK, ResetCodes
<1>t. \A s \in timed_out_media_streams : ResetOrFailed(s) BY DEF TimedOutIsReset, ResetOrFailed
<1>1. ASSUME NEW s \in Streams, NEW size \in Sizes, NEW fin \in BOOLEAN,
             NEW od \in Deadlines, NEW sd \in Deadlines,
             TryWriteObject(s, size, fin, od, sd)
      PROVE  ResetOrFailed(t)'
  BY <1>1, ResetFrame DEF TryWriteObject, flagVars, loopVars, quicVars
<1>2. ASSUME NEW s \in Streams, NEW code \in ResetCodes, ResetStream(s, code)
      PROVE  ResetOrFailed(t)'
  <2>1. UNCHANGED <<last_error, reset_applied, resets, pc>>
    BY <1>2 DEF ResetStream, flagVars, loopVars, quicVars
  <2>2. CASE code = Timeout BY <1>2, <1>0, <1>t, <2>1, <2>2, TimeoutResets DEF ResetStream
  <2>3. CASE code # Timeout
    <3>1. pending_resets' = WithReset(pending_resets, s, code) BY <1>2, <2>3 DEF ResetStream
    <3>2. pending_resets[t] # NoReset => pending_resets'[t] # NoReset BY <1>0, <3>1, WithResetKeeps
    <3> QED BY <2>1, <3>2, ResetFrame
  <2> QED BY <2>2, <2>3
<1>3. ASSUME NEW s \in Streams, AcknowledgeExpired(s) PROVE ResetOrFailed(t)'
  BY <1>3, ResetFrame DEF AcknowledgeExpired, flagVars, loopVars, quicVars
<1>4. ASSUME NEW s \in AllStreams, AcknowledgePeerStopped(s) PROVE ResetOrFailed(t)'
  BY <1>4, ResetFrame DEF AcknowledgePeerStopped, implVars, flagVars, loopVars, quicVars
<1>5. ASSUME NEW r \in Requests, NEW waited \in BOOLEAN, WriteStream(r, waited)
      PROVE  ResetOrFailed(t)'
  BY <1>5, ResetFrame DEF WriteStream, implVars, flagVars, loopVars, quicVars
<1>6. ASSUME NEW d \in Timeouts, NoteDeliveryTimeout(d) PROVE ResetOrFailed(t)'
  BY <1>6, ResetFrame DEF NoteDeliveryTimeout, implVars, flagVars, loopVars, quicVars
<1>7. CASE Close BY <1>7, ResetFrame DEF Close, implVars, flagVars, loopVars, quicVars
<1>8. CASE CloseJoined BY <1>8, ResetFrame DEF CloseJoined, flagVars, loopVars, quicVars
<1>9. CASE PassBegin
  <2>1. pc = "idle" /\ pc' = "writes" /\ UNCHANGED <<last_error, reset_applied>>
    BY <1>9 DEF PassBegin, flagVars, quicVars
  <2>2. pending_resets[t] # NoReset => resets'[t] # NoReset BY <1>0, <1>9 DEF PassBegin, Timeout, NoReset
  <2> QED BY <2>1, <2>2 DEF ResetOrFailed, ResetUnderway, Failed
<1>10. CASE OfferWrite BY <1>10, ResetFrame DEF OfferWrite, implVars, flagVars
<1>11. CASE PassWrites
  <2>1. /\ reset_applied[t] # NoReset => reset_applied'[t] # NoReset
        /\ resets[t] # NoReset => reset_applied'[t] # NoReset
        /\ UNCHANGED <<last_error, pending_resets>>
    BY <1>0, <1>11 DEF PassWrites, ApplyResets, ResetTargets, implVars, flagVars
  <2> QED BY <2>1 DEF ResetOrFailed, ResetUnderway, Failed
<1>12. CASE PassResets
  <2>1. /\ reset_applied[t] # NoReset => reset_applied'[t] # NoReset
        /\ pending_resets[t] # NoReset => reset_applied'[t] # NoReset
        /\ UNCHANGED last_error /\ pc = "activate"
    BY <1>0, <1>12 DEF PassResets, ApplyResets, ResetTargets, flagVars
  <2> QED BY <2>1 DEF ResetOrFailed, ResetUnderway, Failed
<1>13. CASE PassClose BY <1>13, ResetFrame DEF PassClose, implVars, flagVars, quicVars
<1>14. ASSUME NEW s \in Streams, PassActivate(s) PROVE ResetOrFailed(t)'
  <2>1. UNCHANGED <<reset_applied, resets>> /\ pc # "writes" BY <1>14 DEF PassActivate
  <2>2. CASE Inspected(s) = "expired" BY <1>0, <1>14, <1>t, <2>1, <2>2, TimeoutResets DEF PassActivate
  <2>3. CASE Inspected(s) = "empty" BY <1>14, <2>1, <2>3, ResetFrame DEF PassActivate
  <2>4. CASE Inspected(s) = "available" /\ CanActivate(s)
    BY <1>14, <2>1, <2>4, ResetFrame DEF PassActivate, implVars
  <2>5. CASE Inspected(s) = "available" /\ ~CanActivate(s)
    BY <1>14, <2>5 DEF PassActivate, FailMediaDelivery, ResetOrFailed, Failed
  <2> QED BY <1>14, <2>2, <2>3, <2>4, <2>5 DEF PassActivate
<1>15. CASE PassFails BY <1>15 DEF PassFails, FailMediaDelivery, ResetOrFailed, Failed
<1>16. CASE LoopEnds BY <1>16, ResetFrame DEF LoopEnds, implVars, flagVars, quicVars
<1>17. CASE ThreadExit BY <1>17, ResetFrame DEF ThreadExit, quicVars
<1>18. ASSUME NEW s \in Streams, ProvideMediaData(s) PROVE ResetOrFailed(t)'
  <2>1. UNCHANGED <<last_error, reset_applied, resets>> /\ pc # "writes"
    BY <1>18 DEF ProvideMediaData, flagVars
  <2>2. ASSUME QueueDeliveryTimeout(s) PROVE ResetOrFailed(t)' BY <1>0, <1>t, <2>1, <2>2, TimeoutResets
  <2>3. ASSUME UNCHANGED pending_resets PROVE ResetOrFailed(t)' BY <2>1, <2>3, ResetFrame
  <2> QED BY <1>18, <2>2, <2>3 DEF ProvideMediaData, ProvideExpired,
            ProvideNothing, ProvideThenExpire, ProvideUnlocked, ProvideBytes
<1>19. CASE ProvideResume BY <1>19, ResetFrame DEF ProvideResume, implVars, flagVars
<1>20. CASE ProvideFails BY <1>20 DEF ProvideFails, FailMediaDelivery, ResetOrFailed, Failed
<1>21. ASSUME NEW s \in AllStreams, StopSending(s) PROVE ResetOrFailed(t)'
  <2>1. pending_resets[t] # NoReset => pending_resets'[t] # NoReset
    BY <1>0, <1>21, WithResetKeeps DEF StopSending
  <2> QED BY <1>21, <2>1, ResetFrame DEF StopSending, flagVars, loopVars
<1>22. ASSUME NEW s \in Streams, StreamReleased(s) PROVE ResetOrFailed(t)'
  BY <1>22, ResetFrame DEF StreamReleased, flagVars, loopVars, quicVars
<1>23. CASE ConnectionClosed BY <1>23, ResetFrame DEF ConnectionClosed, loopVars
<1>24. ASSUME NEW s \in AllStreams, Acknowledged(s) PROVE ResetOrFailed(t)'
  BY <1>24, ResetFrame DEF Acknowledged, implVars, flagVars, loopVars
<1>25. CASE Tick BY <1>25, ResetFrame DEF Tick, implVars, flagVars, loopVars, quicVars
<1>26. CASE UNCHANGED vars BY <1>26, ResetFrame DEF vars, implVars, flagVars, loopVars, quicVars
<1> QED BY <1>1, <1>2, <1>3, <1>4, <1>5, <1>6, <1>7, <1>8, <1>9, <1>10, <1>11,
     <1>12, <1>13, <1>14, <1>15, <1>16, <1>17, <1>18, <1>19, <1>20, <1>21,
     <1>22, <1>23, <1>24, <1>25, <1>26
  DEF Next, SessionStep, PassStep, PicoquicStep, Terminated

(* The summands of Accounting. *)
BytesPerStream == [s \in Streams |-> StreamBytes(s)]

\* What picoquic was given of a stream is a number of bytes.
LEMMA HandedType ==
    ASSUME TypeOK, NEW s \in Streams
    PROVE  HandedOver(s) \in Nat
  BY DEF TypeOK, HistTypes, LoopTypes, HandedOver

\* The bytes of every queue, from the offsets of its ends.
LEMMA StreamBytesNat ==
    ASSUME TypeOK, QueuesContinue, NEW s \in Streams
    PROVE  /\ StreamBytes(s) \in Nat
           /\ StreamBytes(s) = IF queue[s] = <<>> THEN 0
                               ELSE admitted[s] - HandedOver(s)
<1>1. queue[s] \in Seq(PendingWrite) /\ admitted[s] \in Nat BY DEF TypeOK, MediaTypes, HistTypes
<1>2. Continues(queue[s], HandedOver(s), admitted[s]) BY DEF QueuesContinue
<1> QED BY <1>1, <1>2, HandedType, BytesContinue DEF StreamBytes

\* Clearing some queues gives back what was in them.
LEMMA ClearAccounting ==
    ASSUME TypeOK, QueuesContinue, Accounting, NEW C \in SUBSET Streams,
           \A s \in Streams : queue'[s] = IF s \in C THEN <<>> ELSE queue[s],
           queued_bytes' = queued_bytes - BytesOf(C)
    PROVE  Accounting'
<1> DEFINE f == BytesPerStream
           g == [s \in Streams |-> QueueBytes(queue'[s])]
<1>0. IsFiniteSet(Streams) /\ Capacity \in Nat BY ConstantAssumption DEF ConstantAssumption
<1>1. \A s \in Streams : f[s] \in Nat /\ f[s] = QueueBytes(queue[s])
  BY StreamBytesNat DEF BytesPerStream, StreamBytes
<1>2. QueueBytes(<<>>) = 0
  <2>1. <<>> \in Seq(PendingWrite) /\ 0 \in Nat /\ Continues(<<>>, 0, 0) BY DEF Continues
  <2> QED BY <2>1, BytesContinue
<1>3. \A s \in Streams : f[s] \in Int /\ g[s] = IF s \in C THEN 0 ELSE f[s] BY <1>1, <1>2
<1>4. /\ BytesOf(Streams) = SumFunctionOnSet(f, Streams)
      /\ BytesOf(C) = SumFunctionOnSet(f, C)
      /\ BytesOf(Streams)' = SumFunctionOnSet(g, Streams)
  BY DEF BytesOf, BytesPerStream, StreamBytes
<1> HIDE DEF f, g
<1>5. SumFunctionOnSet(g, Streams) = SumFunctionOnSet(f, Streams) - SumFunctionOnSet(f, C)
  BY <1>0, <1>3, SumClear
<1>6. SumFunctionOnSet(f, C) \in Nat /\ SumFunctionOnSet(f, Streams) \in Nat
  <2>1. IsFiniteSet(C) BY <1>0, FS_Subset
  <2> QED BY <1>0, <1>1, <2>1, SumNat
<1> QED BY <1>0, <1>4, <1>5, <1>6 DEF Accounting

\* One queue changed, and the budget by the difference.
LEMMA UpdateAccounting ==
    ASSUME TypeOK, QueuesContinue, Accounting, NEW s \in Streams,
           QueueBytes(queue'[s]) \in Nat,
           \A t \in Streams : t # s => queue'[t] = queue[t],
           queued_bytes' = (queued_bytes - StreamBytes(s)) + QueueBytes(queue'[s]),
           queued_bytes' <= Capacity
    PROVE  Accounting'
<1> DEFINE f == BytesPerStream
           g == [t \in Streams |-> QueueBytes(queue'[t])]
<1>0. IsFiniteSet(Streams) BY ConstantAssumption DEF ConstantAssumption
<1>1. \A t \in Streams : f[t] \in Nat /\ f[t] = QueueBytes(queue[t])
  BY StreamBytesNat DEF BytesPerStream, StreamBytes
<1>2. /\ \A t \in Streams : g[t] = QueueBytes(queue'[t])
      /\ \A t \in Streams : t # s => f[t] = g[t]
      /\ f[s] = StreamBytes(s)
  BY <1>1 DEF BytesPerStream
<1>3. /\ \A t \in Streams : f[t] \in Int /\ g[t] \in Int
      /\ \A t \in Streams : t # s => f[t] = g[t]
  BY <1>1, <1>2
<1>4. /\ BytesOf(Streams) = SumFunctionOnSet(f, Streams)
      /\ BytesOf(Streams)' = SumFunctionOnSet(g, Streams)
  BY DEF BytesOf, BytesPerStream, StreamBytes
<1> HIDE DEF f, g
<1>5. SumFunctionOnSet(g, Streams) = SumFunctionOnSet(f, Streams) - f[s] + g[s] BY <1>0, <1>3, SumUpdate
<1> QED BY <1>2, <1>4, <1>5 DEF Accounting

\* Nothing queued, nothing counted.
LEMMA EmptyAccounting ==
    ASSUME \A s \in Streams : queue'[s] = <<>>, queued_bytes' = 0
    PROVE  Accounting'
<1> DEFINE g == [s \in Streams |-> QueueBytes(queue'[s])]
           z == [s \in Streams |-> 0]
<1>0. IsFiniteSet(Streams) /\ Capacity \in Nat BY ConstantAssumption DEF ConstantAssumption
<1>2. QueueBytes(<<>>) = 0
  <2>1. <<>> \in Seq(PendingWrite) /\ 0 \in Nat /\ Continues(<<>>, 0, 0) BY DEF Continues
  <2> QED BY <2>1, BytesContinue
<1>3. \A s \in Streams : g[s] \in Int /\ g[s] = IF s \in Streams THEN 0 ELSE g[s] BY <1>2
<1>4. BytesOf(Streams)' = SumFunctionOnSet(g, Streams) BY DEF BytesOf, StreamBytes
<1> HIDE DEF g
<1>5. SumFunctionOnSet(g, Streams) = SumFunctionOnSet(g, Streams) - SumFunctionOnSet(g, Streams)
  <2>1. Streams \in SUBSET Streams OBVIOUS
  <2> QED BY <1>0, <1>3, <2>1, SumClear
<1>6. SumFunctionOnSet(g, Streams) \in Int BY <1>0, <1>3, SumType
<1>7. SumFunctionOnSet(g, Streams) = 0 BY <1>5, <1>6
<1> QED BY <1>0, <1>4, <1>7 DEF Accounting

\* Clearing no queue changes no budget.
LEMMA NoBytes == BytesOf({}) = 0
  BY SumEmpty DEF BytesOf

\* The bytes of one stream.
LEMMA BytesOfOne ==
    ASSUME TypeOK, QueuesContinue, NEW s \in Streams
    PROVE  BytesOf({s}) = StreamBytes(s)
<1> DEFINE f == BytesPerStream
<1>1. f[s] = StreamBytes(s) /\ f[s] \in Nat BY StreamBytesNat DEF BytesPerStream
<1>2. IsFiniteSet({}) /\ s \notin {} BY FS_EmptySet
<1>5. BytesOf({s}) = SumFunctionOnSet(f, {s}) /\ {} \cup {s} = {s} BY DEF BytesOf, BytesPerStream
<1>6. \A y \in {} \cup {s} : f[y] \in Int BY <1>1
<1> HIDE DEF f
<1>3. SumFunctionOnSet(f, {} \cup {s}) = f[s] + SumFunctionOnSet(f, {}) BY <1>2, <1>6, SumAdd
<1>4. SumFunctionOnSet(f, {}) = 0 BY SumEmpty
<1> QED BY <1>1, <1>3, <1>4, <1>5

\* The queue of a stream is a sequence of writes, and its counters numbers.
LEMMA StreamTypes ==
    ASSUME TypeOK, NEW s \in Streams
    PROVE  /\ queue[s] \in Seq(PendingWrite)
           /\ admitted[s] \in Nat /\ sent[s] \in Nat /\ HandedOver(s) \in Nat
  BY HandedType DEF TypeOK, MediaTypes, HistTypes

\* A step that clears the queues of C (none of them, for most steps), together
\* with a reset when there was something in them, and sends nothing.
LEMMA ClearKeepsDelivering ==
    ASSUME TypeOK, Delivering, NEW C \in SUBSET Streams,
           \A s \in Streams : queue'[s] = IF s \in C THEN <<>> ELSE queue[s],
           queued_bytes' = queued_bytes - BytesOf(C),
           UNCHANGED <<sent, sending, admitted, fin_sent, last_error, disconnected, loop_exited, closed>>,
           ended \subseteq ended',
           pc = "exited" => pc' = "exited",
           \A s \in Streams : ResetOrFailed(s) => ResetOrFailed(s)',
           \A s \in C : queue[s] # <<>> => ResetOrFailed(s)',
           \A s \in timed_out_media_streams' :
              s \in timed_out_media_streams \/ ResetOrFailed(s)'
    PROVE  Delivering'
<1>1. \A s \in Streams : HandedOver(s)' = HandedOver(s) BY DEF HandedOver
<1>2. QueuesContinue'
  <2> SUFFICES ASSUME NEW s \in Streams
               PROVE  Continues(queue'[s], HandedOver(s), admitted[s])
    BY <1>1 DEF QueuesContinue
  <2>1. CASE s \in C BY <2>1 DEF Continues
  <2>2. CASE s \notin C BY <2>2 DEF Delivering, QueuesContinue
  <2> QED BY <2>1, <2>2
<1>3. Accounting' BY ClearAccounting DEF Delivering
<1>4. NoSilentTruncation'
  <2>1. ASSUME NEW s \in Streams, queue'[s] = <<>>
        PROVE  HandedOver(s)' = admitted'[s] \/ Excused(s)'
    <3>1. CASE queue[s] = <<>>
      <4>1. HandedOver(s) = admitted[s] \/ Excused(s) BY <3>1 DEF Delivering, NoSilentTruncation, Excused
      <4>2. Excused(s) => Excused(s)' BY DEF Excused, ResetOrFailed
      <4> QED BY <1>1, <4>1, <4>2
    <3>2. CASE queue[s] # <<>> BY <2>1, <3>2 DEF Excused, ResetOrFailed
    <3> QED BY <3>1, <3>2
  <2>2. ASSUME NEW s \in fin_sent'
        PROVE  sent'[s] = admitted'[s] /\ queue'[s] = <<>> /\ s \in ended'
    <3>1. s \in Streams BY DEF TypeOK, QuicTypes
    <3> QED BY <3>1 DEF Delivering, NoSilentTruncation
  <2> QED BY <2>1, <2>2 DEF NoSilentTruncation, Excused
<1>5. OverIsEmpty' BY DEF Delivering, OverIsEmpty, Over, Failed
<1>6. TimedOutIsReset'
  <2>1. timed_out_media_streams \subseteq Streams BY DEF TypeOK, MediaTypes
  <2> QED BY <2>1 DEF Delivering, TimedOutIsReset, ResetOrFailed
<1>7. ExitRecorded' /\ SendingIsOpen' BY DEF Delivering, ExitRecorded, SendingIsOpen
<1> QED BY <1>2, <1>3, <1>4, <1>5, <1>6, <1>7 DEF Delivering

\* A step that touches neither the queues nor the flags, and sends nothing.
LEMMA FrameDelivering ==
    ASSUME TypeOK, Delivering,
           UNCHANGED <<queue, queued_bytes, sent, sending, admitted, fin_sent, last_error, disconnected,
             loop_exited, closed>>,
           ended \subseteq ended',
           pc = "exited" => pc' = "exited",
           \A s \in Streams : ResetOrFailed(s) => ResetOrFailed(s)',
           timed_out_media_streams' \subseteq timed_out_media_streams
    PROVE  Delivering'
<1>1. queued_bytes' = queued_bytes - BytesOf({})
  <2>1. queued_bytes \in Int
    <3>1. IsFiniteSet(Streams) BY ConstantAssumption DEF ConstantAssumption
    <3>2. \A s \in Streams : BytesPerStream[s] \in Nat BY StreamBytesNat DEF BytesPerStream, Delivering
    <3>3. SumFunctionOnSet(BytesPerStream, Streams) \in Nat BY <3>1, <3>2, SumNat
    <3> QED BY <3>3 DEF Delivering, Accounting, BytesOf, BytesPerStream
  <2> QED BY <2>1, NoBytes
<1>2. {} \in SUBSET Streams OBVIOUS
<1> QED BY <1>1, <1>2, ClearKeepsDelivering

\* A step that ends the connection, or one of its threads, and drops what was
\* queued.
LEMMA EmptyKeepsDelivering ==
    ASSUME TypeOK, Delivering,
           \A s \in Streams : queue'[s] = <<>>, queued_bytes' = 0,
           UNCHANGED <<sent, admitted, fin_sent, ended>>,
           sending' = <<>> \/ sending' = sending,
           Failed' \/ disconnected' \/ closed' \/ loop_exited',
           timed_out_media_streams' = {} \/ Failed',
           ExitRecorded'
    PROVE  Delivering'
<1>1. QueuesContinue' /\ OverIsEmpty' BY DEF QueuesContinue, Continues, OverIsEmpty
<1>2. Accounting' BY EmptyAccounting
<1>3. NoSilentTruncation'
  <2>1. \A s \in fin_sent : s \in Streams BY DEF TypeOK, QuicTypes
  <2> QED BY <2>1 DEF NoSilentTruncation, Delivering
<1>4. TimedOutIsReset' /\ SendingIsOpen' BY DEF TimedOutIsReset, SendingIsOpen, Delivering
<1> QED BY <1>1, <1>2, <1>3, <1>4 DEF Delivering

\* A new PicoquicClient has admitted nothing.
LEMMA InitDelivering == Init => Delivering
<1> SUFFICES ASSUME Init PROVE Delivering OBVIOUS
<1>1. \A s \in Streams : queue[s] = <<>> /\ HandedOver(s) = admitted[s]
  <2> SUFFICES ASSUME NEW s \in Streams
               PROVE  queue[s] = <<>> /\ HandedOver(s) = admitted[s]
    OBVIOUS
  <2>1. queue[s] = <<>> /\ sent[s] = 0 /\ admitted[s] = 0 /\ sending = <<>> BY DEF Init, EmptyQueue
  <2>2. HandedOver(s) = sent[s] + 0 BY <2>1 DEF HandedOver
  <2> QED BY <2>1, <2>2
<1>2. QueuesContinue /\ OverIsEmpty BY <1>1 DEF QueuesContinue, Continues, OverIsEmpty
<1>3. NoSilentTruncation /\ TimedOutIsReset /\ ExitRecorded /\ SendingIsOpen
  BY <1>1 DEF Init, NoSilentTruncation, TimedOutIsReset, ExitRecorded, SendingIsOpen
<1>4. Accounting
  <2> DEFINE f == BytesPerStream
  <2>0. IsFiniteSet(Streams) /\ Capacity \in Nat BY ConstantAssumption DEF ConstantAssumption
  <2>1. TypeOK BY InitType
  <2>2. \A s \in Streams : f[s] \in Int /\ f[s] = IF s \in Streams THEN 0 ELSE f[s]
    BY <1>1, <1>2, <2>1, StreamBytesNat DEF BytesPerStream
  <2>3. Streams \in SUBSET Streams OBVIOUS
  <2>4. BytesOf(Streams) = SumFunctionOnSet(f, Streams) BY DEF BytesOf, BytesPerStream
  <2> HIDE DEF f
  <2>5. SumFunctionOnSet(f, Streams) = SumFunctionOnSet(f, Streams) - SumFunctionOnSet(f, Streams)
    BY <2>0, <2>2, <2>3, SumClear
  <2>6. SumFunctionOnSet(f, Streams) \in Int BY <2>0, <2>2, SumType
  <2>7. SumFunctionOnSet(f, Streams) = 0 BY <2>5, <2>6
  <2>8. queued_bytes = 0 BY DEF Init
  <2> QED BY <2>0, <2>4, <2>7, <2>8 DEF Accounting
<1> QED BY <1>2, <1>3, <1>4 DEF Delivering

\* try_write_object() appends where the stream ends.
LEMMA WriteDelivers ==
    ASSUME TypeOK, Safe, Delivering,
           \A t \in Streams : ResetOrFailed(t) => ResetOrFailed(t)',
           NEW s \in Streams, NEW size \in Sizes, NEW fin \in BOOLEAN,
           NEW od \in Deadlines, NEW sd \in Deadlines,
           TryWriteObject(s, size, fin, od, sd)
    PROVE  Delivering'
<1> DEFINE w == Write(admitted[s], size, fin, od, sd)
<1>0. size \in Nat /\ Capacity \in Nat BY ConstantAssumption DEF ConstantAssumption
<1>1. /\ w \in PendingWrite /\ w.start = admitted[s] /\ w.offset = 0 /\ w.size = size
  <2>1. od \in Nat /\ sd \in Nat /\ admitted[s] \in Nat
    BY ConstantAssumption, StreamTypes DEF ConstantAssumption
  <2> QED BY <1>0, <2>1 DEF Write, PendingWrite
<1>2. queue' = [queue EXCEPT ![s] = Append(@, w)] /\ queued_bytes' = queued_bytes + size
  BY DEF TryWriteObject
<1> HIDE DEF w
<1>3. queue'[s] = Append(queue[s], w) /\ \A t \in Streams : t # s => queue'[t] = queue[t]
  BY <1>2 DEF TypeOK, MediaTypes
<1>4. /\ UNCHANGED <<sent, sending, fin_sent, last_error, disconnected, loop_exited, closed, pc,
           timed_out_media_streams>>
      /\ ended \subseteq ended'
      /\ s \notin ended /\ ~Failed /\ ~disconnected /\ ~closed
      /\ s \notin timed_out_media_streams /\ s \notin peer_stopped_media_streams
      /\ size <= Capacity - queued_bytes
      /\ admitted' = [admitted EXCEPT ![s] = @ + size]
  BY DEF TryWriteObject, flagVars, closeVars, loopVars, quicVars
<1>5. admitted'[s] = admitted[s] + size /\ \A t \in Streams : t # s => admitted'[t] = admitted[t]
  BY <1>4 DEF TypeOK, HistTypes
<1>6. \A t \in Streams : HandedOver(t)' = HandedOver(t) BY <1>4 DEF HandedOver
<1>7. ~Excused(s)
  <2>1. ~ResetUnderway(s) BY <1>4 DEF Safe, ResetIsQuiet, Barred
  <2>2. ~loop_exited BY <1>4 DEF Safe, ExitIsOver, Delivering, ExitRecorded
  <2> QED BY <1>4, <2>1, <2>2 DEF Excused
<1>8. queue[s] = <<>> => HandedOver(s) = admitted[s] BY <1>7 DEF Delivering, NoSilentTruncation, Excused
<1>9. ~HasFin(queue[s]) /\ s \notin fin_sent BY <1>4 DEF Safe, FinIsQuiet
<1>10. Continues(queue'[s], HandedOver(s)', admitted'[s])
  <2>1. Continues(queue[s], HandedOver(s), admitted[s]) BY DEF Delivering, QueuesContinue
  <2>2. Continues(Append(queue[s], w), HandedOver(s), admitted[s] + w.size)
    BY <1>1, <1>8, <1>9, <2>1, StreamTypes, AppendContinues
  <2> QED BY <1>1, <1>3, <1>5, <1>6, <2>2
<1>11. queue'[s] \in Seq(PendingWrite) /\ queue'[s] # <<>> BY <1>1, <1>3, StreamTypes
<1>12. QueuesContinue'
  <2>1. \A t \in Streams : t # s => Continues(queue'[t], HandedOver(t)', admitted'[t])
    BY <1>3, <1>5, <1>6 DEF Delivering, QueuesContinue
  <2> QED BY <1>10, <2>1 DEF QueuesContinue
<1>13. Accounting'
  <2>1. HandedOver(s)' \in Nat /\ admitted'[s] \in Nat BY <1>0, <1>5, <1>6, StreamTypes
  <2>2. QueueBytes(queue'[s]) \in Nat /\ QueueBytes(queue'[s]) = admitted'[s] - HandedOver(s)'
    BY <1>10, <1>11, <2>1, BytesContinue
  <2>3. /\ StreamBytes(s) \in Nat
        /\ StreamBytes(s) = admitted[s] - HandedOver(s)
    BY <1>8, StreamBytesNat, StreamTypes DEF Delivering
  <2>4. queued_bytes \in Int
    <3>1. IsFiniteSet(Streams) BY ConstantAssumption DEF ConstantAssumption
    <3>2. \A t \in Streams : BytesPerStream[t] \in Nat BY StreamBytesNat DEF BytesPerStream, Delivering
    <3>3. SumFunctionOnSet(BytesPerStream, Streams) \in Nat BY <3>1, <3>2, SumNat
    <3> QED BY <3>3 DEF Delivering, Accounting, BytesOf, BytesPerStream
  <2>5. QueueBytes(queue'[s]) = StreamBytes(s) + size BY <1>0, <1>5, <1>6, <2>2, <2>3, StreamTypes
  <2>6. /\ queued_bytes' = (queued_bytes - StreamBytes(s)) + QueueBytes(queue'[s])
        /\ queued_bytes' <= Capacity
    BY <1>0, <1>2, <1>4, <2>3, <2>4, <2>5
  <2> QED BY <1>3, <2>2, <2>6, UpdateAccounting DEF Delivering
<1>14. NoSilentTruncation'
  <2>1. ASSUME NEW t \in Streams, queue'[t] = <<>>
        PROVE  HandedOver(t)' = admitted'[t] \/ Excused(t)'
    <3>1. t # s BY <1>11, <2>1
    <3>2. HandedOver(t) = admitted[t] \/ Excused(t)
      BY <1>3, <2>1, <3>1 DEF Delivering, NoSilentTruncation, Excused
    <3>3. Excused(t) => Excused(t)' BY <1>4 DEF Excused, ResetOrFailed
    <3> QED BY <1>5, <1>6, <3>1, <3>2, <3>3
  <2>2. ASSUME NEW t \in fin_sent'
        PROVE  sent'[t] = admitted'[t] /\ queue'[t] = <<>> /\ t \in ended'
    <3>1. t \in Streams /\ t \in fin_sent /\ t # s BY <1>4, <1>9 DEF TypeOK, QuicTypes
    <3> QED BY <1>3, <1>4, <1>5, <3>1 DEF Delivering, NoSilentTruncation
  <2> QED BY <2>1, <2>2 DEF NoSilentTruncation, Excused
<1>15. OverIsEmpty' /\ ExitRecorded' /\ SendingIsOpen'
  BY <1>4 DEF OverIsEmpty, Over, Failed, Delivering, ExitRecorded, SendingIsOpen
<1>16. TimedOutIsReset'
  <2>1. timed_out_media_streams \subseteq Streams BY DEF TypeOK, MediaTypes
  <2> QED BY <1>4, <2>1 DEF Delivering, TimedOutIsReset, ResetOrFailed
<1> QED BY <1>12, <1>13, <1>14, <1>15, <1>16 DEF Delivering

\* Bytes of the front that go to picoquic leave the queue where they stop,
\* whether they are written at once or held across the unlock.
LEMMA SendDelivers ==
    ASSUME TypeOK, Safe, Safe', Delivering,
           \A t \in Streams : ResetOrFailed(t) => ResetOrFailed(t)',
           NEW s \in Streams, NEW n \in Nat, CanSend(s, n),
           sending = <<>> \/ sending[1] # s,
           queue' = [queue EXCEPT ![s] = Rest(queue[s], n)],
           queued_bytes' = queued_bytes
               - (IF SendsFin(Head(queue[s]), n) THEN StreamBytes(s) ELSE n),
           \A t \in Streams :
              HandedOver(t)' = IF t = s THEN HandedOver(s) + n ELSE HandedOver(t),
           fin_sent' = IF SendsFin(Head(queue[s]), n)
                         THEN fin_sent \cup {s} ELSE fin_sent,
           s \in fin_sent' => sent'[s] = HandedOver(s)',
           \A t \in Streams : t # s => sent'[t] = sent[t],
           UNCHANGED <<admitted, ended, last_error, disconnected, loop_exited, closed,
             timed_out_media_streams>>,
           pc # "exited", SendingIsOpen'
    PROVE  Delivering'
<1> DEFINE q == queue[s]
           r == Rest(queue[s], n)
<1>1. q # <<>> /\ n \in 0..remaining_bytes(Head(q)) BY FrontStatusCases DEF CanSend
<1>2. /\ q \in Seq(PendingWrite) /\ admitted[s] \in Nat /\ HandedOver(s) \in Nat
      /\ Continues(q, HandedOver(s), admitted[s])
  BY StreamTypes DEF Delivering, QueuesContinue
<1>3. /\ Continues(r, HandedOver(s) + n, admitted[s])
      /\ r = <<>> => HandedOver(s) + n = admitted[s]
  BY <1>1, <1>2, RestContinues
<1>4. r \in Seq(PendingWrite) BY RestType DEF TypeOK
<1>5. /\ queue'[s] = r /\ \A t \in Streams : t # s => queue'[t] = queue[t]
      /\ HandedOver(s)' = HandedOver(s) + n
  BY DEF TypeOK, MediaTypes
<1>6. SendsFin(Head(q), n) => r = <<>> BY DEF Rest
<1>7. StreamBytes(s) \in Nat /\ StreamBytes(s) = admitted[s] - HandedOver(s)
  BY <1>1, StreamBytesNat DEF Delivering
<1>8. /\ QueueBytes(r) \in Nat
      /\ QueueBytes(r) = IF r = <<>> THEN 0 ELSE admitted[s] - (HandedOver(s) + n)
  BY <1>2, <1>3, <1>4, BytesContinue
<1>8a. QueueBytes(r) = StreamBytes(s) - n BY <1>2, <1>3, <1>7, <1>8
<1> HIDE DEF q, r
<1>9. QueuesContinue'
  <2>1. Continues(queue'[s], HandedOver(s)', admitted'[s]) BY <1>3, <1>5
  <2>2. \A t \in Streams : t # s => Continues(queue'[t], HandedOver(t)', admitted'[t])
    BY <1>5 DEF Delivering, QueuesContinue
  <2> QED BY <2>1, <2>2 DEF QueuesContinue
<1>10. Accounting'
  <2>1. queued_bytes \in Int /\ queued_bytes <= Capacity /\ Capacity \in Nat
    <3>1. IsFiniteSet(Streams) /\ Capacity \in Nat BY ConstantAssumption DEF ConstantAssumption
    <3>2. \A t \in Streams : BytesPerStream[t] \in Nat BY StreamBytesNat DEF BytesPerStream, Delivering
    <3>3. SumFunctionOnSet(BytesPerStream, Streams) \in Nat BY <3>1, <3>2, SumNat
    <3> QED BY <3>1, <3>3 DEF Delivering, Accounting, BytesOf, BytesPerStream
  <2>2. queued_bytes' = (queued_bytes - StreamBytes(s)) + QueueBytes(r)
    <3>1. CASE SendsFin(Head(q), n)
      <4>1. QueueBytes(r) = 0 /\ queued_bytes' = queued_bytes - StreamBytes(s) BY <1>6, <1>8, <3>1 DEF q
      <4> QED BY <1>7, <2>1, <4>1
    <3>2. CASE ~SendsFin(Head(q), n)
      <4>1. queued_bytes' = queued_bytes - n BY <3>2 DEF q
      <4> QED BY <1>7, <1>8a, <2>1, <4>1
    <3> QED BY <3>1, <3>2
  <2>3. queued_bytes' <= Capacity
    <3>1. queued_bytes' = queued_bytes - n BY <1>7, <1>8a, <2>1, <2>2
    <3> QED BY <2>1, <3>1
  <2>4. QueueBytes(queue'[s]) = QueueBytes(r) BY <1>5
  <2> QED BY <1>5, <1>8, <2>2, <2>3, <2>4, UpdateAccounting DEF Delivering
<1>11. NoSilentTruncation'
  <2>1. ASSUME NEW t \in Streams, queue'[t] = <<>>
        PROVE  HandedOver(t)' = admitted'[t] \/ Excused(t)'
    <3>1. CASE t = s BY <1>3, <1>5, <2>1, <3>1
    <3>2. CASE t # s
      <4>1. HandedOver(t) = admitted[t] \/ Excused(t)
        BY <1>5, <2>1, <3>2 DEF Delivering, NoSilentTruncation, Excused
      <4>2. Excused(t) => Excused(t)' BY DEF Excused, ResetOrFailed
      <4> QED BY <3>2, <4>1, <4>2
    <3> QED BY <3>1, <3>2
  <2>2. ASSUME NEW t \in fin_sent'
        PROVE  sent'[t] = admitted'[t] /\ queue'[t] = <<>> /\ t \in ended'
    <3>1. CASE t = s
      <4>0. s \notin fin_sent BY <1>1 DEF Delivering, NoSilentTruncation, q
      <4>1. SendsFin(Head(q), n) BY <2>2, <3>1, <4>0 DEF q
      <4>2. r = <<>> /\ sent'[s] = admitted[s] BY <1>3, <1>5, <1>6, <2>2, <3>1, <4>1
      <4>3. s \in ended' BY <2>2, <3>1 DEF Safe, FinIsQuiet
      <4> QED BY <1>5, <3>1, <4>2, <4>3
    <3>2. CASE t # s
      <4>1. t \in fin_sent /\ t \in Streams BY <2>2, <3>2 DEF TypeOK, QuicTypes
      <4> QED BY <1>5, <3>2, <4>1 DEF Delivering, NoSilentTruncation
    <3> QED BY <3>1, <3>2
  <2> QED BY <2>1, <2>2 DEF NoSilentTruncation, Excused
<1>12. OverIsEmpty'
  <2>1. ~Over BY <1>1 DEF Delivering, OverIsEmpty, q
  <2> QED BY <2>1 DEF OverIsEmpty, Over, Failed
<1>13. ExitRecorded' BY DEF Delivering, ExitRecorded
<1>14. TimedOutIsReset'
  <2>1. timed_out_media_streams \subseteq Streams BY DEF TypeOK, MediaTypes
  <2> QED BY <2>1 DEF Delivering, TimedOutIsReset, ResetOrFailed
<1> QED BY <1>9, <1>10, <1>11, <1>12, <1>13, <1>14 DEF Delivering

\* clear_stream() gives back what was queued on the stream.
LEMMA ClearStreamBytes ==
    ASSUME TypeOK, Delivering, NEW s \in Streams, ClearStream(s)
    PROVE  /\ {s} \in SUBSET Streams
           /\ \A t \in Streams : queue'[t] = IF t \in {s} THEN <<>> ELSE queue[t]
           /\ queued_bytes' = queued_bytes - BytesOf({s})
<1>1. \A t \in Streams : queue'[t] = IF t \in {s} THEN <<>> ELSE queue[t]
  BY DEF ClearStream, TypeOK, MediaTypes
<1>2. BytesOf({s}) = StreamBytes(s) BY BytesOfOne DEF Delivering
<1> QED BY <1>1, <1>2 DEF ClearStream

\* A step whose only effect on delivery is that a stream is cleared.
LEMMA ClearStreamDelivers ==
    ASSUME TypeOK, Delivering, NEW s \in Streams, ClearStream(s),
           UNCHANGED <<sent, sending, admitted, fin_sent, last_error, disconnected, loop_exited, closed>>,
           ended \subseteq ended',
           pc = "exited" => pc' = "exited",
           \A t \in Streams : ResetOrFailed(t) => ResetOrFailed(t)',
           queue[s] # <<>> => ResetOrFailed(s)',
           \A t \in timed_out_media_streams' :
              t \in timed_out_media_streams \/ ResetOrFailed(t)'
    PROVE  Delivering'
<1>1. \A t \in {s} : queue[t] # <<>> => ResetOrFailed(t)' OBVIOUS
<1>2. /\ {s} \in SUBSET Streams
      /\ \A t \in Streams : queue'[t] = IF t \in {s} THEN <<>> ELSE queue[t]
      /\ queued_bytes' = queued_bytes - BytesOf({s})
  BY ClearStreamBytes
<1> QED BY <1>1, <1>2, ClearKeepsDelivering

\* A delivery timeout drops what was queued, with a reset.
LEMMA TimeoutDelivers ==
    ASSUME TypeOK, Delivering, NEW s \in Streams, QueueDeliveryTimeout(s),
           UNCHANGED <<sent, sending, admitted, fin_sent, last_error, disconnected, loop_exited, closed,
             reset_applied, resets>>,
           ended \subseteq ended',
           pc' = pc \/ pc # "writes", pc = "exited" => pc' = "exited"
    PROVE  Delivering'
<1>1. MediaTypes /\ (s \in timed_out_media_streams => ResetOrFailed(s))
  BY DEF TypeOK, Delivering, TimedOutIsReset, ResetOrFailed
<1>2. /\ ResetOrFailed(s)'
      /\ \A t \in Streams : ResetOrFailed(t) => ResetOrFailed(t)'
  BY <1>1, TimeoutResets
<1>3. ClearStream(s) /\ timed_out_media_streams' = timed_out_media_streams \cup {s}
  BY DEF QueueDeliveryTimeout
<1>4. \A t \in timed_out_media_streams' :
            t \in timed_out_media_streams \/ ResetOrFailed(t)'
  BY <1>2, <1>3
<1> QED BY <1>2, <1>3, <1>4, ClearStreamDelivers

\* The next write expired while this one was sent: what went counts as sent,
\* and the rest is dropped with a reset.
LEMMA SendThenExpireDelivers ==
    ASSUME TypeOK, Safe, Delivering, NEW s \in Streams, NEW n \in Nat,
           ProvideThenExpire(s, n), pc = "idle",
           UNCHANGED <<admitted, ended, last_error, disconnected, loop_exited, closed, reset_applied, resets>>
    PROVE  Delivering'
<1>0. /\ QueueDeliveryTimeout(s) /\ ClearStream(s)
      /\ timed_out_media_streams' = timed_out_media_streams \cup {s}
      /\ UNCHANGED <<pc, sending, fin_sent>> /\ sent' = [sent EXCEPT ![s] = @ + n]
  BY DEF ProvideThenExpire, QueueDeliveryTimeout
<1>1. MediaTypes /\ (s \in timed_out_media_streams => ResetOrFailed(s))
  BY DEF TypeOK, Delivering, TimedOutIsReset, ResetOrFailed
<1>2. /\ ResetOrFailed(s)'
      /\ \A t \in Streams : ResetOrFailed(t) => ResetOrFailed(t)'
  BY <1>0, <1>1, TimeoutResets
<1>3. /\ {s} \in SUBSET Streams
      /\ \A t \in Streams : queue'[t] = IF t \in {s} THEN <<>> ELSE queue[t]
      /\ queued_bytes' = queued_bytes - BytesOf({s})
  BY <1>0, ClearStreamBytes
<1>4. queue[s] # <<>> BY FrontStatusCases DEF ProvideThenExpire, CanSend
<1>5. s \notin fin_sent BY <1>4 DEF Safe, FinIsQuiet
<1>6. \A t \in Streams : t # s => sent'[t] = sent[t] /\ HandedOver(t)' = HandedOver(t)
  BY <1>0 DEF HandedOver, TypeOK, HistTypes
<1>7. QueuesContinue'
  <2> SUFFICES ASSUME NEW t \in Streams
               PROVE  Continues(queue'[t], HandedOver(t)', admitted[t])
    BY DEF QueuesContinue
  <2>1. CASE t = s BY <1>3, <2>1 DEF Continues
  <2>2. CASE t # s BY <1>3, <1>6, <2>2 DEF Delivering, QueuesContinue
  <2> QED BY <2>1, <2>2
<1>8. Accounting' BY <1>3, ClearAccounting DEF Delivering
<1>9. NoSilentTruncation'
  <2>1. ASSUME NEW t \in Streams, queue'[t] = <<>>
        PROVE  HandedOver(t)' = admitted'[t] \/ Excused(t)'
    <3>1. CASE t = s BY <1>2, <3>1 DEF Excused, ResetOrFailed
    <3>2. CASE t # s
      <4>1. HandedOver(t) = admitted[t] \/ Excused(t)
        BY <1>3, <2>1, <3>2 DEF Delivering, NoSilentTruncation, Excused
      <4>2. Excused(t) => Excused(t)' BY <1>2 DEF Excused, ResetOrFailed
      <4> QED BY <1>6, <3>2, <4>1, <4>2
    <3> QED BY <3>1, <3>2
  <2>2. ASSUME NEW t \in fin_sent'
        PROVE  sent'[t] = admitted'[t] /\ queue'[t] = <<>> /\ t \in ended'
    <3>1. t \in fin_sent /\ t # s /\ t \in Streams BY <1>0, <1>5, <2>2 DEF TypeOK, QuicTypes
    <3> QED BY <1>3, <1>6, <3>1 DEF Delivering, NoSilentTruncation
  <2> QED BY <2>1, <2>2 DEF NoSilentTruncation, Excused
<1>10. OverIsEmpty'
  <2>1. ~Over BY <1>4 DEF Delivering, OverIsEmpty
  <2> QED BY <2>1 DEF OverIsEmpty, Over, Failed
<1>11. TimedOutIsReset'
  <2>1. timed_out_media_streams \subseteq Streams BY DEF TypeOK, MediaTypes
  <2> QED BY <1>0, <1>2, <2>1 DEF Delivering, TimedOutIsReset, ResetOrFailed
<1>12. ExitRecorded' /\ SendingIsOpen' BY <1>0 DEF Delivering, ExitRecorded, SendingIsOpen
<1> QED BY <1>7, <1>8, <1>9, <1>10, <1>11, <1>12 DEF Delivering

\* provide_media_data() keeps the account, on each of its five ways.
LEMMA ProvideDelivers ==
    ASSUME TypeOK, Safe, Safe', Delivering,
           \A t \in Streams : ResetOrFailed(t) => ResetOrFailed(t)',
           NEW s \in Streams, ProvideMediaData(s)
    PROVE  Delivering'
<1>0. /\ pc = "idle" /\ sending = <<>>
      /\ UNCHANGED <<admitted, ended, last_error, disconnected, loop_exited, closed, reset_applied, resets>>
  BY DEF ProvideMediaData, flagVars, closeVars, TypeOK, LoopTypes
<1>1. CASE ProvideExpired(s) BY <1>0, <1>1, TimeoutDelivers DEF ProvideExpired
<1>2. CASE ProvideNothing(s) BY <1>0, <1>2, FrameDelivering DEF ProvideNothing
<1>3. ASSUME NEW n \in 0..Capacity, ProvideThenExpire(s, n) PROVE Delivering'
  <2>1. n \in Nat BY ConstantAssumption DEF ConstantAssumption
  <2> QED BY <1>0, <1>3, <2>1, SendThenExpireDelivers
<1>s. \A t \in Streams : HandedOver(t) = sent[t] /\ sent[t] \in Nat
  <2>1. \A t \in Streams : sent[t] \in Nat BY StreamTypes
  <2>2. \A t \in Streams : HandedOver(t) = sent[t] + 0 BY <1>0 DEF HandedOver
  <2> QED BY <2>1, <2>2
<1>4. ASSUME NEW n \in 0..Capacity, ProvideUnlocked(s, n) PROVE Delivering'
  <2>1. n \in Nat BY ConstantAssumption DEF ConstantAssumption
  <2>2. /\ CanSend(s, n) /\ Rest(queue[s], n) # <<>>
        /\ queue' = [queue EXCEPT ![s] = Rest(queue[s], n)]
        /\ queued_bytes' = queued_bytes - n /\ sending' = <<s, n>>
        /\ UNCHANGED <<sent, fin_sent, timed_out_media_streams>>
    BY <1>4 DEF ProvideUnlocked, RaisesPriority
  <2>3. ~SendsFin(Head(queue[s]), n) BY <2>2 DEF Rest
  <2>4. queue[s] # <<>> BY <2>2, FrontStatusCases DEF CanSend
  <2>5. s \notin fin_sent BY <2>4 DEF Safe, FinIsQuiet
  <2>6. \A t \in Streams :
            HandedOver(t)' = IF t = s THEN HandedOver(s) + n ELSE HandedOver(t)
    <3> SUFFICES ASSUME NEW t \in Streams
                 PROVE  HandedOver(t)' = IF t = s THEN HandedOver(s) + n ELSE HandedOver(t)
      OBVIOUS
    <3>1. sending'[1] = s /\ sending'[2] = n /\ sending' # <<>> BY <2>2
    <3>2. HandedOver(t)' = sent[t] + (IF t = s THEN n ELSE 0) BY <2>2, <3>1 DEF HandedOver
    <3> QED BY <1>s, <2>1, <3>2
  <2>7. SendingIsOpen' BY <2>2, <2>5 DEF SendingIsOpen
  <2> QED BY <1>0, <2>1, <2>2, <2>3, <2>5, <2>6, <2>7, SendDelivers
<1>5. ASSUME NEW n \in 0..Capacity, ProvideBytes(s, n) PROVE Delivering'
  <2>1. n \in Nat BY ConstantAssumption DEF ConstantAssumption
  <2>2. /\ CanSend(s, n)
        /\ queue' = [queue EXCEPT ![s] = Rest(queue[s], n)]
        /\ queued_bytes' = queued_bytes
             - (IF SendsFin(Head(queue[s]), n) THEN StreamBytes(s) ELSE n)
        /\ sent' = [sent EXCEPT ![s] = @ + n]
        /\ fin_sent' = IF SendsFin(Head(queue[s]), n)
                         THEN fin_sent \cup {s} ELSE fin_sent
        /\ UNCHANGED <<sending, timed_out_media_streams>>
    BY <1>5 DEF ProvideBytes
  <2>3. sent'[s] = sent[s] + n /\ \A t \in Streams : t # s => sent'[t] = sent[t]
    BY <2>2 DEF TypeOK, HistTypes
  <2>4. \A t \in Streams : HandedOver(t)' = sent'[t]
    <3>1. \A t \in Streams : sent'[t] \in Nat BY <1>s, <2>1, <2>3
    <3>2. \A t \in Streams : HandedOver(t)' = sent'[t] + 0 BY <1>0, <2>2 DEF HandedOver
    <3> QED BY <3>1, <3>2
  <2>5. \A t \in Streams :
            HandedOver(t)' = IF t = s THEN HandedOver(s) + n ELSE HandedOver(t)
    BY <1>s, <2>3, <2>4
  <2>6. SendingIsOpen' BY <1>0, <2>2 DEF SendingIsOpen
  <2> QED BY <1>0, <2>1, <2>2, <2>3, <2>4, <2>5, <2>6, SendDelivers
<1> QED BY <1>1, <1>2, <1>3, <1>4, <1>5 DEF ProvideMediaData

\* The bytes held across the unlock count as sent once the lock is back.
LEMMA ResumeDelivers ==
    ASSUME TypeOK, Delivering, ProvideResume,
           \A t \in Streams : ResetOrFailed(t) => ResetOrFailed(t)'
    PROVE  Delivering'
<1> DEFINE u == sending[1]
<1>1. sending # <<>> /\ u \in Streams /\ sending[2] \in Nat /\ u \notin fin_sent
  BY DEF ProvideResume, TypeOK, LoopTypes, Delivering, SendingIsOpen
<1>2. /\ sending' = <<>> /\ sent' = [sent EXCEPT ![u] = @ + sending[2]]
      /\ pc = "unlocked"
      /\ UNCHANGED <<queue, queued_bytes, admitted, fin_sent, last_error, disconnected, loop_exited, closed,
           ended, timed_out_media_streams>>
  BY DEF ProvideResume, implVars, flagVars, closeVars
<1> HIDE DEF u
<1>3. sent'[u] = sent[u] + sending[2] /\ \A t \in Streams : t # u => sent'[t] = sent[t]
  BY <1>1, <1>2 DEF TypeOK, HistTypes
<1>4. \A t \in Streams : HandedOver(t)' = HandedOver(t)
  <2> SUFFICES ASSUME NEW t \in Streams PROVE HandedOver(t)' = HandedOver(t) OBVIOUS
  <2>1. sent[t] \in Nat /\ sent'[t] \in Nat BY <1>1, <1>3, StreamTypes
  <2>2. HandedOver(t)' = sent'[t] + 0 BY <1>2 DEF HandedOver
  <2>3. HandedOver(t) = sent[t] + (IF t = u THEN sending[2] ELSE 0) BY <1>1 DEF HandedOver, u
  <2> QED BY <1>1, <1>3, <2>1, <2>2, <2>3
<1>5. QueuesContinue' /\ OverIsEmpty'
  BY <1>2, <1>4 DEF Delivering, QueuesContinue, OverIsEmpty, Over, Failed
<1>6. Accounting' BY <1>2 DEF Delivering, Accounting, BytesOf, StreamBytes
<1>7. NoSilentTruncation'
  <2>1. ASSUME NEW t \in Streams, queue'[t] = <<>>
        PROVE  HandedOver(t)' = admitted'[t] \/ Excused(t)'
    <3>1. HandedOver(t) = admitted[t] \/ Excused(t)
      BY <1>2, <2>1 DEF Delivering, NoSilentTruncation, Excused
    <3>2. Excused(t) => Excused(t)' BY <1>2 DEF Excused, ResetOrFailed
    <3> QED BY <1>2, <1>4, <3>1, <3>2
  <2>2. ASSUME NEW t \in fin_sent'
        PROVE  sent'[t] = admitted'[t] /\ queue'[t] = <<>> /\ t \in ended'
    <3>1. t \in fin_sent /\ t # u /\ t \in Streams BY <1>1, <1>2, <2>2 DEF TypeOK, QuicTypes
    <3> QED BY <1>2, <1>3, <3>1 DEF Delivering, NoSilentTruncation
  <2> QED BY <2>1, <2>2 DEF NoSilentTruncation, Excused
<1>8. TimedOutIsReset'
  <2>1. timed_out_media_streams \subseteq Streams BY DEF TypeOK, MediaTypes
  <2> QED BY <1>2, <2>1 DEF Delivering, TimedOutIsReset, ResetOrFailed
<1>9. ExitRecorded' /\ SendingIsOpen' BY <1>2 DEF Delivering, ExitRecorded, SendingIsOpen
<1> QED BY <1>5, <1>6, <1>7, <1>8, <1>9 DEF Delivering

\* A subgroup whose deadline passed is cleared, and its reset swapped out.
LEMMA PassBeginDelivers ==
    ASSUME TypeOK, Delivering, PassBegin,
           \A t \in Streams : ResetOrFailed(t) => ResetOrFailed(t)'
    PROVE  Delivering'
<1>1. /\ pc = "idle" /\ pc' = "writes" /\ Due \in SUBSET Streams
      /\ \A s \in Streams : queue'[s] = IF s \in Due THEN <<>> ELSE queue[s]
      /\ queued_bytes' = queued_bytes - BytesOf(Due)
      /\ timed_out_media_streams' = timed_out_media_streams \cup Due
      /\ UNCHANGED <<sent, sending, admitted, fin_sent, last_error, ended, disconnected, loop_exited,
           closed>>
  BY DEF PassBegin, Due, flagVars, closeVars, quicVars, histVars
<1>2. ASSUME NEW s \in Due PROVE ResetOrFailed(s)'
  <2>0. s \in Streams /\ s \in AllStreams BY <1>1, <1>2 DEF AllStreams
  <2>1. CASE s \in timed_out_media_streams BY <2>0, <2>1 DEF Delivering, TimedOutIsReset, ResetOrFailed
  <2>2. CASE s \notin timed_out_media_streams
    <3>1. resets'[s] # NoReset BY <1>2, <2>0, <2>2 DEF PassBegin, Timeout, NoReset
    <3> QED BY <1>1, <3>1 DEF ResetOrFailed, ResetUnderway
  <2> QED BY <2>1, <2>2
<1>3. \A s \in timed_out_media_streams' :
            s \in timed_out_media_streams \/ ResetOrFailed(s)'
  BY <1>1, <1>2
<1>4. \A s \in Due : queue[s] # <<>> => ResetOrFailed(s)' BY <1>2
<1> QED BY <1>1, <1>3, <1>4, ClearKeepsDelivering

\* The activations of a pass keep the account.
LEMMA ActivateDelivers ==
    ASSUME TypeOK, Delivering, NEW s \in Streams, PassActivate(s),
           \A t \in Streams : ResetOrFailed(t) => ResetOrFailed(t)'
    PROVE  Delivering'
<1>0. /\ pc = "activate"
      /\ UNCHANGED <<sent, sending, admitted, fin_sent, disconnected, loop_exited, closed, ended,
           reset_applied, resets>>
  BY DEF PassActivate, closeVars, histVars
<1>1. CASE Inspected(s) = "expired"
  <2>1. QueueDeliveryTimeout(s) /\ UNCHANGED <<last_error, pc>> BY <1>1 DEF PassActivate
  <2> QED BY <1>0, <2>1, TimeoutDelivers
<1>2. CASE Inspected(s) = "empty"
  <2>1. UNCHANGED <<queue, queued_bytes, timed_out_media_streams, last_error, pc>> BY <1>2 DEF PassActivate
  <2> QED BY <1>0, <2>1, FrameDelivering
<1>3. CASE Inspected(s) = "available" /\ CanActivate(s)
  <2>1. UNCHANGED <<queue, queued_bytes, timed_out_media_streams, last_error, pc>>
    BY <1>3 DEF PassActivate, implVars
  <2> QED BY <1>0, <2>1, FrameDelivering
<1>4. CASE Inspected(s) = "available" /\ ~CanActivate(s)
  <2>1. last_error' = "activation" /\ ClearConnection BY <1>4 DEF PassActivate, FailMediaDelivery
  <2>2. Failed' /\ queued_bytes' = 0 /\ \A t \in Streams : queue'[t] = <<>>
    BY <2>1 DEF Failed, ClearConnection, EmptyQueue
  <2>3. ExitRecorded' BY <1>0 DEF Delivering, ExitRecorded
  <2> QED BY <1>0, <2>2, <2>3, EmptyKeepsDelivering
<1> QED BY <1>1, <1>2, <1>3, <1>4 DEF PassActivate

\* Media the client abandons is abandoned with the connection.
LEMMA FailDelivers ==
    ASSUME TypeOK, Delivering, FailMediaDelivery("picoquic"), ~loop_exited,
           UNCHANGED <<sent, admitted, fin_sent, ended, loop_exited, closed>>,
           sending' = <<>> \/ sending' = sending
    PROVE  Delivering'
<1>1. Failed' /\ queued_bytes' = 0 /\ \A t \in Streams : queue'[t] = <<>>
  BY DEF FailMediaDelivery, Failed, ClearConnection, EmptyQueue
<1>2. ExitRecorded' BY DEF Delivering, ExitRecorded
<1> QED BY <1>1, <1>2, EmptyKeepsDelivering

\* Every step keeps the account of the admitted bytes.
LEMMA NextDelivering == TypeOK /\ Safe /\ Delivering /\ [Next]_vars => Delivering'
<1> SUFFICES ASSUME TypeOK, Safe, Delivering, [Next]_vars PROVE Delivering' OBVIOUS
<1>s. Safe' BY NextSafe
<1>r. \A s \in Streams : ResetOrFailed(s) => ResetOrFailed(s)' BY ResetsStay DEF Delivering
<1>e. loop_exited => pc = "exited" BY DEF Delivering, ExitRecorded
<1>1. ASSUME NEW s \in Streams, NEW size \in Sizes, NEW fin \in BOOLEAN,
             NEW od \in Deadlines, NEW sd \in Deadlines,
             TryWriteObject(s, size, fin, od, sd)
      PROVE  Delivering'
  BY <1>1, <1>r, WriteDelivers
<1>2. ASSUME NEW s \in Streams, NEW code \in ResetCodes, ResetStream(s, code)
      PROVE  Delivering'
  <2>0. /\ UNCHANGED <<sent, sending, admitted, fin_sent, last_error, pc, disconnected, loop_exited, closed,
             reset_applied, resets>>
        /\ ended \subseteq ended'
    BY <1>2 DEF ResetStream, flagVars, closeVars, loopVars, quicVars
  <2>1. CASE code = Timeout BY <1>2, <2>0, <2>1, TimeoutDelivers DEF ResetStream
  <2>2. CASE code # Timeout
    <3>1. /\ ClearStream(s) /\ UNCHANGED timed_out_media_streams
          /\ pending_resets' = WithReset(pending_resets, s, code)
      BY <1>2, <2>2 DEF ResetStream
    <3>2. pending_resets'[s] # NoReset BY <3>1, WithResetType DEF TypeOK, MediaTypes, AllStreams
    <3>3. ResetOrFailed(s)' BY <3>2 DEF ResetOrFailed, ResetUnderway
    <3> QED BY <1>r, <2>0, <3>1, <3>3, ClearStreamDelivers
  <2> QED BY <2>1, <2>2
<1>3. ASSUME NEW s \in Streams, AcknowledgeExpired(s) PROVE Delivering'
  BY <1>3, <1>r, FrameDelivering DEF AcknowledgeExpired, flagVars, closeVars, loopVars, quicVars
<1>4. ASSUME NEW s \in AllStreams, AcknowledgePeerStopped(s) PROVE Delivering'
  BY <1>4, <1>r, FrameDelivering DEF AcknowledgePeerStopped, implVars, flagVars, closeVars, loopVars,
     quicVars
<1>5. ASSUME NEW q \in Requests, NEW waited \in BOOLEAN, WriteStream(q, waited)
      PROVE  Delivering'
  BY <1>5, <1>r, FrameDelivering DEF WriteStream, implVars, flagVars, closeVars, loopVars, quicVars,
     histVars
<1>6. ASSUME NEW d \in Timeouts, NoteDeliveryTimeout(d) PROVE Delivering'
  BY <1>6, <1>r, FrameDelivering DEF NoteDeliveryTimeout, implVars, flagVars, loopVars, quicVars, histVars
<1>7. CASE Close BY <1>7, <1>r, FrameDelivering DEF Close, implVars, flagVars, loopVars, quicVars, histVars
<1>8. CASE CloseJoined
  <2>1. /\ ClearConnection /\ timed_out_media_streams' = {} /\ closed' = TRUE
        /\ loop_exited
        /\ UNCHANGED <<sent, sending, admitted, fin_sent, ended, loop_exited, pc>>
    BY <1>8 DEF CloseJoined, flagVars, loopVars, quicVars, histVars
  <2>2. queued_bytes' = 0 /\ \A t \in Streams : queue'[t] = <<>> BY <2>1 DEF ClearConnection, EmptyQueue
  <2>3. ExitRecorded' BY <1>e, <2>1 DEF ExitRecorded
  <2> QED BY <2>1, <2>2, <2>3, EmptyKeepsDelivering
<1>9. CASE PassBegin BY <1>9, <1>r, PassBeginDelivers
<1>10. CASE OfferWrite
  BY <1>10, <1>r, FrameDelivering DEF OfferWrite, implVars, flagVars, closeVars, histVars
<1>11. CASE PassWrites
  BY <1>11, <1>r, FrameDelivering DEF PassWrites, implVars, flagVars, closeVars, histVars
<1>12. CASE PassResets BY <1>12, <1>r, FrameDelivering DEF PassResets, flagVars, closeVars, histVars
<1>13. CASE PassClose BY <1>13, <1>r, FrameDelivering DEF PassClose, implVars, flagVars, quicVars, histVars
<1>14. ASSUME NEW s \in Streams, PassActivate(s) PROVE Delivering' BY <1>14, <1>r, ActivateDelivers
<1>15. CASE PassFails
  <2>1. /\ FailMediaDelivery("picoquic") /\ pc # "exited"
        /\ UNCHANGED <<sent, sending, admitted, fin_sent, ended, loop_exited, closed>>
    BY <1>15 DEF PassFails, closeVars, quicVars, histVars
  <2> QED BY <1>e, <2>1, FailDelivers
<1>16. CASE LoopEnds
  BY <1>16, <1>r, FrameDelivering DEF LoopEnds, implVars, flagVars, closeVars, quicVars, histVars
<1>17. CASE ThreadExit
  <2>1. /\ ClearConnection /\ timed_out_media_streams' = {} /\ loop_exited' = TRUE
        /\ pc' = "exited"
        /\ UNCHANGED <<sent, sending, admitted, fin_sent, ended, closed>>
    BY <1>17 DEF ThreadExit, closeVars, quicVars, histVars
  <2>2. queued_bytes' = 0 /\ \A t \in Streams : queue'[t] = <<>> BY <2>1 DEF ClearConnection, EmptyQueue
  <2>3. ExitRecorded' BY <2>1 DEF ExitRecorded
  <2> QED BY <2>1, <2>2, <2>3, EmptyKeepsDelivering
<1>18. ASSUME NEW s \in Streams, ProvideMediaData(s) PROVE Delivering' BY <1>18, <1>r, <1>s, ProvideDelivers
<1>19. CASE ProvideResume BY <1>19, <1>r, ResumeDelivers
<1>20. CASE ProvideFails
  <2>1. /\ FailMediaDelivery("picoquic") /\ pc # "exited"
        /\ sending' = <<>>
        /\ UNCHANGED <<sent, admitted, fin_sent, ended, loop_exited, closed>>
    BY <1>20 DEF ProvideFails, closeVars, histVars
  <2> QED BY <1>e, <2>1, FailDelivers
<1>21. ASSUME NEW s \in AllStreams, StopSending(s) PROVE Delivering'
  <2>0. /\ UNCHANGED <<sent, sending, admitted, fin_sent, last_error, pc, ended, disconnected, loop_exited,
             closed, timed_out_media_streams>>
        /\ pending_resets' = WithReset(pending_resets, s, Cancelled)
    BY <1>21 DEF StopSending, flagVars, closeVars, loopVars, histVars
  <2>1. CASE s \in Streams
    <3>1. ClearStream(s) BY <1>21, <2>1 DEF StopSending
    <3>2. pending_resets'[s] # NoReset BY <2>0, WithResetType DEF TypeOK, MediaTypes, ResetCodes
    <3>3. ResetOrFailed(s)' BY <3>2 DEF ResetOrFailed, ResetUnderway
    <3> QED BY <1>r, <2>0, <2>1, <3>1, <3>3, ClearStreamDelivers
  <2>2. CASE s \notin Streams
    <3>1. UNCHANGED <<queue, queued_bytes>> BY <1>21, <2>2 DEF StopSending
    <3> QED BY <1>r, <2>0, <3>1, FrameDelivering
  <2> QED BY <2>1, <2>2
<1>22. ASSUME NEW s \in Streams, StreamReleased(s) PROVE Delivering'
  <2>1. /\ ClearStream(s)
        /\ s \in fin_sent \/ reset_applied[s] # NoReset
        /\ UNCHANGED <<sent, sending, admitted, fin_sent, last_error, pc, ended, disconnected, loop_exited,
             closed, timed_out_media_streams>>
    BY <1>22 DEF StreamReleased, flagVars, closeVars, loopVars, quicVars, histVars
  <2>2. queue[s] = <<>> BY <2>1 DEF Safe, FinIsQuiet, ResetIsQuiet, ResetUnderway
  <2> QED BY <1>r, <2>1, <2>2, ClearStreamDelivers
<1>23. CASE ConnectionClosed
  <2>1. /\ ClearConnection /\ timed_out_media_streams' = {} /\ disconnected' = TRUE
        /\ UNCHANGED <<sent, sending, admitted, fin_sent, ended, loop_exited, closed, pc>>
    BY <1>23 DEF ConnectionClosed, closeVars, loopVars, histVars
  <2>2. queued_bytes' = 0 /\ \A t \in Streams : queue'[t] = <<>> BY <2>1 DEF ClearConnection, EmptyQueue
  <2>3. ExitRecorded' BY <2>1 DEF Delivering, ExitRecorded
  <2> QED BY <2>1, <2>2, <2>3, EmptyKeepsDelivering
<1>24. ASSUME NEW s \in AllStreams, Acknowledged(s) PROVE Delivering'
  BY <1>24, <1>r, FrameDelivering DEF Acknowledged, implVars, flagVars, closeVars, loopVars, histVars
<1>25. CASE Tick
  BY <1>25, <1>r, FrameDelivering DEF Tick, implVars, flagVars, closeVars, loopVars, quicVars, histVars
<1>26. CASE UNCHANGED vars
  BY <1>26, <1>r, FrameDelivering DEF vars, implVars, flagVars, closeVars, loopVars, quicVars, histVars
<1> QED BY <1>1, <1>2, <1>3, <1>4, <1>5, <1>6, <1>7, <1>8, <1>9, <1>10, <1>11,
     <1>12, <1>13, <1>14, <1>15, <1>16, <1>17, <1>18, <1>19, <1>20, <1>21,
     <1>22, <1>23, <1>24, <1>25, <1>26
  DEF Next, SessionStep, PassStep, PicoquicStep, Terminated

\* The account holds in every reachable state.
LEMMA DeliveringAlways == Spec => []Delivering
<1>1. TypeOK /\ Safe /\ Delivering /\ [Next]_vars => Delivering' BY NextDelivering
<1> QED BY InitDelivering, TypeCorrect, SafeAlways, <1>1, PTL DEF Spec

\* Every byte try_write_object() admitted is accounted for, however expiry,
\* resets, STOP_SENDING, the unlock in provide_media_data() and the end of the
\* connection interleave: the budget is exactly what is queued and within its
\* capacity, every queue continues what picoquic was given without a gap, and
\* what is dropped is dropped together with a reset or with the connection.
THEOREM EveryByteAccounted == Spec => []MediaAccounted
<1>1. Delivering => MediaAccounted
  <2> SUFFICES ASSUME Delivering PROVE ContiguousDelivery BY DEF Delivering, MediaAccounted
  <2> QED BY DEF Delivering, QueuesContinue, Continues, ContiguousDelivery
<1> QED BY <1>1, DeliveringAlways, PTL

(* ---- reliable writes and the close ---- *)

Ids(q) == {q[i].id : i \in 1..Len(q)}

\* What the running pass still has to offer to picoquic.
Offered == IF pc = "writes" THEN writes ELSE <<>>

\* The writes of q are in the order of their calls; those of p come before them.
Increasing(q) == \A i, j \in 1..Len(q) : i < j => q[i].id < q[j].id
Precedes(p, q) == \A i \in 1..Len(p), j \in 1..Len(q) : p[i].id < q[j].id

\* Handed over, offered and queued: in this order, and none from the future.
InOrder ==
    /\ Increasing(handed) /\ Increasing(Offered) /\ Increasing(pending_writes)
    /\ Precedes(handed, Offered) /\ Precedes(handed, pending_writes)
    /\ Precedes(Offered, pending_writes)
    /\ \A i \in Ids(handed) \cup Ids(Offered) \cup Ids(pending_writes) : i <= issued

\* No write_stream() call is forgotten while the connection is up.
NoneLost ==
    Failed \/ 1..issued \subseteq Ids(handed) \cup dropped \cup Ids(Offered)
                                 \cup Ids(pending_writes)

\* A pass that saw the close took every write from before it, unless some had
\* to be deferred; at its close phase no reset is queued but the session's own.
ClosingPass ==
    /\ issued_at_close <= issued
    /\ saw_close => close_requested
    /\ pc = "close" => saw_close
    /\ saw_close /\ (pc = "writes" \/ (pc \in {"activate", "close"} /\ writes = <<>>)) =>
         \A i \in Ids(pending_writes) : i > issued_at_close
    /\ pc = "close" => \A s \in Streams : pending_resets[s] # NoReset => s \in ended

\* With TypeOK, the inductive invariant for ReliableInOrder; with Safe and
\* Delivering, what CloseAfterDelivery needs of the state the close is issued in.
Reliable == InOrder /\ NoneLost /\ ClosingPass

\* One write more at the end of a sequence of writes.
LEMMA AppendWrite ==
    ASSUME NEW q \in Seq(ReliableWrite), NEW w \in ReliableWrite
    PROVE  /\ Append(q, w) \in Seq(ReliableWrite) /\ Len(q) \in Nat
           /\ Len(Append(q, w)) = Len(q) + 1 /\ Append(q, w)[Len(q) + 1] = w
           /\ \A i \in 1..Len(q) : Append(q, w)[i] = q[i] /\ q[i] \in ReliableWrite
  OBVIOUS

\* Appending a later write keeps a sequence in order, and after what it was
\* after.
LEMMA AppendInOrder ==
    ASSUME NEW q \in Seq(ReliableWrite), NEW w \in ReliableWrite,
           Increasing(q), \A i \in 1..Len(q) : q[i].id < w.id
    PROVE  /\ Increasing(Append(q, w))
           /\ Ids(Append(q, w)) = Ids(q) \cup {w.id}
           /\ \A p \in Seq(ReliableWrite) :
                Precedes(p, q) /\ (\A i \in 1..Len(p) : p[i].id < w.id)
                  => Precedes(p, Append(q, w))
           /\ \A p \in Seq(ReliableWrite) :
                Precedes(q, p) /\ (\A i \in 1..Len(p) : w.id < p[i].id)
                  => Precedes(Append(q, w), p)
<1> DEFINE r == Append(q, w)
<1>1. /\ Len(q) \in Nat /\ Len(r) = Len(q) + 1 /\ r[Len(q) + 1] = w
      /\ \A i \in 1..Len(q) : r[i] = q[i]
  BY AppendWrite
<1> HIDE DEF r
<1>2. \A i \in 1..Len(r) : i \in 1..Len(q) \/ i = Len(q) + 1 BY <1>1
<1>3. 1..Len(q) \subseteq 1..Len(r) /\ Len(q) + 1 \in 1..Len(r) BY <1>1
<1>4. Increasing(r)
  <2> SUFFICES ASSUME NEW i \in 1..Len(r), NEW j \in 1..Len(r), i < j
               PROVE  r[i].id < r[j].id
    BY DEF Increasing
  <2>1. i \in 1..Len(q) BY <1>1, <1>2
  <2>2. CASE j \in 1..Len(q) BY <1>1, <2>1, <2>2 DEF Increasing
  <2>3. CASE j = Len(q) + 1 BY <1>1, <2>1, <2>3
  <2> QED BY <1>2, <2>2, <2>3
<1>5. Ids(r) = Ids(q) \cup {w.id} BY <1>1, <1>2, <1>3 DEF Ids
<1>6. ASSUME NEW p \in Seq(ReliableWrite), Precedes(p, q),
             \A i \in 1..Len(p) : p[i].id < w.id
      PROVE  Precedes(p, r)
  BY <1>1, <1>2, <1>6 DEF Precedes
<1>7. ASSUME NEW p \in Seq(ReliableWrite), Precedes(q, p),
             \A i \in 1..Len(p) : w.id < p[i].id
      PROVE  Precedes(r, p)
  BY <1>1, <1>2, <1>7 DEF Precedes
<1> QED BY <1>4, <1>5, <1>6, <1>7 DEF r

\* The parts of a sequence in order: its head, and what follows it.
LEMMA TailInOrder ==
    ASSUME NEW q \in Seq(ReliableWrite), q # <<>>, Increasing(q)
    PROVE  /\ Head(q) \in ReliableWrite /\ Tail(q) \in Seq(ReliableWrite)
           /\ Increasing(Tail(q)) /\ Ids(q) = Ids(Tail(q)) \cup {Head(q).id}
           /\ \A i \in 1..Len(Tail(q)) : Head(q).id < Tail(q)[i].id
           /\ \A p \in Seq(ReliableWrite) :
                Precedes(p, q) => /\ Precedes(p, Tail(q))
                                  /\ \A i \in 1..Len(p) : p[i].id < Head(q).id
           /\ \A p \in Seq(ReliableWrite) :
                Precedes(q, p) => /\ Precedes(Tail(q), p)
                                  /\ \A i \in 1..Len(p) : Head(q).id < p[i].id
<1> DEFINE r == Tail(q)
           h == Head(q)
<1>1. /\ Len(q) \in Nat /\ Len(q) >= 1 /\ Len(r) = Len(q) - 1 /\ h = q[1]
      /\ h \in ReliableWrite /\ r \in Seq(ReliableWrite)
      /\ \A i \in 1..Len(r) : r[i] = q[i + 1]
  OBVIOUS
<1> HIDE DEF r, h
<1>2. \A i \in 1..Len(r) : i + 1 \in 1..Len(q) /\ 1 < i + 1 BY <1>1
<1>3. 1 \in 1..Len(q) BY <1>1
<1>4. Increasing(r)
  <2> SUFFICES ASSUME NEW i \in 1..Len(r), NEW j \in 1..Len(r), i < j
               PROVE  r[i].id < r[j].id
    BY DEF Increasing
  <2>1. i + 1 < j + 1 /\ i + 1 \in 1..Len(q) /\ j + 1 \in 1..Len(q) BY <1>2
  <2> QED BY <1>1, <2>1 DEF Increasing
<1>5. \A i \in 1..Len(r) : h.id < r[i].id BY <1>1, <1>2, <1>3 DEF Increasing
<1>6. Ids(q) = Ids(r) \cup {h.id}
  <2>1. \A i \in 1..Len(q) : i = 1 \/ (i - 1 \in 1..Len(r) /\ q[i] = r[i - 1])
    <3> SUFFICES ASSUME NEW i \in 1..Len(q), i # 1
                 PROVE  i - 1 \in 1..Len(r) /\ q[i] = r[i - 1]
      OBVIOUS
    <3>1. i - 1 \in 1..Len(r) /\ (i - 1) + 1 = i BY <1>1
    <3> QED BY <1>1, <3>1
  <2>2. Ids(q) \subseteq Ids(r) \cup {h.id} BY <1>1, <2>1 DEF Ids
  <2>3. Ids(r) \cup {h.id} \subseteq Ids(q) BY <1>1, <1>2, <1>3 DEF Ids
  <2> QED BY <2>2, <2>3
<1>7. ASSUME NEW p \in Seq(ReliableWrite), Precedes(p, q)
      PROVE  Precedes(p, r) /\ \A i \in 1..Len(p) : p[i].id < h.id
  BY <1>1, <1>2, <1>3, <1>7 DEF Precedes
<1>8. ASSUME NEW p \in Seq(ReliableWrite), Precedes(q, p)
      PROVE  Precedes(r, p) /\ \A i \in 1..Len(p) : h.id < p[i].id
  BY <1>1, <1>2, <1>3, <1>8 DEF Precedes
<1> QED BY <1>1, <1>4, <1>5, <1>6, <1>7, <1>8 DEF r, h

\* Two sequences in order, one before the other, are in order as one.
LEMMA ConcatInOrder ==
    ASSUME NEW p \in Seq(ReliableWrite), NEW q \in Seq(ReliableWrite),
           Increasing(p), Increasing(q), Precedes(p, q)
    PROVE  /\ p \o q \in Seq(ReliableWrite) /\ Increasing(p \o q)
           /\ Ids(p \o q) = Ids(p) \cup Ids(q)
           /\ \A o \in Seq(ReliableWrite) :
                Precedes(o, p) /\ Precedes(o, q) => Precedes(o, p \o q)
           /\ \A o \in Seq(ReliableWrite) :
                Precedes(p, o) /\ Precedes(q, o) => Precedes(p \o q, o)
<1> DEFINE r == p \o q
           m == Len(p)
<1>1. /\ r \in Seq(ReliableWrite) /\ m \in Nat /\ Len(q) \in Nat /\ Len(r) = m + Len(q)
      /\ \A i \in 1..m : r[i] = p[i]
      /\ \A i \in 1..Len(r) : i > m => i - m \in 1..Len(q) /\ r[i] = q[i - m]
      /\ \A i \in 1..Len(q) : m + i \in 1..Len(r) /\ r[m + i] = q[i]
  <2>1. r \in Seq(ReliableWrite) /\ m \in Nat /\ Len(q) \in Nat /\ Len(r) = m + Len(q) OBVIOUS
  <2>2. \A i \in 1..Len(r) : r[i] = IF i <= m THEN p[i] ELSE q[i - m] OBVIOUS
  <2> HIDE DEF r, m
  <2>3. \A i \in 1..m : i \in 1..Len(r) /\ i <= m BY <2>1
  <2>4. \A i \in 1..Len(q) : m + i \in 1..Len(r) /\ ~(m + i <= m) /\ (m + i) - m = i BY <2>1
  <2>5. \A i \in 1..Len(r) : i > m => i - m \in 1..Len(q) /\ ~(i <= m) BY <2>1
  <2> QED BY <2>1, <2>2, <2>3, <2>4, <2>5
<1> HIDE DEF r, m
<1>2. \A i \in 1..Len(r) : i \in 1..m \/ i > m BY <1>1
<1>3. Increasing(r)
  <2> SUFFICES ASSUME NEW i \in 1..Len(r), NEW j \in 1..Len(r), i < j
               PROVE  r[i].id < r[j].id
    BY DEF Increasing
  <2>1. CASE i \in 1..m /\ j \in 1..m BY <1>1, <2>1 DEF Increasing, m
  <2>2. CASE i \in 1..m /\ j > m BY <1>1, <2>2 DEF Precedes, m
  <2>3. CASE i > m /\ j > m
    <3>1. i - m \in 1..Len(q) /\ j - m \in 1..Len(q) /\ i - m < j - m BY <1>1, <2>3
    <3> QED BY <1>1, <2>3, <3>1 DEF Increasing
  <2> QED BY <1>1, <1>2, <2>1, <2>2, <2>3
<1>4. Ids(r) = Ids(p) \cup Ids(q)
  <2>0. 1..m \subseteq 1..Len(r) BY <1>1
  <2>1. ASSUME NEW i \in 1..Len(r) PROVE r[i].id \in Ids(p) \cup Ids(q)
    <3>1. CASE i \in 1..m BY <1>1, <3>1 DEF Ids, m
    <3>2. CASE i > m BY <1>1, <3>2 DEF Ids
    <3> QED BY <1>2, <3>1, <3>2
  <2>2. ASSUME NEW i \in 1..Len(p) PROVE p[i].id \in Ids(r)
    <3>1. i \in 1..Len(r) /\ r[i] = p[i] BY <1>1, <2>0 DEF m
    <3> QED BY <3>1 DEF Ids
  <2>3. ASSUME NEW i \in 1..Len(q) PROVE q[i].id \in Ids(r)
    <3>1. m + i \in 1..Len(r) /\ r[m + i] = q[i] BY <1>1
    <3> QED BY <3>1 DEF Ids
  <2>4. Ids(r) \subseteq Ids(p) \cup Ids(q) BY <2>1 DEF Ids
  <2>5. Ids(p) \cup Ids(q) \subseteq Ids(r) BY <2>2, <2>3 DEF Ids
  <2> QED BY <2>4, <2>5
<1>5. ASSUME NEW o \in Seq(ReliableWrite), Precedes(o, p), Precedes(o, q)
      PROVE  Precedes(o, r)
  BY <1>1, <1>2, <1>5 DEF Precedes, m
<1>6. ASSUME NEW o \in Seq(ReliableWrite), Precedes(p, o), Precedes(q, o)
      PROVE  Precedes(r, o)
  BY <1>1, <1>2, <1>6 DEF Precedes, m
<1> QED BY <1>1, <1>3, <1>4, <1>5, <1>6 DEF r

\* The sequences InOrder is about are sequences of writes, and its ids numbers.
LEMMA OrderTypes ==
    ASSUME TypeOK
    PROVE  /\ handed \in Seq(ReliableWrite) /\ pending_writes \in Seq(ReliableWrite)
           /\ Offered \in Seq(ReliableWrite) /\ writes \in Seq(ReliableWrite)
           /\ issued \in Nat
           /\ \A q \in Seq(ReliableWrite) : Ids(q) \subseteq Nat
<1>1. <<>> \in Seq(ReliableWrite) OBVIOUS
<1>2. ASSUME NEW q \in Seq(ReliableWrite) PROVE Ids(q) \subseteq Nat
  <2>1. \A i \in 1..Len(q) : q[i] \in ReliableWrite OBVIOUS
  <2> QED BY <2>1 DEF Ids, ReliableWrite
<1> QED BY <1>1, <1>2 DEF TypeOK, ReliableTypes, LoopTypes, Offered

\* An empty sequence is in order with anything.
LEMMA EmptyInOrder ==
    /\ Increasing(<<>>) /\ Ids(<<>>) = {}
    /\ \A q : Precedes(<<>>, q) /\ Precedes(q, <<>>)
<1>1. Len(<<>>) = 0 /\ 1..0 = {} OBVIOUS
<1> QED BY <1>1 DEF Increasing, Ids, Precedes

\* A step that leaves the reliable writes and the close alone.
LEMMA FrameReliable ==
    ASSUME TypeOK, Reliable,
           UNCHANGED <<handed, pending_writes, writes, issued, dropped, issued_at_close, saw_close,
             close_requested>>,
           pc' = "writes" <=> pc = "writes",
           pc' = "activate" => pc = "activate",
           pc' = "close" => pc = "close",
           Failed => Failed',
           ended \subseteq ended',
           pc' = "close" => \A s \in Streams :
               pending_resets'[s] # NoReset => pending_resets[s] # NoReset \/ s \in ended'
    PROVE  Reliable'
<1>1. Offered' = Offered BY DEF Offered
<1>2. InOrder' BY <1>1 DEF Reliable, InOrder, Increasing, Precedes, Ids
<1>3. NoneLost' BY <1>1 DEF Reliable, NoneLost, Ids
<1>4. ClosingPass' BY DEF Reliable, ClosingPass, Ids
<1> QED BY <1>2, <1>3, <1>4 DEF Reliable

\* Nothing was written on a new connection.
LEMMA InitReliable == Init => Reliable
<1> SUFFICES ASSUME Init PROVE Reliable OBVIOUS
<1>1. /\ handed = <<>> /\ pending_writes = <<>> /\ writes = <<>> /\ issued = 0
      /\ issued_at_close = 0 /\ saw_close = FALSE /\ pc = "idle"
  BY DEF Init
<1>2. Offered = <<>> BY <1>1 DEF Offered
<1>3. InOrder BY <1>1, <1>2, EmptyInOrder DEF InOrder
<1>4. 1..issued = {} BY <1>1
<1> QED BY <1>1, <1>3, <1>4 DEF Reliable, NoneLost, ClosingPass

\* write_stream() queues behind everything.
LEMMA WriteReliable ==
    ASSUME TypeOK, Reliable, NEW r \in Requests, NEW waited \in BOOLEAN,
           WriteStream(r, waited)
    PROVE  Reliable'
<1> DEFINE w == [id |-> issued + 1, stream |-> r]
<1>1. /\ issued' = issued + 1 /\ pending_writes' = Append(pending_writes, w)
      /\ UNCHANGED <<handed, writes, dropped, issued_at_close, saw_close, pc, close_requested, last_error,
           pending_resets, ended>>
  BY DEF WriteStream, flagVars, closeVars, loopVars, implVars, histVars
<1>2. issued \in Nat /\ w \in ReliableWrite /\ w.id = issued + 1 BY OrderTypes DEF ReliableWrite
<1> HIDE DEF w
<1>3. /\ handed \in Seq(ReliableWrite) /\ pending_writes \in Seq(ReliableWrite)
      /\ Offered \in Seq(ReliableWrite) /\ Offered' = Offered
  BY <1>1, OrderTypes DEF Offered
<1>4. /\ \A i \in Ids(handed) \cup Ids(Offered) \cup Ids(pending_writes) : i \in Nat /\ i <= issued
      /\ InOrder
  BY <1>3, OrderTypes DEF Reliable, InOrder
<1>5. /\ \A i \in 1..Len(handed) : handed[i].id < w.id
      /\ \A i \in 1..Len(Offered) : Offered[i].id < w.id
      /\ \A i \in 1..Len(pending_writes) : pending_writes[i].id < w.id
  <2>1. \A i \in Ids(handed) \cup Ids(Offered) \cup Ids(pending_writes) : i < w.id BY <1>2, <1>4
  <2> QED BY <2>1 DEF Ids
<1>6. /\ Increasing(pending_writes')
      /\ Ids(pending_writes') = Ids(pending_writes) \cup {w.id}
      /\ Precedes(handed, pending_writes') /\ Precedes(Offered, pending_writes')
  BY <1>1, <1>2, <1>3, <1>4, <1>5, AppendInOrder DEF InOrder
<1>7. InOrder'
  <2>1. \A i \in Ids(handed) \cup Ids(Offered) \cup Ids(pending_writes') : i <= issued'
    BY <1>1, <1>2, <1>4, <1>6
  <2>2. Increasing(handed) /\ Increasing(Offered) /\ Precedes(handed, Offered) BY <1>4 DEF InOrder
  <2>3. Increasing(handed)' /\ Increasing(Offered)' /\ Precedes(handed, Offered)'
    BY <1>1, <1>3, <2>2 DEF Increasing, Precedes
  <2>4. /\ Increasing(pending_writes)' /\ Precedes(handed, pending_writes)'
        /\ Precedes(Offered, pending_writes)'
    BY <1>1, <1>3, <1>6 DEF Increasing, Precedes
  <2>5. \A i \in Ids(handed)' \cup Ids(Offered)' \cup Ids(pending_writes)' : i <= issued'
    BY <1>1, <1>3, <2>1 DEF Ids
  <2> QED BY <2>3, <2>4, <2>5 DEF InOrder
<1>8. NoneLost'
  <2>1. Ids(handed)' = Ids(handed) /\ Ids(Offered)' = Ids(Offered)
        /\ Ids(pending_writes)' = Ids(pending_writes) \cup {w.id}
    BY <1>1, <1>3, <1>6 DEF Ids
  <2>2. 1..issued' = 1..issued \cup {w.id} BY <1>1, <1>2
  <2> QED BY <1>1, <2>1, <2>2 DEF Reliable, NoneLost, Failed
<1>9. ClosingPass'
  <2>1. issued_at_close \in Nat /\ issued_at_close <= issued
    BY DEF TypeOK, CloseTypes, Reliable, ClosingPass
  <2>2. Ids(pending_writes)' = Ids(pending_writes) \cup {w.id} BY <1>6 DEF Ids
  <2>3. w.id > issued_at_close BY <1>2, <2>1
  <2> QED BY <1>1, <1>2, <2>1, <2>2, <2>3 DEF Reliable, ClosingPass
<1> QED BY <1>7, <1>8, <1>9 DEF Reliable

\* A pass takes over the writes queued so far.
LEMMA PassBeginReliable ==
    ASSUME TypeOK, Reliable, PassBegin
    PROVE  Reliable'
<1>1. /\ pc = "idle" /\ pc' = "writes" /\ writes' = pending_writes
      /\ pending_writes' = <<>> /\ saw_close' = close_requested
      /\ UNCHANGED <<handed, issued, dropped, issued_at_close, close_requested, last_error>>
  BY DEF PassBegin, flagVars, closeVars
<1>2. Offered = <<>> /\ Offered' = pending_writes BY <1>1 DEF Offered
<1>3. /\ Increasing(handed) /\ Increasing(pending_writes)
      /\ Precedes(handed, pending_writes)
      /\ \A i \in Ids(handed) \cup Ids(pending_writes) : i <= issued
  BY DEF Reliable, InOrder
<1>4. InOrder'
  <2>1. /\ Increasing(handed)' /\ Increasing(Offered)' /\ Precedes(handed, Offered)'
    BY <1>1, <1>2, <1>3 DEF Increasing, Precedes
  <2>2. /\ Increasing(pending_writes)' /\ Precedes(handed, pending_writes)'
        /\ Precedes(Offered, pending_writes)' /\ Ids(pending_writes)' = {}
    <3>1. Increasing(pending_writes)' <=> Increasing(<<>>) BY <1>1 DEF Increasing
    <3>2. Precedes(handed, pending_writes)' <=> Precedes(handed', <<>>) BY <1>1 DEF Precedes
    <3>3. Precedes(Offered, pending_writes)' <=> Precedes(Offered', <<>>) BY <1>1 DEF Precedes
    <3>4. Ids(pending_writes)' = Ids(<<>>) BY <1>1 DEF Ids
    <3> QED BY <3>1, <3>2, <3>3, <3>4, EmptyInOrder
  <2>3. Ids(handed)' = Ids(handed) /\ Ids(Offered)' = Ids(pending_writes) BY <1>1, <1>2 DEF Ids
  <2> QED BY <1>1, <1>3, <2>1, <2>2, <2>3 DEF InOrder
<1>5. NoneLost'
  <2>1. Ids(handed)' = Ids(handed) /\ Ids(Offered)' = Ids(pending_writes) BY <1>1, <1>2 DEF Ids
  <2>2. Ids(Offered) = {}
    <3>1. Ids(Offered) = Ids(<<>>) BY <1>2
    <3> QED BY <3>1, EmptyInOrder
  <2> QED BY <1>1, <2>1, <2>2 DEF Reliable, NoneLost, Failed
<1>6. ClosingPass'
  <2>1. Ids(pending_writes)' = {}
    <3>1. Ids(pending_writes)' = Ids(<<>>) BY <1>1 DEF Ids
    <3> QED BY <3>1, EmptyInOrder
  <2> QED BY <1>1, <2>1 DEF Reliable, ClosingPass
<1> QED BY <1>4, <1>5, <1>6 DEF Reliable

\* The first write offered is the next one picoquic is given, or is dropped.
LEMMA OfferReliable ==
    ASSUME TypeOK, Reliable, OfferWrite
    PROVE  Reliable'
<1> DEFINE h == Head(writes)
           r == Tail(writes)
<1>1. /\ pc = "writes" /\ writes # <<>> /\ writes' = r
      /\ \/ handed' = handed /\ dropped' = dropped \cup {h.id}
         \/ handed' = Append(handed, h) /\ dropped' = dropped
      /\ UNCHANGED <<pc, pending_writes, issued, issued_at_close, saw_close, close_requested, last_error>>
  BY DEF OfferWrite, flagVars, closeVars
<1>2. Offered = writes /\ Offered' = r BY <1>1 DEF Offered
<1>3. /\ handed \in Seq(ReliableWrite) /\ pending_writes \in Seq(ReliableWrite)
      /\ writes \in Seq(ReliableWrite)
  BY OrderTypes
<1>4. /\ Increasing(handed) /\ Increasing(writes) /\ Increasing(pending_writes)
      /\ Precedes(handed, writes) /\ Precedes(handed, pending_writes)
      /\ Precedes(writes, pending_writes)
      /\ \A i \in Ids(handed) \cup Ids(writes) \cup Ids(pending_writes) : i <= issued
  BY <1>2 DEF Reliable, InOrder
<1>5. /\ h \in ReliableWrite /\ r \in Seq(ReliableWrite) /\ Increasing(r)
      /\ Ids(writes) = Ids(r) \cup {h.id}
      /\ \A i \in 1..Len(r) : h.id < r[i].id
      /\ Precedes(handed, r) /\ \A i \in 1..Len(handed) : handed[i].id < h.id
      /\ Precedes(r, pending_writes)
      /\ \A i \in 1..Len(pending_writes) : h.id < pending_writes[i].id
  BY <1>1, <1>3, <1>4, TailInOrder
<1> HIDE DEF h, r
<1>6. /\ Increasing(handed') /\ Precedes(handed', r)
      /\ Precedes(handed', pending_writes)
      /\ Ids(handed') = Ids(handed) \/ Ids(handed') = Ids(handed) \cup {h.id}
      /\ Ids(handed) \cup {h.id} \cup dropped = Ids(handed') \cup dropped'
  <2>1. CASE handed' = handed /\ dropped' = dropped \cup {h.id} BY <1>4, <1>5, <2>1
  <2>2. CASE handed' = Append(handed, h) /\ dropped' = dropped
    <3>1. /\ Increasing(Append(handed, h)) /\ Precedes(Append(handed, h), r)
          /\ Precedes(Append(handed, h), pending_writes)
          /\ Ids(Append(handed, h)) = Ids(handed) \cup {h.id}
      BY <1>3, <1>4, <1>5, AppendInOrder
    <3> QED BY <2>2, <3>1
  <2> QED BY <1>1, <2>1, <2>2
<1>7. /\ Ids(handed)' = Ids(handed') /\ Ids(Offered)' = Ids(r)
      /\ Ids(pending_writes)' = Ids(pending_writes)
  BY <1>1, <1>2 DEF Ids
<1>8. InOrder'
  <2>1. Increasing(handed)' /\ Increasing(Offered)' /\ Increasing(pending_writes)'
    BY <1>1, <1>2, <1>4, <1>5, <1>6 DEF Increasing
  <2>2. /\ Precedes(handed, Offered)' /\ Precedes(handed, pending_writes)'
        /\ Precedes(Offered, pending_writes)'
    BY <1>1, <1>2, <1>5, <1>6 DEF Precedes
  <2>3. \A i \in Ids(handed)' \cup Ids(Offered)' \cup Ids(pending_writes)' : i <= issued'
    BY <1>1, <1>4, <1>5, <1>6, <1>7
  <2> QED BY <2>1, <2>2, <2>3 DEF InOrder
<1>9. NoneLost' BY <1>1, <1>2, <1>5, <1>6, <1>7 DEF Reliable, NoneLost, Failed
<1>10. ClosingPass' BY <1>1, <1>7 DEF Reliable, ClosingPass
<1> QED BY <1>8, <1>9, <1>10 DEF Reliable

\* What picoquic has no room for goes back in front of what was queued since.
LEMMA PassWritesReliable ==
    ASSUME TypeOK, Reliable, PassWrites
    PROVE  Reliable'
<1>1. /\ pc = "writes" /\ pc' = "activate"
      /\ pending_writes' = writes \o pending_writes
      /\ UNCHANGED <<handed, writes, issued, dropped, issued_at_close, saw_close, close_requested,
           last_error>>
  BY DEF PassWrites, Requeue, flagVars, closeVars
<1>2. Offered = writes /\ Offered' = <<>> BY <1>1 DEF Offered
<1>3. /\ handed \in Seq(ReliableWrite) /\ pending_writes \in Seq(ReliableWrite)
      /\ writes \in Seq(ReliableWrite)
  BY OrderTypes
<1>4. /\ Increasing(handed) /\ Increasing(writes) /\ Increasing(pending_writes)
      /\ Precedes(handed, writes) /\ Precedes(handed, pending_writes)
      /\ Precedes(writes, pending_writes)
      /\ \A i \in Ids(handed) \cup Ids(writes) \cup Ids(pending_writes) : i <= issued
  BY <1>2 DEF Reliable, InOrder
<1>5. /\ Increasing(pending_writes') /\ Precedes(handed, pending_writes')
      /\ Ids(pending_writes') = Ids(writes) \cup Ids(pending_writes)
  BY <1>1, <1>3, <1>4, ConcatInOrder
<1>6. /\ Ids(handed)' = Ids(handed) /\ Ids(Offered)' = {}
      /\ Ids(pending_writes)' = Ids(writes) \cup Ids(pending_writes)
  <2>1. Ids(Offered)' = Ids(<<>>) BY <1>2 DEF Ids
  <2>2. Ids(Offered)' = {} BY <2>1, EmptyInOrder
  <2>3. Ids(handed)' = Ids(handed) /\ Ids(pending_writes)' = Ids(pending_writes') BY <1>1 DEF Ids
  <2> QED BY <1>5, <2>2, <2>3
<1>7. InOrder'
  <2>1. Increasing(handed)' /\ Increasing(pending_writes)' /\ Precedes(handed, pending_writes)'
    BY <1>1, <1>4, <1>5 DEF Increasing, Precedes
  <2>2. Increasing(Offered)' /\ Precedes(handed, Offered)' /\ Precedes(Offered, pending_writes)'
    <3>1. Increasing(Offered)' <=> Increasing(<<>>) BY <1>2 DEF Increasing
    <3>2. Precedes(handed, Offered)' <=> Precedes(handed', <<>>) BY <1>2 DEF Precedes
    <3>3. Precedes(Offered, pending_writes)' <=> Precedes(<<>>, pending_writes') BY <1>2 DEF Precedes
    <3> QED BY <3>1, <3>2, <3>3, EmptyInOrder
  <2> QED BY <1>1, <1>4, <1>6, <2>1, <2>2 DEF InOrder
<1>8. NoneLost' BY <1>1, <1>2, <1>6 DEF Reliable, NoneLost, Failed
<1>9. ClosingPass'
  <2>1. writes = <<>> => Ids(writes) = {} BY EmptyInOrder
  <2> QED BY <1>1, <1>6, <2>1 DEF Reliable, ClosingPass
<1> QED BY <1>7, <1>8, <1>9 DEF Reliable

\* A pass that comes to the close has no reset left to send.
LEMMA PassResetsReliable ==
    ASSUME TypeOK, Reliable, PassResets
    PROVE  Reliable'
<1>1. /\ pc = "activate" /\ pending_resets' = NoResets
      /\ pc' = "close" \/ pc' = "idle"
      /\ pc' = "close" => saw_close
      /\ UNCHANGED <<handed, pending_writes, writes, issued, dropped, issued_at_close, saw_close,
           close_requested, last_error>>
  BY DEF PassResets, flagVars, closeVars, reliableVars
<1>2. Offered' = Offered BY <1>1 DEF Offered
<1>3. InOrder' BY <1>1, <1>2 DEF Reliable, InOrder, Increasing, Precedes, Ids
<1>4. NoneLost' BY <1>1, <1>2 DEF Reliable, NoneLost, Ids, Failed
<1>5. ClosingPass'
  <2>1. \A s \in Streams : pending_resets'[s] = NoReset BY <1>1 DEF NoResets, AllStreams
  <2>2. /\ issued_at_close <= issued /\ (saw_close => close_requested)
        /\ saw_close /\ writes = <<>> =>
             \A i \in Ids(pending_writes) : i > issued_at_close
    BY <1>1 DEF Reliable, ClosingPass
  <2>3. Ids(pending_writes)' = Ids(pending_writes) BY <1>1 DEF Ids
  <2> QED BY <1>1, <2>1, <2>2, <2>3 DEF ClosingPass
<1> QED BY <1>3, <1>4, <1>5 DEF Reliable

\* Media given up, and a pass abandoned with it, loses its writes only with
\* the connection.
LEMMA FailReliable ==
    ASSUME TypeOK, Reliable, Failed', pc' \in {"exiting", "idle"},
           UNCHANGED <<handed, pending_writes, writes, issued, dropped, issued_at_close, saw_close,
             close_requested>>
    PROVE  Reliable'
<1>1. Offered' = <<>> BY DEF Offered
<1>2. /\ Increasing(Offered)' /\ Precedes(handed, Offered)'
      /\ Precedes(Offered, pending_writes)' /\ Ids(Offered)' = {}
  <2>1. Increasing(Offered)' <=> Increasing(<<>>) BY <1>1 DEF Increasing
  <2>2. Precedes(handed, Offered)' <=> Precedes(handed', <<>>) BY <1>1 DEF Precedes
  <2>3. Precedes(Offered, pending_writes)' <=> Precedes(<<>>, pending_writes') BY <1>1 DEF Precedes
  <2>4. Ids(Offered)' = Ids(<<>>) BY <1>1 DEF Ids
  <2> QED BY <2>1, <2>2, <2>3, <2>4, EmptyInOrder
<1>3. /\ Increasing(handed)' /\ Increasing(pending_writes)'
      /\ Precedes(handed, pending_writes)'
      /\ \A i \in Ids(handed)' \cup Ids(pending_writes)' : i <= issued'
  BY DEF Reliable, InOrder, Increasing, Precedes, Ids
<1>4. InOrder' BY <1>2, <1>3 DEF InOrder
<1>5. ClosingPass' BY DEF Reliable, ClosingPass
<1> QED BY <1>4, <1>5 DEF Reliable, NoneLost

\* Every step keeps the reliable writes in order and the close behind them.
LEMMA NextReliable == TypeOK /\ Reliable /\ [Next]_vars => Reliable'
<1> SUFFICES ASSUME TypeOK, Reliable, [Next]_vars PROVE Reliable' OBVIOUS
<1>1. ASSUME NEW s \in Streams, NEW size \in Sizes, NEW fin \in BOOLEAN,
             NEW od \in Deadlines, NEW sd \in Deadlines,
             TryWriteObject(s, size, fin, od, sd)
      PROVE  Reliable'
  BY <1>1, FrameReliable DEF TryWriteObject, flagVars, closeVars, loopVars, reliableVars, Failed
<1>2. ASSUME NEW s \in Streams, NEW code \in ResetCodes, ResetStream(s, code)
      PROVE  Reliable'
  <2>1. /\ UNCHANGED <<handed, pending_writes, writes, issued, dropped, issued_at_close, saw_close,
             close_requested, pc, last_error>>
        /\ ended' = ended \cup {s}
    BY <1>2 DEF ResetStream, flagVars, closeVars, loopVars, reliableVars
  <2>2. \A t \in Streams : t # s => pending_resets'[t] = pending_resets[t]
    BY <1>2 DEF ResetStream, QueueDeliveryTimeout, WithReset, TypeOK, MediaTypes, AllStreams
  <2>3. \A t \in Streams : pending_resets'[t] # NoReset =>
            pending_resets[t] # NoReset \/ t \in ended'
    BY <2>1, <2>2
  <2> QED BY <2>1, <2>3, FrameReliable DEF Failed
<1>3. ASSUME NEW s \in Streams, AcknowledgeExpired(s) PROVE Reliable'
  BY <1>3, FrameReliable DEF AcknowledgeExpired, flagVars, closeVars, loopVars, reliableVars, Failed
<1>4. ASSUME NEW s \in AllStreams, AcknowledgePeerStopped(s) PROVE Reliable'
  BY <1>4, FrameReliable DEF AcknowledgePeerStopped, implVars, flagVars, closeVars, loopVars, reliableVars,
     Failed
<1>5. ASSUME NEW q \in Requests, NEW waited \in BOOLEAN, WriteStream(q, waited)
      PROVE  Reliable'
  BY <1>5, WriteReliable
<1>6. ASSUME NEW d \in Timeouts, NoteDeliveryTimeout(d) PROVE Reliable'
  BY <1>6, FrameReliable DEF NoteDeliveryTimeout, implVars, flagVars, loopVars, reliableVars, histVars,
     Failed
<1>7. CASE Close
  <2>1. /\ ~close_requested /\ close_requested' = TRUE /\ issued_at_close' = issued
        /\ UNCHANGED <<handed, pending_writes, writes, issued, dropped, saw_close, pc, last_error,
             pending_resets, ended>>
    BY <1>7 DEF Close, implVars, flagVars, loopVars, reliableVars, histVars
  <2>2. Offered' = Offered BY <2>1 DEF Offered
  <2>3. InOrder' /\ NoneLost'
    BY <2>1, <2>2 DEF Reliable, InOrder, Increasing, Precedes, Ids, NoneLost, Failed
  <2>4. issued \in Nat BY OrderTypes
  <2>5. ClosingPass' BY <2>1, <2>4 DEF Reliable, ClosingPass
  <2> QED BY <2>3, <2>5 DEF Reliable
<1>8. CASE CloseJoined
  BY <1>8, FrameReliable DEF CloseJoined, flagVars, loopVars, reliableVars, histVars, Failed
<1>9. CASE PassBegin BY <1>9, PassBeginReliable
<1>10. CASE OfferWrite BY <1>10, OfferReliable
<1>11. CASE PassWrites BY <1>11, PassWritesReliable
<1>12. CASE PassResets BY <1>12, PassResetsReliable
<1>13. CASE PassClose
  BY <1>13, FrameReliable DEF PassClose, implVars, flagVars, reliableVars, histVars, Failed
<1>14. ASSUME NEW s \in Streams, PassActivate(s) PROVE Reliable'
  <2>1. /\ pc = "activate" /\ UNCHANGED <<handed, pending_writes, writes, issued,
                     dropped, issued_at_close, saw_close, close_requested, ended>>
    BY <1>14 DEF PassActivate, closeVars, reliableVars, histVars
  <2>2. CASE UNCHANGED <<last_error, pc>> BY <2>1, <2>2, FrameReliable DEF Failed
  <2>3. CASE FailMediaDelivery("activation") /\ pc' = "exiting"
    BY <2>1, <2>3, FailReliable DEF FailMediaDelivery, Failed
  <2> QED BY <1>14, <2>2, <2>3 DEF PassActivate
<1>15. CASE PassFails
  BY <1>15, FailReliable DEF PassFails, FailMediaDelivery, closeVars, reliableVars, Failed
<1>16. CASE LoopEnds
  BY <1>16, FrameReliable DEF LoopEnds, implVars, flagVars, closeVars, reliableVars, histVars, Failed
<1>17. CASE ThreadExit BY <1>17, FrameReliable DEF ThreadExit, closeVars, reliableVars, histVars, Failed
<1>18. ASSUME NEW s \in Streams, ProvideMediaData(s) PROVE Reliable'
  <2>1. /\ pc = "idle" /\ pc' \in {"idle", "unlocked"}
        /\ UNCHANGED <<handed, pending_writes, writes, issued, dropped, last_error, issued_at_close,
             saw_close, close_requested, ended>>
    BY <1>18 DEF ProvideMediaData, ProvideExpired, ProvideNothing, ProvideThenExpire, ProvideUnlocked,
       ProvideBytes, flagVars, closeVars, reliableVars
  <2> QED BY <2>1, FrameReliable DEF Failed
<1>19. CASE ProvideResume
  BY <1>19, FrameReliable DEF ProvideResume, implVars, flagVars, closeVars, reliableVars, Failed
<1>20. CASE ProvideFails
  BY <1>20, FailReliable DEF ProvideFails, FailMediaDelivery, closeVars, reliableVars, Failed
<1>21. ASSUME NEW s \in AllStreams, StopSending(s) PROVE Reliable'
  BY <1>21, FrameReliable DEF StopSending, flagVars, closeVars, loopVars, reliableVars, histVars, Failed
<1>22. ASSUME NEW s \in Streams, StreamReleased(s) PROVE Reliable'
  BY <1>22, FrameReliable DEF StreamReleased, flagVars, closeVars, loopVars, reliableVars, histVars, Failed
<1>23. CASE ConnectionClosed
  BY <1>23, FrameReliable DEF ConnectionClosed, closeVars, loopVars, reliableVars, histVars, Failed
<1>24. ASSUME NEW s \in AllStreams, Acknowledged(s) PROVE Reliable'
  BY <1>24, FrameReliable DEF Acknowledged, implVars, flagVars, closeVars, loopVars, reliableVars, histVars,
     Failed
<1>25. CASE Tick
  BY <1>25, FrameReliable DEF Tick, implVars, flagVars, closeVars, loopVars, reliableVars, histVars, Failed
<1>26. CASE UNCHANGED vars
  BY <1>26, FrameReliable DEF vars, implVars, flagVars, closeVars, loopVars, reliableVars, histVars, Failed
<1> QED BY <1>1, <1>2, <1>3, <1>4, <1>5, <1>6, <1>7, <1>8, <1>9, <1>10, <1>11,
     <1>12, <1>13, <1>14, <1>15, <1>16, <1>17, <1>18, <1>19, <1>20, <1>21,
     <1>22, <1>23, <1>24, <1>25, <1>26
  DEF Next, SessionStep, PassStep, PicoquicStep, Terminated

\* The reliable writes are in order in every reachable state.
LEMMA ReliableAlways == Spec => []Reliable
<1>1. TypeOK /\ Reliable /\ [Next]_vars => Reliable' BY NextReliable
<1> QED BY InitReliable, TypeCorrect, <1>1, PTL DEF Spec

\* Reliable writes reach picoquic in the order of the write_stream() calls, for
\* any number of calls, deferred writes and passes.
THEOREM ReliableNeverReordered == Spec => []ReliableInOrder
<1>1. TypeOK /\ Reliable => ReliableInOrder
  <2> SUFFICES ASSUME TypeOK, Reliable PROVE ReliableInOrder OBVIOUS
  <2>1. /\ handed \in Seq(ReliableWrite) /\ pending_writes \in Seq(ReliableWrite)
        /\ Offered \in Seq(ReliableWrite)
    BY OrderTypes
  <2>2. /\ handed \o Offered \in Seq(ReliableWrite) /\ Increasing(handed \o Offered)
        /\ Precedes(handed \o Offered, pending_writes)
    BY <2>1, ConcatInOrder DEF Reliable, InOrder
  <2> DEFINE all == (handed \o Offered) \o pending_writes
  <2>3. all \in Seq(ReliableWrite) /\ Increasing(all) BY <2>1, <2>2, ConcatInOrder DEF Reliable, InOrder
  <2>4. \A i \in 1..Len(all)-1 : all[i].id < all[i+1].id
    <3> HIDE DEF all
    <3>1. Len(all) \in Nat BY <2>3
    <3>2. \A i \in 1..Len(all)-1 : i \in 1..Len(all) /\ i+1 \in 1..Len(all) /\ i < i+1 BY <3>1
    <3> QED BY <2>3, <3>2 DEF Increasing
  <2> QED BY <2>4 DEF ReliableInOrder, Offered
<1> QED BY <1>1, TypeCorrect, ReliableAlways, PTL

\* The QUIC close overtakes nothing: it is issued before the drain deadline
\* only when every write_stream() from before close() reached picoquic or was
\* refused, all admitted media went out or its stream is reset, and picoquic
\* holds nothing unacknowledged.
THEOREM CloseOvertakesNothing == Spec => CloseAfterDelivery
<1>1. TypeOK /\ Safe /\ Delivering /\ Reliable /\ [Next]_vars =>
        [close_sent' /\ ~close_sent =>
           \/ disconnected \/ Failed \/ now >= drain_deadline
           \/ /\ \A i \in 1..issued_at_close : i \in HandedIds \cup dropped
              /\ backlog = {}
              /\ \A s \in Streams :
                   \/ sent[s] = admitted[s] \/ reset_applied[s] # NoReset
                   \/ pending_resets[s] # NoReset /\ s \in ended]_vars
  <2> SUFFICES ASSUME TypeOK, Safe, Delivering, Reliable, [Next]_vars,
                      close_sent', ~close_sent,
                      ~disconnected, ~Failed, ~(now >= drain_deadline)
               PROVE  /\ \A i \in 1..issued_at_close : i \in HandedIds \cup dropped
                      /\ backlog = {}
                      /\ \A s \in Streams :
                           \/ sent[s] = admitted[s] \/ reset_applied[s] # NoReset
                           \/ pending_resets[s] # NoReset /\ s \in ended
    OBVIOUS
  <2>1. PassClose
    <3>1. CASE SessionStep
      <4>1. ASSUME NEW s \in Streams, NEW size \in Sizes, NEW fin \in BOOLEAN,
                   NEW od \in Deadlines, NEW sd \in Deadlines,
                   TryWriteObject(s, size, fin, od, sd)
            PROVE  close_sent' = close_sent
        BY <4>1 DEF TryWriteObject, closeVars
      <4>2. ASSUME NEW s \in Streams, NEW code \in ResetCodes, ResetStream(s, code)
            PROVE  close_sent' = close_sent
        BY <4>2 DEF ResetStream, closeVars
      <4>3. ASSUME NEW s \in Streams, AcknowledgeExpired(s)
            PROVE  close_sent' = close_sent
        BY <4>3 DEF AcknowledgeExpired, closeVars
      <4>4. ASSUME NEW s \in AllStreams, AcknowledgePeerStopped(s)
            PROVE  close_sent' = close_sent
        BY <4>4 DEF AcknowledgePeerStopped, closeVars
      <4>5. ASSUME NEW r \in Requests, NEW waited \in BOOLEAN, WriteStream(r, waited)
            PROVE  close_sent' = close_sent
        BY <4>5 DEF WriteStream, closeVars
      <4>6. ASSUME NEW t \in Timeouts, NoteDeliveryTimeout(t)
            PROVE  close_sent' = close_sent
        BY <4>6 DEF NoteDeliveryTimeout, closeVars
      <4>7. (Close \/ CloseJoined) => close_sent' = close_sent BY DEF Close, CloseJoined, closeVars
      <4>8. close_sent' = close_sent BY <3>1, <4>1, <4>2, <4>3, <4>4, <4>5, <4>6, <4>7 DEF SessionStep
      <4> QED BY <4>8
    <3>2. CASE PassStep /\ ~PassClose
      BY <3>2 DEF PassStep, closeVars, PassBegin, OfferWrite, PassWrites, PassResets, PassActivate,
         ThreadExit, ProvideResume
    <3>3. CASE PicoquicStep
      BY <3>3 DEF PicoquicStep, closeVars, ProvideMediaData, ProvideFails, PassFails, LoopEnds, StopSending,
         Acknowledged, StreamReleased, ConnectionClosed
    <3>4. CASE Tick BY <3>4 DEF Tick, closeVars
    <3>5. CASE Terminated \/ UNCHANGED vars BY <3>5 DEF Terminated, vars, closeVars
    <3> QED BY <3>1, <3>2, <3>3, <3>4, <3>5 DEF Next
  <2>2. pc = "close" /\ ~ShouldWait BY <2>1 DEF PassClose
  <2>3. writes = <<>> /\ media_streams_with_pending = {} /\ backlog = {}
    <3>1. now \in Nat /\ drain_deadline \in Nat BY DEF TypeOK, CloseTypes
    <3> QED BY <2>2, <3>1 DEF ShouldWait, Drained
  <2>4. ASSUME NEW i \in 1..issued_at_close PROVE i \in HandedIds \cup dropped
    <3>1. issued_at_close \in Nat /\ issued \in Nat /\ issued_at_close <= issued
      BY DEF TypeOK, CloseTypes, ReliableTypes, Reliable, ClosingPass
    <3>2. i \in Ids(handed) \cup dropped \cup Ids(Offered) \cup Ids(pending_writes)
      <4>1. i \in 1..issued BY <3>1
      <4> QED BY <4>1 DEF Reliable, NoneLost
    <3>3. i \notin Ids(pending_writes)
      <4>1. \A k \in Ids(pending_writes) : k > issued_at_close BY <2>2, <2>3 DEF Reliable, ClosingPass
      <4> QED BY <3>1, <4>1
    <3>4. Ids(Offered) = {}
      <4>1. Offered = <<>> BY <2>2 DEF Offered
      <4> QED BY <4>1, EmptyInOrder
    <3>5. Ids(handed) = HandedIds BY DEF Ids, HandedIds
    <3> QED BY <3>2, <3>3, <3>4, <3>5
  <2>5. ASSUME NEW s \in Streams
        PROVE  \/ sent[s] = admitted[s] \/ reset_applied[s] # NoReset
               \/ pending_resets[s] # NoReset /\ s \in ended
    <3>1. queue[s] = <<>> BY <2>3 DEF Safe, NoStrandedMedia
    <3>2. ~loop_exited /\ ~closed BY <2>2 DEF Delivering, ExitRecorded
    <3>3. HandedOver(s) = admitted[s] \/ ResetUnderway(s) BY <3>1, <3>2 DEF Delivering, NoSilentTruncation
    <3>4. HandedOver(s) = sent[s]
      <4>1. sending = <<>> BY <2>2 DEF TypeOK, LoopTypes
      <4>2. HandedOver(s) = sent[s] + 0 BY <4>1 DEF HandedOver
      <4> QED BY <4>2, StreamTypes
    <3>5. ResetUnderway(s) => \/ reset_applied[s] # NoReset
                              \/ pending_resets[s] # NoReset /\ s \in ended
      BY <2>2 DEF ResetUnderway, Reliable, ClosingPass
    <3> QED BY <3>3, <3>4, <3>5
  <2> QED BY <2>3, <2>4, <2>5
<1> QED BY <1>1, TypeCorrect, SafeAlways, DeliveringAlways, ReliableAlways, PTL
        DEF Spec, CloseAfterDelivery

(* ---- SubgroupSender: the streams of a subgroup ---- *)
\* The stream is the last one its subgroup was given.
LastOfKey(i) == \A j \in OpenedIds : j > i => ~OwnedBy(j, opened[i].c, opened[i].k)
\* The peer stopped it, and that is all that ended it.
OnlyStopped(i) == i \in stopped_ever \ (finished \cup reset \cup expired_ever)

SenderData ==
    /\ streams \in [Senders -> [Keys -> StreamIds \cup {0}]]
    /\ last_object_id \in [Senders -> [Keys -> Objects \cup {None}]]
    /\ stream_keys \in [Senders -> [StreamIds -> Keys \cup {NoKey}]]
    /\ pending_objects \in [Senders -> [Keys -> Pending]]
    /\ closed_subgroups \in [Senders -> SUBSET Keys]
    /\ peer_stopped_subgroups \in [Senders -> SUBSET Keys]
    /\ completion_history_exhausted \in [Senders -> BOOLEAN]
    /\ live \in [Senders -> BOOLEAN] /\ renewals \in [Senders -> Nat]
    /\ opened \in Seq([c : Senders, k : Keys, renewal : Nat])
    /\ Len(opened) \in 0..MaxStreams
    /\ DOMAIN written = StreamIds
    /\ stopped_at \in [StreamIds -> [done : Nat, begun : Nat]]
    /\ finished \subseteq StreamIds /\ reset \subseteq StreamIds
    /\ expired_ever \subseteq StreamIds /\ stopped_ever \subseteq StreamIds
    /\ expired \subseteq expired_ever \cup reset
    /\ peer_stopped \subseteq stopped_ever
    /\ \A i \in StreamIds : i > Len(opened) =>
        /\ ~Used(i) /\ i \notin reset \cup expired_ever \cup stopped_ever
        /\ stopped_at[i].done = 0

HeldStream(c, k) ==
    LET i == streams[c][k]
    IN  /\ i \in OpenedIds /\ OwnedBy(i, c, k) /\ LastOfKey(i)
        /\ stream_keys[c][i] = k /\ ~is_closed(c, k)
        /\ last_object_id[c][k] = None => ~Used(i)
        /\ live[c] => /\ i \notin finished \cup reset
                      /\ i \in expired_ever => i \in expired
                      /\ i \in stopped_ever => /\ i \in peer_stopped
                                               /\ stopped_at[i].begun >= renewals[c]
HeldStreams ==
    \A c \in Senders, k \in Keys : streams[c][k] # 0 => HeldStream(c, k)
HeldKeys ==
    /\ \A c \in Senders, k \in Keys :
        pending_objects[c][k] # NoPending => streams[c][k] # 0
    /\ \A c \in Senders, i \in StreamIds :
        stream_keys[c][i] # NoKey => streams[c][stream_keys[c][i]] = i

EndRecorded(i) ==
    LET c == opened[i].c
        k == opened[i].k
    IN  /\ stopped_at[i].done <= renewals[c]
        /\ \/ streams[c][k] = i \/ ~live[c]
           \/ k \in closed_subgroups[c] \/ completion_history_exhausted[c]
           \/ ~Used(i) /\ i \notin reset
           \/ OnlyStopped(i) /\ (\/ k \in peer_stopped_subgroups[c]
                                 \/ stopped_at[i].done < renewals[c])
EndsRecorded == \A i \in OpenedIds : EndRecorded(i)
StopsRecorded ==
    \A c \in Senders : \A k \in peer_stopped_subgroups[c] :
        \E i \in OpenedIds \cap stopped_ever :
            OwnedBy(i, c, k) /\ stopped_at[i].begun >= renewals[c]

StreamsKept == SenderData /\ HeldStreams /\ HeldKeys /\ EndsRecorded
               /\ StopsRecorded /\ ReopenOnlyAfterRenewal

Opens == {"finish", "finish_recheck", "cancel"}
Operations ==
    [kind : {"serve", "recheck"}, c : Senders, k : Keys, object : Objects]
    \cup [kind : {"finish", "finish_recheck"}, c : Senders,
          open : SUBSET (Keys \X StreamIds), ends : BOOLEAN]
    \cup [kind : {"cancel"}, c : Senders, open : SUBSET (Keys \X StreamIds),
          ok : BOOLEAN]
    \cup [kind : {"renew"}, c : Senders]
Resting == {"idle", "expiry", "stops", "failed"}
Scanning == phase \in {"scan", "scan_stop", "retire"}
OperationSound ==
    /\ todo \subseteq StreamIds /\ changed \subseteq StreamIds
    /\ saw_expired \in BOOLEAN
    /\ phase \in Resting => op = Idle
    /\ phase \in Resting \cup {"scan", "scan_stop", "retire", "write", "finish", "cancel"}
    /\ phase \notin Resting => op \in Operations /\ live[op.c]
    /\ phase = "write" => op.kind = "serve" /\ streams[op.c][op.k] # 0
    /\ phase = "finish" => op.kind = "finish"
    /\ phase = "cancel" => op.kind = "cancel"
    /\ op.kind = "renew" => Scanning
    /\ phase = "stops" => todo \subseteq stopped_ever
ScanSound ==
    /\ Scanning =>
        /\ \A i \in todo \cup changed : stream_keys[op.c][i] # NoKey
        /\ changed \subseteq stopped_ever \cup expired_ever
    /\ phase = "scan_stop" =>
        todo # {} /\ (saw_expired => Least(todo) \in expired_ever)
    /\ phase = "retire" =>
        /\ todo = {} /\ changed # {}
        /\ saw_expired \/ Least(changed) \in stopped_ever \ expired_ever
    /\ op.kind = "renew" => \A k \in Keys :
        LET i == streams[op.c][k]
        IN  i # 0 /\ i \in stopped_ever =>
                i \in todo \cup changed \/ stopped_at[i].begun > renewals[op.c]
FinishSound ==
    /\ op.kind \in Opens => \A p \in op.open :
        p[2] \in OpenedIds /\ OwnedBy(p[2], op.c, p[1]) /\ LastOfKey(p[2])
    /\ phase = "finish" \/ op.kind = "finish_recheck" => OpenStreams(op.c) \subseteq op.open
    /\ op.kind = "finish_recheck" => op.open # {}

OperationKept == OperationSound /\ ScanSound /\ FinishSound
SenderInv == StreamsKept /\ OperationKept

keptVars == <<senderVars, eventVars, streamVars, pastVars>>

LEMMA LeastIn ==
    ASSUME NEW S, S \subseteq StreamIds \/ S \subseteq Objects, S # {}
    PROVE  Least(S) \in S
<1>1. S \in SUBSET Nat BY SenderAssumption DEF StreamIds, Objects
<1>2. Min(S) \in S /\ \A y \in S : Min(S) <= y BY <1>1, NatMin
<1> QED BY <1>2 DEF Least

LEMMA FirstOpenIn ==
    ASSUME NEW S \in SUBSET (Keys \X StreamIds), S # {}
    PROVE  FirstOpen(S) \in S
<1>0. \A p \in S : p[1][1] \in Nat /\ p[1][2] \in Nat BY SenderAssumption
<1> DEFINE G == {p[1][1] : p \in S}
           F == {p \in S : p[1][1] = Min(G)}
           H == {p[1][2] : p \in F}
<1>a. G \in SUBSET Nat /\ G # {} BY <1>0
<1>1. Min(G) \in G /\ \A y \in G : Min(G) <= y BY <1>a, NatMin
<1>2. H \in SUBSET Nat /\ H # {} BY <1>0, <1>1
<1>3. Min(H) \in H /\ \A y \in H : Min(H) <= y BY <1>2, NatMin
<1>4. PICK p \in S : p[1][1] = Min(G) /\ p[1][2] = Min(H) BY <1>3
<1>5. \A q \in S : KeyBefore(p[1], q[1])
  <2> SUFFICES ASSUME NEW q \in S PROVE KeyBefore(p[1], q[1]) OBVIOUS
  <2>1. q[1][1] \in G /\ p[1][1] <= q[1][1] BY <1>1, <1>4
  <2>2. q[1][1] = p[1][1] => q[1][2] \in H BY <1>4
  <2>3. q[1][1] = p[1][1] => p[1][2] <= q[1][2] BY <1>3, <1>4, <2>2
  <2> QED BY <1>0, <2>1, <2>3 DEF KeyBefore
<1> QED BY <1>4, <1>5 DEF FirstOpen

LEMMA KeysNotEmpty == NoKey \notin Keys
  BY SenderAssumption DEF NoKey

LEMMA OpenedTypes ==
    ASSUME SenderData
    PROVE  \A i \in OpenedIds : /\ opened[i].c \in Senders /\ opened[i].k \in Keys
                                /\ opened[i].renewal \in Nat /\ i \in StreamIds /\ i # 0
<1>0. Len(opened) \in Nat /\ Len(opened) <= MaxStreams /\ MaxStreams \in Nat
  BY SenderAssumption DEF SenderData
<1>1. OpenedIds \subseteq StreamIds \ {0} BY <1>0 DEF OpenedIds, StreamIds
<1>2. \A i \in OpenedIds : opened[i] \in [c : Senders, k : Keys, renewal : Nat]
  BY ElementOfSeq DEF SenderData, OpenedIds
<1> QED BY <1>1, <1>2

\* Only pending objects change, and subscriptions end.
LEMMA PendingStep ==
    ASSUME StreamsKept, live' \in [Senders -> BOOLEAN], \A c \in Senders : live'[c] => live[c],
           pending_objects' \in [Senders -> [Keys -> Pending]],
           \A c \in Senders, k \in Keys : pending_objects'[c][k] # NoPending => streams[c][k] # 0,
           UNCHANGED <<streams, last_object_id, stream_keys, closed_subgroups, peer_stopped_subgroups,
             completion_history_exhausted, eventVars, streamVars, pastVars>>
    PROVE  StreamsKept'
<1> USE DEF eventVars, streamVars, pastVars, OpenedIds, OwnedBy, Used, OnlyStopped, LastOfKey, is_closed, HeldStream
<1>1. SenderData' BY DEF StreamsKept, SenderData
<1>2. HeldStreams' BY DEF StreamsKept, HeldStreams
<1>3. HeldKeys' BY DEF StreamsKept, HeldKeys
<1>4. EndsRecorded'
  <2> SUFFICES ASSUME NEW i \in OpenedIds
               PROVE  EndRecorded(i)'
    BY DEF EndsRecorded
  <2>1. opened[i].c \in Senders BY OpenedTypes DEF StreamsKept
  <2> QED BY <2>1 DEF StreamsKept, EndsRecorded, EndRecorded
<1>5. StopsRecorded' BY DEF StreamsKept, StopsRecorded
<1>6. ReopenOnlyAfterRenewal' BY DEF StreamsKept, ReopenOnlyAfterRenewal
<1> QED BY <1>1, <1>2, <1>3, <1>4, <1>5, <1>6 DEF StreamsKept

LEMMA ControlStep ==
    ASSUME StreamsKept, UNCHANGED keptVars, live' \in [Senders -> BOOLEAN],
           \A c \in Senders : live'[c] => live[c]
    PROVE  StreamsKept'
  BY PendingStep DEF StreamsKept, SenderData, HeldKeys, keptVars, senderVars

\* Where the streams of other subgroups stay.
LEMMA CloseStep ==
    ASSUME StreamsKept, NEW c \in Senders, NEW k \in Keys, NEW i \in StreamIds \cup {0},
           i # 0 => i \in OpenedIds /\ OwnedBy(i, c, k) /\ LastOfKey(i),
           CloseSubgroup(c, k), UNCHANGED <<live, opened, peer_stopped, pastVars>>,
           finished \subseteq finished', finished' \subseteq finished \cup ({i} \ {0}),
           reset \subseteq reset', reset' \subseteq reset \cup ({i} \ {0}),
           expired \subseteq expired', expired' \subseteq expired \cup reset',
           DOMAIN written' = StreamIds,
           \A j \in StreamIds \ {i} : written'[j] = written[j]
    PROVE  StreamsKept'
<1>0. SenderData /\ HeldStreams /\ HeldKeys BY DEF StreamsKept
<1> USE DEF pastVars, OpenedIds, OwnedBy
<1>1. /\ streams' = [streams EXCEPT ![c][k] = 0]
      /\ closed_subgroups' = [closed_subgroups EXCEPT ![c] = Recorded(@, k)]
      /\ \A d \in Senders : closed_subgroups[d] \subseteq closed_subgroups'[d]
      /\ k \in closed_subgroups'[c] \/ completion_history_exhausted'[c]
      /\ \A d \in Senders : completion_history_exhausted[d] => completion_history_exhausted'[d]
      /\ UNCHANGED <<last_object_id, peer_stopped_subgroups>>
  BY <1>0 DEF CloseSubgroup, Recorded, Records, SenderData
<1>2. \A j \in OpenedIds : j # i => Used(j)' = Used(j) /\ (j \in reset' <=> j \in reset)
                                    /\ OnlyStopped(j)' = OnlyStopped(j)
  BY <1>0, OpenedTypes DEF Used, OnlyStopped
<1>3. SenderData' BY <1>0, <1>1 DEF SenderData, CloseSubgroup, Recorded, NoPending, Pending, Used
<1>4. HeldStreams'
  <2> SUFFICES ASSUME NEW d \in Senders, NEW l \in Keys, streams'[d][l] # 0
               PROVE  HeldStream(d, l)'
    BY DEF HeldStreams, HeldStream
  <2>1. ~(d = c /\ l = k) /\ streams'[d][l] = streams[d][l] BY <1>0, <1>1 DEF SenderData
  <2>2. HeldStream(d, l) /\ streams[d][l] \in OpenedIds /\ streams[d][l] # i
    BY <1>0, <2>1 DEF HeldStreams, HeldStream
  <2>3. stream_keys'[d][streams[d][l]] = l
    BY <1>0, <2>1, <2>2, KeysNotEmpty, OpenedTypes DEF HeldStream, HeldStreams, CloseSubgroup, SenderData
  <2>4. ~is_closed(d, l)' BY <1>0, <1>1, <2>1, <2>2 DEF HeldStream, is_closed, Recorded, SenderData
  <2> QED BY <1>1, <1>2, <2>1, <2>2, <2>3, <2>4 DEF HeldStream, LastOfKey
<1>5. HeldKeys' BY <1>0 DEF HeldKeys, HeldStreams, HeldStream, CloseSubgroup, SenderData
<1>6. EndsRecorded'
  <2> SUFFICES ASSUME NEW j \in OpenedIds PROVE EndRecorded(j)' BY DEF EndsRecorded
  <2>1. EndRecorded(j) /\ opened[j].c \in Senders /\ opened[j].k \in Keys
    BY <1>0, OpenedTypes DEF StreamsKept, EndsRecorded
  <2>2. CASE OwnedBy(j, c, k) BY <1>1, <2>1, <2>2 DEF EndRecorded
  <2>3. CASE ~OwnedBy(j, c, k)
    <3>1. j # i /\ streams'[opened[j].c][opened[j].k] = streams[opened[j].c][opened[j].k]
      BY <1>0, <1>1, <2>1, <2>3 DEF SenderData
    <3> QED BY <1>1, <1>2, <2>1, <3>1 DEF EndRecorded
  <2> QED BY <2>2, <2>3
<1>7. StopsRecorded' BY <1>1 DEF StreamsKept, StopsRecorded
<1>8. ReopenOnlyAfterRenewal' BY <1>2 DEF StreamsKept, ReopenOnlyAfterRenewal, LastOfKey, OnlyStopped
<1> QED BY <1>3, <1>4, <1>5, <1>6, <1>7, <1>8 DEF StreamsKept

LEMMA RetireStep ==
    ASSUME StreamsKept, NEW c \in Senders, live[c], NEW i \in StreamIds,
           stream_keys[c][i] # NoKey, NEW stop \in BOOLEAN, NEW late \in BOOLEAN,
           Renewable(stop, late) => i \in stopped_ever \ expired_ever,
           Retire(c, i, stop, late), UNCHANGED <<live, streamVars, pastVars>>,
           expired' \in {expired, expired \ {i}},
           peer_stopped' \in {peer_stopped, peer_stopped \ {i}}
    PROVE  StreamsKept'
<1>0. SenderData /\ HeldStreams /\ HeldKeys BY DEF StreamsKept
<1> USE DEF pastVars, streamVars, OpenedIds, OwnedBy
<1> DEFINE k == stream_keys[c][i]
           d == opened[i].c
<1>1. k \in Keys /\ streams[c][k] = i /\ i # 0 BY <1>0, SenderAssumption DEF SenderData, HeldKeys, StreamIds
<1>2. HeldStream(c, k) BY <1>0, <1>1 DEF HeldStreams
<1> HIDE DEF k
<1>3. /\ streams' = [streams EXCEPT ![c][k] = 0]
      /\ \A e \in Senders : /\ closed_subgroups[e] \subseteq closed_subgroups'[e]
                            /\ peer_stopped_subgroups[e] \subseteq peer_stopped_subgroups'[e]
                            /\ closed_subgroups'[e] \cup peer_stopped_subgroups'[e]
                                  \subseteq closed_subgroups[e] \cup peer_stopped_subgroups[e] \cup IF e = c THEN {k} ELSE {}
                            /\ completion_history_exhausted[e] => completion_history_exhausted'[e]
      /\ \/ peer_stopped_subgroups' = peer_stopped_subgroups
         \/ /\ Renewable(stop, late)
            /\ peer_stopped_subgroups' = [peer_stopped_subgroups EXCEPT ![c] = Recorded(@, k)]
      /\ \/ k \in closed_subgroups'[c] \/ completion_history_exhausted'[c]
         \/ Renewable(stop, late) /\ k \in peer_stopped_subgroups'[c]
      /\ UNCHANGED <<last_object_id>>
  <2>1. streams' = [streams EXCEPT ![c][k] = 0] BY <1>0, <1>1 DEF Retire, k, SenderData
  <2>2. CASE Renewable(stop, late) BY <1>0, <1>1, <2>1, <2>2 DEF Retire, k, Recorded, SenderData
  <2>3. CASE ~Renewable(stop, late) BY <1>0, <1>1, <2>1, <2>3 DEF Retire, k, Recorded, SenderData
  <2> QED BY <2>2, <2>3
<1>4. SenderData' BY <1>0, <1>1, <1>3 DEF SenderData, Retire, k, Recorded, NoPending, Pending, Used
<1>5. HeldStreams'
  <2> SUFFICES ASSUME NEW e \in Senders, NEW l \in Keys, streams'[e][l] # 0
               PROVE  HeldStream(e, l)'
    BY DEF HeldStreams
  <2>1. ~(e = c /\ l = k) /\ streams'[e][l] = streams[e][l] BY <1>0, <1>3 DEF SenderData
  <2>2. HeldStream(e, l) /\ streams[e][l] \in OpenedIds /\ streams[e][l] # i
    BY <1>0, <1>2, <1>1, <2>1 DEF HeldStreams, HeldStream
  <2>3. stream_keys'[e][streams[e][l]] = l
    BY <1>0, <2>1, <2>2, OpenedTypes DEF HeldStream, HeldStreams, Retire, SenderData
  <2>4. ~is_closed(e, l)' BY <1>0, <1>3, <2>1, <2>2 DEF HeldStream, is_closed
  <2> QED BY <1>3, <2>1, <2>2, <2>3, <2>4 DEF HeldStream, LastOfKey, Used
<1>6. HeldKeys' BY <1>0, <1>1, <1>3 DEF HeldKeys, HeldStreams, HeldStream, Retire, k, SenderData
<1>7. EndsRecorded'
  <2> SUFFICES ASSUME NEW j \in OpenedIds PROVE EndRecorded(j)' BY DEF EndsRecorded
  <2>1. EndRecorded(j) /\ opened[j].c \in Senders /\ opened[j].k \in Keys
    BY <1>0, OpenedTypes DEF StreamsKept, EndsRecorded
  <2>2. CASE j = i BY <1>2, <1>1, <1>3, <2>1, <2>2 DEF EndRecorded, HeldStream, OnlyStopped, Used
  <2>3. CASE j # i
    <3>1. streams[opened[j].c][opened[j].k] = j => streams'[opened[j].c][opened[j].k] = j
      BY <1>0, <1>1, <1>3, <2>1, <2>3 DEF SenderData
    <3> QED BY <1>3, <2>1, <3>1 DEF EndRecorded, OnlyStopped, Used
  <2> QED BY <2>2, <2>3
<1>8. StopsRecorded'
  <2> SUFFICES ASSUME NEW e \in Senders, NEW l \in peer_stopped_subgroups'[e]
               PROVE  \E j \in OpenedIds \cap stopped_ever :
                          OwnedBy(j, e, l) /\ stopped_at[j].begun >= renewals[e]
    BY DEF StopsRecorded
  <2>1. CASE l \in peer_stopped_subgroups[e] BY <2>1 DEF StreamsKept, StopsRecorded
  <2>2. CASE l \notin peer_stopped_subgroups[e]
    <3>1. e = c /\ l = k /\ Renewable(stop, late) BY <1>0, <1>3, <2>2 DEF Recorded, SenderData
    <3> QED BY <1>1, <1>2, <3>1 DEF HeldStream
  <2> QED BY <2>1, <2>2
<1>9. ReopenOnlyAfterRenewal' BY DEF StreamsKept, ReopenOnlyAfterRenewal, Used
<1> QED BY <1>4, <1>5, <1>6, <1>7, <1>8, <1>9 DEF StreamsKept

LEMMA RetireOwnedStep ==
    ASSUME StreamsKept, NEW i \in StreamIds, NEW stop \in BOOLEAN, NEW late \in BOOLEAN,
           stop => i \in stopped_ever /\ late = (i \in expired),
           RetireOwned(i, stop, late), UNCHANGED <<live, streamVars, pastVars>>,
           expired' \in {expired, expired \ {i}},
           peer_stopped' \in {peer_stopped, peer_stopped \ {i}}
    PROVE  StreamsKept'
<1>0. SenderData /\ HeldStreams /\ HeldKeys BY DEF StreamsKept
<1>1. CASE Owners(i) # {}
  <2>1. PICK c \in Owners(i) : Retire(c, i, stop, late) BY <1>1 DEF RetireOwned
  <2>2. c \in Senders /\ live[c] /\ stream_keys[c][i] # NoKey BY DEF Owners
  <2>3. HeldStream(c, stream_keys[c][i]) /\ streams[c][stream_keys[c][i]] = i
    BY <1>0, <2>2, SenderAssumption DEF HeldKeys, HeldStreams, SenderData, StreamIds
  <2>4. Renewable(stop, late) => i \in stopped_ever \ expired_ever BY <2>2, <2>3 DEF HeldStream, Renewable
  <2> QED BY <2>1, <2>2, <2>4, RetireStep
<1>2. CASE Owners(i) = {}
  <2>1. UNCHANGED senderVars BY <1>2 DEF RetireOwned
  <2> USE DEF senderVars, streamVars, pastVars, OpenedIds, OwnedBy, Used, OnlyStopped
  <2>2. SenderData' BY <1>0, <2>1 DEF SenderData
  <2>3. HeldStreams'
    <3> SUFFICES ASSUME NEW c \in Senders, NEW k \in Keys, streams[c][k] # 0
                 PROVE  HeldStream(c, k)'
      BY <2>1 DEF HeldStreams
    <3>1. HeldStream(c, k) /\ (streams[c][k] = i => ~live[c])
      BY <1>0, <1>2, KeysNotEmpty DEF HeldStreams, HeldStream, Owners
    <3> QED BY <2>1, <3>1 DEF HeldStream, LastOfKey, is_closed
  <2>4. HeldKeys' BY <1>0, <2>1 DEF HeldKeys
  <2>5. EndsRecorded' BY <1>0, <2>1, OpenedTypes DEF StreamsKept, EndsRecorded, EndRecorded
  <2>6. StopsRecorded' BY <2>1 DEF StreamsKept, StopsRecorded
  <2>7. ReopenOnlyAfterRenewal' BY <2>1 DEF StreamsKept, ReopenOnlyAfterRenewal
  <2> QED BY <2>2, <2>3, <2>4, <2>5, <2>6, <2>7 DEF StreamsKept
<1> QED BY <1>1, <1>2

\* discard_unadmitted(), by itself or when a renewal ends.
LEMMA DiscardStep ==
    ASSUME StreamsKept, NEW c \in Senders, Discard(c),
           UNCHANGED <<last_object_id, closed_subgroups, completion_history_exhausted, live, eventVars,
             streamVars, expired_ever, stopped_ever, stopped_at>>,
           \/ UNCHANGED <<peer_stopped_subgroups, renewals>>
           \/ /\ peer_stopped_subgroups' = [peer_stopped_subgroups EXCEPT ![c] = {}]
              /\ renewals' = [renewals EXCEPT ![c] = @ + 1]
              /\ \A k \in Keys : streams[c][k] # 0 /\ streams[c][k] \in stopped_ever =>
                    stopped_at[streams[c][k]].begun > renewals[c]
    PROVE  StreamsKept'
<1>0. SenderData /\ HeldStreams /\ HeldKeys BY DEF StreamsKept
<1> USE DEF eventVars, streamVars, OpenedIds, OwnedBy
<1>1. /\ Unused(c) \subseteq Keys
      /\ \A k \in Unused(c) : streams[c][k] # 0 /\ last_object_id[c][k] = None
      /\ \A e \in Senders, k \in Keys : streams'[e][k] =
              IF e = c /\ k \in Unused(c) THEN 0 ELSE streams[e][k]
      /\ \A e \in Senders : peer_stopped_subgroups'[e] \subseteq peer_stopped_subgroups[e]
  BY <1>0 DEF Unused, Unmatched, Discard, HeldKeys, SenderData
<1>2. \A e \in Senders : /\ renewals[e] \in Nat /\ renewals'[e] \in Nat
                         /\ renewals[e] <= renewals'[e]
                         /\ \A k \in peer_stopped_subgroups[e] :
                              k \in peer_stopped_subgroups'[e] \/ renewals[e] < renewals'[e]
                         /\ \/ renewals'[e] = renewals[e]
                            \/ /\ e = c /\ renewals'[e] = renewals[e] + 1
                               /\ \A k \in Keys : streams[c][k] # 0 /\ streams[c][k] \in stopped_ever =>
                                      stopped_at[streams[c][k]].begun > renewals[c]
  BY <1>0 DEF SenderData
<1>3. SenderData'
  <2>1. /\ streams' \in [Senders -> [Keys -> StreamIds \cup {0}]]
        /\ stream_keys' \in [Senders -> [StreamIds -> Keys \cup {NoKey}]]
        /\ pending_objects' \in [Senders -> [Keys -> Pending]]
    BY <1>0 DEF SenderData, Discard, NoPending, Pending
  <2>2. /\ renewals' \in [Senders -> Nat]
        /\ peer_stopped_subgroups' \in [Senders -> SUBSET Keys]
    <3>1. CASE UNCHANGED <<peer_stopped_subgroups, renewals>> BY <1>0, <3>1 DEF SenderData
    <3>2. CASE /\ peer_stopped_subgroups' = [peer_stopped_subgroups EXCEPT ![c] = {}]
               /\ renewals' = [renewals EXCEPT ![c] = @ + 1]
      BY <1>0, <3>2 DEF SenderData
    <3> QED BY <3>1, <3>2
  <2> QED BY <1>0, <2>1, <2>2 DEF SenderData, Used
<1>4. HeldStreams'
  <2> SUFFICES ASSUME NEW e \in Senders, NEW k \in Keys, streams'[e][k] # 0
               PROVE  HeldStream(e, k)'
    BY DEF HeldStreams
  <2>1. ~(e = c /\ k \in Unused(c)) /\ streams'[e][k] = streams[e][k] /\ HeldStream(e, k)
    BY <1>0, <1>1 DEF HeldStreams
  <2>2. stream_keys'[e][streams[e][k]] = k BY <1>0, <2>1, OpenedTypes DEF HeldStream, Discard, SenderData
  <2>3. streams[e][k] \in stopped_ever /\ live[e] => stopped_at[streams[e][k]].begun >= renewals'[e]
    <3>1. stopped_at[streams[e][k]].begun \in Nat BY <1>0, <2>1, OpenedTypes DEF HeldStream, SenderData
    <3> QED BY <1>2, <2>1, <3>1 DEF HeldStream
  <2> QED BY <1>1, <2>1, <2>2, <2>3 DEF HeldStream, LastOfKey, Used, is_closed
<1>5. HeldKeys' BY <1>0, <1>1 DEF HeldKeys, Discard, Unused, SenderData
<1>6. EndsRecorded'
  <2> SUFFICES ASSUME NEW j \in OpenedIds PROVE EndRecorded(j)' BY DEF EndsRecorded
  <2>1. /\ EndRecorded(j) /\ opened[j].c \in Senders /\ opened[j].k \in Keys
        /\ stopped_at[j].done \in Nat /\ j # 0
    BY <1>0, OpenedTypes DEF StreamsKept, EndsRecorded, SenderData
  <2>2. stopped_at[j].done <= renewals'[opened[j].c] BY <1>2, <2>1 DEF EndRecorded
  <2>3. CASE streams[opened[j].c][opened[j].k] = j
    <3>1. HeldStream(opened[j].c, opened[j].k) BY <1>0, <2>1, <2>3 DEF HeldStreams
    <3> QED BY <1>1, <2>1, <2>2, <2>3, <3>1 DEF EndRecorded, HeldStream, Used
  <2>4. CASE streams[opened[j].c][opened[j].k] # j
    BY <1>2, <2>1, <2>2, <2>4 DEF EndRecorded, OnlyStopped, Used
  <2> QED BY <2>3, <2>4
<1>7. StopsRecorded' BY <1>0, <1>1, <1>2 DEF StreamsKept, StopsRecorded, SenderData
<1>8. ReopenOnlyAfterRenewal' BY DEF StreamsKept, ReopenOnlyAfterRenewal, Used
<1> QED BY <1>3, <1>4, <1>5, <1>6, <1>7, <1>8 DEF StreamsKept

LEMMA OpenStep ==
    ASSUME StreamsKept, OperationSound, ServeOnNewStream
    PROVE  StreamsKept'
<1>0. SenderData /\ HeldStreams /\ HeldKeys /\ EndsRecorded BY DEF StreamsKept
<1>a. PICK c, k, n : c = op.c /\ k = op.k /\ n = Len(opened) + 1 OBVIOUS
<1>1. c \in Senders /\ k \in Keys /\ live[c] /\ op.object \in Objects
  BY <1>a DEF ServeOnNewStream, Servable, Observed, OperationSound, Operations, Resting
<1>2. /\ ~is_closed(c, k) /\ ~completion_history_exhausted[c] /\ streams[c][k] = 0
      /\ n \in StreamIds /\ n # 0
      /\ opened' = Append(opened, [c |-> c, k |-> k, renewal |-> renewals[c]])
      /\ streams' = [streams EXCEPT ![c][k] = n]
      /\ stream_keys' = [stream_keys EXCEPT ![c][n] = k]
      /\ last_object_id' = [last_object_id EXCEPT ![c][k] = None]
      /\ pending_objects' = [pending_objects EXCEPT ![c][k] = [object |-> op.object, header |-> TRUE]]
      /\ UNCHANGED <<closed_subgroups, peer_stopped_subgroups, completion_history_exhausted, callerVars,
           eventVars, written, finished, reset, pastVars>>
  BY <1>a, SenderAssumption DEF ServeOnNewStream, Servable, FailsClosed, Enqueue, StreamIds
<1> USE DEF callerVars, eventVars, pastVars
<1>3. /\ Len(opened) \in Nat /\ n \in Nat /\ OpenedIds \subseteq Nat /\ Len(opened') = n /\ OpenedIds' = OpenedIds \cup {n}
      /\ n \notin OpenedIds /\ \A j \in OpenedIds : j < n /\ opened'[j] = opened[j]
      /\ opened'[n] = [c |-> c, k |-> k, renewal |-> renewals[c]]
      /\ opened' \in Seq([c : Senders, k : Keys, renewal : Nat])
  <2>1. /\ opened \in Seq([c : Senders, k : Keys, renewal : Nat]) /\ Len(opened) \in Nat
        /\ [c |-> c, k |-> k, renewal |-> renewals[c]] \in [c : Senders, k : Keys, renewal : Nat]
    BY <1>0, <1>1 DEF SenderData
  <2> QED BY <1>2, <1>a, <2>1, AppendFacts DEF OpenedIds
<1>b. /\ opened'[n].c = c /\ opened'[n].k = k /\ opened'[n].renewal = renewals[c]
      /\ \A d, l : OwnedBy(n, d, l)' <=> d = c /\ l = k
      /\ \A d, l : \A j \in OpenedIds : OwnedBy(j, d, l)' <=> OwnedBy(j, d, l)
      /\ \A j \in OpenedIds' : j > n => FALSE
  <2>1. PICK q : q = opened' OBVIOUS
  <2>2. q[n].c = c /\ q[n].k = k /\ q[n].renewal = renewals[c] /\ \A j \in OpenedIds : q[j] = opened[j]
    BY <1>3, <2>1
  <2>3. \A j \in OpenedIds' : j > n => FALSE
    <3>1. OpenedIds' = OpenedIds \cup {n} /\ n \in Nat /\ \A j \in OpenedIds : j \in Nat /\ j < n BY <1>3
    <3>2. ~(n > n) /\ \A j \in OpenedIds : ~(j > n) BY <3>1
    <3> QED BY <3>1, <3>2, Zenon
  <2> QED BY <2>1, <2>2, <2>3 DEF OwnedBy
<1>4. ~Used(n) /\ n \notin reset \cup expired_ever \cup stopped_ever /\ stopped_at[n].done = 0
  BY <1>0, <1>2, <1>3, <1>a DEF SenderData
<1>5. \A j \in OpenedIds : OwnedBy(j, c, k) =>
          \/ ~Used(j) /\ j \notin reset
          \/ OnlyStopped(j) /\ stopped_at[j].done < renewals[c]
  <2> SUFFICES ASSUME NEW j \in OpenedIds, OwnedBy(j, c, k), ~(~Used(j) /\ j \notin reset)
               PROVE  OnlyStopped(j) /\ stopped_at[j].done < renewals[c]
    OBVIOUS
  <2> QED BY <1>0, <1>1, <1>2, OpenedTypes DEF EndsRecorded, EndRecorded, OwnedBy, is_closed
<1>6. SenderData'
  <2>1. /\ streams' \in [Senders -> [Keys -> StreamIds \cup {0}]]
        /\ stream_keys' \in [Senders -> [StreamIds -> Keys \cup {NoKey}]]
        /\ last_object_id' \in [Senders -> [Keys -> Objects \cup {None}]]
        /\ pending_objects' \in [Senders -> [Keys -> Pending]]
    BY <1>0, <1>1, <1>2 DEF SenderData, Pending
  <2>2. Len(opened') \in 0..MaxStreams BY <1>2, <1>3, SenderAssumption DEF StreamIds
  <2>3. \A i \in StreamIds : i > n => i > Len(opened) BY <1>3, <1>a DEF StreamIds
  <2> QED BY <1>0, <1>2, <1>3, <2>1, <2>2, <2>3 DEF SenderData, Used
<1>7. HeldStreams'
  <2> SUFFICES ASSUME NEW d \in Senders, NEW l \in Keys, streams'[d][l] # 0
               PROVE  HeldStream(d, l)'
    BY DEF HeldStreams
  <2>1. CASE d = c /\ l = k
    <3>1. streams'[d][l] = n /\ stream_keys'[d][n] = l BY <1>0, <1>1, <1>2, <2>1 DEF SenderData
    <3>2. OwnedBy(n, d, l)' /\ LastOfKey(n)' BY <1>b, <2>1 DEF LastOfKey
    <3> QED BY <1>2, <1>3, <1>4, <2>1, <3>1, <3>2 DEF HeldStream, is_closed, Used
  <2>2. CASE ~(d = c /\ l = k)
    <3>1. streams'[d][l] = streams[d][l] /\ last_object_id'[d][l] = last_object_id[d][l] /\ HeldStream(d, l)
      BY <1>0, <1>2, <2>2 DEF HeldStreams, SenderData
    <3>2. stream_keys'[d][streams[d][l]] = l /\ streams[d][l] # n
      BY <1>0, <1>2, <1>3, <3>1, OpenedTypes DEF HeldStream, SenderData
    <3>3. PICK i \in OpenedIds : i = streams[d][l] /\ opened[i].c = d /\ opened[i].k = l /\ LastOfKey(i)
      BY <3>1 DEF HeldStream, OwnedBy
    <3>4. OwnedBy(i, d, l)' /\ \A j \in OpenedIds' : j > i => ~OwnedBy(j, d, l)'
      <4>1. opened'[i] = opened[i] BY <1>3
      <4> QED BY <1>3, <1>b, <2>2, <3>3, <4>1 DEF LastOfKey, OwnedBy
    <3> QED BY <1>2, <1>3, <3>1, <3>2, <3>3, <3>4 DEF HeldStream, is_closed, Used, LastOfKey, OwnedBy
  <2> QED BY <2>1, <2>2
<1>8. HeldKeys'
  <2>1. \A d \in Senders, l \in Keys : pending_objects'[d][l] # NoPending => streams'[d][l] # 0
    BY <1>0, <1>1, <1>2 DEF HeldKeys, SenderData
  <2>2. ASSUME NEW d \in Senders, NEW i \in StreamIds, stream_keys'[d][i] # NoKey
        PROVE  streams'[d][stream_keys'[d][i]] = i
    <3>1. CASE d = c /\ i = n BY <1>0, <1>1, <1>2, <3>1 DEF SenderData
    <3>2. CASE ~(d = c /\ i = n)
      <4>1. stream_keys'[d][i] = stream_keys[d][i] /\ stream_keys[d][i] \in Keys
        BY <1>0, <1>2, <2>2, <3>2 DEF SenderData
      <4>2. streams[d][stream_keys[d][i]] = i /\ i # 0 BY <1>0, <2>2, <4>1 DEF HeldKeys, StreamIds
      <4> QED BY <1>0, <1>2, <4>1, <4>2 DEF SenderData
    <3> QED BY <3>1, <3>2
  <2> QED BY <2>1, <2>2 DEF HeldKeys
<1>9. EndsRecorded'
  <2> SUFFICES ASSUME NEW j \in OpenedIds' PROVE EndRecorded(j)' BY DEF EndsRecorded
  <2>1. CASE j = n
    <3>1. streams'[c][k] = n /\ stopped_at[n].done <= renewals[c] BY <1>0, <1>1, <1>2, <1>4 DEF SenderData
    <3> QED BY <1>2, <1>3, <2>1, <3>1 DEF EndRecorded
  <2>2. CASE j \in OpenedIds
    <3>1. EndRecorded(j) /\ opened[j].c \in Senders /\ opened[j].k \in Keys /\ opened'[j] = opened[j]
      BY <1>0, <1>3, <2>2, OpenedTypes DEF EndsRecorded
    <3>2. CASE OwnedBy(j, c, k) BY <1>2, <1>5, <2>2, <3>1, <3>2 DEF EndRecorded, OwnedBy, OnlyStopped, Used
    <3>3. CASE ~OwnedBy(j, c, k)
      <4>1. streams'[opened[j].c][opened[j].k] = streams[opened[j].c][opened[j].k]
        BY <1>0, <1>2, <3>1, <3>3 DEF OwnedBy, SenderData
      <4> QED BY <1>2, <3>1, <4>1 DEF EndRecorded, OnlyStopped, Used
    <3> QED BY <3>2, <3>3
  <2> QED BY <1>3, <2>1, <2>2
<1>10. StopsRecorded'
  <2>1. \A d \in Senders : \A l \in peer_stopped_subgroups[d] :
          \E i \in OpenedIds \cap stopped_ever : OwnedBy(i, d, l)' /\ stopped_at[i].begun >= renewals[d]
    BY <1>b DEF StreamsKept, StopsRecorded
  <2>2. OpenedIds \cap stopped_ever \subseteq OpenedIds' \cap stopped_ever' BY <1>2, <1>3
  <2>3. peer_stopped_subgroups' = peer_stopped_subgroups /\ stopped_at' = stopped_at /\ renewals' = renewals
    BY <1>2
  <2> QED BY <2>1, <2>2, <2>3 DEF StopsRecorded
<1>11. ReopenOnlyAfterRenewal'
  <2> SUFFICES ASSUME NEW i \in OpenedIds', NEW j \in OpenedIds', i < j,
                      OwnedBy(i, opened[j].c, opened[j].k)'
               PROVE  \/ ~Used(i)' /\ i \notin reset'
                      \/ OnlyStopped(i) /\ stopped_at[i].done < opened'[j].renewal
    BY <1>2 DEF ReopenOnlyAfterRenewal, OnlyStopped
  <2>0. i \in OpenedIds
    <3>1. i \in OpenedIds \cup {n} /\ j \in OpenedIds \cup {n} BY <1>3
    <3>2. i # n BY <1>3, <3>1
    <3> QED BY <3>1, <3>2
  <2>1. CASE j = n
    <3>1. OwnedBy(i, c, k) /\ opened'[j].renewal = renewals[c]
      <4>1. OwnedBy(i, c, k)' BY <1>b, <2>1
      <4> QED BY <1>b, <2>0, <2>1, <4>1
    <3> QED BY <1>2, <1>5, <2>0, <3>1 DEF Used
  <2>2. CASE j \in OpenedIds
    BY <1>2, <1>3, <2>0, <2>2 DEF StreamsKept, ReopenOnlyAfterRenewal, OwnedBy, OnlyStopped, Used
  <2> QED BY <1>3, <2>1, <2>2
<1> QED BY <1>6, <1>7, <1>8, <1>9, <1>10, <1>11 DEF StreamsKept

LEMMA WriteStep ==
    ASSUME StreamsKept, OperationSound, WriteAccepted
    PROVE  StreamsKept'
<1>0. SenderData /\ HeldStreams /\ HeldKeys BY DEF StreamsKept
<1>a. PICK c, k, n : c = op.c /\ k = op.k /\ n = streams[c][k] OBVIOUS
<1>1. c \in Senders /\ k \in Keys /\ live[c] /\ n # 0 /\ op.object \in Objects
  BY <1>a DEF WriteAccepted, Accepted, Writes, OperationSound, Operations, Resting
<1>2. /\ last_object_id' = [last_object_id EXCEPT ![c][k] = op.object]
      /\ pending_objects' = [pending_objects EXCEPT ![c][k] = NoPending]
      /\ DOMAIN written' = DOMAIN written /\ \A j \in DOMAIN written \ {n} : written'[j] = written[j]
      /\ UNCHANGED <<streams, stream_keys, closed_subgroups, peer_stopped_subgroups,
           completion_history_exhausted, live, eventVars, opened, finished, reset, pastVars>>
  BY <1>a DEF WriteAccepted, Accepted, Skip, Admit
<1>3. HeldStream(c, k) /\ n \in OpenedIds /\ n \in StreamIds /\ op.object # None
  BY <1>0, <1>1, <1>a, OpenedTypes, SenderAssumption DEF HeldStreams, HeldStream, Objects, None
<1> USE DEF eventVars, pastVars, OpenedIds, OwnedBy
<1>4. \A j \in OpenedIds : j # n => Used(j)' = Used(j) BY <1>0, <1>2, OpenedTypes DEF SenderData, Used
<1>5. SenderData'
  <2>1. /\ last_object_id' \in [Senders -> [Keys -> Objects \cup {None}]]
        /\ pending_objects' \in [Senders -> [Keys -> Pending]]
    BY <1>0, <1>1, <1>2 DEF SenderData, Pending, NoPending
  <2>2. ~(n > Len(opened)) BY <1>3
  <2> QED BY <1>0, <1>2, <1>3, <2>1, <2>2 DEF SenderData, Used
<1>6. HeldStreams'
  <2> SUFFICES ASSUME NEW d \in Senders, NEW l \in Keys, streams[d][l] # 0
               PROVE  HeldStream(d, l)'
    BY <1>2 DEF HeldStreams
  <2>1. HeldStream(d, l) BY <1>0 DEF HeldStreams
  <2>2. last_object_id'[d][l] = None => ~Used(streams[d][l])'
    <3>1. CASE d = c /\ l = k BY <1>0, <1>1, <1>2, <1>3, <3>1 DEF SenderData
    <3>2. CASE ~(d = c /\ l = k)
      <4>1. streams[d][l] # n /\ streams[d][l] \in OpenedIds BY <1>a, <1>3, <2>1, <3>2 DEF HeldStream
      <4>2. last_object_id'[d][l] = last_object_id[d][l] BY <1>0, <1>2, <3>2 DEF SenderData
      <4> QED BY <1>2, <1>4, <2>1, <4>1, <4>2 DEF HeldStream
    <3> QED BY <3>1, <3>2
  <2> QED BY <1>2, <2>1, <2>2 DEF HeldStream, LastOfKey, is_closed
<1>7. HeldKeys' BY <1>0, <1>2 DEF HeldKeys, SenderData
<1>8. EndsRecorded'
  <2> SUFFICES ASSUME NEW j \in OpenedIds PROVE EndRecorded(j)' BY <1>2 DEF EndsRecorded
  <2>1. EndRecorded(j) BY DEF StreamsKept, EndsRecorded
  <2> QED BY <1>a, <1>2, <1>3, <1>4, <2>1 DEF EndRecorded, OnlyStopped, HeldStream
<1>9. StopsRecorded' BY <1>2 DEF StreamsKept, StopsRecorded
<1>10. ReopenOnlyAfterRenewal'
  <2> SUFFICES ASSUME NEW i \in OpenedIds, NEW j \in OpenedIds, i < j,
                      OwnedBy(i, opened[j].c, opened[j].k)
               PROVE  \/ ~Used(i)' /\ i \notin reset
                      \/ OnlyStopped(i) /\ stopped_at[i].done < opened[j].renewal
    BY <1>2 DEF ReopenOnlyAfterRenewal, OnlyStopped
  <2>1. i # n BY <1>a, <1>3 DEF HeldStream, LastOfKey
  <2> QED BY <1>4, <2>1 DEF StreamsKept, ReopenOnlyAfterRenewal, OnlyStopped
<1> QED BY <1>5, <1>6, <1>7, <1>8, <1>9, <1>10 DEF StreamsKept

LEMMA ExpireStep ==
    ASSUME StreamsKept, NEW i \in StreamIds, Expires(i)
    PROVE  StreamsKept'
<1>0. SenderData /\ HeldStreams BY DEF StreamsKept
<1>1. /\ Used(i) /\ i \notin expired_ever \cup stopped_ever \cup reset
      /\ expired' = expired \cup {i} /\ expired_ever' = expired_ever \cup {i}
      /\ UNCHANGED <<peer_stopped, stopped_ever, stopped_at, renewals, senderVars, callerVars, streamVars>>
  BY DEF Expires
<1> USE DEF senderVars, callerVars, streamVars, OpenedIds, OwnedBy, Used
<1>2. SenderData' BY <1>0, <1>1 DEF SenderData
<1>3. HeldStreams' BY <1>0, <1>1 DEF HeldStreams, HeldStream, LastOfKey, is_closed
<1>4. HeldKeys' BY <1>1 DEF StreamsKept, HeldKeys
<1>5. EndsRecorded' BY <1>1 DEF StreamsKept, EndsRecorded, EndRecorded, OnlyStopped
<1>6. StopsRecorded' BY <1>1 DEF StreamsKept, StopsRecorded
<1>7. ReopenOnlyAfterRenewal' BY <1>1 DEF StreamsKept, ReopenOnlyAfterRenewal
<1> QED BY <1>2, <1>3, <1>4, <1>5, <1>6, <1>7 DEF StreamsKept

LEMMA StopStep ==
    ASSUME StreamsKept, NEW i \in StreamIds, PeerStops(i)
    PROVE  StreamsKept'
<1>0. SenderData /\ HeldStreams BY DEF StreamsKept
<1>1. Used(i) /\ i \notin stopped_ever BY DEF PeerStops
<1>2. i \in OpenedIds /\ opened[i].c \in Senders
  <2>1. i \in Nat /\ 1 <= i /\ Len(opened) \in Nat /\ ~(i > Len(opened))
    BY <1>0, <1>1, SenderAssumption DEF SenderData, StreamIds
  <2>2. i \in OpenedIds BY <2>1 DEF OpenedIds
  <2> QED BY <1>0, <2>2, OpenedTypes
<1>3. /\ peer_stopped' = peer_stopped \cup {i} /\ stopped_ever' = stopped_ever \cup {i}
      /\ stopped_at'[i].done = renewals[opened[i].c]
      /\ stopped_at'[i].begun \in Nat /\ stopped_at'[i].begun >= renewals[opened[i].c]
      /\ \A j \in StreamIds \ {i} : stopped_at'[j] = stopped_at[j]
      /\ stopped_at' \in [StreamIds -> [done : Nat, begun : Nat]]
      /\ UNCHANGED <<expired, expired_ever, renewals, senderVars, callerVars, streamVars>>
  BY <1>0, <1>2 DEF PeerStops, SenderData
<1> USE DEF senderVars, callerVars, streamVars, OpenedIds, OwnedBy, Used
<1>4. SenderData' BY <1>0, <1>2, <1>3 DEF SenderData
<1>5. HeldStreams' BY <1>0, <1>3, OpenedTypes DEF HeldStreams, HeldStream, LastOfKey, is_closed
<1>6. HeldKeys' BY <1>3 DEF StreamsKept, HeldKeys
<1>7. EndsRecorded'
  <2> SUFFICES ASSUME NEW j \in OpenedIds PROVE EndRecorded(j)' BY <1>3 DEF EndsRecorded
  <2>1. EndRecorded(j) /\ j \in StreamIds BY <1>0, OpenedTypes DEF StreamsKept, EndsRecorded
  <2>2. stopped_at'[j].done <= renewals[opened[j].c]
    <3>1. j = i => stopped_at'[j].done = renewals[opened[j].c] /\ renewals[opened[j].c] \in Nat
      BY <1>0, <1>2, <1>3 DEF SenderData
    <3>2. j # i => stopped_at'[j] = stopped_at[j] BY <1>3, <2>1
    <3> QED BY <2>1, <3>1, <3>2 DEF EndRecorded
  <2>3. CASE j = i BY <1>1, <1>3, <2>1, <2>2, <2>3 DEF EndRecorded, OnlyStopped
  <2>4. CASE j # i BY <1>3, <2>1, <2>2, <2>4 DEF EndRecorded, OnlyStopped
  <2> QED BY <2>3, <2>4
<1>8. \A j \in OpenedIds : j # i => stopped_at'[j] = stopped_at[j] BY <1>0, <1>3, OpenedTypes
<1>9. StopsRecorded' BY <1>1, <1>3, <1>8 DEF StreamsKept, StopsRecorded
<1>10. ReopenOnlyAfterRenewal' BY <1>1, <1>3, <1>8 DEF StreamsKept, ReopenOnlyAfterRenewal
<1> QED BY <1>4, <1>5, <1>6, <1>7, <1>9, <1>10 DEF StreamsKept

-----------------------------------------------------------------------------
LEMMA RestStep ==
    ASSUME op' = Idle, phase' \in Resting, todo' \subseteq StreamIds, changed' \subseteq StreamIds,
           saw_expired' \in BOOLEAN, phase' = "stops" => todo' \subseteq stopped_ever'
    PROVE  OperationKept'
<1>1. op'.kind = "none" BY DEF Idle
<1> QED BY <1>1 DEF OperationKept, OperationSound, ScanSound, FinishSound, Resting, Scanning, Opens

LEMMA DoneStep ==
    ASSUME OperationSound, OperationDone \/ SessionFails
    PROVE  OperationKept'
  BY RestStep DEF OperationSound, OperationDone, SessionFails, Resting

LEMMA ScanStarts ==
    ASSUME StreamsKept, OperationSound, NEW o \in Operations, live'[o.c], Observe(o),
           UNCHANGED <<streams, stream_keys, opened>>,
           o.kind \in Opens => \A p \in o.open :
                p[2] \in OpenedIds /\ OwnedBy(p[2], o.c, p[1]) /\ LastOfKey(p[2]),
           o.kind = "finish_recheck" => o.open # {} /\ OpenStreams(o.c) \subseteq o.open
    PROVE  OperationKept'
<1>1. /\ op' = o /\ phase' = "scan" /\ changed' = {} /\ saw_expired' = saw_expired
      /\ todo' = {i \in StreamIds : stream_keys[o.c][i] # NoKey}
  BY DEF Observe
<1>2. o.c \in Senders BY DEF Operations
<1>3. OperationSound' BY <1>1 DEF OperationSound, Resting, Scanning
<1>4. ScanSound'
  <2>1. \A k \in Keys : streams[o.c][k] # 0 => streams[o.c][k] \in todo'
    BY <1>1, <1>2, KeysNotEmpty, OpenedTypes DEF StreamsKept, HeldStreams, HeldStream
  <2> QED BY <1>1, <2>1 DEF ScanSound, Scanning
<1>5. FinishSound' BY <1>1 DEF FinishSound, OpenStreams, OpenedIds, OwnedBy, LastOfKey
<1> QED BY <1>3, <1>4, <1>5 DEF OperationKept

\* What an operation is, by its kind.
LEMMA OperationTypes ==
    ASSUME op \in Operations
    PROVE  /\ op.c \in Senders
           /\ op.kind \in {"serve", "recheck"} =>
                op \in [kind : {"serve", "recheck"}, c : Senders, k : Keys, object : Objects]
           /\ op.kind \in {"finish", "finish_recheck"} =>
                op \in [kind : {"finish", "finish_recheck"}, c : Senders,
                        open : SUBSET (Keys \X StreamIds), ends : BOOLEAN]
           /\ op.kind = "cancel" =>
                op \in [kind : {"cancel"}, c : Senders, open : SUBSET (Keys \X StreamIds), ok : BOOLEAN]
  BY DEF Operations

LEMMA HeldOpen ==
    ASSUME StreamsKept, NEW c \in Senders
    PROVE  /\ OpenStreams(c) \in SUBSET (Keys \X StreamIds)
           /\ \A p \in OpenStreams(c) :
                p[2] \in OpenedIds /\ OwnedBy(p[2], c, p[1]) /\ LastOfKey(p[2])
  BY OpenedTypes DEF StreamsKept, HeldStreams, HeldStream, OpenStreams

\* The subgroup is closed and leaves the streams to be finished.
LEMMA FinishNextStep ==
    ASSUME SenderInv, phase = "finish" \/ op.kind = "finish_recheck", op.open # {},
           CloseSubgroup(op.c, Finishing[1]), FinishNext, UNCHANGED <<live, opened>>
    PROVE  OperationKept'
<1>1. CASE Finishing[1] \notin closed_subgroups'[op.c]
  BY <1>1, DoneStep DEF FinishNext, SenderInv, OperationKept
<1>2. CASE Finishing[1] \in closed_subgroups'[op.c]
  <2>1. /\ op \in [kind : {"finish", "finish_recheck"}, c : Senders,
                   open : SUBSET (Keys \X StreamIds), ends : BOOLEAN]
        /\ live[op.c] /\ phase \notin Resting
    BY OperationTypes DEF SenderInv, OperationKept, OperationSound, Resting, Idle
  <2>2. /\ op' = [op EXCEPT !.kind = "finish", !.open = @ \ {Finishing}]
        /\ phase' = "finish" /\ UNCHANGED <<todo, changed, saw_expired>>
    BY <1>2 DEF FinishNext
  <2>3. /\ op' \in [kind : {"finish"}, c : Senders, open : SUBSET (Keys \X StreamIds), ends : BOOLEAN]
        /\ op'.c = op.c /\ op'.open = op.open \ {Finishing} /\ op'.kind = "finish"
    BY <2>1, <2>2
  <2>4. OperationSound'
    BY <2>1, <2>2, <2>3 DEF SenderInv, OperationKept, OperationSound, Resting, Scanning, Operations
  <2>5. ScanSound' BY <2>2, <2>3 DEF ScanSound, Scanning
  <2>6. OpenStreams(op.c)' \subseteq op.open \ {Finishing}
    <3>1. Finishing \in op.open BY <2>1, FirstOpenIn DEF Finishing
    <3>2. streams' = [streams EXCEPT ![op.c][Finishing[1]] = 0] BY DEF CloseSubgroup
    <3>3. OpenStreams(op.c) \subseteq op.open BY DEF SenderInv, OperationKept, FinishSound
    <3>4. streams \in [Senders -> [Keys -> StreamIds \cup {0}]] BY DEF SenderInv, StreamsKept, SenderData
    <3> QED BY <2>1, <2>3, <3>1, <3>2, <3>3, <3>4 DEF OpenStreams
  <2>7. FinishSound'
    BY <2>1, <2>3, <2>6 DEF SenderInv, OperationKept, FinishSound, Opens, OpenedIds, OwnedBy, LastOfKey
  <2> QED BY <2>4, <2>5, <2>7 DEF OperationKept
<1> QED BY <1>1, <1>2

-----------------------------------------------------------------------------
LEMMA FinishKept ==
    ASSUME FinishSound, UNCHANGED <<op, streams, opened>>, phase' # "finish" \/ phase = "finish"
    PROVE  FinishSound'
  BY DEF FinishSound, OpenStreams, OpenedIds, OwnedBy, LastOfKey

\* What a read of an event set returns.
LEMMA ReadValue ==
    ASSUME NEW x, NEW i, NEW S, x = (i \in S)
    PROVE  x \in BOOLEAN /\ (x => i \in S) /\ (x \/ i \notin S)
<1>1. x \in BOOLEAN
  <2>1. CASE i \in S BY <2>1
  <2>2. CASE i \notin S BY <2>2
  <2> QED BY <2>1, <2>2
<1>2. (x => i \in S) /\ (x \/ i \notin S) BY Zenon
<1> QED BY <1>1, <1>2

\* One step of each kind.
LEMMA ObserveSteps == ASSUME SenderInv, ObserveStep PROVE SenderInv'
<1>0. StreamsKept /\ SenderData /\ HeldStreams /\ HeldKeys /\ OperationSound /\ ScanSound /\ FinishSound
  BY DEF SenderInv, OperationKept, StreamsKept
<1> SUFFICES ASSUME phase \notin Resting, op \in Operations, op.c \in Senders, live[op.c],
                    todo \subseteq StreamIds, changed \subseteq StreamIds
             PROVE  SenderInv'
  BY <1>0, OperationTypes DEF ObserveStep, ScanExpired, ScanPeerStopped, RetireReads, RetireObserved,
     OperationSound, Resting
<1>k. \A i \in todo \cup changed : Scanning =>
          \E k \in Keys : streams[op.c][k] = i /\ i # 0 /\ HeldStream(op.c, k)
  <2> SUFFICES ASSUME NEW i \in todo \cup changed, Scanning
               PROVE  \E k \in Keys : streams[op.c][k] = i /\ i # 0 /\ HeldStream(op.c, k)
    OBVIOUS
  <2>1. stream_keys[op.c][i] # NoKey /\ i \in StreamIds /\ i # 0
    BY <1>0, SenderAssumption DEF ScanSound, StreamIds
  <2>2. stream_keys[op.c][i] \in Keys /\ streams[op.c][stream_keys[op.c][i]] = i
    BY <1>0, <2>1 DEF HeldKeys, SenderData
  <2> QED BY <1>0, <2>1, <2>2 DEF HeldStreams
<1>1. CASE ScanExpired
  <2>1. Least(todo) \in todo BY <1>1, LeastIn DEF ScanExpired
  <2>2. StreamsKept' BY <1>0, <1>1, ControlStep DEF ScanExpired, keptVars, callerVars, SenderData
  <2>3. Least(todo) \in expired => Least(todo) \in expired_ever
    BY <1>0, <1>1, <1>k, <2>1 DEF ScanExpired, Scanning, SenderData, HeldStream
  <2>b. saw_expired' \in BOOLEAN /\ (saw_expired' => Least(todo) \in expired)
    <3>1. saw_expired' = (Least(todo) \in expired) BY <1>1 DEF ScanExpired
    <3> QED BY <3>1, ReadValue
  <2>4. OperationSound' /\ ScanSound'
    <3>1. /\ phase = "scan" /\ todo # {} /\ phase' = "scan_stop"
          /\ UNCHANGED <<op, todo, changed, senderVars, callerVars, pastVars>>
      BY <1>1 DEF ScanExpired
    <3> QED BY <1>0, <2>b, <2>3, <3>1 DEF OperationSound, ScanSound, Scanning, Resting,
       senderVars, callerVars, pastVars
  <2>5. FinishSound' BY <1>0, <1>1, FinishKept DEF ScanExpired, senderVars, streamVars
  <2> QED BY <2>2, <2>4, <2>5 DEF SenderInv, OperationKept
<1>2. CASE ScanPeerStopped
  <2>1. todo # {} /\ Least(todo) \in todo BY <1>0, <1>2, LeastIn DEF ScanPeerStopped, ScanSound
  <2>2. StreamsKept' BY <1>0, <1>2, ControlStep DEF ScanPeerStopped, keptVars, callerVars, SenderData
  <2>3. Least(todo) \in peer_stopped => Least(todo) \in stopped_ever BY <1>0 DEF SenderData
  <2>4. OperationSound' /\ FinishSound'
    BY <1>0, <1>2, <2>1, FinishKept DEF ScanPeerStopped, OperationSound, Scanning, Resting, senderVars,
       callerVars, streamVars, pastVars
  <2>5. ScanSound'
    <3>1. \A k \in Keys : streams[op.c][k] # 0 /\ streams[op.c][k] \in stopped_ever /\ streams[op.c][k] = Least(todo) =>
              streams[op.c][k] \in changed'
      BY <1>0, <1>2 DEF ScanPeerStopped, HeldStreams, HeldStream
    <3> QED BY <1>0, <1>2, <2>1, <2>3, <3>1 DEF ScanPeerStopped, ScanSound, Scanning, senderVars, pastVars
  <2> QED BY <2>2, <2>4, <2>5 DEF SenderInv, OperationKept
<1>3. CASE RetireReads
  <2>1. Least(changed) \in changed BY <1>3, LeastIn DEF RetireReads
  <2>2. StreamsKept' BY <1>0, <1>3, ControlStep DEF RetireReads, keptVars, callerVars, SenderData
  <2>3. Least(changed) \in expired \/ Least(changed) \in stopped_ever \ expired_ever
    BY <1>0, <1>3, <1>k, <2>1 DEF RetireReads, Scanning, ScanSound, HeldStream
  <2>b. saw_expired' \in BOOLEAN /\ (saw_expired' \/ Least(changed) \notin expired)
    <3>1. saw_expired' = (Least(changed) \in expired) BY <1>3 DEF RetireReads, Reread
    <3> QED BY <3>1, ReadValue
  <2>4. OperationSound' /\ ScanSound'
    <3>1. /\ phase = "scan" /\ todo = {} /\ changed # {} /\ phase' = "retire"
          /\ UNCHANGED <<op, todo, changed, senderVars, callerVars, pastVars>>
      BY <1>3 DEF RetireReads
    <3> QED BY <1>0, <2>b, <2>3, <3>1 DEF OperationSound, ScanSound, Scanning, Resting,
       senderVars, callerVars, pastVars
  <2>5. FinishSound' BY <1>0, <1>3, FinishKept DEF RetireReads, senderVars, streamVars
  <2> QED BY <2>2, <2>4, <2>5 DEF SenderInv, OperationKept
<1>4. CASE RetireObserved
  <2> DEFINE i == Least(changed)
  <2>r. RetireObserved /\ phase = "retire" BY <1>4 DEF RetireObserved
  <2>1. /\ changed # {} /\ todo = {} /\ i \in changed /\ i \in StreamIds
        /\ stream_keys[op.c][i] # NoKey /\ saw_expired \in BOOLEAN
        /\ saw_expired \/ i \in stopped_ever \ expired_ever
    BY <1>0, <1>4, LeastIn DEF RetireObserved, ScanSound, Scanning, OperationSound
  <2>2. /\ Retire(op.c, i, i \in peer_stopped, saw_expired)
        /\ expired' \in {expired, expired \ {i}} /\ peer_stopped' \in {peer_stopped, peer_stopped \ {i}}
        /\ changed' = changed \ {i} /\ phase' = "scan"
        /\ UNCHANGED <<op, todo, saw_expired, callerVars, streamVars, pastVars>>
    BY <1>4 DEF RetireObserved
  <2>3. StreamsKept'
    <3> HIDE DEF i
    <3>1. UNCHANGED <<live, streamVars, pastVars>> BY <2>2 DEF callerVars
    <3>2. CASE i \in peer_stopped
      <4>1. Retire(op.c, i, TRUE, saw_expired) BY <2>2, <3>2 DEF Retire, Renewable
      <4>2. Renewable(TRUE, saw_expired) => i \in stopped_ever \ expired_ever BY <2>1 DEF Renewable
      <4> QED BY <1>0, <2>1, <2>2, <3>1, <4>1, <4>2, RetireStep
    <3>3. CASE i \notin peer_stopped
      <4>1. Retire(op.c, i, FALSE, saw_expired) BY <2>2, <3>3 DEF Retire, Renewable
      <4>2. ~Renewable(FALSE, saw_expired) BY DEF Renewable
      <4> QED BY <1>0, <2>1, <2>2, <3>1, <4>1, <4>2, RetireStep
    <3> QED BY <3>2, <3>3
  <2> HIDE DEF i
  <2>4. /\ \A j \in changed' : stream_keys'[op.c][j] # NoKey
        /\ \A k \in Keys : streams'[op.c][k] # 0 => streams'[op.c][k] = streams[op.c][k] /\ streams[op.c][k] # i
    <3>1. PICK k \in Keys : stream_keys[op.c][i] = k /\ streams[op.c][k] = i /\ i # 0
      BY <1>0, <2>1, SenderAssumption DEF HeldKeys, SenderData, StreamIds
    <3>2. \A l \in Keys : streams[op.c][l] = i => l = k BY <1>0, <3>1 DEF HeldStreams, HeldStream
    <3>3. streams' = [streams EXCEPT ![op.c][k] = 0] /\ stream_keys' = [stream_keys EXCEPT ![op.c][i] = NoKey]
      BY <1>0, <2>2, <3>1 DEF Retire
    <3> QED BY <1>0, <2>r, <2>2, <3>1, <3>2, <3>3 DEF SenderData, ScanSound, Scanning
  <2>5. OperationSound' BY <1>0, <2>1, <2>2 DEF OperationSound, Scanning, Resting, callerVars, pastVars
  <2>6. ScanSound' BY <1>0, <1>4, <2>1, <2>2, <2>4 DEF RetireObserved, ScanSound, Scanning, pastVars
  <2>7. FinishSound'
    BY <1>0, <1>4, <2>2, <2>4 DEF RetireObserved, FinishSound, streamVars, OpenStreams, OpenedIds, OwnedBy,
       LastOfKey
  <2> QED BY <2>3, <2>5, <2>6, <2>7 DEF SenderInv, OperationKept
<1> QED BY <1>1, <1>2, <1>3, <1>4 DEF ObserveStep

LEMMA TransportSteps == ASSUME SenderInv, TransportStep PROVE SenderInv'
<1>0. StreamsKept /\ SenderData /\ HeldStreams /\ HeldKeys /\ OperationSound /\ ScanSound /\ FinishSound
  BY DEF SenderInv, OperationKept, StreamsKept
<1> USE DEF OperationKept, OperationSound, ScanSound, FinishSound, OpenStreams, OpenedIds, OwnedBy, LastOfKey,
            Scanning, senderVars, callerVars, opVars, streamVars
<1>1. ASSUME NEW i \in StreamIds, Expires(i) PROVE SenderInv'
  <2>1. OperationKept' BY <1>0, <1>1 DEF Expires
  <2> QED BY <1>0, <1>1, <2>1, ExpireStep DEF SenderInv
<1>2. ASSUME NEW i \in StreamIds, PeerStops(i) PROVE SenderInv'
  <2>1. OperationSound' /\ FinishSound' BY <1>0, <1>2 DEF PeerStops
  <2>2. ScanSound'
    <3>1. op.kind = "renew" => op.c \in Senders /\ renewals[op.c] \in Nat
      BY <1>0, OperationTypes DEF SenderData, Resting, Idle
    <3>2. op.kind = "renew" /\ opened[i].c = op.c => stopped_at'[i].begun > renewals[op.c]
      BY <1>0, <1>2, <3>1 DEF PeerStops, SenderData
    <3>3. \A j \in StreamIds : j # i => stopped_at'[j] = stopped_at[j]
      BY <1>0, <1>2 DEF PeerStops, SenderData
    <3>4. op.kind = "renew" => \A k \in Keys : streams[op.c][k] # 0 =>
              streams[op.c][k] \in StreamIds /\ opened[streams[op.c][k]].c = op.c
      BY <1>0, <3>1, OpenedTypes DEF HeldStreams, HeldStream
    <3> QED BY <1>0, <1>2, <3>2, <3>3, <3>4 DEF PeerStops, pastVars
  <2> QED BY <1>0, <1>2, <2>1, <2>2, StopStep DEF SenderInv
<1> QED BY <1>1, <1>2 DEF TransportStep

LEMMA ServeSteps == ASSUME SenderInv, ServeStep PROVE SenderInv'
<1>0. StreamsKept /\ SenderData /\ HeldStreams /\ OperationSound /\ ScanSound /\ FinishSound
  BY DEF SenderInv, OperationKept, StreamsKept
<1> DEFINE held == streams[op.c][op.k]
<1>1. phase \notin Resting =>
          /\ op.c \in Senders /\ live[op.c] /\ op \in Operations
          /\ op.kind \in {"serve", "recheck"} =>
              /\ op \in [kind : {"serve", "recheck"}, c : Senders, k : Keys, object : Objects]
              /\ held \in StreamIds \cup {0}
              /\ held # 0 => held \in OpenedIds /\ OwnedBy(held, op.c, op.k) /\ LastOfKey(held)
  BY <1>0, OperationTypes DEF OperationSound, SenderData, HeldStreams, HeldStream
<1>2. ASSUME NEW c \in Senders, NEW k \in Keys, Serve(c, k) PROVE SenderInv'
  <2> DEFINE o == [kind |-> "serve", c |-> c, k |-> k, object |-> Least(Frontier(c, k))]
  <2>1. /\ Frontier(c, k) # {} /\ live'[o.c] /\ Observe(o)
        /\ UNCHANGED <<senderVars, callerVars, eventVars, streamVars, pastVars>>
    BY <1>2 DEF Serve, callerVars
  <2>2. Least(Frontier(c, k)) \in Objects BY <2>1, LeastIn DEF Frontier
  <2>3. o \in Operations /\ o.kind = "serve" BY <2>2 DEF Operations
  <2> HIDE DEF o
  <2>4. OperationKept' BY <1>0, <2>1, <2>3, ScanStarts DEF senderVars, streamVars, Opens
  <2> QED BY <1>0, <2>1, <2>4, ControlStep DEF SenderInv, keptVars, callerVars, SenderData
<1>3. CASE ServeRejected \/ ServeClosed \/ ServeOutOfOrder \/ WriteBlocked \/ Recheck
  <2>1. UNCHANGED <<keptVars, live>> /\ (OperationDone \/ SessionFails)
    BY <1>3 DEF ServeRejected, ServeClosed, ServeOutOfOrder, WriteBlocked, Recheck, Skip, Admit, keptVars,
       callerVars
  <2> QED BY <1>0, <2>1, ControlStep, DoneStep DEF SenderInv, SenderData
<1>4. CASE ServeLate \/ WriteLate
  <2>1. phase \notin Resting /\ op.kind = "serve"
    BY <1>4 DEF ServeLate, WriteLate, Servable, Observed, Writes, Resting
  <2>2. /\ CloseSubgroup(op.c, op.k) /\ reset' = reset \cup ({held} \ {0})
        /\ expired' = expired \cup ({held} \ {0})
        /\ UNCHANGED <<live, opened, written, finished, peer_stopped, pastVars>>
        /\ OperationDone \/ SessionFails
    BY <1>4 DEF ServeLate, WriteLate, ResetSubgroup, SkipIfRecorded, Skip, Admit, callerVars
  <2>3. StreamsKept'
    <3> HIDE DEF held
    <3>1. op.c \in Senders /\ op.k \in Keys /\ DOMAIN written' = StreamIds
      BY <1>0, <1>1, <2>1, <2>2 DEF SenderData
    <3> QED BY <1>0, <1>1, <2>1, <2>2, <3>1, CloseStep
  <2> QED BY <1>0, <2>2, <2>3, DoneStep DEF SenderInv
<1>5. CASE WriteFinAccepted
  <2>1. phase \notin Resting /\ op.kind = "serve" /\ held # 0
    BY <1>0, <1>5 DEF WriteFinAccepted, Accepted, Writes, Resting, OperationSound
  <2>2. /\ CloseSubgroup(op.c, op.k) /\ finished' = finished \cup {held}
        /\ DOMAIN written' = DOMAIN written /\ \A j \in DOMAIN written \ {held} : written'[j] = written[j]
        /\ UNCHANGED <<live, opened, reset, expired, peer_stopped, pastVars>>
        /\ OperationDone \/ SessionFails
    BY <1>5 DEF WriteFinAccepted, Accepted, SkipIfRecorded, Skip, Admit, callerVars, eventVars
  <2>3. StreamsKept'
    <3> HIDE DEF held
    <3>1. op.c \in Senders /\ op.k \in Keys /\ DOMAIN written = StreamIds BY <1>0, <1>1, <2>1 DEF SenderData
    <3> QED BY <1>0, <1>1, <2>1, <2>2, <3>1, CloseStep
  <2> QED BY <1>0, <2>2, <2>3, DoneStep DEF SenderInv
<1>6. CASE WriteAccepted
  <2>1. OperationDone BY <1>6 DEF WriteAccepted, Skip
  <2> QED BY <1>0, <1>6, <2>1, WriteStep, DoneStep DEF SenderInv
<1>7. CASE WriteRefused
  <2>1. /\ phase = "write" /\ op.kind = "serve" /\ Observe([op EXCEPT !.kind = "recheck"])
        /\ UNCHANGED <<senderVars, callerVars, eventVars, streamVars, pastVars>>
    BY <1>7 DEF WriteRefused, Writes
  <2>2. PICK o \in Operations : o = [op EXCEPT !.kind = "recheck"] /\ o.kind = "recheck" /\ live'[o.c]
    BY <1>1, <2>1 DEF Operations, Resting, callerVars
  <2>3. OperationKept' BY <1>0, <2>1, <2>2, ScanStarts DEF senderVars, streamVars, Opens
  <2> QED BY <1>0, <2>1, <2>3, ControlStep DEF SenderInv, keptVars, callerVars, SenderData
<1>8. CASE ServeOnNewStream \/ ServeOnOpenStream \/ ServePending
  <2>1. phase \notin Resting /\ op.kind = "serve" /\ op \in [kind : {"serve", "recheck"}, c : Senders, k : Keys, object : Objects]
    BY <1>1, <1>8 DEF ServeOnNewStream, ServeOnOpenStream, ServePending, Servable, Observed, Resting
  <2>2. /\ phase' = "write" /\ UNCHANGED <<op, todo, changed, saw_expired, callerVars, pastVars>>
    BY <1>8 DEF ServeOnNewStream, ServeOnOpenStream, ServePending, Enqueue
  <2>3. StreamsKept' /\ streams'[op.c][op.k] # 0
    <3>1. CASE ServeOnNewStream
      BY <1>0, <2>1, <3>1, OpenStep, SenderAssumption DEF ServeOnNewStream, SenderData, StreamIds
    <3>2. CASE ServeOnOpenStream
      <4>1. /\ pending_objects' = [pending_objects EXCEPT ![op.c][op.k] = [object |-> op.object, header |-> FALSE]]
            /\ held # 0 /\ UNCHANGED <<streams, stream_keys, last_object_id, closed_subgroups, peer_stopped_subgroups,
                  completion_history_exhausted, callerVars, eventVars, streamVars, pastVars>>
        BY <3>2 DEF ServeOnOpenStream, Enqueue, streamVars
      <4>2. /\ pending_objects' \in [Senders -> [Keys -> Pending]]
            /\ \A c \in Senders, k \in Keys : pending_objects'[c][k] # NoPending => streams[c][k] # 0
        BY <1>0, <2>1, <4>1 DEF StreamsKept, SenderData, HeldKeys, Pending
      <4> QED BY <1>0, <4>1, <4>2, PendingStep DEF callerVars, SenderData
    <3>3. CASE ServePending
      <4>1. held # 0
        BY <1>0, <2>1, <3>3, SenderAssumption DEF ServePending, StreamsKept, HeldKeys, NoPending, Objects,
           None
      <4> QED BY <1>0, <3>3, <4>1, ControlStep DEF ServePending, keptVars, callerVars, senderVars, SenderData
    <3> QED BY <1>8, <3>1, <3>2, <3>3
  <2>4. OperationKept'
    BY <1>0, <1>1, <2>1, <2>2, <2>3 DEF OperationKept, OperationSound, ScanSound, FinishSound, Resting,
       Scanning, Opens, callerVars
  <2> QED BY <2>3, <2>4 DEF SenderInv
<1> QED BY <1>2, <1>3, <1>4, <1>5, <1>6, <1>7, <1>8 DEF ServeStep

LEMMA FinishSteps == ASSUME SenderInv, FinishStep PROVE SenderInv'
<1>0. StreamsKept /\ SenderData /\ HeldStreams /\ HeldKeys /\ OperationSound /\ ScanSound /\ FinishSound
  BY DEF SenderInv, OperationKept, StreamsKept
<1>1. ASSUME NEW c \in Senders, Unsubscribe(c) \/ FinishGroup(c) PROVE SenderInv'
  <2>1. PICK o \in Operations : o.kind = "finish" /\ o.open = {} /\ live'[o.c] /\ Observe(o)
    BY <1>1 DEF Unsubscribe, FinishGroup, Operations, callerVars
  <2>2. UNCHANGED <<senderVars, callerVars, eventVars, streamVars, pastVars>>
    BY <1>1 DEF Unsubscribe, FinishGroup
  <2>3. OperationKept' BY <1>0, <2>1, <2>2, ScanStarts DEF senderVars, streamVars
  <2> QED BY <1>0, <2>2, <2>3, ControlStep DEF SenderInv, keptVars, callerVars, SenderData
<1>2. phase = "finish" \/ Observed("finish") \/ Observed("finish_recheck") =>
          /\ phase \notin Resting /\ op.c \in Senders /\ live[op.c] /\ op \in Operations
          /\ op \in [kind : {"finish", "finish_recheck"}, c : Senders,
                     open : SUBSET (Keys \X StreamIds), ends : BOOLEAN]
  BY <1>0, OperationTypes DEF OperationSound, Observed, Resting
<1>3. CASE FinishBegin
  <2>1. UNCHANGED <<keptVars, live>> BY <1>3 DEF FinishBegin, keptVars, callerVars
  <2>2. CASE FailsClosed(op.c)
    BY <1>0, <1>3, <2>1, <2>2, ControlStep, DoneStep DEF FinishBegin, SenderInv, SenderData
  <2>3. CASE ~FailsClosed(op.c)
    <3>1. /\ phase' = "finish" /\ UNCHANGED <<todo, changed, saw_expired>>
          /\ op' = [op EXCEPT !.open = OpenStreams(op.c)] /\ op.kind = "finish"
      BY <1>3, <2>3 DEF FinishBegin, Observed
    <3>2. /\ op' \in [kind : {"finish"}, c : Senders, open : SUBSET (Keys \X StreamIds), ends : BOOLEAN]
          /\ op'.c = op.c /\ op'.open = OpenStreams(op.c) /\ op'.kind = "finish" /\ live[op.c]
      BY <1>0, <1>2, <1>3, <3>1, HeldOpen DEF FinishBegin
    <3>3. OperationSound' /\ ScanSound'
      BY <1>0, <2>1, <3>1, <3>2 DEF OperationSound, ScanSound, Resting, Scanning, Operations
    <3>4. FinishSound'
      BY <1>0, <2>1, <3>2, HeldOpen DEF FinishSound, keptVars, senderVars, streamVars, OpenStreams,
         OpenedIds, OwnedBy, LastOfKey
    <3> QED BY <1>0, <2>1, <3>3, <3>4, ControlStep DEF SenderInv, OperationKept, SenderData
  <2> QED BY <2>2, <2>3
<1>4. Finishes \/ (Observed("finish_recheck") /\ op.open # {}) =>
          /\ Finishing \in op.open /\ Finishing[1] \in Keys /\ Finishing[2] \in OpenedIds
          /\ Finishing[2] \in StreamIds /\ Finishing[2] # 0
          /\ OwnedBy(Finishing[2], op.c, Finishing[1]) /\ LastOfKey(Finishing[2])
  BY <1>0, <1>2, FirstOpenIn, OpenedTypes DEF Finishes, Finishing, FinishSound, Opens
<1>5. CASE FinishSkips
  <2>1. /\ phase = "finish" /\ phase' = "finish" /\ op.kind = "finish" /\ op' = [op EXCEPT !.open = @ \ {Finishing}]
        /\ UNCHANGED <<todo, changed, saw_expired, keptVars, live>>
    BY <1>0, <1>5 DEF FinishSkips, Finishes, OperationSound, keptVars, callerVars
  <2>2. /\ op' \in [kind : {"finish"}, c : Senders, open : SUBSET (Keys \X StreamIds), ends : BOOLEAN]
        /\ op'.c = op.c /\ op'.open = op.open \ {Finishing} /\ op'.kind = "finish" /\ live[op.c]
    BY <1>2, <2>1
  <2>3. OperationSound' /\ ScanSound'
    BY <1>0, <2>1, <2>2 DEF OperationSound, ScanSound, Resting, Scanning, Operations
  <2>4. OpenStreams(op.c) \subseteq op.open \ {Finishing}
    <3>1. streams[op.c][Finishing[1]] = 0
      BY <1>0, <1>2, <1>4, <1>5 DEF FinishSkips, Finishes, HeldStreams, HeldStream
    <3> QED BY <1>0, <2>1, <3>1 DEF FinishSound, OpenStreams
  <2>5. FinishSound'
    BY <1>0, <2>1, <2>2, <2>4 DEF FinishSound, Opens, keptVars, senderVars, streamVars, OpenStreams,
       OpenedIds, OwnedBy, LastOfKey
  <2> QED BY <1>0, <2>1, <2>3, <2>5, ControlStep DEF SenderInv, OperationKept, SenderData
<1>6. CASE FinishLate \/ FinishAccepted
  <2>1. /\ Finishes /\ FinishNext /\ CloseSubgroup(op.c, Finishing[1])
        /\ UNCHANGED <<live, opened, written, peer_stopped, pastVars>>
    BY <1>6 DEF FinishLate, FinishAccepted, ResetSubgroup, callerVars, eventVars
  <2>2. OperationKept' BY <2>1, FinishNextStep DEF Finishes
  <2>3. op.c \in Senders /\ DOMAIN written' = StreamIds BY <1>0, <1>2, <2>1 DEF Finishes, SenderData
  <2>4. CASE FinishLate
    <3> DEFINE held == streams[op.c][Finishing[1]]
    <3>1. /\ reset' = reset \cup ({held} \ {0}) /\ expired' = expired \cup ({held} \ {0}) /\ finished' = finished
      BY <2>4 DEF FinishLate, ResetSubgroup
    <3>2. held \in StreamIds \cup {0} /\ (held # 0 => held \in OpenedIds /\ OwnedBy(held, op.c, Finishing[1]) /\ LastOfKey(held))
      BY <1>0, <1>4, <2>1, <2>3 DEF SenderData, HeldStreams, HeldStream
    <3> HIDE DEF held
    <3> QED BY <1>0, <1>4, <2>1, <2>2, <2>3, <3>1, <3>2, CloseStep DEF SenderInv
  <2>5. CASE FinishAccepted
    <3>1. finished' = finished \cup {Finishing[2]} /\ UNCHANGED <<reset, expired>>
      BY <2>5 DEF FinishAccepted, eventVars
    <3> QED BY <1>0, <1>4, <2>1, <2>2, <2>3, <3>1, CloseStep DEF SenderInv
  <2> QED BY <1>6, <2>4, <2>5
<1>7. CASE FinishRefused
  <2>1. /\ Finishes /\ Observe([op EXCEPT !.kind = "finish_recheck"])
        /\ pending_objects' = [pending_objects EXCEPT ![op.c][Finishing[1]] = NoPending]
        /\ UNCHANGED <<streams, last_object_id, stream_keys, closed_subgroups, peer_stopped_subgroups,
             completion_history_exhausted, stream_count, callerVars, eventVars, streamVars, pastVars>>
    BY <1>7 DEF FinishRefused
  <2>2. StreamsKept'
    <3>1. /\ pending_objects' \in [Senders -> [Keys -> Pending]]
          /\ \A c \in Senders, k \in Keys : pending_objects'[c][k] # NoPending => streams[c][k] # 0
      <4>1. PICK c, k : c = op.c /\ k = Finishing[1] /\ c \in Senders /\ k \in Keys
        BY <1>2, <1>4, <2>1 DEF Finishes
      <4>2. pending_objects' = [pending_objects EXCEPT ![c][k] = NoPending] BY <2>1, <4>1
      <4>3. NoPending \in Pending BY DEF Pending, NoPending
      <4>4. pending_objects' \in [Senders -> [Keys -> Pending]] BY <1>0, <4>1, <4>2, <4>3 DEF SenderData
      <4> QED BY <1>0, <4>1, <4>2, <4>4 DEF SenderData, HeldKeys
    <3> QED BY <1>0, <2>1, <3>1, PendingStep DEF callerVars, SenderData
  <2>3. PICK o \in Operations : /\ o = [op EXCEPT !.kind = "finish_recheck"] /\ o.kind = "finish_recheck"
                                /\ o.c = op.c /\ o.open = op.open /\ live'[o.c]
    BY <1>2, <2>1 DEF Operations, Finishes, callerVars
  <2>4. OperationKept'
    BY <1>0, <1>2, <2>1, <2>3, ScanStarts DEF Finishes, FinishSound, Opens, streamVars, OperationSound
  <2> QED BY <2>2, <2>4 DEF SenderInv
<1>8. CASE FinishRecheck
  <2>1. Observed("finish_recheck") /\ UNCHANGED <<callerVars, eventVars, streamVars, pastVars>>
    BY <1>8 DEF FinishRecheck
  <2>2. CASE is_closed(op.c, Finishing[1])
    <3>1. CloseSubgroup(op.c, Finishing[1]) /\ FinishNext BY <1>8, <2>2 DEF FinishRecheck
    <3>2. op.open # {} BY <1>0, <2>1 DEF FinishSound, Observed
    <3>3. OperationKept' BY <2>1, <3>1, <3>2, FinishNextStep DEF Observed, callerVars, streamVars
    <3>4. StreamsKept'
      BY <1>0, <1>2, <1>4, <2>1, <3>1, <3>2, CloseStep DEF callerVars, eventVars, streamVars, SenderData
    <3> QED BY <3>3, <3>4 DEF SenderInv
  <2>3. CASE ~is_closed(op.c, Finishing[1])
    <3>1. SessionFails /\ UNCHANGED senderVars BY <1>8, <2>3 DEF FinishRecheck
    <3> QED BY <1>0, <2>1, <3>1, ControlStep, DoneStep DEF SenderInv, keptVars, callerVars, SenderData
  <2> QED BY <2>2, <2>3
<1>9. CASE FinishEnd
  <2>1. /\ phase = "finish" /\ op.open = {} /\ OperationDone
        /\ streams' = [streams EXCEPT ![op.c] = [k \in Keys |-> 0]]
        /\ stream_keys' = [stream_keys EXCEPT ![op.c] = [i \in StreamIds |-> NoKey]]
        /\ pending_objects' = [pending_objects EXCEPT ![op.c] = [k \in Keys |-> NoPending]]
        /\ live' = [live EXCEPT ![op.c] = ~op.ends]
        /\ UNCHANGED <<last_object_id, closed_subgroups, peer_stopped_subgroups,
             completion_history_exhausted, eventVars, streamVars, pastVars>>
    BY <1>9 DEF FinishEnd
  <2>2. \A k \in Keys : streams[op.c][k] = 0 BY <1>0, <2>1 DEF FinishSound, OpenStreams
  <2>3. \A i \in StreamIds : stream_keys[op.c][i] = NoKey
    BY <1>0, <1>2, <2>1, <2>2, SenderAssumption DEF HeldKeys, SenderData, StreamIds
  <2>4. UNCHANGED <<streams, stream_keys>> BY <1>0, <1>2, <2>1, <2>2, <2>3 DEF SenderData
  <2>5. /\ pending_objects' \in [Senders -> [Keys -> Pending]]
        /\ \A c \in Senders, k \in Keys : pending_objects'[c][k] # NoPending => streams[c][k] # 0
    BY <1>0, <2>1 DEF SenderData, HeldKeys, Pending, NoPending
  <2>6. live' \in [Senders -> BOOLEAN] /\ \A c \in Senders : live'[c] => live[c]
    BY <1>0, <1>2, <2>1 DEF SenderData
  <2> QED BY <1>0, <2>1, <2>4, <2>5, <2>6, PendingStep, DoneStep DEF SenderInv
<1> QED BY <1>1, <1>3, <1>5, <1>6, <1>7, <1>8, <1>9 DEF FinishStep

LEMMA UpdateSteps == ASSUME SenderInv, UpdateStep PROVE SenderInv'
<1>0. StreamsKept /\ SenderData /\ HeldStreams /\ HeldKeys /\ OperationSound /\ ScanSound /\ FinishSound
  BY DEF SenderInv, OperationKept, StreamsKept
<1>1. ASSUME NEW c \in Senders, NEW location, NEW fwd, RequestUpdate(c, location, fwd) PROVE SenderInv'
  <2>1. /\ Discard(c) /\ phase = "idle" /\ UNCHANGED opVars
        /\ UNCHANGED <<last_object_id, closed_subgroups, peer_stopped_subgroups,
             completion_history_exhausted, live, eventVars, streamVars, pastVars>>
    BY <1>1 DEF RequestUpdate, ApplyUpdate
  <2>2. StreamsKept' BY <1>0, <2>1, DiscardStep DEF pastVars
  <2>3. OperationKept' BY <1>0, <2>1, RestStep DEF OperationSound, Resting, opVars
  <2> QED BY <2>2, <2>3 DEF SenderInv
<1>2. ASSUME NEW c \in Senders, NEW o \in Operations, o.c = c, live[c], Observe(o),
             o.kind \in {"renew", "cancel"}, o.kind = "cancel" => o.open = {},
             UNCHANGED <<keptVars, live>>
      PROVE  SenderInv'
  <2>1. OperationKept' BY <1>0, <1>2, ScanStarts DEF keptVars, senderVars, streamVars, Opens
  <2> QED BY <1>0, <1>2, <2>1, ControlStep DEF SenderInv, SenderData
<1>3. ASSUME NEW c \in Senders, NEW location, NEW fwd, RequestRenewal(c, location, fwd) PROVE SenderInv'
  <2>1. [kind |-> "renew", c |-> c] \in Operations BY DEF Operations
  <2> QED BY <1>2, <1>3, <2>1 DEF RequestRenewal, Renew, ApplyUpdate, keptVars
<1>4. ASSUME NEW c \in Senders, StallCancel(c) PROVE SenderInv'
  <2>1. [kind |-> "cancel", c |-> c, open |-> {}, ok |-> TRUE] \in Operations BY DEF Operations
  <2> QED BY <1>2, <1>4, <2>1 DEF StallCancel, callerVars, keptVars
<1>5. ASSUME NEW c \in Senders, Complete(c) PROVE SenderInv'
  <2>1. /\ live' = [live EXCEPT ![c] = FALSE] /\ UNCHANGED <<keptVars, opVars>> /\ phase = "idle"
    BY <1>5 DEF Complete, keptVars
  <2>2. OperationKept' BY <1>0, <2>1, RestStep DEF OperationSound, Resting, opVars
  <2> QED BY <1>0, <2>1, <2>2, ControlStep DEF SenderInv, SenderData
<1>6. CASE RenewEnd
  <2>1. /\ op \in Operations /\ live[op.c] /\ op.c \in Senders /\ op.kind = "renew"
        /\ todo = {} /\ changed = {}
    BY <1>0, <1>6, OperationTypes DEF RenewEnd, Observed, OperationSound, Resting
  <2>2. /\ Discard(op.c) /\ OperationDone
        /\ peer_stopped_subgroups' = [peer_stopped_subgroups EXCEPT ![op.c] = {}]
        /\ renewals' = [renewals EXCEPT ![op.c] = @ + 1]
        /\ UNCHANGED <<last_object_id, closed_subgroups, completion_history_exhausted, live, eventVars,
             streamVars, expired_ever, stopped_ever, stopped_at>>
    BY <1>6 DEF RenewEnd, callerVars
  <2>3. StreamsKept' BY <1>0, <2>1, <2>2, DiscardStep DEF ScanSound
  <2> QED BY <1>0, <2>2, <2>3, DoneStep DEF SenderInv
<1>7. Observed("cancel") \/ phase = "cancel" =>
          /\ phase \notin Resting /\ op.c \in Senders /\ live[op.c] /\ op.kind = "cancel"
          /\ op \in [kind : {"cancel"}, c : Senders, open : SUBSET (Keys \X StreamIds), ok : BOOLEAN]
  BY <1>0, OperationTypes DEF OperationSound, Observed, Resting
<1>8. ASSUME NEW S \in SUBSET (Keys \X StreamIds), NEW b \in BOOLEAN,
             op' = [op EXCEPT !.open = S, !.ok = b], phase' = "cancel", Observed("cancel") \/ phase = "cancel",
             UNCHANGED <<todo, changed, saw_expired, live, opened>>,
             \A p \in S : p[2] \in OpenedIds /\ OwnedBy(p[2], op.c, p[1]) /\ LastOfKey(p[2])
      PROVE  OperationKept'
  <2>1. /\ op' \in [kind : {"cancel"}, c : Senders, open : SUBSET (Keys \X StreamIds), ok : BOOLEAN]
        /\ op'.c = op.c /\ op'.open = S /\ op'.kind = "cancel" /\ live[op.c]
    BY <1>7, <1>8
  <2>2. OperationSound' /\ ScanSound'
    BY <1>0, <1>8, <2>1 DEF OperationSound, ScanSound, Resting, Scanning, Operations
  <2>3. FinishSound' BY <1>8, <2>1 DEF FinishSound, OpenedIds, OwnedBy, LastOfKey
  <2> QED BY <2>2, <2>3 DEF OperationKept
<1>9. CASE CancelBegin
  <2>1. /\ Observed("cancel") /\ op' = [op EXCEPT !.open = OpenStreams(op.c)] /\ phase' = "cancel"
        /\ UNCHANGED <<todo, changed, saw_expired, keptVars, live>>
    BY <1>9 DEF CancelBegin, keptVars, callerVars
  <2>2. op' = [op EXCEPT !.open = OpenStreams(op.c), !.ok = op.ok] /\ op.ok \in BOOLEAN BY <1>7, <2>1
  <2>3. OperationKept' BY <1>0, <1>7, <1>8, <2>1, <2>2, HeldOpen DEF keptVars, streamVars
  <2> QED BY <1>0, <2>1, <2>3, ControlStep DEF SenderInv, SenderData
<1>10. CASE CancelNext
  <2>1. /\ phase = "cancel" /\ op.open # {} /\ CloseSubgroup(op.c, Finishing[1]) /\ phase' = "cancel"
        /\ reset' = reset \cup {Finishing[2]}
        /\ op' = [op EXCEPT !.open = @ \ {Finishing}, !.ok = @ /\ Finishing[1] \in closed_subgroups'[op.c]]
        /\ UNCHANGED <<todo, changed, saw_expired, live, expired, peer_stopped, opened, written, finished, pastVars>>
    BY <1>10 DEF CancelNext, callerVars, eventVars
  <2>2. /\ Finishing \in op.open /\ Finishing[1] \in Keys /\ Finishing[2] \in OpenedIds
        /\ Finishing[2] \in StreamIds /\ Finishing[2] # 0
        /\ OwnedBy(Finishing[2], op.c, Finishing[1]) /\ LastOfKey(Finishing[2])
    BY <1>0, <1>7, <2>1, FirstOpenIn, OpenedTypes DEF Finishing, FinishSound, Opens
  <2>3. PICK b \in BOOLEAN : op' = [op EXCEPT !.open = op.open \ {Finishing}, !.ok = b]
    <3>1. CASE op.ok /\ Finishing[1] \in closed_subgroups'[op.c] BY <1>7, <2>1, <3>1
    <3>2. CASE ~(op.ok /\ Finishing[1] \in closed_subgroups'[op.c]) BY <1>7, <2>1, <3>2
    <3> QED BY <3>1, <3>2
  <2>4. OperationKept'
    <3>1. \A p \in op.open \ {Finishing} : p[2] \in OpenedIds /\ OwnedBy(p[2], op.c, p[1]) /\ LastOfKey(p[2])
      BY <1>0, <1>7, <2>1 DEF FinishSound, Opens
    <3>2. op.open \ {Finishing} \in SUBSET (Keys \X StreamIds) BY <1>7, <2>1
    <3> QED BY <1>8, <2>1, <2>3, <3>1, <3>2
  <2>5. StreamsKept' BY <1>0, <1>7, <2>1, <2>2, CloseStep DEF SenderData
  <2> QED BY <2>4, <2>5 DEF SenderInv
<1>11. CASE CancelEnd
  <2>1. /\ phase = "cancel" /\ UNCHANGED keptVars /\ (OperationDone \/ SessionFails)
        /\ live' = live \/ live' = [live EXCEPT ![op.c] = FALSE]
    BY <1>11 DEF CancelEnd, keptVars
  <2>2. live' \in [Senders -> BOOLEAN] /\ \A c \in Senders : live'[c] => live[c]
    BY <1>0, <2>1 DEF SenderData
  <2> QED BY <1>0, <2>1, <2>2, ControlStep, DoneStep DEF SenderInv
<1> QED BY <1>1, <1>3, <1>4, <1>5, <1>6, <1>9, <1>10, <1>11 DEF UpdateStep

LEMMA DispatchSteps == ASSUME SenderInv, DispatchStep PROVE SenderInv'
<1>0. StreamsKept /\ SenderData /\ OperationSound BY DEF SenderInv, OperationKept, StreamsKept
<1>1. /\ expired \subseteq StreamIds /\ peer_stopped \subseteq StreamIds
      /\ op = Idle /\ todo \subseteq StreamIds /\ changed \subseteq StreamIds /\ saw_expired \in BOOLEAN
  BY <1>0 DEF SenderData, OperationSound, Resting, DispatchStep, Dispatch, DispatchExpiry, DispatchStops,
     DispatchStop, DispatchEnd
<1>2. CASE Dispatch \/ DispatchStops
  <2>1. UNCHANGED <<keptVars, live>> BY <1>2 DEF Dispatch, DispatchStops, keptVars, callerVars
  <2>2. OperationKept'
    BY <1>0, <1>1, <1>2, RestStep DEF Dispatch, DispatchStops, Resting, SenderData, pastVars
  <2> QED BY <1>0, <2>1, <2>2, ControlStep DEF SenderInv, SenderData
<1>3. CASE DispatchExpiry
  <2>1. PICK i \in StreamIds :
          /\ RetireOwned(i, FALSE, TRUE) /\ expired' = expired \ {i} /\ todo' = todo \ {i}
          /\ phase = "expiry" /\ UNCHANGED <<phase, op, changed, saw_expired, live, peer_stopped, streamVars, pastVars>>
    BY <1>1, <1>3, LeastIn DEF DispatchExpiry, callerVars
  <2>2. StreamsKept' BY <1>0, <2>1, RetireOwnedStep
  <2>3. OperationKept' BY <1>1, <2>1, RestStep DEF Resting
  <2> QED BY <2>2, <2>3 DEF SenderInv
<1>4. CASE DispatchStop
  <2>1. PICK i \in todo :
          /\ RetireOwned(i, TRUE, i \in expired) /\ peer_stopped' = peer_stopped \ {i} /\ todo' = todo \ {i}
          /\ phase = "stops" /\ UNCHANGED <<phase, op, changed, saw_expired, live, expired, streamVars, pastVars>>
    BY <1>1, <1>4, LeastIn DEF DispatchStop, callerVars
  <2>2. i \in StreamIds /\ i \in stopped_ever BY <1>0, <1>1, <2>1 DEF OperationSound
  <2>3. StreamsKept'
    <3>1. CASE i \in expired
      <4>1. RetireOwned(i, TRUE, TRUE) /\ TRUE = (i \in expired)
        BY <2>1, <3>1 DEF RetireOwned, Retire, Renewable
      <4> QED BY <1>0, <2>1, <2>2, <4>1, RetireOwnedStep
    <3>2. CASE i \notin expired
      <4>1. RetireOwned(i, TRUE, FALSE) /\ FALSE = (i \in expired)
        BY <2>1, <3>2 DEF RetireOwned, Retire, Renewable
      <4> QED BY <1>0, <2>1, <2>2, <4>1, RetireOwnedStep
    <3> QED BY <3>1, <3>2
  <2>4. OperationKept' BY <1>0, <1>1, <2>1, RestStep DEF Resting, pastVars, OperationSound
  <2> QED BY <2>3, <2>4 DEF SenderInv
<1>5. CASE DispatchEnd
  <2>1. UNCHANGED <<keptVars, live>> /\ (OperationDone \/ SessionFails)
    BY <1>5 DEF DispatchEnd, keptVars, callerVars
  <2> QED BY <1>0, <2>1, ControlStep, DoneStep DEF SenderInv, SenderData
<1> QED BY <1>2, <1>3, <1>4, <1>5 DEF DispatchStep

LEMMA SenderStarts == ASSUME SenderInit PROVE SenderInv
<1>1. OpenedIds = {} BY DEF SenderInit, OpenedIds
<1>2. SenderData BY SenderAssumption DEF SenderInit, SenderData, Pending, NoPending, Used
<1>3. HeldStreams /\ HeldKeys /\ EndsRecorded /\ StopsRecorded /\ ReopenOnlyAfterRenewal
  BY <1>1 DEF SenderInit, HeldStreams, HeldKeys, EndsRecorded, StopsRecorded, ReopenOnlyAfterRenewal
<1>4. OperationKept
  BY DEF SenderInit, OperationKept, OperationSound, ScanSound, FinishSound, Resting, Scanning, Idle, Opens
<1> QED BY <1>2, <1>3, <1>4 DEF SenderInv, StreamsKept

\* The inductive invariant of the sender: all bookkeeping of try_serve,
\* finish_group, cancel_all_open_subgroups, discard_unadmitted, renewals and the
\* dispatch of transport events agrees with what became of the streams.
THEOREM SenderInvariance == SenderSpec => []SenderInv
<1>1. SenderInv /\ [SenderNext]_subgroupVars => SenderInv'
  <2> SUFFICES ASSUME SenderInv, [SenderNext]_subgroupVars PROVE SenderInv' OBVIOUS
  <2>1. CASE UNCHANGED subgroupVars
    <3>1. UNCHANGED <<keptVars, live, opVars, senderVars, streamVars, pastVars>>
      BY <2>1 DEF subgroupVars, keptVars, callerVars
    <3>2. StreamsKept' BY <3>1, ControlStep DEF SenderInv, StreamsKept, SenderData
    <3>3. OperationKept'
      BY <3>1 DEF SenderInv, OperationKept, OperationSound, ScanSound, FinishSound, Scanning, OpenStreams,
         OpenedIds, OwnedBy, LastOfKey, opVars, senderVars, streamVars, pastVars
    <3> QED BY <3>2, <3>3 DEF SenderInv
  <2>2. CASE SenderNext
    BY <2>1, <2>2, ServeSteps, FinishSteps, UpdateSteps, DispatchSteps, ObserveSteps, TransportSteps DEF
       SenderNext, SenderTerminated
  <2> QED BY <2>1, <2>2
<1> QED BY <1>1, SenderStarts, PTL DEF SenderSpec

\* retire_transport_stream() and renew_peer_stopped_subgroups(): a subgroup is
\* reopened only if its stream was stopped, nothing else ended it, and a renewal
\* followed; and a completed renewal leaves no earlier stop on record.
THEOREM RenewalIsSound == SenderSpec => []RenewalSound
<1>1. SenderInv => RenewalSound BY DEF SenderInv, StreamsKept, StopsRecorded, RenewalSound, RenewalReopens
<1> QED BY <1>1, SenderInvariance, PTL

\* try_serve() relies on it: the stream of a subgroup in streams_ was neither
\* finished nor reset, and if the transport or the peer ended it, that event is
\* still queued; an object that waits has a stream.
THEOREM OpenStreamsStayUsable == SenderSpec => []OpenStreamsAreUsable
<1>1. SenderInv => OpenStreamsAreUsable
  BY DEF SenderInv, StreamsKept, HeldStreams, HeldKeys, HeldStream, OpenStreamsAreUsable
<1> QED BY <1>1, SenderInvariance, PTL
=============================================================================
