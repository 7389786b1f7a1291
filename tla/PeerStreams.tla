---------------------------- MODULE PeerStreams ----------------------------
(* The receiving side of both transports, PicoquicClient and
   WebTransportClient: connect(), the callbacks that store what the peer
   sends, open_stream(), accept_stream(), read_stream() and close(); and
   the session's PeerUnidirectionalStreams::poll (moqt_session.cpp), which
   takes the peer's unidirectional streams from them.

   The packet loop and the session thread meet under impl.mutex: a step is
   one holding of it.  A byte is its position in its stream.  A stream
   begins with a type of typeSize bytes, which the draft knows or not. *)
EXTENDS Integers, Sequences, FiniteSets, SequencesExt, FiniteSetsExt

CONSTANTS PeerUni,     \* ids of the peer's unidirectional streams
          Request,     \* a bidirectional stream the session may open
          Media,       \* a unidirectional one
          ConnectId,   \* control_stream_ctx: the CONNECT stream of HTTP/3
          StreamScenarios,  \* [http3, uni, own, events]: the client, the peer's
                       \* streams, the session's stream and what may happen to them
          Types,       \* types of a stream: [size, known]
          MaxBytes,    \* bound: bytes the peer sends on a stream
          PrefixLimit  \* bytes of a type at most (9)

\* events is a subset of {"reset", "stop", "datagram", "connect", "exit"}. Stream
\* ids of the peer's unidirectional streams end in 2 or 3, those of this side
\* differ.
ASSUME StreamsAssumption ==
  /\ PeerUni \subseteq Nat \ {0} /\ IsFiniteSet(PeerUni)
  /\ {Request, Media, ConnectId} \subseteq Nat \ PeerUni
  /\ Request # Media /\ Request # ConnectId /\ Media # ConnectId
  /\ MaxBytes \in Nat /\ PrefixLimit \in Nat
  /\ Types \subseteq [size : 1..PrefixLimit, known : BOOLEAN]
  /\ StreamScenarios \subseteq [http3 : BOOLEAN, uni : SUBSET PeerUni,
                              own : {Request, Media}, events : SUBSET STRING]

VARIABLES streams,   \* the streams of this behaviour
          types,     \* of each stream: its size and whether it is known
          conn,      \* flags of Impl, and state_
          received,  \* received_streams
          accepted,  \* accepted_streams
          open,      \* an open_stream() of the session and application_streams
          peer,      \* what the peer has sent
          session,   \* poll() and what the session has read
          closer     \* close(), called by the session or by disconnect()

peerVars == <<streams, types, conn, received, accepted, open, peer, session, closer>>

http3 == streams.http3
May(event) == event \in streams.events
Streams == PeerUni \cup {Request}

PeerInit ==
  /\ streams \in StreamScenarios
  /\ types \in [streams.uni -> Types]
  /\ conn = [loop |-> "starting", up |-> TRUE, connected |-> FALSE, failed |-> FALSE,
             disconnected |-> FALSE, close |-> FALSE, protocol |-> FALSE,
             told |-> FALSE, state |-> "connecting"]
  /\ received = <<>> /\ accepted = {}
  /\ open = [id |-> streams.own, call |-> "none", record |-> "none", streams |-> {}]
  /\ peer = [sent |-> [s \in Streams |-> 0], end |-> [s \in Streams |-> "open"],
             stop |-> FALSE, closed |-> FALSE]
  /\ session = [pc |-> "accept", todo |-> {}, streams |-> <<>>, order |-> <<>>,
                taken |-> [s \in Streams |-> <<>>], fins |-> {}, fault |-> 0, why |-> "none"]
  /\ closer = "none"

LoopRuns == conn.loop = "ready"

\* Callbacks come while picoquic's connection is up.
Callbacks == LoopRuns /\ conn.up

\* Bound: nothing comes once the session, which reads no more, is over.
Heard == Callbacks /\ conn.connected /\ session.pc # "over"

-----------------------------------------------------------------------------
(* connect(). *)

LoopReady ==
  /\ conn.loop = "starting"
  /\ conn' = [conn EXCEPT !.loop = "ready"]
  /\ UNCHANGED <<streams, types, received, accepted, open, peer, session, closer>>

\* picoquic_callback_ready: the peer must take datagrams.
QuicReady(datagrams) ==
  /\ ~http3 /\ Callbacks /\ ~conn.connected
  /\ conn' = IF datagrams THEN [conn EXCEPT !.connected = TRUE]
             ELSE [conn EXCEPT !.failed = TRUE]

\* The CONNECT is accepted, as a callback says or, later, its stream's header.
ConnectAccepted ==
  /\ http3 /\ Callbacks /\ ~conn.connected
  /\ conn' = [conn EXCEPT !.connected = TRUE]

ConnectRefused ==
  /\ http3 /\ Callbacks /\ ~conn.connected
  /\ conn' = [conn EXCEPT !.failed = TRUE]

Handshake ==
  /\ (\E datagrams \in BOOLEAN : QuicReady(datagrams)) \/ ConnectAccepted \/ ConnectRefused
  /\ UNCHANGED <<streams, types, received, accepted, open, peer, session, closer>>

\* connect() over QUIC: one wait, and what it returns.
QuicConnected(timeout) ==
  LET c == IF timeout THEN [conn EXCEPT !.failed = TRUE] ELSE conn
      over == c.failed \/ c.disconnected \/ c.loop = "exited"
  IN  /\ over \/ (c.loop = "ready" /\ c.connected)
      /\ conn' = [c EXCEPT !.state = IF c.connected /\ ~c.failed /\ ~c.disconnected
                                     THEN "connected" ELSE "failed"]

\* connect() over HTTP/3: a wait for the loop, a wait for the CONNECT.
Http3Connected(timeout) ==
  LET c == IF timeout THEN [conn EXCEPT !.failed = TRUE] ELSE conn
      over == c.failed \/ c.disconnected \/ c.loop = "exited"
  IN  /\ over \/ (c.loop = "ready" /\ c.connected)
      /\ conn' = [c EXCEPT !.state = IF over \/ ~c.connected THEN "failed" ELSE "connected"]

Connect ==
  /\ conn.state = "connecting"
  /\ \E timeout \in BOOLEAN : IF http3 THEN Http3Connected(timeout) ELSE QuicConnected(timeout)
  /\ UNCHANGED <<streams, types, received, accepted, open, peer, session, closer>>

-----------------------------------------------------------------------------
(* What the peer sends. *)

With(f, s, v) == [r \in DOMAIN f \cup {s} |-> IF r = s THEN v ELSE f[r]]

NoData == [bytes |-> <<>>, fin |-> FALSE]
Received(s) == IF s \in DOMAIN received THEN received[s] ELSE NoData
Store(s, data) == With(received, s, data)

\* received_streams after n bytes and perhaps a FIN, also for an entry that
\* read_stream() erased.
Stored(s, n, fin) ==
  Store(s, [bytes |-> Received(s).bytes \o [i \in 1..n |-> peer.sent[s] + i],
            fin |-> Received(s).fin \/ fin])

Sends(s) == s \in streams.uni \cup open.streams /\ peer.end[s] = "open"

\* picoquic_callback_stream_data and _stream_fin, picohttp_callback_post_data
\* and _post_fin.
StreamData ==
  /\ Heard
  /\ \E s \in Streams, n \in 0..MaxBytes, fin \in BOOLEAN :
       /\ Sends(s) /\ n + peer.sent[s] <= MaxBytes /\ (n > 0 \/ fin)
       /\ received' = Stored(s, n, fin)
       /\ peer' = [peer EXCEPT !.sent[s] = @ + n, !.end[s] = IF fin THEN "fin" ELSE @]
  /\ UNCHANGED <<streams, types, conn, accepted, open, session, closer>>

\* A reset is a FIN to the readers of HTTP/3; those of QUIC have to ask.
Reset(s) == IF http3 THEN Store(s, [Received(s) EXCEPT !.fin = TRUE]) ELSE received

StreamReset ==
  /\ Heard /\ May("reset")
  /\ \E s \in Streams :
       /\ Sends(s) /\ peer.sent[s] > 0
       /\ received' = Reset(s)
       /\ peer' = [peer EXCEPT !.end[s] = "reset"]
  /\ UNCHANGED <<streams, types, conn, accepted, open, session, closer>>

\* STOP_SENDING on a stream of the session. HTTP/3 readers take it for a FIN too.
StopSending ==
  /\ Heard /\ May("stop") /\ open.streams # {} /\ ~peer.stop
  /\ received' = IF http3 THEN Store(open.id, [Received(open.id) EXCEPT !.fin = TRUE])
                 ELSE received
  /\ peer' = [peer EXCEPT !.stop = TRUE]
  /\ UNCHANGED <<streams, types, conn, accepted, open, session, closer>>

\* A datagram the draft does not allow: QUIC closes at once, ...
QuicDatagram ==
  /\ ~http3
  /\ conn' = [conn EXCEPT !.failed = TRUE]
  /\ UNCHANGED open

\* ... HTTP/3 fails what waits and ends the session with a capsule.
Http3Datagram ==
  /\ http3 /\ ~conn.failed /\ ~conn.close
  /\ conn' = [conn EXCEPT !.failed = TRUE, !.protocol = TRUE, !.close = TRUE]
  /\ open' = IF open.record = "pending" THEN [open EXCEPT !.record = "failed"] ELSE open

InvalidDatagram ==
  /\ Heard /\ May("datagram") /\ ~conn.failed
  /\ QuicDatagram \/ Http3Datagram
  /\ UNCHANGED <<streams, types, received, accepted, peer, session, closer>>

\* note_peer_close(), and the same in picoquic_callback_close.
Noted(c) == IF c.close THEN c ELSE [c EXCEPT !.told = TRUE]

\* The CONNECT stream carries a close capsule, whose bytes are stored as well,
\* or a FIN.
ConnectStreamEnds ==
  /\ http3 /\ Heard /\ May("connect")
  /\ \E capsule \in BOOLEAN :
       conn' = [(IF capsule THEN Noted(conn) ELSE conn) EXCEPT !.disconnected = TRUE]
  /\ received' = Store(ConnectId, [bytes |-> <<>>, fin |-> TRUE])
  /\ peer' = [peer EXCEPT !.closed = TRUE]
  /\ UNCHANGED <<streams, types, accepted, open, session, closer>>

\* The connection is over for picoquic: closed by the peer, from here or idle.
QuicClosed(c) ==
  [c EXCEPT !.up = FALSE, !.disconnected = TRUE, !.failed = @ \/ ~c.connected]

\* webtransport_connection_callback and, from h3zero, picohttp_callback_deregister:
\* a CONNECT that was answered, established, counts as connected.
Http3Closed(c, established) ==
  [c EXCEPT !.up = FALSE, !.disconnected = TRUE, !.connected = @ \/ established]

ConnectionCloses ==
  /\ Callbacks
  /\ \E byPeer, established \in BOOLEAN :
       LET c == IF byPeer THEN Noted(conn) ELSE conn
       IN  /\ conn' = IF http3 THEN Http3Closed(c, established) ELSE QuicClosed(c)
           /\ peer' = [peer EXCEPT !.closed = @ \/ byPeer]
  /\ UNCHANGED <<streams, types, received, accepted, open, session, closer>>

\* picoquic_packet_loop() returns: disconnected, failed, or by an error.
LoopExits ==
  /\ conn.loop # "exited"
  /\ ~conn.up \/ (conn.failed /\ http3 /\ ~conn.protocol) \/ May("exit")
  /\ conn' = [conn EXCEPT !.loop = "exited",
                !.failed = @ \/ (~conn.disconnected /\
                                 (IF http3 THEN conn.loop # "ready" ELSE ~conn.connected))]
  /\ UNCHANGED <<streams, types, received, accepted, open, peer, session, closer>>

-----------------------------------------------------------------------------
(* open_stream(): QUIC counts ids, HTTP/3 leaves it to the packet loop. *)

Usable == conn.state = "connected"

OpenStream ==
  /\ Usable /\ open.call = "none"
  /\ open' = CASE ~http3 -> [open EXCEPT !.call = "ok", !.streams = {open.id}]
               [] http3 /\ conn.failed -> [open EXCEPT !.call = "failed"]
               [] OTHER -> [open EXCEPT !.call = "waits", !.record = "pending"]
  /\ UNCHANGED <<streams, types, conn, received, accepted, peer, session, closer>>

\* apply_pending_writes() creates the stream or cannot; a caller that gave up
\* left its record in pending_opens.
LoopOpens ==
  /\ LoopRuns /\ open.record = "pending" /\ (~conn.failed \/ conn.protocol)
  /\ \E created \in BOOLEAN :
       open' = IF created THEN [open EXCEPT !.record = "done", !.streams = {open.id}]
               ELSE [open EXCEPT !.record = "failed"]
  /\ UNCHANGED <<streams, types, conn, received, accepted, peer, session, closer>>

OpenReturns ==
  /\ open.call = "waits"
  /\ \E timeout \in BOOLEAN :
       /\ timeout \/ open.record # "pending" \/ conn.failed \/ conn.disconnected
       /\ open' = [open EXCEPT !.call =
                     IF open.record = "done" /\ ~conn.failed /\ ~conn.disconnected
                     THEN "ok" ELSE "failed"]
  /\ UNCHANGED <<streams, types, conn, received, accepted, peer, session, closer>>

-----------------------------------------------------------------------------
(* accept_stream() and read_stream(), without waiting. *)

ConnectionOver == conn.failed \/ conn.close \/ conn.disconnected

\* closed_message(): who is blamed.
Blamed == IF conn.told /\ ~conn.close THEN "peer" ELSE "close"

\* Peer-initiated streams by their id.
QuicCandidates == (DOMAIN received \cap PeerUni) \ accepted

\* Mutant: the session's own streams are not left out.
Http3CandidatesMutant == (DOMAIN received \cap (PeerUni \cup {Media})) \ accepted

\* Unidirectional streams that this side did not open.
Http3Candidates == (DOMAIN received \cap (PeerUni \cup {Media})) \ (open.streams \cup accepted)

Candidates == IF http3 THEN Http3Candidates ELSE QuicCandidates

\* read_stream() of QUIC hands out what it has, ...
QuicReadable(s) == s \in DOMAIN received

\* ... that of HTTP/3 not after a failure.
Http3Readable(s) == s \in DOMAIN received /\ ~conn.failed

Readable(s) == IF http3 THEN Http3Readable(s) ELSE QuicReadable(s)

\* The chunk is moved out and its entry erased.
Took(x, s) ==
  [x EXCEPT !.taken[s] = @ \o received[s].bytes,
            !.fins = IF received[s].fin THEN @ \cup {s} ELSE @]

Erased(s) == [r \in DOMAIN received \ {s} |-> received[r]]

Fails(failed) ==
  [session EXCEPT !.pc = "over", !.why = IF ~Usable \/ failed THEN "error" ELSE Blamed]

-----------------------------------------------------------------------------
(* PeerUnidirectionalStreams::poll. *)

PollAccept ==
  /\ conn.state # "connecting" /\ session.pc = "accept"
  /\ CASE ~Usable \/ ConnectionOver -> session' = Fails(conn.failed) /\ UNCHANGED accepted
       [] Usable /\ ~ConnectionOver /\ Candidates # {} ->
            LET s == Min(Candidates)
            IN  /\ accepted' = accepted \cup {s}
                /\ session' = [session EXCEPT !.order = Append(@, s),
                                 !.streams = With(@, s, [prefix |-> 0, typed |-> FALSE])]
       [] OTHER -> /\ session' = [session EXCEPT !.pc = "read", !.todo = DOMAIN session.streams]
                   /\ UNCHANGED accepted
  /\ UNCHANGED <<streams, types, conn, received, open, peer, closer>>

\* The type, once its bytes are there.
Judged(s, prefix, fin) ==
  IF prefix >= types[s].size THEN IF types[s].known THEN "typed" ELSE "unknown"
  ELSE IF fin THEN "truncated" ELSE "more"

\* A chunk of s in the session's state.
Polled(s) ==
  LET state == session.streams[s]
      data == received[s]
      prefix == Min({PrefixLimit, state.prefix + Len(data.bytes)})
      verdict == IF state.typed THEN "typed" ELSE Judged(s, prefix, data.fin)
      x == Took(session, s)
  IN  CASE verdict \in {"unknown", "truncated"} -> [x EXCEPT !.pc = "over", !.fault = s]
        [] verdict \in {"typed", "more"} /\ data.fin ->
             [x EXCEPT !.todo = @ \ {s},
                       !.streams = [r \in DOMAIN @ \ {s} |-> @[r]]]
        [] OTHER ->
             [x EXCEPT !.streams[s] = [prefix |-> prefix, typed |-> verdict = "typed"],
                       !.todo = IF data.bytes = <<>> THEN @ \ {s} ELSE @]

\* read_stream() has nothing to hand out and never will, ...
ReadOver(s) == ~Usable \/ (http3 /\ conn.failed) \/ (~Readable(s) /\ ConnectionOver)

\* ... and reports an error: over QUIC only if nothing was closed.
ReadFailed == conn.failed /\ (http3 \/ ~(conn.close \/ conn.disconnected))

PollRead ==
  /\ session.pc = "read"
  /\ IF session.todo = {}
     THEN session' = [session EXCEPT !.pc = "accept"] /\ UNCHANGED <<received, conn>>
     ELSE LET s == Min(session.todo)
          IN  CASE ReadOver(s) -> session' = Fails(ReadFailed) /\ UNCHANGED <<received, conn>>
                [] Usable /\ Readable(s) ->
                     /\ session' = Polled(s) /\ received' = Erased(s)
                     /\ conn' = IF session'.fault # 0 THEN [conn EXCEPT !.close = TRUE] ELSE conn
                [] OTHER -> session' = [session EXCEPT !.todo = @ \ {s}]
                            /\ UNCHANGED <<received, conn>>
  /\ closer' = IF session'.fault # 0 THEN "waits" ELSE closer
  /\ UNCHANGED <<streams, types, accepted, open, peer>>

\* The session reads an answer on its own stream.
ReadRequest ==
  /\ Usable /\ open.id = Request /\ open.call = "ok" /\ Request \notin session.fins /\ session.pc # "over"
  /\ Readable(Request)
  /\ session' = Took(session, Request)
  /\ received' = Erased(Request)
  /\ UNCHANGED <<streams, types, conn, accepted, open, peer, closer>>

-----------------------------------------------------------------------------
(* close(): sets a flag, joins the packet loop and forgets the connection. *)

Close ==
  /\ conn.state # "connecting" /\ closer = "none"
  /\ closer' = "waits"
  /\ conn' = [conn EXCEPT !.close = TRUE]
  /\ UNCHANGED <<streams, types, received, accepted, open, peer, session>>

CloseReturns ==
  /\ closer = "waits" /\ conn.loop = "exited"
  /\ closer' = "returned"
  /\ conn' = [conn EXCEPT !.state = "closed"]
  /\ UNCHANGED <<streams, types, received, accepted, open, peer, session>>

\* state()
Reported ==
  IF conn.state = "connected" /\ conn.disconnected /\ ~conn.close THEN "failed" ELSE conn.state

PeerNext ==
  \/ LoopReady \/ Handshake \/ Connect
  \/ StreamData \/ StreamReset \/ StopSending \/ InvalidDatagram
  \/ ConnectStreamEnds \/ ConnectionCloses \/ LoopExits
  \/ OpenStream \/ LoopOpens \/ OpenReturns
  \/ PollAccept \/ PollRead \/ ReadRequest
  \/ Close \/ CloseReturns

PeerSpec == PeerInit /\ [][PeerNext]_peerVars

-----------------------------------------------------------------------------
(* Properties *)

\* What the session has read of a stream and what is stored of it are the
\* bytes the peer sent, in order and once, however callbacks and reads mix.
BytesOnce ==
  \A s \in Streams :
    session.taken[s] \o Received(s).bytes = [i \in 1..peer.sent[s] |-> i]

\* A FIN is read after the last byte, of a stream that the peer ended, and
\* is not lost: only STOP_SENDING over HTTP/3 reports one that was not sent.
FinsReal ==
  \A s \in Streams :
    LET said == s \in session.fins \/ Received(s).fin
        stopped == http3 /\ s = Request /\ peer.stop
    IN  /\ said /\ ~stopped => peer.end[s] # "open"
        /\ peer.end[s] = "fin" => said
        /\ s \in session.fins /\ ~stopped => Len(session.taken[s]) = peer.sent[s]

\* poll() takes up each stream of the peer once, and none of our own.
AcceptedOnce ==
  /\ \A i, j \in DOMAIN session.order : i # j => session.order[i] # session.order[j]
  /\ ToSet(session.order) = accepted /\ accepted \subseteq PeerUni

\* The session closes for the type of a stream only if that is unknown or was
\* cut off by a FIN or reset, and forgets no stream whose type it did not know.
TypesJudged ==
  LET good(s) == Len(session.taken[s]) >= types[s].size /\ types[s].known
  IN  /\ session.fault # 0 => ~good(session.fault)
      /\ \A s \in ToSet(session.order) :
           s \notin DOMAIN session.streams => good(s)

\* The peer is blamed for an end only if it closed, and a connection is used
\* only after a handshake; what the peer closed, and nobody here, state()
\* calls failed, so that it is retried.
EndsExplained ==
  /\ session.why = "peer" => peer.closed
  /\ conn.state = "connected" => conn.connected
  /\ session.why = "peer" /\ ~conn.close => Reported = "failed"

\* The peer's streams reach the session whole, in order, once and only as
\* they were sent.
ReceiveSound ==
  BytesOnce /\ FinsReal /\ AcceptedOnce /\ TypesJudged /\ EndsExplained
=============================================================================
