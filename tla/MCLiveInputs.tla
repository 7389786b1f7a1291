---------------------------- MODULE MCLiveInputs ----------------------------
(* The two live inputs: a behaviour runs the one part names, the other
   stays as it started.
   dash (LiveDash): uploads on two connections, in the scenarios below.
   queue (LiveMediaQueue): two video tracks, audio and an init segment,
   over a queue of two units of bytes and of time; a start time of 3 ends
   past the word. *)
EXTENDS LiveDash, LiveMediaQueue

VARIABLE part

mcVars == <<part, vars, mediaQueueVars>>

\* Start times of the queue: the last one ends past the word.
QueueTimes == 0..3

-----------------------------------------------------------------------------
(* Uploads and scenarios of the DASH ingest. *)

Moov(ts) == [NoBox EXCEPT !.type = "moov", !.tracks = ts]
VideoTrack(n) == [name |-> n, video |-> TRUE]
AudioTrack(n) == [name |-> n, video |-> FALSE]
Moof(t, v, time, k) == [NoBox EXCEPT !.type = "moof", !.track = t, !.video = v, !.time = time, !.key = k]
Mdat == [NoBox EXCEPT !.type = "mdat"]
Bad(box) == [box EXCEPT !.bad = TRUE]
Token(t) == [NoBox EXCEPT !.type = t]
U(p, h, w) == [path |-> p, http |-> h, wire |-> w]
F(t, v, time, k) == <<Moof(t, v, time, k), Mdat>>
\* Two renditions whose keyframes are at the same times, and audio.
High == <<Moov({VideoTrack("high")})>> \o F("high", TRUE, 1, TRUE) \o F("high", TRUE, 3, TRUE)
Low == <<Token("ftyp"), Moov({VideoTrack("low")})>> \o F("low", TRUE, 1, TRUE) \o F("low", TRUE, 2, FALSE)
Sound == <<Moov({AudioTrack("sound")})>> \o F("sound", FALSE, 1, FALSE) \o F("sound", FALSE, 2, FALSE)
Wide == <<Moov({VideoTrack("wide")})>> \o F("wide", TRUE, 1, TRUE)
Tone == <<Moov({AudioTrack("tone")})>> \o F("tone", FALSE, 1, FALSE)
Gop == <<Moov({VideoTrack("gop")})>> \o F("gop", TRUE, 1, TRUE) \o F("gop", TRUE, 2, FALSE) \o F("gop", TRUE, 3, FALSE)
Chunked(boxes) ==
  FlattenSeq([i \in 1..Len(boxes) |-> <<Token("size"), boxes[i], Token("crlf")>>])
  \o <<Token("last"), Token("crlf")>>
Sc(p, n, m, e, us) == [pack |-> p, depth |-> n, max |-> m, ends |-> e, uploads |-> us]
MCScenarios ==
  {Sc("cmaf", 2, 5, FALSE, <<U("/high", "length", High), U("/low", "length", Low)>>),
   Sc("cmaf", 3, 5, FALSE, <<U("/tone", "length", Tone \o F("tone", FALSE, 2, FALSE)), U("/wide", "length", Wide)>>),
   Sc("locmaf", 1, 0, FALSE, <<U("/high", "length", High), U("/x", "other", <<>>)>>),
   Sc("cmaf", 1, 0, FALSE, <<U("/sound", "chunked", Chunked(Sound))>>),
   Sc("loc", 2, 5, FALSE, <<U("/gop", "length", Gop), U("/tone", "length", Tone)>>),
   Sc("cmaf", 1, 0, TRUE, <<U("/tone", "length", <<Moov({AudioTrack("tone")})>>), U("/x", "chunked", <<Token("crlf")>>)>>)}
-----------------------------------------------------------------------------
Dash(A) == part = "dash" /\ A /\ UNCHANGED <<part, mediaQueueVars>>

MCInit ==
  /\ part \in {"dash", "queue"} /\ Init /\ QueueInit
  /\ part = "queue" => scenario = CHOOSE s \in Scenarios : TRUE

\* The source of the queue may stop producing: only DASH has to go on to its end.
MCNext ==
  \/ Dash(Next)
  \/ part = "queue" /\ QueueNext /\ UNCHANGED <<part, vars>>
  \/ part = "queue" /\ UNCHANGED mcVars

\* The fairness of LiveDash.
MCFairness ==
  /\ WF_mcVars(Dash(AcceptThread)) /\ WF_mcVars(Dash(MonitorStep)) /\ WF_mcVars(Dash(MainThread))
  /\ \A w \in 1..2 : WF_mcVars(Dash(w \in Uploads /\ Worker(w)))

MCSpec == MCInit /\ [][MCNext]_mcVars /\ MCFairness
=============================================================================
