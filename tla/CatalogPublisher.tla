------------------------- MODULE CatalogPublisher -------------------------
(* CatalogPublisher (msf_catalog.cpp): the catalog track of a broadcast.
   publish() sends a full, independent catalog as object 0 of a new group
   or, when only whole tracks come or go, a delta as the next object of
   the running one.  end_broadcast() runs on another thread; a mutex makes
   every operation atomic.

   A catalog has tracks, by name, each with its attributes and whether it
   refers to the catalog's contentProtections, root stands for its other
   root lists (initDataList, publishTracks), complete for isComplete.  Of
   isLive only the end of the broadcast is kept. *)
EXTENDS Integers, Sequences

CONSTANTS Desired,    \* the catalogs publish() is given
          MaxDeltas,  \* max_deltas_per_group_
          MaxGroup,   \* kMaxGroupId
          Initials,   \* values of set_initial_group_id()
          MaxOps      \* bound: operations

\* publish() is given catalogs of a running broadcast: isComplete is set, and
\* isLive cleared, by make_end_broadcast_catalog() alone.
IsCatalog(c) ==
  /\ c = [tracks |-> c.tracks, protections |-> c.protections, root |-> c.root,
          complete |-> c.complete, live |-> c.live]
  /\ c.tracks = [t \in DOMAIN c.tracks |-> c.tracks[t]]

ASSUME CatalogAssumption ==
  /\ \A c \in Desired : IsCatalog(c) /\ c.live = TRUE /\ c.complete = FALSE
  /\ MaxDeltas \in Nat /\ MaxGroup \in Nat /\ MaxOps \in Nat /\ Initials \subseteq Nat

VARIABLES last,   \* last_, as a sequence of at most one catalog
          next,   \* initial_group_id_, next_group_id_, next_object_id_, deltas_in_group_
          ended,  \* ended_
          out,    \* history: the objects emitted since the last reset()
          joined, \* history: by object of out, what a subscriber that came with it holds
          threw,  \* history: what the last operation threw, or ""
          ops     \* history: operations done

catVars == <<last, next, ended, out, joined, threw, ops>>

EmptyCatalog == [tracks |-> <<>>, protections |-> FALSE, root |-> 0,
                 complete |-> FALSE, live |-> TRUE]

CatalogInit ==
  /\ last = <<>> /\ ended = FALSE /\ out = <<>> /\ joined = <<>>
  /\ threw = "" /\ ops = 0
  /\ next = [initial |-> 0, group |-> 0, object |-> 0, deltas |-> 0]

-----------------------------------------------------------------------------
\* validate_catalog(): a reference needs its entry; validate_track() refuses
\* some attributes.
DanglingRefs(c) == \E t \in DOMAIN c.tracks : c.tracks[t].protected /\ ~c.protections
BadTracks(tracks) == \E t \in DOMAIN tracks : tracks[t].attr = "bad"

Throws(why) == threw' = why /\ UNCHANGED <<last, next, ended, out, joined>>

\* A subscriber replaces its catalog by a full one and applies a delta to it.
Applied(c, o) ==
  LET kept == DOMAIN c.tracks \ o.removed
  IN  [c EXCEPT !.tracks = [t \in kept \cup DOMAIN o.catalog.tracks |->
         IF t \in DOMAIN o.catalog.tracks THEN o.catalog.tracks[t] ELSE c.tracks[t]]]

Receives(c, o) == IF o.full THEN o.catalog ELSE Applied(c, o)

\* Every subscriber gets the object, and one comes with it.
Emit(o) ==
  /\ out' = Append(out, o)
  /\ joined' = [i \in DOMAIN out \cup {Len(out) + 1} |->
                 Receives(IF i \in DOMAIN out THEN joined[i] ELSE EmptyCatalog, o)]

\* emit_independent(): serialised first, so a throw changes nothing.
Independent(c) ==
  IF DanglingRefs(c) \/ BadTracks(c.tracks) \/ next.group > MaxGroup
  THEN Throws("invalid")
  ELSE /\ Emit([group |-> next.group, object |-> 0, full |-> TRUE,
                catalog |-> c, removed |-> {}])
       /\ next' = [next EXCEPT !.group = @ + 1, !.object = 1, !.deltas = 0]
       /\ last' = <<c>> /\ threw' = ""

\* catalogs_equal(): every field that is serialised but generatedAt.
CatalogsEqual(a, b) == a = b

Added(old, new) == DOMAIN new.tracks \ DOMAIN old.tracks
Removed(old, new) == DOMAIN old.tracks \ DOMAIN new.tracks

\* Mutant: an attribute of a track that stays may change in a delta.
DeltaSufficesMutant(old, new) ==
  /\ Added(old, new) \cup Removed(old, new) # {}
  /\ old.root = new.root /\ old.protections = new.protections
  /\ next.deltas < MaxDeltas

\* Whole tracks come or go, no other track changes and no root list does.
DeltaSuffices(old, new) ==
  /\ Added(old, new) \cup Removed(old, new) # {}
  /\ \A t \in DOMAIN old.tracks \cap DOMAIN new.tracks : old.tracks[t] = new.tracks[t]
  /\ old.root = new.root /\ old.protections = new.protections
  /\ next.deltas < MaxDeltas

Delta(c) ==
  LET old == last[1]
      added == [t \in Added(old, c) |-> c.tracks[t]]
  IN  IF BadTracks(added) THEN Throws("invalid")
      ELSE /\ Emit([group |-> next.group - 1, object |-> next.object,
                    full |-> FALSE, removed |-> Removed(old, c),
                    catalog |-> [EmptyCatalog EXCEPT !.tracks = added]])
           /\ next' = [next EXCEPT !.object = @ + 1, !.deltas = @ + 1]
           /\ last' = <<c>> /\ threw' = ""

\* publish(): nothing, a delta or a full catalog.
PublishCatalog(c) ==
  /\ UNCHANGED ended
  /\ CASE ended -> Throws("ended")
       [] ~ended /\ last = <<>> -> Independent(c)
       [] ~ended /\ last # <<>> /\ CatalogsEqual(last[1], c) ->
            threw' = "" /\ UNCHANGED <<last, next, out, joined>>
       [] OTHER -> IF DanglingRefs(c) THEN Throws("invalid")
                   ELSE IF DeltaSuffices(last[1], c) THEN Delta(c) ELSE Independent(c)

ForceIndependent ==
  /\ UNCHANGED ended
  /\ CASE ended -> Throws("ended")
       [] ~ended /\ last = <<>> -> threw' = "" /\ UNCHANGED <<last, next, out, joined>>
       [] OTHER -> Independent(last[1])

\* make_end_broadcast_catalog(): contentProtections are not copied.
FinalCatalog(base, mode) ==
  IF mode = "terminate" THEN [EmptyCatalog EXCEPT !.complete = TRUE]
  ELSE [base EXCEPT !.live = FALSE, !.protections = FALSE, !.complete = FALSE]

EndBroadcast(mode) ==
  IF ended THEN Throws("ended")
  ELSE /\ Independent(FinalCatalog(IF last = <<>> THEN EmptyCatalog ELSE last[1], mode))
       /\ ended' = (threw' = "")

SetInitialGroupId(g) ==
  /\ next' = [next EXCEPT !.initial = g, !.group = IF last = <<>> THEN g ELSE @]
  /\ threw' = "" /\ UNCHANGED <<last, ended, out, joined>>

Reset ==
  /\ last' = <<>> /\ ended' = FALSE /\ out' = <<>> /\ joined' = <<>> /\ threw' = ""
  /\ next' = [next EXCEPT !.group = next.initial, !.object = 0, !.deltas = 0]

CatalogNext ==
  /\ ops < MaxOps /\ ops' = ops + 1
  /\ \/ \E c \in Desired : PublishCatalog(c)
     \/ ForceIndependent
     \/ \E mode \in {"terminate", "vod"} : EndBroadcast(mode)
     \/ \E g \in Initials : SetInitialGroupId(g)
     \/ Reset

CatalogSpec == CatalogInit /\ [][CatalogNext]_catVars

-----------------------------------------------------------------------------
(* Properties *)

\* A subscriber that joins at any full catalog still holds, after the deltas
\* that follow, exactly the catalog publish() last took.
SubscribersAgree ==
  \A i \in DOMAIN out : out[i].full => joined[i] = last[1]

\* Every group begins with a full catalog, object IDs have no gap, groups only
\* rise, and no group asks a subscriber for more than MaxDeltas deltas,
\* whatever was refused in between.
GroupsWellFormed ==
  \A i \in DOMAIN out :
    /\ out[i].full <=> out[i].object = 0
    /\ out[i].object <= MaxDeltas
    /\ i > 1 => IF out[i].full THEN out[i].group > out[i - 1].group
                ELSE out[i].group = out[i - 1].group /\ out[i].object = out[i - 1].object + 1

\* The catalog that ends the broadcast is the last one: no later operation
\* makes a track live again or takes isComplete back.
EndIsFinal ==
  \A i \in DOMAIN out : ~out[i].catalog.live \/ out[i].catalog.complete => i = Len(out)

\* The catalog track is sound: subscribers agree with the publisher wherever
\* they join, its groups are well formed, and the end of the broadcast is final,
\* whatever order publish(), force_independent(), end_broadcast() and reset()
\* are called in.
CatalogSound == SubscribersAgree /\ GroupsWellFormed /\ EndIsFinal

\* docs/publisher-api.md: "To end a live broadcast cleanly, call
\* end_broadcast(EndBroadcastMode::kConvertToVod)": the final catalog made from
\* the one published passes its own validation.
EndBroadcastSends ==
  last # <<>> /\ ~ended => ~DanglingRefs(FinalCatalog(last[1], "vod"))
=============================================================================
