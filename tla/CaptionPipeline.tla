-------------------------- MODULE CaptionPipeline --------------------------
(***************************************************************************)
(* The way of a transcript segment through one session: numbered by the    *)
(* operator's endpoint, offered to the in-process bus (services/pubsub.py),*)
(* and by the session's fanout (services/translation.py) stored, published *)
(* to its own language's channel and, in every target language at once,    *)
(* translated, stored and published.                                       *)
(*                                                                         *)
(* Operators come one after another (OperatorIngest shows that); each      *)
(* numbers its segments from a seed of its own.  A step is what happens    *)
(* between two awaits.  Segments are numbered by `spoken` in the order in  *)
(* which the endpoints accept them; that number stands for the text.       *)
(***************************************************************************)
EXTENDS Integers, Sequences, FiniteSets

CONSTANTS
  Kinds,       \* endpoints operators use: "audio", "transcript", "webrtc"
  Targets,     \* SessionLanguage rows of the session
  SpeechLangs, \* languages segments are spoken in
  Masked,      \* segments of which strip_profanity leaves nothing
  Faults,      \* what may fail: "db", "redis", "drain" (30 s time-out)
  Faulty,      \* targets whose translation, and with "redis" publish, may fail
  BusMax,      \* queue_maxsize of the registry
  MaxTexts,    \* bound: segments accepted
  MaxEpochs    \* bound: operator connections

Texts == 1 .. MaxTexts
Langs == Targets \cup SpeechLangs

ASSUME KindsAssumption == Kinds \subseteq {"audio", "transcript", "webrtc"}
ASSUME BoundsAssumption ==
  MaxTexts \in Nat \ {0} /\ MaxEpochs \in Nat /\ BusMax \in Nat \ {0}
ASSUME FaultsAssumption ==
  /\ Faults \subseteq {"db", "redis", "drain"}
  /\ Faulty \subseteq Targets /\ Masked \subseteq Texts

VARIABLES
  mode,     \* the connected operator's endpoint, or "none"
  seeded,   \* its transcription task has read its starting sequence
  seq,      \* the last sequence number it used
  spoken,   \* segments accepted so far
  epochs,   \* operator connections so far
  fan,      \* where the fanout's _consume_loop is; "off": not in _tasks
  bus,      \* the fanout's subscriber queue
  cur,      \* the event in _handle_event
  hasRow,   \* transcript_segment_id is not None
  tr,       \* where _translate_one is for each target
  rows,     \* transcript_segments: sequence -> text, 0 for no row
  trows,    \* translation_segments: target, transcript row -> text
  out       \* what each language's Redis channel has carried

ingest == <<mode, seeded, seq, spoken, epochs>>
handling == <<cur, hasRow, tr>>
stored == <<rows, trows>>
vars == <<ingest, fan, bus, handling, stored, out>>

NoEvent == [seq |-> 0, text |-> 0]
Caption(e) == [seq |-> e.seq, text |-> e.text]

Init ==
  /\ mode = "none" /\ seeded = FALSE /\ seq = 0 /\ spoken = 0 /\ epochs = 0
  /\ fan \in {"off", "idle"}   \* lifespan re-arms sessions ACTIVE at startup
  /\ bus = << >>
  /\ cur = NoEvent /\ hasRow = FALSE /\ tr = [l \in Targets |-> "idle"]
  /\ rows = [s \in Texts |-> 0]
  /\ trows = [l \in Targets |-> [s \in Texts |-> 0]]
  /\ out = [l \in Langs |-> << >>]

-----------------------------------------------------------------------------
(* The operator's endpoint.                                                *)

\* The WebSocket endpoints start the fanout unless it runs; WebRTC does not.
\* The text endpoint counts from zero, the others ask the database.
Connect(kind) ==
  /\ mode = "none" /\ epochs < MaxEpochs
  /\ mode' = kind
  /\ epochs' = epochs + 1
  /\ seeded' = (kind = "transcript")
  /\ seq' = 0
  /\ fan' = IF fan = "off" /\ kind # "webrtc" THEN "starting" ELSE fan
  /\ UNCHANGED <<spoken, bus, handling, stored, out>>

LastStored ==
  CHOOSE m \in 0 .. MaxTexts :
    /\ m = 0 \/ rows[m] # 0
    /\ \A s \in Texts : rows[s] # 0 => s <= m

\* Mutant: every connection starts at zero, as the text endpoint does.
NothingStored == 0

\* starting_sequence: the largest stored sequence, or 0 when the query fails.
\* The fanout's task was created before this one and has subscribed by now.
StartingSequence == LastStored

Seed ==
  /\ mode # "none" /\ ~seeded /\ fan # "starting"
  /\ seeded' = TRUE
  /\ seq' \in {StartingSequence} \cup (IF "db" \in Faults THEN {0} ELSE {})
  /\ UNCHANGED <<mode, spoken, epochs, fan, bus, handling, stored, out>>

\* Mutant: a full queue drops the newest event it holds.
OfferDropNewest(q, e) ==
  IF Len(q) < BusMax THEN Append(q, e) ELSE Append(SubSeq(q, 2, Len(q)), q[1])

\* Mutant: an unbounded subscriber queue.
OfferAlways(q, e) == Append(q, e)

\* SessionPubSub.publish: a full queue drops its oldest event.
Offer(q, e) ==
  IF Len(q) < BusMax THEN Append(q, e) ELSE Append(Tail(q), e)

\* A segment is accepted, numbered and published; without a subscriber the
\* event is gone.
Accept(lang) ==
  /\ mode # "none" /\ seeded /\ spoken < MaxTexts
  /\ spoken' = spoken + 1
  /\ seq' = seq + 1
  /\ bus' = IF fan \in {"off", "starting"} THEN bus
            ELSE Offer(bus, [seq |-> seq + 1, text |-> spoken + 1, lang |-> lang])
  /\ UNCHANGED <<mode, seeded, epochs, fan, handling, stored, out>>

-----------------------------------------------------------------------------
(* The fanout.                                                             *)

Subscribe ==
  /\ fan = "starting"
  /\ fan' = "idle"
  /\ UNCHANGED <<ingest, bus, handling, stored, out>>

Take ==
  /\ fan = "idle" /\ bus # << >>
  /\ cur' = Head(bus)
  /\ bus' = Tail(bus)
  /\ fan' = "persisting"
  /\ UNCHANGED <<ingest, hasRow, tr, stored, out>>

\* Mutant: the insert is never committed.
KeepRows(r) == r

\* An existing row of that sequence is taken for this event's.
InsertRow(r) == IF r[cur.seq] = 0 THEN [r EXCEPT ![cur.seq] = cur.text] ELSE r

\* A failure gives no row id; the refresh that follows the commit may be what
\* failed, and then the row is stored all the same.
Persist ==
  /\ fan = "persisting"
  /\ \/ rows' = InsertRow(rows) /\ hasRow' = TRUE
     \/ "db" \in Faults /\ rows' \in {rows, InsertRow(rows)} /\ hasRow' = FALSE
  /\ fan' = "source"
  /\ UNCHANGED <<ingest, bus, cur, tr, trows, out>>

\* The channels in S carry the current event.
Broadcast(S) ==
  [l \in Langs |-> IF l \in S THEN Append(out[l], Caption(cur)) ELSE out[l]]

\* A publish that raises may have reached Redis; the event is given up.
PublishSource ==
  /\ fan = "source"
  /\ \/ fan' = "targets" /\ out' = Broadcast({cur.lang})
     \/ /\ "redis" \in Faults
        /\ fan' = "idle"
        /\ out' \in {out, Broadcast({cur.lang})}
  /\ UNCHANGED <<ingest, bus, handling, stored>>

\* _get_target_languages, then a _translate_one for each other language.
GetTargets ==
  /\ fan = "targets"
  /\ \/ /\ fan' = "translating"
        /\ tr' = [l \in Targets |->
                    IF l = cur.lang \/ cur.text \in Masked THEN "idle" ELSE "translating"]
     \/ "db" \in Faults /\ fan' = "idle" /\ UNCHANGED tr
  /\ UNCHANGED <<ingest, bus, cur, hasRow, stored, out>>

\* Mutant: one failed translation ends the others, as without return_exceptions.
TranslateAllOrNothing(l) ==
  /\ tr[l] = "translating"
  /\ \/ tr' = [tr EXCEPT ![l] = IF hasRow THEN "storing" ELSE "publishing"]
     \/ l \in Faulty /\ tr' = [m \in Targets |-> "idle"]
  /\ UNCHANGED <<ingest, fan, bus, cur, hasRow, stored, out>>

Translate(l) ==
  /\ tr[l] = "translating"
  /\ \/ tr' = [tr EXCEPT ![l] = IF hasRow THEN "storing" ELSE "publishing"]
     \/ l \in Faulty /\ tr' = [tr EXCEPT ![l] = "idle"]
  /\ UNCHANGED <<ingest, fan, bus, cur, hasRow, stored, out>>

StoredTranslation(l) == [trows EXCEPT ![l][cur.seq] = cur.text]

\* (transcript_segment_id, language_code) is unique: a second row raises.  So may
\* the refresh after the commit: the row is stored and the caption given up.
StoreTranslation(l) ==
  /\ tr[l] = "storing"
  /\ \/ /\ trows[l][cur.seq] = 0
        /\ trows' = StoredTranslation(l)
        /\ \E place \in {"speech"} \cup (IF "db" \in Faults THEN {"idle"} ELSE {}) :
             tr' = [tr EXCEPT ![l] = place]
     \/ /\ trows[l][cur.seq] # 0 \/ "db" \in Faults
        /\ tr' = [tr EXCEPT ![l] = "idle"]
        /\ UNCHANGED trows
  /\ UNCHANGED <<ingest, fan, bus, cur, hasRow, rows, out>>

\* TTS: its failure is logged, that of the look-up before it is not caught.
Synthesize(l) ==
  /\ tr[l] = "speech"
  /\ \/ tr' = [tr EXCEPT ![l] = "publishing"]
     \/ "db" \in Faults /\ tr' = [tr EXCEPT ![l] = "idle"]
  /\ UNCHANGED <<ingest, fan, bus, cur, hasRow, stored, out>>

PublishTranslation(l) ==
  /\ tr[l] = "publishing"
  /\ tr' = [tr EXCEPT ![l] = "idle"]
  /\ out' \in {Broadcast({l})} \cup (IF "redis" \in Faults /\ l \in Faulty THEN {out} ELSE {})
  /\ UNCHANGED <<ingest, fan, bus, cur, hasRow, stored>>

\* Mutant: the loop goes on to the next event while translations run.
NextEventEarly ==
  /\ fan = "translating"
  /\ fan' = "idle"
  /\ UNCHANGED <<ingest, bus, handling, stored, out>>

\* gather has every result: on to the next event.
GatherEnds ==
  /\ fan = "translating" /\ \A l \in Targets : tr[l] = "idle"
  /\ fan' = "idle"
  /\ UNCHANGED <<ingest, bus, handling, stored, out>>

-----------------------------------------------------------------------------
(* The operator goes away.                                                 *)

Publishing ==
  {l \in Targets : tr[l] = "publishing"}
    \cup (IF fan = "source" THEN {cur.lang} ELSE {})

\* translation_fanout.stop cancels the loop wherever it is.  A commit or a
\* publish it was waiting for may still happen; its queue is gone.
StopFanout ==
  /\ fan' = "off"
  /\ bus' = << >>
  /\ tr' = [l \in Targets |-> "idle"]
  /\ rows' \in {rows} \cup (IF fan = "persisting" THEN {InsertRow(rows)} ELSE {})
  /\ \E S \in SUBSET {l \in Targets : tr[l] = "storing" /\ trows[l][cur.seq] = 0} :
       trows' = [l \in Targets |-> IF l \in S THEN StoredTranslation(l)[l] ELSE trows[l]]
  /\ \E S \in SUBSET Publishing : out' = Broadcast(S)
  /\ UNCHANGED <<cur, hasRow>>

\* A WebSocket handler stops the fanout before it releases the lock.
Disconnect ==
  /\ mode \in {"audio", "transcript"}
  /\ mode' = "none"
  /\ StopFanout
  /\ UNCHANGED <<seeded, seq, spoken, epochs>>

\* A drain that raises skips the stop, and WebRTC knows of no fanout.
DisconnectArmed ==
  /\ mode = "webrtc" \/ (mode = "audio" /\ "drain" \in Faults)
  /\ mode' = "none"
  /\ UNCHANGED <<seeded, seq, spoken, epochs, fan, bus, handling, stored, out>>

-----------------------------------------------------------------------------

TranslateOne(l) ==
  Translate(l) \/ StoreTranslation(l) \/ Synthesize(l) \/ PublishTranslation(l)

ConsumeLoop == Subscribe \/ Take \/ Persist \/ PublishSource \/ GetTargets \/ GatherEnds

Next ==
  \/ \E kind \in Kinds : Connect(kind)
  \/ Seed
  \/ \E lang \in SpeechLangs : Accept(lang)
  \/ ConsumeLoop
  \/ \E l \in Targets : TranslateOne(l)
  \/ Disconnect \/ DisconnectArmed

\* The event loop runs what is ready; database, Redis and provider calls end.
Fairness ==
  WF_vars(ConsumeLoop) /\ \A l \in Targets : WF_vars(TranslateOne(l))

Spec == Init /\ [][Next]_vars
FairSpec == Spec /\ Fairness

-----------------------------------------------------------------------------
(* Properties.                                                             *)

Events == [seq : Texts, text : Texts, lang : SpeechLangs]
Captions == [seq : Texts, text : Texts]

TypeOK ==
  /\ mode \in Kinds \cup {"none"} /\ seeded \in BOOLEAN
  /\ seq \in 0 .. MaxTexts /\ spoken \in 0 .. MaxTexts /\ epochs \in 0 .. MaxEpochs
  /\ fan \in {"off", "starting", "idle", "persisting", "source", "targets", "translating"}
  /\ bus \in Seq(Events) /\ Len(bus) <= BusMax
  /\ cur \in Events \cup {NoEvent} /\ hasRow \in BOOLEAN
  /\ tr \in [Targets -> {"idle", "translating", "storing", "speech", "publishing"}]
  /\ rows \in [Texts -> 0 .. MaxTexts]
  /\ trows \in [Targets -> [Texts -> 0 .. MaxTexts]]
  /\ out \in [Langs -> Seq(Captions)]

\* Every channel carries segments in the order they were spoken and none twice,
\* whatever fails and whoever reconnects: the fanout finishes all languages of
\* one segment before it takes the next.
SpokenOrder ==
  \A l \in Langs : \A i, j \in 1 .. Len(out[l]) :
    i < j => out[l][i].text < out[l][j].text

\* What the listener's reconnect protocol relies on (listener.py:20): on every
\* channel the sequence numbers increase, across operator reconnects too.
SequenceIncreases ==
  \A l \in Langs : \A i, j \in 1 .. Len(out[l]) :
    i < j => out[l][i].seq < out[l][j].seq

\* A translation row hangs from the row of the segment it translates: the
\* foreign key never joins two different segments.
TranslationOfItsRow ==
  \A l \in Targets, s \in Texts : trows[l][s] # 0 => trows[l][s] = rows[s]

\* One language's failing provider or publish costs the other languages nothing:
\* while the fanout runs, a segment whose source is published reaches every
\* healthy target.
HealthyTargetsServed ==
  \A l \in Targets \ Faulty, x \in Texts \ Masked :
    fan = "targets" /\ cur.text = x /\ cur.lang # l
      ~> fan = "off" \/ \E i \in 1 .. Len(out[l]) : out[l][i].text = x

-----------------------------------------------------------------------------
(* What the pipeline promises: see CaptionFeed.                            *)

Feed == INSTANCE CaptionFeed WITH
  transcript <- {[seq |-> s, text |-> rows[s]] : s \in {t \in Texts : rows[t] # 0}},
  channel <- out

\* With audio operators, no database failure and no drain time-out, the
\* pipeline implements the feed.
ImplementsFeed == Feed!Spec
=============================================================================
