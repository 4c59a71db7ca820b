---------------------------- MODULE Housekeeping ----------------------------
(***************************************************************************)
(* What is kept and for how long: captions and sessions under the          *)
(* retention job (services/retention.py), audio files under the eviction   *)
(* job (services/tts.py), both run by services/scheduler.py in every       *)
(* worker process, while operators speak, translations are voiced and      *)
(* listeners fetch audio (api/routes/tts.py).                              *)
(*                                                                         *)
(* The workers share the database and the cache directory.  A retention    *)
(* pass is one transaction and so one step.  A put is two file writes, an  *)
(* eviction reads a .meta file and then removes: steps of other processes, *)
(* and the end of the process, can come in between.  Time counts in units  *)
(* of hours and does not pass between the two writes of a put.  A caption  *)
(* is numbered and stored in one step: CaptionPipeline has what lies       *)
(* between.                                                                *)
(***************************************************************************)
EXTENDS Integers, Sequences, FiniteSets, FiniteSetsExt

CONSTANTS
    Workers,     \* processes of the service
    Sessions,    \* meetings
    Texts,       \* translated texts: the keys of the cache
    Enabled,     \* periodic tasks the settings ask for
    Retention,   \* content_retention_hours, the time to live of the cache as well
    MaxCaptions, \* bound: captions stored, and their numbers
    MaxFaults,   \* bound: processes that end, passes and writes that fail
    MaxHours     \* bound: the clock

ASSUME HousekeepingAssumption ==
    /\ IsFiniteSet(Workers) /\ IsFiniteSet(Sessions)
    /\ Enabled \subseteq {"retention", "eviction"}
    /\ Retention \in Nat /\ MaxCaptions \in Nat /\ MaxFaults \in Nat /\ MaxHours \in Nat

VARIABLES
    hkNow,      \* datetime.now(), time.time()
    hkJobs,     \* what is alive in each worker: the server and its periodic tasks
    hkSessions, \* the status of each session and when it ended
    hkLog,      \* history: every caption ever stored; its place is its id
    hkRows,     \* the ids in transcript_segments
    hkVoices,   \* the rows of translation_segments, each with its caption's id
    hkNext,     \* the number the session's ingest gives next, 0 without ingest
    hkSeeded,   \* history: sessions whose ingest numbers on from what was stored
    hkSpeaking, \* translations under way in some worker
    hkFiles,    \* the audio and .meta file of each key
    hkEvicting, \* the keys a worker's eviction found expired
    hkRequest,  \* a request for audio: how far it is, for which translation
    hkReply,    \* the age of the audio just sent, Missing if none was
    hkCutoff,   \* history: the latest cutoff of a committed pass
    hkFaults    \* faults so far

hkStore == <<hkSessions, hkLog, hkRows, hkVoices, hkCutoff>>
hkNumbers == <<hkNext, hkSeeded>>
hkCache == <<hkFiles, hkEvicting>>
hkServing == <<hkRequest, hkReply>>
hkVars == <<hkNow, hkJobs, hkStore, hkNumbers, hkSpeaking, hkCache, hkServing, hkFaults>>

Jobs == {"server"} \cup Enabled
Missing == -1
Unreadable == -2
Never == -1
Hours == 0..MaxHours
Up(w) == hkJobs[w] # {}
Old(t) == t < hkNow - Retention
Kept(s) == {i \in hkRows : hkLog[i].session = s}
Voiced(i) == \E v \in hkVoices : v.id = i
NoFile == [audio |-> Missing, meta |-> Missing]
NoRequest == [stage |-> "none"]
Voices == [id : DOMAIN hkLog, at : Hours, text : Texts]

HKTypeOK ==
    /\ hkNow \in Hours
    /\ hkJobs \in [Workers -> SUBSET Jobs]
    /\ \A s \in Sessions :
         /\ hkSessions[s].status \in {"active", "ended", "gone"}
         /\ hkSessions[s].ended \in Hours \cup {Never}
         /\ hkNext[s] \in Nat
    /\ Len(hkLog) <= MaxCaptions /\ hkRows \subseteq DOMAIN hkLog
    /\ hkSeeded \subseteq {s \in Sessions : hkNext[s] # 0}
    /\ hkVoices \subseteq Voices /\ \A v \in hkVoices : v.id \in hkRows
    /\ hkSpeaking \subseteq [id : DOMAIN hkLog, text : Texts,
                             worker : {w \in Workers : Up(w)},
                             stage : {"translating", "calling", "writing"}]
    /\ hkFiles \in [Texts -> [audio : Hours \cup {Missing},
                              meta : Hours \cup {Missing, Unreadable}]]
    /\ hkEvicting \in [Workers -> SUBSET Texts]
    /\ hkRequest \in {NoRequest} \cup [stage : {"checked", "found"}, voice : Voices]
    /\ hkFaults \in 0..MaxFaults

HKInit ==
    /\ hkNow = 0
    /\ hkJobs \in [Workers -> {Jobs, {}}]
    /\ hkSessions = [s \in Sessions |-> [status |-> "active", ended |-> Never]]
    /\ hkLog = <<>> /\ hkRows = {} /\ hkVoices = {}
    /\ hkNext = [s \in Sessions |-> 0] /\ hkSeeded = {}
    /\ hkSpeaking = {}
    /\ hkFiles = [x \in Texts |-> NoFile]
    /\ hkEvicting = [w \in Workers |-> {}]
    /\ hkRequest = NoRequest
    /\ hkReply = Missing
    /\ hkCutoff = -Retention
    /\ hkFaults = 0

HKTick ==
    /\ hkNow < MaxHours
    /\ \A v \in hkSpeaking : v.stage # "writing"
    /\ hkNow' = hkNow + 1
    /\ UNCHANGED <<hkJobs, hkStore, hkNumbers, hkSpeaking, hkCache, hkServing, hkFaults>>

-----------------------------------------------------------------------------
(* Processes.                                                              *)

Fault == hkFaults < MaxFaults /\ hkFaults' = hkFaults + 1

\* A process ends, by a crash or by lifespan's shutdown, which cancels the
\* tasks: what it was doing is left as it is on disk.
HKDown(w) ==
    /\ Up(w) /\ Fault
    /\ hkJobs' = [hkJobs EXCEPT ![w] = {}]
    /\ hkSpeaking' = {v \in hkSpeaking : v.worker # w}
    /\ hkEvicting' = [hkEvicting EXCEPT ![w] = {}]
    /\ UNCHANGED <<hkNow, hkStore, hkNumbers, hkFiles, hkServing>>

\* lifespan's startup adds the tasks the settings ask for to a scheduler and
\* starts it.
HKUp(w) ==
    /\ ~Up(w)
    /\ hkJobs' = [hkJobs EXCEPT ![w] = Jobs]
    /\ UNCHANGED <<hkNow, hkStore, hkNumbers, hkSpeaking, hkCache, hkServing, hkFaults>>

-----------------------------------------------------------------------------
(* Sessions and captions.                                                  *)

HKStop(s) ==
    /\ hkSessions[s].status = "active"
    /\ hkSessions' = [hkSessions EXCEPT ![s] = [status |-> "ended", ended |-> hkNow]]
    /\ UNCHANGED <<hkNow, hkJobs, hkLog, hkRows, hkVoices, hkCutoff, hkNumbers, hkSpeaking,
                   hkCache, hkServing, hkFaults>>

\* Mutant: the stored captions are counted.
LastKeptCounted(s) == Cardinality(Kept(s))

\* The number of the newest caption still stored.
LastKept(s) == Max({0} \cup {hkLog[i].seq : i \in Kept(s)})

\* An operator connects to an active session.  Numbering goes on from there, or
\* starts over: the text endpoint does not ask, and a query that fails says 0.
HKIngest(s) ==
    /\ hkSessions[s].status = "active" /\ hkNext[s] = 0
    /\ \E last \in {LastKept(s), 0} :
         /\ hkNext' = [hkNext EXCEPT ![s] = last + 1]
         /\ hkSeeded' = IF last = LastKept(s) THEN hkSeeded \cup {s} ELSE hkSeeded
    /\ UNCHANGED <<hkNow, hkJobs, hkStore, hkSpeaking, hkCache, hkServing, hkFaults>>

HKDisconnect(s) ==
    /\ hkNext[s] # 0
    /\ hkNext' = [hkNext EXCEPT ![s] = 0] /\ hkSeeded' = hkSeeded \ {s}
    /\ UNCHANGED <<hkNow, hkJobs, hkStore, hkSpeaking, hkCache, hkServing, hkFaults>>

\* The next caption of a session takes the next number.
Numbered(s) ==
    /\ hkNext[s] \in 1..MaxCaptions
    /\ hkNext' = [hkNext EXCEPT ![s] = @ + 1] /\ UNCHANGED hkSeeded

Same(s) == {i \in Kept(s) : hkLog[i].seq = hkNext[s]}

\* The translation of caption i, of which x is made, begins.
Begins(i, x, w) ==
    hkSpeaking' = hkSpeaking
                  \cup {[id |-> i, text |-> x, worker |-> w, stage |-> "translating"]}

\* A caption is stored and its translation begins, or its row cannot be read
\* back and there is none.
HKCaption(w, s, x) ==
    LET id == Len(hkLog) + 1
    IN  /\ Up(w) /\ Numbered(s) /\ Same(s) = {}
        /\ hkSessions[s].status # "gone" /\ Len(hkLog) < MaxCaptions
        /\ hkLog' = Append(hkLog, [session |-> s, seq |-> hkNext[s], at |-> hkNow,
                                   seeded |-> s \in hkSeeded])
        /\ hkRows' = hkRows \cup {id}
        /\ \/ Begins(id, x, w) /\ UNCHANGED hkFaults
           \/ Fault /\ UNCHANGED hkSpeaking
        /\ UNCHANGED <<hkNow, hkJobs, hkSessions, hkVoices, hkCutoff, hkCache, hkServing>>

\* A stored caption of that number is taken for this one: the translation hangs
\* from its row.
HKCaptionAgain(w, s, x) ==
    /\ Up(w) /\ Numbered(s)
    /\ \E i \in Same(s) : Begins(i, x, w)
    /\ UNCHANGED <<hkNow, hkJobs, hkStore, hkCache, hkServing, hkFaults>>

\* The insert fails, as it does in a session that was purged: nothing is stored,
\* and a translation without a row is published but neither stored nor voiced.
HKCaptionLost(s) ==
    /\ Numbered(s)
    /\ Fault \/ (hkSessions[s].status = "gone" /\ UNCHANGED hkFaults)
    /\ UNCHANGED <<hkNow, hkJobs, hkStore, hkSpeaking, hkCache, hkServing>>

-----------------------------------------------------------------------------
(* Voicing a translation.                                                  *)

Moves(v, stage) == hkSpeaking' = (hkSpeaking \ {v}) \cup {[v EXCEPT !.stage = stage]}
Ends(v) == hkSpeaking' = hkSpeaking \ {v}
Removed(x) == hkFiles' = [hkFiles EXCEPT ![x] = NoFile]

\* get: the audio of a key, if both files are there and not expired.
Found(x) ==
    LET file == hkFiles[x]
    IN  file.audio # Missing /\ file.meta \notin {Missing, Unreadable} /\ ~Old(file.meta)

\* An expired entry is removed by the look-up that finds it.
Expired(x) ==
    LET file == hkFiles[x]
    IN  file.audio # Missing /\ file.meta \notin {Missing, Unreadable} /\ Old(file.meta)

AfterGet(x) == IF Expired(x) THEN Removed(x) ELSE UNCHANGED hkFiles

VoiceStored(v) ==
    hkVoices' = hkVoices \cup {[id |-> v.id, at |-> hkNow, text |-> v.text]}

\* The translation arrives and is stored, unless its caption is gone by now or
\* has a translation already.  A cached voice is reused and not renewed; a
\* language without text-to-speech and a text of nothing but masks get none.
HKTranslated(v) ==
    /\ v \in hkSpeaking /\ v.stage = "translating"
    /\ \/ /\ v.id \notin hkRows \/ Voiced(v.id)
          /\ Ends(v)
          /\ UNCHANGED <<hkVoices, hkFiles>>
       \/ /\ v.id \in hkRows /\ ~Voiced(v.id)
          /\ VoiceStored(v)
          /\ \/ "eviction" \in Enabled /\ ~Found(v.text) /\ Moves(v, "calling") /\ AfterGet(v.text)
             \/ Ends(v) /\ UNCHANGED hkFiles
    /\ UNCHANGED <<hkNow, hkJobs, hkSessions, hkLog, hkRows, hkCutoff, hkNumbers,
                   hkEvicting, hkServing, hkFaults>>

\* The translator fails, or the row it stored cannot be read back: no voice.
HKTranslationFails(v) ==
    /\ v \in hkSpeaking /\ v.stage = "translating" /\ Fault
    /\ Ends(v)
    /\ \/ UNCHANGED hkVoices
       \/ v.id \in hkRows /\ ~Voiced(v.id) /\ VoiceStored(v)
    /\ UNCHANGED <<hkNow, hkJobs, hkSessions, hkLog, hkRows, hkCutoff, hkNumbers, hkCache,
                   hkServing>>

\* Mutant: the .meta file is written before the audio.
WriteMetaFirst(file, stage) ==
    IF stage = "calling" THEN [file EXCEPT !.meta = hkNow] ELSE [file EXCEPT !.audio = hkNow]

\* put: the audio first, then the time at which it was made.
Write(file, stage) ==
    IF stage = "calling" THEN [file EXCEPT !.audio = hkNow] ELSE [file EXCEPT !.meta = hkNow]

HKWrite(v) ==
    /\ v \in hkSpeaking /\ v.stage \in {"calling", "writing"}
    /\ hkFiles' = [hkFiles EXCEPT ![v.text] = Write(@, v.stage)]
    /\ IF v.stage = "calling" THEN Moves(v, "writing") ELSE Ends(v)
    /\ UNCHANGED <<hkNow, hkJobs, hkStore, hkNumbers, hkEvicting, hkServing, hkFaults>>

\* The provider's call or a write fails; a .meta file cut short cannot be read.
HKWriteFails(v) ==
    /\ v \in hkSpeaking /\ v.stage \in {"calling", "writing"} /\ Fault
    /\ Ends(v)
    /\ \/ UNCHANGED hkFiles
       \/ v.stage = "writing" /\ hkFiles' = [hkFiles EXCEPT ![v.text].meta = Unreadable]
    /\ UNCHANGED <<hkNow, hkJobs, hkStore, hkNumbers, hkEvicting, hkServing>>

-----------------------------------------------------------------------------
(* The two jobs.                                                           *)

OverSessions == {s \in Sessions : hkSessions[s].ended # Never /\ Old(hkSessions[s].ended)}
KeptRows ==
    {i \in hkRows : ~Old(hkLog[i].at) /\ hkLog[i].session \notin OverSessions}
Purged ==
    [s \in Sessions |-> IF s \in OverSessions THEN [hkSessions[s] EXCEPT !.status = "gone"]
                        ELSE hkSessions[s]]

\* Mutant: translations are deleted by their age only.
HKRetentionPassByAge(w) ==
    /\ "retention" \in hkJobs[w]
    /\ hkRows' = KeptRows
    /\ hkVoices' = {v \in hkVoices : ~Old(v.at)}
    /\ hkSessions' = Purged
    /\ hkCutoff' = hkNow - Retention
    /\ UNCHANGED <<hkNow, hkJobs, hkLog, hkNumbers, hkSpeaking, hkCache, hkServing, hkFaults>>

\* Captions past the cutoff go, then sessions that ended before it, and with
\* each row those that refer to it (ON DELETE CASCADE).
HKRetentionPass(w) ==
    /\ "retention" \in hkJobs[w]
    /\ hkRows' = KeptRows
    /\ hkVoices' = {v \in hkVoices : ~Old(v.at) /\ v.id \in KeptRows}
    /\ hkSessions' = Purged
    /\ hkCutoff' = hkNow - Retention
    /\ UNCHANGED <<hkNow, hkJobs, hkLog, hkNumbers, hkSpeaking, hkCache, hkServing, hkFaults>>

\* Mutant: an exception ends the periodic task.
HKPassFailsForGood(w) ==
    /\ "retention" \in hkJobs[w] /\ Fault
    /\ hkJobs' = [hkJobs EXCEPT ![w] = @ \ {"retention"}]
    /\ UNCHANGED <<hkNow, hkStore, hkNumbers, hkSpeaking, hkCache, hkServing>>

\* A pass that fails is rolled back and logged; the task sleeps and tries again.
HKPassFails(w) ==
    /\ "retention" \in hkJobs[w] /\ Fault
    /\ UNCHANGED <<hkNow, hkJobs, hkStore, hkNumbers, hkSpeaking, hkCache, hkServing>>

\* The eviction reads a .meta file; one it cannot read is removed at once, and
\* not the audio beside it.
HKEvictRead(w, x) ==
    LET meta == hkFiles[x].meta
    IN  /\ "eviction" \in hkJobs[w] /\ hkEvicting[w] = {} /\ meta # Missing
        /\ \/ /\ meta = Unreadable
              /\ hkFiles' = [hkFiles EXCEPT ![x].meta = Missing]
              /\ UNCHANGED hkEvicting
           \/ /\ meta # Unreadable /\ Old(meta)
              /\ hkEvicting' = [hkEvicting EXCEPT ![w] = {x}]
              /\ UNCHANGED hkFiles
        /\ UNCHANGED <<hkNow, hkJobs, hkStore, hkNumbers, hkSpeaking, hkServing, hkFaults>>

HKEvictRemove(w) ==
    \E x \in hkEvicting[w] :
        /\ Removed(x)
        /\ hkEvicting' = [hkEvicting EXCEPT ![w] = {}]
        /\ UNCHANGED <<hkNow, hkJobs, hkStore, hkNumbers, hkSpeaking, hkServing, hkFaults>>

\* An eviction raises: a file cannot be removed, or the audit row cannot be
\* written.  It may have removed the audio and not its .meta file; the task
\* sleeps and tries again.
HKEvictFails(w) ==
    /\ "eviction" \in hkJobs[w] /\ Fault
    /\ \/ UNCHANGED hkFiles
       \/ \E x \in hkEvicting[w] : hkFiles' = [hkFiles EXCEPT ![x].audio = Missing]
    /\ hkEvicting' = [hkEvicting EXCEPT ![w] = {}]
    /\ UNCHANGED <<hkNow, hkJobs, hkStore, hkNumbers, hkSpeaking, hkServing>>

-----------------------------------------------------------------------------
(* Serving audio.                                                          *)

\* The route: the translation exists and its session is active.
HKAsk(v) ==
    /\ hkRequest = NoRequest
    /\ v \in hkVoices /\ hkSessions[hkLog[v.id].session].status = "active"
    /\ hkRequest' = [stage |-> "checked", voice |-> v] /\ hkReply' = Missing
    /\ UNCHANGED <<hkNow, hkJobs, hkStore, hkNumbers, hkSpeaking, hkCache, hkFaults>>

\* The service looks the translation up once more, in a transaction of its own.
HKLookUp ==
    /\ hkRequest.stage = "checked"
    /\ hkRequest' = IF hkRequest.voice \in hkVoices THEN [hkRequest EXCEPT !.stage = "found"]
                    ELSE NoRequest
    /\ UNCHANGED <<hkNow, hkJobs, hkStore, hkNumbers, hkSpeaking, hkCache, hkReply, hkFaults>>

\* Found audio is sent; otherwise, and if it has expired, the answer is 404.
HKServe ==
    LET x == hkRequest.voice.text
    IN  /\ hkRequest.stage = "found"
        /\ hkRequest' = NoRequest
        /\ hkReply' = IF Found(x) THEN hkNow - hkFiles[x].audio ELSE Missing
        /\ AfterGet(x)
        /\ UNCHANGED <<hkNow, hkJobs, hkStore, hkNumbers, hkSpeaking, hkEvicting, hkFaults>>

RowsNext ==
    \/ HKTick
    \/ \E w \in Workers : HKDown(w) \/ HKUp(w) \/ HKRetentionPass(w) \/ HKPassFails(w)
    \/ \E s \in Sessions : HKStop(s) \/ HKIngest(s) \/ HKDisconnect(s) \/ HKCaptionLost(s)
    \/ \E w \in Workers, s \in Sessions, x \in Texts :
         HKCaption(w, s, x) \/ HKCaptionAgain(w, s, x)
    \/ \E v \in hkSpeaking : HKTranslated(v) \/ HKTranslationFails(v)

FilesNext ==
    \/ \E w \in Workers : HKEvictRemove(w) \/ HKEvictFails(w)
    \/ \E w \in Workers, x \in Texts : HKEvictRead(w, x)
    \/ \E v \in hkSpeaking : HKWrite(v) \/ HKWriteFails(v)
    \/ \E v \in hkVoices : HKAsk(v)
    \/ HKLookUp \/ HKServe

HKNext == RowsNext \/ FilesNext

HKSpec ==
    /\ HKInit /\ [][HKNext]_hkVars
    /\ \A w \in Workers : WF_hkVars(HKRetentionPass(w)) /\ WF_hkVars(HKEvictRemove(w))
    /\ \A w \in Workers, x \in Texts : WF_hkVars(HKEvictRead(w, x))

-----------------------------------------------------------------------------
(* What must hold.                                                         *)

\* What is stored is exactly what no pass had to delete: a caption as old as
\* the latest cutoff stays unless its session was purged, and keeps every
\* translation as old.  Whatever numbers operators start from, no two captions
\* left of a session share one; and those of an operator who was numbered on
\* from the rows come after all that were stored before them, also when the
\* retention has removed the lowest numbers.  (Those of an operator who starts
\* over do not: once the retention has removed their numbers, they come before
\* older captions.)
CaptionsKept ==
    /\ hkRows = {i \in DOMAIN hkLog : /\ hkLog[i].at >= hkCutoff
                                      /\ hkSessions[hkLog[i].session].status # "gone"}
    /\ \A v \in hkVoices : v.id \in hkRows /\ v.at >= hkLog[v.id].at
    /\ \A i, j \in hkRows :
         i < j /\ hkLog[i].session = hkLog[j].session =>
           /\ hkLog[i].seq # hkLog[j].seq
           /\ hkLog[j].seeded => hkLog[i].seq < hkLog[j].seq
    /\ \A s \in hkSeeded : \A i \in Kept(s) : hkLog[i].seq < hkNext[s]

\* No audio is sent that was made longer ago than content is retained, whatever
\* a crash between the two writes of a put, or another process, left on disk.
ServedAudioFresh == hkReply <= Retention

\* Captions, translations, ended sessions and complete cache entries do not
\* outlive the retention for good while a worker runs, whatever failed on the
\* way.  (Audio without a readable .meta file is no complete entry.)
NoWorker == \A w \in Workers : ~Up(w)
OverdueContent ==
    \/ \E i \in hkRows : Old(hkLog[i].at)
    \/ \E v \in hkVoices : Old(v.at)
    \/ \E s \in Sessions : hkSessions[s].status = "ended" /\ Old(hkSessions[s].ended)
ExpiredGone ==
    /\ OverdueContent ~> (~OverdueContent \/ NoWorker)
    /\ \A x \in Texts : Expired(x) ~> (~Expired(x) \/ NoWorker)
=============================================================================
