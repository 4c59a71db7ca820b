-------------------------- MODULE BackOffice_proofs --------------------------
(***************************************************************************)
(* Proofs about what runs behind the meetings: retention and the audio     *)
(* cache (Housekeeping), and accounts and their administration (Accounts), *)
(* for every number of workers, sessions, texts, users and requests and    *)
(* every retention and time to live.                                       *)
(***************************************************************************)
EXTENDS MCBackOffice, OrderFacts, TLAPS

-----------------------------------------------------------------------------
(* Captions, translations and audio files.                                 *)

Caption == [session : Sessions, seq : 1..MaxCaptions, at : Hours, seeded : BOOLEAN]
Stages == {"translating", "calling", "writing"}
File == [audio : Hours \cup {Missing}, meta : Hours \cup {Missing, Unreadable}]
Speaker == [id : DOMAIN hkLog, text : Texts, worker : {w \in Workers : Up(w)}, stage : Stages]
Request == {NoRequest} \cup [stage : {"checked", "found"}, voice : Voices]

HKType ==
    /\ hkNow \in Hours /\ hkJobs \in [Workers -> SUBSET Jobs]
    /\ hkSessions \in [Sessions -> [status : {"active", "ended", "gone"},
                                    ended : Hours \cup {Never}]]
    /\ hkNext \in [Sessions -> Nat] /\ hkSeeded \subseteq {s \in Sessions : hkNext[s] # 0}
    /\ hkLog \in Seq(Caption) /\ Len(hkLog) <= MaxCaptions /\ hkRows \subseteq DOMAIN hkLog
    /\ hkVoices \subseteq Voices /\ \A v \in hkVoices : v.id \in hkRows
    /\ hkSpeaking \subseteq Speaker
    /\ hkFiles \in [Texts -> File]
    /\ hkEvicting \in [Workers -> SUBSET Texts]
    /\ hkRequest \in Request
    /\ hkFaults \in 0..MaxFaults

\* No pass has looked further ahead than the retention, and no caption comes
\* from the future.
CaptionsInv ==
    /\ hkCutoff \in Int /\ hkCutoff <= hkNow - Retention
    /\ \A i \in DOMAIN hkLog : hkLog[i].at <= hkNow
    /\ CaptionsKept

\* Audio is never older than the time written beside it: it is written first,
\* and while the other write is due it is new or gone.
FileInOrder(file, now) ==
    file.meta \in Hours => file.meta <= now /\ (file.audio # Missing => file.meta <= file.audio)

FilesInv ==
    /\ \A x \in Texts : FileInOrder(hkFiles[x], hkNow)
    /\ \A v \in hkSpeaking :
         v.stage = "writing" => hkFiles[v.text].audio \in {hkNow, Missing}
    /\ hkReply \in Int /\ ServedAudioFresh

HKInv == HKType /\ CaptionsInv /\ FilesInv

-----------------------------------------------------------------------------
(* Types.                                                                  *)

LEMMA HKInitInv == HKInit => HKInv
<1> SUFFICES ASSUME HKInit PROVE HKInv
    OBVIOUS
<1> USE HousekeepingAssumption DEF HKInit
<1>1. /\ hkLog = <<>> /\ Len(hkLog) = 0 /\ DOMAIN hkLog = {} /\ hkLog \in Seq(Caption)
      /\ hkRows = {} /\ hkVoices = {} /\ hkSpeaking = {} /\ 0 \in Hours
    BY DEF Hours
<1>2. HKType
    <2>1. hkJobs \in [Workers -> SUBSET Jobs] /\ hkEvicting \in [Workers -> SUBSET Texts]
        OBVIOUS
    <2>2. hkSessions \in [Sessions -> [status : {"active", "ended", "gone"},
                                       ended : Hours \cup {Never}]]
        BY DEF Never
    <2>3. hkFiles \in [Texts -> File]
        BY DEF NoFile, File
    <2>4. hkRequest \in Request /\ hkSeeded \subseteq {s \in Sessions : hkNext[s] # 0}
        BY DEF Request
    <2> QED BY <1>1, <2>1, <2>2, <2>3, <2>4 DEF HKType
<1>3. CaptionsInv
    <2>1. hkCutoff \in Int /\ hkCutoff <= hkNow - Retention
        OBVIOUS
    <2>2. CaptionsKept
        BY <1>1 DEF CaptionsKept
    <2> QED BY <1>1, <2>1, <2>2 DEF CaptionsInv
<1>4. FilesInv
    BY <1>1 DEF FilesInv, FileInOrder, ServedAudioFresh, NoFile, Missing, Hours
<1> QED BY <1>2, <1>3, <1>4 DEF HKInv

LEMMA TickTypes ==
    ASSUME HKType, HKTick
    PROVE  HKType'
<1>1. /\ hkNow' \in Hours
      /\ UNCHANGED <<hkJobs, hkSessions, hkLog, hkRows, hkVoices, hkNumbers, hkSpeaking,
                     hkFiles, hkEvicting, hkRequest, hkFaults>>
    BY HousekeepingAssumption DEF HKTick, HKType, Hours, hkStore, hkCache, hkServing
<1> QED BY <1>1 DEF HKType, Speaker, Up, Request, Voices, hkNumbers

LEMMA ProcessTypes ==
    ASSUME HKType, NEW w \in Workers, HKDown(w) \/ HKUp(w) \/ HKPassFails(w)
    PROVE  HKType'
<1> USE HousekeepingAssumption
<1>1. CASE HKDown(w)
    <2>1. /\ hkJobs' = [hkJobs EXCEPT ![w] = {}]
          /\ hkSpeaking' = {v \in hkSpeaking : v.worker # w}
          /\ hkEvicting' = [hkEvicting EXCEPT ![w] = {}] /\ hkFaults' \in 0..MaxFaults
          /\ UNCHANGED <<hkNow, hkSessions, hkLog, hkRows, hkVoices, hkNumbers, hkFiles, hkRequest>>
        BY <1>1 DEF HKDown, HKType, Fault, hkStore, hkServing
    <2>2. hkSpeaking' \subseteq Speaker'
        BY <2>1 DEF HKType, Speaker, Up
    <2> QED BY <2>1, <2>2 DEF HKType, Request, Voices, hkNumbers
<1>2. CASE HKUp(w)
    <2>1. /\ hkJobs' = [hkJobs EXCEPT ![w] = Jobs]
          /\ UNCHANGED <<hkNow, hkSessions, hkLog, hkRows, hkVoices, hkNumbers, hkSpeaking,
                         hkFiles, hkEvicting, hkRequest, hkFaults>>
        BY <1>2 DEF HKUp, hkStore, hkCache, hkServing
    <2>2. hkSpeaking' \subseteq Speaker'
        BY <2>1 DEF HKType, Speaker, Up, Jobs
    <2> QED BY <2>1, <2>2 DEF HKType, Request, Voices, hkNumbers
<1>3. CASE HKPassFails(w)
    <2>1. /\ hkFaults' \in 0..MaxFaults
          /\ UNCHANGED <<hkNow, hkJobs, hkSessions, hkLog, hkRows, hkVoices, hkNumbers, hkSpeaking,
                         hkFiles, hkEvicting, hkRequest>>
        BY <1>3 DEF HKPassFails, HKType, Fault, hkStore, hkCache, hkServing
    <2> QED BY <2>1 DEF HKType, Speaker, Up, Request, Voices, hkNumbers
<1> QED BY <1>1, <1>2, <1>3

\* What is stored of a caption.
LEMMA StoredCaption ==
    ASSUME HKType, NEW i \in DOMAIN hkLog
    PROVE  /\ hkLog[i] \in Caption /\ hkLog[i].session \in Sessions /\ hkLog[i].seeded \in BOOLEAN
           /\ hkLog[i].seq \in 1..MaxCaptions /\ hkLog[i].seq \in Nat
           /\ hkLog[i].at \in Hours /\ hkLog[i].at \in Nat /\ i \in Nat
<1>1. hkLog[i] \in Caption /\ i \in Nat
    BY DEF HKType
<1> QED BY <1>1, HousekeepingAssumption DEF Caption, Hours

LEMMA NewestKept ==
    ASSUME HKType, NEW s \in Sessions
    PROVE  LastKept(s) \in Nat /\ \A i \in Kept(s) : hkLog[i].seq <= LastKept(s)
<1> DEFINE T == {0} \cup {hkLog[i].seq : i \in Kept(s)}
<1>1. MaxCaptions \in Nat /\ \A i \in Kept(s) : hkLog[i].seq \in 1..MaxCaptions
    BY HousekeepingAssumption, StoredCaption DEF HKType, Kept
<1>2. T \in SUBSET (0..MaxCaptions) /\ T # {}
    BY <1>1
<1>3. PICK m \in T : \A x \in T : x <= m
    <2> HIDE DEF T
    <2> QED BY <1>1, <1>2, LargestExists
<1>4. m \in Nat /\ \A x \in T : x \in Nat
    BY <1>1, <1>2
<1>5. \A i \in Kept(s) : hkLog[i].seq \in T
    OBVIOUS
<1>6. LastKept(s) = Max(T)
    BY DEF LastKept
<1> HIDE DEF T
<1>7. Max(T) \in T /\ \A x \in T : Max(T) >= x
    <2>1. \E n \in T : \A x \in T : n >= x
        BY <1>3, <1>4
    <2> QED BY <2>1 DEF Max
<1> QED BY <1>4, <1>5, <1>6, <1>7

LEMMA SessionTypes ==
    ASSUME HKType, NEW s \in Sessions, HKStop(s) \/ HKIngest(s) \/ HKDisconnect(s)
    PROVE  HKType'
<1> USE HousekeepingAssumption
<1>1. CASE HKStop(s)
    <2>1. /\ hkSessions' = [hkSessions EXCEPT ![s] = [status |-> "ended", ended |-> hkNow]]
          /\ UNCHANGED <<hkNow, hkJobs, hkLog, hkRows, hkVoices, hkNumbers, hkSpeaking,
                         hkFiles, hkEvicting, hkRequest, hkFaults>>
        BY <1>1 DEF HKStop, hkCache, hkServing
    <2> QED BY <2>1 DEF HKType, Speaker, Up, Request, Voices, hkNumbers
<1>2. CASE HKIngest(s) \/ HKDisconnect(s)
    <2>1. UNCHANGED <<hkNow, hkJobs, hkSessions, hkLog, hkRows, hkVoices, hkSpeaking,
                      hkFiles, hkEvicting, hkRequest, hkFaults>>
        BY <1>2 DEF HKIngest, HKDisconnect, hkStore, hkCache, hkServing
    <2>2. /\ hkNext' \in [Sessions -> Nat]
          /\ hkSeeded' \subseteq {r \in Sessions : hkNext'[r] # 0}
        <3>1. /\ hkNext \in [Sessions -> Nat]
              /\ hkSeeded \subseteq {r \in Sessions : hkNext[r] # 0}
            BY DEF HKType
        <3>2. CASE HKIngest(s)
            <4>1. PICK last \in {LastKept(s), 0} :
                    /\ hkNext' = [hkNext EXCEPT ![s] = last + 1]
                    /\ hkSeeded' = IF last = LastKept(s) THEN hkSeeded \cup {s} ELSE hkSeeded
                BY <3>2 DEF HKIngest
            <4>2. last + 1 \in Nat /\ last + 1 # 0
                BY NewestKept
            <4> QED BY <3>1, <4>1, <4>2
        <3>3. CASE HKDisconnect(s)
            BY <3>1, <3>3 DEF HKDisconnect
        <3> QED BY <1>2, <3>2, <3>3
    <2> QED BY <2>1, <2>2 DEF HKType, Speaker, Up, Request, Voices
<1> QED BY <1>1, <1>2

\* A number that is taken, whatever becomes of its caption.
LEMMA NumberTypes ==
    ASSUME HKType, NEW s \in Sessions, Numbered(s)
    PROVE  /\ hkNext[s] \in 1..MaxCaptions /\ UNCHANGED hkSeeded
           /\ hkNext' \in [Sessions -> Nat] /\ hkNext' = [hkNext EXCEPT ![s] = @ + 1]
           /\ hkSeeded' \subseteq {r \in Sessions : hkNext'[r] # 0}
<1> USE HousekeepingAssumption
<1>1. /\ hkNext[s] \in 1..MaxCaptions /\ UNCHANGED hkSeeded
      /\ hkNext' = [hkNext EXCEPT ![s] = @ + 1]
    BY DEF Numbered
<1>2. /\ hkNext \in [Sessions -> Nat]
      /\ hkSeeded \subseteq {r \in Sessions : hkNext[r] # 0}
    BY DEF HKType
<1>3. hkNext[s] + 1 \in Nat /\ hkNext[s] + 1 # 0
    BY <1>2
<1> QED BY <1>1, <1>2, <1>3

LEMMA CaptionTypes ==
    ASSUME HKType, NEW w \in Workers, NEW s \in Sessions, NEW x \in Texts, HKCaption(w, s, x)
    PROVE  HKType'
<1> USE HousekeepingAssumption
<1> DEFINE id == Len(hkLog) + 1
           caption == [session |-> s, seq |-> hkNext[s], at |-> hkNow, seeded |-> s \in hkSeeded]
<1>1. /\ Up(w) /\ Numbered(s) /\ Len(hkLog) < MaxCaptions
      /\ UNCHANGED <<hkNow, hkJobs, hkSessions, hkVoices, hkFiles, hkEvicting, hkRequest>>
      /\ hkLog' = Append(hkLog, caption) /\ hkRows' = hkRows \cup {id}
      /\ hkFaults' \in 0..MaxFaults
      /\ UNCHANGED hkSpeaking \/ Begins(id, x, w)
    BY DEF HKCaption, HKType, Fault, hkCache, hkServing
<1>2. caption \in Caption
    BY <1>1, NumberTypes DEF HKType, Caption
<1> HIDE DEF caption
<1>3. /\ hkLog' \in Seq(Caption) /\ Len(hkLog') = Len(hkLog) + 1 /\ Len(hkLog) \in Nat
      /\ DOMAIN hkLog = 1..Len(hkLog) /\ DOMAIN hkLog' = 1..Len(hkLog')
    BY <1>1, <1>2 DEF HKType
<1>4. /\ Len(hkLog') <= MaxCaptions /\ id \in DOMAIN hkLog'
      /\ \A i \in DOMAIN hkLog : i \in DOMAIN hkLog'
    BY <1>1, <1>3
<1>5. hkRows' \subseteq DOMAIN hkLog' /\ \A i \in hkRows : i \in hkRows'
    BY <1>1, <1>4 DEF HKType
<1> HIDE DEF id
<1>6. hkSpeaking' \subseteq Speaker'
    BY <1>1, <1>4 DEF HKType, Speaker, Up, Stages, Begins
<1>7. /\ hkVoices' \subseteq Voices' /\ \A v \in hkVoices' : v.id \in hkRows'
      /\ hkRequest' \in Request'
    <2>1. Voices \subseteq Voices'
        BY <1>4 DEF Voices
    <2> QED BY <1>1, <1>5, <2>1 DEF HKType, Request
<1> QED BY <1>1, <1>3, <1>4, <1>5, <1>6, <1>7, NumberTypes DEF HKType

LEMMA CaptionOverTypes ==
    ASSUME HKType, NEW s \in Sessions,
           \/ HKCaptionLost(s)
           \/ \E w \in Workers, x \in Texts : HKCaptionAgain(w, s, x)
    PROVE  HKType'
<1> USE HousekeepingAssumption
<1>1. /\ Numbered(s) /\ hkFaults' \in 0..MaxFaults
      /\ UNCHANGED <<hkNow, hkJobs, hkSessions, hkLog, hkRows, hkVoices, hkFiles, hkEvicting,
                     hkRequest>>
    BY DEF HKCaptionLost, HKCaptionAgain, HKType, Fault, hkStore, hkCache, hkServing
<1>2. hkSpeaking' \subseteq Speaker
    <2>1. CASE HKCaptionLost(s)
        BY <2>1 DEF HKCaptionLost, HKType
    <2>2. ASSUME NEW w \in Workers, NEW x \in Texts, HKCaptionAgain(w, s, x)
          PROVE  hkSpeaking' \subseteq Speaker
        <3>1. PICK i \in Same(s) : Begins(i, x, w) /\ Up(w)
            BY <2>2 DEF HKCaptionAgain
        <3>2. i \in DOMAIN hkLog /\ hkSpeaking \subseteq Speaker
            BY <3>1 DEF Same, Kept, HKType
        <3>3. [id |-> i, text |-> x, worker |-> w, stage |-> "translating"] \in Speaker
            BY <3>1, <3>2 DEF Speaker, Stages
        <3> QED BY <3>1, <3>2, <3>3 DEF Begins
    <2> QED BY <2>1, <2>2
<1>3. UNCHANGED <<Speaker, Voices, Request>>
    BY <1>1 DEF Speaker, Up, Voices, Request
<1> QED BY <1>1, <1>2, <1>3, NumberTypes DEF HKType

\* The ways files change.
LEMMA FileTypes ==
    ASSUME HKType, NEW x \in Texts, NEW stage,
           \/ UNCHANGED hkFiles \/ Removed(x)
           \/ hkFiles' = [hkFiles EXCEPT ![x] = Write(@, stage)]
           \/ hkFiles' = [hkFiles EXCEPT ![x].meta = Unreadable]
           \/ hkFiles' = [hkFiles EXCEPT ![x].meta = Missing]
           \/ hkFiles' = [hkFiles EXCEPT ![x].audio = Missing]
    PROVE  hkFiles' \in [Texts -> File]
<1>1. hkFiles \in [Texts -> File] /\ hkFiles[x] \in File /\ hkNow \in Hours
    BY DEF HKType
<1>2. /\ NoFile \in File /\ Write(hkFiles[x], stage) \in File
      /\ [hkFiles[x] EXCEPT !.meta = Unreadable] \in File
      /\ [hkFiles[x] EXCEPT !.meta = Missing] \in File
      /\ [hkFiles[x] EXCEPT !.audio = Missing] \in File
    BY <1>1 DEF File, NoFile, Write
<1>3. \E file \in File : hkFiles' = hkFiles \/ hkFiles' = [hkFiles EXCEPT ![x] = file]
    BY <1>1, <1>2 DEF Removed
<1> QED BY <1>1, <1>3

\* A translation that moves on, or ends.
LEMMA MoveTypes ==
    ASSUME HKType, NEW v \in hkSpeaking, NEW stage \in Stages, Moves(v, stage) \/ Ends(v)
    PROVE  /\ hkSpeaking' \subseteq Speaker
           /\ v.id \in DOMAIN hkLog /\ v.text \in Texts
<1>1. v \in Speaker /\ v.id \in DOMAIN hkLog /\ v.text \in Texts
    BY DEF HKType, Speaker
<1>2. [v EXCEPT !.stage = stage] \in Speaker
    BY <1>1 DEF Speaker
<1> QED BY <1>1, <1>2 DEF HKType, Moves, Ends

LEMMA SpeakTypes ==
    ASSUME HKType, NEW v \in hkSpeaking,
           HKTranslated(v) \/ HKTranslationFails(v) \/ HKWrite(v) \/ HKWriteFails(v)
    PROVE  HKType'
<1> USE HousekeepingAssumption
<1>1. \E stage \in Stages : Moves(v, stage) \/ Ends(v)
    BY DEF HKTranslated, HKTranslationFails, HKWrite, HKWriteFails, Stages
<1>2. /\ hkSpeaking' \subseteq Speaker /\ v.text \in Texts /\ v.id \in DOMAIN hkLog
    BY <1>1, MoveTypes
<1>3. /\ UNCHANGED <<hkNow, hkJobs, hkSessions, hkLog, hkRows, hkNumbers, hkEvicting, hkRequest>>
      /\ hkFaults' \in 0..MaxFaults
    BY DEF HKTranslated, HKTranslationFails, HKWrite, HKWriteFails, Fault, HKType, hkStore,
           hkCache, hkServing
<1>4. hkVoices' \subseteq Voices /\ \A u \in hkVoices' : u.id \in hkRows
    <2>1. UNCHANGED hkVoices \/ (v.id \in hkRows /\ VoiceStored(v))
        BY DEF HKTranslated, HKTranslationFails, HKWrite, HKWriteFails, hkStore
    <2>2. [id |-> v.id, at |-> hkNow, text |-> v.text] \in Voices
        BY <1>2 DEF Voices, HKType
    <2> QED BY <2>1, <2>2 DEF HKType, VoiceStored
<1>5. hkFiles' \in [Texts -> File]
    <2>1. \/ UNCHANGED hkFiles \/ Removed(v.text)
          \/ hkFiles' = [hkFiles EXCEPT ![v.text] = Write(@, v.stage)]
          \/ hkFiles' = [hkFiles EXCEPT ![v.text].meta = Unreadable]
        BY DEF HKTranslated, HKTranslationFails, HKWrite, HKWriteFails, AfterGet, hkCache
    <2> QED BY <1>2, <2>1, FileTypes
<1>6. UNCHANGED <<Speaker, Voices, Request>>
    BY <1>3 DEF Speaker, Up, Voices, Request
<1> QED BY <1>2, <1>3, <1>4, <1>5, <1>6 DEF HKType, hkNumbers

LEMMA PassTypes ==
    ASSUME HKType, NEW w \in Workers, HKRetentionPass(w)
    PROVE  HKType'
<1> USE HousekeepingAssumption
<1>1. /\ hkRows' = KeptRows /\ hkSessions' = Purged
      /\ hkVoices' = {v \in hkVoices : ~Old(v.at) /\ v.id \in KeptRows}
      /\ UNCHANGED <<hkNow, hkJobs, hkLog, hkNumbers, hkSpeaking, hkFiles, hkEvicting,
                     hkRequest, hkFaults>>
    BY DEF HKRetentionPass, hkCache, hkServing
<1>2. /\ hkRows' \subseteq DOMAIN hkLog /\ hkVoices' \subseteq Voices
      /\ \A v \in hkVoices' : v.id \in hkRows'
    BY <1>1 DEF KeptRows, HKType
<1>3. hkSessions' \in [Sessions -> [status : {"active", "ended", "gone"},
                                    ended : Hours \cup {Never}]]
    BY <1>1 DEF Purged, HKType
<1> QED BY <1>1, <1>2, <1>3 DEF HKType, Speaker, Up, Request, Voices, hkNumbers

LEMMA JobTypes ==
    ASSUME HKType, NEW w \in Workers, NEW x \in Texts,
           HKEvictRead(w, x) \/ HKEvictRemove(w) \/ HKEvictFails(w)
    PROVE  HKType'
<1> USE HousekeepingAssumption
<1>1. /\ UNCHANGED <<hkNow, hkJobs, hkSessions, hkLog, hkRows, hkVoices, hkNumbers, hkSpeaking,
                     hkRequest>>
      /\ hkFaults' \in 0..MaxFaults
    BY DEF HKEvictRead, HKEvictRemove, HKEvictFails, Fault, HKType, hkStore, hkServing
<1>2. hkEvicting' \in [Workers -> SUBSET Texts]
    <2>1. hkEvicting \in [Workers -> SUBSET Texts]
        BY DEF HKType
    <2>2. \/ UNCHANGED hkEvicting
          \/ hkEvicting' = [hkEvicting EXCEPT ![w] = {x}]
          \/ hkEvicting' = [hkEvicting EXCEPT ![w] = {}]
        BY DEF HKEvictRead, HKEvictRemove, HKEvictFails
    <2>3. {x} \in SUBSET Texts /\ {} \in SUBSET Texts
        OBVIOUS
    <2> QED BY <2>1, <2>2, <2>3
<1>3. hkFiles' \in [Texts -> File]
    <2>1. CASE HKEvictRead(w, x)
        BY <2>1, FileTypes DEF HKEvictRead
    <2>2. ASSUME NEW y \in hkEvicting[w],
                 Removed(y) \/ hkFiles' = [hkFiles EXCEPT ![y].audio = Missing]
          PROVE  hkFiles' \in [Texts -> File]
        <3>1. y \in Texts
            BY DEF HKType
        <3> QED BY <2>2, <3>1, FileTypes
    <2>3. CASE UNCHANGED hkFiles
        BY <2>3 DEF HKType
    <2> QED BY <2>1, <2>2, <2>3 DEF HKEvictRemove, HKEvictFails
<1> QED BY <1>1, <1>2, <1>3 DEF HKType, Speaker, Up, Request, Voices, hkNumbers

\* What is asked for.
LEMMA AskedText ==
    ASSUME HKType, hkRequest # NoRequest
    PROVE  hkRequest.voice \in Voices /\ hkRequest.voice.text \in Texts
BY DEF HKType, Request, Voices

LEMMA ServeTypes ==
    ASSUME HKType, HKLookUp \/ HKServe \/ \E v \in hkVoices : HKAsk(v)
    PROVE  HKType'
<1> USE HousekeepingAssumption
<1>1. /\ UNCHANGED <<hkNow, hkJobs, hkSessions, hkLog, hkRows, hkVoices, hkNumbers, hkSpeaking,
                     hkEvicting, hkFaults>>
    BY DEF HKLookUp, HKServe, HKAsk, hkStore, hkCache
<1>2. hkRequest' \in Request
    <2>1. CASE HKServe
        BY <2>1 DEF HKServe, Request
    <2>2. CASE HKLookUp
        <3>1. hkRequest' = NoRequest \/ hkRequest' = [hkRequest EXCEPT !.stage = "found"]
            BY <2>2 DEF HKLookUp
        <3>2. hkRequest \in [stage : {"checked", "found"}, voice : Voices]
            BY <2>2 DEF HKLookUp, HKType, Request, NoRequest
        <3> QED BY <3>1, <3>2 DEF Request
    <2>3. ASSUME NEW v \in hkVoices, HKAsk(v) PROVE hkRequest' \in Request
        <3>1. v \in Voices
            BY DEF HKType
        <3> QED BY <2>3, <3>1 DEF HKAsk, Request
    <2> QED BY <2>1, <2>2, <2>3
<1>3. hkFiles' \in [Texts -> File]
    <2>1. CASE HKServe
        <3>1. hkRequest.voice.text \in Texts
            BY <2>1, AskedText DEF HKServe, NoRequest
        <3>2. UNCHANGED hkFiles \/ Removed(hkRequest.voice.text)
            BY <2>1 DEF HKServe, AfterGet
        <3> QED BY <3>1, <3>2, FileTypes
    <2>2. CASE HKLookUp \/ \E v \in hkVoices : HKAsk(v)
        BY <2>2 DEF HKLookUp, HKAsk, HKType, hkCache
    <2> QED BY <2>1, <2>2
<1> QED BY <1>1, <1>2, <1>3 DEF HKType, Speaker, Up, Request, Voices, hkNumbers

-----------------------------------------------------------------------------
(* Captions and translations.                                              *)

\* What CaptionsKept says, in parts.
RowsExact ==
    hkRows = {i \in DOMAIN hkLog : /\ hkLog[i].at >= hkCutoff
                                   /\ hkSessions[hkLog[i].session].status # "gone"}
VoicesOfRows == \A v \in hkVoices : v.id \in hkRows /\ v.at >= hkLog[v.id].at
RowsInOrder ==
    \A i, j \in hkRows :
        i < j /\ hkLog[i].session = hkLog[j].session =>
          /\ hkLog[i].seq # hkLog[j].seq
          /\ hkLog[j].seeded => hkLog[i].seq < hkLog[j].seq
NextAfterRows ==
    \A s \in hkSeeded : \A i \in hkRows : hkLog[i].session = s => hkLog[i].seq < hkNext[s]

LEMMA KeptParts ==
    ASSUME HKType
    PROVE  CaptionsKept <=> RowsExact /\ VoicesOfRows /\ RowsInOrder /\ NextAfterRows
BY DEF CaptionsKept, RowsExact, VoicesOfRows, RowsInOrder, NextAfterRows, Kept

SameStore ==
    UNCHANGED <<hkSessions, hkLog, hkRows, hkVoices, hkCutoff, hkNumbers>> /\ hkNow <= hkNow'

LEMMA StoreFrame ==
    ASSUME HKType, HKType', CaptionsInv, SameStore
    PROVE  CaptionsInv'
<1>1. /\ UNCHANGED <<hkSessions, hkLog, hkRows, hkVoices, hkCutoff, hkNext, hkSeeded>>
      /\ hkNow \in Nat /\ hkNow' \in Nat /\ hkNow <= hkNow' /\ Retention \in Nat
    BY HousekeepingAssumption DEF SameStore, HKType, Hours, hkNumbers
<1>2. CaptionsKept'
    BY <1>1 DEF CaptionsInv, CaptionsKept, Kept
<1>3. \A i \in DOMAIN hkLog : hkLog[i].at <= hkNow'
    BY <1>1, StoredCaption DEF CaptionsInv
<1>4. hkCutoff \in Int /\ hkCutoff <= hkNow' - Retention
    <2>1. hkCutoff \in Int /\ hkCutoff <= hkNow - Retention
        BY DEF CaptionsInv
    <2>2. \A c \in Int, m, n, r \in Nat : c <= m - r /\ m <= n => c <= n - r
        OBVIOUS
    <2> QED BY <1>1, <2>1, <2>2
<1> QED BY <1>1, <1>2, <1>3, <1>4 DEF CaptionsInv

LEMMA SessionRows ==
    ASSUME HKType, HKType', CaptionsInv, NEW s \in Sessions,
           HKStop(s) \/ HKIngest(s) \/ HKDisconnect(s)
    PROVE  CaptionsInv'
<1>1. /\ CaptionsKept /\ RowsExact /\ VoicesOfRows /\ RowsInOrder /\ NextAfterRows
      /\ UNCHANGED <<hkNow, hkLog, hkRows, hkVoices, hkCutoff>>
    BY KeptParts DEF CaptionsInv, HKStop, HKIngest, HKDisconnect, hkStore
<1>2. RowsExact'
    <2>1. CASE HKStop(s)
        <3>1. /\ hkSessions' = [hkSessions EXCEPT ![s] = [status |-> "ended", ended |-> hkNow]]
              /\ hkSessions[s].status = "active"
            BY <2>1 DEF HKStop
        <3>2. \A t \in Sessions : hkSessions'[t].status = "gone" <=> hkSessions[t].status = "gone"
            BY <3>1 DEF HKType
        <3> QED BY <1>1, <3>2, StoredCaption DEF RowsExact
    <2>2. CASE HKIngest(s) \/ HKDisconnect(s)
        BY <1>1, <2>2 DEF HKIngest, HKDisconnect, hkStore, RowsExact
    <2> QED BY <2>1, <2>2
<1>3. VoicesOfRows' /\ RowsInOrder'
    BY <1>1 DEF VoicesOfRows, RowsInOrder
<1>4. NextAfterRows'
    <2>1. CASE HKStop(s)
        BY <1>1, <2>1 DEF HKStop, NextAfterRows, hkNumbers
    <2>2. CASE HKIngest(s)
        <3>1. /\ \A r \in hkSeeded' : r = s \/ (r \in hkSeeded /\ hkNext'[r] = hkNext[r])
              /\ s \in hkSeeded' => hkNext'[s] = LastKept(s) + 1
            <4>1. /\ hkNext \in [Sessions -> Nat] /\ hkNext[s] = 0
                  /\ hkSeeded \subseteq {r \in Sessions : hkNext[r] # 0}
                BY <2>2 DEF HKIngest, HKType
            <4>2. PICK last \in {LastKept(s), 0} :
                    /\ hkNext' = [hkNext EXCEPT ![s] = last + 1]
                    /\ hkSeeded' = IF last = LastKept(s) THEN hkSeeded \cup {s} ELSE hkSeeded
                BY <2>2 DEF HKIngest
            <4> QED BY <4>1, <4>2
        <3>2. \A i \in hkRows : hkLog[i].session = s => hkLog[i].seq < LastKept(s) + 1
            <4>1. /\ hkRows \subseteq DOMAIN hkLog /\ LastKept(s) \in Nat
                  /\ \A i \in hkRows : hkLog[i].session = s => hkLog[i].seq <= LastKept(s)
                BY NewestKept DEF HKType, Kept
            <4>2. \A i \in hkRows : hkLog[i].seq \in Nat
                BY <4>1, StoredCaption
            <4> QED BY <4>1, <4>2
        <3> QED BY <1>1, <3>1, <3>2 DEF NextAfterRows
    <2>3. CASE HKDisconnect(s)
        <3>1. hkNext' = [hkNext EXCEPT ![s] = 0] /\ hkSeeded' = hkSeeded \ {s}
            BY <2>3 DEF HKDisconnect
        <3> QED BY <1>1, <3>1 DEF HKType, NextAfterRows
    <2> QED BY <2>1, <2>2, <2>3
<1>5. CaptionsKept'
    BY <1>2, <1>3, <1>4 DEF CaptionsKept, RowsExact, VoicesOfRows, RowsInOrder, NextAfterRows, Kept
<1> QED BY <1>1, <1>5 DEF CaptionsInv

\* Numbers that are taken grow past what is stored of an operator numbered on.
LEMMA NumberedRows ==
    ASSUME HKType, CaptionsInv, NEW s \in Sessions, Numbered(s)
    PROVE  /\ s \in hkSeeded => \A i \in hkRows : hkLog[i].session = s => hkLog[i].seq < hkNext[s]
           /\ \A r \in hkSeeded : \A i \in hkRows :
                hkLog[i].session = r => hkLog[i].seq < hkNext'[r]
           /\ hkNext'[s] = hkNext[s] + 1 /\ hkNext[s] \in Nat /\ UNCHANGED hkSeeded
<1>1. /\ hkNext \in [Sessions -> Nat] /\ hkNext' = [hkNext EXCEPT ![s] = @ + 1]
      /\ hkSeeded \subseteq Sessions /\ UNCHANGED hkSeeded
    BY NumberTypes DEF HKType
<1>2. \A r \in hkSeeded : \A i \in hkRows :
        hkLog[i].session = r => hkLog[i].seq < hkNext[r] /\ hkLog[i].seq \in Nat
    BY KeptParts, StoredCaption DEF CaptionsInv, NextAfterRows, HKType
<1> QED BY <1>1, <1>2

LEMMA CaptionOverRows ==
    ASSUME HKType, CaptionsInv, NEW s \in Sessions,
           \/ HKCaptionLost(s)
           \/ \E w \in Workers, x \in Texts : HKCaptionAgain(w, s, x)
    PROVE  CaptionsInv'
<1>1. Numbered(s) /\ UNCHANGED <<hkNow, hkSessions, hkLog, hkRows, hkVoices, hkCutoff>>
    BY DEF HKCaptionLost, HKCaptionAgain, hkStore
<1>2. CaptionsKept'
    BY <1>1, NumberedRows DEF CaptionsInv, CaptionsKept, Kept
<1> QED BY <1>1, <1>2 DEF CaptionsInv

LEMMA CaptionRows ==
    ASSUME HKType, CaptionsInv, NEW w \in Workers, NEW s \in Sessions, NEW x \in Texts,
           HKCaption(w, s, x)
    PROVE  CaptionsInv'
<1> USE HousekeepingAssumption
<1> DEFINE id == Len(hkLog) + 1
           caption == [session |-> s, seq |-> hkNext[s], at |-> hkNow, seeded |-> s \in hkSeeded]
<1>1. /\ CaptionsKept /\ RowsExact /\ VoicesOfRows /\ RowsInOrder
      /\ Numbered(s) /\ Same(s) = {} /\ hkSessions[s].status # "gone"
      /\ hkLog' = Append(hkLog, caption) /\ hkRows' = hkRows \cup {id}
      /\ UNCHANGED <<hkNow, hkVoices, hkSessions, hkCutoff>>
    BY KeptParts DEF CaptionsInv, HKCaption
<1>2. /\ caption.session = s /\ caption.seq = hkNext[s] /\ caption.at = hkNow
      /\ caption.seeded => s \in hkSeeded
    OBVIOUS
<1> HIDE DEF caption
<1>3. /\ DOMAIN hkLog = 1..Len(hkLog) /\ Len(hkLog) \in Nat /\ id \in Nat
      /\ DOMAIN hkLog' = DOMAIN hkLog \cup {id} /\ id \notin DOMAIN hkLog
      /\ \A i \in DOMAIN hkLog : hkLog'[i] = hkLog[i] /\ i < id /\ i \in Nat
      /\ hkLog'[id] = caption
    <2>1. hkLog \in Seq(Caption)
        BY DEF HKType
    <2>2. /\ Len(hkLog) \in Nat /\ DOMAIN hkLog = 1..Len(hkLog)
          /\ DOMAIN Append(hkLog, caption) = 1..id
          /\ \A i \in 1..Len(hkLog) : Append(hkLog, caption)[i] = hkLog[i]
          /\ Append(hkLog, caption)[id] = caption
        BY <2>1
    <2>3. id = Len(hkLog) + 1
        OBVIOUS
    <2> HIDE DEF id
    <2> QED BY <1>1, <2>2, <2>3
<1> HIDE DEF id
<1>4. /\ hkNow \in Nat /\ hkCutoff \in Int /\ hkCutoff <= hkNow
      /\ hkCutoff <= hkNow - Retention
      /\ \A i \in DOMAIN hkLog : hkLog[i].at <= hkNow
    <2>1. /\ hkCutoff \in Int /\ hkCutoff <= hkNow - Retention
          /\ \A i \in DOMAIN hkLog : hkLog[i].at <= hkNow
        BY DEF CaptionsInv
    <2>2. hkNow \in Nat /\ Retention \in Nat
        BY DEF HKType, Hours
    <2> QED BY <2>1, <2>2
<1>5. /\ hkRows \subseteq DOMAIN hkLog
      /\ \A i \in hkRows : hkLog'[i] = hkLog[i] /\ i < id /\ i \in Nat
    BY <1>3 DEF HKType
<1>6. RowsExact'
    BY <1>1, <1>2, <1>3, <1>4 DEF RowsExact
<1>7. VoicesOfRows'
    BY <1>1, <1>5 DEF VoicesOfRows
<1>8. RowsInOrder'
    <2> SUFFICES ASSUME NEW i \in hkRows', NEW j \in hkRows', i < j,
                        hkLog'[i].session = hkLog'[j].session
                 PROVE  /\ hkLog'[i].seq # hkLog'[j].seq
                        /\ hkLog'[j].seeded => hkLog'[i].seq < hkLog'[j].seq
        BY DEF RowsInOrder
    <2>1. i \in hkRows
        BY <1>1, <1>3, <1>5
    <2>2. CASE j \in hkRows
        BY <1>1, <1>5, <2>1, <2>2 DEF RowsInOrder
    <2>3. CASE j = id
        <3>1. hkLog'[j] = caption /\ hkLog'[i] = hkLog[i] /\ hkLog[i].session = s
            BY <1>2, <1>3, <1>5, <2>1, <2>3
        <3>2. hkLog[i].seq # hkNext[s]
            BY <1>1, <2>1, <3>1 DEF Same, Kept
        <3>3. s \in hkSeeded => hkLog[i].seq < hkNext[s]
            BY <1>1, <2>1, <3>1, NumberedRows
        <3> QED BY <1>2, <3>1, <3>2, <3>3
    <2> QED BY <1>1, <2>2, <2>3
<1>9. NextAfterRows'
    <2> SUFFICES ASSUME NEW r \in hkSeeded', NEW i \in hkRows', hkLog'[i].session = r
                 PROVE  hkLog'[i].seq < hkNext'[r]
        BY DEF NextAfterRows
    <2>1. CASE i = id
        BY <1>1, <1>2, <1>3, <2>1, NumberedRows
    <2>2. CASE i \in hkRows
        BY <1>1, <1>5, <2>2, NumberedRows
    <2> QED BY <1>1, <2>1, <2>2
<1>10. CaptionsKept'
    BY <1>6, <1>7, <1>8, <1>9
    DEF CaptionsKept, RowsExact, VoicesOfRows, RowsInOrder, NextAfterRows, Kept
<1> QED BY <1>1, <1>2, <1>3, <1>4, <1>10 DEF CaptionsInv

LEMMA TranslatedRows ==
    ASSUME HKType, HKType', CaptionsInv, NEW v \in hkSpeaking,
           HKTranslated(v) \/ HKTranslationFails(v)
    PROVE  CaptionsInv'
<1>1. /\ CaptionsKept /\ RowsExact /\ VoicesOfRows /\ RowsInOrder /\ NextAfterRows
      /\ UNCHANGED <<hkNow, hkLog, hkRows, hkSessions, hkCutoff, hkNext, hkSeeded>>
    BY KeptParts DEF CaptionsInv, HKTranslated, HKTranslationFails, hkNumbers
<1>2. VoicesOfRows'
    <2>1. CASE UNCHANGED hkVoices
        BY <1>1, <2>1 DEF VoicesOfRows
    <2>2. CASE v.id \in hkRows /\ VoiceStored(v)
        <3>1. v.id \in DOMAIN hkLog
            BY <2>2 DEF HKType
        <3>2. hkLog[v.id].at <= hkNow /\ hkLog[v.id].at \in Nat /\ hkNow \in Nat
            <4>1. hkLog[v.id].at <= hkNow
                BY <3>1 DEF CaptionsInv
            <4>2. hkLog[v.id].at \in Nat
                BY <3>1, StoredCaption
            <4>3. hkNow \in Nat
                BY DEF HKType, Hours
            <4> QED BY <4>1, <4>2, <4>3
        <3> QED BY <1>1, <2>2, <3>2 DEF VoicesOfRows, VoiceStored
    <2> QED BY <2>1, <2>2 DEF HKTranslated, HKTranslationFails
<1>3. RowsExact' /\ RowsInOrder' /\ NextAfterRows'
    BY <1>1 DEF RowsExact, RowsInOrder, NextAfterRows
<1>4. CaptionsKept'
    BY <1>2, <1>3 DEF CaptionsKept, RowsExact, VoicesOfRows, RowsInOrder, NextAfterRows, Kept
<1> QED BY <1>1, <1>4 DEF CaptionsInv

LEMMA PassRows ==
    ASSUME HKType, HKType', CaptionsInv, NEW w \in Workers, HKRetentionPass(w)
    PROVE  CaptionsInv'
<1> USE HousekeepingAssumption
<1>1. /\ CaptionsKept /\ RowsExact /\ VoicesOfRows /\ RowsInOrder /\ NextAfterRows
      /\ hkRows' = KeptRows /\ hkSessions' = Purged /\ hkCutoff' = hkNow - Retention
      /\ hkVoices' = {v \in hkVoices : ~Old(v.at) /\ v.id \in KeptRows}
      /\ UNCHANGED <<hkNow, hkLog, hkNext, hkSeeded>>
    BY KeptParts DEF CaptionsInv, HKRetentionPass, hkNumbers
<1>2. /\ hkNow \in Nat /\ hkCutoff \in Int /\ hkCutoff <= hkNow - Retention
      /\ hkRows' \subseteq hkRows
    BY <1>1 DEF CaptionsInv, HKType, Hours, KeptRows
<1>3. RowsExact'
    <2>1. ASSUME NEW i \in DOMAIN hkLog
          PROVE  i \in hkRows' <=> /\ hkLog[i].at >= hkNow - Retention
                                   /\ hkSessions'[hkLog[i].session].status # "gone"
        <3> DEFINE s == hkLog[i].session
        <3>1. s \in Sessions /\ hkLog[i].at \in Nat
            BY StoredCaption
        <3>2. hkSessions'[s].status = IF s \in OverSessions THEN "gone" ELSE hkSessions[s].status
            BY <1>1, <3>1 DEF Purged, HKType
        <3>3. hkLog[i].at >= hkNow - Retention <=> ~Old(hkLog[i].at)
            BY <1>2, <3>1 DEF Old
        <3>4. hkLog[i].at >= hkNow - Retention => hkLog[i].at >= hkCutoff
            BY <1>2, <3>1
        <3>5. i \in hkRows <=> hkLog[i].at >= hkCutoff /\ hkSessions[s].status # "gone"
            BY <1>1 DEF RowsExact
        <3>6. i \in hkRows' <=> i \in hkRows /\ ~Old(hkLog[i].at) /\ s \notin OverSessions
            BY <1>1 DEF KeptRows
        <3> HIDE DEF s
        <3> QED BY <3>2, <3>3, <3>4, <3>5, <3>6 DEF s
    <2>2. hkRows' \subseteq DOMAIN hkLog
        BY <1>2 DEF HKType
    <2> QED BY <1>1, <2>1, <2>2 DEF RowsExact
<1>4. VoicesOfRows' /\ RowsInOrder' /\ NextAfterRows'
    BY <1>1, <1>2 DEF VoicesOfRows, RowsInOrder, NextAfterRows
<1>5. CaptionsKept'
    BY <1>3, <1>4 DEF CaptionsKept, RowsExact, VoicesOfRows, RowsInOrder, NextAfterRows, Kept
<1> QED BY <1>1, <1>2, <1>5 DEF CaptionsInv

-----------------------------------------------------------------------------
(* Audio files.                                                            *)

\* No write is due that was not, and the files are the same.
SameFiles ==
    /\ UNCHANGED <<hkNow, hkFiles, hkReply>>
    /\ \A v \in hkSpeaking' : v.stage = "writing" => v \in hkSpeaking

LEMMA FilesFrame ==
    ASSUME FilesInv, SameFiles
    PROVE  FilesInv'
BY DEF FilesInv, SameFiles, ServedAudioFresh

LEMMA TickFiles ==
    ASSUME HKType, HKType', FilesInv, HKTick
    PROVE  FilesInv'
<1>1. /\ hkNow' = hkNow + 1 /\ hkNow \in Nat /\ \A v \in hkSpeaking : v.stage # "writing"
      /\ UNCHANGED <<hkFiles, hkReply, hkSpeaking>>
    BY HousekeepingAssumption DEF HKTick, HKType, Hours, hkStore, hkCache, hkServing
<1>2. \A x \in Texts : FileInOrder(hkFiles'[x], hkNow')
    <2>1. \A x \in Texts : FileInOrder(hkFiles[x], hkNow)
        BY DEF FilesInv
    <2>2. \A m \in Hours : m <= hkNow => m <= hkNow + 1
        BY <1>1, HousekeepingAssumption DEF Hours
    <2> QED BY <1>1, <2>1, <2>2 DEF FileInOrder
<1> QED BY <1>1, <1>2 DEF FilesInv, ServedAudioFresh

\* An entry that is removed, in part or as a whole, or whose time cannot be read.
LEMMA LessFile ==
    ASSUME HKType, FilesInv, NEW x \in Texts,
           \/ UNCHANGED hkFiles \/ Removed(x)
           \/ hkFiles' = [hkFiles EXCEPT ![x].meta = Unreadable]
           \/ hkFiles' = [hkFiles EXCEPT ![x].meta = Missing]
           \/ hkFiles' = [hkFiles EXCEPT ![x].audio = Missing]
    PROVE  /\ \A y \in Texts : FileInOrder(hkFiles'[y], hkNow)
           /\ \A y \in Texts : \/ hkFiles'[y].audio = Missing
                               \/ hkFiles'[y].audio = hkFiles[y].audio
<1>1. hkFiles \in [Texts -> File] /\ \A y \in Texts : FileInOrder(hkFiles[y], hkNow)
    BY DEF HKType, FilesInv
<1>2. Missing \notin Hours /\ Unreadable \notin Hours
    BY HousekeepingAssumption DEF Missing, Unreadable, Hours
<1>3. \E file \in File :
        /\ hkFiles' = hkFiles \/ hkFiles' = [hkFiles EXCEPT ![x] = file]
        /\ file.meta \notin Hours \/ (file.meta = hkFiles[x].meta /\ file.audio = Missing)
        /\ file.audio = Missing \/ file.audio = hkFiles[x].audio
    <2>1. NoFile \in File /\ NoFile.meta = Missing /\ NoFile.audio = Missing
        BY DEF NoFile, File
    <2>2. /\ [hkFiles[x] EXCEPT !.meta = Unreadable] \in File
          /\ [hkFiles[x] EXCEPT !.meta = Unreadable].meta = Unreadable
          /\ [hkFiles[x] EXCEPT !.meta = Unreadable].audio = hkFiles[x].audio
        BY <1>1 DEF File
    <2>3. /\ [hkFiles[x] EXCEPT !.meta = Missing] \in File
          /\ [hkFiles[x] EXCEPT !.meta = Missing].meta = Missing
          /\ [hkFiles[x] EXCEPT !.meta = Missing].audio = hkFiles[x].audio
        BY <1>1 DEF File
    <2>4. CASE UNCHANGED hkFiles \/ Removed(x)
        BY <1>2, <2>1, <2>4 DEF Removed
    <2>5. CASE hkFiles' = [hkFiles EXCEPT ![x].meta = Unreadable]
        BY <1>1, <1>2, <2>2, <2>5
    <2>6. CASE hkFiles' = [hkFiles EXCEPT ![x].meta = Missing]
        BY <1>1, <1>2, <2>3, <2>6
    <2>7. CASE hkFiles' = [hkFiles EXCEPT ![x].audio = Missing]
        <3> DEFINE file == [hkFiles[x] EXCEPT !.audio = Missing]
        <3>1. file \in File /\ file.meta = hkFiles[x].meta /\ file.audio = Missing
            BY <1>1 DEF File
        <3>2. hkFiles' = [hkFiles EXCEPT ![x] = file]
            BY <2>7
        <3> QED BY <3>1, <3>2
    <2> QED BY <2>4, <2>5, <2>6, <2>7
<1>4. PICK file \in File :
        /\ hkFiles' = hkFiles \/ hkFiles' = [hkFiles EXCEPT ![x] = file]
        /\ file.meta \notin Hours \/ (file.meta = hkFiles[x].meta /\ file.audio = Missing)
        /\ file.audio = Missing \/ file.audio = hkFiles[x].audio
    BY <1>3
<1>5. \A y \in Texts : hkFiles'[y] = hkFiles[y] \/ (y = x /\ hkFiles'[y] = file)
    BY <1>1, <1>4
<1> QED BY <1>1, <1>4, <1>5 DEF FileInOrder

LEMMA LessFiles ==
    ASSUME HKType, FilesInv, NEW x \in Texts,
           \/ UNCHANGED hkFiles \/ Removed(x)
           \/ hkFiles' = [hkFiles EXCEPT ![x].meta = Unreadable]
           \/ hkFiles' = [hkFiles EXCEPT ![x].meta = Missing]
           \/ hkFiles' = [hkFiles EXCEPT ![x].audio = Missing],
           UNCHANGED hkNow,
           hkReply' \in Int /\ hkReply' <= Retention,
           \A v \in hkSpeaking' : v.stage = "writing" => v \in hkSpeaking
    PROVE  FilesInv'
<1>1. /\ \A y \in Texts : FileInOrder(hkFiles'[y], hkNow)
      /\ \A y \in Texts : hkFiles'[y].audio = Missing \/ hkFiles'[y].audio = hkFiles[y].audio
    BY LessFile
<1>2. \A v \in hkSpeaking : v.text \in Texts
    BY DEF HKType, Speaker
<1>3. \A v \in hkSpeaking' :
        v.stage = "writing" => hkFiles'[v.text].audio \in {hkNow, Missing}
    BY <1>1, <1>2 DEF FilesInv
<1> QED BY <1>1, <1>3 DEF FilesInv, ServedAudioFresh

LEMMA WriteFiles ==
    ASSUME HKType, FilesInv, NEW v \in hkSpeaking, HKWrite(v)
    PROVE  FilesInv'
<1> DEFINE x == v.text
           file == Write(hkFiles[x], v.stage)
<1>1. /\ v.stage \in {"calling", "writing"}
      /\ hkFiles' = [hkFiles EXCEPT ![x] = file]
      /\ UNCHANGED <<hkNow, hkReply>>
      /\ v.stage = "calling" => Moves(v, "writing")
      /\ v.stage = "writing" => Ends(v)
    BY DEF HKWrite, hkStore, hkServing
<1>2. /\ v \in Speaker /\ x \in Texts /\ hkFiles \in [Texts -> File] /\ hkNow \in Hours
      /\ hkFiles[x] \in File /\ FileInOrder(hkFiles[x], hkNow)
      /\ \A u \in hkSpeaking : u.text \in Texts
    BY DEF HKType, Speaker, FilesInv
<1>3. \A m \in Hours : m \in Nat /\ m <= m
    BY HousekeepingAssumption DEF Hours
<1>4. v.stage = "writing" => hkFiles[x].audio \in {hkNow, Missing}
    BY DEF FilesInv
<1>5. /\ FileInOrder(file, hkNow)
      /\ v.stage = "calling" => file.audio = hkNow
      /\ v.stage = "writing" => file.audio = hkFiles[x].audio
    <2>1. CASE v.stage = "calling"
        <3>1. file = [hkFiles[x] EXCEPT !.audio = hkNow]
            BY <2>1 DEF Write
        <3>2. file.audio = hkNow /\ file.meta = hkFiles[x].meta
            BY <1>2, <3>1 DEF File
        <3> QED BY <1>2, <2>1, <3>2 DEF FileInOrder
    <2>2. CASE v.stage = "writing"
        <3>1. file = [hkFiles[x] EXCEPT !.meta = hkNow]
            BY <2>2 DEF Write
        <3>2. file.meta = hkNow /\ file.audio = hkFiles[x].audio
            BY <1>2, <3>1 DEF File
        <3> QED BY <1>2, <1>3, <1>4, <2>2, <3>2 DEF FileInOrder
    <2> QED BY <1>1, <2>1, <2>2
<1> HIDE DEF file
<1>6. \A y \in Texts : hkFiles'[y] = IF y = x THEN file ELSE hkFiles[y]
    BY <1>1, <1>2
<1>7. \A y \in Texts : FileInOrder(hkFiles'[y], hkNow)
    BY <1>5, <1>6 DEF FilesInv
<1>8. ASSUME NEW u \in hkSpeaking', u.stage = "writing"
      PROVE  hkFiles'[u.text].audio \in {hkNow, Missing}
    <2>1. CASE v.stage = "calling"
        <3>1. u \in hkSpeaking \/ u = [v EXCEPT !.stage = "writing"]
            BY <1>1, <2>1 DEF Moves
        <3>2. CASE u = [v EXCEPT !.stage = "writing"]
            <4>1. u.text = v.text
                BY <1>2, <3>2 DEF Speaker
            <4> QED BY <1>2, <1>5, <1>6, <2>1, <4>1
        <3>3. CASE u \in hkSpeaking
            BY <1>2, <1>5, <1>6, <1>8, <2>1, <3>3 DEF FilesInv
        <3> QED BY <3>1, <3>2, <3>3
    <2>2. CASE v.stage = "writing"
        <3>1. u \in hkSpeaking
            BY <1>1, <2>2 DEF Ends
        <3> QED BY <1>2, <1>4, <1>5, <1>6, <1>8, <2>2, <3>1 DEF FilesInv
    <2> QED BY <1>1, <2>1, <2>2
<1> QED BY <1>1, <1>7, <1>8 DEF FilesInv, ServedAudioFresh

LEMMA ServeFiles ==
    ASSUME HKType, FilesInv, HKServe
    PROVE  FilesInv'
<1> DEFINE x == hkRequest.voice.text
<1>1. /\ hkRequest.stage = "found" /\ AfterGet(x)
      /\ hkReply' = IF Found(x) THEN hkNow - hkFiles[x].audio ELSE Missing
      /\ UNCHANGED <<hkNow, hkSpeaking>>
    BY DEF HKServe
<1>2. x \in Texts
    BY <1>1, AskedText DEF NoRequest
<1>3. UNCHANGED hkFiles \/ Removed(x)
    BY <1>1 DEF AfterGet
<1>4. hkReply' \in Int /\ hkReply' <= Retention
    <2>1. CASE ~Found(x)
        BY <1>1, <2>1, HousekeepingAssumption DEF Missing
    <2>2. CASE Found(x)
        <3>1. /\ hkFiles[x] \in File /\ hkNow \in Hours /\ FileInOrder(hkFiles[x], hkNow)
              /\ hkFiles[x].audio # Missing /\ hkFiles[x].meta \notin {Missing, Unreadable}
              /\ ~Old(hkFiles[x].meta)
            BY <1>2, <2>2 DEF Found, HKType, FilesInv
        <3>2. hkFiles[x].audio \in Hours /\ hkFiles[x].meta \in Hours
            BY <3>1 DEF File
        <3>3. hkFiles[x].meta <= hkFiles[x].audio /\ ~(hkFiles[x].meta < hkNow - Retention)
            BY <3>1, <3>2 DEF FileInOrder, Old
        <3>4. hkFiles[x].audio \in Nat /\ hkFiles[x].meta \in Nat /\ hkNow \in Nat /\ Retention \in Nat
            BY <3>1, <3>2, HousekeepingAssumption DEF Hours
        <3> QED BY <1>1, <2>2, <3>3, <3>4
    <2> QED BY <2>1, <2>2
<1>5. \A v \in hkSpeaking' : v.stage = "writing" => v \in hkSpeaking
    BY <1>1
<1> HIDE DEF x
<1> QED BY <1>1, <1>2, <1>3, <1>4, <1>5, LessFiles

-----------------------------------------------------------------------------
(* The invariant of Housekeeping.                                          *)

LEMMA RowsStep ==
    ASSUME HKInv, RowsNext
    PROVE  HKInv'
<1>1. HKType /\ CaptionsInv /\ FilesInv
    BY DEF HKInv
<1>2. /\ hkReply \in Int /\ hkReply <= Retention
      /\ hkNow \in Nat
    BY <1>1, HousekeepingAssumption DEF FilesInv, ServedAudioFresh, HKType, Hours
<1>3. CASE HKTick
    <2>1. HKType'
        BY <1>1, <1>3, TickTypes
    <2>2. SameStore
        BY <1>2, <1>3 DEF HKTick, SameStore, hkStore
    <2> QED BY <1>1, <1>3, <2>1, <2>2, StoreFrame, TickFiles DEF HKInv
<1>4. ASSUME NEW w \in Workers, HKDown(w) \/ HKUp(w) \/ HKPassFails(w) PROVE HKInv'
    <2>1. HKType'
        BY <1>1, <1>4, ProcessTypes
    <2>2. SameStore
        BY <1>2, <1>4 DEF HKDown, HKUp, HKPassFails, SameStore, hkStore
    <2>3. SameFiles
        BY <1>4 DEF HKDown, HKUp, HKPassFails, SameFiles, hkStore, hkCache, hkServing
    <2> QED BY <1>1, <2>1, <2>2, <2>3, StoreFrame, FilesFrame DEF HKInv
<1>5. ASSUME NEW w \in Workers, HKRetentionPass(w) PROVE HKInv'
    <2>1. HKType'
        BY <1>1, <1>5, PassTypes
    <2>2. SameFiles
        BY <1>5 DEF HKRetentionPass, SameFiles, hkCache, hkServing
    <2> QED BY <1>1, <1>5, <2>1, <2>2, PassRows, FilesFrame DEF HKInv
<1>6. ASSUME NEW s \in Sessions, HKStop(s) \/ HKIngest(s) \/ HKDisconnect(s) PROVE HKInv'
    <2>1. HKType'
        BY <1>1, <1>6, SessionTypes
    <2>2. SameFiles
        BY <1>6 DEF HKStop, HKIngest, HKDisconnect, SameFiles, hkStore, hkCache, hkServing
    <2> QED BY <1>1, <1>6, <2>1, <2>2, SessionRows, FilesFrame DEF HKInv
<1>7. ASSUME NEW w \in Workers, NEW s \in Sessions, NEW x \in Texts, HKCaption(w, s, x)
      PROVE  HKInv'
    <2>1. HKType'
        BY <1>1, <1>7, CaptionTypes
    <2>2. SameFiles
        <3>1. UNCHANGED <<hkNow, hkFiles, hkReply>>
            BY <1>7 DEF HKCaption, hkCache, hkServing
        <3>2. UNCHANGED hkSpeaking \/ Begins(Len(hkLog) + 1, x, w)
            BY <1>7 DEF HKCaption
        <3> QED BY <3>1, <3>2 DEF SameFiles, Begins
    <2> QED BY <1>1, <1>7, <2>1, <2>2, CaptionRows, FilesFrame DEF HKInv
<1>8. ASSUME NEW s \in Sessions,
             \/ HKCaptionLost(s)
             \/ \E w \in Workers, x \in Texts : HKCaptionAgain(w, s, x)
      PROVE  HKInv'
    <2>1. HKType'
        BY <1>1, <1>8, CaptionOverTypes
    <2>2. SameFiles
        BY <1>8 DEF HKCaptionLost, HKCaptionAgain, Begins, SameFiles, hkCache, hkServing
    <2> QED BY <1>1, <1>8, <2>1, <2>2, CaptionOverRows, FilesFrame DEF HKInv
<1>9. ASSUME NEW v \in hkSpeaking, HKTranslated(v) \/ HKTranslationFails(v) PROVE HKInv'
    <2>1. HKType'
        BY <1>1, <1>9, SpeakTypes
    <2>2. v.text \in Texts
        BY <1>1 DEF HKType, Speaker
    <2>3. /\ UNCHANGED hkFiles \/ Removed(v.text)
          /\ UNCHANGED <<hkNow, hkReply>>
          /\ Moves(v, "calling") \/ Ends(v)
        BY <1>9 DEF HKTranslated, HKTranslationFails, AfterGet, hkServing, hkCache
    <2>4. \A u \in hkSpeaking' : u.stage = "writing" => u \in hkSpeaking
        <3>1. [v EXCEPT !.stage = "calling"].stage = "calling"
            BY <1>1 DEF HKType, Speaker
        <3> QED BY <2>3, <3>1 DEF Moves, Ends
    <2>5. FilesInv'
        BY <1>1, <1>2, <2>2, <2>3, <2>4, LessFiles
    <2> QED BY <1>1, <1>9, <2>1, <2>5, TranslatedRows DEF HKInv
<1> QED BY <1>3, <1>4, <1>5, <1>6, <1>7, <1>8, <1>9 DEF RowsNext

LEMMA FilesStep ==
    ASSUME HKInv, FilesNext
    PROVE  HKInv'
<1>1. HKType /\ CaptionsInv /\ FilesInv
    BY DEF HKInv
<1>2. hkReply \in Int /\ hkReply <= Retention /\ hkNow \in Nat
    BY <1>1, HousekeepingAssumption DEF FilesInv, ServedAudioFresh, HKType, Hours
<1>3. SameStore
    <2>1. UNCHANGED <<hkStore, hkNow, hkNumbers>>
        BY DEF FilesNext, HKEvictRemove, HKEvictFails, HKEvictRead, HKWrite, HKWriteFails, HKAsk,
               HKLookUp, HKServe
    <2> QED BY <1>2, <2>1 DEF SameStore, hkStore
<1>4. SUFFICES HKType' /\ FilesInv'
    BY <1>1, <1>3, StoreFrame DEF HKInv
<1>5. ASSUME NEW w \in Workers, NEW x \in Texts, HKEvictRead(w, x) PROVE HKType' /\ FilesInv'
    <2>1. /\ \/ UNCHANGED hkFiles \/ hkFiles' = [hkFiles EXCEPT ![x].meta = Missing]
          /\ UNCHANGED <<hkNow, hkReply, hkSpeaking>>
        BY <1>5 DEF HKEvictRead, hkServing
    <2> QED BY <1>1, <1>2, <1>5, <2>1, JobTypes, LessFiles
<1>6. ASSUME NEW w \in Workers, HKEvictRemove(w) \/ HKEvictFails(w)
      PROVE  HKType' /\ FilesInv'
    <2>1. UNCHANGED <<hkNow, hkReply, hkSpeaking>>
        BY <1>6 DEF HKEvictRemove, HKEvictFails, hkServing
    <2>2. ASSUME NEW x \in hkEvicting[w],
                 Removed(x) \/ hkFiles' = [hkFiles EXCEPT ![x].audio = Missing]
          PROVE  HKType' /\ FilesInv'
        <3>1. x \in Texts
            BY <1>1 DEF HKType
        <3>2. FilesInv'
            BY <1>1, <1>2, <2>1, <2>2, <3>1, LessFiles
        <3> QED BY <1>1, <1>6, <3>1, <3>2, JobTypes
    <2>3. CASE HKEvictFails(w) /\ UNCHANGED hkFiles
        <3>1. SameFiles
            BY <2>1, <2>3 DEF SameFiles
        <3>2. UNCHANGED <<hkNow, hkJobs, hkSessions, hkLog, hkRows, hkVoices, hkNumbers,
                          hkSpeaking, hkRequest>>
            BY <2>3 DEF HKEvictFails, hkStore, hkServing
        <3>3. hkFaults' \in 0..MaxFaults /\ hkEvicting' = [hkEvicting EXCEPT ![w] = {}]
            BY <1>1, <2>3, HousekeepingAssumption DEF HKEvictFails, Fault, HKType
        <3>4. HKType'
            BY <1>1, <2>3, <3>2, <3>3 DEF HKType, Speaker, Up, Request, Voices, hkNumbers
        <3> QED BY <1>1, <3>1, <3>4, FilesFrame
    <2> QED BY <1>6, <2>2, <2>3 DEF HKEvictRemove, HKEvictFails
<1>7. ASSUME NEW v \in hkSpeaking, HKWrite(v) PROVE HKType' /\ FilesInv'
    BY <1>1, <1>7, SpeakTypes, WriteFiles
<1>8. ASSUME NEW v \in hkSpeaking, HKWriteFails(v) PROVE HKType' /\ FilesInv'
    <2>1. v.text \in Texts
        BY <1>1 DEF HKType, Speaker
    <2>2. /\ UNCHANGED hkFiles \/ hkFiles' = [hkFiles EXCEPT ![v.text].meta = Unreadable]
          /\ UNCHANGED <<hkNow, hkReply>>
          /\ \A u \in hkSpeaking' : u \in hkSpeaking
        BY <1>8 DEF HKWriteFails, Ends, hkServing
    <2>3. FilesInv'
        BY <1>1, <1>2, <2>1, <2>2, LessFiles
    <2> QED BY <1>1, <1>8, <2>3, SpeakTypes
<1>9. ASSUME NEW v \in hkVoices, HKAsk(v) PROVE HKType' /\ FilesInv'
    <2>1. HKType'
        BY <1>1, <1>9, ServeTypes
    <2>2. hkReply' = Missing /\ UNCHANGED <<hkNow, hkFiles, hkSpeaking>>
        BY <1>9 DEF HKAsk, hkCache
    <2> QED BY <1>1, <2>1, <2>2, HousekeepingAssumption
            DEF FilesInv, ServedAudioFresh, Missing
<1>10. CASE HKLookUp
    <2>1. HKType'
        BY <1>1, <1>10, ServeTypes
    <2>2. SameFiles
        BY <1>10 DEF HKLookUp, SameFiles, hkCache
    <2> QED BY <1>1, <2>1, <2>2, FilesFrame
<1>11. CASE HKServe
    BY <1>1, <1>11, ServeTypes, ServeFiles
<1> QED BY <1>5, <1>6, <1>7, <1>8, <1>9, <1>10, <1>11 DEF FilesNext

LEMMA HKStepInv == HKInv /\ [HKNext]_hkVars => HKInv'
<1> SUFFICES ASSUME HKInv, [HKNext]_hkVars PROVE HKInv'
    OBVIOUS
<1>1. CASE UNCHANGED hkVars
    <2>1. HKType /\ CaptionsInv /\ FilesInv
        BY DEF HKInv
    <2>2. /\ UNCHANGED <<hkNow, hkJobs, hkSessions, hkLog, hkRows, hkVoices, hkCutoff, hkNumbers,
                         hkSpeaking, hkFiles, hkEvicting, hkRequest, hkReply, hkFaults>>
        BY <1>1 DEF hkVars, hkStore, hkCache, hkServing
    <2>3. HKType'
        BY <2>1, <2>2 DEF HKType, Speaker, Up, Request, Voices, hkNumbers
    <2>4. SameStore /\ SameFiles
        BY <2>1, <2>2, HousekeepingAssumption DEF SameStore, SameFiles, HKType, Hours
    <2> QED BY <2>1, <2>3, <2>4, StoreFrame, FilesFrame DEF HKInv
<1> QED BY <1>1, RowsStep, FilesStep DEF HKNext

LEMMA HKInvariant == HKSpec => []HKInv
BY HKInitInv, HKStepInv, PTL DEF HKSpec

\* What is stored is what no retention pass had to delete, every translation
\* with its caption.  Wherever operators start their numbers, no two captions
\* left of a session share one, and those of an operator who was numbered on
\* from the rows come after all that were stored before: for any number of
\* workers, sessions and captions.
THEOREM CaptionsStayKept == HKSpec => []CaptionsKept
<1>1. HKInv => CaptionsKept
    BY DEF HKInv, CaptionsInv
<1> QED BY <1>1, HKInvariant, PTL

\* No audio older than the retention is sent, whatever crashes, failed writes
\* and other processes leave on disk.
THEOREM AudioIsFresh == HKSpec => []ServedAudioFresh
<1>1. HKInv => ServedAudioFresh
    BY DEF HKInv, FilesInv
<1> QED BY <1>1, HKInvariant, PTL

LEMMA HouseTyped == HKInv => HKTypeOK
BY DEF HKInv, HKType, HKTypeOK, Speaker, Stages, File, Request

\* Every translation stored or under way has its caption, and only workers
\* that run are at work.
THEOREM HouseTypes == HKSpec => []HKTypeOK
BY HouseTyped, HKInvariant, PTL

-----------------------------------------------------------------------------
(* What is overdue goes: what holds of states and single steps beneath     *)
(* ExpiredGone, which says that passes and evictions do happen.            *)

\* A pass leaves nothing overdue, whichever worker makes it.
PassesClear == \A w \in Workers : HKRetentionPass(w) => ~OverdueContent'

\* An old time stands beside audio that is new while its own write is due.
Renewing(x) == \E v \in hkSpeaking : v.stage = "writing" /\ v.text = x

\* Content becomes overdue by the passing of time only, and so do cache entries
\* but for one that is being renewed.
OnlyTimeAges ==
    hkNow' = hkNow =>
        /\ OverdueContent' => OverdueContent
        /\ \A x \in Texts : Expired(x)' => Expired(x) \/ Renewing(x)'

EndsKnown ==
    \A s \in Sessions : hkSessions[s].status = "ended" => hkSessions[s].ended # Never

DutyInv == HKInv /\ EndsKnown

LEMMA EndsStep ==
    ASSUME HKType, EndsKnown, [HKNext]_hkVars
    PROVE  EndsKnown'
<1>1. /\ hkSessions \in [Sessions -> [status : {"active", "ended", "gone"},
                                      ended : Hours \cup {Never}]]
      /\ hkNow \in Hours /\ hkNow # Never
    BY DEF HKType, Hours, Never
<1>2. ASSUME NEW s \in Sessions, HKStop(s) PROVE EndsKnown'
    BY <1>1, <1>2 DEF HKStop, EndsKnown
<1>3. ASSUME NEW w \in Workers, HKRetentionPass(w) PROVE EndsKnown'
    BY <1>1, <1>3 DEF HKRetentionPass, Purged, EndsKnown
<1>4. CASE UNCHANGED hkSessions
    BY <1>4 DEF EndsKnown
<1>5. \/ UNCHANGED hkSessions
      \/ \E s \in Sessions : HKStop(s)
      \/ \E w \in Workers : HKRetentionPass(w)
    BY DEF HKNext, RowsNext, FilesNext, HKTick, HKDown, HKUp, HKPassFails, HKIngest,
           HKDisconnect, HKCaption, HKCaptionAgain, HKCaptionLost, HKTranslated,
           HKTranslationFails, HKEvictRemove, HKEvictFails, HKEvictRead, HKWrite, HKWriteFails,
           HKAsk, HKLookUp, HKServe, hkStore, hkVars
<1> QED BY <1>2, <1>3, <1>4, <1>5

LEMMA DutyInvariant == HKSpec => []DutyInv
<1>1. HKInit => DutyInv
    BY HKInitInv DEF DutyInv, HKInit, EndsKnown
<1>2. DutyInv /\ [HKNext]_hkVars => DutyInv'
    BY HKStepInv, EndsStep DEF DutyInv, HKInv
<1> QED BY <1>1, <1>2, PTL DEF HKSpec

\* What each step adds to the store: nothing, or something as new as the clock.
LEMMA OverdueStep ==
    ASSUME HKInv, [HKNext]_hkVars, hkNow' = hkNow, OverdueContent'
    PROVE  OverdueContent
<1>1. /\ HKType /\ hkNow \in Int /\ Retention \in Nat /\ ~Old(hkNow)
      /\ \A t : Old(t)' <=> Old(t)
    BY HousekeepingAssumption DEF HKInv, HKType, Hours, Old
<1>2. CASE /\ hkRows' \subseteq hkRows /\ hkVoices' \subseteq hkVoices /\ hkLog' = hkLog
           /\ \A s \in Sessions :
                hkSessions'[s].status = "ended" => hkSessions'[s] = hkSessions[s]
    BY <1>1, <1>2 DEF OverdueContent
<1>3. ASSUME NEW w \in Workers, HKRetentionPass(w) PROVE OverdueContent
    <2>1. hkRows' \subseteq hkRows /\ hkVoices' \subseteq hkVoices /\ hkLog' = hkLog
        BY <1>3 DEF HKRetentionPass, KeptRows
    <2>2. ASSUME NEW s \in Sessions, hkSessions'[s].status = "ended"
          PROVE  hkSessions'[s] = hkSessions[s]
        BY <1>1, <1>3, <2>2 DEF HKRetentionPass, Purged, HKType
    <2> QED BY <1>2, <2>1, <2>2
<1>4. ASSUME NEW s \in Sessions, HKStop(s) PROVE OverdueContent
    <2>1. /\ UNCHANGED <<hkRows, hkVoices, hkLog>>
          /\ hkSessions' = [hkSessions EXCEPT ![s] = [status |-> "ended", ended |-> hkNow]]
        BY <1>4 DEF HKStop
    <2>2. /\ hkSessions'[s].ended = hkNow
          /\ \A u \in Sessions : u # s => hkSessions'[u] = hkSessions[u]
        BY <1>1, <2>1 DEF HKType
    <2> QED BY <1>1, <2>1, <2>2 DEF OverdueContent
<1>5. ASSUME NEW w \in Workers, NEW s \in Sessions, NEW x \in Texts, HKCaption(w, s, x)
      PROVE  OverdueContent
    <2> DEFINE caption == [session |-> s, seq |-> hkNext[s], at |-> hkNow,
                           seeded |-> s \in hkSeeded]
    <2>1. /\ UNCHANGED <<hkVoices, hkSessions>> /\ hkLog' = Append(hkLog, caption)
          /\ hkRows' = hkRows \cup {Len(hkLog) + 1}
        BY <1>5 DEF HKCaption
    <2>2. caption.at = hkNow
        OBVIOUS
    <2> HIDE DEF caption
    <2>3. /\ hkLog'[Len(hkLog) + 1].at = hkNow
          /\ \A i \in hkRows : hkLog'[i] = hkLog[i]
        BY <1>1, <2>1, <2>2 DEF HKType
    <2> QED BY <1>1, <2>1, <2>3 DEF OverdueContent
<1>6. ASSUME NEW v \in hkSpeaking, HKTranslated(v) \/ HKTranslationFails(v)
      PROVE  OverdueContent
    <2>1. UNCHANGED <<hkRows, hkLog, hkSessions>>
        BY <1>6 DEF HKTranslated, HKTranslationFails
    <2>2. \A u \in hkVoices' : u \in hkVoices \/ u.at = hkNow
        BY <1>6 DEF HKTranslated, HKTranslationFails, VoiceStored
    <2> QED BY <1>1, <2>1, <2>2 DEF OverdueContent
<1>7. \/ UNCHANGED <<hkRows, hkVoices, hkLog, hkSessions>>
      \/ \E w \in Workers : HKRetentionPass(w)
      \/ \E s \in Sessions : HKStop(s)
      \/ \E w \in Workers, s \in Sessions, x \in Texts : HKCaption(w, s, x)
      \/ \E v \in hkSpeaking : HKTranslated(v) \/ HKTranslationFails(v)
    BY DEF HKNext, RowsNext, FilesNext, HKTick, HKDown, HKUp, HKPassFails, HKIngest,
           HKDisconnect, HKCaptionAgain, HKCaptionLost, HKEvictRemove, HKEvictFails,
           HKEvictRead, HKWrite, HKWriteFails, HKAsk, HKLookUp, HKServe, hkStore, hkVars
<1> QED BY <1>2, <1>3, <1>4, <1>5, <1>6, <1>7

LEMMA ExpiredStep ==
    ASSUME HKInv, [HKNext]_hkVars, hkNow' = hkNow, NEW x \in Texts, Expired(x)'
    PROVE  Expired(x) \/ Renewing(x)'
<1>1. /\ hkFiles \in [Texts -> File] /\ hkNow \in Hours /\ Retention \in Nat
      /\ ~Old(hkNow) /\ \A t : Old(t)' <=> Old(t)
      /\ hkSpeaking \subseteq Speaker
    BY HousekeepingAssumption DEF HKInv, HKType, Hours, Old
<1>2. /\ hkFiles'[x].audio # Missing /\ hkFiles'[x].meta \notin {Missing, Unreadable}
      /\ Old(hkFiles'[x].meta)
    BY <1>1 DEF Expired
<1>3. ASSUME hkFiles'[x] = hkFiles[x] PROVE Expired(x)
    BY <1>2, <1>3 DEF Expired
<1>4. ASSUME NEW y \in Texts, Removed(y) PROVE Expired(x)
    <2>1. hkFiles'[x] = hkFiles[x] \/ hkFiles'[x] = NoFile
        BY <1>1, <1>4 DEF Removed
    <2> QED BY <1>2, <1>3, <2>1 DEF NoFile
<1>5. ASSUME NEW y \in Texts, NEW m \in {Missing, Unreadable},
             hkFiles' = [hkFiles EXCEPT ![y].meta = m]
      PROVE  Expired(x)
    <2>1. hkFiles'[x] = hkFiles[x] \/ hkFiles'[x].meta = m
        BY <1>1, <1>5 DEF File
    <2> QED BY <1>2, <1>3, <2>1
<1>6. ASSUME NEW v \in hkSpeaking, HKWrite(v) PROVE Expired(x) \/ Renewing(x)'
    <2> DEFINE y == v.text
    <2>1. /\ hkFiles' = [hkFiles EXCEPT ![y] = Write(hkFiles[y], v.stage)]
          /\ v.stage \in {"calling", "writing"}
          /\ v.stage = "calling" => Moves(v, "writing")
        BY <1>6 DEF HKWrite
    <2>2. y \in Texts
        BY <1>1 DEF Speaker
    <2>3. v \in [id : DOMAIN hkLog, text : Texts, worker : {w \in Workers : Up(w)},
                 stage : Stages]
        BY <1>1 DEF Speaker
    <2> HIDE DEF y
    <2>4. CASE x # y
        BY <1>1, <1>3, <2>1, <2>2, <2>4
    <2>5. CASE x = y /\ v.stage = "writing"
        <3>1. hkFiles'[x].meta = hkNow
            BY <1>1, <2>1, <2>2, <2>5 DEF Write, File
        <3> QED BY <1>1, <1>2, <3>1
    <2>6. CASE x = y /\ v.stage = "calling"
        <3> DEFINE u == [v EXCEPT !.stage = "writing"]
        <3>1. u \in hkSpeaking' /\ u.stage = "writing" /\ u.text = v.text
            BY <2>1, <2>3, <2>6 DEF Moves
        <3> HIDE DEF u
        <3> QED BY <2>6, <3>1 DEF Renewing, y
    <2> QED BY <2>1, <2>4, <2>5, <2>6
<1>7. ASSUME NEW v \in hkSpeaking, HKTranslated(v) \/ HKWriteFails(v) PROVE Expired(x)
    <2>1. v.text \in Texts
        BY <1>1 DEF Speaker
    <2>2. \/ UNCHANGED hkFiles
          \/ Removed(v.text)
          \/ hkFiles' = [hkFiles EXCEPT ![v.text].meta = Unreadable]
        BY <1>7 DEF HKTranslated, HKWriteFails, AfterGet
    <2> QED BY <1>3, <1>4, <1>5, <2>1, <2>2
<1>8. ASSUME NEW w \in Workers, HKEvictRemove(w) \/ HKEvictFails(w) PROVE Expired(x)
    <2>1. ASSUME NEW y \in hkEvicting[w], Removed(y) PROVE Expired(x)
        BY <1>4, <2>1 DEF HKInv, HKType
    <2>2. ASSUME NEW y \in hkEvicting[w], hkFiles' = [hkFiles EXCEPT ![y].audio = Missing]
          PROVE  Expired(x)
        <3>1. hkFiles'[x] = hkFiles[x] \/ hkFiles'[x].audio = Missing
            BY <1>1, <2>2 DEF File
        <3> QED BY <1>2, <1>3, <3>1
    <2> QED BY <1>3, <1>8, <2>1, <2>2 DEF HKEvictRemove, HKEvictFails
<1>9. ASSUME NEW w \in Workers, NEW y \in Texts, HKEvictRead(w, y) PROVE Expired(x)
    <2>1. UNCHANGED hkFiles \/ hkFiles' = [hkFiles EXCEPT ![y].meta = Missing]
        BY <1>9 DEF HKEvictRead
    <2> QED BY <1>3, <1>5, <2>1
<1>10. CASE HKServe
    <2>1. hkRequest.voice.text \in Texts
        BY <1>10, AskedText DEF HKServe, HKInv, NoRequest
    <2>2. UNCHANGED hkFiles \/ Removed(hkRequest.voice.text)
        BY <1>10 DEF HKServe, AfterGet
    <2> QED BY <1>3, <1>4, <2>1, <2>2
<1>11. \/ UNCHANGED hkFiles
       \/ \E v \in hkSpeaking : HKWrite(v) \/ HKTranslated(v) \/ HKWriteFails(v)
       \/ \E w \in Workers : HKEvictRemove(w) \/ HKEvictFails(w)
       \/ \E w \in Workers, y \in Texts : HKEvictRead(w, y)
       \/ HKServe
    BY DEF HKNext, RowsNext, FilesNext, HKTick, HKDown, HKUp, HKRetentionPass, HKPassFails,
           HKStop, HKIngest, HKDisconnect, HKCaption, HKCaptionAgain, HKCaptionLost,
           HKTranslationFails, HKAsk, HKLookUp, hkCache, hkVars
<1> QED BY <1>3, <1>6, <1>7, <1>8, <1>9, <1>10, <1>11

\* One pass of any worker is enough: it leaves no caption, no translation and no
\* ended session that is overdue.
THEOREM OnePassIsEnough == HKSpec => [][PassesClear]_hkVars
<1>1. ASSUME DutyInv PROVE PassesClear
    <2> SUFFICES ASSUME NEW w \in Workers, HKRetentionPass(w) PROVE ~OverdueContent'
        BY DEF PassesClear
    <2>1. /\ hkRows' = KeptRows /\ hkVoices' = {v \in hkVoices : ~Old(v.at) /\ v.id \in KeptRows}
          /\ hkSessions' = Purged /\ UNCHANGED <<hkLog, hkNow>>
        BY DEF HKRetentionPass
    <2>2. \A t : Old(t)' <=> Old(t)
        BY <2>1 DEF Old
    <2>3. \A i \in hkRows' : ~Old(hkLog'[i].at)
        BY <2>1 DEF KeptRows
    <2>4. \A v \in hkVoices' : ~Old(v.at)
        BY <2>1
    <2>5. ASSUME NEW s \in Sessions, hkSessions'[s].status = "ended"
          PROVE  ~Old(hkSessions'[s].ended)
        <3>1. CASE s \in OverSessions
            <4>1. hkSessions'[s] = [hkSessions[s] EXCEPT !.status = "gone"]
                BY <2>1, <3>1 DEF Purged
            <4>2. hkSessions[s] \in [status : {"active", "ended", "gone"},
                                     ended : Hours \cup {Never}]
                BY <1>1 DEF DutyInv, HKInv, HKType
            <4> QED BY <2>5, <4>1, <4>2
        <3>2. CASE s \notin OverSessions
            <4>1. hkSessions'[s] = hkSessions[s]
                BY <2>1, <3>2 DEF Purged
            <4> QED BY <1>1, <2>5, <3>2, <4>1 DEF OverSessions, DutyInv, EndsKnown
        <3> QED BY <3>1, <3>2
    <2> QED BY <2>2, <2>3, <2>4, <2>5 DEF OverdueContent
<1> QED BY <1>1, DutyInvariant, PTL

\* Nothing is stored, copied or renewed with a time already past: between two
\* ticks of the clock the passes only ever reduce what is overdue, so a worker
\* that keeps making them catches up.
THEOREM NothingBornOverdue == HKSpec => [][OnlyTimeAges]_hkVars
<1>1. HKInv /\ [HKNext]_hkVars => [OnlyTimeAges]_hkVars
    BY OverdueStep, ExpiredStep DEF OnlyTimeAges
<1> QED BY <1>1, HKInvariant, PTL DEF HKSpec

-----------------------------------------------------------------------------
(* Accounts.                                                               *)

Asking == [at : {"issuing"}, user : Users, asked : Nat]
Admitted == [at : {"admitted"}, op : RosterOps \cup BudgetOps, user : Users, asked : Nat,
             self : Account]
RowLoaded == [at : {"guarding", "loaded"}, op : RosterOps, user : Users, asked : Nat,
              self : Account, seen : Account]
BudgetLoaded == [at : {"loaded"}, op : BudgetOps, user : Users, asked : Nat,
                 self : Account, seen : Budgets \cup {NotYet}]
Req == {Idle} \cup Asking \cup Admitted \cup RowLoaded \cup BudgetLoaded

ACType ==
    /\ acNow \in 0..MaxClock /\ acOps \in 0..MaxOps
    /\ acUsers \in [Users -> Account]
    /\ acSettings \in [budget : Budgets \cup {NotYet}, threshold : Budgets \cup {NotYet}]
    /\ acTokens \subseteq [user : Users, type : {"access", "refresh"}, exp : Nat, asked : Nat]
    /\ acSockets \subseteq [user : Users, asked : Nat]
    /\ acReq \in [Requests -> Req]
    /\ acSince \in [Users -> [off : Int, plain : Int]]
    /\ acLast \in [actors : SUBSET [user : Users, asked : Nat],
                   budget : Budgets \cup {NotYet}, threshold : Budgets \cup {NotYet}]
    /\ acOverlap \in BOOLEAN /\ acSelfOff \in BOOLEAN

\* Nothing was asked in the future; what somebody asks who lost the account
\* or the role since was asked no later than that.
AskedBefore(user, asked) == asked <= acNow /\ (~Active(user) => asked <= acSince[user].off)
AskedAsAdmin(user, asked) == acUsers[user].role # "admin" => asked <= acSince[user].plain

HistoryInv ==
    /\ \A t \in acTokens : AskedBefore(t.user, t.asked)
    /\ \A t \in acSockets : AskedBefore(t.user, t.asked)
    /\ \A t \in acLast.actors : AskedBefore(t.user, t.asked) /\ AskedAsAdmin(t.user, t.asked)

\* A change under way was admitted for an active administrator and not for
\* the deletion of the own account; only demotions are guarded.
Admission(req) ==
    /\ req.self.status = "active" /\ req.self.role = "admin"
    /\ req.op.kind = "deactivate" => req.op.user # req.user
    /\ req.at = "guarding" => req.op.kind = "update" /\ req.op.role = "operator"

\* As long as no commit fell between another change's check and its commit,
\* what a change under way has read is still so, and one that demotes the own
\* account leaves another administrator.
Current(req) ==
    /\ req.self = acUsers[req.user]
    /\ req.at \in {"guarding", "loaded"} =>
         req.seen = IF req.op.kind = "budget" THEN acSettings.budget ELSE acUsers[req.op.user]
    /\ req.at = "loaded" /\ req.op.kind = "update" /\ req.op.user = req.user
       /\ req.op.role = "operator" => \E u \in Users \ {req.user} : ActiveAdmin(u)

InChange(req) == req.at \in {"admitted", "guarding", "loaded"}

Fits(req) ==
    /\ req # Idle => AskedBefore(req.user, req.asked)
    /\ InChange(req) => /\ AskedAsAdmin(req.user, req.asked)
                        /\ Admission(req) /\ (acOverlap \/ Current(req))

ACInv ==
    ACType /\ HistoryInv /\ (\A r \in Requests : Fits(acReq[r])) /\ AdministrationSound

LEMMA OpKinds ==
    ASSUME NEW op \in RosterOps \cup BudgetOps
    PROVE  /\ op.kind \in {"update", "deactivate", "create", "budget"}
           /\ op.kind # "budget" => op \in RosterOps /\ op.user \in Users
           /\ op.kind = "budget" => /\ op \in BudgetOps
                                    /\ op.budget \in Budgets /\ op.threshold \in Budgets
           /\ op.kind = "update" => /\ op.role \in Roles \cup {Keep}
                                    /\ op.status \in {"active", "inactive", Keep}
           /\ op.kind = "create" => op.role \in Roles
BY DEF RosterOps, BudgetOps

LEMMA ReqKinds ==
    ASSUME NEW req \in Req
    PROVE  /\ req.at \in {"idle", "admitted", "guarding", "loaded", "issuing"}
           /\ req.at = "idle" <=> req = Idle
           /\ req # Idle => req.user \in Users /\ req.asked \in Nat
           /\ req.at = "issuing" => req \in Asking
           /\ InChange(req) => req.op \in RosterOps \cup BudgetOps /\ req.self \in Account
           /\ req.at = "admitted" => req \in Admitted
           /\ req.at = "guarding" => req \in RowLoaded
           /\ req.at = "loaded" => IF req.op.kind = "budget" THEN req \in BudgetLoaded
                                   ELSE req \in RowLoaded
<1>1. CASE req = Idle
    BY <1>1 DEF Idle, InChange
<1>2. CASE req \in Asking
    BY <1>2 DEF Asking, Idle, InChange
<1>3. CASE req \in Admitted
    BY <1>3 DEF Admitted, Idle, InChange
<1>4. CASE req \in RowLoaded
    <2>1. /\ req.at \in {"guarding", "loaded"} /\ req.op \in RosterOps /\ req.user \in Users
          /\ req.asked \in Nat /\ req.self \in Account
        BY <1>4 DEF RowLoaded
    <2>2. req.op.kind # "budget"
        BY <2>1 DEF RosterOps
    <2> QED BY <1>4, <2>1, <2>2 DEF Idle, InChange
<1>5. CASE req \in BudgetLoaded
    <2>1. /\ req.at = "loaded" /\ req.op \in BudgetOps /\ req.user \in Users
          /\ req.asked \in Nat /\ req.self \in Account
        BY <1>5 DEF BudgetLoaded
    <2>2. req.op.kind = "budget"
        BY <2>1 DEF BudgetOps
    <2> QED BY <1>5, <2>1, <2>2 DEF Idle, InChange
<1> QED BY <1>1, <1>2, <1>3, <1>4, <1>5 DEF Req

LEMMA ACInitInv == ACInit => ACInv
<1> SUFFICES ASSUME ACInit PROVE ACInv
    OBVIOUS
<1> USE AccountsAssumption
<1>1. /\ acNow = 0 /\ acOps = 0 /\ acUsers \in [Users -> Account] /\ acSockets = {}
      /\ acReq = [r \in Requests |-> Idle] /\ Idle \in Req
      /\ acOverlap = FALSE /\ acSelfOff = FALSE
      /\ acSettings = [budget |-> NotYet, threshold |-> NotYet]
      /\ acLast = [actors |-> {}, budget |-> NotYet, threshold |-> NotYet]
      /\ \E u \in Users : ActiveAdmin(u)
    BY DEF ACInit, Req
<1>2. \A t \in acTokens : /\ t \in [user : Users, type : {"access", "refresh"}, exp : Nat, asked : Nat]
                          /\ Active(t.user) /\ t.asked = 0
    <2> SUFFICES ASSUME NEW t \in acTokens
                 PROVE  /\ t \in [user : Users, type : {"access", "refresh"}, exp : Nat, asked : Nat]
                        /\ Active(t.user) /\ t.asked = 0
        OBVIOUS
    <2>1. PICK u \in Users : Active(u) /\ t \in Pair(u, 0)
        BY DEF ACInit
    <2>2. 0 + AccessTTL \in Nat /\ 0 + RefreshTTL \in Nat
        OBVIOUS
    <2> QED BY <2>1, <2>2 DEF Pair
<1>3. acSince \in [Users -> [off : Int, plain : Int]]
    <2>1. NotSince \in Int
        BY DEF NotSince
    <2> QED BY <2>1 DEF ACInit
<1>4. ACType
    <2>1. /\ acSettings \in [budget : Budgets \cup {NotYet}, threshold : Budgets \cup {NotYet}]
          /\ acLast \in [actors : SUBSET [user : Users, asked : Nat],
                         budget : Budgets \cup {NotYet}, threshold : Budgets \cup {NotYet}]
        BY <1>1
    <2>2. /\ acNow \in 0..MaxClock /\ acOps \in 0..MaxOps
          /\ acOverlap \in BOOLEAN /\ acSelfOff \in BOOLEAN
        <3>1. 0 \in 0..MaxClock /\ 0 \in 0..MaxOps
            OBVIOUS
        <3>2. acOverlap \in BOOLEAN /\ acSelfOff \in BOOLEAN
            BY <1>1, Zenon
        <3> QED BY <1>1, <3>1, <3>2
    <2>3. acTokens \subseteq [user : Users, type : {"access", "refresh"}, exp : Nat, asked : Nat]
        BY <1>2
    <2>4. acSockets \subseteq [user : Users, asked : Nat]
        BY <1>1
    <2>5. acReq \in [Requests -> Req]
        BY <1>1
    <2> QED BY <1>1, <1>3, <2>1, <2>2, <2>3, <2>4, <2>5 DEF ACType
<1>5. HistoryInv
    BY <1>1, <1>2 DEF HistoryInv, AskedBefore
<1>6. \A r \in Requests : Fits(acReq[r])
    BY <1>1 DEF Fits, InChange, Idle
<1>7. AdministrationSound
    BY <1>1 DEF AdministrationSound, AdminRemains, SettingsAsSubmitted
<1> QED BY <1>4, <1>5, <1>6, <1>7 DEF ACInv

\* The tables of users and settings and what is remembered of commits.
SameTables == UNCHANGED <<acUsers, acSettings, acSince, acLast, acOverlap, acSelfOff>>

\* Steps that commit nothing: what was asked before is still allowed.
LEMMA TablesFrame ==
    ASSUME ACInv, SameTables, acNow \in Nat, acNow' \in Nat, acNow <= acNow'
    PROVE  /\ AdministrationSound'
           /\ \A t \in acLast'.actors :
                AskedBefore(t.user, t.asked)' /\ AskedAsAdmin(t.user, t.asked)'
           /\ \A u \in Users, asked \in Nat :
                /\ AskedBefore(u, asked) => AskedBefore(u, asked)'
                /\ AskedAsAdmin(u, asked) => AskedAsAdmin(u, asked)'
           /\ \A req \in Req : Fits(req) => Fits(req)'
<1>1. AdministrationSound'
    BY DEF ACInv, AdministrationSound, AdminRemains, SettingsAsSubmitted, ActiveAdmin, Active,
           SameTables
<1>2. ASSUME NEW u \in Users, NEW asked \in Nat
      PROVE  /\ AskedBefore(u, asked) => AskedBefore(u, asked)'
             /\ AskedAsAdmin(u, asked) => AskedAsAdmin(u, asked)'
    BY DEF AskedBefore, AskedAsAdmin, Active, SameTables
<1>3. \A t \in acLast'.actors : AskedBefore(t.user, t.asked)' /\ AskedAsAdmin(t.user, t.asked)'
    <2>1. \A t \in acLast.actors : t.user \in Users /\ t.asked \in Nat
        BY DEF ACInv, ACType
    <2>2. \A t \in acLast.actors : AskedBefore(t.user, t.asked) /\ AskedAsAdmin(t.user, t.asked)
        BY DEF ACInv, HistoryInv
    <2> QED BY <1>2, <2>1, <2>2 DEF SameTables
<1>4. ASSUME NEW req \in Req, Fits(req) PROVE Fits(req)'
    <2>1. req # Idle => AskedBefore(req.user, req.asked)'
        BY <1>2, <1>4, ReqKinds DEF Fits
    <2>2. CASE InChange(req)
        <3>1. /\ req # Idle /\ AskedAsAdmin(req.user, req.asked) /\ Admission(req)
              /\ acOverlap \/ Current(req)
            BY <1>4, <2>2 DEF Fits, Idle, InChange
        <3>2. AskedAsAdmin(req.user, req.asked)'
            BY <1>2, <3>1, ReqKinds
        <3>3. Current(req) => Current(req)'
            BY DEF Current, SameTables, ActiveAdmin, Active
        <3> QED BY <2>1, <3>1, <3>2, <3>3 DEF Fits, SameTables
    <2>3. CASE ~InChange(req)
        BY <2>1, <2>3 DEF Fits
    <2> QED BY <2>2, <2>3
<1> QED BY <1>1, <1>2, <1>3, <1>4
\* A step that commits nothing and leaves the requests in progress as they
\* are, or sets one of them to a request that fits.
RequestsStep ==
    \/ acReq' = acReq
    \/ \E r \in Requests, req \in Req : acReq' = [acReq EXCEPT ![r] = req] /\ Fits(req)'

GrantsTyped ==
    /\ acTokens \subseteq [user : Users, type : {"access", "refresh"}, exp : Nat, asked : Nat]
    /\ acSockets \subseteq [user : Users, asked : Nat]

GrantsAsked ==
    /\ \A t \in acTokens : AskedBefore(t.user, t.asked)
    /\ \A t \in acSockets : AskedBefore(t.user, t.asked)

LEMMA TablesStep ==
    ASSUME ACInv, SameTables, acNow' \in 0..MaxClock, acNow <= acNow', acOps' \in 0..MaxOps,
           GrantsTyped', GrantsAsked', RequestsStep
    PROVE  ACInv'
<1> USE AccountsAssumption
<1>1. ACType /\ acNow \in Nat /\ acNow' \in Nat
    BY DEF ACInv, ACType
<1>2. /\ AdministrationSound'
      /\ \A t \in acLast'.actors : AskedBefore(t.user, t.asked)' /\ AskedAsAdmin(t.user, t.asked)'
      /\ \A req \in Req : Fits(req) => Fits(req)'
    BY <1>1, TablesFrame
<1>3. acReq' \in [Requests -> Req] /\ \A r \in Requests : Fits(acReq[r])'
    <2>1. acReq \in [Requests -> Req] /\ \A r \in Requests : Fits(acReq[r]) /\ acReq[r] \in Req
        BY <1>1 DEF ACInv, ACType
    <2>2. ASSUME NEW r \in Requests
          PROVE  \E q \in Req : q = acReq'[r] /\ Fits(q)'
        <3>1. PICK q \in Req : q = acReq[r] /\ Fits(q)
            BY <2>1
        <3>2. Fits(q)'
            BY <1>2, <3>1
        <3> QED BY <2>1, <3>1, <3>2 DEF RequestsStep
    <2>3. acReq' \in [Requests -> Req]
        BY <2>1 DEF RequestsStep
    <2>4. ASSUME NEW r \in Requests PROVE Fits(acReq[r])'
        <3>1. PICK q \in Req : q = acReq'[r] /\ Fits(q)'
            BY <2>2
        <3> QED BY <3>1 DEF Fits, InChange, Admission, Current
    <2> QED BY <2>3, <2>4
<1>4. ACType'
    BY <1>1, <1>3 DEF ACType, GrantsTyped, SameTables
<1>5. HistoryInv'
    BY <1>2 DEF HistoryInv, GrantsAsked
<1> QED BY <1>2, <1>3, <1>4, <1>5 DEF ACInv

\* Tokens and sockets from before a step that commits nothing.
LEMMA OldGrants ==
    ASSUME ACInv, SameTables, acNow' \in 0..MaxClock, acNow <= acNow'
    PROVE  /\ \A t \in acTokens : AskedBefore(t.user, t.asked)'
           /\ \A t \in acSockets : AskedBefore(t.user, t.asked)'
<1> USE AccountsAssumption
<1>1. /\ acNow \in Nat /\ acNow' \in Nat
      /\ \A t \in acTokens : t.user \in Users /\ t.asked \in Nat /\ AskedBefore(t.user, t.asked)
      /\ \A t \in acSockets : t.user \in Users /\ t.asked \in Nat /\ AskedBefore(t.user, t.asked)
    BY DEF ACInv, ACType, HistoryInv
<1>2. \A u \in Users, asked \in Nat : AskedBefore(u, asked) => AskedBefore(u, asked)'
    BY <1>1, TablesFrame
<1> QED BY <1>1, <1>2

\* What every step of a request or on tokens and sockets has in common.
SameGrants == UNCHANGED <<acTokens, acSockets>>

LEMMA GrantsKept ==
    ASSUME ACInv, SameTables, SameGrants, acNow' = acNow
    PROVE  acNow' \in 0..MaxClock /\ acNow <= acNow' /\ GrantsTyped' /\ GrantsAsked'
<1> USE AccountsAssumption
<1>1. acNow \in 0..MaxClock /\ acNow' \in 0..MaxClock /\ acNow <= acNow'
    BY DEF ACInv, ACType
<1>2. GrantsTyped'
    BY DEF ACInv, ACType, SameGrants, GrantsTyped
<1>3. GrantsAsked'
    BY <1>1, OldGrants DEF SameGrants, GrantsAsked
<1> QED BY <1>1, <1>2, <1>3

LEMMA TickInv == ACInv /\ ACTick => ACInv'
<1> SUFFICES ASSUME ACInv, ACTick PROVE ACInv'
    OBVIOUS
<1> USE AccountsAssumption
<1>1. /\ acNow < MaxClock /\ acNow' = acNow + 1
      /\ UNCHANGED <<acUsers, acSettings, acTokens, acSockets, acReq, acOps, acSince, acLast,
                     acOverlap, acSelfOff>>
    BY DEF ACTick
<1>2. ACType
    BY DEF ACInv
<1>3. acNow' \in 0..MaxClock /\ acNow <= acNow'
    BY <1>1, <1>2 DEF ACType
<1>4. SameTables /\ RequestsStep /\ acOps' \in 0..MaxOps
    BY <1>1, <1>2 DEF SameTables, RequestsStep, ACType
<1>5. GrantsTyped'
    BY <1>1, <1>2 DEF ACType, GrantsTyped
<1>6. GrantsAsked'
    BY <1>1, <1>3, <1>4, OldGrants DEF GrantsAsked
<1> QED BY <1>3, <1>4, <1>5, <1>6, TablesStep

LEMMA CountedOps == ACInv /\ Counted => acOps' \in 0..MaxOps
<1>1. ACInv => acOps \in 0..MaxOps
    BY DEF ACInv, ACType
<1> QED BY <1>1, AccountsAssumption DEF Counted

\* A user who is active now has asked now: nothing was lost before.
LEMMA ActiveAsks ==
    ASSUME ACInv, NEW u, Active(u)
    PROVE  acNow \in Nat /\ AskedBefore(u, acNow)
BY AccountsAssumption DEF ACInv, ACType, AskedBefore

LEMMA IssuingInv ==
    ASSUME ACInv, NEW r \in Requests, NEW u \in Users, Active(u), Issuing(r, u)
    PROVE  ACInv'
<1> DEFINE req == [at |-> "issuing", user |-> u, asked |-> acNow]
<1>1. /\ Counted /\ acReq' = [acReq EXCEPT ![r] = req]
      /\ UNCHANGED <<acNow, acUsers, acSettings, acTokens, acSockets, acSince, acLast,
                     acOverlap, acSelfOff>>
    BY DEF Issuing
<1>2. SameTables /\ SameGrants
    BY <1>1 DEF SameTables, SameGrants
<1>3. req \in Req
    BY ActiveAsks DEF Req, Asking
<1>4. Fits(req)'
    <2>1. AskedBefore(u, acNow)
        BY ActiveAsks
    <2>2. req.at = "issuing" /\ req.user = u /\ req.asked = acNow
        OBVIOUS
    <2> QED BY <1>1, <2>1, <2>2 DEF Fits, InChange, AskedBefore, Active
<1>5. RequestsStep
    BY <1>1, <1>3, <1>4 DEF RequestsStep
<1> QED BY <1>1, <1>2, <1>5, GrantsKept, CountedOps, TablesStep

LEMMA IdleFits == Idle \in Req /\ Fits(Idle) /\ Fits(Idle)'
BY DEF Req, Fits, InChange, Idle

LEMMA Refusal ==
    ASSUME NEW r \in Requests, Refused(r)
    PROVE  RequestsStep
BY IdleFits DEF RequestsStep, Refused

LEMMA IssueInv ==
    ASSUME ACInv, NEW r \in Requests, ACIssue(r)
    PROVE  ACInv'
<1> USE AccountsAssumption
<1> DEFINE req == acReq[r]
           fresh == {[t EXCEPT !.asked = req.asked] : t \in Pair(req.user, acNow)}
<1>1. /\ req.at = "issuing"
      /\ acTokens' = acTokens \cup fresh
      /\ acReq' = [acReq EXCEPT ![r] = Idle]
      /\ UNCHANGED <<acNow, acUsers, acSettings, acSockets, acOps, acSince, acLast, acOverlap,
                     acSelfOff>>
    BY DEF ACIssue
<1>2. ACType /\ Fits(req) /\ req \in Req
    BY DEF ACInv, ACType
<1>3. /\ req.user \in Users /\ req.asked \in Nat /\ AskedBefore(req.user, req.asked)
    <2>1. req \in Asking /\ req # Idle
        BY <1>1, <1>2, ReqKinds DEF Idle
    <2> QED BY <1>2, <2>1 DEF Asking, Fits
<1>4. \A t \in fresh :
        /\ t \in [user : Users, type : {"access", "refresh"}, exp : Nat, asked : Nat]
        /\ t.user = req.user /\ t.asked = req.asked
    <2>1. acNow \in Nat /\ acNow + AccessTTL \in Nat /\ acNow + RefreshTTL \in Nat
        BY <1>2 DEF ACType
    <2> QED BY <1>3, <2>1 DEF Pair
<1> HIDE DEF fresh, req
<1>5. SameTables /\ acNow' \in 0..MaxClock /\ acNow <= acNow' /\ acOps' \in 0..MaxOps
    BY <1>1, <1>2 DEF SameTables, ACType
<1>6. GrantsTyped'
    BY <1>1, <1>2, <1>4 DEF GrantsTyped, ACType
<1>7. GrantsAsked'
    <2>1. AskedBefore(req.user, req.asked) => \A t \in fresh : AskedBefore(t.user, t.asked)'
        BY <1>1, <1>4 DEF AskedBefore, Active
    <2> QED BY <1>1, <1>3, <1>5, <2>1, OldGrants DEF GrantsAsked
<1>8. RequestsStep
    BY <1>1, Refusal DEF Refused
<1> QED BY <1>5, <1>6, <1>7, <1>8, TablesStep

LEMMA ConnectInv ==
    ASSUME ACInv, NEW u \in Users, ACConnect(u)
    PROVE  ACInv'
<1> USE AccountsAssumption
<1> DEFINE socket == [user |-> u, asked |-> acNow]
<1>1. /\ Active(u) /\ Counted
      /\ acSockets' = acSockets \cup {socket}
      /\ UNCHANGED <<acNow, acUsers, acSettings, acTokens, acReq, acSince, acLast, acOverlap,
                     acSelfOff>>
    BY DEF ACConnect
<1>2. ACType
    BY DEF ACInv
<1>3. AskedBefore(u, acNow) /\ acNow \in Nat
    BY <1>1, ActiveAsks
<1>4. SameTables /\ acNow' \in 0..MaxClock /\ acNow <= acNow' /\ RequestsStep
    BY <1>1, <1>2 DEF SameTables, ACType, RequestsStep
<1>5. GrantsTyped'
    BY <1>1, <1>2, <1>3 DEF GrantsTyped, ACType
<1>6. GrantsAsked'
    <2>1. AskedBefore(socket.user, socket.asked)'
        BY <1>1, <1>3 DEF AskedBefore, Active
    <2> QED BY <1>1, <1>4, <2>1, OldGrants DEF GrantsAsked
<1> QED BY <1>1, <1>4, <1>5, <1>6, CountedOps, TablesStep

LEMMA DisconnectInv ==
    ASSUME ACInv, ACDisconnect
    PROVE  ACInv'
<1> USE AccountsAssumption
<1>1. /\ acSockets' \subseteq acSockets
      /\ UNCHANGED <<acNow, acUsers, acSettings, acTokens, acReq, acOps, acSince, acLast,
                     acOverlap, acSelfOff>>
    BY DEF ACDisconnect
<1>2. ACType
    BY DEF ACInv
<1>3. SameTables /\ acNow' \in 0..MaxClock /\ acNow <= acNow' /\ RequestsStep
      /\ acOps' \in 0..MaxOps
    BY <1>1, <1>2 DEF SameTables, ACType, RequestsStep
<1>4. GrantsTyped'
    BY <1>1, <1>2 DEF GrantsTyped, ACType
<1>5. GrantsAsked'
    BY <1>1, <1>3, OldGrants DEF GrantsAsked
<1> QED BY <1>3, <1>4, <1>5, TablesStep

LEMMA AdmitInv ==
    ASSUME ACInv, NEW r \in Requests, NEW a \in Users, NEW op \in RosterOps \cup BudgetOps,
           ACAdmit(r, a, op)
    PROVE  ACInv'
<1> DEFINE req == [at |-> "admitted", op |-> op, user |-> a, asked |-> acNow,
                   self |-> acUsers[a]]
<1>1. /\ Counted /\ ActiveAdmin(a)
      /\ op.kind = "deactivate" => op.user # a
      /\ acReq' = [acReq EXCEPT ![r] = req]
      /\ UNCHANGED <<acNow, acUsers, acSettings, acTokens, acSockets, acSince, acLast,
                     acOverlap, acSelfOff>>
    BY DEF ACAdmit
<1>2. ACType /\ SameTables /\ SameGrants
    BY <1>1 DEF SameTables, SameGrants, ACInv
<1>3. Active(a) /\ acUsers[a] \in Account /\ acUsers[a].status = "active"
      /\ acUsers[a].role = "admin"
    BY <1>1, <1>2 DEF ActiveAdmin, Active, ACType
<1>4. AskedBefore(a, acNow) /\ acNow \in Nat
    BY <1>3, ActiveAsks
<1>5. req \in Req
    BY <1>3, <1>4 DEF Req, Admitted
<1>6. Fits(req)
    <2>1. /\ req.at = "admitted" /\ req.user = a /\ req.asked = acNow
          /\ req.op = op /\ req.self = acUsers[a]
        OBVIOUS
    <2> HIDE DEF req
    <2>2. AskedBefore(req.user, req.asked)
        BY <1>1, <1>4, <2>1 DEF AskedBefore, Active
    <2>3. AskedAsAdmin(req.user, req.asked)
        BY <1>1, <1>3, <2>1 DEF AskedAsAdmin
    <2>4. Admission(req)
        BY <1>1, <1>3, <2>1 DEF Admission
    <2>5. Current(req)
        BY <1>1, <2>1 DEF Current
    <2> QED BY <2>2, <2>3, <2>4, <2>5 DEF Fits
<1>7. \A q \in Req : Fits(q) => Fits(q)'
    BY <1>1, <1>2, <1>4, TablesFrame
<1>8. RequestsStep
    BY <1>1, <1>5, <1>6, <1>7 DEF RequestsStep
<1> QED BY <1>1, <1>2, <1>8, GrantsKept, CountedOps, TablesStep

\* What a request under way needs to go on to another of its stages.
MayGo(r, at, seen) ==
    LET req == acReq[r]
    IN  /\ InChange(req)
        /\ [at |-> at, op |-> req.op, user |-> req.user, asked |-> req.asked,
            self |-> req.self, seen |-> seen] \in Req
        /\ at \in {"guarding", "loaded"}
        /\ at = "guarding" => req.op.kind = "update" /\ req.op.role = "operator"
        /\ acOverlap \/ seen = IF req.op.kind = "budget" THEN acSettings.budget
                               ELSE acUsers[req.op.user]
        /\ at = "loaded" /\ req.op.kind = "update" /\ req.op.user = req.user
             /\ req.op.role = "operator" /\ ~acOverlap
           => \E u \in Users \ {req.user} : ActiveAdmin(u)

LEMMA GoesInv ==
    ASSUME ACInv, NEW r \in Requests, NEW at, NEW seen, Goes(r, at, seen), MayGo(r, at, seen),
           acNow' = acNow, acOps' = acOps, SameTables, SameGrants
    PROVE  ACInv'
<1> DEFINE old == acReq[r]
           req == [at |-> at, op |-> old.op, user |-> old.user, asked |-> old.asked,
                   self |-> old.self, seen |-> seen]
<1>1. ACType /\ Fits(old) /\ acReq' = [acReq EXCEPT ![r] = req] /\ req \in Req
    BY DEF ACInv, Goes, MayGo
<1>2. /\ req.at = at /\ req.op = old.op /\ req.user = old.user /\ req.asked = old.asked
      /\ req.self = old.self /\ req.seen = seen
    OBVIOUS
<1> HIDE DEF req
<1>3. Fits(req)
    <2>1. /\ AskedBefore(old.user, old.asked) /\ AskedAsAdmin(old.user, old.asked)
          /\ Admission(old) /\ (acOverlap \/ Current(old))
        BY <1>1 DEF Fits, InChange, Idle, MayGo
    <2>2. Admission(req)
        BY <1>2, <2>1 DEF Admission, MayGo
    <2>3. acOverlap \/ Current(req)
        BY <1>2, <2>1 DEF Current, MayGo
    <2> QED BY <1>2, <2>1, <2>2, <2>3 DEF Fits
<1>4. \A q \in Req : Fits(q) => Fits(q)'
    BY <1>1, TablesFrame, AccountsAssumption DEF ACType
<1>5. RequestsStep
    BY <1>1, <1>3, <1>4 DEF RequestsStep
<1> QED BY <1>1, <1>5, GrantsKept, TablesStep DEF ACType

LEMMA AnotherAdmin ==
    ASSUME NEW a, ~(AdminCount <= 1)
    PROVE  \E u \in Users \ {a} : ActiveAdmin(u)
<1> DEFINE admins == {u \in Users : ActiveAdmin(u)}
<1>1. SUFFICES ASSUME admins \subseteq {a} PROVE FALSE
    OBVIOUS
<1>2. IsFiniteSet({a}) /\ Cardinality({a}) = 1
    BY FS_Singleton
<1>3. Cardinality(admins) <= Cardinality({a})
    BY <1>1, <1>2, FS_Subset
<1> QED BY <1>2, <1>3 DEF AdminCount

LEMMA LoadInv ==
    ASSUME ACInv, NEW r \in Requests, ACLoad(r)
    PROVE  ACInv'
<1> DEFINE req == acReq[r]
           op == req.op
           row == IF op.user = req.user THEN req.self ELSE acUsers[op.user]
           demotes == op.kind = "update" /\ op.role = "operator" /\ row.role = "admin"
           next == IF demotes THEN "guarding" ELSE "loaded"
<1>1. /\ req.at = "admitted"
      /\ \/ op.kind = "budget" /\ Goes(r, "loaded", acSettings.budget)
         \/ Refused(r)
         \/ op.kind # "budget" /\ Goes(r, next, row)
      /\ UNCHANGED <<acNow, acUsers, acSettings, acTokens, acSockets, acOps, acSince, acLast,
                     acOverlap, acSelfOff>>
    BY DEF ACLoad
<1>2. ACType /\ Fits(req) /\ req \in Req /\ SameTables /\ SameGrants
    BY <1>1 DEF SameTables, SameGrants, ACInv, ACType
<1>3. /\ req \in Admitted /\ InChange(req)
      /\ op \in RosterOps \cup BudgetOps /\ req.user \in Users /\ req.asked \in Nat
      /\ req.self \in Account
    <2>1. req \in Admitted
        BY <1>1, <1>2, ReqKinds
    <2> QED BY <1>1, <2>1 DEF Admitted, InChange
<1>4. /\ req.self.role = "admin"
      /\ acOverlap \/ req.self = acUsers[req.user]
    BY <1>2, <1>3 DEF Fits, Admission, Current
<1>5. CASE op.kind = "budget" /\ Goes(r, "loaded", acSettings.budget)
    <2> DEFINE new == [at |-> "loaded", op |-> op, user |-> req.user, asked |-> req.asked,
                       self |-> req.self, seen |-> acSettings.budget]
    <2>1. new \in Req
        <3>1. op \in BudgetOps /\ acSettings.budget \in Budgets \cup {NotYet}
            BY <1>2, <1>3, <1>5, OpKinds DEF ACType
        <3> QED BY <1>3, <3>1 DEF Req, BudgetLoaded
    <2>2. MayGo(r, "loaded", acSettings.budget)
        BY <1>3, <1>5, <2>1 DEF MayGo
    <2> QED BY <1>1, <1>2, <1>5, <2>2, GoesInv
<1>6. CASE Refused(r)
    <2>1. RequestsStep
        BY <1>6, Refusal
    <2> QED BY <1>1, <1>2, <2>1, GrantsKept, TablesStep DEF ACType
<1>7. CASE op.kind # "budget" /\ Goes(r, next, row)
    <2>1. op \in RosterOps /\ op.user \in Users
        BY <1>3, <1>7, OpKinds
    <2>2. row \in Account /\ next \in {"guarding", "loaded"}
        BY <1>2, <1>3, <2>1 DEF ACType
    <2>3. [at |-> next, op |-> op, user |-> req.user, asked |-> req.asked, self |-> req.self,
           seen |-> row] \in Req
        BY <1>3, <2>1, <2>2 DEF Req, RowLoaded
    <2>4. next = "guarding" => op.kind = "update" /\ op.role = "operator"
        OBVIOUS
    <2>5. acOverlap \/ row = acUsers[op.user]
        BY <1>4
    <2>6. ~(/\ next = "loaded" /\ op.kind = "update" /\ op.user = req.user
            /\ op.role = "operator")
        BY <1>4
    <2> HIDE DEF next, row
    <2>7. MayGo(r, next, row)
        BY <1>3, <1>7, <2>2, <2>3, <2>4, <2>5, <2>6 DEF MayGo
    <2> QED BY <1>1, <1>2, <1>7, <2>7, GoesInv
<1> QED BY <1>1, <1>5, <1>6, <1>7

LEMMA GuardInv ==
    ASSUME ACInv, NEW r \in Requests, ACGuard(r)
    PROVE  ACInv'
<1> DEFINE req == acReq[r]
<1>1. /\ req.at = "guarding"
      /\ \/ Refused(r)
         \/ ~(AdminCount <= 1 /\ req.op.user = req.user) /\ Goes(r, "loaded", req.seen)
      /\ UNCHANGED <<acNow, acUsers, acSettings, acTokens, acSockets, acOps, acSince, acLast,
                     acOverlap, acSelfOff>>
    BY DEF ACGuard
<1>2. ACType /\ Fits(req) /\ req \in Req /\ SameTables /\ SameGrants
    BY <1>1 DEF SameTables, SameGrants, ACInv, ACType
<1>3. /\ req \in RowLoaded /\ InChange(req)
      /\ req.op \in RosterOps /\ req.op.kind # "budget"
    <2>1. req \in RowLoaded
        BY <1>1, <1>2, ReqKinds
    <2>2. req.op \in RosterOps
        BY <2>1 DEF RowLoaded
    <2> QED BY <1>1, <2>1, <2>2 DEF RosterOps, InChange
<1>4. CASE Refused(r)
    <2>1. RequestsStep
        BY <1>4, Refusal
    <2> QED BY <1>1, <1>2, <2>1, GrantsKept, TablesStep DEF ACType
<1>5. CASE ~(AdminCount <= 1 /\ req.op.user = req.user) /\ Goes(r, "loaded", req.seen)
    <2>1. [at |-> "loaded", op |-> req.op, user |-> req.user, asked |-> req.asked,
           self |-> req.self, seen |-> req.seen] \in Req
        BY <1>3 DEF Req, RowLoaded
    <2>2. acOverlap \/ req.seen = acUsers[req.op.user]
        BY <1>1, <1>2, <1>3 DEF Fits, Current
    <2>3. req.op.user = req.user => \E u \in Users \ {req.user} : ActiveAdmin(u)
        BY <1>5, AnotherAdmin
    <2>4. MayGo(r, "loaded", req.seen)
        BY <1>3, <2>1, <2>2, <2>3 DEF MayGo
    <2> QED BY <1>1, <1>2, <1>5, <2>4, GoesInv
<1> QED BY <1>1, <1>4, <1>5

LEMMA ConflictInv ==
    ASSUME ACInv, NEW r \in Requests, ACConflict(r)
    PROVE  ACInv'
<1>1. /\ Refused(r)
      /\ UNCHANGED <<acNow, acUsers, acSettings, acTokens, acSockets, acOps, acSince, acLast,
                     acOverlap, acSelfOff>>
    BY DEF ACConflict
<1>2. RequestsStep /\ SameTables /\ SameGrants /\ ACType
    BY <1>1, Refusal DEF SameTables, SameGrants, ACInv
<1> QED BY <1>1, <1>2, GrantsKept, TablesStep DEF ACType

\* What a commit leaves true of what was asked before it.
StillAsked ==
    \A u \in Users, asked \in Nat :
        AskedBefore(u, asked) =>
          /\ AskedBefore(u, asked)'
          /\ AskedAsAdmin(u, asked) => AskedAsAdmin(u, asked)'

TablesTyped ==
    /\ acUsers \in [Users -> Account]
    /\ acSettings \in [budget : Budgets \cup {NotYet}, threshold : Budgets \cup {NotYet}]
    /\ acSince \in [Users -> [off : Int, plain : Int]]
    /\ acLast \in [actors : SUBSET [user : Users, asked : Nat],
                   budget : Budgets \cup {NotYet}, threshold : Budgets \cup {NotYet}]
    /\ acSelfOff \in BOOLEAN

\* What the two commits have in common.
Commits(r) ==
    /\ acReq[r].at = "loaded" /\ Committed(r)
    /\ acLast'.actors = {[user |-> acReq[r].user, asked |-> acReq[r].asked]}
    /\ UNCHANGED <<acNow, acTokens, acSockets, acOps>>

LEMMA LoadedFacts ==
    ASSUME ACInv, NEW r \in Requests, acReq[r].at = "loaded"
    PROVE  /\ acReq[r].user \in Users /\ acReq[r].asked \in Nat
           /\ acReq[r].op \in RosterOps \cup BudgetOps /\ acReq[r].self \in Account
           /\ AskedBefore(acReq[r].user, acReq[r].asked)
           /\ AskedAsAdmin(acReq[r].user, acReq[r].asked)
           /\ Admission(acReq[r]) /\ (acOverlap \/ Current(acReq[r]))
           /\ IF acReq[r].op.kind = "budget" THEN acReq[r] \in BudgetLoaded
              ELSE acReq[r] \in RowLoaded
<1>1. acReq[r] \in Req /\ Fits(acReq[r])
    BY DEF ACInv, ACType
<1>2. InChange(acReq[r]) /\ acReq[r] # Idle
    BY <1>1, ReqKinds DEF InChange, Idle
<1> QED BY <1>1, <1>2, ReqKinds DEF Fits

LEMMA CommitFrame ==
    ASSUME ACInv, NEW r \in Requests, Commits(r), StillAsked, TablesTyped', AdministrationSound'
    PROVE  ACInv'
<1>1. /\ ACType /\ HistoryInv
      /\ acReq' = [acReq EXCEPT ![r] = Idle]
      /\ acOverlap' = (acOverlap \/ \E q \in Requests \ {r} : Changing(q))
      /\ acReq \in [Requests -> Req] /\ Idle \in Req
      /\ UNCHANGED <<acNow, acTokens, acSockets, acOps>>
    BY IdleFits DEF ACInv, Commits, Committed, Refused, ACType
<1>2. ASSUME NEW q \in Requests
      PROVE  Fits(acReq[q])'
    <2>1. CASE q = r \/ acReq[q] = Idle
        <3>1. acReq'[q] = Idle
            BY <1>1, <2>1
        <3> QED BY <3>1 DEF Fits, InChange, Idle
    <2>2. CASE q # r /\ acReq[q] # Idle
        <3>1. acReq'[q] = acReq[q] /\ acReq[q] \in Req /\ Fits(acReq[q])
            BY <1>1, <2>2 DEF ACInv
        <3>2. acReq[q].user \in Users /\ acReq[q].asked \in Nat
            BY <2>2, <3>1, ReqKinds
        <3>3. AskedBefore(acReq[q].user, acReq[q].asked)
            BY <2>2, <3>1 DEF Fits
        <3>4. PICK req \in Req : req = acReq[q]
            BY <3>1
        <3>5. AskedBefore(req.user, req.asked)'
            BY <3>2, <3>3, <3>4 DEF StillAsked
        <3>6. InChange(req) => AskedAsAdmin(req.user, req.asked)'
            BY <3>1, <3>2, <3>3, <3>4 DEF StillAsked, Fits
        <3>7. InChange(req) => Admission(req) /\ acOverlap'
            BY <1>1, <2>2, <3>1, <3>4 DEF Fits, InChange, Changing
        <3>8. Fits(req)'
            BY <3>5, <3>6, <3>7 DEF Fits
        <3>9. req = acReq'[q]
            BY <3>1, <3>4
        <3> QED BY <3>8, <3>9 DEF Fits, InChange, Admission, Current
    <2> QED BY <2>1, <2>2
<1>3. ACType'
    <2>1. acReq' \in [Requests -> Req]
        BY <1>1
    <2>2. acOverlap' \in BOOLEAN
        BY <1>1, Zenon
    <2> QED BY <1>1, <2>1, <2>2 DEF ACType, TablesTyped
<1>4. HistoryInv'
    <2>1. /\ \A t \in acTokens : AskedBefore(t.user, t.asked)'
          /\ \A t \in acSockets : AskedBefore(t.user, t.asked)'
        <3>1. /\ \A t \in acTokens : t.user \in Users /\ t.asked \in Nat
              /\ \A t \in acSockets : t.user \in Users /\ t.asked \in Nat
            BY <1>1 DEF ACType
        <3> QED BY <1>1, <3>1 DEF HistoryInv, StillAsked
    <2>2. \A t \in acLast'.actors : AskedBefore(t.user, t.asked)' /\ AskedAsAdmin(t.user, t.asked)'
        <3>1. acReq[r].at = "loaded"
              /\ acLast'.actors = {[user |-> acReq[r].user, asked |-> acReq[r].asked]}
            BY DEF Commits
        <3>2. PICK u \in Users, asked \in Nat :
                u = acReq[r].user /\ asked = acReq[r].asked
                /\ AskedBefore(u, asked) /\ AskedAsAdmin(u, asked)
            BY <3>1, LoadedFacts
        <3>3. AskedBefore(u, asked)' /\ AskedAsAdmin(u, asked)'
            BY <3>2 DEF StillAsked
        <3>4. acLast'.actors = {[user |-> u, asked |-> asked]}
            BY <3>1, <3>2
        <3> QED BY <3>3, <3>4
    <2> QED BY <1>1, <2>1, <2>2 DEF HistoryInv
<1> QED BY <1>2, <1>3, <1>4 DEF ACInv

LEMMA BudgetCommitInv ==
    ASSUME ACInv, NEW r \in Requests, ACCommitBudget(r)
    PROVE  ACInv'
<1> DEFINE req == acReq[r]
           written == Written(req.seen, req.op.budget, acSettings.budget)
<1>1. /\ req.at = "loaded" /\ req.op.kind = "budget"
      /\ Committed(r)
      /\ acSettings' = [budget |-> written, threshold |-> req.op.threshold]
      /\ acLast' = [actors |-> {[user |-> req.user, asked |-> req.asked]},
                    budget |-> req.op.budget, threshold |-> req.op.threshold]
      /\ UNCHANGED <<acNow, acUsers, acTokens, acSockets, acOps, acSince, acSelfOff>>
    BY DEF ACCommitBudget
<1>2. ACType /\ AdminRemains /\ acOverlap' = (acOverlap \/ \E q \in Requests \ {r} : Changing(q))
    BY <1>1 DEF ACInv, AdministrationSound, Committed
<1>3. /\ req.user \in Users /\ req.asked \in Nat /\ req.op \in BudgetOps
      /\ req.op.budget \in Budgets /\ req.op.threshold \in Budgets
      /\ acOverlap \/ Current(req)
    BY <1>1, LoadedFacts, OpKinds
<1>4. written \in Budgets \cup {NotYet} /\ (acOverlap \/ written = req.op.budget)
    BY <1>1, <1>2, <1>3 DEF Written, Current, ACType
<1> HIDE DEF written
<1>5. Commits(r)
    BY <1>1 DEF Commits
<1>6. StillAsked
    BY <1>1 DEF StillAsked, AskedBefore, AskedAsAdmin, Active
<1>7. TablesTyped'
    BY <1>1, <1>2, <1>3, <1>4 DEF TablesTyped, ACType
<1>8. AdministrationSound'
    BY <1>1, <1>2, <1>4 DEF AdministrationSound, AdminRemains, SettingsAsSubmitted, ActiveAdmin,
                            Active
<1> QED BY <1>5, <1>6, <1>7, <1>8, CommitFrame

\* The columns a roster change writes, as in ACCommit.
StatusWritten(req, stored) ==
    CASE req.op.kind = "create" -> "active"
      [] req.op.kind = "deactivate" -> Written(req.seen.status, "inactive", stored.status)
      [] req.op.kind = "update" -> Written(req.seen.status, Or(req.op.status, req.seen.status),
                                           stored.status)
RoleWritten(req, stored) ==
    CASE req.op.kind = "create" -> req.op.role
      [] req.op.kind = "deactivate" -> stored.role
      [] req.op.kind = "update" -> Written(req.seen.role, Or(req.op.role, req.seen.role), stored.role)

LEMMA WrittenKinds ==
    ASSUME NEW req \in RowLoaded, NEW stored \in Account
    PROVE  /\ StatusWritten(req, stored) \in {"unknown", "active", "inactive"}
           /\ RoleWritten(req, stored) \in Roles
<1>1. /\ req.op \in RosterOps /\ req.seen \in Account
    BY DEF RowLoaded
<1>2. CASE req.op.kind = "create"
    BY <1>1, <1>2, OpKinds DEF StatusWritten, RoleWritten
<1>3. CASE req.op.kind = "deactivate"
    BY <1>1, <1>3 DEF StatusWritten, RoleWritten, Written, Account
<1>4. CASE req.op.kind = "update"
    BY <1>1, <1>4, OpKinds DEF StatusWritten, RoleWritten, Written, Or, Account, Keep
<1>5. req.op.kind \in {"create", "deactivate", "update"}
    BY <1>1 DEF RosterOps
<1> QED BY <1>2, <1>3, <1>4, <1>5

\* Someone's account is rewritten and the history follows it.
Rewrites(u, account) ==
    /\ acUsers' = [acUsers EXCEPT ![u] = account]
    /\ acSince' = [acSince EXCEPT
         ![u] = [off |-> IF account.status = "active" THEN NotSince
                         ELSE IF Active(u) THEN acNow ELSE @.off,
                 plain |-> IF account.role = "admin" THEN NotSince
                           ELSE IF acUsers[u].role = "admin" THEN acNow ELSE @.plain]]
    /\ acNow' = acNow

LEMMA RewriteAsked ==
    ASSUME ACType, NEW u \in Users, NEW account \in Account, Rewrites(u, account)
    PROVE  /\ StillAsked
           /\ acUsers' \in [Users -> Account]
           /\ acSince' \in [Users -> [off : Int, plain : Int]]
<1> DEFINE off == IF account.status = "active" THEN NotSince
                  ELSE IF Active(u) THEN acNow ELSE acSince[u].off
           plain == IF account.role = "admin" THEN NotSince
                    ELSE IF acUsers[u].role = "admin" THEN acNow ELSE acSince[u].plain
<1>1. /\ acNow \in Nat /\ acUsers \in [Users -> Account] /\ NotSince \in Int
      /\ acSince \in [Users -> [off : Int, plain : Int]]
    BY AccountsAssumption DEF ACType, NotSince
<1>2. off \in Int /\ plain \in Int
    BY <1>1
<1>3. /\ acUsers' = [acUsers EXCEPT ![u] = account]
      /\ acSince' = [acSince EXCEPT ![u] = [off |-> off, plain |-> plain]]
      /\ acNow' = acNow
    BY <1>1 DEF Rewrites
<1>4. acUsers' \in [Users -> Account] /\ acSince' \in [Users -> [off : Int, plain : Int]]
    BY <1>1, <1>2, <1>3
<1>5. ASSUME NEW x \in Users, NEW asked \in Nat, AskedBefore(x, asked)
      PROVE  /\ AskedBefore(x, asked)'
             /\ AskedAsAdmin(x, asked) => AskedAsAdmin(x, asked)'
    <2>1. CASE x # u
        <3>1. acUsers'[x] = acUsers[x] /\ acSince'[x] = acSince[x]
            BY <1>1, <1>3, <2>1
        <3> QED BY <1>3, <1>5, <3>1 DEF AskedBefore, AskedAsAdmin, Active
    <2>2. CASE x = u
        <3>1. /\ acUsers'[x] = account
              /\ acSince'[x].off = off /\ acSince'[x].plain = plain
            BY <1>1, <1>3, <2>2
        <3>2. asked <= acNow /\ (~Active(u) => asked <= acSince[u].off)
            BY <1>5, <2>2 DEF AskedBefore
        <3>3. account.status # "active" => asked <= off
            BY <3>2
        <3>4. account.role # "admin" /\ AskedAsAdmin(u, asked) => asked <= plain
            BY <3>2 DEF AskedAsAdmin
        <3> HIDE DEF off, plain
        <3>5. AskedBefore(x, asked)'
            BY <1>3, <3>1, <3>2, <3>3 DEF AskedBefore, Active
        <3>6. AskedAsAdmin(x, asked) => AskedAsAdmin(x, asked)'
            BY <2>2, <3>1, <3>4 DEF AskedAsAdmin
        <3> QED BY <3>5, <3>6
    <2> QED BY <2>1, <2>2
<1> QED BY <1>4, <1>5 DEF StillAsked

\* The administrator who commits remains one, unless it was the own account
\* that changed: then it stays, or was made inactive, or another remains.
LEMMA SomeAdminRemains ==
    ASSUME ACInv, NEW r \in Requests, acReq[r].at = "loaded", acReq[r].op.kind # "budget",
           ~acOverlap,
           LET req == acReq[r]
               stored == acUsers[req.op.user]
               status == StatusWritten(req, stored)
           IN  /\ req.op.kind = "create" => stored.status = "unknown"
               /\ ~(req.op.user = req.user /\ status = "inactive")
               /\ acUsers' = [acUsers EXCEPT ![req.op.user] =
                                [status |-> status, role |-> RoleWritten(req, stored)]]
    PROVE  \E u \in Users : ActiveAdmin(u)'
<1> DEFINE req == acReq[r]
           op == req.op
           stored == acUsers[op.user]
           status == StatusWritten(req, stored)
           role == RoleWritten(req, stored)
<1>1. /\ req \in RowLoaded /\ Admission(req) /\ Current(req)
      /\ acUsers \in [Users -> Account]
      /\ acUsers' = [acUsers EXCEPT ![op.user] = [status |-> status, role |-> role]]
    BY LoadedFacts DEF ACInv, ACType
<1>2. /\ req.user \in Users /\ op \in RosterOps /\ op.user \in Users
      /\ op.kind \in {"create", "deactivate", "update"}
    BY <1>1, OpKinds DEF RowLoaded, RosterOps
<1>3. /\ acUsers[req.user].status = "active" /\ acUsers[req.user].role = "admin"
      /\ req.seen = stored
    BY <1>1, <1>2 DEF Admission, Current
<1>4. CASE op.user # req.user
    <2>1. acUsers'[req.user] = acUsers[req.user]
        BY <1>1, <1>2, <1>4
    <2> QED BY <1>2, <1>3, <2>1 DEF ActiveAdmin, Active
<1>5. CASE op.user = req.user
    <2>1. op.kind = "update"
        BY <1>1, <1>2, <1>3, <1>5 DEF Admission
    <2>2. status = Or(op.status, stored.status) /\ role = Or(op.role, stored.role)
        BY <1>3, <2>1 DEF StatusWritten, RoleWritten, Written
    <2>3. status = "active"
        BY <1>2, <1>3, <1>5, <2>1, <2>2, OpKinds DEF Or, Keep
    <2>4. role = "admin" \/ (role = "operator" /\ op.role = "operator")
        BY <1>2, <1>3, <1>5, <2>1, <2>2, OpKinds DEF Or, Keep, Roles
    <2> HIDE DEF status, role
    <2>5. CASE role = "admin"
        <3>1. acUsers'[req.user] = [status |-> status, role |-> role]
            BY <1>1, <1>2, <1>5
        <3> QED BY <1>2, <2>3, <2>5, <3>1 DEF ActiveAdmin, Active
    <2>6. CASE op.role = "operator"
        <3>1. PICK u \in Users \ {req.user} : ActiveAdmin(u)
            BY <1>1, <1>5, <2>1, <2>6 DEF Current
        <3>2. acUsers'[u] = acUsers[u]
            BY <1>1, <1>2, <1>5, <3>1
        <3> QED BY <3>1, <3>2 DEF ActiveAdmin, Active
    <2> QED BY <2>4, <2>5, <2>6
<1> QED BY <1>4, <1>5

LEMMA CommitInv ==
    ASSUME ACInv, NEW r \in Requests, ACCommit(r)
    PROVE  ACInv'
<1> DEFINE req == acReq[r]
           op == req.op
           stored == acUsers[op.user]
           status == StatusWritten(req, stored)
           role == RoleWritten(req, stored)
           account == [status |-> status, role |-> role]
<1>1. /\ req.at = "loaded" /\ op.kind # "budget"
      /\ op.kind = "create" => stored.status = "unknown"
      /\ Committed(r)
      /\ acUsers' = [acUsers EXCEPT ![op.user] = account]
      /\ acSince' = [acSince EXCEPT
           ![op.user] = [off |-> IF status = "active" THEN NotSince
                                 ELSE IF Active(op.user) THEN acNow ELSE @.off,
                         plain |-> IF role = "admin" THEN NotSince
                                   ELSE IF stored.role = "admin" THEN acNow ELSE @.plain]]
      /\ acLast' = [acLast EXCEPT !.actors = {[user |-> req.user, asked |-> req.asked]}]
      /\ acSelfOff' = (acSelfOff \/ (op.user = req.user /\ status = "inactive"))
      /\ UNCHANGED <<acNow, acSettings, acTokens, acSockets, acOps>>
    BY DEF ACCommit, StatusWritten, RoleWritten
<1>2. /\ ACType /\ AdministrationSound
      /\ acOverlap' = (acOverlap \/ \E q \in Requests \ {r} : Changing(q))
    BY <1>1 DEF ACInv, Committed
<1>3. /\ req \in RowLoaded /\ req.user \in Users /\ req.asked \in Nat /\ op \in RosterOps
      /\ op.user \in Users /\ stored \in Account
    <2>1. req \in RowLoaded
        BY <1>1, LoadedFacts
    <2>2. op \in RosterOps
        BY <2>1 DEF RowLoaded
    <2>3. op.user \in Users
        BY <1>1, <2>2, OpKinds
    <2> QED BY <1>2, <2>1, <2>2, <2>3 DEF RowLoaded, ACType
<1>4. account \in Account
    BY <1>3, WrittenKinds DEF Account
<1>5. Rewrites(op.user, account)
    BY <1>1 DEF Rewrites
<1> HIDE DEF status, role
<1>6. Commits(r)
    BY <1>1, <1>2 DEF Commits, ACType
<1>7. StillAsked /\ acUsers' \in [Users -> Account]
      /\ acSince' \in [Users -> [off : Int, plain : Int]]
    BY <1>2, <1>3, <1>4, <1>5, RewriteAsked
<1>8. TablesTyped'
    <2>1. acLast' \in [actors : SUBSET [user : Users, asked : Nat],
                       budget : Budgets \cup {NotYet}, threshold : Budgets \cup {NotYet}]
        BY <1>1, <1>2, <1>3 DEF ACType
    <2>2. acSelfOff' \in BOOLEAN
        BY <1>1, Zenon
    <2>3. acSettings' = acSettings
        BY <1>1
    <2> QED BY <1>2, <1>7, <2>1, <2>2, <2>3 DEF TablesTyped, ACType
<1>9. AdministrationSound'
    <2>1. SettingsAsSubmitted'
        <3>1. acLast'.budget = acLast.budget /\ acLast'.threshold = acLast.threshold
              /\ acSettings' = acSettings
            BY <1>1, <1>2 DEF ACType
        <3> QED BY <1>2, <3>1 DEF AdministrationSound, SettingsAsSubmitted
    <2>2. AdminRemains'
        <3>1. CASE acOverlap \/ acSelfOff \/ (op.user = req.user /\ status = "inactive")
            BY <1>1, <1>2, <3>1 DEF AdminRemains
        <3>2. CASE ~acOverlap /\ ~(op.user = req.user /\ status = "inactive")
            <4>1. \E u \in Users : ActiveAdmin(u)'
                BY <1>1, <3>2, SomeAdminRemains DEF status, role
            <4> QED BY <4>1 DEF AdminRemains
        <3> QED BY <3>1, <3>2
    <2> QED BY <2>1, <2>2 DEF AdministrationSound
<1> QED BY <1>6, <1>7, <1>8, <1>9, CommitFrame

LEMMA ACStepInv == ACInv /\ [ACNext]_acVars => ACInv'
<1> SUFFICES ASSUME ACInv, [ACNext]_acVars PROVE ACInv'
    OBVIOUS
<1>1. CASE UNCHANGED acVars
    <2>1. UNCHANGED <<acNow, acUsers, acSettings, acTokens, acSockets, acReq, acOps, acSince,
                      acLast, acOverlap, acSelfOff>>
        BY <1>1 DEF acVars
    <2>2. RequestsStep /\ SameTables /\ SameGrants /\ ACType
        BY <2>1 DEF RequestsStep, SameTables, SameGrants, ACInv
    <2> QED BY <2>1, <2>2, GrantsKept, TablesStep DEF ACType
<1>2. CASE AccessNext
    <2>1. ASSUME NEW r \in Requests, NEW u \in Users, ACLogin(r, u) \/ ACRefresh(r, u)
          PROVE  ACInv'
        BY <2>1, IssuingInv DEF ACLogin, ACRefresh
    <2> QED BY <1>2, <2>1, TickInv, IssueInv, ConnectInv, DisconnectInv DEF AccessNext
<1>3. ASSUME NEW r \in Requests, NEW a \in Users, NEW op \in RosterOps \cup BudgetOps,
             ACAdmit(r, a, op)
      PROVE  ACInv'
    BY <1>3, AdmitInv
<1>4. ASSUME NEW r \in Requests, Changes(r) PROVE ACInv'
    BY <1>4, LoadInv, GuardInv, CommitInv, ConflictInv, BudgetCommitInv DEF Changes
<1> QED BY <1>1, <1>2, <1>3, <1>4 DEF ACNext

LEMMA ACInvariant == ACSpec => []ACInv
BY ACInitInv, ACStepInv, PTL DEF ACSpec

\* What is issued to, opened by or changed by somebody inactive was checked
\* no later than the deactivation, whatever was changed between the check and
\* the act: for any number of users and of requests in progress.
THEOREM AccessRevoked == ACSpec => []RevokedAtCheck
<1>1. ACInv => RevokedAtCheck
    BY DEF ACInv, HistoryInv, AskedBefore, AskedAsAdmin, RevokedAtCheck
<1> QED BY <1>1, ACInvariant, PTL

\* Administrators who change one thing at a time and not the own account's
\* status never leave the system without an active administrator, and the
\* settings stored are those submitted last.
THEOREM StaysAdministrable == ACSpec => []AdministrationSound
<1>1. ACInv => AdministrationSound
    BY DEF ACInv
<1> QED BY <1>1, ACInvariant, PTL

LEMMA AccountTyped == ACInv => ACTypeOK
<1> SUFFICES ASSUME ACInv PROVE ACTypeOK
    OBVIOUS
<1>1. ACType
    BY DEF ACInv
<1>2. ASSUME NEW r \in Requests
      PROVE  /\ acReq[r].at \in {"idle", "admitted", "guarding", "loaded", "issuing"}
             /\ Changing(r) => acReq[r].self.status = "active" /\ acReq[r].self.role = "admin"
    <2>1. acReq[r] \in Req /\ Fits(acReq[r])
        BY DEF ACInv, ACType
    <2> QED BY <2>1, ReqKinds DEF Changing, Fits, InChange, Admission
<1> QED BY <1>1, <1>2 DEF ACType, ACTypeOK

\* A change under way was admitted for an active administrator.
THEOREM AccountTypes == ACSpec => []ACTypeOK
BY AccountTyped, ACInvariant, PTL

-----------------------------------------------------------------------------
(* The two beside each other.                                              *)

\* Whatever part the composition runs, and whatever it bounds there, each of
\* its steps is one of Housekeeping or none, and one of Accounts or none: what
\* is proved of either holds in the composition, and the other never touches
\* its state.
LEMMA OfficeInitial == MCInit => HKInit /\ ACInit
BY DEF MCInit

LEMMA OfficeSteps == [MCNext]_MCVars => [HKNext]_hkVars /\ [ACNext]_acVars
<1> SUFFICES ASSUME [MCNext]_MCVars PROVE [HKNext]_hkVars /\ [ACNext]_acVars
    OBVIOUS
<1>1. CASE UNCHANGED MCVars
    BY <1>1 DEF MCVars
<1>2. CASE Rows(RowsNext)
    BY <1>2 DEF Rows, HKNext
<1>3. CASE Files(FilesNext \/ HKTick \/ HKDown(w2) \/ HKRetentionPass(w1))
    <2>1. FilesNext \/ HKTick \/ HKDown(w2) \/ HKRetentionPass(w1)
        BY <1>3 DEF Files
    <2>2. HKNext
        BY <2>1, BackOfficeAssumption DEF HKNext, RowsNext
    <2> QED BY <1>3, <2>2 DEF Files
<1>4. ASSUME NEW s \in Sessions, Files(HKIngest(s)) PROVE HKNext /\ UNCHANGED acVars
    BY <1>4 DEF Files, HKNext, RowsNext
<1>5. ASSUME NEW w \in Workers, NEW s \in Sessions, NEW x \in Texts, Files(HKCaption(w, s, x))
      PROVE  HKNext /\ UNCHANGED acVars
    BY <1>5 DEF Files, HKNext, RowsNext
<1>6. CASE Files(\E v \in hkSpeaking : HKTranslated(v))
    BY <1>6 DEF Files, HKNext, RowsNext
<1>7. CASE Desk("access", AccessNext \/ \E r \in Requests : Changes(r))
    BY <1>7 DEF Desk, ACNext
<1>8. ASSUME NEW r \in Requests, NEW op \in StatusOps, Desk("access", ACAdmit(r, a1, op))
      PROVE  ACNext /\ UNCHANGED hkVars
    BY <1>8, BackOfficeAssumption DEF Desk, ACNext, StatusOps
<1>9. ASSUME NEW r \in Requests, NEW a \in Users, NEW op \in RosterOps,
             Desk("roster", ACAdmit(r, a, op) /\ acOps' <= 2)
      PROVE  ACNext /\ UNCHANGED hkVars
    BY <1>9 DEF Desk, ACNext
<1>10. ASSUME NEW r \in Requests, NEW op \in BudgetOps, Desk("settings", ACAdmit(r, a1, op))
       PROVE  ACNext /\ UNCHANGED hkVars
    BY <1>10, BackOfficeAssumption DEF Desk, ACNext
<1>11. ASSUME NEW r \in Requests,
              Desk("roster", Changes(r)) \/ Desk("settings", Changes(r))
       PROVE  ACNext /\ UNCHANGED hkVars
    BY <1>11 DEF Desk, ACNext
<1> QED BY <1>1, <1>2, <1>3, <1>4, <1>5, <1>6, <1>7, <1>8, <1>9, <1>10, <1>11 DEF MCNext

\* Beside each other too, every translation has its caption and every change
\* under way was admitted for an active administrator.
THEOREM OfficeTypes == MCSpec => []BackOfficeTypeOK
<1> DEFINE Inv == HKInv /\ ACInv
<1>1. MCInit => Inv
    BY OfficeInitial, HKInitInv, ACInitInv
<1>2. Inv /\ [MCNext]_MCVars => Inv'
    BY OfficeSteps, HKStepInv, ACStepInv
<1>3. Inv => BackOfficeTypeOK
    BY HouseTyped, AccountTyped DEF BackOfficeTypeOK
<1> QED BY <1>1, <1>2, <1>3, PTL DEF MCSpec

=============================================================================
