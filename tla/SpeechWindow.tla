---------------------------- MODULE SpeechWindow ----------------------------
(***************************************************************************)
(* The sliding window of providers/whisper.py: a recording is re-sent in   *)
(* overlapping windows of whole chunks, and what an earlier window already *)
(* said is cut from the text of the next; the transcription task of        *)
(* services/audio_ingest.py then tells music from speech.                  *)
(*                                                                         *)
(* The words of a recording are numbered 1, 2, 3... in the order in which  *)
(* they are spoken and are all different; a word may be misheard (-w) or   *)
(* missed.  Music stands for a bracketed music token.  The header split    *)
(* off the first chunk is a constant prefix of every request and is not    *)
(* part of the state: a chunk's size is that of its payload.               *)
(***************************************************************************)
EXTENDS Integers, Sequences, FiniteSetsExt

CONSTANTS
    WindowBytes,    \* whisper_window_bytes
    SlideBytes,     \* whisper_slide_bytes
    ChunkBytes,     \* the payload sizes a chunk can have
    ChunkWords,     \* the numbers of words a chunk can hold
    MinAnchor,      \* _MIN_ANCHOR
    MaxAnchor,      \* _MAX_ANCHOR
    HistoryCap,     \* _HISTORY_CAP
    MusicThreshold, \* MUSIC_DETECT_THRESHOLD
    MaxChunks,      \* bound: the chunks of a recording
    MaxSlips        \* bound: transcripts that are not exact

\* A window has room for the audio of one slide and the chunk that completes it.
ASSUME SpeechWindowAssumption ==
    /\ WindowBytes \in Nat /\ SlideBytes \in Nat \ {0}
    /\ ChunkBytes \subseteq Nat \ {0} /\ ChunkWords \subseteq Nat
    /\ \A b \in ChunkBytes : SlideBytes + b <= WindowBytes + 1
    /\ MinAnchor \in Nat \ {0} /\ MaxAnchor \in Nat /\ HistoryCap \in Nat
    /\ MinAnchor <= MaxAnchor /\ MaxAnchor <= HistoryCap
    /\ MusicThreshold \in Nat \ {0} /\ MaxSlips \in Nat

VARIABLES
    spPhase,     \* where transcribe_stream stands
    spEnds,      \* spEnds[c]: the bytes of chunks 1..c
    spWords,     \* spWords[c]: the number of words in chunks 1..c
    spFirst,     \* window holds the chunks spFirst..Len(spEnds)
    spFresh,     \* bytes_since_flush
    spSent,      \* the last chunk that was part of a request
    spCommitted, \* dedup._committed
    spOut,       \* everything transcribe_stream yielded
    spMusic,     \* consecutive_music and music_signalled
    spControl,   \* the messages put on control_queue
    spSlips,     \* transcripts so far that were not exact
    spNews       \* the words of the last transcript that nobody had heard before

spVars == <<spPhase, spEnds, spWords, spFirst, spFresh, spSent, spCommitted,
            spOut, spMusic, spControl, spSlips, spNews>>

Music == 0
Position(w) == IF w < 0 THEN -w ELSE w
Positions(s) == {Position(s[i]) : i \in DOMAIN s} \ {Music}
LastWords(s, k) == SubSeq(s, Len(s) - k + 1, Len(s))
Upto(f, c) == IF c = 0 THEN 0 ELSE f[c]

-----------------------------------------------------------------------------
(* The overlap deduplicator.                                               *)

\* The start of the last occurrence of needle in haystack, 0 for none.
RFind(haystack, needle) ==
    LET starts == {i \in 1..(Len(haystack) - Len(needle) + 1) :
                     SubSeq(haystack, i, i + Len(needle) - 1) = needle}
    IN  IF needle = <<>> \/ starts = {} THEN 0 ELSE Max(starts)

\* Mutant: the word after the anchor is cut as well.
EmitIndexPast(committed, norm) ==
    LET found == {k \in MinAnchor..Min({MaxAnchor, Len(committed)}) :
                    RFind(norm, LastWords(committed, k)) # 0}
    IN  IF found = {} THEN 0
        ELSE RFind(norm, LastWords(committed, Max(found))) + Max(found)

\* Mutant: only an anchor of full length is tried.
EmitIndexFull(committed, norm) ==
    LET start == RFind(norm, LastWords(committed, MaxAnchor))
    IN  IF Len(committed) < MaxAnchor \/ start = 0 THEN 0 ELSE start + MaxAnchor - 1

\* The number of words of norm that were already emitted: up to the end of
\* the longest tail of the committed words found in it, none on a miss.
EmitIndex(committed, norm) ==
    LET lengths == MinAnchor..Min({MaxAnchor, Len(committed)})
        found == {k \in lengths : RFind(norm, LastWords(committed, k)) # 0}
    IN  IF found = {} THEN 0
        ELSE RFind(norm, LastWords(committed, Max(found))) + Max(found) - 1

\* What next_segment returns for the words of a transcript.
NewText(committed, norm) ==
    IF committed = <<>> THEN norm
    ELSE SubSeq(norm, EmitIndex(committed, norm) + 1, Len(norm))

\* Mutant: the history is not cut.
CommitAll(committed, segment) == committed \o segment

\* The committed words after next_segment: the newest HistoryCap of them.
Commit(committed, segment) ==
    LET all == committed \o segment
    IN  LastWords(all, Min({HistoryCap, Len(all)}))

-----------------------------------------------------------------------------
(* The window.                                                             *)

Buffered(ends, first) == ends[Len(ends)] - Upto(ends, first - 1)

\* Whole chunks leave the window until it fits, but never the newest one.
Trim(ends, first) ==
    CHOOSE f \in first..Len(ends) :
        /\ f = Len(ends) \/ Buffered(ends, f) <= WindowBytes
        /\ \A g \in first..(f - 1) : Buffered(ends, g) > WindowBytes

\* The words of the window, oldest first.
Spoken ==
    LET before == Upto(spWords, spFirst - 1)
    IN  [i \in 1..(Upto(spWords, Len(spWords)) - before) |-> before + i]

\* What the provider may answer: the words as spoken; one of them misheard;
\* one missed; nothing (silence, or text dropped for low confidence); music.
Transcripts ==
    {Spoken, <<>>, <<Music>>}
    \cup {[Spoken EXCEPT ![i] = -Spoken[i]] : i \in DOMAIN Spoken}
    \cup {SubSeq(Spoken, 1, i - 1) \o SubSeq(Spoken, i + 1, Len(Spoken)) :
            i \in DOMAIN Spoken}

SPTypeOK ==
    /\ spPhase \in {"listening", "calling", "flushing", "done", "failed"}
    /\ spEnds \in Seq(Nat) /\ spWords \in Seq(Nat)
    /\ Len(spEnds) = Len(spWords)
    /\ spFirst \in 1..(Len(spEnds) + 1) /\ spSent \in 0..Len(spEnds)
    /\ spFresh \in Nat
    /\ spCommitted \in Seq(Int) /\ Len(spCommitted) <= HistoryCap
    /\ spOut \in Seq(Int)
    /\ spMusic \in [run : Nat, signalled : BOOLEAN]
    /\ spControl \in Seq({"auto_music_detected", "auto_speech_resumed"})
    /\ spSlips \in 0..MaxSlips
    /\ spNews \subseteq Nat

SPInit ==
    /\ spPhase = "listening"
    /\ spEnds = <<>> /\ spWords = <<>>
    /\ spFirst = 1 /\ spFresh = 0 /\ spSent = 0
    /\ spCommitted = <<>> /\ spOut = <<>>
    /\ spMusic = [run |-> 0, signalled |-> FALSE]
    /\ spControl = <<>>
    /\ spSlips = 0 /\ spNews = {}

\* A chunk arrives: the window grows, sheds what no longer fits, and is sent
\* when a slide of fresh audio has gathered.  (A first chunk that is nothing
\* but the header changes none of this.)
SPChunk(bytes, words) ==
    /\ spPhase = "listening"
    /\ Len(spEnds) < MaxChunks
    /\ spEnds' = Append(spEnds, Upto(spEnds, Len(spEnds)) + bytes)
    /\ spWords' = Append(spWords, Upto(spWords, Len(spWords)) + words)
    /\ spFresh' = spFresh + bytes
    /\ spFirst' = Trim(spEnds', spFirst)
    /\ spPhase' = IF spFresh' >= SlideBytes THEN "calling" ELSE "listening"
    /\ spSent' = IF spFresh' >= SlideBytes THEN Len(spEnds') ELSE spSent
    /\ UNCHANGED <<spCommitted, spOut, spMusic, spControl, spSlips, spNews>>

\* Mutant: the stream ends without a last request.
SPEndUnflushed ==
    /\ spPhase = "listening"
    /\ spPhase' = "done"
    /\ UNCHANGED <<spEnds, spWords, spFirst, spFresh, spSent, spCommitted, spOut,
                   spMusic, spControl, spSlips, spNews>>

\* The sentinel ends the stream: audio not yet sent is sent now.
SPEnd ==
    /\ spPhase = "listening"
    /\ spPhase' = IF spFresh > 0 THEN "flushing" ELSE "done"
    /\ spSent' = IF spFresh > 0 THEN Len(spEnds) ELSE spSent
    /\ UNCHANGED <<spEnds, spWords, spFirst, spFresh, spCommitted, spOut,
                   spMusic, spControl, spSlips, spNews>>

\* What the transcription task does with a text it was yielded: music is
\* counted and announced once; speech ends it.
IsMusicOutput(segment) == segment = <<Music>>

HearMusic(segment) ==
    LET run == spMusic.run + 1
        announce == run >= MusicThreshold /\ ~spMusic.signalled
    IN  /\ IsMusicOutput(segment)
        /\ spMusic' = [run |-> run, signalled |-> spMusic.signalled \/ announce]
        /\ spControl' = IF announce THEN Append(spControl, "auto_music_detected")
                        ELSE spControl

\* Mutant: speech leaves the run of music texts as it is.
HearSpeechOnly(segment) ==
    /\ segment # <<>> /\ ~IsMusicOutput(segment)
    /\ spMusic' = [spMusic EXCEPT !.signalled = FALSE]
    /\ spControl' = IF spMusic.signalled
                    THEN Append(spControl, "auto_speech_resumed") ELSE spControl

HearSpeech(segment) ==
    /\ segment # <<>> /\ ~IsMusicOutput(segment)
    /\ spMusic' = [run |-> 0, signalled |-> FALSE]
    /\ spControl' = IF spMusic.signalled
                    THEN Append(spControl, "auto_speech_resumed") ELSE spControl

HearNothing(segment) == segment = <<>> /\ UNCHANGED <<spMusic, spControl>>

\* The answer to a request: deduplicated, committed, yielded and heard.
SPTranscribed(text) ==
    LET segment == NewText(spCommitted, text)
    IN  /\ spPhase \in {"calling", "flushing"}
        /\ text # Spoken => spSlips < MaxSlips
        /\ spSlips' = IF text = Spoken THEN spSlips ELSE spSlips + 1
        /\ spFresh' = IF spPhase = "calling" THEN 0 ELSE spFresh
        /\ spPhase' = IF spPhase = "calling" THEN "listening" ELSE "done"
        /\ spCommitted' = Commit(spCommitted, segment)
        /\ spOut' = spOut \o segment
        /\ spNews' = {p \in Positions(text) : \A q \in Positions(spOut) : p > q}
        /\ HearMusic(segment) \/ HearSpeech(segment) \/ HearNothing(segment)
        /\ UNCHANGED <<spEnds, spWords, spFirst, spSent>>

\* The request failed for good: the exception ends the stream and the task.
SPFail ==
    /\ spPhase \in {"calling", "flushing"}
    /\ spPhase' = "failed"
    /\ UNCHANGED <<spEnds, spWords, spFirst, spFresh, spSent, spCommitted, spOut,
                   spMusic, spControl, spSlips, spNews>>

SPNext ==
    \/ \E bytes \in ChunkBytes, words \in ChunkWords : SPChunk(bytes, words)
    \/ SPEnd
    \/ \E text \in Transcripts : SPTranscribed(text)
    \/ SPFail

SPSpec == SPInit /\ [][SPNext]_spVars

-----------------------------------------------------------------------------
(* What must hold.                                                         *)

\* No chunk leaves the window before it was part of a request, and when the
\* stream has ended every chunk was: trimming happens before the slide is
\* checked, and only SpeechWindowAssumption keeps it off fresh audio.
EveryChunkSent ==
    /\ spFirst - 1 <= spSent
    /\ spPhase = "done" => spSent = Len(spEnds)

\* Whatever was misheard, missed or drowned in music before: in a recording
\* whose words are all different, a word later than everything emitted so far is
\* emitted with the transcript it first appears in ("speech is never dropped").
SpeechNeverDropped == spNews \subseteq Positions(spOut)

WholePhrases ==
    \A c \in DOMAIN spWords :
        spWords[c] - Upto(spWords, c - 1) \in {0} \cup {n \in ChunkWords : n >= MinAnchor}

\* Transcripts that are exact, of chunks that are silent or hold an anchor's
\* worth of words, come out as the recording: nothing twice, nothing missing.
CleanStreamExact ==
    spSlips = 0 /\ WholePhrases =>
        /\ \A i \in DOMAIN spOut : spOut[i] = i
        /\ spPhase \in {"listening", "done"} => Len(spOut) = Upto(spWords, spSent)

\* The operator's page shows music exactly while the last MusicThreshold texts
\* were music, and is told of each change once.
MusicModeExact ==
    /\ spMusic.signalled <=>
         /\ Len(spOut) >= MusicThreshold
         /\ \A i \in (Len(spOut) - MusicThreshold + 1)..Len(spOut) : spOut[i] = Music
    /\ spMusic.signalled <=> Len(spControl) % 2 = 1
    /\ \A i \in DOMAIN spControl :
         spControl[i] = IF i % 2 = 1 THEN "auto_music_detected" ELSE "auto_speech_resumed"
=============================================================================
