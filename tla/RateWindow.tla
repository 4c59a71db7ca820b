----------------------------- MODULE RateWindow -----------------------------
(***************************************************************************)
(* The sliding windows that throttle anonymous requests                    *)
(* (core/rate_limit.py, as login and join use it) and the audio an operator*)
(* sends (AudioByteRateLimiter of services/audio_ingest.py).               *)
(*                                                                         *)
(* The request limiter is built on first use by a plain function, which    *)
(* the framework runs in a thread pool: requests that arrive before it     *)
(* exists can each build one, and the last one built stays.  A check runs  *)
(* in the event loop and is one step.                                      *)
(***************************************************************************)
EXTENDS Integers, Sequences, FiniteSets, FiniteSetsExt

CONSTANTS
    Requests,    \* requests in progress at a time
    Keys,        \* what they are counted by: address, or address and email
    MaxRequests, \* max_requests
    Window,      \* window_seconds and _WINDOW_SECONDS
    FrameBytes,  \* the sizes an audio frame can have
    MaxBytes,    \* operator_audio_max_bytes_per_minute
    MaxTime      \* bound: the clock

ASSUME RateWindowAssumption ==
    /\ IsFiniteSet(Requests)
    /\ MaxRequests \in Nat \ {0} /\ Window \in Nat \ {0}
    /\ MaxBytes \in Nat /\ FrameBytes \subseteq Nat \ {0}
    /\ MaxTime \in Nat

VARIABLES
    rwNow,      \* time.monotonic()
    rwLimiter,  \* the process-wide limiter, 0 while there is none
    rwBuilt,    \* limiters built; they are numbered from 1
    rwHits,     \* rwHits[l][k]: the hits limiter l holds for key k
    rwAt,       \* where each request is
    rwUses,     \* the limiter a request was given
    rwAllowed,  \* history: the hits let through, for each key
    rwRefusal,  \* history: the request just refused, if it was
    rwFrames,   \* the frames the audio limiter holds for the session
    rwHeard     \* history: the frames let through

rwLimiters == <<rwLimiter, rwBuilt, rwHits, rwAt, rwUses, rwAllowed, rwRefusal>>
rwAudio == <<rwFrames, rwHeard>>
rwVars == <<rwNow, rwLimiters, rwAudio>>

Limiters == 1..Cardinality(Requests)
Entry == [at : Nat, by : Limiters]

\* The bytes of a log's entries at some places, each a pair of its place and
\* its number in the entry; their sum is how many there are.
BytesOf(log, places) == UNION {{i} \X (1..log[i].size) : i \in places}
Weigh(entries) == Cardinality(BytesOf(entries, DOMAIN entries))

\* Mutant: an entry as old as the window stays.
EvictLate(entries, now) ==
    LET stale == {i \in DOMAIN entries :
                    \A j \in 1..i : entries[j].at < now - Window}
    IN  SubSeq(entries, Cardinality(stale) + 1, Len(entries))

\* Entries that have left the window are dropped from the head.
Evict(entries, now) ==
    LET stale == {i \in DOMAIN entries :
                    \A j \in 1..i : entries[j].at <= now - Window}
    IN  SubSeq(entries, Cardinality(stale) + 1, Len(entries))

RWTypeOK ==
    /\ rwNow \in 0..MaxTime
    /\ rwLimiter \in 0..rwBuilt /\ rwBuilt \in {0} \cup Limiters
    /\ \A l \in Limiters, k \in Keys :
         rwHits[l][k] \in Seq(Entry) /\ Len(rwHits[l][k]) <= MaxRequests
    /\ rwAt \in [Requests -> {"idle", "building", "returning", "checking"}]
    /\ rwUses \in [Requests -> {0} \cup Limiters]
    /\ Weigh(rwFrames) <= MaxBytes

RWInit ==
    /\ rwNow = 0
    /\ rwLimiter = 0 /\ rwBuilt = 0
    /\ rwHits = [l \in Limiters |-> [k \in Keys |-> <<>>]]
    /\ rwAt = [r \in Requests |-> "idle"]
    /\ rwUses = [r \in Requests |-> 0]
    /\ rwAllowed = [k \in Keys |-> <<>>] /\ rwRefusal = {}
    /\ rwFrames = <<>> /\ rwHeard = <<>>

RWTick ==
    /\ rwNow < MaxTime
    /\ rwNow' = rwNow + 1
    /\ UNCHANGED <<rwLimiters, rwAudio>>

-----------------------------------------------------------------------------
(* Requests.                                                               *)

\* The getter finds no limiter, or goes on to return the one there is.
RWAsk(r) ==
    /\ rwAt[r] = "idle"
    /\ rwAt' = [rwAt EXCEPT ![r] = IF rwLimiter = 0 THEN "building" ELSE "returning"]
    /\ UNCHANGED <<rwNow, rwLimiter, rwBuilt, rwHits, rwUses, rwAllowed, rwRefusal, rwAudio>>

\* A limiter is built and takes the place of whatever is there by now.
RWBuild(r) ==
    /\ rwAt[r] = "building"
    /\ rwBuilt' = rwBuilt + 1
    /\ rwLimiter' = rwBuilt + 1
    /\ rwAt' = [rwAt EXCEPT ![r] = "returning"]
    /\ UNCHANGED <<rwNow, rwHits, rwUses, rwAllowed, rwRefusal, rwAudio>>

RWReturn(r) ==
    /\ rwAt[r] = "returning"
    /\ rwUses' = [rwUses EXCEPT ![r] = rwLimiter]
    /\ rwAt' = [rwAt EXCEPT ![r] = "checking"]
    /\ UNCHANGED <<rwNow, rwLimiter, rwBuilt, rwHits, rwAllowed, rwRefusal, rwAudio>>

\* check: a full window refuses and says when its oldest hit leaves; a
\* refused request is not counted.
RWCheck(r, k) ==
    LET bucket == Evict(rwHits[rwUses[r]][k], rwNow)
        hit == [at |-> rwNow, by |-> rwUses[r]]
        full == Len(bucket) >= MaxRequests
    IN  /\ rwAt[r] = "checking"
        /\ rwAt' = [rwAt EXCEPT ![r] = "idle"]
        /\ rwHits' = [rwHits EXCEPT ![rwUses[r]][k] = IF full THEN bucket ELSE Append(bucket, hit)]
        /\ rwAllowed' = IF full THEN rwAllowed ELSE [rwAllowed EXCEPT ![k] = Append(@, hit)]
        /\ rwRefusal' =
             IF full
             THEN {[key |-> k, hit |-> hit, retryAfter |-> Head(bucket).at + Window - rwNow]}
             ELSE {}
        /\ rwUses' = [rwUses EXCEPT ![r] = 0]
        /\ UNCHANGED <<rwNow, rwLimiter, rwBuilt, rwAudio>>

-----------------------------------------------------------------------------
(* Audio.                                                                  *)

\* Mutant: the frame is let through if there was room before it.
RWFrameAfter(bytes) ==
    LET window == Evict(rwFrames, rwNow)
        frame == [at |-> rwNow, size |-> bytes]
        over == Weigh(window) >= MaxBytes
    IN  /\ rwFrames' = IF over THEN window ELSE Append(window, frame)
        /\ rwHeard' = IF over THEN rwHeard ELSE Append(rwHeard, frame)
        /\ UNCHANGED <<rwNow, rwLimiters>>

\* record_and_check: the frame is counted only if it fits; the operator is
\* disconnected otherwise.  A new connection finds the same window.
RWFrame(bytes) ==
    LET window == Evict(rwFrames, rwNow)
        frame == [at |-> rwNow, size |-> bytes]
        over == Weigh(window) + bytes > MaxBytes
    IN  /\ rwFrames' = IF over THEN window ELSE Append(window, frame)
        /\ rwHeard' = IF over THEN rwHeard ELSE Append(rwHeard, frame)
        /\ UNCHANGED <<rwNow, rwLimiters>>

RequestsNext ==
    \/ RWTick
    \/ \E r \in Requests : RWAsk(r) \/ RWBuild(r) \/ RWReturn(r)
    \/ \E r \in Requests, k \in Keys : RWCheck(r, k)

AudioNext == RWTick \/ \E bytes \in FrameBytes : RWFrame(bytes)

RWNext == RequestsNext \/ AudioNext

RWSpec == RWInit /\ [][RWNext]_rwVars

-----------------------------------------------------------------------------
(* What must hold.                                                         *)

Within(log, t) == {i \in DOMAIN log : t - Window < log[i].at /\ log[i].at <= t}

\* In no window of time are more requests of a key let through than each
\* limiter built allows (one limiter, unless the first requests raced), nor
\* more audio than the cap.
WindowCap ==
    \A t \in 0..rwNow :
        /\ \A k \in Keys :
             Cardinality(Within(rwAllowed[k], t))
               <= MaxRequests * rwBuilt
        /\ Cardinality(BytesOf(rwHeard, Within(rwHeard, t))) <= MaxBytes

\* A request is refused only when its limiter let MaxRequests through in the
\* window that ends with it, and the retry_after it is told ends when the
\* oldest of them leaves.
RefusedOnlyWhenFull ==
    \A refusal \in rwRefusal :
        LET log == rwAllowed[refusal.key]
            counted == {j \in Within(log, refusal.hit.at) : log[j].by = refusal.hit.by}
        IN  /\ Cardinality(counted) >= MaxRequests
            /\ refusal.hit.at + refusal.retryAfter = Window + Min({log[j].at : j \in counted})
=============================================================================
