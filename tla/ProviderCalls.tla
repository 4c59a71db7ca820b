---------------------------- MODULE ProviderCalls ----------------------------
(***************************************************************************)
(* Calls to the cloud providers: providers/whisper.py, google_translate.py *)
(* and google_tts.py post a request and retry it with back-off on          *)
(* transient answers.  The transcription calls of all sessions share one   *)
(* semaphore (services/audio_ingest.py), which a call keeps through its    *)
(* retries and the sleeps between them.                                    *)
(***************************************************************************)
EXTENDS Integers, Sequences, SequencesExt, FiniteSets

CONSTANTS
    Transcribers,  \* callers of Whisper: one per ingesting session
    Googlers,      \* callers of Translation and Text-to-Speech
    MaxConcurrent, \* whisper_max_concurrent
    MaxRetries     \* max_retries

ASSUME ProviderCallsAssumption ==
    /\ Transcribers \cap Googlers = {}
    /\ IsFiniteSet(Transcribers)
    /\ MaxConcurrent \in Nat \ {0} /\ MaxRetries \in Nat \ {0}

Callers == Transcribers \cup Googlers

VARIABLES
    pcAt,      \* where each caller's last call stands, or how it ended
    pcAttempt, \* the posts of that call so far
    pcFree,    \* free permits of the semaphore
    pcWaiters  \* the callers waiting for a permit, first come first

pcVars == <<pcAt, pcAttempt, pcFree, pcWaiters>>

Answered == {"returned", "exhausted", "refused", "empty", "cancelled"}
InCall == {"posting", "sleeping"}
Holders == {c \in Transcribers : pcAt[c] \in InCall}

PCTypeOK ==
    /\ pcAt \in [Callers -> {"idle", "waiting"} \cup InCall \cup Answered]
    /\ pcAttempt \in [Callers -> 0..MaxRetries]
    /\ pcFree \in 0..MaxConcurrent
    /\ pcWaiters \in Seq(Transcribers)

PCInit ==
    /\ pcAt = [c \in Callers |-> "idle"]
    /\ pcAttempt = [c \in Callers |-> 0]
    /\ pcFree = MaxConcurrent
    /\ pcWaiters = <<>>

\* Mutant: the permit goes back to the semaphore and nobody is woken.
LeaveUnheard(c, outcome) ==
    /\ pcAt' = [pcAt EXCEPT ![c] = outcome]
    /\ pcFree' = IF c \in Transcribers THEN pcFree + 1 ELSE pcFree
    /\ UNCHANGED <<pcAttempt, pcWaiters>>

\* The permit of a call that ends goes to the first waiter, whose request is
\* posted at last, or back to the semaphore.
Leave(c, outcome) ==
    IF c \in Transcribers /\ pcWaiters # <<>>
    THEN /\ pcAt' = [pcAt EXCEPT ![c] = outcome, ![Head(pcWaiters)] = "posting"]
         /\ pcAttempt' = [pcAttempt EXCEPT ![Head(pcWaiters)] = 1]
         /\ pcWaiters' = Tail(pcWaiters)
         /\ UNCHANGED pcFree
    ELSE /\ pcAt' = [pcAt EXCEPT ![c] = outcome]
         /\ pcFree' = IF c \in Transcribers THEN pcFree + 1 ELSE pcFree
         /\ UNCHANGED <<pcAttempt, pcWaiters>>

\* The semaphore's queue forgets a caller that is cancelled while it waits.
StopWaiting(c) ==
    /\ pcAt[c] = "waiting"
    /\ \E i \in DOMAIN pcWaiters : pcWaiters[i] = c /\ pcWaiters' = RemoveAt(pcWaiters, i)
    /\ pcAt' = [pcAt EXCEPT ![c] = "cancelled"]
    /\ UNCHANGED <<pcAttempt, pcFree>>

\* Mutant: a cancelled call keeps its permit.
PCCancelHolding(c) ==
    \/ StopWaiting(c)
    \/ /\ pcAt[c] \in InCall
       /\ pcAt' = [pcAt EXCEPT ![c] = "cancelled"]
       /\ UNCHANGED <<pcAttempt, pcFree, pcWaiters>>

\* A call begins: a transcription first takes a permit or queues for one.
PCCall(c) ==
    LET post == c \in Googlers \/ (pcFree > 0 /\ pcWaiters = <<>>)
    IN  /\ pcAt[c] \in {"idle"} \cup Answered
        /\ pcAt' = [pcAt EXCEPT ![c] = IF post THEN "posting" ELSE "waiting"]
        /\ pcAttempt' = [pcAttempt EXCEPT ![c] = IF post THEN 1 ELSE 0]
        /\ pcFree' = IF post /\ c \in Transcribers THEN pcFree - 1 ELSE pcFree
        /\ pcWaiters' = IF post THEN pcWaiters ELSE Append(pcWaiters, c)

\* A status below 400 with usable content; a meter, if the provider was given
\* one, records it.
PCSucceed(c) ==
    /\ pcAt[c] = "posting"
    /\ Leave(c, "returned")

\* A Google answer without translations or audio raises before it is metered.
PCEmpty(c) ==
    /\ pcAt[c] = "posting" /\ c \in Googlers
    /\ Leave(c, "empty")

\* 429, a server error or a time-out: another attempt after a sleep, unless
\* this was the last; the permit is kept.
PCTransient(c) ==
    /\ pcAt[c] = "posting"
    /\ IF pcAttempt[c] < MaxRetries
       THEN /\ pcAt' = [pcAt EXCEPT ![c] = "sleeping"]
            /\ UNCHANGED <<pcAttempt, pcFree, pcWaiters>>
       ELSE Leave(c, "exhausted")

PCRetry(c) ==
    /\ pcAt[c] = "sleeping"
    /\ pcAt' = [pcAt EXCEPT ![c] = "posting"]
    /\ pcAttempt' = [pcAttempt EXCEPT ![c] = @ + 1]
    /\ UNCHANGED <<pcFree, pcWaiters>>

\* Any other client error, and a connection that fails, is raised at once.
PCFatal(c) ==
    /\ pcAt[c] = "posting"
    /\ Leave(c, "refused")

\* A drain that timed out cancels the transcription task, a fanout that stops
\* cancels its own, wherever in the call they are.
PCCancel(c) == StopWaiting(c) \/ (pcAt[c] \in InCall /\ Leave(c, "cancelled"))

PCProgress(c) == PCSucceed(c) \/ PCEmpty(c) \/ PCTransient(c) \/ PCRetry(c) \/ PCFatal(c)

PCNext == \E c \in Callers : PCCall(c) \/ PCProgress(c) \/ PCCancel(c)

PCSpec == PCInit /\ [][PCNext]_pcVars /\ \A c \in Callers : WF_pcVars(PCProgress(c))

-----------------------------------------------------------------------------
(* What must hold.                                                         *)

\* Whatever way calls end, each permit is free or held by one call, and none
\* is free while somebody waits: no error, retry or cancellation leaks one.
PermitsConserved ==
    /\ pcFree + Cardinality(Holders) = MaxConcurrent
    /\ pcFree > 0 => pcWaiters = <<>>
    /\ ToSet(pcWaiters) = {c \in Transcribers : pcAt[c] = "waiting"}

\* A transcription that waits for a permit does not wait forever, whatever
\* the other sessions' calls run into.
WaiterServed == \A c \in Transcribers : pcAt[c] = "waiting" ~> pcAt[c] # "waiting"
=============================================================================
