-------------------------- MODULE Throttle_proofs --------------------------
(***************************************************************************)
(* Proofs about what limits the work taken on: the semaphore of the        *)
(* transcription calls (ProviderCalls) and the sliding windows             *)
(* (RateWindow), for every number of callers, permits, retries, requests   *)
(* and keys.                                                               *)
(***************************************************************************)
EXTENDS MCSpeech, SpeechWindow_proofs

-----------------------------------------------------------------------------
(* Permits.                                                                *)

\* The queue is exactly the waiting callers, each once.
QueueOfWaiting ==
    /\ \A i \in 1..Len(pcWaiters) : pcAt[pcWaiters[i]] = "waiting"
    /\ \A i, j \in 1..Len(pcWaiters) : pcWaiters[i] = pcWaiters[j] => i = j
    /\ \A c \in Transcribers :
         pcAt[c] = "waiting" => \E i \in 1..Len(pcWaiters) : pcWaiters[i] = c

PermitInv ==
    /\ pcFree + Cardinality(Holders) = MaxConcurrent
    /\ pcFree > 0 => pcWaiters = <<>>

\* A call that sleeps has an attempt left, one that posts counts it; only
\* transcriptions wait.
PCType ==
    /\ pcAt \in [Callers -> {"idle", "waiting"} \cup InCall \cup Answered]
    /\ pcAttempt \in [Callers -> 0..MaxRetries]
    /\ pcFree \in Nat /\ pcWaiters \in Seq(Transcribers)
    /\ \A c \in Callers : pcAt[c] = "sleeping" => pcAttempt[c] < MaxRetries
    /\ \A c \in Callers : pcAt[c] = "posting" => pcAttempt[c] > 0
    /\ \A c \in Callers : pcAt[c] = "waiting" => c \in Transcribers

PCInv == PCType /\ QueueOfWaiting /\ PermitInv

\* The places of the queue after its i-th caller left it.
LEMMA RemoveAtShape ==
    ASSUME NEW S, NEW s \in Seq(S), NEW i \in 1..Len(s)
    PROVE  /\ RemoveAt(s, i) \in Seq(S) /\ Len(RemoveAt(s, i)) = Len(s) - 1
           /\ \A k \in 1..(Len(s) - 1) :
                RemoveAt(s, i)[k] = s[IF k < i THEN k ELSE k + 1]
<1> DEFINE a == SubSeq(s, 1, i - 1)
           b == SubSeq(s, i + 1, Len(s))
<1>1. /\ Len(s) \in Nat /\ i \in Nat \ {0} /\ i <= Len(s)
      /\ \A k \in 1..Len(s) : s[k] \in S
    OBVIOUS
<1>2. /\ a \in Seq(S) /\ Len(a) = i - 1 /\ \A k \in 1..(i - 1) : a[k] = s[k]
    BY <1>1
<1>3. /\ b \in Seq(S) /\ Len(b) = Len(s) - i /\ \A k \in 1..(Len(s) - i) : b[k] = s[i + k]
    BY <1>1
<1>4. RemoveAt(s, i) = a \o b
    BY DEF RemoveAt
<1> HIDE DEF a, b
<1>5. /\ a \o b \in Seq(S) /\ Len(a \o b) = Len(s) - 1
      /\ \A k \in 1..(Len(s) - 1) : (a \o b)[k] = IF k <= i - 1 THEN a[k] ELSE b[k - (i - 1)]
    <2>1. /\ a \o b \in Seq(S) /\ Len(a \o b) = Len(a) + Len(b)
          /\ \A k \in 1..(Len(a) + Len(b)) :
               (a \o b)[k] = IF k <= Len(a) THEN a[k] ELSE b[k - Len(a)]
        BY <1>2, <1>3, ConcatProperties
    <2>2. Len(a) + Len(b) = Len(s) - 1
        BY <1>1, <1>2, <1>3
    <2> QED BY <1>2, <2>1, <2>2
<1>6. ASSUME NEW k \in 1..(Len(s) - 1)
      PROVE  (a \o b)[k] = s[IF k < i THEN k ELSE k + 1]
    <2>1. CASE k < i
        <3>1. k <= i - 1 /\ k \in 1..(i - 1)
            BY <1>1, <2>1
        <3> QED BY <1>2, <1>5, <2>1, <3>1
    <2>2. CASE ~(k < i)
        <3>1. /\ ~(k <= i - 1) /\ k - (i - 1) \in 1..(Len(s) - i)
              /\ i + (k - (i - 1)) = k + 1
            BY <1>1, <2>2
        <3> QED BY <1>3, <1>5, <2>2, <3>1
    <2> QED BY <2>1, <2>2
<1> QED BY <1>4, <1>5, <1>6

LEMMA HoldersFinite ==
    /\ IsFiniteSet(Holders) /\ Cardinality(Holders) \in Nat
    /\ IsFiniteSet(Holders') /\ Cardinality(Holders') \in Nat
<1>1. \A T \in SUBSET Transcribers : IsFiniteSet(T) /\ Cardinality(T) \in Nat
    BY ProviderCallsAssumption, FS_Subset, FS_CardinalityType
<1> QED BY <1>1 DEF Holders

LEMMA PCInitInv == PCInit => PCInv
<1> SUFFICES ASSUME PCInit PROVE PCInv
    OBVIOUS
<1>1. /\ pcAt = [c \in Callers |-> "idle"] /\ pcAttempt = [c \in Callers |-> 0]
      /\ pcWaiters = <<>> /\ Len(pcWaiters) = 0 /\ pcWaiters \in Seq(Transcribers)
      /\ pcFree = MaxConcurrent
    BY DEF PCInit
<1>2. Holders = {}
    BY <1>1 DEF Holders, InCall, Callers
<1>3. PCType
    BY <1>1, ProviderCallsAssumption DEF PCType
<1>4. QueueOfWaiting
    BY <1>1 DEF QueueOfWaiting, Callers
<1> QED BY <1>1, <1>2, <1>3, <1>4, FS_EmptySet, ProviderCallsAssumption DEF PCInv, PermitInv

\* A call that ends hands its permit to the first waiter or gives it back.
LEMMA LeaveInv ==
    ASSUME PCInv, NEW c \in Callers, pcAt[c] \in InCall,
           NEW outcome \in Answered, Leave(c, outcome)
    PROVE  PCInv'
<1> USE ProviderCallsAssumption
<1>1. PCType /\ QueueOfWaiting /\ PermitInv
    BY DEF PCInv
<1>2. /\ pcAt[c] # "waiting" /\ outcome # "waiting" /\ outcome # "sleeping"
      /\ outcome \notin InCall /\ "posting" \in InCall
    BY DEF InCall, Answered
<1>3. CASE c \in Transcribers /\ pcWaiters # <<>>
    <2> DEFINE h == Head(pcWaiters)
    <2>1. /\ pcAt' = [pcAt EXCEPT ![c] = outcome, ![h] = "posting"]
          /\ pcAttempt' = [pcAttempt EXCEPT ![h] = 1]
          /\ pcWaiters' = Tail(pcWaiters) /\ pcFree' = pcFree
        BY <1>3 DEF Leave
    <2>2. /\ h = pcWaiters[1] /\ h \in Transcribers /\ Len(pcWaiters) \in Nat \ {0}
          /\ pcWaiters' \in Seq(Transcribers) /\ Len(pcWaiters') = Len(pcWaiters) - 1
          /\ \A i \in 1..Len(pcWaiters') :
               i + 1 \in 1..Len(pcWaiters) /\ pcWaiters'[i] = pcWaiters[i + 1]
        BY <1>1, <1>3, <2>1 DEF PCType
    <2>3. pcAt[h] = "waiting" /\ h # c /\ h \in Callers
        BY <1>1, <1>2, <2>2 DEF QueueOfWaiting, Callers
    <2> HIDE DEF h
    <2>4. \A d \in Callers : pcAt'[d] = IF d = c THEN outcome ELSE IF d = h THEN "posting" ELSE pcAt[d]
        BY <1>1, <2>1, <2>3 DEF PCType
    <2>5. PCType'
        <3>1. pcAt' \in [Callers -> {"idle", "waiting"} \cup InCall \cup Answered]
            BY <1>1, <2>1, <2>3 DEF PCType, InCall
        <3>2. pcAttempt' \in [Callers -> 0..MaxRetries]
            BY <1>1, <2>1, <2>3 DEF PCType
        <3>3. \A d \in Callers : /\ pcAt'[d] = "sleeping" => pcAttempt'[d] < MaxRetries
                                 /\ pcAt'[d] = "posting" => pcAttempt'[d] > 0
            BY <1>1, <1>2, <2>1, <2>3, <2>4 DEF PCType
        <3>4. \A d \in Callers : pcAt'[d] = "waiting" => d \in Transcribers
            BY <1>1, <1>2, <2>4 DEF PCType
        <3> QED BY <1>1, <2>1, <2>2, <3>1, <3>2, <3>3, <3>4 DEF PCType
    <2>6. QueueOfWaiting'
        <3>1. ASSUME NEW i \in 1..Len(pcWaiters') PROVE pcAt'[pcWaiters'[i]] = "waiting"
            <4>1. /\ i + 1 \in 1..Len(pcWaiters) /\ 1 \in 1..Len(pcWaiters) /\ i + 1 # 1
                  /\ pcWaiters[i + 1] \in Transcribers
                BY <1>1, <2>2 DEF PCType
            <4>2. pcWaiters[i + 1] # h /\ pcWaiters[i + 1] # c
                BY <1>1, <1>2, <2>2, <4>1 DEF QueueOfWaiting
            <4> QED BY <1>1, <2>2, <2>4, <4>1, <4>2 DEF QueueOfWaiting, Callers
        <3>2. \A i, j \in 1..Len(pcWaiters') : pcWaiters'[i] = pcWaiters'[j] => i = j
            <4> SUFFICES ASSUME NEW i \in 1..Len(pcWaiters'), NEW j \in 1..Len(pcWaiters'),
                                pcWaiters'[i] = pcWaiters'[j]
                         PROVE  i = j
                OBVIOUS
            <4>1. i + 1 = j + 1
                BY <1>1, <2>2 DEF QueueOfWaiting
            <4> QED BY <4>1
        <3>3. ASSUME NEW d \in Transcribers, pcAt'[d] = "waiting"
              PROVE  \E i \in 1..Len(pcWaiters') : pcWaiters'[i] = d
            <4>1. d # c /\ d # h /\ pcAt[d] = "waiting"
                BY <1>2, <2>4, <3>3 DEF Callers
            <4>2. PICK i \in 1..Len(pcWaiters) : pcWaiters[i] = d
                BY <1>1, <4>1 DEF QueueOfWaiting
            <4>3. i # 1 /\ i - 1 \in 1..Len(pcWaiters') /\ (i - 1) + 1 = i
                BY <2>2, <4>1, <4>2
            <4> QED BY <2>2, <4>2, <4>3
        <3> QED BY <3>1, <3>2, <3>3 DEF QueueOfWaiting
    <2>7. PermitInv'
        <3>1. Holders' = (Holders \ {c}) \cup {h} /\ c \in Holders /\ h \notin Holders
            BY <1>2, <1>3, <2>2, <2>3, <2>4 DEF Holders, Callers, InCall
        <3>2. Cardinality(Holders \ {c}) = Cardinality(Holders) - 1 /\ IsFiniteSet(Holders \ {c})
            BY <3>1, HoldersFinite, FS_RemoveElement
        <3>3. Cardinality(Holders') = Cardinality(Holders)
            BY <3>1, <3>2, HoldersFinite, FS_AddElement
        <3>4. ~(pcFree > 0)
            BY <1>1, <1>3 DEF PermitInv
        <3> QED BY <1>1, <2>1, <3>3, <3>4 DEF PermitInv
    <2> QED BY <2>5, <2>6, <2>7 DEF PCInv
<1>4. CASE ~(c \in Transcribers /\ pcWaiters # <<>>)
    <2>1. /\ pcAt' = [pcAt EXCEPT ![c] = outcome]
          /\ pcFree' = IF c \in Transcribers THEN pcFree + 1 ELSE pcFree
          /\ UNCHANGED <<pcAttempt, pcWaiters>>
        BY <1>4 DEF Leave
    <2>2. PCType'
        BY <1>1, <1>2, <2>1 DEF PCType
    <2>3. QueueOfWaiting'
        BY <1>1, <1>2, <2>1 DEF QueueOfWaiting, PCType, Callers
    <2>4. CASE c \in Transcribers
        <3>1. Holders' = Holders \ {c} /\ c \in Holders
            BY <1>1, <1>2, <2>1, <2>4 DEF Holders, PCType, Callers
        <3>2. Cardinality(Holders') = Cardinality(Holders) - 1
            BY <3>1, HoldersFinite, FS_RemoveElement
        <3>3. pcFree' + Cardinality(Holders') = MaxConcurrent
            BY <1>1, <2>1, <2>4, <3>2, HoldersFinite DEF PermitInv, PCType
        <3> QED BY <1>4, <2>1, <2>2, <2>3, <2>4, <3>3 DEF PCInv, PermitInv
    <2>5. CASE c \notin Transcribers
        <3>1. Holders' = Holders
            BY <1>1, <2>1, <2>5 DEF Holders, PCType, Callers
        <3> QED BY <1>1, <2>1, <2>2, <2>3, <2>5, <3>1 DEF PCInv, PermitInv
    <2> QED BY <2>4, <2>5
<1> QED BY <1>3, <1>4

LEMMA CallInv ==
    ASSUME PCInv, NEW c \in Callers, PCCall(c)
    PROVE  PCInv'
<1> USE ProviderCallsAssumption
<1> DEFINE post == c \in Googlers \/ (pcFree > 0 /\ pcWaiters = <<>>)
<1>1. /\ PCType /\ QueueOfWaiting /\ PermitInv
      /\ pcAt[c] \in {"idle"} \cup Answered
      /\ pcAt' = [pcAt EXCEPT ![c] = IF post THEN "posting" ELSE "waiting"]
      /\ pcAttempt' = [pcAttempt EXCEPT ![c] = IF post THEN 1 ELSE 0]
      /\ pcFree' = IF post /\ c \in Transcribers THEN pcFree - 1 ELSE pcFree
      /\ pcWaiters' = IF post THEN pcWaiters ELSE Append(pcWaiters, c)
    BY DEF PCInv, PCCall
<1>2. /\ pcAt[c] # "waiting" /\ pcAt[c] \notin InCall /\ "posting" \in InCall
      /\ "waiting" \notin InCall
    BY <1>1 DEF Answered, InCall
<1>3. c \notin Googlers => c \in Transcribers
    BY DEF Callers
<1>4. ASSUME c \in Transcribers, c \in Googlers PROVE FALSE
    BY <1>4
<1>5. CASE post
    <2>1. /\ pcAt' = [pcAt EXCEPT ![c] = "posting"] /\ pcWaiters' = pcWaiters
          /\ pcAttempt' = [pcAttempt EXCEPT ![c] = 1]
        BY <1>1, <1>5
    <2>2. PCType'
        <3>1. pcFree' \in Nat
            BY <1>1, <1>4, <1>5 DEF PCType
        <3> QED BY <1>1, <2>1, <3>1 DEF PCType, InCall
    <2>3. QueueOfWaiting'
        BY <1>1, <1>2, <2>1 DEF QueueOfWaiting, PCType, Callers
    <2>4. CASE c \in Transcribers
        <3>1. pcFree > 0 /\ pcFree' = pcFree - 1 /\ pcWaiters = <<>>
            BY <1>1, <1>4, <1>5, <2>4
        <3>2. Holders' = Holders \cup {c} /\ c \notin Holders
            BY <1>1, <1>2, <2>1, <2>4 DEF Holders, PCType, Callers
        <3>3. Cardinality(Holders') = Cardinality(Holders) + 1
            BY <3>2, HoldersFinite, FS_AddElement
        <3>4. PermitInv'
            BY <1>1, <2>1, <3>1, <3>3, HoldersFinite DEF PermitInv, PCType
        <3> QED BY <2>2, <2>3, <3>4 DEF PCInv
    <2>5. CASE c \notin Transcribers
        <3>1. Holders' = Holders /\ pcFree' = pcFree
            BY <1>1, <2>1, <2>5 DEF Holders, PCType, Callers
        <3>2. PermitInv'
            BY <1>1, <2>1, <3>1 DEF PermitInv
        <3> QED BY <2>2, <2>3, <3>2 DEF PCInv
    <2> QED BY <2>4, <2>5
<1>6. CASE ~post
    <2>1. /\ pcAt' = [pcAt EXCEPT ![c] = "waiting"] /\ pcWaiters' = Append(pcWaiters, c)
          /\ pcAttempt' = [pcAttempt EXCEPT ![c] = 0] /\ pcFree' = pcFree
          /\ c \in Transcribers
        BY <1>1, <1>3, <1>6
    <2>2. /\ pcWaiters' \in Seq(Transcribers) /\ Len(pcWaiters') = Len(pcWaiters) + 1
          /\ Len(pcWaiters) \in Nat /\ pcWaiters'[Len(pcWaiters) + 1] = c
          /\ \A i \in 1..Len(pcWaiters) :
               pcWaiters'[i] = pcWaiters[i] /\ pcWaiters[i] \in Transcribers
        BY <1>1, <2>1 DEF PCType
    <2>3. PCType'
        BY <1>1, <2>1, <2>2 DEF PCType
    <2>4. \A i \in 1..Len(pcWaiters') : i = Len(pcWaiters) + 1 \/ i \in 1..Len(pcWaiters)
        BY <2>2
    <2>5. \A i \in 1..Len(pcWaiters) : pcWaiters[i] # c
        BY <1>1, <1>2 DEF QueueOfWaiting
    <2>6. QueueOfWaiting'
        <3>1. \A i \in 1..Len(pcWaiters') : pcAt'[pcWaiters'[i]] = "waiting"
            BY <1>1, <2>1, <2>2, <2>4 DEF QueueOfWaiting, PCType, Callers
        <3>2. \A i, j \in 1..Len(pcWaiters') : pcWaiters'[i] = pcWaiters'[j] => i = j
            BY <1>1, <2>2, <2>4, <2>5 DEF QueueOfWaiting
        <3>3. ASSUME NEW d \in Transcribers, pcAt'[d] = "waiting"
              PROVE  \E i \in 1..Len(pcWaiters') : pcWaiters'[i] = d
            <4>1. CASE d = c
                BY <2>2, <4>1
            <4>2. CASE d # c
                <5>1. pcAt[d] = "waiting"
                    BY <1>1, <2>1, <3>3, <4>2 DEF PCType, Callers
                <5>2. PICK i \in 1..Len(pcWaiters) : pcWaiters[i] = d
                    BY <1>1, <5>1 DEF QueueOfWaiting
                <5> QED BY <2>2, <5>2
            <4> QED BY <4>1, <4>2
        <3> QED BY <3>1, <3>2, <3>3 DEF QueueOfWaiting
    <2>7. PermitInv'
        <3>1. Holders' = Holders
            BY <1>1, <1>2, <2>1 DEF Holders, PCType, Callers
        <3>2. ~(pcFree > 0)
            BY <1>1, <1>3, <1>6 DEF PermitInv
        <3> QED BY <1>1, <2>1, <3>1, <3>2 DEF PermitInv
    <2> QED BY <2>3, <2>6, <2>7 DEF PCInv
<1> QED BY <1>5, <1>6

LEMMA StopWaitingInv ==
    ASSUME PCInv, NEW c \in Callers, StopWaiting(c)
    PROVE  PCInv'
<1> USE ProviderCallsAssumption
<1>1. /\ PCType /\ QueueOfWaiting /\ PermitInv
      /\ pcAt[c] = "waiting" /\ pcAt' = [pcAt EXCEPT ![c] = "cancelled"]
      /\ UNCHANGED <<pcAttempt, pcFree>>
    BY DEF PCInv, StopWaiting
<1>2. PICK i \in 1..Len(pcWaiters) : pcWaiters[i] = c /\ pcWaiters' = RemoveAt(pcWaiters, i)
    <2>1. DOMAIN pcWaiters = 1..Len(pcWaiters)
        BY <1>1 DEF PCType
    <2> QED BY <2>1 DEF StopWaiting
<1> DEFINE old(k) == IF k < i THEN k ELSE k + 1
<1>3. /\ pcWaiters' \in Seq(Transcribers) /\ Len(pcWaiters') = Len(pcWaiters) - 1
      /\ \A k \in 1..(Len(pcWaiters) - 1) : pcWaiters'[k] = pcWaiters[old(k)]
    <2>1. pcWaiters \in Seq(Transcribers)
        BY <1>1 DEF PCType
    <2> DEFINE rest == RemoveAt(pcWaiters, i)
    <2>2. /\ rest \in Seq(Transcribers) /\ Len(rest) = Len(pcWaiters) - 1
          /\ \A k \in 1..(Len(pcWaiters) - 1) :
               rest[k] = pcWaiters[IF k < i THEN k ELSE k + 1]
        BY <2>1, RemoveAtShape
    <2>3. pcWaiters' = rest
        BY <1>2
    <2> HIDE DEF rest
    <2> QED BY <2>2, <2>3
<1>4. Len(pcWaiters) \in Nat /\ i \in Nat
    BY <1>1 DEF PCType
<1>5. \A k \in 1..Len(pcWaiters') : old(k) \in 1..Len(pcWaiters) /\ old(k) # i
    BY <1>3, <1>4
<1>6. \A k, m \in 1..Len(pcWaiters') : old(k) = old(m) => k = m
    BY <1>3, <1>4
<1>7. \A n \in 1..Len(pcWaiters) : n # i => \E k \in 1..Len(pcWaiters') : old(k) = n
    <2> SUFFICES ASSUME NEW n \in 1..Len(pcWaiters), n # i
                 PROVE  \E k \in 1..Len(pcWaiters') : old(k) = n
        OBVIOUS
    <2>1. CASE n < i
        <3>1. n \in 1..Len(pcWaiters') /\ old(n) = n
            BY <1>3, <1>4, <2>1
        <3> QED BY <3>1
    <2>2. CASE ~(n < i)
        <3>1. n - 1 \in 1..Len(pcWaiters') /\ old(n - 1) = n
            BY <1>3, <1>4, <2>2
        <3> QED BY <3>1
    <2> QED BY <2>1, <2>2
<1> HIDE DEF old
<1>8. \A k \in 1..Len(pcWaiters') : pcWaiters'[k] = pcWaiters[old(k)] /\ pcWaiters'[k] # c
    BY <1>1, <1>2, <1>3, <1>5 DEF QueueOfWaiting
<1>9. PCType'
    BY <1>1, <1>3 DEF PCType, Answered
<1>10. QueueOfWaiting'
    <2>1. \A k \in 1..Len(pcWaiters) : pcWaiters[k] \in Callers
        BY <1>1 DEF PCType, Callers
    <2>2. \A k \in 1..Len(pcWaiters') : pcAt'[pcWaiters'[k]] = "waiting"
        <3> SUFFICES ASSUME NEW k \in 1..Len(pcWaiters')
                     PROVE  pcAt'[pcWaiters'[k]] = "waiting"
            OBVIOUS
        <3> DEFINE d == pcWaiters'[k]
        <3>1. d = pcWaiters[old(k)] /\ d # c
            BY <1>8
        <3>2. d \in Callers /\ pcAt[d] = "waiting"
            BY <1>1, <1>5, <2>1, <3>1 DEF QueueOfWaiting
        <3> HIDE DEF d
        <3>3. pcAt'[d] = "waiting"
            BY <1>1, <3>1, <3>2 DEF PCType
        <3> QED BY <3>3 DEF d
    <2>3. \A k, m \in 1..Len(pcWaiters') : pcWaiters'[k] = pcWaiters'[m] => k = m
        BY <1>1, <1>5, <1>6, <1>8 DEF QueueOfWaiting
    <2>4. ASSUME NEW d \in Transcribers, pcAt'[d] = "waiting"
          PROVE  \E k \in 1..Len(pcWaiters') : pcWaiters'[k] = d
        <3>1. d # c /\ pcAt[d] = "waiting"
            BY <1>1, <2>4 DEF PCType, Callers
        <3>2. PICK n \in 1..Len(pcWaiters) : pcWaiters[n] = d
            BY <1>1, <3>1 DEF QueueOfWaiting
        <3>3. PICK k \in 1..Len(pcWaiters') : old(k) = n
            BY <1>2, <1>7, <3>1, <3>2
        <3> QED BY <1>8, <3>2, <3>3
    <2> QED BY <2>2, <2>3, <2>4 DEF QueueOfWaiting
<1>11. PermitInv'
    <2>1. Holders' = Holders
        BY <1>1 DEF Holders, PCType, Callers, InCall
    <2>2. ~(pcFree > 0)
        BY <1>1, <1>2, <1>4 DEF PermitInv
    <2> QED BY <1>1, <2>1, <2>2 DEF PermitInv
<1> QED BY <1>9, <1>10, <1>11 DEF PCInv

\* A call that sleeps between attempts, or posts again, keeps its permit.
LEMMA KeepPermit ==
    ASSUME PCInv, NEW c \in Callers, pcAt[c] \in InCall, NEW place \in InCall,
           pcAt' = [pcAt EXCEPT ![c] = place], UNCHANGED <<pcFree, pcWaiters>>,
           pcAttempt' \in [Callers -> 0..MaxRetries],
           \A d \in Callers : /\ pcAt'[d] = "sleeping" => pcAttempt'[d] < MaxRetries
                              /\ pcAt'[d] = "posting" => pcAttempt'[d] > 0
    PROVE  PCInv'
<1>1. PCType /\ QueueOfWaiting /\ PermitInv
    BY DEF PCInv
<1>2. pcAt[c] # "waiting" /\ place # "waiting"
    BY DEF InCall
<1>3. PCType'
    BY <1>1, <1>2 DEF PCType
<1>4. QueueOfWaiting'
    BY <1>1, <1>2 DEF QueueOfWaiting, PCType, Callers
<1>5. Holders' = Holders
    BY <1>1 DEF Holders, PCType, Callers
<1> QED BY <1>1, <1>3, <1>4, <1>5 DEF PCInv, PermitInv

LEMMA PCStepInv == PCInv /\ [PCNext]_pcVars => PCInv'
<1> SUFFICES ASSUME PCInv, [PCNext]_pcVars PROVE PCInv'
    OBVIOUS
<1> USE ProviderCallsAssumption
<1>1. ASSUME NEW c \in Callers, PCCall(c) PROVE PCInv'
    BY <1>1, CallInv
<1>2. ASSUME NEW c \in Callers, PCSucceed(c) \/ PCEmpty(c) \/ PCFatal(c) PROVE PCInv'
    BY <1>2, LeaveInv DEF PCSucceed, PCEmpty, PCFatal, InCall, Answered
<1>3. ASSUME NEW c \in Callers, PCTransient(c) PROVE PCInv'
    <2>1. CASE pcAttempt[c] < MaxRetries
        <3>1. /\ pcAt[c] \in InCall /\ pcAt' = [pcAt EXCEPT ![c] = "sleeping"]
              /\ "sleeping" \in InCall /\ UNCHANGED <<pcAttempt, pcFree, pcWaiters>>
            BY <1>3, <2>1 DEF PCTransient, InCall
        <3>2. /\ pcAttempt' \in [Callers -> 0..MaxRetries]
              /\ \A d \in Callers : /\ pcAt'[d] = "sleeping" => pcAttempt'[d] < MaxRetries
                                    /\ pcAt'[d] = "posting" => pcAttempt'[d] > 0
            BY <2>1, <3>1 DEF PCInv, PCType
        <3> QED BY <3>1, <3>2, KeepPermit
    <2>2. CASE ~(pcAttempt[c] < MaxRetries)
        BY <1>3, <2>2, LeaveInv DEF PCTransient, InCall, Answered
    <2> QED BY <2>1, <2>2
<1>4. ASSUME NEW c \in Callers, PCRetry(c) PROVE PCInv'
    <2>1. /\ pcAt[c] = "sleeping" /\ pcAt' = [pcAt EXCEPT ![c] = "posting"]
          /\ pcAt[c] \in InCall /\ "posting" \in InCall /\ UNCHANGED <<pcFree, pcWaiters>>
          /\ pcAttempt' = [pcAttempt EXCEPT ![c] = pcAttempt[c] + 1]
        BY <1>4 DEF PCRetry, InCall
    <2>2. pcAttempt' \in [Callers -> 0..MaxRetries]
        BY <2>1 DEF PCInv, PCType
    <2>3. \A d \in Callers : /\ pcAt'[d] = "sleeping" => pcAttempt'[d] < MaxRetries
                             /\ pcAt'[d] = "posting" => pcAttempt'[d] > 0
        BY <2>1 DEF PCInv, PCType
    <2> QED BY <2>1, <2>2, <2>3, KeepPermit
<1>5. ASSUME NEW c \in Callers, PCCancel(c) PROVE PCInv'
    BY <1>5, StopWaitingInv, LeaveInv DEF PCCancel, Answered
<1>6. CASE UNCHANGED pcVars
    BY <1>6 DEF pcVars, PCInv, PCType, QueueOfWaiting, PermitInv, Holders
<1> QED BY <1>1, <1>2, <1>3, <1>4, <1>5, <1>6 DEF PCNext, PCProgress

LEMMA PCInvariant == PCSpec => []PCInv
BY PCInitInv, PCStepInv, PTL DEF PCSpec

\* Whatever way calls end - an answer, retries used up, a refusal, a cancelled
\* task - no permit leaks or is doubled, none is free while somebody waits, and
\* the semaphore's queue is exactly the callers that wait.
THEOREM PermitsNeverLeak == PCSpec => []PermitsConserved
<1>1. ASSUME PCInv PROVE PermitsConserved
    <2>1. ToSet(pcWaiters) = {c \in Transcribers : pcAt[c] = "waiting"}
        <3>1. /\ DOMAIN pcWaiters = 1..Len(pcWaiters)
              /\ \A i \in 1..Len(pcWaiters) : pcWaiters[i] \in Transcribers
            BY <1>1 DEF PCInv, PCType
        <3> QED BY <1>1, <3>1 DEF PCInv, QueueOfWaiting, ToSet
    <2> QED BY <1>1, <2>1 DEF PCInv, PermitInv, PermitsConserved
<1> QED BY <1>1, PCInvariant, PTL

LEMMA CallsTyped == PCInv => PCTypeOK
<1> SUFFICES ASSUME PCInv PROVE PCTypeOK
    OBVIOUS
<1>1. pcFree \in 0..MaxConcurrent
    BY HoldersFinite, ProviderCallsAssumption DEF PCInv, PCType, PermitInv
<1> QED BY <1>1 DEF PCInv, PCType, PCTypeOK

\* Attempts and permits stay within their ranges, for every number of callers,
\* permits and retries.
THEOREM CallTypes == PCSpec => []PCTypeOK
BY CallsTyped, PCInvariant, PTL

-----------------------------------------------------------------------------
(* Waiters are served in turn: what holds of single steps beneath          *)
(* WaiterServed, which says that the waiting ends.                         *)

\* d stands somewhere before c in the semaphore's queue.
Ahead(d, c) ==
    \E i, j \in 1..Len(pcWaiters) : i < j /\ pcWaiters[i] = d /\ pcWaiters[j] = c

\* What a call has left before it: its retries, each a sleep and a post.
CallLeft(c) ==
    2 * (MaxRetries - pcAttempt[c]) + (IF pcAt[c] = "posting" THEN 1 ELSE 0)

NobodySqueezesIn(c) ==
    \A d \in Transcribers : c # d /\ Ahead(d, c)' => Ahead(d, c)

OnlyThoseAheadGo(c) ==
    \A d \in Transcribers :
        c # d /\ pcAt[d] \notin InCall /\ pcAt'[d] \in InCall => Ahead(d, c)

\* While a transcription keeps waiting, nobody gets in before it in the queue,
\* and a permit is taken only by one who stood before it.
ServedInTurn ==
    \A c \in Transcribers :
        pcAt[c] = "waiting" /\ pcAt'[c] = "waiting" => NobodySqueezesIn(c) /\ OnlyThoseAheadGo(c)

\* A call under way stands still or comes nearer to its end.
CallsRunDown ==
    \A c \in Callers :
        pcAt[c] \in InCall /\ pcAt'[c] \in InCall
          => \/ pcAt'[c] = pcAt[c] /\ pcAttempt'[c] = pcAttempt[c]
             \/ CallLeft(c)' < CallLeft(c)

\* Whoever waits, waits for a call that has only so much left before it.
WaitsForACall ==
    \A c \in Transcribers :
        pcAt[c] = "waiting" =>
            \E d \in Transcribers : pcAt[d] \in InCall /\ CallLeft(d) \in 0..(2 * MaxRetries)

TurnStep == ServedInTurn /\ CallsRunDown

LEMMA LeaveTurn ==
    ASSUME PCInv, NEW c \in Callers, pcAt[c] \in InCall,
           NEW outcome \in Answered, Leave(c, outcome)
    PROVE  TurnStep
<1>1. PCType /\ QueueOfWaiting
    BY DEF PCInv
<1>2. /\ pcAt[c] # "waiting" /\ outcome # "waiting" /\ outcome \notin InCall
      /\ "waiting" \notin InCall
    BY DEF InCall, Answered
<1>3. CASE c \in Transcribers /\ pcWaiters # <<>>
    <2> DEFINE h == Head(pcWaiters)
    <2>1. /\ pcAt' = [pcAt EXCEPT ![c] = outcome, ![h] = "posting"]
          /\ pcAttempt' = [pcAttempt EXCEPT ![h] = 1]
          /\ pcWaiters' = Tail(pcWaiters)
        BY <1>3 DEF Leave
    <2>2. /\ h = pcWaiters[1] /\ h \in Transcribers /\ Len(pcWaiters) \in Nat \ {0}
          /\ Len(pcWaiters') = Len(pcWaiters) - 1
          /\ \A i \in 1..Len(pcWaiters') :
               i + 1 \in 1..Len(pcWaiters) /\ pcWaiters'[i] = pcWaiters[i + 1]
        BY <1>1, <1>3, <2>1 DEF PCType
    <2>3. pcAt[h] = "waiting" /\ h # c /\ h \in Callers /\ 1 \in 1..Len(pcWaiters)
        BY <1>1, <1>2, <2>2 DEF QueueOfWaiting, Callers
    <2> HIDE DEF h
    <2>4. \A d \in Callers :
            /\ pcAt'[d] = IF d = c THEN outcome ELSE IF d = h THEN "posting" ELSE pcAt[d]
            /\ d # h => pcAttempt'[d] = pcAttempt[d]
        BY <1>1, <2>1, <2>3 DEF PCType
    <2>5. ASSUME NEW w \in Transcribers, pcAt[w] = "waiting", pcAt'[w] = "waiting"
          PROVE  NobodySqueezesIn(w) /\ OnlyThoseAheadGo(w)
        <3>1. NobodySqueezesIn(w)
            <4> SUFFICES ASSUME NEW d \in Transcribers, Ahead(d, w)'
                         PROVE  Ahead(d, w)
                BY DEF NobodySqueezesIn
            <4>1. PICK i, j \in 1..Len(pcWaiters') :
                    i < j /\ pcWaiters'[i] = d /\ pcWaiters'[j] = w
                BY DEF Ahead
            <4>2. i + 1 < j + 1 /\ pcWaiters[i + 1] = d /\ pcWaiters[j + 1] = w
                BY <2>2, <4>1
            <4> QED BY <2>2, <4>1, <4>2 DEF Ahead
        <3>2. OnlyThoseAheadGo(w)
            <4> SUFFICES ASSUME NEW d \in Transcribers, w # d,
                                pcAt[d] \notin InCall, pcAt'[d] \in InCall
                         PROVE  Ahead(d, w)
                BY DEF OnlyThoseAheadGo
            <4>1. d = h /\ w # h
                BY <1>2, <2>4 DEF Callers
            <4>2. PICK j \in 1..Len(pcWaiters) : pcWaiters[j] = w
                BY <1>1, <2>5 DEF QueueOfWaiting
            <4>3. j # 1
                BY <2>2, <4>1, <4>2
            <4>4. 1 < j
                BY <2>2, <4>2, <4>3
            <4> QED BY <2>2, <2>3, <4>1, <4>2, <4>4 DEF Ahead
        <3> QED BY <3>1, <3>2
    <2>6. CallsRunDown
        BY <1>2, <2>3, <2>4 DEF CallsRunDown
    <2> QED BY <2>5, <2>6 DEF TurnStep, ServedInTurn
<1>4. CASE ~(c \in Transcribers /\ pcWaiters # <<>>)
    <2>1. pcAt' = [pcAt EXCEPT ![c] = outcome] /\ UNCHANGED <<pcAttempt, pcWaiters>>
        BY <1>4 DEF Leave
    <2>2. \A d \in Callers : pcAt'[d] = IF d = c THEN outcome ELSE pcAt[d]
        BY <1>1, <2>1 DEF PCType
    <2>3. ServedInTurn
        BY <1>2, <2>1, <2>2 DEF ServedInTurn, NobodySqueezesIn, OnlyThoseAheadGo, Ahead, Callers
    <2>4. CallsRunDown
        BY <1>2, <2>1, <2>2 DEF CallsRunDown
    <2> QED BY <2>3, <2>4 DEF TurnStep
<1> QED BY <1>3, <1>4

LEMMA CallTurn ==
    ASSUME PCInv, NEW c \in Callers, PCCall(c)
    PROVE  TurnStep
<1> DEFINE post == c \in Googlers \/ (pcFree > 0 /\ pcWaiters = <<>>)
<1>1. /\ PCType /\ QueueOfWaiting /\ pcAt[c] \in {"idle"} \cup Answered
      /\ pcAt' = [pcAt EXCEPT ![c] = IF post THEN "posting" ELSE "waiting"]
      /\ pcAttempt' = [pcAttempt EXCEPT ![c] = IF post THEN 1 ELSE 0]
      /\ pcWaiters' = IF post THEN pcWaiters ELSE Append(pcWaiters, c)
    BY DEF PCInv, PCCall
<1>2. /\ pcAt[c] # "waiting" /\ pcAt[c] \notin InCall /\ "waiting" \notin InCall
      /\ \A d \in Transcribers : d \notin Googlers
    BY <1>1, ProviderCallsAssumption DEF Answered, InCall
<1>3. \A d \in Callers : d # c => pcAt'[d] = pcAt[d] /\ pcAttempt'[d] = pcAttempt[d]
    BY <1>1 DEF PCType
<1>4. CallsRunDown
    BY <1>2, <1>3 DEF CallsRunDown
<1>5. ASSUME NEW w \in Transcribers, pcAt[w] = "waiting"
      PROVE  NobodySqueezesIn(w) /\ OnlyThoseAheadGo(w)
    <2>1. w # c /\ pcWaiters # <<>>
        <3>1. \E i \in 1..Len(pcWaiters) : pcWaiters[i] = w
            BY <1>1, <1>5 DEF QueueOfWaiting
        <3>2. ASSUME pcWaiters = <<>> PROVE FALSE
            BY <3>1, <3>2
        <3> QED BY <1>2, <1>5, <3>2
    <2>2. CASE post
        <3>1. c \notin Transcribers /\ pcWaiters' = pcWaiters
            BY <1>1, <1>2, <2>1, <2>2
        <3> QED BY <1>3, <3>1 DEF NobodySqueezesIn, OnlyThoseAheadGo, Ahead, Callers
    <2>3. CASE ~post
        <3>1. pcWaiters' = Append(pcWaiters, c) /\ pcAt' = [pcAt EXCEPT ![c] = "waiting"]
            BY <1>1, <2>3
        <3>2. /\ Len(pcWaiters') = Len(pcWaiters) + 1 /\ Len(pcWaiters) \in Nat
              /\ pcWaiters'[Len(pcWaiters) + 1] = c
              /\ \A i \in 1..Len(pcWaiters) : pcWaiters'[i] = pcWaiters[i]
            BY <1>1, <3>1 DEF PCType
        <3>3. pcAt'[c] \notin InCall
            BY <1>1, <1>2, <3>1 DEF PCType
        <3>4. OnlyThoseAheadGo(w)
            BY <1>3, <3>3 DEF OnlyThoseAheadGo, Callers
        <3>5. NobodySqueezesIn(w)
            <4> SUFFICES ASSUME NEW d \in Transcribers, Ahead(d, w)'
                         PROVE  Ahead(d, w)
                BY DEF NobodySqueezesIn
            <4>1. PICK i, j \in 1..Len(pcWaiters') :
                    i < j /\ pcWaiters'[i] = d /\ pcWaiters'[j] = w
                BY DEF Ahead
            <4>2. j # Len(pcWaiters) + 1
                BY <2>1, <3>2, <4>1
            <4>3. i \in 1..Len(pcWaiters) /\ j \in 1..Len(pcWaiters)
                BY <3>2, <4>1, <4>2
            <4> QED BY <3>2, <4>1, <4>3 DEF Ahead
        <3> QED BY <3>4, <3>5
    <2> QED BY <2>2, <2>3
<1> QED BY <1>4, <1>5 DEF TurnStep, ServedInTurn

LEMMA StopWaitingTurn ==
    ASSUME PCInv, NEW c \in Callers, StopWaiting(c)
    PROVE  TurnStep
<1>1. /\ PCType /\ QueueOfWaiting
      /\ pcAt[c] = "waiting" /\ pcAt' = [pcAt EXCEPT ![c] = "cancelled"]
      /\ pcAttempt' = pcAttempt
    BY DEF PCInv, StopWaiting
<1>2. PICK i \in 1..Len(pcWaiters) : pcWaiters' = RemoveAt(pcWaiters, i)
    <2>1. DOMAIN pcWaiters = 1..Len(pcWaiters)
        BY <1>1 DEF PCType
    <2> QED BY <2>1 DEF StopWaiting
<1> DEFINE old(k) == IF k < i THEN k ELSE k + 1
<1>3. /\ Len(pcWaiters') = Len(pcWaiters) - 1
      /\ \A k \in 1..(Len(pcWaiters) - 1) : pcWaiters'[k] = pcWaiters[old(k)]
    <2> DEFINE rest == RemoveAt(pcWaiters, i)
    <2>1. /\ Len(rest) = Len(pcWaiters) - 1
          /\ \A k \in 1..(Len(pcWaiters) - 1) :
               rest[k] = pcWaiters[IF k < i THEN k ELSE k + 1]
        BY <1>1, RemoveAtShape DEF PCType
    <2>2. pcWaiters' = rest
        BY <1>2
    <2> HIDE DEF rest
    <2> QED BY <2>1, <2>2
<1>4. Len(pcWaiters) \in Nat /\ i \in Nat
    BY <1>1 DEF PCType
<1>5. \A k \in 1..Len(pcWaiters') : old(k) \in 1..Len(pcWaiters)
    BY <1>3, <1>4
<1>6. \A k, m \in 1..Len(pcWaiters') : k < m => old(k) < old(m)
    BY <1>3, <1>4
<1> HIDE DEF old
<1>7. \A d \in Callers :
        pcAt'[d] = (IF d = c THEN "cancelled" ELSE pcAt[d]) /\ pcAttempt'[d] = pcAttempt[d]
    BY <1>1 DEF PCType
<1>8. "cancelled" \notin InCall
    BY DEF InCall
<1>9. CallsRunDown
    BY <1>7, <1>8 DEF CallsRunDown
<1>10. ASSUME NEW w \in Transcribers PROVE NobodySqueezesIn(w)
    <2> SUFFICES ASSUME NEW d \in Transcribers, Ahead(d, w)' PROVE Ahead(d, w)
        BY DEF NobodySqueezesIn
    <2>1. PICK k, m \in 1..Len(pcWaiters') :
            k < m /\ pcWaiters'[k] = d /\ pcWaiters'[m] = w
        BY DEF Ahead
    <2>2. /\ old(k) \in 1..Len(pcWaiters) /\ old(m) \in 1..Len(pcWaiters)
          /\ old(k) < old(m) /\ pcWaiters[old(k)] = d /\ pcWaiters[old(m)] = w
        BY <1>3, <1>5, <1>6, <2>1
    <2> QED BY <2>2 DEF Ahead
<1>11. ASSUME NEW w \in Transcribers PROVE OnlyThoseAheadGo(w)
    BY <1>7, <1>8 DEF OnlyThoseAheadGo, Callers
<1> QED BY <1>9, <1>10, <1>11 DEF TurnStep, ServedInTurn

\* A call that sleeps between attempts, or posts again, lets nobody in.
LEMMA KeepPermitTurn ==
    ASSUME PCInv, NEW c \in Callers, pcAt[c] \in InCall,
           \A d \in Callers : d # c => pcAt'[d] = pcAt[d] /\ pcAttempt'[d] = pcAttempt[d],
           CallLeft(c)' < CallLeft(c), UNCHANGED pcWaiters
    PROVE  TurnStep
<1>1. CallsRunDown
    BY DEF CallsRunDown
<1>2. ServedInTurn
    BY DEF ServedInTurn, NobodySqueezesIn, OnlyThoseAheadGo, Ahead, Callers
<1> QED BY <1>1, <1>2 DEF TurnStep

LEMMA PCStepTurn == PCInv /\ [PCNext]_pcVars => TurnStep
<1> SUFFICES ASSUME PCInv, [PCNext]_pcVars PROVE TurnStep
    OBVIOUS
<1> USE ProviderCallsAssumption
<1>1. ASSUME NEW c \in Callers, PCCall(c) PROVE TurnStep
    BY <1>1, CallTurn
<1>2. ASSUME NEW c \in Callers, PCSucceed(c) \/ PCEmpty(c) \/ PCFatal(c) PROVE TurnStep
    BY <1>2, LeaveTurn DEF PCSucceed, PCEmpty, PCFatal, InCall, Answered
<1>3. ASSUME NEW c \in Callers, PCTransient(c) PROVE TurnStep
    <2>1. CASE pcAttempt[c] < MaxRetries
        <3>1. /\ pcAt[c] = "posting" /\ pcAt[c] \in InCall
              /\ pcAt' = [pcAt EXCEPT ![c] = "sleeping"]
              /\ UNCHANGED <<pcAttempt, pcFree, pcWaiters>>
            BY <1>3, <2>1 DEF PCTransient, InCall
        <3>2. pcAt'[c] = "sleeping" /\ pcAttempt'[c] = pcAttempt[c] /\ pcAttempt[c] \in Nat
            BY <3>1 DEF PCInv, PCType
        <3>3. CallLeft(c)' < CallLeft(c)
            BY <3>1, <3>2 DEF CallLeft
        <3>4. \A d \in Callers : d # c => pcAt'[d] = pcAt[d] /\ pcAttempt'[d] = pcAttempt[d]
            BY <3>1 DEF PCInv, PCType
        <3> QED BY <3>1, <3>3, <3>4, KeepPermitTurn
    <2>2. CASE ~(pcAttempt[c] < MaxRetries)
        BY <1>3, <2>2, LeaveTurn DEF PCTransient, InCall, Answered
    <2> QED BY <2>1, <2>2
<1>4. ASSUME NEW c \in Callers, PCRetry(c) PROVE TurnStep
    <2>1. /\ pcAt[c] = "sleeping" /\ pcAt' = [pcAt EXCEPT ![c] = "posting"]
          /\ pcAt[c] \in InCall /\ UNCHANGED <<pcFree, pcWaiters>>
          /\ pcAttempt' = [pcAttempt EXCEPT ![c] = pcAttempt[c] + 1]
        BY <1>4 DEF PCRetry, InCall
    <2>2. /\ pcAt'[c] = "posting" /\ pcAttempt[c] \in Nat
          /\ pcAttempt'[c] = pcAttempt[c] + 1
        BY <2>1 DEF PCInv, PCType
    <2>3. CallLeft(c)' < CallLeft(c)
        BY <2>1, <2>2 DEF CallLeft
    <2>4. \A d \in Callers : d # c => pcAt'[d] = pcAt[d] /\ pcAttempt'[d] = pcAttempt[d]
        BY <2>1 DEF PCInv, PCType
    <2> QED BY <2>1, <2>3, <2>4, KeepPermitTurn
<1>5. ASSUME NEW c \in Callers, PCCancel(c) PROVE TurnStep
    BY <1>5, StopWaitingTurn, LeaveTurn DEF PCCancel, Answered
<1>6. CASE UNCHANGED pcVars
    BY <1>6 DEF pcVars, TurnStep, ServedInTurn, NobodySqueezesIn, OnlyThoseAheadGo, Ahead,
        CallsRunDown
<1> QED BY <1>1, <1>2, <1>3, <1>4, <1>5, <1>6 DEF PCNext, PCProgress

\* The semaphore shared by all sessions' transcriptions has no overtaking: who
\* joins later, retries or is cancelled never gets a permit or a place before
\* one who waits, however the calls of the others end.
THEOREM NoOvertaking == PCSpec => [][ServedInTurn]_pcVars
<1>1. PCInv /\ [PCNext]_pcVars => [ServedInTurn]_pcVars
    BY PCStepTurn DEF TurnStep
<1> QED BY <1>1, PCInvariant, PTL DEF PCSpec

\* Back-off never loops: every step a call takes while it holds its permit, a
\* sleep or another post, uses up part of a budget fixed when it began.
THEOREM RetriesRunOut == PCSpec => [][CallsRunDown]_pcVars
<1>1. PCInv /\ [PCNext]_pcVars => [CallsRunDown]_pcVars
    BY PCStepTurn DEF TurnStep
<1> QED BY <1>1, PCInvariant, PTL DEF PCSpec

\* A transcription never waits while no call is under way whose end would hand
\* on a permit, and that call has no more left than its retries.
THEOREM NobodyWaitsForNothing == PCSpec => []WaitsForACall
<1>1. ASSUME PCInv PROVE WaitsForACall
    <2> SUFFICES ASSUME NEW c \in Transcribers, pcAt[c] = "waiting"
                 PROVE  \E d \in Transcribers :
                            pcAt[d] \in InCall /\ CallLeft(d) \in 0..(2 * MaxRetries)
        BY DEF WaitsForACall
    <2>1. pcWaiters # <<>>
        <3>1. \E i \in 1..Len(pcWaiters) : pcWaiters[i] = c
            BY <1>1 DEF PCInv, QueueOfWaiting
        <3> QED BY <3>1
    <2>2. Cardinality(Holders) # 0
        BY <1>1, <2>1, ProviderCallsAssumption DEF PCInv, PermitInv, PCType
    <2>3. PICK d \in Transcribers : pcAt[d] \in InCall
        BY <2>2, FS_EmptySet DEF Holders
    <2>4. /\ d \in Callers /\ pcAttempt[d] \in 0..MaxRetries /\ MaxRetries \in Nat
          /\ pcAt[d] = "posting" => pcAttempt[d] > 0
        BY <1>1, ProviderCallsAssumption DEF PCInv, PCType, Callers
    <2>5. CallLeft(d) \in 0..(2 * MaxRetries)
        BY <2>4 DEF CallLeft
    <2> QED BY <2>3, <2>5
<1> QED BY <1>1, PCInvariant, PTL

-----------------------------------------------------------------------------
(* Requests let through and refused.                                       *)

Building == {r \in Requests : rwAt[r] = "building"}

\* The getter hands out limiters that exist, and no more are built than there
\* are requests to build them.
GetterInv ==
    /\ rwBuilt \in Nat /\ rwLimiter = rwBuilt
    /\ rwBuilt + Cardinality(Building) <= Cardinality(Requests)
    /\ rwAt \in [Requests -> {"idle", "building", "returning", "checking"}]
    /\ rwUses \in [Requests -> {0} \cup Limiters]
    /\ \A r \in Requests : rwAt[r] = "returning" => rwBuilt > 0
    /\ \A r \in Requests : rwAt[r] = "checking" => rwUses[r] \in Limiters

InTimeOrder(s) == \A i, j \in 1..Len(s) : i <= j => s[i].at <= s[j].at

Increasing(f) == \A i, j \in DOMAIN f : i < j => f[i] < f[j]

\* hits is what is left of limiter l's part of the log, in its order: place
\* says where in the log each hit is, and what has no place is too old.
PlacedBy(place, hits, log, l, now) ==
    /\ Increasing(place)
    /\ \A i \in 1..Len(hits) : log[place[i]] = hits[i] /\ hits[i].by = l
    /\ \A j \in 1..Len(log) :
         log[j].by = l => \/ log[j].at <= now - Window
                          \/ \E i \in 1..Len(hits) : place[i] = j

Recorded(hits, log, l, now) ==
    \E place \in [1..Len(hits) -> 1..Len(log)] : PlacedBy(place, hits, log, l, now)

LogInv ==
    /\ rwNow \in Nat
    /\ rwHits \in [Limiters -> [Keys -> Seq(Entry)]]
    /\ rwAllowed \in [Keys -> Seq(Entry)]
    /\ \A k \in Keys : /\ InTimeOrder(rwAllowed[k])
                       /\ \A i \in 1..Len(rwAllowed[k]) : rwAllowed[k][i].at <= rwNow
    /\ \A l \in Limiters, k \in Keys : /\ Len(rwHits[l][k]) <= MaxRequests
                                       /\ Recorded(rwHits[l][k], rwAllowed[k], l, rwNow)

RWInv == GetterInv /\ LogInv /\ RefusedOnlyWhenFull

LEMMA LimiterNumbers ==
    /\ Cardinality(Requests) \in Nat /\ Limiters = 1..Cardinality(Requests)
    /\ IsFiniteSet(Building) /\ Cardinality(Building) \in Nat
    /\ IsFiniteSet(Building') /\ Cardinality(Building') \in Nat
<1>1. \A T \in SUBSET Requests : IsFiniteSet(T) /\ Cardinality(T) \in Nat
    BY RateWindowAssumption, FS_Subset, FS_CardinalityType
<1>2. Requests \in SUBSET Requests /\ Building \in SUBSET Requests /\ Building' \in SUBSET Requests
    BY DEF Building
<1> QED BY <1>1, <1>2 DEF Limiters

\* What eviction leaves: the entries after some first n, which are too old.
Leaves(kept, s, n, now) ==
    /\ Len(kept) = Len(s) - n
    /\ \A i \in 1..(Len(s) - n) : kept[i] = s[n + i]
    /\ \A i \in 1..n : s[i].at <= now - Window
    /\ n < Len(s) => ~(s[n + 1].at <= now - Window)

LEMMA EvictShape ==
    ASSUME NEW S, NEW s \in Seq(S), NEW now, NEW kept, kept = Evict(s, now)
    PROVE  kept \in Seq(S) /\ \E n \in 0..Len(s) : Leaves(kept, s, n, now)
<1> DEFINE stale == {i \in DOMAIN s : \A j \in 1..i : s[j].at <= now - Window}
<1>1. Len(s) \in Nat /\ DOMAIN s = 1..Len(s)
    OBVIOUS
<1>2. stale \in SUBSET (1..Len(s)) /\ \A i \in stale : \A j \in 1..i : j \in stale
    BY <1>1
<1>3. kept = SubSeq(s, Cardinality(stale) + 1, Len(s))
    BY DEF Evict
<1>4. \A i \in 1..Len(s) : i \in stale <=> \A j \in 1..i : s[j].at <= now - Window
    BY <1>1
<1> HIDE DEF stale
<1>5. PICK n \in 0..Len(s) : stale = 1..n /\ Cardinality(stale) = n
    BY <1>1, <1>2, PrefixSet
<1>6. kept = SubSeq(s, n + 1, Len(s)) /\ n \in Nat /\ n <= Len(s)
    BY <1>3, <1>5
<1>7. \A i \in (n + 1)..Len(s) : s[i] \in S
    BY <1>1, <1>6
<1>8. /\ kept \in Seq(S)
      /\ Len(kept) = IF n + 1 <= Len(s) THEN Len(s) - (n + 1) + 1 ELSE 0
      /\ \A i \in 1..(Len(s) - (n + 1) + 1) : kept[i] = s[(n + 1) + i - 1]
    BY <1>1, <1>6, <1>7, SubSeqProperties
<1>9. Len(kept) = Len(s) - n /\ \A i \in 1..(Len(s) - n) : kept[i] = s[n + i]
    <2>1. Len(s) - (n + 1) + 1 = Len(s) - n
        BY <1>1, <1>6
    <2>2. Len(kept) = Len(s) - n
        <3>1. n \in Nat /\ n <= Len(s) /\ Len(s) \in Nat
            BY <1>1, <1>6
        <3>2. Len(kept) = IF n + 1 <= Len(s) THEN Len(s) - (n + 1) + 1 ELSE 0
            BY <1>8
        <3> HIDE <1>6
        <3> QED BY <3>1, <3>2
    <2>3. ASSUME NEW i \in 1..(Len(s) - n) PROVE kept[i] = s[n + i]
        <3>1. (n + 1) + i - 1 = n + i
            BY <1>6
        <3> QED BY <1>8, <2>1, <3>1
    <2> QED BY <2>2, <2>3
<1>10. \A i \in 1..n : s[i].at <= now - Window
    <2> SUFFICES ASSUME NEW i \in 1..n PROVE s[i].at <= now - Window
        OBVIOUS
    <2>1. i \in stale /\ i \in 1..i /\ i \in 1..Len(s)
        BY <1>1, <1>5, <1>6
    <2> QED BY <1>4, <2>1
<1>11. ASSUME n < Len(s), s[n + 1].at <= now - Window PROVE FALSE
    <2>1. n + 1 \in 1..Len(s) /\ n + 1 \notin stale
        BY <1>1, <1>5, <1>6, <1>11
    <2>2. \A j \in 1..(n + 1) : j \in 1..n \/ j = n + 1
        BY <1>6
    <2> QED BY <1>4, <1>10, <1>11, <2>1, <2>2
<1> QED BY <1>8, <1>9, <1>10, <1>11 DEF Leaves

\* Evicting keeps what is inside the window, all of it, in its place.
LEMMA EvictKeepsWindow ==
    ASSUME NEW log \in Seq(Entry), NEW hits \in Seq(Entry), NEW l, NEW now \in Nat,
           InTimeOrder(log), Recorded(hits, log, l, now),
           NEW kept, kept = Evict(hits, now)
    PROVE  /\ kept \in Seq(Entry) /\ Len(kept) <= Len(hits)
           /\ \E place \in [1..Len(kept) -> 1..Len(log)] :
                /\ PlacedBy(place, kept, log, l, now)
                /\ \A i \in 1..Len(kept) : ~(kept[i].at <= now - Window)
<1>1. PICK place \in [1..Len(hits) -> 1..Len(log)] : PlacedBy(place, hits, log, l, now)
    BY DEF Recorded
<1>2. kept = Evict(hits, now)
    OBVIOUS
<1>3. PICK n \in 0..Len(hits) :
        /\ kept \in Seq(Entry) /\ Len(kept) = Len(hits) - n
        /\ \A i \in 1..(Len(hits) - n) : kept[i] = hits[n + i]
        /\ \A i \in 1..n : hits[i].at <= now - Window
        /\ n < Len(hits) => ~(hits[n + 1].at <= now - Window)
    <2>1. kept \in Seq(Entry) /\ \E n \in 0..Len(hits) : Leaves(kept, hits, n, now)
        BY <1>2, EvictShape
    <2> QED BY <2>1 DEF Leaves
<1>4. /\ Len(hits) \in Nat /\ n \in Nat /\ n <= Len(hits) /\ Len(log) \in Nat
      /\ Len(kept) \in Nat /\ Len(kept) <= Len(hits) /\ Window \in Nat
    BY <1>3, RateWindowAssumption
<1> DEFINE q == [i \in 1..Len(kept) |-> place[n + i]]
<1>5. \A i \in 1..Len(kept) : n + i \in 1..Len(hits)
    BY <1>3, <1>4
<1>6. q \in [1..Len(kept) -> 1..Len(log)] /\ \A i \in 1..Len(kept) : q[i] = place[n + i]
    BY <1>5
<1>7. Increasing(q)
    BY <1>1, <1>4, <1>5 DEF Increasing, PlacedBy
<1>8. \A i \in 1..Len(kept) : log[q[i]] = kept[i] /\ kept[i].by = l
    BY <1>1, <1>3, <1>5, <1>6 DEF PlacedBy
<1>9. ASSUME NEW j \in 1..Len(log), log[j].by = l, ~(log[j].at <= now - Window)
      PROVE  \E i \in 1..Len(kept) : q[i] = j
    <2>1. PICK i \in 1..Len(hits) : place[i] = j
        BY <1>1, <1>9 DEF PlacedBy
    <2>2. hits[i] = log[j]
        BY <1>1, <2>1 DEF PlacedBy
    <2>3. ~(i \in 1..n)
        BY <1>3, <1>9, <2>2
    <2>4. i - n \in 1..Len(kept) /\ n + (i - n) = i
        BY <1>3, <1>4, <2>3
    <2> QED BY <1>6, <2>1, <2>4
<1>10. ASSUME NEW i \in 1..Len(kept) PROVE ~(kept[i].at <= now - Window)
    <2>1. 1 \in 1..Len(kept) /\ n < Len(hits) /\ n + 1 \in 1..Len(hits)
        BY <1>3, <1>4
    <2>2. kept[1] = hits[n + 1] /\ ~(kept[1].at <= now - Window)
        BY <1>3, <2>1
    <2>3. q[1] <= q[i] /\ q[1] \in 1..Len(log) /\ q[i] \in 1..Len(log)
        <3>1. CASE i = 1
            BY <1>6, <2>1, <3>1
        <3>2. CASE i # 1
            <4>1. 1 < i
                BY <3>2
            <4>2. q[1] < q[i] /\ q[1] \in 1..Len(log) /\ q[i] \in 1..Len(log)
                BY <1>6, <1>7, <2>1, <4>1 DEF Increasing
            <4> QED BY <4>2
        <3> QED BY <3>1, <3>2
    <2>4. kept[1].at <= kept[i].at
        BY <1>8, <2>1, <2>3 DEF InTimeOrder
    <2>5. kept[1].at \in Nat /\ kept[i].at \in Nat
        <3>1. kept[1] \in Entry /\ kept[i] \in Entry
            BY <1>3, <2>1
        <3> QED BY <3>1 DEF Entry
    <2> QED BY <1>4, <2>2, <2>4, <2>5
<1> HIDE DEF q
<1>11. PlacedBy(q, kept, log, l, now)
    BY <1>7, <1>8, <1>9 DEF PlacedBy
<1> QED BY <1>3, <1>4, <1>6, <1>10, <1>11

\* As time passes the hits stay recorded.
LEMMA LaterRecorded ==
    ASSUME NEW log \in Seq(Entry), NEW hits, NEW l, NEW now \in Nat,
           NEW later \in Nat, now <= later, Recorded(hits, log, l, now)
    PROVE  Recorded(hits, log, l, later)
<1>1. PICK place \in [1..Len(hits) -> 1..Len(log)] : PlacedBy(place, hits, log, l, now)
    BY DEF Recorded
<1>2. Window \in Nat /\ \A i \in 1..Len(log) : log[i].at \in Nat
    <2>1. \A i \in 1..Len(log) : log[i] \in Entry
        OBVIOUS
    <2> QED BY <2>1, RateWindowAssumption DEF Entry
<1>3. \A i \in 1..Len(log) : log[i].at <= now - Window => log[i].at <= later - Window
    BY <1>2
<1>4. PlacedBy(place, hits, log, l, later)
    BY <1>1, <1>3 DEF PlacedBy
<1> QED BY <1>4 DEF Recorded

\* Another limiter's hit in the log leaves this one's recorded.
LEMMA StillRecorded ==
    ASSUME NEW log \in Seq(Entry), NEW hits, NEW l, NEW now,
           NEW e \in Entry, e.by # l, Recorded(hits, log, l, now)
    PROVE  Recorded(hits, Append(log, e), l, now)
<1>1. PICK place \in [1..Len(hits) -> 1..Len(log)] : PlacedBy(place, hits, log, l, now)
    BY DEF Recorded
<1> DEFINE longer == Append(log, e)
<1>2. /\ Len(log) \in Nat /\ Len(longer) = Len(log) + 1 /\ longer[Len(log) + 1] = e
      /\ \A i \in 1..Len(log) : longer[i] = log[i]
    OBVIOUS
<1> HIDE DEF longer
<1>3. \A i \in 1..Len(longer) : i = Len(log) + 1 \/ i \in 1..Len(log)
    BY <1>2
<1>4. \A j \in 1..Len(longer) : longer[j].by = l => j \in 1..Len(log)
    BY <1>2, <1>3
<1>5. PlacedBy(place, hits, longer, l, now)
    <2>1. Increasing(place)
        BY <1>1 DEF PlacedBy
    <2>2. \A i \in 1..Len(hits) : longer[place[i]] = hits[i] /\ hits[i].by = l
        BY <1>1, <1>2 DEF PlacedBy
    <2>3. \A j \in 1..Len(longer) :
            longer[j].by = l => \/ longer[j].at <= now - Window
                                \/ \E i \in 1..Len(hits) : place[i] = j
        BY <1>1, <1>2, <1>4 DEF PlacedBy
    <2> QED BY <2>1, <2>2, <2>3 DEF PlacedBy
<1>6. place \in [1..Len(hits) -> 1..Len(longer)]
    <2>1. \A i \in 1..Len(log) : i \in 1..Len(longer)
        BY <1>2
    <2> QED BY <1>1, <2>1
<1> QED BY <1>5, <1>6 DEF Recorded, longer

\* A hit that is let through is recorded with its limiter.
LEMMA AppendRecorded ==
    ASSUME NEW log \in Seq(Entry), NEW kept \in Seq(Entry), NEW l, NEW now \in Nat,
           NEW e \in Entry, e.by = l, Recorded(kept, log, l, now)
    PROVE  Recorded(Append(kept, e), Append(log, e), l, now)
<1> DEFINE longer == Append(log, e)
           hits == Append(kept, e)
<1>1. PICK place \in [1..Len(kept) -> 1..Len(log)] : PlacedBy(place, kept, log, l, now)
    BY DEF Recorded
<1>2. /\ Len(log) \in Nat /\ Len(longer) = Len(log) + 1 /\ longer[Len(log) + 1] = e
      /\ \A i \in 1..Len(log) : longer[i] = log[i]
    OBVIOUS
<1>3. /\ Len(kept) \in Nat /\ Len(hits) = Len(kept) + 1 /\ hits[Len(kept) + 1] = e
      /\ \A i \in 1..Len(kept) : hits[i] = kept[i]
    OBVIOUS
<1> HIDE DEF longer, hits
<1> DEFINE q == [i \in 1..Len(hits) |-> IF i \in 1..Len(kept) THEN place[i] ELSE Len(log) + 1]
<1>4. /\ \A i \in 1..Len(hits) : i \in 1..Len(kept) \/ i = Len(kept) + 1
      /\ \A i \in 1..Len(longer) : i \in 1..Len(log) \/ i = Len(log) + 1
      /\ \A i \in 1..Len(kept) : i \in 1..Len(hits)
      /\ Len(kept) + 1 \in 1..Len(hits) /\ Len(kept) + 1 \notin 1..Len(kept)
      /\ \A i \in 1..Len(log) : i \in 1..Len(longer) /\ i < Len(log) + 1
      /\ Len(log) + 1 \in 1..Len(longer)
    BY <1>2, <1>3
<1>5. /\ DOMAIN q = 1..Len(hits) /\ q \in [1..Len(hits) -> 1..Len(longer)]
      /\ \A i \in 1..Len(kept) : q[i] = place[i] /\ place[i] \in 1..Len(log)
      /\ q[Len(kept) + 1] = Len(log) + 1
    BY <1>4
<1> HIDE DEF q
<1>6. Increasing(q)
    <2> SUFFICES ASSUME NEW i \in 1..Len(hits), NEW j \in 1..Len(hits), i < j
                 PROVE  q[i] < q[j]
        BY <1>5 DEF Increasing
    <2>1. i \in 1..Len(kept)
        BY <1>3
    <2>2. CASE j \in 1..Len(kept)
        BY <1>1, <1>5, <2>1, <2>2 DEF Increasing, PlacedBy
    <2>3. CASE j = Len(kept) + 1
        BY <1>4, <1>5, <2>1, <2>3
    <2> QED BY <1>4, <2>2, <2>3
<1>7. \A i \in 1..Len(hits) : longer[q[i]] = hits[i] /\ hits[i].by = l
    <2>1. ASSUME NEW i \in 1..Len(kept) PROVE longer[q[i]] = hits[i] /\ hits[i].by = l
        <3>1. log[place[i]] = kept[i] /\ kept[i].by = l
            BY <1>1 DEF PlacedBy
        <3>2. q[i] = place[i] /\ place[i] \in 1..Len(log) /\ hits[i] = kept[i]
            BY <1>3, <1>5
        <3> QED BY <1>2, <3>1, <3>2
    <2> QED BY <1>2, <1>3, <1>4, <1>5, <2>1
<1>8. ASSUME NEW j \in 1..Len(longer), longer[j].by = l
      PROVE  longer[j].at <= now - Window \/ \E i \in 1..Len(hits) : q[i] = j
    <2>1. CASE j \in 1..Len(log)
        <3>1. log[j].at <= now - Window \/ \E i \in 1..Len(kept) : place[i] = j
            BY <1>1, <1>2, <1>8, <2>1 DEF PlacedBy
        <3> QED BY <1>2, <1>4, <1>5, <2>1, <3>1
    <2>2. CASE j = Len(log) + 1
        BY <1>4, <1>5, <2>2
    <2> QED BY <1>4, <2>1, <2>2
<1>9. PlacedBy(q, hits, longer, l, now)
    BY <1>6, <1>7, <1>8 DEF PlacedBy
<1> QED BY <1>5, <1>9 DEF Recorded, hits, longer

\* What RefusedOnlyWhenFull says of one refusal and the log of its key.
Earned(refusal, log) ==
    LET counted == {j \in Within(log, refusal.hit.at) : log[j].by = refusal.hit.by}
    IN  /\ Cardinality(counted) >= MaxRequests
        /\ refusal.hit.at + refusal.retryAfter = Window + Min({log[j].at : j \in counted})

InWindow(place, kept, log, l, now) ==
    /\ PlacedBy(place, kept, log, l, now)
    /\ \A i \in 1..Len(kept) : ~(kept[i].at <= now - Window)

LogUpTo(log, now) ==
    /\ log \in Seq(Entry) /\ InTimeOrder(log)
    /\ \A i \in 1..Len(log) : log[i].at <= now

\* What is counted of a log against a limiter, and when it was let through.
Counts(counted, ats, log, l, now) ==
    /\ counted = {j \in Within(log, now) : log[j].by = l}
    /\ ats = {log[j].at : j \in counted}

\* The hits inside the window are a limiter's part of the log inside it: as
\* many, and the oldest the same.
LEMMA CountedAreKept ==
    ASSUME NEW log, NEW kept \in Seq(Entry), NEW l, NEW now \in Nat, LogUpTo(log, now),
           NEW place \in [1..Len(kept) -> 1..Len(log)], InWindow(place, kept, log, l, now),
           NEW counted, NEW ats, Counts(counted, ats, log, l, now)
    PROVE  /\ Cardinality(counted) = Len(kept)
           /\ Len(kept) > 0 => Min(ats) = kept[1].at
<1>0. /\ log \in Seq(Entry) /\ InTimeOrder(log) /\ \A i \in 1..Len(log) : log[i].at <= now
      /\ PlacedBy(place, kept, log, l, now)
      /\ \A i \in 1..Len(kept) : ~(kept[i].at <= now - Window)
      /\ counted = {j \in Within(log, now) : log[j].by = l}
      /\ ats = {log[j].at : j \in counted}
    BY DEF LogUpTo, InWindow, Counts
<1>1. /\ Len(log) \in Nat /\ DOMAIN log = 1..Len(log) /\ Len(kept) \in Nat
      /\ Window \in Nat /\ \A i \in 1..Len(log) : log[i].at \in Nat
    <2>1. log \in Seq(Entry) /\ \A i \in 1..Len(log) : log[i] \in Entry
        BY <1>0
    <2>2. Len(log) \in Nat /\ DOMAIN log = 1..Len(log) /\ Len(kept) \in Nat
        BY <2>1, LenProperties
    <2>3. \A i \in 1..Len(log) : log[i].at \in Nat
        BY <2>1 DEF Entry
    <2> QED BY <2>2, <2>3, RateWindowAssumption
<1>2. counted = {j \in 1..Len(log) : ~(log[j].at <= now - Window) /\ log[j].by = l}
    <2>1. \A j \in 1..Len(log) : now - Window < log[j].at <=> ~(log[j].at <= now - Window)
        BY <1>1
    <2> QED BY <1>0, <1>1, <2>1 DEF Within
<1>3. \A j \in counted : \E i \in 1..Len(kept) : place[i] = j
    BY <1>0, <1>2 DEF PlacedBy
<1>4. \A i \in 1..Len(kept) : place[i] \in counted
    BY <1>0, <1>2 DEF PlacedBy
<1>10. /\ \A i \in 1..Len(kept) : place[i] \in Int
      /\ \A i, j \in 1..Len(kept) : i < j => place[i] < place[j]
    <2>1. DOMAIN place = 1..Len(kept) /\ \A i \in 1..Len(kept) : place[i] \in 1..Len(log)
        OBVIOUS
    <2>2. Increasing(place)
        BY <1>0 DEF PlacedBy
    <2>3. \A i \in 1..Len(kept) : place[i] \in Int
        BY <2>1
    <2> HIDE <1>1
    <2> QED BY <2>1, <2>2, <2>3 DEF Increasing
<1>5. \A i, j \in 1..Len(kept) : place[i] = place[j] => i = j
    <2> SUFFICES ASSUME NEW i \in 1..Len(kept), NEW j \in 1..Len(kept), place[i] = place[j]
                 PROVE  i = j
        OBVIOUS
    <2>1. /\ place[i] \in Int /\ i \in Int /\ j \in Int
          /\ i < j => place[i] < place[j]
          /\ j < i => place[j] < place[i]
        BY <1>1, <1>10
    <2> QED BY <2>1
<1>6. Cardinality(counted) = Len(kept)
    <2>1. place \in Bijection(1..Len(kept), counted)
        <3>1. place \in [1..Len(kept) -> counted] /\ DOMAIN place = 1..Len(kept)
            BY <1>4
        <3> QED BY <1>3, <1>5, <3>1 DEF Bijection, Injection, Surjection, IsInjective
    <2>2. ExistsBijection(1..Len(kept), counted)
        BY <2>1 DEF ExistsBijection
    <2> QED BY <1>1, <2>2, FS_CountingElements
<1>7. ASSUME Len(kept) > 0 PROVE Min(ats) = kept[1].at
    <2>1. 1 \in 1..Len(kept) /\ \A i \in 1..Len(kept) : 1 < i \/ i = 1
        BY <1>1, <1>7
    <2>2. kept[1].at \in ats /\ kept[1].at \in Nat
        BY <1>0, <1>1, <1>4, <2>1 DEF PlacedBy
    <2>3. ASSUME NEW j \in counted PROVE kept[1].at <= log[j].at /\ log[j].at \in Nat
        <3>1. PICK i \in 1..Len(kept) : place[i] = j
            BY <1>3
        <3>2. place[1] <= place[i]
            <4>1. place[1] \in Int /\ place[i] \in Int /\ (1 < i => place[1] < place[i])
                BY <1>10, <2>1
            <4>2. 1 < i \/ i = 1
                BY <2>1
            <4> HIDE <1>1
            <4> QED BY <4>1, <4>2
        <3>3. log[place[1]].at <= log[place[i]].at
            BY <1>0, <2>1, <3>2 DEF InTimeOrder
        <3> QED BY <1>0, <1>1, <2>1, <3>1, <3>3 DEF PlacedBy
    <2>4. \A y \in ats : kept[1].at <= y /\ y \in Nat
        BY <1>0, <2>3
    <2>5. ASSUME NEW S, NEW a \in S, a \in Nat, \A y \in S : a <= y /\ y \in Nat
          PROVE  Min(S) = a
        <3>1. \E m \in S : \A y \in S : m <= y
            BY <2>5
        <3>2. Min(S) \in S /\ \A y \in S : Min(S) <= y
            BY <3>1 DEF Min
        <3>3. Min(S) \in Nat /\ Min(S) <= a /\ a <= Min(S)
            BY <2>5, <3>2
        <3> QED BY <2>5, <3>3
    <2> HIDE <1>1
    <2> QED BY <2>2, <2>4, <2>5
<1> QED BY <1>6, <1>7

\* So a refusal by a full window is earned.
LEMMA FullIsEarned ==
    ASSUME NEW log \in Seq(Entry), NEW kept \in Seq(Entry), NEW l, NEW now \in Nat,
           InTimeOrder(log), \A i \in 1..Len(log) : log[i].at <= now,
           \E place \in [1..Len(kept) -> 1..Len(log)] : InWindow(place, kept, log, l, now),
           Len(kept) >= MaxRequests, NEW refusal,
           refusal.hit.at = now, refusal.hit.by = l,
           refusal.retryAfter = Head(kept).at + Window - now
    PROVE  Earned(refusal, log)
<1> DEFINE counted == {j \in Within(log, now) : log[j].by = l}
           ats == {log[j].at : j \in counted}
<1>1. PICK place \in [1..Len(kept) -> 1..Len(log)] : InWindow(place, kept, log, l, now)
    OBVIOUS
<1>2. Cardinality(counted) = Len(kept) /\ (Len(kept) > 0 => Min(ats) = kept[1].at)
    <2>1. Counts(counted, ats, log, l, now) /\ LogUpTo(log, now)
        BY DEF Counts, LogUpTo
    <2> HIDE DEF counted, ats
    <2> QED BY <1>1, <2>1, CountedAreKept
<1>3. /\ Len(kept) \in Nat /\ Len(kept) > 0 /\ Window \in Nat
    BY RateWindowAssumption
<1>4. kept[1] \in Entry /\ Head(kept) = kept[1]
    BY <1>3
<1>5. kept[1].at \in Nat
    BY <1>4 DEF Entry
<1>6. refusal.hit.at + refusal.retryAfter = Window + Min(ats)
    <2> HIDE DEF ats
    <2> QED BY <1>2, <1>3, <1>4, <1>5
<1>7. Cardinality(counted) >= MaxRequests
    BY <1>2
<1> HIDE DEF counted, ats
<1> QED BY <1>6, <1>7 DEF Earned, counted, ats

LEMMA WindowsInitInv == RWInit => RWInv
<1> SUFFICES ASSUME RWInit PROVE RWInv
    OBVIOUS
<1>1. GetterInv
    <2>1. Building = {} /\ Cardinality(Building) = 0
        BY FS_EmptySet DEF RWInit, Building
    <2> QED BY <2>1, LimiterNumbers DEF RWInit, GetterInv
<1>2. LogInv
    <2>1. /\ rwNow = 0 /\ <<>> \in Seq(Entry) /\ Len(<<>>) = 0
          /\ \A l \in Limiters, k \in Keys : rwHits[l][k] = <<>>
          /\ \A k \in Keys : rwAllowed[k] = <<>>
          /\ rwHits = [l \in Limiters |-> [k \in Keys |-> <<>>]]
          /\ rwAllowed = [k \in Keys |-> <<>>]
        BY DEF RWInit
    <2>2. \A l \in Limiters : Recorded(<<>>, <<>>, l, 0)
        <3>1. [i \in 1..0 |-> i] \in [1..0 -> 1..0]
            OBVIOUS
        <3>2. \A l \in Limiters : PlacedBy([i \in 1..0 |-> i], <<>>, <<>>, l, 0)
            BY DEF PlacedBy, Increasing
        <3> QED BY <2>1, <3>1, <3>2 DEF Recorded
    <2>3. /\ rwHits \in [Limiters -> [Keys -> Seq(Entry)]]
          /\ rwAllowed \in [Keys -> Seq(Entry)]
        BY <2>1
    <2>4. \A l \in Limiters, k \in Keys : /\ Len(rwHits[l][k]) <= MaxRequests
                                          /\ Recorded(rwHits[l][k], rwAllowed[k], l, rwNow)
        BY <2>1, <2>2, RateWindowAssumption
    <2>5. \A k \in Keys : /\ InTimeOrder(rwAllowed[k])
                          /\ \A i \in 1..Len(rwAllowed[k]) : rwAllowed[k][i].at <= rwNow
        BY <2>1 DEF InTimeOrder
    <2> QED BY <2>1, <2>3, <2>4, <2>5 DEF LogInv
<1>3. RefusedOnlyWhenFull
    BY DEF RWInit, RefusedOnlyWhenFull
<1> QED BY <1>1, <1>2, <1>3 DEF RWInv

\* The getter's steps.
LEMMA GetterStep ==
    ASSUME GetterInv, NEW r \in Requests,
           RWAsk(r) \/ RWBuild(r) \/ RWReturn(r) \/ \E k \in Keys : RWCheck(r, k)
    PROVE  GetterInv'
<1> USE LimiterNumbers, RateWindowAssumption
<1>1. CASE RWAsk(r)
    <2>1. /\ rwAt' = [rwAt EXCEPT ![r] = IF rwLimiter = 0 THEN "building" ELSE "returning"]
          /\ rwAt[r] = "idle" /\ UNCHANGED <<rwLimiter, rwBuilt, rwUses>>
        BY <1>1 DEF RWAsk
    <2>2. CASE rwLimiter = 0
        <3>1. Building' \in SUBSET Requests
            BY DEF Building
        <3>2. Cardinality(Building') <= Cardinality(Requests)
            BY <3>1, FS_Subset
        <3>3. rwBuilt' = 0
            BY <2>1, <2>2 DEF GetterInv
        <3> QED BY <2>1, <2>2, <3>2, <3>3 DEF GetterInv
    <2>3. CASE rwLimiter # 0
        <3>1. Building' = Building
            BY <2>1, <2>3 DEF GetterInv, Building
        <3> QED BY <2>1, <2>3, <3>1 DEF GetterInv
    <2> QED BY <2>2, <2>3
<1>2. CASE RWBuild(r)
    <2>1. /\ rwAt[r] = "building" /\ rwBuilt' = rwBuilt + 1 /\ rwLimiter' = rwBuilt + 1
          /\ rwAt' = [rwAt EXCEPT ![r] = "returning"] /\ rwUses' = rwUses
        BY <1>2 DEF RWBuild
    <2>2. Building' = Building \ {r} /\ r \in Building
        BY <2>1 DEF GetterInv, Building
    <2>3. Cardinality(Building') = Cardinality(Building) - 1
        BY <2>2, FS_RemoveElement
    <2> QED BY <2>1, <2>3 DEF GetterInv
<1>3. CASE RWReturn(r)
    <2>1. /\ rwAt[r] = "returning" /\ rwUses' = [rwUses EXCEPT ![r] = rwLimiter]
          /\ rwAt' = [rwAt EXCEPT ![r] = "checking"] /\ UNCHANGED <<rwLimiter, rwBuilt>>
        BY <1>3 DEF RWReturn
    <2>2. Building' = Building
        BY <2>1 DEF GetterInv, Building
    <2>3. rwLimiter \in Limiters
        BY <2>1 DEF GetterInv
    <2> QED BY <2>1, <2>2, <2>3 DEF GetterInv
<1>4. CASE \E k \in Keys : RWCheck(r, k)
    <2>1. /\ rwAt[r] = "checking" /\ rwUses' = [rwUses EXCEPT ![r] = 0]
          /\ rwAt' = [rwAt EXCEPT ![r] = "idle"] /\ UNCHANGED <<rwLimiter, rwBuilt>>
        BY <1>4 DEF RWCheck
    <2>2. Building' = Building
        BY <2>1 DEF GetterInv, Building
    <2> QED BY <2>1, <2>2 DEF GetterInv
<1> QED BY <1>1, <1>2, <1>3, <1>4

LEMMA RefusedMeansEarned ==
    /\ RefusedOnlyWhenFull
         <=> \A refusal \in rwRefusal : Earned(refusal, rwAllowed[refusal.key])
    /\ RefusedOnlyWhenFull'
         <=> \A refusal \in rwRefusal' : Earned(refusal, rwAllowed'[refusal.key])
BY DEF RefusedOnlyWhenFull, Earned

\* Time passes, or a step that lets no request through or refuses one.
LEMMA NoCheckStep ==
    ASSUME LogInv, RefusedOnlyWhenFull, rwNow' \in Nat, rwNow <= rwNow',
           UNCHANGED <<rwHits, rwAllowed, rwRefusal>>
    PROVE  LogInv' /\ RefusedOnlyWhenFull'
<1>1. RefusedOnlyWhenFull'
    BY RefusedMeansEarned
<1>2. ASSUME NEW l \in Limiters, NEW k \in Keys
      PROVE  Recorded(rwHits[l][k], rwAllowed[k], l, rwNow')
    <2>1. rwAllowed[k] \in Seq(Entry) /\ Recorded(rwHits[l][k], rwAllowed[k], l, rwNow)
        BY DEF LogInv
    <2>2. rwNow \in Nat
        BY DEF LogInv
    <2> QED BY <2>1, <2>2, LaterRecorded
<1>3. ASSUME NEW k \in Keys, NEW i \in 1..Len(rwAllowed[k])
      PROVE  rwAllowed[k][i].at <= rwNow'
    <2>1. rwAllowed[k] \in Seq(Entry) /\ rwAllowed[k][i].at <= rwNow /\ rwNow \in Nat
        BY DEF LogInv
    <2>2. rwAllowed[k][i] \in Entry
        BY <2>1
    <2>3. rwAllowed[k][i].at \in Nat
        BY <2>2 DEF Entry
    <2> QED BY <2>1, <2>3
<1> QED BY <1>1, <1>2, <1>3 DEF LogInv

\* A check: the hits and the log of its limiter and key change, and it is
\* refused only when the window is full.
LEMMA CheckStep ==
    ASSUME RWInv, NEW r \in Requests, NEW k \in Keys, RWCheck(r, k)
    PROVE  LogInv' /\ RefusedOnlyWhenFull'
<1> DEFINE u == rwUses[r]
           kept == Evict(rwHits[u][k], rwNow)
           hit == [at |-> rwNow, by |-> u]
           hits == IF Len(kept) >= MaxRequests THEN kept ELSE Append(kept, hit)
           log == rwAllowed[k]
<1>1. /\ LogInv /\ u \in Limiters /\ rwNow \in Nat /\ rwNow' = rwNow /\ hit \in Entry
      /\ hit.at = rwNow /\ hit.by = u /\ MaxRequests \in Nat \ {0} /\ Window \in Nat
    BY RateWindowAssumption DEF RWInv, GetterInv, LogInv, RWCheck, Entry
<1>2. /\ log \in Seq(Entry) /\ InTimeOrder(log) /\ rwHits[u][k] \in Seq(Entry)
      /\ \A i \in 1..Len(log) : log[i].at <= rwNow
      /\ Recorded(rwHits[u][k], log, u, rwNow) /\ Len(rwHits[u][k]) <= MaxRequests
    BY <1>1 DEF LogInv
<1>3. /\ rwHits' = [rwHits EXCEPT ![u][k] = hits]
      /\ Len(kept) >= MaxRequests =>
           /\ rwAllowed' = rwAllowed
           /\ rwRefusal' = {[key |-> k, hit |-> hit, retryAfter |-> Head(kept).at + Window - rwNow]}
      /\ ~(Len(kept) >= MaxRequests) =>
           rwAllowed' = [rwAllowed EXCEPT ![k] = Append(log, hit)] /\ rwRefusal' = {}
    BY DEF RWCheck
<1> HIDE DEF hit, u
<1>4. /\ kept \in Seq(Entry) /\ Len(kept) <= Len(rwHits[u][k])
      /\ \E place \in [1..Len(kept) -> 1..Len(log)] :
           /\ PlacedBy(place, kept, log, u, rwNow)
           /\ \A i \in 1..Len(kept) : ~(kept[i].at <= rwNow - Window)
    <2>1. \A x : x = kept => /\ x \in Seq(Entry) /\ Len(x) <= Len(rwHits[u][k])
                             /\ \E place \in [1..Len(x) -> 1..Len(log)] :
                                  /\ PlacedBy(place, x, log, u, rwNow)
                                  /\ \A i \in 1..Len(x) : ~(x[i].at <= rwNow - Window)
        BY <1>1, <1>2, EvictKeepsWindow
    <2> HIDE DEF kept
    <2> QED BY <2>1
<1> HIDE DEF kept, log
<1>5. Recorded(kept, log, u, rwNow) /\ Len(kept) \in Nat /\ Len(kept) <= MaxRequests
    <2>1. Len(kept) \in Nat /\ Len(rwHits[u][k]) \in Nat
        BY <1>2, <1>4
    <2> QED BY <1>1, <1>2, <1>4, <2>1 DEF Recorded
<1>6. /\ hits \in Seq(Entry) /\ Len(hits) <= MaxRequests
      /\ rwHits' \in [Limiters -> [Keys -> Seq(Entry)]] /\ rwHits'[u][k] = hits
      /\ \A l \in Limiters, m \in Keys : l # u \/ m # k => rwHits'[l][m] = rwHits[l][m]
    <2>1. hits \in Seq(Entry) /\ Len(hits) <= MaxRequests
        <3>1. Append(kept, hit) \in Seq(Entry) /\ Len(Append(kept, hit)) = Len(kept) + 1
            BY <1>1, <1>4
        <3> QED BY <1>1, <1>4, <1>5, <3>1
    <2> HIDE DEF hits
    <2>2. rwHits \in [Limiters -> [Keys -> Seq(Entry)]]
        BY <1>1 DEF LogInv
    <2> QED BY <1>1, <1>3, <2>1, <2>2
<1>7. CASE Len(kept) >= MaxRequests
    <2>1. hits = kept /\ rwAllowed' = rwAllowed
        BY <1>3, <1>7
    <2>2. ASSUME NEW l \in Limiters, NEW m \in Keys
          PROVE  Len(rwHits'[l][m]) <= MaxRequests /\ Recorded(rwHits'[l][m], rwAllowed[m], l, rwNow)
        <3>1. CASE l = u /\ m = k
            BY <1>5, <1>6, <2>1, <3>1 DEF log
        <3>2. CASE l # u \/ m # k
            BY <1>1, <1>6, <3>2 DEF LogInv
        <3> QED BY <3>1, <3>2
    <2>3. LogInv'
        BY <1>1, <1>6, <2>1, <2>2 DEF LogInv
    <2>4. Earned([key |-> k, hit |-> hit, retryAfter |-> Head(kept).at + Window - rwNow], log)
        <3> DEFINE refusal == [key |-> k, hit |-> hit, retryAfter |-> Head(kept).at + Window - rwNow]
        <3>1. /\ refusal.hit.at = rwNow /\ refusal.hit.by = u
              /\ refusal.retryAfter = Head(kept).at + Window - rwNow
            BY <1>1
        <3>2. \E place \in [1..Len(kept) -> 1..Len(log)] : InWindow(place, kept, log, u, rwNow)
            BY <1>4 DEF InWindow
        <3> HIDE DEF refusal
        <3>3. Earned(refusal, log)
            BY <1>1, <1>2, <1>4, <1>7, <3>1, <3>2, FullIsEarned
        <3> QED BY <3>3 DEF refusal
    <2>5. RefusedOnlyWhenFull'
        BY <1>3, <1>7, <2>1, <2>4, RefusedMeansEarned DEF log
    <2> QED BY <2>3, <2>5
<1>8. CASE ~(Len(kept) >= MaxRequests)
    <2> DEFINE longer == Append(log, hit)
    <2>1. hits = Append(kept, hit) /\ rwAllowed' = [rwAllowed EXCEPT ![k] = longer]
        BY <1>3, <1>8
    <2>2. longer \in Seq(Entry) /\ rwAllowed \in [Keys -> Seq(Entry)]
        BY <1>1, <1>2 DEF LogInv
    <2>3. Recorded(hits, longer, u, rwNow)
        BY <1>1, <1>2, <1>4, <1>5, <2>1, AppendRecorded
    <2>4. ASSUME NEW l \in Limiters, l # u PROVE Recorded(rwHits[l][k], longer, l, rwNow)
        BY <1>1, <1>2, <2>4, StillRecorded DEF LogInv, log
    <2>5. InTimeOrder(longer) /\ \A i \in 1..Len(longer) : longer[i].at <= rwNow
        <3>1. /\ Len(log) \in Nat /\ Len(longer) = Len(log) + 1 /\ longer[Len(log) + 1] = hit
              /\ \A i \in 1..Len(log) : longer[i] = log[i]
            BY <1>1, <1>2
        <3> HIDE DEF longer
        <3>2. \A i \in 1..Len(longer) : i = Len(log) + 1 \/ i \in 1..Len(log)
            BY <3>1
        <3>3. \A i \in 1..Len(longer) : longer[i].at <= rwNow
            BY <1>1, <1>2, <3>1, <3>2
        <3>4. ASSUME NEW i \in 1..Len(longer), NEW j \in 1..Len(longer), i <= j
              PROVE  longer[i].at <= longer[j].at
            <4>1. CASE j = Len(log) + 1
                BY <1>1, <3>1, <3>3, <4>1
            <4>2. CASE j \in 1..Len(log)
                <5>1. i \in 1..Len(log)
                    BY <3>1, <3>4, <4>2
                <5> QED BY <1>2, <3>1, <3>4, <4>2, <5>1 DEF InTimeOrder
            <4> QED BY <3>2, <4>1, <4>2
        <3> QED BY <3>3, <3>4 DEF InTimeOrder
    <2> HIDE DEF longer
    <2>6. /\ rwAllowed' \in [Keys -> Seq(Entry)] /\ rwAllowed'[k] = longer
          /\ \A m \in Keys : m # k => rwAllowed'[m] = rwAllowed[m]
        BY <2>1, <2>2
    <2>7. ASSUME NEW l \in Limiters, NEW m \in Keys
          PROVE  Len(rwHits'[l][m]) <= MaxRequests /\ Recorded(rwHits'[l][m], rwAllowed'[m], l, rwNow)
        <3>1. CASE l = u /\ m = k
            BY <1>6, <2>3, <2>6, <3>1
        <3>2. CASE l # u /\ m = k
            BY <1>1, <1>6, <2>4, <2>6, <3>2 DEF LogInv
        <3>3. CASE m # k
            BY <1>1, <1>6, <2>6, <3>3 DEF LogInv
        <3> QED BY <3>1, <3>2, <3>3
    <2>8. ASSUME NEW m \in Keys
          PROVE  /\ InTimeOrder(rwAllowed'[m])
                 /\ \A i \in 1..Len(rwAllowed'[m]) : rwAllowed'[m][i].at <= rwNow
        <3>1. CASE m = k
            BY <2>5, <2>6, <3>1
        <3>2. CASE m # k
            BY <1>1, <2>6, <3>2 DEF LogInv
        <3> QED BY <3>1, <3>2
    <2>9. LogInv'
        BY <1>1, <1>6, <2>6, <2>7, <2>8 DEF LogInv
    <2>10. RefusedOnlyWhenFull'
        BY <1>3, <1>8, RefusedMeansEarned
    <2> QED BY <2>9, <2>10
<1> QED BY <1>7, <1>8

LEMMA RWStepInv == RWInv /\ [RWNext]_rwVars => RWInv'
<1> SUFFICES ASSUME RWInv, [RWNext]_rwVars PROVE RWInv'
    OBVIOUS
<1>1. /\ GetterInv /\ LogInv /\ RefusedOnlyWhenFull /\ rwNow \in Nat
    BY DEF RWInv, LogInv
<1>2. ASSUME UNCHANGED rwLimiters, rwNow' = rwNow \/ rwNow' = rwNow + 1
      PROVE  RWInv'
    <2>1. rwNow' \in Nat /\ rwNow <= rwNow'
        BY <1>1, <1>2
    <2>2. UNCHANGED <<rwLimiter, rwBuilt, rwHits, rwAt, rwUses, rwAllowed, rwRefusal>>
        BY <1>2 DEF rwLimiters
    <2>3. GetterInv'
        BY <1>1, <2>2 DEF GetterInv, Building
    <2> QED BY <1>1, <2>1, <2>2, <2>3, NoCheckStep DEF RWInv
<1>3. CASE RWTick
    BY <1>2, <1>3 DEF RWTick
<1>4. ASSUME NEW bytes \in FrameBytes, RWFrame(bytes) PROVE RWInv'
    BY <1>2, <1>4 DEF RWFrame
<1>5. CASE UNCHANGED rwVars
    BY <1>2, <1>5 DEF rwVars
<1>6. ASSUME NEW r \in Requests, RWAsk(r) \/ RWBuild(r) \/ RWReturn(r) PROVE RWInv'
    <2>1. rwNow' = rwNow /\ UNCHANGED <<rwHits, rwAllowed, rwRefusal>>
        BY <1>6 DEF RWAsk, RWBuild, RWReturn
    <2>2. LogInv' /\ RefusedOnlyWhenFull'
        BY <1>1, <2>1, NoCheckStep
    <2>3. GetterInv'
        BY <1>1, <1>6, GetterStep
    <2> QED BY <2>2, <2>3 DEF RWInv
<1>7. ASSUME NEW r \in Requests, NEW k \in Keys, RWCheck(r, k) PROVE RWInv'
    BY <1>1, <1>7, GetterStep, CheckStep DEF RWInv
<1> QED BY <1>3, <1>4, <1>5, <1>6, <1>7 DEF RWNext, RequestsNext, AudioNext

\* A request is refused only when its own limiter let MaxRequests through in
\* the window that ends with it, and it is told when the oldest of them
\* leaves: for every number of requests, keys and limiters built at once.
THEOREM RefusalsAreEarned == RWSpec => []RefusedOnlyWhenFull
<1>1. RWInv => RefusedOnlyWhenFull
    BY DEF RWInv
<1> QED BY <1>1, WindowsInitInv, RWStepInv, PTL DEF RWSpec
-----------------------------------------------------------------------------
(* The cap of a window: requests.                                          *)

CountedBy(log, t, l) == {j \in Within(log, t) : log[j].by = l}

\* Each limiter keeps to its limit in every window, and what is in the log
\* was let through by a limiter that was built.
CapInv ==
    /\ \A r \in Requests : rwUses[r] \in 0..rwBuilt
    /\ \A k \in Keys : \A i \in 1..Len(rwAllowed[k]) : rwAllowed[k][i].by \in 1..rwBuilt
    /\ \A k \in Keys, l \in Limiters : \A t \in 0..rwNow :
         Cardinality(CountedBy(rwAllowed[k], t, l)) <= MaxRequests

\* A set of at most n classes of at most size elements each.
LEMMA ClassesBound ==
    ASSUME NEW W, IsFiniteSet(W), NEW n \in Nat, NEW size \in Nat,
           NEW class \in [W -> 1..n],
           \A l \in 1..n : Cardinality({j \in W : class[j] = l}) <= size
    PROVE  Cardinality(W) <= size * n
<1> DEFINE Low(m) == {j \in W : class[j] <= m}
           Bad == {m \in 0..n : ~(Cardinality(Low(m)) <= size * m)}
<1>1. \A T \in SUBSET W : IsFiniteSet(T) /\ Cardinality(T) \in Nat
    BY FS_Subset, FS_CardinalityType
<1>2. Low(n) = W
    OBVIOUS
<1>3. ASSUME Bad # {} PROVE FALSE
    <2>1. PICK m \in Bad : \A x \in Bad : m <= x
        <3>1. Bad \in SUBSET Nat
            OBVIOUS
        <3> HIDE DEF Bad
        <3> QED BY <1>3, <3>1, LeastExists
    <2>2. m \in 0..n /\ ~(Cardinality(Low(m)) <= size * m)
        BY <2>1
    <2>3. m # 0
        <3>1. Low(0) = {}
            OBVIOUS
        <3> HIDE DEF Low
        <3>2. Cardinality(Low(0)) = 0 /\ size * 0 = 0
            BY <3>1, FS_EmptySet
        <3> QED BY <2>2, <3>2
    <2>4. m - 1 \in 0..n /\ m - 1 \notin Bad
        <3>1. m - 1 \in 0..n /\ ~(m <= m - 1)
            BY <2>2, <2>3
        <3> HIDE DEF Bad
        <3> QED BY <2>1, <3>1
    <2>5. Cardinality(Low(m - 1)) <= size * (m - 1)
        BY <2>4
    <2> DEFINE own == {j \in W : class[j] = m}
    <2>6. Low(m) = Low(m - 1) \cup own /\ Low(m - 1) \cap own = {}
        BY <2>2
    <2>7. Cardinality(own) <= size
        BY <2>2, <2>3
    <2>8. /\ Low(m - 1) \in SUBSET W /\ own \in SUBSET W /\ Low(m) \in SUBSET W
        OBVIOUS
    <2> HIDE DEF Low, own, Bad
    <2>9. Cardinality(Low(m)) = Cardinality(Low(m - 1)) + Cardinality(own)
        <3>1. /\ IsFiniteSet(Low(m - 1)) /\ IsFiniteSet(own)
              /\ Cardinality(Low(m - 1)) \in Nat /\ Cardinality(own) \in Nat
            BY <1>1, <2>8
        <3>2. Cardinality(Low(m - 1) \cap own) = 0
            BY <2>6, FS_EmptySet
        <3>3. Cardinality(Low(m - 1) \cup own)
                = Cardinality(Low(m - 1)) + Cardinality(own) - Cardinality(Low(m - 1) \cap own)
            BY <3>1, FS_Union
        <3> QED BY <2>6, <3>1, <3>2, <3>3
    <2>10. /\ Cardinality(Low(m - 1)) \in Nat /\ Cardinality(own) \in Nat
           /\ size * (m - 1) \in Int /\ size * m = size * (m - 1) + size
        BY <1>1, <2>2, <2>8
    <2> QED BY <2>2, <2>5, <2>7, <2>9, <2>10
<1>4. n \in 0..n /\ n \notin Bad
    <2>1. n \in 0..n
        OBVIOUS
    <2> HIDE DEF Bad
    <2> QED BY <1>3, <2>1
<1> QED BY <1>2, <1>4

\* Within a window a log has finitely many entries.
LEMMA WithinFinite ==
    ASSUME NEW S, NEW log \in Seq(S), NEW t
    PROVE  /\ Within(log, t) \in SUBSET (1..Len(log)) /\ IsFiniteSet(Within(log, t))
           /\ Cardinality(Within(log, t)) \in Nat
           /\ \A T \in SUBSET Within(log, t) : IsFiniteSet(T) /\ Cardinality(T) \in Nat
<1>1. DOMAIN log = 1..Len(log) /\ Len(log) \in Nat
    OBVIOUS
<1>2. IsFiniteSet(1..Len(log))
    BY <1>1, FS_Interval
<1>3. Within(log, t) \in SUBSET (1..Len(log))
    BY <1>1 DEF Within
<1>4. IsFiniteSet(Within(log, t))
    BY <1>2, <1>3, FS_Subset
<1> QED BY <1>3, <1>4, FS_Subset, FS_CardinalityType

\* As the clock goes on, the window that ends now keeps what it had or less.
LEMMA WindowMovesOn ==
    ASSUME NEW S, NEW log \in Seq(S), NEW now \in Nat,
           \A i \in 1..Len(log) : log[i].at \in Nat /\ log[i].at <= now
    PROVE  Within(log, now + 1) \subseteq Within(log, now)
<1>1. Window \in Nat
    BY RateWindowAssumption
<1>2. DOMAIN log = 1..Len(log)
    OBVIOUS
<1> QED BY <1>1, <1>2 DEF Within

\* An entry of this moment changes no window that ended before.
LEMMA OldWindowsKeep ==
    ASSUME NEW S, NEW log \in Seq(S), NEW e \in S, NEW t \in Nat, t < e.at, e.at \in Nat
    PROVE  Within(Append(log, e), t) = Within(log, t)
<1> DEFINE longer == Append(log, e)
<1>1. /\ Len(log) \in Nat /\ DOMAIN longer = 1..(Len(log) + 1) /\ longer[Len(log) + 1] = e
      /\ DOMAIN log = 1..Len(log) /\ \A i \in 1..Len(log) : longer[i] = log[i]
    OBVIOUS
<1> HIDE DEF longer
<1>2. ~(e.at <= t)
    OBVIOUS
<1>3. \A i \in DOMAIN longer : i \in DOMAIN log \/ i = Len(log) + 1
    BY <1>1
<1>4. \A i \in DOMAIN log : i \in DOMAIN longer
    BY <1>1
<1> QED BY <1>1, <1>2, <1>3, <1>4 DEF Within, longer
\* Requests that are let through, by the hits that their limiter still holds.
HasRoom(kept, log, u, now) ==
    /\ Len(kept) < MaxRequests
    /\ \E place \in [1..Len(kept) -> 1..Len(log)] : InWindow(place, kept, log, u, now)
Admitted(longer, log, u, now) ==
    /\ Cardinality(CountedBy(longer, now, u)) <= MaxRequests
    /\ \A l : l # u => CountedBy(longer, now, l) = CountedBy(log, now, l)

LEMMA LetThroughCounts ==
    ASSUME NEW log \in Seq(Entry), NEW kept \in Seq(Entry), NEW u, NEW now \in Nat,
           LogUpTo(log, now), HasRoom(kept, log, u, now),
           NEW hit \in Entry, hit.at = now, hit.by = u
    PROVE  Admitted(Append(log, hit), log, u, now)
<1> USE DEF HasRoom, Admitted
<1> DEFINE longer == Append(log, hit)
           before == CountedBy(log, now, u)
           after == CountedBy(longer, now, u)
           new == Len(log) + 1
<1>1. PICK place \in [1..Len(kept) -> 1..Len(log)] : InWindow(place, kept, log, u, now)
    OBVIOUS
<1>2. Cardinality(before) = Len(kept)
    <2> DEFINE ats == {log[j].at : j \in before}
    <2>1. Counts(before, ats, log, u, now)
        BY DEF Counts, CountedBy
    <2> HIDE DEF before, ats
    <2> QED BY <1>1, <2>1, CountedAreKept
<1>3. /\ Len(log) \in Nat /\ DOMAIN longer = 1..new /\ longer[new] = hit
      /\ DOMAIN log = 1..Len(log) /\ \A i \in 1..Len(log) : longer[i] = log[i]
    OBVIOUS
<1> HIDE DEF longer
<1>4. /\ \A i \in DOMAIN longer : i \in DOMAIN log \/ i = new
      /\ \A i \in DOMAIN log : i \in DOMAIN longer
    BY <1>3
<1>5. after \subseteq before \cup {new}
    BY <1>3, <1>4 DEF CountedBy, Within
<1>6. IsFiniteSet(before)
    <2>1. before \in SUBSET Within(log, now)
        BY DEF CountedBy
    <2> HIDE DEF before
    <2> QED BY <2>1, WithinFinite
<1>7. ASSUME NEW l, l # u PROVE CountedBy(longer, now, l) = CountedBy(log, now, l)
    BY <1>3, <1>4, <1>7 DEF CountedBy, Within
<1> HIDE DEF before, after, new
<1>8. Cardinality(after) <= MaxRequests
    <2>1. /\ IsFiniteSet(before \cup {new})
          /\ Cardinality(before \cup {new}) = IF new \in before THEN Cardinality(before)
                                              ELSE Cardinality(before) + 1
        BY <1>6, FS_AddElement
    <2>2. after \in SUBSET (before \cup {new})
        BY <1>5
    <2>3. /\ IsFiniteSet(after) /\ Cardinality(after) <= Cardinality(before \cup {new})
        BY <2>1, <2>2, FS_Subset
    <2>4. Cardinality(after) \in Nat /\ MaxRequests \in Nat /\ Len(kept) \in Nat
        BY <2>3, FS_CardinalityType, RateWindowAssumption
    <2> QED BY <1>2, <2>1, <2>3, <2>4
<1> QED BY <1>7, <1>8 DEF after, longer

LEMMA CapInitInv == RWInit => CapInv
<1> SUFFICES ASSUME RWInit PROVE CapInv
    OBVIOUS
<1>1. /\ \A r \in Requests : rwUses[r] = 0
      /\ \A k \in Keys : rwAllowed[k] = <<>>
      /\ rwBuilt = 0 /\ rwNow = 0
    BY DEF RWInit
<1>2. \A t, l : CountedBy(<<>>, t, l) = {}
    BY DEF CountedBy, Within
<1>3. Cardinality({}) = 0 /\ MaxRequests \in Nat
    BY FS_EmptySet, RateWindowAssumption
<1>4. MaxRequests >= 0
    BY <1>3
<1>5. \A r \in Requests : rwUses[r] \in 0..rwBuilt
    BY <1>1
<1>6. \A k \in Keys : \A i \in 1..Len(rwAllowed[k]) : rwAllowed[k][i].by \in 1..rwBuilt
    BY <1>1
<1>7. \A k \in Keys, l \in Limiters : \A t \in 0..rwNow :
         Cardinality(CountedBy(rwAllowed[k], t, l)) <= MaxRequests
    BY <1>1, <1>2, <1>3, <1>4
<1> QED BY <1>5, <1>6, <1>7 DEF CapInv

\* Steps that let no request through.
LEMMA CapKeeps ==
    ASSUME LogInv, CapInv, rwNow' = rwNow \/ rwNow' = rwNow + 1, UNCHANGED rwAllowed,
           rwBuilt \in Nat, rwBuilt' \in Nat, rwBuilt <= rwBuilt',
           \A r \in Requests : rwUses'[r] \in 0..rwBuilt'
    PROVE  CapInv'
<1>1. ASSUME NEW k \in Keys, NEW l \in Limiters, NEW t \in 0..rwNow'
      PROVE  Cardinality(CountedBy(rwAllowed[k], t, l)) <= MaxRequests
    <2>1. /\ rwNow \in Nat /\ rwAllowed[k] \in Seq(Entry)
          /\ \A i \in 1..Len(rwAllowed[k]) : rwAllowed[k][i].at <= rwNow
        BY DEF LogInv
    <2>2. CASE t \in 0..rwNow
        BY <2>2 DEF CapInv
    <2>3. CASE t = rwNow + 1
        <3>1. \A i \in 1..Len(rwAllowed[k]) : rwAllowed[k][i].at \in Nat
            <4>1. \A i \in 1..Len(rwAllowed[k]) : rwAllowed[k][i] \in Entry
                BY <2>1
            <4> QED BY <4>1 DEF Entry
        <3>2. Within(rwAllowed[k], t) \subseteq Within(rwAllowed[k], rwNow)
            BY <2>1, <2>3, <3>1, WindowMovesOn
        <3>3. CountedBy(rwAllowed[k], t, l) \in SUBSET CountedBy(rwAllowed[k], rwNow, l)
            BY <3>2 DEF CountedBy
        <3>4. CountedBy(rwAllowed[k], rwNow, l) \in SUBSET Within(rwAllowed[k], rwNow)
            BY DEF CountedBy
        <3>5. IsFiniteSet(CountedBy(rwAllowed[k], rwNow, l))
            BY <2>1, <3>4, WithinFinite
        <3>6. /\ Cardinality(CountedBy(rwAllowed[k], t, l))
                   <= Cardinality(CountedBy(rwAllowed[k], rwNow, l))
              /\ Cardinality(CountedBy(rwAllowed[k], t, l)) \in Nat
              /\ Cardinality(CountedBy(rwAllowed[k], rwNow, l)) \in Nat
            BY <3>3, <3>5, FS_Subset, FS_CardinalityType
        <3>7. Cardinality(CountedBy(rwAllowed[k], rwNow, l)) <= MaxRequests /\ MaxRequests \in Nat
            <4>1. rwNow \in 0..rwNow
                BY <2>1
            <4> QED BY <4>1, RateWindowAssumption DEF CapInv
        <3> QED BY <3>6, <3>7
    <2> QED BY <2>1, <2>2, <2>3
<1>2. \A k \in Keys : \A i \in 1..Len(rwAllowed[k]) : rwAllowed[k][i].by \in 1..rwBuilt'
    BY DEF CapInv
<1> QED BY <1>1, <1>2 DEF CapInv
\* A check that lets its request through.
LEMMA CapCheck ==
    ASSUME RWInv, CapInv, NEW r \in Requests, NEW k \in Keys, RWCheck(r, k)
    PROVE  CapInv'
<1> DEFINE u == rwUses[r]
           kept == Evict(rwHits[u][k], rwNow)
           hit == [at |-> rwNow, by |-> u]
           log == rwAllowed[k]
           longer == Append(log, hit)
<1>1. /\ LogInv /\ u \in Limiters /\ rwNow \in Nat /\ rwNow' = rwNow
      /\ rwBuilt' = rwBuilt /\ rwBuilt \in Nat
      /\ rwUses' = [rwUses EXCEPT ![r] = 0] /\ rwUses \in [Requests -> {0} \cup Limiters]
    BY DEF RWInv, GetterInv, LogInv, RWCheck
<1>2. /\ log \in Seq(Entry) /\ InTimeOrder(log) /\ rwHits[u][k] \in Seq(Entry)
      /\ \A i \in 1..Len(log) : log[i].at <= rwNow
      /\ Recorded(rwHits[u][k], log, u, rwNow)
      /\ rwAllowed \in [Keys -> Seq(Entry)]
    BY <1>1 DEF LogInv
<1>3. /\ Len(kept) >= MaxRequests => rwAllowed' = rwAllowed
      /\ ~(Len(kept) >= MaxRequests) => rwAllowed' = [rwAllowed EXCEPT ![k] = longer]
    BY DEF RWCheck
<1>4. u \in 1..rwBuilt
    BY <1>1, LimiterNumbers DEF CapInv
<1>5. \A q \in Requests : rwUses'[q] \in 0..rwBuilt'
    BY <1>1 DEF CapInv
<1>6. CASE Len(kept) >= MaxRequests
    <2>1. rwAllowed' = rwAllowed
        BY <1>3, <1>6
    <2> QED BY <1>1, <1>5, <2>1, CapKeeps
<1>7. CASE ~(Len(kept) >= MaxRequests)
    <2>1. hit \in Entry /\ hit.at = rwNow /\ hit.by = u
        BY <1>1 DEF Entry
    <2> HIDE DEF u, hit
    <2>2. /\ kept \in Seq(Entry)
          /\ \E place \in [1..Len(kept) -> 1..Len(log)] : InWindow(place, kept, log, u, rwNow)
        <3>1. \A x : x = kept => /\ x \in Seq(Entry)
                                 /\ \E place \in [1..Len(x) -> 1..Len(log)] :
                                      InWindow(place, x, log, u, rwNow)
            BY <1>1, <1>2, EvictKeepsWindow DEF InWindow
        <3> HIDE DEF kept
        <3> QED BY <3>1
    <2>3. Len(kept) < MaxRequests
        <3>1. Len(kept) \in Nat /\ MaxRequests \in Nat
            BY <2>2, RateWindowAssumption
        <3> HIDE DEF kept
        <3> QED BY <1>7, <3>1
    <2>4. LogUpTo(log, rwNow)
        BY <1>2 DEF LogUpTo
    <2> HIDE DEF kept, log
    <2>5. /\ Cardinality(CountedBy(longer, rwNow, u)) <= MaxRequests
          /\ \A l : l # u => CountedBy(longer, rwNow, l) = CountedBy(log, rwNow, l)
        <3>1. kept \in Seq(Entry) /\ HasRoom(kept, log, u, rwNow)
            BY <2>2, <2>3 DEF HasRoom
        <3>2. log \in Seq(Entry) /\ LogUpTo(log, rwNow) /\ rwNow \in Nat
            BY <1>1, <1>2, <2>4
        <3>3. Admitted(longer, log, u, rwNow)
            BY <2>1, <3>1, <3>2, LetThroughCounts
        <3> QED BY <3>3 DEF Admitted
    <2>6. /\ \A m \in Keys : m # k => rwAllowed'[m] = rwAllowed[m]
          /\ rwAllowed'[k] = longer
        BY <1>2, <1>3, <1>7
    <2>7. \A i \in 1..Len(longer) : longer[i].by \in 1..rwBuilt
        <3>1. /\ Len(log) \in Nat /\ Len(longer) = Len(log) + 1 /\ longer[Len(log) + 1] = hit
              /\ \A i \in 1..Len(log) : longer[i] = log[i]
            BY <1>2, <2>1
        <3>2. \A i \in 1..Len(log) : log[i].by \in 1..rwBuilt
            BY DEF CapInv, log
        <3> HIDE DEF longer
        <3>3. \A i \in 1..Len(longer) : i \in 1..Len(log) \/ i = Len(log) + 1
            BY <3>1
        <3> QED BY <1>4, <2>1, <3>1, <3>2, <3>3
    <2>8. ASSUME NEW l \in Limiters, NEW t \in 0..rwNow
          PROVE  Cardinality(CountedBy(longer, t, l)) <= MaxRequests
        <3>1. Cardinality(CountedBy(log, t, l)) <= MaxRequests
            BY <2>8 DEF CapInv, log
        <3>2. CASE t < rwNow
            <4>1. Within(longer, t) = Within(log, t)
                BY <1>1, <1>2, <2>1, <3>2, OldWindowsKeep
            <4>2. \A j \in Within(log, t) : longer[j] = log[j]
                <5>1. Within(log, t) \in SUBSET (1..Len(log))
                    BY <1>2, WithinFinite
                <5>2. \A j \in 1..Len(log) : longer[j] = log[j]
                    BY <1>2, <2>1
                <5> QED BY <5>1, <5>2
            <4>3. CountedBy(longer, t, l) = CountedBy(log, t, l)
                BY <4>1, <4>2 DEF CountedBy
            <4> QED BY <3>1, <4>3
        <3>3. CASE t = rwNow
            BY <2>5, <3>1, <3>3
        <3> QED BY <1>1, <3>2, <3>3
    <2> HIDE DEF longer
    <2>9. ASSUME NEW m \in Keys, NEW l \in Limiters, NEW t \in 0..rwNow
          PROVE  Cardinality(CountedBy(rwAllowed'[m], t, l)) <= MaxRequests
        <3>1. CASE m = k
            BY <2>6, <2>8, <3>1
        <3>2. CASE m # k
            BY <2>6, <3>2 DEF CapInv
        <3> QED BY <3>1, <3>2
    <2>10. ASSUME NEW m \in Keys, NEW i \in 1..Len(rwAllowed'[m])
           PROVE  rwAllowed'[m][i].by \in 1..rwBuilt
        <3>1. CASE m = k
            BY <2>6, <2>7, <3>1
        <3>2. CASE m # k
            BY <2>6, <3>2 DEF CapInv
        <3> QED BY <3>1, <3>2
    <2> QED BY <1>1, <1>5, <2>9, <2>10 DEF CapInv
<1> QED BY <1>6, <1>7

LEMMA CapStep ==
    ASSUME RWInv, CapInv, [RWNext]_rwVars
    PROVE  CapInv'
<1>1. /\ LogInv /\ rwBuilt \in Nat /\ rwLimiter = rwBuilt
      /\ rwUses \in [Requests -> {0} \cup Limiters]
      /\ \A q \in Requests : rwUses[q] \in 0..rwBuilt
    BY DEF RWInv, GetterInv, CapInv
<1>2. ASSUME UNCHANGED rwLimiters, rwNow' = rwNow \/ rwNow' = rwNow + 1
      PROVE  CapInv'
    <2>1. UNCHANGED <<rwBuilt, rwUses, rwAllowed>> /\ rwBuilt <= rwBuilt
        BY <1>1, <1>2 DEF rwLimiters
    <2> QED BY <1>1, <1>2, <2>1, CapKeeps
<1>3. CASE RWTick
    BY <1>2, <1>3 DEF RWTick
<1>4. ASSUME NEW bytes \in FrameBytes, RWFrame(bytes) PROVE CapInv'
    BY <1>2, <1>4 DEF RWFrame
<1>5. CASE UNCHANGED rwVars
    BY <1>2, <1>5 DEF rwVars
<1>6. ASSUME NEW r \in Requests, RWAsk(r) \/ RWBuild(r) \/ RWReturn(r) PROVE CapInv'
    <2>1. /\ rwNow' = rwNow /\ rwAllowed' = rwAllowed
          /\ rwBuilt' = rwBuilt \/ rwBuilt' = rwBuilt + 1
          /\ rwUses' = rwUses \/ rwUses' = [rwUses EXCEPT ![r] = rwLimiter]
        BY <1>6 DEF RWAsk, RWBuild, RWReturn
    <2>2. rwBuilt' \in Nat /\ rwBuilt <= rwBuilt'
        BY <1>1, <2>1
    <2>3. \A q \in Requests : rwUses'[q] \in 0..rwBuilt'
        <3>1. \A q \in Requests : rwUses'[q] \in 0..rwBuilt
            BY <1>1, <2>1
        <3> QED BY <1>1, <2>2, <3>1
    <2> QED BY <1>1, <2>1, <2>2, <2>3, CapKeeps
<1>7. ASSUME NEW r \in Requests, NEW k \in Keys, RWCheck(r, k) PROVE CapInv'
    BY <1>7, CapCheck
<1> QED BY <1>3, <1>4, <1>5, <1>6, <1>7 DEF RWNext, RequestsNext, AudioNext

\* The limits of all limiters together.
LEMMA RequestsCapped ==
    ASSUME RWInv, CapInv, NEW t \in 0..rwNow, NEW k \in Keys
    PROVE  Cardinality(Within(rwAllowed[k], t)) <= MaxRequests * rwBuilt
<1> DEFINE log == rwAllowed[k]
           W == Within(log, t)
           class == [j \in W |-> log[j].by]
<1>1. log \in Seq(Entry) /\ rwBuilt \in Nat /\ MaxRequests \in Nat
      /\ rwBuilt <= Cardinality(Requests)
    BY LimiterNumbers, RateWindowAssumption DEF RWInv, LogInv, GetterInv
<1>2. W \in SUBSET (1..Len(log)) /\ IsFiniteSet(W)
    BY <1>1, WithinFinite
<1>3. class \in [W -> 1..rwBuilt]
    <2>1. \A i \in 1..Len(log) : log[i].by \in 1..rwBuilt
        BY DEF CapInv
    <2> HIDE DEF W, log
    <2> QED BY <1>2, <2>1
<1>4. ASSUME NEW l \in 1..rwBuilt
      PROVE  Cardinality({j \in W : class[j] = l}) <= MaxRequests
    <2>1. l \in Limiters
        BY <1>1, LimiterNumbers
    <2>2. {j \in W : class[j] = l} = CountedBy(log, t, l)
        BY DEF CountedBy
    <2> QED BY <2>1, <2>2 DEF CapInv
<1> HIDE DEF W, class, log
<1>5. Cardinality(W) <= MaxRequests * rwBuilt
    BY <1>1, <1>2, <1>3, <1>4, ClassesBound
<1> QED BY <1>5 DEF W, log
-----------------------------------------------------------------------------
(* The cap of a window: audio.                                             *)

Frame == [at : Nat, size : 1..MaxBytes]

\* The frames held are the log without its first n, which are too old.
HeldFrom(frames, log, n, now) ==
    /\ Len(frames) = Len(log) - n
    /\ \A i \in 1..Len(frames) : frames[i] = log[n + i]
    /\ \A i \in 1..n : log[i].at <= now - Window

AudioInv ==
    /\ rwNow \in Nat
    /\ rwFrames \in Seq(Frame) /\ rwHeard \in Seq(Frame)
    /\ \A i \in 1..Len(rwHeard) : rwHeard[i].at <= rwNow
    /\ \E n \in 0..Len(rwHeard) : HeldFrom(rwFrames, rwHeard, n, rwNow)
    /\ Weigh(rwFrames) <= MaxBytes
    /\ \A t \in 0..rwNow : Cardinality(BytesOf(rwHeard, Within(rwHeard, t))) <= MaxBytes

LEMMA BytesFinite ==
    ASSUME NEW log \in Seq(Frame), NEW places \in SUBSET (1..Len(log))
    PROVE  /\ IsFiniteSet(BytesOf(log, places)) /\ Cardinality(BytesOf(log, places)) \in Nat
           /\ \A p \in BytesOf(log, places) :
                /\ p = <<p[1], p[2]>> /\ p[1] \in places /\ p[2] \in 1..log[p[1]].size
           /\ \A i \in places : \A b \in 1..log[i].size : <<i, b>> \in BytesOf(log, places)
<1>1. \A i \in 1..Len(log) : log[i].size \in 1..MaxBytes
    <2>1. \A i \in 1..Len(log) : log[i] \in Frame
        OBVIOUS
    <2> QED BY <2>1 DEF Frame
<1>2. Len(log) \in Nat /\ MaxBytes \in Nat
    BY RateWindowAssumption
<1>3. /\ \A p \in BytesOf(log, places) :
           /\ p = <<p[1], p[2]>> /\ p[1] \in places /\ p[2] \in 1..log[p[1]].size
      /\ \A i \in places : \A b \in 1..log[i].size : <<i, b>> \in BytesOf(log, places)
    BY DEF BytesOf
<1>4. BytesOf(log, places) \in SUBSET ((1..Len(log)) \X (1..MaxBytes))
    <2> SUFFICES ASSUME NEW p \in BytesOf(log, places)
                 PROVE  p \in (1..Len(log)) \X (1..MaxBytes)
        OBVIOUS
    <2>1. p = <<p[1], p[2]>> /\ p[1] \in 1..Len(log) /\ p[2] \in 1..log[p[1]].size
        BY <1>3
    <2>2. p[2] \in 1..MaxBytes
        BY <1>1, <1>2, <2>1
    <2> QED BY <2>1, <2>2
<1>5. IsFiniteSet((1..Len(log)) \X (1..MaxBytes))
    <2>1. \A m \in Nat : IsFiniteSet(1..m)
        BY FS_Interval
    <2> QED BY <1>2, <2>1, FS_Product
<1>6. IsFiniteSet(BytesOf(log, places)) /\ Cardinality(BytesOf(log, places)) \in Nat
    BY <1>4, <1>5, FS_Subset, FS_CardinalityType
<1> QED BY <1>3, <1>6

\* Entries that stand at other places of another log weigh no more there.
LEMMA MovedBytes ==
    ASSUME NEW log \in Seq(Frame), NEW other \in Seq(Frame), NEW d \in Int,
           NEW P \in SUBSET (1..Len(log)), NEW Q \in SUBSET (1..Len(other)),
           \A i \in P : i + d \in Q /\ other[i + d] = log[i]
    PROVE  Cardinality(BytesOf(log, P)) <= Cardinality(BytesOf(other, Q))
<1> DEFINE B == BytesOf(log, P)
           H == BytesOf(other, Q)
           g == [p \in B |-> <<p[1] + d, p[2]>>]
<1>1. /\ \A p \in B : p = <<p[1], p[2]>> /\ p[1] \in P /\ p[2] \in 1..log[p[1]].size
      /\ IsFiniteSet(H)
      /\ \A i \in Q : \A b \in 1..other[i].size : <<i, b>> \in H
    BY BytesFinite
<1>2. \A a, b \in P : a + d = b + d => a = b
    OBVIOUS
<1> HIDE DEF B, H
<1>3. \A p \in B : <<p[1] + d, p[2]>> \in H
    BY <1>1
<1>4. g \in Injection(B, H)
    <2>1. g \in [B -> H] /\ DOMAIN g = B
        BY <1>3
    <2>2. ASSUME NEW p \in B, NEW q \in B, g[p] = g[q] PROVE p = q
        <3>1. p[1] + d = q[1] + d /\ p[2] = q[2]
            BY <2>2
        <3>2. p[1] = q[1]
            BY <1>1, <1>2, <3>1
        <3>3. p = <<p[1], p[2]>> /\ q = <<q[1], q[2]>>
            BY <1>1
        <3> QED BY <3>2, <3>1, <3>3
    <2> QED BY <2>1, <2>2 DEF Injection, IsInjective
<1>5. Cardinality(B) <= Cardinality(H)
    BY <1>1, <1>4, FS_Injection
<1> QED BY <1>5 DEF B, H

\* No bytes inside the window but those of the frames held.
LEMMA HeldWeighsAll ==
    ASSUME NEW log \in Seq(Frame), NEW frames \in Seq(Frame), NEW now \in Nat,
           NEW n \in 0..Len(log), HeldFrom(frames, log, n, now)
    PROVE  Cardinality(BytesOf(log, Within(log, now))) <= Weigh(frames)
<1>1. /\ Len(log) \in Nat /\ n \in Nat /\ Len(frames) = Len(log) - n /\ Window \in Nat
      /\ \A i \in 1..Len(frames) : frames[i] = log[n + i]
      /\ \A i \in 1..n : log[i].at <= now - Window
      /\ DOMAIN frames = 1..Len(frames) /\ DOMAIN log = 1..Len(log)
      /\ \A i \in 1..Len(log) : log[i].at \in Nat
    <2>1. \A i \in 1..Len(log) : log[i] \in Frame
        OBVIOUS
    <2>2. \A i \in 1..Len(log) : log[i].at \in Nat
        BY <2>1 DEF Frame
    <2>3. /\ Len(frames) = Len(log) - n
          /\ \A i \in 1..Len(frames) : frames[i] = log[n + i]
          /\ \A i \in 1..n : log[i].at <= now - Window
        BY DEF HeldFrom
    <2>4. Len(log) \in Nat /\ n \in Nat /\ DOMAIN frames = 1..Len(frames) /\ DOMAIN log = 1..Len(log)
        OBVIOUS
    <2> QED BY <2>2, <2>3, <2>4, RateWindowAssumption
<1> DEFINE d == -n
           W == Within(log, now)
<1>2. W \in SUBSET (1..Len(log)) /\ DOMAIN frames \in SUBSET (1..Len(frames)) /\ d \in Int
    BY <1>1, WithinFinite
<1>3. ASSUME NEW i \in W PROVE i + d \in DOMAIN frames /\ frames[i + d] = log[i]
    <2>1. i \in 1..Len(log) /\ now - Window < log[i].at
        BY <1>1 DEF Within
    <2>2. ~(log[i].at <= now - Window)
        BY <1>1, <2>1
    <2>3. i + d \in 1..Len(frames) /\ n + (i + d) = i
        BY <1>1, <2>1, <2>2
    <2> QED BY <1>1, <2>3
<1> HIDE DEF d, W
<1>4. Cardinality(BytesOf(log, W)) <= Cardinality(BytesOf(frames, DOMAIN frames))
    BY <1>2, <1>3, MovedBytes
<1> QED BY <1>4 DEF W, Weigh

\* A frame adds its size at most.
LEMMA AppendWeighs ==
    ASSUME NEW frames \in Seq(Frame), NEW frame \in Frame
    PROVE  Weigh(Append(frames, frame)) <= Weigh(frames) + frame.size
<1> DEFINE longer == Append(frames, frame)
           new == Len(frames) + 1
           H == BytesOf(frames, DOMAIN frames)
           more == {new} \X (1..frame.size)
           all == BytesOf(longer, DOMAIN longer)
<1>1. /\ Len(frames) \in Nat /\ DOMAIN longer = 1..new /\ longer[new] = frame
      /\ DOMAIN frames = 1..Len(frames) /\ \A i \in 1..Len(frames) : longer[i] = frames[i]
      /\ longer \in Seq(Frame) /\ Len(longer) = new
    OBVIOUS
<1>2. frame.size \in Nat
    BY DEF Frame
<1>3. IsFiniteSet(more) /\ Cardinality(more) = frame.size
    <2>1. IsFiniteSet({new}) /\ Cardinality({new}) = 1
        BY FS_Singleton
    <2>2. IsFiniteSet(1..frame.size) /\ Cardinality(1..frame.size) = frame.size
        <3>1. ASSUME NEW m \in Nat PROVE IsFiniteSet(1..m) /\ Cardinality(1..m) = m
            <4>1. /\ IsFiniteSet(1..m)
                  /\ Cardinality(1..m) = IF 1 > m THEN 0 ELSE m - 1 + 1
                BY FS_Interval
            <4> QED BY <4>1
        <3> QED BY <1>2, <3>1
    <2>3. IsFiniteSet(more) /\ Cardinality(more) = 1 * frame.size
        BY <2>1, <2>2, FS_Product
    <2> QED BY <1>2, <2>3
<1>4. IsFiniteSet(H) /\ Cardinality(H) \in Nat
    <2>1. DOMAIN frames \in SUBSET (1..Len(frames))
        BY <1>1
    <2> QED BY <2>1, BytesFinite
<1> HIDE DEF longer
<1>5. all \in SUBSET (H \cup more)
    <2> SUFFICES ASSUME NEW p \in all PROVE p \in H \cup more
        OBVIOUS
    <2>1. p = <<p[1], p[2]>> /\ p[1] \in DOMAIN longer /\ p[2] \in 1..longer[p[1]].size
        <3>1. DOMAIN longer \in SUBSET (1..Len(longer))
            BY <1>1
        <3> QED BY <1>1, <3>1, BytesFinite
    <2>2. p[1] \in 1..Len(frames) \/ p[1] = new
        BY <1>1, <2>1
    <2>3. CASE p[1] \in 1..Len(frames)
        <3>1. p[2] \in 1..frames[p[1]].size /\ p[1] \in DOMAIN frames
            BY <1>1, <2>1, <2>3
        <3>2. DOMAIN frames \in SUBSET (1..Len(frames))
            BY <1>1
        <3>3. <<p[1], p[2]>> \in H
            BY <3>1, <3>2, BytesFinite
        <3> QED BY <2>1, <3>3
    <2>4. CASE p[1] = new
        BY <1>1, <2>1, <2>4
    <2> QED BY <2>2, <2>3, <2>4
<1> HIDE DEF H, more, all
<1>6. /\ IsFiniteSet(H \cup more) /\ Cardinality(H \cap more) \in Nat
      /\ Cardinality(H \cup more) = Cardinality(H) + Cardinality(more) - Cardinality(H \cap more)
    <2>1. H \cap more \in SUBSET H
        OBVIOUS
    <2> QED BY <1>3, <1>4, <2>1, FS_Union, FS_Subset, FS_CardinalityType
<1>7. Cardinality(all) <= Cardinality(H \cup more) /\ Cardinality(all) \in Nat
    BY <1>5, <1>6, FS_Subset, FS_CardinalityType
<1>8. Cardinality(all) <= Cardinality(H) + frame.size
    BY <1>2, <1>3, <1>4, <1>6, <1>7
<1> QED BY <1>8 DEF all, H, longer, Weigh

\* Eviction lightens the window.
LEMMA EvictLightens ==
    ASSUME NEW log \in Seq(Frame), NEW frames \in Seq(Frame), NEW now \in Nat,
           NEW n \in 0..Len(log), HeldFrom(frames, log, n, now),
           NEW kept, kept = Evict(frames, now)
    PROVE  /\ kept \in Seq(Frame) /\ \E m \in 0..Len(log) : HeldFrom(kept, log, m, now)
           /\ Weigh(kept) <= Weigh(frames)
<1>0. kept = Evict(frames, now)
    OBVIOUS
<1>1. PICK d \in 0..Len(frames) :
        /\ kept \in Seq(Frame) /\ Len(kept) = Len(frames) - d
        /\ \A i \in 1..(Len(frames) - d) : kept[i] = frames[d + i]
        /\ \A i \in 1..d : frames[i].at <= now - Window
    <2>1. kept \in Seq(Frame) /\ \E d \in 0..Len(frames) : Leaves(kept, frames, d, now)
        BY <1>0, EvictShape
    <2> QED BY <2>1 DEF Leaves
<1>2. /\ Len(log) \in Nat /\ Len(frames) = Len(log) - n /\ n \in Nat /\ d \in Nat
      /\ Len(frames) \in Nat
      /\ \A i \in 1..Len(frames) : frames[i] = log[n + i]
      /\ \A i \in 1..n : log[i].at <= now - Window
    <2>1. /\ Len(frames) = Len(log) - n
          /\ \A i \in 1..Len(frames) : frames[i] = log[n + i]
          /\ \A i \in 1..n : log[i].at <= now - Window
        BY DEF HeldFrom
    <2>2. Len(log) \in Nat /\ Len(frames) \in Nat /\ n \in Nat /\ d \in Nat
        OBVIOUS
    <2> QED BY <2>1, <2>2
<1>3. n + d \in 0..Len(log) /\ Len(kept) = Len(log) - (n + d)
    BY <1>1, <1>2
<1>4. ASSUME NEW i \in 1..Len(kept) PROVE kept[i] = log[(n + d) + i]
    <2>1. d + i \in 1..Len(frames) /\ n + (d + i) = (n + d) + i /\ i \in 1..(Len(frames) - d)
        BY <1>1, <1>2
    <2> QED BY <1>1, <1>2, <2>1
<1>5. ASSUME NEW i \in 1..(n + d) PROVE log[i].at <= now - Window
    <2>1. CASE i <= n
        <3>1. i \in 1..n
            BY <1>2, <2>1
        <3> QED BY <1>2, <3>1
    <2>2. CASE ~(i <= n)
        <3>1. i - n \in 1..d /\ i - n \in 1..Len(frames) /\ n + (i - n) = i
            BY <1>1, <1>2, <2>2
        <3> QED BY <1>1, <1>2, <3>1
    <2> QED BY <2>1, <2>2
<1>6. Weigh(kept) <= Weigh(frames)
    <2>1. /\ DOMAIN kept = 1..Len(kept) /\ DOMAIN frames = 1..Len(frames) /\ d \in Int
          /\ kept \in Seq(Frame)
        BY <1>1
    <2>2. \A i \in 1..Len(kept) : i + d \in 1..Len(frames) /\ frames[i + d] = kept[i]
        <3>1. \A i \in 1..Len(kept) : i + d \in 1..Len(frames) /\ i + d = d + i
            BY <1>1, <1>2
        <3> QED BY <1>1, <3>1
    <2>3. DOMAIN kept \in SUBSET (1..Len(kept)) /\ DOMAIN frames \in SUBSET (1..Len(frames))
        BY <2>1
    <2>4. Cardinality(BytesOf(kept, DOMAIN kept)) <= Cardinality(BytesOf(frames, DOMAIN frames))
        BY <2>1, <2>2, <2>3, MovedBytes
    <2> QED BY <2>4 DEF Weigh
<1> QED BY <1>1, <1>3, <1>4, <1>5, <1>6 DEF HeldFrom

LEMMA AudioInitInv == RWInit => AudioInv
<1> SUFFICES ASSUME RWInit PROVE AudioInv
    OBVIOUS
<1>1. rwNow = 0 /\ rwFrames = <<>> /\ rwHeard = <<>>
    BY DEF RWInit
<1>2. <<>> \in Seq(Frame) /\ Len(<<>>) = 0
    OBVIOUS
<1>3. HeldFrom(<<>>, <<>>, 0, 0)
    BY DEF HeldFrom
<1>4. \A t : BytesOf(<<>>, Within(<<>>, t)) = {}
    BY DEF BytesOf, Within
<1>5. BytesOf(<<>>, DOMAIN <<>>) = {}
    BY DEF BytesOf
<1>6. Cardinality({}) = 0 /\ MaxBytes \in Nat
    BY FS_EmptySet, RateWindowAssumption
<1>7. Weigh(<<>>) <= MaxBytes
    <2>1. \A e : e = <<>> => Weigh(e) = Cardinality({})
        BY <1>5 DEF Weigh
    <2>2. Weigh(<<>>) = 0
        BY <1>6, <2>1
    <2> QED BY <1>6, <2>2
<1> QED BY <1>1, <1>2, <1>3, <1>4, <1>6, <1>7 DEF AudioInv

\* Steps that leave the frames alone.
LEMMA AudioKeeps ==
    ASSUME AudioInv, rwNow' = rwNow \/ rwNow' = rwNow + 1, UNCHANGED rwAudio
    PROVE  AudioInv'
<1> DEFINE now == rwNow'
<1>1. /\ rwNow \in Nat /\ now \in Nat /\ rwNow <= now
      /\ rwFrames \in Seq(Frame) /\ rwHeard \in Seq(Frame)
      /\ \A i \in 1..Len(rwHeard) : rwHeard[i].at <= rwNow
      /\ \E n \in 0..Len(rwHeard) : HeldFrom(rwFrames, rwHeard, n, rwNow)
      /\ Weigh(rwFrames) <= MaxBytes
      /\ rwFrames' = rwFrames /\ rwHeard' = rwHeard
    BY DEF AudioInv, rwAudio
<1>2. Window \in Nat /\ \A i \in 1..Len(rwHeard) : rwHeard[i].at \in Nat
    <2>1. \A i \in 1..Len(rwHeard) : rwHeard[i] \in Frame
        BY <1>1
    <2> QED BY <2>1, RateWindowAssumption DEF Frame
<1>3. PICK n \in 0..Len(rwHeard) : HeldFrom(rwFrames, rwHeard, n, rwNow)
    BY <1>1
<1>4. now = rwNow \/ now = rwNow + 1
    OBVIOUS
<1> HIDE DEF now
<1>5. HeldFrom(rwFrames, rwHeard, n, now)
    <2>1. ASSUME NEW i \in 1..n PROVE rwHeard[i].at <= now - Window
        <3>1. rwHeard[i].at <= rwNow - Window /\ rwHeard[i].at \in Nat
            BY <1>1, <1>2, <1>3 DEF HeldFrom
        <3> QED BY <1>1, <1>2, <3>1
    <2> QED BY <1>3, <2>1 DEF HeldFrom
<1>6. ASSUME NEW t \in 0..now
      PROVE  Cardinality(BytesOf(rwHeard, Within(rwHeard, t))) <= MaxBytes
    <2>1. CASE t \in 0..rwNow
        BY <2>1 DEF AudioInv
    <2>2. CASE t = now
        <3>1. Cardinality(BytesOf(rwHeard, Within(rwHeard, now))) <= Weigh(rwFrames)
            BY <1>1, <1>3, <1>5, HeldWeighsAll
        <3>2. /\ Cardinality(BytesOf(rwHeard, Within(rwHeard, now))) \in Nat
              /\ Weigh(rwFrames) \in Nat /\ MaxBytes \in Nat
            <4>1. /\ Within(rwHeard, now) \in SUBSET (1..Len(rwHeard))
                  /\ DOMAIN rwFrames \in SUBSET (1..Len(rwFrames))
                BY <1>1, WithinFinite
            <4> QED BY <1>1, <4>1, BytesFinite, RateWindowAssumption DEF Weigh
        <3> QED BY <1>1, <2>2, <3>1, <3>2
    <2> QED BY <1>1, <1>4, <2>1, <2>2
<1>7. \A i \in 1..Len(rwHeard) : rwHeard[i].at <= now
    BY <1>1, <1>2
<1> QED BY <1>1, <1>3, <1>5, <1>6, <1>7 DEF AudioInv, now
\* A frame: it is let through when it fits what the window holds.
LEMMA AudioFrame ==
    ASSUME AudioInv, NEW bytes \in FrameBytes, RWFrame(bytes)
    PROVE  AudioInv'
<1> DEFINE kept == Evict(rwFrames, rwNow)
           frame == [at |-> rwNow, size |-> bytes]
           longer == Append(kept, frame)
           log == Append(rwHeard, frame)
<1>1. /\ rwNow \in Nat /\ rwNow' = rwNow /\ bytes \in Nat \ {0} /\ MaxBytes \in Nat
      /\ rwFrames \in Seq(Frame) /\ rwHeard \in Seq(Frame)
      /\ \A i \in 1..Len(rwHeard) : rwHeard[i].at <= rwNow
      /\ \E n \in 0..Len(rwHeard) : HeldFrom(rwFrames, rwHeard, n, rwNow)
      /\ Weigh(rwFrames) <= MaxBytes
      /\ \A t \in 0..rwNow : Cardinality(BytesOf(rwHeard, Within(rwHeard, t))) <= MaxBytes
    BY RateWindowAssumption DEF AudioInv, RWFrame
<1>2. /\ Weigh(kept) + bytes > MaxBytes => rwFrames' = kept /\ rwHeard' = rwHeard
      /\ ~(Weigh(kept) + bytes > MaxBytes) => rwFrames' = longer /\ rwHeard' = log
    BY DEF RWFrame
<1>3. /\ kept \in Seq(Frame) /\ Weigh(kept) <= Weigh(rwFrames)
      /\ \E n \in 0..Len(rwHeard) : HeldFrom(kept, rwHeard, n, rwNow)
    <2>1. \A x : x = kept => /\ x \in Seq(Frame) /\ Weigh(x) <= Weigh(rwFrames)
                             /\ \E n \in 0..Len(rwHeard) : HeldFrom(x, rwHeard, n, rwNow)
        BY <1>1, EvictLightens
    <2> HIDE DEF kept
    <2> QED BY <2>1
<1> HIDE DEF kept
<1>4. \A s : s \in Seq(Frame) => Weigh(s) \in Nat
    <2> SUFFICES ASSUME NEW s \in Seq(Frame) PROVE Weigh(s) \in Nat
        OBVIOUS
    <2>1. DOMAIN s \in SUBSET (1..Len(s))
        OBVIOUS
    <2> QED BY <2>1, BytesFinite DEF Weigh
<1>5. Weigh(kept) \in Nat /\ Weigh(rwFrames) \in Nat /\ Weigh(kept) <= MaxBytes
    <2>1. Weigh(kept) \in Nat /\ Weigh(rwFrames) \in Nat
        BY <1>1, <1>3, <1>4
    <2> QED BY <1>1, <1>3, <2>1
<1>6. CASE Weigh(kept) + bytes > MaxBytes
    <2>1. rwFrames' = kept /\ rwHeard' = rwHeard
        BY <1>2, <1>6
    <2> QED BY <1>1, <1>3, <1>5, <2>1 DEF AudioInv
<1>7. CASE ~(Weigh(kept) + bytes > MaxBytes)
    <2>1. rwFrames' = longer /\ rwHeard' = log
        BY <1>2, <1>7
    <2>2. bytes \in 1..MaxBytes /\ Weigh(kept) + bytes <= MaxBytes
        BY <1>1, <1>5, <1>7
    <2>3. frame \in Frame /\ frame.at = rwNow /\ frame.size = bytes
        BY <1>1, <2>2 DEF Frame
    <2> HIDE DEF frame
    <2>4. PICK n \in 0..Len(rwHeard) : HeldFrom(kept, rwHeard, n, rwNow)
        BY <1>3
    <2>5. /\ Len(rwHeard) \in Nat /\ log \in Seq(Frame) /\ Len(log) = Len(rwHeard) + 1
          /\ log[Len(rwHeard) + 1] = frame /\ \A i \in 1..Len(rwHeard) : log[i] = rwHeard[i]
        BY <1>1, <2>3
    <2>6. /\ Len(kept) \in Nat /\ longer \in Seq(Frame) /\ Len(longer) = Len(kept) + 1
          /\ longer[Len(kept) + 1] = frame /\ \A i \in 1..Len(kept) : longer[i] = kept[i]
        BY <1>3, <2>3
    <2>7. /\ Weigh(longer) <= MaxBytes /\ Weigh(longer) \in Nat
        <3>1. Weigh(longer) <= Weigh(kept) + frame.size
            BY <1>3, <2>3, AppendWeighs
        <3>2. Weigh(longer) \in Nat
            BY <1>4, <2>6
        <3> HIDE DEF longer
        <3> QED BY <1>1, <1>5, <2>2, <2>3, <3>1, <3>2
    <2> HIDE DEF longer, log
    <2>8. n \in 0..Len(log) /\ HeldFrom(longer, log, n, rwNow)
        <3>1. /\ Len(kept) = Len(rwHeard) - n
              /\ \A i \in 1..Len(kept) : kept[i] = rwHeard[n + i]
              /\ \A i \in 1..n : rwHeard[i].at <= rwNow - Window
            BY <2>4 DEF HeldFrom
        <3>2. n \in 0..Len(log) /\ Len(longer) = Len(log) - n
            BY <2>5, <2>6, <3>1
        <3>3. ASSUME NEW i \in 1..Len(longer) PROVE longer[i] = log[n + i]
            <4>1. CASE i = Len(kept) + 1
                <5>1. n + i = Len(rwHeard) + 1
                    BY <2>5, <2>6, <3>1, <4>1
                <5> QED BY <2>5, <2>6, <4>1, <5>1
            <4>2. CASE i # Len(kept) + 1
                <5>1. i \in 1..Len(kept) /\ n + i \in 1..Len(rwHeard)
                    BY <2>5, <2>6, <3>1, <4>2
                <5> QED BY <2>5, <2>6, <3>1, <5>1
            <4> QED BY <4>1, <4>2
        <3>4. ASSUME NEW i \in 1..n PROVE log[i].at <= rwNow - Window
            <4>1. i \in 1..Len(rwHeard)
                BY <2>5
            <4> QED BY <2>5, <3>1, <4>1
        <3> QED BY <3>2, <3>3, <3>4 DEF HeldFrom
    <2>9. \A i \in 1..Len(log) : log[i].at <= rwNow
        <3>1. \A i \in 1..Len(log) : i \in 1..Len(rwHeard) \/ i = Len(rwHeard) + 1
            BY <2>5
        <3> QED BY <1>1, <2>3, <2>5, <3>1
    <2>10. ASSUME NEW t \in 0..rwNow
           PROVE  Cardinality(BytesOf(log, Within(log, t))) <= MaxBytes
        <3>1. CASE t < rwNow
            <4>1. Within(log, t) = Within(rwHeard, t)
                BY <1>1, <2>3, <3>1, OldWindowsKeep DEF log
            <4>2. Within(rwHeard, t) \in SUBSET (1..Len(rwHeard))
                BY <1>1, WithinFinite
            <4>3. BytesOf(log, Within(log, t)) = BytesOf(rwHeard, Within(rwHeard, t))
                <5>1. \A i \in Within(rwHeard, t) : log[i] = rwHeard[i]
                    BY <2>5, <4>2
                <5> QED BY <4>1, <5>1 DEF BytesOf
            <4> QED BY <1>1, <4>3
        <3>2. CASE t = rwNow
            <4>1. Cardinality(BytesOf(log, Within(log, rwNow))) <= Weigh(longer)
                BY <1>1, <2>5, <2>6, <2>8, HeldWeighsAll
            <4>2. Cardinality(BytesOf(log, Within(log, rwNow))) \in Nat
                <5>1. Within(log, rwNow) \in SUBSET (1..Len(log))
                    BY <2>5, WithinFinite
                <5> QED BY <2>5, <5>1, BytesFinite
            <4> QED BY <1>1, <2>7, <3>2, <4>1, <4>2
        <3> QED BY <1>1, <3>1, <3>2
    <2> QED BY <1>1, <2>1, <2>5, <2>6, <2>7, <2>8, <2>9, <2>10 DEF AudioInv
<1> QED BY <1>6, <1>7

LEMMA AudioStepInv == AudioInv /\ [RWNext]_rwVars => AudioInv'
<1> SUFFICES ASSUME AudioInv, [RWNext]_rwVars PROVE AudioInv'
    OBVIOUS
<1>1. ASSUME NEW r \in Requests, RWAsk(r) \/ RWBuild(r) \/ RWReturn(r) PROVE AudioInv'
    BY <1>1, AudioKeeps DEF RWAsk, RWBuild, RWReturn
<1>2. ASSUME NEW r \in Requests, NEW k \in Keys, RWCheck(r, k) PROVE AudioInv'
    BY <1>2, AudioKeeps DEF RWCheck
<1>3. CASE RWTick
    BY <1>3, AudioKeeps DEF RWTick
<1>4. ASSUME NEW bytes \in FrameBytes, RWFrame(bytes) PROVE AudioInv'
    BY <1>4, AudioFrame
<1>5. CASE UNCHANGED rwVars
    BY <1>5, AudioKeeps DEF rwVars
<1> QED BY <1>1, <1>2, <1>3, <1>4, <1>5 DEF RWNext, RequestsNext, AudioNext

\* In no window of time are more requests of a key let through than each
\* limiter built allows, nor more audio than the cap: for every limit, window,
\* size of frames and number of limiters that were built at once.
THEOREM WindowsAreCapped == RWSpec => []WindowCap
<1> DEFINE Inv == RWInv /\ CapInv /\ AudioInv
<1>1. RWInit => Inv
    BY WindowsInitInv, CapInitInv, AudioInitInv
<1>2. Inv /\ [RWNext]_rwVars => Inv'
    BY RWStepInv, CapStep, AudioStepInv
<1>3. Inv => WindowCap
    BY RequestsCapped DEF AudioInv, WindowCap
<1> QED BY <1>1, <1>2, <1>3, PTL DEF RWSpec

ClockInv == rwNow \in 0..MaxTime

LEMMA ClockInit == RWInit => ClockInv
BY RateWindowAssumption DEF RWInit, ClockInv

LEMMA ClockStep == ClockInv /\ [RWNext]_rwVars => ClockInv'
<1> SUFFICES ASSUME ClockInv, [RWNext]_rwVars PROVE ClockInv'
    OBVIOUS
<1>1. rwNow' = rwNow \/ (rwNow < MaxTime /\ rwNow' = rwNow + 1)
    BY DEF RWNext, RequestsNext, AudioNext, RWTick, RWAsk, RWBuild, RWReturn, RWCheck,
           RWFrame, rwVars
<1> QED BY <1>1, RateWindowAssumption DEF ClockInv

LEMMA LimitersTyped == RWInv /\ AudioInv /\ ClockInv => RWTypeOK
<1> SUFFICES ASSUME RWInv, AudioInv, ClockInv PROVE RWTypeOK
    OBVIOUS
<1>1. rwLimiter \in 0..rwBuilt /\ rwBuilt \in {0} \cup Limiters
    BY LimiterNumbers DEF RWInv, GetterInv
<1>2. \A l \in Limiters, k \in Keys :
         rwHits[l][k] \in Seq(Entry) /\ Len(rwHits[l][k]) <= MaxRequests
    BY DEF RWInv, LogInv
<1> QED BY <1>1, <1>2 DEF RWInv, GetterInv, AudioInv, ClockInv, RWTypeOK

\* The limiters' variables keep to their ranges: no more limiters than
\* requests that could build one, no window over its limit.
THEOREM LimiterTypes == RWSpec => []RWTypeOK
<1> DEFINE Inv == RWInv /\ AudioInv /\ ClockInv
<1>1. RWInit => Inv
    BY WindowsInitInv, AudioInitInv, ClockInit
<1>2. Inv /\ [RWNext]_rwVars => Inv'
    BY RWStepInv, AudioStepInv, ClockStep
<1>3. Inv => RWTypeOK
    BY LimitersTyped
<1> QED BY <1>1, <1>2, <1>3, PTL DEF RWSpec

-----------------------------------------------------------------------------
(* The three beside each other.                                            *)

\* Whatever part the composition runs, each of its steps is one of every
\* component or none: what is proved of a component holds in the composition.
LEMMA PartsInitial == MCInit => SPInit /\ PCInit /\ RWInit
BY DEF MCInit

LEMMA PartsSteps ==
    [MCNext]_MCVars => [SPNext]_spVars /\ [PCNext]_pcVars /\ [RWNext]_rwVars
BY DEF MCNext, MCVars, Calls, RWNext

\* Beside each other too, the history of committed words, the attempts and
\* permits and every limiter's window stay within their caps.
THEOREM PartsTypes == MCSpec => []SpeechTypeOK
<1> DEFINE Inv == SPInv /\ PCInv /\ RWInv /\ AudioInv /\ ClockInv
<1>1. MCInit => Inv
    BY PartsInitial, SPInitInv, PCInitInv, WindowsInitInv, AudioInitInv, ClockInit
<1>2. Inv /\ [MCNext]_MCVars => Inv'
    BY PartsSteps, SPStepInv, PCStepInv, RWStepInv, AudioStepInv, ClockStep
<1>3. Inv => SpeechTypeOK
    BY CallsTyped, LimitersTyped DEF SPInv, SpeechTypeOK
<1> QED BY <1>1, <1>2, <1>3, PTL DEF MCSpec
=============================================================================
