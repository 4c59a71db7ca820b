------------------------ MODULE SpeechWindow_proofs ------------------------
(***************************************************************************)
(* Proofs about SpeechWindow, for every size of window, slide and chunk    *)
(* that fits together, for every anchor and history, and for recordings of *)
(* any length: no chunk is left out of the requests, no word later than    *)
(* everything emitted is lost, a clean recording comes out as it is, and   *)
(* the music mode follows the last texts.                                  *)
(***************************************************************************)
EXTENDS SpeechWindow, OrderFacts, SequenceTheorems, TLAPS

-----------------------------------------------------------------------------
(* The inductive invariant.                                                *)

\* The window reaches back over what is not yet sent: that is less than a
\* slide while the stream listens, and nothing while a request is made.
WindowInv ==
    /\ \A c, d \in 0..Len(spEnds) : c < d => Upto(spEnds, c) < Upto(spEnds, d)
    /\ spFirst - 1 <= spSent
    /\ spPhase = "listening" =>
         /\ spFresh < SlideBytes
         /\ spFresh = Upto(spEnds, Len(spEnds)) - Upto(spEnds, spSent)
    /\ spPhase \in {"calling", "flushing", "done"} => spSent = Len(spEnds)

\* What is committed was emitted.
EmittedInv ==
    /\ \A i \in DOMAIN spCommitted : \E j \in DOMAIN spOut : spOut[j] = spCommitted[i]
    /\ SpeechNeverDropped

\* The run counts the music texts at the end of the output, and the messages
\* tell of every change.
Alternates(control, on) ==
    /\ on <=> Len(control) % 2 = 1
    /\ \A i \in 1..Len(control) :
         control[i] = IF i % 2 = 1 THEN "auto_music_detected" ELSE "auto_speech_resumed"
Trailing(out, run) ==
    /\ run <= Len(out)
    /\ \A i \in 1..Len(out) : i > Len(out) - run => out[i] = Music
    /\ \A i \in 1..Len(out) : i = Len(out) - run => out[i] # Music
MusicInv ==
    /\ Trailing(spOut, spMusic.run)
    /\ spMusic.signalled <=> spMusic.run >= MusicThreshold
    /\ Alternates(spControl, spMusic.signalled)

\* Any two places of a recording in whole phrases are an anchor apart, or
\* nothing is said between them.
PhrasesInv ==
    \A c, d \in 0..Len(spWords) :
        c <= d => /\ Upto(spWords, c) <= Upto(spWords, d)
                  /\ WholePhrases => \/ Upto(spWords, d) = Upto(spWords, c)
                                     \/ Upto(spWords, d) - Upto(spWords, c) >= MinAnchor

\* A clean stream has emitted the words of the chunks up to some place that
\* is no earlier than the window, and remembers the last of them.
Exact(out, committed) ==
    /\ \A i \in 1..Len(out) : out[i] = i
    /\ Len(committed) = IF HistoryCap <= Len(out) THEN HistoryCap ELSE Len(out)
    /\ \A i \in 1..Len(committed) : committed[i] = Len(out) - Len(committed) + i
Faithful ==
    /\ Exact(spOut, spCommitted)
    /\ \E c \in 0..Len(spWords) : spFirst - 1 <= c /\ Len(spOut) = Upto(spWords, c)
    /\ spPhase \in {"listening", "done"} => Len(spOut) = Upto(spWords, spSent)
CleanInv == spSlips = 0 /\ WholePhrases => Faithful

SPInv == SPTypeOK /\ WindowInv /\ EmittedInv /\ MusicInv /\ PhrasesInv /\ CleanInv
-----------------------------------------------------------------------------
(* The deduplicator.                                                       *)

LEMMA LeastOfTwo ==
    ASSUME NEW a \in Int, NEW b \in Int
    PROVE  Min({a, b}) = IF a <= b THEN a ELSE b
<1> DEFINE m == IF a <= b THEN a ELSE b
<1>1. m \in {a, b} /\ \A y \in {a, b} : m <= y
    OBVIOUS
<1>2. \A x \in {a, b} : (\A y \in {a, b} : x <= y) => x = m
    OBVIOUS
<1> QED BY <1>1, <1>2 DEF Min

LEMMA LargestNumber ==
    ASSUME NEW n \in Nat, NEW S \in SUBSET (0..n), S # {}
    PROVE  Max(S) \in S /\ \A x \in S : x <= Max(S)
<1>1. \E m \in S : \A x \in S : x <= m
    BY LargestExists
<1>2. \E m \in S : \A x \in S : m >= x
    BY <1>1
<1>3. Max(S) \in S /\ \A x \in S : Max(S) >= x
    BY <1>2 DEF Max
<1> QED BY <1>3

LEMMA TailOfWords ==
    ASSUME NEW s \in Seq(Int), NEW k \in 0..Len(s)
    PROVE  /\ LastWords(s, k) \in Seq(Int)
           /\ Len(LastWords(s, k)) = k
           /\ \A i \in 1..k : LastWords(s, k)[i] = s[Len(s) - k + i]
<1> DEFINE m == Len(s) - k + 1
           n == Len(s)
<1>1. n \in Nat /\ m \in Int /\ \A i \in m..n : s[i] \in Int
    BY LenProperties
<1>2. /\ SubSeq(s, m, n) \in Seq(Int)
      /\ Len(SubSeq(s, m, n)) = IF m <= n THEN n - m + 1 ELSE 0
      /\ \A i \in 1..(n - m + 1) : SubSeq(s, m, n)[i] = s[m + i - 1]
    BY <1>1, SubSeqProperties
<1>3. n - m + 1 = k /\ (m <= n \/ k = 0) /\ \A i \in 1..k : m + i - 1 = Len(s) - k + i
    BY <1>1
<1> QED BY <1>2, <1>3 DEF LastWords

\* Where a needle stands in a haystack.
Starts(haystack, needle) ==
    {i \in 1..(Len(haystack) - Len(needle) + 1) :
        SubSeq(haystack, i, i + Len(needle) - 1) = needle}

\* The last occurrence is one, and there is one if there is any.
LEMMA LastOccurrence ==
    ASSUME NEW haystack \in Seq(Int), NEW needle \in Seq(Int), needle # <<>>
    PROVE  /\ RFind(haystack, needle) # 0 <=> Starts(haystack, needle) # {}
           /\ RFind(haystack, needle) # 0 =>
                RFind(haystack, needle) \in Starts(haystack, needle)
           /\ RFind(haystack, needle) \in Nat
<1> DEFINE starts == Starts(haystack, needle)
<1>1. Len(haystack) \in Nat /\ Len(needle) \in Nat \ {0}
    BY EmptySeq, LenProperties
<1>2. starts \in SUBSET (0..Len(haystack)) /\ 0 \notin starts
    BY <1>1 DEF Starts
<1>3. RFind(haystack, needle) = IF starts = {} THEN 0 ELSE Max(starts)
    BY DEF RFind, Starts
<1> HIDE DEF starts
<1>4. starts # {} => Max(starts) \in starts
    BY <1>1, <1>2, LargestNumber
<1>5. \A i \in starts : i \in Nat
    BY <1>1, <1>2
<1> QED BY <1>2, <1>3, <1>4, <1>5 DEF starts

\* The lengths of the anchors that are found.
Anchors(committed, norm) ==
    {k \in MinAnchor..Min({MaxAnchor, Len(committed)}) :
        RFind(norm, LastWords(committed, k)) # 0}

LEMMA AnchorsTyped ==
    ASSUME NEW committed \in Seq(Int), NEW norm \in Seq(Int)
    PROVE  /\ Len(committed) \in Nat /\ Len(norm) \in Nat
           /\ MinAnchor \in Nat \ {0} /\ MaxAnchor \in Nat
           /\ Min({MaxAnchor, Len(committed)}) =
                IF MaxAnchor <= Len(committed) THEN MaxAnchor ELSE Len(committed)
           /\ \A k \in MinAnchor..Min({MaxAnchor, Len(committed)}) :
                k \in 1..Len(committed)
           /\ Anchors(committed, norm) \in SUBSET (0..MaxAnchor)
<1>1. /\ Len(committed) \in Nat /\ Len(norm) \in Nat
      /\ MinAnchor \in Nat \ {0} /\ MaxAnchor \in Nat
    BY SpeechWindowAssumption, LenProperties
<1>2. Min({MaxAnchor, Len(committed)}) =
        IF MaxAnchor <= Len(committed) THEN MaxAnchor ELSE Len(committed)
    BY <1>1, LeastOfTwo
<1> DEFINE limit == Min({MaxAnchor, Len(committed)})
<1> HIDE DEF limit
<1>3. limit \in Nat /\ limit <= MaxAnchor /\ limit <= Len(committed)
    BY <1>1, <1>2 DEF limit
<1>4. \A k \in MinAnchor..limit : k \in 1..Len(committed) /\ k \in 0..MaxAnchor
    BY <1>1, <1>3
<1>5. Anchors(committed, norm) \in SUBSET (0..MaxAnchor)
    BY <1>4 DEF Anchors, limit
<1> QED BY <1>1, <1>2, <1>4, <1>5 DEF limit

\* What is cut ends with the last committed word.
LEMMA CutEndsCommitted ==
    ASSUME NEW committed \in Seq(Int), NEW norm \in Seq(Int)
    PROVE  /\ EmitIndex(committed, norm) \in 0..Len(norm)
           /\ EmitIndex(committed, norm) > 0 <=> Anchors(committed, norm) # {}
           /\ EmitIndex(committed, norm) > 0 =>
                /\ Len(committed) > 0
                /\ norm[EmitIndex(committed, norm)] = committed[Len(committed)]
<1> DEFINE found == Anchors(committed, norm)
           k == Max(found)
           anchor == LastWords(committed, k)
           start == RFind(norm, anchor)
<1>1. EmitIndex(committed, norm) = IF found = {} THEN 0 ELSE start + k - 1
    BY DEF EmitIndex, Anchors
<1>2. CASE found = {}
    BY <1>1, <1>2, AnchorsTyped
<1>3. CASE found # {}
    <2>1. k \in found
        <3>1. found \in SUBSET (0..MaxAnchor) /\ MaxAnchor \in Nat
            BY AnchorsTyped
        <3> HIDE DEF found
        <3> QED BY <1>3, <3>1, LargestNumber
    <2>2. k \in 1..Len(committed) /\ start # 0 /\ Len(committed) \in Nat /\ Len(norm) \in Nat
        <3> HIDE DEF k
        <3> QED BY <2>1, AnchorsTyped DEF Anchors
    <2> HIDE DEF k, found
    <2>3. /\ anchor \in Seq(Int) /\ Len(anchor) = k
          /\ anchor[k] = committed[Len(committed) - k + k]
        BY <2>2, TailOfWords
    <2> HIDE DEF anchor
    <2>4. anchor # <<>>
        BY <2>2, <2>3, EmptySeq
    <2>5. start \in Starts(norm, anchor)
        BY <2>2, <2>3, <2>4, LastOccurrence
    <2> HIDE DEF start
    <2>6. start \in 1..(Len(norm) - k + 1) /\ SubSeq(norm, start, start + k - 1) = anchor
        BY <2>3, <2>5 DEF Starts
    <2> DEFINE e == start + k - 1
    <2>7. e \in 1..Len(norm) /\ start \in Int /\ k \in 1..(e - start + 1)
        BY <2>2, <2>6
    <2>8. \A i \in start..e : norm[i] \in Int
        BY <2>2, <2>6, ElementOfSeq
    <2>9. SubSeq(norm, start, e)[k] = norm[start + k - 1]
        BY <2>7, <2>8, SubSeqProperties
    <2>10. norm[e] = committed[Len(committed)]
        <3>1. Len(committed) - k + k = Len(committed)
            BY <2>2
        <3>2. SubSeq(norm, start, e) = anchor
            BY <2>6
        <3> QED BY <2>3, <2>9, <3>1, <3>2
    <2>11. EmitIndex(committed, norm) = e
        BY <1>1, <1>3
    <2> QED BY <1>3, <2>2, <2>7, <2>10, <2>11 DEF found
<1> QED BY <1>2, <1>3

\* An anchor of the least length that stands in the transcript is enough.
LEMMA AnchorSuffices ==
    ASSUME NEW committed \in Seq(Int), NEW norm \in Seq(Int),
           MinAnchor <= Len(committed), NEW i \in 1..(Len(norm) - MinAnchor + 1),
           SubSeq(norm, i, i + MinAnchor - 1) = LastWords(committed, MinAnchor)
    PROVE  Anchors(committed, norm) # {}
<1> DEFINE anchor == LastWords(committed, MinAnchor)
<1>1. /\ MinAnchor \in 1..Len(committed) /\ MinAnchor <= MaxAnchor /\ MaxAnchor \in Nat
      /\ MinAnchor \in Nat /\ Len(committed) \in Nat
    BY SpeechWindowAssumption, AnchorsTyped
<1>2. anchor \in Seq(Int) /\ Len(anchor) = MinAnchor
    BY <1>1, TailOfWords
<1> HIDE DEF anchor
<1>3. anchor # <<>>
    BY <1>1, <1>2, EmptySeq
<1>4. i \in Starts(norm, anchor)
    BY <1>2 DEF Starts, anchor
<1>5. RFind(norm, anchor) # 0
    BY <1>2, <1>3, <1>4, LastOccurrence
<1>6. MinAnchor \in MinAnchor..Min({MaxAnchor, Len(committed)})
    <2>1. Min({MaxAnchor, Len(committed)}) =
            IF MaxAnchor <= Len(committed) THEN MaxAnchor ELSE Len(committed)
        BY AnchorsTyped
    <2> QED BY <1>1, <2>1
<1> QED BY <1>5, <1>6 DEF Anchors, anchor

\* The new text is the transcript after some place: the start, or one whose
\* word is the last committed one.
LEMMA NewTextIsSuffix ==
    ASSUME NEW committed \in Seq(Int), NEW norm \in Seq(Int)
    PROVE  \E e \in 0..Len(norm) :
             /\ NewText(committed, norm) \in Seq(Int)
             /\ Len(NewText(committed, norm)) = Len(norm) - e
             /\ \A i \in 1..(Len(norm) - e) : NewText(committed, norm)[i] = norm[e + i]
             /\ e > 0 <=> Len(committed) > 0 /\ Anchors(committed, norm) # {}
             /\ e > 0 => norm[e] = committed[Len(committed)]
<1> DEFINE e == IF committed = <<>> THEN 0 ELSE EmitIndex(committed, norm)
<1>1. Len(norm) \in Nat /\ Len(committed) \in Nat /\ (committed = <<>> <=> Len(committed) = 0)
    BY EmptySeq, LenProperties
<1>2. /\ e \in 0..Len(norm)
      /\ e > 0 <=> Len(committed) > 0 /\ Anchors(committed, norm) # {}
      /\ e > 0 => norm[e] = committed[Len(committed)]
    BY <1>1, CutEndsCommitted
<1>3. NewText(committed, norm) = SubSeq(norm, e + 1, Len(norm))
    <2>1. SubSeq(norm, 1, Len(norm)) = norm
        BY SubSeqFull
    <2>2. CASE committed = <<>>
        <3>1. e + 1 = 1 /\ NewText(committed, norm) = norm
            BY <2>2 DEF NewText
        <3> HIDE DEF e
        <3> QED BY <2>1, <3>1
    <2>3. CASE committed # <<>>
        BY <2>3 DEF NewText
    <2> QED BY <2>2, <2>3
<1> HIDE DEF e
<1>4. \A i \in (e + 1)..Len(norm) : norm[i] \in Int
    BY <1>1, <1>2, ElementOfSeq
<1>5. /\ SubSeq(norm, e + 1, Len(norm)) \in Seq(Int)
      /\ Len(SubSeq(norm, e + 1, Len(norm))) =
           IF e + 1 <= Len(norm) THEN Len(norm) - (e + 1) + 1 ELSE 0
      /\ \A i \in 1..(Len(norm) - (e + 1) + 1) :
           SubSeq(norm, e + 1, Len(norm))[i] = norm[(e + 1) + i - 1]
    <2>1. e + 1 \in Int /\ Len(norm) \in Int
        BY <1>1, <1>2
    <2> QED BY <1>4, <2>1, SubSeqProperties
<1>6. /\ NewText(committed, norm) \in Seq(Int)
      /\ Len(NewText(committed, norm)) = Len(norm) - e
      /\ \A i \in 1..(Len(norm) - e) : NewText(committed, norm)[i] = norm[e + i]
    <2>1. /\ (IF e + 1 <= Len(norm) THEN Len(norm) - (e + 1) + 1 ELSE 0) = Len(norm) - e
          /\ Len(norm) - (e + 1) + 1 = Len(norm) - e
          /\ \A i \in 1..(Len(norm) - e) : (e + 1) + i - 1 = e + i
        BY <1>1, <1>2
    <2> QED BY <1>3, <1>5, <2>1
<1> QED BY <1>2, <1>6

\* The history holds the newest words, HistoryCap at most.
LEMMA CommitKeepsNewest ==
    ASSUME NEW committed \in Seq(Int), NEW segment \in Seq(Int)
    PROVE  LET n == Len(committed) + Len(segment)
               k == IF HistoryCap <= n THEN HistoryCap ELSE n
           IN  /\ Commit(committed, segment) \in Seq(Int)
               /\ Len(Commit(committed, segment)) = k
               /\ \A i \in 1..k : Commit(committed, segment)[i] = (committed \o segment)[n - k + i]
<1> DEFINE n == Len(committed) + Len(segment)
           k == IF HistoryCap <= n THEN HistoryCap ELSE n
           all == committed \o segment
<1>1. all \in Seq(Int) /\ Len(all) = n
    BY ConcatProperties
<1>2. HistoryCap \in Nat /\ n \in Nat /\ k \in 0..n
    BY SpeechWindowAssumption, LenProperties
<1>3. Commit(committed, segment) = LastWords(all, k)
    <2>1. Min({HistoryCap, Len(all)}) = k
        BY <1>1, <1>2, LeastOfTwo
    <2> QED BY <2>1 DEF Commit
<1> HIDE DEF all, n, k
<1>4. /\ LastWords(all, k) \in Seq(Int) /\ Len(LastWords(all, k)) = k
      /\ \A i \in 1..k : LastWords(all, k)[i] = all[Len(all) - k + i]
    BY <1>1, <1>2, TailOfWords
<1> QED BY <1>1, <1>3, <1>4 DEF all, n, k

-----------------------------------------------------------------------------
(* What the provider may answer.                                           *)

LEMMA UptoTyped ==
    ASSUME NEW f \in Seq(Nat), NEW c \in 0..Len(f)
    PROVE  Upto(f, c) \in Nat
<1>1. CASE c = 0
    BY <1>1 DEF Upto
<1>2. CASE c # 0
    <2>1. c \in 1..Len(f)
        BY <1>2, LenProperties
    <2> QED BY <1>2, <2>1, ElementOfSeq DEF Upto
<1> QED BY <1>1, <1>2

\* The words before the window, and before and in it.
Before == Upto(spWords, spFirst - 1)
Through == Upto(spWords, Len(spWords))

LEMMA SpokenWords ==
    ASSUME SPTypeOK, PhrasesInv
    PROVE  /\ Before \in Nat /\ Through \in Nat /\ Before <= Through
           /\ Spoken \in Seq(Int) /\ Len(Spoken) = Through - Before
           /\ \A i \in 1..(Through - Before) : Spoken[i] = Before + i
<1>1. /\ spWords \in Seq(Nat) /\ Len(spWords) \in Nat
      /\ spFirst - 1 \in 0..Len(spWords) /\ Len(spWords) \in 0..Len(spWords)
      /\ spFirst - 1 <= Len(spWords)
    BY LenProperties DEF SPTypeOK
<1>2. Before \in Nat /\ Through \in Nat /\ Before <= Through
    BY <1>1, UptoTyped DEF Before, Through, PhrasesInv
<1>3. Spoken = [i \in 1..(Through - Before) |-> Before + i]
    BY DEF Spoken, Before, Through
<1> DEFINE n == Through - Before
<1>4. n \in Nat /\ \A i \in 1..n : Before + i \in Int
    BY <1>2
<1> HIDE DEF n
<1>5. [i \in 1..n |-> Before + i] \in Seq(Int) /\ Len([i \in 1..n |-> Before + i]) = n
    <2>1. [i \in 1..n |-> Before + i] \in [1..n -> Int]
        BY <1>4
    <2> QED BY <1>4, <2>1
<1> QED BY <1>2, <1>3, <1>5 DEF n

\* No music, and the words in the order in which they were spoken.
Rising(text) ==
    /\ \A i \in 1..Len(text) : text[i] \in Int /\ text[i] # Music
    /\ \A i, j \in 1..Len(text) : i < j => Position(text[i]) < Position(text[j])

LEMMA AnswersRise ==
    ASSUME SPTypeOK, PhrasesInv, NEW text \in Transcripts
    PROVE  text \in Seq(Int) /\ (text = <<Music>> \/ Rising(text))
<1> DEFINE b == Before
           n == Through - Before
<1>1. /\ b \in Nat /\ n \in Nat /\ Spoken \in Seq(Int) /\ Len(Spoken) = n
      /\ \A i \in 1..n : Spoken[i] = b + i
    BY SpokenWords
<1> HIDE DEF b, n
<1>2. CASE text = Spoken
    BY <1>1, <1>2 DEF Rising, Position, Music
<1>3. CASE text = <<>>
    <2>1. Len(text) = 0 /\ text \in Seq(Int)
        BY <1>3, EmptySeq
    <2> QED BY <2>1 DEF Rising
<1>4. CASE text = <<Music>>
    BY <1>4 DEF Music
<1>5. ASSUME NEW i \in 1..n, text = [Spoken EXCEPT ![i] = -Spoken[i]]
      PROVE  text \in Seq(Int) /\ Rising(text)
    <2>1. -Spoken[i] \in Int /\ -Spoken[i] = -(b + i)
        BY <1>1
    <2>2. /\ text \in Seq(Int) /\ Len(text) = n
          /\ \A j \in 1..n : text[j] = IF j = i THEN -Spoken[i] ELSE Spoken[j]
        BY <1>1, <1>5, <2>1, ExceptSeq
    <2>3. \A j \in 1..n : text[j] = (IF j = i THEN -(b + i) ELSE b + j)
        BY <1>1, <2>1, <2>2
    <2>4. \A j \in 1..n : Position(text[j]) = b + j /\ text[j] \in Int /\ text[j] # Music
        BY <1>1, <2>3 DEF Position, Music
    <2>5. \A j, k \in 1..n : j < k => Position(text[j]) < Position(text[k])
        BY <1>1, <2>4
    <2> QED BY <2>2, <2>4, <2>5 DEF Rising
<1>6. ASSUME NEW i \in 1..n,
             text = SubSeq(Spoken, 1, i - 1) \o SubSeq(Spoken, i + 1, Len(Spoken))
      PROVE  text \in Seq(Int) /\ Rising(text)
    <2> DEFINE l == SubSeq(Spoken, 1, i - 1)
               r == SubSeq(Spoken, i + 1, n)
    <2>1. /\ i - 1 \in Int /\ i + 1 \in Int
          /\ \A j \in 1..(i - 1) : Spoken[j] \in Int
          /\ \A j \in (i + 1)..n : Spoken[j] \in Int
        BY <1>1
    <2>2. /\ l \in Seq(Int) /\ Len(l) = IF 1 <= i - 1 THEN i - 1 - 1 + 1 ELSE 0
          /\ \A j \in 1..(i - 1 - 1 + 1) : l[j] = Spoken[1 + j - 1]
        BY <2>1, SubSeqProperties
    <2>3. /\ r \in Seq(Int) /\ Len(r) = IF i + 1 <= n THEN n - (i + 1) + 1 ELSE 0
          /\ \A j \in 1..(n - (i + 1) + 1) : r[j] = Spoken[i + 1 + j - 1]
        BY <1>1, <2>1, SubSeqProperties
    <2>4. text = l \o r
        BY <1>1, <1>6
    <2> HIDE DEF l, r
    <2>5. Len(l) = i - 1 /\ \A j \in 1..(i - 1) : l[j] = b + j
        <3>1. i - 1 - 1 + 1 = i - 1 /\ (1 <= i - 1 \/ i - 1 = 0)
            BY <1>1
        <3>2. \A j \in 1..(i - 1) : j \in 1..n /\ 1 + j - 1 = j
            BY <1>1
        <3> QED BY <1>1, <2>2, <3>1, <3>2
    <2>6. Len(r) = n - i /\ \A j \in 1..(n - i) : r[j] = b + i + j
        BY <1>1, <2>3
    <2>7. /\ text \in Seq(Int) /\ Len(text) = Len(l) + Len(r)
          /\ \A j \in 1..(Len(l) + Len(r)) :
               text[j] = IF j <= Len(l) THEN l[j] ELSE r[j - Len(l)]
        BY <2>2, <2>3, <2>4, ConcatProperties
    <2>8. Len(text) = n - 1 /\ \A j \in 1..(n - 1) : text[j] = IF j < i THEN b + j ELSE b + j + 1
        BY <1>1, <2>5, <2>6, <2>7
    <2>9. \A j \in 1..(n - 1) : /\ text[j] \in Int /\ text[j] # Music
                                /\ Position(text[j]) = IF j < i THEN b + j ELSE b + j + 1
        BY <1>1, <2>8 DEF Position, Music
    <2>10. \A j, k \in 1..(n - 1) : j < k => Position(text[j]) < Position(text[k])
        <3> SUFFICES ASSUME NEW j \in 1..(n - 1), NEW k \in 1..(n - 1), j < k
                     PROVE  Position(text[j]) < Position(text[k])
            OBVIOUS
        <3>1. /\ Position(text[j]) = IF j < i THEN b + j ELSE b + j + 1
              /\ Position(text[k]) = IF k < i THEN b + k ELSE b + k + 1
            BY <2>9
        <3> QED BY <1>1, <3>1
    <2> QED BY <2>7, <2>8, <2>9, <2>10 DEF Rising
<1>7. DOMAIN Spoken = 1..n
    BY <1>1, LenProperties
<1> QED BY <1>2, <1>3, <1>4, <1>5, <1>6, <1>7 DEF Transcripts

\* The words up to m were emitted and the last of them are remembered; norm is
\* the exact transcript of the words b+1..t, and shares with them an anchor or
\* nothing.
Continues(b, m, t, norm, committed) ==
    /\ b \in Nat /\ m \in Nat /\ t \in Nat /\ b <= m /\ m <= t
    /\ m = b \/ m - b >= MinAnchor
    /\ norm \in Seq(Int) /\ Len(norm) = t - b
    /\ \A i \in 1..(t - b) : norm[i] = b + i
    /\ committed \in Seq(Int)
    /\ Len(committed) = IF HistoryCap <= m THEN HistoryCap ELSE m
    /\ \A i \in 1..Len(committed) : committed[i] = m - Len(committed) + i

\* Such a transcript adds the words m+1..t.
LEMMA ExactAdds ==
    ASSUME NEW b, NEW m, NEW t, NEW norm, NEW committed,
           Continues(b, m, t, norm, committed)
    PROVE  /\ Len(NewText(committed, norm)) = t - m
           /\ \A i \in 1..(t - m) : NewText(committed, norm)[i] = m + i
<1> USE DEF Continues
<1>1. PICK e \in 0..Len(norm) :
        /\ Len(NewText(committed, norm)) = Len(norm) - e
        /\ \A i \in 1..(Len(norm) - e) : NewText(committed, norm)[i] = norm[e + i]
        /\ e > 0 <=> Len(committed) > 0 /\ Anchors(committed, norm) # {}
        /\ e > 0 => norm[e] = committed[Len(committed)]
    BY NewTextIsSuffix
<1>2. /\ MinAnchor \in Nat \ {0} /\ HistoryCap \in Nat /\ MinAnchor <= HistoryCap
      /\ Len(committed) \in Nat
    BY SpeechWindowAssumption, LenProperties
<1>3. e > 0 => e = m - b
    <2>1. SUFFICES ASSUME e > 0 PROVE e = m - b
        OBVIOUS
    <2>2. norm[e] = b + e
        BY <1>1, <2>1
    <2>3. committed[Len(committed)] = m
        <3>1. /\ Len(committed) \in 1..Len(committed) /\ m \in Nat /\ Len(committed) \in Nat
              /\ \A i \in 1..Len(committed) : committed[i] = m - Len(committed) + i
            BY <1>1, <1>2, <2>1
        <3>2. committed[Len(committed)] = m - Len(committed) + Len(committed)
            BY <3>1
        <3> HIDE DEF Continues
        <3> QED BY ONLY <3>1, <3>2
    <2> QED BY <1>1, <2>1, <2>2, <2>3
<1>4. m # b => e > 0
    <2> SUFFICES ASSUME m # b PROVE e > 0
        OBVIOUS
    <2> DEFINE i == m - MinAnchor + 1 - b
               k == MinAnchor
    <2>1. /\ m - b >= k /\ k <= Len(committed) /\ Len(committed) > 0
          /\ i \in 1..(Len(norm) - k + 1)
        BY <1>2
    <2>2. /\ LastWords(committed, k) \in Seq(Int) /\ Len(LastWords(committed, k)) = k
          /\ \A j \in 1..k : LastWords(committed, k)[j] = committed[Len(committed) - k + j]
        <3>1. k \in 0..Len(committed)
            BY <1>2, <2>1
        <3> HIDE DEF k
        <3> QED BY <3>1, TailOfWords
    <2>3. \A j \in 1..k : LastWords(committed, k)[j] = m - k + j
        <3>1. \A j \in 1..k : /\ Len(committed) - k + j \in 1..Len(committed)
                              /\ m - Len(committed) + (Len(committed) - k + j) = m - k + j
            BY <1>2, <2>1
        <3> HIDE DEF k
        <3> QED BY <2>2, <3>1
    <2> DEFINE l == i + k - 1
    <2>4. /\ SubSeq(norm, i, l) \in Seq(Int)
          /\ Len(SubSeq(norm, i, l)) = IF i <= l THEN l - i + 1 ELSE 0
          /\ \A j \in 1..(l - i + 1) : SubSeq(norm, i, l)[j] = norm[i + j - 1]
        <3>1. i \in Int /\ l \in Int /\ \A j \in i..l : norm[j] \in Int
            BY <1>2, <2>1
        <3> HIDE DEF i, k, l
        <3> QED BY <3>1, SubSeqProperties
    <2>5. \A j \in 1..k : SubSeq(norm, i, l)[j] = m - k + j
        <3>1. \A j \in 1..k : i + j - 1 \in 1..(t - b) /\ b + (i + j - 1) = m - k + j
            BY <1>2, <2>1
        <3>2. l - i + 1 = k
            BY <1>2, <2>1
        <3> HIDE DEF i, k, l
        <3> QED BY <2>4, <3>1, <3>2
    <2>6. Len(SubSeq(norm, i, l)) = k
        <3>1. i <= l /\ l - i + 1 = k
            BY <1>2, <2>1
        <3> HIDE DEF i, k, l
        <3> QED BY <2>4, <3>1
    <2>7. SubSeq(norm, i, l) = LastWords(committed, k)
        <3> HIDE DEF i, k, l
        <3> DEFINE found == SubSeq(norm, i, l)
                   anchor == LastWords(committed, k)
        <3>1. /\ found \in Seq(Int) /\ anchor \in Seq(Int) /\ Len(found) = Len(anchor)
              /\ \A j \in 1..Len(found) : found[j] = anchor[j]
            BY <2>2, <2>3, <2>4, <2>5, <2>6
        <3> HIDE DEF found, anchor
        <3>2. found = anchor
            BY <3>1, SeqEqual
        <3> QED BY <3>2 DEF found, anchor
    <2> HIDE DEF i
    <2>8. Anchors(committed, norm) # {}
        BY <2>1, <2>7, AnchorSuffices
    <2> QED BY <1>1, <2>1, <2>8
<1>5. e = m - b
    BY <1>1, <1>3, <1>4
<1> QED BY <1>1, <1>5

-----------------------------------------------------------------------------
(* The window.                                                             *)

\* The first chunk that may stay is the oldest from which the window fits.
LEMMA TrimStops ==
    ASSUME NEW ends \in Seq(Nat), NEW first \in 1..Len(ends)
    PROVE  /\ Trim(ends, first) \in first..Len(ends)
           /\ \A g \in first..Len(ends) :
                Buffered(ends, g) <= WindowBytes => Trim(ends, first) <= g
<1> DEFINE Stop(f) == f = Len(ends) \/ Buffered(ends, f) <= WindowBytes
           stops == {f \in first..Len(ends) : Stop(f)}
<1>1. Len(ends) \in Nat /\ WindowBytes \in Nat
    BY SpeechWindowAssumption, LenProperties
<1>2. \A f \in first..Len(ends) : Buffered(ends, f) \in Int
    <2> SUFFICES ASSUME NEW f \in first..Len(ends) PROVE Buffered(ends, f) \in Int
        OBVIOUS
    <2>1. f - 1 \in 0..Len(ends) /\ Len(ends) \in 1..Len(ends)
        BY <1>1
    <2>2. Upto(ends, f - 1) \in Nat /\ ends[Len(ends)] \in Nat
        BY <2>1, UptoTyped, ElementOfSeq
    <2> QED BY <2>2 DEF Buffered
<1>3. stops \in SUBSET Nat /\ stops # {}
    BY <1>1
<1>4. PICK m \in stops : \A x \in stops : m <= x
    BY <1>3, LeastExists
<1>5. \A g \in first..(m - 1) : Buffered(ends, g) > WindowBytes
    <2> SUFFICES ASSUME NEW g \in first..(m - 1) PROVE Buffered(ends, g) > WindowBytes
        OBVIOUS
    <2>1. m \in first..Len(ends) /\ g \in first..Len(ends) /\ ~(m <= g)
        BY <1>1, <1>4
    <2>2. ~(Buffered(ends, g) <= WindowBytes)
        BY <1>4, <2>1
    <2> QED BY <1>1, <1>2, <2>1, <2>2
<1> DEFINE t == Trim(ends, first)
<1>6. /\ t \in first..Len(ends)
      /\ \A g \in first..(t - 1) : Buffered(ends, g) > WindowBytes
    BY <1>4, <1>5 DEF Trim
<1> HIDE DEF t
<1>7. ASSUME NEW g \in first..Len(ends), Buffered(ends, g) <= WindowBytes PROVE t <= g
    <2>1. SUFFICES ASSUME ~(t <= g) PROVE FALSE
        OBVIOUS
    <2>2. g \in first..(t - 1)
        BY <1>1, <1>6, <2>1
    <2>3. Buffered(ends, g) > WindowBytes
        BY <1>6, <2>2
    <2> QED BY <1>1, <1>2, <1>7, <2>3
<1> QED BY <1>6, <1>7 DEF t

\* One more chunk leaves the counts of the earlier ones as they are.
LEMMA OneMore ==
    ASSUME NEW f \in Seq(Nat), NEW v \in Nat
    PROVE  /\ Append(f, v) \in Seq(Nat) /\ Len(Append(f, v)) = Len(f) + 1
           /\ \A c \in 0..Len(f) : Upto(Append(f, v), c) = Upto(f, c)
           /\ Upto(Append(f, v), Len(f) + 1) = v
           /\ Append(f, v)[Len(f) + 1] = v
           /\ \A c \in 1..Len(f) : Append(f, v)[c] = f[c]
<1>1. Len(f) \in Nat
    BY LenProperties
<1>2. /\ Append(f, v) \in Seq(Nat) /\ Len(Append(f, v)) = Len(f) + 1
      /\ \A c \in 1..Len(f) : Append(f, v)[c] = f[c]
      /\ Append(f, v)[Len(f) + 1] = v
    BY AppendProperties
<1> QED BY <1>1, <1>2 DEF Upto

LEMMA SPInitInv == SPInit => SPInv
<1> SUFFICES ASSUME SPInit PROVE SPInv
    OBVIOUS
<1>1. /\ spPhase = "listening" /\ spEnds = <<>> /\ spWords = <<>> /\ spFirst = 1
      /\ spFresh = 0 /\ spSent = 0 /\ spCommitted = <<>> /\ spOut = <<>>
      /\ spMusic = [run |-> 0, signalled |-> FALSE] /\ spControl = <<>>
      /\ spSlips = 0 /\ spNews = {}
    BY DEF SPInit
<1>2. /\ SlideBytes \in Nat \ {0} /\ MusicThreshold \in Nat \ {0} /\ HistoryCap \in Nat
      /\ MaxSlips \in Nat /\ MinAnchor \in Nat \ {0}
    BY SpeechWindowAssumption
<1>3. SPTypeOK
    BY <1>1, <1>2 DEF SPTypeOK
<1>4. WindowInv
    BY <1>1, <1>2 DEF WindowInv, Upto
<1>5. EmittedInv
    BY <1>1 DEF EmittedInv, SpeechNeverDropped
<1>6. MusicInv
    BY <1>1, <1>2 DEF MusicInv, Trailing, Alternates
<1>7. PhrasesInv
    BY <1>1 DEF PhrasesInv, Upto
<1>8. CleanInv
    <2>1. Exact(<<>>, <<>>)
        BY <1>2 DEF Exact
    <2> QED BY <1>1, <2>1 DEF CleanInv, Faithful, Upto
<1> QED BY <1>3, <1>4, <1>5, <1>6, <1>7, <1>8 DEF SPInv

\* Steps that emit nothing.
SameOutput == UNCHANGED <<spCommitted, spOut, spMusic, spControl, spSlips, spNews>>
SameChunks == UNCHANGED <<spEnds, spWords, spFirst>>

LEMMA OutputFrame ==
    ASSUME SPInv, SameOutput
    PROVE  EmittedInv' /\ MusicInv'
<1>1. EmittedInv'
    BY DEF SPInv, SameOutput, EmittedInv, SpeechNeverDropped
<1>2. MusicInv'
    BY DEF SPInv, SameOutput, MusicInv
<1> QED BY <1>1, <1>2

LEMMA ChunksFrame ==
    ASSUME SPInv, SameChunks
    PROVE  PhrasesInv' /\ (WholePhrases' <=> WholePhrases)
BY DEF SPInv, SameChunks, PhrasesInv, WholePhrases

\* What a chunk adds to the counts, and where the window then begins.
Arrives(bytes, words) ==
    LET n == Len(spEnds)
    IN  /\ spEnds' \in Seq(Nat) /\ spWords' \in Seq(Nat)
        /\ Len(spEnds') = n + 1 /\ Len(spWords') = n + 1
        /\ \A c \in 0..n : Upto(spEnds', c) = Upto(spEnds, c)
        /\ \A c \in 0..n : Upto(spWords', c) = Upto(spWords, c)
        /\ Upto(spEnds', n + 1) = Upto(spEnds, n) + bytes
        /\ Upto(spWords', n + 1) = Upto(spWords, n) + words
        /\ spFirst' \in 1..(n + 1)
        /\ spFirst' - 1 <= spSent

LEMMA ChunkArrives ==
    ASSUME SPInv, NEW bytes \in ChunkBytes, NEW words \in ChunkWords, SPChunk(bytes, words)
    PROVE  Arrives(bytes, words)
<1> DEFINE n == Len(spEnds)
<1>1. /\ spPhase = "listening"
      /\ spEnds' = Append(spEnds, Upto(spEnds, n) + bytes)
      /\ spWords' = Append(spWords, Upto(spWords, Len(spWords)) + words)
      /\ spFirst' = Trim(spEnds', spFirst)
    BY DEF SPChunk
<1>2. /\ spEnds \in Seq(Nat) /\ spWords \in Seq(Nat) /\ Len(spWords) = n /\ n \in Nat
      /\ spFirst \in 1..(n + 1) /\ spSent \in 0..n /\ spFresh \in Nat
    BY LenProperties DEF SPInv, SPTypeOK
<1>3. /\ WindowBytes \in Nat /\ SlideBytes \in Nat /\ bytes \in Nat /\ words \in Nat
      /\ SlideBytes + bytes <= WindowBytes + 1
    BY SpeechWindowAssumption
<1>4. /\ Upto(spEnds, n) \in Nat /\ Upto(spWords, n) \in Nat /\ Upto(spEnds, spSent) \in Nat
    BY <1>2, UptoTyped
<1>5. /\ spEnds' \in Seq(Nat) /\ Len(spEnds') = n + 1
      /\ \A c \in 0..n : Upto(spEnds', c) = Upto(spEnds, c)
      /\ Upto(spEnds', n + 1) = Upto(spEnds, n) + bytes
      /\ spEnds'[n + 1] = Upto(spEnds, n) + bytes
    <2>1. Upto(spEnds, n) + bytes \in Nat
        BY <1>3, <1>4
    <2> QED BY <1>1, <1>2, <2>1, OneMore
<1>6. /\ spWords' \in Seq(Nat) /\ Len(spWords') = n + 1
      /\ \A c \in 0..n : Upto(spWords', c) = Upto(spWords, c)
      /\ Upto(spWords', n + 1) = Upto(spWords, n) + words
    <2>1. Upto(spWords, n) + words \in Nat
        BY <1>3, <1>4
    <2> QED BY <1>1, <1>2, <2>1, OneMore
<1>7. /\ spFirst - 1 <= spSent /\ spFresh < SlideBytes
      /\ spFresh = Upto(spEnds, n) - Upto(spEnds, spSent)
    BY <1>1 DEF SPInv, WindowInv
<1>8. Buffered(spEnds', spSent + 1) <= WindowBytes
    <2> DEFINE ends == spEnds'
               g == spSent + 1
               total == Upto(spEnds, n)
               sent == Upto(spEnds, spSent)
               top == ends[Len(ends)]
               below == Upto(ends, g - 1)
    <2>1. top = total + bytes
        BY <1>5
    <2>2. below = sent
        <3>1. g - 1 = spSent
            BY <1>2
        <3> HIDE DEF g
        <3> QED BY <1>2, <1>5, <3>1
    <2>3. Buffered(ends, g) = top - below
        BY DEF Buffered
    <2>4. /\ total \in Nat /\ sent \in Nat /\ spFresh \in Nat
          /\ spFresh < SlideBytes /\ spFresh = total - sent
        BY <1>2, <1>4, <1>7
    <2> HIDE DEF ends, g, total, sent, top, below
    <2>5. top - below <= WindowBytes
        BY <1>3, <2>1, <2>2, <2>4
    <2> QED BY <2>3, <2>5 DEF ends, g
<1>9. spFirst' \in spFirst..(n + 1) /\ spFirst' <= spSent + 1
    <2>1. spFirst \in 1..Len(spEnds') /\ spSent + 1 \in spFirst..Len(spEnds')
        BY <1>2, <1>5, <1>7
    <2> DEFINE ends == spEnds'
    <2>2. ends \in Seq(Nat) /\ Len(ends) = n + 1 /\ spFirst' = Trim(ends, spFirst)
        BY <1>1, <1>5
    <2>3. spFirst \in 1..Len(ends) /\ spSent + 1 \in spFirst..Len(ends)
          /\ Buffered(ends, spSent + 1) <= WindowBytes
        BY <1>8, <2>1
    <2> HIDE DEF ends
    <2> QED BY <2>2, <2>3, TrimStops
<1>10. spFirst' \in 1..(n + 1) /\ spFirst' - 1 <= spSent
    <2> DEFINE first == spFirst'
    <2>1. /\ n \in Nat /\ spFirst \in 1..(n + 1) /\ spSent \in 0..n
          /\ first \in spFirst..(n + 1) /\ first <= spSent + 1
        BY <1>2, <1>9
    <2> HIDE DEF n, first
    <2>2. first \in 1..(n + 1) /\ first - 1 <= spSent
        BY <2>1
    <2> QED BY <2>2 DEF first
<1> QED BY <1>5, <1>6, <1>10 DEF Arrives

LEMMA ChunkInv ==
    ASSUME SPInv, NEW bytes \in ChunkBytes, NEW words \in ChunkWords, SPChunk(bytes, words)
    PROVE  SPInv'
<1> DEFINE n == Len(spEnds)
<1>1. /\ spPhase = "listening" /\ spFresh' = spFresh + bytes
      /\ spPhase' = IF spFresh' >= SlideBytes THEN "calling" ELSE "listening"
      /\ spSent' = IF spFresh' >= SlideBytes THEN n + 1 ELSE spSent
      /\ SameOutput
    <2>1. Len(spEnds') = n + 1
        BY ChunkArrives DEF Arrives
    <2> QED BY <2>1 DEF SPChunk, SameOutput
<1>2. /\ SPTypeOK /\ WindowInv /\ PhrasesInv /\ CleanInv
      /\ n \in Nat /\ Len(spWords) = n /\ spSent \in 0..n /\ spFresh \in Nat
      /\ n = Len(spEnds) /\ n \in 0..n
      /\ spEnds \in Seq(Nat) /\ spWords \in Seq(Nat)
    BY LenProperties DEF SPInv, SPTypeOK
<1>3. /\ SlideBytes \in Nat \ {0} /\ bytes \in Nat \ {0} /\ words \in Nat
    BY SpeechWindowAssumption
<1>4. /\ spEnds' \in Seq(Nat) /\ spWords' \in Seq(Nat)
      /\ Len(spEnds') = n + 1 /\ Len(spWords') = n + 1
      /\ \A c \in 0..n : Upto(spEnds', c) = Upto(spEnds, c)
      /\ \A c \in 0..n : Upto(spWords', c) = Upto(spWords, c)
      /\ Upto(spEnds', n + 1) = Upto(spEnds, n) + bytes
      /\ Upto(spWords', n + 1) = Upto(spWords, n) + words
      /\ spFirst' \in 1..(n + 1) /\ spFirst' - 1 <= spSent
    BY ChunkArrives DEF Arrives
<1> HIDE DEF n
<1>5. \A c \in 0..n : Upto(spEnds, c) \in Nat /\ Upto(spWords, c) \in Nat
    BY <1>2, UptoTyped
<1>6. /\ spSent' \in 0..(n + 1) /\ spSent <= spSent' /\ spFresh' \in Nat
      /\ n \in Nat /\ n \in 0..n /\ spSent \in 0..n /\ spFresh \in Nat
    <2>1. /\ n \in Nat /\ n \in 0..n /\ spSent \in 0..n /\ spFresh \in Nat
        BY <1>2
    <2> DEFINE fresh == spFresh + bytes
    <2>3. fresh \in Nat /\ spSent \in 0..(n + 1) /\ n + 1 \in 0..(n + 1) /\ spSent <= n + 1
        BY <1>3, <2>1
    <2>4. spFresh' = fresh /\ (spSent' = n + 1 \/ spSent' = spSent)
        BY <1>1
    <2> HIDE DEF fresh
    <2> QED BY <2>1, <2>3, <2>4
<1>7. SPTypeOK'
    <2>1. /\ spPhase' \in {"listening", "calling", "flushing", "done", "failed"}
          /\ spFirst' \in 1..(Len(spEnds') + 1) /\ spSent' \in 0..Len(spEnds')
        <3> DEFINE first == spFirst'
                   sent == spSent'
        <3>1. n \in Nat /\ first \in 1..(n + 1) /\ sent \in 0..(n + 1)
            BY <1>4, <1>6
        <3> HIDE DEF first, sent
        <3>2. first \in 1..((n + 1) + 1) /\ sent \in 0..(n + 1)
            BY <3>1
        <3> QED BY <1>1, <1>4, <3>2 DEF first, sent
    <2>2. spEnds' \in Seq(Nat) /\ spWords' \in Seq(Nat) /\ Len(spEnds') = Len(spWords')
        BY <1>4
    <2> QED BY <1>1, <1>2, <1>6, <2>1, <2>2 DEF SPTypeOK, SameOutput
<1>8. WindowInv'
    <2> DEFINE old(c) == Upto(spEnds, c)
               new(c) == Upto(spEnds', c)
    <2>1. /\ \A c \in 0..n : old(c) \in Nat /\ new(c) = old(c)
          /\ new(n + 1) = old(n) + bytes
        BY <1>4, <1>5
    <2>2. /\ \A c, d \in 0..n : c < d => old(c) < old(d)
          /\ spFresh < SlideBytes /\ spFresh = old(n) - old(spSent)
        BY <1>1, <1>2 DEF WindowInv
    <2> HIDE DEF old, new
    <2>3. ASSUME NEW c \in 0..(n + 1), NEW d \in 0..(n + 1), c < d
          PROVE  new(c) < new(d)
        <3>1. CASE d <= n
            <4>1. c \in 0..n /\ d \in 0..n
                BY <1>6, <2>3, <3>1
            <4> QED BY <2>1, <2>2, <2>3, <4>1
        <3>2. CASE d = n + 1
            <4>1. c \in 0..n /\ (c = n \/ c < n)
                BY <1>6, <2>3, <3>2
            <4>2. old(c) <= old(n) /\ old(c) \in Nat /\ old(n) \in Nat
                BY <1>6, <2>1, <2>2, <4>1
            <4> QED BY <1>3, <2>1, <3>2, <4>1, <4>2
        <3> QED BY <1>6, <3>1, <3>2
    <2>4. spFirst' - 1 <= spSent'
        <3> DEFINE first == spFirst'
                   sent == spSent'
        <3>1. /\ n \in Nat /\ spSent \in 0..n /\ sent \in 0..(n + 1) /\ spSent <= sent
              /\ first \in 1..(n + 1) /\ first - 1 <= spSent
            BY <1>4, <1>6
        <3> HIDE DEF first, sent
        <3>2. first - 1 <= sent
            BY <3>1
        <3> QED BY <3>2 DEF first, sent
    <2>5. spPhase' = "listening" =>
            spFresh' < SlideBytes /\ spFresh' = new(n + 1) - new(spSent')
        <3> SUFFICES ASSUME spPhase' = "listening"
                     PROVE  spFresh' < SlideBytes /\ spFresh' = new(n + 1) - new(spSent')
            OBVIOUS
        <3>1. ~(spFresh' >= SlideBytes) /\ spSent' = spSent /\ spFresh' = spFresh + bytes
            BY <1>1
        <3>2. new(spSent') = old(spSent) /\ old(spSent) \in Nat /\ old(n) \in Nat
            BY <1>6, <2>1, <3>1
        <3> QED BY <1>3, <1>6, <2>1, <2>2, <3>1, <3>2
    <2>6. spPhase' \in {"calling", "flushing", "done"} => spSent' = n + 1
        BY <1>1
    <2>7. Len(spEnds') = n + 1
        BY <1>4
    <2> QED BY <2>3, <2>4, <2>5, <2>6, <2>7 DEF WindowInv, new
<1>9. WholePhrases' => WholePhrases /\ (words = 0 \/ words >= MinAnchor)
    <2> SUFFICES ASSUME WholePhrases' PROVE WholePhrases /\ (words = 0 \/ words >= MinAnchor)
        OBVIOUS
    <2>1. \A c \in 1..(n + 1) : spWords'[c] - Upto(spWords', c - 1)
                                  \in {0} \cup {k \in ChunkWords : k >= MinAnchor}
        BY <1>4, LenProperties DEF WholePhrases
    <2>2. \A c \in 1..n : /\ spWords'[c] = spWords[c]
                          /\ Upto(spWords', c - 1) = Upto(spWords, c - 1)
        <3>1. \A c \in 1..n : c # 0 /\ c \in 0..n /\ c - 1 \in 0..n
            BY <1>2
        <3> QED BY <1>4, <3>1 DEF Upto
    <2>3. WholePhrases
        <3>1. \A c \in 1..n : spWords[c] - Upto(spWords, c - 1)
                                \in {0} \cup {k \in ChunkWords : k >= MinAnchor}
            BY <1>2, <2>1, <2>2
        <3>2. DOMAIN spWords = 1..n
            BY <1>2, LenProperties
        <3> QED BY <3>1, <3>2 DEF WholePhrases
    <2>4. spWords'[n + 1] - Upto(spWords', n + 1 - 1) = words
        <3>1. n + 1 # 0 /\ n + 1 - 1 = n /\ n \in 0..n
            BY <1>2
        <3>2. spWords'[n + 1] = Upto(spWords, n) + words
            BY <1>4, <3>1 DEF Upto
        <3>3. Upto(spWords', n + 1 - 1) = Upto(spWords, n)
            BY <1>4, <3>1
        <3>4. words \in Nat /\ Upto(spWords, n) \in Nat
            BY <1>3, <1>5, <3>1
        <3> QED BY <3>2, <3>3, <3>4
    <2> QED BY <1>2, <2>1, <2>3, <2>4
<1>10. PhrasesInv'
    <2> DEFINE old(c) == Upto(spWords, c)
               new(c) == Upto(spWords', c)
    <2>1. /\ \A c \in 0..n : old(c) \in Nat /\ new(c) = old(c)
          /\ new(n + 1) = old(n) + words
        BY <1>4, <1>5
    <2>2. \A c, d \in 0..n : c <= d =>
            /\ old(c) <= old(d)
            /\ WholePhrases => old(d) = old(c) \/ old(d) - old(c) >= MinAnchor
        BY <1>2 DEF PhrasesInv
    <2>3. MinAnchor \in Nat /\ words \in Nat
        BY <1>3, SpeechWindowAssumption
    <2> HIDE DEF old, new
    <2>4. ASSUME NEW c \in 0..(n + 1), NEW d \in 0..(n + 1), c <= d
          PROVE  /\ new(c) <= new(d)
                 /\ WholePhrases' => new(d) = new(c) \/ new(d) - new(c) >= MinAnchor
        <3>1. CASE d <= n
            <4>1. c \in 0..n /\ d \in 0..n
                BY <1>6, <2>4, <3>1
            <4> QED BY <1>9, <2>1, <2>2, <2>4, <4>1
        <3>2. CASE c = n + 1
            <4>1. c = d /\ new(c) \in Nat
                BY <1>6, <2>1, <2>3, <2>4, <3>2
            <4> QED BY <4>1
        <3>3. CASE c <= n /\ d = n + 1
            <4>1. c \in 0..n /\ c <= n
                BY <1>6, <3>3
            <4>2. /\ old(c) <= old(n) /\ old(c) \in Nat /\ old(n) \in Nat
                  /\ WholePhrases => old(n) = old(c) \/ old(n) - old(c) >= MinAnchor
                BY <1>6, <2>1, <2>2, <4>1
            <4>3. new(c) = old(c) /\ new(d) = old(n) + words
                BY <2>1, <3>3, <4>1
            <4> QED BY <1>9, <2>3, <4>2, <4>3
        <3> QED BY <1>6, <2>4, <3>1, <3>2, <3>3
    <2>5. Len(spWords') = n + 1
        BY <1>4
    <2> QED BY <2>4, <2>5 DEF PhrasesInv, new
<1>11. CleanInv'
    <2> SUFFICES ASSUME spSlips' = 0, WholePhrases' PROVE Faithful'
        BY DEF CleanInv
    <2>1. Faithful /\ Len(spOut) = Upto(spWords, spSent)
        BY <1>1, <1>2, <1>9 DEF CleanInv, SameOutput, Faithful
    <2>2. Len(spOut') = Upto(spWords', spSent) /\ spSent \in 0..Len(spWords')
        BY <1>1, <1>2, <1>4, <2>1 DEF SameOutput
    <2>3. spPhase' \in {"listening", "done"} => spSent' = spSent
        BY <1>1
    <2> QED BY <1>1, <1>4, <2>1, <2>2, <2>3 DEF Faithful, SameOutput
<1>12. EmittedInv' /\ MusicInv'
    BY <1>1, OutputFrame
<1> QED BY <1>7, <1>8, <1>10, <1>11, <1>12 DEF SPInv

LEMMA EndInv == SPInv /\ SPEnd => SPInv'
<1> SUFFICES ASSUME SPInv, SPEnd PROVE SPInv'
    OBVIOUS
<1> DEFINE n == Len(spEnds)
<1>1. /\ spPhase = "listening"
      /\ spPhase' = IF spFresh > 0 THEN "flushing" ELSE "done"
      /\ spSent' = IF spFresh > 0 THEN n ELSE spSent
      /\ spFresh' = spFresh /\ SameChunks /\ SameOutput
    BY DEF SPEnd, SameChunks, SameOutput
<1>2. /\ SPTypeOK /\ WindowInv /\ PhrasesInv /\ CleanInv
      /\ n \in Nat /\ Len(spWords) = n /\ spSent \in 0..n /\ spFresh \in Nat /\ n \in 0..n
      /\ spEnds \in Seq(Nat) /\ spFirst \in 1..(n + 1)
    BY LenProperties DEF SPInv, SPTypeOK
<1>3. Upto(spEnds, n) \in Nat /\ Upto(spEnds, spSent) \in Nat
    BY <1>2, UptoTyped
<1>4. spSent' = n
    <2>1. spFresh = Upto(spEnds, n) - Upto(spEnds, spSent)
        BY <1>1, <1>2 DEF WindowInv
    <2>2. spSent < n => Upto(spEnds, spSent) < Upto(spEnds, n)
        BY <1>2 DEF WindowInv
    <2> QED BY <1>1, <1>2, <1>3, <2>1, <2>2
<1>5. SPTypeOK'
    BY <1>1, <1>2, <1>4 DEF SPTypeOK, SameChunks, SameOutput
<1>6. WindowInv'
    <2>1. spPhase' # "listening" /\ spFirst' - 1 <= spSent' /\ spEnds' = spEnds
        BY <1>1, <1>2, <1>4 DEF SameChunks
    <2> QED BY <1>2, <1>4, <2>1 DEF WindowInv
<1>7. CleanInv'
    <2> SUFFICES ASSUME spSlips' = 0, WholePhrases' PROVE Faithful'
        BY DEF CleanInv
    <2>1. Faithful
        BY <1>1, <1>2, ChunksFrame DEF CleanInv, SameOutput
    <2>2. spPhase' = "done" => spSent' = spSent
        BY <1>1
    <2> QED BY <1>1, <2>1, <2>2 DEF Faithful, SameOutput, SameChunks
<1> QED BY <1>1, <1>5, <1>6, <1>7, OutputFrame, ChunksFrame DEF SPInv

LEMMA FailInv == SPInv /\ SPFail => SPInv'
<1> SUFFICES ASSUME SPInv, SPFail PROVE SPInv'
    OBVIOUS
<1>1. /\ spPhase' = "failed" /\ UNCHANGED <<spFresh, spSent>> /\ SameChunks /\ SameOutput
    BY DEF SPFail, SameChunks, SameOutput
<1>2. SPTypeOK /\ WindowInv /\ CleanInv
    BY DEF SPInv
<1>3. SPTypeOK'
    BY <1>1, <1>2 DEF SPTypeOK, SameChunks, SameOutput
<1>4. WindowInv'
    BY <1>1, <1>2 DEF WindowInv, SameChunks
<1>5. CleanInv'
    <2> SUFFICES ASSUME spSlips' = 0, WholePhrases' PROVE Faithful'
        BY DEF CleanInv
    <2>1. Faithful
        BY <1>1, <1>2, ChunksFrame DEF CleanInv, SameOutput
    <2> QED BY <1>1, <2>1 DEF Faithful, SameOutput, SameChunks
<1> QED BY <1>1, <1>3, <1>4, <1>5, OutputFrame, ChunksFrame DEF SPInv

-----------------------------------------------------------------------------
(* A transcript is heard.                                                  *)

LEMMA Parity ==
    ASSUME NEW n \in Nat
    PROVE  (n + 1) % 2 = 1 <=> n % 2 # 1
OBVIOUS

\* Each message is of the other kind than the last.
LEMMA Announced ==
    ASSUME NEW control \in Seq({"auto_music_detected", "auto_speech_resumed"}),
           NEW on \in BOOLEAN, Alternates(control, on)
    PROVE  LET message == IF on THEN "auto_speech_resumed" ELSE "auto_music_detected"
           IN  Alternates(Append(control, message), ~on)
<1> DEFINE message == IF on THEN "auto_speech_resumed" ELSE "auto_music_detected"
           n == Len(control)
           more == Append(control, message)
<1>1. n \in Nat /\ message \in {"auto_music_detected", "auto_speech_resumed"}
    BY LenProperties
<1>2. /\ Len(more) = n + 1 /\ more[n + 1] = message
      /\ \A i \in 1..n : more[i] = control[i]
    BY <1>1, AppendProperties
<1>3. /\ on <=> n % 2 = 1
      /\ \A i \in 1..n : control[i] = IF i % 2 = 1 THEN "auto_music_detected"
                                      ELSE "auto_speech_resumed"
    BY DEF Alternates
<1>4. (n + 1) % 2 = 1 <=> ~on
    BY <1>1, <1>3, Parity
<1>5. message = IF (n + 1) % 2 = 1 THEN "auto_music_detected" ELSE "auto_speech_resumed"
    BY <1>4
<1> HIDE DEF message, more, n
<1>6. \A i \in 1..(n + 1) : more[i] = IF i % 2 = 1 THEN "auto_music_detected"
                                      ELSE "auto_speech_resumed"
    <2> SUFFICES ASSUME NEW i \in 1..(n + 1)
                 PROVE  more[i] = IF i % 2 = 1 THEN "auto_music_detected"
                                  ELSE "auto_speech_resumed"
        OBVIOUS
    <2>1. i \in 1..n \/ i = n + 1
        BY <1>1
    <2>2. CASE i \in 1..n
        <3>1. more[i] = control[i]
            BY <1>2, <2>2
        <3>2. control[i] = IF i % 2 = 1 THEN "auto_music_detected" ELSE "auto_speech_resumed"
            BY <1>3, <2>2
        <3> QED BY <3>1, <3>2
    <2>3. CASE i = n + 1
        BY <1>2, <1>5, <2>3
    <2> QED BY <2>1, <2>2, <2>3
<1>7. Len(more) % 2 = 1 <=> ~on
    BY <1>2, <1>4
<1>8. Alternates(more, ~on)
    BY <1>2, <1>6, <1>7 DEF Alternates
<1> QED BY <1>8 DEF more, message

LEMMA MusicTrails ==
    ASSUME NEW out \in Seq(Int), NEW run \in Nat, Trailing(out, run)
    PROVE  Trailing(out \o <<Music>>, run + 1)
<1> DEFINE more == out \o <<Music>>
           n == Len(out)
<1>1. n \in Nat /\ <<Music>> \in Seq(Int) /\ Len(<<Music>>) = 1 /\ <<Music>>[1] = Music
    BY LenProperties DEF Music
<1>2. /\ Len(more) = n + 1
      /\ \A i \in 1..(n + 1) : more[i] = IF i <= n THEN out[i] ELSE <<Music>>[i - n]
    BY <1>1, ConcatProperties
<1>3. \A i \in 1..n : more[i] = out[i]
    BY <1>1, <1>2
<1>4. more[n + 1] = Music
    <2>1. n + 1 \in 1..(n + 1) /\ ~(n + 1 <= n) /\ n + 1 - n = 1
        BY <1>1
    <2> QED BY <1>1, <1>2, <2>1
<1> HIDE DEF more
<1>5. \A i \in 1..(n + 1) : i > n - run => more[i] = Music
    BY <1>1, <1>3, <1>4 DEF Trailing
<1>6. \A i \in 1..(n + 1) : i = n - run => more[i] # Music
    BY <1>1, <1>3, <1>4 DEF Trailing
<1>7. run + 1 <= n + 1 /\ n + 1 - (run + 1) = n - run
    BY <1>1 DEF Trailing
<1>8. \A i \in 1..(n + 1) : /\ i > n + 1 - (run + 1) => more[i] = Music
                            /\ i = n + 1 - (run + 1) => more[i] # Music
    BY <1>5, <1>6, <1>7
<1> DEFINE m == n + 1
           r == run + 1
<1>9. /\ Len(more) = m /\ r <= m
      /\ \A i \in 1..m : i > m - r => more[i] = Music
      /\ \A i \in 1..m : i = m - r => more[i] # Music
    BY <1>2, <1>7, <1>8
<1> HIDE DEF m, r
<1>10. Trailing(more, r)
    BY <1>9 DEF Trailing
<1> QED BY <1>10 DEF more, r

\* No word of a text is music.
Spoke(text) == \A i \in 1..Len(text) : text[i] # Music

LEMMA SpeechTrails ==
    ASSUME NEW out \in Seq(Int), NEW text \in Seq(Int), text # <<>>, Spoke(text)
    PROVE  Trailing(out \o text, 0)
<1> DEFINE more == out \o text
           n == Len(out)
           k == Len(text)
<1>1. n \in Nat /\ k \in Nat \ {0}
    BY LenProperties, EmptySeq
<1>2. /\ Len(more) = n + k
      /\ \A i \in 1..(n + k) : more[i] = IF i <= n THEN out[i] ELSE text[i - n]
    BY ConcatProperties
<1>3. more[n + k] = text[k]
    <2>1. n + k \in 1..(n + k) /\ ~(n + k <= n) /\ n + k - n = k
        BY <1>1
    <2> QED BY <1>2, <2>1
<1>4. text[k] # Music
    BY <1>1 DEF Spoke
<1> HIDE DEF more, n, k
<1> QED BY <1>1, <1>2, <1>3, <1>4 DEF Trailing, more

\* What is new is music, or speech, or nothing.
LEMMA SegmentKinds ==
    ASSUME SPInv, NEW text \in Transcripts
    PROVE  LET segment == NewText(spCommitted, text)
           IN  /\ segment \in Seq(Int)
               /\ segment = <<Music>> \/ Spoke(segment)
<1> DEFINE segment == NewText(spCommitted, text)
<1>1. spCommitted \in Seq(Int) /\ text \in Seq(Int) /\ (text = <<Music>> \/ Rising(text))
    BY AnswersRise DEF SPInv, SPTypeOK
<1>2. PICK e \in 0..Len(text) :
        /\ segment \in Seq(Int) /\ Len(segment) = Len(text) - e
        /\ \A i \in 1..(Len(text) - e) : segment[i] = text[e + i]
    BY <1>1, NewTextIsSuffix
<1> HIDE DEF segment
<1>3. CASE text = <<Music>>
    <2>1. Len(text) = 1 /\ text[1] = Music
        BY <1>3
    <2>2. CASE e = 0
        <3>1. Len(segment) = 1 /\ segment[1] = Music
            BY <1>2, <2>1, <2>2
        <3>2. segment = <<Music>>
            BY <1>2, <3>1
        <3> QED BY <1>2, <3>2 DEF segment
    <2>3. CASE e = 1
        <3>1. Len(segment) = 0
            BY <1>2, <2>1, <2>3
        <3> QED BY <1>2, <3>1 DEF Spoke, segment
    <2> QED BY <2>1, <2>2, <2>3
<1>4. CASE Rising(text)
    <2>1. \A i \in 1..Len(segment) : e + i \in 1..Len(text) /\ segment[i] = text[e + i]
        BY <1>1, <1>2, LenProperties
    <2>2. \A i \in 1..Len(text) : text[i] # Music
        BY <1>4 DEF Rising
    <2> QED BY <1>2, <2>1, <2>2 DEF Spoke, segment
<1> QED BY <1>1, <1>3, <1>4

LEMMA HeardMusic ==
    ASSUME SPInv, NEW text \in Transcripts, SPTranscribed(text)
    PROVE  MusicInv' /\ spMusic' \in [run : Nat, signalled : BOOLEAN]
           /\ spControl' \in Seq({"auto_music_detected", "auto_speech_resumed"})
<1> DEFINE segment == NewText(spCommitted, text)
           run == spMusic.run
           on == spMusic.signalled
<1>1. /\ spOut' = spOut \o segment
      /\ HearMusic(segment) \/ HearSpeech(segment) \/ HearNothing(segment)
    BY DEF SPTranscribed
<1>2. segment \in Seq(Int) /\ (segment = <<Music>> \/ Spoke(segment))
    BY SegmentKinds
<1>3. /\ spOut \in Seq(Int) /\ spMusic \in [run : Nat, signalled : BOOLEAN]
      /\ run \in Nat /\ on \in BOOLEAN
      /\ spControl \in Seq({"auto_music_detected", "auto_speech_resumed"})
      /\ MusicThreshold \in Nat \ {0}
    BY SpeechWindowAssumption DEF SPInv, SPTypeOK
<1>4. /\ Trailing(spOut, run) /\ (on <=> run >= MusicThreshold) /\ Alternates(spControl, on)
    BY DEF SPInv, MusicInv
<1>5. /\ on => Alternates(Append(spControl, "auto_speech_resumed"), FALSE)
      /\ ~on => Alternates(Append(spControl, "auto_music_detected"), TRUE)
      /\ on => Alternates(spControl, TRUE)
      /\ ~on => Alternates(spControl, FALSE)
    <2>1. CASE on = TRUE
        <3>1. Alternates(spControl, TRUE)
            BY <1>4, <2>1
        <3>2. Alternates(Append(spControl, "auto_speech_resumed"), ~TRUE)
            BY <1>3, <3>1, Announced
        <3> QED BY <2>1, <3>1, <3>2
    <2>2. CASE on = FALSE
        <3>1. Alternates(spControl, FALSE)
            BY <1>4, <2>2
        <3>2. Alternates(Append(spControl, "auto_music_detected"), ~FALSE)
            BY <1>3, <3>1, Announced
        <3> QED BY <2>2, <3>1, <3>2
    <2> QED BY <1>3, <2>1, <2>2
<1>6. \A m \in {"auto_music_detected", "auto_speech_resumed"} :
        Append(spControl, m) \in Seq({"auto_music_detected", "auto_speech_resumed"})
    BY <1>3, AppendProperties
<1>7. CASE HearMusic(segment)
    <2> DEFINE announce == run + 1 >= MusicThreshold /\ ~on
    <2>1. /\ segment = <<Music>>
          /\ spMusic' = [run |-> run + 1, signalled |-> on \/ announce]
          /\ spControl' = IF announce THEN Append(spControl, "auto_music_detected")
                          ELSE spControl
        BY <1>7 DEF HearMusic, IsMusicOutput
    <2>2. spMusic'.run = run + 1 /\ spMusic'.signalled = (on \/ announce) /\ run + 1 \in Nat
        BY <1>3, <2>1
    <2>3. Trailing(spOut', run + 1)
        BY <1>1, <1>3, <1>4, <2>1, MusicTrails
    <2>4. (on \/ announce) <=> run + 1 >= MusicThreshold
        BY <1>3, <1>4
    <2>5. Alternates(spControl', on \/ announce)
        <3>1. CASE announce
            <4>1. (on \/ announce) = TRUE
                BY <3>1
            <4> QED BY <1>5, <2>1, <3>1, <4>1
        <3>2. CASE ~announce /\ on
            <4>1. (on \/ announce) = TRUE
                BY <3>2
            <4> QED BY <1>5, <2>1, <3>2, <4>1
        <3>3. CASE ~announce /\ ~on
            <4>1. (on \/ announce) = FALSE
                BY <3>3
            <4> QED BY <1>5, <2>1, <3>3, <4>1
        <3> QED BY <3>1, <3>2, <3>3
    <2>6. /\ spMusic' \in [run : Nat, signalled : BOOLEAN]
          /\ spControl' \in Seq({"auto_music_detected", "auto_speech_resumed"})
        <3>1. (on \/ announce) \in BOOLEAN
            OBVIOUS
        <3> HIDE DEF announce
        <3> QED BY <1>3, <1>6, <2>1, <2>2, <3>1
    <2> HIDE DEF announce, run, on
    <2> QED BY <2>2, <2>3, <2>4, <2>5, <2>6 DEF MusicInv
<1>8. CASE HearSpeech(segment)
    <2>1. /\ segment # <<>> /\ segment # <<Music>>
          /\ spMusic' = [run |-> 0, signalled |-> FALSE]
          /\ spControl' = IF on THEN Append(spControl, "auto_speech_resumed") ELSE spControl
        BY <1>8 DEF HearSpeech, IsMusicOutput
    <2>2. Trailing(spOut', 0)
        BY <1>1, <1>2, <1>3, <2>1, SpeechTrails
    <2>3. Alternates(spControl', FALSE)
        BY <1>5, <2>1
    <2>4. spControl' \in Seq({"auto_music_detected", "auto_speech_resumed"})
        BY <1>3, <1>6, <2>1
    <2>5. /\ spMusic'.run = 0 /\ spMusic'.signalled = FALSE /\ ~(0 >= MusicThreshold)
          /\ spMusic' \in [run : Nat, signalled : BOOLEAN]
        BY <1>3, <2>1
    <2> QED BY <2>2, <2>3, <2>4, <2>5 DEF MusicInv
<1>9. CASE HearNothing(segment)
    <2>1. segment = <<>> /\ spMusic' = spMusic /\ spControl' = spControl
        BY <1>9 DEF HearNothing
    <2>2. spOut' = spOut
        BY <1>1, <1>3, <2>1, ConcatEmptySeq
    <2> QED BY <1>3, <2>1, <2>2 DEF SPInv, MusicInv
<1> QED BY <1>1, <1>7, <1>8, <1>9

\* Where the words of a sequence made of two come from.
Joined(both, s, t) ==
    /\ both \in Seq(Int) /\ Len(both) = Len(s) + Len(t)
    /\ \A i \in DOMAIN s : i \in DOMAIN both /\ both[i] = s[i]
    /\ \A i \in DOMAIN t : Len(s) + i \in DOMAIN both /\ both[Len(s) + i] = t[i]
    /\ \A j \in DOMAIN both : j \in DOMAIN s \/ \E i \in DOMAIN t : j = Len(s) + i

LEMMA JoinedWords ==
    ASSUME NEW s \in Seq(Int), NEW t \in Seq(Int)
    PROVE  Joined(s \o t, s, t)
<1> DEFINE both == s \o t
           m == Len(s)
           n == Len(t)
<1>1. m \in Nat /\ n \in Nat /\ DOMAIN s = 1..m /\ DOMAIN t = 1..n
    BY LenProperties
<1>2. /\ both \in Seq(Int) /\ Len(both) = m + n
      /\ \A i \in 1..(m + n) : both[i] = IF i <= m THEN s[i] ELSE t[i - m]
    BY ConcatProperties
<1>3. DOMAIN both = 1..(m + n)
    BY <1>2, LenProperties
<1> HIDE DEF both, m, n
<1>4. \A i \in 1..m : i \in 1..(m + n) /\ both[i] = s[i]
    BY <1>1, <1>2
<1>5. \A i \in 1..n : m + i \in 1..(m + n) /\ both[m + i] = t[i]
    <2> SUFFICES ASSUME NEW i \in 1..n PROVE m + i \in 1..(m + n) /\ both[m + i] = t[i]
        OBVIOUS
    <2> DEFINE j == m + i
    <2>1. j \in 1..(m + n) /\ ~(j <= m) /\ j - m = i
        BY <1>1
    <2> HIDE DEF j
    <2>2. both[j] = t[j - m]
        BY <1>2, <2>1
    <2> QED BY <2>1, <2>2 DEF j
<1>6. \A j \in 1..(m + n) : j \in 1..m \/ \E i \in 1..n : j = m + i
    <2> SUFFICES ASSUME NEW j \in 1..(m + n), ~(j \in 1..m) PROVE \E i \in 1..n : j = m + i
        OBVIOUS
    <2>1. j - m \in 1..n /\ j = m + (j - m)
        BY <1>1
    <2> QED BY <2>1
<1>7. /\ both \in Seq(Int) /\ Len(both) = m + n
      /\ \A i \in DOMAIN s : i \in DOMAIN both /\ both[i] = s[i]
      /\ \A i \in DOMAIN t : m + i \in DOMAIN both /\ both[m + i] = t[i]
      /\ \A j \in DOMAIN both : j \in DOMAIN s \/ \E i \in DOMAIN t : j = m + i
    BY <1>1, <1>2, <1>3, <1>4, <1>5, <1>6
<1> QED BY <1>7 DEF Joined, both, m, n

LEMMA EmittedStep ==
    ASSUME SPInv, NEW text \in Transcripts, SPTranscribed(text)
    PROVE  EmittedInv'
<1> DEFINE segment == NewText(spCommitted, text)
<1>1. /\ spOut' = spOut \o segment
      /\ spCommitted' = Commit(spCommitted, segment)
      /\ spNews' = {p \in Positions(text) : \A q \in Positions(spOut) : p > q}
    BY DEF SPTranscribed
<1>2. /\ spCommitted \in Seq(Int) /\ spOut \in Seq(Int) /\ text \in Seq(Int)
      /\ text = <<Music>> \/ Rising(text)
      /\ \A i \in DOMAIN spCommitted : \E j \in DOMAIN spOut : spOut[j] = spCommitted[i]
    BY AnswersRise DEF SPInv, SPTypeOK, EmittedInv
<1>3. PICK e \in 0..Len(text) :
        /\ segment \in Seq(Int) /\ Len(segment) = Len(text) - e
        /\ \A i \in 1..(Len(text) - e) : segment[i] = text[e + i]
        /\ e > 0 => Len(spCommitted) > 0 /\ text[e] = spCommitted[Len(spCommitted)]
    BY <1>2, NewTextIsSuffix
<1> DEFINE out == spOut \o segment
           all == spCommitted \o segment
<1>4. /\ out \in Seq(Int) /\ Len(text) \in Nat
      /\ \A i \in DOMAIN spOut : i \in DOMAIN out /\ out[i] = spOut[i]
      /\ \A i \in DOMAIN segment : Len(spOut) + i \in DOMAIN out
                                   /\ out[Len(spOut) + i] = segment[i]
    <2>1. Joined(out, spOut, segment)
        BY <1>2, <1>3, JoinedWords
    <2>2. Len(text) \in Nat
        BY <1>2, LenProperties
    <2> HIDE DEF out, segment
    <2> QED BY <2>1, <2>2 DEF Joined
<1>5. ASSUME NEW j \in DOMAIN all
      PROVE  \E k \in DOMAIN out : out[k] = all[j]
    <2>1. /\ \A i \in DOMAIN spCommitted : all[i] = spCommitted[i]
          /\ \A i \in DOMAIN segment : all[Len(spCommitted) + i] = segment[i]
          /\ j \in DOMAIN spCommitted \/ \E i \in DOMAIN segment : j = Len(spCommitted) + i
        <3>1. Joined(all, spCommitted, segment)
            BY <1>2, <1>3, JoinedWords
        <3> HIDE DEF all, segment
        <3> QED BY <3>1 DEF Joined
    <2> HIDE DEF all, out, segment
    <2>2. CASE j \in DOMAIN spCommitted
        <3>1. PICK k \in DOMAIN spOut : spOut[k] = spCommitted[j]
            BY <1>2, <2>2
        <3> QED BY <1>4, <2>1, <2>2, <3>1
    <2>3. CASE \E i \in DOMAIN segment : j = Len(spCommitted) + i
        <3>1. PICK i \in DOMAIN segment : j = Len(spCommitted) + i
            BY <2>3
        <3> QED BY <1>4, <2>1, <3>1
    <2> QED BY <2>1, <2>2, <2>3
<1>6. \A i \in DOMAIN spCommitted' : \E j \in DOMAIN spOut' : spOut'[j] = spCommitted'[i]
    <2> DEFINE n == Len(spCommitted) + Len(segment)
               k == IF HistoryCap <= n THEN HistoryCap ELSE n
               kept == Commit(spCommitted, segment)
    <2>1. /\ kept \in Seq(Int) /\ Len(kept) = k
          /\ \A i \in 1..k : kept[i] = all[n - k + i]
        BY <1>2, <1>3, CommitKeepsNewest
    <2>2. all \in Seq(Int) /\ Len(all) = n /\ n \in Nat /\ HistoryCap \in Nat
        <3>1. all \in Seq(Int) /\ Len(all) = n
            BY <1>2, <1>3, JoinedWords DEF Joined
        <3>2. Len(spCommitted) \in Nat /\ Len(segment) \in Nat
            BY <1>2, <1>3, LenProperties
        <3> HIDE DEF all, segment
        <3> QED BY <3>1, <3>2, SpeechWindowAssumption
    <2>3. DOMAIN kept = 1..k /\ DOMAIN all = 1..n
        BY <2>1, <2>2, LenProperties
    <2>4. k \in Nat /\ k <= n
        BY <2>2
    <2> HIDE DEF n, k, kept, all, out
    <2>5. \A i \in 1..k : n - k + i \in 1..n
        BY <2>2, <2>4
    <2>6. \A i \in DOMAIN kept : \E j \in DOMAIN out : out[j] = kept[i]
        BY <1>5, <2>1, <2>3, <2>5
    <2> QED BY <1>1, <2>6 DEF kept, out
<1>7. \A p \in spNews' : p \in Positions(out)
    <2> SUFFICES ASSUME NEW p \in spNews' PROVE p \in Positions(out)
        OBVIOUS
    <2>1. /\ p \in Positions(text) /\ \A q \in Positions(spOut) : p > q
        BY <1>1
    <2>2. PICK i \in 1..Len(text) : p = Position(text[i]) /\ p # Music
        <3>1. DOMAIN text = 1..Len(text)
            BY <1>2, LenProperties
        <3> QED BY <2>1, <3>1 DEF Positions
    <2>3. Rising(text)
        <3>1. text # <<Music>>
            <4> SUFFICES ASSUME text = <<Music>> PROVE FALSE
                OBVIOUS
            <4>1. i = 1 /\ text[i] = Music
                BY <2>2
            <4> QED BY <2>2, <4>1 DEF Position, Music
        <3> QED BY <1>2, <3>1
    <2> HIDE DEF out, segment
    <2>4. CASE i > e
        <3>1. i - e \in 1..(Len(text) - e) /\ e + (i - e) = i
            BY <1>4, <2>4
        <3>2. i - e \in DOMAIN segment /\ segment[i - e] = text[i]
            BY <1>3, <3>1, LenProperties
        <3>3. \E k \in DOMAIN out : out[k] = text[i]
            BY <1>4, <3>2
        <3> QED BY <2>2, <3>3 DEF Positions
    <2>5. CASE i <= e
        <3>1. /\ e \in 1..Len(text) /\ e > 0 /\ (i = e \/ i < e)
            BY <1>4, <2>5
        <3>2. text[e] = spCommitted[Len(spCommitted)] /\ Len(spCommitted) \in DOMAIN spCommitted
            BY <1>2, <1>3, <3>1, LenProperties
        <3>3. PICK j \in DOMAIN spOut : spOut[j] = text[e]
            BY <1>2, <3>2
        <3>4. /\ text[e] \in Int /\ text[e] # Music /\ text[i] \in Int
              /\ i < e => Position(text[i]) < Position(text[e])
            BY <2>3, <3>1 DEF Rising
        <3>5. Position(text[e]) \in Positions(spOut)
            BY <3>3, <3>4 DEF Positions, Position, Music
        <3>6. p > Position(text[e])
            BY <2>1, <3>5
        <3>7. p <= Position(text[e]) /\ p \in Int /\ Position(text[e]) \in Int
            BY <2>2, <3>1, <3>4 DEF Position
        <3> QED BY <3>6, <3>7
    <2> QED BY <1>4, <2>4, <2>5
<1>8. SpeechNeverDropped'
    BY <1>1, <1>7 DEF SpeechNeverDropped
<1> QED BY <1>6, <1>8 DEF EmittedInv

\* An exact transcript of the words b+1..t takes what was emitted and what is
\* remembered from m to t.
LEMMA ExactStep ==
    ASSUME NEW b, NEW m, NEW t, NEW norm, NEW out, NEW committed,
           Continues(b, m, t, norm, committed),
           out \in Seq(Int), Len(out) = m, Exact(out, committed)
    PROVE  LET segment == NewText(committed, norm)
           IN  /\ Exact(out \o segment, Commit(committed, segment))
               /\ Len(out \o segment) = t
<1> DEFINE segment == NewText(committed, norm)
           old == Len(committed)
           n == old + Len(segment)
           k == IF HistoryCap <= n THEN HistoryCap ELSE n
           more == out \o segment
           all == committed \o segment
           kept == Commit(committed, segment)
<1>1. /\ \A i \in 1..m : out[i] = i
      /\ old = IF HistoryCap <= m THEN HistoryCap ELSE m
      /\ \A i \in 1..old : committed[i] = m - old + i
      /\ b \in Nat /\ m \in Nat /\ t \in Nat /\ m <= t
      /\ norm \in Seq(Int) /\ committed \in Seq(Int)
    BY DEF Exact, Continues
<1>2. /\ Len(segment) = t - m
      /\ \A i \in 1..(t - m) : segment[i] = m + i
    BY ExactAdds
<1>3. segment \in Seq(Int)
    BY <1>1, NewTextIsSuffix
<1>4. /\ HistoryCap \in Nat /\ old \in Nat /\ old <= m /\ t - m \in Nat
      /\ n = old + (t - m) /\ n \in Nat
    <2>1. HistoryCap \in Nat
        BY SpeechWindowAssumption
    <2> HIDE DEF segment
    <2> QED BY <1>1, <1>2, <2>1
<1> HIDE DEF segment
<1>5. /\ Len(more) = t /\ \A i \in 1..t : more[i] = i
    <2>2. m + (t - m) = t /\ Len(out) = m
        BY <1>1
    <2>1. /\ Len(more) = t
          /\ \A i \in 1..t : more[i] = IF i <= m THEN out[i] ELSE segment[i - m]
        <3>1. /\ Len(more) = Len(out) + Len(segment)
              /\ \A i \in 1..(Len(out) + Len(segment)) :
                    more[i] = IF i <= Len(out) THEN out[i] ELSE segment[i - Len(out)]
            BY <1>3, ConcatProperties
        <3>2. Len(out) + Len(segment) = t
            BY <1>1, <1>2, <2>2
        <3> HIDE DEF more
        <3> QED BY <2>2, <3>1, <3>2
    <2> HIDE DEF more
    <2>3. ASSUME NEW i \in 1..t PROVE more[i] = i
        <3>1. more[i] = IF i <= m THEN out[i] ELSE segment[i - m]
            BY <2>1, <2>2
        <3>2. CASE i <= m
            BY <1>1, <3>1, <3>2
        <3>3. CASE ~(i <= m)
            <4>1. i - m \in 1..(t - m) /\ m + (i - m) = i
                BY <1>1, <3>3
            <4> QED BY <1>2, <3>1, <3>3, <4>1
        <3> QED BY <3>2, <3>3
    <2> QED BY <2>1, <2>2, <2>3
<1>6. \A j \in 1..n : all[j] = m - old + j
    <2>1. \A j \in 1..(old + Len(segment)) :
            all[j] = IF j <= old THEN committed[j] ELSE segment[j - old]
        BY <1>3, ConcatProperties
    <2> HIDE DEF all, old
    <2>2. ASSUME NEW j \in 1..n PROVE all[j] = m - old + j
        <3>1. all[j] = IF j <= old THEN committed[j] ELSE segment[j - old]
            BY <2>1
        <3>2. CASE j <= old
            BY <1>1, <1>4, <3>1, <3>2
        <3>3. CASE ~(j <= old)
            <4>1. j - old \in 1..(t - m) /\ m + (j - old) = m - old + j
                BY <1>4, <3>3
            <4> QED BY <1>2, <3>1, <3>3, <4>1
        <3> QED BY <3>2, <3>3
    <2> QED BY <2>2
<1>7. /\ Len(kept) = k /\ \A i \in 1..k : kept[i] = all[n - k + i]
    BY <1>1, <1>3, CommitKeepsNewest
<1> HIDE DEF n, old, kept, all, more
<1>8. k = IF HistoryCap <= t THEN HistoryCap ELSE t
    BY <1>1, <1>4
<1>9. k \in 0..n
    BY <1>4
<1> HIDE DEF k
<1>10. \A i \in 1..k : n - k + i \in 1..n /\ m - old + (n - k + i) = t - k + i
    BY <1>1, <1>4, <1>9
<1>11. \A i \in 1..k : kept[i] = t - k + i
    BY <1>6, <1>7, <1>10
<1>12. Exact(more, kept)
    BY <1>5, <1>7, <1>8, <1>11 DEF Exact
<1> QED BY <1>5, <1>12 DEF more, kept, segment

LEMMA CleanStep ==
    ASSUME SPInv, NEW text \in Transcripts, SPTranscribed(text), PhrasesInv',
           WholePhrases' <=> WholePhrases
    PROVE  CleanInv'
<1> SUFFICES ASSUME spSlips' = 0, WholePhrases' PROVE Faithful'
    BY DEF CleanInv
<1> DEFINE segment == NewText(spCommitted, text)
<1>1. /\ spSlips' = IF text = Spoken THEN spSlips ELSE spSlips + 1
      /\ spPhase \in {"calling", "flushing"}
      /\ spOut' = spOut \o segment
      /\ spCommitted' = Commit(spCommitted, segment)
      /\ UNCHANGED <<spEnds, spWords, spFirst, spSent>>
    BY DEF SPTranscribed
<1>2. /\ SPTypeOK /\ PhrasesInv /\ WindowInv /\ CleanInv
    BY DEF SPInv
<1>3. text = Spoken /\ spSlips = 0
    <2>1. spSlips \in Nat
        BY <1>2, SpeechWindowAssumption DEF SPTypeOK
    <2>2. spSlips + 1 # 0
        BY <2>1
    <2> QED BY <1>1, <2>2
<1>4. Faithful
    BY <1>2, <1>3 DEF CleanInv
<1>5. /\ Before \in Nat /\ Through \in Nat
      /\ Spoken \in Seq(Int) /\ Len(Spoken) = Through - Before
      /\ \A i \in 1..(Through - Before) : Spoken[i] = Before + i
    BY <1>2, SpokenWords
<1>6. /\ spOut \in Seq(Int) /\ spCommitted \in Seq(Int) /\ Len(spOut) \in Nat
      /\ Exact(spOut, spCommitted)
    BY <1>2, <1>4, LenProperties DEF SPTypeOK, Faithful
<1>7. /\ Before <= Len(spOut) /\ Len(spOut) <= Through
      /\ Len(spOut) = Before \/ Len(spOut) - Before >= MinAnchor
    <2>1. PICK c \in 0..Len(spWords) : spFirst - 1 <= c /\ Len(spOut) = Upto(spWords, c)
        BY <1>4 DEF Faithful
    <2>2. /\ Len(spWords) \in Nat /\ spFirst - 1 \in 0..Len(spWords)
          /\ Len(spWords) \in 0..Len(spWords) /\ c <= Len(spWords)
        BY <1>2, LenProperties DEF SPTypeOK
    <2> QED BY <1>2, <2>1, <2>2 DEF PhrasesInv, Before, Through
<1>8. Exact(spOut', spCommitted') /\ Len(spOut') = Through
    <2> DEFINE b == Before
               m == Len(spOut)
               t == Through
    <2>1. /\ b \in Nat /\ m \in Nat /\ t \in Nat /\ b <= m /\ m <= t
          /\ m = b \/ m - b >= MinAnchor
          /\ text \in Seq(Int) /\ Len(text) = t - b /\ \A i \in 1..(t - b) : text[i] = b + i
        BY <1>3, <1>5, <1>6, <1>7
    <2>2. Len(spOut) = m
        OBVIOUS
    <2> HIDE DEF b, m, t
    <2>4. Continues(b, m, t, text, spCommitted)
        BY <1>6, <2>1, <2>2 DEF Continues, Exact
    <2>3. /\ Exact(spOut \o segment, Commit(spCommitted, segment))
          /\ Len(spOut \o segment) = t
        BY <1>6, <2>2, <2>4, ExactStep
    <2> QED BY <1>1, <2>3 DEF t
<1>9. spSent' = Len(spWords') /\ Len(spWords') \in 0..Len(spWords')
      /\ spFirst' - 1 <= Len(spWords')
    <2>1. /\ spSent = Len(spWords) /\ Len(spWords) \in 0..Len(spWords)
          /\ spFirst - 1 <= Len(spWords)
        BY <1>1, <1>2, LenProperties DEF SPTypeOK, WindowInv
    <2> QED BY <1>1, <2>1
<1>10. Len(spOut') = Upto(spWords', Len(spWords'))
    BY <1>1, <1>8 DEF Through
<1> QED BY <1>8, <1>9, <1>10 DEF Faithful

LEMMA TranscribedInv ==
    ASSUME SPInv, NEW text \in Transcripts, SPTranscribed(text)
    PROVE  SPInv'
<1> DEFINE segment == NewText(spCommitted, text)
           n == Len(spEnds)
<1>1. /\ spPhase \in {"calling", "flushing"}
      /\ text # Spoken => spSlips < MaxSlips
      /\ spSlips' = IF text = Spoken THEN spSlips ELSE spSlips + 1
      /\ spFresh' = IF spPhase = "calling" THEN 0 ELSE spFresh
      /\ spPhase' = IF spPhase = "calling" THEN "listening" ELSE "done"
      /\ spCommitted' = Commit(spCommitted, segment)
      /\ spOut' = spOut \o segment
      /\ spNews' = {p \in Positions(text) : \A q \in Positions(spOut) : p > q}
      /\ UNCHANGED <<spEnds, spWords, spFirst, spSent>> /\ SameChunks
    BY DEF SPTranscribed, SameChunks
<1>2. /\ SPTypeOK /\ WindowInv /\ PhrasesInv
      /\ n \in Nat /\ spEnds \in Seq(Nat) /\ spSent = n
    BY <1>1, LenProperties DEF SPInv, SPTypeOK, WindowInv
<1>3. PhrasesInv' /\ (WholePhrases' <=> WholePhrases)
    BY <1>1, ChunksFrame
<1>4. CleanInv'
    BY <1>3, CleanStep
<1>5. WindowInv'
    <2>1. Upto(spEnds, n) - Upto(spEnds, n) = 0 /\ 0 < SlideBytes
        <3>1. n \in 0..n /\ SlideBytes \in Nat \ {0}
            BY <1>2, SpeechWindowAssumption
        <3>2. Upto(spEnds, n) \in Nat
            BY <1>2, <3>1, UptoTyped
        <3> QED BY <3>1, <3>2
    <2>2. spPhase' = "listening" => spFresh' = 0
        BY <1>1
    <2>3. /\ \A c, d \in 0..Len(spEnds') : c < d => Upto(spEnds', c) < Upto(spEnds', d)
          /\ spFirst' - 1 <= spSent'
        BY <1>1, <1>2 DEF WindowInv
    <2> QED BY <1>1, <1>2, <2>1, <2>2, <2>3 DEF WindowInv
<1>6. SPTypeOK'
    <2>1. segment \in Seq(Int) /\ spOut \in Seq(Int) /\ spCommitted \in Seq(Int)
        BY <1>2, SegmentKinds DEF SPTypeOK
    <2> HIDE DEF segment
    <2>2. spOut \o segment \in Seq(Int)
        BY <2>1, ConcatProperties
    <2>3. Commit(spCommitted, segment) \in Seq(Int)
          /\ Len(Commit(spCommitted, segment)) <= HistoryCap
        <3> DEFINE total == Len(spCommitted) + Len(segment)
                   k == IF HistoryCap <= total THEN HistoryCap ELSE total
        <3>1. /\ Commit(spCommitted, segment) \in Seq(Int)
              /\ Len(Commit(spCommitted, segment)) = k
            BY <2>1, CommitKeepsNewest
        <3>2. total \in Nat /\ HistoryCap \in Nat
            BY <2>1, LenProperties, SpeechWindowAssumption
        <3> HIDE DEF total
        <3>3. k <= HistoryCap
            BY <3>2
        <3> QED BY <3>1, <3>3
    <2>4. spSlips' \in 0..MaxSlips
        <3>1. spSlips \in 0..MaxSlips /\ MaxSlips \in Nat
            BY <1>2, SpeechWindowAssumption DEF SPTypeOK
        <3>2. text # Spoken => spSlips + 1 \in 0..MaxSlips
            BY <1>1, <3>1
        <3> QED BY <1>1, <3>1, <3>2
    <2>5. spFresh' \in Nat
        <3>1. spFresh \in Nat
            BY <1>2 DEF SPTypeOK
        <3> QED BY <1>1, <3>1
    <2>6. spNews' \in SUBSET Nat
        <3>1. text \in Seq(Int)
            BY <1>2, AnswersRise
        <3>2. \A i \in DOMAIN text : text[i] \in Int
            BY <3>1, LenProperties, ElementOfSeq
        <3>3. \A w \in Int : Position(w) \in Nat
            BY DEF Position
        <3>4. Positions(text) \in SUBSET Nat
            BY <3>2, <3>3 DEF Positions
        <3> QED BY <1>1, <3>4
    <2>7. spPhase' \in {"listening", "done"}
        BY <1>1
    <2>8. /\ spMusic' \in [run : Nat, signalled : BOOLEAN]
          /\ spControl' \in Seq({"auto_music_detected", "auto_speech_resumed"})
        BY HeardMusic
    <2> QED BY <1>1, <1>2, <2>2, <2>3, <2>4, <2>5, <2>6, <2>7, <2>8 DEF SPTypeOK
<1> QED BY <1>3, <1>4, <1>5, <1>6, HeardMusic, EmittedStep DEF SPInv

LEMMA SPStepInv == SPInv /\ [SPNext]_spVars => SPInv'
<1> SUFFICES ASSUME SPInv, [SPNext]_spVars PROVE SPInv'
    OBVIOUS
<1>1. CASE UNCHANGED spVars
    <2>1. /\ SameOutput /\ SameChunks /\ UNCHANGED <<spPhase, spFresh, spSent>>
        BY <1>1 DEF spVars, SameOutput, SameChunks
    <2>2. SPTypeOK /\ WindowInv /\ CleanInv
        BY DEF SPInv
    <2>3. SPTypeOK'
        BY <2>1, <2>2 DEF SPTypeOK, SameChunks, SameOutput
    <2>4. WindowInv'
        BY <2>1, <2>2 DEF WindowInv, SameChunks
    <2>5. CleanInv'
        BY <2>1, <2>2 DEF CleanInv, Faithful, WholePhrases, SameChunks, SameOutput
    <2> QED BY <2>1, <2>3, <2>4, <2>5, OutputFrame, ChunksFrame DEF SPInv
<1> QED BY <1>1, ChunkInv, EndInv, FailInv, TranscribedInv DEF SPNext

LEMMA SPInvariant == SPSpec => []SPInv
BY SPInitInv, SPStepInv, PTL DEF SPSpec

-----------------------------------------------------------------------------
(* The properties.                                                         *)

\* No chunk leaves the window before it was part of a request, and when the
\* stream has ended every chunk was: for all sizes that leave room for a
\* slide and the chunk that completes it.
THEOREM NothingLeftOut == SPSpec => []EveryChunkSent
<1>1. SPInv => EveryChunkSent
    BY DEF SPInv, WindowInv, EveryChunkSent
<1> QED BY <1>1, SPInvariant, PTL

\* In a recording whose words are all different, a word later than everything
\* emitted is emitted with the transcript it first appears in, whatever was
\* misheard, missed or music before.  (A phrase that is said again can be cut.)
THEOREM NewSpeechKept == SPSpec => []SpeechNeverDropped
<1>1. SPInv => SpeechNeverDropped
    BY DEF SPInv, EmittedInv
<1> QED BY <1>1, SPInvariant, PTL

\* Exact transcripts of silent chunks and of chunks with an anchor's worth of
\* words come out as the recording, however many windows overlap.
THEOREM CleanIsExact == SPSpec => []CleanStreamExact
<1>1. SPInv => CleanStreamExact
    <2> SUFFICES ASSUME SPInv, spSlips = 0, WholePhrases
                 PROVE  /\ \A i \in DOMAIN spOut : spOut[i] = i
                        /\ spPhase \in {"listening", "done"} => Len(spOut) = Upto(spWords, spSent)
        BY DEF CleanStreamExact
    <2>1. Faithful /\ spOut \in Seq(Int)
        BY DEF SPInv, CleanInv, SPTypeOK
    <2> QED BY <2>1, LenProperties DEF Faithful, Exact
<1> QED BY <1>1, SPInvariant, PTL

\* Music is shown exactly while the last texts were music, and the operator's
\* page is told of each change once: for every threshold.
THEOREM MusicIsExact == SPSpec => []MusicModeExact
<1>1. SPInv => MusicModeExact
    <2> SUFFICES ASSUME SPInv PROVE MusicModeExact
        OBVIOUS
    <2> DEFINE n == Len(spOut)
               run == spMusic.run
    <2>1. /\ n \in Nat /\ run \in Nat /\ MusicThreshold \in Nat \ {0}
          /\ spMusic.signalled <=> run >= MusicThreshold
          /\ run <= n
          /\ \A i \in 1..n : i > n - run => spOut[i] = Music
          /\ \A i \in 1..n : i = n - run => spOut[i] # Music
        BY SpeechWindowAssumption, LenProperties DEF SPInv, SPTypeOK, MusicInv, Trailing
    <2>2. /\ spMusic.signalled <=> Len(spControl) % 2 = 1
          /\ \A i \in DOMAIN spControl :
               spControl[i] = IF i % 2 = 1 THEN "auto_music_detected" ELSE "auto_speech_resumed"
        <3>1. DOMAIN spControl = 1..Len(spControl)
            BY LenProperties DEF SPInv, SPTypeOK
        <3>2. Alternates(spControl, spMusic.signalled)
            BY DEF SPInv, MusicInv
        <3> QED BY <3>1, <3>2 DEF Alternates
    <2> HIDE DEF n, run
    <2>3. run >= MusicThreshold =>
            n >= MusicThreshold /\ \A i \in (n - MusicThreshold + 1)..n : spOut[i] = Music
        BY <2>1
    <2>4. ASSUME ~(run >= MusicThreshold), n >= MusicThreshold
          PROVE  \E i \in (n - MusicThreshold + 1)..n : spOut[i] # Music
        <3>1. /\ n - run \in (n - MusicThreshold + 1)..n /\ n - run \in 1..n
            BY <2>1, <2>4
        <3> QED BY <2>1, <3>1
    <2> QED BY <2>1, <2>2, <2>3, <2>4 DEF MusicModeExact, n
<1> QED BY <1>1, SPInvariant, PTL

\* The history of committed words stays within its cap, and the window
\* always begins at a chunk that was recorded or is to come next.
THEOREM WindowTypes == SPSpec => []SPTypeOK
<1>1. SPInv => SPTypeOK
    BY DEF SPInv
<1> QED BY <1>1, SPInvariant, PTL

=============================================================================
