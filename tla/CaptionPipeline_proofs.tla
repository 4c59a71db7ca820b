----------------------- MODULE CaptionPipeline_proofs -----------------------
(***************************************************************************)
(* Proofs about CaptionPipeline, for every set of languages, of faults and *)
(* of endpoints and every bound: first what holds whatever fails and       *)
(* whoever connects, then what holds when the operators are audio          *)
(* operators whose starting sequence is read and whose drain ends.         *)
(***************************************************************************)
EXTENDS CaptionPipeline, OrderFacts, TLAPS

Handling == {"persisting", "source", "targets", "translating"}

\* The current event has yet to be published on l.
Awaited(l) ==
  \/ fan \in {"persisting", "source"}
  \/ fan = "targets" /\ l # cur.lang
  \/ l \in Targets /\ tr[l] # "idle"

\* Logs and queues whose texts grow, and how far they reach.
Rising(q) == \A i, j \in 1 .. Len(q) : i < j => q[i].text < q[j].text
UpTo(q, t) == \A i \in 1 .. Len(q) : q[i].text <= t
Below(q, t) == \A i \in 1 .. Len(q) : q[i].text < t

\* Nothing is numbered or worded beyond what was spoken.
Bounded ==
  /\ seq <= spoken
  /\ \A s \in Texts : rows[s] # 0 => s <= spoken
  /\ cur.seq <= spoken /\ cur.text <= spoken
  /\ \A i \in 1 .. Len(bus) : bus[i].seq <= spoken /\ bus[i].text <= spoken

\* The queue holds later segments than the current one, in order.
QueueInv ==
  /\ Rising(bus) /\ \A i \in 1 .. Len(bus) : cur.text < bus[i].text
  /\ fan \in {"off", "starting"} => bus = << >>

\* Who still works on the current event.
HandlingInv ==
  /\ fan \in Handling => cur \in Events
  /\ \A l \in Targets : tr[l] # "idle" => fan = "translating" /\ l # cur.lang

LogInv(l) == Rising(out[l]) /\ UpTo(out[l], cur.text) /\ (Awaited(l) => Below(out[l], cur.text))

TextInv == TypeOK /\ Bounded /\ QueueInv /\ HandlingInv /\ \A l \in Langs : LogInv(l)

\* The operators are audio operators whose starting sequence is read from the
\* database and whose drain ends: the case in which numbers are not used twice.
Numbered == Kinds \subseteq {"audio"} /\ "db" \notin Faults /\ "drain" \notin Faults

\* Every stored caption is before e, in number and in text.
RowsBefore(e) == \A s \in Texts : rows[s] # 0 => s < e.seq /\ rows[s] < e.text

\* The operator's counter is ahead of everything stored and queued, and a
\* queue is never left over for the next operator.
CounterInv ==
  /\ mode = "none" \/ ~seeded => bus = << >> /\ fan \in {"off", "starting", "idle"}
  /\ mode # "none" /\ seeded =>
       /\ \A s \in Texts : rows[s] # 0 => s <= seq
       /\ \A i \in 1 .. Len(bus) : bus[i].seq <= seq
       /\ fan \in Handling => cur.seq <= seq

\* The queue's numbers grow, after the stored ones and the current one.
QueueNumbers ==
  /\ \A i \in 1 .. Len(bus) : RowsBefore(bus[i])
  /\ \A i, j \in 1 .. Len(bus) : i < j => bus[i].seq < bus[j].seq
  /\ fan \in Handling => \A i \in 1 .. Len(bus) : cur.seq < bus[i].seq

\* The current event's row is new, and its own once it is inserted.
CurrentNumber ==
  /\ fan = "persisting" => RowsBefore(cur)
  /\ fan \in Handling \ {"persisting"} => hasRow /\ rows[cur.seq] = cur.text

RowsRising == \A s, t \in Texts : s < t /\ rows[s] # 0 /\ rows[t] # 0 => rows[s] < rows[t]
LogsAreRows ==
  \A l \in Langs : \A i \in 1 .. Len(out[l]) : rows[out[l][i].seq] = out[l][i].text

RowsInv ==
  /\ \A s \in Texts : rows[s] <= spoken
  /\ RowsRising /\ TranslationOfItsRow /\ LogsAreRows

NumberInv == CounterInv /\ QueueNumbers /\ CurrentNumber /\ RowsInv

-----------------------------------------------------------------------------
(* Lemmas about logs, queues and the largest stored number.                *)

\* starting_sequence is the largest stored number.
LEMMA LastStoredIsLargest ==
  ASSUME TypeOK
  PROVE  /\ LastStored \in 0 .. MaxTexts
         /\ LastStored = 0 \/ rows[LastStored] # 0
         /\ \A s \in Texts : rows[s] # 0 => s <= LastStored
<1> USE BoundsAssumption
<1> DEFINE P(m) == /\ m = 0 \/ rows[m] # 0
                   /\ \A s \in Texts : rows[s] # 0 => s <= m
           T == {s \in Texts : rows[s] # 0}
<1>1. \E m \in 0 .. MaxTexts : P(m)
  <2>1. CASE T = {}
    <3>1. P(0) /\ 0 \in 0 .. MaxTexts
      BY <2>1
    <3> QED BY <3>1
  <2>2. CASE T # {}
    <3>1. T \in SUBSET (0 .. MaxTexts) /\ MaxTexts \in Nat
      BY DEF Texts
    <3>2. PICK m \in T : \A x \in T : x <= m
      <4> HIDE DEF T
      <4> QED BY <2>2, <3>1, LargestExists
    <3>3. P(m) /\ m \in 0 .. MaxTexts
      BY <3>1, <3>2
    <3> QED BY <3>3
  <2> QED BY <2>1, <2>2
<1>2. LastStored = CHOOSE m \in 0 .. MaxTexts : P(m)
  BY DEF LastStored
<1> HIDE DEF P
<1>3. LastStored \in 0 .. MaxTexts /\ P(LastStored)
  BY <1>1, <1>2
<1> QED BY <1>3 DEF P

\* What publish leaves in the queue: its later part and the event.
LEMMA OfferShape ==
  ASSUME NEW q \in Seq(Events), Len(q) <= BusMax, NEW e \in Events
  PROVE  /\ Offer(q, e) \in Seq(Events) /\ Len(Offer(q, e)) <= BusMax
         /\ \E d \in {0, 1} :
              /\ Len(Offer(q, e)) = Len(q) + 1 - d
              /\ Offer(q, e)[Len(q) + 1 - d] = e
              /\ \A i \in 1 .. Len(q) - d :
                   i + d \in 1 .. Len(q) /\ Offer(q, e)[i] = q[i + d]
<1> USE BoundsAssumption
<1>1. CASE Len(q) < BusMax
  <2>1. Offer(q, e) = Append(q, e)
    BY <1>1 DEF Offer
  <2>2. /\ Append(q, e) \in Seq(Events) /\ Len(Append(q, e)) = Len(q) + 1 - 0
        /\ Append(q, e)[Len(q) + 1 - 0] = e
        /\ \A i \in 1 .. Len(q) - 0 : i + 0 \in 1 .. Len(q) /\ Append(q, e)[i] = q[i + 0]
    OBVIOUS
  <2> QED BY <1>1, <2>1, <2>2
<1>2. CASE ~ (Len(q) < BusMax)
  <2> DEFINE t == Tail(q)
  <2>1. Offer(q, e) = Append(t, e)
    BY <1>2 DEF Offer
  <2>2. /\ t \in Seq(Events) /\ Len(t) = Len(q) - 1 /\ Len(q) = BusMax /\ Len(q) \in Nat \ {0}
        /\ \A i \in 1 .. Len(q) - 1 : t[i] = q[i + 1]
    BY <1>2
  <2> HIDE DEF t
  <2>3. /\ Append(t, e) \in Seq(Events) /\ Len(Append(t, e)) = Len(q) + 1 - 1
        /\ Append(t, e)[Len(q) + 1 - 1] = e
        /\ \A i \in 1 .. Len(q) - 1 : i + 1 \in 1 .. Len(q) /\ Append(t, e)[i] = q[i + 1]
    BY <2>2
  <2> QED BY <2>1, <2>2, <2>3
<1> QED BY <1>1, <1>2

\* So what it holds is the event or was held before, in the order it had.
Offered(r, q, e) ==
  /\ \A i \in 1 .. Len(r) : r[i] = e \/ \E k \in 1 .. Len(q) : r[i] = q[k]
  /\ \A i, j \in 1 .. Len(r) : i < j =>
       \E k \in 1 .. Len(q) :
         r[i] = q[k] /\ (r[j] = e \/ \E m \in 1 .. Len(q) : k < m /\ r[j] = q[m])

LEMMA OfferOrder ==
  ASSUME NEW q \in Seq(Events), Len(q) <= BusMax, NEW e \in Events
  PROVE  Offered(Offer(q, e), q, e)
<1> DEFINE r == Offer(q, e)
           n == Len(q)
<1>1. \E d \in {0, 1} : /\ Len(r) = n + 1 - d /\ r[n + 1 - d] = e
                        /\ \A i \in 1 .. n - d : i + d \in 1 .. n /\ r[i] = q[i + d]
  BY OfferShape
<1>2. n \in Nat
  OBVIOUS
<1> HIDE DEF r, n
<1>3. PICK d \in {0, 1} : /\ Len(r) = n + 1 - d /\ r[n + 1 - d] = e
                          /\ \A i \in 1 .. n - d : i + d \in 1 .. n /\ r[i] = q[i + d]
  BY <1>1
<1>4. ASSUME NEW i \in 1 .. Len(r)
      PROVE  /\ i = n + 1 - d => r[i] = e
             /\ i # n + 1 - d => i \in 1 .. n - d /\ i + d \in 1 .. n /\ r[i] = q[i + d]
  BY <1>2, <1>3
<1>5. ASSUME NEW i \in 1 .. Len(r), NEW j \in 1 .. Len(r), i < j
      PROVE  \E k \in 1 .. n :
               r[i] = q[k] /\ (r[j] = e \/ \E m \in 1 .. n : k < m /\ r[j] = q[m])
  <2>1. i # n + 1 - d
    BY <1>2, <1>3, <1>5
  <2>2. i + d < j + d
    BY <1>2, <1>3, <1>5
  <2> QED BY <1>4, <2>1, <2>2
<1>6. \A i \in 1 .. Len(r) : r[i] = e \/ \E k \in 1 .. n : r[i] = q[k]
  BY <1>4
<1>7. Offered(r, q, e)
  BY <1>5, <1>6 DEF n, Offered
<1> QED BY <1>7 DEF r

\* A caption behind a log that is below it.
LEMMA AppendRising ==
  ASSUME NEW q \in Seq(Captions), NEW x \in Captions, Rising(q), Below(q, x.text)
  PROVE  /\ Append(q, x) \in Seq(Captions)
         /\ Rising(Append(q, x)) /\ UpTo(Append(q, x), x.text)
<1> USE BoundsAssumption
<1>1. /\ Append(q, x) \in Seq(Captions) /\ Len(Append(q, x)) = Len(q) + 1 /\ Len(q) \in Nat
      /\ Append(q, x)[Len(q) + 1] = x /\ \A i \in 1 .. Len(q) : Append(q, x)[i] = q[i]
  OBVIOUS
<1>2. x.text \in Int /\ \A i \in 1 .. Len(q) : q[i].text \in Int
  <2>1. \A y \in Captions : y.text \in Int
    BY DEF Captions, Texts
  <2>2. \A i \in 1 .. Len(q) : q[i] \in Captions
    OBVIOUS
  <2> QED BY <2>1, <2>2
<1> DEFINE r == Append(q, x)
<1> HIDE DEF r
<1>3. Rising(r)
  BY <1>1, <1>2 DEF Rising, Below, r
<1>4. UpTo(r, x.text)
  BY <1>1, <1>2 DEF UpTo, Below, r
<1> QED BY <1>1, <1>3, <1>4 DEF r

\* The ranges of what the queue and the fanout hold.
LEMMA EventTypes ==
  ASSUME TypeOK
  PROVE  /\ \A e \in Events : /\ e.seq \in Texts /\ e.text \in Texts /\ e.seq \in Nat
                              /\ e.text \in Nat /\ e.lang \in Langs /\ Caption(e) \in Captions
         /\ bus \in Seq(Events) /\ Len(bus) \in Nat /\ \A i \in 1 .. Len(bus) : bus[i] \in Events
         /\ cur.seq \in 0 .. MaxTexts /\ cur.text \in 0 .. MaxTexts
         /\ cur.seq \in Nat /\ cur.text \in Nat
         /\ \A l \in Langs : out[l] \in Seq(Captions) /\ Len(out[l]) \in Nat
         /\ \A l \in Langs : \A i \in 1 .. Len(out[l]) :
              out[l][i] \in Captions /\ out[l][i].text \in Nat /\ out[l][i].seq \in Texts
<1> USE BoundsAssumption
<1>1. \A e \in Events : /\ e.seq \in Texts /\ e.text \in Texts /\ e.seq \in Nat
                       /\ e.text \in Nat /\ e.lang \in Langs /\ Caption(e) \in Captions
  BY DEF Events, Captions, Caption, Texts, Langs
<1>2. \A x \in Captions : x.text \in Nat /\ x.seq \in Texts
  BY DEF Captions, Texts
<1>3. cur.seq \in 0 .. MaxTexts /\ cur.text \in 0 .. MaxTexts
  BY <1>1 DEF TypeOK, NoEvent, Texts
<1>4. \A l \in Langs : out[l] \in Seq(Captions)
  BY DEF TypeOK
<1>5. \A l \in Langs : \A i \in 1 .. Len(out[l]) : out[l][i] \in Captions
  BY <1>4
<1> QED BY <1>1, <1>2, <1>3, <1>4, <1>5 DEF TypeOK

-----------------------------------------------------------------------------
(* What holds whatever fails and whoever connects.                         *)

\* A step after which a channel carries what it did, or the current event too.
LEMMA LogStep ==
  ASSUME TextInv, NEW l \in Langs, UNCHANGED cur,
         \/ out'[l] = out[l] /\ (Awaited(l)' => Awaited(l))
         \/ out'[l] = Append(out[l], Caption(cur)) /\ Awaited(l) /\ ~Awaited(l)'
  PROVE  LogInv(l)' /\ out'[l] \in Seq(Captions)
<1>1. LogInv(l) /\ out[l] \in Seq(Captions)
  BY DEF TextInv, TypeOK
<1>2. CASE out'[l] = out[l] /\ (Awaited(l)' => Awaited(l))
  BY <1>1, <1>2 DEF LogInv, Rising, UpTo, Below
<1>3. CASE out'[l] = Append(out[l], Caption(cur)) /\ Awaited(l) /\ ~Awaited(l)'
  <2>1. cur \in Events /\ Below(out[l], cur.text)
    BY <1>1, <1>3 DEF TextInv, HandlingInv, Handling, Awaited, LogInv
  <2>2. Caption(cur) \in Captions /\ Caption(cur).text = cur.text
    BY <2>1, EventTypes DEF TextInv, Caption
  <2>3. /\ Append(out[l], Caption(cur)) \in Seq(Captions) /\ Rising(Append(out[l], Caption(cur)))
        /\ UpTo(Append(out[l], Caption(cur)), cur.text)
    BY <1>1, <2>1, <2>2, AppendRising DEF LogInv
  <2> QED BY <1>3, <2>3 DEF LogInv, Rising, UpTo
<1> QED BY <1>2, <1>3

\* A step that publishes nothing and leaves the current event.
LEMMA QuietLogs ==
  ASSUME TextInv, UNCHANGED <<cur, out>>, \A l \in Langs : Awaited(l)' => Awaited(l)
  PROVE  \A l \in Langs : LogInv(l)'
BY LogStep

LEMMA ConnectText ==
  ASSUME TextInv, NEW kind \in Kinds, Connect(kind)
  PROVE  TextInv'
<1> USE BoundsAssumption
<1>1. TypeOK /\ UNCHANGED <<spoken, bus, cur, hasRow, tr, rows, trows, out>> /\ seq' = 0
  BY DEF TextInv, Connect, handling, stored
<1>2. /\ fan' = fan \/ (fan = "off" /\ fan' = "starting")
      /\ mode' \in Kinds \cup {"none"} /\ seeded' \in BOOLEAN /\ epochs' \in 0 .. MaxEpochs
  BY <1>1 DEF Connect, TypeOK
<1>3. TypeOK'
  BY <1>1, <1>2 DEF TypeOK
<1>4. Bounded'
  <2>1. seq' <= spoken'
    BY <1>1 DEF TypeOK
  <2> QED BY <1>1, <2>1 DEF TextInv, Bounded
<1>5. QueueInv' /\ HandlingInv'
  BY <1>1, <1>2 DEF TextInv, QueueInv, HandlingInv, Rising, Handling
<1>6. \A l \in Langs : LogInv(l)'
  BY <1>1, <1>2, QuietLogs DEF Awaited
<1> QED BY <1>3, <1>4, <1>5, <1>6 DEF TextInv

LEMMA SeedText ==
  ASSUME TextInv, Seed
  PROVE  TextInv'
<1> USE BoundsAssumption
<1>1. /\ TypeOK /\ UNCHANGED <<mode, spoken, epochs, fan, bus, cur, hasRow, tr, rows, trows, out>>
      /\ seeded' = TRUE /\ seq' \in {LastStored, 0}
  BY DEF TextInv, Seed, handling, stored, StartingSequence
<1>2. seq' \in 0 .. MaxTexts /\ seq' <= spoken
  <2>1. LastStored \in 0 .. MaxTexts /\ (LastStored = 0 \/ rows[LastStored] # 0)
    BY <1>1, LastStoredIsLargest
  <2>2. LastStored <= spoken
    <3>1. CASE LastStored = 0
      BY <1>1, <3>1 DEF TypeOK
    <3>2. CASE LastStored # 0
      BY <2>1, <3>2 DEF TextInv, Bounded, Texts
    <3> QED BY <3>1, <3>2
  <2> QED BY <1>1, <2>1, <2>2 DEF TypeOK
<1>3. TypeOK' /\ Bounded' /\ QueueInv' /\ HandlingInv'
  BY <1>1, <1>2 DEF TypeOK, TextInv, Bounded, QueueInv, HandlingInv, Rising
<1>4. \A l \in Langs : LogInv(l)'
  BY <1>1, QuietLogs DEF Awaited
<1> QED BY <1>3, <1>4 DEF TextInv

LEMMA AcceptText ==
  ASSUME TextInv, NEW lang \in SpeechLangs, Accept(lang)
  PROVE  TextInv'
<1> USE BoundsAssumption
<1> DEFINE e == [seq |-> seq + 1, text |-> spoken + 1, lang |-> lang]
<1>1. /\ TypeOK /\ Bounded /\ QueueInv
      /\ UNCHANGED <<mode, seeded, epochs, fan, cur, hasRow, tr, rows, trows, out>>
      /\ spoken' = spoken + 1 /\ seq' = seq + 1 /\ spoken < MaxTexts
      /\ bus' = IF fan \in {"off", "starting"} THEN bus ELSE Offer(bus, e)
  BY DEF TextInv, Accept, handling, stored
<1>2. /\ seq \in 0 .. MaxTexts /\ spoken \in 0 .. MaxTexts /\ seq <= spoken
      /\ seq' \in 0 .. MaxTexts /\ spoken' \in 0 .. MaxTexts /\ seq' <= spoken'
      /\ e \in Events /\ e.seq = seq' /\ e.text = spoken'
  BY <1>1 DEF TypeOK, Bounded, Events, Texts
<1> HIDE DEF e
<1>3. /\ bus \in Seq(Events) /\ Len(bus) <= BusMax /\ Len(bus) \in Nat
      /\ cur.seq \in Nat /\ cur.text \in Nat
      /\ \A i \in 1 .. Len(bus) : bus[i].seq \in Nat /\ bus[i].text \in Nat
      /\ \A i \in 1 .. Len(bus) : /\ bus[i].seq <= spoken /\ bus[i].text <= spoken
                                  /\ cur.text < bus[i].text
      /\ Rising(bus) /\ cur.seq <= spoken /\ cur.text <= spoken
  BY <1>1, EventTypes DEF TypeOK, Bounded, QueueInv
<1>4. /\ bus' \in Seq(Events) /\ Len(bus') <= BusMax
      /\ \A i \in 1 .. Len(bus') : /\ bus'[i].seq <= spoken' /\ bus'[i].text <= spoken'
                                   /\ cur.text < bus'[i].text
      /\ Rising(bus')
  <2>1. CASE fan \in {"off", "starting"}
    <3>1. bus' = bus /\ spoken <= spoken' /\ spoken \in Nat /\ spoken' \in Nat /\ cur' = cur
      BY <1>1, <1>2, <2>1
    <3>2. \A i \in 1 .. Len(bus) : bus[i].seq <= spoken' /\ bus[i].text <= spoken'
      BY <1>3, <3>1
    <3> QED BY <1>3, <3>1, <3>2
  <2>2. CASE fan \notin {"off", "starting"}
    <3>1. bus' = Offer(bus, e)
      BY <1>1, <2>2
    <3>2. Offered(bus', bus, e)
      BY <1>2, <1>3, <3>1, OfferOrder
    <3>3. bus' \in Seq(Events) /\ Len(bus') <= BusMax
      BY <1>2, <1>3, <3>1, OfferShape
    <3>4. /\ cur.text < e.text /\ e.seq <= spoken' /\ e.text <= spoken'
          /\ \A k \in 1 .. Len(bus) : /\ bus[k].seq <= spoken' /\ bus[k].text <= spoken'
                                      /\ bus[k].text < e.text
      BY <1>1, <1>2, <1>3
    <3>5. \A i \in 1 .. Len(bus') : /\ bus'[i].seq <= spoken' /\ bus'[i].text <= spoken'
                                    /\ cur.text < bus'[i].text
      BY <1>3, <3>2, <3>4 DEF Offered
    <3>6. Rising(bus')
      <4> SUFFICES ASSUME NEW i \in 1 .. Len(bus'), NEW j \in 1 .. Len(bus'), i < j
                   PROVE  bus'[i].text < bus'[j].text
        BY DEF Rising
      <4>1. PICK k \in 1 .. Len(bus) :
              /\ bus'[i] = bus[k]
              /\ bus'[j] = e \/ \E m \in 1 .. Len(bus) : k < m /\ bus'[j] = bus[m]
        BY <3>2 DEF Offered
      <4>2. \A m \in 1 .. Len(bus) : k < m => bus[k].text < bus[m].text
        BY <1>3 DEF Rising
      <4> QED BY <3>4, <4>1, <4>2
    <3> QED BY <3>3, <3>5, <3>6
  <2> QED BY <2>1, <2>2
<1>5. TypeOK'
  BY <1>1, <1>2, <1>4 DEF TypeOK
<1>6. Bounded'
  <2>1. \A s \in Texts : rows[s] # 0 => s <= spoken'
    BY <1>1, <1>2 DEF Bounded, Texts
  <2> QED BY <1>1, <1>2, <1>3, <1>4, <2>1 DEF Bounded
<1>7. QueueInv' /\ HandlingInv'
  BY <1>1, <1>4 DEF TextInv, QueueInv, HandlingInv, Rising
<1>8. \A l \in Langs : LogInv(l)'
  BY <1>1, QuietLogs DEF Awaited
<1> QED BY <1>5, <1>6, <1>7, <1>8 DEF TextInv

LEMMA TakeText ==
  ASSUME TextInv, Take
  PROVE  TextInv'
<1> USE BoundsAssumption
<1>1. /\ TypeOK /\ Bounded /\ QueueInv /\ fan = "idle" /\ fan' = "persisting" /\ bus # << >>
      /\ UNCHANGED <<mode, seeded, seq, spoken, epochs, hasRow, tr, rows, trows, out>>
      /\ cur' = Head(bus) /\ bus' = Tail(bus)
  BY DEF TextInv, Take, ingest, stored
<1>2. /\ bus \in Seq(Events) /\ Len(bus) <= BusMax /\ Len(bus) \in Nat \ {0}
      /\ cur' = bus[1] /\ bus[1] \in Events /\ bus' \in Seq(Events) /\ Len(bus') = Len(bus) - 1
      /\ \A i \in 1 .. Len(bus') : i + 1 \in 1 .. Len(bus) /\ bus'[i] = bus[i + 1]
  BY <1>1, EventTypes DEF TypeOK
<1>3. /\ \A i \in 1 .. Len(bus) : bus[i].seq <= spoken /\ bus[i].text <= spoken
      /\ \A i \in 1 .. Len(bus) : bus[i].text \in Nat
      /\ cur.text < bus[1].text /\ cur.text \in Nat
  BY <1>1, <1>2, EventTypes DEF Bounded, QueueInv
<1>4. TypeOK'
  BY <1>1, <1>2 DEF TypeOK
<1>5. Bounded'
  BY <1>1, <1>2, <1>3 DEF Bounded
<1>6. QueueInv'
  <2>1. ASSUME NEW i \in 1 .. Len(bus') PROVE cur'.text < bus'[i].text
    BY <1>1, <1>2 DEF QueueInv, Rising
  <2>2. Rising(bus')
    <3> SUFFICES ASSUME NEW i \in 1 .. Len(bus'), NEW j \in 1 .. Len(bus'), i < j
                 PROVE  bus'[i].text < bus'[j].text
      BY DEF Rising
    <3>1. i + 1 \in 1 .. Len(bus) /\ j + 1 \in 1 .. Len(bus) /\ i + 1 < j + 1
      BY <1>2
    <3> QED BY <1>1, <1>2, <3>1 DEF QueueInv, Rising
  <2> QED BY <1>1, <2>1, <2>2 DEF QueueInv, Rising
<1>7. HandlingInv'
  BY <1>1, <1>2 DEF TextInv, HandlingInv
<1>8. ASSUME NEW l \in Langs PROVE LogInv(l)'
  <2>1. LogInv(l) /\ \A i \in 1 .. Len(out[l]) : out[l][i].text \in Nat
    BY <1>1, EventTypes DEF TextInv
  <2>2. \A i \in 1 .. Len(out[l]) : out[l][i].text < cur'.text
    BY <1>2, <1>3, <2>1 DEF LogInv, UpTo
  <2>3. \A i \in 1 .. Len(out[l]) : out[l][i].text <= cur'.text
    BY <1>2, <1>3, <2>1, <2>2
  <2> QED BY <1>1, <2>1, <2>2, <2>3 DEF LogInv, Rising, UpTo, Below
<1> QED BY <1>4, <1>5, <1>6, <1>7, <1>8 DEF TextInv


\* The row of the current event, when one is inserted.
LEMMA InsertShape ==
  ASSUME TypeOK, cur \in Events
  PROVE  /\ InsertRow(rows) \in [Texts -> 0 .. MaxTexts]
         /\ \A s \in Texts : s # cur.seq => InsertRow(rows)[s] = rows[s]
         /\ rows[cur.seq] # 0 => InsertRow(rows) = rows
         /\ rows[cur.seq] = 0 => InsertRow(rows)[cur.seq] = cur.text
<1> USE BoundsAssumption
<1>1. rows \in [Texts -> 0 .. MaxTexts] /\ cur.seq \in Texts /\ cur.text \in 0 .. MaxTexts
  BY EventTypes DEF TypeOK
<1> QED BY <1>1 DEF InsertRow

\* What the fanout's steps leave alone and keep, but for the logs.
HandlingStep ==
  /\ mode' \in Kinds \cup {"none"} /\ UNCHANGED <<seeded, seq, spoken, epochs, cur>>
  /\ fan' \in {"off", "idle"} \cup Handling /\ (fan' \in Handling => fan \in Handling)
  /\ bus' \in {bus, << >>} /\ (fan' = "off" => bus' = << >>)
  /\ hasRow' \in BOOLEAN
  /\ tr' \in [Targets -> {"idle", "translating", "storing", "speech", "publishing"}]
  /\ \A l \in Targets : tr'[l] # "idle" => fan' = "translating" /\ l # cur.lang
  /\ rows' = rows \/ (fan \in Handling /\ rows' = InsertRow(rows))
  /\ trows' \in [Targets -> [Texts -> 0 .. MaxTexts]]

\* Each channel is left alone or carries an event that was awaited there.
LogsStep ==
  /\ out' = [l \in Langs |-> out'[l]]
  /\ \A l \in Langs :
       \/ out'[l] = out[l] /\ (Awaited(l)' => Awaited(l))
       \/ out'[l] = Append(out[l], Caption(cur)) /\ Awaited(l) /\ ~Awaited(l)'

\* The steps of the fanout that leave its current event.
LEMMA FanoutText ==
  ASSUME TextInv, HandlingStep, LogsStep
  PROVE  TextInv'
<1> USE DEF HandlingStep
<1> USE BoundsAssumption
<1>1. \A l \in Langs : LogInv(l)' /\ out'[l] \in Seq(Captions)
  BY LogStep DEF LogsStep
<1>2. TypeOK /\ Bounded /\ QueueInv /\ HandlingInv
  BY DEF TextInv
<1>3. /\ rows' \in [Texts -> 0 .. MaxTexts]
      /\ \A s \in Texts : rows'[s] # 0 => rows[s] # 0 \/ s = cur.seq
  <2>1. CASE rows' = rows
    BY <1>2, <2>1 DEF TypeOK
  <2>2. CASE fan \in Handling /\ rows' = InsertRow(rows)
    <3>1. cur \in Events
      BY <1>2, <2>2 DEF HandlingInv
    <3> QED BY <1>2, <2>2, <3>1, InsertShape
  <2> QED BY <2>1, <2>2
<1>4. out' \in [Langs -> Seq(Captions)]
  BY <1>1 DEF LogsStep
<1>5. bus' \in Seq(Events) /\ Len(bus') <= BusMax
  <2>1. << >> \in Seq(Events) /\ Len(<< >>) <= BusMax
    OBVIOUS
  <2> QED BY <1>2, <2>1 DEF TypeOK
<1>6. TypeOK'
  BY <1>2, <1>3, <1>4, <1>5 DEF TypeOK, Handling
<1>7. Bounded'
  <2>1. \A s \in Texts : rows'[s] # 0 => s <= spoken
    BY <1>2, <1>3 DEF Bounded
  <2>2. \A i \in 1 .. Len(bus') : bus'[i].seq <= spoken /\ bus'[i].text <= spoken
    BY <1>2 DEF Bounded
  <2> QED BY <1>2, <2>1, <2>2 DEF Bounded
<1>8. QueueInv'
  <2>1. fan' \in {"off", "starting"} => bus' = << >>
    BY DEF Handling
  <2>2. CASE bus' = bus
    BY <1>2, <2>1, <2>2 DEF QueueInv, Rising
  <2>3. CASE bus' = << >>
    BY <2>3 DEF QueueInv, Rising
  <2> QED BY <2>2, <2>3
<1>9. HandlingInv'
  BY <1>2 DEF HandlingInv
<1> QED BY <1>1, <1>6, <1>7, <1>8, <1>9 DEF TextInv

\* What a publish does to each channel.
LEMMA BroadcastShape ==
  ASSUME NEW S
  PROVE  /\ Broadcast(S) = [l \in Langs |-> Broadcast(S)[l]]
         /\ \A l \in Langs : /\ l \in S => Broadcast(S)[l] = Append(out[l], Caption(cur))
                             /\ l \notin S => Broadcast(S)[l] = out[l]
BY DEF Broadcast

\* What TextInv says of the fanout before a step.
LEMMA BeforeStep ==
  ASSUME TextInv
  PROVE  /\ mode \in Kinds \cup {"none"} /\ hasRow \in BOOLEAN
         /\ fan \in {"off", "starting", "idle"} \cup Handling
         /\ tr \in [Targets -> {"idle", "translating", "storing", "speech", "publishing"}]
         /\ trows \in [Targets -> [Texts -> 0 .. MaxTexts]]
         /\ out = [l \in Langs |-> out[l]]
         /\ \A l \in Targets : tr[l] # "idle" => fan = "translating" /\ l # cur.lang
         /\ \A l \in Targets : l \in Langs
         /\ fan \in Handling => cur \in Events /\ cur.seq \in Texts /\ cur.text \in 0 .. MaxTexts
                                /\ cur.lang \in Langs
<1>1. TypeOK /\ HandlingInv
  BY DEF TextInv
<1>2. out = [l \in Langs |-> out[l]]
  BY <1>1 DEF TypeOK
<1>3. fan \in Handling => cur \in Events /\ cur.seq \in Texts /\ cur.text \in 0 .. MaxTexts
                          /\ cur.lang \in Langs
  BY <1>1, EventTypes DEF HandlingInv
<1> QED BY <1>1, <1>2, <1>3 DEF TypeOK, HandlingInv, Handling, Langs

\* A step that publishes nothing.
LEMMA QuietStep ==
  ASSUME TextInv, UNCHANGED out, \A l \in Langs : Awaited(l)' => Awaited(l)
  PROVE  LogsStep
BY BeforeStep DEF LogsStep

LEMMA SubscribeText ==
  ASSUME TextInv, Subscribe
  PROVE  TextInv'
<1>1. /\ fan = "starting" /\ fan' = "idle"
      /\ UNCHANGED <<mode, seeded, seq, spoken, epochs, bus, cur, hasRow, tr, rows, trows, out>>
  BY DEF Subscribe, ingest, handling, stored
<1>2. \A l \in Langs : Awaited(l)' => Awaited(l)
  BY <1>1 DEF Awaited
<1>3. HandlingStep
  BY <1>1, BeforeStep DEF HandlingStep, Handling
<1>4. LogsStep
  BY <1>1, <1>2, QuietStep
<1> QED BY <1>3, <1>4, FanoutText

LEMMA PersistText ==
  ASSUME TextInv, Persist
  PROVE  TextInv'
<1>1. /\ fan = "persisting" /\ fan' = "source" /\ hasRow' \in BOOLEAN
      /\ rows' \in {rows, InsertRow(rows)}
      /\ UNCHANGED <<mode, seeded, seq, spoken, epochs, bus, cur, tr, trows, out>>
  BY DEF Persist, ingest
<1>2. \A l \in Langs : Awaited(l)' => Awaited(l)
  BY <1>1 DEF Awaited
<1>3. \A l \in Targets : tr[l] = "idle"
  BY <1>1, BeforeStep
<1>4. HandlingStep
  BY <1>1, <1>3, BeforeStep DEF HandlingStep, Handling
<1>5. LogsStep
  BY <1>1, <1>2, QuietStep
<1> QED BY <1>4, <1>5, FanoutText

LEMMA PublishSourceText ==
  ASSUME TextInv, PublishSource
  PROVE  TextInv'
<1>1. /\ fan = "source" /\ fan' \in {"targets", "idle"}
      /\ out' = Broadcast({cur.lang}) \/ (fan' = "idle" /\ out' = out)
      /\ UNCHANGED <<mode, seeded, seq, spoken, epochs, bus, cur, hasRow, tr, rows, trows>>
  BY DEF PublishSource, ingest, handling, stored
<1>2. \A l \in Targets : tr[l] = "idle"
  BY <1>1, BeforeStep
<1>3. \A l \in Langs : Awaited(l) /\ (Awaited(l)' => fan' = "targets" /\ l # cur.lang)
  BY <1>1, <1>2 DEF Awaited
<1>4. LogsStep
  <2>1. CASE out' = Broadcast({cur.lang})
    <3>1. \A l \in Langs : l = cur.lang => ~Awaited(l)'
      BY <1>3
    <3>2. ASSUME NEW l \in Langs
          PROVE  out'[l] = out[l] \/ (l = cur.lang /\ out'[l] = Append(out[l], Caption(cur)))
      BY <2>1, BroadcastShape
    <3>3. out' = [l \in Langs |-> out'[l]]
      BY <2>1, BroadcastShape
    <3> QED BY <1>3, <3>1, <3>2, <3>3 DEF LogsStep
  <2>2. CASE out' = out
    BY <1>3, <2>2, QuietStep
  <2> QED BY <1>1, <2>1, <2>2
<1>5. HandlingStep
  BY <1>1, <1>2, BeforeStep DEF HandlingStep, Handling
<1> QED BY <1>5, <1>4, FanoutText

LEMMA GetTargetsText ==
  ASSUME TextInv, GetTargets
  PROVE  TextInv'
<1>1. /\ fan = "targets" /\ fan' \in {"translating", "idle"}
      /\ \/ /\ fan' = "translating"
            /\ tr' = [l \in Targets |-> IF l = cur.lang \/ cur.text \in Masked
                                        THEN "idle" ELSE "translating"]
         \/ fan' = "idle" /\ tr' = tr
      /\ UNCHANGED <<mode, seeded, seq, spoken, epochs, bus, cur, hasRow, rows, trows, out>>
  BY DEF GetTargets, ingest, stored
<1>2. \A l \in Targets : tr[l] = "idle"
  BY <1>1, BeforeStep
<1>3. /\ tr' \in [Targets -> {"idle", "translating", "storing", "speech", "publishing"}]
      /\ \A l \in Targets : tr'[l] # "idle" => fan' = "translating" /\ l # cur.lang
  <2>1. CASE fan' = "translating"
    BY <1>1, <2>1
  <2>2. CASE fan' = "idle"
    BY <1>1, <1>2, <2>2, BeforeStep
  <2> QED BY <1>1, <2>1, <2>2
<1>4. \A l \in Langs : Awaited(l)' => Awaited(l)
  BY <1>1, <1>3 DEF Awaited
<1>5. HandlingStep
  BY <1>1, <1>3, BeforeStep DEF HandlingStep, Handling
<1>6. LogsStep
  BY <1>1, <1>4, QuietStep
<1> QED BY <1>5, <1>6, FanoutText

LEMMA GatherEndsText ==
  ASSUME TextInv, GatherEnds
  PROVE  TextInv'
<1>1. /\ fan = "translating" /\ fan' = "idle" /\ \A l \in Targets : tr[l] = "idle"
      /\ UNCHANGED <<mode, seeded, seq, spoken, epochs, bus, cur, hasRow, tr, rows, trows, out>>
  BY DEF GatherEnds, ingest, handling, stored
<1>2. \A l \in Langs : Awaited(l)' => Awaited(l)
  BY <1>1 DEF Awaited
<1>3. HandlingStep
  BY <1>1, BeforeStep DEF HandlingStep, Handling
<1>4. LogsStep
  BY <1>1, <1>2, QuietStep
<1> QED BY <1>3, <1>4, FanoutText

\* One target's translation, in any of its states.
LEMMA TranslateOneText ==
  ASSUME TextInv, NEW l \in Targets, TranslateOne(l)
  PROVE  TextInv'
<1>1. /\ fan = "translating" /\ tr[l] # "idle" /\ l # cur.lang /\ l \in Langs
      /\ cur.seq \in Texts /\ cur.text \in 0 .. MaxTexts
  BY BeforeStep DEF TranslateOne, Translate, StoreTranslation, Synthesize, PublishTranslation, Handling
<1>2. /\ UNCHANGED <<mode, seeded, seq, spoken, epochs, fan, bus, cur, hasRow, rows>>
      /\ \E v \in {"idle", "storing", "speech", "publishing"} : tr' = [tr EXCEPT ![l] = v]
      /\ trows' = trows \/ trows' = StoredTranslation(l)
      /\ out' = out \/ (out' = Broadcast({l}) /\ tr' = [tr EXCEPT ![l] = "idle"])
  BY DEF TranslateOne, Translate, StoreTranslation, Synthesize, PublishTranslation, ingest, stored
<1>3. /\ tr' \in [Targets -> {"idle", "translating", "storing", "speech", "publishing"}]
      /\ \A m \in Targets : tr'[m] # "idle" => tr[m] # "idle"
  BY <1>1, <1>2, BeforeStep
<1>4. \A m \in Langs : Awaited(m)' => Awaited(m)
  BY <1>1, <1>2, <1>3 DEF Awaited
<1>5. trows' \in [Targets -> [Texts -> 0 .. MaxTexts]]
  BY <1>1, <1>2, BeforeStep DEF StoredTranslation
<1>6. LogsStep
  <2>1. CASE out' = out
    BY <1>4, <2>1, QuietStep
  <2>2. CASE out' = Broadcast({l}) /\ tr' = [tr EXCEPT ![l] = "idle"]
    <3>1. \A m \in Langs : m = l => Awaited(m) /\ ~Awaited(m)'
      BY <1>1, <1>2, <2>2, BeforeStep DEF Awaited
    <3>2. \A m \in Langs :
            \/ m # l /\ out'[m] = out[m]
            \/ m = l /\ out'[m] = Append(out[m], Caption(cur))
      BY <2>2, BroadcastShape
    <3>3. out' = [m \in Langs |-> out'[m]]
      BY <2>2, BroadcastShape
    <3> QED BY <1>4, <3>1, <3>2, <3>3 DEF LogsStep
  <2> QED BY <1>2, <2>1, <2>2
<1>7. \A m \in Targets : tr'[m] # "idle" => fan' = "translating" /\ m # cur.lang
  BY <1>1, <1>2, <1>3, BeforeStep
<1>8. HandlingStep
  BY <1>1, <1>2, <1>3, <1>5, <1>7, BeforeStep DEF HandlingStep, Handling
<1> QED BY <1>8, <1>6, FanoutText

\* Cancelling the fanout leaves nothing awaited: what may still be published is
\* the current event, where it was due.
LEMMA DisconnectText ==
  ASSUME TextInv, Disconnect
  PROVE  TextInv'
<1>1. /\ mode' = "none" /\ UNCHANGED <<seeded, seq, spoken, epochs, cur, hasRow>>
      /\ fan' = "off" /\ bus' = << >> /\ tr' = [l \in Targets |-> "idle"]
      /\ rows' = rows \/ (fan = "persisting" /\ rows' = InsertRow(rows))
      /\ \E S \in SUBSET Publishing : out' = Broadcast(S)
  BY DEF Disconnect, StopFanout
<1>2. trows' \in [Targets -> [Texts -> 0 .. MaxTexts]]
  <2>1. PICK S \in SUBSET {l \in Targets : tr[l] = "storing" /\ trows[l][cur.seq] = 0} :
          trows' = [l \in Targets |-> IF l \in S THEN StoredTranslation(l)[l] ELSE trows[l]]
    BY DEF Disconnect, StopFanout
  <2>2. ASSUME NEW l \in S PROVE StoredTranslation(l)[l] \in [Texts -> 0 .. MaxTexts]
    <3>1. l \in Targets /\ cur.seq \in Texts /\ cur.text \in 0 .. MaxTexts
      BY <2>1, BeforeStep DEF Handling
    <3> QED BY <3>1, BeforeStep DEF StoredTranslation
  <2> QED BY <2>1, <2>2, BeforeStep
<1>3. \A l \in Langs : ~Awaited(l)'
  BY <1>1 DEF Awaited
<1>4. \A l \in Publishing : Awaited(l)
  BY DEF Publishing, Awaited
<1>5. LogsStep
  <2>1. PICK S \in SUBSET Publishing : out' = Broadcast(S)
    BY <1>1
  <2> QED BY <1>3, <1>4, <2>1, BroadcastShape DEF LogsStep
<1>6. HandlingStep
  BY <1>1, <1>2, BeforeStep DEF HandlingStep, Handling
<1> QED BY <1>6, <1>5, FanoutText

LEMMA DisconnectArmedText ==
  ASSUME TextInv, DisconnectArmed
  PROVE  TextInv'
<1>1. /\ mode' = "none"
      /\ UNCHANGED <<seeded, seq, spoken, epochs, fan, bus, cur, hasRow, tr, rows, trows, out>>
  BY DEF DisconnectArmed, handling, stored
<1>2. TypeOK' /\ Bounded' /\ QueueInv' /\ HandlingInv'
  BY <1>1 DEF TextInv, TypeOK, Bounded, QueueInv, HandlingInv, Rising
<1>3. \A l \in Langs : LogInv(l)'
  BY <1>1, QuietLogs DEF Awaited
<1> QED BY <1>2, <1>3 DEF TextInv

LEMMA InitText == Init => TextInv
<1> SUFFICES ASSUME Init PROVE TextInv
  OBVIOUS
<1> USE BoundsAssumption DEF Init
<1>1. << >> \in Seq(Events) /\ Len(<< >>) <= BusMax /\ << >> \in Seq(Captions)
  OBVIOUS
<1>2. TypeOK
  <2>1. 0 \in 0 .. MaxTexts /\ 0 \in 0 .. MaxEpochs
    OBVIOUS
  <2> QED BY <1>1, <2>1 DEF TypeOK
<1>3. Bounded /\ QueueInv /\ HandlingInv
  BY DEF Bounded, QueueInv, HandlingInv, Rising, Handling, NoEvent
<1>4. \A l \in Langs : LogInv(l)
  BY DEF LogInv, Rising, UpTo, Below
<1> QED BY <1>2, <1>3, <1>4 DEF TextInv

LEMMA StutterText ==
  ASSUME TextInv, UNCHANGED vars
  PROVE  TextInv'
<1>1. UNCHANGED <<mode, seeded, seq, spoken, epochs, fan, bus, cur, hasRow, tr, rows, trows, out>>
  BY DEF vars, ingest, handling, stored
<1>2. TypeOK' /\ Bounded' /\ QueueInv' /\ HandlingInv'
  BY <1>1 DEF TextInv, TypeOK, Bounded, QueueInv, HandlingInv, Rising
<1>3. \A l \in Langs : LogInv(l)'
  BY <1>1, QuietLogs DEF Awaited
<1> QED BY <1>2, <1>3 DEF TextInv

LEMMA NextText == TextInv /\ [Next]_vars => TextInv'
<1> SUFFICES ASSUME TextInv, [Next]_vars PROVE TextInv'
  OBVIOUS
<1>1. ASSUME NEW kind \in Kinds, Connect(kind) PROVE TextInv'
  BY <1>1, ConnectText
<1>2. CASE Seed
  BY <1>2, SeedText
<1>3. ASSUME NEW lang \in SpeechLangs, Accept(lang) PROVE TextInv'
  BY <1>3, AcceptText
<1>4. CASE ConsumeLoop
  BY <1>4, SubscribeText, TakeText, PersistText, PublishSourceText, GetTargetsText,
     GatherEndsText DEF ConsumeLoop
<1>5. ASSUME NEW l \in Targets, TranslateOne(l) PROVE TextInv'
  BY <1>5, TranslateOneText
<1>6. CASE Disconnect
  BY <1>6, DisconnectText
<1>7. CASE DisconnectArmed
  BY <1>7, DisconnectArmedText
<1>8. CASE UNCHANGED vars
  BY <1>8, StutterText
<1> QED BY <1>1, <1>2, <1>3, <1>4, <1>5, <1>6, <1>7, <1>8 DEF Next

LEMMA TextInvariant == Spec => []TextInv
<1> QED BY InitText, NextText, PTL DEF Spec

\* Whatever fails, whoever connects and however the queue overflows, sequence
\* numbers, rows, queue and logs stay in their types and bounds.
THEOREM TypeInvariant == Spec => []TypeOK
<1>1. TextInv => TypeOK
  BY DEF TextInv
<1> QED BY <1>1, TextInvariant, PTL

\* Every channel carries segments in the order they were spoken and none twice,
\* for every set of languages and every failure: the loop takes the next event
\* only when no task of the last one can publish any more, and a cancelled
\* loop's last publish is of the event it held.
THEOREM OrderOfSpeech == Spec => []SpokenOrder
<1>1. TextInv => SpokenOrder
  BY DEF TextInv, LogInv, Rising, SpokenOrder
<1> QED BY <1>1, TextInvariant, PTL

-----------------------------------------------------------------------------
(* What holds with audio operators, a readable starting sequence and a     *)
(* drain that ends.                                                        *)

\* The row a segment gets when its number is new.
LEMMA InsertNumber ==
  ASSUME TextInv, NumberInv, fan = "persisting"
  PROVE  /\ rows[cur.seq] = 0 /\ cur.seq \in Texts /\ cur.text \in Texts /\ cur.text <= spoken
         /\ InsertRow(rows)[cur.seq] = cur.text
         /\ \A s \in Texts : s # cur.seq => InsertRow(rows)[s] = rows[s]
         /\ \A s \in Texts : rows[s] # 0 => s < cur.seq /\ rows[s] < cur.text
<1> USE BoundsAssumption
<1>1. TypeOK /\ cur \in Events /\ RowsBefore(cur) /\ cur.text <= spoken
  BY DEF TextInv, HandlingInv, Handling, NumberInv, CurrentNumber, Bounded
<1>2. cur.seq \in Texts /\ cur.text \in Texts /\ cur.seq \in Int
  BY <1>1, EventTypes
<1>3. \A s \in Texts : rows[s] # 0 => s < cur.seq /\ rows[s] < cur.text
  BY <1>1 DEF RowsBefore
<1>4. rows[cur.seq] = 0
  BY <1>2, <1>3
<1> QED BY <1>1, <1>2, <1>3, <1>4, InsertShape

\* Ranges that the arithmetic about rows needs.
LEMMA RowTypes ==
  ASSUME TypeOK
  PROVE  /\ \A s \in Texts : s \in Nat /\ s # 0 /\ rows[s] \in Nat
         /\ \A l \in Targets, s \in Texts : trows[l][s] \in Nat
         /\ spoken \in Nat /\ seq \in Nat
BY BoundsAssumption DEF TypeOK, Texts

\* A step that inserts at most the current event's row, and lets translations
\* of it and channels that carry it follow only once the row is there.
RowStep ==
  /\ UNCHANGED <<spoken, cur>>
  /\ rows' = rows \/ (fan = "persisting" /\ rows' = InsertRow(rows))
  /\ \A l \in Targets, s \in Texts :
       \/ trows'[l][s] = trows[l][s]
       \/ s = cur.seq /\ trows'[l][s] = cur.text /\ rows[cur.seq] = cur.text
  /\ \A l \in Langs :
       \/ out'[l] = out[l]
       \/ out'[l] = Append(out[l], Caption(cur)) /\ rows[cur.seq] = cur.text

LEMMA RowsKept ==
  ASSUME TextInv, NumberInv, RowStep
  PROVE  RowsInv' /\ \A s \in Texts : rows[s] # 0 => rows'[s] = rows[s]
<1>1. TypeOK /\ RowsInv
  BY DEF TextInv, NumberInv
<1>2. CASE fan = "persisting" /\ rows' = InsertRow(rows)
  <2>1. /\ rows[cur.seq] = 0 /\ cur.seq \in Texts /\ cur.text \in Texts /\ cur.text <= spoken
        /\ rows'[cur.seq] = cur.text
        /\ \A s \in Texts : s # cur.seq => rows'[s] = rows[s]
        /\ \A s \in Texts : rows[s] # 0 => s < cur.seq /\ rows[s] < cur.text
    BY <1>2, InsertNumber
  <2>2. rows[cur.seq] # cur.text
    BY <1>1, <2>1, RowTypes
  <2>3. \A s \in Texts : rows[s] # 0 => rows'[s] = rows[s]
    BY <2>1
  <2>4. /\ \A l \in Targets, s \in Texts : trows'[l][s] = trows[l][s]
        /\ \A l \in Langs : out'[l] = out[l]
    BY <2>2 DEF RowStep
  <2>5. \A s \in Texts : rows'[s] <= spoken
    BY <1>1, <2>1 DEF RowsInv
  <2>6. RowsRising'
    <3> SUFFICES ASSUME NEW s \in Texts, NEW t \in Texts, s < t, rows'[s] # 0, rows'[t] # 0
                 PROVE  rows'[s] < rows'[t]
      BY DEF RowsRising
    <3>1. CASE s = cur.seq
      <4>1. rows[t] # 0
        BY <2>1, <3>1, <1>1, RowTypes
      <4> QED BY <2>1, <3>1, <4>1, <1>1, RowTypes
    <3>2. CASE s # cur.seq /\ t = cur.seq
      BY <2>1, <3>2
    <3>3. CASE s # cur.seq /\ t # cur.seq
      BY <1>1, <2>1, <3>3 DEF RowsInv, RowsRising
    <3> QED BY <3>1, <3>2, <3>3
  <2>7. TranslationOfItsRow'
    BY <1>1, <2>3, <2>4 DEF RowsInv, TranslationOfItsRow
  <2>8. LogsAreRows'
    <3>1. \A l \in Langs : \A i \in 1 .. Len(out[l]) :
            /\ rows[out[l][i].seq] = out[l][i].text /\ out[l][i].seq \in Texts
            /\ out[l][i].text # 0
      <4>1. \A l \in Langs : \A i \in 1 .. Len(out[l]) :
              out[l][i] \in Captions /\ out[l][i].seq \in Texts
        BY <1>1, EventTypes
      <4>2. \A x \in Captions : x.text # 0
        BY DEF Captions, Texts
      <4> QED BY <1>1, <4>1, <4>2 DEF RowsInv, LogsAreRows
    <3> QED BY <2>3, <2>4, <3>1 DEF LogsAreRows
  <2> QED BY <2>3, <2>5, <2>6, <2>7, <2>8 DEF RowsInv, RowStep
<1>3. CASE rows' = rows
  <2>1. (\A s \in Texts : rows'[s] <= spoken) /\ RowsRising'
    BY <1>1, <1>3 DEF RowsInv, RowsRising
  <2>2. TranslationOfItsRow'
    BY <1>1, <1>3 DEF RowsInv, TranslationOfItsRow, RowStep
  <2>3. ASSUME NEW l \in Langs, NEW i \in 1 .. Len(out'[l])
        PROVE  rows[out'[l][i].seq] = out'[l][i].text
    <3>1. CASE out'[l] = out[l]
      BY <1>1, <3>1 DEF RowsInv, LogsAreRows
    <3>2. CASE out'[l] = Append(out[l], Caption(cur)) /\ rows[cur.seq] = cur.text
      <4>1. out[l] \in Seq(Captions)
        BY <1>1 DEF TypeOK
      <4>2. \/ i \in 1 .. Len(out[l]) /\ out'[l][i] = out[l][i]
            \/ out'[l][i] = Caption(cur)
        BY <3>2, <4>1
      <4> QED BY <1>1, <3>2, <4>2 DEF RowsInv, LogsAreRows, Caption
    <3> QED BY <3>1, <3>2 DEF RowStep
  <2>4. LogsAreRows'
    BY <1>3, <2>3 DEF LogsAreRows
  <2> QED BY <1>3, <2>1, <2>2, <2>4 DEF RowsInv, RowStep
<1> QED BY <1>2, <1>3 DEF RowStep

\* Under such a step the queue's numbers stay ahead.
LEMMA QueueNumbersKept ==
  ASSUME TextInv, NumberInv, RowStep, bus' \in {bus, << >>},
         fan' \in Handling => fan \in Handling
  PROVE  QueueNumbers'
<1>1. CASE bus' = << >>
  BY <1>1 DEF QueueNumbers
<1>2. CASE bus' = bus
  <2>1. QueueNumbers /\ cur' = cur
    BY DEF NumberInv, RowStep
  <2>2. ASSUME NEW i \in 1 .. Len(bus), NEW s \in Texts, rows'[s] # 0
        PROVE  s < bus[i].seq /\ rows'[s] < bus[i].text
    <3>1. CASE rows' = rows
      BY <2>1, <2>2, <3>1 DEF QueueNumbers, RowsBefore
    <3>2. CASE fan = "persisting" /\ rows' = InsertRow(rows)
      <4>1. CASE s = cur.seq
        <5>1. rows'[s] = cur.text
          BY <3>2, <4>1, InsertNumber
        <5>2. cur.text < bus[i].text /\ cur.seq < bus[i].seq
          BY <2>1, <3>2 DEF TextInv, QueueInv, QueueNumbers, Handling
        <5> QED BY <4>1, <5>1, <5>2
      <4>2. CASE s # cur.seq
        <5>1. rows'[s] = rows[s]
          BY <3>2, <4>2, InsertNumber
        <5> QED BY <2>1, <2>2, <5>1 DEF QueueNumbers, RowsBefore
      <4> QED BY <4>1, <4>2
    <3> QED BY <3>1, <3>2 DEF RowStep
  <2> QED BY <1>2, <2>1, <2>2 DEF QueueNumbers, RowsBefore
<1> QED BY <1>1, <1>2

\* Steps of the running fanout.
LEMMA FanoutNumber ==
  ASSUME TextInv, NumberInv, RowStep, UNCHANGED <<mode, seeded, seq, bus>>,
         fan \in {"starting", "idle"} \cup Handling, fan' \in {"idle"} \cup Handling,
         fan' \in Handling => fan \in Handling,
         CurrentNumber'
  PROVE  NumberInv'
<1>1. CounterInv /\ TypeOK
  BY DEF NumberInv, TextInv
<1>2. CounterInv'
  <2>1. mode = "none" \/ ~seeded => bus = << >> /\ fan' \in {"off", "starting", "idle"}
    BY <1>1 DEF CounterInv, Handling
  <2>2. ASSUME mode # "none", seeded
        PROVE  /\ \A s \in Texts : rows'[s] # 0 => s <= seq
               /\ \A i \in 1 .. Len(bus) : bus[i].seq <= seq
               /\ fan' \in Handling => cur.seq <= seq
    <3>1. /\ \A s \in Texts : rows[s] # 0 => s <= seq
          /\ \A i \in 1 .. Len(bus) : bus[i].seq <= seq
          /\ fan \in Handling => cur.seq <= seq
      BY <1>1, <2>2 DEF CounterInv
    <3>2. ASSUME NEW s \in Texts, rows'[s] # 0 PROVE s <= seq
      <4>1. CASE rows' = rows
        BY <3>1, <3>2, <4>1
      <4>2. CASE fan = "persisting" /\ rows' = InsertRow(rows)
        BY <3>1, <3>2, <4>2, InsertNumber DEF Handling
      <4> QED BY <4>1, <4>2 DEF RowStep
    <3> QED BY <3>1, <3>2
  <2> QED BY <2>1, <2>2 DEF CounterInv, RowStep
<1>3. QueueNumbers'
  BY QueueNumbersKept
<1> QED BY <1>2, <1>3, RowsKept DEF NumberInv

LEMMA ConnectNumber ==
  ASSUME TextInv, NumberInv, NEW kind \in Kinds, Numbered, Connect(kind)
  PROVE  NumberInv'
<1>1. /\ mode = "none" /\ UNCHANGED <<spoken, bus, cur, hasRow, tr, rows, trows, out>>
      /\ seeded' = FALSE
      /\ fan' = fan \/ (fan = "off" /\ fan' = "starting")
  BY DEF Connect, handling, stored, Numbered
<1>2. bus = << >> /\ fan \in {"off", "starting", "idle"}
  BY <1>1 DEF NumberInv, CounterInv
<1>3. CounterInv'
  <2>1. ~seeded' /\ bus' = << >> /\ fan' \in {"off", "starting", "idle"}
    BY <1>1, <1>2
  <2> QED BY <2>1, Zenon DEF CounterInv
<1>4. QueueNumbers' /\ CurrentNumber'
  BY <1>1, <1>2 DEF NumberInv, QueueNumbers, CurrentNumber, Handling
<1>5. RowsInv'
  BY <1>1 DEF NumberInv, RowsInv, RowsRising, TranslationOfItsRow, LogsAreRows
<1> QED BY <1>3, <1>4, <1>5 DEF NumberInv

LEMMA SeedNumber ==
  ASSUME TextInv, NumberInv, Numbered, Seed
  PROVE  NumberInv'
<1>1. /\ UNCHANGED <<mode, spoken, fan, bus, cur, hasRow, tr, rows, trows, out>>
      /\ mode # "none" /\ ~seeded /\ seq' = LastStored
  BY DEF Seed, handling, stored, Numbered, StartingSequence
<1>2. bus = << >> /\ fan \in {"off", "starting", "idle"}
  BY <1>1 DEF NumberInv, CounterInv
<1>3. CounterInv'
  BY <1>1, <1>2, LastStoredIsLargest DEF CounterInv, Handling, TextInv
<1>4. QueueNumbers' /\ CurrentNumber'
  BY <1>1, <1>2 DEF NumberInv, QueueNumbers, CurrentNumber, Handling
<1>5. RowsInv'
  BY <1>1 DEF NumberInv, RowsInv, RowsRising, TranslationOfItsRow, LogsAreRows
<1> QED BY <1>3, <1>4, <1>5 DEF NumberInv

LEMMA AcceptNumber ==
  ASSUME TextInv, NumberInv, NEW lang \in SpeechLangs, Accept(lang)
  PROVE  NumberInv'
<1> USE BoundsAssumption
<1> DEFINE e == [seq |-> seq + 1, text |-> spoken + 1, lang |-> lang]
<1>1. /\ TypeOK /\ Bounded /\ mode # "none" /\ seeded
      /\ UNCHANGED <<mode, seeded, fan, cur, hasRow, tr, rows, trows, out>>
      /\ spoken' = spoken + 1 /\ seq' = seq + 1 /\ spoken < MaxTexts
      /\ bus' = IF fan \in {"off", "starting"} THEN bus ELSE Offer(bus, e)
  BY DEF TextInv, Accept, handling, stored
<1>2. /\ seq \in Nat /\ spoken \in Nat /\ e \in Events /\ e.seq = seq + 1 /\ e.text = spoken + 1
  BY <1>1 DEF TypeOK, Bounded, Events, Texts
<1> HIDE DEF e
<1>3. /\ \A s \in Texts : rows[s] # 0 => s <= seq
      /\ \A i \in 1 .. Len(bus) : bus[i].seq <= seq
      /\ fan \in Handling => cur.seq <= seq
      /\ \A s \in Texts : rows[s] <= spoken
  BY <1>1 DEF NumberInv, CounterInv, RowsInv
<1>4. /\ \A i \in 1 .. Len(bus) : bus[i].seq \in Nat
      /\ cur.seq \in Nat /\ bus \in Seq(Events) /\ Len(bus) <= BusMax
      /\ \A s \in Texts : s \in Nat /\ rows[s] \in Nat
  <2>1. \A i \in 1 .. Len(bus) : bus[i].seq \in Nat
    BY <1>1, EventTypes
  <2> QED BY <1>1, <2>1, EventTypes, RowTypes DEF TypeOK
<1>5. RowsBefore(e) /\ (fan \in Handling => cur.seq < e.seq)
  BY <1>2, <1>3, <1>4 DEF RowsBefore
<1>6. \A i \in 1 .. Len(bus) : bus[i].seq < e.seq
  BY <1>2, <1>3, <1>4
<1>7. \/ bus' = bus
      \/ Offered(bus', bus, e)
  <2>1. CASE bus' = Offer(bus, e)
    <3>1. Offered(Offer(bus, e), bus, e)
      BY <1>2, <1>4, OfferOrder
    <3> QED BY <2>1, <3>1
  <2> QED BY <1>1, <2>1
<1>8. QueueNumbers
  BY DEF NumberInv
<1>9. QueueNumbers'
  <2>1. CASE bus' = bus
    BY <1>1, <1>8, <2>1 DEF QueueNumbers, RowsBefore
  <2>2. CASE bus' # bus
    <3>1. \A i \in 1 .. Len(bus') : RowsBefore(bus'[i]) /\ (fan \in Handling => cur.seq < bus'[i].seq)
      BY <1>5, <1>7, <1>8, <2>2 DEF QueueNumbers, Offered
    <3>2. \A i, j \in 1 .. Len(bus') : i < j => bus'[i].seq < bus'[j].seq
      BY <1>6, <1>7, <1>8, <2>2 DEF QueueNumbers, Offered
    <3> QED BY <1>1, <3>1, <3>2 DEF QueueNumbers, RowsBefore
  <2> QED BY <2>1, <2>2
<1>10. CounterInv'
  <2>1. \A i \in 1 .. Len(bus') : bus'[i].seq <= seq + 1
    BY <1>2, <1>3, <1>4, <1>7 DEF Offered
  <2>2. \A s \in Texts : rows[s] # 0 => s <= seq + 1
    BY <1>2, <1>3, <1>4
  <2>3. fan \in Handling => cur.seq <= seq + 1
    BY <1>2, <1>3, <1>4
  <2> QED BY <1>1, <2>1, <2>2, <2>3 DEF CounterInv
<1>11. CurrentNumber'
  BY <1>1 DEF NumberInv, CurrentNumber, RowsBefore
<1>12. RowsInv'
  <2>1. \A s \in Texts : rows[s] <= spoken + 1
    BY <1>2, <1>3, <1>4
  <2> QED BY <1>1, <2>1 DEF NumberInv, RowsInv, RowsRising, TranslationOfItsRow, LogsAreRows
<1> QED BY <1>9, <1>10, <1>11, <1>12 DEF NumberInv

LEMMA TakeNumber ==
  ASSUME TextInv, NumberInv, Take
  PROVE  NumberInv'
<1>1. /\ TypeOK /\ fan = "idle" /\ fan' = "persisting" /\ bus # << >>
      /\ UNCHANGED <<mode, seeded, seq, spoken, hasRow, tr, rows, trows, out>>
      /\ cur' = Head(bus) /\ bus' = Tail(bus)
  BY DEF TextInv, Take, ingest, stored
<1>2. /\ bus \in Seq(Events) /\ Len(bus) \in Nat \ {0} /\ cur' = bus[1] /\ Len(bus') = Len(bus) - 1
      /\ 1 \in 1 .. Len(bus)
      /\ \A i \in 1 .. Len(bus') : i + 1 \in 1 .. Len(bus) /\ bus'[i] = bus[i + 1]
  BY <1>1, EventTypes DEF TypeOK
<1>3. QueueNumbers /\ CounterInv
  BY DEF NumberInv
<1>4. CounterInv'
  BY <1>1, <1>2, <1>3 DEF CounterInv
<1>5. QueueNumbers'
  <2>1. ASSUME NEW i \in 1 .. Len(bus')
        PROVE  RowsBefore(bus'[i]) /\ cur'.seq < bus'[i].seq
    <3>1. bus'[i] = bus[i + 1] /\ i + 1 \in 1 .. Len(bus) /\ 1 < i + 1
      BY <1>2
    <3>2. RowsBefore(bus[i + 1]) /\ bus[1].seq < bus[i + 1].seq
      BY <1>2, <1>3, <3>1 DEF QueueNumbers
    <3> QED BY <1>2, <3>1, <3>2
  <2>2. ASSUME NEW i \in 1 .. Len(bus'), NEW j \in 1 .. Len(bus'), i < j
        PROVE  bus'[i].seq < bus'[j].seq
    <3>1. i + 1 \in 1 .. Len(bus) /\ j + 1 \in 1 .. Len(bus) /\ i + 1 < j + 1
      BY <1>2, <2>2
    <3> QED BY <1>2, <1>3, <3>1 DEF QueueNumbers
  <2> QED BY <1>1, <2>1, <2>2 DEF QueueNumbers, RowsBefore
<1>6. CurrentNumber'
  BY <1>1, <1>2, <1>3 DEF CurrentNumber, QueueNumbers, RowsBefore
<1>7. RowsInv'
  BY <1>1 DEF NumberInv, RowsInv, RowsRising, TranslationOfItsRow, LogsAreRows
<1> QED BY <1>4, <1>5, <1>6, <1>7 DEF NumberInv

LEMMA PersistNumber ==
  ASSUME TextInv, NumberInv, Numbered, Persist
  PROVE  NumberInv' /\ RowStep
<1>1. /\ fan = "persisting" /\ fan' = "source" /\ hasRow' = TRUE /\ rows' = InsertRow(rows)
      /\ UNCHANGED <<mode, seeded, seq, spoken, epochs, bus, cur, tr, trows, out>>
  BY DEF Persist, ingest, Numbered
<1>2. RowStep
  BY <1>1 DEF RowStep
<1>3. CurrentNumber'
  BY <1>1, InsertNumber DEF CurrentNumber, Handling
<1> QED BY <1>1, <1>2, <1>3, FanoutNumber DEF Handling

\* The steps of the fanout that leave the rows of the transcript.
LEMMA RestNumber ==
  ASSUME TextInv, NumberInv, RowStep, UNCHANGED <<mode, seeded, seq, bus, hasRow, rows>>,
         fan \in {"starting", "idle", "source", "targets", "translating"},
         fan' \in {"idle"} \cup (Handling \ {"persisting"}),
         fan' \in Handling => fan \in Handling
  PROVE  NumberInv'
<1>1. CurrentNumber'
  BY DEF NumberInv, CurrentNumber, Handling, RowStep
<1> QED BY <1>1, FanoutNumber DEF Handling

LEMMA SubscribeNumber ==
  ASSUME TextInv, NumberInv, Subscribe
  PROVE  NumberInv' /\ RowStep
<1>1. /\ fan = "starting" /\ fan' = "idle"
      /\ UNCHANGED <<mode, seeded, seq, spoken, bus, cur, hasRow, rows, trows, out>>
  BY DEF Subscribe, ingest, handling, stored
<1>2. RowStep
  BY <1>1 DEF RowStep
<1> QED BY <1>1, <1>2, RestNumber DEF Handling

LEMMA PublishSourceNumber ==
  ASSUME TextInv, NumberInv, PublishSource
  PROVE  NumberInv' /\ RowStep
<1>1. /\ fan = "source" /\ fan' \in {"targets", "idle"}
      /\ out' = Broadcast({cur.lang}) \/ out' = out
      /\ UNCHANGED <<mode, seeded, seq, spoken, bus, cur, hasRow, rows, trows>>
  BY DEF PublishSource, ingest, handling, stored
<1>2. rows[cur.seq] = cur.text
  BY <1>1 DEF NumberInv, CurrentNumber, Handling
<1>3. RowStep
  BY <1>1, <1>2, BroadcastShape DEF RowStep
<1> QED BY <1>1, <1>3, RestNumber DEF Handling

LEMMA GetTargetsNumber ==
  ASSUME TextInv, NumberInv, GetTargets
  PROVE  NumberInv' /\ RowStep
<1>1. /\ fan = "targets" /\ fan' \in {"translating", "idle"}
      /\ UNCHANGED <<mode, seeded, seq, spoken, bus, cur, hasRow, rows, trows, out>>
  BY DEF GetTargets, ingest, stored
<1>2. RowStep
  BY <1>1 DEF RowStep
<1> QED BY <1>1, <1>2, RestNumber DEF Handling

LEMMA GatherEndsNumber ==
  ASSUME TextInv, NumberInv, GatherEnds
  PROVE  NumberInv' /\ RowStep
<1>1. /\ fan = "translating" /\ fan' = "idle"
      /\ UNCHANGED <<mode, seeded, seq, spoken, bus, cur, hasRow, rows, trows, out>>
  BY DEF GatherEnds, ingest, handling, stored
<1>2. RowStep
  BY <1>1 DEF RowStep
<1> QED BY <1>1, <1>2, RestNumber DEF Handling

LEMMA TranslateOneNumber ==
  ASSUME TextInv, NumberInv, NEW l \in Targets, TranslateOne(l)
  PROVE  NumberInv' /\ RowStep
<1>1. fan = "translating" /\ cur.seq \in Texts /\ rows[cur.seq] = cur.text
  <2>1. fan = "translating"
    BY BeforeStep DEF TranslateOne, Translate, StoreTranslation, Synthesize, PublishTranslation
  <2> QED BY <2>1, BeforeStep DEF NumberInv, CurrentNumber, Handling
<1>2. /\ UNCHANGED <<mode, seeded, seq, spoken, fan, bus, cur, hasRow, rows>>
      /\ trows' = trows \/ trows' = StoredTranslation(l)
      /\ out' = out \/ out' = Broadcast({l})
  BY DEF TranslateOne, Translate, StoreTranslation, Synthesize, PublishTranslation, ingest, stored
<1>3. \A m \in Targets, s \in Texts :
        trows'[m][s] = trows[m][s] \/ (s = cur.seq /\ trows'[m][s] = cur.text)
  <2>1. trows \in [Targets -> [Texts -> 0 .. MaxTexts]]
    BY BeforeStep
  <2> QED BY <1>1, <1>2, <2>1 DEF StoredTranslation
<1>4. RowStep
  BY <1>1, <1>2, <1>3, BroadcastShape DEF RowStep
<1> QED BY <1>1, <1>2, <1>4, RestNumber DEF Handling

LEMMA DisconnectNumber ==
  ASSUME TextInv, NumberInv, Disconnect
  PROVE  NumberInv' /\ RowStep
<1>1. /\ mode' = "none" /\ UNCHANGED <<seeded, seq, spoken, cur>>
      /\ fan' = "off" /\ bus' = << >>
      /\ rows' = rows \/ (fan = "persisting" /\ rows' = InsertRow(rows))
  BY DEF Disconnect, StopFanout
<1>2. \A l \in Targets, s \in Texts :
       \/ trows'[l][s] = trows[l][s]
       \/ s = cur.seq /\ trows'[l][s] = cur.text /\ rows[cur.seq] = cur.text
  <2>1. PICK S \in SUBSET {l \in Targets : tr[l] = "storing" /\ trows[l][cur.seq] = 0} :
          trows' = [l \in Targets |-> IF l \in S THEN StoredTranslation(l)[l] ELSE trows[l]]
    BY DEF Disconnect, StopFanout
  <2>2. \A l \in S : l \in Targets /\ rows[cur.seq] = cur.text /\ cur.seq \in Texts
    BY BeforeStep DEF NumberInv, CurrentNumber, Handling
  <2>3. \A l \in S, s \in Texts :
          \/ StoredTranslation(l)[l][s] = trows[l][s]
          \/ s = cur.seq /\ StoredTranslation(l)[l][s] = cur.text
    BY <2>2, BeforeStep DEF StoredTranslation
  <2> QED BY <2>1, <2>2, <2>3
<1>3. \A l \in Langs :
       \/ out'[l] = out[l]
       \/ out'[l] = Append(out[l], Caption(cur)) /\ rows[cur.seq] = cur.text
  <2>1. PICK S \in SUBSET Publishing : out' = Broadcast(S)
    BY DEF Disconnect, StopFanout
  <2>2. \A l \in Publishing : rows[cur.seq] = cur.text
    BY BeforeStep DEF Publishing, NumberInv, CurrentNumber, Handling
  <2> QED BY <2>1, <2>2, BroadcastShape
<1>4. RowStep
  BY <1>1, <1>2, <1>3 DEF RowStep
<1>5. CounterInv' /\ CurrentNumber'
  BY <1>1 DEF CounterInv, CurrentNumber, Handling
<1>6. QueueNumbers'
  BY <1>1, <1>4, QueueNumbersKept DEF Handling
<1> QED BY <1>4, <1>5, <1>6, RowsKept DEF NumberInv

LEMMA StutterNumber ==
  ASSUME TextInv, NumberInv, UNCHANGED vars
  PROVE  NumberInv'
<1>1. UNCHANGED <<mode, seeded, seq, spoken, fan, bus, cur, hasRow, tr, rows, trows, out>>
  BY DEF vars, ingest, handling, stored
<1>2. CounterInv' /\ QueueNumbers' /\ CurrentNumber'
  BY <1>1 DEF NumberInv, CounterInv, QueueNumbers, CurrentNumber, RowsBefore
<1>3. RowsInv'
  BY <1>1 DEF NumberInv, RowsInv, RowsRising, TranslationOfItsRow, LogsAreRows
<1> QED BY <1>2, <1>3 DEF NumberInv

LEMMA InitNumber == Init => NumberInv
<1> SUFFICES ASSUME Init PROVE NumberInv
  OBVIOUS
<1> USE BoundsAssumption DEF Init
<1>1. CounterInv /\ QueueNumbers /\ CurrentNumber
  BY DEF CounterInv, QueueNumbers, CurrentNumber, Handling
<1>2. RowsInv
  BY DEF RowsInv, RowsRising, TranslationOfItsRow, LogsAreRows
<1> QED BY <1>1, <1>2 DEF NumberInv

LEMMA NextNumber == ASSUME Numbered PROVE TextInv /\ NumberInv /\ [Next]_vars => NumberInv'
<1> SUFFICES ASSUME TextInv, NumberInv, [Next]_vars PROVE NumberInv'
  OBVIOUS
<1>1. ASSUME NEW kind \in Kinds, Connect(kind) PROVE NumberInv'
  BY <1>1, ConnectNumber
<1>2. CASE Seed
  BY <1>2, SeedNumber
<1>3. ASSUME NEW lang \in SpeechLangs, Accept(lang) PROVE NumberInv'
  BY <1>3, AcceptNumber
<1>4. CASE ConsumeLoop
  BY <1>4, SubscribeNumber, TakeNumber, PersistNumber, PublishSourceNumber, GetTargetsNumber,
     GatherEndsNumber DEF ConsumeLoop
<1>5. ASSUME NEW l \in Targets, TranslateOne(l) PROVE NumberInv'
  BY <1>5, TranslateOneNumber
<1>6. CASE Disconnect
  BY <1>6, DisconnectNumber
<1>7. ~DisconnectArmed
  BY DEF DisconnectArmed, TextInv, TypeOK, Numbered
<1>8. CASE UNCHANGED vars
  BY <1>8, StutterNumber
<1> QED BY <1>1, <1>2, <1>3, <1>4, <1>5, <1>6, <1>7, <1>8 DEF Next

LEMMA NumberInvariant == ASSUME Numbered PROVE Spec => [](TextInv /\ NumberInv)
<1>1. Init => TextInv /\ NumberInv
  BY InitText, InitNumber
<1>2. TextInv /\ NumberInv /\ [Next]_vars => (TextInv /\ NumberInv)'
  BY NextText, NextNumber
<1> QED BY <1>1, <1>2, PTL DEF Spec

\* With audio operators, a readable starting sequence and a drain that ends, the
\* numbers a channel carries increase, across reconnects, queue overflow,
\* cancelled fanouts and failing publishes.
THEOREM NumbersIncrease == ASSUME Numbered PROVE Spec => []SequenceIncreases
<1>1. ASSUME TextInv, NumberInv PROVE SequenceIncreases
  <2> SUFFICES ASSUME NEW l \in Langs, NEW i \in 1 .. Len(out[l]), NEW j \in 1 .. Len(out[l]),
                      i < j
               PROVE  out[l][i].seq < out[l][j].seq
    BY DEF SequenceIncreases
  <2> DEFINE s == out[l][i].seq
             t == out[l][j].seq
  <2>1. rows[s] = out[l][i].text /\ rows[t] = out[l][j].text
    BY <1>1 DEF NumberInv, RowsInv, LogsAreRows
  <2>2. out[l][i].text < out[l][j].text
    BY <1>1 DEF TextInv, LogInv, Rising
  <2>3. out[l][i] \in Captions /\ out[l][j] \in Captions /\ s \in Texts /\ t \in Texts
    BY <1>1, EventTypes DEF TextInv
  <2>4. out[l][i].text # 0 /\ out[l][j].text # 0
    BY <2>3 DEF Captions, Texts
  <2>5. RowsRising /\ s \in Int /\ t \in Int /\ rows[s] \in Int /\ rows[t] \in Int
    BY <1>1, <2>3, RowTypes DEF NumberInv, RowsInv, TextInv
  <2> HIDE DEF s, t
  <2>6. ~(t < s) /\ s # t
    BY <2>1, <2>2, <2>3, <2>4, <2>5 DEF RowsRising
  <2>7. s < t
    BY <2>5, <2>6
  <2> QED BY <2>7 DEF s, t
<1> QED BY <1>1, NumberInvariant, PTL

\* Under the same assumption, no translation row joins two segments: a number
\* is given to one segment only, so the row found under it is the segment's own.
THEOREM TranslationsJoinTheirRow == ASSUME Numbered PROVE Spec => []TranslationOfItsRow
<1>1. NumberInv => TranslationOfItsRow
  BY DEF NumberInv, RowsInv
<1> QED BY <1>1, NumberInvariant, PTL

-----------------------------------------------------------------------------
(* The pipeline implements CaptionFeed.                                    *)

Transcript == {[seq |-> s, text |-> rows[s]] : s \in {t \in Texts : rows[t] # 0}}

\* Inserting the current event's row stores a caption of the feed.
LEMMA InsertStores ==
  ASSUME TextInv, NumberInv, fan = "persisting", rows' = InsertRow(rows), UNCHANGED out
  PROVE  Feed!Store
<1>1. /\ rows[cur.seq] = 0 /\ cur.seq \in Texts /\ cur.text \in Texts
      /\ rows'[cur.seq] = cur.text
      /\ \A s \in Texts : s # cur.seq => rows'[s] = rows[s]
      /\ \A s \in Texts : rows[s] # 0 => s < cur.seq /\ rows[s] < cur.text
  BY InsertNumber
<1> DEFINE x == [seq |-> cur.seq, text |-> cur.text]
<1>2. x \in Feed!Captions /\ x.seq = cur.seq /\ x.text = cur.text
  BY <1>1 DEF Feed!Captions
<1>3. \A y \in Transcript : y.seq < x.seq /\ y.text < x.text
  BY <1>1, <1>2 DEF Transcript
<1>4. Transcript' = Transcript \cup {x}
  <2>1. cur.text # 0
    BY <1>1 DEF Texts
  <2>2. \A y \in Transcript' : y \in Transcript \cup {x}
    BY <1>1 DEF Transcript
  <2>3. \A y \in Transcript : y \in Transcript'
    BY <1>1 DEF Transcript
  <2>4. x \in Transcript'
    BY <1>1, <2>1 DEF Transcript
  <2> HIDE DEF x
  <2> QED BY <2>2, <2>3, <2>4
<1> HIDE DEF x
<1> QED BY <1>2, <1>3, <1>4 DEF Feed!Store, Transcript

\* A publish carries a stored caption, later than all its channel has carried.
LEMMA PublishCarries ==
  ASSUME TextInv, NumberInv, NEW S \in SUBSET Langs, \A l \in S : Awaited(l),
         fan \in Handling \ {"persisting"}, out' = Broadcast(S), rows' = rows
  PROVE  Feed!Carry
<1> DEFINE x == Caption(cur)
<1>1. /\ TypeOK /\ cur \in Events /\ cur.seq \in Texts /\ cur.text \in Texts
      /\ rows[cur.seq] = cur.text
  <2>1. TypeOK /\ cur \in Events /\ rows[cur.seq] = cur.text
    BY DEF TextInv, HandlingInv, NumberInv, CurrentNumber
  <2> QED BY <2>1, EventTypes
<1>2. x \in Transcript /\ x.seq = cur.seq
  BY <1>1 DEF Transcript, Caption, Texts
<1>3. ASSUME NEW l \in S PROVE Feed!Follows(x, out[l])
  <2>1. l \in Langs /\ out[l] \in Seq(Captions) /\ Len(out[l]) \in Nat
    BY <1>1, EventTypes
  <2>2. CASE out[l] = << >>
    BY <2>2 DEF Feed!Follows
  <2>3. CASE out[l] # << >>
    <3> DEFINE n == Len(out[l])
               s == out[l][n].seq
    <3>1. n \in 1 .. Len(out[l])
      BY <2>1, <2>3
    <3>2. out[l][n].text < cur.text
      BY <2>1, <3>1 DEF TextInv, LogInv, Below
    <3>3. rows[s] = out[l][n].text
      BY <2>1, <3>1 DEF NumberInv, RowsInv, LogsAreRows
    <3>4. s \in Texts /\ out[l][n] \in Captions
      BY <1>1, <2>1, <3>1, EventTypes
    <3>5. out[l][n].text # 0 /\ cur.text # 0
      BY <1>1, <3>4 DEF Captions, Texts
    <3>6. /\ RowsRising /\ s \in Int /\ cur.seq \in Int
          /\ rows[s] \in Int /\ rows[cur.seq] \in Int
      BY <1>1, <3>4, RowTypes DEF NumberInv, RowsInv
    <3>7. s < cur.seq
      <4> HIDE DEF s, n
      <4>1. s # cur.seq /\ ~(cur.seq < s)
        BY <1>1, <3>2, <3>3, <3>4, <3>5, <3>6 DEF RowsRising
      <4> QED BY <3>6, <4>1
    <3> QED BY <1>2, <3>7 DEF Feed!Follows
  <2> QED BY <2>2, <2>3
<1>4. out' = [l \in Langs |-> IF l \in S THEN Append(out[l], x) ELSE out[l]]
  BY DEF Broadcast
<1> HIDE DEF x
<1>5. Transcript' = Transcript
  BY DEF Transcript
<1> QED BY <1>2, <1>3, <1>4, <1>5 DEF Feed!Carry, Transcript

\* Every step of the pipeline is a step of the feed or leaves it.
LEMMA FeedStep ==
  ASSUME Numbered, TextInv, NumberInv, [Next]_vars
  PROVE  [Feed!Store \/ Feed!Carry]_<<Transcript, out>>
<1> DEFINE Goal == [Feed!Store \/ Feed!Carry]_<<Transcript, out>>
<1> SUFFICES Goal
  OBVIOUS
<1>1. ASSUME UNCHANGED <<rows, out>> PROVE Goal
  BY <1>1 DEF Transcript
<1>2. ASSUME NEW kind \in Kinds, Connect(kind) PROVE Goal
  BY <1>1, <1>2 DEF Connect, stored
<1>3. CASE Seed
  BY <1>1, <1>3 DEF Seed, stored
<1>4. ASSUME NEW lang \in SpeechLangs, Accept(lang) PROVE Goal
  BY <1>1, <1>4 DEF Accept, stored
<1>5. CASE Subscribe \/ Take \/ GetTargets \/ GatherEnds
  BY <1>1, <1>5 DEF Subscribe, Take, GetTargets, GatherEnds, stored
<1>6. CASE Persist
  <2>1. fan = "persisting" /\ rows' = InsertRow(rows) /\ out' = out
    BY <1>6 DEF Persist, Numbered
  <2> QED BY <2>1, InsertStores
<1>7. CASE PublishSource
  <2>1. /\ fan = "source" /\ rows' = rows
        /\ out' = out \/ out' = Broadcast({cur.lang})
    BY <1>7 DEF PublishSource, stored
  <2>2. CASE out' = out
    BY <1>1, <2>1, <2>2
  <2>3. CASE out' = Broadcast({cur.lang})
    <3>1. {cur.lang} \in SUBSET Langs /\ \A l \in {cur.lang} : Awaited(l)
      BY <2>1, BeforeStep DEF Awaited, Handling
    <3>2. Feed!Carry
      BY <2>1, <2>3, <3>1, PublishCarries DEF Handling
    <3> QED BY <3>2
  <2> QED BY <2>1, <2>2, <2>3
<1>8. ASSUME NEW l \in Targets, TranslateOne(l) PROVE Goal
  <2>1. /\ fan = "translating" /\ rows' = rows /\ l \in Langs /\ tr[l] # "idle"
        /\ out' = out \/ out' = Broadcast({l})
    BY <1>8, BeforeStep
       DEF TranslateOne, Translate, StoreTranslation, Synthesize, PublishTranslation, stored
  <2>2. CASE out' = out
    BY <1>1, <2>1, <2>2
  <2>3. CASE out' = Broadcast({l})
    <3>1. {l} \in SUBSET Langs /\ \A m \in {l} : Awaited(m)
      BY <2>1 DEF Awaited
    <3>2. Feed!Carry
      BY <2>1, <2>3, <3>1, PublishCarries DEF Handling
    <3> QED BY <3>2
  <2> QED BY <2>1, <2>2, <2>3
<1>9. CASE Disconnect
  <2>1. PICK S \in SUBSET Publishing : out' = Broadcast(S)
    BY <1>9 DEF Disconnect, StopFanout
  <2>2. rows' = rows \/ (fan = "persisting" /\ rows' = InsertRow(rows))
    BY <1>9 DEF Disconnect, StopFanout
  <2>3. CASE S = {}
    <3>1. out' = out
      BY <2>1, <2>3, BeforeStep DEF Broadcast
    <3>2. CASE rows' = rows
      BY <1>1, <3>1, <3>2
    <3>3. CASE fan = "persisting" /\ rows' = InsertRow(rows)
      BY <3>1, <3>3, InsertStores
    <3> QED BY <2>2, <3>2, <3>3
  <2>4. CASE S # {}
    <3>1. fan \in {"source", "translating"}
      BY <2>4, BeforeStep DEF Publishing
    <3>2. S \in SUBSET Langs /\ \A l \in S : Awaited(l)
      BY <3>1, BeforeStep DEF Publishing, Awaited, Handling
    <3>3. Feed!Carry
      BY <2>1, <2>2, <3>1, <3>2, PublishCarries DEF Handling
    <3> QED BY <3>3
  <2> QED BY <2>3, <2>4
<1>10. ~DisconnectArmed
  BY DEF DisconnectArmed, TextInv, TypeOK, Numbered
<1>11. CASE UNCHANGED vars
  BY <1>1, <1>11 DEF vars, stored
<1> HIDE DEF Goal
<1>12. CASE ConsumeLoop
  BY <1>5, <1>6, <1>7, <1>12 DEF ConsumeLoop
<1> QED BY <1>2, <1>3, <1>4, <1>8, <1>9, <1>10, <1>11, <1>12 DEF Next

\* Under the same assumption the pipeline implements the feed: a channel carries
\* only what the transcript already holds under the same number, numbers grow in
\* both, and a cancelled fanout's late commit or publish is such a step too.
THEOREM PipelineIsFeed == ASSUME Numbered PROVE Spec => ImplementsFeed
<1>1. Init => Feed!Init
  <2> SUFFICES ASSUME Init PROVE Feed!Init
    OBVIOUS
  <2>1. Transcript = {}
    BY DEF Init, Transcript
  <2> QED BY <2>1 DEF Init, Feed!Init, Transcript
<1>2. TextInv /\ NumberInv /\ [Next]_vars => [Feed!Store \/ Feed!Carry]_<<Transcript, out>>
  BY FeedStep
<1> QED BY <1>1, <1>2, NumberInvariant, PTL DEF Spec, ImplementsFeed, Feed!Spec, Transcript

-----------------------------------------------------------------------------
(* Nobody is left out: what HealthyTargetsServed needs besides fairness.   *)

\* The current segment goes to the healthy target l.
Due(l) == l \in Targets \ Faulty /\ l # cur.lang /\ cur.text \notin Masked

\* Where the current segment's translation into l is stored: not before it is
\* translated, and with the carried caption once it is done.
TranslationInv ==
  /\ fan \in {"source", "targets"} => \A l \in Targets : trows[l][cur.seq] = 0
  /\ \A l \in Targets : tr[l] \in {"translating", "storing"} => trows[l][cur.seq] = 0
  /\ \A l \in Targets : tr[l] \in {"speech", "publishing"} => trows[l][cur.seq] = cur.text

\* When the fanout is about to leave a segment, or a target is done with it
\* earlier, every healthy target has stored it and its channel has carried it:
\* no failing provider, publish or storage of another target takes it away.
NobodyLeftOut ==
  fan = "translating" =>
    \A l \in Targets : Due(l) /\ tr[l] = "idle" =>
      /\ trows[l][cur.seq] = cur.text
      /\ \E i \in 1 .. Len(out[l]) : out[l][i] = Caption(cur)

ServedInv == TranslationInv /\ NobodyLeftOut

\* Steps that handle no target.
LEMMA ServedKept ==
  ASSUME ServedInv, UNCHANGED <<cur, tr, trows, out>>,
         fan' \in {"source", "targets"} => fan \in {"source", "targets"},
         fan' = "translating" => fan = "translating"
  PROVE  ServedInv'
BY DEF ServedInv, TranslationInv, NobodyLeftOut, Due, Caption

LEMMA TakeServed ==
  ASSUME TextInv, ServedInv, Take
  PROVE  ServedInv'
<1>1. fan = "idle" /\ fan' = "persisting" /\ tr' = tr
  BY DEF Take
<1>2. \A l \in Targets : tr'[l] = "idle"
  BY <1>1, BeforeStep
<1> QED BY <1>1, <1>2 DEF ServedInv, TranslationInv, NobodyLeftOut

\* Nothing is stored under a number that is new.
LEMMA PersistServed ==
  ASSUME TextInv, NumberInv, ServedInv, Persist
  PROVE  ServedInv'
<1>1. fan = "persisting" /\ fan' = "source" /\ UNCHANGED <<cur, tr, trows>>
  BY DEF Persist
<1>2. rows[cur.seq] = 0 /\ cur.seq \in Texts
  BY <1>1, InsertNumber
<1>3. \A l \in Targets : trows'[l][cur'.seq] = 0
  BY <1>1, <1>2 DEF NumberInv, RowsInv, TranslationOfItsRow
<1>4. \A l \in Targets : tr'[l] = "idle"
  BY <1>1, BeforeStep
<1> QED BY <1>1, <1>3, <1>4 DEF ServedInv, TranslationInv, NobodyLeftOut

LEMMA GetTargetsServed ==
  ASSUME TextInv, ServedInv, GetTargets
  PROVE  ServedInv'
<1>1. /\ fan = "targets" /\ UNCHANGED <<cur, trows>>
      /\ \/ /\ fan' = "translating"
            /\ tr' = [l \in Targets |-> IF l = cur.lang \/ cur.text \in Masked
                                        THEN "idle" ELSE "translating"]
         \/ fan' = "idle" /\ tr' = tr
  BY DEF GetTargets, stored
<1>2. \A l \in Targets : tr[l] = "idle" /\ trows[l][cur.seq] = 0
  BY <1>1, BeforeStep DEF ServedInv, TranslationInv
<1>3. TranslationInv'
  BY <1>1, <1>2 DEF TranslationInv
<1>4. \A l \in Targets : fan' = "translating" /\ Due(l)' => tr'[l] = "translating"
  BY <1>1 DEF Due
<1>5. NobodyLeftOut'
  BY <1>4 DEF NobodyLeftOut
<1> QED BY <1>3, <1>5 DEF ServedInv

\* What a step of l's translation does for l, and that it does nothing for the
\* other targets.
LEMMA TranslateOneServed ==
  ASSUME Numbered, TextInv, NumberInv, ServedInv, NEW l \in Targets, TranslateOne(l)
  PROVE  ServedInv'
<1>1. /\ fan = "translating" /\ tr[l] # "idle" /\ l \in Langs /\ cur.seq \in Texts
      /\ tr \in [Targets -> {"idle", "translating", "storing", "speech", "publishing"}]
      /\ trows \in [Targets -> [Texts -> 0 .. MaxTexts]]
  BY BeforeStep
     DEF TranslateOne, Translate, StoreTranslation, Synthesize, PublishTranslation, Handling
<1>2. hasRow
  BY <1>1 DEF NumberInv, CurrentNumber, Handling
<1>3. TranslationInv /\ NobodyLeftOut
  BY DEF ServedInv
<1>4. UNCHANGED <<fan, cur>>
  BY DEF TranslateOne, Translate, StoreTranslation, Synthesize, PublishTranslation
<1>5. ASSUME NEW m \in Targets, m # l
      PROVE  tr'[m] = tr[m] /\ trows'[m] = trows[m] /\ out'[m] = out[m]
  <2>1. m \in Langs
    BY BeforeStep
  <2>2. Broadcast({l})[m] = out[m]
    BY <1>5, <2>1, BroadcastShape
  <2>3. StoredTranslation(l)[m] = trows[m]
    BY <1>1, <1>5 DEF StoredTranslation
  <2> QED BY <1>1, <1>5, <2>2, <2>3
          DEF TranslateOne, Translate, StoreTranslation, Synthesize, PublishTranslation, stored
<1> DEFINE Stored == trows'[l][cur.seq] = cur.text
           Logged == \E i \in 1 .. Len(out'[l]) : out'[l][i] = Caption(cur)
<1>6. /\ tr'[l] \in {"translating", "storing"} => trows'[l][cur.seq] = 0
      /\ tr'[l] \in {"speech", "publishing"} => Stored
      /\ l \notin Faulty /\ tr'[l] = "idle" => Stored /\ Logged
  <2>1. CASE Translate(l)
    <3>1. trows' = trows /\ (tr'[l] = "storing" \/ (l \in Faulty /\ tr'[l] = "idle"))
      BY <1>1, <1>2, <2>1 DEF Translate, stored
    <3>2. trows[l][cur.seq] = 0
      BY <1>3, <2>1 DEF Translate, TranslationInv
    <3> QED BY <3>1, <3>2
  <2>2. CASE StoreTranslation(l)
    <3>1. trows[l][cur.seq] = 0
      BY <1>3, <2>2 DEF StoreTranslation, TranslationInv
    <3>2. tr'[l] = "speech" /\ trows' = StoredTranslation(l)
      BY <1>1, <2>2, <3>1 DEF StoreTranslation, Numbered
    <3>3. StoredTranslation(l)[l][cur.seq] = cur.text
      BY <1>1 DEF StoredTranslation
    <3> QED BY <3>2, <3>3
  <2>3. CASE Synthesize(l)
    <3>1. trows' = trows /\ tr'[l] = "publishing"
      BY <1>1, <2>3 DEF Synthesize, stored, Numbered
    <3>2. trows[l][cur.seq] = cur.text
      BY <1>3, <2>3 DEF Synthesize, TranslationInv
    <3> QED BY <3>1, <3>2
  <2>4. CASE PublishTranslation(l)
    <3>1. /\ trows' = trows /\ tr'[l] = "idle"
          /\ l \notin Faulty => out' = Broadcast({l})
      BY <1>1, <2>4 DEF PublishTranslation, stored
    <3>2. trows[l][cur.seq] = cur.text
      BY <1>3, <2>4 DEF PublishTranslation, TranslationInv
    <3>3. l \notin Faulty => Logged
      <4>1. l \notin Faulty => out'[l] = Append(out[l], Caption(cur))
        BY <1>1, <3>1, BroadcastShape
      <4>2. out[l] \in Seq(Captions)
        BY <1>1 DEF TextInv, TypeOK
      <4>3. /\ Append(out[l], Caption(cur))[Len(out[l]) + 1] = Caption(cur)
            /\ Len(out[l]) + 1 \in 1 .. Len(Append(out[l], Caption(cur)))
        BY <4>2
      <4> QED BY <4>1, <4>3
    <3> QED BY <3>1, <3>2, <3>3
  <2> QED BY <2>1, <2>2, <2>3, <2>4 DEF TranslateOne
<1>7. TranslationInv'
  <2>1. \A m \in Targets : /\ tr'[m] \in {"translating", "storing"} => trows'[m][cur.seq] = 0
                           /\ tr'[m] \in {"speech", "publishing"} => trows'[m][cur.seq] = cur.text
    BY <1>3, <1>5, <1>6 DEF TranslationInv
  <2> QED BY <1>1, <1>4, <2>1 DEF TranslationInv
<1>8. NobodyLeftOut'
  <2> SUFFICES ASSUME NEW m \in Targets, Due(m)', tr'[m] = "idle"
               PROVE  /\ trows'[m][cur.seq] = cur.text
                      /\ \E i \in 1 .. Len(out'[m]) : out'[m][i] = Caption(cur)
    BY <1>4 DEF NobodyLeftOut, Caption
  <2>1. Due(m) /\ m \notin Faulty
    BY <1>4 DEF Due
  <2>2. CASE m = l
    BY <1>6, <2>1, <2>2
  <2>3. CASE m # l
    <3>1. tr[m] = "idle" /\ trows'[m] = trows[m] /\ out'[m] = out[m]
      BY <1>5, <2>3
    <3>2. trows[m][cur.seq] = cur.text /\ \E i \in 1 .. Len(out[m]) : out[m][i] = Caption(cur)
      BY <1>1, <1>3, <2>1, <3>1 DEF NobodyLeftOut
    <3> QED BY <3>1, <3>2
  <2> QED BY <2>2, <2>3
<1> QED BY <1>7, <1>8 DEF ServedInv

LEMMA NextServed ==
  ASSUME Numbered
  PROVE  TextInv /\ NumberInv /\ ServedInv /\ [Next]_vars => ServedInv'
<1> SUFFICES ASSUME TextInv, NumberInv, ServedInv, [Next]_vars PROVE ServedInv'
  OBVIOUS
<1>1. ASSUME NEW kind \in Kinds, Connect(kind) PROVE ServedInv'
  BY <1>1, ServedKept DEF Connect, handling, stored
<1>2. CASE Seed
  BY <1>2, ServedKept DEF Seed, handling, stored
<1>3. ASSUME NEW lang \in SpeechLangs, Accept(lang) PROVE ServedInv'
  BY <1>3, ServedKept DEF Accept, handling, stored
<1>4. CASE Subscribe \/ GatherEnds
  BY <1>4, ServedKept DEF Subscribe, GatherEnds, handling, stored
<1>5. CASE PublishSource
  <2>1. fan = "source" /\ fan' \in {"targets", "idle"} /\ UNCHANGED <<cur, tr, trows>>
    BY <1>5 DEF PublishSource, handling, stored
  <2> QED BY <2>1 DEF ServedInv, TranslationInv, NobodyLeftOut
<1>6. CASE ConsumeLoop
  BY <1>4, <1>5, <1>6, TakeServed, PersistServed, GetTargetsServed DEF ConsumeLoop
<1>7. ASSUME NEW l \in Targets, TranslateOne(l) PROVE ServedInv'
  BY <1>7, TranslateOneServed
<1>8. CASE Disconnect
  BY <1>8 DEF Disconnect, StopFanout, ServedInv, TranslationInv, NobodyLeftOut
<1>9. ~DisconnectArmed
  BY DEF DisconnectArmed, TextInv, TypeOK, Numbered
<1>10. CASE UNCHANGED vars
  BY <1>10, ServedKept DEF vars, handling, stored
<1> QED BY <1>1, <1>2, <1>3, <1>6, <1>7, <1>8, <1>9, <1>10 DEF Next

LEMMA ServedInvariant == ASSUME Numbered PROVE Spec => [](TextInv /\ NumberInv /\ ServedInv)
<1>1. Init => ServedInv
  BY DEF Init, ServedInv, TranslationInv, NobodyLeftOut
<1>2. TextInv /\ NumberInv /\ ServedInv /\ [Next]_vars => ServedInv'
  BY NextServed
<1> QED BY <1>1, <1>2, NumberInvariant, PTL DEF Spec

\* One language's failing provider or publish costs the others nothing: with
\* audio operators and a database that answers, every healthy target has stored
\* and carried a segment when the fanout is done with it, whatever the other
\* targets met and however often operators came and went.
THEOREM HealthyTargetsKept == ASSUME Numbered PROVE Spec => []NobodyLeftOut
<1>1. ServedInv => NobodyLeftOut
  BY DEF ServedInv
<1> QED BY <1>1, ServedInvariant, PTL

Served(l, x) == \E i \in 1 .. Len(out[l]) : out[l][i].text = x

\* The fanout handles segment x, which it has published in its own language.
Owed(l, x) == fan \in {"targets", "translating"} /\ cur.text = x /\ Due(l)

\* How many steps l's translation is from its end.
StepsLeft(l) ==
  IF fan = "targets" THEN 5
  ELSE CASE tr[l] = "translating" -> 4
         [] tr[l] = "storing" -> 3
         [] tr[l] = "speech" -> 2
         [] tr[l] = "publishing" -> 1
         [] OTHER -> 0

\* A step brings the segment nearer to the end of l's translation, if it is the
\* look-up of the targets or l's own; the others never move it away.
Nearer(l) == IF GetTargets \/ TranslateOne(l) THEN StepsLeft(l)' < StepsLeft(l)
                                             ELSE StepsLeft(l)' <= StepsLeft(l)

\* A segment that is due in l stays so and gets nearer to its end, until the
\* channel of l has carried it or the fanout is stopped.
HeldUntilServed ==
  [][\A l \in Targets, x \in Texts : Owed(l, x) =>
       Served(l, x)' \/ fan' = "off" \/ (Owed(l, x)' /\ Nearer(l))]_vars

\* The part of HealthyTargetsServed that is no matter of fairness: a segment is
\* never given up between its source's publish and a healthy target's, so that
\* at most five steps of fair tasks are all it takes.
THEOREM OwedIsHeld == ASSUME Numbered PROVE Spec => HeldUntilServed
<1> DEFINE Held(l, x) == \/ Served(l, x)' \/ fan' = "off"
                         \/ Owed(l, x)' /\ StepsLeft(l)' <= StepsLeft(l)
<1>1. ASSUME TextInv, NumberInv, ServedInv, [Next]_vars, NEW l \in Targets, NEW x \in Texts,
             Owed(l, x)
      PROVE  Served(l, x)' \/ fan' = "off" \/ (Owed(l, x)' /\ Nearer(l))
  <2>1. fan \in {"targets", "translating"} /\ cur.text = x /\ Due(l)
    BY <1>1 DEF Owed
  <2>2. GetTargets \/ TranslateOne(l) => StepsLeft(l)' < StepsLeft(l)
    <3>1. ASSUME GetTargets PROVE StepsLeft(l)' < StepsLeft(l)
      BY <2>1, <3>1 DEF GetTargets, Numbered, StepsLeft, Due
    <3>2. ASSUME TranslateOne(l) PROVE StepsLeft(l)' < StepsLeft(l)
      <4>1. /\ fan = "translating" /\ fan' = fan
            /\ tr \in [Targets -> {"idle", "translating", "storing", "speech", "publishing"}]
        BY <1>1, <3>2, BeforeStep
           DEF TranslateOne, Translate, StoreTranslation, Synthesize, PublishTranslation
      <4>2. hasRow
        BY <1>1, <4>1 DEF NumberInv, CurrentNumber, Handling
      <4>3. \/ tr[l] = "translating" /\ tr'[l] \in {"storing", "idle"}
            \/ tr[l] = "storing" /\ tr'[l] \in {"speech", "idle"}
            \/ tr[l] = "speech" /\ tr'[l] \in {"publishing", "idle"}
            \/ tr[l] = "publishing" /\ tr'[l] = "idle"
        BY <3>2, <4>1, <4>2
           DEF TranslateOne, Translate, StoreTranslation, Synthesize, PublishTranslation
      <4> QED BY <4>1, <4>3 DEF StepsLeft
    <3> QED BY <3>1, <3>2
  <2> SUFFICES Held(l, x)
    BY <2>2 DEF Nearer
  <2>3. ASSUME UNCHANGED <<fan, cur, tr>> PROVE Held(l, x)
    <3>1. Owed(l, x)' /\ StepsLeft(l)' = StepsLeft(l)
      BY <2>1, <2>3 DEF Owed, Due, StepsLeft
    <3>2. StepsLeft(l) \in 0 .. 5
      BY DEF StepsLeft
    <3> QED BY <3>1, <3>2
  <2>4. ASSUME NEW kind \in Kinds, Connect(kind) PROVE Held(l, x)
    BY <2>1, <2>3, <2>4 DEF Connect, handling
  <2>5. CASE Seed
    BY <2>3, <2>5 DEF Seed, handling
  <2>6. ASSUME NEW lang \in SpeechLangs, Accept(lang) PROVE Held(l, x)
    BY <2>3, <2>6 DEF Accept, handling
  <2>7. CASE Subscribe \/ Take \/ Persist \/ PublishSource
    BY <2>1, <2>7 DEF Subscribe, Take, Persist, PublishSource
  <2>8. CASE GetTargets
    <3>1. /\ fan = "targets" /\ fan' = "translating" /\ UNCHANGED <<cur>>
          /\ tr' = [m \in Targets |-> IF m = cur.lang \/ cur.text \in Masked
                                      THEN "idle" ELSE "translating"]
      BY <2>8 DEF GetTargets, Numbered
    <3>2. tr'[l] = "translating"
      BY <2>1, <3>1 DEF Due
    <3> QED BY <2>1, <3>1, <3>2 DEF Owed, Due, StepsLeft
  <2>9. CASE GatherEnds
    <3>1. fan = "translating" /\ tr[l] = "idle" /\ out' = out
      BY <2>9 DEF GatherEnds
    <3>2. PICK i \in 1 .. Len(out[l]) : out[l][i] = Caption(cur)
      BY <1>1, <2>1, <3>1 DEF ServedInv, NobodyLeftOut
    <3> QED BY <2>1, <3>1, <3>2 DEF Served, Caption
  <2>10. ASSUME NEW m \in Targets, TranslateOne(m) PROVE Held(l, x)
    <3>1. /\ fan = "translating" /\ UNCHANGED <<fan, cur>>
          /\ tr \in [Targets -> {"idle", "translating", "storing", "speech", "publishing"}]
      BY <1>1, <2>10, BeforeStep
         DEF TranslateOne, Translate, StoreTranslation, Synthesize, PublishTranslation
    <3>2. Owed(l, x)'
      BY <2>1, <3>1 DEF Owed, Due
    <3>3. StepsLeft(l)' <= StepsLeft(l)
      <4>1. CASE m # l
        BY <2>10, <3>1, <4>1
           DEF TranslateOne, Translate, StoreTranslation, Synthesize, PublishTranslation, StepsLeft
      <4>2. CASE m = l
        <5>1. StepsLeft(l)' < StepsLeft(l)
          BY <2>10, <2>2, <4>2
        <5>2. StepsLeft(l)' \in 0 .. 5 /\ StepsLeft(l) \in 0 .. 5
          BY DEF StepsLeft
        <5> QED BY <5>1, <5>2
      <4> QED BY <4>1, <4>2
    <3> QED BY <3>2, <3>3
  <2>11. CASE Disconnect
    BY <2>11 DEF Disconnect, StopFanout
  <2>12. ~DisconnectArmed
    BY <1>1 DEF DisconnectArmed, TextInv, TypeOK, Numbered
  <2>13. CASE UNCHANGED vars
    BY <2>3, <2>13 DEF vars, handling
  <2> HIDE DEF Held
  <2>14. CASE ConsumeLoop
    BY <2>7, <2>8, <2>9, <2>14 DEF ConsumeLoop
  <2> QED BY <1>1, <2>4, <2>5, <2>6, <2>10, <2>11, <2>12, <2>13, <2>14 DEF Next
<1>2. TextInv /\ NumberInv /\ ServedInv /\ [Next]_vars =>
        [\A l \in Targets, x \in Texts : Owed(l, x) =>
           Served(l, x)' \/ fan' = "off" \/ (Owed(l, x)' /\ Nearer(l))]_vars
  BY <1>1
<1> QED BY <1>2, ServedInvariant, PTL DEF Spec, HeldUntilServed

=============================================================================
