----------------------- MODULE ListenerStream_proofs -----------------------
(***************************************************************************)
(* Proofs about ListenerStream, for every set of pages, addresses,         *)
(* connections and captions and every value of the caps and the scrollback.*)
(*                                                                         *)
(* The tracker: whatever ends a handler (a refused session, a page that is *)
(* gone, a failing query, the kill-switch), its slot is returned exactly   *)
(* once, so the counters equal the handlers that hold a slot and the caps, *)
(* tested on the counters, hold for the handlers.  The gauge: it is raised *)
(* and lowered at most once for each connection.  The captions: what a     *)
(* page has heard, what is on its wire and what waits in its inbox are     *)
(* related by the handler's cursor, hence order and delivery; and what it  *)
(* takes for a page to miss no caption at all.                             *)
(***************************************************************************)
EXTENDS ListenerStream, FiniteSetTheorems, TLAPS

\* Where the handlers are and whose they are.
HandlersOK ==
  /\ pc \in [Conns -> Places]
  /\ by \in [Conns -> Clients \cup {NoOne}]
  /\ \A c \in Conns : by[c] = NoOne <=> pc[c] = "new"
  /\ ipCount \in [IPs -> Nat] /\ sessionCount \in Nat

SlotInv == HandlersOK /\ SlotsCounted /\ CapsHold

LEMMA HoldersFinite ==
  /\ IsFiniteSet(Holders)
  /\ \A a \in IPs : IsFiniteSet(HoldersAt(a))
<1>1. Holders \in SUBSET Conns /\ \A a \in IPs : HoldersAt(a) \in SUBSET Conns
  BY DEF Holders, HoldersAt
<1> QED BY <1>1, ConnsAssumption, FS_Subset

\* A handler that holds a slot holds it at an address.
LEMMA HolderAddress ==
  ASSUME HandlersOK, NEW c \in Conns, pc[c] # "new"
  PROVE  by[c] \in Clients /\ IPOf(c) \in IPs
BY AddressAssumption DEF HandlersOK, IPOf

\* The typing of a step that moves one handler and keeps its page.
LEMMA MoveType ==
  ASSUME HandlersOK, NEW c \in Conns, pc[c] # "new",
         NEW place \in Places \ {"new"},
         pc' = [pc EXCEPT ![c] = place], UNCHANGED by,
         (ipCount \in [IPs -> Nat] /\ sessionCount \in Nat)'
  PROVE  HandlersOK'
BY DEF HandlersOK, Places

\* A step after which the same handlers hold slots, at the same addresses.
LEMMA SameHolders ==
  ASSUME SlotInv, HandlersOK', UNCHANGED tracker,
         \A c \in Conns : HoldsSlot(c)' <=> HoldsSlot(c),
         \A c \in Conns : HoldsSlot(c) => by'[c] = by[c]
  PROVE  SlotInv'
<1>1. Holders' = Holders
  BY DEF Holders
<1>2. \A c \in Holders : IPOf(c)' = IPOf(c)
  BY DEF Holders, IPOf
<1>3. \A a \in IPs : HoldersAt(a)' = HoldersAt(a)
  BY <1>1, <1>2 DEF HoldersAt
<1> QED BY <1>1, <1>3 DEF SlotInv, SlotsCounted, CapsHold, tracker

-----------------------------------------------------------------------------
(* The two kinds of step that change the holders.                          *)

LEMMA AcquireStep ==
  ASSUME SlotInv, NEW c \in Conns, TryAcquire(c)
  PROVE  SlotInv'
<1> USE LimitsAssumption
<1>1. HandlersOK /\ pc[c] = "acquire" /\ by' = by
  BY DEF SlotInv, TryAcquire
<1>2. PICK ip \in IPs : ip = IPOf(c)
  BY <1>1, HolderAddress
<1>3. CASE ~Room(c)
  <2>1. pc' = [pc EXCEPT ![c] = "closed"] /\ UNCHANGED <<by, tracker>>
    BY <1>3 DEF TryAcquire, Goto
  <2>2. HandlersOK'
    BY <1>1, <2>1, MoveType DEF Places, tracker, HandlersOK
  <2>3. \A d \in Conns : HoldsSlot(d)' <=> HoldsSlot(d)
    BY <1>1, <2>1 DEF HoldsSlot, HandlersOK
  <2> QED BY <2>1, <2>2, <2>3, SameHolders
<1>4. CASE Room(c)
  <2>1. /\ pc' = [pc EXCEPT ![c] = "accept"]
        /\ ipCount' = [ipCount EXCEPT ![ip] = @ + 1]
        /\ sessionCount' = sessionCount + 1
    BY <1>2, <1>4 DEF TryAcquire, Goto
  <2>2. (ipCount \in [IPs -> Nat] /\ sessionCount \in Nat)'
    BY <1>1, <1>2, <2>1 DEF HandlersOK
  <2>3. HandlersOK'
    BY <1>1, <2>1, <2>2, MoveType DEF Places
  <2>4. c \notin Holders /\ Holders' = Holders \cup {c}
    BY <1>1, <2>1 DEF Holders, HoldsSlot, HandlersOK
  <2>5. \A d \in Conns : IPOf(d)' = IPOf(d)
    BY <1>1 DEF IPOf
  <2>6. /\ HoldersAt(ip)' = HoldersAt(ip) \cup {c}
        /\ c \notin HoldersAt(ip)
        /\ \A a \in IPs \ {ip} : HoldersAt(a)' = HoldersAt(a)
    BY <1>2, <2>4, <2>5 DEF HoldersAt, Holders
  <2>7. Cardinality(Holders') = Cardinality(Holders) + 1
    BY <2>4, HoldersFinite, FS_AddElement
  <2>8. Cardinality(HoldersAt(ip)') = Cardinality(HoldersAt(ip)) + 1
    BY <1>2, <2>6, HoldersFinite, FS_AddElement
  <2>9. SlotsCounted'
    BY <1>1, <1>2, <2>1, <2>6, <2>7, <2>8 DEF SlotInv, SlotsCounted, HandlersOK
  <2>10. sessionCount' <= MaxPerSession /\ ipCount'[ip] <= MaxPerIP
    BY <1>1, <1>2, <1>4, <2>1 DEF Room, HandlersOK
  <2>11. CapsHold'
    BY <1>2, <2>6, <2>9, <2>10 DEF SlotInv, CapsHold, SlotsCounted
  <2> QED BY <2>3, <2>9, <2>11 DEF SlotInv
<1> QED BY <1>3, <1>4

LEMMA ReleaseStep ==
  ASSUME SlotInv, NEW c \in Conns, HoldsSlot(c),
         pc' = [pc EXCEPT ![c] = "closed"], UNCHANGED by, ReleaseSlot(c)
  PROVE  SlotInv'
<1> USE LimitsAssumption
<1>1. HandlersOK /\ pc[c] # "new" /\ c \in Holders
  BY DEF SlotInv, HoldsSlot, Holders
<1>2. PICK ip \in IPs : ip = IPOf(c)
  BY <1>1, HolderAddress
<1>3. Holders' = Holders \ {c}
  BY <1>1 DEF Holders, HoldsSlot, HandlersOK
<1>4. \A d \in Conns : IPOf(d)' = IPOf(d)
  BY DEF IPOf
<1>5. /\ HoldersAt(ip)' = HoldersAt(ip) \ {c}
      /\ c \in HoldersAt(ip)
      /\ \A a \in IPs \ {ip} : HoldersAt(a)' = HoldersAt(a)
  BY <1>1, <1>2, <1>3, <1>4 DEF HoldersAt, Holders
<1>6. /\ Cardinality(Holders') = Cardinality(Holders) - 1
      /\ Cardinality(Holders) \in Nat /\ Cardinality(Holders') \in Nat
  BY <1>1, <1>3, HoldersFinite, FS_RemoveElement, FS_CardinalityType
<1>7. /\ Cardinality(HoldersAt(ip)') = Cardinality(HoldersAt(ip)) - 1
      /\ Cardinality(HoldersAt(ip)) \in Nat /\ Cardinality(HoldersAt(ip)') \in Nat
  BY <1>2, <1>5, HoldersFinite, FS_RemoveElement, FS_CardinalityType
<1>8. sessionCount' = sessionCount - 1 /\ sessionCount' \in Nat
  BY <1>6 DEF SlotInv, SlotsCounted, ReleaseSlot
<1>9. ipCount' = [ipCount EXCEPT ![ip] = @ - 1] /\ ipCount[ip] - 1 \in Nat
  <2>1. ipCount[ip] = Cardinality(HoldersAt(ip))
    BY <1>2 DEF SlotInv, SlotsCounted
  <2>2. ipCount[ip] \in Nat /\ ipCount[ip] - 1 \in Nat
    BY <1>7, <2>1
  <2>3. (IF ipCount[ip] <= 1 THEN 0 ELSE ipCount[ip] - 1) = ipCount[ip] - 1
    BY <2>2
  <2> QED BY <1>2, <2>2, <2>3 DEF ReleaseSlot
<1>10. HandlersOK'
  <2>1. (ipCount \in [IPs -> Nat])'
    BY <1>1, <1>2, <1>9 DEF HandlersOK
  <2> QED BY <1>1, <1>8, <2>1, MoveType DEF Places
<1>11. SlotsCounted'
  BY <1>1, <1>2, <1>5, <1>6, <1>7, <1>8, <1>9 DEF SlotInv, SlotsCounted, HandlersOK
<1>12. CapsHold'
  <2>1. Cardinality(Holders') <= MaxPerSession
    BY <1>6 DEF SlotInv, CapsHold
  <2>2. Cardinality(HoldersAt(ip)') <= MaxPerIP
    BY <1>2, <1>7 DEF SlotInv, CapsHold
  <2>3. ASSUME NEW a \in IPs PROVE Cardinality(HoldersAt(a)') <= MaxPerIP
    <3>1. CASE a = ip
      BY <2>2, <3>1
    <3>2. CASE a # ip
      BY <1>5, <3>2 DEF SlotInv, CapsHold
    <3> QED BY <3>1, <3>2
  <2> QED BY <2>1, <2>3 DEF CapsHold
<1> QED BY <1>10, <1>11, <1>12 DEF SlotInv

-----------------------------------------------------------------------------

LEMMA SlotInvInit == Init => SlotInv
<1> SUFFICES ASSUME Init PROVE SlotInv
  OBVIOUS
<1>1. HandlersOK
  BY DEF Init, HandlersOK, Places
<1>2. Holders = {} /\ \A a \in IPs : HoldersAt(a) = {}
  BY DEF Init, Holders, HoldersAt, HoldsSlot
<1>3. Cardinality({}) = 0
  BY FS_EmptySet
<1>4. SlotsCounted
  BY <1>2, <1>3 DEF Init, SlotsCounted
<1>5. CapsHold
  BY <1>2, <1>3, LimitsAssumption DEF CapsHold
<1> QED BY <1>1, <1>4, <1>5 DEF SlotInv

\* A move of a handler that neither takes nor returns a slot.
LEMMA QuietMove ==
  ASSUME SlotInv, NEW c \in Conns, pc[c] # "new",
         NEW place \in Places \ {"new"},
         pc' = [pc EXCEPT ![c] = place], UNCHANGED <<by, tracker>>,
         HoldsSlot(c) <=> place \in {"accept", "scrollback", "subscribe", "loop",
                                     "finally", "unsubscribe"}
  PROVE  SlotInv'
<1>1. HandlersOK'
  BY MoveType DEF SlotInv, HandlersOK, tracker
<1>2. \A d \in Conns : HoldsSlot(d)' <=> HoldsSlot(d)
  BY DEF HoldsSlot, SlotInv, HandlersOK
<1> QED BY <1>1, <1>2, SameHolders

LEMMA SlotInvStep == SlotInv /\ [Next]_vars => SlotInv'
<1> SUFFICES ASSUME SlotInv, [Next]_vars PROVE SlotInv'
  OBVIOUS
<1>1. ASSUME UNCHANGED <<pc, by, tracker>> PROVE SlotInv'
  BY <1>1, SameHolders DEF SlotInv, HandlersOK, HoldsSlot, tracker
<1>2. CASE Feed
  BY <1>1, <1>2 DEF Feed, StoreCaption, PublishCaption, EndSession, KillSwitch
<1>3. ASSUME NEW k \in Clients, NEW c \in Conns, Page(k, c) PROVE SlotInv'
  <2>1. CASE Open(c, k)
    <3>1. /\ pc[c] = "new" /\ pc' = [pc EXCEPT ![c] = "lookup"]
          /\ by' = [by EXCEPT ![c] = k] /\ UNCHANGED tracker
      BY <2>1 DEF Open, Goto
    <3>2. HandlersOK'
      BY <3>1, ConnsAssumption DEF SlotInv, HandlersOK, Places, tracker
    <3>3. \A d \in Conns : HoldsSlot(d)' <=> HoldsSlot(d)
      BY <3>1 DEF HoldsSlot, SlotInv, HandlersOK
    <3>4. \A d \in Conns : HoldsSlot(d) => by'[d] = by[d]
      BY <3>1 DEF HoldsSlot, SlotInv, HandlersOK
    <3> QED BY <3>1, <3>2, <3>3, <3>4, SameHolders
  <2>2. CASE Receive(k, c) \/ Cut(k, c) \/ OnClose(k, c)
    BY <1>1, <2>2 DEF Receive, Cut, OnClose
  <2> QED BY <1>3, <2>1, <2>2 DEF Page
<1>4. ASSUME NEW c \in Conns, Notice(c) PROVE SlotInv'
  BY <1>1, <1>4 DEF Notice
<1>5. ASSUME NEW c \in Conns, Lookup(c) \/ Validate(c) PROVE SlotInv'
  <2>1. /\ pc[c] \in {"lookup", "validate"} /\ UNCHANGED <<by, tracker>>
        /\ \E place \in {"validate", "acquire", "closed"} :
             pc' = [pc EXCEPT ![c] = place]
    BY <1>5 DEF Lookup, Validate, Goto
  <2> QED BY <2>1, QuietMove DEF HoldsSlot, Places
<1>6. ASSUME NEW c \in Conns, TryAcquire(c) PROVE SlotInv'
  BY <1>6, AcquireStep
<1>7. ASSUME NEW c \in Conns,
             Accept(c) \/ Scrollback(c) \/ Subscribe(c) \/ Killed(c) \/ LoopEnds(c)
               \/ GetMessageRaises(c) \/ Finally(c)
      PROVE SlotInv'
  <2>1. /\ pc[c] \in {"accept", "scrollback", "subscribe", "loop", "finally"}
        /\ UNCHANGED <<by, tracker>>
        /\ \E place \in {"scrollback", "subscribe", "loop", "finally", "unsubscribe"} :
             pc' = [pc EXCEPT ![c] = place]
    BY <1>7 DEF Accept, Scrollback, Subscribe, Killed, LoopEnds, GetMessageRaises,
                Finally, HasMessage, Goto
  <2> QED BY <2>1, QuietMove DEF HoldsSlot, Places
<1>8. ASSUME NEW c \in Conns, Segment(c) PROVE SlotInv'
  BY <1>1, <1>8 DEF Segment
<1>9. ASSUME NEW c \in Conns, AcceptRaises(c) \/ ScrollbackRaises(c) \/ Unsubscribe(c)
      PROVE SlotInv'
  <2>1. /\ HoldsSlot(c) /\ ReleaseSlot(c) /\ UNCHANGED by
        /\ pc' = [pc EXCEPT ![c] = "closed"]
    BY <1>9 DEF AcceptRaises, ScrollbackRaises, Unsubscribe, Escape, Goto, HoldsSlot
  <2> QED BY <2>1, ReleaseStep
<1>10. CASE UNCHANGED vars
  BY <1>1, <1>10 DEF vars
<1> QED
  BY <1>2, <1>3, <1>4, <1>5, <1>6, <1>7, <1>8, <1>9, <1>10 DEF Next, Handler

\* The tracker's counters are the numbers of handlers that hold a slot, for
\* the session and at each address, on every way into and out of the handler.
THEOREM TrackerCounts == Spec => []SlotsCounted
<1>1. Spec => []SlotInv
  BY SlotInvInit, SlotInvStep, PTL DEF Spec
<1> QED BY <1>1, PTL DEF SlotInv

\* listener.py:16-19: never more handlers than the caps allow.
THEOREM CapsAlwaysHold == Spec => []CapsHold
<1>1. Spec => []SlotInv
  BY SlotInvInit, SlotInvStep, PTL DEF Spec
<1> QED BY <1>1, PTL DEF SlotInv

-----------------------------------------------------------------------------
(* The gauge of open connections.                                          *)

Counted(c) == pc[c] \in {"scrollback", "subscribe", "loop", "finally"}
CountedConns == {c \in Conns : Counted(c)}

GaugeInv == gauge \in Nat /\ GaugeCountsOpen

LEMMA CountedFinite == IsFiniteSet(CountedConns)
BY ConnsAssumption, FS_Subset DEF CountedConns

LEMMA GaugeInvStep == SlotInv /\ GaugeInv /\ [Next]_vars => GaugeInv'
<1> SUFFICES ASSUME SlotInv, GaugeInv, [Next]_vars PROVE GaugeInv'
  OBVIOUS
<1>1. /\ Cardinality(CountedConns) \in Nat /\ IsFiniteSet(CountedConns) /\ gauge >= Cardinality(CountedConns)
      /\ pc \in [Conns -> Places]
  BY CountedFinite, FS_CardinalityType DEF GaugeInv, GaugeCountsOpen, CountedConns, Counted, SlotInv, HandlersOK
<1>2. SUFFICES gauge' \in Nat /\ gauge' >= Cardinality(CountedConns')
  BY DEF GaugeInv, GaugeCountsOpen, CountedConns, Counted
<1>3. ASSUME gauge' = gauge, CountedConns' \subseteq CountedConns PROVE gauge' \in Nat /\ gauge' >= Cardinality(CountedConns')
  <2>1. Cardinality(CountedConns') <= Cardinality(CountedConns) /\ Cardinality(CountedConns') \in Nat
    BY <1>1, <1>3, FS_Subset, FS_CardinalityType
  <2> QED BY <1>1, <1>3, <2>1 DEF GaugeInv
<1>4. ASSUME UNCHANGED <<pc, gauge>> PROVE gauge' \in Nat /\ gauge' >= Cardinality(CountedConns')
  BY <1>3, <1>4 DEF CountedConns, Counted
<1>5. CASE Feed
  BY <1>4, <1>5 DEF Feed, StoreCaption, PublishCaption, EndSession, KillSwitch
<1>6. ASSUME NEW k \in Clients, NEW c \in Conns, Page(k, c)
      PROVE  gauge' \in Nat /\ gauge' >= Cardinality(CountedConns')
  <2>1. CASE Open(c, k)
    BY <1>1, <1>3, <2>1 DEF Open, Goto, CountedConns, Counted
  <2>2. CASE Receive(k, c) \/ Cut(k, c) \/ OnClose(k, c)
    BY <1>4, <2>2 DEF Receive, Cut, OnClose
  <2> QED BY <1>6, <2>1, <2>2 DEF Page
<1>7. ASSUME NEW c \in Conns, Accept(c)
      PROVE  gauge' \in Nat /\ gauge' >= Cardinality(CountedConns')
  <2>1. gauge' = gauge + 1 /\ CountedConns' = CountedConns \cup {c} /\ c \notin CountedConns
    BY <1>1, <1>7 DEF Accept, Goto, CountedConns, Counted
  <2>2. Cardinality(CountedConns') = Cardinality(CountedConns) + 1
    BY <1>1, <2>1, FS_AddElement
  <2> QED BY <1>1, <2>1, <2>2 DEF GaugeInv
<1>8. ASSUME NEW c \in Conns, Finally(c)
      PROVE  gauge' \in Nat /\ gauge' >= Cardinality(CountedConns')
  <2>1. gauge' = gauge - 1 /\ CountedConns' = CountedConns \ {c} /\ c \in CountedConns
    BY <1>1, <1>8 DEF Finally, Goto, CountedConns, Counted
  <2>2. Cardinality(CountedConns') = Cardinality(CountedConns) - 1 /\ Cardinality(CountedConns') \in Nat
    BY <1>1, <2>1, FS_RemoveElement, FS_CardinalityType
  <2> QED BY <1>1, <2>1, <2>2 DEF GaugeInv
<1>9. ASSUME NEW c \in Conns,
             Notice(c) \/ GetMessageRaises(c) \/ (Handler(c) /\ ~Accept(c) /\ ~Finally(c))
      PROVE  gauge' = gauge /\ CountedConns' \subseteq CountedConns
  <2>1. CASE Notice(c) \/ Segment(c)
    BY <2>1 DEF Notice, Segment, CountedConns, Counted
  <2>2. CASE GetMessageRaises(c) \/ Scrollback(c) \/ Subscribe(c) \/ Killed(c) \/ LoopEnds(c)
    <3>1. /\ gauge' = gauge /\ c \in CountedConns
          /\ \E place \in {"subscribe", "loop", "finally"} : pc' = [pc EXCEPT ![c] = place]
      BY <2>2 DEF GetMessageRaises, Scrollback, Subscribe, Killed, LoopEnds, HasMessage,
             Goto, CountedConns, Counted
    <3> QED BY <1>1, <3>1 DEF CountedConns, Counted
  <2>3. CASE Lookup(c) \/ Validate(c) \/ TryAcquire(c) \/ AcceptRaises(c)
               \/ ScrollbackRaises(c) \/ Unsubscribe(c)
    <3>1. /\ gauge' = gauge
          /\ \E place \in {"validate", "acquire", "accept", "closed"} :
               pc' = [pc EXCEPT ![c] = place]
      BY <2>3 DEF Lookup, Validate, TryAcquire, AcceptRaises, ScrollbackRaises, Unsubscribe,
             Escape, Goto
    <3> QED BY <1>1, <3>1 DEF CountedConns, Counted
  <2> QED BY <1>9, <2>1, <2>2, <2>3 DEF Handler
<1>10. CASE UNCHANGED vars
  BY <1>4, <1>10 DEF vars
<1> QED BY <1>3, <1>5, <1>6, <1>7, <1>8, <1>9, <1>10 DEF Next

LEMMA GaugeInvariant == Spec => [](SlotInv /\ GaugeInv)
<1>1. Init => GaugeInv
  <2> SUFFICES ASSUME Init PROVE GaugeInv
    OBVIOUS
  <2>1. CountedConns = {}
    BY DEF Init, CountedConns, Counted
  <2>2. gauge = 0 /\ gauge >= Cardinality(CountedConns)
    BY <2>1, FS_EmptySet DEF Init
  <2> QED BY <2>2 DEF GaugeInv, GaugeCountsOpen, CountedConns, Counted
<1> QED BY <1>1, GaugeInvStep, SlotInvInit, SlotInvStep, PTL DEF Spec

\* metrics.py:37: the gauge never reports fewer connections than are open, so a
\* handler's way out never lowers it twice.
THEOREM GaugeNeverLow == Spec => []GaugeCountsOpen
BY GaugeInvariant, PTL DEF GaugeInv

-----------------------------------------------------------------------------
(* Batches on the wire.                                                    *)

\* x is in one of the batches of w.
In(x, w) == \E i \in DOMAIN w : \E j \in DOMAIN w[i] : w[i][j] = x

Increasing(b) == \A i, j \in DOMAIN b : i < j => b[i] < b[j]

\* Each batch is increasing, and a batch is below those after it.
Sorted(w) ==
  /\ \A i \in DOMAIN w : Increasing(w[i])
  /\ \A i, m \in DOMAIN w : i < m =>
       \A j \in DOMAIN w[i], n \in DOMAIN w[m] : w[i][j] < w[m][n]

Wires == Seq(Seq(Captions))

LEMMA InEmpty == \A x : ~In(x, << >>)
BY DEF In

LEMMA SortedEmpty == Sorted(<< >>)
BY DEF Sorted

LEMMA InAppend ==
  ASSUME NEW w \in Wires, NEW b \in Seq(Captions), NEW x
  PROVE  In(x, Append(w, b)) <=> In(x, w) \/ \E j \in DOMAIN b : b[j] = x
<1> DEFINE v == Append(w, b)
<1>1. /\ DOMAIN w = 1 .. Len(w) /\ DOMAIN v = 1 .. Len(w) + 1 /\ Len(w) \in Nat
      /\ v[Len(w) + 1] = b /\ \A i \in 1 .. Len(w) : v[i] = w[i]
  BY DEF Wires
<1>2. \A i \in DOMAIN v : i \in DOMAIN w \/ i = Len(w) + 1
  BY <1>1
<1>3. Len(w) + 1 \in DOMAIN v /\ DOMAIN w \subseteq DOMAIN v
  BY <1>1
<1> HIDE DEF v
<1>4. In(x, v) <=> In(x, w) \/ \E j \in DOMAIN b : b[j] = x
  BY <1>1, <1>2, <1>3, Zenon DEF In
<1> QED BY <1>4 DEF v

LEMMA SortedAppend ==
  ASSUME NEW w \in Wires, Sorted(w), NEW b \in Seq(Captions), Increasing(b),
         \A x : In(x, w) => \A j \in DOMAIN b : x < b[j]
  PROVE  Sorted(Append(w, b))
<1> DEFINE v == Append(w, b)
<1>1. /\ DOMAIN w = 1 .. Len(w) /\ DOMAIN v = 1 .. Len(w) + 1 /\ Len(w) \in Nat
      /\ v[Len(w) + 1] = b /\ \A i \in 1 .. Len(w) : v[i] = w[i]
  BY DEF Wires
<1> HIDE DEF v
<1>2. \A i \in DOMAIN v : Increasing(v[i])
  BY <1>1 DEF Sorted
<1>3. ASSUME NEW i \in DOMAIN v, NEW m \in DOMAIN v, i < m,
             NEW j \in DOMAIN v[i], NEW n \in DOMAIN v[m]
      PROVE  v[i][j] < v[m][n]
  <2>1. i \in DOMAIN w /\ v[i] = w[i]
    BY <1>1, <1>3
  <2>2. CASE m = Len(w) + 1
    <3>1. In(v[i][j], w) /\ v[m] = b
      BY <1>1, <2>1, <2>2 DEF In
    <3> QED BY <3>1
  <2>3. CASE m # Len(w) + 1
    <3>1. m \in DOMAIN w /\ v[m] = w[m]
      BY <1>1, <2>3
    <3> QED BY <1>3, <2>1, <3>1 DEF Sorted
  <2> QED BY <2>2, <2>3
<1>4. Sorted(v)
  BY <1>2, <1>3 DEF Sorted
<1> QED BY <1>4 DEF v

\* What a page reads: the first batch, which is below the rest.
LEMMA TailOfWire ==
  ASSUME NEW w \in Wires, w # << >>, Sorted(w)
  PROVE  /\ Head(w) \in Seq(Captions) /\ Tail(w) \in Wires
         /\ Increasing(Head(w)) /\ Sorted(Tail(w))
         /\ \A x : In(x, w) <=> In(x, Tail(w)) \/ \E j \in DOMAIN Head(w) : Head(w)[j] = x
         /\ \A j \in DOMAIN Head(w) : \A x : In(x, Tail(w)) => Head(w)[j] < x
<1> DEFINE t == Tail(w)
           h == Head(w)
<1>1. /\ h \in Seq(Captions) /\ t \in Wires /\ h = w[1]
      /\ DOMAIN w = 1 .. Len(w) /\ Len(w) \in Nat \ {0} /\ DOMAIN t = 1 .. Len(w) - 1
      /\ \A i \in DOMAIN t : t[i] = w[i + 1]
  BY DEF Wires
<1> HIDE DEF t, h
<1>2. 1 \in DOMAIN w /\ \A i \in DOMAIN t : i + 1 \in DOMAIN w
  BY <1>1
<1>3. \A i \in DOMAIN w : i = 1 \/ \E m \in DOMAIN t : i = m + 1
  <2> TAKE i \in DOMAIN w
  <2>1. i = 1 \/ (i - 1 \in DOMAIN t /\ i = (i - 1) + 1)
    BY <1>1
  <2> QED BY <2>1
<1>4. Increasing(h)
  BY <1>1, <1>2 DEF Sorted
<1>5. Sorted(t)
  <2>1. \A i \in DOMAIN t : Increasing(t[i])
    BY <1>1, <1>2 DEF Sorted
  <2>2. ASSUME NEW i \in DOMAIN t, NEW m \in DOMAIN t, i < m,
               NEW j \in DOMAIN t[i], NEW n \in DOMAIN t[m]
        PROVE  t[i][j] < t[m][n]
    <3>1. i + 1 \in DOMAIN w /\ m + 1 \in DOMAIN w /\ i + 1 < m + 1
      BY <1>1, <1>2, <2>2
    <3> QED BY <1>1, <2>2, <3>1 DEF Sorted
  <2> QED BY <2>1, <2>2 DEF Sorted
<1>6. ASSUME NEW x
      PROVE  In(x, w) <=> In(x, t) \/ \E j \in DOMAIN h : h[j] = x
  <2>1. ASSUME In(x, w) PROVE In(x, t) \/ \E j \in DOMAIN h : h[j] = x
    <3>1. PICK i \in DOMAIN w : \E j \in DOMAIN w[i] : w[i][j] = x
      BY <2>1 DEF In
    <3>2. CASE i = 1
      BY <1>1, <3>1, <3>2
    <3>3. CASE i # 1
      <4>1. PICK m \in DOMAIN t : i = m + 1
        BY <1>3, <3>3
      <4>2. t[m] = w[i]
        BY <1>1, <4>1
      <4> QED BY <3>1, <4>1, <4>2 DEF In
    <3> QED BY <3>2, <3>3
  <2>2. ASSUME In(x, t) PROVE In(x, w)
    <3>1. PICK m \in DOMAIN t : \E n \in DOMAIN t[m] : t[m][n] = x
      BY <2>2 DEF In
    <3>2. m + 1 \in DOMAIN w /\ t[m] = w[m + 1]
      BY <1>1, <1>2
    <3> QED BY <3>1, <3>2 DEF In
  <2>3. ASSUME NEW j \in DOMAIN h, h[j] = x PROVE In(x, w)
    BY <1>1, <1>2, <2>3 DEF In
  <2> QED BY <2>1, <2>2, <2>3
<1>7. ASSUME NEW j \in DOMAIN h, NEW x, In(x, t) PROVE h[j] < x
  <2>1. PICK m \in DOMAIN t : \E n \in DOMAIN t[m] : t[m][n] = x
    BY <1>7 DEF In
  <2>2. m + 1 \in DOMAIN w /\ 1 < m + 1 /\ t[m] = w[m + 1]
    BY <1>1, <1>2
  <2>3. \A n \in DOMAIN w[m + 1] : w[1][j] < w[m + 1][n]
    BY <1>1, <1>2, <2>2 DEF Sorted
  <2> QED BY <1>1, <2>1, <2>2, <2>3
<1> QED BY <1>1, <1>4, <1>5, <1>6, <1>7 DEF t, h

\* Reading an increasing batch that is above what was heard.
LEMMA HeardMore ==
  ASSUME NEW a \in Seq(Captions), NEW b \in Seq(Captions), Increasing(a), Increasing(b),
         \A i \in DOMAIN a, j \in DOMAIN b : a[i] < b[j]
  PROVE  /\ a \o b \in Seq(Captions) /\ Increasing(a \o b)
         /\ \A i \in DOMAIN (a \o b) :
              (\E j \in DOMAIN a : (a \o b)[i] = a[j]) \/ \E j \in DOMAIN b : (a \o b)[i] = b[j]
         /\ \A j \in DOMAIN a : \E i \in DOMAIN (a \o b) : (a \o b)[i] = a[j]
         /\ \A j \in DOMAIN b : \E i \in DOMAIN (a \o b) : (a \o b)[i] = b[j]
<1> DEFINE c == a \o b
<1>1. /\ c \in Seq(Captions) /\ DOMAIN a = 1 .. Len(a) /\ DOMAIN b = 1 .. Len(b)
      /\ DOMAIN c = 1 .. Len(a) + Len(b) /\ Len(a) \in Nat /\ Len(b) \in Nat
      /\ \A i \in 1 .. Len(a) : c[i] = a[i]
      /\ \A i \in Len(a) + 1 .. Len(a) + Len(b) : c[i] = b[i - Len(a)]
  OBVIOUS
<1> HIDE DEF c
<1>2. \A i \in DOMAIN c : \/ i \in DOMAIN a /\ c[i] = a[i]
                          \/ i - Len(a) \in DOMAIN b /\ c[i] = b[i - Len(a)] /\ i > Len(a)
  BY <1>1
<1>3. Increasing(c)
  <2> SUFFICES ASSUME NEW i \in DOMAIN c, NEW j \in DOMAIN c, i < j PROVE c[i] < c[j]
    BY DEF Increasing
  <2>1. CASE j \in DOMAIN a
    <3>1. i \in DOMAIN a /\ c[i] = a[i] /\ c[j] = a[j]
      BY <1>1, <2>1
    <3> QED BY <2>1, <3>1 DEF Increasing
  <2>2. CASE j \notin DOMAIN a
    <3>1. j - Len(a) \in DOMAIN b /\ c[j] = b[j - Len(a)]
      BY <1>2, <2>2
    <3>2. CASE i \in DOMAIN a
      BY <1>1, <3>1, <3>2
    <3>3. CASE i \notin DOMAIN a
      <4>1. i - Len(a) \in DOMAIN b /\ c[i] = b[i - Len(a)] /\ i - Len(a) < j - Len(a)
        BY <1>1, <1>2, <3>3
      <4> QED BY <3>1, <4>1 DEF Increasing
    <3> QED BY <3>2, <3>3
  <2> QED BY <2>1, <2>2
<1>4. \A j \in DOMAIN a : j \in DOMAIN c /\ c[j] = a[j]
  BY <1>1
<1>5. ASSUME NEW j \in DOMAIN b PROVE \E i \in DOMAIN c : c[i] = b[j]
  <2>1. j + Len(a) \in DOMAIN c /\ (j + Len(a)) - Len(a) = j
    BY <1>1
  <2> QED BY <1>1, <2>1
<1> QED BY <1>1, <1>2, <1>3, <1>4, <1>5 DEF c

-----------------------------------------------------------------------------
(* What a page hears, and what its connection owes it.                     *)

Opening == {"new", "lookup", "validate", "acquire", "accept", "scrollback"}

StreamType ==
  /\ stored \in 0 .. MaxCaptions /\ carried \in 0 .. stored
  /\ session \in {"active", "ended", "killed"}
  /\ link \in [Conns -> {"up", "cut", "noticed"}]
  /\ last \in [Conns -> 0 .. MaxCaptions]
  /\ inbox \in [Conns -> Seq(Captions \cup {TheKill})]
  /\ wire \in [Conns -> Wires]
  /\ sock \in [Clients -> Conns \cup {NoOne}]
  /\ heard \in [Clients -> Seq(Captions)]
  /\ due \in [Conns -> SUBSET Captions]

\* The captions Redis has for a connection are in order, none is below last_seq,
\* and none is above what was published.
InOrder(q, low, high) ==
  /\ \A i \in DOMAIN q : q[i] # TheKill => low <= q[i] /\ q[i] <= high
  /\ \A i, j \in DOMAIN q : i < j /\ q[i] # TheKill /\ q[j] # TheKill => q[i] < q[j]

InboxInOrder(c) == InOrder(inbox[c], last[c], carried)

\* What its handler has done for a connection so far.
ConnInv(c) ==
  /\ last[c] <= stored
  /\ Sorted(wire[c])
  /\ \A x \in Captions : In(x, wire[c]) => x <= last[c]
  /\ InboxInOrder(c)
  /\ pc[c] \in Opening => wire[c] = << >>
  /\ pc[c] \in Opening \cup {"subscribe"} => inbox[c] = << >> /\ due[c] = {}
  /\ pc[c] = "new" => link[c] = "up"
  /\ link[c] = "up" /\ pc[c] \notin {"new", "closed"} => sock[by[c]] = c

\* What a page has heard, and what its current connection has yet to tell it.
PageInv(k) ==
  /\ Increasing(heard[k])
  /\ \A i \in DOMAIN heard[k] : heard[k][i] <= stored
  /\ sock[k] # NoOne =>
       /\ by[sock[k]] = k /\ link[sock[k]] = "up" /\ pc[sock[k]] # "new"
       /\ \A i \in DOMAIN heard[k] : heard[k][i] <= last[sock[k]]
       /\ \A i \in DOMAIN heard[k] : \A x \in Captions :
            In(x, wire[sock[k]]) => heard[k][i] < x
       /\ \/ last[sock[k]] = 0
          \/ In(last[sock[k]], wire[sock[k]])
          \/ \E i \in DOMAIN heard[k] : heard[k][i] = last[sock[k]]

\* What was published for a connection is still on its way to the page.
Waiting(c, x) == \E i \in DOMAIN inbox[c] : inbox[c][i] = x
Told(c, x) == In(x, wire[c]) \/ \E i \in DOMAIN heard[by[c]] : heard[by[c]][i] = x

DueInv(c) ==
  pc[c] = "loop" /\ link[c] = "up" => \A x \in due[c] : Waiting(c, x) \/ Told(c, x)

StreamInv ==
  /\ SlotInv
  /\ StreamType
  /\ \A c \in Conns : ConnInv(c) /\ DueInv(c)
  /\ \A k \in Clients : PageInv(k)

\* lastSeqRef is the last caption of an increasing sequence.
LEMMA CursorIsLast ==
  ASSUME StreamInv, NEW k \in Clients
  PROVE  /\ AfterSeq(k) \in 0 .. stored
         /\ \A i \in DOMAIN heard[k] : heard[k][i] <= AfterSeq(k)
         /\ AfterSeq(k) = 0 \/ \E i \in DOMAIN heard[k] : heard[k][i] = AfterSeq(k)
<1> DEFINE h == heard[k]
           P(n) == /\ n = 0 \/ \E i \in DOMAIN h : h[i] = n
                   /\ \A i \in DOMAIN h : h[i] <= n
<1>1. /\ h \in Seq(Captions) /\ Increasing(h) /\ stored \in 0 .. MaxCaptions /\ MaxCaptions \in Nat
      /\ \A i \in DOMAIN h : h[i] <= stored
  BY LimitsAssumption DEF StreamInv, StreamType, PageInv
<1>2. \E n \in 0 .. MaxCaptions : P(n)
  <2>1. CASE h = << >>
    BY <1>1, <2>1
  <2>2. CASE h # << >>
    <3>1. /\ Len(h) \in DOMAIN h /\ h[Len(h)] \in Captions
          /\ \A i \in DOMAIN h : i = Len(h) \/ i < Len(h)
          /\ \A i \in DOMAIN h : h[i] \in Captions
      BY <1>1, <2>2
    <3>2. P(h[Len(h)])
      <4>1. \A i \in DOMAIN h : h[i] \in Nat
        BY <3>1 DEF Captions
      <4>2. \A i, j \in DOMAIN h : i < j => h[i] < h[j]
        BY <1>1 DEF Increasing
      <4> HIDE DEF h
      <4> DEFINE newest == Len(h)
      <4>3. newest \in DOMAIN h /\ \A i \in DOMAIN h : i = newest \/ i < newest
        BY <3>1
      <4> HIDE DEF newest
      <4>4. \A i \in DOMAIN h : h[i] <= h[newest]
        BY <4>1, <4>2, <4>3
      <4> QED BY <4>3, <4>4 DEF newest
    <3>3. h[Len(h)] \in 0 .. MaxCaptions
      BY <3>1 DEF Captions
    <3> QED BY <3>2, <3>3
  <2> QED BY <2>1, <2>2
<1>3. AfterSeq(k) = CHOOSE n \in 0 .. MaxCaptions : P(n)
  BY DEF AfterSeq, Cursor
<1> HIDE DEF P
<1>4. AfterSeq(k) \in 0 .. MaxCaptions /\ P(AfterSeq(k))
  BY <1>2, <1>3
<1> USE DEF P
<1>5. AfterSeq(k) <= stored
  BY <1>1, <1>4
<1> QED BY <1>1, <1>4, <1>5

\* _fetch_scrollback gives captions above last_seq in order, up to the last one.
LEMMA NewestInOrder ==
  ASSUME stored \in 0 .. MaxCaptions, NEW after \in 0 .. stored
  PROVE  /\ Newest(after) \in Seq(Captions) /\ Increasing(Newest(after))
         /\ \A i \in DOMAIN Newest(after) : after < Newest(after)[i] /\ Newest(after)[i] <= stored
         /\ Newest(after) # << >> => ScrollbackLimit > 0
         /\ stored > after /\ ScrollbackLimit > 0 =>
              \E i \in DOMAIN Newest(after) : Newest(after)[i] = stored
<1> USE LimitsAssumption
<1> DEFINE first == IF stored - after > ScrollbackLimit THEN stored - ScrollbackLimit ELSE after
           n == IF stored > first THEN stored - first ELSE 0
<1>1. /\ first \in Nat /\ n \in Nat /\ after <= first /\ n = stored - first
      /\ stored \in Nat
      /\ stored > after /\ ScrollbackLimit > 0 => n > 0
      /\ n > 0 => ScrollbackLimit > 0
  OBVIOUS
<1>2. Newest(after) = [i \in 1 .. n |-> first + i]
  BY DEF Newest
<1> HIDE DEF first, n
<1>3. \A i \in 1 .. n : first + i \in Captions /\ after < first + i /\ first + i <= stored
  BY <1>1 DEF Captions
<1>4. Newest(after) \in Seq(Captions) /\ DOMAIN Newest(after) = 1 .. n
  BY <1>1, <1>2, <1>3
<1>5. n > 0 => n \in 1 .. n /\ first + n = stored
  BY <1>1
<1>6. Increasing(Newest(after))
  BY <1>1, <1>2 DEF Increasing
<1>7. Newest(after) # << >> => n > 0
  BY <1>1, <1>4
<1> QED BY <1>1, <1>2, <1>3, <1>4, <1>5, <1>6, <1>7

-----------------------------------------------------------------------------
(* What a step leaves alone.                                               *)

own(c) == <<pc[c], by[c], link[c], last[c], inbox[c], wire[c], due[c]>>

\* A connection none of whose state moves; its page may hear more.
LEMMA ConnFrame ==
  ASSUME StreamType, StreamType', NEW d \in Conns, ConnInv(d), DueInv(d), UNCHANGED own(d),
         stored <= stored', carried <= carried',
         \A x : (\E i \in DOMAIN heard[by[d]] : heard[by[d]][i] = x)
                => \E i \in DOMAIN heard'[by[d]] : heard'[by[d]][i] = x,
         link[d] = "up" /\ pc[d] \notin {"new", "closed"} => sock'[by[d]] = d
  PROVE  ConnInv(d)' /\ DueInv(d)'
<1>1. /\ stored \in Int /\ stored' \in Int /\ carried \in Int /\ carried' \in Int
      /\ last[d] \in Int /\ inbox[d] \in Seq(Captions \cup {TheKill})
  BY LimitsAssumption DEF StreamType
<1>2. \A i \in DOMAIN inbox[d] : inbox[d][i] \in Int
  BY <1>1, LimitsAssumption DEF Captions, TheKill
<1>3. InboxInOrder(d)'
  <2>1. inbox'[d] = inbox[d] /\ last'[d] = last[d]
    BY DEF own
  <2>2. InboxInOrder(d)
    BY DEF ConnInv
  <2>3. ASSUME NEW i \in DOMAIN inbox[d], inbox[d][i] # TheKill
        PROVE  last[d] <= inbox[d][i] /\ inbox[d][i] <= carried'
    BY <1>1, <1>2, <2>2, <2>3 DEF InboxInOrder, InOrder
  <2> QED BY <2>1, <2>2, <2>3 DEF InboxInOrder, InOrder, TheKill
<1>4. last'[d] <= stored'
  BY <1>1 DEF ConnInv, own
<1>5. ConnInv(d)'
  BY <1>3, <1>4 DEF ConnInv, own, In, Sorted
<1>6. DueInv(d)'
  <2>1. \A x : Told(d, x) => Told(d, x)'
    BY DEF Told, own, In
  <2>2. \A x : Waiting(d, x) => Waiting(d, x)'
    BY DEF Waiting, own
  <2> QED BY <2>1, <2>2 DEF DueInv, own
<1> QED BY <1>5, <1>6

\* A page that neither hears nor reconnects, and whose connection sends nothing.
LEMMA PageFrame ==
  ASSUME StreamType, StreamType', NEW k \in Clients, PageInv(k), stored <= stored',
         heard'[k] = heard[k], sock'[k] = sock[k],
         \A c \in Conns : sock[k] = c =>
           /\ by'[c] = by[c] /\ link'[c] = link[c] /\ last'[c] = last[c] /\ wire'[c] = wire[c]
           /\ pc[c] # "new" => pc'[c] # "new"
  PROVE  PageInv(k)'
<1>1. /\ heard[k] \in Seq(Captions) /\ stored \in Int /\ stored' \in Int
      /\ sock[k] \in Conns \cup {NoOne}
  BY LimitsAssumption DEF StreamType
<1>2. \A i \in DOMAIN heard[k] : heard[k][i] <= stored'
  <2> TAKE i \in DOMAIN heard[k]
  <2>1. heard[k][i] \in Int /\ heard[k][i] <= stored
    BY <1>1, LimitsAssumption DEF Captions, PageInv
  <2> QED BY <1>1, <2>1
<1>3. CASE sock[k] = NoOne
  BY <1>2, <1>3 DEF PageInv, Increasing
<1>4. CASE sock[k] # NoOne
  <2>1. PICK c \in Conns : sock[k] = c /\ c # NoOne
    BY <1>1, <1>4
  <2>2. /\ by'[c] = by[c] /\ link'[c] = link[c] /\ last'[c] = last[c] /\ wire'[c] = wire[c]
        /\ pc[c] # "new" => pc'[c] # "new" /\ sock'[k] = c
    BY <2>1
  <2>3. /\ Increasing(heard[k]) /\ by[c] = k /\ link[c] = "up" /\ pc[c] # "new"
        /\ \A i \in DOMAIN heard[k] : heard[k][i] <= last[c]
        /\ \A i \in DOMAIN heard[k] : \A x \in Captions : In(x, wire[c]) => heard[k][i] < x
        /\ \/ last[c] = 0
           \/ In(last[c], wire[c])
           \/ \E i \in DOMAIN heard[k] : heard[k][i] = last[c]
    BY <1>4, <2>1 DEF PageInv
  <2>4. Increasing(heard'[k]) /\ \A i \in DOMAIN heard'[k] : heard'[k][i] <= stored'
    BY <1>2, <2>3
  <2>5. /\ by'[c] = k /\ link'[c] = "up" /\ pc'[c] # "new"
        /\ \A i \in DOMAIN heard'[k] : heard'[k][i] <= last'[c]
        /\ \A i \in DOMAIN heard'[k] : \A x \in Captions : In(x, wire'[c]) => heard'[k][i] < x
        /\ \/ last'[c] = 0
           \/ In(last'[c], wire'[c])
           \/ \E i \in DOMAIN heard'[k] : heard'[k][i] = last'[c]
    BY <2>2, <2>3
  <2>6. sock'[k] = c
    BY <2>1
  <2> QED BY <2>4, <2>5, <2>6 DEF PageInv, Increasing, In
<1> QED BY <1>3, <1>4

\* A step of the feed that no listener is told of.
LEMMA SilentFeed ==
  ASSUME StreamInv, SlotInv', stored' \in 0 .. MaxCaptions, carried' \in 0 .. stored',
         stored <= stored', carried <= carried', session' \in {"active", "ended", "killed"},
         UNCHANGED <<pc, by, link, last, inbox, wire, page, due>>
  PROVE  StreamInv'
<1>1. StreamType /\ StreamType'
  BY DEF StreamInv, StreamType, page
<1>2. ASSUME NEW c \in Conns PROVE ConnInv(c)' /\ DueInv(c)'
  BY <1>1, ConnFrame DEF StreamInv, own, page, ConnInv
<1>3. ASSUME NEW k \in Clients PROVE PageInv(k)'
  BY <1>1, PageFrame DEF StreamInv, page
<1> QED BY <1>1, <1>2, <1>3 DEF StreamInv

-----------------------------------------------------------------------------
(* Messages of the feed.                                                   *)

Messages == Captions \cup {TheKill}

\* A message behind those of an inbox: the kill, or a caption above them all.
LEMMA InboxAppend ==
  ASSUME NEW q \in Seq(Messages), NEW m \in Messages, NEW low \in Nat, NEW high \in Nat,
         NEW high2 \in Nat, high <= high2, InOrder(q, low, high),
         m # TheKill => low <= m /\ high < m /\ m <= high2
  PROVE  /\ Append(q, m) \in Seq(Messages) /\ InOrder(Append(q, m), low, high2)
         /\ \A i \in DOMAIN q : i \in DOMAIN Append(q, m) /\ Append(q, m)[i] = q[i]
         /\ \E i \in DOMAIN Append(q, m) : Append(q, m)[i] = m
<1> USE DEF InOrder
<1> DEFINE r == Append(q, m)
<1>1. /\ DOMAIN q = 1 .. Len(q) /\ DOMAIN r = 1 .. Len(q) + 1 /\ Len(q) \in Nat
      /\ r \in Seq(Messages) /\ r[Len(q) + 1] = m /\ \A i \in 1 .. Len(q) : r[i] = q[i]
  OBVIOUS
<1>2. \A i \in DOMAIN q : q[i] \in Int
  BY LimitsAssumption DEF Messages, Captions, TheKill
<1>3. m \in Int
  BY LimitsAssumption DEF Messages, Captions, TheKill
<1> HIDE DEF r
<1>4. ASSUME NEW i \in DOMAIN r, r[i] # TheKill PROVE low <= r[i] /\ r[i] <= high2
  <2>1. CASE i \in DOMAIN q
    BY <1>1, <1>2, <1>4, <2>1
  <2>2. CASE i = Len(q) + 1
    BY <1>1, <1>4, <2>2
  <2> QED BY <1>1, <2>1, <2>2
<1>5. ASSUME NEW i \in DOMAIN r, NEW j \in DOMAIN r, i < j, r[i] # TheKill, r[j] # TheKill
      PROVE  r[i] < r[j]
  <2>1. i \in DOMAIN q /\ r[i] = q[i]
    BY <1>1, <1>5
  <2>2. CASE j \in DOMAIN q
    BY <1>1, <1>5, <2>1, <2>2
  <2>3. CASE j = Len(q) + 1
    BY <1>1, <1>2, <1>3, <1>5, <2>1, <2>3
  <2> QED BY <1>1, <2>2, <2>3
<1>6. /\ \A i \in DOMAIN q : i \in DOMAIN r /\ r[i] = q[i]
      /\ \E i \in DOMAIN r : r[i] = m
  BY <1>1
<1>7. /\ r \in Seq(Messages)
      /\ InOrder(r, low, high2)
      /\ \A i \in DOMAIN q : i \in DOMAIN r /\ r[i] = q[i]
      /\ \E i \in DOMAIN r : r[i] = m
  BY <1>1, <1>4, <1>5, <1>6
<1> QED BY <1>7 DEF r

\* A message that Redis hands to every subscribed connection, as due or not.
LEMMA DeliverStep ==
  ASSUME StreamInv, SlotInv', NEW m \in Messages, Deliver(m),
         stored' = stored, carried' \in 0 .. stored, carried <= carried',
         session' \in {"active", "ended", "killed"},
         m # TheKill => m = stored /\ carried < m /\ carried' = m,
         UNCHANGED <<pc, by, link, last, wire, page>>,
         due' \in [Conns -> SUBSET Captions],
         \A c \in Conns : due'[c] = due[c] \/ (Subscribed(c) /\ due'[c] = due[c] \cup {m})
  PROVE  StreamInv'
<1> USE LimitsAssumption
<1>1. StreamType /\ SlotInv /\ HandlersOK
  BY DEF StreamInv, SlotInv
<1>2. ASSUME NEW c \in Conns
      PROVE  /\ InboxInOrder(c)' /\ inbox'[c] \in Seq(Messages)
             /\ \A x : Waiting(c, x) => Waiting(c, x)'
             /\ Subscribed(c) => Waiting(c, m)'
             /\ ~Subscribed(c) => inbox'[c] = inbox[c]
  <2>1. /\ inbox[c] \in Seq(Messages) /\ last[c] \in Nat /\ carried \in Nat /\ carried' \in Nat
        /\ stored \in Nat
    BY <1>1 DEF StreamType, Messages
  <2>2. InboxInOrder(c) /\ last[c] <= stored
    BY DEF StreamInv, ConnInv
  <2>3. inbox'[c] = IF Subscribed(c) THEN Append(inbox[c], m) ELSE inbox[c]
    BY DEF Deliver
  <2>4. CASE Subscribed(c)
    <3> DEFINE r == Append(inbox[c], m)
    <3>1. m # TheKill => last[c] <= m /\ carried < m /\ m <= carried'
      BY <2>1, <2>2
    <3>2. /\ r \in Seq(Messages) /\ InOrder(r, last[c], carried')
          /\ \A i \in DOMAIN inbox[c] : i \in DOMAIN r /\ r[i] = inbox[c][i]
          /\ \E i \in DOMAIN r : r[i] = m
      BY <2>1, <2>2, <3>1, InboxAppend DEF InboxInOrder
    <3>3. inbox'[c] = r /\ last'[c] = last[c]
      BY <2>3, <2>4
    <3> HIDE DEF r
    <3>4. InboxInOrder(c)'
      BY <3>2, <3>3 DEF InboxInOrder, InOrder, TheKill
    <3> QED BY <2>4, <3>2, <3>3, <3>4 DEF Waiting
  <2>5. CASE ~Subscribed(c)
    <3>1. inbox'[c] = inbox[c] /\ last'[c] = last[c]
      BY <2>3, <2>5
    <3>2. \A i \in DOMAIN inbox[c] : inbox[c][i] \in Int
      BY <2>1 DEF Messages, Captions, TheKill
    <3>3. ASSUME NEW i \in DOMAIN inbox[c], inbox[c][i] # TheKill
          PROVE  last[c] <= inbox[c][i] /\ inbox[c][i] <= carried'
      BY <2>1, <2>2, <3>2, <3>3 DEF InboxInOrder, InOrder
    <3>4. InboxInOrder(c)'
      BY <2>2, <3>1, <3>3 DEF InboxInOrder, InOrder, TheKill
    <3> QED BY <2>1, <2>5, <3>1, <3>4 DEF Waiting
  <2> QED BY <2>4, <2>5
<1>3. StreamType'
  <2>1. inbox' \in [Conns -> Seq(Messages)]
    BY <1>2 DEF Deliver
  <2> QED BY <1>1, <2>1 DEF StreamType, Messages, page
<1>4. ASSUME NEW c \in Conns PROVE ConnInv(c)' /\ DueInv(c)'
  <2>1. /\ UNCHANGED <<pc[c], by[c], link[c], last[c], wire[c], sock, heard, stored>>
        /\ ConnInv(c) /\ DueInv(c)
    BY DEF StreamInv, page
  <2>2. pc[c] \in Opening \cup {"subscribe"} => ~Subscribed(c)
    BY DEF Opening, Subscribed
  <2>3. ConnInv(c)'
    BY <1>2, <2>1, <2>2 DEF ConnInv, Sorted, In
  <2>4. ASSUME (pc[c] = "loop" /\ link[c] = "up")', NEW x \in due'[c]
        PROVE  Waiting(c, x)' \/ Told(c, x)'
    <3>1. CASE x \in due[c]
      <4>1. Waiting(c, x) \/ Told(c, x)
        BY <2>1, <2>4, <3>1 DEF DueInv
      <4>2. Told(c, x) => Told(c, x)'
        BY <2>1 DEF Told, In
      <4> QED BY <1>2, <4>1, <4>2
    <3>2. CASE x \notin due[c]
      BY <1>2, <2>4, <3>2
    <3> QED BY <3>1, <3>2
  <2> QED BY <2>3, <2>4 DEF DueInv
<1>5. ASSUME NEW k \in Clients PROVE PageInv(k)'
  <2>1. stored <= stored'
    BY <1>1 DEF StreamType
  <2> QED BY <1>1, <1>3, <2>1, PageFrame DEF StreamInv, page
<1> QED BY <1>3, <1>4, <1>5 DEF StreamInv

LEMMA FeedInv ==
  ASSUME StreamInv, SlotInv', Feed
  PROVE  StreamInv'
<1> USE LimitsAssumption
<1>1. /\ stored \in 0 .. MaxCaptions /\ carried \in 0 .. stored
      /\ session \in {"active", "ended", "killed"} /\ due \in [Conns -> SUBSET Captions]
  BY DEF StreamInv, StreamType
<1>2. CASE StoreCaption
  BY <1>1, <1>2, SilentFeed DEF StoreCaption
<1>3. CASE PublishCaption
  <2>1. stored \in Captions /\ stored # TheKill /\ stored \in Messages
    BY <1>1, <1>3 DEF PublishCaption, Captions, TheKill, Messages
  <2>2. /\ due' \in [Conns -> SUBSET Captions]
        /\ \A c \in Conns : due'[c] = due[c] \/ (Subscribed(c) /\ due'[c] = due[c] \cup {stored})
    BY <1>1, <1>3, <2>1 DEF PublishCaption
  <2> QED BY <1>1, <1>3, <2>1, <2>2, DeliverStep DEF PublishCaption
<1>4. CASE EndSession
  BY <1>1, <1>4, SilentFeed DEF EndSession
<1>5. CASE KillSwitch
  <2>1. CASE Deliver(TheKill)
    <3>1. TheKill \in Messages
      BY DEF Messages
    <3> QED BY <1>1, <1>5, <2>1, <3>1, DeliverStep DEF KillSwitch
  <2>2. CASE UNCHANGED inbox
    BY <1>1, <1>5, <2>2, SilentFeed DEF KillSwitch
  <2> QED BY <1>5, <2>1, <2>2 DEF KillSwitch
<1> QED BY <1>2, <1>3, <1>4, <1>5 DEF Feed

-----------------------------------------------------------------------------
(* The steps of a handler.                                                 *)

\* Only connection c moves, and what its page would notice of it is shown apart.
LEMMA OneConn ==
  ASSUME StreamInv, SlotInv', StreamType', NEW c \in Conns,
         UNCHANGED <<stored, carried, sock, heard>>,
         \A d \in Conns \ {c} : UNCHANGED own(d),
         ConnInv(c)', DueInv(c)',
         \A k \in Clients : sock[k] = c => PageInv(k)'
  PROVE  StreamInv'
<1>1. StreamType /\ stored <= stored' /\ carried <= carried'
  BY LimitsAssumption DEF StreamInv, StreamType
<1>2. ASSUME NEW d \in Conns PROVE ConnInv(d)' /\ DueInv(d)'
  <2>1. CASE d = c
    BY <2>1
  <2>2. CASE d # c
    <3>1. UNCHANGED own(d) /\ ConnInv(d) /\ DueInv(d)
      BY <2>2 DEF StreamInv
    <3>2. link[d] = "up" /\ pc[d] \notin {"new", "closed"} => sock'[by[d]] = d
      BY <3>1 DEF ConnInv
    <3> QED BY <1>1, <3>1, <3>2, ConnFrame
  <2> QED BY <2>1, <2>2
<1>3. ASSUME NEW k \in Clients PROVE PageInv(k)'
  <2>1. CASE sock[k] = c
    BY <2>1
  <2>2. CASE sock[k] # c
    BY <1>1, <2>2, PageFrame DEF StreamInv, own
  <2> QED BY <2>1, <2>2
<1> QED BY <1>2, <1>3 DEF StreamInv

\* A handler goes on without touching what it reads, sends or was told.
LEMMA PlainMove ==
  ASSUME StreamInv, SlotInv', NEW c \in Conns, pc[c] \notin {"new", "closed"},
         NEW place \in Places \ {"new"},
         place \in Opening => pc[c] \in Opening,
         place # "subscribe", place = "loop" => pc[c] = "subscribe",
         pc' = [pc EXCEPT ![c] = place],
         UNCHANGED <<feed, by, link, last, inbox, wire, page, due>>
  PROVE  StreamInv'
<1>1. /\ pc'[c] = place /\ pc \in [Conns -> Places]
      /\ \A d \in Conns \ {c} : UNCHANGED own(d)
  BY DEF StreamInv, SlotInv, HandlersOK, own
<1>2. StreamType /\ StreamType' /\ UNCHANGED <<stored, carried, sock, heard>>
  BY DEF StreamInv, StreamType, feed, page
<1>3. ConnInv(c)'
  BY <1>1, <1>2 DEF StreamInv, ConnInv, InboxInOrder, InOrder, Sorted, In, TheKill, Opening
<1>4. DueInv(c)'
  <2>1. place = "loop" => due[c] = {}
    BY DEF StreamInv, ConnInv
  <2> QED BY <1>1, <2>1 DEF DueInv
<1>5. ASSUME NEW k \in Clients PROVE PageInv(k)'
  <2>1. stored <= stored'
    BY <1>2, LimitsAssumption DEF StreamType
  <2>2. \A d \in Conns : pc[d] # "new" => pc'[d] # "new"
    BY <1>1
  <2> QED BY <1>2, <2>1, <2>2, PageFrame DEF StreamInv
<1> QED BY <1>1, <1>2, <1>3, <1>4, <1>5, OneConn

\* Taking the first message of an inbox.
LEMMA InboxTail ==
  ASSUME NEW q \in Seq(Messages), q # << >>, NEW low \in Nat, NEW high \in Nat,
         InOrder(q, low, high)
  PROVE  /\ Head(q) \in Messages /\ Tail(q) \in Seq(Messages) /\ InOrder(Tail(q), low, high)
         /\ Head(q) # TheKill =>
              low <= Head(q) /\ Head(q) <= high /\ InOrder(Tail(q), Head(q), high)
         /\ \A i \in DOMAIN q :
              q[i] = Head(q) \/ \E j \in DOMAIN Tail(q) : Tail(q)[j] = q[i]
<1> USE DEF InOrder
<1> DEFINE t == Tail(q)
           m == Head(q)
<1>1. /\ DOMAIN q = 1 .. Len(q) /\ Len(q) \in Nat \ {0} /\ m = q[1] /\ m \in Messages
      /\ t \in Seq(Messages) /\ DOMAIN t = 1 .. Len(q) - 1 /\ \A i \in DOMAIN t : t[i] = q[i + 1]
  OBVIOUS
<1>2. \A i \in DOMAIN q : q[i] \in Int
  BY LimitsAssumption DEF Messages, Captions, TheKill
<1> HIDE DEF t, m
<1>3. 1 \in DOMAIN q /\ \A i \in DOMAIN t : i + 1 \in DOMAIN q
  BY <1>1
<1>4. InOrder(t, low, high)
  <2>1. ASSUME NEW i \in DOMAIN t, t[i] # TheKill PROVE low <= t[i] /\ t[i] <= high
    BY <1>1, <1>3, <2>1
  <2>2. ASSUME NEW i \in DOMAIN t, NEW j \in DOMAIN t, i < j, t[i] # TheKill, t[j] # TheKill
        PROVE  t[i] < t[j]
    <3>1. i + 1 \in DOMAIN q /\ j + 1 \in DOMAIN q /\ i + 1 < j + 1
      BY <1>1, <1>3, <2>2
    <3> QED BY <1>1, <2>2, <3>1
  <2> QED BY <2>1, <2>2
<1>5. ASSUME m # TheKill PROVE low <= m /\ m <= high /\ InOrder(t, m, high)
  <2>1. low <= m /\ m <= high
    BY <1>1, <1>3, <1>5
  <2>2. ASSUME NEW i \in DOMAIN t, t[i] # TheKill PROVE m <= t[i] /\ t[i] <= high
    <3>1. i + 1 \in DOMAIN q /\ 1 < i + 1 /\ t[i] = q[i + 1]
      BY <1>1, <1>3
    <3>2. q[1] < q[i + 1]
      BY <1>1, <1>3, <1>5, <2>2, <3>1
    <3>3. m \in Int /\ t[i] \in Int
      BY <1>1, <1>2, <1>3, <3>1
    <3> QED BY <1>1, <1>4, <2>2, <3>1, <3>2, <3>3
  <2> QED BY <1>4, <2>1, <2>2
<1>6. ASSUME NEW i \in DOMAIN q PROVE q[i] = m \/ \E j \in DOMAIN t : t[j] = q[i]
  <2>1. i = 1 \/ (i - 1 \in DOMAIN t /\ (i - 1) + 1 = i)
    BY <1>1
  <2> QED BY <1>1, <2>1
<1>7. /\ m \in Messages /\ t \in Seq(Messages) /\ InOrder(t, low, high)
      /\ m # TheKill => low <= m /\ m <= high /\ InOrder(t, m, high)
      /\ \A i \in DOMAIN q : q[i] = m \/ \E j \in DOMAIN t : t[j] = q[i]
  BY <1>1, <1>4, <1>5, <1>6
<1> QED BY <1>7 DEF t, m

LEMMA ScrollbackStep ==
  ASSUME StreamInv, SlotInv', NEW c \in Conns, Scrollback(c)
  PROVE  StreamInv'
<1> DEFINE w == wire[c]
           b == Newest(last[c])
           w2 == IF link[c] = "up" THEN Append(w, b) ELSE w
           l2 == LastAfterScrollback(c)
<1>1. /\ StreamType /\ ConnInv(c) /\ pc \in [Conns -> Places] /\ pc[c] = "scrollback"
      /\ UNCHANGED <<feed, by, link, inbox, page, due>>
      /\ pc'[c] = "subscribe" /\ \A d \in Conns \ {c} : pc'[d] = pc[d]
  BY DEF StreamInv, SlotInv, HandlersOK, Scrollback, Goto
<1>2. /\ stored \in 0 .. MaxCaptions /\ MaxCaptions \in Nat /\ ScrollbackLimit \in Nat
      /\ last[c] \in 0 .. stored /\ w = << >> /\ inbox[c] = << >> /\ due[c] = {}
      /\ w \in Wires /\ last \in [Conns -> 0 .. MaxCaptions] /\ wire \in [Conns -> Wires]
  BY <1>1, LimitsAssumption DEF StreamType, ConnInv, Opening
<1>3. /\ b \in Seq(Captions) /\ Increasing(b)
      /\ \A i \in DOMAIN b : last[c] < b[i] /\ b[i] <= stored
      /\ b # << >> => ScrollbackLimit > 0
      /\ stored > last[c] /\ ScrollbackLimit > 0 => \E i \in DOMAIN b : b[i] = stored
  BY <1>2, NewestInOrder
<1>4. /\ last' = [last EXCEPT ![c] = l2] /\ last'[c] = l2
      /\ l2 = IF stored > last[c] /\ ScrollbackLimit > 0 THEN stored ELSE last[c]
  BY <1>2 DEF Scrollback, LastAfterScrollback
<1>5. /\ last'[c] \in 0 .. stored /\ last[c] <= last'[c]
      /\ \A i \in DOMAIN b : b[i] <= last'[c]
  <2>1. ASSUME NEW i \in DOMAIN b PROVE b[i] <= last'[c]
    <3>1. b[i] \in Int /\ last[c] < b[i] /\ b[i] <= stored /\ b # << >>
      BY <1>2, <1>3 DEF Captions
    <3> QED BY <1>2, <1>3, <1>4, <3>1
  <2> QED BY <1>2, <1>4, <2>1
<1>6. wire' = [wire EXCEPT ![c] = w2] /\ wire'[c] = w2
  BY <1>2 DEF Scrollback, Send
<1>7. /\ wire'[c] \in Wires /\ Sorted(wire'[c])
      /\ \A x : In(x, wire'[c]) => \E j \in DOMAIN b : b[j] = x
      /\ link[c] = "up" => \A j \in DOMAIN b : In(b[j], wire'[c])
  <2>1. /\ Append(w, b) \in Wires /\ Sorted(Append(w, b))
        /\ \A x : In(x, Append(w, b)) <=> \E j \in DOMAIN b : b[j] = x
    <3>1. Append(w, b) \in Wires
      BY <1>2, <1>3 DEF Wires
    <3>2. w \in Wires /\ Sorted(w) /\ \A x : ~In(x, w)
      BY <1>2, InEmpty, SortedEmpty
    <3> HIDE DEF w, b
    <3>3. Sorted(Append(w, b))
      BY <1>3, <3>2, SortedAppend
    <3>4. \A x : In(x, Append(w, b)) <=> \E j \in DOMAIN b : b[j] = x
      BY <1>3, <3>2, InAppend
    <3> QED BY <3>1, <3>3, <3>4
  <2>2. Sorted(w) /\ w \in Wires /\ \A x : ~In(x, w)
    BY <1>2, InEmpty, SortedEmpty
  <2> HIDE DEF w, b
  <2> QED BY <1>6, <2>1, <2>2
<1>8. StreamType'
  <2>1. l2 \in 0 .. MaxCaptions /\ w2 \in Wires
    BY <1>2, <1>4, <1>5, <1>6, <1>7
  <2> HIDE DEF l2, w2
  <2>2. last' \in [Conns -> 0 .. MaxCaptions] /\ wire' \in [Conns -> Wires]
    BY <1>2, <1>4, <1>6, <2>1
  <2> QED BY <1>1, <2>2 DEF StreamType, feed, page
<1>9. ConnInv(c)'
  <2>1. last'[c] <= stored' /\ inbox'[c] = << >> /\ due'[c] = {} /\ link' = link /\ pc'[c] = "subscribe"
    BY <1>1, <1>2, <1>5 DEF feed
  <2>2. InboxInOrder(c)'
    BY <2>1 DEF InboxInOrder, InOrder
  <2>3. \A x \in Captions : In(x, wire'[c]) => x <= last'[c]
    BY <1>5, <1>7
  <2>4. (link[c] = "up" /\ pc[c] \notin {"new", "closed"} => sock[by[c]] = c)'
    BY <1>1 DEF ConnInv, page
  <2> QED BY <1>7, <2>1, <2>2, <2>3, <2>4 DEF ConnInv, Sorted, In, Opening
<1>10. DueInv(c)'
  BY <1>1 DEF DueInv
<1>11. ASSUME NEW k \in Clients, sock[k] = c PROVE PageInv(k)'
  <2>1. PageInv(k) /\ c # NoOne /\ sock'[k] = c /\ heard'[k] = heard[k] /\ stored' = stored
    BY <1>1, <1>11, ConnsAssumption DEF StreamInv, feed, page
  <2>2. /\ by'[c] = k /\ link'[c] = "up" /\ link[c] = "up" /\ pc'[c] # "new"
    BY <1>1, <1>11, <2>1 DEF PageInv
  <2>3. ASSUME NEW i \in DOMAIN heard[k] PROVE heard[k][i] \in Int /\ heard[k][i] <= last[c]
    <3>1. heard[k] \in Seq(Captions)
      BY <1>1 DEF StreamType
    <3> QED BY <1>11, <2>1, <3>1, LimitsAssumption DEF PageInv, Captions
  <2>4. ASSUME NEW i \in DOMAIN heard[k]
        PROVE  /\ heard[k][i] <= last'[c]
               /\ \A x \in Captions : In(x, wire'[c]) => heard[k][i] < x
    BY <1>2, <1>3, <1>5, <1>7, <2>3, LimitsAssumption DEF Captions
  <2>5. last'[c] = 0 \/ In(last'[c], wire'[c]) \/ \E i \in DOMAIN heard[k] : heard[k][i] = last'[c]
    <3>1. CASE stored > last[c] /\ ScrollbackLimit > 0
      BY <1>3, <1>4, <1>7, <2>2, <3>1
    <3>2. CASE ~(stored > last[c] /\ ScrollbackLimit > 0)
      BY <1>2, <1>4, <1>11, <2>1, <3>2, InEmpty DEF PageInv
    <3> QED BY <3>1, <3>2
  <2>6. Increasing(heard'[k]) /\ \A i \in DOMAIN heard'[k] : heard'[k][i] <= stored'
    BY <2>1 DEF PageInv
  <2> QED BY <2>1, <2>2, <2>4, <2>5, <2>6 DEF PageInv, In, Increasing
<1>12. \A d \in Conns \ {c} : UNCHANGED own(d)
  <2> HIDE DEF l2, w2
  <2> QED BY <1>1, <1>2, <1>4, <1>6 DEF own
<1> QED BY <1>1, <1>8, <1>9, <1>10, <1>11, <1>12, OneConn DEF feed, page

LEMMA InCaptions == ASSUME NEW w \in Wires, NEW x, In(x, w) PROVE x \in Captions
BY DEF Wires, In

LEMMA SegmentStep ==
  ASSUME StreamInv, SlotInv', NEW c \in Conns, Segment(c)
  PROVE  StreamInv'
<1> DEFINE w == wire[c]
           q == inbox[c]
           m == Head(q)
           w2 == IF Fresh(c) /\ link[c] = "up" THEN Append(w, <<m>>) ELSE w
           l2 == IF Fresh(c) THEN m ELSE last[c]
<1>1. /\ StreamType /\ ConnInv(c) /\ pc \in [Conns -> Places] /\ pc[c] = "loop"
      /\ UNCHANGED <<feed, pc, by, link, page, due>>
      /\ q # << >> /\ m # TheKill /\ inbox' = [inbox EXCEPT ![c] = Tail(q)]
  BY DEF StreamInv, SlotInv, HandlersOK, StreamType, Segment, HasMessage
<1>2. /\ stored \in 0 .. MaxCaptions /\ carried \in 0 .. stored /\ MaxCaptions \in Nat
      /\ last[c] \in 0 .. stored /\ q \in Seq(Messages)
      /\ w \in Wires /\ last \in [Conns -> 0 .. MaxCaptions] /\ wire \in [Conns -> Wires]
      /\ inbox \in [Conns -> Seq(Messages)] /\ InOrder(q, last[c], carried)
  BY <1>1, LimitsAssumption DEF StreamType, ConnInv, InboxInOrder, Messages
<1>3. /\ m \in Captions /\ Tail(q) \in Seq(Messages) /\ last[c] <= m /\ m <= carried
      /\ InOrder(Tail(q), m, carried)
      /\ \A i \in DOMAIN q : q[i] = m \/ \E j \in DOMAIN Tail(q) : Tail(q)[j] = q[i]
  <2>1. last[c] \in Nat /\ carried \in Nat
    BY <1>2
  <2>2. m \in Messages
    BY <1>1, <1>2, <2>1, InboxTail
  <2> QED BY <1>1, <1>2, <2>1, <2>2, InboxTail DEF Messages
<1>4. last' = [last EXCEPT ![c] = l2] /\ wire' = [wire EXCEPT ![c] = w2]
  BY <1>2 DEF Segment, Send
<1>5. /\ Sorted(w) /\ \A x : In(x, w) => x \in Captions /\ x <= last[c]
      /\ <<m>> \in Seq(Captions) /\ Increasing(<<m>>)
      /\ DOMAIN <<m>> = {1} /\ <<m>>[1] = m
  BY <1>1, <1>2, <1>3, InCaptions DEF ConnInv, Increasing
<1>6. /\ l2 \in 0 .. stored /\ (l2 = m \/ l2 = last[c]) /\ last[c] <= l2
      /\ Fresh(c) => last[c] < m /\ l2 = m
      /\ ~Fresh(c) => last[c] = m /\ l2 = m
  BY <1>2, <1>3 DEF Fresh, Captions
<1>7. /\ w2 \in Wires /\ Sorted(w2)
      /\ \A x : In(x, w2) => In(x, w) \/ (x = m /\ Fresh(c))
      /\ \A x : In(x, w) => In(x, w2)
      /\ Fresh(c) /\ link[c] = "up" => In(m, w2)
  <2>1. CASE Fresh(c) /\ link[c] = "up"
    <3> DEFINE b == <<m>>
    <3>1. Append(w, b) \in Wires
      BY <1>2, <1>5 DEF Wires
    <3>2. \A x : In(x, w) => \A j \in DOMAIN b : x < b[j]
      BY <1>2, <1>3, <1>5, <1>6, <2>1 DEF Captions
    <3>3. b \in Seq(Captions) /\ Increasing(b) /\ DOMAIN b = {1} /\ b[1] = m
      BY <1>5
    <3>4. w2 = Append(w, b)
      BY <2>1
    <3> HIDE DEF w, b, m, w2
    <3>5. Sorted(Append(w, b))
      BY <1>2, <1>5, <3>2, <3>3, SortedAppend
    <3>6. \A x : In(x, Append(w, b)) <=> In(x, w) \/ \E j \in DOMAIN b : b[j] = x
      BY <1>2, <3>3, InAppend
    <3> QED BY <2>1, <3>1, <3>3, <3>4, <3>5, <3>6
  <2>2. CASE ~(Fresh(c) /\ link[c] = "up")
    BY <1>2, <1>5, <2>2
  <2> QED BY <2>1, <2>2
<1>8. /\ last'[c] = l2 /\ wire'[c] = w2 /\ inbox'[c] = Tail(q)
      /\ last' \in [Conns -> 0 .. MaxCaptions] /\ wire' \in [Conns -> Wires]
      /\ inbox' \in [Conns -> Seq(Messages)]
      /\ \A d \in Conns \ {c} : UNCHANGED own(d)
  <2>1. l2 \in 0 .. MaxCaptions
    BY <1>2, <1>6
  <2>2. Tail(q) \in Seq(Messages)
    BY <1>3
  <2> DEFINE t == Tail(q)
  <2> HIDE DEF l2, w2, t
  <2>3. t \in Seq(Messages) /\ inbox' = [inbox EXCEPT ![c] = t]
    BY <1>1, <2>2 DEF t
  <2>4. last'[c] = l2 /\ wire'[c] = w2 /\ inbox'[c] = t
    BY <1>2, <1>4, <2>3
  <2>5. /\ last' \in [Conns -> 0 .. MaxCaptions] /\ wire' \in [Conns -> Wires]
        /\ inbox' \in [Conns -> Seq(Messages)]
    BY <1>2, <1>4, <1>7, <2>1, <2>3
  <2>6. \A d \in Conns \ {c} : UNCHANGED own(d)
    BY <1>1, <1>2, <1>4, <2>3 DEF own
  <2> QED BY <2>4, <2>5, <2>6 DEF t
<1> HIDE DEF l2, w2
<1>9. StreamType'
  BY <1>1, <1>8 DEF StreamType, Messages, feed, page
<1>10. ConnInv(c)'
  <2>1. last'[c] <= stored' /\ Sorted(wire'[c])
    BY <1>1, <1>2, <1>6, <1>7, <1>8 DEF feed
  <2>2. InOrder(inbox'[c], last'[c], carried')
    <3>1. l2 = m /\ carried' = carried
      BY <1>1, <1>6 DEF feed
    <3> QED BY <1>3, <1>8, <3>1
  <2>3. \A x \in Captions : In(x, wire'[c]) => x <= last'[c]
    <3>1. m \in Int /\ l2 = m /\ last[c] <= m /\ last[c] \in Int
      BY <1>2, <1>3, <1>6, LimitsAssumption DEF Captions
    <3>2. ASSUME NEW x \in Captions, In(x, w2) PROVE x <= l2
      <4>1. CASE In(x, w)
        <5>1. x \in Int /\ x <= last[c]
          BY <1>5, <4>1, LimitsAssumption DEF Captions
        <5> QED BY <3>1, <5>1
      <4>2. CASE x = m
        BY <3>1, <4>2
      <4> QED BY <1>7, <3>2, <4>1, <4>2
    <3> QED BY <1>8, <3>2
  <2>4. pc'[c] = "loop" /\ (link[c] = "up" => sock[by[c]] = c)'
    BY <1>1 DEF ConnInv, page
  <2> QED BY <2>1, <2>2, <2>3, <2>4 DEF ConnInv, InboxInOrder, InOrder, TheKill, Sorted, In, Opening
<1>11. ASSUME NEW k \in Clients, sock[k] = c PROVE PageInv(k)'
  <2>1. PageInv(k) /\ c # NoOne /\ sock'[k] = c /\ heard'[k] = heard[k] /\ stored' = stored
    BY <1>1, <1>11, ConnsAssumption DEF StreamInv, feed, page
  <2>2. /\ by'[c] = k /\ link'[c] = "up" /\ link[c] = "up" /\ pc'[c] # "new"
    BY <1>1, <1>11, <2>1 DEF PageInv
  <2>3. ASSUME NEW i \in DOMAIN heard[k]
        PROVE  /\ heard[k][i] \in Int /\ heard[k][i] <= last[c]
               /\ \A x \in Captions : In(x, w) => heard[k][i] < x
    <3>1. heard[k] \in Seq(Captions)
      BY <1>1 DEF StreamType
    <3> QED BY <1>11, <2>1, <3>1, LimitsAssumption DEF PageInv, Captions
  <2>4. ASSUME NEW i \in DOMAIN heard[k]
        PROVE  /\ heard[k][i] <= last'[c]
               /\ \A x \in Captions : In(x, wire'[c]) => heard[k][i] < x
    <3>1. heard[k][i] <= l2 /\ (Fresh(c) => heard[k][i] < m)
      BY <1>2, <1>3, <1>6, <2>3, LimitsAssumption DEF Captions
    <3> QED BY <1>7, <1>8, <2>3, <3>1
  <2>5. In(last'[c], wire'[c]) \/ \E i \in DOMAIN heard[k] : heard[k][i] = last'[c]
    <3>1. CASE Fresh(c)
      BY <1>6, <1>7, <1>8, <2>2, <3>1
    <3>2. CASE ~Fresh(c)
      <4>1. last[c] = m /\ last[c] # 0 /\ last'[c] = m
        BY <1>3, <1>6, <1>8, <3>2 DEF Captions
      <4> QED BY <1>7, <1>8, <1>11, <2>1, <4>1 DEF PageInv
    <3> QED BY <3>1, <3>2
  <2>6. Increasing(heard'[k]) /\ \A i \in DOMAIN heard'[k] : heard'[k][i] <= stored'
    BY <2>1 DEF PageInv
  <2> QED BY <2>1, <2>2, <2>4, <2>5, <2>6 DEF PageInv, In, Increasing
<1>12. DueInv(c)'
  <2> SUFFICES ASSUME link[c] = "up", NEW x \in due[c] PROVE Waiting(c, x)' \/ Told(c, x)'
    BY <1>1 DEF DueInv
  <2>1. Waiting(c, x) \/ Told(c, x)
    BY <1>1 DEF StreamInv, DueInv
  <2>2. by[c] \in Clients /\ sock[by[c]] = c
    BY <1>1 DEF StreamInv, SlotInv, HandlersOK, ConnInv
  <2>3. \A y : Told(c, y) => Told(c, y)'
    <3>1. heard' = heard /\ by' = by /\ wire'[c] = w2
      BY <1>1, <1>8 DEF page
    <3>2. \A y : In(y, w) => In(y, wire'[c])
      BY <1>7, <3>1
    <3> QED BY <3>1, <3>2 DEF Told, In
  <2>4. ASSUME x = m PROVE Told(c, x)'
    <3>1. CASE Fresh(c)
      BY <1>7, <1>8, <2>4, <3>1 DEF Told, In
    <3>2. CASE ~Fresh(c)
      <4>1. last[c] = m /\ last[c] # 0 /\ PageInv(by[c]) /\ c # NoOne
        BY <1>3, <1>6, <2>2, <3>2, ConnsAssumption DEF Captions, StreamInv
      <4>2. Told(c, m)
        BY <2>2, <4>1 DEF PageInv, Told
      <4> QED BY <2>3, <2>4, <4>2
    <3> QED BY <3>1, <3>2
  <2>5. ASSUME Waiting(c, x), x # m PROVE Waiting(c, x)'
    BY <1>3, <1>8, <2>5 DEF Waiting
  <2> QED BY <2>1, <2>3, <2>4, <2>5
<1> QED BY <1>1, <1>8, <1>9, <1>10, <1>11, <1>12, OneConn DEF feed, page

LEMMA KilledStep ==
  ASSUME StreamInv, SlotInv', NEW c \in Conns, Killed(c)
  PROVE  StreamInv'
<1> DEFINE q == inbox[c]
<1>1. /\ StreamType /\ ConnInv(c) /\ pc \in [Conns -> Places] /\ pc[c] = "loop"
      /\ UNCHANGED <<feed, by, link, last, wire, page, due>>
      /\ q # << >> /\ inbox' = [inbox EXCEPT ![c] = Tail(q)]
      /\ pc' = [pc EXCEPT ![c] = "finally"]
  BY DEF StreamInv, SlotInv, HandlersOK, StreamType, Killed, HasMessage, Goto
<1>2. /\ carried \in Nat /\ last[c] \in Nat /\ q \in Seq(Messages)
      /\ inbox \in [Conns -> Seq(Messages)] /\ InOrder(q, last[c], carried)
  BY <1>1, LimitsAssumption DEF StreamType, ConnInv, InboxInOrder, Messages
<1>3. Tail(q) \in Seq(Messages) /\ InOrder(Tail(q), last[c], carried)
  BY <1>1, <1>2, InboxTail
<1> DEFINE t == Tail(q)
<1> HIDE DEF t
<1>4. inbox' = [inbox EXCEPT ![c] = t] /\ t \in Seq(Messages) /\ InOrder(t, last[c], carried)
  BY <1>1, <1>3 DEF t
<1>5. /\ inbox'[c] = t /\ inbox' \in [Conns -> Seq(Messages)] /\ pc'[c] = "finally"
      /\ \A d \in Conns \ {c} : UNCHANGED own(d)
  BY <1>1, <1>2, <1>4 DEF own
<1>6. StreamType'
  BY <1>1, <1>5 DEF StreamType, Messages, feed, page
<1>7. ConnInv(c)'
  <2>1. InboxInOrder(c)'
    BY <1>1, <1>4, <1>5 DEF InboxInOrder, InOrder, TheKill, feed
  <2> QED BY <1>1, <1>5, <2>1 DEF ConnInv, Sorted, In, Opening, feed, page
<1>8. DueInv(c)'
  BY <1>5 DEF DueInv
<1>9. ASSUME NEW k \in Clients PROVE PageInv(k)'
  <2>1. stored <= stored' /\ \A d \in Conns : pc[d] # "new" => pc'[d] # "new"
    BY <1>1, LimitsAssumption DEF StreamType, feed
  <2> QED BY <1>1, <1>6, <2>1, PageFrame DEF StreamInv, page
<1> QED BY <1>1, <1>5, <1>6, <1>7, <1>8, <1>9, OneConn DEF feed, page

-----------------------------------------------------------------------------
(* The steps of a page.                                                    *)

LEMMA OpenStep ==
  ASSUME StreamInv, SlotInv', NEW k \in Clients, NEW c \in Conns, Open(c, k)
  PROVE  StreamInv'
<1>1. /\ StreamType /\ HandlersOK /\ ConnInv(c) /\ PageInv(k) /\ c # NoOne /\ k # NoOne
      /\ sock[k] = NoOne /\ pc[c] = "new" /\ UNCHANGED <<feed, link, inbox, wire, heard, due>>
      /\ sock' = [sock EXCEPT ![k] = c] /\ by' = [by EXCEPT ![c] = k]
      /\ last' = [last EXCEPT ![c] = AfterSeq(k)] /\ pc' = [pc EXCEPT ![c] = "lookup"]
  BY ConnsAssumption DEF StreamInv, SlotInv, Open, Goto
<1>2. /\ AfterSeq(k) \in 0 .. stored
      /\ \A i \in DOMAIN heard[k] : heard[k][i] <= AfterSeq(k)
      /\ AfterSeq(k) = 0 \/ \E i \in DOMAIN heard[k] : heard[k][i] = AfterSeq(k)
  BY CursorIsLast
<1> DEFINE a == AfterSeq(k)
<1> HIDE DEF a
<1>3. /\ last' = [last EXCEPT ![c] = a] /\ a \in 0 .. MaxCaptions /\ a <= stored
      /\ stored \in 0 .. MaxCaptions
  BY <1>1, <1>2, LimitsAssumption DEF a, StreamType
<1>4. /\ StreamType' /\ stored <= stored' /\ carried <= carried'
      /\ last'[c] = a /\ by'[c] = k /\ sock'[k] = c /\ pc'[c] = "lookup"
  BY <1>1, <1>3, LimitsAssumption DEF StreamType, HandlersOK, feed
<1>5. wire[c] = << >> /\ inbox[c] = << >> /\ due[c] = {} /\ link[c] = "up"
  BY <1>1 DEF ConnInv, Opening
<1>6. ASSUME NEW d \in Conns PROVE ConnInv(d)' /\ DueInv(d)'
  <2>1. CASE d = c
    <3>1. InboxInOrder(c)'
      BY <1>1, <1>5 DEF InboxInOrder, InOrder
    <3>2. Sorted(wire'[c]) /\ \A x : ~In(x, wire'[c])
      BY <1>1, <1>5, SortedEmpty, InEmpty
    <3>3. last'[c] <= stored'
      BY <1>1, <1>3, <1>4 DEF feed
    <3>4. ConnInv(c)'
      BY <1>1, <1>4, <1>5, <3>1, <3>2, <3>3 DEF ConnInv, Sorted, In, Opening
    <3> QED BY <1>4, <2>1, <3>4 DEF DueInv
  <2>2. CASE d # c
    <3>1. UNCHANGED own(d) /\ ConnInv(d) /\ DueInv(d)
      BY <1>1, <2>2 DEF StreamInv, own, StreamType, HandlersOK
    <3>2. link[d] = "up" /\ pc[d] \notin {"new", "closed"} => sock'[by[d]] = d
      <4> SUFFICES ASSUME link[d] = "up", pc[d] \notin {"new", "closed"} PROVE sock'[by[d]] = d
        OBVIOUS
      <4>1. sock[by[d]] = d /\ by[d] \in Clients /\ d # NoOne
        BY <1>1, <3>1, ConnsAssumption DEF ConnInv, HandlersOK
      <4>2. by[d] # k
        BY <1>1, <4>1
      <4> QED BY <1>1, <4>1, <4>2 DEF StreamType
    <3> QED BY <1>1, <1>4, <3>1, <3>2, ConnFrame
  <2> QED BY <2>1, <2>2
<1>7. ASSUME NEW l \in Clients PROVE PageInv(l)'
  <2>1. CASE l = k
    <3>1. Increasing(heard'[k]) /\ \A i \in DOMAIN heard'[k] : heard'[k][i] <= stored'
      BY <1>1 DEF PageInv, feed
    <3>2. \A i \in DOMAIN heard'[k] : heard'[k][i] <= last'[c]
      BY <1>1, <1>2, <1>4 DEF a
    <3>3. last'[c] = 0 \/ \E i \in DOMAIN heard'[k] : heard'[k][i] = last'[c]
      BY <1>1, <1>2, <1>4 DEF a
    <3>4. by'[c] = k /\ link'[c] = "up" /\ pc'[c] # "new" /\ wire'[c] = << >>
      BY <1>1, <1>4, <1>5
    <3> QED BY <1>4, <2>1, <3>1, <3>2, <3>3, <3>4, InEmpty DEF PageInv, Increasing, In
  <2>2. CASE l # k
    <3>1. PageInv(l) /\ sock'[l] = sock[l] /\ heard'[l] = heard[l]
      BY <1>1, <2>2 DEF StreamInv, StreamType
    <3>2. ASSUME NEW d \in Conns, sock[l] = d
          PROVE  /\ by'[d] = by[d] /\ link'[d] = link[d] /\ last'[d] = last[d] /\ wire'[d] = wire[d]
                 /\ pc[d] # "new" => pc'[d] # "new"
      <4>1. d # c
        BY <1>1, <3>1, <3>2, ConnsAssumption DEF PageInv
      <4> QED BY <1>1, <4>1 DEF HandlersOK, StreamType
    <3> QED BY <1>1, <1>4, <3>1, <3>2, PageFrame
  <2> QED BY <2>1, <2>2
<1> QED BY <1>4, <1>6, <1>7 DEF StreamInv

\* The page of a connection: no other page reads it.
LEMMA PageOf ==
  ASSUME StreamInv, NEW k \in Clients, NEW c \in Conns, sock[k] = c
  PROVE  /\ by[c] = k /\ link[c] = "up" /\ pc[c] # "new" /\ c # NoOne
         /\ \A l \in Clients : l # k => sock[l] # c
         /\ \A d \in Conns : d # c => by[d] # k \/ sock[by[d]] # d
BY ConnsAssumption DEF StreamInv, PageInv

LEMMA ReceiveStep ==
  ASSUME StreamInv, SlotInv', NEW k \in Clients, NEW c \in Conns, Receive(k, c)
  PROVE  StreamInv'
<1> USE LimitsAssumption
<1> DEFINE w == wire[c]
           h == heard[k]
           b == Head(w)
           t == Tail(w)
           h2 == h \o b
<1>1. /\ StreamType /\ HandlersOK /\ ConnInv(c) /\ DueInv(c) /\ PageInv(k)
      /\ sock[k] = c /\ w # << >> /\ UNCHANGED <<feed, pc, by, link, last, inbox, sock, due>>
      /\ heard' = [heard EXCEPT ![k] = h2] /\ wire' = [wire EXCEPT ![c] = t]
  BY DEF StreamInv, SlotInv, Receive
<1>2. /\ by[c] = k /\ link[c] = "up" /\ pc[c] # "new" /\ c # NoOne
      /\ \A l \in Clients : l # k => sock[l] # c
  BY <1>1, PageOf
<1>3. /\ w \in Wires /\ Sorted(w) /\ h \in Seq(Captions) /\ Increasing(h)
      /\ stored \in 0 .. MaxCaptions /\ last[c] \in 0 .. stored
      /\ \A x : In(x, w) => x \in Captions /\ x <= last[c]
      /\ \A i \in DOMAIN h : h[i] <= last[c]
      /\ \A i \in DOMAIN h : \A x : In(x, w) => h[i] < x
      /\ \/ last[c] = 0
         \/ In(last[c], w)
         \/ \E i \in DOMAIN h : h[i] = last[c]
  BY <1>1, <1>2, InCaptions DEF StreamType, ConnInv, PageInv
<1>4. /\ b \in Seq(Captions) /\ t \in Wires /\ Increasing(b) /\ Sorted(t)
      /\ \A x : In(x, w) <=> In(x, t) \/ \E j \in DOMAIN b : b[j] = x
      /\ \A j \in DOMAIN b : \A x : In(x, t) => b[j] < x
  BY <1>1, <1>3, TailOfWire
<1> HIDE DEF w, b, t, h
<1>5. /\ h2 \in Seq(Captions) /\ Increasing(h2)
      /\ \A i \in DOMAIN h2 : (\E j \in DOMAIN h : h2[i] = h[j]) \/ \E j \in DOMAIN b : h2[i] = b[j]
      /\ \A j \in DOMAIN h : \E i \in DOMAIN h2 : h2[i] = h[j]
      /\ \A j \in DOMAIN b : \E i \in DOMAIN h2 : h2[i] = b[j]
  <2>1. \A i \in DOMAIN h, j \in DOMAIN b : h[i] < b[j]
    BY <1>3, <1>4
  <2> QED BY <1>3, <1>4, <2>1, HeardMore
<1> HIDE DEF h2
<1>6. /\ StreamType' /\ heard'[k] = h2 /\ wire'[c] = t /\ stored <= stored' /\ carried <= carried'
      /\ \A l \in Clients \ {k} : heard'[l] = heard[l]
      /\ \A d \in Conns \ {c} : UNCHANGED own(d)
  BY <1>1, <1>4, <1>5 DEF StreamType, feed, own
<1>7. ASSUME NEW d \in Conns PROVE ConnInv(d)' /\ DueInv(d)'
  <2>1. CASE d = c
    <3>1. pc[c] \notin Opening
      BY <1>1 DEF ConnInv, w
    <3>2. InboxInOrder(c)'
      BY <1>1 DEF ConnInv, InboxInOrder, InOrder, TheKill, feed
    <3>3. \A x \in Captions : In(x, t) => x <= last[c]
      BY <1>3, <1>4
    <3>4. ConnInv(c)'
      BY <1>1, <1>4, <1>6, <3>1, <3>2, <3>3 DEF ConnInv, Sorted, In, feed
    <3>5. ASSUME NEW x, Told(c, x) PROVE Told(c, x)'
      <4>1. In(x, w) \/ \E i \in DOMAIN h : h[i] = x
        BY <1>2, <3>5 DEF Told, w, h
      <4>2. In(x, t) \/ \E i \in DOMAIN h2 : h2[i] = x
        BY <1>4, <1>5, <4>1
      <4> QED BY <1>1, <1>2, <1>6, <4>2 DEF Told, In
    <3>6. DueInv(c)'
      <4>1. \A x : Waiting(c, x) => Waiting(c, x)'
        BY <1>1 DEF Waiting
      <4> QED BY <1>1, <3>5, <4>1 DEF DueInv
    <3> QED BY <2>1, <3>4, <3>6
  <2>2. CASE d # c
    <3>1. UNCHANGED own(d) /\ ConnInv(d) /\ DueInv(d)
      BY <1>6, <2>2 DEF StreamInv
    <3>2. link[d] = "up" /\ pc[d] \notin {"new", "closed"} => sock'[by[d]] = d
      BY <1>1, <3>1 DEF ConnInv
    <3>3. \A x : (\E i \in DOMAIN heard[by[d]] : heard[by[d]][i] = x)
                => \E i \in DOMAIN heard'[by[d]] : heard'[by[d]][i] = x
      <4>1. CASE by[d] = k
        BY <1>5, <1>6, <4>1 DEF h
      <4>2. CASE by[d] # k
        BY <1>1, <4>2 DEF StreamType
      <4> QED BY <4>1, <4>2
    <3> QED BY <1>1, <1>6, <3>1, <3>2, <3>3, ConnFrame
  <2> QED BY <2>1, <2>2
<1>8. ASSUME NEW l \in Clients PROVE PageInv(l)'
  <2>1. CASE l = k
    <3>1. /\ by'[c] = k /\ link'[c] = "up" /\ pc'[c] # "new" /\ sock'[k] = c
          /\ last' = last /\ stored' = stored
      BY <1>1, <1>2 DEF feed
    <3>2. ASSUME NEW i \in DOMAIN h2
          PROVE  h2[i] <= stored /\ h2[i] <= last[c] /\ \A x \in Captions : In(x, t) => h2[i] < x
      <4>1. CASE \E j \in DOMAIN h : h2[i] = h[j]
        <5>1. h2[i] \in Int /\ h2[i] <= last[c]
          BY <1>3, <4>1 DEF Captions
        <5> QED BY <1>3, <1>4, <4>1, <5>1
      <4>2. CASE \E j \in DOMAIN b : h2[i] = b[j]
        <5>1. In(h2[i], w)
          BY <1>4, <4>2
        <5>2. h2[i] \in Int /\ h2[i] <= last[c]
          BY <1>3, <5>1 DEF Captions
        <5> QED BY <1>3, <1>4, <4>2, <5>2
      <4> QED BY <1>5, <4>1, <4>2
    <3>3. \/ last[c] = 0
          \/ In(last[c], t)
          \/ \E i \in DOMAIN h2 : h2[i] = last[c]
      BY <1>3, <1>4, <1>5
    <3> QED BY <1>5, <1>6, <2>1, <3>1, <3>2, <3>3 DEF PageInv, Increasing, In
  <2>2. CASE l # k
    <3>1. \A d \in Conns : sock[l] = d => d # c
      BY <1>2, <2>2
    <3> QED BY <1>1, <1>6, <2>2, <3>1, PageFrame DEF StreamInv, own
  <2> QED BY <2>1, <2>2
<1> QED BY <1>6, <1>7, <1>8 DEF StreamInv

\* The page loses its connection, or sees it closed.
LEMMA LeaveStep ==
  ASSUME StreamInv, SlotInv', NEW k \in Clients, NEW c \in Conns, Cut(k, c) \/ OnClose(k, c)
  PROVE  StreamInv'
<1>1. /\ StreamType /\ HandlersOK /\ sock[k] = c /\ UNCHANGED <<feed, pc, by, last, inbox, heard, due>>
      /\ sock' = [sock EXCEPT ![k] = NoOne]
      /\ \A d \in Conns \ {c} : UNCHANGED own(d)
      /\ \/ link'[c] = "cut" /\ wire'[c] = << >>
         \/ pc[c] = "closed" /\ UNCHANGED <<link, wire>>
  BY DEF StreamInv, SlotInv, StreamType, Cut, OnClose, own
<1>2. /\ by[c] = k /\ pc[c] # "new"
      /\ \A l \in Clients : l # k => sock[l] # c
  BY <1>1, PageOf
<1>3. StreamType' /\ stored <= stored' /\ carried <= carried' /\ UNCHANGED <<stored, carried>>
  <2>1. << >> \in Wires
    BY DEF Wires
  <2>2. stored <= stored /\ carried <= carried
    BY <1>1, LimitsAssumption DEF StreamType
  <2>3. link' \in [Conns -> {"up", "cut", "noticed"}] /\ wire' \in [Conns -> Wires]
    <3>1. CASE Cut(k, c)
      BY <1>1, <2>1, <3>1 DEF Cut, StreamType
    <3>2. CASE OnClose(k, c)
      BY <1>1, <3>2 DEF OnClose, StreamType
    <3> QED BY <3>1, <3>2
  <2> QED BY <1>1, <2>2, <2>3 DEF StreamType, feed
<1>4. ASSUME NEW d \in Conns PROVE ConnInv(d)' /\ DueInv(d)'
  <2>1. ConnInv(d) /\ DueInv(d)
    BY DEF StreamInv
  <2>2. CASE d = c
    <3>1. InboxInOrder(c)'
      BY <1>1, <2>1, <2>2, <1>3 DEF ConnInv, InboxInOrder, InOrder, TheKill
    <3>2. CASE link'[c] = "cut" /\ wire'[c] = << >>
      <4>1. Sorted(wire'[c]) /\ \A x : ~In(x, wire'[c])
        BY <3>2, SortedEmpty, InEmpty
      <4> QED BY <1>1, <1>2, <1>3, <2>1, <2>2, <3>1, <3>2, <4>1
            DEF ConnInv, DueInv, Sorted, In
    <3>3. CASE pc[c] = "closed" /\ UNCHANGED <<link, wire>>
      BY <1>1, <1>3, <2>1, <2>2, <3>1, <3>3 DEF ConnInv, DueInv, Sorted, In, Opening
    <3> QED BY <1>1, <3>2, <3>3
  <2>3. CASE d # c
    <3>1. UNCHANGED own(d)
      BY <1>1, <2>3
    <3>2. link[d] = "up" /\ pc[d] \notin {"new", "closed"} => sock'[by[d]] = d
      <4> SUFFICES ASSUME link[d] = "up", pc[d] \notin {"new", "closed"} PROVE sock'[by[d]] = d
        OBVIOUS
      <4>1. sock[by[d]] = d /\ by[d] \in Clients
        BY <1>1, <2>1 DEF ConnInv, HandlersOK
      <4>2. by[d] # k
        BY <1>1, <2>3, <4>1
      <4> QED BY <1>1, <4>1, <4>2 DEF StreamType
    <3> QED BY <1>1, <1>3, <2>1, <3>1, <3>2, ConnFrame
  <2> QED BY <2>2, <2>3
<1>5. ASSUME NEW l \in Clients PROVE PageInv(l)'
  <2>1. PageInv(l)
    BY DEF StreamInv
  <2>2. CASE l = k
    <3>1. sock'[k] = NoOne
      BY <1>1 DEF StreamType
    <3> QED BY <1>1, <1>3, <2>1, <2>2, <3>1 DEF PageInv, Increasing
  <2>3. CASE l # k
    <3>1. sock'[l] = sock[l] /\ heard'[l] = heard[l]
      BY <1>1, <2>3 DEF StreamType
    <3>2. \A d \in Conns : sock[l] = d => d # c
      BY <1>2, <2>3
    <3> QED BY <1>1, <1>3, <2>1, <3>1, <3>2, PageFrame DEF own
  <2> QED BY <2>2, <2>3
<1> QED BY <1>3, <1>4, <1>5 DEF StreamInv

LEMMA NoticeStep ==
  ASSUME StreamInv, SlotInv', NEW c \in Conns, Notice(c)
  PROVE  StreamInv'
<1>1. /\ StreamType /\ ConnInv(c) /\ DueInv(c) /\ link[c] = "cut" /\ link'[c] = "noticed"
      /\ UNCHANGED <<feed, pc, by, last, inbox, wire, page, due>>
      /\ StreamType' /\ \A d \in Conns \ {c} : UNCHANGED own(d)
  BY DEF StreamInv, StreamType, Notice, own, feed, page
<1>2. ConnInv(c)'
  <2>1. InboxInOrder(c)'
    BY <1>1 DEF ConnInv, InboxInOrder, InOrder, TheKill, feed
  <2> QED BY <1>1, <2>1 DEF ConnInv, Sorted, In, feed
<1>3. DueInv(c)'
  BY <1>1 DEF DueInv
<1>4. \A k \in Clients : sock[k] # c
  BY <1>1, PageOf
<1> QED BY <1>1, <1>2, <1>3, <1>4, OneConn DEF feed, page

-----------------------------------------------------------------------------

LEMMA HandlerMoves ==
  ASSUME StreamInv, SlotInv', NEW c \in Conns, Handler(c) \/ GetMessageRaises(c)
  PROVE  StreamInv'
<1>1. CASE Scrollback(c) \/ Segment(c) \/ Killed(c)
  BY <1>1, ScrollbackStep, SegmentStep, KilledStep
<1>2. CASE Lookup(c) \/ Validate(c) \/ TryAcquire(c) \/ Accept(c)
  <2>1. /\ pc[c] \in Opening \ {"new"}
        /\ UNCHANGED <<feed, by, link, last, inbox, wire, page, due>>
        /\ \E place \in {"validate", "acquire", "accept", "scrollback", "closed"} :
             pc' = [pc EXCEPT ![c] = place]
    BY <1>2 DEF Lookup, Validate, TryAcquire, Accept, Goto, Opening
  <2> QED BY <2>1, PlainMove DEF Opening, Places
<1>3. CASE Subscribe(c)
  <2>1. /\ pc[c] = "subscribe"
        /\ UNCHANGED <<feed, by, link, last, inbox, wire, page, due>>
        /\ \E place \in {"loop", "finally"} : pc' = [pc EXCEPT ![c] = place]
    BY <1>3 DEF Subscribe, Goto
  <2> QED BY <2>1, PlainMove DEF Opening, Places
<1>4. CASE \/ AcceptRaises(c) \/ ScrollbackRaises(c) \/ LoopEnds(c) \/ GetMessageRaises(c)
           \/ Finally(c) \/ Unsubscribe(c)
  <2>1. /\ pc[c] \in {"accept", "scrollback", "loop", "finally", "unsubscribe"}
        /\ UNCHANGED <<feed, by, link, last, inbox, wire, page, due>>
        /\ \E place \in {"finally", "unsubscribe", "closed"} : pc' = [pc EXCEPT ![c] = place]
    BY <1>4 DEF AcceptRaises, ScrollbackRaises, LoopEnds, GetMessageRaises, Finally,
           Unsubscribe, Escape, Goto
  <2> QED BY <2>1, PlainMove DEF Opening, Places
<1> QED BY <1>1, <1>2, <1>3, <1>4 DEF Handler

LEMMA StreamInvInit == Init => StreamInv
<1> SUFFICES ASSUME Init PROVE StreamInv
  OBVIOUS
<1>1. SlotInv
  BY SlotInvInit
<1>2. StreamType
  <2>1. << >> \in Wires /\ << >> \in Seq(Captions \cup {TheKill}) /\ << >> \in Seq(Captions)
    BY DEF Wires
  <2> QED BY <2>1, LimitsAssumption DEF Init, StreamType
<1>3. ASSUME NEW c \in Conns PROVE ConnInv(c) /\ DueInv(c)
  <2>1. /\ pc[c] = "new" /\ link[c] = "up" /\ last[c] = 0 /\ inbox[c] = << >>
        /\ wire[c] = << >> /\ due[c] = {} /\ stored = 0
    BY DEF Init
  <2>2. InboxInOrder(c)
    BY <2>1 DEF InboxInOrder, InOrder
  <2> QED BY <2>1, <2>2, SortedEmpty, InEmpty DEF ConnInv, DueInv
<1>4. ASSUME NEW k \in Clients PROVE PageInv(k)
  BY DEF Init, PageInv, Increasing
<1> QED BY <1>1, <1>2, <1>3, <1>4 DEF StreamInv

LEMMA StreamInvStep == StreamInv /\ SlotInv' /\ [Next]_vars => StreamInv'
<1> SUFFICES ASSUME StreamInv, SlotInv', [Next]_vars PROVE StreamInv'
  OBVIOUS
<1>1. CASE Feed
  BY <1>1, FeedInv
<1>2. ASSUME NEW k \in Clients, NEW c \in Conns, Page(k, c) PROVE StreamInv'
  BY <1>2, OpenStep, ReceiveStep, LeaveStep DEF Page
<1>3. ASSUME NEW c \in Conns, Notice(c) \/ Handler(c) \/ GetMessageRaises(c) PROVE StreamInv'
  BY <1>3, NoticeStep, HandlerMoves
<1>4. CASE UNCHANGED vars
  <2>1. /\ StreamType /\ stored \in 0 .. MaxCaptions /\ carried \in 0 .. stored
        /\ session \in {"active", "ended", "killed"} /\ stored <= stored /\ carried <= carried
    BY LimitsAssumption DEF StreamInv, StreamType
  <2> QED BY <1>4, <2>1, SilentFeed DEF vars, feed, page
<1> QED BY <1>1, <1>2, <1>3, <1>4 DEF Next

LEMMA StreamInvariant == Spec => []StreamInv
BY StreamInvInit, StreamInvStep, SlotInvInit, SlotInvStep, PTL DEF Spec

\* Every variable stays in its range: after_seq is a number the feed has reached,
\* the numbers on the wire are captions, and the gauge is not negative.
THEOREM TypeInvariant == Spec => []TypeOK
<1>1. StreamInv /\ GaugeInv => TypeOK
  BY DEF StreamInv, StreamType, SlotInv, HandlersOK, GaugeInv, TypeOK, Wires
<1> QED BY <1>1, StreamInvariant, GaugeInvariant, PTL

\* listener.py:20-22: however often a page reconnects and whatever scrollback
\* and stream both hold, it hears captions in order and none twice.
THEOREM OrderKept == Spec => []HeardOnceInOrder
<1>1. StreamInv => HeardOnceInOrder
  BY DEF StreamInv, PageInv, Increasing, HeardOnceInOrder
<1> QED BY <1>1, StreamInvariant, PTL

\* The comparison with last_seq drops no caption that was published for the
\* connection: what it drops, the page was sent by the scrollback.
THEOREM NothingDueIsDropped == Spec => []DueIsDelivered
<1>1. StreamInv => DueIsDelivered
  <2> SUFFICES ASSUME StreamInv, NEW c \in Conns, pc[c] = "loop", link[c] = "up", NEW x \in due[c]
               PROVE  x \in {inbox[c][i] : i \in DOMAIN inbox[c]} \cup Sent(c) \cup HeardBy(by[c])
    BY DEF DueIsDelivered
  <2>1. Waiting(c, x) \/ Told(c, x)
    BY DEF StreamInv, DueInv
  <2>2. In(x, wire[c]) => x \in Sent(c)
    BY DEF In, Sent
  <2> QED BY <2>1, <2>2 DEF Waiting, Told, HeardBy
<1> QED BY <1>1, StreamInvariant, PTL

-----------------------------------------------------------------------------
(* Without gaps: the three ways in which a page can miss a caption, and    *)
(* that there is no other.                                                 *)

\* No caption is stored before the last one was published; nothing is published
\* to a handler that has fetched its scrollback and is not yet subscribed; and
\* the captions a page missed while it was away fit the scrollback.
NothingUnpublished == stored' # stored => carried = stored
NoGapBeforeSubscribe == carried' # carried => \A c \in Conns : pc[c] # "subscribe"
ScrollbackReaches ==
  \A c \in Conns : Scrollback(c) => last[c] = 0 \/ stored - last[c] <= ScrollbackLimit

Unbroken == NothingUnpublished /\ NoGapBeforeSubscribe /\ ScrollbackReaches

Heard(k, x) == \E i \in DOMAIN heard[k] : heard[k][i] = x

\* What page k has heard or will read on connection c.
Knows(k, c, x) == In(x, wire[c]) \/ Heard(k, x)

HeardWhole(k) ==
  \A x, y, z \in Captions : Heard(k, x) /\ Heard(k, z) /\ x < y /\ y < z => Heard(k, y)

\* Up to last_seq the page knows every caption since its first; what was
\* published after last_seq waits, from the first the page knows or waits for.
KnowsWhole(k, c) ==
  \A x, y \in Captions : Knows(k, c, x) /\ x < y /\ y <= last[c] => Knows(k, c, y)
UpToDate(k, c) == \A x \in Captions : Knows(k, c, x) => carried <= last[c]
WaitsWhole(k, c) ==
  \A x, n \in Captions :
    (Knows(k, c, x) \/ Waiting(c, x)) /\ x < n /\ last[c] < n /\ n <= carried => Waiting(c, n)

ConnWhole(k, c) ==
  /\ KnowsWhole(k, c)
  /\ pc[c] = "subscribe" => UpToDate(k, c)
  /\ pc[c] = "loop" => WaitsWhole(k, c)

PageWhole(k) == HeardWhole(k) /\ \A c \in Conns : sock[k] = c => ConnWhole(k, c)

WholeInv == stored <= carried + 1 /\ \A k \in Clients : PageWhole(k)

\* What the types and StreamInv say of a page's connection before a step.
LEMMA PageBefore ==
  ASSUME StreamInv
  PROVE  /\ stored \in 0 .. MaxCaptions /\ carried \in 0 .. stored /\ MaxCaptions \in Nat
         /\ ScrollbackLimit \in Nat /\ TheKill \notin Captions
         /\ \A x \in Captions : x \in Nat /\ x > 0
         /\ \A k \in Clients : \A c \in Conns : sock[k] = c =>
              /\ by[c] = k /\ link[c] = "up" /\ pc[c] # "new" /\ last[c] \in 0 .. stored
              /\ \A l \in Clients : l # k => sock[l] # c
              /\ wire[c] \in Wires /\ Sorted(wire[c])
              /\ \A x \in Captions : Knows(k, c, x) => x <= last[c]
              /\ pc[c] \in Opening => wire[c] = << >>
              /\ pc[c] \in Opening \cup {"subscribe"} => inbox[c] = << >>
<1>1. /\ stored \in 0 .. MaxCaptions /\ carried \in 0 .. stored /\ MaxCaptions \in Nat
      /\ ScrollbackLimit \in Nat /\ TheKill \notin Captions
      /\ \A x \in Captions : x \in Nat /\ x > 0
  BY LimitsAssumption DEF StreamInv, StreamType, Captions, TheKill
<1>2. ASSUME NEW k \in Clients, NEW c \in Conns, sock[k] = c
      PROVE  /\ by[c] = k /\ link[c] = "up" /\ pc[c] # "new" /\ last[c] \in 0 .. stored
             /\ \A l \in Clients : l # k => sock[l] # c
             /\ wire[c] \in Wires /\ Sorted(wire[c])
             /\ \A x \in Captions : Knows(k, c, x) => x <= last[c]
             /\ pc[c] \in Opening => wire[c] = << >>
             /\ pc[c] \in Opening \cup {"subscribe"} => inbox[c] = << >>
  <2>1. ConnInv(c) /\ PageInv(k) /\ c # NoOne /\ StreamType
    BY ConnsAssumption DEF StreamInv
  <2>2. /\ by[c] = k /\ link[c] = "up" /\ pc[c] # "new"
        /\ \A l \in Clients : l # k => sock[l] # c
    BY <1>2, PageOf
  <2>3. last[c] \in 0 .. stored /\ wire[c] \in Wires
    BY <1>1, <2>1 DEF ConnInv, StreamType
  <2>4. ASSUME NEW x \in Captions, Knows(k, c, x) PROVE x <= last[c]
    BY <1>2, <2>1, <2>4 DEF Knows, Heard, ConnInv, PageInv
  <2> QED BY <2>1, <2>2, <2>3, <2>4 DEF ConnInv
<1> QED BY <1>1, <1>2

\* A page none of whose state moves, but for a handler that is not yet, or no
\* longer, between its scrollback and its loop.
LEMMA WholeFrame ==
  ASSUME StreamInv, NEW k \in Clients, PageWhole(k), heard'[k] = heard[k], carried' = carried,
         sock'[k] = sock[k] \/ sock'[k] = NoOne,
         \A c \in Conns : sock[k] = c /\ sock'[k] = c =>
           /\ last'[c] = last[c] /\ wire'[c] = wire[c]
           /\ pc'[c] \in {"subscribe", "loop"} => pc'[c] = pc[c] /\ inbox'[c] = inbox[c]
  PROVE  PageWhole(k)'
<1>1. HeardWhole(k)'
  BY DEF PageWhole, HeardWhole, Heard
<1>2. ASSUME NEW c \in Conns, sock'[k] = c PROVE ConnWhole(k, c)'
  <2>1. sock[k] = c /\ ConnWhole(k, c)
    BY <1>2, ConnsAssumption DEF PageWhole
  <2>2. \A x : Knows(k, c, x)' <=> Knows(k, c, x)
    BY <1>2, <2>1 DEF Knows, Heard, In
  <2>3. KnowsWhole(k, c)'
    BY <1>2, <2>1, <2>2 DEF ConnWhole, KnowsWhole
  <2>4. ASSUME pc'[c] = "subscribe" PROVE UpToDate(k, c)'
    BY <1>2, <2>1, <2>2, <2>4 DEF ConnWhole, UpToDate
  <2>5. ASSUME pc'[c] = "loop" PROVE WaitsWhole(k, c)'
    <3>1. WaitsWhole(k, c) /\ last'[c] = last[c] /\ inbox'[c] = inbox[c]
      BY <1>2, <2>1, <2>5 DEF ConnWhole
    <3>2. \A x : Waiting(c, x)' <=> Waiting(c, x)
      BY <3>1 DEF Waiting
    <3> QED BY <2>2, <3>1, <3>2 DEF WaitsWhole
  <2> QED BY <2>3, <2>4, <2>5 DEF ConnWhole
<1> QED BY <1>1, <1>2 DEF PageWhole

\* What an inbox holds after a delivery.
LEMMA DeliveredTo ==
  ASSUME StreamInv, NEW m, Deliver(m), NEW c \in Conns, Subscribed(c), NEW x
  PROVE  Waiting(c, x)' <=> Waiting(c, x) \/ x = m
<1> DEFINE q == inbox[c]
           r == Append(q, m)
<1>1. inbox'[c] = r
  BY DEF Deliver
<1>2. q \in Seq(Captions \cup {TheKill})
  BY DEF StreamInv, StreamType
<1>3. /\ DOMAIN q = 1 .. Len(q) /\ DOMAIN r = 1 .. Len(q) + 1 /\ Len(q) \in Nat
      /\ r[Len(q) + 1] = m /\ \A i \in 1 .. Len(q) : r[i] = q[i]
  BY <1>2
<1> HIDE DEF q, r
<1>4. \A i \in DOMAIN r : i \in DOMAIN q \/ i = Len(q) + 1
  BY <1>3
<1>5. Len(q) + 1 \in DOMAIN r /\ \A i \in DOMAIN q : i \in DOMAIN r
  BY <1>3
<1>6. (\E i \in DOMAIN r : r[i] = x) <=> (\E i \in DOMAIN q : q[i] = x) \/ x = m
  BY <1>3, <1>4, <1>5
<1> QED BY <1>1, <1>6 DEF Waiting, q

\* A publish reaches every page that listens; the kill is no caption.
LEMMA FeedWhole ==
  ASSUME StreamInv, WholeInv, Feed, Unbroken
  PROVE  WholeInv'
<1>1. /\ stored \in Nat /\ carried \in Nat /\ carried <= stored /\ stored <= carried + 1
      /\ TheKill \notin Captions /\ \A x \in Captions : x \in Nat
  BY PageBefore DEF WholeInv
<1>2. CASE StoreCaption \/ EndSession \/ (KillSwitch /\ UNCHANGED inbox)
  <2>1. UNCHANGED <<carried, pc, last, inbox, wire, sock, heard>>
    BY <1>2 DEF StoreCaption, EndSession, KillSwitch, page
  <2>2. stored' <= carried' + 1
    BY <1>1, <1>2, <2>1 DEF StoreCaption, EndSession, KillSwitch, Unbroken, NothingUnpublished
  <2>3. ASSUME NEW k \in Clients PROVE PageWhole(k)'
    BY <2>1, WholeFrame DEF WholeInv
  <2> QED BY <2>2, <2>3 DEF WholeInv
<1>3. ASSUME NEW m, Deliver(m), UNCHANGED <<stored, pc, last, wire, sock, heard>>,
             (carried' = carried /\ m = TheKill) \/
               (carried' = m /\ m = carried + 1 /\ \A c \in Conns : pc[c] # "subscribe")
      PROVE  WholeInv'
  <2>1. ASSUME NEW k \in Clients PROVE PageWhole(k)'
    <3>1. PageWhole(k)
      BY DEF WholeInv
    <3>2. HeardWhole(k)'
      BY <1>3, <3>1 DEF PageWhole, HeardWhole, Heard
    <3>3. ASSUME NEW c \in Conns, sock'[k] = c PROVE ConnWhole(k, c)'
      <4>1. sock[k] = c /\ ConnWhole(k, c) /\ pc'[c] = pc[c] /\ last'[c] = last[c]
        BY <1>3, <3>1, <3>3 DEF PageWhole
      <4>2. \A x : Knows(k, c, x)' <=> Knows(k, c, x)
        BY <1>3 DEF Knows, Heard, In
      <4>3. KnowsWhole(k, c)'
        BY <4>1, <4>2 DEF ConnWhole, KnowsWhole
      <4>4. ASSUME pc'[c] = "subscribe" PROVE UpToDate(k, c)'
        BY <1>3, <4>1, <4>2, <4>4 DEF ConnWhole, UpToDate
      <4>5. ASSUME pc'[c] = "loop" PROVE WaitsWhole(k, c)'
        <5>1. WaitsWhole(k, c) /\ \A x : Waiting(c, x)' <=> Waiting(c, x) \/ x = m
          BY <1>3, <4>1, <4>5, DeliveredTo DEF ConnWhole, Subscribed
        <5> SUFFICES ASSUME NEW x \in Captions, NEW n \in Captions,
                            Knows(k, c, x) \/ Waiting(c, x) \/ x = m,
                            x < n, last[c] < n, n <= carried', n # m
                     PROVE  Waiting(c, n)
          BY <4>1, <4>2, <5>1 DEF WaitsWhole
        <5>2. x \in Nat /\ n \in Nat
          BY <1>1
        <5>3. n <= carried /\ x # m
          BY <1>1, <1>3, <5>2
        <5> QED BY <5>1, <5>3 DEF WaitsWhole
      <4> QED BY <4>3, <4>4, <4>5 DEF ConnWhole
    <3> QED BY <3>2, <3>3 DEF PageWhole
  <2>2. stored' <= carried' + 1
    BY <1>1, <1>3
  <2> QED BY <2>1, <2>2 DEF WholeInv
<1>4. CASE PublishCaption
  <2>1. /\ Deliver(stored) /\ carried' = stored /\ carried < stored
        /\ UNCHANGED <<stored, pc, last, wire, sock, heard>>
    BY <1>4 DEF PublishCaption, page
  <2>2. stored = carried + 1 /\ carried' # carried
    BY <1>1, <2>1
  <2> QED BY <1>3, <2>1, <2>2 DEF Unbroken, NoGapBeforeSubscribe
<1>5. CASE KillSwitch
  BY <1>2, <1>3, <1>5 DEF KillSwitch, page
<1> QED BY <1>2, <1>4, <1>5 DEF Feed

\* A new connection starts where its page stopped.
LEMMA OpenWhole ==
  ASSUME StreamInv, WholeInv, NEW k \in Clients, NEW c \in Conns, Open(c, k)
  PROVE  WholeInv'
<1>1. /\ UNCHANGED <<stored, carried, heard, wire, inbox>> /\ sock[k] = NoOne /\ pc[c] = "new"
      /\ sock' = [sock EXCEPT ![k] = c] /\ sock \in [Clients -> Conns \cup {NoOne}]
      /\ last'[c] = AfterSeq(k) /\ pc'[c] = "lookup" /\ wire[c] = << >>
      /\ \A d \in Conns \ {c} : last'[d] = last[d] /\ pc'[d] = pc[d]
  BY DEF Open, Goto, feed, StreamInv, SlotInv, HandlersOK, StreamType, ConnInv, Opening
<1>2. PageWhole(k)'
  <2>1. HeardWhole(k) /\ HeardWhole(k)'
    BY <1>1 DEF WholeInv, PageWhole, HeardWhole, Heard
  <2>2. \A x : Knows(k, c, x)' <=> Heard(k, x)
    BY <1>1, InEmpty DEF Knows, Heard, In
  <2>3. ASSUME NEW x \in Captions, NEW y \in Captions, Heard(k, x), x < y, y <= AfterSeq(k)
        PROVE  Heard(k, y)
    <3>1. x \in Nat /\ y \in Nat /\ x > 0 /\ AfterSeq(k) \in Nat
      BY PageBefore, CursorIsLast
    <3>2. AfterSeq(k) # 0 /\ (y = AfterSeq(k) \/ y < AfterSeq(k))
      BY <2>3, <3>1
    <3>3. Heard(k, AfterSeq(k)) /\ AfterSeq(k) \in Captions
      <4>1. heard[k] \in Seq(Captions)
        BY DEF StreamInv, StreamType
      <4> QED BY <3>2, <4>1, CursorIsLast DEF Heard
    <3> QED BY <2>1, <2>3, <3>2, <3>3 DEF HeardWhole
  <2>4. KnowsWhole(k, c)'
    BY <1>1, <2>2, <2>3 DEF KnowsWhole
  <2>5. \A d \in Conns : sock'[k] = d => d = c
    BY <1>1
  <2> QED BY <1>1, <2>1, <2>4, <2>5 DEF PageWhole, ConnWhole
<1>3. ASSUME NEW l \in Clients, l # k PROVE PageWhole(l)'
  <2>1. sock'[l] = sock[l] /\ sock[l] # c
    BY <1>1, <1>3, PageBefore
  <2> QED BY <1>1, <2>1, WholeFrame DEF WholeInv
<1> QED BY <1>1, <1>2, <1>3 DEF WholeInv

\* Reading moves captions from the wire to what was heard.
LEMMA ReceiveWhole ==
  ASSUME StreamInv, WholeInv, NEW k \in Clients, NEW c \in Conns, Receive(k, c)
  PROVE  WholeInv'
<1> DEFINE w == wire[c]
           h == heard[k]
           b == Head(w)
           t == Tail(w)
           h2 == h \o b
<1>1. /\ UNCHANGED <<stored, carried, pc, last, inbox, sock>> /\ sock[k] = c /\ w # << >>
      /\ heard'[k] = h2 /\ wire'[c] = t
      /\ \A l \in Clients \ {k} : heard'[l] = heard[l]
      /\ \A d \in Conns \ {c} : wire'[d] = wire[d]
  BY DEF Receive, feed, StreamInv, StreamType
<1>2. /\ w \in Wires /\ Sorted(w) /\ h \in Seq(Captions) /\ Increasing(h)
      /\ \A i \in DOMAIN h : \A x : In(x, w) => h[i] < x
      /\ \A l \in Clients : l # k => sock[l] # c
      /\ \A x \in Captions : Knows(k, c, x) => x <= last[c]
  <2>1. PageInv(k) /\ c # NoOne /\ h \in Seq(Captions)
    BY ConnsAssumption DEF StreamInv, StreamType
  <2> QED BY <1>1, <2>1, PageBefore, InCaptions DEF PageInv
<1>3. /\ b \in Seq(Captions) /\ t \in Wires /\ Increasing(b) /\ Sorted(t)
      /\ \A x : In(x, w) <=> In(x, t) \/ \E j \in DOMAIN b : b[j] = x
      /\ \A j \in DOMAIN b : \A x : In(x, t) => b[j] < x
  BY <1>1, <1>2, TailOfWire
<1> HIDE DEF w, h, b, t
<1>4. /\ \A i \in DOMAIN h2 : (\E j \in DOMAIN h : h2[i] = h[j]) \/ \E j \in DOMAIN b : h2[i] = b[j]
      /\ \A j \in DOMAIN h : \E i \in DOMAIN h2 : h2[i] = h[j]
      /\ \A j \in DOMAIN b : \E i \in DOMAIN h2 : h2[i] = b[j]
  <2>1. \A i \in DOMAIN h, j \in DOMAIN b : h[i] < b[j]
    BY <1>2, <1>3
  <2> QED BY <1>2, <1>3, <2>1, HeardMore
<1> HIDE DEF h2
<1>5. /\ \A x : Heard(k, x)' <=> Heard(k, x) \/ \E j \in DOMAIN b : b[j] = x
      /\ \A x : In(x, wire[c]) <=> In(x, wire'[c]) \/ \E j \in DOMAIN b : b[j] = x
  BY <1>1, <1>3, <1>4 DEF Heard, h, w
<1>6. \A x : Knows(k, c, x)' <=> Knows(k, c, x)
  BY <1>5 DEF Knows, In
<1>7. PageWhole(k) /\ HeardWhole(k) /\ ConnWhole(k, c)
  BY <1>1 DEF WholeInv, PageWhole
<1>8. ConnWhole(k, c)'
  BY <1>1, <1>6, <1>7 DEF ConnWhole, KnowsWhole, UpToDate, WaitsWhole, Waiting
<1>9. HeardWhole(k)'
  <2> SUFFICES ASSUME NEW x \in Captions, NEW y \in Captions, NEW z \in Captions,
                      Heard(k, x)', Heard(k, z)', x < y, y < z, ~Heard(k, y)'
               PROVE  FALSE
    BY DEF HeardWhole
  <2>1. x \in Nat /\ y \in Nat /\ z \in Nat /\ last[c] \in Nat
    BY <1>1, PageBefore
  <2>2. Knows(k, c, x) /\ Knows(k, c, z)
    BY <1>6 DEF Knows
  <2>3. z <= last[c]
    BY <1>2, <2>2
  <2>4. Knows(k, c, y)
    BY <1>7, <2>1, <2>2, <2>3 DEF ConnWhole, KnowsWhole
  <2>5. In(y, t)
    BY <1>1, <1>5, <1>6, <2>4 DEF Knows, In
  <2>6. y < z => FALSE
    <3>1. CASE Heard(k, z)
      BY <1>2, <1>3, <2>1, <2>5, <3>1 DEF Heard, h
    <3>2. CASE \E j \in DOMAIN b : b[j] = z
      BY <1>3, <2>1, <2>5, <3>2
    <3> QED BY <1>5, <3>1, <3>2
  <2> QED BY <2>6
<1>10. PageWhole(k)'
  BY <1>1, <1>8, <1>9 DEF PageWhole
<1>11. ASSUME NEW l \in Clients, l # k PROVE PageWhole(l)'
  <2>1. \A d \in Conns : sock[l] = d => d # c
    BY <1>2, <1>11
  <2> QED BY <1>1, <1>11, <2>1, WholeFrame DEF WholeInv
<1> QED BY <1>1, <1>10, <1>11 DEF WholeInv

\* The page loses its connection, or sees it closed.
LEMMA LeaveWhole ==
  ASSUME StreamInv, WholeInv, NEW k \in Clients, NEW c \in Conns, Cut(k, c) \/ OnClose(k, c)
  PROVE  WholeInv'
<1>1. /\ UNCHANGED <<stored, carried, heard, pc, last, inbox>> /\ sock[k] = c
      /\ sock' = [sock EXCEPT ![k] = NoOne] /\ sock \in [Clients -> Conns \cup {NoOne}]
      /\ \A d \in Conns \ {c} : wire'[d] = wire[d]
  BY DEF Cut, OnClose, feed, StreamInv, StreamType
<1>2. ASSUME NEW l \in Clients PROVE PageWhole(l)'
  <2>1. PageWhole(l) /\ (sock'[l] = sock[l] \/ sock'[l] = NoOne)
    BY <1>1 DEF WholeInv
  <2>2. ASSUME NEW d \in Conns, sock[l] = d, sock'[l] = d PROVE wire'[d] = wire[d]
    <3>1. l # k
      BY <1>1, <2>2, ConnsAssumption
    <3>2. d # c
      BY <1>1, <2>2, <3>1, PageBefore
    <3> QED BY <1>1, <3>2
  <2> QED BY <1>1, <2>1, <2>2, WholeFrame
<1> QED BY <1>1, <1>2 DEF WholeInv

\* A step that sends nothing and brings no handler to its subscription or loop.
LEMMA MoveWhole ==
  ASSUME StreamInv, WholeInv, UNCHANGED <<stored, carried, sock, heard, last, wire>>,
         \A d \in Conns : pc'[d] \in {"subscribe", "loop"} => pc'[d] = pc[d] /\ inbox'[d] = inbox[d]
  PROVE  WholeInv'
BY WholeFrame DEF WholeInv

\* Only connection c moves; its page is shown apart.
LEMMA OnePage ==
  ASSUME StreamInv, WholeInv, NEW c \in Conns, UNCHANGED <<stored, carried, sock, heard>>,
         \A d \in Conns \ {c} : UNCHANGED <<pc[d], last[d], inbox[d], wire[d]>>,
         \A k \in Clients : sock[k] = c => ConnWhole(k, c)'
  PROVE  WholeInv'
<1>1. ASSUME NEW k \in Clients PROVE PageWhole(k)'
  <2>1. PageWhole(k)
    BY DEF WholeInv
  <2>2. CASE sock[k] = c
    BY <2>1, <2>2 DEF PageWhole, HeardWhole, Heard
  <2>3. CASE sock[k] # c
    BY <2>1, <2>3, WholeFrame
  <2> QED BY <2>2, <2>3
<1> QED BY <1>1 DEF WholeInv

\* The loop starts with nothing published unseen: nothing was since the scrollback.
LEMMA SubscribeWhole ==
  ASSUME StreamInv, WholeInv, NEW c \in Conns, Subscribe(c)
  PROVE  WholeInv'
<1>1. /\ UNCHANGED <<stored, carried, sock, heard, last, wire, inbox>> /\ pc[c] = "subscribe"
      /\ pc'[c] \in {"loop", "finally"} /\ \A d \in Conns \ {c} : pc'[d] = pc[d]
  BY DEF Subscribe, Goto, feed, page, StreamInv, SlotInv, HandlersOK
<1>2. ASSUME NEW k \in Clients, sock[k] = c PROVE ConnWhole(k, c)'
  <2>1. /\ KnowsWhole(k, c) /\ UpToDate(k, c) /\ inbox[c] = << >>
        /\ last[c] \in Nat /\ carried \in Nat /\ \A x \in Captions : x \in Nat
    BY <1>1, <1>2, PageBefore DEF WholeInv, PageWhole, ConnWhole
  <2>2. \A x : Knows(k, c, x)' <=> Knows(k, c, x)
    BY <1>1 DEF Knows, Heard, In
  <2>3. KnowsWhole(k, c)'
    BY <1>1, <2>1, <2>2 DEF KnowsWhole
  <2>4. \A x : ~Waiting(c, x)'
    BY <1>1, <2>1 DEF Waiting
  <2>5. WaitsWhole(k, c)'
    BY <1>1, <2>1, <2>2, <2>4 DEF WaitsWhole, UpToDate
  <2> QED BY <1>1, <2>3, <2>5 DEF ConnWhole
<1> QED BY <1>1, <1>2, OnePage

\* Where _fetch_scrollback starts, and that it leaves nothing out from there.
StartAfter(after) == IF stored - after > ScrollbackLimit THEN stored - ScrollbackLimit ELSE after

LEMMA NewestShape ==
  ASSUME stored \in 0 .. MaxCaptions, NEW after \in 0 .. stored, NEW x \in Captions
  PROVE  /\ (\E i \in DOMAIN Newest(after) : Newest(after)[i] = x)
              <=> StartAfter(after) < x /\ x <= stored
         /\ StartAfter(after) \in Nat /\ after <= StartAfter(after)
<1> USE LimitsAssumption
<1> DEFINE first == StartAfter(after)
           n == IF stored > first THEN stored - first ELSE 0
<1>1. /\ first \in Nat /\ n \in Nat /\ after <= first /\ stored \in Nat /\ x \in Nat
      /\ n = stored - first
  BY DEF Captions, StartAfter
<1>2. Newest(after) = [i \in 1 .. n |-> first + i]
  BY DEF Newest, StartAfter
<1> HIDE DEF first, n
<1>3. ASSUME first < x, x <= stored PROVE \E i \in 1 .. n : first + i = x
  <2>1. x - first \in 1 .. n /\ first + (x - first) = x
    BY <1>1, <1>3
  <2> QED BY <2>1
<1>4. \A i \in 1 .. n : first < first + i /\ first + i <= stored
  BY <1>1
<1>5. (\E i \in 1 .. n : first + i = x) <=> first < x /\ x <= stored
  BY <1>3, <1>4
<1> QED BY <1>1, <1>2, <1>5 DEF first

\* The scrollback reaches back to what the page has, and up to what is stored.
LEMMA ScrollbackWhole ==
  ASSUME StreamInv, WholeInv, NEW c \in Conns, Scrollback(c), Unbroken
  PROVE  WholeInv'
<1> DEFINE b == Newest(last[c])
           Batch(x) == \E i \in DOMAIN b : b[i] = x
<1>1. /\ UNCHANGED <<stored, carried, sock, heard, inbox>> /\ pc[c] = "scrollback"
      /\ pc'[c] = "subscribe" /\ last'[c] = LastAfterScrollback(c)
      /\ \A d \in Conns \ {c} : UNCHANGED <<pc[d], last[d], inbox[d], wire[d]>>
      /\ wire' = IF link[c] = "up" THEN [wire EXCEPT ![c] = Append(@, b)] ELSE wire
      /\ last[c] = 0 \/ stored - last[c] <= ScrollbackLimit
  BY DEF Scrollback, Send, Goto, feed, page, StreamInv, SlotInv, HandlersOK, StreamType,
         Unbroken, ScrollbackReaches
<1> SUFFICES ASSUME NEW k \in Clients, sock[k] = c PROVE ConnWhole(k, c)'
  BY <1>1, OnePage
<1>2. /\ stored \in 0 .. MaxCaptions /\ last[c] \in 0 .. stored /\ ScrollbackLimit \in Nat
      /\ carried \in 0 .. stored /\ MaxCaptions \in Nat /\ \A x \in Captions : x \in Nat /\ x > 0
      /\ link[c] = "up" /\ wire[c] = << >> /\ wire \in [Conns -> Wires]
      /\ KnowsWhole(k, c) /\ \A x \in Captions : Knows(k, c, x) => x <= last[c]
  BY <1>1, PageBefore DEF WholeInv, PageWhole, ConnWhole, Opening, StreamInv, StreamType
<1>3. b \in Seq(Captions)
  BY <1>2, NewestInOrder
<1>4. /\ \A x \in Captions : Batch(x) <=> StartAfter(last[c]) < x /\ x <= stored
      /\ StartAfter(last[c]) \in Nat /\ last[c] <= StartAfter(last[c])
  <2>1. StartAfter(last[c]) \in Nat /\ last[c] <= StartAfter(last[c])
    BY <1>2 DEF StartAfter
  <2> QED BY <1>2, <2>1, NewestShape
<1>5. \A x : In(x, wire'[c]) <=> Batch(x)
  <2> DEFINE w == wire[c]
  <2>1. wire'[c] = Append(w, b) /\ w \in Wires
    BY <1>1, <1>2
  <2>2. \A x : ~In(x, w)
    BY <1>2, InEmpty
  <2> HIDE DEF b, w
  <2>3. \A x : In(x, Append(w, b)) <=> In(x, w) \/ \E i \in DOMAIN b : b[i] = x
    BY <1>3, <2>1, InAppend
  <2> QED BY <2>1, <2>2, <2>3
<1> HIDE DEF b, Batch
<1>6. /\ \A x : Knows(k, c, x) <=> Heard(k, x)
      /\ \A x : Knows(k, c, x)' <=> Heard(k, x) \/ Batch(x)
  BY <1>1, <1>2, <1>5, InEmpty DEF Knows, Heard, In
<1>7. /\ last'[c] \in 0 .. stored /\ last[c] <= last'[c]
      /\ stored > last[c] /\ ScrollbackLimit > 0 => last'[c] = stored
      /\ ~(stored > last[c] /\ ScrollbackLimit > 0) => last'[c] = last[c]
  BY <1>1, <1>2 DEF LastAfterScrollback
\* A page that has something is answered from there.
<1>8. ASSUME NEW x \in Captions, Heard(k, x)
      PROVE  StartAfter(last[c]) = last[c] /\ carried <= last'[c]
  <2>1. last[c] > 0
    BY <1>2, <1>6, <1>8
  <2>2. stored - last[c] <= ScrollbackLimit
    BY <1>1, <2>1
  <2> QED BY <1>2, <1>7, <2>2 DEF StartAfter
<1>9. ASSUME NEW x \in Captions, Batch(x) PROVE last'[c] = stored
  BY <1>2, <1>4, <1>7, <1>9 DEF StartAfter
<1>10. KnowsWhole(k, c)'
  <2> SUFFICES ASSUME NEW x \in Captions, NEW y \in Captions, Heard(k, x) \/ Batch(x),
                      x < y, y <= last'[c]
               PROVE  Heard(k, y) \/ Batch(y)
    BY <1>6 DEF KnowsWhole
  <2>1. x \in Nat /\ y \in Nat /\ y <= stored
    BY <1>2, <1>7
  <2>2. CASE Batch(x)
    BY <1>4, <2>1, <2>2
  <2>3. CASE Heard(k, x) /\ y <= last[c]
    BY <1>2, <1>6, <2>3 DEF KnowsWhole
  <2>4. CASE Heard(k, x) /\ ~(y <= last[c])
    BY <1>2, <1>4, <1>8, <2>1, <2>4
  <2> QED BY <2>2, <2>3, <2>4
<1>11. UpToDate(k, c)'
  BY <1>1, <1>2, <1>6, <1>8, <1>9 DEF UpToDate
<1> QED BY <1>1, <1>10, <1>11 DEF ConnWhole

\* The first message of an inbox, and those behind it.
LEMMA FirstWaiting ==
  ASSUME StreamInv, NEW c \in Conns, inbox[c] # << >>, Head(inbox[c]) # TheKill,
         inbox'[c] = Tail(inbox[c])
  PROVE  /\ Head(inbox[c]) \in Captions
         /\ last[c] <= Head(inbox[c]) /\ Head(inbox[c]) <= carried
         /\ \A x : Waiting(c, x) <=> x = Head(inbox[c]) \/ Waiting(c, x)'
         /\ \A x \in Captions : Waiting(c, x)' => Head(inbox[c]) <= x
<1> DEFINE q == inbox[c]
           m == Head(q)
           t == Tail(q)
<1>1. /\ q \in Seq(Messages) /\ InOrder(q, last[c], carried) /\ last[c] \in Nat /\ carried \in Nat
      /\ TheKill \notin Captions
  BY LimitsAssumption DEF StreamInv, StreamType, ConnInv, InboxInOrder, Messages, Captions, TheKill
<1>2. /\ m \in Messages /\ last[c] <= m /\ m <= carried /\ InOrder(t, m, carried)
      /\ \A i \in DOMAIN q : q[i] = m \/ \E j \in DOMAIN t : t[j] = q[i]
  BY <1>1, InboxTail
<1>3. /\ 1 \in DOMAIN q /\ q[1] = m /\ \A j \in DOMAIN t : j + 1 \in DOMAIN q /\ q[j + 1] = t[j]
      /\ inbox'[c] = t
  BY <1>1
<1> HIDE DEF q, m, t
<1>4. \A x : (\E i \in DOMAIN q : q[i] = x) <=> x = m \/ \E j \in DOMAIN t : t[j] = x
  BY <1>2, <1>3
<1>5. \A x : Waiting(c, x) <=> x = m \/ Waiting(c, x)'
  BY <1>3, <1>4 DEF Waiting, q
<1>6. \A x \in Captions : Waiting(c, x)' => m <= x
  BY <1>1, <1>2, <1>3 DEF Waiting, InOrder
<1>7. m \in Captions
  BY <1>2 DEF m, q, Messages
<1> QED BY <1>2, <1>5, <1>6, <1>7 DEF m, q

\* The stream goes on with the very next caption.
LEMMA SegmentWhole ==
  ASSUME StreamInv, WholeInv, NEW c \in Conns, Segment(c)
  PROVE  WholeInv'
<1> DEFINE m == Head(inbox[c])
<1>1. /\ UNCHANGED <<stored, carried, sock, heard>> /\ pc[c] = "loop" /\ pc' = pc
      /\ inbox[c] # << >> /\ m # TheKill /\ inbox'[c] = Tail(inbox[c])
      /\ \A d \in Conns \ {c} : UNCHANGED <<pc[d], last[d], inbox[d], wire[d]>>
      /\ Fresh(c) => /\ last'[c] = m
                     /\ wire' = IF link[c] = "up" THEN [wire EXCEPT ![c] = Append(@, <<m>>)] ELSE wire
      /\ ~Fresh(c) => last' = last /\ wire' = wire
  BY DEF Segment, HasMessage, Send, feed, page, StreamInv, StreamType
<1> SUFFICES ASSUME NEW k \in Clients, sock[k] = c PROVE ConnWhole(k, c)'
  BY <1>1, OnePage
<1>2. /\ last[c] \in Nat /\ carried \in Nat /\ \A x \in Captions : x \in Nat
      /\ link[c] = "up" /\ wire \in [Conns -> Wires] /\ KnowsWhole(k, c) /\ WaitsWhole(k, c)
  <2>1. stored \in Nat /\ carried \in 0 .. stored /\ link[c] = "up" /\ last[c] \in 0 .. stored
    BY <1>1, PageBefore
  <2>2. \A x \in Captions : x \in Nat
    BY DEF Captions
  <2>3. wire \in [Conns -> Wires]
    BY DEF StreamInv, StreamType
  <2>4. ConnWhole(k, c)
    BY <1>1 DEF WholeInv, PageWhole
  <2>5. KnowsWhole(k, c) /\ WaitsWhole(k, c)
    BY <1>1, <2>4 DEF ConnWhole
  <2> QED BY <2>1, <2>2, <2>3, <2>5
<1>3. /\ m \in Captions /\ last[c] <= m /\ m <= carried
      /\ \A x : Waiting(c, x) <=> x = m \/ Waiting(c, x)'
      /\ \A x \in Captions : Waiting(c, x)' => m <= x
  BY <1>1, FirstWaiting
<1> HIDE DEF m
<1>4. last'[c] = m /\ (Fresh(c) \/ last[c] = m)
  BY <1>1, <1>2, <1>3 DEF Fresh, m
<1>5. \A x : Knows(k, c, x)' <=> Knows(k, c, x) \/ (x = m /\ Fresh(c))
  <2>1. CASE Fresh(c)
    <3> DEFINE w == wire[c]
               one == <<m>>
    <3>1. wire'[c] = Append(w, one) /\ w \in Wires
      BY <1>1, <1>2, <2>1
    <3>2. one \in Seq(Captions) /\ DOMAIN one = {1} /\ one[1] = m
      BY <1>3
    <3> HIDE DEF w, one
    <3>3. \A x : In(x, Append(w, one)) <=> In(x, w) \/ \E j \in DOMAIN one : one[j] = x
      BY <3>1, <3>2, InAppend
    <3>4. \A x : In(x, wire'[c]) <=> In(x, w) \/ x = m
      BY <3>1, <3>2, <3>3
    <3> QED BY <1>1, <2>1, <3>4 DEF Knows, Heard, In, w
  <2>2. CASE ~Fresh(c)
    BY <1>1, <2>2 DEF Knows, Heard, In
  <2> QED BY <2>1, <2>2
<1>6. KnowsWhole(k, c)'
  <2> SUFFICES ASSUME NEW x \in Captions, NEW y \in Captions, Knows(k, c, x)', x < y, y <= m
               PROVE  Knows(k, c, y)'
    BY <1>4 DEF KnowsWhole
  <2>1. x \in Nat /\ y \in Nat /\ m \in Nat
    BY <1>2, <1>3
  <2>2. Knows(k, c, x)
    BY <1>5, <2>1
  <2>3. CASE y <= last[c]
    BY <1>2, <1>5, <2>2, <2>3 DEF KnowsWhole
  <2>4. CASE ~(y <= last[c])
    <3>1. Waiting(c, y)
      BY <1>2, <1>3, <2>1, <2>2, <2>4 DEF WaitsWhole
    <3>2. y = m
      BY <1>3, <2>1, <3>1
    <3>3. Fresh(c)
      BY <1>4, <2>4, <3>2, <2>1
    <3> QED BY <1>5, <3>2, <3>3
  <2> QED BY <2>3, <2>4
<1>7. WaitsWhole(k, c)'
  <2> SUFFICES ASSUME NEW x \in Captions, NEW n \in Captions,
                      Knows(k, c, x)' \/ Waiting(c, x)', x < n, m < n, n <= carried
               PROVE  Waiting(c, n)'
    BY <1>1, <1>4 DEF WaitsWhole
  <2>1. n \in Nat /\ m \in Nat
    BY <1>2, <1>3
  <2>2. Knows(k, c, x) \/ Waiting(c, x)
    BY <1>3, <1>5
  <2>3. last[c] < n /\ n # m
    BY <1>2, <1>3, <2>1
  <2>4. Waiting(c, n)
    BY <1>2, <2>2, <2>3 DEF WaitsWhole
  <2> QED BY <1>3, <2>3, <2>4
<1> QED BY <1>1, <1>6, <1>7 DEF ConnWhole

LEMMA HandlerWhole ==
  ASSUME StreamInv, WholeInv, NEW c \in Conns, Notice(c) \/ Handler(c) \/ GetMessageRaises(c),
         Unbroken
  PROVE  WholeInv'
<1>1. CASE Scrollback(c) \/ Subscribe(c) \/ Segment(c)
  BY <1>1, ScrollbackWhole, SubscribeWhole, SegmentWhole
<1>2. CASE Notice(c)
  BY <1>2, MoveWhole DEF Notice, feed, page
<1>3. CASE \/ Lookup(c) \/ Validate(c) \/ TryAcquire(c) \/ Accept(c) \/ AcceptRaises(c)
           \/ ScrollbackRaises(c) \/ LoopEnds(c) \/ GetMessageRaises(c) \/ Finally(c) \/ Unsubscribe(c)
  <2>1. /\ UNCHANGED <<stored, carried, sock, heard, last, wire, inbox>>
        /\ \E place \in Places \ {"subscribe", "loop"} : pc' = [pc EXCEPT ![c] = place]
    BY <1>3 DEF Lookup, Validate, TryAcquire, Accept, AcceptRaises, ScrollbackRaises, LoopEnds,
           GetMessageRaises, Finally, Unsubscribe, Escape, Goto, feed, page, Places
  <2>2. pc \in [Conns -> Places]
    BY DEF StreamInv, SlotInv, HandlersOK
  <2> QED BY <2>1, <2>2, MoveWhole
<1>4. CASE Killed(c)
  <2>1. /\ UNCHANGED <<stored, carried, sock, heard, last, wire>> /\ pc'[c] = "finally"
        /\ \A d \in Conns \ {c} : pc'[d] = pc[d] /\ inbox'[d] = inbox[d]
    BY <1>4 DEF Killed, Goto, feed, page, StreamInv, SlotInv, HandlersOK, StreamType
  <2> QED BY <2>1, MoveWhole
<1> QED BY <1>1, <1>2, <1>3, <1>4 DEF Handler

LEMMA WholeStep == StreamInv /\ WholeInv /\ [Next /\ Unbroken]_vars => WholeInv'
<1> SUFFICES ASSUME StreamInv, WholeInv, [Next /\ Unbroken]_vars PROVE WholeInv'
  OBVIOUS
<1>1. CASE Feed /\ Unbroken
  BY <1>1, FeedWhole
<1>2. ASSUME NEW k \in Clients, NEW c \in Conns, Page(k, c) PROVE WholeInv'
  BY <1>2, OpenWhole, ReceiveWhole, LeaveWhole DEF Page
<1>3. ASSUME NEW c \in Conns, Notice(c) \/ Handler(c) \/ GetMessageRaises(c), Unbroken
      PROVE  WholeInv'
  BY <1>3, HandlerWhole
<1>4. CASE UNCHANGED vars
  BY <1>4, MoveWhole DEF vars, feed, page
<1> QED BY <1>1, <1>2, <1>3, <1>4 DEF Next

\* An increasing sequence without a missing caption goes up by one.
LEMMA WholeIsSeamless == StreamInv /\ WholeInv => Seamless
<1> SUFFICES ASSUME StreamInv, WholeInv, NEW k \in Clients, NEW i \in DOMAIN heard[k], i > 1
             PROVE  heard[k][i] = heard[k][i - 1] + 1
  BY DEF Seamless
<1> DEFINE h == heard[k]
<1>1. /\ h \in Seq(Captions) /\ Increasing(h) /\ HeardWhole(k) /\ MaxCaptions \in Nat
  BY LimitsAssumption DEF StreamInv, StreamType, PageInv, WholeInv, PageWhole
<1>2. i \in Int /\ i - 1 \in DOMAIN h /\ i - 1 < i /\ \A j \in DOMAIN h : j \in Int /\ h[j] \in Captions
  BY <1>1
<1> HIDE DEF h
<1>3. h[i - 1] < h[i] /\ h[i] \in 1 .. MaxCaptions /\ h[i - 1] \in 1 .. MaxCaptions
  BY <1>1, <1>2 DEF Increasing, Captions, h
<1>4. ASSUME h[i] # h[i - 1] + 1 PROVE FALSE
  <2> DEFINE y == h[i - 1] + 1
  <2>1. y \in Captions /\ h[i - 1] < y /\ y < h[i]
    BY <1>1, <1>3, <1>4 DEF Captions
  <2> HIDE DEF y
  <2>2. h[i - 1] \in Captions /\ h[i] \in Captions /\ Heard(k, h[i - 1]) /\ Heard(k, h[i])
    BY <1>2 DEF Heard, h
  <2>3. PICK j \in DOMAIN h : h[j] = y
    BY <1>1, <2>1, <2>2 DEF HeardWhole, Heard, h
  <2>4. j = i - 1 \/ j < i - 1 \/ j = i \/ i < j
    BY <1>2
  <2>5. CASE j < i - 1 \/ i < j
    <3>1. h[j] < h[i - 1] \/ h[i] < h[j]
      BY <1>1, <1>2, <2>5 DEF Increasing, h
    <3> QED BY <1>3, <2>1, <2>3, <3>1 DEF Captions
  <2> QED BY <1>3, <2>1, <2>3, <2>4, <2>5 DEF Captions
<1> QED BY <1>4 DEF h

\* listener.py:20-22, with what it takes: a page has every caption since its
\* first as long as no caption is stored before the last one was published,
\* none is published between a scrollback and its subscription, and a
\* reconnecting page has missed no more than the scrollback holds.  Losses of
\* the connection, of the database and of Redis alone leave no gap.
THEOREM SeamlessUnlessBroken == Init /\ [][Next /\ Unbroken]_vars => []Seamless
<1>1. Init => WholeInv
  <2> SUFFICES ASSUME Init PROVE WholeInv
    OBVIOUS
  <2>1. /\ stored = 0 /\ carried = 0
        /\ \A k \in Clients : heard[k] = << >> /\ sock[k] = NoOne
    BY DEF Init
  <2>2. \A k \in Clients : \A x : ~Heard(k, x)
    BY <2>1 DEF Heard
  <2> QED BY <2>1, <2>2, ConnsAssumption DEF WholeInv, PageWhole, HeardWhole
<1>2. [Next /\ Unbroken]_vars => [Next]_vars
  OBVIOUS
<1>3. StreamInv /\ WholeInv => Seamless
  BY WholeIsSeamless
<1> QED BY <1>1, <1>2, <1>3, WholeStep, StreamInvInit, StreamInvStep, SlotInvInit, SlotInvStep, PTL

-----------------------------------------------------------------------------
(* The way out: what holds of single steps beneath KillCloses and          *)
(* GoneReleases, which say that handlers reach their end.                  *)

KillAt(c, i) == i \in DOMAIN inbox[c] /\ inbox[c][i] = TheKill

PastLoop(c) == pc[c] \in {"finally", "unsubscribe", "closed"}

\* A kill in a connection's inbox stays there, at its place or one nearer to the
\* front, until the handler has left its loop.
KillGetsNearer ==
  \A c \in Conns : \A i \in DOMAIN inbox[c] :
    inbox[c][i] = TheKill => \/ PastLoop(c)'
                             \/ KillAt(c, i)'
                             \/ i > 1 /\ KillAt(c, i - 1)'

\* Only a handler that reads its inbox, or has finished, has a kill in it.
KillFindsLoop ==
  \A c \in Conns : (\E i \in DOMAIN inbox[c] : inbox[c][i] = TheKill) =>
                     pc[c] = "loop" \/ PastLoop(c)

Stage ==
  [new |-> 0, lookup |-> 1, validate |-> 2, acquire |-> 3, accept |-> 4, scrollback |-> 5,
   subscribe |-> 6, loop |-> 7, finally |-> 8, unsubscribe |-> 9, closed |-> 10]

\* A handler takes each of its stages once, from first to last, and a connection
\* that is cut is lost: the server can only notice, and no page returns to it.
LostForGood(c) ==
  link[c] # "up" =>
    /\ link'[c] = link[c] \/ link'[c] = "noticed"
    /\ \A k \in Clients : sock'[k] # c
OnlyOnward ==
  \A c \in Conns :
    /\ pc'[c] # pc[c] => Stage[pc[c]] < Stage[pc'[c]]
    /\ LostForGood(c)

\* What a step may do to the inbox of a connection.
InboxMoves(c) ==
  \/ inbox'[c] = inbox[c]
  \/ \E m \in Messages : inbox'[c] = Append(inbox[c], m)
  \/ /\ inbox[c] # << >> /\ inbox'[c] = Tail(inbox[c])
     /\ Head(inbox[c]) = TheKill => pc'[c] = "finally"

LEMMA InboxStep ==
  ASSUME StreamInv, [Next]_vars, NEW c \in Conns
  PROVE  InboxMoves(c)
<1>1. /\ inbox \in [Conns -> Seq(Captions \cup {TheKill})] /\ pc \in [Conns -> Places]
      /\ stored \in 0 .. MaxCaptions /\ carried \in 0 .. stored /\ MaxCaptions \in Nat
  BY LimitsAssumption DEF StreamInv, StreamType, SlotInv, HandlersOK
<1>2. ASSUME NEW m \in Messages, Deliver(m) PROVE InboxMoves(c)
  BY <1>1, <1>2 DEF Deliver, InboxMoves
<1>3. CASE PublishCaption
  <2>1. stored \in Messages /\ Deliver(stored)
    BY <1>1, <1>3 DEF PublishCaption, Captions, Messages
  <2> QED BY <1>2, <2>1
<1>4. CASE KillSwitch
  <2>1. TheKill \in Messages
    BY DEF Messages
  <2> QED BY <1>2, <1>4, <2>1 DEF KillSwitch, InboxMoves
<1>5. ASSUME NEW d \in Conns, Segment(d) PROVE InboxMoves(c)
  <2>1. /\ inbox' = [inbox EXCEPT ![d] = Tail(inbox[d])]
        /\ inbox[d] # << >> /\ Head(inbox[d]) # TheKill
    BY <1>5 DEF Segment, HasMessage
  <2> QED BY <1>1, <2>1 DEF InboxMoves
<1>6. ASSUME NEW d \in Conns, Killed(d) PROVE InboxMoves(c)
  <2>1. /\ inbox' = [inbox EXCEPT ![d] = Tail(inbox[d])]
        /\ inbox[d] # << >> /\ pc' = [pc EXCEPT ![d] = "finally"]
    BY <1>6 DEF Killed, HasMessage, Goto
  <2> QED BY <1>1, <2>1 DEF InboxMoves
<1>7. CASE UNCHANGED inbox
  BY <1>7 DEF InboxMoves
<1>8. \/ PublishCaption \/ KillSwitch \/ (\E d \in Conns : Segment(d) \/ Killed(d))
      \/ UNCHANGED inbox
  BY DEF Next, Feed, StoreCaption, EndSession, Page, Open, Receive, Cut, OnClose, Notice,
         Handler, Lookup, Validate, TryAcquire, Accept, AcceptRaises, Scrollback,
         ScrollbackRaises, Escape, Subscribe, LoopEnds, GetMessageRaises, Finally,
         Unsubscribe, vars
<1> QED BY <1>3, <1>4, <1>5, <1>6, <1>7, <1>8

LEMMA KillStep ==
  ASSUME StreamInv, [Next]_vars, NEW c \in Conns, NEW i \in DOMAIN inbox[c],
         inbox[c][i] = TheKill
  PROVE  PastLoop(c)' \/ KillAt(c, i)' \/ (i > 1 /\ KillAt(c, i - 1)')
<1> DEFINE q == inbox[c]
<1>1. q \in Seq(Messages) /\ InboxMoves(c) /\ i \in 1 .. Len(q) /\ Len(q) \in Nat
  BY InboxStep DEF StreamInv, StreamType, Messages
<1>2. CASE inbox'[c] = q
  BY <1>2 DEF KillAt
<1>3. ASSUME NEW m \in Messages, inbox'[c] = Append(q, m) PROVE KillAt(c, i)'
  <2>1. i \in DOMAIN Append(q, m) /\ Append(q, m)[i] = q[i]
    BY <1>1
  <2> QED BY <1>3, <2>1 DEF KillAt
<1>4. CASE /\ q # << >> /\ inbox'[c] = Tail(q)
           /\ Head(q) = TheKill => pc'[c] = "finally"
  <2>1. CASE i = 1
    BY <1>1, <1>4, <2>1 DEF PastLoop
  <2>2. CASE i # 1
    <3>1. i > 1 /\ i - 1 \in DOMAIN Tail(q) /\ Tail(q)[i - 1] = q[i]
      BY <1>1, <2>2
    <3> QED BY <1>4, <3>1 DEF KillAt
  <2> QED BY <2>1, <2>2
<1> QED BY <1>1, <1>2, <1>3, <1>4 DEF InboxMoves

LEMMA StageStep ==
  ASSUME StreamInv, [Next]_vars, NEW c \in Conns, pc'[c] # pc[c]
  PROVE  Stage[pc[c]] < Stage[pc'[c]]
<1>1. pc \in [Conns -> Places]
  BY DEF StreamInv, SlotInv, HandlersOK
<1>2. /\ Stage["new"] = 0 /\ Stage["lookup"] = 1 /\ Stage["validate"] = 2
      /\ Stage["acquire"] = 3 /\ Stage["accept"] = 4 /\ Stage["scrollback"] = 5
      /\ Stage["subscribe"] = 6 /\ Stage["loop"] = 7 /\ Stage["finally"] = 8
      /\ Stage["unsubscribe"] = 9 /\ Stage["closed"] = 10
  BY DEF Stage
<1> DEFINE Moves(d, from, to) == pc[d] \in from /\ \E p \in to : pc' = [pc EXCEPT ![d] = p]
<1>3. ASSUME NEW k \in Clients, NEW d \in Conns, Open(d, k) PROVE Moves(d, {"new"}, {"lookup"})
  BY <1>3 DEF Open, Goto
<1>4. ASSUME NEW d \in Conns, Lookup(d) \/ Validate(d) \/ TryAcquire(d)
      PROVE  \/ Moves(d, {"lookup"}, {"validate", "closed"})
             \/ Moves(d, {"validate"}, {"acquire", "closed"})
             \/ Moves(d, {"acquire"}, {"accept", "closed"})
  BY <1>4 DEF Lookup, Validate, TryAcquire, Goto
<1>5. ASSUME NEW d \in Conns,
             Accept(d) \/ AcceptRaises(d) \/ Scrollback(d) \/ ScrollbackRaises(d)
      PROVE  \/ Moves(d, {"accept"}, {"scrollback", "closed"})
             \/ Moves(d, {"scrollback"}, {"subscribe", "closed"})
  BY <1>5 DEF Accept, AcceptRaises, Scrollback, ScrollbackRaises, Escape, Goto
<1>6. ASSUME NEW d \in Conns, Subscribe(d) \/ Killed(d) \/ LoopEnds(d) \/ GetMessageRaises(d)
      PROVE  \/ Moves(d, {"subscribe"}, {"loop", "finally"})
             \/ Moves(d, {"loop"}, {"finally"})
  BY <1>6 DEF Subscribe, Killed, HasMessage, LoopEnds, GetMessageRaises, Goto
<1>7. ASSUME NEW d \in Conns, Finally(d) \/ Unsubscribe(d)
      PROVE  \/ Moves(d, {"finally"}, {"unsubscribe"})
             \/ Moves(d, {"unsubscribe"}, {"closed"})
  BY <1>7 DEF Finally, Unsubscribe, Goto
<1>8. ASSUME \/ Feed
             \/ \E k \in Clients, d \in Conns : Receive(k, d) \/ Cut(k, d) \/ OnClose(k, d)
             \/ \E d \in Conns : Notice(d) \/ Segment(d)
             \/ UNCHANGED vars
      PROVE  pc' = pc
  BY <1>8 DEF Feed, StoreCaption, PublishCaption, EndSession, KillSwitch, Receive, Cut,
              OnClose, Notice, Segment, vars
<1>9. ASSUME NEW d \in Conns, NEW from, NEW to, Moves(d, from, to)
      PROVE  pc[c] \in from /\ pc'[c] \in to
  BY <1>1, <1>9
<1> HIDE DEF Moves
<1>10. ASSUME NEW d \in Conns, Handler(d) \/ GetMessageRaises(d), ~Segment(d)
       PROVE  Stage[pc[c]] < Stage[pc'[c]]
  BY <1>2, <1>4, <1>5, <1>6, <1>7, <1>9, <1>10 DEF Handler
<1>11. ASSUME NEW k \in Clients, NEW d \in Conns, Open(d, k)
       PROVE  Stage[pc[c]] < Stage[pc'[c]]
  BY <1>2, <1>3, <1>9, <1>11
<1> QED BY <1>8, <1>10, <1>11 DEF Next, Page

LEMMA LostStep ==
  ASSUME StreamInv, [Next]_vars, NEW c \in Conns
  PROVE  LostForGood(c)
<1> SUFFICES ASSUME link[c] # "up"
             PROVE  /\ link'[c] = link[c] \/ link'[c] = "noticed"
                    /\ \A k \in Clients : sock'[k] # c
  BY DEF LostForGood
<1>1. /\ link \in [Conns -> {"up", "cut", "noticed"}]
      /\ sock \in [Clients -> Conns \cup {NoOne}] /\ c # NoOne
  BY ConnsAssumption DEF StreamInv, StreamType
<1>2. pc[c] # "new" /\ \A k \in Clients : sock[k] # c
  BY PageOf DEF StreamInv, ConnInv
<1>3. ASSUME NEW k \in Clients, NEW d \in Conns, Open(d, k)
      PROVE  link' = link /\ d # c /\ sock' = [sock EXCEPT ![k] = d]
  BY <1>2, <1>3 DEF Open
<1>4. ASSUME NEW k \in Clients, NEW d \in Conns, Cut(k, d)
      PROVE  d # c /\ link' = [link EXCEPT ![d] = "cut"] /\ sock' = [sock EXCEPT ![k] = NoOne]
  BY <1>2, <1>4 DEF Cut
<1>5. ASSUME NEW k \in Clients, NEW d \in Conns, Receive(k, d) \/ OnClose(k, d)
      PROVE  link' = link /\ (sock' = sock \/ sock' = [sock EXCEPT ![k] = NoOne])
  BY <1>5 DEF Receive, OnClose
<1>6. ASSUME NEW d \in Conns, Notice(d)
      PROVE  link' = [link EXCEPT ![d] = "noticed"] /\ sock' = sock
  BY <1>6 DEF Notice, page
<1>7. ASSUME \/ Feed
             \/ \E d \in Conns : Handler(d) \/ GetMessageRaises(d)
             \/ UNCHANGED vars
      PROVE  link' = link /\ sock' = sock
  BY <1>7 DEF Feed, StoreCaption, PublishCaption, EndSession, KillSwitch, Handler, Lookup,
         Validate, TryAcquire, Accept, AcceptRaises, Scrollback, ScrollbackRaises, Escape,
         Subscribe, Segment, Killed, LoopEnds, GetMessageRaises, Finally, Unsubscribe, page, vars
<1>8. CASE \E k \in Clients, d \in Conns : Page(k, d)
  BY <1>1, <1>2, <1>3, <1>4, <1>5, <1>8 DEF Page
<1> QED BY <1>1, <1>2, <1>6, <1>7, <1>8 DEF Next

\* The kill-switch overtakes nothing and nothing overtakes or loses it: once it
\* is in a connection's inbox only the captions before it stand between the
\* handler and its end, and each message read brings it nearer.
THEOREM KillComesNearer == Spec => [][KillGetsNearer]_vars
<1>1. StreamInv /\ [Next]_vars => [KillGetsNearer]_vars
  BY KillStep DEF KillGetsNearer
<1> QED BY <1>1, StreamInvariant, PTL DEF Spec

\* A kill never lies in the inbox of a handler that will not come to read it
\* and has not finished either.
THEOREM KillIsRead == Spec => []KillFindsLoop
<1>1. ASSUME StreamInv PROVE KillFindsLoop
  <2> SUFFICES ASSUME NEW c \in Conns, NEW i \in DOMAIN inbox[c]
               PROVE  pc[c] = "loop" \/ PastLoop(c)
    BY DEF KillFindsLoop
  <2>1. inbox[c] # << >> /\ pc[c] \in Places
    BY <1>1 DEF StreamInv, SlotInv, HandlersOK
  <2> QED BY <1>1, <2>1 DEF StreamInv, ConnInv, Opening, Places, PastLoop
<1> QED BY <1>1, StreamInvariant, PTL

\* Handlers never go back a stage, so each ends after ten moves at most, and a
\* page that reconnects is served by another connection: a handler whose page is
\* gone is on its way to returning its slot, and to nothing else.
THEOREM HandlersGoOnward == Spec => [][OnlyOnward]_vars
<1>1. StreamInv /\ [Next]_vars => [OnlyOnward]_vars
  BY StageStep, LostStep DEF OnlyOnward
<1> QED BY <1>1, StreamInvariant, PTL DEF Spec

=============================================================================
