-------------------------- MODULE ListenerStream --------------------------
(***************************************************************************)
(* Listeners of one session and language: pages that open a WebSocket,     *)
(* lose it and reconnect with after_seq, and the handlers of those         *)
(* connections (ws/listener.py), each holding a slot of its address and    *)
(* one of the session (services/listener_connections.py).                  *)
(*                                                                         *)
(* The captions come as CaptionFeed promises: stored under growing         *)
(* numbers, the last stored one published.  The operator may end the       *)
(* session; the kill-switch follows the commit.  A step is what happens    *)
(* between two awaits.                                                     *)
(***************************************************************************)
EXTENDS Integers, Sequences, FiniteSets

CONSTANTS
  Clients,         \* listener pages
  IPs,             \* the addresses they come from
  NotEnabled,      \* pages that ask for a language the session lacks
  Address,         \* the address of each page
  Conns,           \* WebSocket connections, each opened at most once
  NoOne,           \* no page, no connection
  MaxPerIP,        \* LISTENER_MAX_CONNECTIONS_PER_IP
  MaxPerSession,   \* LISTENER_MAX_CONNECTIONS_PER_SESSION
  ScrollbackLimit, \* listener_scrollback_limit
  Faults,          \* what may fail: "db", "redis", "net"
  MaxCaptions      \* bound: captions stored

ASSUME AddressAssumption == Address \in [Clients -> IPs]
ASSUME ConnsAssumption == IsFiniteSet(Conns) /\ NoOne \notin Conns \cup Clients
ASSUME LimitsAssumption ==
  MaxPerIP \in Nat /\ MaxPerSession \in Nat /\ ScrollbackLimit \in Nat /\ MaxCaptions \in Nat
ASSUME FaultsAssumption == Faults \subseteq {"db", "redis", "net"} /\ NotEnabled \subseteq Clients

Captions == 1 .. MaxCaptions

VARIABLES
  stored,        \* the last caption stored; all before it are stored too
  carried,       \* the last caption published on the language's channel
  session,       \* "active", "ended" (committed), "killed" (and published)
  pc,            \* where each connection's handler is
  by,            \* the page that opened the connection
  link,          \* "up", "cut" or "noticed" by the server
  last,          \* last_seq of the handler, after_seq at first
  inbox,         \* what Redis has for the handler: captions, or the kill
  wire,          \* what the page has yet to read
  ipCount, sessionCount,   \* the tracker's counters
  gauge,         \* connected_listeners
  sock,          \* the page's current connection
  heard,         \* the captions the page has received, on all connections
  due            \* history: captions published while the handler subscribed

feed == <<stored, carried, session>>
tracker == <<ipCount, sessionCount>>
page == <<sock, heard>>
vars == <<feed, pc, by, link, last, inbox, wire, tracker, gauge, page, due>>

TheKill == 0    \* {"type": "session_ended"} on the control channel

Init ==
  /\ stored = 0 /\ carried = 0 /\ session = "active"
  /\ pc = [c \in Conns |-> "new"]
  /\ by = [c \in Conns |-> NoOne]
  /\ link = [c \in Conns |-> "up"]
  /\ last = [c \in Conns |-> 0]
  /\ inbox = [c \in Conns |-> << >>]
  /\ wire = [c \in Conns |-> << >>]
  /\ ipCount = [a \in IPs |-> 0] /\ sessionCount = 0 /\ gauge = 0
  /\ sock = [k \in Clients |-> NoOne]
  /\ heard = [k \in Clients |-> << >>]
  /\ due = [c \in Conns |-> {}]

Goto(c, place) == pc' = [pc EXCEPT ![c] = place]

Subscribed(c) == pc[c] \in {"loop", "finally", "unsubscribe"}

\* Redis hands a message to every subscribed connection.
Deliver(m) == inbox' = [c \in Conns |-> IF Subscribed(c) THEN Append(inbox[c], m) ELSE inbox[c]]

-----------------------------------------------------------------------------
(* The fanout and the operator.                                            *)

StoreCaption ==
  /\ stored < MaxCaptions
  /\ stored' = stored + 1
  /\ UNCHANGED <<carried, session, pc, by, link, last, inbox, wire, tracker, gauge, page, due>>

\* The fanout stores the next caption only after it published this one or
\* failed to.
PublishCaption ==
  /\ carried < stored
  /\ carried' = stored
  /\ Deliver(stored)
  /\ due' = [c \in Conns |-> IF Subscribed(c) THEN due[c] \cup {stored} ELSE due[c]]
  /\ UNCHANGED <<stored, session, pc, by, link, last, wire, tracker, gauge, page>>

EndSession ==
  /\ session = "active"
  /\ session' = "ended"
  /\ UNCHANGED <<stored, carried, pc, by, link, last, inbox, wire, tracker, gauge, page, due>>

KillSwitch ==
  /\ session = "ended"
  /\ session' = "killed"
  /\ Deliver(TheKill) \/ ("redis" \in Faults /\ UNCHANGED inbox)
  /\ UNCHANGED <<stored, carried, pc, by, link, last, wire, tracker, gauge, page, due>>

-----------------------------------------------------------------------------
(* The page.                                                               *)

\* lastSeqRef: the largest sequence received, 0 before any.
Cursor(k) == CHOOSE n \in 0 .. MaxCaptions :
  /\ n = 0 \/ \E i \in DOMAIN heard[k] : heard[k][i] = n
  /\ \A i \in DOMAIN heard[k] : heard[k][i] <= n

\* after_seq, the cursor the page sends.
AfterSeq(k) == Cursor(k)

Open(c, k) ==
  /\ sock[k] = NoOne /\ pc[c] = "new"
  /\ sock' = [sock EXCEPT ![k] = c]
  /\ by' = [by EXCEPT ![c] = k]
  /\ last' = [last EXCEPT ![c] = AfterSeq(k)]
  /\ Goto(c, "lookup")
  /\ UNCHANGED <<feed, link, inbox, wire, tracker, gauge, heard, due>>

Receive(k, c) ==
  /\ sock[k] = c /\ wire[c] # << >>
  /\ heard' = [heard EXCEPT ![k] = heard[k] \o Head(wire[c])]
  /\ wire' = [wire EXCEPT ![c] = Tail(wire[c])]
  /\ UNCHANGED <<feed, pc, by, link, last, inbox, tracker, gauge, sock, due>>

\* The page is closed or loses the connection; what it has not read is lost.
Cut(k, c) ==
  /\ sock[k] = c /\ pc[c] # "closed" /\ "net" \in Faults
  /\ sock' = [sock EXCEPT ![k] = NoOne]
  /\ link' = [link EXCEPT ![c] = "cut"]
  /\ wire' = [wire EXCEPT ![c] = << >>]
  /\ UNCHANGED <<feed, pc, by, last, inbox, tracker, gauge, heard, due>>

\* onclose after the server closed the connection.
OnClose(k, c) ==
  /\ sock[k] = c /\ pc[c] = "closed" /\ wire[c] = << >>
  /\ sock' = [sock EXCEPT ![k] = NoOne]
  /\ UNCHANGED <<feed, pc, by, link, last, inbox, wire, tracker, gauge, heard, due>>

\* The server learns of a cut: a close frame, or its keepalive ping times out.
Notice(c) ==
  /\ link[c] = "cut"
  /\ link' = [link EXCEPT ![c] = "noticed"]
  /\ UNCHANGED <<feed, pc, by, last, inbox, wire, tracker, gauge, page, due>>

-----------------------------------------------------------------------------
(* The handler before it holds a slot.                                     *)

Lookup(c) ==
  /\ pc[c] = "lookup"
  /\ \/ session = "active" /\ Goto(c, "validate")
     \/ (session # "active" \/ "db" \in Faults) /\ Goto(c, "closed")
  /\ UNCHANGED <<feed, by, link, last, inbox, wire, tracker, gauge, page, due>>

Validate(c) ==
  /\ pc[c] = "validate"
  /\ \/ by[c] \notin NotEnabled /\ Goto(c, "acquire")
     \/ (by[c] \in NotEnabled \/ "db" \in Faults) /\ Goto(c, "closed")
  /\ UNCHANGED <<feed, by, link, last, inbox, wire, tracker, gauge, page, due>>

\* The first entry of X-Forwarded-For, or the peer: what the proxy forwards is
\* trusted, and a page is taken to keep it over its connections.
IPOf(c) == Address[by[c]]

\* Mutant: off by one at the session's cap.
RoomForOneMore(c) == ipCount[IPOf(c)] < MaxPerIP /\ sessionCount <= MaxPerSession

Room(c) == ipCount[IPOf(c)] < MaxPerIP /\ sessionCount < MaxPerSession


TryAcquire(c) ==
  /\ pc[c] = "acquire"
  /\ IF Room(c)
     THEN /\ Goto(c, "accept")
          /\ ipCount' = [ipCount EXCEPT ![IPOf(c)] = @ + 1]
          /\ sessionCount' = sessionCount + 1
     ELSE Goto(c, "closed") /\ UNCHANGED tracker
  /\ UNCHANGED <<feed, by, link, last, inbox, wire, gauge, page, due>>

-----------------------------------------------------------------------------
(* The handler while it holds a slot.                                      *)

\* Mutant: the slot of the session is kept.
ReleaseAddressOnly(c) ==
  /\ ipCount' = [ipCount EXCEPT ![IPOf(c)] = IF @ <= 1 THEN 0 ELSE @ - 1]
  /\ UNCHANGED sessionCount

\* ListenerConnectionTracker.release, on every way out of `async with track`.
ReleaseSlot(c) ==
  /\ ipCount' = [ipCount EXCEPT ![IPOf(c)] = IF @ <= 1 THEN 0 ELSE @ - 1]
  /\ sessionCount' = IF sessionCount <= 1 THEN 0 ELSE sessionCount - 1

\* A send to a page that is gone may raise.
MayRaise(c) == link[c] # "up"

\* Mutant: an outer `finally` lowers the gauge on every way out.
EscapeLowersGauge(c) ==
  /\ Goto(c, "closed")
  /\ ReleaseSlot(c)
  /\ gauge' = gauge - 1
  /\ UNCHANGED <<feed, by, link, last, inbox, wire, page, due>>

\* An exception between the acquire and the `try`: out of the handler at once.
Escape(c) ==
  /\ Goto(c, "closed")
  /\ ReleaseSlot(c)
  /\ UNCHANGED <<feed, by, link, last, inbox, wire, gauge, page, due>>

Accept(c) ==
  /\ pc[c] = "accept"
  /\ Goto(c, "scrollback")
  /\ gauge' = gauge + 1
  /\ UNCHANGED <<feed, by, link, last, inbox, wire, tracker, page, due>>

AcceptRaises(c) == pc[c] = "accept" /\ MayRaise(c) /\ Escape(c)

\* What the page reads next.
Send(c, batch) == wire' = IF link[c] = "up" THEN [wire EXCEPT ![c] = Append(@, batch)] ELSE wire

\* _fetch_scrollback: the newest stored captions after last_seq, oldest first.
Newest(after) ==
  LET first == IF stored - after > ScrollbackLimit THEN stored - ScrollbackLimit ELSE after
  IN  [i \in 1 .. (IF stored > first THEN stored - first ELSE 0) |-> first + i]

\* Mutant: last_seq stays at after_seq.
LastKept(c) == last[c]

LastAfterScrollback(c) == IF stored > last[c] /\ ScrollbackLimit > 0 THEN stored ELSE last[c]

\* The query and the send of what it returned; nothing else is read between.
Scrollback(c) ==
  /\ pc[c] = "scrollback"
  /\ Goto(c, "subscribe")
  /\ Send(c, Newest(last[c]))
  /\ last' = [last EXCEPT ![c] = LastAfterScrollback(c)]
  /\ UNCHANGED <<feed, by, link, inbox, tracker, gauge, page, due>>

ScrollbackRaises(c) ==
  pc[c] = "scrollback" /\ (MayRaise(c) \/ "db" \in Faults) /\ Escape(c)

Subscribe(c) ==
  /\ pc[c] = "subscribe"
  /\ Goto(c, "loop") \/ ("redis" \in Faults /\ Goto(c, "finally"))
  /\ UNCHANGED <<feed, by, link, last, inbox, wire, tracker, gauge, page, due>>

-----------------------------------------------------------------------------
(* The loop: get_message, then what it returned.  A time-out sends a       *)
(* heartbeat, which changes nothing here.                                  *)

HasMessage(c) == pc[c] = "loop" /\ link[c] # "noticed" /\ inbox[c] # << >>

\* Mutant: off by one against last_seq.
FreshAfterNext(c) == Head(inbox[c]) > last[c] + 1

Fresh(c) == Head(inbox[c]) > last[c]

Segment(c) ==
  /\ HasMessage(c) /\ Head(inbox[c]) # TheKill
  /\ inbox' = [inbox EXCEPT ![c] = Tail(@)]
  /\ IF Fresh(c)
     THEN Send(c, <<Head(inbox[c])>>) /\ last' = [last EXCEPT ![c] = Head(inbox[c])]
     ELSE UNCHANGED <<wire, last>>
  /\ UNCHANGED <<feed, pc, by, link, tracker, gauge, page, due>>

\* Mutant: the control message is skipped like an unknown one.
KillIgnored(c) ==
  /\ HasMessage(c) /\ Head(inbox[c]) = TheKill
  /\ inbox' = [inbox EXCEPT ![c] = Tail(@)]
  /\ UNCHANGED <<feed, pc, by, link, last, wire, tracker, gauge, page, due>>

\* session_ended and the close go to the page; the loop ends.
Killed(c) ==
  /\ HasMessage(c) /\ Head(inbox[c]) = TheKill
  /\ inbox' = [inbox EXCEPT ![c] = Tail(@)]
  /\ Goto(c, "finally")
  /\ UNCHANGED <<feed, by, link, last, wire, tracker, gauge, page, due>>

\* Mutant: nobody watches for the page's disconnect.
LoopEndsOnErrorOnly(c) ==
  /\ pc[c] = "loop"
  /\ inbox[c] # << >> /\ MayRaise(c)
  /\ Goto(c, "finally")
  /\ UNCHANGED <<feed, by, link, last, inbox, wire, tracker, gauge, page, due>>

\* recv_task.done() is looked at after every get_message; a send to a page that
\* is gone may raise.
LoopEnds(c) ==
  /\ pc[c] = "loop"
  /\ \/ link[c] = "noticed"
     \/ inbox[c] # << >> /\ MayRaise(c)
  /\ Goto(c, "finally")
  /\ UNCHANGED <<feed, by, link, last, inbox, wire, tracker, gauge, page, due>>

GetMessageRaises(c) ==
  /\ pc[c] = "loop" /\ "redis" \in Faults
  /\ Goto(c, "finally")
  /\ UNCHANGED <<feed, by, link, last, inbox, wire, tracker, gauge, page, due>>

\* The gauge goes down before the first await of the cleanup.
Finally(c) ==
  /\ pc[c] = "finally"
  /\ gauge' = gauge - 1
  /\ Goto(c, "unsubscribe")
  /\ UNCHANGED <<feed, by, link, last, inbox, wire, tracker, page, due>>

\* An unsubscribe that raises leaves through the tracker, too.
Unsubscribe(c) ==
  /\ pc[c] = "unsubscribe"
  /\ Goto(c, "closed")
  /\ ReleaseSlot(c)
  /\ UNCHANGED <<feed, by, link, last, inbox, wire, gauge, page, due>>

-----------------------------------------------------------------------------

Feed == StoreCaption \/ PublishCaption \/ EndSession \/ KillSwitch

Page(k, c) == Open(c, k) \/ Receive(k, c) \/ Cut(k, c) \/ OnClose(k, c)

Handler(c) ==
  \/ Lookup(c) \/ Validate(c) \/ TryAcquire(c)
  \/ Accept(c) \/ AcceptRaises(c) \/ Scrollback(c) \/ ScrollbackRaises(c)
  \/ Subscribe(c) \/ Segment(c) \/ Killed(c) \/ LoopEnds(c)
  \/ Finally(c) \/ Unsubscribe(c)

Next ==
  \/ Feed
  \/ \E k \in Clients, c \in Conns : Page(k, c)
  \/ \E c \in Conns : Notice(c) \/ Handler(c) \/ GetMessageRaises(c)

\* The event loop runs what is ready; queries, Redis calls and the WebSocket
\* keepalive end; KillSwitch is the request that committed going on.
Fairness ==
  /\ WF_vars(KillSwitch)
  /\ \A c \in Conns : WF_vars(Notice(c)) /\ WF_vars(Handler(c))

Spec == Init /\ [][Next]_vars
FairSpec == Spec /\ Fairness

-----------------------------------------------------------------------------
(* Properties.                                                             *)

Places == {"new", "lookup", "validate", "acquire", "accept", "scrollback", "subscribe",
           "loop", "finally", "unsubscribe", "closed"}

HoldsSlot(c) ==
  pc[c] \in {"accept", "scrollback", "subscribe", "loop", "finally", "unsubscribe"}

Holders == {c \in Conns : HoldsSlot(c)}
HoldersAt(a) == {c \in Holders : IPOf(c) = a}

TypeOK ==
  /\ stored \in 0 .. MaxCaptions /\ carried \in 0 .. stored
  /\ session \in {"active", "ended", "killed"}
  /\ pc \in [Conns -> Places]
  /\ by \in [Conns -> Clients \cup {NoOne}]
  /\ \A c \in Conns : by[c] = NoOne <=> pc[c] = "new"
  /\ link \in [Conns -> {"up", "cut", "noticed"}]
  /\ last \in [Conns -> 0 .. MaxCaptions]
  /\ inbox \in [Conns -> Seq(Captions \cup {TheKill})]
  /\ wire \in [Conns -> Seq(Seq(Captions))]
  /\ ipCount \in [IPs -> Nat] /\ sessionCount \in Nat
  /\ gauge \in Nat
  /\ sock \in [Clients -> Conns \cup {NoOne}]
  /\ heard \in [Clients -> Seq(Captions)]
  /\ due \in [Conns -> SUBSET Captions]

\* The tracker counts exactly the handlers that hold a slot, whichever way they
\* leave: no slot leaks to starve an address, none is given back twice.
SlotsCounted ==
  /\ sessionCount = Cardinality(Holders)
  /\ \A a \in IPs : ipCount[a] = Cardinality(HoldersAt(a))

\* listener.py:16-19: the caps hold for the handlers themselves.
CapsHold ==
  /\ Cardinality(Holders) <= MaxPerSession
  /\ \A a \in IPs : Cardinality(HoldersAt(a)) <= MaxPerIP

\* listener.py:20-22: over all its connections a page receives captions in
\* order and none twice; what scrollback and stream both hold comes once.
HeardOnceInOrder ==
  \A k \in Clients : \A i, j \in DOMAIN heard[k] : i < j => heard[k][i] < heard[k][j]

Sent(c) == UNION {{wire[c][i][j] : j \in DOMAIN wire[c][i]} : i \in DOMAIN wire[c]}
HeardBy(k) == {heard[k][i] : i \in DOMAIN heard[k]}

\* What is published while a connection is subscribed is never dropped by the
\* comparison with last_seq: it waits in Redis, is on the wire or was received.
DueIsDelivered ==
  \A c \in Conns : pc[c] = "loop" /\ link[c] = "up" =>
    due[c] \subseteq {inbox[c][i] : i \in DOMAIN inbox[c]} \cup Sent(c) \cup HeardBy(by[c])

\* listener.py:27-29: a connection that has subscribed when the kill-switch is
\* published is closed, whatever captions are ahead of it.  (One that has looked
\* the session up but not subscribed misses it and stays.)
KillCloses ==
  \A c \in Conns :
    (\E i \in DOMAIN inbox[c] : inbox[c][i] = TheKill) ~> pc[c] = "closed"

\* A page that is gone does not keep its slot, wherever its handler was.
GoneReleases == \A c \in Conns : link[c] = "cut" ~> pc[c] = "closed"

\* metrics.py:37: the gauge counts every open connection.  (It may count more:
\* a handler that escapes after Accept leaves its increment behind.)
GaugeCountsOpen ==
  gauge >= Cardinality({c \in Conns : pc[c] \in {"scrollback", "subscribe", "loop", "finally"}})

\* listener.py:20-22: a page that has received a caption has every earlier one
\* since its first.
Seamless ==
  \A k \in Clients : \A i \in DOMAIN heard[k] :
    i > 1 => heard[k][i] = heard[k][i - 1] + 1
=============================================================================
