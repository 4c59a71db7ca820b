------------------------ MODULE OperatorIngest_proofs ------------------------
(***************************************************************************)
(* Proofs about OperatorIngest, for every set of connections, assignment   *)
(* of endpoints to them and value of the bounds.                           *)
(*                                                                         *)
(* The lock: the place of a handler determines what its drain and its task *)
(* can still do, so a release belongs to the handler that holds the slot   *)
(* and nobody produces without it.  The tail: the sentinel is behind every *)
(* chunk of its queue.  The way out: what a leaving handler has left       *)
(* shrinks with every step, unless its drain is wedged, which is for good. *)
(***************************************************************************)
EXTENDS OperatorIngest, TLAPS

Items == {"chunk", "end"}

\* enqueue_chunk keeps the queue within its bound.
LEMMA EnqueueType ==
  ASSUME NEW q \in Seq(Items), Len(q) <= QueueMax, NEW x \in Items
  PROVE  Enqueue(q, x) \in Seq(Items) /\ Len(Enqueue(q, x)) <= QueueMax
<1> USE QueueAssumption
<1>1. CASE Len(q) < QueueMax
  BY <1>1 DEF Enqueue
<1>2. CASE ~ (Len(q) < QueueMax)
  <2>1. q # << >> /\ Len(q) = QueueMax
    BY <1>2
  <2>2. Tail(q) \in Seq(Items) /\ Len(Tail(q)) = Len(q) - 1
    BY <2>1
  <2> QED BY <1>2, <2>1, <2>2 DEF Enqueue
<1> QED BY <1>1, <1>2

\* The types of the queues and of the chunk counters after an Enqueue.
LEMMA EnqueueStep ==
  ASSUME TypeOK, NEW c \in Conns, sent[c] < MaxChunks,
         queue' = [queue EXCEPT ![c] = Enqueue(@, "chunk")],
         sent' = [sent EXCEPT ![c] = @ + 1]
  PROVE  /\ queue' \in [Conns -> Seq(Items)]
         /\ \A d \in Conns : Len(queue'[d]) <= QueueMax
         /\ sent' \in [Conns -> 0 .. MaxChunks]
<1>1. Enqueue(queue[c], "chunk") \in Seq(Items) /\ Len(Enqueue(queue[c], "chunk")) <= QueueMax
  BY EnqueueType DEF TypeOK, Items
<1>2. sent[c] + 1 \in 0 .. MaxChunks
  BY BoundAssumption DEF TypeOK
<1> QED BY <1>1, <1>2 DEF TypeOK, Items

\* Taking the head of a queue.
LEMMA TailStep ==
  ASSUME TypeOK, NEW c \in Conns, queue[c] # << >>,
         queue' = [queue EXCEPT ![c] = Tail(@)]
  PROVE  /\ queue' \in [Conns -> Seq(Items)]
         /\ \A d \in Conns : Len(queue'[d]) <= QueueMax
<1>1. queue[c] \in Seq(Items) /\ Len(queue[c]) <= QueueMax
  BY DEF TypeOK, Items
<1>2. Tail(queue[c]) \in Seq(Items) /\ Len(Tail(queue[c])) <= QueueMax
  BY <1>1, QueueAssumption
<1> QED BY <1>2 DEF TypeOK, Items

-----------------------------------------------------------------------------
(* Type correctness.                                                       *)

LEMMA OneIsACloser == 1 \in Closers
BY BoundAssumption DEF Closers

LEMMA FirstDrainPuts ==
  ASSUME TypeOK, NEW c \in Conns, drain' = [drain EXCEPT ![c][1] = "putting"]
  PROVE  drain' \in [Conns -> [Closers -> {"off", "putting", "waiting", "done", "raised"}]]
<1>1. \A k \in Closers :
        [drain EXCEPT ![c][k] = "putting"]
          \in [Conns -> [Closers -> {"off", "putting", "waiting", "done", "raised"}]]
  BY DEF TypeOK
<1> QED BY <1>1, OneIsACloser

LEMMA InitType == Init => TypeOK
<1> SUFFICES ASSUME Init PROVE TypeOK
  OBVIOUS
<1>1. << >> \in Seq({"chunk", "end"}) /\ Len(<< >>) = 0
  OBVIOUS
<1>2. \A c \in Conns : Len(queue[c]) <= QueueMax
  <2> TAKE c \in Conns
  <2>1. queue[c] = << >>
    BY DEF Init
  <2>2. 0 <= QueueMax
    BY QueueAssumption
  <2> QED BY <1>1, <2>1, <2>2
<1>3. /\ queue \in [Conns -> Seq({"chunk", "end"})]
      /\ sent \in [Conns -> 0 .. MaxChunks]
  BY <1>1, BoundAssumption DEF Init
<1>4. /\ drain \in [Conns -> [Closers -> {"off", "putting", "waiting", "done", "raised"}]]
      /\ conn \in [Conns -> ConnStates]
  BY DEF Init, ConnStates
<1> QED BY <1>2, <1>3, <1>4 DEF Init, TypeOK

\* One step of a handler, of the client, of a task, of a drain.
LEMMA HandlerType ==
  ASSUME TypeOK, NEW c \in Conns, Handler(c)
  PROVE  TypeOK'
<1> USE DEF TypeOK
<1>1. CASE AcquireOperatorLock(c)
  BY <1>1 DEF AcquireOperatorLock, ConnStates, Holding
<1>2. CASE AcceptFails(c)
  BY <1>2 DEF AcceptFails, ConnStates, Holding
<1>3. CASE Arm(c)
  BY <1>3 DEF Arm, ConnStates, Holding, Live
<1>4. CASE Negotiate(c)
  BY <1>4 DEF Negotiate, ConnStates, Holding, Live
<1>5. CASE AnswerOffer(c)
  BY <1>5 DEF AnswerOffer, ConnStates, Holding
<1>6. CASE OfferFails(c)
  BY <1>6 DEF OfferFails, ConnStates
<1>7. CASE StopFanout(c)
  BY <1>7 DEF StopFanout, ConnStates, Holding
<1>8. CASE ReleaseOperatorLock(c)
  BY <1>8 DEF ReleaseOperatorLock, ConnStates
<1> QED
  BY <1>1, <1>2, <1>3, <1>4, <1>5, <1>6, <1>7, <1>8 DEF Handler

LEMMA TaskType ==
  ASSUME TypeOK, NEW c \in Conns, TranscriptionTask(c)
  PROVE  TypeOK'
<1>1. CASE TaskStarts(c)
  BY <1>1 DEF TypeOK, TaskStarts, Live, control
<1>2. CASE TakeChunk(c)
  <2>1. PICK t \in Live : task' = [task EXCEPT ![c] = t]
    BY <1>2 DEF TakeChunk, Live
  <2> QED BY <1>2, <2>1, TailStep DEF TypeOK, TakeChunk, Items, control
<1>3. CASE TakeEnd(c)
  <2>1. PICK t \in Live \cup {"returned"} : task' = [task EXCEPT ![c] = t]
    BY <1>3 DEF TakeEnd, Live
  <2> QED BY <1>3, <2>1, TailStep DEF TypeOK, TakeEnd, Items, control
<1>4. CASE CallReturns(c)
  BY <1>4 DEF TypeOK, CallReturns, Live, control
<1>5. CASE CallFails(c)
  BY <1>5 DEF TypeOK, CallFails, Live, control
<1> QED BY <1>1, <1>2, <1>3, <1>4, <1>5 DEF TranscriptionTask

LEMMA ClientType ==
  ASSUME TypeOK, NEW c \in Conns, Client(c)
  PROVE  TypeOK'
<1>1. CASE Validate(c)
  BY <1>1 DEF TypeOK, Validate, ConnStates
<1>2. CASE ReceiveChunk(c)
  BY <1>2, EnqueueStep DEF TypeOK, ReceiveChunk, Items, control
<1>3. CASE Disconnect(c)
  <2>1. CASE Transport[c] = "audio"
    BY <1>3, <2>1, FirstDrainPuts DEF TypeOK, Disconnect, ConnStates, Holding
  <2>2. CASE Transport[c] # "audio"
    BY <1>3, <2>2 DEF TypeOK, Disconnect, ConnStates, Holding
  <2> QED BY <2>1, <2>2
<1>4. CASE TrackChunk(c)
  BY <1>4, EnqueueStep DEF TypeOK, TrackChunk, Items, control
<1>5. CASE TrackEnds(c)
  BY <1>5, EnqueueStep DEF TypeOK, TrackEnds, Items, control
<1>6. ASSUME NEW k \in Closers, ConnectionLost(c, k) PROVE TypeOK'
  BY <1>6 DEF TypeOK, ConnectionLost
<1> QED BY <1>1, <1>2, <1>3, <1>4, <1>5, <1>6 DEF Client

LEMMA DrainType ==
  ASSUME TypeOK, NEW c \in Conns, NEW k \in Closers, Drain(c, k)
  PROVE  TypeOK'
<1>1. CASE PutSentinel(c, k)
  <2>1. queue[c] \in Seq(Items) /\ Len(queue[c]) + 1 <= QueueMax
    BY <1>1, QueueAssumption DEF TypeOK, PutSentinel, Items
  <2>2. Append(queue[c], "end") \in Seq(Items) /\ Len(Append(queue[c], "end")) <= QueueMax
    BY <2>1 DEF Items
  <2> QED BY <1>1, <2>2 DEF TypeOK, PutSentinel, Items, control
<1>2. CASE TaskJoined(c, k)
  BY <1>2 DEF TypeOK, TaskJoined, ConnStates, Holding
<1>3. CASE DrainRaises(c, k)
  BY <1>3 DEF TypeOK, DrainRaises, ConnStates, Holding
<1> QED BY <1>1, <1>2, <1>3 DEF Drain

\* Type correctness: among others, no chunk queue outgrows CHUNK_QUEUE_MAXSIZE,
\* whatever the client sends and however the drain interleaves with it.
THEOREM TypeInvariant == Spec => []TypeOK
<1>1. TypeOK /\ [Next]_vars => TypeOK'
  <2> SUFFICES ASSUME TypeOK, [Next]_vars PROVE TypeOK'
    OBVIOUS
  <2>1. CASE StopSession
    BY <2>1 DEF TypeOK, StopSession
  <2>2. ASSUME NEW c \in Conns, Handler(c) \/ TranscriptionTask(c) \/ Client(c)
        PROVE TypeOK'
    BY <2>2, HandlerType, TaskType, ClientType
  <2>3. ASSUME NEW c \in Conns, NEW k \in Closers, Drain(c, k)
        PROVE TypeOK'
    BY <2>3, DrainType
  <2>4. CASE UNCHANGED vars
    BY <2>4 DEF TypeOK, vars
  <2> QED BY <2>1, <2>2, <2>3, <2>4 DEF Next
<1> QED BY <1>1, InitType, PTL DEF Spec

-----------------------------------------------------------------------------
(* The single-operator lock, when each connection runs its cleanup once.   *)

\* How one connection's handler, drain and task keep step: the task runs only
\* between the handler's start and the end of its drain, and the drain only
\* while the handler waits for it or, for WebRTC, has not been closed.
InStep(c) ==
  /\ conn[c] \in {"negotiating", "open", "aborted"} => Transport[c] = "webrtc"
  /\ conn[c] \in {"receiving", "stopping", "releasing"} => WebSocket(c)
  /\ conn[c] = "draining" => Transport[c] = "audio"
  /\ task[c] \in Live =>
       conn[c] \in {"receiving", "draining", "negotiating", "open", "aborted"}
  /\ Transport[c] = "transcript" => task[c] = "none"
  /\ drain[c][1] \in {"putting", "waiting"} =>
       conn[c] = IF Transport[c] = "webrtc" THEN "open" ELSE "draining"
  /\ drain[c][1] = "off" /\ conn[c] = "closed" => WebSocket(c)
  /\ conn[c] = "stranded" <=> Transport[c] = "webrtc" /\ drain[c][1] = "raised"
  /\ \A k \in Closers : k # 1 => drain[c][k] = "off"

\* The slot is a connection's own from its acquire to its release, and for good
\* once a WebRTC drain has raised.
Owns(c) == conn[c] \in Holding \cup {"stranded"}

LockInv ==
  /\ lock <=> \E c \in Conns : Owns(c)
  /\ \A c, d \in Conns : Owns(c) /\ Owns(d) => c = d
  /\ FanoutWhileIngesting

Inv == TypeOK /\ LockInv /\ \A c \in Conns : InStep(c)

\* A step of connection c leaves the others alone.
OnlyOf(c) ==
  \A d \in Conns \ {c} : conn'[d] = conn[d] /\ task'[d] = task[d] /\ drain'[d] = drain[d]

LEMMA OthersInStep ==
  ASSUME \A d \in Conns : InStep(d), NEW c \in Conns, OnlyOf(c), InStep(c)'
  PROVE  \A d \in Conns : InStep(d)'
<1> SUFFICES ASSUME NEW d \in Conns, d # c PROVE InStep(d)'
  OBVIOUS
<1> QED BY DEF OnlyOf, InStep, WebSocket

\* A step that acquires, keeps or gives up the lock as its connection does.
LEMMA LockKept ==
  ASSUME LockInv, NEW c \in Conns, OnlyOf(c), Owns(c)' <=> Owns(c), lock' = lock,
         fanout' \/ fanout' = fanout,
         conn'[c] \in {"receiving", "draining"} /\ WebSocket(c) =>
           fanout' \/ conn[c] \in {"receiving", "draining"}
  PROVE  LockInv'
BY DEF LockInv, FanoutWhileIngesting, Owns, OnlyOf, WebSocket

LEMMA LockTaken ==
  ASSUME LockInv, NEW c \in Conns, OnlyOf(c), ~lock, lock', fanout' = fanout,
         conn'[c] = "accepting"
  PROVE  LockInv'
BY DEF LockInv, FanoutWhileIngesting, Owns, OnlyOf, WebSocket, Holding

LEMMA LockGivenUp ==
  ASSUME LockInv, NEW c \in Conns, OnlyOf(c), Owns(c), ~Owns(c)', ~lock',
         fanout' = fanout
  PROVE  LockInv'
BY DEF LockInv, FanoutWhileIngesting, Owns, OnlyOf, WebSocket, Holding

LEMMA FanoutStopped ==
  ASSUME LockInv, NEW c \in Conns, OnlyOf(c), Owns(c), Owns(c)', lock' = lock,
         conn'[c] = "releasing"
  PROVE  LockInv'
BY DEF LockInv, FanoutWhileIngesting, Owns, OnlyOf, WebSocket, Holding

LEMMA HandlerInv ==
  ASSUME Inv, NEW c \in Conns, Handler(c)
  PROVE  LockInv' /\ \A d \in Conns : InStep(d)'
<1> USE DEF Inv
<1>1. CASE AcquireOperatorLock(c)
  <2>1. OnlyOf(c) /\ InStep(c)'
    BY <1>1 DEF TypeOK, AcquireOperatorLock, OnlyOf, InStep, WebSocket, Live
  <2>2. LockInv'
    <3>1. CASE lock
      <4>1. lock' = lock
        BY <1>1, <3>1 DEF TypeOK, AcquireOperatorLock
      <4> QED BY <1>1, <2>1, <3>1, <4>1, LockKept
            DEF TypeOK, AcquireOperatorLock, Owns, Holding
    <3>2. CASE ~lock
      BY <1>1, <2>1, <3>2, LockTaken DEF TypeOK, AcquireOperatorLock
    <3> QED BY <3>1, <3>2
  <2> QED BY <2>1, <2>2, OthersInStep
<1>2. CASE AcceptFails(c)
  <2>1. OnlyOf(c) /\ InStep(c)'
    BY <1>2 DEF TypeOK, AcceptFails, OnlyOf, InStep, WebSocket, Live
  <2>2. LockInv'
    BY <1>2, <2>1, LockKept DEF TypeOK, AcceptFails, Owns, Holding
  <2> QED BY <2>1, <2>2, OthersInStep
<1>3. CASE Arm(c)
  <2>1. OnlyOf(c) /\ InStep(c)'
    <3>1. conn'[c] = "receiving" /\ drain' = drain /\ conn[c] = "accepting"
      BY <1>3 DEF TypeOK, Arm
    <3>2. task'[c] = IF Transport[c] = "audio" THEN "starting" ELSE task[c]
      BY <1>3 DEF TypeOK, Arm
    <3>3. OnlyOf(c)
      BY <1>3 DEF TypeOK, Arm, OnlyOf
    <3> QED BY <1>3, <3>1, <3>2, <3>3 DEF Arm, InStep, WebSocket, Live
  <2>2. LockInv'
    BY <1>3, <2>1, LockKept DEF TypeOK, Arm, Owns, Holding
  <2> QED BY <2>1, <2>2, OthersInStep
<1>4. CASE Negotiate(c)
  <2>1. OnlyOf(c) /\ InStep(c)'
    BY <1>4 DEF TypeOK, Negotiate, OnlyOf, InStep, WebSocket, Live
  <2>2. LockInv'
    BY <1>4, <2>1, LockKept DEF TypeOK, Negotiate, Owns, Holding
  <2> QED BY <2>1, <2>2, OthersInStep
<1>5. CASE AnswerOffer(c)
  <2>1. OnlyOf(c) /\ InStep(c)'
    BY <1>5 DEF TypeOK, AnswerOffer, OnlyOf, InStep, WebSocket, Live
  <2>2. LockInv'
    BY <1>5, <2>1, LockKept DEF TypeOK, AnswerOffer, Owns, Holding
  <2> QED BY <2>1, <2>2, OthersInStep
<1>6. CASE OfferFails(c)
  <2>1. OnlyOf(c) /\ InStep(c)'
    BY <1>6 DEF TypeOK, OfferFails, OnlyOf, InStep, WebSocket, Live
  <2>2. LockInv'
    BY <1>6, <2>1, LockGivenUp DEF TypeOK, OfferFails, Owns, Holding
  <2> QED BY <2>1, <2>2, OthersInStep
<1>7. CASE StopFanout(c)
  <2>1. OnlyOf(c) /\ InStep(c)'
    <3>1. conn'[c] = "releasing" /\ drain' = drain /\ task' = task
      BY <1>7 DEF TypeOK, StopFanout
    <3>2. OnlyOf(c)
      BY <1>7 DEF TypeOK, StopFanout, OnlyOf
    <3> QED BY <1>7, <3>1, <3>2 DEF StopFanout, InStep, WebSocket, Live
  <2>2. LockInv'
    BY <1>7, <2>1, FanoutStopped DEF TypeOK, StopFanout, Owns, Holding
  <2> QED BY <2>1, <2>2, OthersInStep
<1>8. CASE ReleaseOperatorLock(c)
  <2>1. OnlyOf(c) /\ InStep(c)'
    <3>1. conn'[c] = "closed" /\ drain' = drain /\ task' = task
      BY <1>8 DEF TypeOK, ReleaseOperatorLock
    <3>2. OnlyOf(c)
      BY <1>8 DEF TypeOK, ReleaseOperatorLock, OnlyOf
    <3> QED BY <1>8, <3>1, <3>2 DEF ReleaseOperatorLock, InStep, WebSocket, Live
  <2>2. LockInv'
    BY <1>8, <2>1, LockGivenUp DEF TypeOK, ReleaseOperatorLock, Owns, Holding
  <2> QED BY <2>1, <2>2, OthersInStep
<1> QED
  BY <1>1, <1>2, <1>3, <1>4, <1>5, <1>6, <1>7, <1>8 DEF Handler

\* A step that moves nothing but one connection's task, queue or track.
LEMMA ControlKept ==
  ASSUME Inv, NEW c \in Conns, UNCHANGED <<control, drain>>,
         \A d \in Conns \ {c} : task'[d] = task[d],
         task'[c] \in Live => task[c] \in Live,
         task[c] = "none" => task'[c] = "none"
  PROVE  LockInv' /\ \A d \in Conns : InStep(d)'
<1>1. OnlyOf(c) /\ InStep(c)'
  BY DEF Inv, control, OnlyOf, InStep, WebSocket, Live
<1>2. LockInv'
  BY <1>1, LockKept DEF Inv, control, Owns
<1> QED BY <1>1, <1>2, OthersInStep DEF Inv

LEMMA TaskInv ==
  ASSUME Inv, NEW c \in Conns, TranscriptionTask(c)
  PROVE  LockInv' /\ \A d \in Conns : InStep(d)'
<1>1. /\ UNCHANGED <<control, drain>>
      /\ \A d \in Conns \ {c} : task'[d] = task[d]
  BY DEF TranscriptionTask, TaskStarts, TakeChunk, TakeEnd, CallReturns, CallFails, Inv, TypeOK
<1>2. task[c] \in Live
  BY DEF TranscriptionTask, TaskStarts, TakeChunk, TakeEnd, CallReturns, CallFails, Live
<1>3. task[c] # "none"
  BY <1>2 DEF Live
<1> QED BY <1>1, <1>2, <1>3, ControlKept

LEMMA ClientInv ==
  ASSUME Inv, OneCloseEach, NEW c \in Conns, Client(c)
  PROVE  LockInv' /\ \A d \in Conns : InStep(d)'
<1> USE DEF Inv
<1>1. CASE Validate(c)
  <2>1. OnlyOf(c) /\ InStep(c)'
    BY <1>1 DEF TypeOK, Validate, OnlyOf, InStep, WebSocket, Live
  <2>2. LockInv'
    BY <1>1, <2>1, LockKept DEF TypeOK, Validate, Owns, Holding
  <2> QED BY <2>1, <2>2, OthersInStep
<1>2. CASE ReceiveChunk(c)
  BY <1>2, ControlKept DEF ReceiveChunk
<1>3. CASE TrackChunk(c)
  BY <1>3, ControlKept DEF TrackChunk
<1>4. CASE TrackEnds(c)
  BY <1>4, ControlKept DEF TrackEnds
<1>5. CASE Disconnect(c)
  <2>1. conn[c] = "receiving" /\ task' = task /\ lock' = lock /\ fanout' = fanout /\ WebSocket(c)
    BY <1>5 DEF Disconnect, InStep
  <2>2. OnlyOf(c)
    BY <1>5 DEF TypeOK, Disconnect, OnlyOf
  <2>3. InStep(c)'
    <3>1. CASE Transport[c] = "audio"
      <4>1. conn'[c] = "draining" /\ \A k \in Closers : k # 1 => drain'[c][k] = drain[c][k]
        BY <1>5, <3>1 DEF TypeOK, Disconnect
      <4>2. drain'[c][1] = "putting"
        BY <1>5, <3>1, OneIsACloser DEF TypeOK, Disconnect
      <4> QED BY <2>1, <3>1, <4>1, <4>2 DEF InStep, WebSocket, Live
    <3>2. CASE Transport[c] # "audio"
      <4>1. conn'[c] = "stopping" /\ drain' = drain /\ Transport[c] = "transcript"
        BY <1>5, <2>1, <3>2 DEF TypeOK, Disconnect, WebSocket
      <4> QED BY <2>1, <3>2, <4>1 DEF InStep, WebSocket, Live
    <3> QED BY <3>1, <3>2
  <2>4. LockInv'
    BY <1>5, <2>1, <2>2, LockKept DEF TypeOK, Disconnect, Owns, Holding
  <2> QED BY <2>2, <2>3, <2>4, OthersInStep
<1>6. ASSUME NEW k \in Closers, ConnectionLost(c, k)
      PROVE  LockInv' /\ \A d \in Conns : InStep(d)'
  <2>1. k = 1
    BY <1>6 DEF OneCloseEach, ConnectionLost, WebSocket, Closers
  <2>2. /\ conn[c] = "open" /\ Transport[c] = "webrtc"
        /\ UNCHANGED <<conn, task, lock, fanout>>
    BY <1>6, <2>1 DEF ConnectionLost, InStep, WebSocket
  <2>3. drain'[c][1] = "putting" /\ \A j \in Closers : j # 1 => drain'[c][j] = drain[c][j]
    BY <1>6, <2>1 DEF TypeOK, ConnectionLost
  <2>4. OnlyOf(c)
    BY <1>6 DEF TypeOK, ConnectionLost, OnlyOf
  <2>5. InStep(c)'
    BY <2>2, <2>3 DEF InStep, WebSocket, Live
  <2>6. LockInv'
    BY <2>2, <2>4, LockKept DEF Owns
  <2> QED BY <2>4, <2>5, <2>6, OthersInStep
<1> QED BY <1>1, <1>2, <1>3, <1>4, <1>5, <1>6 DEF Client

LEMMA DrainInv ==
  ASSUME Inv, NEW c \in Conns, NEW k \in Closers, Drain(c, k)
  PROVE  LockInv' /\ \A d \in Conns : InStep(d)'
<1> USE DEF Inv
<1>1. k = 1 /\ drain[c][1] \in {"putting", "waiting"}
  BY DEF Drain, PutSentinel, TaskJoined, DrainRaises, InStep
<1>2. conn[c] = IF Transport[c] = "webrtc" THEN "open" ELSE "draining"
  BY <1>1 DEF InStep
<1>3. \A j \in Closers : j # 1 => drain'[c][j] = drain[c][j]
  BY <1>1 DEF TypeOK, Drain, PutSentinel, TaskJoined, DrainRaises
<1>4. OnlyOf(c) /\ fanout' = fanout
  BY DEF TypeOK, Drain, PutSentinel, TaskJoined, DrainRaises, OnlyOf, control
<1>5. CASE PutSentinel(c, k)
  <2>1. drain'[c][1] = "waiting" /\ UNCHANGED <<conn, task, lock>>
    BY <1>1, <1>5 DEF TypeOK, PutSentinel, control
  <2>2. InStep(c)'
    BY <1>1, <1>3, <2>1 DEF InStep, WebSocket, Live
  <2>3. LockInv'
    BY <1>4, <2>1, LockKept DEF Owns
  <2> QED BY <1>4, <2>2, <2>3, OthersInStep
<1>6. CASE TaskJoined(c, k)
  <2>1. drain'[c][1] = "done" /\ task' = task /\ task[c] = "returned"
    BY <1>1, <1>6 DEF TypeOK, TaskJoined
  <2>2. CASE Transport[c] = "webrtc"
    <3>1. conn'[c] = "closed" /\ ~lock'
      BY <1>6, <2>2 DEF TypeOK, TaskJoined
    <3>2. InStep(c)'
      BY <1>3, <2>1, <2>2, <3>1 DEF InStep, WebSocket, Live
    <3>3. LockInv'
      BY <1>2, <1>4, <2>2, <3>1, LockGivenUp DEF Owns, Holding
    <3> QED BY <1>4, <3>2, <3>3, OthersInStep
  <2>3. CASE Transport[c] # "webrtc"
    <3>1. conn'[c] = "stopping" /\ lock' = lock /\ WebSocket(c)
      BY <1>2, <1>6, <2>3 DEF TypeOK, TaskJoined, InStep, WebSocket
    <3>2. InStep(c)'
      BY <1>3, <2>1, <2>3, <3>1 DEF InStep, WebSocket, Live
    <3>3. LockInv'
      BY <1>2, <1>4, <2>3, <3>1, LockKept DEF Owns, Holding
    <3> QED BY <1>4, <3>2, <3>3, OthersInStep
  <2> QED BY <2>2, <2>3
<1>7. CASE DrainRaises(c, k)
  <2>1. /\ drain'[c][1] = "raised" /\ task'[c] = "cancelled" /\ lock' = lock
        /\ task[c] # "none"
    BY <1>1, <1>7 DEF TypeOK, DrainRaises, Live
  <2>2. conn'[c] = IF WebSocket(c) THEN "releasing" ELSE "stranded"
    BY <1>7 DEF TypeOK, DrainRaises
  <2>3. InStep(c)'
    BY <1>2, <1>3, <2>1, <2>2 DEF InStep, WebSocket, Live
  <2>4. LockInv'
    BY <1>2, <1>4, <2>1, <2>2, LockKept DEF Owns, Holding, WebSocket
  <2> QED BY <1>4, <2>3, <2>4, OthersInStep
<1> QED BY <1>5, <1>6, <1>7 DEF Drain

\* The inductive invariant of the lock: InStep ties the handler to its drain and
\* its task, without which a release could come while the task still runs.
THEOREM Inductive == ASSUME OneCloseEach PROVE Spec => []Inv
<1>1. Init => Inv
  <2> SUFFICES ASSUME Init PROVE Inv
    OBVIOUS
  <2>1. TypeOK
    BY InitType
  <2>2. LockInv
    BY DEF Init, LockInv, FanoutWhileIngesting, Owns, Holding
  <2>3. ASSUME NEW c \in Conns PROVE InStep(c)
    BY OneIsACloser DEF Init, InStep, Live
  <2> QED BY <2>1, <2>2, <2>3 DEF Inv
<1>2. Inv /\ TypeOK' /\ [Next]_vars => Inv'
  <2> SUFFICES ASSUME Inv, [Next]_vars PROVE LockInv' /\ \A d \in Conns : InStep(d)'
    BY DEF Inv
  <2>1. ASSUME NEW c \in Conns, Handler(c) \/ TranscriptionTask(c) \/ Client(c)
        PROVE LockInv' /\ \A d \in Conns : InStep(d)'
    BY <2>1, HandlerInv, TaskInv, ClientInv
  <2>2. ASSUME NEW c \in Conns, NEW k \in Closers, Drain(c, k)
        PROVE LockInv' /\ \A d \in Conns : InStep(d)'
    BY <2>2, DrainInv
  <2>3. CASE StopSession \/ UNCHANGED vars
    <3>1. UNCHANGED <<lock, fanout, conn, drain, task>>
      BY <2>3 DEF StopSession, vars
    <3> QED BY <3>1 DEF Inv, LockInv, 
              FanoutWhileIngesting, Owns, InStep, WebSocket
  <2> QED BY <2>1, <2>2, <2>3 DEF Next
<1> QED BY <1>1, <1>2, TypeInvariant, PTL DEF Spec

\* One operator at a time: however attempts over the three endpoints, failures
\* and clean-ups interleave, at most one is between acquire and release.
THEOREM SingleOperator == ASSUME OneCloseEach PROVE Spec => []MutualExclusion
<1>1. Inv => MutualExclusion
  BY DEF Inv, LockInv, MutualExclusion, Holds, Owns
<1> QED BY <1>1, Inductive, PTL

\* The slot in _active_operators is set exactly while a handler is between its
\* acquire and its release or a WebRTC drain has raised: it is never popped under
\* a connected operator, and no failed accept, no failed offer and no drain of a
\* WebSocket leaves it set with nobody to pop it.
THEOREM SlotIffHeld == ASSUME OneCloseEach PROVE Spec => []LockIffHeld
<1>1. Inv => LockIffHeld
  <2> SUFFICES ASSUME Inv PROVE LockIffHeld
    OBVIOUS
  <2>1. ASSUME NEW c \in Conns PROVE ReleaseSkipped(c) <=> conn[c] = "stranded"
    <3>1. (\E k \in Closers : drain[c][k] = "raised") <=> drain[c][1] = "raised"
      BY OneIsACloser DEF Inv, InStep
    <3> QED BY <3>1 DEF Inv, InStep, ReleaseSkipped
  <2> QED BY <2>1 DEF Inv, LockInv, LockIffHeld, Owns, Holds
<1> QED BY <1>1, Inductive, PTL

\* Captions from one connection at a time: no transcription task outlives the
\* slot of its operator.
THEOREM OneProducer == ASSUME OneCloseEach PROVE Spec => []SingleProducer
<1>1. Inv => SingleProducer
  <2> SUFFICES ASSUME Inv PROVE SingleProducer
    OBVIOUS
  <2>1. ASSUME NEW c \in Conns, Producing(c) PROVE Holds(c)
    BY <2>1 DEF Inv, InStep, Producing, Holds, Holding
  <2> QED BY <2>1 DEF Inv, LockInv, Holds, Owns, SingleProducer
<1> QED BY <1>1, Inductive, PTL

\* A WebSocket operator's segments have a fanout to go to, however the stops and
\* starts of successive connections interleave.
THEOREM FanoutStaysArmed == ASSUME OneCloseEach PROVE Spec => []FanoutWhileIngesting
<1>1. Inv => FanoutWhileIngesting
  BY DEF Inv, LockInv
<1> QED BY <1>1, Inductive, PTL

-----------------------------------------------------------------------------
(* The tail of an audio stream, whatever the other endpoints do.           *)

\* How an audio connection's queue, drain and task keep step: the sentinel is
\* put once, after the last chunk, so the task that takes it leaves nothing.
TailInStep(c) ==
  /\ ~track[c]
  /\ \A k \in Closers : k # 1 => drain[c][k] = "off"
  /\ conn[c] \notin {"negotiating", "open"}
  /\ drain[c][1] # "off" => conn[c] \in {"draining", "stopping", "releasing", "closed"}
  /\ drain[c][1] = "done" => task[c] = "returned"
  /\ task[c] \in {"flushing", "returned"} /\ ~failed[c] =>
       queue[c] = << >> /\ drain[c][1] \notin {"off", "putting"}
  /\ \A i \in 1 .. Len(queue[c]) : queue[c][i] = "end" =>
       i = Len(queue[c]) /\ drain[c][1] \notin {"off", "putting"}

TailInv == \A c \in Conns : Transport[c] = "audio" => TailInStep(c)

\* What the invariant reads of one connection.
state(c) == <<conn[c], drain[c], task[c], failed[c], queue[c], track[c]>>

LEMMA TailFrame ==
  ASSUME NEW c \in Conns, TailInStep(c), UNCHANGED state(c)
  PROVE  TailInStep(c)'
BY DEF TailInStep, state

\* A step of connection c is a step of no other.
LEMMA TailOthers ==
  ASSUME TailInv, NEW c \in Conns,
         \A d \in Conns \ {c} : UNCHANGED state(d),
         Transport[c] = "audio" => TailInStep(c)'
  PROVE  TailInv'
<1> SUFFICES ASSUME NEW d \in Conns, d # c, Transport[d] = "audio" PROVE TailInStep(d)'
  BY DEF TailInv
<1>1. TailInStep(d) /\ UNCHANGED state(d)
  BY DEF TailInv
<1> QED BY <1>1, TailFrame

\* A chunk behind chunks leaves no sentinel in the queue.
LEMMA EnqueueTail ==
  ASSUME NEW q \in Seq(Items), Len(q) <= QueueMax,
         \A i \in 1 .. Len(q) : q[i] # "end"
  PROVE  \A i \in 1 .. Len(Enqueue(q, "chunk")) : Enqueue(q, "chunk")[i] # "end"
<1> USE QueueAssumption
<1>1. CASE Len(q) < QueueMax
  BY <1>1 DEF Enqueue
<1>2. CASE ~ (Len(q) < QueueMax)
  <2>1. q # << >> /\ Len(q) = QueueMax
    BY <1>2
  <2>2. /\ Tail(q) \in Seq(Items) /\ Len(Tail(q)) = Len(q) - 1
        /\ \A i \in 1 .. Len(Tail(q)) : Tail(q)[i] = q[i + 1]
    BY <2>1
  <2>3. \A i \in 1 .. Len(Tail(q)) : Tail(q)[i] # "end"
    BY <2>1, <2>2
  <2> DEFINE t == Tail(q)
  <2>4. t \in Seq(Items) /\ \A i \in 1 .. Len(t) : t[i] # "end"
    BY <2>2, <2>3
  <2>5. Enqueue(q, "chunk") = Append(t, "chunk")
    BY <1>2 DEF Enqueue
  <2> HIDE DEF t
  <2>6. \A i \in 1 .. Len(Append(t, "chunk")) : Append(t, "chunk")[i] # "end"
    BY <2>4
  <2> QED BY <2>5, <2>6
<1> QED BY <1>1, <1>2

LEMMA TailHandler ==
  ASSUME TypeOK, TailInv, NEW c \in Conns, Handler(c)
  PROVE  TailInv'
<1>1. UNCHANGED <<drain, failed, queue>>
  BY DEF Handler, AcquireOperatorLock, AcceptFails, Arm, Negotiate, AnswerOffer,
         OfferFails, StopFanout, ReleaseOperatorLock
<1>2. \A d \in Conns \ {c} : UNCHANGED state(d)
  BY <1>1 DEF TypeOK, Handler, AcquireOperatorLock, AcceptFails, Arm, Negotiate,
         AnswerOffer, OfferFails, StopFanout, ReleaseOperatorLock, state
<1>3. ASSUME Transport[c] = "audio" PROVE TailInStep(c)'
  <2>1. TailInStep(c)
    BY <1>3 DEF TailInv
  <2>2. track' = track
    BY <1>3, <2>1 DEF Handler, AcquireOperatorLock, AcceptFails, Arm, Negotiate,
           AnswerOffer, OfferFails, StopFanout, ReleaseOperatorLock, TailInStep
  <2>3. CASE Arm(c)
    <3>1. conn[c] = "accepting" /\ conn'[c] = "receiving" /\ task'[c] = "starting"
      BY <1>3, <2>3 DEF TypeOK, Arm
    <3> QED BY <1>1, <2>1, <2>2, <3>1 DEF TailInStep
  <2>4. CASE ~Arm(c)
    <3>1. /\ task' = task /\ conn'[c] \notin {"negotiating", "open"}
          /\ conn[c] \in {"draining", "stopping", "releasing", "closed"}
               => conn'[c] \in {"draining", "stopping", "releasing", "closed"}
      BY <1>3, <2>1, <2>4 DEF TypeOK, Handler, AcquireOperatorLock, AcceptFails, Negotiate,
         AnswerOffer, OfferFails, StopFanout, ReleaseOperatorLock, TailInStep
    <3> QED BY <1>1, <2>1, <2>2, <3>1 DEF TailInStep
  <2> QED BY <2>3, <2>4
<1> QED BY <1>2, <1>3, TailOthers

LEMMA TailTask ==
  ASSUME TypeOK, TailInv, NEW c \in Conns, TranscriptionTask(c)
  PROVE  TailInv'
<1>1. UNCHANGED <<conn, drain, track>> /\ \A d \in Conns \ {c} : UNCHANGED state(d)
  BY DEF TypeOK, TranscriptionTask, TaskStarts, TakeChunk, TakeEnd, CallReturns,
         CallFails, control, state
<1>2. ASSUME Transport[c] = "audio" PROVE TailInStep(c)'
  <2>1. TailInStep(c) /\ queue[c] \in Seq(Items)
    BY <1>2 DEF TailInv, TypeOK, Items
  <2>2. CASE TaskStarts(c) \/ CallReturns(c) \/ CallFails(c)
    <3>1. /\ queue' = queue /\ task[c] # "returned"
          /\ task'[c] \in {"flushing", "returned"} /\ ~failed'[c] =>
               task[c] = "flushing" /\ ~failed[c]
      BY <2>2 DEF TypeOK, TaskStarts, CallReturns, CallFails
    <3> QED BY <1>1, <2>1, <3>1 DEF TailInStep
  <2>3. CASE TakeChunk(c) \/ TakeEnd(c)
    <3>1. /\ queue[c] # << >> /\ task[c] = "waiting" /\ failed' = failed
          /\ queue'[c] = Tail(queue[c])
      BY <2>3 DEF TypeOK, TakeChunk, TakeEnd
    <3>2. /\ queue'[c] \in Seq(Items) /\ Len(queue'[c]) = Len(queue[c]) - 1
          /\ \A i \in 1 .. Len(queue'[c]) : queue'[c][i] = queue[c][i + 1]
      BY <2>1, <3>1
    <3>3. ASSUME NEW i \in 1 .. Len(queue'[c]), queue'[c][i] = "end"
          PROVE  i = Len(queue'[c]) /\ drain[c][1] \notin {"off", "putting"}
      <4>1. i + 1 \in 1 .. Len(queue[c]) /\ queue[c][i + 1] = "end"
        BY <2>1, <3>2, <3>3
      <4> QED BY <2>1, <3>2, <4>1 DEF TailInStep
    <3>4. ASSUME task'[c] \in {"flushing", "returned"}
          PROVE  queue'[c] = << >> /\ drain[c][1] \notin {"off", "putting"}
      <4>1. Head(queue[c]) = "end"
        BY <2>3, <3>4 DEF TypeOK, TakeChunk, TakeEnd
      <4>2. 1 \in 1 .. Len(queue[c]) /\ queue[c][1] = "end"
        BY <2>1, <3>1, <4>1
      <4>3. Len(queue[c]) = 1 /\ drain[c][1] \notin {"off", "putting"}
        BY <2>1, <4>2 DEF TailInStep
      <4> QED BY <3>2, <4>3
    <3> QED BY <1>1, <2>1, <3>1, <3>3, <3>4 DEF TailInStep
  <2> QED BY <2>2, <2>3 DEF TranscriptionTask
<1> QED BY <1>1, <1>2, TailOthers

LEMMA TailClient ==
  ASSUME TypeOK, TailInv, NEW c \in Conns, Client(c)
  PROVE  TailInv'
<1>1. \A d \in Conns \ {c} : UNCHANGED state(d)
  BY DEF TypeOK, Client, Validate, ReceiveChunk, Disconnect, TrackChunk, TrackEnds,
         ConnectionLost, control, state
<1>2. ASSUME Transport[c] = "audio" PROVE TailInStep(c)'
  <2>1. TailInStep(c) /\ queue[c] \in Seq(Items) /\ Len(queue[c]) <= QueueMax
    BY <1>2 DEF TailInv, TypeOK, Items
  <2>2. CASE Validate(c)
    <3>1. /\ UNCHANGED <<drain, task, failed, queue, track>>
          /\ conn[c] = "idle" /\ conn'[c] \in {"validated", "refused"}
      BY <2>2 DEF TypeOK, Validate
    <3> QED BY <2>1, <3>1 DEF TailInStep
  <2>3. CASE ReceiveChunk(c)
    <3>1. /\ UNCHANGED <<conn, drain, task, failed, track>>
          /\ conn[c] = "receiving" /\ queue'[c] = Enqueue(queue[c], "chunk")
      BY <2>3 DEF TypeOK, ReceiveChunk, control
    <3>2. drain[c][1] = "off"
      BY <2>1, <3>1 DEF TailInStep
    <3>3. \A i \in 1 .. Len(queue'[c]) : queue'[c][i] # "end"
      BY <2>1, <3>1, <3>2, EnqueueTail DEF TailInStep
    <3> QED BY <2>1, <3>1, <3>2, <3>3 DEF TailInStep
  <2>4. CASE Disconnect(c)
    <3>1. /\ UNCHANGED <<task, failed, queue, track>>
          /\ conn[c] = "receiving" /\ conn'[c] = "draining"
          /\ \A k \in Closers : k # 1 => drain'[c][k] = drain[c][k]
      BY <1>2, <2>4 DEF TypeOK, Disconnect
    <3>2. drain'[c][1] = "putting" /\ drain[c][1] = "off"
      BY <1>2, <2>1, <2>4, <3>1, OneIsACloser DEF TypeOK, Disconnect, TailInStep
    <3> QED BY <2>1, <3>1, <3>2 DEF TailInStep
  <2> QED BY <1>2, <2>1, <2>2, <2>3, <2>4
        DEF Client, TrackChunk, TrackEnds, ConnectionLost, TailInStep
<1> QED BY <1>1, <1>2, TailOthers

LEMMA TailDrain ==
  ASSUME TypeOK, TailInv, NEW c \in Conns, NEW k \in Closers, Drain(c, k)
  PROVE  TailInv'
<1>1. UNCHANGED <<failed, track>> /\ \A d \in Conns \ {c} : UNCHANGED state(d)
  BY DEF TypeOK, Drain, PutSentinel, TaskJoined, DrainRaises, control, state
<1>2. ASSUME Transport[c] = "audio" PROVE TailInStep(c)'
  <2>1. TailInStep(c) /\ queue[c] \in Seq(Items)
    BY <1>2 DEF TailInv, TypeOK, Items
  <2>2. k = 1 /\ drain[c][1] # "off"
    BY <2>1 DEF Drain, PutSentinel, TaskJoined, DrainRaises, TailInStep
  <2>3. \A j \in Closers : j # 1 => drain'[c][j] = drain[c][j]
    BY <2>2 DEF TypeOK, Drain, PutSentinel, TaskJoined, DrainRaises
  <2>4. CASE PutSentinel(c, k)
    <3>1. /\ UNCHANGED <<conn, task>> /\ queue'[c] = Append(queue[c], "end")
          /\ drain[c][1] = "putting" /\ drain'[c][1] = "waiting"
      BY <2>2, <2>4 DEF TypeOK, PutSentinel, control
    <3>2. \A i \in 1 .. Len(queue'[c]) : queue'[c][i] = "end" => i = Len(queue'[c])
      BY <2>1, <3>1 DEF TailInStep
    <3> QED BY <1>1, <2>1, <2>3, <3>1, <3>2 DEF TailInStep
  <2>5. CASE TaskJoined(c, k)
    <3>1. /\ UNCHANGED <<task, queue>> /\ task[c] = "returned"
          /\ drain[c][1] = "waiting" /\ drain'[c][1] = "done" /\ conn'[c] = "stopping"
      BY <1>2, <2>2, <2>5 DEF TypeOK, TaskJoined
    <3> QED BY <1>1, <2>1, <2>3, <3>1 DEF TailInStep
  <2>6. CASE DrainRaises(c, k)
    <3>1. /\ queue' = queue /\ task'[c] = "cancelled"
          /\ drain[c][1] = "waiting" /\ drain'[c][1] = "raised" /\ conn'[c] = "releasing"
      BY <1>2, <2>2, <2>6 DEF TypeOK, DrainRaises, WebSocket
    <3> QED BY <1>1, <2>1, <2>3, <3>1 DEF TailInStep
  <2> QED BY <2>4, <2>5, <2>6 DEF Drain
<1> QED BY <1>1, <1>2, TailOthers

\* No chunk of an audio operator is lost behind the sentinel: once the drain has
\* succeeded and no API call killed the task, the queue it leaves is empty.
\* Nothing is assumed of the other connections, OneCloseEach included.
THEOREM TailIsTranscribed == Spec => []AudioTailTranscribed
<1>1. Init => TailInv
  BY OneIsACloser DEF Init, TailInv, TailInStep
<1>2. TailInv /\ TypeOK /\ [Next]_vars => TailInv'
  <2> SUFFICES ASSUME TailInv, TypeOK, [Next]_vars PROVE TailInv'
    OBVIOUS
  <2>1. ASSUME NEW c \in Conns, Handler(c) \/ TranscriptionTask(c) \/ Client(c)
        PROVE TailInv'
    BY <2>1, TailHandler, TailTask, TailClient
  <2>2. ASSUME NEW c \in Conns, NEW k \in Closers, Drain(c, k)
        PROVE TailInv'
    BY <2>2, TailDrain
  <2>3. CASE StopSession \/ UNCHANGED vars
    <3>1. \A c \in Conns : UNCHANGED state(c)
      BY <2>3 DEF StopSession, vars, state
    <3> QED BY <3>1, TailFrame DEF TailInv
  <2> QED BY <2>1, <2>2, <2>3 DEF Next
<1>3. TailInv => AudioTailTranscribed
  <2> SUFFICES ASSUME TailInv, NEW c \in Conns, Transport[c] = "audio",
                      NEW k \in Closers, drain[c][k] = "done", ~failed[c]
               PROVE  queue[c] = << >>
    BY DEF AudioTailTranscribed, TailTranscribed
  <2>1. k = 1 /\ TailInStep(c)
    BY DEF TailInv, TailInStep
  <2> QED BY <2>1 DEF TailInStep
<1> QED BY <1>1, <1>2, <1>3, TypeInvariant, PTL DEF Spec

-----------------------------------------------------------------------------
(* A WebSocket handler's way out, without fairness: what is left of it     *)
(* shrinks with every step, and only a full queue whose task has died      *)
(* stops it, for good.                                                     *)

Leaving(c) == WebSocket(c) /\ conn[c] \in {"draining", "stopping", "releasing"}

\* The steps a leaving handler has left at most: an item of its queue costs a
\* take and a call, the sentinel that has yet to be put as much and the put.
CallSteps(t) == IF t \in {"starting", "calling", "flushing"} THEN 1 ELSE 0
PutSteps(d) == IF d = "putting" THEN 3 ELSE 0
PlaceSteps(place) ==
  CASE place = "draining" -> 3 [] place = "stopping" -> 2 [] place = "releasing" -> 1 [] OTHER -> 0

StepsToGo(c) ==
  2 * Len(queue[c]) + CallSteps(task[c]) + PutSteps(drain[c][1]) + PlaceSteps(conn[c])

\* The guards of the steps that are its own, its task's and its drain's.
CanGoOn(c) ==
  \/ conn[c] \in {"stopping", "releasing"}
  \/ drain[c][1] = "waiting" /\ task[c] \in Live \cup {"returned"}
  \/ drain[c][1] = "putting" /\ Len(queue[c]) < QueueMax
  \/ task[c] \in {"starting", "calling", "flushing"}
  \/ task[c] = "waiting" /\ queue[c] # << >>

OnlyWedgedStops ==
  \A c \in Conns : Leaving(c) =>
    StepsToGo(c) \in 0 .. 2 * QueueMax + 7 /\ (CanGoOn(c) \/ Wedged(c))

LeavesStepByStep ==
  \A c \in Conns : Leaving(c) =>
    \/ UNCHANGED <<conn[c], drain[c], task[c], queue[c]>>
    \/ StepsToGo(c)' < StepsToGo(c) /\ (Leaving(c)' \/ conn'[c] = "closed")

\* How the task and the drain of a WebSocket keep step with its handler.
OutInStep(c) ==
  /\ ~track[c] /\ conn[c] \notin {"negotiating", "open", "aborted"}
  /\ \A k \in Closers : k # 1 => drain[c][k] = "off"
  /\ drain[c][1] \in {"putting", "waiting"} => conn[c] = "draining"
  /\ conn[c] = "draining" =>
       drain[c][1] \in {"putting", "waiting"} /\ task[c] \in Live \cup {"returned"}
  /\ conn[c] = "receiving" /\ Transport[c] = "audio" => task[c] \in Live \cup {"returned"}

OutInv == \A c \in Conns : WebSocket(c) => OutInStep(c)

WedgedStays == \A c \in Conns : Wedged(c) => Wedged(c)'
WedgedHoldsLock == \A c \in Conns : Wedged(c) => lock

LEMMA StepsRange ==
  /\ \A t : CallSteps(t) \in 0 .. 1 /\ \A d : PutSteps(d) \in {0, 3}
  /\ \A place : PlaceSteps(place) \in 0 .. 3
BY DEF CallSteps, PutSteps, PlaceSteps

GoesOut(c) ==
  Leaving(c) =>
    \/ UNCHANGED <<conn[c], drain[c], task[c], queue[c]>>
    \/ StepsToGo(c)' < StepsToGo(c) /\ (Leaving(c)' \/ conn'[c] = "closed")

\* A connection that takes no step.
LEMMA OutFrame ==
  ASSUME NEW c \in Conns, UNCHANGED state(c)
  PROVE  (OutInStep(c) => OutInStep(c)') /\ GoesOut(c)
BY DEF OutInStep, GoesOut, state

\* A step of connection c is a step of no other.
LEMMA OutOthers ==
  ASSUME OutInv, NEW c \in Conns, \A d \in Conns \ {c} : UNCHANGED state(d),
         WebSocket(c) => OutInStep(c)' /\ GoesOut(c)
  PROVE  OutInv' /\ LeavesStepByStep
<1>1. ASSUME NEW d \in Conns, WebSocket(d) PROVE OutInStep(d)' /\ GoesOut(d)
  <2>1. CASE d = c
    BY <1>1, <2>1
  <2>2. CASE d # c
    BY <1>1, <2>2, OutFrame DEF OutInv
  <2> QED BY <2>1, <2>2
<1> QED BY <1>1 DEF OutInv, LeavesStepByStep, GoesOut, Leaving, WebSocket

LEMMA OutHandler ==
  ASSUME TypeOK, OutInv, NEW c \in Conns, Handler(c)
  PROVE  OutInv' /\ LeavesStepByStep
<1>1. UNCHANGED <<drain, queue>> /\ \A d \in Conns \ {c} : UNCHANGED state(d)
  BY DEF TypeOK, Handler, AcquireOperatorLock, AcceptFails, Arm, Negotiate,
         AnswerOffer, OfferFails, StopFanout, ReleaseOperatorLock, state
<1>2. ASSUME WebSocket(c) PROVE OutInStep(c)' /\ GoesOut(c)
  <2>1. OutInStep(c) /\ Transport[c] # "webrtc"
    BY <1>2 DEF OutInv, WebSocket
  <2>2. track' = track
    BY <2>1 DEF Handler, AcquireOperatorLock, AcceptFails, Arm, Negotiate, AnswerOffer,
           OfferFails, StopFanout, ReleaseOperatorLock, OutInStep
  <2>3. CASE AcquireOperatorLock(c) \/ AcceptFails(c)
    <3>1. /\ task' = task /\ conn[c] \in {"validated", "accepting"}
          /\ conn'[c] \in {"accepting", "refused", "releasing"}
      BY <2>3 DEF TypeOK, AcquireOperatorLock, AcceptFails
    <3> QED BY <1>1, <2>1, <2>2, <3>1 DEF OutInStep, GoesOut, Leaving
  <2>4. CASE Arm(c)
    <3>1. /\ conn[c] = "accepting" /\ conn'[c] = "receiving"
          /\ Transport[c] = "audio" => task'[c] = "starting"
      BY <2>4 DEF TypeOK, Arm
    <3> QED BY <1>1, <2>1, <2>2, <3>1 DEF OutInStep, GoesOut, Leaving, Live
  <2>5. CASE StopFanout(c) \/ ReleaseOperatorLock(c)
    <3>1. /\ task' = task
          /\ \/ conn[c] = "stopping" /\ conn'[c] = "releasing"
             \/ conn[c] = "releasing" /\ conn'[c] = "closed"
      BY <2>5 DEF TypeOK, StopFanout, ReleaseOperatorLock
    <3>2. StepsToGo(c)' < StepsToGo(c)
      <4>1. Len(queue[c]) \in Nat
        BY DEF TypeOK
      <4>2. PlaceSteps(conn'[c]) < PlaceSteps(conn[c])
        BY <3>1 DEF PlaceSteps
      <4> QED BY <1>1, <3>1, <4>1, <4>2, StepsRange DEF StepsToGo
    <3>3. OutInStep(c)'
      BY <1>1, <2>1, <2>2, <3>1 DEF OutInStep
    <3> QED BY <1>2, <3>1, <3>2, <3>3 DEF GoesOut, Leaving, WebSocket
  <2> QED BY <2>1, <2>3, <2>4, <2>5
        DEF Handler, Negotiate, AnswerOffer, OfferFails, OutInStep
<1> QED BY <1>1, <1>2, OutOthers

LEMMA OutTask ==
  ASSUME TypeOK, OutInv, NEW c \in Conns, TranscriptionTask(c)
  PROVE  OutInv' /\ LeavesStepByStep
<1>1. UNCHANGED <<conn, drain, track>> /\ \A d \in Conns \ {c} : UNCHANGED state(d)
  BY DEF TypeOK, TranscriptionTask, TaskStarts, TakeChunk, TakeEnd, CallReturns,
         CallFails, control, state
<1>2. task'[c] \in Live \cup {"returned"}
  BY DEF TypeOK, TranscriptionTask, TaskStarts, TakeChunk, TakeEnd, CallReturns, CallFails, Live
<1>3. StepsToGo(c)' < StepsToGo(c)
  <2>1. CASE TaskStarts(c) \/ CallReturns(c) \/ CallFails(c)
    <3>1. /\ queue' = queue /\ task[c] \in {"starting", "calling", "flushing"}
          /\ task'[c] \in {"waiting", "returned"} /\ Len(queue[c]) \in Nat
      BY <2>1 DEF TypeOK, TaskStarts, CallReturns, CallFails
    <3>2. CallSteps(task[c]) = 1 /\ CallSteps(task'[c]) = 0
      BY <3>1 DEF CallSteps
    <3> QED BY <1>1, <3>1, <3>2, StepsRange DEF StepsToGo
  <2>2. CASE TakeChunk(c) \/ TakeEnd(c)
    <3>1. /\ queue[c] # << >> /\ queue'[c] = Tail(queue[c]) /\ queue[c] \in Seq(Items)
          /\ task[c] = "waiting"
      BY <2>2 DEF TypeOK, TakeChunk, TakeEnd, Items
    <3>2. Len(queue[c]) \in Nat /\ Len(queue'[c]) = Len(queue[c]) - 1
      BY <3>1
    <3>3. CallSteps(task[c]) = 0
      BY <3>1 DEF CallSteps
    <3> QED BY <1>1, <3>2, <3>3, StepsRange DEF StepsToGo
  <2> QED BY <2>1, <2>2 DEF TranscriptionTask
<1>4. ASSUME WebSocket(c) PROVE OutInStep(c)' /\ GoesOut(c)
  <2>1. OutInStep(c)'
    BY <1>1, <1>2, <1>4 DEF OutInv, OutInStep
  <2> QED BY <1>1, <1>3, <2>1 DEF GoesOut, Leaving, WebSocket
<1> QED BY <1>1, <1>4, OutOthers

LEMMA OutClient ==
  ASSUME TypeOK, OutInv, NEW c \in Conns, Client(c)
  PROVE  OutInv' /\ LeavesStepByStep
<1>1. task' = task /\ \A d \in Conns \ {c} : UNCHANGED state(d)
  BY DEF TypeOK, Client, Validate, ReceiveChunk, Disconnect, TrackChunk, TrackEnds,
         ConnectionLost, control, state
<1>2. ASSUME WebSocket(c) PROVE OutInStep(c)' /\ GoesOut(c)
  <2>1. OutInStep(c) /\ Transport[c] # "webrtc"
    BY <1>2 DEF OutInv, WebSocket
  <2>2. CASE Validate(c) \/ ReceiveChunk(c)
    <3>1. /\ UNCHANGED <<drain, track>> /\ conn[c] \in {"idle", "receiving"}
          /\ conn'[c] \in {"validated", "refused"} \/ conn' = conn
      BY <2>2 DEF TypeOK, Validate, ReceiveChunk, control
    <3> QED BY <1>1, <2>1, <3>1 DEF OutInStep, GoesOut, Leaving
  <2>3. CASE Disconnect(c)
    <3>1. track' = track /\ conn[c] = "receiving"
      BY <2>3 DEF Disconnect
    <3>2. CASE Transport[c] = "audio"
      <4>1. conn'[c] = "draining" /\ \A k \in Closers : k # 1 => drain'[c][k] = drain[c][k]
        BY <2>3, <3>2 DEF TypeOK, Disconnect
      <4>2. drain'[c][1] = "putting"
        BY <2>3, <3>2, OneIsACloser DEF TypeOK, Disconnect
      <4> QED BY <1>1, <2>1, <3>1, <3>2, <4>1, <4>2 DEF OutInStep, GoesOut, Leaving
    <3>3. CASE Transport[c] # "audio"
      <4>1. conn'[c] = "stopping" /\ drain' = drain
        BY <2>3, <3>3 DEF TypeOK, Disconnect
      <4> QED BY <1>1, <2>1, <3>1, <3>3, <4>1 DEF OutInStep, GoesOut, Leaving
    <3> QED BY <3>2, <3>3
  <2> QED BY <2>1, <2>2, <2>3 DEF Client, TrackChunk, TrackEnds, ConnectionLost, OutInStep
<1> QED BY <1>1, <1>2, OutOthers

LEMMA OutDrain ==
  ASSUME TypeOK, OutInv, NEW c \in Conns, NEW k \in Closers, Drain(c, k)
  PROVE  OutInv' /\ LeavesStepByStep
<1>1. track' = track /\ \A d \in Conns \ {c} : UNCHANGED state(d)
  BY DEF TypeOK, Drain, PutSentinel, TaskJoined, DrainRaises, control, state
<1>2. ASSUME WebSocket(c) PROVE OutInStep(c)' /\ GoesOut(c)
  <2>1. OutInStep(c) /\ Transport[c] # "webrtc" /\ queue[c] \in Seq(Items)
    BY <1>2 DEF OutInv, WebSocket, TypeOK, Items
  <2>2. k = 1 /\ drain[c][1] \in {"putting", "waiting"} /\ conn[c] = "draining"
    BY <2>1 DEF Drain, PutSentinel, TaskJoined, DrainRaises, OutInStep
  <2>3. \A j \in Closers : j # 1 => drain'[c][j] = drain[c][j]
    BY <2>2 DEF TypeOK, Drain, PutSentinel, TaskJoined, DrainRaises
  <2>4. Len(queue[c]) \in Nat
    BY <2>1
  <2>5. CASE PutSentinel(c, k)
    <3>1. /\ UNCHANGED <<conn, task>> /\ queue'[c] = Append(queue[c], "end")
          /\ drain[c][1] = "putting" /\ drain'[c][1] = "waiting"
      BY <2>2, <2>5 DEF TypeOK, PutSentinel, control
    <3>2. Len(queue'[c]) = Len(queue[c]) + 1
      BY <2>1, <3>1 DEF Items
    <3>3. StepsToGo(c)' < StepsToGo(c)
      <4>1. PutSteps(drain[c][1]) = 3 /\ PutSteps(drain'[c][1]) = 0
        BY <3>1 DEF PutSteps
      <4> QED BY <2>4, <3>1, <3>2, <4>1, StepsRange DEF StepsToGo
    <3>4. OutInStep(c)'
      BY <1>1, <2>1, <2>2, <2>3, <3>1 DEF OutInStep
    <3> QED BY <3>1, <3>3, <3>4 DEF GoesOut, Leaving, WebSocket
  <2>6. CASE TaskJoined(c, k) \/ DrainRaises(c, k)
    <3>1. /\ queue' = queue /\ drain[c][1] = "waiting" /\ drain'[c][1] \in {"done", "raised"}
          /\ conn'[c] \in {"stopping", "releasing"}
          /\ task' = task \/ task'[c] = "cancelled"
      BY <1>2, <2>1, <2>2, <2>6 DEF TypeOK, TaskJoined, DrainRaises
    <3>2. StepsToGo(c)' < StepsToGo(c)
      <4>1. PutSteps(drain[c][1]) = 0 /\ PutSteps(drain'[c][1]) = 0
        BY <3>1 DEF PutSteps
      <4>2. PlaceSteps(conn[c]) = 3 /\ PlaceSteps(conn'[c]) <= 2
        BY <2>2, <3>1 DEF PlaceSteps
      <4>3. CallSteps(task'[c]) <= CallSteps(task[c])
        BY <3>1, StepsRange DEF CallSteps
      <4> QED BY <2>4, <3>1, <4>1, <4>2, <4>3, StepsRange DEF StepsToGo
    <3>3. OutInStep(c)'
      BY <1>1, <2>1, <2>2, <2>3, <3>1 DEF OutInStep
    <3> QED BY <1>2, <3>1, <3>2, <3>3 DEF GoesOut, Leaving, WebSocket
  <2> QED BY <2>5, <2>6 DEF Drain
<1> QED BY <1>1, <1>2, OutOthers

LEMMA OutStep == TypeOK /\ OutInv /\ [Next]_vars => OutInv' /\ LeavesStepByStep
<1> SUFFICES ASSUME TypeOK, OutInv, [Next]_vars PROVE OutInv' /\ LeavesStepByStep
  OBVIOUS
<1>1. ASSUME NEW c \in Conns, Handler(c) \/ TranscriptionTask(c) \/ Client(c)
      PROVE  OutInv' /\ LeavesStepByStep
  BY <1>1, OutHandler, OutTask, OutClient
<1>2. ASSUME NEW c \in Conns, NEW k \in Closers, Drain(c, k)
      PROVE  OutInv' /\ LeavesStepByStep
  BY <1>2, OutDrain
<1>3. CASE StopSession \/ UNCHANGED vars
  <2>1. \A c \in Conns : UNCHANGED state(c)
    BY <1>3 DEF StopSession, vars, state
  <2>2. \A c \in Conns : (OutInStep(c) => OutInStep(c)') /\ GoesOut(c)
    BY <2>1, OutFrame
  <2> QED BY <2>2 DEF OutInv, LeavesStepByStep, GoesOut, WebSocket
<1> QED BY <1>1, <1>2, <1>3 DEF Next

LEMMA OutInit == Init => OutInv
<1> SUFFICES ASSUME Init, NEW c \in Conns PROVE OutInStep(c)
  BY DEF OutInv
<1>1. /\ conn[c] = "idle" /\ track[c] = FALSE /\ \A k \in Closers : drain[c][k] = "off"
      /\ drain[c][1] = "off"
  BY OneIsACloser DEF Init
<1> QED BY <1>1 DEF OutInStep

\* Nothing but a full queue whose task has died stops a WebSocket handler on its
\* way out: in every other state one of the steps it, its task or its drain has
\* to take is there to be taken, and at most 2 * QueueMax + 7 are left.
THEOREM OnlyWedgedIsStuck == Spec => []OnlyWedgedStops
<1>1. TypeOK /\ OutInv => OnlyWedgedStops
  <2> SUFFICES ASSUME TypeOK, OutInv, NEW c \in Conns, Leaving(c)
               PROVE  StepsToGo(c) \in 0 .. 2 * QueueMax + 7 /\ (CanGoOn(c) \/ Wedged(c))
    BY DEF OnlyWedgedStops
  <2>1. /\ OutInStep(c) /\ Len(queue[c]) \in Nat /\ Len(queue[c]) <= QueueMax
        /\ QueueMax \in Nat /\ queue[c] \in Seq(Items)
    BY QueueAssumption DEF OutInv, Leaving, TypeOK, Items
  <2>2. StepsToGo(c) \in 0 .. 2 * QueueMax + 7
    BY <2>1, StepsRange DEF StepsToGo
  <2>3. CASE conn[c] \in {"stopping", "releasing"}
    BY <2>2, <2>3 DEF CanGoOn
  <2>4. CASE conn[c] = "draining"
    <3>1. drain[c][1] \in {"putting", "waiting"} /\ task[c] \in Live \cup {"returned"}
      BY <2>1, <2>4 DEF OutInStep
    <3>2. CASE drain[c][1] = "waiting" \/ Len(queue[c]) < QueueMax
      BY <2>2, <3>1, <3>2 DEF CanGoOn
    <3>3. CASE drain[c][1] = "putting" /\ ~(Len(queue[c]) < QueueMax)
      <4>1. Len(queue[c]) = QueueMax /\ queue[c] # << >>
        BY <2>1, <3>3, QueueAssumption
      <4>2. CASE task[c] = "returned"
        BY <2>2, <3>3, <4>1, <4>2, OneIsACloser DEF Wedged
      <4>3. CASE task[c] \in Live
        BY <2>2, <4>1, <4>3 DEF CanGoOn, Live
      <4> QED BY <3>1, <4>2, <4>3
    <3> QED BY <3>1, <3>2, <3>3
  <2> QED BY <2>3, <2>4 DEF Leaving
<1> QED BY <1>1, OutInit, OutStep, TypeInvariant, PTL DEF Spec

\* Every step that touches a leaving WebSocket handler, its queue, its task or
\* its drain brings it nearer to its end, which is the release of the lock:
\* nothing is put back, and no step of another connection gets in its way.
THEOREM EveryStepLeadsOut == Spec => [][LeavesStepByStep]_vars
BY OutInit, OutStep, TypeInvariant, PTL DEF Spec

\* A drain runs only for a connection that is past its start.
EndingInv ==
  \A c \in Conns : \A k \in Closers : drain[c][k] # "off" =>
    conn[c] \in {"open", "draining", "stopping", "releasing", "closed", "stranded"}

LEMMA EndingStep == TypeOK /\ EndingInv /\ [Next]_vars => EndingInv'
<1> SUFFICES ASSUME TypeOK, EndingInv, [Next]_vars PROVE EndingInv'
  OBVIOUS
<1> DEFINE Late == {"open", "draining", "stopping", "releasing", "closed", "stranded"}
           Ending(c) == \A k \in Closers : drain[c][k] # "off" => conn[c] \in Late
<1>1. \A c \in Conns : Ending(c)
  BY DEF EndingInv
<1>2. ASSUME NEW c \in Conns, \A d \in Conns \ {c} : UNCHANGED state(d), Ending(c)' PROVE EndingInv'
  BY <1>1, <1>2 DEF EndingInv, state
<1>3. ASSUME NEW c \in Conns, Handler(c) PROVE EndingInv'
  <2>1. drain' = drain /\ \A d \in Conns \ {c} : UNCHANGED state(d)
    BY <1>3 DEF TypeOK, Handler, AcquireOperatorLock, AcceptFails, Arm, Negotiate,
       AnswerOffer, OfferFails, StopFanout, ReleaseOperatorLock, state
  <2>2. conn[c] \in Late => conn'[c] \in Late
    BY <1>3 DEF TypeOK, Handler, AcquireOperatorLock, AcceptFails, Arm, Negotiate,
       AnswerOffer, OfferFails, StopFanout, ReleaseOperatorLock
  <2> QED BY <1>1, <1>2, <2>1, <2>2
<1>4. ASSUME NEW c \in Conns, TranscriptionTask(c) PROVE EndingInv'
  BY <1>4 DEF EndingInv, TranscriptionTask, TaskStarts, TakeChunk, TakeEnd, CallReturns,
     CallFails, control
<1>5. ASSUME NEW c \in Conns, Client(c) PROVE EndingInv'
  <2>1. CASE ReceiveChunk(c) \/ TrackChunk(c) \/ TrackEnds(c)
    BY <2>1 DEF EndingInv, ReceiveChunk, TrackChunk, TrackEnds, control
  <2>2. CASE Validate(c)
    <3>1. drain' = drain /\ conn[c] = "idle" /\ \A d \in Conns \ {c} : UNCHANGED state(d)
      BY <2>2 DEF TypeOK, Validate, state
    <3>2. Ending(c)'
      BY <1>1, <3>1
    <3> QED BY <1>2, <3>1, <3>2
  <2>3. CASE Disconnect(c)
    <3>1. /\ conn[c] = "receiving" /\ conn'[c] \in Late
          /\ \A d \in Conns \ {c} : UNCHANGED state(d)
      BY <2>3 DEF TypeOK, Disconnect, state
    <3>2. Ending(c)'
      BY <3>1
    <3> QED BY <1>2, <3>1, <3>2
  <2>4. ASSUME NEW k \in Closers, ConnectionLost(c, k) PROVE EndingInv'
    <3>1. conn'[c] \in Late /\ \A d \in Conns \ {c} : UNCHANGED state(d)
      BY <2>4 DEF TypeOK, ConnectionLost, state
    <3>2. Ending(c)'
      BY <3>1
    <3> QED BY <1>2, <3>1, <3>2
  <2> QED BY <1>5, <2>1, <2>2, <2>3, <2>4 DEF Client
<1>6. ASSUME NEW c \in Conns, NEW k \in Closers, Drain(c, k) PROVE EndingInv'
  <2>1. drain[c][k] # "off" /\ \A d \in Conns \ {c} : UNCHANGED state(d)
    BY <1>6 DEF TypeOK, Drain, PutSentinel, TaskJoined, DrainRaises, control, state
  <2>2. conn[c] \in Late
    BY <1>1, <2>1
  <2>3. conn'[c] \in Late
    BY <1>6, <2>2 DEF TypeOK, Drain, PutSentinel, TaskJoined, DrainRaises, control
  <2>4. Ending(c)'
    BY <2>3
  <2> QED BY <1>2, <2>1, <2>4
<1>7. CASE StopSession \/ UNCHANGED vars
  BY <1>7 DEF EndingInv, StopSession, vars
<1> QED BY <1>3, <1>4, <1>5, <1>6, <1>7 DEF Next

LEMMA EndingInvariant == Spec => [](TypeOK /\ EndingInv)
<1>1. Init => EndingInv
  BY DEF Init, EndingInv
<1> QED BY <1>1, EndingStep, TypeInvariant, PTL DEF Spec

\* A full queue stays full when a frame comes.
LEMMA EnqueueFull ==
  ASSUME NEW q \in Seq(Items), Len(q) = QueueMax, NEW x \in Items
  PROVE  Len(Enqueue(q, x)) = QueueMax
<1>1. q # << >>
  BY QueueAssumption
<1>2. Tail(q) \in Seq(Items) /\ Len(Tail(q)) = Len(q) - 1
  BY <1>1
<1> QED BY <1>2, QueueAssumption DEF Enqueue

\* What is wedged stays so, whatever the endpoint: nobody takes from the queue,
\* and a late window of a track replaces its oldest item.
THEOREM WedgedForGood == Spec => [][WedgedStays]_vars
<1>1. TypeOK /\ EndingInv /\ [Next]_vars => WedgedStays
  <2> SUFFICES ASSUME TypeOK, EndingInv, [Next]_vars,
                      NEW c \in Conns, NEW k \in Closers, drain[c][k] = "putting",
                      task[c] = "returned", Len(queue[c]) = QueueMax
               PROVE  Wedged(c)'
    BY DEF WedgedStays, Wedged
  <2> SUFFICES drain'[c][k] = "putting" /\ task'[c] = "returned" /\ Len(queue'[c]) = QueueMax
    BY DEF Wedged
  <2>1. conn[c] \in {"open", "draining", "stopping", "releasing", "closed", "stranded"}
    BY DEF EndingInv
  <2>2. ASSUME NEW d \in Conns, Handler(d) \/ TranscriptionTask(d)
        PROVE  UNCHANGED <<drain[c], queue[c], task[c]>>
    BY <2>1, <2>2 DEF TypeOK, Handler, AcquireOperatorLock, AcceptFails, Arm, Negotiate,
       AnswerOffer, OfferFails, StopFanout, ReleaseOperatorLock,
       TranscriptionTask, TaskStarts, TakeChunk, TakeEnd, CallReturns, CallFails, control
  <2>3. ASSUME NEW d \in Conns, Client(d)
        PROVE  drain'[c][k] = "putting" /\ task' = task /\ Len(queue'[c]) = QueueMax
    <3>1. task' = task
      BY <2>3 DEF Client, Validate, ReceiveChunk, Disconnect, TrackChunk, TrackEnds,
         ConnectionLost
    <3>2. drain'[c][k] = "putting"
      <4>1. CASE Disconnect(d)
        <5>1. d # c
          BY <2>1, <4>1 DEF Disconnect
        <5> QED BY <4>1, <5>1 DEF TypeOK, Disconnect
      <4>2. ASSUME NEW j \in Closers, ConnectionLost(d, j) PROVE drain'[c][k] = "putting"
        BY <4>2 DEF TypeOK, ConnectionLost
      <4> QED BY <2>3, <4>1, <4>2 DEF Client, Validate, ReceiveChunk, TrackChunk, TrackEnds, control
    <3>3. queue'[c] = queue[c] \/ queue'[c] = Enqueue(queue[c], "chunk")
      BY <2>3 DEF TypeOK, Client, Validate, ReceiveChunk, Disconnect, TrackChunk, TrackEnds,
         ConnectionLost
    <3>4. Len(Enqueue(queue[c], "chunk")) = QueueMax
      BY EnqueueFull DEF TypeOK, Items
    <3> QED BY <3>1, <3>2, <3>3, <3>4
  <2>4. ASSUME NEW d \in Conns, NEW j \in Closers, Drain(d, j)
        PROVE  drain'[c][k] = "putting" /\ UNCHANGED <<queue[c], task[c]>>
    <3>1. QueueMax \in Nat
      BY QueueAssumption
    <3>2. CASE PutSentinel(d, j)
      <4>1. d # c
        BY <3>1, <3>2 DEF PutSentinel
      <4> QED BY <3>2, <4>1 DEF TypeOK, PutSentinel, control
    <3>3. CASE TaskJoined(d, j)
      BY <3>3 DEF TypeOK, TaskJoined
    <3>4. CASE DrainRaises(d, j)
      <4>1. d # c
        BY <3>4 DEF DrainRaises, Live
      <4> QED BY <3>4, <4>1 DEF TypeOK, DrainRaises
    <3> QED BY <2>4, <3>2, <3>3, <3>4 DEF Drain
  <2>5. CASE StopSession \/ UNCHANGED vars
    BY <2>5 DEF StopSession, vars
  <2> QED BY <2>2, <2>3, <2>4, <2>5 DEF Next
<1> QED BY <1>1, EndingInvariant, PTL DEF Spec

\* What operator_audio.py:81 promises is lost with it: while a drain is wedged
\* the session's slot is taken, so with WedgedForGood every later attempt of any
\* operator is refused until the process restarts.
THEOREM WedgedKeepsTheLock == ASSUME OneCloseEach PROVE Spec => []WedgedHoldsLock
<1>1. Inv => WedgedHoldsLock
  <2> SUFFICES ASSUME Inv, NEW c \in Conns, Wedged(c) PROVE lock
    BY DEF WedgedHoldsLock
  <2>1. drain[c][1] = "putting"
    BY DEF Wedged, Inv, InStep
  <2>2. Holds(c)
    BY <2>1 DEF Inv, InStep, Holds, Holding
  <2> QED BY <2>2 DEF Inv, LockInv, Owns, Holds
<1> QED BY <1>1, Inductive, PTL
=============================================================================
