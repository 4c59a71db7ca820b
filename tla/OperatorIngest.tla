--------------------------- MODULE OperatorIngest ---------------------------
(***************************************************************************)
(* Operator ingest for one session: the WebSocket audio endpoint           *)
(* (ws/operator_audio.py), the WebSocket text endpoint                     *)
(* (ws/operator_transcript.py) and the WebRTC endpoint                     *)
(* (api/routes/webrtc.py), the single-operator lock, chunk queue,          *)
(* transcription task and drain they share (services/audio_ingest.py), and *)
(* the arming of the translation fanout (services/translation.py).         *)
(*                                                                         *)
(* Everything runs on one asyncio loop.  A step is what a coroutine does   *)
(* between two awaits that can suspend it; the asyncio.Locks of this code  *)
(* are never held across a suspension, so `async with lock` is no step of  *)
(* its own.  A connection attempt is a member of Conns: a client that      *)
(* reconnects is another member.                                           *)
(***************************************************************************)
EXTENDS Integers, Sequences

CONSTANTS
  Conns,       \* connection attempts for the session
  Transport,   \* the endpoint each attempt uses
  QueueMax,    \* CHUNK_QUEUE_MAXSIZE
  MaxChunks,   \* bound: chunks a connection sends
  MaxCloses    \* bound: closing states one peer connection reports

Transports == {"audio", "transcript", "webrtc"}

ASSUME TransportAssumption == Transport \in [Conns -> Transports]
ASSUME QueueAssumption == QueueMax \in Nat \ {0}
ASSUME BoundAssumption == MaxChunks \in Nat /\ MaxCloses \in Nat \ {0}

Closers == 1 .. MaxCloses   \* runs of the drain on behalf of one connection

VARIABLES
  active,   \* the session row is ACTIVE
  lock,     \* session_id in _active_operators
  fanout,   \* session_id in translation_fanout._tasks
  conn,     \* where each endpoint's handler is
  drain,    \* where each run of drain_transcription is
  task,     \* where each transcription task is
  failed,   \* the transcription task ended by an exception it swallowed
  queue,    \* each connection's chunk queue
  sent,     \* chunks each connection has put in its queue
  track     \* WebRTC: the audio track still delivers frames

vars == <<active, lock, fanout, conn, drain, task, failed, queue, sent, track>>

\* What a step of the transcription task or of the client leaves alone.
control == <<active, lock, fanout, conn>>

WebSocket(c) == Transport[c] \in {"audio", "transcript"}
Live == {"starting", "waiting", "calling", "flushing"}
Holding == {"accepting", "negotiating", "receiving", "open", "draining",
            "stopping", "releasing"}
\* "stranded": the WebRTC cleanup ended by an exception before its release.
ConnStates ==
  Holding \cup {"idle", "validated", "refused", "closed", "aborted", "stranded"}

Init ==
  /\ active = TRUE
  /\ lock = FALSE
  /\ fanout \in BOOLEAN    \* lifespan re-arms sessions ACTIVE at startup
  /\ conn = [c \in Conns |-> "idle"]
  /\ drain = [c \in Conns |-> [k \in Closers |-> "off"]]
  /\ task = [c \in Conns |-> "none"]
  /\ failed = [c \in Conns |-> FALSE]
  /\ queue = [c \in Conns |-> << >>]
  /\ sent = [c \in Conns |-> 0]
  /\ track = [c \in Conns |-> FALSE]

-----------------------------------------------------------------------------
(* Connecting.                                                             *)

\* The session is stopped elsewhere (sessions.py); no ingest handler is told.
StopSession ==
  /\ active
  /\ active' = FALSE
  /\ UNCHANGED <<lock, fanout, conn, drain, task, failed, queue, sent, track>>

Validate(c) ==
  /\ conn[c] = "idle"
  /\ conn' = [conn EXCEPT ![c] = IF active THEN "validated" ELSE "refused"]
  /\ UNCHANGED <<active, lock, fanout, drain, task, failed, queue, sent, track>>

\* Mutant: the lock is set without being looked at.
AcquireUnchecked(c) ==
  /\ conn[c] = "validated"
  /\ lock' = TRUE
  /\ conn' = [conn EXCEPT ![c] = "accepting"]
  /\ UNCHANGED <<active, fanout, drain, task, failed, queue, sent, track>>

\* 4409 (409 for WebRTC) when another operator is connected.
AcquireOperatorLock(c) ==
  /\ conn[c] = "validated"
  /\ lock' = TRUE
  /\ conn' = [conn EXCEPT ![c] = IF lock THEN "refused" ELSE "accepting"]
  /\ UNCHANGED <<active, fanout, drain, task, failed, queue, sent, track>>

\* websocket.accept() raises: only the outer finally runs.
AcceptFails(c) ==
  /\ WebSocket(c) /\ conn[c] = "accepting"
  /\ conn' = [conn EXCEPT ![c] = "releasing"]
  /\ UNCHANGED <<active, lock, fanout, drain, task, failed, queue, sent, track>>

\* accept and audit have returned: fanout.start, then the transcription task.
Arm(c) ==
  /\ WebSocket(c) /\ conn[c] = "accepting"
  /\ conn' = [conn EXCEPT ![c] = "receiving"]
  /\ fanout' = TRUE
  /\ task' = [task EXCEPT ![c] = IF Transport[c] = "audio" THEN "starting" ELSE @]
  /\ UNCHANGED <<active, lock, drain, failed, queue, sent, track>>

\* WebRTC: the task is created before the SDP exchange; the fanout is not armed.
Negotiate(c) ==
  /\ Transport[c] = "webrtc" /\ conn[c] = "accepting"
  /\ conn' = [conn EXCEPT ![c] = "negotiating"]
  /\ task' = [task EXCEPT ![c] = "starting"]
  /\ UNCHANGED <<active, lock, fanout, drain, failed, queue, sent, track>>

AnswerOffer(c) ==
  /\ conn[c] = "negotiating"
  /\ conn' = [conn EXCEPT ![c] = "open"]
  /\ track' = [track EXCEPT ![c] = TRUE]
  /\ UNCHANGED <<active, lock, fanout, drain, task, failed, queue, sent>>

\* Mutant: the except block forgets the lock.
OfferFailsLocked(c) ==
  /\ conn[c] = "negotiating"
  /\ conn' = [conn EXCEPT ![c] = "aborted"]
  /\ UNCHANGED <<active, lock, fanout, drain, task, failed, queue, sent, track>>

\* The SDP exchange raises: the lock is released, the task is left behind.
OfferFails(c) ==
  /\ conn[c] = "negotiating"
  /\ conn' = [conn EXCEPT ![c] = "aborted"]
  /\ lock' = FALSE
  /\ UNCHANGED <<active, fanout, drain, task, failed, queue, sent, track>>

-----------------------------------------------------------------------------
(* Receiving and transcribing.                                             *)

\* Mutant: no eviction.
EnqueueAlways(q, item) == Append(q, item)

\* enqueue_chunk: a full queue evicts its oldest item, whatever it is.
Enqueue(q, item) ==
  IF Len(q) < QueueMax THEN Append(q, item) ELSE Append(Tail(q), item)

\* A frame within the byte cap.  The handler looks for a dead task first, but
\* transcription_task never ends with the exception the check asks for.
ReceiveChunk(c) ==
  /\ Transport[c] = "audio" /\ conn[c] = "receiving" /\ sent[c] < MaxChunks
  /\ queue' = [queue EXCEPT ![c] = Enqueue(@, "chunk")]
  /\ sent' = [sent EXCEPT ![c] = @ + 1]
  /\ UNCHANGED <<control, drain, task, failed, track>>

\* _consume_audio_track: a window of frames is full.
TrackChunk(c) ==
  /\ track[c] /\ sent[c] < MaxChunks
  /\ queue' = [queue EXCEPT ![c] = Enqueue(@, "chunk")]
  /\ sent' = [sent EXCEPT ![c] = @ + 1]
  /\ UNCHANGED <<control, drain, task, failed, track>>

\* The track ends; what the window still holds is flushed into the queue.
TrackEnds(c) ==
  /\ track[c]
  /\ track' = [track EXCEPT ![c] = FALSE]
  /\ \/ UNCHANGED <<queue, sent>>
     \/ /\ sent[c] < MaxChunks
        /\ queue' = [queue EXCEPT ![c] = Enqueue(@, "chunk")]
        /\ sent' = [sent EXCEPT ![c] = @ + 1]
  /\ UNCHANGED <<control, drain, task, failed>>

\* get_whisper_semaphore and starting_sequence have returned.
TaskStarts(c) ==
  /\ task[c] = "starting"
  /\ task' = [task EXCEPT ![c] = "waiting"]
  /\ UNCHANGED <<control, drain, failed, queue, sent, track>>

\* A chunk is buffered, or completes a slide of fresh audio and is sent off.
TakeChunk(c) ==
  /\ task[c] = "waiting" /\ queue[c] # << >> /\ Head(queue[c]) = "chunk"
  /\ queue' = [queue EXCEPT ![c] = Tail(@)]
  /\ \E t \in {"waiting", "calling"} : task' = [task EXCEPT ![c] = t]
  /\ UNCHANGED <<control, drain, failed, sent, track>>

\* The sentinel ends the stream: a final flush if fresh audio is buffered.
TakeEnd(c) ==
  /\ task[c] = "waiting" /\ queue[c] # << >> /\ Head(queue[c]) = "end"
  /\ queue' = [queue EXCEPT ![c] = Tail(@)]
  /\ \E t \in {"flushing", "returned"} : task' = [task EXCEPT ![c] = t]
  /\ UNCHANGED <<control, drain, failed, sent, track>>

\* The API call ends; its exception is logged and ends the task quietly.
CallReturns(c) ==
  /\ task[c] \in {"calling", "flushing"}
  /\ task' = [task EXCEPT ![c] = IF @ = "calling" THEN "waiting" ELSE "returned"]
  /\ UNCHANGED <<control, drain, failed, queue, sent, track>>

CallFails(c) ==
  /\ task[c] \in {"calling", "flushing"}
  /\ task' = [task EXCEPT ![c] = "returned"]
  /\ failed' = [failed EXCEPT ![c] = TRUE]
  /\ UNCHANGED <<control, drain, queue, sent, track>>

-----------------------------------------------------------------------------
(* Disconnecting: drain_transcription and the finally blocks.              *)

\* Mutant: the inner finally leaves the transcription task running.
DisconnectUndrained(c) ==
  /\ conn[c] = "receiving"
  /\ conn' = [conn EXCEPT ![c] = "stopping"]
  /\ UNCHANGED <<active, lock, fanout, drain, task, failed, queue, sent, track>>

\* The client goes away, sends the wrong frame type or exceeds the byte cap.
Disconnect(c) ==
  /\ conn[c] = "receiving"
  /\ IF Transport[c] = "audio"
     THEN /\ conn' = [conn EXCEPT ![c] = "draining"]
          /\ drain' = [drain EXCEPT ![c][1] = "putting"]
     ELSE /\ conn' = [conn EXCEPT ![c] = "stopping"]
          /\ UNCHANGED drain
  /\ UNCHANGED <<active, lock, fanout, task, failed, queue, sent, track>>

\* WebRTC: connectionState becomes disconnected, failed or closed; each time,
\* a new run of _on_connection_closed begins.
ConnectionLost(c, k) ==
  /\ Transport[c] = "webrtc" /\ conn[c] \in {"open", "closed", "stranded"}
  /\ drain[c][k] = "off" /\ \A j \in 1 .. k - 1 : drain[c][j] # "off"
  /\ drain' = [drain EXCEPT ![c][k] = "putting"]
  /\ UNCHANGED <<active, lock, fanout, conn, task, failed, queue, sent, track>>

\* await queue.put(None): blocks while the queue is full.
PutSentinel(c, k) ==
  /\ drain[c][k] = "putting" /\ Len(queue[c]) < QueueMax
  /\ drain' = [drain EXCEPT ![c][k] = "waiting"]
  /\ queue' = [queue EXCEPT ![c] = Append(@, "end")]
  /\ UNCHANGED <<control, task, failed, sent, track>>

\* Mutant: the drain does not wait for the task.
JoinAtOnce(c, k) ==
  /\ drain[c][k] = "waiting"
  /\ drain' = [drain EXCEPT ![c][k] = "done"]
  /\ conn' = [conn EXCEPT ![c] = "stopping"]
  /\ UNCHANGED <<active, lock, fanout, task, failed, queue, sent, track>>

\* The task returned: the handler goes on, _on_connection_closed releases.
TaskJoined(c, k) ==
  /\ drain[c][k] = "waiting" /\ task[c] = "returned"
  /\ drain' = [drain EXCEPT ![c][k] = "done"]
  /\ IF Transport[c] = "webrtc"
     THEN /\ conn' = [conn EXCEPT ![c] = "closed"]
          /\ lock' = FALSE
     ELSE /\ conn' = [conn EXCEPT ![c] = "stopping"]
          /\ UNCHANGED lock
  /\ UNCHANGED <<active, fanout, task, failed, queue, sent, track>>

\* Mutant: no outer finally: a drain that raises skips the release.
DrainRaisesThrough(c, k) ==
  /\ drain[c][k] = "waiting" /\ task[c] \in Live \cup {"cancelled"}
  /\ drain' = [drain EXCEPT ![c][k] = "raised"]
  /\ task' = [task EXCEPT ![c] = "cancelled"]
  /\ UNCHANGED <<control, failed, queue, sent, track>>

\* The task did not return in 30 s, or another run of the drain cancelled it.
\* asyncio.suppress does not exist: the drain ends with an AttributeError (a
\* CancelledError for the other run), which skips what follows the drain: for a
\* WebSocket the fanout's stop.  _on_connection_closed has no finally: it ends
\* there, the lock is still set and no coroutine is left that would release it.
DrainRaises(c, k) ==
  /\ drain[c][k] = "waiting" /\ task[c] \in Live \cup {"cancelled"}
  /\ drain' = [drain EXCEPT ![c][k] = "raised"]
  /\ task' = [task EXCEPT ![c] = "cancelled"]
  /\ conn' = [conn EXCEPT ![c] = IF WebSocket(c) THEN "releasing" ELSE "stranded"]
  /\ UNCHANGED <<active, lock, fanout, failed, queue, sent, track>>

\* translation_fanout.stop pops the fanout's task before it waits for it.
StopFanout(c) ==
  /\ conn[c] = "stopping"
  /\ conn' = [conn EXCEPT ![c] = "releasing"]
  /\ fanout' = FALSE
  /\ UNCHANGED <<active, lock, drain, task, failed, queue, sent, track>>

\* Mutant: the lock is given up before the fanout is stopped.
ReleaseBeforeStop(c) ==
  /\ conn[c] \in {"stopping", "releasing"}
  /\ conn' = [conn EXCEPT ![c] = IF @ = "releasing" THEN "closed" ELSE @]
  /\ lock' = FALSE
  /\ UNCHANGED <<active, fanout, drain, task, failed, queue, sent, track>>

\* release_operator_lock pops the session's entry, whoever set it.
ReleaseOperatorLock(c) ==
  /\ conn[c] = "releasing"
  /\ conn' = [conn EXCEPT ![c] = "closed"]
  /\ lock' = FALSE
  /\ UNCHANGED <<active, fanout, drain, task, failed, queue, sent, track>>

-----------------------------------------------------------------------------

Handler(c) ==
  \/ AcquireOperatorLock(c) \/ AcceptFails(c) \/ Arm(c)
  \/ Negotiate(c) \/ AnswerOffer(c) \/ OfferFails(c)
  \/ StopFanout(c) \/ ReleaseOperatorLock(c)

Drain(c, k) == PutSentinel(c, k) \/ TaskJoined(c, k) \/ DrainRaises(c, k)

TranscriptionTask(c) ==
  TaskStarts(c) \/ TakeChunk(c) \/ TakeEnd(c) \/ CallReturns(c) \/ CallFails(c)

Client(c) ==
  \/ Validate(c) \/ ReceiveChunk(c) \/ Disconnect(c)
  \/ TrackChunk(c) \/ TrackEnds(c)
  \/ \E k \in Closers : ConnectionLost(c, k)

Next ==
  \/ StopSession
  \/ \E c \in Conns : Handler(c) \/ TranscriptionTask(c) \/ Client(c)
  \/ \E c \in Conns, k \in Closers : Drain(c, k)

\* The event loop runs what is ready, an API call ends by its own time-outs and
\* the drain's timer fires.  Nothing is promised of the client.
Fairness ==
  /\ \A c \in Conns : WF_vars(Handler(c)) /\ WF_vars(TranscriptionTask(c))
  /\ \A c \in Conns, k \in Closers : WF_vars(Drain(c, k))

Spec == Init /\ [][Next]_vars
FairSpec == Spec /\ Fairness

-----------------------------------------------------------------------------
(* Properties.                                                             *)

TypeOK ==
  /\ active \in BOOLEAN /\ lock \in BOOLEAN /\ fanout \in BOOLEAN
  /\ conn \in [Conns -> ConnStates]
  /\ drain \in [Conns -> [Closers -> {"off", "putting", "waiting", "done", "raised"}]]
  /\ task \in [Conns -> Live \cup {"none", "returned", "cancelled"}]
  /\ failed \in [Conns -> BOOLEAN]
  /\ queue \in [Conns -> Seq({"chunk", "end"})]
  /\ \A c \in Conns : Len(queue[c]) <= QueueMax
  /\ sent \in [Conns -> 0 .. MaxChunks]
  /\ track \in [Conns -> BOOLEAN]

\* Each connection runs its cleanup once: no peer connection, or one that
\* reports a single closing state.
OneCloseEach == MaxCloses = 1 \/ \A c \in Conns : WebSocket(c)

Holds(c) == conn[c] \in Holding

\* A drain of a peer connection raised: nobody is left to release its slot.
ReleaseSkipped(c) ==
  Transport[c] = "webrtc" /\ \E k \in Closers : drain[c][k] = "raised"

\* The session's entry in _active_operators is set exactly while some handler
\* or cleanup is between its acquire and its release, or a WebRTC drain has
\* raised.  So it is never popped under a connected operator, and the raising
\* drain is the only way to an entry that nobody is left to pop: no failed
\* accept, no failed offer and no drain of a WebSocket strands it.
LockIffHeld == lock <=> \E c \in Conns : Holds(c) \/ ReleaseSkipped(c)

\* At most one connection is between acquire and release.
MutualExclusion == \A c, d \in Conns : Holds(c) /\ Holds(d) => c = d

\* A connection that can still publish transcript events.  The task of a failed
\* WebRTC offer is alive but nothing will ever reach its queue.
Producing(c) ==
  \/ task[c] \in Live /\ conn[c] # "aborted"
  \/ Transport[c] = "transcript" /\ conn[c] = "receiving"

\* Captions come from one connection at a time: an operator's transcription
\* task has ended, drained or cancelled, before another operator's can start,
\* whatever the transports and however the first one went away.
SingleProducer == \A c, d \in Conns : Producing(c) /\ Producing(d) => c = d

\* While a WebSocket operator is connected or draining, its session's fanout is
\* armed: the stop of an earlier connection never removes the fanout a later
\* one relies on.  A WebRTC operator has no such guarantee: nothing arms it.
FanoutWhileIngesting ==
  \A c \in Conns : WebSocket(c) /\ conn[c] \in {"receiving", "draining"} => fanout

\* Once the drain has succeeded, every chunk that was neither evicted nor met
\* by a dead task has been taken for transcription: the sentinel is the last
\* item of the queue, and the task is waited for.  A WebRTC track may still
\* flush a window after the sentinel, so this is said of audio alone.
TailTranscribed(c) ==
  (\E k \in Closers : drain[c][k] = "done") /\ ~failed[c] /\ ~track[c]
    => queue[c] = << >>

AudioTailTranscribed ==
  \A c \in Conns : Transport[c] = "audio" => TailTranscribed(c)

\* The sentinel cannot be put: the task died and the queue it left is full.
Wedged(c) ==
  \E k \in Closers :
    drain[c][k] = "putting" /\ task[c] = "returned" /\ Len(queue[c]) = QueueMax

\* After a disconnect a WebSocket handler releases the lock, unless its queue
\* is full when its task has died.
DrainEndsOrWedges ==
  \A c \in Conns :
    WebSocket(c) /\ conn[c] \in {"draining", "stopping", "releasing"}
      ~> conn[c] = "closed" \/ Wedged(c)

\* operator_audio.py:81, which the code does not keep: the lock is released on
\* disconnect, Wedged or not.
ReleasedAfterDisconnect ==
  \A c \in Conns : conn[c] = "draining" ~> conn[c] = "closed"
=============================================================================
