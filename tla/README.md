# Verification of Sunday Voice

Sunday Voice transcribes a meeting as it is spoken, translates each segment and
streams the captions to listeners' phones. This directory holds TLA+ models of
the backend's live path and of the services around it, the TLC configurations that check them on small
instances, and TLAPS proofs of their main safety properties for every instance.
All paths below are relative to the repository; `backend/` is
`src/backend/app/`.

    tlc -workers 2 -config OperatorIngest.cfg MCOperatorIngest.tla   # a run
    tlapm OperatorIngest_proofs.tla                                  # the proofs

`PROJECT.json` lists the components, runs, mutants (a plausible bug for every
property, which the property must catch), the source lines behind every
definition, the hazards, the disagreements found and the theorems.

## 1. The system

FastAPI worker processes, each on one asyncio loop, PostgreSQL for what must last, Redis
pub/sub towards listeners, three paid APIs (Whisper, Google Translate, Google
TTS), and a React frontend.

    operator's browser                            listener's page
      | WS audio | WS text | WebRTC                     ^ WS, after_seq
      v                                                 |
    ingest endpoints --lock--> chunk queue         listener handler --- tracker (caps)
                                   |                 ^          ^
                             transcription task      | scrollback  | subscribe
                                   | numbered events |          |
                                   v                 |          |
                         in-process bus --> fanout --+--> DB    +-- Redis channels
                                            (store, publish, translate xN)
    sessions API: draft -> active -> ended, gauge, kill-switch --> Redis control channel

| Component | State it keeps | Operations | Talks to |
| --- | --- | --- | --- |
| Operator ingest (`backend/services/audio_ingest.py`, `ws/operator_audio.py`, `ws/operator_transcript.py`, `api/routes/webrtc.py`) | `_active_operators`, a chunk queue and a transcription task per connection, byte windows | connect, acquire, receive, enqueue, transcribe, drain, release | bus, fanout, Whisper, DB |
| Caption pipeline (`services/pubsub.py`, `services/translation.py`) | subscriber queues, `_tasks`, segment and translation rows | publish, start, stop, consume, translate | DB, Redis, providers |
| Listener streaming (`ws/listener.py`, `services/listener_connections.py`) | `_by_ip`, `_by_session`, the connected-listeners gauge, `last_seq` per handler | connect, acquire, scrollback, subscribe, stream, kill, release | DB, Redis |
| Session lifecycle (`api/routes/sessions.py`) | `sessions.status`, languages, active-sessions gauge | create, update, start, stop, join | DB, Redis |
| Startup and shutdown (`main.py`) | the scheduler's tasks, re-armed fanouts | lifespan | all services |
| Transcription provider (`providers/whisper.py`) | window of audio, committed words | slide, deduplicate, filter, flush, retry | Whisper |
| Translation/TTS providers, TTS cache (`providers/google_*.py`, `services/tts.py`) | files and `.meta` files | synthesize, look up, evict | Google, disk |
| Retention, scheduler (`services/retention.py`, `scheduler.py`) | job tasks | periodic passes that delete | DB |
| Rate limiting (`core/rate_limit.py`, byte limiter of ingest) | sliding windows | hit, prune | - |
| Authentication (`api/routes/auth.py`, `core/security.py`, `ws/auth.py`), administration (`api/routes/admin.py`), feedback | users, refresh tokens | login, refresh, roster changes | DB |
| Frontend (`src/frontend/src/`) | sockets, cursor, TTS queue, tokens | listener page, operator console, API client | HTTP, WS |

### What is hard, and what makes each part correct

- **Operator ingest.** Three endpoints share one lock, and each leaves it by
  several paths: refused, accept failed, offer failed, drained, drain timed out,
  cleanup repeated or ended by an exception. Correct: one operator at a time, one
  producer of captions at a time, the lock held exactly by the handler that took
  it, the tail of the audio transcribed, and the lock given back.
- **Caption pipeline.** Translations of a segment run concurrently, each with
  three points of failure; the bus drops when full; the consume loop is
  cancelled wherever it is; operators come and go and each numbers anew.
  Correct: order, no duplicate, growing sequence numbers, rows that belong
  together, one language's failure costing the others nothing.
- **Listener streaming.** Scrollback and pub/sub are two sources with a gap and
  an overlap between them; a page vanishes at any point; counters are kept by
  hand. Correct: in order, once, nothing lost that was subscribed to, the caps
  never exceeded and no slot leaked, the kill-switch effective.
- **Session lifecycle.** Read, check, commit with no lock; a gauge in memory
  beside a status on disk; a message after the commit. Correct: draft, active,
  ended; the gauge agrees with the database; no kill-switch before its commit.
- **Transcription provider.** Each request repeats most of the audio of the
  one before; what was already said is found again by its words, some of which
  were heard differently. Correct: all audio sent, no new word cut, an exact
  transcript reproduced exactly, music announced once and ended once.
- **Provider calls and limiters.** A permit kept through retries, waits and
  cancellations; windows of time pruned by hand, one of them of a limiter that
  two threads may build. Correct: no permit leaked, no waiter starved, no window
  over its limit, no refusal without cause.
- **Retention and the TTS cache.** Passes of several workers delete rows and files
  while operators, translations and listeners use them; a file and its time stamp
  are written one after the other. Correct: what is due goes in the end, what is
  not stays with all that belongs to it, nothing outdated is sent.
- **Accounts.** Read, check, commit again; tokens that outlive the check they were
  issued on. Correct: an administrator remains, nobody revoked gets anything new.
- **Not modelled, hard as well.** The browser's shared token refresh, the page's
  reconnect timers, the console's capture. They are in the plan (section 8).

## 2. How the code is read

- *Step.* One asyncio loop runs everything, so a step is what a coroutine does
  between two awaits that can suspend it. The `asyncio.Lock`s of
  `audio_ingest.py`, `pubsub.py`, `translation.py` and
  `listener_connections.py` are never held across a suspension; `async with
  lock` alone is no step. `Queue.put` suspends only when full, `Queue.get` only
  when empty.
- *Database.* READ COMMITTED; a commit is one step; a commit in flight when the
  task is cancelled may or may not happen.
- *Redis.* A publish reaches whoever is subscribed at that moment, in order, and
  nobody else. A publish that raises may have been delivered.
- *Cancellation.* `asyncio.wait_for` cancels what it waited for. `fanout.stop`
  pops the task before it cancels and waits for it, so a `start` in between makes
  a new one.
- *Audio, text, wording.* A chunk is `"chunk"`, a segment is its ordinal in the
  order of speech, a language is a model value.
- *Workers.* The unit file `deploy/systemd/sunday-voice-api.service:15` starts
  four workers. The lock, bus, fanout, tracker, gauges, limiters, semaphore and
  jobs are module-level state of each, so what the modules of the live path show
  holds within one worker: two operators of one session whom the load balancer
  sends to different workers are two lock holders, and caps and limits apply once
  per worker. `Housekeeping` alone has several workers, because database rows and
  cache files are what they share.
- *Addresses.* `_client_ip` (`ws/listener.py:186`) trusts the first entry of
  `X-Forwarded-For`, as its docstring says. A page is taken to keep its address
  over all its connections; the caps per address are about what the proxy forwards.
- *External code.* aiortc, Whisper, Google, Redis and the browser's WebSocket
  appear as the outcomes the code distinguishes.

## 3. Modules

| Module | Models | Correspondence |
| --- | --- | --- |
| `OperatorIngest` | lock, queue, task, drain and the three endpoints of one session | `lock` is membership in `_active_operators`, `fanout` in `translation_fanout._tasks`; `conn[c]` the handler's place (`"stranded"`: a WebRTC cleanup that ended by an exception before its release), `drain[c][k]` the k-th run of `drain_transcription`, `task[c]`, `queue[c]` the transcription task and its queue |
| `CaptionPipeline` | a segment's way from endpoint to Redis | `bus` the subscriber queue, `fan` the place of `_consume_loop`, `tr[l]` of `_translate_one`, `rows`/`trows` the tables, `out[l]` what the Redis channel carried |
| `CaptionFeed` | abstract: transcript and channels, without operators, queues or tasks | refined by `CaptionPipeline` |
| `ListenerStream` | pages, connections, handlers, tracker, kill-switch | `pc[c]` the handler's place, `ipCount`/`sessionCount` the tracker, `last[c]` `last_seq`, `inbox[c]` Redis's messages, `wire[c]` the socket, `heard[k]` what the page received |
| `SessionLifecycle` | start, stop and update requests, gauge, restarts | `pc[r]` the request's place, `status`/`edits`/`finished` the row, `missed` the active sessions that a failed seed query left out of the gauge |
| `SessionLife` | abstract: configured as a draft, started once, ended once | refined by `SessionLifecycle` |
| `SpeechWindow` | `transcribe_stream`, the overlap deduplicator, music mode | `spFirst..Len(spEnds)` the deque of chunks, `spFresh` `bytes_since_flush`, `spCommitted` `dedup._committed`, `spOut` what was yielded, `spMusic` the counters of `transcription_task`. Words are numbers in the order of speech |
| `ProviderCalls` | requests to the three APIs, retries, the shared semaphore | `pcAt[c]` the place in `_post_with_retry`, `pcFree`/`pcWaiters` the `asyncio.Semaphore` |
| `RateWindow` | `SlidingWindowRateLimiter` and its lazy construction, `AudioByteRateLimiter` | `rwHits[l][k]` the deque of limiter `l`, `rwFrames` the audio window of the session, `rwLimiter` the module's global |
| `Housekeeping` | retention, TTS cache, scheduler, in several workers | `hkRows`/`hkVoices` the tables, `hkFiles[x]` the audio and `.meta` file of a text, `hkNext[s]` the counter of the session's ingest, `hkJobs[w]` the periodic tasks (`Enabled`: those `main.py:44` and `:61` add), `hkEvicting[w]` between reading a `.meta` file and removing |
| `Accounts` | users, tokens, sockets, roster and budget requests | `acUsers`, `acSettings` the tables, `acReq[r]` what a request has read and where it stands, `acTokens`/`acSockets` what was handed out |
| `*_proofs` | theorems about the module of that name | |
| `MC*` | small instances for TLC | |

The modules meet at narrow interfaces, each of which one module shows and the
next takes as given. `OperatorIngest` shows that one connection at a time
produces segments (`SingleProducer`), and `CaptionPipeline` therefore has one
operator at a time. `CaptionPipeline` implements `CaptionFeed`: captions are
stored under growing numbers and carried when stored; `ListenerStream` feeds its
pages from exactly that, and additionally loses publishes. `SessionLifecycle`
shows that the kill-switch follows the commit; in `ListenerStream`,
`EndSession` is that commit and `KillSwitch` that message.

`SpeechWindow` is what `OperatorIngest` calls transcription: there a chunk is
taken, a call made or the tail flushed, here with which audio and to which text;
its requests are the calls of `ProviderCalls`. `Housekeeping` numbers captions as
`CaptionPipeline` does: an ingest goes on from `LastKept`, the query of
`starting_sequence`, or starts over, as the text endpoint does and as a failed query
makes any ingest do (`HKIngest`); a number that is still stored is taken for the row
that has it (`HKCaptionAgain`, `translation.py:259`). It does so in one step per
caption, and adds what the pipeline leaves out: rows that are deleted. In both a row
may be committed and not read back (`translation.py:271-272`, `:344-345`): it is
stored, and nothing is made of it.
`Accounts` is what the checks that `OperatorIngest` and `SessionLifecycle` take as
passed rest on.

`OperatorIngest` and `SessionLifecycle` have `active` resp. `status` in common;
a session stopped under a connected operator is `StopSession` of the first, for
the ingest handlers look at the status only when they validate.

## 4. Runs

| Run | Instance | Shows |
| --- | --- | --- |
| `OperatorIngest` | one connection per transport, queue of 2, 3 chunks each | all safety properties of ingest, and `DrainEndsOrWedges` under fairness |
| `OperatorIngestStranded` | one audio connection, queue of 2 | *violation* of `ReleasedAfterDisconnect` |
| `CaptionPipelineFaults` | all transports, 3 connections, 4 segments, a bus of 2, DB, Redis, drain and provider failures | types and bus bound, spoken order |
| `CaptionPipelineFeed` | audio operators, 2 connections, 4 segments, 2 targets of which one fails, Redis failures | growing numbers, rows that belong together, refinement of `CaptionFeed`, `HealthyTargetsServed` |
| `CaptionPipelineRestart` | text operator, 2 connections | *violation* of `SequenceIncreases` |
| `ListenerStreamSafety` | 3 pages at 2 addresses (one asks for a language that is not there), 2 connections, caps of 1, scrollback of 1, 3 captions, every fault | tracker, caps, gauge, order, nothing due dropped |
| `ListenerStreamLiveness` | 2 pages, 2 connections, caps of 1, 1 caption | `KillCloses`, `GoneReleases` |
| `ListenerStreamGap` | 1 page, 1 connection, no fault | *violation* of `Seamless` |
| `SessionLifecycleSerial` | 2 sessions, 6 requests, DB and Redis failures, 2 restarts, no overlap | gauge (seed queries that fail included), kill-switch, refinement of `SessionLife` |
| `SessionLifecycleRevived` | 2 starts and a stop that overlap | *violation* of `StartsFromDraft` |
| `Speech` | windows of 3 bytes sliding by 2, 4 chunks of 1 or 2 bytes and up to 2 words, anchors of 2 to 3 words, 2 inexact transcripts; 3 transcribers and one other caller, 1 permit, 2 attempts; 2 requests for one key, 2 per window of 2; frames of 1 or 2 bytes, 3 per window | all chunks sent, new words kept, exact streams exact, music mode, permits, waiters, windows |
| `BackOffice` | 2 workers with both tasks, 1 session, 1 text, retention of 1 h, 3 captions, 2 h, 2 faults; 3 users, 2 requests at a time, 3 in all, tokens of 1 and 2 units | rows and files under retention, crashes and eviction, whatever numbers operators start from; roster, settings, revoked users |

`MCSpeech` and `MCBackOffice` hold several modules that share no variable. Every
reachable state of such a composition is a combination of reachable states of
its parts, and every property speaks of one part, or is a conjunction with one
conjunct for each; so instead of interleaving the parts, `part` chooses at the
start which one runs. `MCBackOffice` splits `Housekeeping` and `Accounts` further
by their inputs, to afford different bounds: `rows` has one worker and rows only
(passes that fail, numberings that start over and reused rows included; one
translation at a time), `files` two workers and the whole life of a cache
entry, `access` tokens beside changes of a user's status, `roster` any two changes,
`settings` the budget.

**Bounds.** `QueueMax = 2` with three chunks fills the queue, evicts, and lets
the sentinel meet a full queue; a longer queue adds no new branch of
`enqueue_chunk` or `drain_transcription`. Three connections, one of each kind,
give every pair of transports one after the other and at once. `BusMax = 2` with
four segments overflows the bus while one event is in hand. Two audio
connections reseed the numbering once, the third of `CaptionPipelineFaults`
follows one that ended without stopping the fanout. Three captions with a
scrollback of one make the scrollback drop, overlap with the stream and follow a
reconnect; caps of one let two connections contend for each slot, and the proofs
of section 6 cover all other values. Two restarts put one before and one after
every commit. The bounds `MaxChunks`, `MaxCloses`, `MaxTexts`, `MaxEpochs`,
`MaxCaptions` and `MaxRestarts` limit counters only and do not occur in the code, nor do
`MaxSlips` (inexact transcripts), `MaxTime`, `MaxHours`, `MaxClock` (clocks),
`MaxFaults` and `MaxOps`.

A window of three bytes with slides of two drops, keeps and overlaps chunks of
one and two bytes; the code's values (240,000 bytes sliding by 48,000, anchors of 3
to 12 words, a history of 300) keep the same order, which is all
`SpeechWindowAssumption` asks. Two inexact transcripts let the second meet what
the first left in the history. Three transcribers at one permit queue two. Time
runs to twice the rate window, so that windows lie before, across and after a
boundary. With a retention of one hour and a clock that reaches two, what was made at
the start falls due, is deleted, and new captions of the same number and text come
after; two faults are one for the writer
of a file and one for its worker.

**Deadlock** is not checked: a meeting in which every connection is over, every
caption stored and every request served is a legitimate end of each model.

**Symmetry** (of connections) is used in `ListenerStreamSafety` alone, which
checks no temporal property.

**What the properties leave out on purpose.**
`AudioTailTranscribed` speaks of WebSocket audio: a WebRTC track may flush its
window after the sentinel was queued (`webrtc.py:152`).
`FanoutWhileIngesting` speaks of WebSocket operators: `webrtc_offer` never arms
the fanout. `DrainEndsOrWedges` names the one way in which a drain does not
end. `SequenceIncreases` and `ImplementsFeed` are checked for audio operators,
without database faults and drain time-outs, because each of text operators and
such faults breaks them (section 7). `KillCloses` speaks of a connection that had
subscribed when the kill-switch was published. `LockIffHeld` names the one way to a lock that nobody is left to release, a
WebRTC drain that raised (`ReleaseSkipped`), and excludes all others.
`GaugeCountsOpen` is an inequality: see the gauge in section 7. `GaugeCountsActive` and `ImplementsLife`
are run with requests for one session that do not overlap, as in one operator's
browser that waits for each answer; section 6 has the exact condition. The gauge
falls short by `missed`, which only a failed seed query sets and the next start that
succeeds sets back. `CaptionsKept` claims distinct numbers always, but their order
only for captions of operators who were numbered on from the rows. `HealthyTargetsServed`
and `ExpiredGone` are run without the database fault that drops a translation
after its commit, resp. with both periodic tasks enabled. `CleanStreamExact` speaks of recordings without an
inexact transcript whose chunks are silent or hold an anchor's worth of words, all
different: repeated phrases are cut (section 7). `WindowCap` allows each limiter that
was built its limit: there is one unless the first requests race.
`SpeechNeverDropped` too speaks of words that are all different.
`AdministrationSound` excuses changes that overlap and an administrator who makes the own
account inactive; neither is guarded (section 7). `RevokedAtCheck` compares with the
moment a request was checked, and says nothing of what happens between that check and the issue,
of sockets already open, nor of passwords: a change of password revokes no token. `ExpiredGone` ends when no
worker is up, and speaks of cache entries with a readable `.meta` file.

## 5. Fairness

- `OperatorIngest`: weak fairness of each handler, transcription task and drain.
  The loop runs what is ready; a Whisper call ends by its client's time-out and
  the drain by its timer of 30 s. Clients promise nothing: no fairness for
  connecting, sending or disconnecting.
- `CaptionPipeline`: weak fairness of the consume loop and each translation;
  database, Redis and provider calls return or raise.
- `ListenerStream`: weak fairness of each handler, of the kill-switch request
  that has committed, and of `Notice`: uvicorn's WebSocket keepalive finds a
  dead peer. None for pages, and none for `GetMessageRaises`.
- `ProviderCalls`: weak fairness of a call that holds a permit. A post ends by the
  HTTP client's time-out, a sleep by its timer. None for new calls or cancellations.
- `Housekeeping`: weak fairness of the periodic tasks' steps in a worker that is
  up: `PeriodicTask._run` sleeps and calls its job again whatever the last one
  raised. Faults are bounded, so passes do not fail for ever; a worker that ended
  need not come back (`Restart=on-failure` is not relied on).
- `RateWindow`, `SpeechWindow` and `Accounts` have no fairness: their properties are
  safety.
- `SessionLifecycle` has no liveness property and no fairness.

No strong fairness is used.

## 6. Proofs

Every theorem is stated for all values of the constants, under the assumptions
named with them in each module (finite sets, natural bounds, a queue of at least
one, a threshold of at least one, windows that hold a slide and the chunk that
completes it); each is proved from an inductive invariant, with one lemma per
action or class of actions. All safety properties and both refinements that the
passing runs check are proved, and beneath each liveness property what it rests on
besides fairness; what stays with TLC is listed at the end.

| Proof module | About | Inductive invariant |
| --- | --- | --- |
| `OperatorIngest_proofs` | lock, producers, fanout, tail, the way out of a disconnect | `Inv`, `TailInv`, `OutInv` |
| `CaptionPipeline_proofs` | order, numbers, rows, `CaptionFeed`, healthy targets | `TextInv`, `NumberInv`, `ServedInv` |
| `ListenerStream_proofs` | tracker, gauge, order, delivery, gaps, the way out | `SlotInv`, `GaugeInv`, `StreamInv`, `WholeInv` |
| `SessionLifecycle_proofs` | kill-switch, gauge, `SessionLife` | `RInv`, `UInv`, `GaugeInv` |
| `SpeechWindow_proofs` | window, deduplicator, music mode | `SPInv` |
| `Throttle_proofs` | permits (`ProviderCalls`), windows of time (`RateWindow`), types of `MCSpeech` | `PCInv`; `RWInv`, `CapInv`, `AudioInv` |
| `BackOffice_proofs` | `Housekeeping`, `Accounts`, types of `MCBackOffice` | `HKInv`, `DutyInv`; `ACInv` |
| `OrderFacts` | least and largest elements, prefixes | - |

- **Ingest.** `TypeInvariant` by induction, with lemmas about `Enqueue` and taking
  the head of a queue. `SingleOperator`, `SlotIffHeld`, `OneProducer` and
  `FanoutStaysArmed` add to the types how a handler's place determines its
  task and drain (`InStep`): who does not hold the lock has no live task that could
  publish, a WebSocket handler drains by its first run only, and who is
  stopping or releasing has a drained or cancelled task. Without these the lock
  property is not inductive: the release after the drain would not be known to
  belong to the holder. They assume `OneCloseEach`, that a peer connection
  reports one closing state: `_on_connection_closed` runs once per such state and
  `release_operator_lock` pops the entry whoever set it (`webrtc.py:282`), so with
  two the second run could release another operator's lock. How often aiortc
  reports one is not in this repository. The run has `MaxCloses = 1`.
  `SlotIffHeld` says in both directions who accounts for an entry of
  `_active_operators`: a handler that holds it, or a WebRTC drain that raised.
  `TailIsTranscribed` needs no such condition: the sentinel is the last item of
  its queue, and who drained saw it taken.
- **Pipeline.** `OrderOfSpeech` rests on `TextInv` and holds whatever fails: what
  is queued is later than what is handled, what is handled later than what the
  channels carried, and a channel on which the current event is still awaited
  has only earlier ones (`LogInv`, `Awaited`). `NumbersIncrease`,
  `TranslationsJoinTheirRow` and `PipelineIsFeed` assume `Numbered` (audio operators, no
  database fault, drains that end); each part of that assumption is needed,
  for section 7 has a behaviour that breaks them without it. `NumberInv` relates
  the operator's counter, the queue, the event in hand and the table: every
  number above the table's largest is given to one segment only. The refinement
  maps the table to the transcript (`Transcript`) and shows every step to be one of
  the feed or a stutter, the late commit of a cancelled fanout included.
- **Listeners.** `SlotInv` has the types of the handlers' places, counters equal to the
  cardinalities of the sets of holders, caps. Steps fall in three classes, each with a
  lemma: those that keep the holders, the acquire, and the release; the floor of
  zero in `release` is shown never to act. `StreamInv` orders the four places a
  caption passes: what a page has heard lies below what is on its wire, that at or
  below the handler's `last_seq`, and the inbox above it; a cursor that is not
  zero is on the wire or was heard. From the order follows `OrderKept`; that
  a caption the handler skips (`seq <= last_seq`) was told already is
  `NothingDueIsDropped`. `OneConn` is the reason why a step needs to be
  examined for one connection only.
- **Sessions.** `KillAfterCommit` holds whatever overlaps, since a
  stop that is past its commit has committed (`StopsCommitted`).
  `TwinsApart` says that no start reads its row while another start of that session
  is between its read and its commit, and no stop while another stop is;
  `UpdatesApart` the same of an update and a start. A start and a stop need no such
  condition: one is refused where the other is not, so what a start or a stop
  has read is still so at its commit (`TurnsRead`, `TwinsOut`; for updates
  `UpdatesRead`, `UpdatesOut`). Under `TwinsApart` a session becomes active from
  draft only (`StartsOnceUnlessTwins`, the complement of `SessionLifecycleRevived`)
  and the gauge lags behind the rows by exactly the requests between their
  commit and their count (`GaugeCountedUnlessTwins`), less those a failed seed query missed; with `UpdatesApart` too the
  endpoints implement `SessionLife` (`LifeUnlessTheyMeet`). TLC finds each violated
  when its condition is dropped. That nothing overlaps (`~Overlap`, as in
  the serial run) implies both (`SerialIsApart`), hence `EndpointsImplementLife`
  and `GaugeIsCounted`.
- **Transcription window.** `SPInv` has five parts. `WindowInv`: the bytes not yet
  sent are exactly `spFresh` and lie inside the window, hence `NothingLeftOut`.
  `EmittedInv`: what is remembered was emitted, so an anchor that is found cannot lie
  beyond what was said, hence `NewSpeechKept`. `MusicInv`: the run is the
  number of music texts at the end of the output. `CleanInv`: without an
  inexact transcript the output is the recording up to a chunk that is no
  earlier than the window (`Exact`, `Faithful`). It needs `PhrasesInv`, that two places of
  a recording in whole phrases are an anchor apart or equal; `ExactAdds` then
  shows that the deduplicator finds its anchor exactly where the last
  transcript ended. The code's loops over anchors and positions are
  written as choices (`NewText`), and the lemmas on them (`NewTextIsSuffix`,
  `AnchorSuffices`, `CommitKeepsNewest`) say what the loops return.
- **Permits.** `PermitsNeverLeak` from `PCInv`: the semaphore's queue is
  exactly the waiting callers, each once, and permits free plus held are its size. A
  permit that is handed on goes to the head of the queue in the step that frees it.
- **Windows of time.** `RWInv` says where in the history of requests let through each hit
  that a limiter still holds stands (`Recorded`), so eviction from the head
  drops exactly what left the window; a refusal is then earned. `CapInv` bounds
  what each limiter let through in any window that ended by now: the window that
  ends now by the hits held, and earlier ones do not change. The limits of
  several limiters are added up by `ClassesBound`. `AudioInv` is the same for
  bytes: the frames held are the tail of the frames heard, and no byte inside
  the window is missing (`HeldWeighsAll`). The weight of a window is defined
  as the number of its bytes (`BytesOf`), not by a fold, because facts about
  cardinality can be cited and a fold's induction cannot.
- **Gaps.** `SeamlessUnlessBroken` complements `ListenerStreamGap`: a page has every
  caption since its first as long as nothing is stored before the last caption was
  published (`NothingUnpublished`), nothing is published between a handler's
  scrollback and its subscription (`NoGapBeforeSubscribe`), and a reconnecting page
  missed no more than the scrollback holds (`ScrollbackReaches`). Lost connections
  and failing look-ups leave no gap of their own. `WholeInv` says of each page
  that up to the handler's `last_seq` it knows all since its first, and that what came
  later waits in the inbox. With any one condition dropped TLC finds a gap.
- **Disconnects.** `OnlyWedgedIsStuck` and `EveryStepLeadsOut` say of a WebSocket
  handler that is leaving: at most `2 * QueueMax + 7` steps are left, each step
  it, its task or its drain takes makes it fewer, and one can be taken unless its
  sentinel waits for room in a full queue whose task is dead (`Wedged`). So
  `DrainEndsOrWedges` needs fairness and nothing else. `WedgedForGood` and
  `WedgedKeepsTheLock` say what `OperatorIngestStranded` shows in one behaviour: no
  step leads out of that place, and the lock stays taken.
- **Beneath the other liveness properties.** `HealthyTargetsServed`: a segment stays due
  in each healthy target and comes nearer with that target's steps (`OwedIsHeld`),
  and the fanout does not leave it before all have stored and carried it
  (`HealthyTargetsKept`). `KillCloses`, `GoneReleases`: nothing overtakes or loses
  the kill-switch in an inbox (`KillComesNearer`), its handler is in the loop
  or past it (`KillIsRead`), and stages only advance (`HandlersGoOnward`).
  `WaiterServed`: nobody overtakes a waiter (`NoOvertaking`), a call under
  way runs down (`RetriesRunOut`), and who waits, waits for such a call
  (`NobodyWaitsForNothing`). `ExpiredGone`: one pass clears all that is overdue
  (`OnePassIsEnough`), and only time makes more of it (`NothingBornOverdue`; an
  old `.meta` beside audio that is being renewed is the exception).
- **Compositions.** `BackOffice_proofs` extends `MCBackOffice` and `Throttle_proofs`
  extends `MCSpeech`: each step of the composition is, for every part, one of that
  part or none, so the parts' invariants hold in it (`OfficeTypes`,
  `PartsTypes`), whatever values the constants have. `BackOfficeAssumption` says
  that the workers and users `MCBackOffice` names are among those of its parts.
- **Housekeeping.** `CaptionsStayKept` from `CaptionsInv`: the stored rows are
  what no pass had to delete, no translation is older than its row, no two rows of a
  session share a number, and the counter of an ingest that went on from the rows is
  above all of them (`NextAfterRows`). A number that is free is all that an ingest which
  started over can count on, because the pipeline looks for it first
  (`NumberedRows`, `CaptionOverRows`). `AudioIsFresh` from `FilesInv`: whenever a readable
  `.meta` file stands beside audio, the audio is no older than it says, whatever
  writes, evictions and crashes interleave and wherever an eviction stops.
- **Accounts.** `ACInv` ties what a request has read to what is stored now
  (`Fits`): until its commit, nothing it rests on changes unless the change is
  recorded as overlapping. `AccessRevoked` holds with overlap; `StaysAdministrable`
  speaks, as its property does, of histories without.

The largest of the invariants (`SPInv`, `ACInv`) were checked by TLC on the instances
of section 4 before they were proved. Two changes of the models came from the proofs: `StopWaiting` of
`ProviderCalls` became an operator of its own, and windows are weighed by
cardinality. `SpeechWindowAssumption` now names what the code has as a constant,
a music threshold of at least one (`audio_ingest.py:49`).

Only model-checked: liveness (`DrainEndsOrWedges`, `HealthyTargetsServed`,
`KillCloses`, `GoneReleases`, `WaiterServed`, `ExpiredGone`), which rests on fairness
and ENABLED and is beyond the provers used; the theorems named above are its safety
half, and TLC checks that with the fairness of section 5 they add up. What a
function defined by recursion computes for every input cannot be proved with the provers
used; `EmitIndex`, `Trim`, `Evict`, `NewText` and `Weigh` are therefore
written as choices, sets and cardinalities, not as loops.

## 7. Where code and documentation disagree

Shown by a run:

- **A stranded lock** (`OperatorIngestStranded`). The transcription task dies on
  an API error; nobody notices; later frames fill the queue; on disconnect
  `await queue.put(None)` waits for room that never comes, before the drain's
  time-out has begun. The lock stays set and every later operator is refused.
- **Numbers that start again** (`CaptionPipelineRestart`). The text endpoint
  counts from zero on each connection; listeners drop the captions as seen and
  the fanout takes the old rows for them.
- **A gap before the subscription** (`ListenerStreamGap`). What is published
  between scrollback query and subscription reaches the page in neither way.
- **A session revived** (`SessionLifecycleRevived`). Of two overlapping starts
  the second can commit after a stop.

Seen while modelling, part of the models, without a run of their own:

- `operator_audio.py:160-176` looks for a task that died with an exception, but
  `transcription_task` swallows it (`audio_ingest.py:315`): the operator goes on
  speaking into a queue nobody reads.
- `webrtc.py:249`: the WebRTC endpoint arms no fanout; its captions are stored
  and translated only if an earlier operator or the startup left one running
  (compare `docs/architecture.md:20-21`).
- `audio_ingest.py:332` uses `asyncio.suppress`, which does not exist: after a
  drain that times out an AttributeError skips the fanout's stop, and for WebRTC
  the release of the lock: `_on_connection_closed` (`webrtc.py:175-176`) has no
  `finally`, its coroutine is over and the session stays locked until the process
  restarts (`"stranded"`, `ReleaseSkipped`).
- `translation.py:78` cancels the consume loop with events still queued, so the
  last segments the drain waited for may never be stored (compare
  `docs/architecture.md:65`).
- `audio_ingest.py:228` seeds the numbering with 0 when its query fails, as
  `operator_transcript.py:107` does always. As long as the rows are there the new
  captions are taken for the old ones of the same number; once the retention has
  deleted those, the new captions are stored under numbers lower than those of older
  captions, and a scrollback in the order of numbers shows them first.
- `main.py:115` seeds the gauge "so the metric is correct after a restart"; when the
  query fails (`main.py:126-127`) it stays 0, later stops take it below the number of
  active sessions or below 0, and only another restart corrects it.
- `translation.py:271-272`, `:344-345`: a refresh that fails after the commit drops
  a caption's translations, or a translation's publication, although its row is stored.
- `main.py:89-100`: an eviction is reported only when all of it succeeded; one that
  cannot remove a file may leave a `.meta` file without audio, and is tried again.
- `listener.py:286`: a kill-switch published after the status was looked up and
  before the subscription is missed; that listener stays until its page goes.
- `listener.py:245`: the gauge goes up before the `try` that lowers it; an accept
  or scrollback that fails in between leaves it up for good.
- `sessions.py:203`, `:277`: an update may land after the start it raced, and two
  overlapping starts raise the gauge twice.
- `whisper.py:131-139`: the anchor is looked for from the right and by words
  alone, so a speaker who repeats a phrase ("amen, amen, amen") loses what lies
  between its first and last occurrence in the window, against the comment at
  `whisper.py:138` ("speech is never dropped"). `SpeechWindow`'s words are all
  different; there the comment holds (`SpeechNeverDropped`). A music token in the
  history makes the next window repeat, since nothing in it matches.
- `whisper.py:99-103` says the shrinking anchor tolerates differences; it shrinks
  from its head and always keeps the newest words, so a difference in those
  always repeats the window.
- `whisper.py:220-224`: if the first chunk is evicted from a full queue before the
  task starts, the header is lost and every request is no valid WebM.
- Connection errors are not retried by any provider; only answers of 429, 5xx and
  time-outs are.
- No caller passes a `CostMeter` (`main.py:72`, `:138`) and no class implements one:
  the usage table stays empty and the budget alert never fires, whatever
  the budget settings say.
- `deps.py:29-38`: the limiter is built without a lock in the thread pool; all
  limits are per worker.
- `audio_ingest.py:111`: the byte window belongs to the session; an operator
  disconnected for its sake finds it as full on reconnecting.
- `api/routes/tts.py:9-14` says the service checks that the session is active; only
  the route does, and the service looks the segment up a second time.
- `translation.py:202-207` offers a `tts_url` whether or not audio was cached; the
  listener then gets 404.
- `tts.py:91`: the eviction goes by `.meta` files. Audio whose `.meta` was never
  written, or could not be read and was removed, stays on disk for good, against
  the 48 hours that content is said to be kept.
- `retention.py:54` deletes captions of sessions that are still active. When all are
  gone, the next operator starts at 1 again (`audio_ingest.py:228`), and pages
  whose `after_seq` is higher drop what follows as already seen.
- `admin.py:194`: the guard counts when an admin demotes itself; it does not when
  one sets the own account inactive by PATCH, nor does it hold against two demotions
  that overlap.
- `admin.py:72`: of two overlapping budget updates the stored pair may mix; each
  response repeats its own payload.
- `google_tts.py:135` runs a subprocess in the event loop, for up to 10 s.
- `client.ts:73` speaks of retrying the original request after a refresh; none is
  made.

## 8. Plan

Done: ingest, pipeline, listener stream, session lifecycle, transcription window,
provider calls, limiters, housekeeping, accounts; the proofs of all their safety
properties, and of the safety half of their liveness. What is left:

1. `ListenerPage` and `OperatorConsole`: sockets, timers and refs of the two
   pages, the client's shared refresh; the page as the client `ListenerStream`
   assumes.
2. Extensions of modules that exist: control messages on the operator's socket,
   more than one session where state is shared (registry of buses), `stop_all`;
   several workers under one session.

The two runs of section 4 that hold several modules take no more; a module of the
frontend would replace properties of the runs that proofs have made redundant.

Abstract specification worth adding: a cache that answers what was stored and
not expired (for the TTS cache).

Proofs worth adding: the cap of the listener tracker and the permits as
refinements of one abstract pool; how far `NumbersIncrease` holds with database faults
(numbers grow from one failed query to the next); which of the conditions in
`Numbered` each of the pipeline's theorems needs.

## 9. Not modelled

Left out for good: the wording and layout of captions, the profanity filter's
regular expressions (only whether a segment is empty after it: `Masked`), audit rows,
logs and request metrics, feedback (one insert), creation and listing of sessions,
voice choice and token fetch of the TTS provider, OpenAPI and settings, schema
migrations, styling and the pages that are forms over the API, the infrastructure
files. Folded: a look-up in the cache is one step (a `read_bytes` of a file another
worker removes meanwhile is a 500 of one request); a second translation of a text that is
being voiced writes the same files. Left out for now: section 8. Component by component the reasons are in
`PROJECT.json`.
