# A verification development for OpenNOW

OpenNOW is a desktop client for a game-streaming service.  A Qt shell
(`opennow-qt`) shows the interface, a Rust core (`native/opennow-core`) talks to
the service and keeps the user's data, a Rust streamer
(`native/opennow-streamer`) is embedded in the shell and plays the stream, and a
small helper program exchanges the installation when an update is applied.  This
directory holds TLA+ models of the parts of it whose correctness depends on
order, failure and concurrency, TLC configurations that check them, and proofs
that TLAPS checks.

Paths below are relative to `src/`.  `PROJECT.json` maps every definition to the
lines it models.

## 1. The system and its components

| component | state it keeps | operations | hard behaviour | correct when |
|---|---|---|---|---|
| update helper, `native/opennow-core/src/update_apply/{mod,process}.rs` | `plan.json`, `outcome.json`, `ack.json`, `apply.lock`, the four paths of a transaction, process identities | prepare, launch, run the helper, acknowledge, recover | crashes between any two file operations, calls that fail after they took effect, processes that end in any order | a whole installation exists at every moment; what is told is true |
| managed packages, `update_apply/{managed,recovery}.rs` | the same, an installer process and the boot identity | install, verify, recover | reboots, an installer that outlives its helper | a finished installation is told, an unfinished one can be tried again |
| updater service, `updater.rs` | status, verified download, prepared transaction, operation lock, `active-apply.json` | check, download, install, reconcile | two processes that share an outcome, a restart of the core | no status is left busy, at most one helper works |
| CloudMatch sessions, `cloudmatch.rs` | the held session | create, claim, poll, stop, report an advertisement, discover | calls of several workers cross with no lock over the network | the core holds the session the user has |
| request admission and workers, `requests.rs`, `main.rs` | active ids, cancellations, worker threads | admit, cancel, dispatch, answer | cancellation against completion, the bound on workers | a method runs at most once, interactive methods always find a worker |
| link client of the shell, `opennow-qt/src/core/CoreClient.cpp` | pending requests with deadlines and retries, the handshake, restart attempts | start, stop, request, cancel, read a line | slots that run inside waits, crashes, retries of refused requests | every caller is told once, and the link comes back |
| legacy streamer process, `streamer.rs` | worker slot and status snapshot | start, stop, reap, status | start against stop, two locks for one decision | one worker, whose status is the one shown |
| Store requests and caches, `store_requests.rs`, `server_vpc_cache.rs`, `store_cache.rs`, `store_index.rs`, and the Store calls of `gfn.rs` | pace, cool-down, saved pages, refresh epoch, local index | list, refresh, search locally, list the library | locks held over the network, cancelled waiters, refreshes that cross fetches | a refresh is final; requests are shared, paced, and never sent during a cool-down |
| account and catalogue, `gfn.rs` | tokens, device sign-in | sign in, refresh, query | polling with back-off, a refresh that crosses a sign-out | no token of a signed-out account returns |
| settings, vault, artwork, media library | files | load, save, evict | partial writes, eviction against use | what was saved is read again |
| streamer session, `opennow-streamer-core` | state, generation, the worker of a session | start, recover, stop | events of an older generation, a worker that ends while it is stopped | a session ends once, and nothing of it is shown afterwards |
| NVST transport, `opennow-streamer-transport` | replay and reorder windows, NACK ranges, keyframe request | receive, retransmit, recover | sequence numbers that wrap, loss, reordering | frames in order, and the picture recovers |
| media queues and pipeline, `opennow-streamer-platform` | bounded queues, the reference chain | push, pop, pause, clear, close | a full queue, a gap, a decoder failure | no frame is decoded without the one it refers to |
| embedding interface, `opennow-streamer-ffi` | command queue, dispatchers, frame mailbox, tokens | create, command, acquire, release, destroy | two threads and callbacks | answers and events keep their order; a frame is not used after its release |
| shell state, `qml/state/ShellStore.qml`, `src/streaming` | session, stream, recovery and update as the user sees them | launch, recover, retry, exit | answers that arrive late, timers, the user | the screen follows the session, and a broken stream is recovered or given up |
| the rest: localisation, rendering, diagnostics, Playnite plug-in, scripts | | | | not concurrent, or outside this repository |

How they interact: the shell and the core exchange JSON lines over the pipes of
the core process.  The core's reader admits a request and a worker thread runs
it; workers share the services (updater, CloudMatch, streamer) through their
mutexes, and the session methods and the installation of an update through one
gate.  The updater starts the helper as a process of its own; from then on they
share the files of a transaction, and the helper waits for the processes of the
shell and of the core to end.  The new shell acknowledges its start in a file.
The shell drives the embedded streamer by commands and is called back with
answers and events; when a stream breaks it stops the streamer, asks the core for
the session again and starts the streamer anew.  Inside the streamer, packets
become frames on the receive thread, frames pass three bounded queues to the
decoder, and whoever notices a loss asks the thread of the bundle for a keyframe.

`PROJECT.json` lists the same parts as `components`, with the reason where one
is not modelled, and as `hazards` the places where a test would hardly reach a
mistake, with the properties aimed at each.

## 2. Modules

| module | models |
|---|---|
| `SafeReplacement` | what an exchange of installations promises, without files, processes or failures |
| `UpdateApply` | the helper, the launching core, both applications, crashes and failing calls |
| `UpdateApplyProofs` | the theorems about it |
| `ManagedInstall` | the helper of a package-manager update, the records it leaves, and the cores that find them |
| `ManagedInstallProofs` | the theorems about it |
| `CorePipes` | the core process and its two pipes |
| `CoreRequests` | admission, cancellation and the workers of the core |
| `CoreClient` | the shell's side: deadlines, retries, handshake, restart, stop |
| `RequestPromise` | what the caller of one request is promised |
| `CoreLink` | the composition of the three, and its properties |
| `CoreLinkProofs` | the theorems about it, with the refinement of `RequestPromise` |
| `CoreWorkers` | the workers that the next two share |
| `Updater` | the updater service and, reduced to its lock and outcomes, the helper |
| `CloudSession` | the session calls against an external service |
| `SessionUpdateGate` | the composition: the gate, the dispatch rules, restarts of the core |
| `SessionUpdateGateProofs` | the theorems about it |
| `StoreCatalog` | the saved Store: schedule, look-up of the server, pages, refreshes, local index |
| `StoreCatalogProofs` | the theorems about it |
| `FrameSource` | what a receiver of frames promises to those behind it |
| `RtpReorder` | the reorder window for packets |
| `NvstFeedback` | the pending NACKs and the keyframe request |
| `NvstReceiver` | the video receiver between a server, a network and the frames it hands over |
| `NvstReceiverProofs` | the theorems about it, with the refinement of `FrameSource` |
| `VideoQueue` | the queue of compressed frames, which drops and asks |
| `D3d11Decoder` | the decoder's thread and the scene graph that adopts and retires it |
| `VideoDelivery` | the composition of `FrameSource`, both queues and the decoder |
| `VideoDeliveryProofs` | the theorems about it |
| `StreamEngine` | the embedded streamer: command queue, engine thread, the worker of a session, dispatchers |
| `StreamRecovery` | the life of one session in the shell, as functions on its state |
| `StreamPresentation` | the runtime: when frames are shown and input is captured |
| `StreamSession` | the composition of the three with the core's answers, timers and the user |
| `StreamSessionProofs` | the theorems about it: order and presentation, and then recovery |
| `MC*` | the instances TLC runs |

### UpdateApply

State and code: `files` is the content of the four paths of a transaction
(`target`, `previous`, `payload`, `failed`), `status` and `restarted` are
`outcome.json`, `ack` is `ack.json` with the life of the process it names, `pc`
is the place in `run_helper`/`apply`, and the remaining variables are the
processes the plan records and those the helper starts.  Every write or rename
is an action.  It fails before it takes effect, or after (the directory is
synced after the rename, so a write can take effect and still report an error),
bounded by `MaxFaults`.  `HelperCrash` and `Reboot` can come between any two
actions, and the helper can be started again over what is left.

`TreeCheck` is the platform: on Unix `owned_tree_is_running` asks for a whole
process group, on Windows for the recorded leader.

### ManagedInstall

The package manager is external: it registers the package, replaces the files
now or leaves them to the next boot, and ends with success, with the code for a
restart, or with an error; a restart of the system or a kill of the helper can
come at any moment.  MSI and DEB are modelled together, since the helper treats
their exit codes alike.  `disk` is what survives: the outcome with the process it
names, the boot marker, and whether the shell's `active-apply.json` is saved.
`pc` has one place per write of the helper, so that it can be killed between any
two.  A look of the core at its transaction reads up to five things; `fails`
names the one that cannot be read or written, or is "none".  `watch` is history:
how the helper's watch over the installer came to an end ("lost" when the helper
could not record what it saw, "late" when its deadline passed first), and the
properties say where it matters.

### CoreLink

A line in a pipe is one message; a request is its id and the class of its method
(the handshake, a background method, any other).  The shell's slots are actions.
A slot that is told of a failure may make another request from inside
`failAll`; that is an alternative of `FailAll`.  `blocked` is the wait inside
`stop()`, during which slots of the process object still run, while timers and
calls of the user do not.  In the core, `Begin`, `Finish`, `Answer` and
`Release` are the points at which a worker touches shared state, so that a
cancellation falls between any two of them.

### SessionUpdateGate

A session call reads the held session, asks the service, and stores what it is
told: three steps with no lock across them.  The installation of an update goes
through `prepare`, `save`, `spawn` and `launch`, each with its failure.
`Reconciled` is `reconcile_transaction`, which the calls that look at the status
run first.  The helper keeps only what the core can see of `UpdateApply`: its
lock and the outcomes it records.  CloudMatch is external and is modelled from
how the core uses it: at most one session of the account, whose answers may be
lost, and which can end by itself.

### StoreCatalog

A call runs on a worker of its own: the list of a page, with or without a
refresh, a local search, or the library.  Nobody's lock is a variable: the
locks of a path, of the look-up of the server and of the schedule follow from
the places the calls have reached.  A page in a file is told by how often its
scope had been cleared before the service was asked for it, which is all that
"stale" means here; the body of an answer is read with the request.  Time is
looked at where the code looks at a clock: `pacing` and `cooling` may be found
over by whoever waits for them, and the age of a file or its removal by the
pruning of the cache may go either way.  The removal of a file by a refresh can
fail, which the code does not notice: `left` is history, the files that stayed.
The local index is a scope and the pages it was read from; a result without games
still tells the facets and the totals of that index, so that it counts as told.
`early` is history too: the index, or the page of a call that builds one, was read
while a refresh was between the index and the files.  Errors are not told apart.  A call
whose token is set may still go on, when it is past the checkpoint that looks at
the token; it ends at the next.

### NvstReceiver

The server numbers packets from 0 and answers a request with a keyframe; the
network loses, reorders and delays, and sends again what a NACK asks for.  A
datagram passes the replay window and the reorder window, which makes some
packets ready; `ready` is what `process_datagram` has still to assemble, and
each of them is a step of the assembler, between which the thread of the bundle
may take NACKs or a request.  The loop of `RtpReorderBuffer::push` is the
function in `Turns`: `Turn` is what it does at the first packet it holds, and a
turn takes a packet out (`InTurn`, `OverGap`) or is the last.  `old` in `SendNack` are the ranges whose time has
come.  Pause, resume, timeouts, recovery and packets that cannot be used are
actions of their own.

### VideoDelivery

`FrameSource` stands for the receiver, which `NvstReceiver` implements but for
the case of `nvst_gap`.  A complete frame goes through the bounded channel to the pump, the
compressed queue with its worker, and the decoder's queue; each of them drops
when it is full, in its own way.  A thread that notices a loss in
`invalidate_embedded_video` does so in two steps, so that a keyframe can pass in
between: `alarms` are the threads in the middle of it.  The scene graph binds,
adopts and retires decoders, and its context can be lost with what was staged.

### StreamSession

Generations are told as flags: an answer, event or signal is of the running
session or of an older one.  `commands`, `responses` and `events` are the queues
between the shell's thread and the engine's.  The state of `ShellStore` is one
record, `shell`, and its handlers are functions on it; a handler that gives a
command returns it in `sent`, and a command that the engine refuses is the
second alternative of `Either` or `Handles`.  At most one start and one stop are
on their way at a time (checked when the module was written), so that one flag
for each tells whose answer is awaited.  The core answers each call for the
service or fails it.

`Prompt` is a hypothesis on the queues between the streamer and the shell, which
are in one process: what the streamer has said (`responses`, `events`) is heard
before an answer of the core or one of the shell's timers.  What the streamer is
still doing is not in it: a start (RTSPS requests have 20 seconds each) and a stop
(30 seconds, until `recoveryStopTimer`) go on while discoveries, claims and polls
are answered and the restart timer fires.  Only the preparation, which has no
network behind it, may answer at any time.  `overdue` is history: a recovery has
once given up waiting for its stop.

## 3. What the runs check

| run | bounds | shows |
|---|---|---|
| `update_apply` | 2 failing calls, 2 crashes or reboots, 3 helper runs, 1 profile write | see below |
| `update_apply_missing` | 1 crash, 2 helper runs | finding: a helper that dies inside a rollback leaves a missing target that nobody puts back |
| `core_link` | 3 requests, 1 worker, which background methods may not take, 1 restart, 1 crash, 1 malformed line or process error | a method runs at most once, every caller is told once, a retry never meets its own copy, the reserve of workers, `RequestPromise`; every request ends, and the link recovers |
| `session_update` | 2 workers, 2 transactions, 2 sessions | no session call passes an update, one helper at a time, no status is left busy, a download stays installable |
| `session_update_live` | 2 workers, 1 transaction, 1 session, 1 end of the core | every installation is decided |
| `session_update_lost` | 1 transaction, 2 sessions | finding: the late end of a stop forgets the session created meanwhile |
| `nvst_receiver` | 3 frames of 2 packets, reorder window of 4, 2 NACK ranges of up to 2 packets, 1 attempt each, 1 pause, timeout or unusable packet | a frame is never called contiguous wrongly, nothing is asked for that has arrived, the receiver implements `FrameSource` |
| `nvst_gap` | 7 frames of 1 packet, reorder window of 3 | finding: one packet that releases a complete frame and gives up a gap behind it |
| `video_delivery` | frames modulo 2, queues of 2, 1 and 1, 1 loss or failure, 2 scenes | chains stay whole in the queue, a broken chain is being mended, the picture comes back |
| `stream_session` | 1 recovery of the streamer's own, 2 reconnects, 2 failures, 1 retry, 1 end by the user, `Prompt` | nothing dead is shown, recovery claims only after the old transport is gone, an end is noticed, a reconnection comes to a result unless its stop is overdue |
| `managed_install` | 2 restarts of the system, 1 kill, 3 failing reads or writes | nothing is called completed that is not, nothing else starts under the installer, its end is decided |
| `store_catalog` | 2 calls of any kind, one account with two pages and one with one, 2 files, one halving of a page | a refresh is final but for the files it could not remove, a fetch is shared, requests are paced, every call ends |

`update_apply` checks that an old installation survives until the new one has
acknowledged its start, that a completed update is installed and acknowledged,
that the failure a launcher records hides nothing, that a bad update leaves an
installation, that a rollback that is told has happened, that nothing is moved
under a running process, that the data that goes into service is the last one
saved, that the transaction implements `SafeReplacement`, and that helper and
launcher end.

Why the bounds are enough:

- `update_apply`: two failures are what it takes for the correction of a failed
  step to fail as well (`RolledBackMeansOld` speaks of one, and
  `BadUpdateIsUndone` of none: beyond that they do not hold); two crashes let a
  recovery be interrupted and resumed; a third run of the helper then meets every
  state the first two can leave.
- `core_link`: three requests are the handshake, one that holds the worker, and
  one that is refused, retried or cancelled beside it.  The safety properties
  are proved for every bound; the instance is as large as liveness allows.
- `session_update`: two workers and two sessions are what a stop needs to cross a
  creation; two transactions what an abandoned helper needs to meet its
  successor.  No end of the core: across one, a starting helper is overlooked
  (see "known deviations"), and `NoTransitionUnderUpdate` fails.
- `nvst_receiver`: three frames of two packets have a frame that is lost whole, one
  that is torn, and one behind; a window of four is overrun by the six packets.
  They are too few for a push that releases a complete frame and gives up a gap
  behind it (`EndsBehindGaps` holds in every state of the run), which is why
  `NoSilentLoss` holds there.  `nvst_gap` takes the shortest stream that has such a
  push, for a window of three; that there is no other way is a theorem
  (section 4).
- `video_delivery`: numbers modulo 2 tell a frame from the one before, which is
  all that "follows" needs; each queue can be full, and a second scene adopts
  what the first has left.
- `stream_session`: two failures let a recovery fail as well; two reconnects are a
  first and a last; with a retry the budget is used anew.
- `managed_install`: with a second restart a recovery itself is interrupted; three
  failures cover the wrong answers of one look and of the next.
- `store_catalog`: two calls are what the locks, the schedule and the registry of
  the fetches are about, and what lies between a refresh and the fetch or the index
  it crosses; a second account has its own files but shares the schedule, the epoch
  and the index.  A third call, which begins after a refresh that an index was built
  across, is needed before the exception of `RefreshIsFinal` for such an index is
  used, and before a refresh that does not drop the index is noticed: that is left
  to the proof, which is for any number of calls and pages.

Every bound is a constant named `Max...` (`AttemptLimit`, `Frames`, `...Cap` and
`...Size` are the code's own limits, made small), and stands in the guard of the
action it bounds.  Deadlock is not checked: each model ends where its bounds are
used up, and a transaction, a session or a call ends for good.

Each property of a passing run has a mutant, an operator named `<Definition>_...`
that changes the code the way a plausible mistake would; TLC finds the property
violated when it takes the definition's place.

### What the conditions in the properties say

- `EveryRequestEnds` and `CallsEnd` are `[]<>`: no request and no call is begun
  twice, so that a time at which none is open is the end of all that have begun.
- `LinkRecovers` leaves out a link that was stopped, has used up its restarts, or
  was told of a process error that did not end the process.  The last is a
  deviation: see below.  It is told by `errors`, which counts malformed lines too,
  so that a link with one is left out as well.
- `RecoversAfterStop`, `EndIsNoticed` and `RecoveryDecided` speak of a session the
  user has not ended; an end cuts the recovery off wherever it is.
- `RecoveryDecided` leaves out what comes after a stop that was overdue
  (`overdue`): see below.
- `EndIsNoticed` leaves out a stream that was to end (`expected`) and one whose
  reconnects are used up (`exhausted`): see below.
- `CompletedIsTrue` and `UpdatesWait` name the two cases in which the helper's
  watch over the installer hides something: it could not record what it saw
  (`watch = "lost"`, for `UpdatesWait`), or it ended after fifteen minutes, before
  the installer asked for a restart (`watch = "late"`, for both, where files are
  due).  Both are deviations: see below.
- `RefreshIsFinal` speaks of a call that began when the removal was done.  It leaves
  out files that could not be removed (`left`), and what an index tells that was
  read during the removal (`early`): see below.

### Fairness

- `UpdateApply`: weak fairness of the helper's next step and of the launcher's.
  Each of their loops has a deadline in the code (waiting for the processes, for
  the acknowledgement, for the helper's first outcome), so that each step is
  taken in the end.  Nobody promises to start a helper again, and no fairness is
  assumed of the applications.
- `CoreLink`: weak fairness of timers, of the notifications of the process
  object, of the reader and of each worker.  A method ends, because every network
  access of the core has a deadline.  Nothing is assumed of the user, of crashes
  or of errors.
- `SessionUpdateGate`: weak fairness of what a worker does inside a call it has
  begun.  Calls, helpers and the service owe nothing; the launch of a helper is
  decided by the core's own deadline.
- `VideoDelivery`: weak fairness of every thread, and of a server that goes on
  sending frames: the picture of a stream that sends nothing cannot come back.
- `StreamSession`: weak fairness of the streamer's threads, the dispatchers, the
  timers, and each answer of the core (which has deadlines of its own).  Strong
  fairness of `ResumeDeadline` alone: the deadline runs while each poll enables
  and disables what it would do.  Nothing of the user or of failures.
- `ManagedInstall`: weak fairness of the helper and of a user who starts and
  closes the application; strong fairness of a look in which nothing fails,
  since a look is possible only while the application runs.  The installer, kills
  and restarts owe nothing.
- `StoreCatalog`: weak fairness of each call's own next step: workers run, and
  every request has a deadline of 20 seconds (`gfn.rs:384`).

## 4. What is proved

| module | theorems | for every |
|---|---|---|
| `UpdateApplyProofs` | `TypeCorrect`, `OldKept`, `CompletedTruthful`, `LauncherHarmless`, `ReplacementWaits`, `DataCurrent`, `NoRollbackUnderTree`, `Refinement`, `BadUpdateUndone`, `RollbackTruthful` | number of failures, crashes, helper runs and writes; `NoRollbackUnderTree` where a whole process group can be asked for |
| `ManagedInstallProofs` | `CompletedTruthful`, `OthersWait` | number of restarts, kills and failures |
| `CoreLinkProofs` | `TypeCorrect`, `RunOnce`, `CallersTold`, `RetryMeetsNoCopy`, `WorkersReserved`, `Greeted`, `PromiseKept` | number of requests, workers, restarts, crashes and errors |
| `SessionUpdateGateProofs` | `TypeCorrect`, `BusyHasOwner`, `DownloadInstallable`; `HelperAlone`, `SessionsWait` | number of workers, transactions, sessions and ends; the last two for a core that does not end |
| `NvstReceiverProofs` | `TypeCorrect`, `NacksAbsent`, `GapWaited`; `NoLossIsSilent`, `HandsOverInOrder`, `InWindowNothingIsSilent` | length of the stream and of its frames, window and NACK limits; the last three where `EndsBehindGaps` or `InWindow` holds |
| `VideoDeliveryProofs` | `QueueOneChain`, `BreakMended` | capacity, cycle, number of losses, failures and scenes |
| `StreamSessionProofs` | `SessionIsOrderly`, `ShownIsAlive`; `RecoveryStopsFirst` | number of reconnections, failures and retries; the first two for any number of stops and speed of the network, the last where `Prompt` holds |
| `StoreCatalogProofs` | `TypeCorrect`, `RefreshFinal`, `FetchShared`, `Paced` | set of calls, scopes and pages, and all bounds |

Besides `Prompt`, `EndsBehindGaps`, `InWindow` and a core that does not end, where
the table names them, the assumptions are those the modules declare: bounds are
natural numbers, sets are what they are for, `TreeCheck` is one of its two values.
The type invariants, `ReadyIsGreeted` and `GapIsWaitedFor` are proved and for that reason in no run.

- **UpdateApply.**  One inductive invariant, `IInv`.  That the old installation is
  kept across a rename depends on where the helper is (`HelperInv`: what each
  place in `apply` may rely on), on what the outcome lets a later helper do
  (`StatusInv`), on which processes can still be alive (`ProcessInv`), and on what
  a recovery found before it moved anything (`RollbackInv`).  `FilesInv` has the
  one state in which the backup is no longer whole: while it is being removed,
  after the acknowledgement.  The action properties and the refinement follow
  from `IInv` and from `TargetChanges`, the few actions that touch what is in
  place.  What is said of one failing call or of none needs `FewFaultsInv`
  besides: it follows the target and the backup through the places of a rollback
  by the number of calls that have failed so far.
- **ManagedInstall.**  `ManagedInv` rests on the boot on record being the boot in
  which the installer ran (`BootInv`): a different boot then proves that the
  installer has ended and that no file is due, which is the reason for which the
  core dares to say completed.  `OthersWait` needs `SeenInv` besides: an installer
  that nobody watches is on record.
- **CoreLink.**  `PlaceInv`: a request is in one place, on its way to the core,
  refused and on its way back, waiting for its retry, or at a worker.  With it a
  busy answer means that nothing has run, and a retry cannot meet its own copy.
  `FreshInv` says it of ids not handed out yet, `LedgerInv` of what callers have
  been told.  `Writes` and `Reads` abstract what a step of the shell can do to the
  pipes, so that each slot is looked at once.  `PromiseKept` is the refinement of
  `RequestPromise`, from the same invariant.
- **SessionUpdateGate.**  `Base` (the operation lock has one holder, what each
  stage of an operation relies on, whose download it is) is inductive for any
  number of ends of the core.  `GatedInv` adds that whoever moves the session or
  installs an update holds the gate, that no helper lives while the session moves,
  and that one that lives belongs to the transaction the updater knows; it is inductive only while no core ends, and
  that is the hypothesis of the last two theorems.
- **NvstReceiver.**  The inductive invariant `Inv` is the types, `Requests` (every
  pending range is `Apart` from what is buffered or ready) and `GapIsWaitedFor`.
  All three turn on what one push leaves behind, and so on an invariant of its
  loop: `Stage` says that what has left lies before the next index and what is
  held does not, that the packets handed out so far end where the next one is
  expected, and that a loop which has stopped has a gap inside the window before
  the first packet it holds.  What is asked for is that gap.  The other thread
  can come between any two steps, so `request_nack`, `resolve_nack` and
  `take_nack` each have a lemma that they keep ranges apart.
  The loop, and the `FlattenSeq` of the library, are recursive functions.  No
  induction theorem can be used on them, so `Least` takes its place: a set of
  naturals has a least element.  With it such a function exists (`LoopExists`,
  `GluedExists`), obeys its equation, and keeps a stage for as many turns as there
  are packets (`TurnsStage`).
  `NoSilentLoss` and `HandsOver` do not hold of every stream.  `NoLossIsSilent` and
  `HandsOverInOrder` say when they do: as long as no push hands out the end of a
  frame and then, behind a gap it has given up, more packets.  `process_datagram`
  invalidates the picture once for all that a push hands out, and the end of a
  frame makes the next one contiguous again; the theorems show that nothing else
  in reordering, replay, pauses, resets and unusable packets lets a loss pass
  unseen.  `Chain` is the reason: whenever the next frame would be called
  contiguous, the last frame, the packets of the open one, those that are ready
  and the next index follow each other.  A push for which `EndsBehindGaps` fails
  has the shape of the finding.
  `InWindowNothingIsSilent` replaces this condition on the receiver by one on the
  network: `InWindow`, no packet comes a whole window or more ahead of the next
  index while others are buffered.  Then one push gives up at most one gap, and
  that before any packet leaves (`OneGap`, kept by each turn of the loop: once a
  packet has left, the clock of the next gap has not begun and the window has
  room), so that the invalidation comes before everything that is behind the gap.
- **VideoDelivery.**  `ChainInv` follows one chain through the channel and the
  queue: inside the channel a frame called contiguous follows the one before,
  the channel goes on where the queue ends, and ends with the frame handed over
  last unless something was lost since.  `LineInv` goes on from there to the
  decoder: what waits in its queue, adopted or staged, what the submit worker
  has in its hand and has not been told to drop, and the queue behind it are one
  line of packets.  Its packets follow each other, a new chain begins with a
  keyframe, the channel goes on where the line ends, and the decoder goes on
  with the line's first packet unless somebody knows that it cannot.  This last
  part, `LineJoined`, is what `BreakIsMended` says, but it is inductive only
  with the others: the three threads meet in the packet in the worker's hand,
  which a clearing of the queue or a new scene makes void while it is on its way.
- **StreamSession.**  Each handler of `ShellStore` does one of four things to
  what is asked for (`Keeps`, `Plain`, `Stopping`, `Starting`), and the invariant
  is kept by these rather than by handlers.  `InFlight` is what is under way
  between shell and engine, answers and then commands; by `Orderly` each is a
  call the shell waits for, none is there twice, and the stop of a recovery comes
  behind the start it takes back.
  `Showing` and `Serving` tie the runtime to the engine: the answer that grants
  presentation speaks of the session the engine still runs (`Alive`), or its end
  is queued behind it for the same dispatcher.
  `RecoveryStopsFirst` adds what holds until the user ends the session.  `Sane`
  is about the shell alone: one step of a recovery at a time, and no timer or
  preparation beside it.  `Tied` relates it to the engine by two facts: nothing is
  left of a session and no start is due (`NoMore`), and besides the engine has
  nothing to do and owes no answer or event (`Rest`).  The
  shell discovers or claims only with `NoMore`, prepares a start only at `Rest`,
  and while a session may run, something keeps `startNativeStreamer` away
  (`Covered`): the status, a timer, a recovery, a call, or used up reconnects.
  Each handler is shown to keep `Good` for any truth values of the two.  On the
  engine's side an end that is told, by an event or by the answer to a stop, is of
  a session of which nothing is left (`Ended`: the worker and the receiver are
  reaped before the answer, which is why the shell may rely on it), none is left to
  tell when the next session begins (`Cleared`), and a session that ends before
  its start is answered is told as an error first (`Announced`).  While a start is
  due no step of the shell forgets such an error (`Steady`).  With that a claim
  finds the engine at rest: the recovery has no stop out any more, a stop is the
  only command that could be left, and the engine has heard everything else
  (`QuietRests`).  `Prompt` is a hypothesis of the theorem, as it is of the runs:
  without it TLC has a behaviour in which the shell receives the `stopped` event of
  the old connection after it has claimed and started again, schedules another
  recovery for it, and discovers the session while that start has not been served.
  A network answer would have to overtake an event that is queued in the same
  process.
- **StoreCatalog.**  `FetchInv`: who sends has the schedule, and has found the
  interval and the cool-down over (`PaceInv`); one holder to a lock, and who
  fetches a page holds the lock of its path and epoch (`ShareInv`); what a call
  asked for is as old as its epoch, and no file or answer is older than the last
  removal that was done before, but for the files that stayed (`RefreshInv`); nor
  is a page of the index, unless it was read early: a refresh drops the index
  before it removes the files, so that who reads them in between is known
  (`IndexInv`).  Most steps touch none
  of that: they are taken together by lemmas on steps that leave it alone.

Only model-checked:

- `NoSilentLoss` and `HandsOver` where `EndsBehindGaps` fails: they do not hold
  there, which is the finding.
- all liveness, which is out of the prover's reach: `HelperEnds`, `LaunchEnds`,
  `EveryRequestEnds`, `LinkRecovers`, `InstallDecided`, `PictureReturns`,
  `EndIsNoticed`, `RecoveryDecided`, `PendingIsDecided`, `CallsEnd`.

## 5. What is not modelled, and why

- In `UpdateApply` and `ManagedInstall`: signatures, digests, archives and the
  identity of packages, whose failure is that of the step; the names and
  permissions of paths; a second run of the application that nobody recorded.
- In `CoreLink`: payloads, events, the diagnostics ring, and the methods
  themselves.
- In `SessionUpdateGate`: regional discovery and the hand-over of a conflicting
  session, Flatpak, and reads of the outcome that fail.
- In `StoreCatalog`: the content of searches and of the marquee, the filters
  (which have a fallback of their own), and the panels in the index.  A scope's
  files are removed in one step, some of which may stay.
- In `NvstReceiver`: forward error correction, decryption, ICE and DTLS, sequence
  numbers that wrap, and the control messages.
- In `VideoDelivery`: the pause and the close of a session, the audio queue,
  textures and presentation.
- In `StreamSession`: a pause of input, the microphone, recording and replay, the
  time before the runtime says hello, the bound of 512 callbacks, the frame
  mailbox and its tokens, and a new session after the end of one.
- The components that `PROJECT.json` lists as not modelled: those whose state is
  a file written by single calls (settings, vault, media library, profiles), those
  that translate (diagnostics, account and catalogue, input packets, protocol
  messages), those whose behaviour is that of drivers and devices (platform back
  ends, rendering, encoders, decoders), and those that are to come (section 6).

### Known deviations

Besides the findings in `PROJECT.json`, these came up while the modules were
written.  No run has a property for them: the models either say so in a
condition of a property, or leave the case out.

Updates:
- On Windows a recovery asks for the recorded leader only (`process.rs:353`), and
  may move the installation away under a descendant of the updated application
  (`TreeCheck = "leader"`).
- A write of `Completed` whose directory sync fails is followed by one of
  `Failed` (`mod.rs:512`): the update is in place and told as failed.
- A restarted core takes a helper that is just starting for one that has ended
  (`updater.rs:585`), and lets a session or a second helper begin.
- An outcome, or a lock, that cannot be read makes the status failed and lets
  sessions through (`updater.rs:535`, `585`).
- A helper of a managed package that is killed while the outcome is `Installing`
  makes the status failed, so that a session or another update may begin while
  the installer runs (`watch = "lost"`).
- An installer that outlives the helper's watch and then asks for a restart is
  decided without one, even as completed while files are still due
  (`watch = "late"`); for the next update, `docs/core-protocol.md:521-523` promises
  to wait.  The boot is asked for only when the installer's process is unknown or
  the outcome says that a restart is required (`recovery.rs:100-111`).
- A `plan.json` that cannot be read while a restart is required drops the
  transaction (`recovery.rs:80`, `updater.rs:572`).

Core link and sessions:
- Slots that run inside the wait of `stop()` can leave the link failed instead of
  stopped (`CoreClient.cpp:155`, `239`).
- A process error that does not end the process leaves the link failed over a
  running core, and no restart is begun (`CoreClient.cpp:146`).
- `cancel` of a request whose line cannot be written counts one restart too many.

Streaming:
- `stopStreamingSession` leaves a prepare request outstanding, and its answer
  starts a stream the user has ended (`ShellStore.qml:2080`, `2921`, `3106`),
  against `docs/core-protocol.md:273-275`; hence `stops = 0` in the properties.
- With all reconnects used up, a terminal error that comes before the answer to
  the start leaves the shell streaming over a dead engine (`ShellStore.qml:1596`),
  and a late ready or first frame gives the budget back while frames are not
  shown (`docs/core-protocol.md:278-280` speaks of frames that are); hence
  `exhausted`.  A ready that comes after a stop which is overdue does the same;
  hence `expected`.
- An end of the session that fails while a start is out can leave the shell
  streaming over a dead engine: the user's stop makes the shell expect the end,
  and the late answer to the start says streaming again; hence `stops = 0` in
  `EndIsNoticed`.
- A retry while the end of the session fails can leave the shell reconnecting.
- An error that comes when a stop has been overdue leaves the shell reconnecting for
  good: `recoveryStopTimer` has ended the wait for the stop
  (`ShellStore.qml:540-552`), the error begins a recovery, whose timer finds the
  stop still out (`ShellStore.qml:1657-1660`), and the answer to the stop finds no
  recovery pending (`ShellStore.qml:2330`), against
  `docs/core-protocol.md:278-279`; hence `overdue` in `RecoveryDecided`.
- A worker that resumes writes `Connected` without asking whether its session is
  still the current one (`opennow-streamer-core/src/lib.rs:1950`), and so over a
  stop that came between its look and its write.
- After the loss of a graphics device, delta frames that were staged before are
  given to the new decoder (`media.rs:2216`); `BreakIsMended` says that a
  keyframe follows.

Store:
- A refresh ignores a directory it cannot list and files it cannot remove
  (`store_cache.rs:58`, `62`).  It reads its page again (86), answers with the file
  that stayed and fetches nothing, and later calls find that file too, though
  `docs/core-protocol.md:96-97` says that the pages are cleared before fetching;
  hence `left` in `RefreshIsFinal`.
- A page that was fetched but could not be saved, or whose epoch another refresh
  has ended, is answered with `store_cache_missing` (`gfn.rs:1244`), against the
  comment in `store_cache.rs` that a failure of the cache must not make a
  successful fetch unavailable.
- Misses of one page fetch twice when a refresh, even of another account, comes
  between them or a write fails; `docs/core-protocol.md` says of misses of the
  same key and epoch that they share a successful fetch.
- A local search can build its index from old files between a refresh's reset of
  the index and its removal of the files; it then answers
  `store_cache_changed`, or with old facets and totals, until the next page is
  written (`early`).

## 6. Plan

Done: `SafeReplacement`, `UpdateApply` and their proofs; the core link and its
proofs; the updater, the session calls, their gate and its proofs;
`ManagedInstall`, `StoreCatalog` and their proofs; the receiver, the delivery of
frames and the life of a streaming session with theirs.

Next, each with its abstract specification where it has one:

1. `StreamerService`: the worker slot of the legacy process route, its start, stop
   and reaping under two locks, against "one worker, whose status is the one
   shown".
2. The frame mailbox of the embedding interface: acquire, release and destroy
   from two threads.
3. Signalling and the ICE/DTLS bundle, with sequence numbers modulo 2^16 against
   a definition without wrap-around.
4. Settings and the vault: a save against a crash, the switch between the
   system's vault and the file.
5. The device sign-in and the refresh of tokens across a sign-out.

A run is kept for each question the project asks, and safety and liveness share
one wherever the state space allows.
