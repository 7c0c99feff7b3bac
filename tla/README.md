# Dub: a TLA+ verification project

Dub is a DJ application: a Rust engine (`crates/`) under a Swift user
interface (`apple/`). The audio thread plays two decks from files or from a
turntable under timecode control, and a background subsystem *rips* records: it
captures one side of vinyl, proposes a split into tracks, and imports the
tracks into the library.

These modules model the parts of Dub whose correctness depends on the order in
which things happen: threads that share atomics and rings, sequences of durable
writes that a crash may cut, and copies of the same state on several threads
that must not come apart. Signal processing is left out.

Paths below are relative to the repository's root. `run` names are the names of
the `.cfg` files.

## 1. Inventory

Columns: the state a component keeps, what happens to it, who it talks to,
what is hard, and what makes it correct.

| Component | State | Operations | Interacts with | Hard behaviour | Correct when |
|---|---|---|---|---|---|
| **Rip session** (`dub-rip/src/session.rs`) | manifest in memory, `worker` handle | `arm`, `start`, `stop`, `wait_stopped`, drop, the review edits, `commit`, `resplit_from_archive` | capture worker by atomics, library, disk | a load and a later store on atomics another thread changes; edits between partial commits | edits see the final length; terminal states last; dropping it leaves no thread |
| **Capture worker** (`dub-rip/src/capture.rs`) | lifecycle state, one-slot command, frame count, pre-roll ring, silence gate, spill writer | one loop: command, pop, append / trigger / pre-roll, held check, final drain, finalize | record tap (SPSC ring), session | the producer leaves between a pop and the held check; the ring refills under the final drain; a write fails half way | the spill is an unbroken stretch of the input that starts and ends where it should |
| **Record tap** (`dub-engine/src/thru.rs`) | producer of the record ring | push what fits | capture worker | overflow, source detached | nothing but whole frames, in order |
| **Manifest** (`dub-rip/src/manifest.rs`) | `rip.json` | load, atomic save | session, commit, salvage | a save that fails after memory changed | never ahead of the disk |
| **Plan** (`dub-rip/src/plan.rs`) | none | `validate_boundaries`, `segments` | session, commit | frame arithmetic at the ends | segments tile the trimmed side |
| **Gap detector** (`dub-rip/src/gaps.rs`) | none | propose boundaries from an envelope | session | short segments, lead-in, lead-out | proposals validate |
| **Commit** (`dub-rip/src/commit.rs`) | the pass: position, names, outcome | encode, tag, import, save per segment; archive; replace; sweep; remove spill | encoder, library, disk | every step may fail and any two may be cut by a crash; retries | the recording always exists somewhere; tracks, files and manifest agree |
| **Salvage** (`dub-rip/src/salvage.rs`) | none | list recoverable and re-splittable sides, rebuild the envelope | disk | torn files, wrong headers | every unfinished side is offered |
| **Rip FFI** (`dub-ffi/src/rip.rs`) | session mutex, job mutex, job phase, cancel flag | status, edits, confirm, cancel, recognition, stop | session, commit thread, UI thread | check under one lock, act under another | no edit under a commit; no commit under a cancel |
| **Engine render loop** (`dub-engine/src/lib.rs`) | decks, transport, mixer, command consumer, trash producer | render a block, drain commands | handle (UI thread) by rings | the audio thread may not free or block; rings full | each track is owned once and freed off the audio thread |
| **Engine handle** (`dub-engine/src/handle.rs`) | command producer, trash consumer, snapshots | send commands, collect trash | render loop | command ring full | a refused command changes nothing |
| **Deck** (`dub-engine/src/deck.rs`, `looping.rs`) | playhead, loop, cues, track | load, play, seek, loop, unload | render loop | fade of an outgoing track, loop bounds | the playhead stays in its loop |
| **Quick scratch** (`dub-engine/src/quick_scratch.rs`) | parked deck state | engage, release | deck | load or mode change while parked | what was parked comes back, once |
| **Control modes, panic play, lift** (`dub-engine/src/timecode.rs`, `anchor.rs`, `drift.rs`) | mode, lock, anchor, panic state | per-block policy | decoder, deck | needle lifts, drops, mode switches between blocks | panic play hands the deck back where it took it |
| **Timecode decoder** (`dub-timecode`) | filters, lock counters | decode a block | engine | noise | signal processing |
| **Tempo, key, stretch, DSP, encode, peaks** (`dub-bpm`, `dub-spectral`, `dub-stretch`, `dub-dsp`, `dub-encode`, `dub-peaks`) | buffers | numeric | engine, library | peaks only: a reader of a growing buffer | numeric, except the peak buffer |
| **Engine surface** (`dub-ffi/src/lib.rs`) | `RunningState`: per deck the track, waveform, grid and what is parked; sampler slots | start, stop, load, scratch, double, grid edits, background analysis | handle, library, UI | decodes with the mutex released; a worker that outlives its load | the copy shows what the engine plays |
| **Library** (`dub-library`) | SQLite tables, among them the beat grids of a track, by source, one of them active, and its lock | analyse, tap, import a grid, import, delete, playlists, history, migration | session, UI | an analysis that reads the lock, computes, and writes | a locked grid stays; one row per file |
| **Grid handlers** (`apple/Dub/MainView.swift`) | the header of a deck: track id, lock, tempo | load, tap, the G key, 2× and ½, lock, re-analyse | engine surface, library | awaits between two calls; detached tasks | a grid ends up on the track it was made for |
| **Devices, loading, CLI, the rest of the UI, recognition** (`dub-audio`, `dub-io`, `dub-cli`, `apple`, `dub-fingerprint`, `dub-recognize`) | handles | operating system and network I/O | everything | outside the repository's control | enter the models as events and failures |

`PROJECT.json` lists the same components with their status, and the hazards of
this code line by line with the property that watches each one.

## 2. Modules

In order of what the system must not get wrong.

| Module | Part | Composed with |
|---|---|---|
| `RipCapture`, `RipCaptureProofs` | one take of a record: session, capture worker, tap | ends where `RipCommit` begins |
| `RipCommit`, `RipCommitProofs`, `RipCommitFilesProofs` | review, commit, crash, recovery, re-split, discard | |
| `RipFfi` (`MCRipFfi` for symmetry), `RipFfiProofs` | the locks of `DubRipSession` under several threads | takes a capture and a commit as one step each |
| `DeckOps` | what one command does to the two decks of the engine: pure operators | extended by the next two |
| `TrackCustody` | abstract: a track is in one pair of hands, and only the main thread frees it | |
| `DeckTracks`, `DeckTracksProofs` | `DeckOps` against the command ring and the trash ring | implements `TrackCustody` |
| `DeckView`, `DeckViewProofs` | `DeckOps` against the application's copy of the decks | |
| `DeckControl`, `DeckControlProofs` | who moves the playhead of a deck | |
| `BeatGrids`, `BeatGridsProofs` | a grid in the library, on a deck and in the header | |

`RipCapture` and `RipCommit` meet in one place. A capture that has stopped and
was joined has a closed spill and a saved manifest with its length
(`EditsSeeFinalLength`), which is the initial state of `RipCommit`. `RipFfi`
takes both as one step where it needs them: the capture lands, and a commit
that holds the session imports and ends.

`DeckOps` is written once and run twice. `DeckTracks` keeps its ramps and its
trash and asks who frees a track. `DeckView` drops both (`Settled`) and asks
whether the other program, which decides for itself what a Quick Scratch does,
shows the same decks. `DeckControl` looks at one deck and keeps what `DeckOps`
leaves out: rate, playhead, loop, platter. `BeatGrids` takes the deck as the
place a load ends in and leaves scratches and doubles to `DeckView`.

Every property of a passing run has a mutant in `PROJECT.json`: a definition
changed as a bug would change it, under which the run finds the property
violated. A mutant stands before the definition it is a mutant of.

## 3. `RipCapture`

### Correspondence

| Model | Code |
|---|---|
| `state`, `command`, `recordedFrames`, `stopReason` | the atomics of `CaptureShared`. `command` is one slot, so a later call overwrites an earlier one |
| `ring`, `held` | the `ringbuf` ring and whether its producer still exists |
| `level` | the audio accepted so far: a frame *is* its position here, and its loudness is all the worker looks at |
| `w` | the locals of `run`: program counter, `recording`, the block, pre-roll, silence gate, stop reason |
| `wav`, `finalized` | the spill file |
| `op`, `worker` | the session call in progress, `Option<JoinHandle>` |
| `manifestFrames`, `savedFrames` | the length in the manifest the session holds, and in `rip.json` |
| `started`, `startFrame`, `endOfInput`, `lastRequest`, `overtaken`, `synced` | history: what began the take and where, where the loop was left, the last request, what `arm`'s store overwrote, whether the last `wait_stopped` was `Ok` |

The worker takes one step for every access to shared state, in program order:
take the command, compare-and-set on a start, load the state, pop, append or
trigger or push to the pre-roll, check the producer, leave, drain block by
block, finalize, store the reason, store `Stopped`. `arm` is two steps (spawn,
store), `start` and `stop` are two (load, store), `wait_stopped` two (see a
terminal state, join and sync). The audio thread pushes a frame or drops it
with the ring full, and may go away at any time. A write, the header and the
file's creation may each fail, a write after any prefix of its block, and so may
the save at the end of `wait_stopped`, which leaves a session that is stopped,
joined and editable with `rip.json` behind (`session.rs:525`).

### Runs

| Run | Bounds | Shows |
|---|---|---|
| `RipCapture` | ring of 3, blocks of 2, pre-roll 1, cap 3, 5 frames of input | the safety properties |
| `RipCapture_live` | ring of 2, blocks of 2, pre-roll 1, cap 2, 4 frames of input | `StopLands`, `InputLossStops`, `DropReturns` |

Both with an automatic start, a silence stop after one quiet frame, and one
`arm`. The input is longer than the ring and, in the first, the ring longer than
a block, and a block may straddle the cap, so the ring fills, wraps and refills
during the drain, and the pre-roll evicts. One loud frame ends a run of quiet
ones. With a cap of 3 a loud and a quiet frame stay below it, so a side ends by
silence as well as at the cap; five frames let a pre-roll, a trigger, a silent
end and a tail that is drained occur in one behaviour.

* `SpillUnbroken`: no frame is skipped, repeated or reordered between tap and file.
* `StopKeepsTail`: what the tap had accepted when the loop was left is in the
  file, up to the cap, including what came between an empty pop and the check
  of the producer.
* `BeginsAtTheDrop`: an automatic start keeps a full pre-roll, a manual start
  keeps none of the backlog.
* `FileIsCapped`: a take ends at most one block past the cap, however fast the tap
  refills the ring that the final drain empties.
* `EditsSeeFinalLength`: after a joined stop the file, its count and the manifest
  the edits are checked against agree, the reason is there, and `rip.json` agrees
  too unless `wait_stopped` reported that its save failed.
* `TerminalIsFinal`: no late store of the worker undoes `Stopped` or `Failed`.
* `StopLands`, `InputLossStops`, `DropReturns`: the three ways out all end.

### Fairness and assumptions

Weak fairness on the worker (a thread of the operating system with no
condition to wait for) and on the continuation of a call already entered.
Nothing is assumed of the audio thread, which may push for ever or never again,
or of the operator. In `StopLands` a start that was accepted after the stop
takes over, since the slot holds one command.

`arm` stores `Armed` after it has spawned the worker, and the worker may have
taken any number of steps by then (`ArmReturn`). `overtaken` records what the
store overwrote: a take the worker had begun, or the end it had come to.
`SpillUnbroken`, `StopKeepsTail` and `BeginsAtTheDrop` except the first, `StopLands`
and `InputLossStops` the second; `FileIsCapped`, `EditsSeeFinalLength` and
`DropReturns` hold of both. Section 9 says what becomes of such a take.

`MaxArms = 1` because the counters are not reset by a second `arm`, which no
caller makes. `MaxInput` and `MaxArms` are the only bounds on a behaviour.

## 4. `RipCommit`

### Correspondence

| Model | Code |
|---|---|
| `spill`, `archive`, `files` | `side.raw.wav`, `side.flac` (absent, torn or whole), the encoded segments with the frames each holds |
| `rows` | the library's tracks of the directory, identified by path |
| `saved`, `manifest` | `rip.json` and the `RipManifest` in memory |
| `pc`, `at`, `names`, `ok`, `doomed` | the locals of `commit_session` |
| `complete` | `RipOutcome::is_complete` of the last commit |
| `mishaps` | crashes and disk failures so far |
| `moved`, `loose`, `undeleted` | history: imports whose place in the plan has changed since, imports that the plan dropped or `rip.json` never recorded, replaced tracks whose deletion failed |

One action per review edit, and one per durable step of a commit: encode,
import, save after each segment; create and fill the archive, save; choose the
replaced tracks, delete each, save; sweep; remove the spill. `Crash` may come
between any two and leaves exactly what is on disk. `Resume` and `Resplit` are
the two ways back in. A manifest save replaces the file whole or fails with
the manifest in memory already changed, as in the code.

Lengths are counted in units of frames. A file name is a record of what
distinguishes two names: generation, title or position, and the mark of a
collision. An encoded file is the range of frames it was made from.

A plan is edited whenever `guard_mutable` lets it: while no commit runs and none
has fully succeeded, so also between two passes, with segments imported.
`SegmentFaults` and `DeleteFaults` switch the failures of a segment and of
`delete_track`. `MaxMishaps` bounds crashes and failures of a save, of the archive
and of the spill's removal together; a behaviour may spend it on any of them.

### Runs

| Run | Bounds | Shows |
|---|---|---|
| `RipCommit_faults` | 2 frames, 1 boundary, 2 generations, 2 mishaps, every fault | `SideKept`, `CommitMatchesPlan`, `FilesOutliveRows`, `NothingStranded`, `SpillGoesLast`, `OriginalsOutlive` |
| `RipCommit_live` | the same with a title, 1 mishap, failing deletions | `SegmentsApart`, `InterruptedRipCommits` |
| `RipCommit_discard` | 1 frame, 2 generations, no faults | the finding of section 9 |

Two segments are the least with a segment that fails after one that was
imported, a boundary to move or remove, and two names to collide. Two
generations give a re-split with tracks to replace. Two mishaps give a crash
after a save that failed, in either order, or one in each generation.

* `SideKept`: the spill or a whole `side.flac` exists until the operator
  discards the side.
* `SpillGoesLast`: the spill is removed only with the archive whole and every
  kept segment in the library, whichever pass imported it.
* `OriginalsOutlive`: a replaced track leaves only with the whole new split in.
* `CommitMatchesPlan`: a commit that reports success gave each kept segment its
  own frames, but for one whose place was edited after its import (`moved`).
* `SegmentsApart`: names never collide, over passes, edits, titles and dropped
  segments.
* `NothingStranded`: the manifest in memory and `rip.json` each know every row,
  but for segments the plan dropped and imports cut from their save (`loose`). A
  pass that imports such a segment again takes it out of the exception.
* `FilesOutliveRows`: on a side that is not discarded a row loses its file only if
  its deletion failed (`undeleted`) or it is `loose`. `NoDanglingRow` is the same
  without exceptions and with the discard; it is what the finding refutes.
* `InterruptedRipCommits`: an interrupted side is offered, reopened and committed.

### Fairness

Safety runs use `Spec`, with none. `RipCommit_live` uses `FairSpec`: a running
commit goes on (it is one thread that waits for nothing), and the operator
reopens an uncommitted side, splits it again if its plan does not validate
(`Mend`) and confirms it again and again. `Mend` is needed: an `auto_split` whose
save fails leaves new boundaries under the old trims, and a commit refuses a
plan that does not validate until it is split again. It is a property
of an operator who retries; the strong fairness is needed because closing the
session disables the commit in between.

## 5. `RipFfi`

### Correspondence

| Model | Code |
|---|---|
| `session`, `splits` | who holds the session mutex, or the marker table, from one step to the next |
| `synced`, `cancelled`, `job`, `rec` | the two flags, `CommitJob` and `RecognizeJob` |
| `capture`, `joined` | the capture's state, and whether the worker was joined |
| `cuts`, `hasEntries`, `imported`, `named` | the manifest: boundaries, whether it has track entries, the entries that are imported, by index, and the splits whose recognised names they carry |
| `markers` | the boundary frames of `SplitIds` |
| `commit`, `recognizer` | the threads `dub-rip-commit` and `dub-rip-recognize` |
| `pc`, `call`, `arg` | where each calling thread is |

A critical section that neither waits nor takes another lock is one step. The
exceptions are the ones worth looking at: `stop` and `cancel` keep the session
while they wait up to ten seconds for the capture, the commit keeps it for the
whole encode, and an edit of the splits holds the marker table while it waits
for the session. Between its critical sections a call can be overtaken by
anything: `guard_mutable` tests the job and lets go before the edit, and
`cancel` tests the job and the manifest long before it removes the directory.

The library's mutex is left out: the commit takes it first and no holder of it
waits for a rip lock. A commit without a library fails.

### Runs

| Run | Bounds | Shows |
|---|---|---|
| `RipFfi` (`MCRipFfi`) | two callers, one place for a split | the safety properties, with TLC's deadlock check |
| `RipFfi_live` | one caller | `CallsReturn`, `CommitLands` |

Calls are not bounded in number: the state space is finite. Two callers are
swapped freely (`ClientSymmetry`; the run has no liveness property). Two are
the least that can pass a guard together, and one place for a split tells the
old plan from the new one.

* `MarkersMatchPlan`: the marker table follows the plan however edits mix.
* `OneCommit`: one commit at a time, and `running` says so.
* `ImportsSurvive`, `EditsGuarded`, `NamesFit`: for a caller that makes one call
  at a time, as the application does on its main actor, no check is stale when
  it is acted on. `overlapped` records that two calls were in progress at once;
  after that the three are not claimed, and they do not hold. `ImportsSurvive`
  speaks of what the plan names as imported. `set_splits` drops the entries past
  the last split with their `library_uuid`, and nothing protects those tracks
  afterwards (section 9).
* `CallsReturn`, `CommitLands`: nothing waits for ever.

`MarkersMatchPlan` excepts a plan whose save failed (the plan in memory has
changed then, the table has not), and `NamesFit` splits that were edited while
the names were being looked up.

Fairness: weak, on each caller inside a call and on the two workers. The
capture need not end: a wait for it times out. Since a short critical section
is one step, a mutex that starves a waiter for ever is outside the model.

## 6. `DeckOps`, `TrackCustody`, `DeckTracks` and `DeckView`

### Correspondence

| Model | Code |
|---|---|
| `eng.deck[d]` | `Deck`: `source`, `playing`, `prev_source`, `fade_remaining` in blocks, `pending_trash`; `dropped` is what `mem::forget` took |
| `eng.park`, `eng.mode`, `eng.prior`, `eng.samp` | `quick_scratch_parked`, the control modes, `double_host_prior_mode`, the sampler slots |
| `eng.out` | what the step hands to `send_to_trash`, in order |
| `ring`, `trash` | the two `ringbuf` rings; `overflowed` and `leaked` are history variables for the tracks forgotten, counted and not |
| `view[d]`, `samples` | `RunningState`: the track a deck shows, its `FilePeaks`, the park and the host record; the slots |
| `loads`, `workers` | `load_track` between its two critical sections, and the worker it leaves behind |
| `misled` | history: decks whose release, and slots whose sample, the two programs took differently (below) |

The operators of `DeckOps` carry the engine's names: `StartDeclick`,
`SwapSource`, `Load`, `Engage`, `Release`, `Revert`, `InstantDouble`, `Sweep`.
Each is the whole command, with its sweep. A track is the reference-counted
buffer, and a reference is a place the track stands in.

`DeckTracks`: a call of the main thread sends one command or finds the ring
full; `load` empties the trash first. A block of the audio thread is `Apply`
for each command, `Drained`, then `Render`: the platter may start or stop a
deck, the decks that play a file render one block of their ramps, and every
deck is swept.

`DeckView`: a call holds the mutex throughout and changes its copy as it sends
the command. A load decodes with the mutex released, and its worker brings the
waveform and then the grid of a track that may have left the deck.

### Runs

| Run | Bounds | Shows |
|---|---|---|
| `DeckTracks` | 4 tracks, 1 slot, command ring of 1, trash of 2, ramps of 2 blocks, 3 calls | `TypeOK`, `NothingStaysAfterTheRamp`, `NoMutualHosts`, `AudioNeverFrees`, `DisplacedIsFreed` |
| `DeckView` | 4 tracks, 1 slot, command ring of 2, 4 calls | `ViewMatches`, `PeaksBelong` |

Both start either with nothing loaded or with a set under way: one record
plays, another is cued, a sample is bound. From there three calls reach a
scratch that doubles its tune onto a host and a load that ends it, and a ramp
restarted twice before its end, which is the least that fills the pending slot.
A trash of two overflows within them. Tracks are interchangeable, so a call
takes any one that nothing refers to (`Decoded`).

* `AudioNeverFrees`: `DeckTracks` implements `TrackCustody`. A track's keeper is
  computed from where it stands, and no step of the audio thread takes it back
  to the main thread.
* `NothingStaysAfterTheRamp`, `DisplacedIsFreed`: the sweep takes every ramp
  that is over, and in the end what nothing uses is freed.
* `NoMutualHosts`: no two scratches host each other's tune.
* `ViewMatches`: with the command ring drained, a deck shows what it plays and
  parks what its release will bring back, and a slot shows its sample. Excepted
  are decks whose release was refused, or taken for a doubled one by the copy
  alone, slots whose gain was refused, and what these pass on (`misled`; findings
  5, 6 and 8).
* `PeaksBelong`: no deck draws the waveform or the grid of another track.

Fairness of `DeckTracks`: weak on `Reclaim`, the main thread that polls, as the
command line's loop does (`crates/dub-cli/src/timecode_deck.rs:690`). The
application does not poll; there `Polls` would be FALSE, and the property is not
claimed (finding 2). `DisplacedIsFreed` has the premise that the device goes on
asking for blocks (`Rendering`). `DeckView` states no fairness.

## 7. `DeckControl`

| Model | Code |
|---|---|
| `deck` | mode, prior mode, source, transport, rate, loop and playhead of one deck |
| `panic`, `policy` | `panic_play` and its count of locked blocks; `LiftPolicy` with the absolute position of the last block |
| `drift`, `needle` | `DriftMonitor`; the source classifier, the whitening capture and the wobble fit's settling |
| `record` | the groove: where the needle is, and what a starved block has not decoded yet |
| `hist` | history: blocks of unbroken lock, blocks without a needle, whether something else than the platter moved the playhead, and what the playhead then owes |

A step is a command or a block. A block is the whole of `drive_timecode_inputs`
and `render_into` for one chunk of the record that was decoded: classifier,
policy, calibration gate, drift monitor, who drives the deck, playhead. What the
decoder may say of a block is a choice among six signals (a fix, a lock without
a position, lukewarm, low, dead, nothing), bound to how far the record moved
(`Heard`, `Reads`). A needle is set down elsewhere only after a silence that the
monitor counts as a lift.

The run `DeckControl` has one deck, 4 steps of record and of track, at most 2 a
block, 2 commands and 2 blocks that bring something else than a clean fix. The
thresholds keep their order, not their values: a sticky window of 2 blocks, 3
blocks to hand back, one to confirm and to calibrate. It begins with a fresh
deck or with one that follows its record. Two commands let the DJ do something
and then something else about it; two faults close the sticky window.

* `HandBackIsEarned`: Panic Play gives the deck back only after `Relock` blocks
  of lock on end, whatever is pressed meanwhile.
* `LiftStops`: a needle gone for the sticky window stops a deck that follows it.
* `MovesAreNotHealed`: a playhead moved on purpose is not slid back.
* `LoopHolds`: a block leaves a looping playhead inside its loop.

No fairness: all four are safety properties.

## 8. `BeatGrids`

| Model | Code |
|---|---|
| `rows`, `locked`, `printed`, `analyzed` | `track_beatgrids` (the grid of every source and the active one), `tracks.grid_locked`, whether the track has a fingerprint, the stamp of `analysis_cache` |
| `deck` | the engine surface's copy: the load a deck holds, whether its waveform is in, `beat_grid`, `grid_locked` |
| `shown`, `tapping` | the application's `DeckState` and its tap session |
| `loads`, `workers` | a load between the handler and the swap; `background_analyze_and_install` |
| `analyses`, `persists` | one analysis a track, by stage; edits on their way to the library, in no order |
| `ui` | what is left of the handler the main actor is in |
| `missed` | history: the loads whose deck a change of the lock did not reach |

A grid is the track it was made for and the edit that made it. The handlers run
one at a time, and between two of their calls everything else may step: a load
that decodes, the worker it leaves (waveform first, which clears the grid, then
the grid), an analysis (the lock is read, then the grid computed, then the lock
read again and the row written), an import, every edit under way.

Every statement of the library commits on its own; no transaction is around a
write. So a write is the list of its statements, and a call that fails leaves
what its first *n* wrote: `AnalysisWrites` for an analysis (fingerprint, the tap
stepping back, the grid, the loudness, the stamp), `TapWrites` for a tap and for
2× and ½ (the others stepping back, the row, the stamp), `ImportFails` for an
import. `AnalyzeCommitFails`, `PersistFails`, `ScaleFails` and `ImportFails` choose
any such *n*.

One unique index of the schema allows one active row a track; the model has one
field `active`. A handler that goes over the decks visits them in their order.

| Run | Bounds | Shows |
|---|---|---|
| `BeatGrids` | 1 deck, a new track and an analysed one without tempo, one import source, every fault, 2 loads, 2 gestures | the five properties below |
| `BeatGrids_locked` | 1 analysed track, no faults, 1 load, 2 gestures | the finding of section 9 |

Two loads are the least with a worker that was overtaken; two gestures the least
with an edit and a lock. `Touched` says which tracks the browser works on. A
second deck or a third gesture takes the run past what is reasonable; the four
safety properties are proved for every number of both (section 10).

* `AnalysisHonoursLock`: no analysis changes the active grid of a locked track,
  however late the lock falls.
* `NeverGridless`: an analysis that is under way, cannot be computed or is beaten by
  the lock leaves a grid, and none takes an imported one. Excepted are a write
  that fails after other grids have stepped back (`CutShort`) and an analysis
  that finds no tempo in a tapped track.
* `LockReachesDeck`: the lock the engine checks a tap against is the library's,
  but for toggles that fall into a load and tracks without a grid to bring.
* `StraysOnlyDuringLoad`: a grid made for one track reaches a deck that holds
  another only while a load is on its way back to the header, or out of a row
  in which one had been filed by such a deck.
* `GridArrives`: every load brings a grid in the end, also when the worker's
  thread cannot be spawned.

Fairness: weak on the worker of each load. It has a thread of its own or runs on
the one of the load, and waits for nobody. Nothing is asked of an analysis, of
an edit on its way or of the operator.

## 9. Where the code and its words disagree

Two runs show a violation:

* **`RipCommit_discard`**. `cancel` refuses to delete a directory with imported
  tracks, but looks at the current plan only. A session opened for a re-split
  has just moved them to `replaced_uuids`.
* **`BeatGrids_locked`**. The specification of the beat grids calls the lock
  absolute. An edit is written by a detached task that asks for no lock, so one
  made before the lock lands after it; and the G key asks for none either.

Met while modelling, with no run of their own. Paths are under `crates/`.

Rip:

* `arm` stores `Armed` after the spawn (`dub-rip/src/session.rs:440`), over whatever
  its worker has stored by then. `Failed` or `Stopped` overwritten: the session
  is `Armed` with no thread behind it, and only dropping it helps. `Recording`
  overwritten, after a needle drop: the worker goes on as an armed one. The next
  loud block triggers a second time and skips what the pre-roll evicted
  meanwhile, or a manual start begins inside a file that has begun elsewhere,
  or a stop finds `Armed` and leaves without the final drain.
* A second `arm` keeps the counters of the first recording (`session.rs:419`).
  A start while recording may overwrite a stop not yet taken.
* `wait_stopped` may fail in its save with the worker joined (`session.rs:525`). The
  session is then stopped and editable; `rip.json` has the old length until the
  next save.
* Removing a split of a partly committed side drops the last entries, imported or
  not (`session.rs:650`). Their tracks stay in the library with no manifest naming
  them; the next complete re-split sweeps their files, and `cancel`, which sees
  no imported entry any more (`dub-ffi/src/rip.rs:1154`), removes them with the
  directory. One caller that makes one call at a time suffices.
* A boundary moved after a partial commit does not reach the segment already
  imported: the pass skips it and reports success, and its file keeps the frames
  of its old place (`rip.rs:1007`, `dub-rip/src/commit.rs:181`).
* A replaced track whose deletion fails keeps its row, and the sweep then
  removes its file (`commit.rs:293`). The short-circuit of a complete side never
  returns to such a track (`commit.rs:95`).
* A crash or a failing save between an import and its record leaves a row that no
  manifest names until a pass imports the same file again; a re-split or a drop
  of the segment in between leaves it so. If the save after the archive fails,
  a retry removes the spill with `rip.json` not naming the archive.
* `auto_split` whose save fails restores the trims, not the boundaries
  (`session.rs:593`): the plan in memory may not validate.
* During a commit `status` waits for the session mutex, which the commit keeps
  until the side is encoded (`dub-ffi/src/rip.rs:1238`).
* `set_side_start` and `set_side_end` read one bound and write both in two
  critical sections (`rip.rs:1384`). Recognised names can land on the wrong
  segments if the splits were edited meanwhile, or on a committed plan
  (`rip.rs:1703`).
* A full record ring drops frames silently (`dub-engine/src/thru.rs:355`).

Decks:

1. A doubling press on a host in a ramp is three declicks, more than the
   pending slot holds: the third track is forgotten and not counted
   (`dub-engine/src/deck.rs`, `start_declick`).
2. The application never calls `reclaim` but through `load`. Presses without
   one fill the trash of 32, and the next track is leaked
   (`dub-engine/src/handle.rs:354` says purely UI-driven workflows are safe).
3. `set_position_frames` after `swap_source` restarts the ramp with the new
   track as the outgoing one.
4. A deck on Thru is not rendered, so its last ramp never ends, and its track
   stays until the mode changes.
5. A release takes the park out of the copy before it sends; with the command
   ring full it fails there, and the engine keeps the deck scratched
   (`dub-ffi/src/lib.rs:2932`).
6. The comment at `lib.rs:2939` says the copy applies the engine's test of a
   doubled tune. The engine asks for the host it recorded; the copy is content
   with the same track on the other deck, however it got there.
7. An analysis of the host's own record that ends while it is displaced is
   dropped, and the record comes back without its waveform.
8. `sampler_load` sends two commands; if the second is refused, the slot plays
   what the copy does not show.
9. Nested scratches lose the host's record. Play pins `Internal` without
   clearing the mode the host is to get back. Thru takes the track off the copy
   and leaves its waveform.
10. The playhead and the groove position are compared at different moments
    after a starved block (`dub-engine/src/lib.rs:1598`): the block that catches
    up moves the playhead twice, and the monitor sees a drift that is none.
11. The hand-back counts blocks that are held or lukewarm, which the words of
    the constant call clean. A start after the calibration hold does not tell
    the monitor. Panic Play stays engaged through a switch to `Internal`.

Grids:

* Two quick edits are written by unordered tasks, and the older may win. An
  analysis under way demotes a tap made meanwhile.
* No grid write is a transaction. `analyze_commit` has demoted the tap when its
  query or its upsert fails (`dub-library/src/analysis.rs:562`), and the track is
  left without a grid, which its comment says no longer happens; the same goes
  for a tap, for 2× and ½ (1131) and for an import (1086). A failure after the
  upsert leaves a grid without a stamp.
* A tap is computed unlocked and installed on whatever the deck then holds.
* Between the swap and the header's turn, the G key, 2×, ½ and the lock act on
  the new track under the id of the old one: the grid is filed in the wrong
  row, and the lock falls on the wrong track.
* A lock toggled during a decode, or before the waveform is in, does not reach
  the deck; a locked track without an active grid brings no lock.
* The worker's second stage overwrites an edit made between its two.
* `upsert_imported_beatgrid` asks for no lock.
* The words of `load_track` say a library row of the analyser is analysed again;
  the code takes it as it is.

## 10. Proofs

Proved for every value of the constants, from the named assumptions and those
stated with each module below:

| Module | Theorem | Property |
|---|---|---|
| `RipCommitProofs` | `TypeCorrect`, `SideIsKept`, `SpillIsLast`, `OriginalsDoOutlive` | `TypeOK`, `SideKept`, `SpillGoesLast`, `OriginalsOutlive` |
| `RipCommitFilesProofs` | `FilesAreApart`, `CommitIsOfThePlan`, `NothingIsStranded`, `RowsHaveFiles` | `SegmentsApart`, `CommitMatchesPlan`, `NothingStranded`, `FilesOutliveRows` |
| `RipCaptureProofs` | `TypesHold`, `SpillIsUnbroken`, `TailIsKept`, `DropIsHeld`, `CapIsKept`, `LengthIsFinal`, `TerminalStays` | `SpillUnbroken`, `StopKeepsTail`, `BeginsAtTheDrop`, `FileIsCapped`, `EditsSeeFinalLength`, `TerminalIsFinal` |
| `RipFfiProofs` | `TypesHold`, `MarkersFollow`, `CommitsAreOne`, `ImportsAreKept`, `EditsAreGuarded`, `NamesDoFit` | `TypeOK`, `MarkersMatchPlan`, `OneCommit`, `ImportsSurvive`, `EditsGuarded`, `NamesFit` |
| `DeckTracksProofs` | `TypesHold`, `RampsEnd`, `HostsAreApart`, `Implements` | `TypeOK`, `NothingStaysAfterTheRamp`, `NoMutualHosts`, `AudioNeverFrees` |
| `DeckViewProofs` | `DrawingsBelong`, `DecksAreShown`, `TracksFollowCommands` | `PeaksBelong`, `ViewMatches` |
| `DeckControlProofs` | `TypesHold`, `LiftStopsAlways`, `MovesStay`, `HandBackHolds`, `LoopHoldsAlways` | `TypeOK`, `LiftStops`, `MovesAreNotHealed`, `HandBackIsEarned`, `LoopHolds` |
| `BeatGridsProofs` | `TypesHold`, `LockIsTheLibrarys`, `LockIsHonoured`, `GridIsKept`, `StraysAreOfLoads` | `TypeOK`, `LockReachesDeck`, `AnalysisHonoursLock`, `NeverGridless`, `StraysOnlyDuringLoad` |

**`RipCommitProofs`.** None of the last three is inductive. A state in which the
spill exists, the archive is torn and the manifest claims it is whole satisfies
`SideKept` and violates it one step later. `IInv` has four parts:

* `TypeInv`: the types, and that the names planned for a pass fit its plan;
* `AudioInv`: a manifest that names the archive is right, and the one in memory
  is never behind the saved one while a session is open. It says which files
  exist at every point of a commit;
* `PassInv`: every segment a pass has gone by, with no failure so far, is
  dropped or imported;
* `LibraryInv`: an imported segment is in the library, and the two manifests
  and the tracks to be replaced belong to the generations they should.

The edits of the review and the recovery are dealt with once (`EditsKeep`,
`RecoveredKeeps`), and `PassImports` links the end of a pass to the two action
properties.

**`RipCommitFilesProofs`.** For every value of the constants, through every fault,
crash and edit. Four invariants, each resting on the ones before it:

* `ApartInv`: no two entries share a file, a name marked as a twin carries its own
  position, and the names planned for a pass are as far apart as the entries
  (`Steered`, which `PlanIsSteered` shows of `plan_file_names_skipping`). Without
  the positions a later pass could give out a name an earlier one has written;
* `FilesInv`: each imported file is there and holds the frames of its place, or
  its place has moved, in memory and on disk alike. What `rip.json` has imported
  and the manifest in memory has not, an edit has dropped, which is why a name
  may be written again after a crash;
* `RowsInv`: every row is known to the manifest in memory and to `rip.json`, or is
  loose, or is the import that is about to be saved;
* `SweepInv`: up to the sweep, what is left to replace is still to be deleted or
  could not be, so the sweep takes no other row's file.

The exceptions are those of the properties: what the code does to moved, loose
and undeleted tracks is in section 9.

**`RipCaptureProofs`.** About one take (`OneTake`: one `arm()`), for every size of
ring, block, pre-roll and cap, every failure, and a worker that runs as far ahead
of `arm` as it likes. `SpillUnbroken` alone says nothing of the frames that are not in
the file yet. `IInv` says where each of them is: ring, block, pre-roll and file
each hold a run of consecutive frames (`Run`), the ring from `NextFrame` on, the
block up to it, the pre-roll up to `Turn` while nothing is recorded, the file from
`Drop` up to `Turn` while something is (`RingInv`, `PreRollInv`, `FileInv`). `PhaseInv`
ties the worker's place to the state; what it has read of the state is what the
state still is unless `arm` has overwritten it (`TakeInv`). `SessionInv` ties both
lengths to the joined worker, and `EndInv` carries "the tail is in" from the end of
the drain to the store of `Stopped`. `CapIsKept` has an invariant of its own
(`CapInv`): while the loop runs the file is below the cap, so what the loop or the
drain adds last is one block.

**`RipFfiProofs`.** For any number of callers; the one assumption is that
"free" and "commit" are not names of callers. `IInv` adds: what a step knows of
the call it is in (`StepsFit`), one commit on its way exactly while `running` is
set (`CommitInv`), the marker table equal to the plan but for the edit that
holds it (`TableInv`), for a caller that makes one call at a time that what it
has tested still holds (`AloneInv`), one recognition pass while its flag is set
(`PassInv`), and splits read, looked up or handed out equal to the plan until
an edit (`NamesInv`).

**`DeckTracksProofs`.** `IInv` is `TypeOK`, no ramp over with its track still
there (`RampsOver`), and `Hosting`. The work is in one relation, `Gains(e, f, T)`:
the engine `f` refers to exactly what `e` did and to `T`, its trash counted in.
Every operator of `DeckOps` is shown to satisfy it once, it composes
(`GainsTrans`), and so every command does (`AppliedIs`). `DisposeIs` says that
what is in `out` ends in the trash or among the forgotten; with that a step of
the audio thread is a step of `TrackCustody` (`CustodyStep`).

**`DeckViewProofs`.** For any number of tracks, slots, calls and places in the
ring. Assumed: there are three tracks to begin a session with (`Collection`),
and `None` is not a park nor a slot a deck (`ScreensAssumption`).

`DrawingsBelong`: `IInv` is `PeaksBelong` and the types. The work is in following a
tune and its drawing from place to place: a screen put together from a tune, a
drawing that belongs to it, a park and a host fits (`ScreenOf`, `PutFits`); a
worker draws where its own track is shown (`LiveFits`, `ParkFits`); and every
call builds its screens in one of these two ways (one lemma per call).

`DecksAreShown`: `ViewMatches` speaks of a drained ring only and is far from
inductive. With commands in the ring the copy is ahead of the engine, by what
they will do. The proof takes what shows of an engine, its *face*: the tracks on
the decks, what is parked, where that was doubled to and what it displaced, and
the samples. `AppliedShows` says that every command of `DeckOps` acts on faces
alone, as the short operator `Faced` has it; ramps, transport, control modes and
trash play no part (which is `TracksFollowCommands`, the step-by-step refinement).
`CopyInv` then says that the commands in the ring lead from the engine's face to
one that agrees with the copy. "Lead" is the existence of a run of faces, one
for each command (`Leads`), so no recursion over the ring is needed: a call
appends to the run (`LeadsAppend`), the engine takes its head (`LeadsTail`), and a
drained ring leaves one face (`LeadsEmpty`). `Agrees` is stronger than what is
shown: it also says where a parked tune was doubled to, and that what it
displaced there is what the copy will give back, as long as neither deck is
misled. Without this a release of a doubled tune would leave the two apart.

**`DeckControlProofs`.** `IInv` adds to the types and the properties: the policy
has counted at least the blocks the needle is gone (`LiftInv`), Panic Play no
more than the unbroken lock (`PanicInv`), and the monitor has been told of every
foreign move, or will be when Panic Play ends (`RemapInv`), which
`MovesAreNotHealed` rests on. One lemma per command; a block goes through the
lemmas of its stages.

**`BeatGridsProofs`.** `IInv` adds: a header says "loading" while a load is under
way and otherwise names the deck's track (`HeaderFits`), loads and workers are
told apart by their number (`LoadsApart`), a worker whose load is on its deck
works on the deck's track (`WorkersFit`), a handler visits decks that showed its
track when it began (`HandlerFits`), and the lock on its way from the library is
right at every station (`LockFits`). `StraysOnlyDuringLoad` is an action property
that needs the first and the fourth of them.

TLC checked each `IInv` on a small instance before it was proved.

Only model-checked:

* liveness (`StopLands`, `InputLossStops`, `DropReturns`,
  `InterruptedRipCommits`, `CallsReturn`, `CommitLands`, `DisplacedIsFreed`,
  `GridArrives`): fairness and `ENABLED` are beyond this prover.

Every invariant and every action property of the runs is proved. What the
commands of a whole ring amount to is not a function of the ring in the proof
(that is a recursion over data) but a run that exists (`Leads`).

## 11. Not modelled

* Audio arithmetic: levels, envelopes, filters, tempo, key, stretch, peaks, the
  timecode decoder. The gap detector is a choice of any valid plan, the loudness
  of a frame a choice, a decoded block one of the cases the policy tells apart.
* Of the engine: reverse motion, the input ring and its overflow, attaching and
  replacing a timecode input or a Thru source, `DisplayRate`, quanta rendered in
  chunks, effects against Thru, nudges.
* Of the application's engine surface: drags of files the library does not
  know, `reset_to_auto`, the play history tracker (`history.rs`), the streaming
  decode (`dub-io`), playlists, cues, metadata and search.
* Of `DubRipSession`: the ids of the marker table, the side's bounds (in
  `RipCommit`, as atomic edits), per-segment progress and the listings.
* The contents of tags and of `rip.json` beyond the fields above, and the
  parsing of a torn WAV header (`salvage::probe`).
* SQLite inside a statement, which happens or fails. `import_file` and
  `delete_track` are one step each; a grid write is not (section 8).
* The operating system's loss of written but unsynced data. A file the code has
  written and renamed is taken to be on disk.
* Devices, the recognition network and the controller: their answers are inputs.

## 12. Running

    tlc -workers 2 -config RipCommit_faults.cfg RipCommit
    tlc -workers 2 -config RipFfi.cfg MCRipFfi
    tlapm RipCommitProofs.tla
