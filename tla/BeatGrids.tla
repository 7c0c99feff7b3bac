----------------------------- MODULE BeatGrids -----------------------------
(***************************************************************************)
(* Beat grids: the rows the library keeps of a track (dub-library,         *)
(* analysis.rs), the copy a deck draws (dub-ffi, FilePeaks.beat_grid and   *)
(* grid_locked) and the handlers of the application that move grids        *)
(* between the two (apple/Dub/MainView.swift).                             *)
(*                                                                         *)
(* The handlers run one at a time on the main actor.  Everything else has  *)
(* a thread of its own and steps between two calls of a handler: a load    *)
(* that decodes, the worker a load leaves behind, an analysis, an import,  *)
(* and every edit on its way to the library.                               *)
(*                                                                         *)
(* Every track is in the library, which is open; the engine runs.  Which   *)
(* deck shows what under a Quick Scratch or a double is left to DeckView.  *)
(***************************************************************************)
EXTENDS Naturals

CONSTANTS Tracks,      \* tracks of the library
          Decks,       \* indices of decks, in the order a handler visits them
          Silent,      \* tracks in which the analyser finds no tempo
          Imports,     \* sources an importer brings grids from
          None,        \* no track, no grid, nothing under way
          Faults,      \* what may fail: "decode", "spawn", "peaks", "analysis", "statement"
          Known,       \* tracks analysed at launch
          Touched,     \* bound: tracks locked, re-analysed and imported from the browser
          MaxLoads,    \* bound: loads
          MaxGestures  \* bound: edits, imports, lock changes and re-analyses

\* grid_source_rank.
Rank == [auto |-> 0, itunes |-> 1, traktor |-> 2, rekordbox |-> 3, serato |-> 4, user_tap |-> 5]
Sources == DOMAIN Rank

\* A grid is the track it was made for and the edit that made it, 0 for the analyser.
Grids == [of : Tracks, n : Nat]
LoadStates == [track : Tracks, arc : Nat, grid : Grids \cup {None}, locked : BOOLEAN,
               stage : {"head", "swapped", "failed"}, inline : BOOLEAN]

ASSUME SourcesAssumption == Imports \subseteq Sources \ {"auto", "user_tap"}
ASSUME DecksAssumption == Decks \subseteq Nat
ASSUME BoundsAssumption == /\ Known \subseteq Tracks /\ Touched \subseteq Tracks
                           /\ MaxLoads \in Nat /\ MaxGestures \in Nat
ASSUME NoneAssumption == None \notin Tracks \cup Sources \cup Grids \cup LoadStates

VARIABLES rows,       \* track_beatgrids: per track the grid of every source, and the active one
          locked,     \* tracks.grid_locked
          printed,    \* tracks with a fingerprint
          analyzed,   \* tracks whose analysis_cache row is stamped
          deck,       \* per deck: the load it holds, its track, waveform, grid and lock
          shown,      \* DeckState: the track id, lock, "loading" and tempo a header shows
          tapping,    \* decks with a tap session open
          loads,      \* per deck: the load under way
          workers,    \* background_analyze_and_install, one per load
          analyses,   \* per track: the analysis under way
          persists,   \* edits on their way to the library, in no order
          ui,         \* what is left of the handler the main actor is in
          missed,     \* history: loads whose deck a change of the lock did not reach
          used         \* loads and gestures made

vars == <<rows, locked, printed, analyzed, deck, shown, tapping, loads, workers,
          analyses, persists, ui, missed, used>>

Grid(t, n) == [of |-> t, n |-> n]
AutoGrid(t) == IF t \in Silent THEN None ELSE Grid(t, 0)

(* The library.  Every statement commits on its own: a call that fails in the
   middle leaves what its first n statements wrote. *)

\* active_beatgrid_for_track.  An index of the schema allows one active row a track.
ActiveGrid(t) == IF rows[t].active = None THEN None ELSE rows[t].grid[rows[t].active]

FreshRow == [grid |-> [s \in Sources |-> None], active |-> None]

\* The write of an analysis that found g: the tap steps back, an import stays.
AfterAnalysis(r, g) ==
  LET rest == IF r.active = "user_tap" THEN None ELSE r.active
  IN IF g = None THEN [r EXCEPT !.active = rest]
     ELSE [grid |-> [r.grid EXCEPT !["auto"] = g],
           active |-> IF rest = None THEN "auto" ELSE rest]

AfterTap(r, g) == [grid |-> [r.grid EXCEPT !["user_tap"] = g], active |-> "user_tap"]

Claims(r, s) == r.active = None \/ r.active = s \/ Rank[r.active] < Rank[s]
AfterImport(r, s, g) ==
  [grid |-> [r.grid EXCEPT ![s] = g], active |-> IF Claims(r, s) THEN s ELSE r.active]

\* analyze_commit: the fingerprint, the tap stepping back, the grid found, and
\* the loudness, which stamps the track already; the stamp proper is the fifth.
AnalysisWrites(t, n) ==
  /\ printed' = IF n = 0 THEN printed ELSE printed \cup {t}
  /\ rows' = [rows EXCEPT ![t] = IF n < 2 THEN @ ELSE AfterAnalysis(@, IF n = 2 THEN None ELSE AutoGrid(t))]
  /\ analyzed' = IF n < 4 THEN analyzed ELSE analyzed \cup {t}

\* upsert_user_tap_beatgrid: every row steps back, the tap's is written, and a
\* track with a fingerprint is stamped.
TapWrites(t, g, n) ==
  /\ rows' = [rows EXCEPT ![t] = IF n = 0 THEN @ ELSE IF n = 1 THEN [@ EXCEPT !.active = None]
                                 ELSE AfterTap(@, g)]
  /\ analyzed' = IF n = 3 /\ t \in printed THEN analyzed \cup {t} ELSE analyzed

(* The main actor. *)

Idle == [op |-> "idle", track |-> None, grid |-> None, decks |-> {}, on |-> FALSE]
Begin(op, t, g, ds, on) ==
  ui' = IF ds = {} THEN Idle
        ELSE [op |-> op, track |-> t, grid |-> g, decks |-> ds, on |-> on]
Turn(op, d) == ui.op = op /\ d \in ui.decks /\ \A e \in ui.decks : d <= e
Advance(d) == Begin(ui.op, ui.track, ui.grid, ui.decks \ {d}, ui.on)
Showing(t) == {d \in Decks : shown[d].track = t}

EmptyDeck == [arc |-> 0, track |-> None, peaks |-> FALSE, grid |-> None, locked |-> FALSE]

Init ==
  /\ analyzed = Known /\ printed = Known
  /\ rows = [t \in Tracks |-> IF t \in Known THEN AfterAnalysis(FreshRow, AutoGrid(t)) ELSE FreshRow]
  /\ locked = [t \in Tracks |-> FALSE]
  /\ deck = [d \in Decks |-> EmptyDeck]
  /\ shown = [d \in Decks |-> [track |-> None, locked |-> FALSE, loading |-> FALSE, bpm |-> FALSE]]
  /\ tapping = {} /\ workers = {} /\ persists = {} /\ missed = {}
  /\ loads = [d \in Decks |-> None]
  /\ analyses = [t \in Tracks |-> None]
  /\ ui = Idle
  /\ used = [loads |-> 0, gestures |-> 0]

Library == <<rows, locked, printed, analyzed>>
Background == <<workers, analyses, persists>>

\* An edit is named by its number; an engine without a waveform refuses a grid.
Gesture == used.gestures < MaxGestures /\ used' = [used EXCEPT !.gestures = @ + 1]
NewGrid(t) == Grid(t, used.gestures + 1)
Installed(d, g) == IF deck[d].peaks THEN [deck EXCEPT ![d].grid = g] ELSE deck

\* ensureTrackAnalyzed: one analysis a track, and none of a track already stamped.
EnsureAnalyzed(t) ==
  analyses' = IF analyses[t] = None /\ t \notin analyzed
              THEN [analyses EXCEPT ![t] = [batch |-> FALSE, stage |-> "queued"]] ELSE analyses

(* Loading. *)

\* The main actor reads the library, then waits for the engine.
Load(d, t) ==
  /\ ui = Idle /\ ~shown[d].loading
  /\ used.loads < MaxLoads /\ used' = [used EXCEPT !.loads = @ + 1]
  /\ shown' = [shown EXCEPT ![d].loading = TRUE, ![d].bpm = FALSE]
  /\ tapping' = tapping \ {d}
  /\ loads' = [loads EXCEPT ![d] =
       [track |-> t, arc |-> used.loads + 1, grid |-> ActiveGrid(t),
        locked |-> ActiveGrid(t) # None /\ locked[t], stage |-> "head", inline |-> FALSE]]
  \* A track without a grid brings no lock with it.
  /\ missed' = IF locked[t] /\ ActiveGrid(t) = None THEN missed \cup {used.loads + 1} ELSE missed
  /\ UNCHANGED <<Library, deck, Background, ui>>

LoadFails(d) ==
  /\ loads[d] # None /\ loads[d].stage = "head" /\ "decode" \in Faults
  /\ loads' = [loads EXCEPT ![d].stage = "failed"]
  /\ UNCHANGED <<Library, deck, shown, tapping, Background, ui, missed, used>>

Worker(d) == [arc |-> loads[d].arc, deck |-> d, track |-> loads[d].track,
              grid |-> loads[d].grid, locked |-> loads[d].locked, stage |-> "peaks"]

\* Mutant: a thread that cannot be spawned is only logged.
StartedSwallowed(d, spawned) == IF spawned THEN {Worker(d)} ELSE {}

\* The worker gets a thread, or runs on the thread of the load.
Started(d, spawned) == {Worker(d)}

\* The deck takes the track.
LoadHead(d) ==
  /\ loads[d] # None /\ loads[d].stage = "head"
  /\ \E spawned \in BOOLEAN :
       /\ spawned \/ "spawn" \in Faults
       /\ loads' = [loads EXCEPT ![d].stage = "swapped", ![d].inline = ~spawned]
       /\ workers' = workers \cup Started(d, spawned)
  /\ deck' = [deck EXCEPT ![d] = [EmptyDeck EXCEPT !.arc = loads[d].arc, !.track = loads[d].track]]
  /\ UNCHANGED <<Library, shown, tapping, analyses, persists, ui, missed, used>>

\* Back on the main actor: the header names the track.  Its lock is only read
\* when the row happens to be selected; otherwise the last track's stays.
LoadDone(d) ==
  /\ ui = Idle /\ loads[d] # None /\ loads[d].stage = "swapped"
  /\ loads[d].inline => \A w \in workers : w.arc = loads[d].arc => w.stage = "failed"
  /\ \E on \in {shown[d].locked, locked[loads[d].track]} :
       shown' = [shown EXCEPT ![d] = [track |-> loads[d].track, locked |-> on, loading |-> FALSE,
                                      bpm |-> loads[d].grid # None]]
  /\ EnsureAnalyzed(loads[d].track)
  /\ loads' = [loads EXCEPT ![d] = None]
  /\ UNCHANGED <<Library, deck, tapping, workers, persists, ui, missed, used>>

LoadFailed(d) ==
  /\ ui = Idle /\ loads[d] # None /\ loads[d].stage = "failed"
  /\ shown' = [shown EXCEPT ![d].loading = FALSE]
  /\ loads' = [loads EXCEPT ![d] = None]
  /\ UNCHANGED <<Library, deck, tapping, Background, ui, missed, used>>

\* Mutant: any track on the deck will do.
StillLoadedAny(w) == deck[w.deck].track # None

\* The worker of a load that has left its deck gives up (analysis_target).
StillLoaded(w) == deck[w.deck].arc = w.arc

WorkerPeaks(w) ==
  /\ w \in workers /\ w.stage = "peaks"
  /\ IF StillLoaded(w)
     THEN /\ deck' = [deck EXCEPT ![w.deck].peaks = TRUE, ![w.deck].grid = None,
                                  ![w.deck].locked = w.locked]
          /\ workers' = (workers \ {w}) \cup {[w EXCEPT !.stage = "grid"]}
     ELSE deck' = deck /\ workers' = workers \ {w}
  /\ UNCHANGED <<Library, shown, tapping, loads, analyses, persists, ui, missed, used>>

WorkerFails(w) ==
  /\ w \in workers /\ w.stage = "peaks" /\ "peaks" \in Faults
  /\ workers' = (workers \ {w}) \cup {[w EXCEPT !.stage = "failed"]}
  /\ UNCHANGED <<Library, deck, shown, tapping, loads, analyses, persists, ui, missed, used>>

\* The grid the load was given, or one of its own.
WorkerGrid(w) ==
  /\ w \in workers /\ w.stage = "grid"
  /\ workers' = workers \ {w}
  /\ deck' = IF StillLoaded(w)
             THEN [deck EXCEPT ![w.deck].grid = IF w.grid # None THEN w.grid ELSE AutoGrid(w.track)]
             ELSE deck
  /\ UNCHANGED <<Library, shown, tapping, loads, analyses, persists, ui, missed, used>>

\* readDeckState: the header picks the tempo up once the engine has one.
Poll(d) ==
  /\ ui = Idle /\ shown[d].track # None /\ ~shown[d].bpm /\ deck[d].grid # None
  /\ shown' = [shown EXCEPT ![d].bpm = TRUE]
  /\ EnsureAnalyzed(shown[d].track)
  /\ UNCHANGED <<Library, deck, tapping, loads, workers, persists, ui, missed, used>>

(* Analysis. *)

\* "Re-analyze" or "Reset": waits for an analysis under way.
Reanalyze(t) ==
  /\ ui = Idle /\ analyses[t] = None
  /\ Gesture
  /\ analyses' = [analyses EXCEPT ![t] = [batch |-> TRUE, stage |-> "queued"]]
  /\ UNCHANGED <<Library, deck, shown, tapping, loads, workers, persists, ui, missed>>

\* Mutant: the tap steps back before the analysis, as it used to.
AnalyzePrepareDemotes(t) ==
  /\ analyses[t] # None /\ analyses[t].stage = "queued"
  /\ IF locked[t] THEN analyses' = [analyses EXCEPT ![t].stage = "over"] /\ rows' = rows
     ELSE /\ analyses' = [analyses EXCEPT ![t].stage = "computing"]
          /\ rows' = [rows EXCEPT ![t] = AfterAnalysis(@, None)]
  /\ UNCHANGED <<locked, printed, analyzed, deck, shown, tapping, loads, workers, persists, ui, missed, used>>

AnalyzePrepare(t) ==
  /\ analyses[t] # None /\ analyses[t].stage = "queued"
  /\ analyses' = [analyses EXCEPT ![t].stage = IF locked[t] THEN "over" ELSE "computing"]
  /\ UNCHANGED <<Library, deck, shown, tapping, loads, workers, persists, ui, missed, used>>

AnalyzeFails(t) ==
  /\ analyses[t] # None /\ analyses[t].stage = "computing" /\ "analysis" \in Faults
  /\ analyses' = [analyses EXCEPT ![t].stage = "over"]
  /\ UNCHANGED <<Library, deck, shown, tapping, loads, workers, persists, ui, missed, used>>

\* Mutant: a lock that fell during the computation is not seen.
CommitRefusedNever(t) == FALSE
CommitRefused(t) == locked[t]

\* The lock is read again; a tempo is written, and the track is stamped in any case.
AnalyzeCommit(t) ==
  /\ analyses[t] # None /\ analyses[t].stage = "computing"
  /\ IF CommitRefused(t)
     THEN analyses' = [analyses EXCEPT ![t].stage = "over"] /\ UNCHANGED <<rows, printed, analyzed>>
     ELSE analyses' = [analyses EXCEPT ![t].stage = "done"] /\ AnalysisWrites(t, 5)
  /\ UNCHANGED <<locked, deck, shown, tapping, loads, workers, persists, ui, missed, used>>

AnalyzeCommitFails(t) ==
  /\ analyses[t] # None /\ analyses[t].stage = "computing" /\ ~CommitRefused(t)
  /\ "statement" \in Faults
  /\ analyses' = [analyses EXCEPT ![t].stage = "over"]
  /\ \E n \in 0..4 : AnalysisWrites(t, n)
  /\ UNCHANGED <<locked, deck, shown, tapping, loads, workers, persists, ui, missed, used>>

\* Only an analysis that was asked for goes to the decks as well.
AnalyzePublish(t) ==
  /\ ui = Idle /\ analyses[t] # None /\ analyses[t].stage \in {"done", "over"}
  /\ analyses' = [analyses EXCEPT ![t] = None]
  /\ IF analyses[t].batch /\ analyses[t].stage = "done" /\ ActiveGrid(t) # None /\ ~locked[t]
     THEN Begin("refresh", t, ActiveGrid(t), {d \in Showing(t) : ~shown[d].locked}, FALSE)
     ELSE ui' = Idle
  /\ UNCHANGED <<Library, deck, shown, tapping, loads, workers, persists, missed, used>>

\* upsert_imported_beatgrid, which asks for no lock.
Import(t, s) ==
  /\ Gesture
  /\ rows' = [rows EXCEPT ![t] = AfterImport(@, s, NewGrid(t))]
  /\ UNCHANGED <<locked, printed, analyzed, deck, shown, tapping, loads, Background, ui, missed>>

\* The other source has stepped back when the import's own row fails.
ImportFails(t, s) ==
  /\ Gesture /\ "statement" \in Faults
  /\ rows[t].active \notin {None, s} /\ Claims(rows[t], s)
  /\ rows' = [rows EXCEPT ![t].active = None]
  /\ UNCHANGED <<locked, printed, analyzed, deck, shown, tapping, loads, Background, ui, missed>>

(* Edits. *)

\* handleTapForGrid, where the header's lock is looked at.
Tap(d) ==
  /\ ui = Idle /\ d \notin tapping
  /\ shown[d].track # None /\ shown[d].bpm /\ ~shown[d].locked
  /\ tapping' = tapping \cup {d}
  /\ UNCHANGED <<Library, deck, shown, loads, Background, ui, missed, used>>

\* commitTapGrid: the engine looks at the deck's lock and computes, unlocked,
\* on the track it found.  Two taps set the 1 of a grid; three make a new one.
\* Refused taps, and taps no tempo fits, only end the session.
CommitTap(d) ==
  /\ ui = Idle /\ d \in tapping
  /\ tapping' = tapping \ {d}
  /\ \/ /\ deck[d].peaks /\ ~deck[d].locked
        /\ Gesture
        /\ Begin("tap", deck[d].track, NewGrid(deck[d].track), {d}, FALSE)
     \/ UNCHANGED <<ui, used>>
  /\ UNCHANGED <<Library, deck, shown, loads, Background, missed>>

\* The result goes to whatever the deck holds by now.
InstallTap(d) ==
  /\ Turn("tap", d)
  /\ deck' = Installed(d, ui.grid)
  /\ ui' = [ui EXCEPT !.op = "read"]
  /\ UNCHANGED <<Library, shown, tapping, loads, Background, missed, used>>

\* The handler reads the grid back and sends it off under the id it shows.
ReadTap(d) ==
  /\ Turn("read", d)
  /\ ui' = Idle
  /\ IF deck[d].grid # None
     THEN /\ shown' = [shown EXCEPT ![d].bpm = TRUE]
          /\ persists' = persists \cup {[track |-> shown[d].track, grid |-> deck[d].grid]}
     ELSE UNCHANGED <<shown, persists>>
  /\ UNCHANGED <<Library, deck, tapping, loads, workers, analyses, missed, used>>

\* applyTapToGrid, the G key: neither side looks at the lock.
ApplyTapToGrid(d) ==
  /\ ui = Idle /\ shown[d].track # None
  /\ shown[d].bpm \/ deck[d].grid # None
  /\ deck[d].peaks
  /\ Gesture
  /\ LET g == NewGrid(deck[d].track)
     IN /\ deck' = Installed(d, g)
        /\ persists' = persists \cup {[track |-> shown[d].track, grid |-> g]}
  /\ shown' = [shown EXCEPT ![d].bpm = TRUE]
  /\ UNCHANGED <<Library, tapping, loads, workers, analyses, ui, missed>>

\* The detached upsert of a tapped grid.
Persist(p) ==
  /\ p \in persists /\ persists' = persists \ {p}
  /\ TapWrites(p.track, p.grid, 3)
  /\ UNCHANGED <<locked, printed, deck, shown, tapping, loads, workers, analyses, ui, missed, used>>

PersistFails(p) ==
  /\ p \in persists /\ persists' = persists \ {p} /\ "statement" \in Faults
  /\ \E n \in 0..2 : TapWrites(p.track, p.grid, n)
  /\ UNCHANGED <<locked, printed, deck, shown, tapping, loads, workers, analyses, ui, missed, used>>

\* scaleLoadedDeckBpm: the library first, then every deck that shows the track.
Scale(d) ==
  /\ ui = Idle /\ shown[d].track # None /\ ~shown[d].locked
  /\ Gesture
  /\ LET t == shown[d].track  g == NewGrid(t)
     IN /\ ~locked[t] /\ ActiveGrid(t) # None
        /\ TapWrites(t, g, 3)
        /\ Begin("install", t, g, Showing(t), locked[t])
  /\ UNCHANGED <<locked, printed, deck, shown, tapping, loads, Background, missed>>

\* A write that fails, or the grid that is read back after it: no deck is touched.
ScaleFails(d) ==
  /\ ui = Idle /\ shown[d].track # None /\ ~shown[d].locked
  /\ Gesture /\ "statement" \in Faults
  /\ LET t == shown[d].track
     IN /\ ~locked[t] /\ ActiveGrid(t) # None
        /\ \E n \in 0..3 : TapWrites(t, NewGrid(t), n)
  /\ UNCHANGED <<locked, printed, deck, shown, tapping, loads, Background, ui, missed>>

\* install_beat_grid_with_phase, deck by deck; a refused deck keeps its header.
InstallNext(d) ==
  /\ \/ Turn("install", d)
     \/ Turn("refresh", d)
  /\ deck' = Installed(d, ui.grid)
  /\ shown' = IF ~deck[d].peaks THEN shown
              ELSE [shown EXCEPT ![d].bpm = TRUE,
                                 ![d].locked = IF ui.op = "install" THEN ui.on ELSE @]
  /\ Advance(d)
  /\ UNCHANGED <<Library, tapping, loads, Background, missed, used>>

\* Loads of t that read the lock already and have not brought it to their deck.
Between(t) == {loads[d].arc : d \in {e \in Decks : loads[e] # None /\ loads[e].track = t}}
              \cup {deck[d].arc : d \in {e \in Decks : deck[e].track = t /\ ~deck[e].peaks}}

\* setGridLocked: the library, then header and engine of every deck that shows t.
SetGridLocked(t, on) ==
  /\ ui = Idle
  /\ Gesture
  /\ locked' = [locked EXCEPT ![t] = on]
  /\ missed' = missed \cup Between(t)
  /\ Begin("lock", t, None, Showing(t), on)
  /\ UNCHANGED <<rows, printed, analyzed, deck, shown, tapping, loads, Background>>

\* Mutant: only the header hears of the lock.
LockNextHeader(d) ==
  /\ Turn("lock", d)
  /\ shown' = [shown EXCEPT ![d].locked = ui.on]
  /\ Advance(d)
  /\ UNCHANGED <<Library, deck, tapping, loads, Background, missed, used>>

LockNext(d) ==
  /\ Turn("lock", d)
  /\ shown' = [shown EXCEPT ![d].locked = ui.on]
  /\ deck' = IF deck[d].peaks THEN [deck EXCEPT ![d].locked = ui.on] ELSE deck
  /\ missed' = IF deck[d].track # ui.track THEN missed \cup {deck[d].arc} ELSE missed
  /\ Advance(d)
  /\ UNCHANGED <<Library, tapping, loads, Background, used>>

LoadStep(d) == (\E t \in Tracks : Load(d, t)) \/ LoadFails(d) \/ LoadHead(d) \/ LoadDone(d) \/ LoadFailed(d)
WorkerStep(w) == WorkerPeaks(w) \/ WorkerFails(w) \/ WorkerGrid(w)
AnalysisStep(t) == AnalyzePrepare(t) \/ AnalyzeFails(t) \/ AnalyzeCommit(t)
                   \/ AnalyzeCommitFails(t) \/ AnalyzePublish(t)
EditStep(d) ==
  \/ Tap(d) \/ CommitTap(d) \/ InstallTap(d) \/ ReadTap(d)
  \/ ApplyTapToGrid(d) \/ Scale(d) \/ ScaleFails(d) \/ InstallNext(d) \/ LockNext(d)

Next ==
  \/ \E d \in Decks : LoadStep(d) \/ Poll(d) \/ EditStep(d)
  \/ \E w \in workers : WorkerStep(w)
  \/ \E t \in Tracks : AnalysisStep(t)
  \/ \E t \in Touched : \/ Reanalyze(t)
                        \/ \E s \in Imports : Import(t, s) \/ ImportFails(t, s)
                        \/ \E on \in BOOLEAN : SetGridLocked(t, on)
  \/ \E p \in persists : Persist(p) \/ PersistFails(p)

\* A worker that was spawned is run; nothing is asked of anybody else.
Spec == /\ Init /\ [][Next]_vars
        /\ \A n \in 1..MaxLoads : WF_vars(\E w \in workers : w.arc = n /\ WorkerStep(w))

(* Properties. *)

Rows == [grid : [Sources -> Grids \cup {None}], active : Sources \cup {None}]
DeckStates == [arc : Nat, track : Tracks \cup {None}, peaks : BOOLEAN,
               grid : Grids \cup {None}, locked : BOOLEAN]
Headers == [track : Tracks \cup {None}, locked : BOOLEAN, loading : BOOLEAN, bpm : BOOLEAN]
Jobs == [arc : Nat, deck : Decks, track : Tracks, grid : Grids \cup {None}, locked : BOOLEAN,
         stage : {"peaks", "grid", "failed"}]
Handlers == [op : {"idle", "tap", "read", "install", "refresh", "lock"}, track : Tracks \cup {None},
             grid : Grids \cup {None}, decks : SUBSET Decks, on : BOOLEAN]
Runs == [batch : BOOLEAN, stage : {"queued", "computing", "done", "over"}]

\* Rows, decks, headers and everything under way keep their types.
TypeOK ==
  /\ rows \in [Tracks -> Rows] /\ locked \in [Tracks -> BOOLEAN] /\ printed \subseteq Tracks
  /\ analyzed \subseteq Tracks
  /\ deck \in [Decks -> DeckStates] /\ shown \in [Decks -> Headers]
  /\ loads \in [Decks -> LoadStates \cup {None}] /\ workers \subseteq Jobs
  /\ analyses \in [Tracks -> Runs \cup {None}]
  /\ persists \subseteq [track : Tracks \cup {None}, grid : Grids]
  /\ tapping \subseteq Decks /\ ui \in Handlers /\ missed \subseteq Nat
  /\ used \in [loads : Nat, gestures : Nat]

\* An analysis never changes the active grid of a locked track, however late the
\* lock falls: what does is an edit on its way to the library, or an import.
AnalysisHonoursLock ==
  [][\A t \in Tracks : locked[t] /\ ActiveGrid(t)' # ActiveGrid(t) =>
       \/ \E p \in persists : p.track = t /\ (Persist(p) \/ PersistFails(p))
       \/ \E s \in Imports : Import(t, s) \/ ImportFails(t, s)]_vars

\* A write that stepped other rows back and failed before its own.
CutShort(t) ==
  \/ \E p \in persists : p.track = t /\ PersistFails(p)
  \/ \E d \in Decks : shown[d].track = t /\ ScaleFails(d)
  \/ \E s \in Imports : ImportFails(t, s)
  \/ rows[t].active = "user_tap" /\ AnalyzeCommitFails(t)

\* A track that has a grid keeps one: an analysis that is under way, cannot be
\* computed or is beaten by the lock leaves the tapped grid in place, and none
\* takes an imported one.  Only a statement that fails in the middle of a write
\* loses it, or an analysis that finds no tempo in a track that was tapped.
NeverGridless ==
  [][\A t \in Tracks : ActiveGrid(t) # None /\ ActiveGrid(t)' = None =>
       CutShort(t) \/ (t \in Silent /\ rows[t].active = "user_tap" /\ AnalyzeCommit(t))]_vars

\* A grid made for another track reaches a deck only while a load is on its way
\* back to the header, or out of the library, where such a grid was filed under
\* the wrong track; and that is done only by a deck that loads or holds one
\* already.  The worker of a load that was overtaken writes nothing, and a tap
\* computed on one track never lands on the next while nothing loads.
Misfiled(g, t) == g # None /\ g.of # t
Stray(d) == Misfiled(deck[d].grid, deck[d].track)
StraysOnlyDuringLoad ==
  [][/\ \A d \in Decks : ~Stray(d) /\ Stray(d)' =>
          \/ shown[d].loading /\ (InstallTap(d) \/ InstallNext(d))
          \/ Misfiled(ui.grid, ui.track) /\ InstallNext(d)
          \/ \E w \in workers : w.deck = d /\ Misfiled(w.grid, w.track) /\ WorkerGrid(w)
     /\ \A p \in persists' \ persists : Misfiled(p.grid, p.track) =>
          \E d \in Decks : shown[d].loading \/ Stray(d)]_vars

\* The lock the engine checks a tap against is the library's: a load brings it
\* and a toggle follows it to every deck, but for toggles that fall into a load
\* of the track and for tracks that had no grid to bring it.
LockReachesDeck ==
  \A d \in Decks :
    /\ deck[d].peaks /\ deck[d].arc \notin missed
    /\ ~(ui.op = "lock" /\ d \in ui.decks)
    => deck[d].locked = locked[deck[d].track]

\* Every load brings a grid in the end, also when the worker's thread cannot be
\* spawned, unless the track has none to find, its waveform cannot be computed or
\* another load takes the deck.
GridArrives ==
  \A d \in Decks, n \in 1..MaxLoads :
    deck[d].arc = n ~> \/ deck[d].arc # n \/ deck[d].grid # None \/ deck[d].track \in Silent
                      \/ \E w \in workers : w.arc = n /\ w.stage = "failed"

\* "grid_locked = true is absolute": nothing but the toggle touches a locked grid.
LockIsAbsolute ==
  [][\A t \in Tracks : locked[t] /\ locked'[t] => ActiveGrid(t)' = ActiveGrid(t)]_vars

=============================================================================
