-------------------------- MODULE BeatGridsProofs --------------------------
(***************************************************************************)
(* Proofs about BeatGrids, for every number of tracks, decks, loads and    *)
(* edits and whatever fails: the types, what an analysis may do to a row,  *)
(* which grids stray and that the lock of a deck is the library's.         *)
(***************************************************************************)
EXTENDS BeatGrids, TLAPS

\* What the constants' assumptions say of the names of sources and grids.
LEMMA Names ==
  /\ {"auto", "user_tap"} \subseteq Sources /\ Imports \subseteq Sources
  /\ None \notin Tracks /\ None \notin Sources /\ None \notin Grids /\ None \notin LoadStates
BY SourcesAssumption, NoneAssumption DEF Sources, Rank

-----------------------------------------------------------------------------
(* Rows *)

\* A grid made for a track is a grid of that track.
LEMMA GridTypes ==
  ASSUME NEW t \in Tracks, NEW n \in Nat
  PROVE  Grid(t, n) \in Grids /\ Grid(t, n).of = t /\ Grid(t, n) # None
BY Names DEF Grid, Grids

\* So is one the detector finds, where the track has a tempo.
LEMMA AutoGridType ==
  ASSUME NEW t \in Tracks
  PROVE  AutoGrid(t) \in Grids \cup {None} /\ (AutoGrid(t) # None => AutoGrid(t).of = t)
         /\ (t \notin Silent => AutoGrid(t) # None)
BY GridTypes DEF AutoGrid

ActiveOf(r) == IF r.active = None THEN None ELSE r.grid[r.active]

\* A fresh row, and a row whose active grid is withdrawn, are rows.
LEMMA RowTypes ==
  /\ FreshRow \in Rows
  /\ \A r \in Rows : ActiveOf(r) \in Grids \cup {None} /\ [r EXCEPT !.active = None] \in Rows
BY Names DEF FreshRow, Rows, ActiveOf

\* What is written keeps the row's type, and leaves it an active grid if it had one.
LEMMA AfterAnalysisKeeps ==
  ASSUME NEW r \in Rows, NEW g \in Grids \cup {None}
  PROVE  /\ AfterAnalysis(r, g) \in Rows
         /\ g # None /\ ActiveOf(r) # None => ActiveOf(AfterAnalysis(r, g)) # None
<1>1. CASE g = None
  BY <1>1, Names DEF AfterAnalysis, Rows
<1>2. CASE g # None
  <2> DEFINE rest == IF r.active = "user_tap" THEN None ELSE r.active
             q == [grid |-> [r.grid EXCEPT !["auto"] = g], active |-> IF rest = None THEN "auto" ELSE rest]
  <2>1. AfterAnalysis(r, g) = q
    BY <1>2 DEF AfterAnalysis
  <2>2. q \in Rows
    BY Names DEF Rows
  <2>3. ActiveOf(r) # None => ActiveOf(q) # None
    <3>1. CASE rest = None
      BY <3>1, <1>2, Names DEF Rows, ActiveOf
    <3>2. CASE rest # None
      BY <3>2, <1>2, Names DEF Rows, ActiveOf
    <3> QED BY <3>1, <3>2
  <2> QED BY <2>1, <2>2, <2>3
<1> QED BY <1>1, <1>2

\* The rows a tap writes are rows, with the tapped grid the active one.
LEMMA AfterTapKeeps ==
  ASSUME NEW r \in Rows, NEW g \in Grids
  PROVE  AfterTap(r, g) \in Rows /\ ActiveOf(AfterTap(r, g)) # None
BY Names DEF AfterTap, Rows, ActiveOf

\* An import leaves a row a row, with an active grid if it had one.
LEMMA AfterImportKeeps ==
  ASSUME NEW r \in Rows, NEW s \in Imports, NEW g \in Grids
  PROVE  /\ AfterImport(r, s, g) \in Rows
         /\ ActiveOf(r) # None => ActiveOf(AfterImport(r, s, g)) # None
<1> DEFINE act == IF r.active = None \/ r.active = s \/ Rank[r.active] < Rank[s] THEN s ELSE r.active
           q == [grid |-> [r.grid EXCEPT ![s] = g], active |-> act]
<1>1. AfterImport(r, s, g) = q
  BY DEF AfterImport, Claims
<1>2. act \in Sources /\ (act = s \/ (act = r.active /\ r.active # None))
  BY Names DEF Rows
<1> HIDE DEF act
<1>3. q \in Rows
  BY <1>2, Names DEF Rows
<1>4. ActiveOf(r) # None => ActiveOf(q) # None
  BY <1>2, Names DEF Rows, ActiveOf
<1> QED BY <1>1, <1>3, <1>4

\* However far an analysis gets, it leaves rows, and takes no grid but a tapped
\* one; one that gets through leaves a grid where there was one and finds a tempo.
LEMMA AnalysisWritesKeep ==
  ASSUME TypeOK, NEW t \in Tracks, NEW n \in 0..5, AnalysisWrites(t, n)
  PROVE  /\ rows' \in [Tracks -> Rows] /\ printed' \subseteq Tracks /\ analyzed' \subseteq Tracks
         /\ \A u \in Tracks : u # t => rows'[u] = rows[u]
         /\ ActiveOf(rows[t]) # None /\ ActiveOf(rows'[t]) = None =>
              rows[t].active = "user_tap" /\ (n = 5 => t \in Silent)
<1> DEFINE g == IF n = 2 THEN None ELSE AutoGrid(t)
           q == IF n < 2 THEN rows[t] ELSE AfterAnalysis(rows[t], g)
<1>1. rows[t] \in Rows /\ g \in Grids \cup {None} /\ (n # 2 /\ t \notin Silent => g # None)
  BY AutoGridType DEF TypeOK
<1>2. rows' = [rows EXCEPT ![t] = q]
  BY DEF AnalysisWrites
<1> HIDE DEF g
<1>3. q \in Rows
  BY <1>1, AfterAnalysisKeeps
<1>4. g = None => AfterAnalysis(rows[t], g).active = (IF rows[t].active = "user_tap" THEN None ELSE rows[t].active)
                  /\ AfterAnalysis(rows[t], g).grid = rows[t].grid
  BY <1>1 DEF AfterAnalysis, Rows
<1>5. ActiveOf(rows[t]) # None /\ ActiveOf(q) = None => g = None /\ n >= 2 /\ rows[t].active = "user_tap"
  BY <1>1, <1>4, AfterAnalysisKeeps DEF ActiveOf
<1> HIDE DEF q
<1>6. rows'[t] = q /\ rows' \in [Tracks -> Rows] /\ \A u \in Tracks : u # t => rows'[u] = rows[u]
  BY <1>2, <1>3 DEF TypeOK
<1>7. printed' \subseteq Tracks /\ analyzed' \subseteq Tracks
  BY DEF AnalysisWrites, TypeOK
<1> QED BY <1>1, <1>5, <1>6, <1>7

\* However far the upsert of a tap gets, it leaves rows; one that gets through
\* leaves the tapped grid the active one.
LEMMA TapWritesKeep ==
  ASSUME TypeOK, NEW t \in Tracks \cup {None}, NEW g \in Grids, NEW n \in 0..3, TapWrites(t, g, n)
  PROVE  /\ rows' \in [Tracks -> Rows] /\ analyzed' \subseteq Tracks
         /\ \A u \in Tracks : u # t => rows'[u] = rows[u]
         /\ t \in Tracks /\ n = 3 => ActiveOf(rows'[t]) # None
<1> DEFINE q == IF n = 0 THEN rows[t] ELSE IF n = 1 THEN [rows[t] EXCEPT !.active = None]
                ELSE AfterTap(rows[t], g)
<1>1. rows' = [rows EXCEPT ![t] = q]
  BY DEF TapWrites
<1>2. t \in Tracks => q \in Rows /\ (n = 3 => ActiveOf(q) # None)
  BY AfterTapKeeps, RowTypes DEF TypeOK
<1> HIDE DEF q
<1>3. analyzed' \subseteq Tracks
  BY DEF TapWrites, TypeOK
<1> QED BY <1>1, <1>2, <1>3 DEF TypeOK

-----------------------------------------------------------------------------
(* Types *)

\* The initial state has its types.
LEMMA TypeInit == Init => TypeOK
<1> SUFFICES ASSUME Init PROVE TypeOK
  OBVIOUS
<1>1. rows \in [Tracks -> Rows]
  BY RowTypes, AutoGridType, AfterAnalysisKeeps DEF Init
<1>2. printed \subseteq Tracks /\ analyzed \subseteq Tracks
  BY BoundsAssumption DEF Init
<1>3. ui \in Handlers
  BY Names DEF Init, Idle, Handlers
<1> QED
  BY <1>1, <1>2, <1>3, Names DEF Init, TypeOK, EmptyDeck, DeckStates, Headers

\* A handler that begins works on what it was begun with.
LEMMA Begun ==
  ASSUME NEW op \in {"tap", "install", "refresh", "lock"}, NEW t \in Tracks, NEW g \in Grids \cup {None},
         NEW ds \in SUBSET Decks, NEW on \in BOOLEAN, Begin(op, t, g, ds, on)
  PROVE  /\ ui' \in Handlers
         /\ \A d \in Decks : d \in ui'.decks =>
              d \in ds /\ ui'.op = op /\ ui'.track = t /\ ui'.grid = g /\ ui'.on = on
BY Names DEF Begin, Idle, Handlers

\* A track's active grid is a grid or none.
LEMMA ActiveType ==
  ASSUME TypeOK, NEW t \in Tracks
  PROVE  ActiveGrid(t) = ActiveOf(rows[t]) /\ ActiveGrid(t) \in Grids \cup {None}
BY RowTypes DEF TypeOK, ActiveGrid, ActiveOf

\* Changing one field keeps loads, decks, headers and jobs what they are.
LEMMA Edited ==
  /\ \A l \in LoadStates, s \in {"head", "swapped", "failed"} : [l EXCEPT !.stage = s] \in LoadStates
  /\ \A l \in LoadStates, b \in BOOLEAN : [l EXCEPT !.inline = b] \in LoadStates
  /\ \A x \in DeckStates, g \in Grids \cup {None} : [x EXCEPT !.grid = g] \in DeckStates
  /\ \A x \in DeckStates, b \in BOOLEAN :
       [x EXCEPT !.locked = b] \in DeckStates /\ [x EXCEPT !.peaks = b] \in DeckStates
  /\ \A h \in Headers, b \in BOOLEAN :
       /\ [h EXCEPT !.loading = b] \in Headers /\ [h EXCEPT !.bpm = b] \in Headers
       /\ [h EXCEPT !.locked = b] \in Headers
  /\ \A w \in Jobs, s \in {"peaks", "grid", "failed"} : [w EXCEPT !.stage = s] \in Jobs
BY DEF LoadStates, DeckStates, Headers, Jobs

LoadOf(t) == [track |-> t, arc |-> used.loads + 1, grid |-> ActiveGrid(t),
              locked |-> ActiveGrid(t) # None /\ locked[t], stage |-> "head", inline |-> FALSE]

\* A load begins as a load.
LEMMA LoadOfType ==
  ASSUME TypeOK, NEW t \in Tracks
  PROVE  LoadOf(t) \in LoadStates /\ LoadOf(t) # None
<1>1. (ActiveGrid(t) # None /\ locked[t]) \in BOOLEAN
  OBVIOUS
<1>2. LoadOf(t) \in LoadStates
  BY <1>1, ActiveType DEF TypeOK, LoadStates, LoadOf
<1> QED BY <1>2, Names

\* The steps of a load keep the types.
LEMMA LoadTypes ==
  ASSUME TypeOK, NEW d \in Decks, LoadStep(d)
  PROVE  TypeOK'
<1>1. ASSUME NEW t \in Tracks, Load(d, t) PROVE TypeOK'
  <2>1. loads' \in [Decks -> LoadStates \cup {None}]
    <3>1. loads' = [loads EXCEPT ![d] = LoadOf(t)]
      BY <1>1 DEF Load, LoadOf
    <3> QED BY <3>1, LoadOfType DEF TypeOK
  <2>2. shown' \in [Decks -> Headers]
    <3>1. [[shown[d] EXCEPT !.loading = TRUE] EXCEPT !.bpm = FALSE] \in Headers
      BY Edited DEF TypeOK
    <3> QED BY <1>1, <3>1 DEF Load, TypeOK
  <2>3. missed' \subseteq Nat /\ used' \in [loads : Nat, gestures : Nat]
    BY <1>1 DEF Load, TypeOK
  <2>4. tapping' \subseteq Decks
    BY <1>1 DEF Load, TypeOK
  <2> QED BY <1>1, <2>1, <2>2, <2>3, <2>4 DEF Load, TypeOK, Library, Background
<1>2. ASSUME LoadFails(d) PROVE TypeOK'
  <2>1. loads[d] \in LoadStates
    BY <1>2 DEF LoadFails, TypeOK
  <2>2. loads' \in [Decks -> LoadStates \cup {None}]
    BY <1>2, <2>1, Edited DEF LoadFails, TypeOK
  <2> QED BY <1>2, <2>2 DEF LoadFails, TypeOK, Library, Background
<1>3. ASSUME LoadHead(d) PROVE TypeOK'
  <2>1. loads[d] \in LoadStates
    BY <1>3 DEF LoadHead, TypeOK
  <2>2. Worker(d) \in Jobs
    BY <2>1 DEF Worker, LoadStates, Jobs
  <2>3. workers' \subseteq Jobs
    BY <1>3, <2>2 DEF LoadHead, Started, TypeOK
  <2>4. loads' \in [Decks -> LoadStates \cup {None}]
    <3>1. PICK b \in BOOLEAN : loads' = [loads EXCEPT ![d].stage = "swapped", ![d].inline = b]
      BY <1>3 DEF LoadHead
    <3>2. [[loads[d] EXCEPT !.stage = "swapped"] EXCEPT !.inline = b] \in LoadStates
      BY <2>1, Edited
    <3> QED BY <3>1, <3>2 DEF TypeOK
  <2>5. deck' \in [Decks -> DeckStates]
    BY <1>3, <2>1 DEF LoadHead, TypeOK, LoadStates, DeckStates, EmptyDeck
  <2> QED BY <1>3, <2>3, <2>4, <2>5 DEF LoadHead, TypeOK, Library
<1>4. ASSUME LoadDone(d) PROVE TypeOK'
  <2>1. loads[d] \in LoadStates
    BY <1>4 DEF LoadDone, TypeOK
  <2>2. shown' \in [Decks -> Headers]
    BY <1>4, <2>1 DEF LoadDone, TypeOK, LoadStates, Headers
  <2>3. analyses' \in [Tracks -> Runs \cup {None}]
    BY <1>4 DEF LoadDone, EnsureAnalyzed, TypeOK, Runs
  <2> QED BY <1>4, <2>2, <2>3 DEF LoadDone, TypeOK, Library
<1>5. ASSUME LoadFailed(d) PROVE TypeOK'
  BY <1>5, Edited DEF LoadFailed, TypeOK, Library, Background
<1> QED BY <1>1, <1>2, <1>3, <1>4, <1>5 DEF LoadStep

\* The steps of an analysis worker of a deck keep the types.
LEMMA WorkerTypes ==
  ASSUME TypeOK, NEW w \in workers, WorkerStep(w)
  PROVE  TypeOK'
<1>1. w \in Jobs
  BY DEF TypeOK
<1>2. ASSUME WorkerPeaks(w) PROVE TypeOK'
  <2>1. workers' \subseteq Jobs
    <3>1. [w EXCEPT !.stage = "grid"] \in Jobs
      BY <1>1, Edited
    <3> QED BY <1>2, <3>1 DEF WorkerPeaks, TypeOK
  <2>2. deck' \in [Decks -> DeckStates]
    <3>1. w.deck \in Decks /\ w.locked \in BOOLEAN
      BY <1>1 DEF Jobs
    <3>2. [[[deck[w.deck] EXCEPT !.peaks = TRUE] EXCEPT !.grid = None] EXCEPT !.locked = w.locked] \in DeckStates
      BY <3>1, Edited DEF TypeOK
    <3> QED BY <1>2, <3>1, <3>2 DEF WorkerPeaks, TypeOK
  <2> QED BY <1>2, <2>1, <2>2 DEF WorkerPeaks, TypeOK, Library
<1>3. ASSUME WorkerFails(w) PROVE TypeOK'
  <2>1. workers' \subseteq Jobs
    BY <1>1, <1>3, Edited DEF WorkerFails, TypeOK
  <2> QED BY <1>3, <2>1 DEF WorkerFails, TypeOK, Library
<1>4. ASSUME WorkerGrid(w) PROVE TypeOK'
  <2>1. AutoGrid(w.track) \in Grids \cup {None}
    BY <1>1, AutoGridType DEF Jobs
  <2>2. w.deck \in Decks /\ w.grid \in Grids \cup {None}
    BY <1>1 DEF Jobs
  <2>3. deck' \in [Decks -> DeckStates]
    BY <1>4, <2>1, <2>2, Edited DEF WorkerGrid, TypeOK
  <2> QED BY <1>4, <2>3 DEF WorkerGrid, TypeOK, Library
<1> QED BY <1>2, <1>3, <1>4 DEF WorkerStep

\* The steps of an analysis run of the library keep the types.
LEMMA AnalysisTypes ==
  ASSUME TypeOK, NEW t \in Tracks, AnalysisStep(t)
  PROVE  TypeOK'
<1>1. ASSUME AnalyzePrepare(t) PROVE TypeOK'
  BY <1>1 DEF AnalyzePrepare, TypeOK, Runs, Library
<1>2. ASSUME AnalyzeFails(t) PROVE TypeOK'
  BY <1>2 DEF AnalyzeFails, TypeOK, Runs, Library
<1>3. ASSUME AnalyzeCommit(t) PROVE TypeOK'
  <2>1. rows' \in [Tracks -> Rows] /\ printed' \subseteq Tracks /\ analyzed' \subseteq Tracks
    BY <1>3, AnalysisWritesKeep DEF AnalyzeCommit, TypeOK
  <2>2. analyses' \in [Tracks -> Runs \cup {None}]
    BY <1>3 DEF AnalyzeCommit, TypeOK, Runs
  <2> QED BY <1>3, <2>1, <2>2 DEF AnalyzeCommit, TypeOK
<1>5. ASSUME AnalyzeCommitFails(t) PROVE TypeOK'
  <2>1. rows' \in [Tracks -> Rows] /\ printed' \subseteq Tracks /\ analyzed' \subseteq Tracks
    <3>1. PICK n \in 0..4 : AnalysisWrites(t, n)
      BY <1>5 DEF AnalyzeCommitFails
    <3> QED BY <3>1, AnalysisWritesKeep
  <2>2. analyses' \in [Tracks -> Runs \cup {None}]
    BY <1>5 DEF AnalyzeCommitFails, TypeOK, Runs
  <2> QED BY <1>5, <2>1, <2>2 DEF AnalyzeCommitFails, TypeOK
<1>4. ASSUME AnalyzePublish(t) PROVE TypeOK'
  <2>1. ui' \in Handlers
    <3>1. Idle \in Handlers
      BY Names DEF Idle, Handlers
    <3> DEFINE ds == {d \in Showing(t) : ~shown[d].locked}
    <3>2. ds \in SUBSET Decks
      BY DEF Showing
    <3>3. ui' = Idle \/ Begin("refresh", t, ActiveGrid(t), ds, FALSE)
      BY <1>4 DEF AnalyzePublish
    <3> HIDE DEF ds
    <3> QED BY <3>1, <3>2, <3>3, ActiveType, Begun
  <2> QED BY <1>4, <2>1 DEF AnalyzePublish, TypeOK, Library
<1> QED BY <1>1, <1>2, <1>3, <1>4, <1>5 DEF AnalysisStep

\* A grid put on a deck leaves the decks decks.
LEMMA InstalledType ==
  ASSUME TypeOK, NEW d \in Decks, NEW g \in Grids \cup {None}
  PROVE  Installed(d, g) \in [Decks -> DeckStates]
BY Edited DEF Installed, TypeOK

\* A grid made by a gesture is one of its track.
LEMMA Made ==
  ASSUME TypeOK, NEW t \in Tracks
  PROVE  NewGrid(t) \in Grids /\ NewGrid(t).of = t /\ NewGrid(t) # None
BY GridTypes DEF NewGrid, TypeOK

\* A deck with a waveform has a track.
PeaksHaveTrack == \A d \in Decks : deck[d].peaks => deck[d].track # None

\* The steps of a grid edit keep the types.
LEMMA EditTypes ==
  ASSUME TypeOK, PeaksHaveTrack, NEW d \in Decks, EditStep(d) \/ Poll(d)
  PROVE  TypeOK'
<1>1. ASSUME Tap(d) PROVE TypeOK'
  BY <1>1 DEF Tap, TypeOK, Library, Background
<1>2. ASSUME CommitTap(d) PROVE TypeOK'
  <2>1. ui' \in Handlers /\ used' \in [loads : Nat, gestures : Nat]
    <3>1. CASE /\ deck[d].peaks
               /\ Gesture
               /\ Begin("tap", deck[d].track, NewGrid(deck[d].track), {d}, FALSE)
      <4>1. deck[d].track \in Tracks
        BY <3>1 DEF PeaksHaveTrack, TypeOK, DeckStates
      <4>2. NewGrid(deck[d].track) \in Grids
        BY <4>1, Made
      <4>3. ui' \in Handlers
        BY <3>1, <4>1, <4>2, Begun
      <4> QED BY <3>1, <4>3 DEF Gesture, TypeOK
    <3>2. CASE UNCHANGED <<ui, used>>
      BY <3>2 DEF TypeOK
    <3> QED BY <1>2, <3>1, <3>2 DEF CommitTap
  <2> QED BY <1>2, <2>1 DEF CommitTap, TypeOK, Library, Background
<1>3. ASSUME InstallTap(d) PROVE TypeOK'
  <2>1. ui.grid \in Grids \cup {None} /\ ui' \in Handlers
    BY <1>3 DEF InstallTap, TypeOK, Handlers
  <2> QED BY <1>3, <2>1, InstalledType DEF InstallTap, TypeOK, Library, Background
<1>4. ASSUME ReadTap(d) PROVE TypeOK'
  <2>1. shown' \in [Decks -> Headers]
    <3>1. [shown[d] EXCEPT !.bpm = TRUE] \in Headers
      BY Edited DEF TypeOK
    <3> QED BY <1>4, <3>1 DEF ReadTap, TypeOK
  <2>2. persists' \subseteq [track : Tracks \cup {None}, grid : Grids]
    BY <1>4 DEF ReadTap, TypeOK, Headers, DeckStates
  <2>3. ui' \in Handlers
    BY <1>4, Names DEF ReadTap, Idle, Handlers
  <2> QED BY <1>4, <2>1, <2>2, <2>3 DEF ReadTap, TypeOK, Library
<1>5. ASSUME ApplyTapToGrid(d) PROVE TypeOK'
  <2>1. deck[d].track \in Tracks
    BY <1>5 DEF ApplyTapToGrid, PeaksHaveTrack, TypeOK, DeckStates
  <2>2. NewGrid(deck[d].track) \in Grids
    BY <2>1, Made
  <2>3. deck' \in [Decks -> DeckStates]
    BY <1>5, <2>2, InstalledType DEF ApplyTapToGrid
  <2>4. persists' \subseteq [track : Tracks \cup {None}, grid : Grids]
    BY <1>5, <2>2 DEF ApplyTapToGrid, TypeOK, Headers
  <2>5. shown' \in [Decks -> Headers] /\ used' \in [loads : Nat, gestures : Nat]
    <3>1. [shown[d] EXCEPT !.bpm = TRUE] \in Headers
      BY Edited DEF TypeOK
    <3> QED BY <1>5, <3>1 DEF ApplyTapToGrid, Gesture, TypeOK
  <2> QED BY <1>5, <2>3, <2>4, <2>5 DEF ApplyTapToGrid, TypeOK, Library
<1>6. ASSUME Scale(d) \/ ScaleFails(d) PROVE TypeOK'
  <2> DEFINE t == shown[d].track
  <2>1. t \in Tracks
    BY <1>6 DEF Scale, ScaleFails, TypeOK, Headers
  <2>2. NewGrid(t) \in Grids
    BY <2>1, Made
  <2>3. PICK n \in 0..3 : TapWrites(t, NewGrid(t), n)
    BY <1>6 DEF Scale, ScaleFails
  <2>4. ui' = ui \/ Begin("install", t, NewGrid(t), Showing(t), locked[t])
    BY <1>6 DEF Scale, ScaleFails
  <2> HIDE DEF t
  <2>5. rows' \in [Tracks -> Rows] /\ analyzed' \subseteq Tracks
    BY <2>1, <2>2, <2>3, TapWritesKeep
  <2>6. ui' \in Handlers
    <3>1. Showing(t) \in SUBSET Decks /\ locked[t] \in BOOLEAN
      BY <2>1 DEF Showing, TypeOK
    <3> QED BY <2>1, <2>2, <2>4, <3>1, Begun DEF TypeOK
  <2> QED BY <1>6, <2>5, <2>6 DEF Scale, ScaleFails, Gesture, TypeOK, Background
<1>7. ASSUME InstallNext(d) PROVE TypeOK'
  <2>1. ui.grid \in Grids \cup {None} /\ ui.on \in BOOLEAN /\ ui.track \in Tracks \cup {None}
    BY DEF TypeOK, Handlers
  <2>2. deck' \in [Decks -> DeckStates]
    BY <1>7, <2>1, InstalledType DEF InstallNext
  <2>3. shown' \in [Decks -> Headers]
    <3>1. \A b \in BOOLEAN : [[shown[d] EXCEPT !.bpm = TRUE] EXCEPT !.locked = b] \in Headers
      BY Edited DEF TypeOK
    <3>2. (IF ui.op = "install" THEN ui.on ELSE shown[d].locked) \in BOOLEAN
      BY <2>1 DEF TypeOK, Headers
    <3> QED BY <1>7, <3>1, <3>2 DEF InstallNext, TypeOK
  <2>4. ui' \in Handlers
    BY <1>7, Names DEF InstallNext, Advance, Begin, Idle, TypeOK, Handlers
  <2> QED BY <1>7, <2>2, <2>3, <2>4 DEF InstallNext, TypeOK, Library, Background
<1>8. ASSUME LockNext(d) PROVE TypeOK'
  <2>1. ui.on \in BOOLEAN
    BY DEF TypeOK, Handlers
  <2>2. deck' \in [Decks -> DeckStates] /\ shown' \in [Decks -> Headers]
    BY <1>8, <2>1, Edited DEF LockNext, TypeOK
  <2>3. ui' \in Handlers
    BY <1>8, Names DEF LockNext, Advance, Begin, Idle, TypeOK, Handlers
  <2>4. missed' \subseteq Nat
    BY <1>8 DEF LockNext, TypeOK, DeckStates
  <2> QED BY <1>8, <2>2, <2>3, <2>4 DEF LockNext, TypeOK, Library, Background
<1>9. ASSUME Poll(d) PROVE TypeOK'
  <2>1. shown' \in [Decks -> Headers] /\ analyses' \in [Tracks -> Runs \cup {None}]
    BY <1>9, Edited DEF Poll, EnsureAnalyzed, TypeOK, Runs
  <2> QED BY <1>9, <2>1 DEF Poll, TypeOK, Library
<1> QED BY <1>1, <1>2, <1>3, <1>4, <1>5, <1>6, <1>7, <1>8, <1>9 DEF EditStep

\* Reanalyses, imports and locks of the browser keep the types.
LEMMA BrowserTypes ==
  ASSUME TypeOK, NEW t \in Tracks,
         Reanalyze(t) \/ (\E s \in Imports : Import(t, s) \/ ImportFails(t, s)) \/ (\E on \in BOOLEAN : SetGridLocked(t, on))
  PROVE  TypeOK'
<1>1. ASSUME Reanalyze(t) PROVE TypeOK'
  BY <1>1 DEF Reanalyze, Gesture, TypeOK, Runs, Library
<1>2. ASSUME NEW s \in Imports, Import(t, s) \/ ImportFails(t, s) PROVE TypeOK'
  <2>1. rows[t] \in Rows /\ AfterImport(rows[t], s, NewGrid(t)) \in Rows
        /\ [rows[t] EXCEPT !.active = None] \in Rows
    BY Made, AfterImportKeeps, RowTypes DEF TypeOK
  <2>2. rows' \in [Tracks -> Rows]
    BY <1>2, <2>1 DEF Import, ImportFails, TypeOK
  <2> QED BY <1>2, <2>2 DEF Import, ImportFails, Gesture, TypeOK, Background
<1>3. ASSUME NEW on \in BOOLEAN, SetGridLocked(t, on) PROVE TypeOK'
  <2>1. ui' \in Handlers
    <3>1. Showing(t) \in SUBSET Decks
      BY DEF Showing
    <3> QED BY <1>3, <3>1, Begun DEF SetGridLocked
  <2>2. Between(t) \subseteq Nat
    BY DEF Between, TypeOK, LoadStates, DeckStates
  <2> QED BY <1>3, <2>1, <2>2 DEF SetGridLocked, Gesture, TypeOK, Background
<1> QED BY <1>1, <1>2, <1>3

\* A grid that is filed, or fails to be, keeps the types.
LEMMA PersistTypes ==
  ASSUME TypeOK, NEW p \in persists, Persist(p) \/ PersistFails(p)
  PROVE  TypeOK'
<1>1. p.grid \in Grids
  BY DEF TypeOK
<1>2. PICK n \in 0..3 : TapWrites(p.track, p.grid, n)
  BY DEF Persist, PersistFails
<1>3. p.track \in Tracks \cup {None}
  BY DEF TypeOK
<1>4. rows' \in [Tracks -> Rows] /\ analyzed' \subseteq Tracks
  BY <1>1, <1>2, <1>3, TapWritesKeep
<1> QED BY <1>4 DEF Persist, PersistFails, TypeOK

-----------------------------------------------------------------------------
(* Which load a deck, a header, a worker and a handler are at *)

\* A header says "loading" while a load is under way, and otherwise names the
\* track of the deck.
HeaderFits ==
  \A d \in Decks :
    /\ shown[d].loading <=> loads[d] # None
    /\ loads[d] # None /\ loads[d].stage = "swapped" =>
         deck[d].arc = loads[d].arc /\ deck[d].track = loads[d].track
    /\ loads[d] = None \/ loads[d].stage # "swapped" => shown[d].track = deck[d].track

\* Loads and workers are told apart by their number.
LoadsApart ==
  /\ \A d \in Decks : loads[d] # None => loads[d].arc <= used.loads
  /\ \A w \in workers : w.arc <= used.loads
  /\ \A d, e \in Decks : d # e /\ loads[d] # None /\ loads[e] # None => loads[d].arc # loads[e].arc
  /\ \A d \in Decks, w \in workers : loads[d] # None /\ loads[d].stage = "head" => w.arc # loads[d].arc
  /\ \A v, w \in workers : v.arc = w.arc => v = w

\* A worker whose load is on its deck works on the deck's track.
WorkersFit ==
  \A w \in workers : deck[w.deck].arc = w.arc =>
    /\ deck[w.deck].track = w.track
    /\ w.stage = "peaks" => ~deck[w.deck].peaks

\* A handler visits decks that showed its track when it began.
HandlerFits ==
  \A d \in ui.decks :
    /\ ui.op = "tap" => shown[d].loading \/ ui.grid.of = deck[d].track
    /\ ui.op \in {"install", "refresh", "lock"} => shown[d].track = ui.track
    /\ ui.op = "lock" => ui.track \in Tracks /\ ui.on = locked[ui.track]

\* The lock, on its way from the library to the deck.
LockFits ==
  /\ \A d \in Decks : loads[d] # None /\ loads[d].arc \notin missed =>
       loads[d].locked = locked[loads[d].track]
  /\ \A w \in workers : w.stage = "peaks" /\ deck[w.deck].arc = w.arc /\ w.arc \notin missed =>
       w.locked = locked[w.track]
  /\ \A d \in Decks : deck[d].peaks /\ deck[d].arc \notin missed =>
       deck[d].locked = locked[deck[d].track] \/ (ui.op = "lock" /\ d \in ui.decks)

IInv == TypeOK /\ PeaksHaveTrack /\ HeaderFits /\ LoadsApart /\ WorkersFit /\ HandlerFits /\ LockFits

\* The inductive invariant holds at first.
LEMMA InvInit == Init => IInv
<1>1. Init => TypeOK
  BY TypeInit
<1>2. Init => PeaksHaveTrack /\ HeaderFits
  BY DEF Init, EmptyDeck, PeaksHaveTrack, HeaderFits
<1>3. Init => LoadsApart /\ WorkersFit
  BY DEF Init, LoadsApart, WorkersFit
<1>4. Init => HandlerFits /\ LockFits
  <2>1. Init => ui.decks = {}
    BY DEF Init, Idle
  <2>2. Init => workers = {} /\ \A d \in Decks : loads[d] = None /\ ~deck[d].peaks
    BY DEF Init, EmptyDeck
  <2> QED BY <2>1, <2>2 DEF HandlerFits, LockFits
<1> QED BY <1>1, <1>2, <1>3, <1>4 DEF IInv

\* What most handlers leave alone.
SameLoads ==
  /\ UNCHANGED <<loads, workers>> /\ used'.loads = used.loads
  /\ \A d \in Decks : /\ deck'[d].arc = deck[d].arc /\ deck'[d].track = deck[d].track
                      /\ deck'[d].peaks = deck[d].peaks
                      /\ shown'[d].track = shown[d].track /\ shown'[d].loading = shown[d].loading

SameLocks ==
  /\ UNCHANGED <<locked, missed>> /\ \A d \in Decks : deck'[d].locked = deck[d].locked
  /\ ui.op = "lock" => ui' = ui

\* A step that leaves loads, workers and decks alone keeps what ties them.
LEMMA SameLoadsKeep ==
  ASSUME IInv, SameLoads
  PROVE  PeaksHaveTrack' /\ HeaderFits' /\ LoadsApart' /\ WorkersFit'
<1>1. PeaksHaveTrack' /\ HeaderFits'
  BY DEF IInv, SameLoads, PeaksHaveTrack, HeaderFits
<1>2. LoadsApart'
  BY DEF IInv, SameLoads, LoadsApart
<1>3. WorkersFit'
  BY DEF IInv, SameLoads, WorkersFit, TypeOK, Jobs
<1> QED BY <1>1, <1>2, <1>3

\* A step that leaves the locks and their way to the decks alone keeps them.
LEMMA SameLocksKeep ==
  ASSUME IInv, SameLoads, SameLocks
  PROVE  LockFits'
BY DEF IInv, SameLoads, SameLocks, LockFits, TypeOK, Jobs

\* A step that touches neither deck, load nor lock keeps the invariant.
LEMMA QuietKeeps ==
  ASSUME IInv, TypeOK', UNCHANGED <<deck, loads, workers, missed, locked, ui>>,
         used'.loads = used.loads,
         \A d \in Decks : shown'[d].track = shown[d].track /\ shown'[d].loading = shown[d].loading
  PROVE  IInv'
<1>1. SameLoads /\ SameLocks
  BY DEF SameLoads, SameLocks
<1>2. HandlerFits'
  BY DEF IInv, HandlerFits, TypeOK, Handlers
<1> QED BY <1>1, <1>2, SameLoadsKeep, SameLocksKeep DEF IInv

\* A load that begins keeps the invariant.
LEMMA LoadKeeps ==
  ASSUME IInv, NEW d \in Decks, NEW t \in Tracks, Load(d, t)
  PROVE  IInv'
<1>1. TypeOK'
  BY LoadTypes DEF IInv, LoadStep
<1> DEFINE l == LoadOf(t)
<1>2. /\ loads' = [loads EXCEPT ![d] = l] /\ l.arc = used.loads + 1 /\ l.stage = "head" /\ l.track = t
      /\ l.locked = (ActiveGrid(t) # None /\ locked[t])
  BY DEF Load, LoadOf
<1>3. l # None
  BY LoadOfType DEF IInv
<1> HIDE DEF l
<1>4. /\ loads[d] = None /\ shown'[d].loading
      /\ \A e \in Decks : shown'[e].track = shown[e].track /\ (e # d => shown'[e].loading = shown[e].loading)
      /\ UNCHANGED <<deck, workers, ui, locked>> /\ used'.loads = used.loads + 1 /\ used.loads \in Nat
      /\ ui.decks = {}
  <2>1. loads[d] = None
    BY DEF Load, IInv, HeaderFits
  <2>2. /\ shown'[d].loading
        /\ \A e \in Decks : shown'[e].track = shown[e].track /\ (e # d => shown'[e].loading = shown[e].loading)
    BY DEF Load, IInv, TypeOK, Headers
  <2>3. ui.decks = {}
    BY DEF Load, Idle
  <2>4. used'.loads = used.loads + 1 /\ used.loads \in Nat
    BY DEF Load, IInv, TypeOK
  <2> QED BY <2>1, <2>2, <2>3, <2>4 DEF Load, Background, Library
<1>5. PeaksHaveTrack' /\ HeaderFits' /\ WorkersFit' /\ HandlerFits'
  BY <1>2, <1>3, <1>4 DEF IInv, PeaksHaveTrack, HeaderFits, WorkersFit, HandlerFits, TypeOK
<1>6. LoadsApart'
  BY <1>2, <1>3, <1>4 DEF IInv, LoadsApart, TypeOK, LoadStates, Jobs
<1>7. LockFits'
  <2>1. missed \subseteq missed' /\ (used.loads + 1 \in missed' \/ l.locked = locked[t])
    BY <1>2 DEF Load, IInv, TypeOK
  <2> QED BY <1>2, <1>3, <1>4, <2>1 DEF IInv, LockFits, TypeOK
<1> QED BY <1>1, <1>5, <1>6, <1>7 DEF IInv

\* A load that fails keeps the invariant.
LEMMA LoadFailsKeeps ==
  ASSUME IInv, NEW d \in Decks, LoadFails(d)
  PROVE  IInv'
<1>1. TypeOK'
  BY LoadTypes DEF IInv, LoadStep
<1>2. /\ loads[d] \in LoadStates /\ loads[d].stage = "head" /\ loads' = [loads EXCEPT ![d].stage = "failed"]
      /\ UNCHANGED <<deck, shown, workers, ui, locked, missed, used>>
  BY DEF LoadFails, IInv, TypeOK, Library, Background
<1>3. /\ loads'[d] # None /\ loads'[d].arc = loads[d].arc /\ loads'[d].track = loads[d].track
      /\ loads'[d].locked = loads[d].locked /\ loads'[d].stage = "failed"
  <2>1. [loads[d] EXCEPT !.stage = "failed"] \in LoadStates
    BY <1>2, Edited
  <2> QED BY <1>2, <2>1, Names DEF IInv, TypeOK, LoadStates
<1>4. PeaksHaveTrack' /\ HeaderFits' /\ WorkersFit' /\ HandlerFits'
  BY <1>2, <1>3, Names DEF IInv, PeaksHaveTrack, HeaderFits, WorkersFit, HandlerFits, TypeOK
<1>5. LoadsApart' /\ LockFits'
  BY <1>2, <1>3, Names DEF IInv, LoadsApart, LockFits, TypeOK
<1> QED BY <1>1, <1>4, <1>5 DEF IInv

\* A load that reaches its deck keeps the invariant.
LEMMA LoadHeadKeeps ==
  ASSUME IInv, NEW d \in Decks, LoadHead(d)
  PROVE  IInv'
<1>1. TypeOK'
  BY LoadTypes DEF IInv, LoadStep
<1>2. /\ loads[d] \in LoadStates /\ loads[d] # None /\ loads[d].stage = "head"
      /\ workers' = workers \cup {Worker(d)}
      /\ UNCHANGED <<shown, ui, locked, missed, used>>
      /\ deck' = [deck EXCEPT ![d] = [EmptyDeck EXCEPT !.arc = loads[d].arc, !.track = loads[d].track]]
  BY DEF LoadHead, IInv, TypeOK, Library, Started
<1>3. /\ loads' = [loads EXCEPT ![d] = loads'[d]] /\ loads'[d] # None
      /\ loads'[d].arc = loads[d].arc /\ loads'[d].track = loads[d].track
      /\ loads'[d].locked = loads[d].locked /\ loads'[d].stage = "swapped"
  <2>1. PICK b \in BOOLEAN : loads' = [loads EXCEPT ![d].stage = "swapped", ![d].inline = b]
    BY DEF LoadHead
  <2>2. [[loads[d] EXCEPT !.stage = "swapped"] EXCEPT !.inline = b] \in LoadStates
    BY <1>2, Edited
  <2> QED BY <1>2, <2>1, <2>2, Names DEF IInv, TypeOK, LoadStates
<1>4. /\ deck'[d].arc = loads[d].arc /\ deck'[d].track = loads[d].track /\ ~deck'[d].peaks
      /\ \A e \in Decks : e # d => deck'[e] = deck[e]
  BY <1>2 DEF EmptyDeck, IInv, TypeOK
<1>5. /\ Worker(d).arc = loads[d].arc /\ Worker(d).deck = d /\ Worker(d).track = loads[d].track
      /\ Worker(d).stage = "peaks" /\ Worker(d).locked = loads[d].locked
  BY DEF Worker
<1>6. PeaksHaveTrack' /\ HeaderFits' /\ HandlerFits'
  BY <1>2, <1>3, <1>4 DEF IInv, PeaksHaveTrack, HeaderFits, HandlerFits, TypeOK, Handlers
<1>7. \A w \in workers : w.arc # loads[d].arc /\ w.deck \in Decks
  BY <1>2 DEF IInv, LoadsApart, TypeOK, Jobs
<1>8. LoadsApart'
  <2>1. \A e \in Decks : (loads'[e] # None <=> loads[e] # None)
          /\ (loads[e] # None => loads'[e].arc = loads[e].arc)
          /\ (loads'[e] # None /\ loads'[e].stage = "head" => loads[e].stage = "head" /\ e # d)
    BY <1>2, <1>3 DEF IInv, TypeOK
  <2>2. \A e \in Decks : e # d /\ loads[e] # None => loads[e].arc # loads[d].arc
    BY <1>2 DEF IInv, LoadsApart
  <2>3. loads[d].arc <= used.loads
    BY <1>2 DEF IInv, LoadsApart
  <2> HIDE DEF LoadHead
  <2> QED BY <1>2, <1>5, <1>7, <2>1, <2>2, <2>3 DEF IInv, LoadsApart
<1>9. WorkersFit'
  BY <1>2, <1>4, <1>5, <1>7 DEF IInv, WorkersFit
<1>10. LockFits'
  <2>1. \A e \in Decks : (loads'[e] # None <=> loads[e] # None)
          /\ (loads[e] # None => /\ loads'[e].arc = loads[e].arc /\ loads'[e].track = loads[e].track
                                 /\ loads'[e].locked = loads[e].locked)
    BY <1>2, <1>3 DEF IInv, TypeOK
  <2>2. (\A e \in Decks : loads[e] # None /\ loads[e].arc \notin missed =>
          loads[e].locked = locked[loads[e].track])'
    BY <1>2, <2>1 DEF IInv, LockFits
  <2>3. (\A w \in workers : w.stage = "peaks" /\ deck[w.deck].arc = w.arc /\ w.arc \notin missed =>
          w.locked = locked[w.track])'
    BY <1>2, <1>4, <1>5, <1>7 DEF IInv, LockFits
  <2>4. (\A e \in Decks : deck[e].peaks /\ deck[e].arc \notin missed =>
          deck[e].locked = locked[deck[e].track] \/ (ui.op = "lock" /\ e \in ui.decks))'
    BY <1>2, <1>4 DEF IInv, LockFits
  <2> QED BY <2>2, <2>3, <2>4 DEF LockFits
<1> QED BY <1>1, <1>6, <1>8, <1>9, <1>10 DEF IInv

\* A load that is over keeps the invariant.
LEMMA LoadOverKeeps ==
  ASSUME IInv, NEW d \in Decks, LoadDone(d) \/ LoadFailed(d)
  PROVE  IInv'
<1>1. TypeOK'
  BY LoadTypes DEF IInv, LoadStep
<1>2. /\ loads[d] \in LoadStates /\ loads[d] # None /\ loads' = [loads EXCEPT ![d] = None]
      /\ UNCHANGED <<deck, workers, ui, locked, missed, used>> /\ ui.decks = {}
      /\ ~shown'[d].loading /\ \A e \in Decks : e # d => shown'[e] = shown[e]
  BY DEF LoadDone, LoadFailed, IInv, TypeOK, Headers, Library, Background, Idle
<1>3. shown'[d].track = deck[d].track
  BY DEF LoadDone, LoadFailed, IInv, HeaderFits, TypeOK, Headers
<1>4. PeaksHaveTrack' /\ HeaderFits' /\ WorkersFit' /\ HandlerFits'
  BY <1>2, <1>3 DEF IInv, PeaksHaveTrack, HeaderFits, WorkersFit, HandlerFits, TypeOK
<1>5. LoadsApart' /\ LockFits'
  BY <1>2 DEF IInv, LoadsApart, LockFits, TypeOK
<1> QED BY <1>1, <1>4, <1>5 DEF IInv

\* A worker that goes from stage to stage, or ends.
MovedOn(w) ==
  \/ workers' = workers \ {w}
  \/ \E s \in {"grid", "failed"} : workers' = (workers \ {w}) \cup {[w EXCEPT !.stage = s]}

\* A worker that moves on, or ends, stays the only one of its load.
LEMMA MovedOnKeeps ==
  ASSUME IInv, NEW w \in workers, MovedOn(w), UNCHANGED <<loads, used>>
  PROVE  /\ LoadsApart'
         /\ \A v \in workers' : v \in workers \/ (v.arc = w.arc /\ v.deck = w.deck /\ v.track = w.track
                                                  /\ v.stage # "peaks")
         /\ \A v \in workers' : v \in workers => v = w \/ v.arc # w.arc
<1>1. w \in Jobs
  BY DEF IInv, TypeOK
<1>2. CASE workers' = workers \ {w}
  BY <1>2 DEF IInv, LoadsApart
<1>3. ASSUME NEW s \in {"grid", "failed"}, workers' = (workers \ {w}) \cup {[w EXCEPT !.stage = s]}
      PROVE  /\ LoadsApart'
             /\ \A v \in workers' : v \in workers \/ (v.arc = w.arc /\ v.deck = w.deck /\ v.track = w.track
                                                      /\ v.stage # "peaks")
             /\ \A v \in workers' : v \in workers => v = w \/ v.arc # w.arc
  <2> DEFINE u == [w EXCEPT !.stage = s]
  <2>1. u.arc = w.arc /\ u.deck = w.deck /\ u.track = w.track /\ u.stage = s
    BY <1>1 DEF Jobs
  <2>2. workers' = (workers \ {w}) \cup {u}
    BY <1>3
  <2> HIDE DEF u
  <2>3. LoadsApart'
    BY <2>1, <2>2 DEF IInv, LoadsApart
  <2> QED BY <2>1, <2>2, <2>3 DEF IInv, LoadsApart
<1> QED BY <1>2, <1>3 DEF MovedOn

\* The steps of a worker keep the invariant.
LEMMA WorkerKeeps ==
  ASSUME IInv, NEW w \in workers, WorkerStep(w)
  PROVE  IInv'
<1>1. TypeOK'
  BY WorkerTypes DEF IInv
<1>2. MovedOn(w) /\ UNCHANGED <<loads, used, shown, ui, locked, missed>>
  BY DEF WorkerStep, WorkerPeaks, WorkerFails, WorkerGrid, MovedOn, Library
<1>3. /\ LoadsApart'
      /\ \A v \in workers' : v \in workers \/ (v.arc = w.arc /\ v.deck = w.deck /\ v.track = w.track
                                               /\ v.stage # "peaks")
      /\ \A v \in workers' : v \in workers => v = w \/ v.arc # w.arc
  BY <1>2, MovedOnKeeps
<1>4. w.deck \in Decks /\ w.locked \in BOOLEAN /\ w.track \in Tracks
  BY DEF IInv, TypeOK, Jobs
<1>5. /\ \A d \in Decks : deck'[d].arc = deck[d].arc /\ deck'[d].track = deck[d].track
      /\ \A d \in Decks : \/ deck'[d].peaks = deck[d].peaks /\ deck'[d].locked = deck[d].locked
                          \/ /\ d = w.deck /\ deck[d].arc = w.arc /\ w.stage = "peaks"
                             /\ deck'[d].peaks /\ deck'[d].locked = w.locked /\ WorkerPeaks(w)
  <2>1. CASE WorkerPeaks(w)
    BY <2>1, <1>4 DEF WorkerPeaks, StillLoaded, IInv, TypeOK, DeckStates
  <2>2. CASE WorkerFails(w) \/ WorkerGrid(w)
    BY <2>2, <1>4 DEF WorkerFails, WorkerGrid, IInv, TypeOK, DeckStates
  <2> QED BY <2>1, <2>2 DEF WorkerStep
<1>6. PeaksHaveTrack' /\ HeaderFits'
  BY <1>2, <1>4, <1>5, Names DEF IInv, PeaksHaveTrack, HeaderFits, WorkersFit
<1>7. HandlerFits'
  BY <1>2, <1>5 DEF IInv, HandlerFits, TypeOK, Handlers
<1>8. \A v \in workers' : v.deck \in Decks
  BY <1>1 DEF TypeOK, Jobs
<1>9. WorkerPeaks(w) /\ deck[w.deck].arc = w.arc => \A v \in workers' : v.arc = w.arc => v.stage # "peaks"
  <2> SUFFICES ASSUME WorkerPeaks(w), deck[w.deck].arc = w.arc, NEW v \in workers', v.arc = w.arc
               PROVE  v.stage # "peaks"
    OBVIOUS
  <2>1. workers' = (workers \ {w}) \cup {[w EXCEPT !.stage = "grid"]}
    BY DEF WorkerPeaks, StillLoaded
  <2>2. [w EXCEPT !.stage = "grid"].stage = "grid"
    BY DEF IInv, TypeOK, Jobs
  <2> QED BY <2>1, <2>2 DEF IInv, LoadsApart
<1>10. WorkersFit'
  BY <1>3, <1>4, <1>5, <1>8, <1>9 DEF IInv, WorkersFit
<1>11. LockFits'
  <2>1. (\A d \in Decks : deck[d].peaks /\ deck[d].arc \notin missed =>
          deck[d].locked = locked[deck[d].track] \/ (ui.op = "lock" /\ d \in ui.decks))'
    BY <1>2, <1>4, <1>5 DEF IInv, LockFits, WorkersFit
  <2>2. (\A v \in workers : v.stage = "peaks" /\ deck[v.deck].arc = v.arc /\ v.arc \notin missed =>
          v.locked = locked[v.track])'
    BY <1>2, <1>3, <1>5, <1>8 DEF IInv, LockFits
  <2> QED BY <1>2, <2>1, <2>2 DEF IInv, LockFits
<1> QED BY <1>1, <1>3, <1>6, <1>7, <1>10, <1>11 DEF IInv

\* The steps of an analysis run keep the invariant.
LEMMA AnalysisKeeps ==
  ASSUME IInv, NEW t \in Tracks, AnalysisStep(t)
  PROVE  IInv'
<1>1. TypeOK'
  BY AnalysisTypes DEF IInv
<1>2. CASE ~AnalyzePublish(t)
  <2>1. UNCHANGED <<deck, shown, loads, workers, missed, locked, ui, used>>
    BY <1>2 DEF AnalysisStep, AnalyzePrepare, AnalyzeFails, AnalyzeCommit, AnalyzeCommitFails, Library
  <2> QED BY <1>1, <2>1, QuietKeeps
<1>3. CASE AnalyzePublish(t)
  <2>1. UNCHANGED <<deck, shown, loads, workers, missed, locked, used>> /\ ui = Idle
    BY <1>3 DEF AnalyzePublish, Library
  <2>2. SameLoads /\ SameLocks
    BY <2>1 DEF SameLoads, SameLocks, Idle
  <2>3. HandlerFits'
    <3>1. \/ ui'.decks = {}
          \/ ui'.op = "refresh" /\ ui'.track = t /\ \A d \in ui'.decks : d \in Showing(t)
      <4> DEFINE ds == {d \in Showing(t) : ~shown[d].locked}
      <4>1. ui' = Idle \/ Begin("refresh", t, ActiveGrid(t), ds, FALSE)
        BY <1>3 DEF AnalyzePublish
      <4> QED BY <4>1 DEF Begin, Idle
    <3> QED BY <2>1, <3>1 DEF HandlerFits, Showing
  <2> QED BY <1>1, <2>2, <2>3, SameLoadsKeep, SameLocksKeep DEF IInv
<1> QED BY <1>2, <1>3

\* The steps of a grid edit keep the invariant.
LEMMA EditKeeps ==
  ASSUME IInv, NEW d \in Decks, EditStep(d) \/ Poll(d)
  PROVE  IInv'
<1>1. TypeOK'
  BY EditTypes DEF IInv
<1>2. CASE Tap(d) \/ Poll(d)
  <2>1. /\ UNCHANGED <<deck, loads, workers, missed, locked, ui, used>>
        /\ \A e \in Decks : shown'[e].track = shown[e].track /\ shown'[e].loading = shown[e].loading
    BY <1>2 DEF Tap, Poll, Library, Background, IInv, TypeOK, Headers
  <2> QED BY <1>1, <2>1, QuietKeeps
<1>3. CASE CommitTap(d)
  <2>1. UNCHANGED <<deck, shown, loads, workers, missed, locked>> /\ used'.loads = used.loads /\ ui = Idle
    BY <1>3 DEF CommitTap, Gesture, Library, Background, IInv, TypeOK
  <2>2. SameLoads /\ SameLocks
    BY <2>1 DEF SameLoads, SameLocks, Idle
  <2>3. HandlerFits'
    <3>1. CASE /\ deck[d].peaks
               /\ Begin("tap", deck[d].track, NewGrid(deck[d].track), {d}, FALSE)
      <4>1. deck[d].track \in Tracks
        BY <3>1 DEF IInv, PeaksHaveTrack, TypeOK, DeckStates
      <4>2. NewGrid(deck[d].track).of = deck[d].track
        BY <4>1, Made DEF IInv
      <4>3. ui'.decks = {d} /\ ui'.op = "tap" /\ ui'.grid = NewGrid(deck[d].track)
        BY <3>1 DEF Begin
      <4> QED BY <2>1, <4>2, <4>3 DEF HandlerFits
    <3>2. CASE ui' = ui
      BY <2>1, <3>2 DEF HandlerFits, Idle
    <3> QED BY <1>3, <3>1, <3>2 DEF CommitTap
  <2> QED BY <1>1, <2>2, <2>3, SameLoadsKeep, SameLocksKeep DEF IInv
<1>4. CASE InstallTap(d) \/ ReadTap(d)
  <2>1. /\ UNCHANGED <<loads, workers, missed, locked, used>> /\ ui.op # "lock"
        /\ ui'.decks = {} \/ ui'.op = "read"
    BY <1>4 DEF InstallTap, ReadTap, Turn, Idle, Library, Background, IInv, TypeOK, Handlers
  <2>2. \A e \in Decks : /\ shown'[e].track = shown[e].track /\ shown'[e].loading = shown[e].loading
                         /\ deck'[e].arc = deck[e].arc /\ deck'[e].track = deck[e].track
                         /\ deck'[e].peaks = deck[e].peaks /\ deck'[e].locked = deck[e].locked
    <3>1. CASE InstallTap(d)
      BY <3>1 DEF InstallTap, Installed, IInv, TypeOK, DeckStates
    <3>2. CASE ReadTap(d)
      BY <3>2 DEF ReadTap, Library, IInv, TypeOK, Headers
    <3> QED BY <1>4, <3>1, <3>2
  <2>3. SameLoads /\ SameLocks
    BY <2>1, <2>2 DEF SameLoads, SameLocks
  <2>4. HandlerFits'
    BY <2>1 DEF HandlerFits
  <2> QED BY <1>1, <2>3, <2>4, SameLoadsKeep, SameLocksKeep DEF IInv
<1>5. CASE ApplyTapToGrid(d)
  <2>1. UNCHANGED <<loads, workers, missed, locked, ui>> /\ used'.loads = used.loads /\ ui.decks = {}
    BY <1>5 DEF ApplyTapToGrid, Gesture, Idle, Library, IInv, TypeOK
  <2>2. \A e \in Decks : /\ shown'[e].track = shown[e].track /\ shown'[e].loading = shown[e].loading
                         /\ deck'[e].arc = deck[e].arc /\ deck'[e].track = deck[e].track
                         /\ deck'[e].peaks = deck[e].peaks /\ deck'[e].locked = deck[e].locked
    BY <1>5 DEF ApplyTapToGrid, Installed, IInv, TypeOK, Headers, DeckStates
  <2>3. SameLoads /\ SameLocks
    BY <2>1, <2>2 DEF SameLoads, SameLocks
  <2>4. HandlerFits'
    BY <2>1 DEF HandlerFits
  <2> QED BY <1>1, <2>3, <2>4, SameLoadsKeep, SameLocksKeep DEF IInv
<1>9. CASE ScaleFails(d)
  <2>1. UNCHANGED <<deck, shown, loads, workers, missed, locked, ui>> /\ used'.loads = used.loads
    BY <1>9 DEF ScaleFails, Gesture, Background, IInv, TypeOK
  <2> QED BY <1>1, <2>1, QuietKeeps
<1>6. CASE Scale(d)
  <2>1. UNCHANGED <<deck, shown, loads, workers, missed, locked>> /\ used'.loads = used.loads /\ ui = Idle
    BY <1>6 DEF Scale, Gesture, Background, IInv, TypeOK
  <2>2. SameLoads /\ SameLocks
    BY <2>1 DEF SameLoads, SameLocks, Idle
  <2>3. HandlerFits'
    <3>1. \/ ui'.decks = {}
          \/ /\ ui'.op = "install" /\ ui'.track = shown[d].track
             /\ \A e \in ui'.decks : e \in Showing(shown[d].track)
      BY <1>6 DEF Scale, Begin, Idle
    <3> QED BY <2>1, <3>1 DEF HandlerFits, Showing
  <2> QED BY <1>1, <2>2, <2>3, SameLoadsKeep, SameLocksKeep DEF IInv
<1>7. CASE InstallNext(d)
  <2>1. /\ UNCHANGED <<loads, workers, missed, locked, used>> /\ ui.op \in {"install", "refresh"}
        /\ \/ ui'.decks = {}
           \/ ui'.op = ui.op /\ ui'.track = ui.track /\ ui'.decks \subseteq ui.decks
    BY <1>7 DEF InstallNext, Turn, Advance, Begin, Idle, Library, Background
  <2>2. \A e \in Decks : /\ shown'[e].track = shown[e].track /\ shown'[e].loading = shown[e].loading
                         /\ deck'[e].arc = deck[e].arc /\ deck'[e].track = deck[e].track
                         /\ deck'[e].peaks = deck[e].peaks /\ deck'[e].locked = deck[e].locked
    BY <1>7 DEF InstallNext, Installed, IInv, TypeOK, Headers, DeckStates
  <2>3. SameLoads /\ SameLocks
    BY <2>1, <2>2 DEF SameLoads, SameLocks
  <2>4. HandlerFits'
    BY <2>1, <2>2 DEF IInv, HandlerFits, TypeOK, Handlers
  <2> QED BY <1>1, <2>3, <2>4, SameLoadsKeep, SameLocksKeep DEF IInv
<1>8. CASE LockNext(d)
  <2>1. /\ UNCHANGED <<loads, workers, locked, used>> /\ ui.op = "lock" /\ d \in ui.decks
        /\ \/ ui'.decks = {} /\ ui.decks \subseteq {d}
           \/ ui'.op = ui.op /\ ui'.track = ui.track /\ ui'.on = ui.on /\ ui'.decks = ui.decks \ {d}
    BY <1>8 DEF LockNext, Turn, Advance, Begin, Idle, Library, Background
  <2>2. \A e \in Decks : /\ shown'[e].track = shown[e].track /\ shown'[e].loading = shown[e].loading
                         /\ deck'[e].arc = deck[e].arc /\ deck'[e].track = deck[e].track
                         /\ deck'[e].peaks = deck[e].peaks /\ (e # d => deck'[e].locked = deck[e].locked)
    BY <1>8 DEF LockNext, IInv, TypeOK, Headers, DeckStates
  <2>3. SameLoads
    BY <2>1, <2>2 DEF SameLoads
  <2>4. HandlerFits'
    BY <2>1, <2>2 DEF IInv, HandlerFits, TypeOK, Handlers
  <2>5. /\ missed \subseteq missed' /\ (deck[d].track # ui.track => deck[d].arc \in missed')
        /\ deck[d].peaks => deck'[d].locked = ui.on
    BY <1>8 DEF LockNext, IInv, TypeOK, DeckStates
  <2>6. ui.on = locked[ui.track]
    BY <2>1 DEF IInv, HandlerFits
  <2>7. LockFits'
    <3>1. (\A e \in Decks : deck[e].peaks /\ deck[e].arc \notin missed =>
            deck[e].locked = locked[deck[e].track] \/ (ui.op = "lock" /\ e \in ui.decks))'
      BY <2>1, <2>2, <2>5, <2>6 DEF IInv, LockFits
    <3>2. (\A w \in workers : w.stage = "peaks" /\ deck[w.deck].arc = w.arc /\ w.arc \notin missed =>
            w.locked = locked[w.track])'
      BY <2>1, <2>2, <2>5 DEF IInv, LockFits, TypeOK, Jobs
    <3> QED BY <2>1, <2>5, <3>1, <3>2 DEF IInv, LockFits
  <2> QED BY <1>1, <2>3, <2>4, <2>7, SameLoadsKeep DEF IInv
<1> QED BY <1>2, <1>3, <1>4, <1>5, <1>6, <1>7, <1>8, <1>9 DEF EditStep

\* The calls of the browser keep the invariant.
LEMMA BrowserKeeps ==
  ASSUME IInv, NEW t \in Tracks,
         Reanalyze(t) \/ (\E s \in Imports : Import(t, s) \/ ImportFails(t, s)) \/ (\E on \in BOOLEAN : SetGridLocked(t, on))
  PROVE  IInv'
<1>1. TypeOK'
  BY BrowserTypes DEF IInv
<1>2. CASE Reanalyze(t) \/ \E s \in Imports : Import(t, s) \/ ImportFails(t, s)
  <2>1. UNCHANGED <<deck, shown, loads, workers, missed, locked, ui>> /\ used'.loads = used.loads
    BY <1>2 DEF Reanalyze, Import, ImportFails, Gesture, Library, Background, IInv, TypeOK
  <2> QED BY <1>1, <2>1, QuietKeeps
<1>3. ASSUME NEW on \in BOOLEAN, SetGridLocked(t, on) PROVE IInv'
  <2>1. /\ UNCHANGED <<deck, shown, loads, workers>> /\ used'.loads = used.loads
        /\ locked' = [locked EXCEPT ![t] = on] /\ missed' = missed \cup Between(t)
        /\ \/ ui'.decks = {} /\ Showing(t) = {}
           \/ ui'.op = "lock" /\ ui'.track = t /\ ui'.on = on /\ ui'.decks = Showing(t)
    BY <1>3 DEF SetGridLocked, Gesture, Begin, Idle, Background, IInv, TypeOK
  <2>2. SameLoads
    BY <2>1 DEF SameLoads
  <2>3. locked'[t] = on /\ \A u \in Tracks : u # t => locked'[u] = locked[u]
    BY <2>1 DEF IInv, TypeOK
  <2>4. HandlerFits'
    BY <2>1, <2>3 DEF HandlerFits, Showing
  <2>5. (\A e \in Decks : loads[e] # None /\ loads[e].arc \notin missed =>
          loads[e].locked = locked[loads[e].track])'
    BY <2>1, <2>3 DEF IInv, LockFits, Between, TypeOK, LoadStates
  <2>6. ui = Idle
    BY <1>3 DEF SetGridLocked
  <2>7. (\A e \in Decks : deck[e].peaks /\ deck[e].arc \notin missed =>
          deck[e].locked = locked[deck[e].track] \/ (ui.op = "lock" /\ e \in ui.decks))'
    <3> SUFFICES ASSUME NEW e \in Decks, deck[e].peaks, deck[e].arc \notin missed'
                 PROVE  deck[e].locked = locked'[deck[e].track] \/ (ui'.op = "lock" /\ e \in ui'.decks)
      BY <2>1
    <3>1. deck[e].track \in Tracks
      BY DEF IInv, PeaksHaveTrack, TypeOK, DeckStates
    <3>2. deck[e].locked = locked[deck[e].track]
      BY <2>1, <2>6 DEF IInv, LockFits, Idle
    <3>3. CASE deck[e].track # t
      BY <2>3, <3>1, <3>2, <3>3
    <3>4. CASE deck[e].track = t
      <4>1. loads[e] = None \/ loads[e].stage # "swapped"
        <5> SUFFICES ASSUME loads[e] # None, loads[e].stage = "swapped" PROVE FALSE
          OBVIOUS
        <5>1. deck[e].arc = loads[e].arc /\ loads[e].track = t
          BY <3>4 DEF IInv, HeaderFits
        <5> QED BY <2>1, <5>1 DEF Between
      <4>2. shown[e].track = t
        BY <3>4, <4>1 DEF IInv, HeaderFits
      <4> QED BY <2>1, <4>2 DEF Showing
    <3> QED BY <3>3, <3>4
  <2>8. (\A w \in workers : w.stage = "peaks" /\ deck[w.deck].arc = w.arc /\ w.arc \notin missed =>
          w.locked = locked[w.track])'
    <3> SUFFICES ASSUME NEW w \in workers, w.stage = "peaks", deck[w.deck].arc = w.arc, w.arc \notin missed'
                 PROVE  w.locked = locked'[w.track]
      BY <2>1
    <3>1. w.track \in Tracks /\ w.deck \in Decks /\ deck[w.deck].track = w.track /\ ~deck[w.deck].peaks
      BY DEF IInv, WorkersFit, TypeOK, Jobs
    <3>2. w.track # t
      BY <2>1, <3>1 DEF Between
    <3> QED BY <2>1, <2>3, <3>1, <3>2 DEF IInv, LockFits
  <2>9. LockFits'
    BY <2>5, <2>7, <2>8 DEF LockFits
  <2> QED BY <1>1, <2>2, <2>4, <2>9, SameLoadsKeep DEF IInv
<1> QED BY <1>2, <1>3

\* Filing a grid keeps the invariant.
LEMMA PersistKeeps ==
  ASSUME IInv, NEW p \in persists, Persist(p) \/ PersistFails(p)
  PROVE  IInv'
<1>1. TypeOK'
  BY PersistTypes DEF IInv
<1>2. UNCHANGED <<deck, shown, loads, workers, missed, locked, ui, used>>
  BY DEF Persist, PersistFails
<1> QED BY <1>1, <1>2, QuietKeeps

\* Every step keeps the inductive invariant.
LEMMA InvStep == IInv /\ [Next]_vars => IInv'
<1> SUFFICES ASSUME IInv, [Next]_vars PROVE IInv'
  OBVIOUS
<1>1. ASSUME NEW d \in Decks, LoadStep(d) PROVE IInv'
  <2>1. ASSUME NEW t \in Tracks, Load(d, t) PROVE IInv'
    BY <2>1, LoadKeeps
  <2> QED BY <1>1, <2>1, LoadFailsKeeps, LoadHeadKeeps, LoadOverKeeps DEF LoadStep
<1>2. CASE UNCHANGED vars
  <2>1. TypeOK'
    BY <1>2 DEF IInv, vars, TypeOK
  <2> QED BY <1>2, <2>1, QuietKeeps DEF vars
<1>3. CASE Next
  <2>1. \A t \in Touched : t \in Tracks
    BY BoundsAssumption
  <2> QED BY <1>1, <1>3, <2>1, WorkerKeeps, AnalysisKeeps, EditKeeps, BrowserKeeps, PersistKeeps DEF Next
<1> QED BY <1>2, <1>3

-----------------------------------------------------------------------------
(* Theorems *)

\* Rows, decks, headers, loads and workers keep their types.
THEOREM TypesHold == Spec => []TypeOK
<1>1. IInv => TypeOK
  BY DEF IInv
<1> QED BY InvInit, InvStep, <1>1, PTL DEF Spec

\* The lock the engine checks a tap against is the library's.
THEOREM LockIsTheLibrarys == Spec => []LockReachesDeck
<1>1. IInv => LockReachesDeck
  BY DEF IInv, LockFits, LockReachesDeck
<1> QED BY InvInit, InvStep, <1>1, PTL DEF Spec

\* What may change a row.
LEMMA RowSteps ==
  ASSUME IInv, Next, NEW t \in Tracks, rows'[t] # rows[t]
  PROVE  \/ AnalyzeCommit(t) /\ ~CommitRefused(t)
         \/ AnalyzeCommitFails(t)
         \/ \E p \in persists : p.track = t /\ (Persist(p) \/ PersistFails(p))
         \/ \E s \in Imports : Import(t, s) \/ ImportFails(t, s)
         \/ \E d \in Decks : (Scale(d) \/ ScaleFails(d)) /\ shown[d].track = t
<1>1. CASE \E d \in Decks : LoadStep(d) \/ Poll(d)
  BY <1>1 DEF LoadStep, Load, LoadFails, LoadHead, LoadDone, LoadFailed, Poll, Library
<1>2. ASSUME NEW d \in Decks, EditStep(d) PROVE (Scale(d) \/ ScaleFails(d)) /\ shown[d].track = t
  <2>1. Scale(d) \/ ScaleFails(d)
    BY <1>2 DEF EditStep, Tap, CommitTap, InstallTap, ReadTap, ApplyTapToGrid, InstallNext, LockNext, Library
  <2>2. \E n \in 0..3 : TapWrites(shown[d].track, NewGrid(shown[d].track), n)
    BY <2>1 DEF Scale, ScaleFails
  <2> QED BY <2>1, <2>2 DEF TapWrites, IInv, TypeOK
<1>3. CASE \E w \in workers : WorkerStep(w)
  BY <1>3 DEF WorkerStep, WorkerPeaks, WorkerFails, WorkerGrid, Library
<1>4. ASSUME NEW u \in Tracks, AnalysisStep(u)
      PROVE  u = t /\ (AnalyzeCommitFails(t) \/ (AnalyzeCommit(t) /\ ~CommitRefused(t)))
  <2>1. AnalyzeCommitFails(u) \/ (AnalyzeCommit(u) /\ ~CommitRefused(u))
    BY <1>4 DEF AnalysisStep, AnalyzePrepare, AnalyzeFails, AnalyzeCommit, AnalyzePublish, Library
  <2>2. \E n \in 0..5 : AnalysisWrites(u, n)
    BY <2>1 DEF AnalyzeCommit, AnalyzeCommitFails
  <2> QED BY <2>1, <2>2, AnalysisWritesKeep DEF IInv
<1>5. ASSUME NEW u \in Touched, Reanalyze(u) \/ \E on \in BOOLEAN : SetGridLocked(u, on) PROVE FALSE
  BY <1>5 DEF Reanalyze, SetGridLocked, Library
<1>6. ASSUME NEW u \in Touched, NEW s \in Imports, Import(u, s) \/ ImportFails(u, s) PROVE u = t
  BY <1>6 DEF Import, ImportFails, IInv, TypeOK
<1>7. ASSUME NEW p \in persists, Persist(p) \/ PersistFails(p) PROVE p.track = t
  <2>1. \E n \in 0..3 : TapWrites(p.track, p.grid, n)
    BY <1>7 DEF Persist, PersistFails
  <2> QED BY <2>1 DEF TapWrites, IInv, TypeOK
<1> QED BY <1>1, <1>2, <1>3, <1>4, <1>5, <1>6, <1>7 DEF Next

\* An active grid changes only with its row.
LEMMA ActiveSteps ==
  ASSUME IInv, [Next]_vars, NEW t \in Tracks, ActiveGrid(t)' # ActiveGrid(t)
  PROVE  Next /\ rows'[t] # rows[t]
BY DEF ActiveGrid, vars

\* An analysis never changes the active grid of a locked track.
THEOREM LockIsHonoured == Spec => AnalysisHonoursLock
<1> DEFINE Honours ==
      \A t \in Tracks : locked[t] /\ ActiveGrid(t)' # ActiveGrid(t) =>
         \/ \E p \in persists : p.track = t /\ (Persist(p) \/ PersistFails(p))
         \/ \E s \in Imports : Import(t, s) \/ ImportFails(t, s)
<1>1. IInv /\ [Next]_vars => Honours
  <2> SUFFICES ASSUME IInv, [Next]_vars, NEW t \in Tracks, locked[t], ActiveGrid(t)' # ActiveGrid(t)
               PROVE  \/ \E p \in persists : p.track = t /\ (Persist(p) \/ PersistFails(p))
                      \/ \E s \in Imports : Import(t, s) \/ ImportFails(t, s)
    OBVIOUS
  <2>1. Next /\ rows'[t] # rows[t]
    BY ActiveSteps
  <2>2. ~(\E d \in Decks : (Scale(d) \/ ScaleFails(d)) /\ shown[d].track = t)
    BY DEF Scale, ScaleFails
  <2>3. CommitRefused(t) /\ ~AnalyzeCommitFails(t)
    BY DEF CommitRefused, AnalyzeCommitFails
  <2> QED BY <2>1, <2>2, <2>3, RowSteps
<1>2. IInv /\ [Next]_vars => [Honours]_vars
  BY <1>1
<1> QED BY InvInit, InvStep, <1>2, PTL DEF Spec, AnalysisHonoursLock

\* A track that has a grid keeps one, but for writes that are cut short and
\* analyses that find no tempo in a tapped track.
THEOREM GridIsKept == Spec => NeverGridless
<1> DEFINE Keeps ==
      \A t \in Tracks : ActiveGrid(t) # None /\ ActiveGrid(t)' = None =>
         CutShort(t) \/ (t \in Silent /\ rows[t].active = "user_tap" /\ AnalyzeCommit(t))
<1>1. IInv /\ [Next]_vars => Keeps
  <2> SUFFICES ASSUME IInv, [Next]_vars, NEW t \in Tracks, ActiveGrid(t) # None, ActiveGrid(t)' = None
               PROVE  CutShort(t) \/ (t \in Silent /\ rows[t].active = "user_tap" /\ AnalyzeCommit(t))
    OBVIOUS
  <2>1. Next /\ rows'[t] # rows[t]
    BY ActiveSteps
  <2>2. rows \in [Tracks -> Rows] /\ ActiveOf(rows[t]) # None /\ ActiveOf(rows'[t]) = None
    BY DEF IInv, TypeOK, ActiveGrid, ActiveOf
  <2>3. CASE AnalyzeCommit(t) /\ ~CommitRefused(t)
    <3>1. AnalysisWrites(t, 5)
      BY <2>3 DEF AnalyzeCommit
    <3> QED BY <2>2, <2>3, <3>1, AnalysisWritesKeep DEF IInv
  <2>4. CASE AnalyzeCommitFails(t)
    <3>1. PICK n \in 0..4 : AnalysisWrites(t, n)
      BY <2>4 DEF AnalyzeCommitFails
    <3>2. rows[t].active = "user_tap"
      BY <2>2, <3>1, AnalysisWritesKeep DEF IInv
    <3> QED BY <2>4, <3>2 DEF CutShort
  <2>5. ASSUME NEW p \in persists, p.track = t, Persist(p) PROVE FALSE
    <3>1. p.grid \in Grids /\ TapWrites(t, p.grid, 3)
      BY <2>5 DEF Persist, IInv, TypeOK
    <3> QED BY <2>2, <3>1, TapWritesKeep DEF IInv
  <2>6. ASSUME NEW s \in Imports, Import(t, s) PROVE FALSE
    BY <2>2, <2>6, Made, AfterImportKeeps DEF Import, IInv
  <2>7. ASSUME NEW d \in Decks, Scale(d), shown[d].track = t PROVE FALSE
    <3>1. TapWrites(t, NewGrid(t), 3) /\ NewGrid(t) \in Grids
      BY <2>7, Made DEF Scale, IInv
    <3> QED BY <2>2, <3>1, TapWritesKeep DEF IInv
  <2> QED BY <2>1, <2>3, <2>4, <2>5, <2>6, <2>7, RowSteps DEF CutShort
<1>2. IInv /\ [Next]_vars => [Keeps]_vars
  BY <1>1
<1> QED BY InvInit, InvStep, <1>2, PTL DEF Spec, NeverGridless

\* Who lets a deck's grid stray.
Strayed(d) ==
  \/ shown[d].loading /\ (InstallTap(d) \/ InstallNext(d))
  \/ Misfiled(ui.grid, ui.track) /\ InstallNext(d)
  \/ \E w \in workers : w.deck = d /\ Misfiled(w.grid, w.track) /\ WorkerGrid(w)

\* A grid is put on the deck it is meant for, if that has a waveform.
LEMMA InstalledGrid ==
  ASSUME IInv, NEW d \in Decks, NEW e \in Decks, NEW g, deck' = Installed(e, g)
  PROVE  \/ deck'[d] = deck[d]
         \/ /\ d = e /\ deck[d].peaks /\ deck'[d].grid = g /\ deck'[d].track = deck[d].track
            /\ deck[d].track \in Tracks
BY DEF Installed, IInv, TypeOK, DeckStates, PeaksHaveTrack

\* A deck gets a stray grid only in the ways the property names.
LEMMA StraySteps ==
  ASSUME IInv, [Next]_vars, NEW d \in Decks, ~Stray(d), Stray(d)'
  PROVE  Strayed(d)
<1>1. deck'[d] # deck[d]
  BY DEF Stray
<1>2. ASSUME NEW e \in Decks, LoadStep(e) PROVE FALSE
  <2>1. LoadHead(e)
    BY <1>1, <1>2 DEF LoadStep, Load, LoadFails, LoadDone, LoadFailed
  <2>2. deck'[d].grid = None
    BY <1>1, <2>1 DEF LoadHead, EmptyDeck, IInv, TypeOK
  <2> QED BY <2>2 DEF Stray, Misfiled
<1>3. ASSUME NEW e \in Decks, InstallTap(e) PROVE Strayed(d)
  <2>1. e = d /\ deck'[d].grid = ui.grid /\ deck'[d].track = deck[d].track
    BY <1>1, <1>3, InstalledGrid DEF InstallTap
  <2>2. shown[d].loading \/ ui.grid.of = deck[d].track
    BY <1>3, <2>1 DEF InstallTap, Turn, IInv, HandlerFits
  <2> QED BY <1>3, <2>1, <2>2 DEF Stray, Misfiled, Strayed
<1>4. ASSUME NEW e \in Decks, InstallNext(e) PROVE Strayed(d)
  <2>1. e = d /\ deck'[d].grid = ui.grid /\ deck'[d].track = deck[d].track
    BY <1>1, <1>4, InstalledGrid DEF InstallNext
  <2>2. shown[d].track = ui.track
    BY <1>4, <2>1 DEF InstallNext, Turn, IInv, HandlerFits
  <2>3. shown[d].loading \/ shown[d].track = deck[d].track
    BY DEF IInv, HeaderFits
  <2> QED BY <1>4, <2>1, <2>2, <2>3 DEF Stray, Misfiled, Strayed
<1>5. ASSUME NEW e \in Decks, ApplyTapToGrid(e) PROVE FALSE
  <2> DEFINE g == NewGrid(deck[e].track)
  <2>1. deck' = Installed(e, g)
    BY <1>5 DEF ApplyTapToGrid
  <2>2. e = d /\ deck[d].track \in Tracks /\ deck'[d].grid = g /\ deck'[d].track = deck[d].track
    BY <1>1, <2>1, InstalledGrid
  <2>3. g.of = deck[d].track
    BY <2>2, Made DEF IInv
  <2> QED BY <2>2, <2>3 DEF Stray, Misfiled
<1>6. ASSUME NEW e \in Decks, LockNext(e) PROVE FALSE
  <2>1. deck'[d].grid = deck[d].grid /\ deck'[d].track = deck[d].track
    BY <1>6 DEF LockNext, IInv, TypeOK, DeckStates
  <2> QED BY <2>1 DEF Stray
<1>7. ASSUME NEW e \in Decks, EditStep(e) \/ Poll(e) PROVE Strayed(d)
  BY <1>1, <1>3, <1>4, <1>5, <1>6, <1>7 DEF EditStep, Tap, CommitTap, ReadTap, Scale, ScaleFails, Poll
<1>8. ASSUME NEW w \in workers, WorkerStep(w) PROVE Strayed(d)
  <2>1. w \in Jobs
    BY DEF IInv, TypeOK
  <2>2. CASE WorkerPeaks(w)
    <3>1. deck'[d].grid = None
      <4>1. w.deck = d /\ StillLoaded(w)
        BY <1>1, <2>1, <2>2 DEF WorkerPeaks, IInv, TypeOK, Jobs
      <4>2. deck'[d] = [[[deck[d] EXCEPT !.peaks = TRUE] EXCEPT !.grid = None] EXCEPT !.locked = w.locked]
        BY <2>2, <4>1 DEF WorkerPeaks, IInv, TypeOK
      <4>3. deck[d] \in DeckStates
        BY DEF IInv, TypeOK
      <4> QED BY <4>2, <4>3 DEF DeckStates
    <3> QED BY <3>1 DEF Stray, Misfiled
  <2>3. CASE WorkerGrid(w)
    <3>1. StillLoaded(w) /\ w.deck = d
      BY <1>1, <2>1, <2>3 DEF WorkerGrid, IInv, TypeOK, Jobs
    <3>2. /\ deck'[d].track = deck[d].track
          /\ deck'[d].grid = IF w.grid # None THEN w.grid ELSE AutoGrid(w.track)
      BY <2>3, <3>1 DEF WorkerGrid, IInv, TypeOK, DeckStates
    <3>3. deck[d].track = w.track /\ w.track \in Tracks
      BY <2>1, <3>1 DEF StillLoaded, IInv, WorkersFit, Jobs
    <3>4. Misfiled(w.grid, w.track)
      BY <3>2, <3>3, AutoGridType DEF Stray, Misfiled
    <3> QED BY <2>3, <3>1, <3>4 DEF Strayed
  <2>4. CASE WorkerFails(w)
    BY <1>1, <2>4 DEF WorkerFails
  <2> QED BY <1>8, <2>2, <2>3, <2>4 DEF WorkerStep
<1>9. ASSUME NEW t \in Tracks, AnalysisStep(t) PROVE FALSE
  BY <1>1, <1>9 DEF AnalysisStep, AnalyzePrepare, AnalyzeFails, AnalyzeCommit, AnalyzeCommitFails, AnalyzePublish
<1>10. ASSUME NEW t \in Touched,
              Reanalyze(t) \/ (\E s \in Imports : Import(t, s) \/ ImportFails(t, s)) \/ (\E on \in BOOLEAN : SetGridLocked(t, on))
       PROVE  FALSE
  BY <1>1, <1>10 DEF Reanalyze, Import, ImportFails, SetGridLocked
<1>11. ASSUME NEW p \in persists, Persist(p) \/ PersistFails(p) PROVE FALSE
  BY <1>1, <1>11 DEF Persist, PersistFails
<1>12. Next
  BY <1>1 DEF vars
<1> QED BY <1>2, <1>7, <1>8, <1>9, <1>10, <1>11, <1>12 DEF Next

\* A misfiled grid comes from a deck that loads or holds a stray.
LEMMA FilingSteps ==
  ASSUME IInv, [Next]_vars, NEW p \in persists' \ persists, Misfiled(p.grid, p.track)
  PROVE  \E d \in Decks : shown[d].loading \/ Stray(d)
<1>1. \A d \in Decks : shown[d].loading \/ shown[d].track = deck[d].track
  BY DEF IInv, HeaderFits
<1>2. ASSUME NEW d \in Decks, ReadTap(d) PROVE shown[d].loading \/ Stray(d)
  <2>1. p = [track |-> shown[d].track, grid |-> deck[d].grid]
    BY <1>2 DEF ReadTap
  <2> QED BY <1>1, <2>1 DEF Misfiled, Stray
<1>3. ASSUME NEW d \in Decks, ApplyTapToGrid(d) PROVE shown[d].loading
  <2>1. p = [track |-> shown[d].track, grid |-> NewGrid(deck[d].track)] /\ deck[d].peaks
    BY <1>3 DEF ApplyTapToGrid
  <2>2. deck[d].track \in Tracks
    BY <2>1 DEF IInv, TypeOK, DeckStates, PeaksHaveTrack
  <2>3. p.grid.of = deck[d].track /\ p.track = shown[d].track
    BY <2>1, <2>2, Made DEF IInv
  <2> QED BY <1>1, <2>3 DEF Misfiled
<1>4. \E d \in Decks : ReadTap(d) \/ ApplyTapToGrid(d)
  <2>1. Next
    BY DEF vars
  <2>2. ASSUME NEW d \in Decks, LoadStep(d) \/ Poll(d) PROVE FALSE
    BY <2>2 DEF LoadStep, Load, LoadFails, LoadHead, LoadDone, LoadFailed, Poll, Background
  <2>3. ASSUME NEW w \in workers, WorkerStep(w) PROVE FALSE
    BY <2>3 DEF WorkerStep, WorkerPeaks, WorkerFails, WorkerGrid
  <2>4. ASSUME NEW t \in Tracks, AnalysisStep(t) PROVE FALSE
    BY <2>4 DEF AnalysisStep, AnalyzePrepare, AnalyzeFails, AnalyzeCommit, AnalyzeCommitFails, AnalyzePublish
  <2>5. ASSUME NEW t \in Touched,
               Reanalyze(t) \/ (\E s \in Imports : Import(t, s) \/ ImportFails(t, s)) \/ (\E on \in BOOLEAN : SetGridLocked(t, on))
        PROVE  FALSE
    BY <2>5 DEF Reanalyze, Import, ImportFails, SetGridLocked, Background
  <2>6. ASSUME NEW q \in persists, Persist(q) \/ PersistFails(q) PROVE FALSE
    BY <2>6 DEF Persist, PersistFails
  <2>7. ASSUME NEW d \in Decks, EditStep(d) PROVE ReadTap(d) \/ ApplyTapToGrid(d)
    BY <2>7 DEF EditStep, Tap, CommitTap, InstallTap, Scale, ScaleFails, InstallNext, LockNext, Background
  <2> QED BY <2>1, <2>2, <2>3, <2>4, <2>5, <2>6, <2>7 DEF Next
<1> QED BY <1>2, <1>3, <1>4

\* A grid made for another track reaches a deck only during a load or out of a
\* row in which one was filed, and is filed only by a deck that loads or holds one.
THEOREM StraysAreOfLoads == Spec => StraysOnlyDuringLoad
<1> DEFINE Strays ==
      /\ \A d \in Decks : ~Stray(d) /\ Stray(d)' =>
           \/ shown[d].loading /\ (InstallTap(d) \/ InstallNext(d))
           \/ Misfiled(ui.grid, ui.track) /\ InstallNext(d)
           \/ \E w \in workers : w.deck = d /\ Misfiled(w.grid, w.track) /\ WorkerGrid(w)
      /\ \A p \in persists' \ persists : Misfiled(p.grid, p.track) =>
           \E d \in Decks : shown[d].loading \/ Stray(d)
<1>1. IInv /\ [Next]_vars => Strays
  BY StraySteps, FilingSteps DEF Strayed
<1>2. IInv /\ [Next]_vars => [Strays]_vars
  BY <1>1
<1> QED BY InvInit, InvStep, <1>2, PTL DEF Spec, StraysOnlyDuringLoad

=============================================================================
