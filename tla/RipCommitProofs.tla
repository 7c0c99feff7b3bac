---------------------------- MODULE RipCommitProofs ----------------------------
(***************************************************************************)
(* Proofs about RipCommit, for every value of its constants: the types,    *)
(* that the recording survives (SideKept), that the spill goes last        *)
(* (SpillGoesLast) and that a replaced track outlives its replacement's    *)
(* import (OriginalsOutlive).                                              *)
(***************************************************************************)
EXTENDS RipCommit, TLAPS

-----------------------------------------------------------------------------
(* The inductive invariant *)

Segmenting == {"segment", "import", "save"}
Archiving == {"archive", "archiving", "saveArchive"}
Finishing == {"replace", "delete", "sweep", "spill"}
Committing == Segmenting \cup Archiving \cup Finishing

\* The names planned for a pass fit its plan, which does not change under it.
PassShape ==
  pc \in Committing =>
    /\ Len(manifest.tracks) = Len(manifest.cuts) + 1
    /\ names \in [1..Len(manifest.tracks) -> {{n} : n \in Names}]
    /\ at \in 1..(Len(manifest.tracks) + 1)
    /\ pc \in {"import", "save"} => at <= Len(manifest.tracks)

TypeInv == TypeOK /\ PassShape

\* Where the audio is.  A manifest that names the archive is right, and while
\* a session is open the one in memory is never behind the saved one.
AudioInv ==
  /\ SideKept
  /\ pc # "discarded" => (manifest.archived \/ saved.archived => archive = "whole")
  /\ pc \notin {"closed", "discarded"} =>
       /\ spill \/ manifest.archived
       /\ saved.archived => manifest.archived
  /\ pc \in {"archive", "archiving"} => ~manifest.archived

\* What a manifest says of the library: the tracks of its plan are of its own
\* generation and are there, the replaced ones are of an earlier generation.
Agrees(m, lib) ==
  /\ \A i \in DOMAIN m.tracks : \A n \in m.tracks[i].imported : n.gen = m.gen /\ n \in lib
  /\ \A u \in m.replaced : u.gen < m.gen

LibraryInv ==
  /\ saved.gen = manifest.gen
  /\ Agrees(manifest, rows) /\ Agrees(saved, rows)
  /\ pc \in Segmenting => \A i \in DOMAIN names : \A n \in names[i] : n.gen = manifest.gen
  /\ \A u \in doomed : u.gen < manifest.gen

\* What a pass without a failure has done.
Done(i) == manifest.tracks[i].dropped \/ manifest.tracks[i].imported # {}
PassInv ==
  /\ pc \in Committing /\ ok => \A i \in 1..(at - 1) : Done(i)
  /\ pc = "save" /\ ok => Done(at)
  /\ pc \in Archiving \cup Finishing => at = Len(manifest.tracks) + 1
  /\ pc = "delete" => IsComplete

IInv == TypeInv /\ AudioInv /\ LibraryInv /\ PassInv

-----------------------------------------------------------------------------
(* Lemmas about plans and names *)

\* A function on 1..n is a sequence of length n.
LEMMA FunctionIsSeq ==
  ASSUME NEW S, NEW n \in Nat, NEW f \in [1..n -> S]
  PROVE  f \in Seq(S) /\ Len(f) = n /\ DOMAIN f = 1..n
OBVIOUS

\* The entries of a manifest (TrackEntry) are a sequence of at most one more
\* than the most boundaries a plan has.
LEMMA TracksAre ==
  ASSUME NEW t \in Tracks
  PROVE  /\ Len(t) \in 0..(MaxCuts + 1)
         /\ t \in [1..Len(t) -> Entry]
         /\ DOMAIN t = 1..Len(t)
<1>1. PICK n \in 0..(MaxCuts + 1) : t \in [1..n -> Entry]
  BY DEF Tracks
<1>2. n \in Nat
  BY ConstantsAssumption
<1>3. Len(t) = n /\ DOMAIN t = 1..n
  BY <1>1, <1>2, FunctionIsSeq
<1>. QED
  BY <1>1, <1>3

\* The boundaries of a plan, likewise.
LEMMA CutsAre ==
  ASSUME NEW c \in Cuts
  PROVE  /\ Len(c) \in 0..MaxCuts
         /\ c \in [1..Len(c) -> 1..(Length - 1)]
<1>1. PICK n \in 0..MaxCuts : c \in [1..n -> 1..(Length - 1)]
  BY DEF Cuts
<1>2. n \in Nat
  BY ConstantsAssumption
<1>3. Len(c) = n /\ DOMAIN c = 1..n
  BY <1>1, <1>2, FunctionIsSeq
<1>. QED
  BY <1>1, <1>3

\* An entry a plan starts with.
LEMMA DefaultIsEntry == DefaultEntry \in Entry
  BY DEF DefaultEntry, Entry

\* Resizing the entries (Vec::resize_with) to a plan's length gives entries.
LEMMA ResizedAre ==
  ASSUME NEW t \in Tracks, NEW n \in 0..(MaxCuts + 1)
  PROVE  /\ Resized(t, n) \in Tracks
         /\ Len(Resized(t, n)) = n
         /\ DOMAIN Resized(t, n) = 1..n
         /\ \A i \in 1..n : Resized(t, n)[i] = IF i <= Len(t) THEN t[i] ELSE DefaultEntry
<1>0. n \in Nat
  BY ConstantsAssumption
<1>1. Resized(t, n) \in [1..n -> Entry]
  BY <1>0, TracksAre, DefaultIsEntry DEF Resized
<1>2. Resized(t, n) \in Tracks
  BY <1>1 DEF Tracks
<1>. QED
  BY <1>0, <1>1, <1>2, FunctionIsSeq DEF Resized

\* Every planned file name is one name.
LEMMA NamesAre ==
  ASSUME NEW t \in Tracks, NEW g \in Gens
  PROVE  PlanNames(t, g) \in [1..Len(t) -> {{n} : n \in Names}]
<1>1. ASSUME NEW i \in 1..Len(t)
      PROVE  PlannedName(t, g, i) \in Names
  <2>1. i \in Positions /\ t[i] \in Entry
    BY ConstantsAssumption, TracksAre DEF Positions
  <2>2. Stem(t, i) \in Stems
    BY <2>1 DEF Stem, Stems, Entry
  <2>. QED
    BY <2>1, <2>2 DEF PlannedName, Names
<1>2. ASSUME NEW i \in 1..Len(t), t[i].imported # {}
      PROVE  t[i].imported \in {{n} : n \in Names}
  <2>1. t[i] \in Entry
    BY TracksAre
  <2>. QED
    BY <1>2, <2>1 DEF Entry
<1>. QED
  BY <1>1, <1>2 DEF PlanNames

\* The frames of a segment lie in the recording.
LEMMA SegmentIsFrames ==
  ASSUME NEW m \in Manifest, NEW i \in 1..Len(m.tracks), Len(m.tracks) = Len(m.cuts) + 1
  PROVE  Segment(m, i) \in Frames \X Frames
<1>1. m.cuts \in Cuts /\ m.lo \in Frames /\ m.hi \in Frames
  BY DEF Manifest
<1>2. Len(m.cuts) \in Nat /\ \A j \in 1..Len(m.cuts) : m.cuts[j] \in Frames
  BY <1>1, CutsAre, ConstantsAssumption DEF Frames
<1>. QED
  BY <1>1, <1>2 DEF Segment

-----------------------------------------------------------------------------
(* Types *)

\* The edits of the review leave the pass alone and save a manifest, or not.
LEMMA EditTypes ==
  ASSUME TypeInv, Editable, Edited, manifest' \in Manifest, saved' \in {manifest', saved},
         mishaps' \in 0..MaxMishaps
  PROVE  TypeInv'
BY DEF TypeInv, TypeOK, PassShape, Editable, Edited, disk, local, Committing, Segmenting,
       Archiving, Finishing

\* A new title or mark of an entry leaves the entries entries.
LEMMA EntryEdits ==
  ASSUME NEW m \in Manifest, NEW i \in 1..Len(m.tracks)
  PROVE  /\ \A t \in Titles : [m EXCEPT !.tracks[i].title = t] \in Manifest
         /\ \A d \in BOOLEAN : [m EXCEPT !.tracks[i].dropped = d] \in Manifest
         /\ \A n \in Names : LET e == [m EXCEPT !.tracks[i].imported = {n}]
                             IN e \in Manifest /\ Len(e.tracks) = Len(m.tracks)
<1>1. m.tracks \in Tracks /\ Len(m.tracks) \in 0..(MaxCuts + 1)
      /\ m.tracks \in [1..Len(m.tracks) -> Entry]
  BY TracksAre DEF Manifest
<1>2. ASSUME NEW e \in Entry
      PROVE  LET t == [m.tracks EXCEPT ![i] = e]
             IN t \in Tracks /\ Len(t) = Len(m.tracks)
  <2>. DEFINE t == [m.tracks EXCEPT ![i] = e]
  <2>1. t \in [1..Len(m.tracks) -> Entry] /\ Len(m.tracks) \in Nat
    BY <1>1, ConstantsAssumption
  <2>2. t \in Tracks
    BY <1>1, <2>1 DEF Tracks
  <2>. QED
    BY <2>1, <2>2, FunctionIsSeq
<1>3. /\ \A t \in Titles : [m.tracks[i] EXCEPT !.title = t] \in Entry
      /\ \A d \in BOOLEAN : [m.tracks[i] EXCEPT !.dropped = d] \in Entry
      /\ \A n \in Names : [m.tracks[i] EXCEPT !.imported = {n}] \in Entry
  BY <1>1 DEF Entry
<1>4. ASSUME NEW e \in Entry
      PROVE  LET f == [m EXCEPT !.tracks = [m.tracks EXCEPT ![i] = e]]
             IN f \in Manifest /\ Len(f.tracks) = Len(m.tracks)
  BY <1>2 DEF Manifest
<1>. QED
  BY <1>3, <1>4 DEF Manifest

\* A pass that ends, or a process that does, leaves no trace in memory.
LEMMA PassEnds ==
  ASSUME TypeInv, manifest' \in Manifest, saved' \in Manifest,
         UNCHANGED <<archive, files, rows>>, spill' \in BOOLEAN,
         pc' \in {"review", "closed"}, at' = 0, ok' = TRUE, doomed' = {},
         complete' \in BOOLEAN, mishaps' \in 0..MaxMishaps
  PROVE  TypeInv'
<1>1. PassShape'
  BY DEF PassShape, Committing, Segmenting, Archiving, Finishing
<1>2. at' \in 0..(MaxCuts + 2)
  BY ConstantsAssumption
<1>3. pc' \in PCs
  BY DEF PCs
<1>4. TypeOK'
  BY <1>2, <1>3 DEF TypeInv, TypeOK
<1>. QED
  BY <1>1, <1>4 DEF TypeInv

\* A crash or a failing write is counted, within the bound.
LEMMA MishapsAre == TypeInv /\ [Next]_vars => mishaps' \in 0..MaxMishaps
<1>. SUFFICES ASSUME TypeInv, [Next]_vars PROVE mishaps' \in 0..MaxMishaps
  OBVIOUS
<1>1. mishaps \in 0..MaxMishaps
  BY DEF TypeInv, TypeOK
<1>2. CASE DiskFails \/ Crash
  BY <1>1, <1>2, ConstantsAssumption DEF DiskFails, Crash
<1>3. UNCHANGED mishaps \/ DiskFails \/ Crash
  BY DEF Next, vars, Review, CommitStep, SetSplits, SetSideBounds, AutoSplit, SetTrackMeta,
     SetSegmentDropped, SaveMayFail, Discard, CommitAgain, BeginCommit, SkipSegment,
     EncodeSegment, ImportSegment, SaveSegment, SegmentsDone, ArchiveStart, ArchiveDone,
     SaveArchive, BeginReplace, DeleteReplaced, SaveReplaced, SweepFiles, EndCommit,
     CommitFails, Close, Resume, Resplit
<1>. QED
  BY <1>1, <1>2, <1>3

\* The initial state has its types.
LEMMA TypeInit == Init => TypeInv
<1>. SUFFICES ASSUME Init PROVE TypeInv
  OBVIOUS
<1>1. <<>> \in Cuts /\ <<>> \in Tracks
  <2>1. <<>> \in [1..0 -> 1..(Length - 1)] /\ <<>> \in [1..0 -> Entry]
    OBVIOUS
  <2>2. 0 \in 0..MaxCuts /\ 0 \in 0..(MaxCuts + 1)
    BY ConstantsAssumption
  <2>3. <<>> \in Cuts
    BY <2>1, <2>2, Zenon DEF Cuts
  <2>4. <<>> \in Tracks
    BY <2>1, <2>2, Zenon DEF Tracks
  <2>. QED
    BY <2>3, <2>4
<1>2. NewManifest \in Manifest
  BY <1>1, ConstantsAssumption DEF NewManifest, Manifest, Frames, Gens
<1>3. TypeOK
  <2>1. DOMAIN files = {}
    BY DEF Init
  <2>2. DOMAIN files \subseteq Names /\ \A n \in DOMAIN files : files[n] \in Frames \X Frames
    BY <2>1
  <2>3. saved \in Manifest /\ manifest \in Manifest
    BY <1>2 DEF Init
  <2>4. at \in 0..(MaxCuts + 2) /\ mishaps \in 0..MaxMishaps
    BY ConstantsAssumption DEF Init
  <2>5. /\ spill \in BOOLEAN /\ archive \in {"none", "torn", "whole"} /\ rows \subseteq Names
        /\ pc \in PCs /\ ok \in BOOLEAN /\ doomed \subseteq Names /\ complete \in BOOLEAN
    BY DEF Init, PCs
  <2>. QED
    BY <2>2, <2>3, <2>4, <2>5 DEF TypeOK
<1>4. PassShape
  BY DEF Init, PassShape, Committing, Segmenting, Archiving, Finishing
<1>. QED
  BY <1>3, <1>4 DEF TypeInv

\* Every step keeps the types: one step of the proof per action.
LEMMA TypeNext == TypeInv /\ [Next]_vars => TypeInv'
<1>. SUFFICES ASSUME TypeInv, [Next]_vars PROVE TypeInv'
  OBVIOUS
<1>. USE DEF disk, local
<1>0. /\ manifest \in Manifest /\ saved \in Manifest
      /\ manifest.tracks \in Tracks /\ manifest.cuts \in Cuts /\ manifest.gen \in Gens
      /\ Len(manifest.tracks) \in 0..(MaxCuts + 1) /\ Len(manifest.cuts) \in 0..MaxCuts
      /\ MaxCuts \in Nat
  <2>1. manifest \in Manifest /\ saved \in Manifest
    BY DEF TypeInv, TypeOK
  <2>2. manifest.tracks \in Tracks /\ manifest.cuts \in Cuts /\ manifest.gen \in Gens
    BY <2>1 DEF Manifest
  <2>. QED
    BY <2>1, <2>2, TracksAre, CutsAre, ConstantsAssumption
<1>m. mishaps' \in 0..MaxMishaps
  BY MishapsAre
<1>edit. ASSUME NEW m \in Manifest, Editable, SaveMayFail(m), Edited
         PROVE  TypeInv'
  BY <1>m, <1>edit, EditTypes DEF SaveMayFail
<1>cuts. ASSUME NEW cuts \in Cuts
         PROVE  /\ Len(cuts) + 1 \in 0..(MaxCuts + 1)
                /\ [manifest EXCEPT !.cuts = cuts, !.tracks = Resized(@, Len(cuts) + 1)] \in Manifest
  <2>1. Len(cuts) + 1 \in 0..(MaxCuts + 1)
    BY CutsAre, ConstantsAssumption
  <2>2. Resized(manifest.tracks, Len(cuts) + 1) \in Tracks
    BY <1>0, <2>1, ResizedAre
  <2>. QED
    BY <1>0, <2>1, <2>2 DEF Manifest
<1>1. CASE SetSplits
  BY <1>1, <1>edit, <1>cuts DEF SetSplits
<1>2. CASE SetSideBounds
  <2>1. PICK lo \in 0..Length, hi \in 0..Length :
          SaveMayFail([manifest EXCEPT !.lo = lo, !.hi = hi])
    BY <1>2 DEF SetSideBounds
  <2>2. [manifest EXCEPT !.lo = lo, !.hi = hi] \in Manifest
    BY <1>0 DEF Manifest, Frames
  <2>. QED
    BY <1>2, <1>edit, <2>1, <2>2 DEF SetSideBounds
<1>3. CASE AutoSplit
  <2>. DEFINE split(cuts) == [manifest EXCEPT !.cuts = cuts, !.tracks = Resized(@, Len(cuts) + 1)]
  <2>1. PICK cuts \in Cuts, lo \in 0..Length, hi \in 0..Length :
          \/ manifest' = [split(cuts) EXCEPT !.lo = lo, !.hi = hi] /\ saved' = manifest'
          \/ manifest' = split(cuts) /\ saved' = saved
    BY <1>3 DEF AutoSplit
  <2>2. split(cuts) \in Manifest
    BY <1>cuts
  <2>3. [split(cuts) EXCEPT !.lo = lo, !.hi = hi] \in Manifest
    BY <2>2 DEF Manifest, Frames
  <2>. QED
    BY <1>m, <1>3, <2>1, <2>2, <2>3, EditTypes DEF AutoSplit
<1>4. CASE SetTrackMeta
  BY <1>0, <1>4, <1>edit, EntryEdits DEF SetTrackMeta
<1>5. CASE SetSegmentDropped
  BY <1>0, <1>5, <1>edit, EntryEdits DEF SetSegmentDropped
<1>6. CASE Discard
  <2>1. DOMAIN files' = {}
    BY <1>6 DEF Discard
  <2>. QED
    BY <1>6, <2>1
    DEF Discard, TypeInv, TypeOK, PassShape, PCs, Committing, Segmenting, Archiving, Finishing
<1>7. CASE CommitAgain
  BY <1>7
  DEF CommitAgain, TypeInv, TypeOK, PassShape, Committing, Segmenting, Archiving, Finishing
<1>8. CASE BeginCommit
  <2>. DEFINE n == Len(manifest.cuts) + 1
  <2>1. /\ n \in 1..(MaxCuts + 1) /\ n \in 0..(MaxCuts + 1)
        /\ manifest' = [manifest EXCEPT !.tracks = Resized(manifest.tracks, n)]
        /\ names' = PlanNames(manifest'.tracks, manifest.gen)
    BY <1>0, <1>8 DEF BeginCommit
  <2>2. Resized(manifest.tracks, n) \in Tracks /\ Len(Resized(manifest.tracks, n)) = n
    BY <1>0, <2>1, ResizedAre
  <2>3. /\ manifest' \in Manifest /\ manifest'.tracks \in Tracks /\ Len(manifest'.tracks) = n
        /\ manifest'.cuts = manifest.cuts
    BY <1>0, <2>1, <2>2 DEF Manifest
  <2>4. names' \in [1..Len(manifest'.tracks) -> {{m} : m \in Names}]
    BY <1>0, <2>1, <2>3, NamesAre
  <2>5. PassShape'
    BY <1>0, <1>8, <2>1, <2>3, <2>4
    DEF BeginCommit, PassShape, Committing, Segmenting, Archiving, Finishing
  <2>6. at' \in 0..(MaxCuts + 2) /\ pc' \in PCs /\ ok' \in BOOLEAN /\ complete' \in BOOLEAN
    <3>1. at' = 1 /\ pc' = "segment" /\ ok' = TRUE /\ complete' = FALSE
      BY <1>8 DEF BeginCommit
    <3>2. 1 \in 0..(MaxCuts + 2)
      BY <1>0
    <3>. QED
      BY <3>1, <3>2 DEF PCs
  <2>7. TypeOK'
    BY <1>8, <2>3, <2>6 DEF BeginCommit, TypeInv, TypeOK
  <2>. QED
    BY <2>5, <2>7 DEF TypeInv
<1>9. CASE SkipSegment
  BY <1>0, <1>9
  DEF SkipSegment, TypeInv, TypeOK, PassShape, Committing, Segmenting, Archiving, Finishing
<1>10. CASE EncodeSegment
  <2>1. /\ names[at] \subseteq Names /\ at \in 1..Len(manifest.tracks)
        /\ Len(manifest.tracks) = Len(manifest.cuts) + 1
    BY <1>0, <1>10 DEF EncodeSegment, TypeInv, PassShape, Committing, Segmenting
  <2>2. Segment(manifest, at) \in Frames \X Frames
    BY <1>0, <2>1, SegmentIsFrames
  <2>3. DOMAIN files \subseteq Names /\ \A f \in DOMAIN files : files[f] \in Frames \X Frames
    BY DEF TypeInv, TypeOK
  <2>4. DOMAIN files' \subseteq Names /\ \A f \in DOMAIN files' : files'[f] \in Frames \X Frames
    BY <1>10, <2>1, <2>2, <2>3 DEF EncodeSegment
  <2>5. TypeOK'
    BY <1>0, <1>10, <2>4 DEF EncodeSegment, TypeInv, TypeOK, PCs
  <2>6. PassShape'
    BY <1>0, <1>10, <2>1
    DEF EncodeSegment, TypeInv, PassShape, Committing, Segmenting, Archiving, Finishing
  <2>. QED
    BY <2>5, <2>6 DEF TypeInv
<1>11. CASE ImportSegment
  <2>1. /\ at \in 1..Len(manifest.tracks) /\ names[at] \in {{n} : n \in Names}
        /\ names \in [1..Len(manifest.tracks) -> {{n} : n \in Names}]
        /\ Len(manifest.tracks) = Len(manifest.cuts) + 1
    BY <1>0, <1>11 DEF ImportSegment, TypeInv, PassShape, Committing, Segmenting
  <2>2. PICK n \in Names : names[at] = {n}
    BY <2>1
  <2>3. /\ manifest' \in Manifest /\ Len(manifest'.tracks) = Len(manifest.tracks)
        /\ manifest'.cuts = manifest.cuts
    <3>. DEFINE e == [manifest EXCEPT !.tracks[at].imported = {n}]
    <3>1. e \in Manifest /\ Len(e.tracks) = Len(manifest.tracks)
      BY <1>0, <2>1, EntryEdits
    <3>2. e.cuts = manifest.cuts
      BY <1>0 DEF Manifest
    <3>3. manifest' = e \/ manifest' = manifest
      BY <1>11, <2>2 DEF ImportSegment
    <3>. QED
      BY <1>0, <3>1, <3>2, <3>3
  <2>4. rows' \subseteq Names
    BY <1>11, <2>2 DEF ImportSegment, TypeInv, TypeOK
  <2>5. TypeOK'
    BY <1>0, <1>11, <2>3, <2>4 DEF ImportSegment, TypeInv, TypeOK, PCs
  <2>6. PassShape'
    BY <1>0, <1>11, <2>1, <2>3
    DEF ImportSegment, PassShape, Committing, Segmenting, Archiving, Finishing
  <2>. QED
    BY <2>5, <2>6 DEF TypeInv
<1>12. CASE SaveSegment
  <2>1. CASE CommitFails /\ UNCHANGED <<disk, manifest, saved>>
    BY <1>0, <1>m, <2>1, PassEnds DEF CommitFails, TypeInv, TypeOK
  <2>2. CASE /\ saved' = manifest /\ pc' = "segment" /\ at' = at + 1
            /\ UNCHANGED <<names, ok, doomed, complete>>
    BY <1>0, <1>m, <1>12, <2>2
    DEF SaveSegment, TypeInv, TypeOK, PassShape, PCs, Committing, Segmenting, Archiving, Finishing
  <2>. QED
    BY <1>12, <2>1, <2>2 DEF SaveSegment
<1>13. CASE SegmentsDone
  BY <1>0, <1>13
  DEF SegmentsDone, TypeInv, TypeOK, PassShape, PCs, Committing, Segmenting, Archiving, Finishing
<1>14. CASE ArchiveStart
  BY <1>0, <1>14
  DEF ArchiveStart, TypeInv, TypeOK, PassShape, PCs, Committing, Segmenting, Archiving, Finishing
<1>15. CASE ArchiveDone
  <2>1. /\ manifest' \in Manifest /\ manifest'.tracks = manifest.tracks
        /\ manifest'.cuts = manifest.cuts
    BY <1>0, <1>15 DEF ArchiveDone, Manifest
  <2>. QED
    BY <1>0, <1>m, <1>15, <2>1
    DEF ArchiveDone, TypeInv, TypeOK, PassShape, PCs, Committing, Segmenting, Archiving, Finishing
<1>16. CASE SaveArchive
  <2>1. CASE CommitFails /\ UNCHANGED <<disk, manifest, saved>>
    BY <1>0, <1>m, <2>1, PassEnds DEF CommitFails, TypeInv, TypeOK
  <2>2. CASE /\ saved' = manifest /\ pc' = "replace"
            /\ UNCHANGED <<local, complete>>
    BY <1>0, <1>m, <1>16, <2>2
    DEF SaveArchive, TypeInv, TypeOK, PassShape, PCs, Committing, Segmenting, Archiving, Finishing
  <2>. QED
    BY <1>16, <2>1, <2>2 DEF SaveArchive
<1>17. CASE BeginReplace
  <2>1. /\ manifest' \in Manifest /\ manifest'.tracks = manifest.tracks
        /\ manifest'.cuts = manifest.cuts
        /\ doomed' \subseteq Names
    BY <1>0, <1>17 DEF BeginReplace, TypeInv, TypeOK, Manifest
  <2>. QED
    BY <1>0, <1>17, <2>1
    DEF BeginReplace, TypeInv, TypeOK, PassShape, PCs, Committing, Segmenting, Archiving, Finishing
<1>18. CASE DeleteReplaced
  <2>1. /\ manifest' \in Manifest /\ manifest'.tracks = manifest.tracks
        /\ manifest'.cuts = manifest.cuts
    BY <1>0, <1>18 DEF DeleteReplaced, Manifest
  <2>. QED
    BY <1>0, <1>18, <2>1
    DEF DeleteReplaced, TypeInv, TypeOK, PassShape, PCs, Committing, Segmenting, Archiving,
        Finishing
<1>19. CASE SaveReplaced
  <2>1. CASE CommitFails /\ UNCHANGED <<disk, manifest, saved>>
    BY <1>0, <1>m, <2>1, PassEnds DEF CommitFails, TypeInv, TypeOK
  <2>2. CASE /\ saved' = manifest /\ pc' = "sweep"
            /\ UNCHANGED <<local, complete>>
    BY <1>0, <1>m, <1>19, <2>2
    DEF SaveReplaced, TypeInv, TypeOK, PassShape, PCs, Committing, Segmenting, Archiving, Finishing
  <2>. QED
    BY <1>19, <2>1, <2>2 DEF SaveReplaced
<1>20. CASE SweepFiles
  <2>1. DOMAIN files' \subseteq Names /\ \A f \in DOMAIN files' : files'[f] \in Frames \X Frames
    BY <1>20 DEF SweepFiles, TypeInv, TypeOK
  <2>. QED
    BY <1>0, <1>20, <2>1
    DEF SweepFiles, TypeInv, TypeOK, PassShape, PCs, Committing, Segmenting, Archiving, Finishing
<1>21. CASE EndCommit
  <2>1. spill' \in BOOLEAN /\ complete' \in BOOLEAN
    BY <1>0, <1>21, Zenon DEF EndCommit, IsComplete, TypeInv, TypeOK, Manifest
  <2>. QED
    BY <1>0, <1>m, <1>21, <2>1
    DEF EndCommit, TypeInv, TypeOK, PassShape, PCs, Committing, Segmenting, Archiving, Finishing
<1>22. CASE Crash
  BY <1>0, <1>m, <1>22, PassEnds DEF Crash, TypeInv, TypeOK
<1>23. CASE Close
  BY <1>0, <1>23
  DEF Close, TypeInv, TypeOK, PassShape, PCs, Committing, Segmenting, Archiving, Finishing
<1>24. CASE Resume
  <2>1. Recovered(saved) \in Manifest
    <3>1. saved.tracks \in Tracks /\ <<>> \in Cuts
      <4>1. <<>> \in [1..0 -> 1..(Length - 1)] /\ 0 \in 0..MaxCuts
        BY <1>0
      <4>. QED
        BY <1>0, <4>1 DEF Cuts, Manifest
    <3>2. \A n \in {0, 1} : Resized(saved.tracks, n) \in Tracks
      <4>1. 0 \in 0..(MaxCuts + 1) /\ 1 \in 0..(MaxCuts + 1)
        BY <1>0
      <4>. QED
        BY <3>1, <4>1, ResizedAre
    <3>3. Resized(saved.tracks, IF saved.tracks = <<>> THEN 0 ELSE 1) \in Tracks
      BY <3>2
    <3>4. 0 \in Frames /\ Length \in Frames
      BY ConstantsAssumption DEF Frames
    <3>5. \A t \in Tracks :
            [saved EXCEPT !.cuts = <<>>, !.lo = 0, !.hi = Length, !.tracks = t] \in Manifest
      BY <1>0, <3>1, <3>4 DEF Manifest
    <3>. QED
      BY <1>0, <3>3, <3>5 DEF Recovered
  <2>. QED
    BY <1>0, <1>24, <2>1
    DEF Resume, TypeInv, TypeOK, PassShape, PCs, Committing, Segmenting, Archiving, Finishing
<1>25. CASE Resplit
  <2>1. <<>> \in Cuts /\ <<DefaultEntry>> \in Tracks
    <3>1. <<>> \in [1..0 -> 1..(Length - 1)] /\ 0 \in 0..MaxCuts
      BY <1>0
    <3>2. <<DefaultEntry>> \in [1..1 -> Entry] /\ 1 \in 0..(MaxCuts + 1)
      BY <1>0, DefaultIsEntry
    <3>. QED
      BY <3>1, <3>2 DEF Cuts, Tracks
  <2>2. Imported(saved.tracks) \subseteq Names
    <3>1. saved.tracks \in [1..Len(saved.tracks) -> Entry]
      BY <1>0, TracksAre DEF Manifest
    <3>. QED
      BY <3>1 DEF Imported, Entry
  <2>3. manifest' \in Manifest
    <3>1. 0 \in Frames /\ Length \in Frames
      BY ConstantsAssumption DEF Frames
    <3>2. saved.gen + 1 \in Gens
      BY <1>0, <1>25, ConstantsAssumption DEF Resplit, Manifest, Gens
    <3>3. saved.replaced \cup Imported(saved.tracks) \subseteq Names
      BY <1>0, <2>2 DEF Manifest
    <3>. HIDE DEF Imported
    <3>. QED
      BY <1>0, <1>25, <2>1, <3>1, <3>2, <3>3 DEF Resplit, Manifest
  <2>. QED
    BY <1>0, <1>25, <2>3
    DEF Resplit, TypeInv, TypeOK, PassShape, PCs, Committing, Segmenting, Archiving, Finishing
<1>26. CASE UNCHANGED vars
  BY <1>26
  DEF vars, TypeInv, TypeOK, PassShape, PCs, Committing, Segmenting, Archiving, Finishing
<1>. QED
  BY <1>1, <1>2, <1>3, <1>4, <1>5, <1>6, <1>7, <1>8, <1>9, <1>10, <1>11, <1>12, <1>13, <1>14,
     <1>15, <1>16, <1>17, <1>18, <1>19, <1>20, <1>21, <1>22, <1>23, <1>24, <1>25, <1>26
  DEF Next, Review, CommitStep

\* Type correctness (TypeOK): whatever commits, faults and crashes happen, the
\* directory, the library and both manifests hold what they should.
THEOREM TypeCorrect == Spec => []TypeOK
<1>1. TypeInv => TypeOK
  BY DEF TypeInv
<1>. QED
  BY <1>1, TypeInit, TypeNext, PTL DEF Spec

-----------------------------------------------------------------------------
(* Where the audio is *)

Edit == SetSplits \/ SetSideBounds \/ AutoSplit \/ SetTrackMeta \/ SetSegmentDropped

\* An edit of the review touches the plan alone, imports nothing, and is saved
\* or not.
LEMMA EditsKeep ==
  ASSUME TypeInv, Edit
  PROVE  /\ Edited /\ pc = "review" /\ saved' \in {saved, manifest'}
         /\ manifest'.archived = manifest.archived /\ manifest'.gen = manifest.gen
         /\ manifest'.replaced = manifest.replaced
         /\ \A i \in DOMAIN manifest'.tracks :
              \/ manifest'.tracks[i].imported = {}
              \/ /\ i \in DOMAIN manifest.tracks
                 /\ manifest'.tracks[i].imported = manifest.tracks[i].imported
<1>0. /\ manifest \in Manifest /\ manifest.tracks \in Tracks
      /\ Len(manifest.tracks) \in 0..(MaxCuts + 1)
      /\ DOMAIN manifest.tracks = 1..Len(manifest.tracks)
      /\ manifest.tracks \in [1..Len(manifest.tracks) -> Entry]
  <2>1. manifest \in Manifest /\ manifest.tracks \in Tracks
    BY DEF TypeInv, TypeOK, Manifest
  <2>. QED
    BY <2>1, TracksAre
<1>. DEFINE Keeps(m) ==
       /\ m.archived = manifest.archived /\ m.gen = manifest.gen /\ m.replaced = manifest.replaced
       /\ \A i \in DOMAIN m.tracks :
            \/ m.tracks[i].imported = {}
            \/ /\ i \in DOMAIN manifest.tracks
               /\ m.tracks[i].imported = manifest.tracks[i].imported
<1>split. ASSUME NEW cuts \in Cuts
          PROVE  Keeps([manifest EXCEPT !.cuts = cuts, !.tracks = Resized(@, Len(cuts) + 1)])
  <2>. DEFINE n == Len(cuts) + 1
  <2>1. n \in 0..(MaxCuts + 1)
    BY CutsAre, ConstantsAssumption
  <2>2. /\ DOMAIN Resized(manifest.tracks, n) = 1..n
        /\ \A i \in 1..n : Resized(manifest.tracks, n)[i] =
                             IF i <= Len(manifest.tracks) THEN manifest.tracks[i] ELSE DefaultEntry
    BY <1>0, <2>1, ResizedAre
  <2>3. \A i \in 1..n : i <= Len(manifest.tracks) => i \in DOMAIN manifest.tracks
    BY <1>0, <2>1, ConstantsAssumption
  <2>4. DefaultEntry.imported = {}
    BY DEF DefaultEntry
  <2>. HIDE DEF n
  <2>5. LET m == [manifest EXCEPT !.cuts = cuts, !.tracks = Resized(@, n)]
        IN /\ m.archived = manifest.archived /\ m.gen = manifest.gen
           /\ m.replaced = manifest.replaced /\ m.tracks = Resized(manifest.tracks, n)
    BY <1>0 DEF Manifest
  <2>. QED
    BY <2>2, <2>3, <2>4, <2>5 DEF n
<1>1. CASE SetSplits
  BY <1>1, <1>split DEF SetSplits, Editable, SaveMayFail
<1>2. CASE SetSideBounds
  BY <1>0, <1>2 DEF SetSideBounds, Editable, SaveMayFail, Manifest
<1>3. CASE AutoSplit
  <2>1. PICK cuts \in Cuts, lo \in 0..Length, hi \in 0..Length :
          LET split == [manifest EXCEPT !.cuts = cuts, !.tracks = Resized(@, Len(cuts) + 1)]
          IN \/ manifest' = [split EXCEPT !.lo = lo, !.hi = hi] /\ saved' = manifest'
             \/ manifest' = split /\ saved' = saved
    BY <1>3 DEF AutoSplit
  <2>. DEFINE split == [manifest EXCEPT !.cuts = cuts, !.tracks = Resized(@, Len(cuts) + 1)]
  <2>2. Keeps(split)
    BY <1>split
  <2>3. Keeps([split EXCEPT !.lo = lo, !.hi = hi])
    BY <1>0, <2>2 DEF Manifest
  <2>. HIDE DEF split
  <2>4. Keeps(manifest') /\ saved' \in {saved, manifest'}
    BY <2>1, <2>2, <2>3 DEF split
  <2>. QED
    BY <1>3, <2>4 DEF AutoSplit, Editable
<1>4. CASE SetTrackMeta
  <2>1. PICK i \in 1..Len(manifest.tracks), t \in Titles :
          SaveMayFail([manifest EXCEPT !.tracks[i].title = t])
    BY <1>4 DEF SetTrackMeta
  <2>2. Keeps([manifest EXCEPT !.tracks[i].title = t])
    BY <1>0 DEF Manifest, Entry
  <2>. QED
    BY <1>4, <2>1, <2>2 DEF SetTrackMeta, Editable, SaveMayFail
<1>5. CASE SetSegmentDropped
  <2>1. PICK i \in 1..Len(manifest.tracks), d \in BOOLEAN :
          SaveMayFail([manifest EXCEPT !.tracks[i].dropped = d])
    BY <1>5 DEF SetSegmentDropped
  <2>2. Keeps([manifest EXCEPT !.tracks[i].dropped = d])
    BY <1>0 DEF Manifest, Entry
  <2>. QED
    BY <1>5, <2>1, <2>2 DEF SetSegmentDropped, Editable, SaveMayFail
<1>. QED
  BY <1>1, <1>2, <1>3, <1>4, <1>5 DEF Edit

\* Reopening a recovered side changes its plan alone.
LEMMA RecoveredKeeps ==
  ASSUME NEW m \in Manifest
  PROVE  /\ Recovered(m).archived = m.archived /\ Recovered(m).gen = m.gen
         /\ Recovered(m).replaced = m.replaced
         /\ \A i \in DOMAIN Recovered(m).tracks :
              /\ i \in DOMAIN m.tracks
              /\ Recovered(m).tracks[i].imported = m.tracks[i].imported
<1>1. m.tracks \in Tracks /\ DOMAIN m.tracks = 1..Len(m.tracks) /\ Len(m.tracks) \in Nat
  BY TracksAre, ConstantsAssumption DEF Manifest
<1>. DEFINE n == IF m.tracks = <<>> THEN 0 ELSE 1
<1>2. n \in 0..(MaxCuts + 1) /\ n <= Len(m.tracks)
  <2>1. CASE m.tracks = <<>>
    BY <1>1, <2>1, ConstantsAssumption
  <2>2. CASE m.tracks # <<>>
    <3>1. m.tracks \in Seq(Entry)
      BY <1>1, TracksAre, FunctionIsSeq
    <3>. QED
      BY <1>1, <2>2, <3>1, ConstantsAssumption
  <2>. QED
    BY <2>1, <2>2
<1>3. /\ DOMAIN Resized(m.tracks, n) = 1..n
      /\ \A i \in 1..n : Resized(m.tracks, n)[i] = IF i <= Len(m.tracks) THEN m.tracks[i] ELSE DefaultEntry
  BY <1>1, <1>2, ResizedAre
<1>4. \A i \in 1..n : i <= Len(m.tracks) /\ i \in DOMAIN m.tracks
  BY <1>1, <1>2
<1>. HIDE DEF n
<1>5. LET r == [m EXCEPT !.cuts = <<>>, !.lo = 0, !.hi = Length, !.tracks = Resized(m.tracks, n)]
      IN /\ r.archived = m.archived /\ r.gen = m.gen /\ r.replaced = m.replaced
         /\ r.tracks = Resized(m.tracks, n)
  BY DEF Manifest
<1>. QED
  BY <1>3, <1>4, <1>5 DEF Recovered, n

\* The initial state has the spill.
LEMMA AudioInit == Init => AudioInv
  BY DEF Init, NewManifest, AudioInv, SideKept

\* No step loses the audio: side.flac is rewritten only while the spill is
\* there, and the spill goes only once the archive is whole.
LEMMA AudioNext == TypeInv /\ AudioInv /\ [Next]_vars => AudioInv'
<1>. SUFFICES ASSUME TypeInv, AudioInv, [Next]_vars PROVE AudioInv'
  OBVIOUS
<1>. USE DEF AudioInv, SideKept, disk, local
<1>0. manifest \in Manifest /\ saved \in Manifest
  BY DEF TypeInv, TypeOK
<1>1. CASE Edit
  BY <1>1, EditsKeep DEF Edited
<1>2. CASE Discard
  BY <1>2 DEF Discard
<1>3. CASE CommitAgain
  BY <1>3 DEF CommitAgain
<1>4. CASE BeginCommit
  <2>1. manifest'.archived = manifest.archived
    BY <1>0, <1>4 DEF BeginCommit, Manifest
  <2>. QED
    BY <1>4, <2>1 DEF BeginCommit
<1>5. CASE SkipSegment
  BY <1>5 DEF SkipSegment
<1>6. CASE EncodeSegment
  BY <1>6 DEF EncodeSegment
<1>7. CASE ImportSegment
  <2>1. manifest'.archived = manifest.archived
    BY <1>0, <1>7 DEF ImportSegment, Manifest
  <2>. QED
    BY <1>7, <2>1 DEF ImportSegment
<1>8. CASE SaveSegment
  BY <1>8 DEF SaveSegment, CommitFails
<1>9. CASE SegmentsDone
  BY <1>9 DEF SegmentsDone
<1>10. CASE ArchiveStart
  BY <1>10 DEF ArchiveStart
<1>11. CASE ArchiveDone
  <2>1. CASE archive' = "whole"
    BY <1>0, <1>11, <2>1 DEF ArchiveDone, Manifest
  <2>2. CASE UNCHANGED <<archive, manifest>>
    BY <1>11, <2>2 DEF ArchiveDone
  <2>. QED
    BY <1>11, <2>1, <2>2 DEF ArchiveDone
<1>12. CASE SaveArchive
  BY <1>12 DEF SaveArchive, CommitFails
<1>13. CASE BeginReplace
  <2>1. manifest'.archived = manifest.archived
    BY <1>0, <1>13 DEF BeginReplace, Manifest
  <2>. QED
    BY <1>13, <2>1 DEF BeginReplace
<1>14. CASE DeleteReplaced
  <2>1. manifest'.archived = manifest.archived
    BY <1>0, <1>14 DEF DeleteReplaced, Manifest
  <2>. QED
    BY <1>14, <2>1 DEF DeleteReplaced
<1>15. CASE SaveReplaced
  BY <1>15 DEF SaveReplaced, CommitFails
<1>16. CASE SweepFiles
  BY <1>16 DEF SweepFiles
<1>17. CASE EndCommit
  BY <1>17 DEF EndCommit, IsComplete
<1>18. CASE Crash
  BY <1>18 DEF Crash
<1>19. CASE Close
  BY <1>19 DEF Close
<1>20. CASE Resume
  BY <1>0, <1>20, RecoveredKeeps DEF Resume
<1>21. CASE Resplit
  <2>1. manifest'.archived = saved.archived
    BY <1>0, <1>21 DEF Resplit, Manifest
  <2>. QED
    BY <1>21, <2>1 DEF Resplit, Resplittable
<1>22. CASE UNCHANGED vars
  BY <1>22 DEF vars
<1>. QED
  BY <1>1, <1>2, <1>3, <1>4, <1>5, <1>6, <1>7, <1>8, <1>9, <1>10, <1>11, <1>12, <1>13, <1>14,
     <1>15, <1>16, <1>17, <1>18, <1>19, <1>20, <1>21, <1>22
  DEF Next, Review, CommitStep, Edit

\* The recording is never lost (SideKept): commit_session deletes the spill
\* only after side.flac is whole and named by the manifest in memory, and never
\* rewrites a side.flac that a manifest names.
THEOREM SideIsKept == Spec => []SideKept
<1>1. AudioInv => SideKept
  BY DEF AudioInv
<1>. QED
  BY <1>1, TypeInit, TypeNext, AudioInit, AudioNext, PTL DEF Spec

-----------------------------------------------------------------------------
(* What a pass has done *)

\* Before any commit no pass has done anything.
LEMMA PassInit == Init => PassInv
  BY DEF Init, PassInv, Committing, Segmenting, Archiving, Finishing

\* Every step keeps what a pass has done.
LEMMA PassNext == TypeInv /\ PassInv /\ [Next]_vars => PassInv'
<1>. SUFFICES ASSUME TypeInv, PassInv, [Next]_vars PROVE PassInv'
  OBVIOUS
<1>. USE DEF disk, local, Committing, Segmenting, Archiving, Finishing
<1>0. /\ manifest \in Manifest /\ saved \in Manifest
      /\ Len(manifest.tracks) \in Nat /\ DOMAIN manifest.tracks = 1..Len(manifest.tracks)
      /\ manifest.tracks \in [1..Len(manifest.tracks) -> Entry]
  <2>1. manifest \in Manifest /\ saved \in Manifest
    BY DEF TypeInv, TypeOK
  <2>2. manifest.tracks \in Tracks
    BY <2>1 DEF Manifest
  <2>. QED
    BY <2>1, <2>2, TracksAre, ConstantsAssumption
<1>idle. ASSUME pc' \in {"review", "closed", "discarded"}
         PROVE  PassInv'
  BY <1>idle DEF PassInv
<1>same. ASSUME UNCHANGED <<at, ok>>, manifest'.tracks = manifest.tracks, pc' \notin {"save", "delete"},
                pc \in Committing, pc' \in Archiving \cup Finishing => at = Len(manifest.tracks) + 1
         PROVE  PassInv'
  BY <1>same DEF PassInv, Done
<1>1. CASE Edit \/ Discard \/ CommitAgain \/ EndCommit \/ Crash \/ Close \/ Resume \/ Resplit
  <2>1. CASE Edit
    BY <1>idle, <2>1, EditsKeep DEF Edited
  <2>. QED
    BY <1>1, <1>idle, <2>1 DEF Discard, CommitAgain, EndCommit, Crash, Close, Resume, Resplit
<1>2. CASE BeginCommit
  <2>1. at' = 1 /\ pc' = "segment"
    BY <1>2 DEF BeginCommit
  <2>. QED
    BY <2>1 DEF PassInv
<1>3. CASE SkipSegment
  <2>1. /\ pc = "segment" /\ pc' = "segment" /\ at' = at + 1 /\ Done(at)
        /\ manifest' = manifest /\ ok' = ok /\ at \in Nat
    BY <1>3 DEF SkipSegment, Done, TypeInv, TypeOK
  <2>2. ok' => \A i \in 1..(at' - 1) : Done(i)
    BY <2>1 DEF PassInv
  <2>. QED
    BY <2>1, <2>2 DEF PassInv, Done
<1>4. CASE EncodeSegment
  BY <1>4 DEF EncodeSegment, PassInv, Done
<1>5. CASE ImportSegment
  <2>1. /\ pc = "import" /\ pc' = "save" /\ at' = at /\ at \in 1..Len(manifest.tracks)
        /\ names[at] # {}
    <3>1. pc = "import" /\ pc' = "save" /\ at' = at
      BY <1>5 DEF ImportSegment
    <3>2. /\ at \in 1..Len(manifest.tracks)
          /\ names \in [1..Len(manifest.tracks) -> {{n} : n \in Names}]
      BY <1>0, <3>1 DEF TypeInv, PassShape
    <3>3. names[at] \in {{n} : n \in Names}
      BY <3>2
    <3>. QED
      BY <3>1, <3>2, <3>3
  <2>2. CASE /\ manifest' = [manifest EXCEPT !.tracks[at].imported = names[at]]
             /\ ok' = ok
    <3>1. /\ manifest'.tracks[at].imported = names[at]
          /\ \A i \in 1..(at - 1) : manifest'.tracks[i] = manifest.tracks[i]
      BY <1>0, <2>1, <2>2 DEF Manifest, Entry
    <3>2. ok' => \A i \in 1..(at - 1) : Done(i)'
      BY <2>1, <2>2, <3>1 DEF PassInv, Done
    <3>3. Done(at)'
      BY <2>1, <3>1 DEF Done
    <3>. QED
      BY <2>1, <3>2, <3>3 DEF PassInv
  <2>3. CASE ok' = FALSE
    BY <2>1, <2>3 DEF PassInv
  <2>. QED
    BY <1>5, <2>2, <2>3 DEF ImportSegment
<1>6. CASE SaveSegment
  <2>1. CASE pc' = "segment"
    <3>1. pc = "save" /\ at' = at + 1 /\ manifest' = manifest /\ ok' = ok /\ at \in Nat
      BY <1>6, <2>1 DEF SaveSegment, CommitFails, TypeInv, TypeOK
    <3>2. ok' => \A i \in 1..(at' - 1) : Done(i)
      BY <3>1 DEF PassInv
    <3>. QED
      BY <2>1, <3>1, <3>2 DEF PassInv, Done
  <2>. QED
    BY <1>6, <1>idle, <2>1 DEF SaveSegment, CommitFails
<1>7. CASE SegmentsDone
  <2>1. at = Len(manifest.tracks) + 1
    BY <1>0, <1>7 DEF SegmentsDone, TypeInv, PassShape
  <2>. QED
    BY <1>7, <1>same, <2>1 DEF SegmentsDone
<1>8. CASE ArchiveStart
  BY <1>8, <1>same DEF ArchiveStart, PassInv
<1>9. CASE ArchiveDone
  <2>1. manifest'.tracks = manifest.tracks
    BY <1>0, <1>9 DEF ArchiveDone, Manifest
  <2>. QED
    BY <1>9, <1>same, <2>1 DEF ArchiveDone, PassInv
<1>10. CASE SaveArchive
  BY <1>10, <1>same, <1>idle DEF SaveArchive, CommitFails, PassInv
<1>11. CASE BeginReplace
  <2>1. manifest'.tracks = manifest.tracks /\ manifest'.archived = manifest.archived
    BY <1>0, <1>11 DEF BeginReplace, Manifest
  <2>2. CASE pc' = "delete"
    BY <1>11, <2>1, <2>2 DEF BeginReplace, PassInv, Done, IsComplete
  <2>. QED
    BY <1>11, <1>same, <2>1, <2>2 DEF BeginReplace, PassInv
<1>12. CASE DeleteReplaced
  <2>1. manifest'.tracks = manifest.tracks /\ manifest'.archived = manifest.archived
    BY <1>0, <1>12 DEF DeleteReplaced, Manifest
  <2>. QED
    BY <1>12, <2>1 DEF DeleteReplaced, PassInv, Done, IsComplete
<1>13. CASE SaveReplaced
  BY <1>13, <1>same, <1>idle DEF SaveReplaced, CommitFails, PassInv
<1>14. CASE SweepFiles
  BY <1>14, <1>same DEF SweepFiles, PassInv
<1>15. CASE UNCHANGED vars
  BY <1>15 DEF vars, PassInv, Done, IsComplete
<1>. QED
  BY <1>1, <1>2, <1>3, <1>4, <1>5, <1>6, <1>7, <1>8, <1>9, <1>10, <1>11, <1>12, <1>13, <1>14,
     <1>15
  DEF Next, Review, CommitStep, Edit

-----------------------------------------------------------------------------
(* The library and the manifests *)

\* Before any commit the library has no track of the side.
LEMMA LibraryInit == Init => LibraryInv
<1>. SUFFICES ASSUME Init PROVE LibraryInv
  OBVIOUS
<1>1. DOMAIN NewManifest.tracks = {} /\ NewManifest.replaced = {}
  BY DEF NewManifest
<1>. QED
  BY <1>1 DEF Init, LibraryInv, Agrees, Segmenting

\* A manifest whose plan imports no more than another's agrees where it does.
LEMMA AgreesLess ==
  ASSUME NEW m \in Manifest, NEW r \in Manifest, NEW lib, Agrees(m, lib),
         r.gen = m.gen, r.replaced \subseteq m.replaced,
         \A i \in DOMAIN r.tracks :
           \/ r.tracks[i].imported = {}
           \/ i \in DOMAIN m.tracks /\ r.tracks[i].imported = m.tracks[i].imported
  PROVE  Agrees(r, lib)
BY DEF Agrees

\* A name planned for a segment that has none is of the plan's generation.
LEMMA NamesOfGen ==
  ASSUME NEW t \in Tracks, NEW g \in Gens,
         \A i \in DOMAIN t : \A n \in t[i].imported : n.gen = g
  PROVE  \A i \in DOMAIN PlanNames(t, g) : \A n \in PlanNames(t, g)[i] : n.gen = g
<1>1. DOMAIN PlanNames(t, g) = 1..Len(t) /\ DOMAIN t = 1..Len(t)
  BY TracksAre DEF PlanNames
<1>2. ASSUME NEW i \in 1..Len(t)
      PROVE  PlannedName(t, g, i).gen = g
  BY DEF PlannedName
<1>. QED
  BY <1>1, <1>2 DEF PlanNames

\* Every step keeps the library and the manifests in agreement.
LEMMA LibraryNext == TypeInv /\ LibraryInv /\ [Next]_vars => LibraryInv'
<1>. SUFFICES ASSUME TypeInv, LibraryInv, [Next]_vars PROVE LibraryInv'
  OBVIOUS
<1>. USE DEF disk, local, Segmenting
<1>0. /\ manifest \in Manifest /\ saved \in Manifest /\ manifest' \in Manifest /\ saved' \in Manifest
      /\ manifest.tracks \in Tracks /\ Len(manifest.tracks) \in 0..(MaxCuts + 1)
      /\ DOMAIN manifest.tracks = 1..Len(manifest.tracks)
      /\ manifest.tracks \in [1..Len(manifest.tracks) -> Entry]
      /\ manifest.gen \in Gens /\ MaxCuts \in Nat
  <2>1. TypeInv'
    BY TypeNext
  <2>2. /\ manifest \in Manifest /\ saved \in Manifest
        /\ manifest' \in Manifest /\ saved' \in Manifest
    BY <2>1 DEF TypeInv, TypeOK
  <2>3. manifest.tracks \in Tracks /\ manifest.gen \in Gens
    BY <2>2 DEF Manifest
  <2>. QED
    BY <2>2, <2>3, TracksAre, ConstantsAssumption
<1>1. CASE Edit
  <2>1. Agrees(manifest', rows)
    BY <1>0, <1>1, EditsKeep, AgreesLess DEF LibraryInv
  <2>. QED
    BY <1>1, <2>1, EditsKeep DEF LibraryInv, Edited
<1>2. CASE Discard
  BY <1>2 DEF Discard, LibraryInv
<1>3. CASE CommitAgain
  BY <1>3 DEF CommitAgain, LibraryInv
<1>4. CASE BeginCommit
  <2>. DEFINE n == Len(manifest.cuts) + 1
  <2>1. /\ n \in 0..(MaxCuts + 1)
        /\ manifest' = [manifest EXCEPT !.tracks = Resized(manifest.tracks, n)]
        /\ names' = PlanNames(manifest'.tracks, manifest.gen)
    BY <1>0, <1>4, CutsAre DEF BeginCommit, Manifest
  <2>2. /\ manifest'.gen = manifest.gen /\ manifest'.replaced = manifest.replaced
        /\ manifest'.tracks = Resized(manifest.tracks, n) /\ manifest'.tracks \in Tracks
    BY <1>0, <2>1 DEF Manifest
  <2>3. \A i \in DOMAIN manifest'.tracks :
          \/ manifest'.tracks[i].imported = {}
          \/ /\ i \in DOMAIN manifest.tracks
             /\ manifest'.tracks[i].imported = manifest.tracks[i].imported
    <3>0. DefaultEntry.imported = {}
      BY DEF DefaultEntry
    <3>1. /\ DOMAIN Resized(manifest.tracks, n) = 1..n
          /\ \A i \in 1..n : Resized(manifest.tracks, n)[i] =
               IF i <= Len(manifest.tracks) THEN manifest.tracks[i] ELSE DefaultEntry
      BY <1>0, <2>1, ResizedAre
    <3>2. \A i \in 1..n : i <= Len(manifest.tracks) => i \in DOMAIN manifest.tracks
      BY <1>0, <2>1
    <3>. QED
      BY <2>2, <3>0, <3>1, <3>2
  <2>4. Agrees(manifest', rows)
    BY <1>0, <2>2, <2>3, AgreesLess DEF LibraryInv
  <2>5. \A i \in DOMAIN names' : \A m \in names'[i] : m.gen = manifest.gen
    BY <1>0, <2>1, <2>2, <2>4, NamesOfGen DEF Agrees
  <2>. QED
    BY <1>4, <2>2, <2>4, <2>5 DEF BeginCommit, LibraryInv
<1>5. CASE SkipSegment
  BY <1>5 DEF SkipSegment, LibraryInv
<1>6. CASE EncodeSegment
  BY <1>6 DEF EncodeSegment, LibraryInv
<1>7. CASE ImportSegment
  <2>1. CASE UNCHANGED <<rows, manifest>>
    BY <1>7, <2>1 DEF ImportSegment, LibraryInv
  <2>2. CASE /\ rows' = rows \cup names[at]
             /\ manifest' = [manifest EXCEPT !.tracks[at].imported = names[at]]
    <3>1. at \in 1..Len(manifest.tracks) /\ at \in DOMAIN names
      BY <1>0, <1>7 DEF ImportSegment, TypeInv, PassShape, Committing
    <3>2. \A n \in names[at] : n.gen = manifest.gen
      BY <1>7, <3>1 DEF ImportSegment, LibraryInv
    <3>3. /\ manifest'.gen = manifest.gen /\ manifest'.replaced = manifest.replaced
          /\ DOMAIN manifest'.tracks = DOMAIN manifest.tracks
          /\ manifest'.tracks[at].imported = names[at]
          /\ \A i \in DOMAIN manifest.tracks :
               i # at => manifest'.tracks[i] = manifest.tracks[i]
      BY <1>0, <2>2, <3>1 DEF Manifest, Entry
    <3>4. Agrees(manifest', rows')
      BY <2>2, <3>2, <3>3 DEF LibraryInv, Agrees
    <3>5. Agrees(saved, rows')
      BY <2>2 DEF LibraryInv, Agrees
    <3>. QED
      BY <1>7, <3>3, <3>4, <3>5 DEF ImportSegment, LibraryInv
  <2>. QED
    BY <1>7, <2>1, <2>2 DEF ImportSegment
<1>8. CASE SaveSegment
  BY <1>8 DEF SaveSegment, CommitFails, LibraryInv
<1>9. CASE SegmentsDone
  BY <1>9 DEF SegmentsDone, LibraryInv
<1>10. CASE ArchiveStart
  BY <1>10 DEF ArchiveStart, LibraryInv
<1>11. CASE ArchiveDone
  <2>1. /\ manifest'.gen = manifest.gen /\ manifest'.replaced = manifest.replaced
        /\ manifest'.tracks = manifest.tracks
    BY <1>0, <1>11 DEF ArchiveDone, Manifest
  <2>2. Agrees(manifest', rows)
    BY <2>1 DEF LibraryInv, Agrees
  <2>. QED
    BY <1>11, <2>1, <2>2 DEF ArchiveDone, LibraryInv
<1>12. CASE SaveArchive
  BY <1>12 DEF SaveArchive, CommitFails, LibraryInv
<1>13. CASE BeginReplace
  <2>1. /\ manifest'.gen = manifest.gen /\ manifest'.replaced \subseteq manifest.replaced
        /\ manifest'.tracks = manifest.tracks /\ doomed' \subseteq manifest.replaced \cup doomed
    BY <1>0, <1>13 DEF BeginReplace, Manifest
  <2>2. Agrees(manifest', rows) /\ \A u \in doomed' : u.gen < manifest'.gen
    BY <2>1 DEF LibraryInv, Agrees
  <2>. QED
    BY <1>13, <2>1, <2>2 DEF BeginReplace, LibraryInv
<1>14. CASE DeleteReplaced
  <2>1. PICK u \in doomed :
          /\ doomed' = doomed \ {u}
          /\ \/ rows' = rows \ {u} /\ manifest' = [manifest EXCEPT !.replaced = @ \ {u}]
             \/ UNCHANGED <<rows, manifest>>
    BY <1>14 DEF DeleteReplaced
  <2>2. /\ manifest'.gen = manifest.gen /\ manifest'.replaced \subseteq manifest.replaced
        /\ manifest'.tracks = manifest.tracks /\ rows \ {u} \subseteq rows'
    BY <1>0, <2>1 DEF Manifest
  <2>3. u.gen < manifest.gen /\ manifest.gen \in Int /\ saved.gen = manifest.gen
    BY <1>0 DEF LibraryInv, Gens
  <2>4. Agrees(manifest', rows') /\ Agrees(saved, rows')
    BY <2>2, <2>3 DEF LibraryInv, Agrees
  <2>. QED
    BY <1>14, <2>1, <2>2, <2>4 DEF DeleteReplaced, LibraryInv
<1>15. CASE SaveReplaced
  BY <1>15 DEF SaveReplaced, CommitFails, LibraryInv
<1>16. CASE SweepFiles
  BY <1>16 DEF SweepFiles, LibraryInv
<1>17. CASE EndCommit
  BY <1>17 DEF EndCommit, LibraryInv
<1>18. CASE Crash
  BY <1>18 DEF Crash, LibraryInv
<1>19. CASE Close
  BY <1>19 DEF Close, LibraryInv
<1>20. CASE Resume
  <2>1. /\ manifest' = Recovered(saved) /\ saved' = manifest' /\ rows' = rows
        /\ doomed' = doomed /\ pc' = "review"
    BY <1>20 DEF Resume
  <2>2. Agrees(manifest', rows) /\ manifest'.gen = saved.gen
    BY <1>0, <2>1, RecoveredKeeps, AgreesLess DEF LibraryInv
  <2>. QED
    BY <2>1, <2>2 DEF LibraryInv
<1>21. CASE Resplit
  <2>1. /\ manifest'.gen = saved.gen + 1 /\ manifest'.tracks = <<DefaultEntry>>
        /\ manifest'.replaced = saved.replaced \cup Imported(saved.tracks)
    BY <1>0, <1>21 DEF Resplit, Manifest
  <2>2. saved.gen \in Int /\ \A u \in saved.replaced : u.gen < saved.gen
    BY <1>0 DEF LibraryInv, Agrees, Gens
  <2>3. \A u \in Imported(saved.tracks) : u.gen = saved.gen
    <3>1. DOMAIN saved.tracks = 1..Len(saved.tracks)
      BY <1>0, TracksAre DEF Manifest
    <3>. QED
      BY <3>1 DEF Imported, LibraryInv, Agrees
  <2>4. \A u \in manifest'.replaced : u.gen < manifest'.gen
    <3>1. \A u \in saved.replaced \cup Imported(saved.tracks) : u.gen \in Int
      BY <1>0, <2>2, <2>3 DEF Manifest, Names, Gens
    <3>. QED
      BY <2>1, <2>2, <2>3, <3>1
  <2>5. \A i \in DOMAIN manifest'.tracks : manifest'.tracks[i].imported = {}
    BY <2>1 DEF DefaultEntry
  <2>6. Agrees(manifest', rows)
    BY <2>4, <2>5 DEF Agrees
  <2>7. \A u \in doomed : u.gen < manifest'.gen
    <3>1. \A u \in doomed : u.gen \in Int /\ u.gen < saved.gen
      BY DEF TypeInv, TypeOK, Names, Gens, LibraryInv
    <3>. QED
      BY <2>1, <2>2, <3>1
  <2>. QED
    BY <1>21, <2>6, <2>7 DEF Resplit, LibraryInv
<1>22. CASE UNCHANGED vars
  BY <1>22 DEF vars, LibraryInv
<1>. QED
  BY <1>1, <1>2, <1>3, <1>4, <1>5, <1>6, <1>7, <1>8, <1>9, <1>10, <1>11, <1>12, <1>13, <1>14,
     <1>15, <1>16, <1>17, <1>18, <1>19, <1>20, <1>21, <1>22
  DEF Next, Review, CommitStep, Edit

-----------------------------------------------------------------------------
(* The order of a commit *)

\* The inductive invariant is one.
LEMMA Invariance == Spec => []IInv
<1>1. Init => IInv
  BY TypeInit, AudioInit, LibraryInit, PassInit DEF IInv
<1>2. IInv /\ [Next]_vars => IInv'
  BY TypeNext, AudioNext, LibraryNext, PassNext DEF IInv
<1>. QED
  BY <1>1, <1>2, PTL DEF Spec

\* A pass at its end, without a failure, has imported every kept segment.
LEMMA PassImports ==
  ASSUME IInv, pc \in Finishing, ok
  PROVE  AllImported(manifest.tracks, rows)
<1>1. at = Len(manifest.tracks) + 1 /\ \A i \in 1..(at - 1) : Done(i)
  BY DEF IInv, PassInv, Committing
<1>2. DOMAIN manifest.tracks = 1..Len(manifest.tracks) /\ Len(manifest.tracks) \in Nat
  BY TracksAre, ConstantsAssumption DEF IInv, TypeInv, TypeOK, Manifest
<1>3. \A i \in DOMAIN manifest.tracks : manifest.tracks[i].imported \subseteq rows
  BY DEF IInv, LibraryInv, Agrees
<1>. QED
  BY <1>1, <1>2, <1>3 DEF AllImported, Done

\* "The spill goes last" (SpillGoesLast): commit_session removes the capture
\* spill only with side.flac whole and every kept segment of the plan in the
\* library, whichever passes imported them.
THEOREM SpillIsLast == Spec => SpillGoesLast
<1>1. ASSUME IInv, Next, spill, ~spill', pc' # "discarded"
      PROVE  archive = "whole" /\ AllImported(manifest.tracks, rows)
  <2>1. EndCommit
    BY <1>1
    DEF Next, Review, CommitStep, SetSplits, SetSideBounds, AutoSplit, SetTrackMeta,
        SetSegmentDropped, Edited, disk, Discard, CommitAgain, BeginCommit, SkipSegment,
        EncodeSegment, ImportSegment, SaveSegment, SegmentsDone, ArchiveStart, ArchiveDone,
        SaveArchive, BeginReplace, DeleteReplaced, SaveReplaced, SweepFiles, Crash, Close,
        Resume, Resplit
  <2>2. pc = "spill" /\ manifest.archived /\ ok
    BY <1>1, <2>1 DEF EndCommit, IsComplete
  <2>3. archive = "whole"
    BY <1>1, <2>2 DEF IInv, AudioInv
  <2>. QED
    BY <1>1, <2>2, <2>3, PassImports DEF Finishing
<1>2. IInv /\ [Next]_vars =>
        [(spill /\ ~spill' /\ pc' # "discarded")
           => archive = "whole" /\ AllImported(manifest.tracks, rows)]_vars
  BY <1>1
<1>. QED
  BY <1>2, Invariance, PTL DEF Spec, SpillGoesLast

\* Replace semantics (OriginalsOutlive): commit_session deletes a track of the
\* library only if it belongs to an earlier split, and with the archive
\* written and every kept segment of the new split imported and staying.
THEOREM OriginalsDoOutlive == Spec => OriginalsOutlive
<1>1. ASSUME IInv, Next, NEW u \in rows \ rows'
      PROVE  u.gen < manifest.gen /\ manifest.archived /\ AllImported(manifest.tracks, rows')
  <2>1. DeleteReplaced
    BY <1>1
    DEF Next, Review, CommitStep, SetSplits, SetSideBounds, AutoSplit, SetTrackMeta,
        SetSegmentDropped, Edited, disk, Discard, CommitAgain, BeginCommit, SkipSegment,
        EncodeSegment, ImportSegment, SaveSegment, SegmentsDone, ArchiveStart, ArchiveDone,
        SaveArchive, BeginReplace, SaveReplaced, SweepFiles, EndCommit, Crash, Close,
        Resume, Resplit
  <2>2. u \in doomed /\ rows' = rows \ {u}
    BY <1>1, <2>1 DEF DeleteReplaced
  <2>3. u.gen < manifest.gen
    BY <1>1, <2>2 DEF IInv, LibraryInv
  <2>4. manifest.archived /\ AllImported(manifest.tracks, rows)
    BY <1>1, <2>1, PassImports DEF DeleteReplaced, IInv, PassInv, IsComplete, Finishing
  <2>5. \A i \in 1..Len(manifest.tracks) : u \notin manifest.tracks[i].imported
    <3>1. DOMAIN manifest.tracks = 1..Len(manifest.tracks) /\ manifest.gen \in Int
      BY <1>1, TracksAre DEF IInv, TypeInv, TypeOK, Manifest, Gens
    <3>. QED
      BY <1>1, <2>3, <3>1 DEF IInv, LibraryInv, Agrees
  <2>. QED
    BY <2>2, <2>3, <2>4, <2>5 DEF AllImported
<1>2. IInv /\ [Next]_vars =>
        [\A u \in rows \ rows' :
           u.gen < manifest.gen /\ manifest.archived /\ AllImported(manifest.tracks, rows')]_vars
  BY <1>1
<1>. QED
  BY <1>2, Invariance, PTL DEF Spec, OriginalsOutlive
=============================================================================
