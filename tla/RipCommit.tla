------------------------------- MODULE RipCommit -------------------------------
(***************************************************************************)
(* From a recorded side to tracks in the library: the review edits, the    *)
(* commit, the recovery after a crash and the re-split of dub-rip          *)
(* (session.rs, commit.rs, manifest.rs, plan.rs, salvage.rs), with the     *)
(* discard of the FFI session (dub-ffi/src/rip.rs).                        *)
(*                                                                         *)
(* What survives a crash is the session directory -- the capture spill,    *)
(* side.flac, the encoded segments and rip.json -- and the library, whose  *)
(* identity for a track is its path.  The manifest in memory does not, and *)
(* a commit may be cut between any two of its durable writes.              *)
(*                                                                         *)
(* Frames are units of Length.  A file name is what keeps two names apart: *)
(* the split generation, the title or, untitled, the position, and a mark  *)
(* for a segment whose name was taken.  `imported` stands for the pair     *)
(* encoded_file and library_uuid, set together: {} or one name.            *)
(***************************************************************************)
EXTENDS Integers, Sequences

CONSTANTS
  Length,         \* frames of the recording
  MinSegment,     \* frames of MIN_SEGMENT_SECS
  Titles,         \* titles the operator may give a segment
  Untitled,       \* a segment without one
  MaxCuts,        \* bound: boundaries of a plan
  MaxGen,         \* bound: split generations of a side
  MaxMishaps,     \* bound: crashes of the process, and failures of a manifest
                  \* save, of the archive or of the removal of the spill
  SegmentFaults,  \* whether encoding, tagging or importing may fail
  DeleteFaults    \* whether Library::delete_track may fail

ASSUME ConstantsAssumption ==
  /\ Length \in Nat \ {0} /\ MinSegment \in Nat \ {0}
  /\ MaxCuts \in Nat /\ MaxGen \in Nat \ {0} /\ MaxMishaps \in Nat
  /\ Untitled \notin Titles
  /\ {SegmentFaults, DeleteFaults} \subseteq BOOLEAN

VARIABLES
  spill,     \* side.raw.wav exists
  archive,   \* side.flac: "none", "torn", "whole"
  files,     \* the encoded segments: the frames each file holds
  rows,      \* the library's tracks in this directory, by path
  saved,     \* rip.json
  manifest,  \* the manifest in memory
  pc,        \* where the commit is; "review", "closed", "discarded"
  at,        \* the segment it is at
  names,     \* the file names it planned
  ok,        \* no segment has failed in this pass
  doomed,    \* replaced tracks it has still to delete
  complete,  \* the last commit returned is_complete()
  mishaps,   \* crashes and disk failures so far
  (* History: what the properties have to except. *)
  moved,     \* imports whose place in the plan has changed since
  loose,     \* imports the plan dropped, or that rip.json never recorded
  undeleted  \* replaced tracks whose deletion failed

disk == <<spill, archive, files, rows>>
local == <<at, names, ok, doomed>>
history == <<moved, loose, undeleted>>
vars == <<disk, saved, manifest, pc, local, complete, mishaps, history>>

-----------------------------------------------------------------------------
(* Plans and names *)

\* validate_boundaries
ValidPlan(cuts, lo, hi) ==
  /\ lo < hi
  /\ \A i \in 1..(Len(cuts) + 1) :
       (IF i > Len(cuts) THEN hi ELSE cuts[i])
         - (IF i = 1 THEN lo ELSE cuts[i - 1]) >= MinSegment

Cuts == UNION {[1..n -> 1..(Length - 1)] : n \in 0..MaxCuts}

\* segments: the half-open range of segment i
Segment(m, i) ==
  <<IF i = 1 THEN m.lo ELSE m.cuts[i - 1],
    IF i > Len(m.cuts) THEN m.hi ELSE m.cuts[i]>>

DefaultEntry == [title |-> Untitled, imported |-> {}, dropped |-> FALSE]

\* tracks.resize_with(n, TrackEntry::default)
Resized(tracks, n) ==
  [i \in 1..n |-> IF i <= Len(tracks) THEN tracks[i] ELSE DefaultEntry]

Imported(tracks) == UNION {tracks[i].imported : i \in 1..Len(tracks)}

Stem(tracks, i) ==
  <<tracks[i].title, IF tracks[i].title = Untitled THEN i ELSE 0>>

\* Mutant: a new name does not steer around the taken ones.
PlannedNameBlind(tracks, gen, i) ==
  [gen |-> gen, stem |-> Stem(tracks, i), twin |-> 0]

\* plan_file_names_skipping: a name once written stays, and a new one steers
\* around the names written and the names of the kept segments before it.
PlannedName(tracks, gen, i) ==
  LET name == [gen |-> gen, stem |-> Stem(tracks, i), twin |-> 0]
      taken == \/ name \in Imported(tracks)
               \/ \E j \in 1..(i - 1) : ~tracks[j].dropped /\ tracks[j].imported = {}
                                        /\ Stem(tracks, j) = Stem(tracks, i)
  IN IF taken /\ ~tracks[i].dropped THEN [name EXCEPT !.twin = i] ELSE name

PlanNames(tracks, gen) ==
  [i \in 1..Len(tracks) |->
     IF tracks[i].imported = {} THEN {PlannedName(tracks, gen, i)} ELSE tracks[i].imported]

NewManifest ==
  [cuts |-> <<>>, lo |-> 0, hi |-> Length, tracks |-> <<>>,
   archived |-> FALSE, replaced |-> {}, gen |-> 1]

\* A capture has just been stopped and synced.
Init ==
  /\ spill = TRUE /\ archive = "none" /\ files = <<>> /\ rows = {}
  /\ saved = NewManifest /\ manifest = NewManifest
  /\ pc = "review" /\ at = 0 /\ names = <<>> /\ ok = TRUE /\ doomed = {}
  /\ complete = FALSE /\ mishaps = 0
  /\ moved = {} /\ loose = {} /\ undeleted = {}

-----------------------------------------------------------------------------
(* Review *)

DiskFails == mishaps < MaxMishaps /\ mishaps' = mishaps + 1

\* manifest::save replaces rip.json whole or, failing, leaves it alone.  The
\* manifest in memory is changed before either.
SaveMayFail(m) ==
  /\ manifest' = m
  /\ \/ saved' = m /\ UNCHANGED mishaps
     \/ DiskFails /\ UNCHANGED saved

\* guard_mutable: no commit is running, and none has fully succeeded.  A plan
\* of which a pass has imported some segments is edited like any other.
Editable == pc = "review" /\ ~complete

\* The imports of plan m that plan n drops or gives another range.
Moved(m, n) ==
  {u \in Imported(m.tracks) :
     ~\E j \in 1..Len(n.tracks) :
        u \in n.tracks[j].imported /\ Segment(n, j) = Segment(m, j)}

Replan ==
  /\ moved' = moved \cup Moved(manifest, manifest')
  /\ loose' = loose \cup (Imported(manifest.tracks) \ Imported(manifest'.tracks))
  /\ UNCHANGED undeleted

Edited == Replan /\ UNCHANGED <<disk, pc, local, complete>>

\* set_splits: entries keep their index, the ones past the plan are dropped.
SetSplits ==
  /\ Editable
  /\ \E cuts \in Cuts :
       /\ ValidPlan(cuts, manifest.lo, manifest.hi)
       /\ SaveMayFail([manifest EXCEPT !.cuts = cuts,
                         !.tracks = Resized(@, Len(cuts) + 1)])
  /\ Edited

\* set_side_bounds, which must leave the plan valid.
SetSideBounds ==
  /\ Editable
  /\ \E lo \in 0..Length, hi \in 0..Length :
       /\ ValidPlan(manifest.cuts, lo, hi)
       /\ SaveMayFail([manifest EXCEPT !.lo = lo, !.hi = hi])
  /\ Edited

\* auto_split: the trims and the boundaries of the detector.  When the save
\* fails the old trims come back, but not the old boundaries.
AutoSplit ==
  /\ Editable
  /\ \E cuts \in Cuts, lo \in 0..Length, hi \in 0..Length :
       /\ ValidPlan(cuts, lo, hi)
       /\ LET split == [manifest EXCEPT !.cuts = cuts, !.tracks = Resized(@, Len(cuts) + 1)]
          IN \/ /\ manifest' = [split EXCEPT !.lo = lo, !.hi = hi]
                /\ saved' = manifest' /\ UNCHANGED mishaps
             \/ DiskFails /\ manifest' = split /\ UNCHANGED saved
  /\ Edited

SetTrackMeta ==
  /\ Editable
  /\ \E i \in 1..Len(manifest.tracks), t \in Titles :
       SaveMayFail([manifest EXCEPT !.tracks[i].title = t])
  /\ Edited

SetSegmentDropped ==
  /\ Editable
  /\ \E i \in 1..Len(manifest.tracks), d \in BOOLEAN :
       SaveMayFail([manifest EXCEPT !.tracks[i].dropped = d])
  /\ Edited

\* DubRipSession::cancel of a stopped session: refused once a segment of the
\* plan is imported, else the directory goes.
Discard ==
  /\ pc = "review" /\ Imported(manifest.tracks) = {}
  /\ spill' = FALSE /\ archive' = "none" /\ files' = <<>>
  /\ pc' = "discarded"
  /\ UNCHANGED <<rows, saved, manifest, local, complete, mishaps, history>>

-----------------------------------------------------------------------------
(* Commit: commit_with_progress and commit_session *)

FullyCommitted ==
  /\ manifest.tracks # <<>> /\ Len(manifest.tracks) = Len(manifest.cuts) + 1
  /\ \A i \in 1..Len(manifest.tracks) : manifest.tracks[i].imported # {}
  /\ manifest.archived

\* A fully committed session short-circuits: nothing is read or written.
CommitAgain ==
  /\ pc = "review" /\ FullyCommitted /\ ~spill
  /\ complete' = TRUE
  /\ UNCHANGED <<disk, saved, manifest, pc, local, mishaps, history>>

\* The audio is read from the spill, else from the archive; the tracks are
\* made to fit the plan and every file name is settled.
BeginCommit ==
  /\ pc = "review" /\ ~(FullyCommitted /\ ~spill)
  /\ spill \/ archive = "whole"
  /\ ValidPlan(manifest.cuts, manifest.lo, manifest.hi)
  /\ manifest' = [manifest EXCEPT !.tracks = Resized(@, Len(manifest.cuts) + 1)]
  /\ names' = PlanNames(manifest'.tracks, manifest.gen)
  /\ pc' = "segment" /\ at' = 1 /\ ok' = TRUE /\ complete' = FALSE
  /\ UNCHANGED <<disk, saved, doomed, mishaps, history>>

CommitFails ==
  /\ DiskFails
  /\ pc' = "review" /\ at' = 0 /\ names' = <<>> /\ ok' = TRUE /\ doomed' = {}
  /\ UNCHANGED complete

\* A dropped segment, or one an earlier pass imported, is skipped.
SkipSegment ==
  /\ pc = "segment" /\ at <= Len(manifest.tracks)
  /\ manifest.tracks[at].dropped \/ manifest.tracks[at].imported # {}
  /\ at' = at + 1
  /\ UNCHANGED <<disk, saved, manifest, pc, names, ok, doomed, complete,
                 mishaps, history>>

\* commit_segment: encode and tag ...
EncodeSegment ==
  /\ pc = "segment" /\ at <= Len(manifest.tracks)
  /\ ~manifest.tracks[at].dropped /\ manifest.tracks[at].imported = {}
  /\ \/ /\ files' = [n \in DOMAIN files \cup names[at] |->
                       IF n \in names[at] THEN Segment(manifest, at) ELSE files[n]]
        /\ pc' = "import" /\ ok' = ok
     \/ /\ SegmentFaults
        /\ pc' = "save" /\ ok' = FALSE /\ files' = files
  /\ UNCHANGED <<spill, archive, rows, saved, manifest, at, names, doomed,
                 complete, mishaps, history>>

\* ... then import, which finds the row of a path it knows.
ImportSegment ==
  /\ pc = "import"
  /\ pc' = "save"
  /\ \/ /\ rows' = rows \cup names[at]
        /\ manifest' = [manifest EXCEPT !.tracks[at].imported = names[at]]
        /\ ok' = ok
     \/ /\ SegmentFaults
        /\ ok' = FALSE
        /\ UNCHANGED <<rows, manifest>>
  /\ UNCHANGED <<spill, archive, files, saved, at, names, doomed, complete,
                 mishaps, history>>

SaveSegment ==
  /\ pc = "save"
  /\ \/ /\ saved' = manifest
        /\ pc' = "segment" /\ at' = at + 1
        /\ moved' = moved \ manifest.tracks[at].imported
        /\ loose' = loose \ Imported(manifest.tracks)
        /\ UNCHANGED <<names, ok, doomed, complete, mishaps>>
     \/ /\ CommitFails
        /\ loose' = loose \cup manifest.tracks[at].imported
        /\ UNCHANGED <<saved, moved>>
  /\ UNCHANGED <<disk, manifest, undeleted>>

SegmentsDone ==
  /\ pc = "segment" /\ at > Len(manifest.tracks)
  /\ pc' = IF manifest.archived THEN "replace" ELSE "archive"
  /\ UNCHANGED <<disk, saved, manifest, local, complete, mishaps, history>>

\* side.flac is created, then filled; a failure is not fatal.
ArchiveStart ==
  /\ pc = "archive"
  /\ archive' = "torn"
  /\ pc' = "archiving"
  /\ UNCHANGED <<spill, files, rows, saved, manifest, local, complete, mishaps,
                 history>>

ArchiveDone ==
  /\ pc = "archiving"
  /\ \/ /\ archive' = "whole"
        /\ manifest' = [manifest EXCEPT !.archived = TRUE]
        /\ pc' = "saveArchive"
        /\ UNCHANGED mishaps
     \/ /\ DiskFails
        /\ pc' = "replace"
        /\ UNCHANGED <<archive, manifest>>
  /\ UNCHANGED <<spill, files, rows, saved, local, complete, history>>

SaveArchive ==
  /\ pc = "saveArchive"
  /\ \/ /\ saved' = manifest
        /\ pc' = "replace"
        /\ UNCHANGED <<local, complete, mishaps>>
     \/ CommitFails /\ UNCHANGED saved
  /\ UNCHANGED <<disk, manifest, history>>

\* Mutants: a pass is complete without its segments, or without the archive.
IsCompleteArchived == manifest.archived
IsCompleteSegments == ok

\* RipOutcome::is_complete
IsComplete == manifest.archived /\ ok

\* What this pass vouches for; a dropped segment is not in its outcome.
Kept == UNION {manifest.tracks[i].imported :
                 i \in {j \in 1..Len(manifest.tracks) : ~manifest.tracks[j].dropped}}

\* Mutants: the originals go whatever became of the new segments, and the
\* sweep runs whatever became of them.
BeginReplaceAlways ==
  /\ pc = "replace"
  /\ IF manifest.replaced # {}
     THEN /\ manifest' = [manifest EXCEPT !.replaced = @ \ Kept]
          /\ doomed' = manifest.replaced \ Kept
          /\ pc' = "delete"
     ELSE pc' = "spill" /\ UNCHANGED <<manifest, doomed>>
  /\ UNCHANGED <<disk, saved, at, names, ok, complete, mishaps, history>>
BeginReplaceSweeps ==
  /\ pc = "replace"
  /\ IF IsComplete /\ manifest.replaced # {}
     THEN /\ manifest' = [manifest EXCEPT !.replaced = @ \ Kept]
          /\ doomed' = manifest.replaced \ Kept
          /\ pc' = "delete"
     ELSE pc' = "sweep" /\ UNCHANGED <<manifest, doomed>>
  /\ UNCHANGED <<disk, saved, at, names, ok, complete, mishaps, history>>

\* The tracks of an earlier split come out only now.
BeginReplace ==
  /\ pc = "replace"
  /\ IF IsComplete /\ manifest.replaced # {}
     THEN /\ manifest' = [manifest EXCEPT !.replaced = @ \ Kept]
          /\ doomed' = manifest.replaced \ Kept
          /\ pc' = "delete"
     ELSE /\ pc' = "spill"
          /\ UNCHANGED <<manifest, doomed>>
  /\ UNCHANGED <<disk, saved, at, names, ok, complete, mishaps, history>>

\* A track that is already gone counts as deleted.
DeleteReplaced ==
  /\ pc = "delete"
  /\ \E u \in doomed :
       /\ doomed' = doomed \ {u}
       /\ \/ /\ rows' = rows \ {u}
             /\ manifest' = [manifest EXCEPT !.replaced = @ \ {u}]
             /\ UNCHANGED undeleted
          \/ /\ DeleteFaults
             /\ undeleted' = undeleted \cup {u}
             /\ UNCHANGED <<rows, manifest>>
  /\ UNCHANGED <<spill, archive, files, saved, pc, at, names, ok, complete,
                 mishaps, moved, loose>>

SaveReplaced ==
  /\ pc = "delete" /\ doomed = {}
  /\ \/ /\ saved' = manifest
        /\ pc' = "sweep"
        /\ UNCHANGED <<local, complete, mishaps>>
     \/ CommitFails /\ UNCHANGED saved
  /\ UNCHANGED <<disk, manifest, history>>

\* remove_orphaned_segments: whatever the plan does not reference.
SweepFiles ==
  /\ pc = "sweep"
  /\ files' = [n \in DOMAIN files \cap Imported(manifest.tracks) |-> files[n]]
  /\ pc' = "spill"
  /\ UNCHANGED <<spill, archive, rows, saved, manifest, local, complete, mishaps,
                 history>>

\* The spill goes last.
EndCommit ==
  /\ pc = "spill"
  /\ \/ /\ spill' = (spill /\ ~IsComplete)
        /\ complete' = IsComplete
        /\ UNCHANGED mishaps
     \/ /\ DiskFails /\ spill /\ IsComplete
        /\ UNCHANGED <<spill, complete>>
  /\ pc' = "review" /\ at' = 0 /\ names' = <<>> /\ ok' = TRUE /\ doomed' = {}
  /\ UNCHANGED <<archive, files, rows, saved, manifest, history>>

-----------------------------------------------------------------------------
(* The process crashes, or the session is closed in review; the side is       *)
(* reopened from disk.                                                        *)

Crash ==
  /\ pc \notin {"closed", "discarded"} /\ mishaps < MaxMishaps
  /\ mishaps' = mishaps + 1
  /\ pc' = "closed" /\ manifest' = saved /\ complete' = FALSE
  /\ at' = 0 /\ names' = <<>> /\ ok' = TRUE /\ doomed' = {}
  /\ loose' = loose \cup (IF pc = "save" THEN manifest.tracks[at].imported ELSE {})
  /\ UNCHANGED <<disk, saved, moved, undeleted>>

Close ==
  /\ pc = "review"
  /\ pc' = "closed" /\ manifest' = saved /\ complete' = FALSE
  /\ UNCHANGED <<disk, saved, local, mishaps, history>>

\* from_session_dir drops a plan that no longer validates, and its trims.
Recovered(m) ==
  IF ValidPlan(m.cuts, m.lo, m.hi) THEN m
  ELSE [m EXCEPT !.cuts = <<>>, !.lo = 0, !.hi = Length,
          !.tracks = Resized(@, IF @ = <<>> THEN 0 ELSE 1)]

\* Mutant: only a rip with nothing imported is offered again.
ResumeUntouched ==
  /\ pc = "closed" /\ spill /\ Imported(saved.tracks) = {}
  /\ manifest' = Recovered(saved) /\ saved' = manifest'
  /\ pc' = "review" /\ Replan
  /\ UNCHANGED <<disk, local, complete, mishaps>>

\* list_recoverable and from_session_dir: the spill is still there.  A save
\* that fails leaves the session closed.
Resume ==
  /\ pc = "closed" /\ spill
  /\ manifest' = Recovered(saved) /\ saved' = manifest'
  /\ pc' = "review" /\ Replan
  /\ UNCHANGED <<disk, local, complete, mishaps>>

\* list_resplittable: no spill, and an archive the manifest knows of.
Resplittable == ~spill /\ saved.archived /\ archive # "none"

\* Mutants: the imported tracks are forgotten, or stay in the new plan.
ResplitForgets ==
  /\ pc = "closed" /\ Resplittable /\ archive = "whole" /\ saved.gen < MaxGen
  /\ manifest' = [saved EXCEPT !.gen = @ + 1, !.cuts = <<>>, !.lo = 0, !.hi = Length,
                    !.tracks = <<DefaultEntry>>]
  /\ saved' = manifest' /\ pc' = "review"
  /\ UNCHANGED <<disk, local, complete, mishaps, history>>
ResplitKeepsTracks ==
  /\ pc = "closed" /\ Resplittable /\ archive = "whole" /\ saved.gen < MaxGen
  /\ manifest' = [saved EXCEPT !.gen = @ + 1, !.cuts = <<>>, !.lo = 0, !.hi = Length]
  /\ saved' = manifest' /\ pc' = "review"
  /\ UNCHANGED <<disk, local, complete, mishaps, history>>

\* resplit_from_archive: a new generation of the plan; the imported tracks
\* move to the ones to be replaced, and are saved there before anything else.
Resplit ==
  /\ pc = "closed" /\ Resplittable /\ archive = "whole" /\ saved.gen < MaxGen
  /\ manifest' = [saved EXCEPT !.replaced = @ \cup Imported(saved.tracks),
                    !.gen = @ + 1, !.cuts = <<>>, !.lo = 0, !.hi = Length,
                    !.tracks = <<DefaultEntry>>]
  /\ saved' = manifest'
  /\ pc' = "review"
  /\ UNCHANGED <<disk, local, complete, mishaps, history>>

-----------------------------------------------------------------------------
Review ==
  \/ SetSplits \/ SetSideBounds \/ AutoSplit \/ SetTrackMeta
  \/ SetSegmentDropped \/ Discard

CommitStep ==
  \/ SkipSegment \/ EncodeSegment \/ ImportSegment \/ SaveSegment \/ SegmentsDone
  \/ ArchiveStart \/ ArchiveDone \/ SaveArchive
  \/ BeginReplace \/ DeleteReplaced \/ SaveReplaced \/ SweepFiles \/ EndCommit

Next ==
  \/ Review \/ CommitAgain \/ BeginCommit \/ CommitStep
  \/ Crash \/ Close \/ Resume \/ Resplit

Spec == Init /\ [][Next]_vars

\* A plan that no longer validates, which a commit refuses, is split again.
Mend == ~ValidPlan(manifest.cuts, manifest.lo, manifest.hi) /\ SetSplits

\* A commit that runs goes on, and an operator with an uncommitted side comes
\* back to it: reopens it, mends its plan and, again and again, commits it.
FairSpec ==
  /\ Spec
  /\ WF_vars(CommitStep) /\ SF_vars(BeginCommit) /\ WF_vars(Resume) /\ WF_vars(Mend)

-----------------------------------------------------------------------------
(* Properties *)

Gens == 1..MaxGen
Positions == 1..(MaxCuts + 1)
Stems == (Titles \X {0}) \cup ({Untitled} \X Positions)
Names == [gen : Gens, stem : Stems, twin : {0} \cup Positions]
Entry == [title : Titles \cup {Untitled}, imported : {{}} \cup {{n} : n \in Names},
          dropped : BOOLEAN]
Frames == 0..Length
Tracks == UNION {[1..n -> Entry] : n \in 0..(MaxCuts + 1)}
Manifest == [cuts : Cuts, lo : Frames, hi : Frames, tracks : Tracks,
             archived : BOOLEAN, replaced : SUBSET Names, gen : Gens]

PCs == {"review", "closed", "discarded", "segment", "import", "save", "archive",
        "archiving", "saveArchive", "replace", "delete", "sweep", "spill"}

\* The type invariant: what the directory, the library and both manifests hold.
TypeOK ==
  /\ spill \in BOOLEAN /\ archive \in {"none", "torn", "whole"}
  /\ DOMAIN files \subseteq Names
  /\ \A n \in DOMAIN files : files[n] \in Frames \X Frames
  /\ rows \subseteq Names
  /\ saved \in Manifest /\ manifest \in Manifest
  /\ pc \in PCs /\ at \in 0..(MaxCuts + 2)
  /\ ok \in BOOLEAN /\ doomed \subseteq Names /\ complete \in BOOLEAN
  /\ mishaps \in 0..MaxMishaps

\* The recording survives every crash, fault and retry: until the operator
\* discards the side, the spill or a whole side.flac holds all of it.  "A crash
\* 24 minutes into a one-take rip must not lose audio" (capture.rs), carried
\* through the commit that replaces the one file by the other.
SideKept == pc # "discarded" => spill \/ archive = "whole"

\* The kept segments of the plan are imported and their rows are there.
AllImported(tracks, lib) ==
  \A i \in 1..Len(tracks) :
    tracks[i].dropped \/ (tracks[i].imported # {} /\ tracks[i].imported \subseteq lib)

\* "The WAV spill was deleted (only after every segment imported and the
\* archive landed)": whichever of the earlier passes did the importing.
SpillGoesLast ==
  [][(spill /\ ~spill' /\ pc' # "discarded")
       => archive = "whole" /\ AllImported(manifest.tracks, rows)]_vars

\* Replace semantics: a track of an earlier split leaves the library only with
\* every kept segment of the new plan imported.  "A failure part-way leaves the
\* originals in place rather than leaving the DJ with neither."
OriginalsOutlive ==
  [][\A u \in rows \ rows' :
       u.gen < manifest.gen /\ manifest.archived /\ AllImported(manifest.tracks, rows')]_vars

\* A commit that reports success has given every kept segment a file, with the
\* frames its place in the plan stands for.  The one exception is a segment
\* whose place was edited after an earlier pass had imported it: guard_mutable
\* lets the edit through and the pass skips the segment, so it keeps the frames
\* of its old place.
CommitMatchesPlan ==
  complete =>
    \A i \in 1..Len(manifest.tracks) :
      ~manifest.tracks[i].dropped =>
        /\ manifest.tracks[i].imported # {}
        /\ \A n \in manifest.tracks[i].imported :
             n \in DOMAIN files /\ (n \notin moved => files[n] = Segment(manifest, i))

\* No two segments of a plan share a file.
SegmentsApart ==
  \A i, j \in 1..Len(manifest.tracks) :
    i # j => manifest.tracks[i].imported \cap manifest.tracks[j].imported = {}

\* "Imported segments live inside the session dir and the library references
\* them by path": no track of the library loses its file.
NoDanglingRow == rows \subseteq DOMAIN files

\* The same of a side that is not discarded, through every fault and crash: a
\* track loses its file only to the sweep, and only when its deletion failed or
\* the plan had stopped knowing it.
FilesOutliveRows ==
  pc # "discarded" => rows \ DOMAIN files \subseteq loose \cup undeleted

\* The manifest in memory and rip.json each know every track the side has put
\* into the library, as a segment or as one waiting to be replaced: none is
\* stranded there.  Excepted are a track whose segment an edit or the recovery
\* dropped, and one whose import was cut from its own save.
Known(m) == Imported(m.tracks) \cup m.replaced
NothingStranded ==
  pc # "discarded" =>
    /\ rows \subseteq Known(manifest) \cup loose
    /\ pc # "save" => rows \subseteq Known(saved) \cup loose

\* An interrupted rip is not lost to the operator who comes back to it.
InterruptedRipCommits == spill ~> (~spill \/ pc = "discarded")
=============================================================================
