------------------------- MODULE RipCommitFilesProofs -------------------------
(***************************************************************************)
(* Proofs about RipCommit, continued: the files a commit writes and the    *)
(* rows it leaves in the library, for every value of the constants and     *)
(* through every fault and crash.  No two segments share a file, a commit  *)
(* that reports success has written what its plan says, both manifests     *)
(* know every row, and only a sweep that a failed deletion or a dropped    *)
(* segment misleads takes a row's file.                                    *)
(***************************************************************************)
EXTENDS RipCommitProofs

-----------------------------------------------------------------------------
(* The invariant *)

\* What u has imported, t has.
Sub(u, t) ==
  \A i \in DOMAIN u : \/ u[i].imported = {}
                      \/ i \in DOMAIN t /\ u[i].imported = t[i].imported

\* No two entries share a file, and a name marked as a twin is marked with the
\* entry's own position.
Apart(t) ==
  /\ \A i, j \in DOMAIN t : i # j => t[i].imported \cap t[j].imported = {}
  /\ \A i \in DOMAIN t : \A n \in t[i].imported : n.twin \in {0, i}

\* The same of the names planned for a pass: an imported entry keeps its name,
\* and a dropped one is never written.
Steered(t, ns) ==
  /\ \A i \in DOMAIN ns : t[i].imported \subseteq ns[i] /\ \A n \in ns[i] : n.twin \in {0, i}
  /\ \A i, j \in DOMAIN ns :
       i # j /\ (~t[i].dropped \/ t[i].imported # {}) /\ (~t[j].dropped \/ t[j].imported # {})
         => ns[i] \cap ns[j] = {}

ApartInv ==
  /\ Apart(manifest.tracks) /\ Apart(saved.tracks)
  /\ pc \in Segmenting => Steered(manifest.tracks, names)
  /\ pc = "import" => ~manifest.tracks[at].dropped /\ manifest.tracks[at].imported = {}

NoneIn(t) == \A i \in DOMAIN t : t[i].imported = {}

\* A plan has no more entries than segments.
Fits(m) == Len(m.tracks) <= Len(m.cuts) + 1

\* The files are there, and hold what the plan says but for the segments whose
\* place has moved.
Holds(m, f, mv) ==
  \A i \in DOMAIN m.tracks : \A n \in m.tracks[i].imported :
    n \in DOMAIN f /\ (n \notin mv => f[n] = Segment(m, i))

\* What rip.json has imported and the manifest in memory has not, an edit of
\* the plan has dropped.  Between its encoding and its save a segment's file
\* holds what the plan says, wherever its name was before.
FilesInv ==
  /\ Fits(manifest) /\ Fits(saved)
  /\ Holds(manifest, files, moved)
  /\ pc # "discarded" => Holds(saved, files, moved)
  /\ \A u \in Imported(saved.tracks) : u \in Imported(manifest.tracks) \/ u \in moved
  /\ pc = "import" => \A n \in names[at] : n \in DOMAIN files /\ files[n] = Segment(manifest, at)
  /\ pc = "save" => \A n \in manifest.tracks[at].imported : files[n] = Segment(manifest, at)
  /\ pc \in {"sweep", "closed"} => saved = manifest
  /\ complete => pc \in {"review", "discarded"} /\ \A i \in DOMAIN manifest.tracks : Done(i)

\* The import that rip.json does not record yet.
Unsaved == IF pc = "save" THEN manifest.tracks[at].imported ELSE {}

RowsInv ==
  pc # "discarded" =>
    /\ \A u \in rows : u \in Known(manifest) \/ u \in loose
    /\ \A u \in rows : u \in Known(saved) \/ u \in loose \/ u \in Unsaved

\* Up to the sweep, what is left to replace is still to be deleted, or could
\* not be.
SweepInv ==
  /\ pc # "discarded" => \A u \in rows : u \in DOMAIN files \/ u \in loose \/ u \in undeleted
  /\ pc = "delete" => \A u \in manifest.replaced : u \in doomed \/ u \in undeleted
  /\ pc = "sweep" => manifest.replaced \subseteq undeleted

-----------------------------------------------------------------------------
(* Lemmas about entries *)

\* What the proofs need of a manifest's types.
LEMMA PlanTypes ==
  ASSUME NEW m \in Manifest
  PROVE  /\ m.tracks \in Tracks /\ m.cuts \in Cuts /\ m.gen \in Gens
         /\ Len(m.tracks) \in Nat /\ DOMAIN m.tracks = 1..Len(m.tracks)
         /\ Len(m.cuts) \in Nat
         /\ \A i \in DOMAIN m.tracks : m.tracks[i] \in Entry
<1>1. m.tracks \in Tracks /\ m.cuts \in Cuts /\ m.gen \in Gens
  BY DEF Manifest
<1>. QED
  BY <1>1, TracksAre, CutsAre, ConstantsAssumption

\* What has imported less shares no more.
LEMMA SubApart ==
  ASSUME NEW u, NEW t, Sub(u, t), Apart(t)
  PROVE  Apart(u)
BY DEF Sub, Apart

\* What has imported no more than nothing has imported nothing.
LEMMA SubNone ==
  ASSUME NEW u, NEW t, Sub(u, t), NoneIn(t)
  PROVE  NoneIn(u)
BY DEF Sub, NoneIn

\* A plan has imported what it has imported.
LEMMA SubSelf == ASSUME NEW t PROVE Sub(t, t)
BY DEF Sub

\* A plan that imported nothing is any plan's part.
LEMMA NoneSub ==
  ASSUME NEW u, NEW t, NoneIn(u)
  PROVE  Sub(u, t) /\ Apart(u)
BY DEF Sub, Apart, NoneIn

\* An entry of the side's tracks has imported something, or none has.
LEMMA ImportedIs ==
  ASSUME NEW m \in Manifest
  PROVE  /\ \A u : u \in Imported(m.tracks) <=> \E i \in DOMAIN m.tracks : u \in m.tracks[i].imported
         /\ (Imported(m.tracks) = {}) <=> NoneIn(m.tracks)
<1>1. DOMAIN m.tracks = 1..Len(m.tracks)
  BY PlanTypes
<1>2. \A u : u \in Imported(m.tracks) <=> \E i \in DOMAIN m.tracks : u \in m.tracks[i].imported
  BY <1>1 DEF Imported
<1>. QED
  BY <1>2 DEF NoneIn

\* The names of a pass steer around each other (plan_file_names_skipping): a
\* twin's mark is its position, and no other entry bears it.
LEMMA PlanIsSteered ==
  ASSUME NEW t \in Tracks, NEW g \in Gens, Apart(t)
  PROVE  Steered(t, PlanNames(t, g))
<1>. DEFINE ns == PlanNames(t, g)
            Name(i) == [gen |-> g, stem |-> Stem(t, i), twin |-> 0]
            Writes(i) == ~t[i].dropped \/ t[i].imported # {}
<1>0. DOMAIN t = 1..Len(t) /\ Len(t) \in Nat /\ DOMAIN ns = 1..Len(t)
  BY TracksAre, ConstantsAssumption DEF PlanNames
<1>1. ASSUME NEW i \in 1..Len(t)
      PROVE  ns[i] = IF t[i].imported = {} THEN {PlannedName(t, g, i)} ELSE t[i].imported
  BY DEF PlanNames
<1>2. ASSUME NEW i \in 1..Len(t)
      PROVE  /\ PlannedName(t, g, i).stem = Stem(t, i)
             /\ PlannedName(t, g, i).twin \in {0, i}
             /\ ~t[i].dropped /\ PlannedName(t, g, i).twin # i =>
                  /\ PlannedName(t, g, i) \notin Imported(t)
                  /\ \A j \in 1..(i - 1) : ~t[j].dropped /\ t[j].imported = {} => Stem(t, j) # Stem(t, i)
  BY <1>0 DEF PlannedName
<1>3. ASSUME NEW i \in 1..Len(t)
      PROVE  t[i].imported \subseteq ns[i] /\ \A n \in ns[i] : n.twin \in {0, i}
  <2>1. CASE t[i].imported = {}
    BY <1>1, <1>2, <2>1
  <2>2. CASE t[i].imported # {}
    BY <1>0, <1>1, <2>2 DEF Apart
  <2>. QED
    BY <2>1, <2>2
<1>4. ASSUME NEW i \in 1..Len(t), NEW j \in 1..Len(t), i # j, ~t[i].dropped,
             t[i].imported = {}, t[j].imported # {}
      PROVE  ns[i] \cap ns[j] = {}
  <2>1. SUFFICES PlannedName(t, g, i) \notin t[j].imported
    BY <1>1, <1>4
  <2>2. \A n \in t[j].imported : n.twin \in {0, j} /\ n \in Imported(t)
    BY <1>0 DEF Apart, Imported
  <2>3. PlannedName(t, g, i).twin = i \/ PlannedName(t, g, i) \notin Imported(t)
    BY <1>2, <1>4
  <2>4. i \notin {0, j}
    BY <1>4
  <2>. QED
    BY <2>2, <2>3, <2>4
<1>5. ASSUME NEW i \in 1..Len(t), NEW j \in 1..Len(t), i < j, ~t[i].dropped, ~t[j].dropped,
             t[i].imported = {}, t[j].imported = {}
      PROVE  ns[i] \cap ns[j] = {}
  <2>1. SUFFICES PlannedName(t, g, i) # PlannedName(t, g, j)
    BY <1>1, <1>5
  <2>2. PlannedName(t, g, i).twin \in {0, i} /\ j \notin {0, i}
    BY <1>2, <1>5
  <2>3. PlannedName(t, g, j).twin = j \/ Stem(t, i) # Stem(t, j)
    <3>1. i \in 1..(j - 1)
      BY <1>5
    <3>. QED
      BY <1>2, <1>5, <3>1
  <2>4. PlannedName(t, g, i).stem = Stem(t, i) /\ PlannedName(t, g, j).stem = Stem(t, j)
    BY <1>2
  <2>. QED
    BY <2>2, <2>3, <2>4
<1>6. ASSUME NEW i \in 1..Len(t), NEW j \in 1..Len(t), i # j, Writes(i), Writes(j)
      PROVE  ns[i] \cap ns[j] = {}
  <2>1. CASE t[i].imported # {} /\ t[j].imported # {}
    BY <1>0, <1>1, <1>6, <2>1 DEF Apart
  <2>2. CASE t[i].imported = {} /\ t[j].imported # {}
    BY <1>4, <1>6, <2>2
  <2>3. CASE t[i].imported # {} /\ t[j].imported = {}
    <3>1. ns[j] \cap ns[i] = {}
      BY <1>4, <1>6, <2>3
    <3>. QED
      BY <3>1
  <2>4. CASE t[i].imported = {} /\ t[j].imported = {}
    <3>1. CASE i < j
      BY <1>5, <1>6, <2>4, <3>1
    <3>2. CASE j < i
      <4>1. ns[j] \cap ns[i] = {}
        BY <1>5, <1>6, <2>4, <3>2
      <4>. QED
        BY <4>1
    <3>. QED
      BY <1>6, <3>1, <3>2
  <2>. QED
    BY <2>1, <2>2, <2>3, <2>4
<1>. QED
  BY <1>0, <1>3, <1>6 DEF Steered

\* An edit imports nothing, and leaves no entry past the plan.
LEMMA EditsFit ==
  ASSUME TypeInv, Edit
  PROVE  /\ Sub(manifest'.tracks, manifest.tracks)
         /\ Fits(manifest) => Fits(manifest')
<1>0. /\ manifest \in Manifest /\ manifest.tracks \in Tracks
      /\ Len(manifest.tracks) \in Nat /\ Len(manifest.cuts) \in Nat
      /\ manifest.tracks \in [1..Len(manifest.tracks) -> Entry]
  <2>1. manifest \in Manifest
    BY DEF TypeInv, TypeOK
  <2>. QED
    BY <2>1, PlanTypes, TracksAre
<1>. USE DEF Fits
<1>1. Sub(manifest'.tracks, manifest.tracks)
  BY EditsKeep DEF Sub
<1>split. ASSUME NEW cuts \in Cuts
          PROVE  Fits([manifest EXCEPT !.cuts = cuts, !.tracks = Resized(@, Len(cuts) + 1)])
  <2>1. Len(cuts) + 1 \in 0..(MaxCuts + 1) /\ Len(cuts) + 1 \in Nat
    BY CutsAre, ConstantsAssumption
  <2>2. Len(Resized(manifest.tracks, Len(cuts) + 1)) = Len(cuts) + 1
    BY <1>0, <2>1, ResizedAre
  <2>. QED
    BY <1>0, <2>1, <2>2 DEF Manifest
<1>2. CASE SetSplits
  BY <1>1, <1>2, <1>split DEF SetSplits, SaveMayFail
<1>3. CASE SetSideBounds
  BY <1>0, <1>1, <1>3 DEF SetSideBounds, SaveMayFail, Manifest
<1>4. CASE AutoSplit
  <2>1. PICK cuts \in Cuts, lo \in 0..Length, hi \in 0..Length :
          LET split == [manifest EXCEPT !.cuts = cuts, !.tracks = Resized(@, Len(cuts) + 1)]
          IN \/ manifest' = [split EXCEPT !.lo = lo, !.hi = hi] /\ saved' = manifest'
             \/ manifest' = split
    BY <1>4 DEF AutoSplit
  <2>. DEFINE split == [manifest EXCEPT !.cuts = cuts, !.tracks = Resized(@, Len(cuts) + 1)]
  <2>2. Fits(split)
    BY <1>split
  <2>3. Fits([split EXCEPT !.lo = lo, !.hi = hi])
    BY <1>0, <2>2 DEF Manifest
  <2>. HIDE DEF split
  <2>4. Fits(manifest')
    BY <2>1, <2>2, <2>3 DEF split
  <2>. QED
    BY <1>1, <1>4, <2>4 DEF AutoSplit
<1>keep. ASSUME NEW e \in Entry, NEW i \in 1..Len(manifest.tracks)
         PROVE  Len([manifest.tracks EXCEPT ![i] = e]) = Len(manifest.tracks)
  BY <1>0, FunctionIsSeq
<1>5. CASE SetTrackMeta
  <2>1. PICK i \in 1..Len(manifest.tracks), t \in Titles :
          SaveMayFail([manifest EXCEPT !.tracks[i].title = t])
    BY <1>5 DEF SetTrackMeta
  <2>2. [manifest.tracks[i] EXCEPT !.title = t] \in Entry
    BY <1>0 DEF Entry
  <2>3. Fits(manifest) => Fits([manifest EXCEPT !.tracks[i].title = t])
    BY <1>0, <1>keep, <2>2 DEF Manifest
  <2>. QED
    BY <1>1, <1>5, <2>1, <2>3 DEF SetTrackMeta, SaveMayFail
<1>6. CASE SetSegmentDropped
  <2>1. PICK i \in 1..Len(manifest.tracks), d \in BOOLEAN :
          SaveMayFail([manifest EXCEPT !.tracks[i].dropped = d])
    BY <1>6 DEF SetSegmentDropped
  <2>2. [manifest.tracks[i] EXCEPT !.dropped = d] \in Entry
    BY <1>0 DEF Entry
  <2>3. Fits(manifest) => Fits([manifest EXCEPT !.tracks[i].dropped = d])
    BY <1>0, <1>keep, <2>2 DEF Manifest
  <2>. QED
    BY <1>1, <1>6, <2>1, <2>3 DEF SetSegmentDropped, SaveMayFail
<1>. QED
  BY <1>2, <1>3, <1>4, <1>5, <1>6 DEF Edit

\* A commit makes the entries fit the plan and forgets no import of a plan
\* that they fitted.
LEMMA BeginFits ==
  ASSUME TypeInv, BeginCommit
  PROVE  /\ Sub(manifest'.tracks, manifest.tracks)
         /\ Len(manifest'.tracks) = Len(manifest'.cuts) + 1
         /\ manifest'.cuts = manifest.cuts /\ manifest'.lo = manifest.lo
         /\ manifest'.hi = manifest.hi /\ manifest'.replaced = manifest.replaced
         /\ Len(manifest.tracks) <= Len(manifest.cuts) + 1 => Sub(manifest.tracks, manifest'.tracks)
<1>. DEFINE n == Len(manifest.cuts) + 1
<1>0. /\ manifest \in Manifest /\ manifest.tracks \in Tracks /\ n \in 0..(MaxCuts + 1)
      /\ n \in Nat /\ Len(manifest.tracks) \in Nat
      /\ DOMAIN manifest.tracks = 1..Len(manifest.tracks)
  <2>1. manifest \in Manifest
    BY DEF TypeInv, TypeOK
  <2>2. manifest.cuts \in Cuts
    BY <2>1, PlanTypes
  <2>. QED
    BY <2>1, <2>2, PlanTypes, CutsAre, ConstantsAssumption
<1>1. /\ Len(Resized(manifest.tracks, n)) = n /\ DOMAIN Resized(manifest.tracks, n) = 1..n
      /\ \A i \in 1..n : Resized(manifest.tracks, n)[i] =
           IF i <= Len(manifest.tracks) THEN manifest.tracks[i] ELSE DefaultEntry
  BY <1>0, ResizedAre
<1>2. manifest' = [manifest EXCEPT !.tracks = Resized(manifest.tracks, n)]
  BY DEF BeginCommit
<1>3. /\ manifest'.tracks = Resized(manifest.tracks, n) /\ manifest'.cuts = manifest.cuts
      /\ manifest'.lo = manifest.lo /\ manifest'.hi = manifest.hi
      /\ manifest'.replaced = manifest.replaced
  BY <1>0, <1>2 DEF Manifest
<1>4. DefaultEntry.imported = {}
  BY DEF DefaultEntry
<1>5. Sub(manifest'.tracks, manifest.tracks)
  BY <1>0, <1>1, <1>3, <1>4 DEF Sub
<1>6. Len(manifest.tracks) <= n => Sub(manifest.tracks, manifest'.tracks)
  BY <1>0, <1>1, <1>3 DEF Sub
<1>. QED
  BY <1>1, <1>3, <1>5, <1>6

\* Reopening a side forgets imports only with the plan they belong to.
LEMMA RecoveredFits ==
  ASSUME NEW m \in Manifest
  PROVE  /\ Sub(Recovered(m).tracks, m.tracks)
         /\ ValidPlan(m.cuts, m.lo, m.hi) => Recovered(m) = m
         /\ ~ValidPlan(m.cuts, m.lo, m.hi) =>
              Len(Recovered(m).tracks) <= Len(Recovered(m).cuts) + 1
<1>1. Sub(Recovered(m).tracks, m.tracks)
  BY RecoveredKeeps DEF Sub
<1>2. ASSUME ~ValidPlan(m.cuts, m.lo, m.hi)
      PROVE  Len(Recovered(m).tracks) <= Len(Recovered(m).cuts) + 1
  <2>. DEFINE n == IF m.tracks = <<>> THEN 0 ELSE 1
  <2>1. m.tracks \in Tracks /\ n \in 0..(MaxCuts + 1)
    BY PlanTypes, ConstantsAssumption
  <2>2. Len(Resized(m.tracks, n)) = n
    BY <2>1, ResizedAre
  <2>3. n <= 1
    OBVIOUS
  <2>. HIDE DEF n
  <2>4. LET r == [m EXCEPT !.cuts = <<>>, !.lo = 0, !.hi = Length, !.tracks = Resized(m.tracks, n)]
        IN r.tracks = Resized(m.tracks, n) /\ r.cuts = <<>>
    BY DEF Manifest
  <2>5. Recovered(m).tracks = Resized(m.tracks, n) /\ Recovered(m).cuts = <<>>
    BY <1>2, <2>4 DEF Recovered, n
  <2>. QED
    BY <2>2, <2>3, <2>5
<1>3. ValidPlan(m.cuts, m.lo, m.hi) => Recovered(m) = m
  BY DEF Recovered
<1>. QED
  BY <1>1, <1>2, <1>3

\* A re-split starts from one entry that has imported nothing.
LEMMA ResplitFits ==
  ASSUME TypeInv, Resplit
  PROVE  /\ NoneIn(manifest'.tracks) /\ saved' = manifest'
         /\ Len(manifest'.tracks) <= Len(manifest'.cuts) + 1
         /\ manifest'.replaced = saved.replaced \cup Imported(saved.tracks)
<1>0. saved \in Manifest
  BY DEF TypeInv, TypeOK
<1>1. /\ manifest'.tracks = <<DefaultEntry>> /\ manifest'.cuts = <<>> /\ saved' = manifest'
      /\ manifest'.replaced = saved.replaced \cup Imported(saved.tracks)
  BY <1>0 DEF Resplit, Manifest
<1>. QED
  BY <1>1 DEF NoneIn, DefaultEntry

\* What an import does to the plan.
LEMMA ImportIs ==
  ASSUME TypeInv, ImportSegment
  PROVE  /\ at \in DOMAIN manifest.tracks /\ at \in DOMAIN names
         /\ DOMAIN names = DOMAIN manifest.tracks
         /\ \/ UNCHANGED <<rows, manifest>>
            \/ /\ rows' = rows \cup names[at]
               /\ manifest'.cuts = manifest.cuts /\ manifest'.lo = manifest.lo
               /\ manifest'.hi = manifest.hi /\ manifest'.replaced = manifest.replaced
               /\ Len(manifest'.tracks) = Len(manifest.tracks)
               /\ DOMAIN manifest'.tracks = DOMAIN manifest.tracks
               /\ manifest'.tracks[at].imported = names[at]
               /\ manifest'.tracks[at].dropped = manifest.tracks[at].dropped
               /\ \A i \in DOMAIN manifest.tracks : i # at => manifest'.tracks[i] = manifest.tracks[i]
<1>0. /\ manifest \in Manifest /\ Len(manifest.tracks) \in Nat
      /\ DOMAIN manifest.tracks = 1..Len(manifest.tracks)
      /\ manifest.tracks \in [1..Len(manifest.tracks) -> Entry]
  <2>1. manifest \in Manifest
    BY DEF TypeInv, TypeOK
  <2>. QED
    BY <2>1, PlanTypes, TracksAre
<1>1. /\ at \in DOMAIN manifest.tracks /\ at \in DOMAIN names
      /\ DOMAIN names = DOMAIN manifest.tracks /\ names[at] \in {{n} : n \in Names}
  <2>1. /\ at \in 1..Len(manifest.tracks)
        /\ names \in [1..Len(manifest.tracks) -> {{n} : n \in Names}]
    BY <1>0 DEF ImportSegment, TypeInv, PassShape, Committing, Segmenting
  <2>. QED
    BY <1>0, <2>1
<1>2. CASE /\ rows' = rows \cup names[at]
           /\ manifest' = [manifest EXCEPT !.tracks[at].imported = names[at]]
  <2>1. /\ manifest'.cuts = manifest.cuts /\ manifest'.lo = manifest.lo
        /\ manifest'.hi = manifest.hi /\ manifest'.replaced = manifest.replaced
        /\ DOMAIN manifest'.tracks = DOMAIN manifest.tracks
        /\ manifest'.tracks[at].imported = names[at]
        /\ manifest'.tracks[at].dropped = manifest.tracks[at].dropped
        /\ \A i \in DOMAIN manifest.tracks : i # at => manifest'.tracks[i] = manifest.tracks[i]
    BY <1>0, <1>1, <1>2 DEF Manifest, Entry
  <2>2. Len(manifest'.tracks) = Len(manifest.tracks)
    <3>1. PICK n \in Names : names[at] = {n}
      BY <1>1
    <3>. QED
      BY <1>0, <1>1, <1>2, <3>1, EntryEdits
  <2>. QED
    BY <1>1, <1>2, <2>1, <2>2
<1>. QED
  BY <1>1, <1>2 DEF ImportSegment

-----------------------------------------------------------------------------
(* No two segments share a file *)

\* A new plan has no segments.
LEMMA ApartInit == Init => ApartInv
BY DEF Init, NewManifest, ApartInv, Apart, Segmenting

\* The pass that a step leaves alone stays apart.
LEMMA ApartSame ==
  ASSUME TypeInv, ApartInv, manifest'.tracks = manifest.tracks, saved' \in {saved, manifest},
         UNCHANGED names, pc' # "import", pc' \in Segmenting => pc \in Segmenting
  PROVE  ApartInv'
BY DEF ApartInv, Apart, Steered

\* Every step keeps the segments apart.
LEMMA ApartNext == TypeInv /\ ApartInv /\ [Next]_vars => ApartInv'
<1>. SUFFICES ASSUME TypeInv, ApartInv, [Next]_vars PROVE ApartInv'
  OBVIOUS
<1>0. /\ manifest \in Manifest /\ saved \in Manifest /\ manifest' \in Manifest
      /\ Apart(manifest.tracks) /\ Apart(saved.tracks)
  <2>1. TypeInv'
    BY TypeNext
  <2>. QED
    BY <2>1 DEF TypeInv, TypeOK, ApartInv
<1>idle. ASSUME pc' \notin Segmenting, Apart(manifest'.tracks), Apart(saved'.tracks)
         PROVE  ApartInv'
  BY <1>idle DEF ApartInv, Segmenting
<1>1. CASE Edit
  <2>1. Apart(manifest'.tracks) /\ saved' \in {saved, manifest'} /\ pc' = "review"
    BY <1>0, <1>1, EditsKeep, EditsFit, SubApart DEF Edited
  <2>. QED
    BY <1>0, <1>idle, <2>1 DEF Segmenting
<1>2. CASE Discard \/ CommitAgain \/ EndCommit \/ Crash \/ Close
  <2>1. /\ pc' \in {"discarded", "review", "closed"} /\ saved' = saved
        /\ manifest' \in {manifest, saved}
    BY <1>2 DEF Discard, CommitAgain, EndCommit, Crash, Close
  <2>. QED
    BY <1>0, <1>idle, <2>1 DEF Segmenting
<1>3. CASE Resume
  <2>1. Apart(manifest'.tracks)
    BY <1>0, <1>3, RecoveredFits, SubApart DEF Resume
  <2>. QED
    BY <1>3, <1>idle, <2>1 DEF Resume, Segmenting
<1>4. CASE Resplit
  <2>1. Apart(manifest'.tracks) /\ saved' = manifest'
    BY <1>4, ResplitFits, NoneSub
  <2>. QED
    BY <1>4, <1>idle, <2>1 DEF Resplit, Segmenting
<1>5. CASE BeginCommit
  <2>1. /\ Apart(manifest'.tracks) /\ names' = PlanNames(manifest'.tracks, manifest.gen)
        /\ saved' = saved /\ pc' = "segment"
    BY <1>0, <1>5, BeginFits, SubApart DEF BeginCommit
  <2>2. Steered(manifest'.tracks, names')
    BY <1>0, <2>1, PlanIsSteered, PlanTypes
  <2>. QED
    BY <1>0, <2>1, <2>2 DEF ApartInv
<1>6. CASE EncodeSegment
  <2>1. /\ UNCHANGED <<manifest, saved, names>> /\ pc = "segment"
        /\ ~manifest.tracks[at].dropped /\ manifest.tracks[at].imported = {} /\ at' = at
    BY <1>6 DEF EncodeSegment
  <2>. QED
    BY <2>1 DEF ApartInv, Segmenting
<1>7. CASE ImportSegment
  <2>1. /\ pc = "import" /\ pc' = "save" /\ saved' = saved /\ names' = names
        /\ ~manifest.tracks[at].dropped /\ manifest.tracks[at].imported = {}
        /\ Steered(manifest.tracks, names)
    BY <1>7 DEF ImportSegment, ApartInv, Segmenting
  <2>2. CASE UNCHANGED manifest
    BY <1>0, <2>1, <2>2 DEF ApartInv
  <2>3. CASE /\ DOMAIN names = DOMAIN manifest.tracks /\ at \in DOMAIN manifest.tracks
             /\ DOMAIN manifest'.tracks = DOMAIN manifest.tracks
             /\ manifest'.tracks[at].imported = names[at]
             /\ manifest'.tracks[at].dropped = manifest.tracks[at].dropped
             /\ \A i \in DOMAIN manifest.tracks : i # at => manifest'.tracks[i] = manifest.tracks[i]
    <3>1. ASSUME NEW i \in DOMAIN manifest.tracks, i # at, manifest.tracks[i].imported # {}
          PROVE  names[at] \cap manifest.tracks[i].imported = {}
      BY <2>1, <2>3, <3>1 DEF Steered
    <3>2. Apart(manifest'.tracks)
      BY <1>0, <2>1, <2>3, <3>1 DEF Apart, Steered
    <3>3. Steered(manifest'.tracks, names)
      BY <2>1, <2>3 DEF Steered
    <3>. QED
      BY <1>0, <2>1, <3>2, <3>3 DEF ApartInv
  <2>. QED
    BY <1>7, <2>2, <2>3, ImportIs
<1>8. CASE SkipSegment \/ SegmentsDone \/ ArchiveStart \/ SweepFiles
  BY <1>8, ApartSame DEF SkipSegment, SegmentsDone, ArchiveStart, SweepFiles, Segmenting, local
<1>9. CASE SaveSegment
  <2>1. CASE pc' = "segment"
    BY <1>9, <2>1, ApartSame DEF SaveSegment, CommitFails, Segmenting
  <2>2. CASE pc' = "review"
    BY <1>0, <1>9, <1>idle, <2>2 DEF SaveSegment, CommitFails, Segmenting
  <2>. QED
    BY <1>9, <2>1, <2>2 DEF SaveSegment, CommitFails
<1>10. CASE ArchiveDone \/ BeginReplace \/ DeleteReplaced
  <2>1. manifest'.tracks = manifest.tracks /\ saved' = saved /\ pc' \notin Segmenting
    BY <1>0, <1>10 DEF ArchiveDone, BeginReplace, DeleteReplaced, Manifest, Segmenting
  <2>. QED
    BY <1>0, <1>idle, <2>1
<1>11. CASE SaveArchive \/ SaveReplaced
  BY <1>0, <1>11, <1>idle DEF SaveArchive, SaveReplaced, CommitFails, Segmenting
<1>12. CASE UNCHANGED vars
  BY <1>12 DEF vars, local, ApartInv
<1>. QED
  BY <1>1, <1>2, <1>3, <1>4, <1>5, <1>6, <1>7, <1>8, <1>9, <1>10, <1>11, <1>12
  DEF Next, Review, CommitStep, Edit

\* Hence the segments stay apart.
LEMMA ApartAlways == Spec => []ApartInv
<1>1. IInv => TypeInv
  BY DEF IInv
<1>. QED
  BY <1>1, ApartInit, ApartNext, Invariance, PTL DEF Spec

\* plan_file_names_skipping keeps the segments of a side apart: whatever the
\* titles, however often a commit is cut, retried or the plan edited between
\* two of its passes, no two entries of a plan come to share a file.
THEOREM FilesAreApart == Spec => []SegmentsApart
<1>1. IInv /\ ApartInv => SegmentsApart
  BY PlanTypes DEF IInv, TypeInv, TypeOK, ApartInv, Apart, SegmentsApart
<1>. QED
  BY <1>1, Invariance, ApartAlways, PTL

-----------------------------------------------------------------------------
(* The files hold what the plan says *)

\* Before the first commit there are no files, and none are promised.
LEMMA FilesInit == Init => FilesInv
<1>. SUFFICES ASSUME Init PROVE FilesInv
  OBVIOUS
<1>1. DOMAIN NewManifest.tracks = {} /\ Len(NewManifest.tracks) = 0 /\ Len(NewManifest.cuts) = 0
  BY DEF NewManifest
<1>. QED
  BY <1>1 DEF Init, FilesInv, Fits, Holds, Imported

\* A plan that has imported nothing says nothing of the files.
LEMMA NoneHolds ==
  ASSUME NEW m, NEW f, NEW mv, NoneIn(m.tracks)
  PROVE  Holds(m, f, mv)
BY DEF NoneIn, Holds

\* A plan edited into another: what is not moved keeps its place.
LEMMA MovedHolds ==
  ASSUME NEW m \in Manifest, NEW n \in Manifest, NEW f, NEW mv,
         Apart(m.tracks), Sub(n.tracks, m.tracks), Holds(m, f, mv)
  PROVE  /\ Holds(n, f, mv \cup Moved(m, n))
         /\ \A u \in Imported(m.tracks) : u \in Imported(n.tracks) \/ u \in Moved(m, n)
<1>1. DOMAIN m.tracks = 1..Len(m.tracks) /\ DOMAIN n.tracks = 1..Len(n.tracks)
  BY PlanTypes
<1>2. ASSUME NEW i \in DOMAIN n.tracks, NEW u \in n.tracks[i].imported
      PROVE  /\ u \in DOMAIN f
             /\ u \notin mv \cup Moved(m, n) => f[u] = Segment(n, i)
  <2>1. i \in DOMAIN m.tracks /\ u \in m.tracks[i].imported
    BY DEF Sub
  <2>2. u \in DOMAIN f /\ (u \notin mv => f[u] = Segment(m, i))
    BY <2>1 DEF Holds
  <2>3. ASSUME u \notin Moved(m, n)
        PROVE  Segment(n, i) = Segment(m, i)
    <3>1. u \in Imported(m.tracks)
      BY <2>1, ImportedIs
    <3>2. PICK j \in 1..Len(n.tracks) :
            u \in n.tracks[j].imported /\ Segment(n, j) = Segment(m, j)
      BY <2>3, <3>1 DEF Moved
    <3>3. j \in DOMAIN m.tracks /\ u \in m.tracks[j].imported
      BY <1>1, <3>2 DEF Sub
    <3>4. i = j
      BY <2>1, <3>3 DEF Apart
    <3>. QED
      BY <3>2, <3>4
  <2>. QED
    BY <2>2, <2>3
<1>3. ASSUME NEW u \in Imported(m.tracks), u \notin Moved(m, n)
      PROVE  u \in Imported(n.tracks)
  <2>1. \E j \in 1..Len(n.tracks) : u \in n.tracks[j].imported
    BY <1>3 DEF Moved
  <2>. QED
    BY <1>1, <2>1, ImportedIs
<1>. QED
  BY <1>2, <1>3 DEF Holds

\* A step that leaves both plans and every file alone.
LEMMA FilesSame ==
  ASSUME FilesInv, manifest'.tracks = manifest.tracks, manifest'.cuts = manifest.cuts,
         manifest'.lo = manifest.lo, manifest'.hi = manifest.hi,
         saved' \in {saved, manifest'}, UNCHANGED <<files, moved>>, pc # "discarded",
         pc' \notin {"import", "save", "closed"}, pc' = "sweep" => saved' = manifest',
         complete' => /\ pc' \in {"review", "discarded"}
                      /\ \A i \in DOMAIN manifest.tracks : Done(i)
  PROVE  FilesInv'
<1>1. \A i : Segment(manifest', i) = Segment(manifest, i)
  BY DEF Segment
<1>2. Holds(manifest', files', moved') /\ Fits(manifest')
  BY <1>1 DEF FilesInv, Holds, Fits
<1>3. Fits(saved') /\ Holds(saved', files', moved')
  BY <1>2 DEF FilesInv
<1>4. \A u \in Imported(saved'.tracks) : u \in Imported(manifest'.tracks) \/ u \in moved'
  BY DEF FilesInv
<1>. QED
  BY <1>2, <1>3, <1>4 DEF FilesInv, Done

\* A session that opens, or is left, with one plan in memory and on disk.
LEMMA FilesOpen ==
  ASSUME manifest' = saved', Fits(saved'), Holds(saved', files', moved'),
         pc' \in {"closed", "review"}, complete' = FALSE
  PROVE  FilesInv'
BY DEF FilesInv

\* Every step keeps the files what the plan says.
LEMMA FilesNext == TypeInv /\ PassInv /\ ApartInv /\ FilesInv /\ [Next]_vars => FilesInv'
<1>. SUFFICES ASSUME TypeInv, PassInv, ApartInv, FilesInv, [Next]_vars PROVE FilesInv'
  OBVIOUS
<1>. USE DEF Committing, Segmenting, Archiving, Finishing
<1>0. /\ manifest \in Manifest /\ saved \in Manifest /\ manifest' \in Manifest
      /\ Apart(manifest.tracks) /\ Apart(saved.tracks)
  <2>1. TypeInv'
    BY TypeNext
  <2>. QED
    BY <2>1 DEF TypeInv, TypeOK, ApartInv
<1>fit. Fits(manifest) /\ Fits(saved)
  BY DEF FilesInv
<1>idle. complete => pc \in {"review", "discarded"} /\ \A i \in DOMAIN manifest.tracks : Done(i)
  BY DEF FilesInv
<1>1. CASE Edit
  <2>1. /\ moved' = moved \cup Moved(manifest, manifest') /\ files' = files
        /\ saved' \in {saved, manifest'} /\ pc = "review" /\ pc' = "review"
        /\ Sub(manifest'.tracks, manifest.tracks) /\ Fits(manifest')
    BY <1>1, <1>fit, EditsKeep, EditsFit DEF Edited, Replan, disk
  <2>2. complete' = FALSE
    BY <1>1 DEF Edit, SetSplits, SetSideBounds, AutoSplit, SetTrackMeta, SetSegmentDropped,
                Editable, Edited, TypeInv, TypeOK
  <2>3. /\ Holds(manifest', files, moved')
        /\ \A u \in Imported(manifest.tracks) : u \in Imported(manifest'.tracks) \/ u \in moved'
    BY <1>0, <2>1, MovedHolds DEF FilesInv
  <2>4. Holds(saved, files, moved')
    BY <2>1 DEF FilesInv, Holds
  <2>5. Holds(saved', files, moved') /\ Fits(saved')
    BY <1>fit, <2>1, <2>3, <2>4
  <2>6. \A u \in Imported(saved'.tracks) : u \in Imported(manifest'.tracks) \/ u \in moved'
    BY <2>1, <2>3 DEF FilesInv
  <2>. QED
    BY <2>1, <2>2, <2>3, <2>5, <2>6 DEF FilesInv
<1>2. CASE Discard
  <2>1. NoneIn(manifest.tracks)
    BY <1>0, <1>2, ImportedIs DEF Discard
  <2>2. Holds(manifest, files', moved)
    BY <2>1, NoneHolds
  <2>. QED
    BY <1>2, <2>2 DEF Discard, FilesInv, Done, history
<1>3. CASE CommitAgain
  <2>1. \A i \in DOMAIN manifest.tracks : Done(i)
    BY <1>0, <1>3, PlanTypes DEF CommitAgain, FullyCommitted, Done
  <2>. QED
    BY <1>3, <2>1, FilesSame DEF CommitAgain, disk, history
<1>4. CASE BeginCommit
  <2>1. /\ saved' = saved /\ files' = files /\ complete' = FALSE /\ pc' = "segment"
        /\ moved' = moved /\ pc = "review"
    BY <1>4 DEF BeginCommit, disk, history
  <2>2. /\ Sub(manifest'.tracks, manifest.tracks) /\ Sub(manifest.tracks, manifest'.tracks)
        /\ Len(manifest'.tracks) = Len(manifest'.cuts) + 1
        /\ manifest'.cuts = manifest.cuts /\ manifest'.lo = manifest.lo /\ manifest'.hi = manifest.hi
    BY <1>4, <1>fit, BeginFits DEF Fits
  <2>3. Fits(manifest')
    BY <1>0, <2>2, PlanTypes DEF Fits
  <2>4. \A i : Segment(manifest', i) = Segment(manifest, i)
    BY <2>2 DEF Segment
  <2>5. Holds(manifest', files, moved)
    BY <2>2, <2>4 DEF FilesInv, Holds, Sub
  <2>6. \A u \in Imported(manifest.tracks) : u \in Imported(manifest'.tracks)
    BY <1>0, <2>2, ImportedIs DEF Sub
  <2>. QED
    BY <2>1, <2>3, <2>5, <2>6 DEF FilesInv
<1>5. CASE EncodeSegment
  <2>1. /\ UNCHANGED <<manifest, saved, names, at, complete, moved>> /\ pc = "segment"
        /\ pc' \in {"import", "save"} /\ manifest.tracks[at].imported = {}
        /\ ~manifest.tracks[at].dropped
    BY <1>5 DEF EncodeSegment, history
  <2>2. CASE files' = files /\ pc' = "save"
    BY <2>1, <2>2 DEF FilesInv
  <2>3. CASE /\ pc' = "import"
             /\ files' = [n \in DOMAIN files \cup names[at] |->
                            IF n \in names[at] THEN Segment(manifest, at) ELSE files[n]]
    <3>1. at \in DOMAIN names /\ DOMAIN names = DOMAIN manifest.tracks
      <4>1. /\ at \in 1..Len(manifest.tracks)
            /\ names \in [1..Len(manifest.tracks) -> {{n} : n \in Names}]
        <5>1. at \in 1..(Len(manifest.tracks) + 1) /\ at <= Len(manifest.tracks)
              /\ names \in [1..Len(manifest.tracks) -> {{n} : n \in Names}]
          BY <1>5, <2>1 DEF EncodeSegment, TypeInv, PassShape
        <5>. QED
          BY <1>0, <5>1, PlanTypes
      <4>. QED
        BY <1>0, <4>1, PlanTypes
    <3>2. ASSUME NEW i \in DOMAIN manifest.tracks, NEW n \in manifest.tracks[i].imported
          PROVE  n \notin names[at]
      <4>1. i # at /\ Steered(manifest.tracks, names)
        BY <2>1, <3>2 DEF ApartInv
      <4>. QED
        BY <2>1, <3>1, <3>2, <4>1 DEF Steered
    <3>3. Holds(manifest, files', moved)
      BY <2>3, <3>2 DEF FilesInv, Holds
    <3>4. ASSUME NEW i \in DOMAIN saved.tracks, NEW n \in saved.tracks[i].imported, n \notin moved
          PROVE  n \notin names[at]
      <4>1. n \in Imported(saved.tracks)
        BY <1>0, <3>4, ImportedIs
      <4>2. n \in Imported(manifest.tracks)
        BY <3>4, <4>1 DEF FilesInv
      <4>. QED
        BY <1>0, <3>2, <4>2, ImportedIs
    <3>5. Holds(saved, files', moved)
      <4>1. Holds(saved, files, moved)
        BY <2>1 DEF FilesInv
      <4>. QED
        BY <2>3, <3>4, <4>1 DEF Holds
    <3>6. \A n \in names[at] : n \in DOMAIN files' /\ files'[n] = Segment(manifest, at)
      BY <2>3
    <3>. QED
      BY <2>1, <2>3, <3>3, <3>5, <3>6 DEF FilesInv
  <2>. QED
    BY <1>5, <2>2, <2>3 DEF EncodeSegment
<1>6. CASE ImportSegment
  <2>1. /\ UNCHANGED <<files, saved, names, at, complete, moved>> /\ pc = "import" /\ pc' = "save"
        /\ manifest.tracks[at].imported = {}
        /\ \A n \in names[at] : n \in DOMAIN files /\ files[n] = Segment(manifest, at)
    BY <1>6 DEF ImportSegment, FilesInv, ApartInv, history
  <2>2. CASE UNCHANGED manifest
    BY <2>1, <2>2 DEF FilesInv
  <2>3. CASE /\ manifest'.cuts = manifest.cuts /\ manifest'.lo = manifest.lo
             /\ manifest'.hi = manifest.hi /\ at \in DOMAIN manifest.tracks
             /\ Len(manifest'.tracks) = Len(manifest.tracks)
             /\ DOMAIN manifest'.tracks = DOMAIN manifest.tracks
             /\ manifest'.tracks[at].imported = names[at]
             /\ \A i \in DOMAIN manifest.tracks : i # at => manifest'.tracks[i] = manifest.tracks[i]
    <3>1. \A i : Segment(manifest', i) = Segment(manifest, i)
      BY <2>3 DEF Segment
    <3>2. Holds(manifest', files, moved)
      BY <2>1, <2>3, <3>1 DEF FilesInv, Holds
    <3>3. Fits(manifest')
      BY <1>fit, <2>3 DEF Fits
    <3>4. \A u \in Imported(manifest.tracks) : u \in Imported(manifest'.tracks)
      BY <1>0, <2>1, <2>3, ImportedIs
    <3>5. \A n \in manifest'.tracks[at].imported : files[n] = Segment(manifest', at)
      BY <2>1, <2>3, <3>1
    <3>. QED
      BY <2>1, <3>2, <3>3, <3>4, <3>5 DEF FilesInv
  <2>. QED
    BY <1>6, <2>2, <2>3, ImportIs
<1>7. CASE SaveSegment
  <2>1. CASE CommitFails /\ UNCHANGED <<files, saved, manifest, moved>>
    BY <1>7, <1>idle, <2>1, FilesSame DEF CommitFails, SaveSegment
  <2>2. CASE /\ saved' = manifest /\ pc' = "segment"
             /\ moved' = moved \ manifest.tracks[at].imported
             /\ UNCHANGED <<files, manifest, complete>>
    <3>1. pc = "save" /\ at \in DOMAIN manifest.tracks /\ complete' = FALSE
      <4>1. pc = "save"
        BY <1>7 DEF SaveSegment
      <4>2. at \in 1..Len(manifest.tracks)
        BY <1>0, <4>1, PlanTypes DEF TypeInv, PassShape
      <4>. QED
        BY <1>0, <1>idle, <2>2, <4>1, <4>2, PlanTypes DEF TypeInv, TypeOK
    <3>2. Holds(manifest, files, moved')
      <4>1. ASSUME NEW i \in DOMAIN manifest.tracks, NEW n \in manifest.tracks[i].imported
            PROVE  n \in DOMAIN files /\ (n \notin moved' => files[n] = Segment(manifest, i))
        <5>1. n \in DOMAIN files /\ (n \notin moved => files[n] = Segment(manifest, i))
          BY DEF FilesInv, Holds
        <5>2. CASE n \in manifest.tracks[at].imported
          <6>1. i = at
            BY <1>0, <3>1, <4>1, <5>2 DEF Apart
          <6>. QED
            BY <3>1, <5>1, <5>2, <6>1 DEF FilesInv
        <5>3. CASE n \notin manifest.tracks[at].imported
          BY <2>2, <5>1, <5>3
        <5>. QED
          BY <5>2, <5>3
      <4>. QED
        BY <4>1 DEF Holds
    <3>. QED
      BY <1>fit, <2>2, <3>1, <3>2 DEF FilesInv
  <2>. QED
    BY <1>7, <2>1, <2>2 DEF SaveSegment, disk
<1>8. CASE SkipSegment \/ SegmentsDone \/ ArchiveStart \/ SaveArchive \/ SaveReplaced
  BY <1>8, <1>idle, FilesSame
  DEF SkipSegment, SegmentsDone, ArchiveStart, SaveArchive, SaveReplaced, CommitFails, disk, local,
      history
<1>9. CASE ArchiveDone \/ BeginReplace \/ DeleteReplaced
  <2>1. /\ manifest'.tracks = manifest.tracks /\ manifest'.cuts = manifest.cuts
        /\ manifest'.lo = manifest.lo /\ manifest'.hi = manifest.hi
    BY <1>0, <1>9 DEF ArchiveDone, BeginReplace, DeleteReplaced, Manifest
  <2>2. /\ saved' = saved /\ UNCHANGED <<files, moved, complete>>
        /\ pc \notin {"review", "discarded"}
        /\ pc' \notin {"import", "save", "closed", "sweep"}
    BY <1>9 DEF ArchiveDone, BeginReplace, DeleteReplaced, disk, history
  <2>. QED
    BY <1>idle, <2>1, <2>2, FilesSame
<1>10. CASE SweepFiles
  <2>1. Holds(manifest, files', moved)
    <3>1. \A i \in DOMAIN manifest.tracks : manifest.tracks[i].imported \subseteq Imported(manifest.tracks)
      BY <1>0, ImportedIs
    <3>. QED
      BY <1>10, <3>1 DEF SweepFiles, FilesInv, Holds
  <2>2. saved = manifest /\ UNCHANGED <<saved, manifest, moved, complete>> /\ pc' = "spill"
    BY <1>10 DEF SweepFiles, FilesInv, history
  <2>3. complete' = FALSE
    BY <1>10, <1>idle, <2>2 DEF SweepFiles, TypeInv, TypeOK
  <2>. QED
    BY <1>fit, <2>1, <2>2, <2>3 DEF FilesInv
<1>11. CASE EndCommit
  <2>1. complete' => \A i \in DOMAIN manifest.tracks : Done(i)
    <3>1. complete' => ok /\ at = Len(manifest.tracks) + 1
      BY <1>11, <1>idle DEF EndCommit, IsComplete, PassInv
    <3>2. ok => \A i \in 1..(at - 1) : Done(i)
      BY <1>11 DEF EndCommit, PassInv
    <3>3. DOMAIN manifest.tracks = 1..Len(manifest.tracks) /\ Len(manifest.tracks) \in Nat
      BY <1>0, PlanTypes
    <3>. QED
      BY <3>1, <3>2, <3>3
  <2>. QED
    BY <1>11, <2>1, FilesSame DEF EndCommit, history
<1>12. CASE Crash \/ Close
  BY <1>12, <1>fit, FilesOpen DEF Crash, Close, disk, history, FilesInv
<1>13. CASE Resume
  <2>1. manifest' = Recovered(saved) /\ saved' = manifest' /\ files' = files /\ pc' = "review"
        /\ complete' = FALSE /\ manifest = saved
        /\ moved' = moved \cup Moved(manifest, manifest') /\ pc = "closed"
    BY <1>13, <1>idle DEF Resume, disk, TypeInv, TypeOK, FilesInv, Replan
  <2>2. Fits(manifest')
    BY <1>0, <1>fit, <2>1, RecoveredFits DEF Fits
  <2>3. Sub(manifest'.tracks, manifest.tracks)
    BY <1>0, <2>1, RecoveredFits
  <2>4. Holds(manifest', files, moved')
    BY <1>0, <2>1, <2>3, MovedHolds DEF FilesInv
  <2>. QED
    BY <2>1, <2>2, <2>4, FilesOpen
<1>14. CASE Resplit
  <2>1. files' = files /\ pc' = "review" /\ complete' = FALSE
    BY <1>14, <1>idle DEF Resplit, disk, TypeInv, TypeOK
  <2>. QED
    BY <1>14, <2>1, ResplitFits, NoneHolds, FilesOpen DEF Fits
<1>15. CASE UNCHANGED vars
  BY <1>15 DEF vars, disk, local, history, FilesInv, Done
<1>. QED
  BY <1>1, <1>2, <1>3, <1>4, <1>5, <1>6, <1>7, <1>8, <1>9, <1>10, <1>11, <1>12, <1>13, <1>14,
     <1>15
  DEF Next, Review, CommitStep, Edit

\* Hence the files always hold what the plan says.
LEMMA FilesAlways == Spec => []FilesInv
<1>1. IInv => TypeInv /\ PassInv
  BY DEF IInv
<1>. QED
  BY <1>1, FilesInit, FilesNext, Invariance, ApartAlways, PTL DEF Spec

\* A commit that reports success (RipOutcome::is_complete) has written every
\* kept segment, and each file holds the frames its place in the plan stands
\* for unless that place was edited after the import (guard_mutable allows
\* it): through every crash, fault and retry.
THEOREM CommitIsOfThePlan == Spec => []CommitMatchesPlan
<1>1. IInv /\ FilesInv => CommitMatchesPlan
  BY PlanTypes DEF IInv, TypeInv, TypeOK, FilesInv, Holds, Done, CommitMatchesPlan
<1>. QED
  BY <1>1, Invariance, FilesAlways, PTL

-----------------------------------------------------------------------------
(* The library and the manifests *)

\* Before the first commit the library has no rows of the side.
LEMMA RowsInit == Init => RowsInv
BY DEF Init, RowsInv

\* A step after which each manifest knows what it knew of the rows, or
\* rip.json is the one in memory.
LEMMA RowsSame ==
  ASSUME RowsInv, pc # "discarded", pc # "save", pc' # "save", UNCHANGED rows,
         \A u \in rows : u \in loose => u \in loose',
         \A u \in rows : u \in Known(manifest) => u \in Known(manifest') \/ u \in loose',
         saved' = manifest' \/ saved' = saved
  PROVE  RowsInv'
BY DEF RowsInv, Unsaved

\* Every step keeps the rows known.
LEMMA RowsNext == TypeInv /\ ApartInv /\ FilesInv /\ RowsInv /\ [Next]_vars => RowsInv'
<1>. SUFFICES ASSUME TypeInv, ApartInv, FilesInv, RowsInv, [Next]_vars PROVE RowsInv'
  OBVIOUS
<1>. USE DEF disk, history
<1>0. manifest \in Manifest /\ saved \in Manifest /\ manifest' \in Manifest
  <2>1. TypeInv'
    BY TypeNext
  <2>. QED
    BY <2>1 DEF TypeInv, TypeOK
<1>1. CASE Edit
  <2>1. /\ pc = "review" /\ pc' = "review" /\ rows' = rows /\ saved' \in {saved, manifest'}
        /\ manifest'.replaced = manifest.replaced
        /\ loose' = loose \cup (Imported(manifest.tracks) \ Imported(manifest'.tracks))
    BY <1>1, EditsKeep DEF Edited, Replan
  <2>2. \A u \in rows : u \in Known(manifest) => u \in Known(manifest') \/ u \in loose'
    BY <2>1 DEF Known
  <2>. QED
    BY <2>1, <2>2, RowsSame
<1>2. CASE Discard
  BY <1>2 DEF Discard, RowsInv
<1>3. CASE CommitAgain \/ SegmentsDone \/ SkipSegment \/ ArchiveStart \/ SweepFiles
  BY <1>3, RowsSame DEF CommitAgain, SegmentsDone, SkipSegment, ArchiveStart, SweepFiles
<1>4. CASE EndCommit \/ SaveArchive \/ SaveReplaced
  BY <1>4, RowsSame DEF EndCommit, SaveArchive, SaveReplaced, CommitFails
<1>5. CASE BeginCommit
  <2>1. /\ Sub(manifest.tracks, manifest'.tracks) /\ manifest'.replaced = manifest.replaced
    BY <1>5, BeginFits DEF FilesInv, Fits
  <2>2. \A u \in Imported(manifest.tracks) : u \in Imported(manifest'.tracks)
    BY <1>0, <2>1, ImportedIs DEF Sub
  <2>3. \A u \in rows : u \in Known(manifest) => u \in Known(manifest')
    BY <2>1, <2>2 DEF Known
  <2>. QED
    BY <1>5, <2>3, RowsSame DEF BeginCommit
<1>6. CASE EncodeSegment
  BY <1>6 DEF EncodeSegment, RowsInv, Unsaved
<1>7. CASE ImportSegment
  <2>1. pc = "import" /\ pc' = "save" /\ UNCHANGED <<saved, loose, at>>
        /\ manifest.tracks[at].imported = {}
    BY <1>7 DEF ImportSegment, ApartInv
  <2>2. CASE UNCHANGED <<rows, manifest>>
    BY <2>1, <2>2 DEF RowsInv, Unsaved
  <2>3. CASE /\ rows' = rows \cup names[at] /\ manifest'.replaced = manifest.replaced
             /\ at \in DOMAIN manifest.tracks /\ DOMAIN manifest'.tracks = DOMAIN manifest.tracks
             /\ manifest'.tracks[at].imported = names[at]
             /\ \A i \in DOMAIN manifest.tracks : i # at => manifest'.tracks[i] = manifest.tracks[i]
    <3>1. \A u : u \in Imported(manifest.tracks) \/ u \in names[at] => u \in Imported(manifest'.tracks)
      BY <1>0, <2>1, <2>3, ImportedIs
    <3>2. \A u \in rows' : u \in Known(manifest') \/ u \in loose'
      BY <2>1, <2>3, <3>1 DEF RowsInv, Known
    <3>3. \A u \in rows' : u \in Known(saved') \/ u \in loose' \/ u \in Unsaved'
      BY <2>1, <2>3 DEF RowsInv, Unsaved
    <3>. QED
      BY <3>2, <3>3 DEF RowsInv
  <2>. QED
    BY <1>7, <2>2, <2>3, ImportIs
<1>8. CASE SaveSegment
  <2>1. CASE saved' = manifest /\ loose' = loose \ Imported(manifest.tracks)
    BY <1>8, <2>1 DEF SaveSegment, RowsInv, Known
  <2>2. CASE /\ CommitFails /\ saved' = saved
             /\ loose' = loose \cup manifest.tracks[at].imported
    BY <1>8, <2>2 DEF SaveSegment, CommitFails, RowsInv, Unsaved
  <2>. QED
    BY <1>8, <2>1, <2>2 DEF SaveSegment
<1>9. CASE ArchiveDone
  <2>1. manifest'.tracks = manifest.tracks /\ manifest'.replaced = manifest.replaced
    BY <1>0, <1>9 DEF ArchiveDone, Manifest
  <2>. QED
    BY <1>9, <2>1, RowsSame DEF ArchiveDone, Known
<1>10. CASE BeginReplace
  <2>1. CASE UNCHANGED manifest
    BY <1>10, <2>1, RowsSame DEF BeginReplace
  <2>2. CASE manifest' = [manifest EXCEPT !.replaced = @ \ Kept] /\ pc' = "delete"
    <3>1. manifest'.tracks = manifest.tracks /\ manifest'.replaced = manifest.replaced \ Kept
      BY <1>0, <2>2 DEF Manifest
    <3>2. \A u \in Kept : u \in Imported(manifest.tracks)
      BY DEF Kept, Imported
    <3>3. \A u \in rows : u \in Known(manifest) => u \in Known(manifest')
      BY <3>1, <3>2 DEF Known
    <3>. QED
      BY <1>10, <2>2, <3>3, RowsSame DEF BeginReplace
  <2>. QED
    BY <1>10, <2>1, <2>2 DEF BeginReplace
<1>11. CASE DeleteReplaced
  <2>0. pc = "delete" /\ pc' = "delete" /\ UNCHANGED <<saved, loose>>
    BY <1>11 DEF DeleteReplaced
  <2>1. PICK u \in doomed :
          \/ rows' = rows \ {u} /\ manifest' = [manifest EXCEPT !.replaced = @ \ {u}]
          \/ UNCHANGED <<rows, manifest>>
    BY <1>11 DEF DeleteReplaced
  <2>2. CASE rows' = rows \ {u} /\ manifest' = [manifest EXCEPT !.replaced = @ \ {u}]
    <3>1. manifest'.tracks = manifest.tracks /\ manifest'.replaced = manifest.replaced \ {u}
      BY <1>0, <2>2 DEF Manifest
    <3>. QED
      BY <2>0, <2>2, <3>1 DEF RowsInv, Known, Unsaved
  <2>3. CASE UNCHANGED <<rows, manifest>>
    BY <2>0, <2>3 DEF RowsInv, Unsaved
  <2>. QED
    BY <2>1, <2>2, <2>3
<1>12. CASE Crash
  <2>1. /\ manifest' = saved /\ saved' = saved /\ rows' = rows /\ pc' = "closed" /\ pc # "discarded"
        /\ loose' = loose \cup Unsaved
    BY <1>12 DEF Crash, Unsaved
  <2>. QED
    BY <2>1 DEF RowsInv
<1>13. CASE Close
  <2>1. /\ manifest' = saved /\ saved' = saved /\ rows' = rows /\ pc = "review" /\ pc' = "closed"
        /\ loose' = loose
    BY <1>13 DEF Close
  <2>. QED
    BY <2>1 DEF RowsInv, Unsaved
<1>14. CASE Resume
  <2>1. /\ manifest' = Recovered(saved) /\ saved' = manifest' /\ rows' = rows /\ pc = "closed"
        /\ pc' = "review" /\ manifest = saved
        /\ loose' = loose \cup (Imported(manifest.tracks) \ Imported(manifest'.tracks))
    BY <1>14 DEF Resume, Replan, FilesInv
  <2>2. manifest'.replaced = manifest.replaced
    BY <1>0, <2>1, RecoveredKeeps
  <2>3. \A u \in rows : u \in Known(manifest) => u \in Known(manifest') \/ u \in loose'
    BY <2>1, <2>2 DEF Known
  <2>. QED
    BY <2>1, <2>3, RowsSame
<1>15. CASE Resplit
  <2>1. /\ rows' = rows /\ pc = "closed" /\ pc' = "review" /\ saved' = manifest' /\ loose' = loose
        /\ manifest'.replaced = saved.replaced \cup Imported(saved.tracks) /\ manifest = saved
    BY <1>15, ResplitFits DEF Resplit, FilesInv
  <2>2. \A u \in rows : u \in Known(manifest) => u \in Known(manifest')
    BY <2>1 DEF Known
  <2>. QED
    BY <2>1, <2>2, RowsSame
<1>16. CASE UNCHANGED vars
  BY <1>16 DEF vars, local, RowsInv, Unsaved
<1>. QED
  BY <1>1, <1>2, <1>3, <1>4, <1>5, <1>6, <1>7, <1>8, <1>9, <1>10, <1>11, <1>12, <1>13, <1>14,
     <1>15, <1>16
  DEF Next, Review, CommitStep, Edit

\* Hence every row stays known.
LEMMA RowsAlways == Spec => []RowsInv
<1>1. IInv => TypeInv
  BY DEF IInv
<1>. QED
  BY <1>1, RowsInit, RowsNext, FilesAlways, Invariance, ApartAlways, PTL DEF Spec

\* The manifest in memory and rip.json each know every track the side has put
\* into the library, as a segment or as one waiting to be replaced, through
\* every crash and failing save; but for a segment that an edit or the
\* recovery dropped, and an import cut from its own save.
THEOREM NothingIsStranded == Spec => []NothingStranded
<1>1. RowsInv => NothingStranded
  BY DEF RowsInv, NothingStranded, Unsaved
<1>. QED
  BY <1>1, RowsAlways, PTL

-----------------------------------------------------------------------------
(* The library and the files *)

\* Before the first commit there is nothing to sweep.
LEMMA SweepInit == Init => SweepInv
BY DEF Init, SweepInv

\* Every step keeps the library's files.
LEMMA SweepNext == TypeInv /\ FilesInv /\ RowsInv /\ SweepInv /\ [Next]_vars => SweepInv'
<1>. SUFFICES ASSUME TypeInv, FilesInv, RowsInv, SweepInv, [Next]_vars PROVE SweepInv'
  OBVIOUS
<1>. USE DEF disk, history
<1>0. manifest \in Manifest
  BY DEF TypeInv, TypeOK
<1>same. ASSUME UNCHANGED <<rows, files, undeleted>>, pc # "discarded",
                pc' \notin {"delete", "sweep"}, \A u \in rows : u \in loose => u \in loose'
         PROVE  SweepInv'
  BY <1>same DEF SweepInv
<1>1. CASE Edit
  BY <1>1, <1>same, EditsKeep DEF Edited, Replan
<1>2. CASE Discard
  BY <1>2 DEF Discard, SweepInv
<1>3. CASE CommitAgain \/ BeginCommit \/ SegmentsDone \/ SkipSegment \/ SaveArchive
  BY <1>3, <1>same DEF CommitAgain, BeginCommit, SegmentsDone, SkipSegment, SaveArchive, CommitFails
<1>4. CASE ArchiveStart \/ ArchiveDone \/ EndCommit \/ Crash \/ Close \/ Resume \/ Resplit
  BY <1>4, <1>same DEF ArchiveStart, ArchiveDone, EndCommit, Crash, Close, Resume, Replan, Resplit
<1>5. CASE EncodeSegment
  <2>1. DOMAIN files \subseteq DOMAIN files' /\ rows' = rows /\ pc' \in {"import", "save"}
        /\ UNCHANGED <<loose, undeleted>> /\ pc # "discarded"
    BY <1>5 DEF EncodeSegment
  <2>. QED
    BY <2>1 DEF SweepInv
<1>6. CASE ImportSegment
  <2>1. names[at] \subseteq DOMAIN files
    BY <1>6 DEF ImportSegment, FilesInv
  <2>. QED
    BY <1>6, <2>1 DEF ImportSegment, SweepInv
<1>7. CASE SaveSegment
  <2>1. CASE loose' = loose \cup manifest.tracks[at].imported /\ CommitFails
    BY <1>7, <1>same, <2>1 DEF SaveSegment, CommitFails
  <2>2. CASE loose' = loose \ Imported(manifest.tracks) /\ pc' = "segment"
    <3>1. \A u \in Imported(manifest.tracks) : u \in DOMAIN files
      BY <1>0, ImportedIs DEF FilesInv, Holds
    <3>. QED
      BY <1>7, <2>2, <3>1 DEF SaveSegment, SweepInv
  <2>. QED
    BY <1>7, <2>1, <2>2 DEF SaveSegment
<1>8. CASE BeginReplace
  <2>1. CASE pc' = "spill"
    BY <1>8, <1>same, <2>1 DEF BeginReplace
  <2>2. CASE pc' = "delete" /\ doomed' = manifest.replaced \ Kept
             /\ manifest' = [manifest EXCEPT !.replaced = @ \ Kept]
    <3>1. manifest'.replaced = doomed'
      BY <1>0, <2>2 DEF Manifest
    <3>. QED
      BY <1>8, <2>2, <3>1 DEF BeginReplace, SweepInv
  <2>. QED
    BY <1>8, <2>1, <2>2 DEF BeginReplace
<1>9. CASE DeleteReplaced
  <2>0. pc = "delete" /\ pc' = "delete" /\ UNCHANGED <<files, loose>>
    BY <1>9 DEF DeleteReplaced
  <2>1. PICK u \in doomed :
          /\ doomed' = doomed \ {u}
          /\ \/ /\ rows' = rows \ {u} /\ undeleted' = undeleted
                /\ manifest' = [manifest EXCEPT !.replaced = @ \ {u}]
             \/ undeleted' = undeleted \cup {u} /\ UNCHANGED <<rows, manifest>>
    BY <1>9 DEF DeleteReplaced
  <2>2. CASE /\ rows' = rows \ {u} /\ undeleted' = undeleted
             /\ manifest' = [manifest EXCEPT !.replaced = @ \ {u}]
    <3>1. manifest'.replaced = manifest.replaced \ {u}
      BY <1>0, <2>2 DEF Manifest
    <3>. QED
      BY <2>0, <2>1, <2>2, <3>1 DEF SweepInv
  <2>3. CASE undeleted' = undeleted \cup {u} /\ UNCHANGED <<rows, manifest>>
    BY <2>0, <2>1, <2>3 DEF SweepInv
  <2>. QED
    BY <2>1, <2>2, <2>3
<1>10. CASE SaveReplaced
  BY <1>10 DEF SaveReplaced, CommitFails, SweepInv
<1>11. CASE SweepFiles
  <2>1. \A u \in rows : u \in Imported(manifest.tracks) \/ u \in loose \/ u \in undeleted
    BY <1>11 DEF SweepFiles, SweepInv, RowsInv, Known
  <2>2. \A u \in Imported(manifest.tracks) : u \in DOMAIN files
    BY <1>0, ImportedIs DEF FilesInv, Holds
  <2>. QED
    BY <1>11, <2>1, <2>2 DEF SweepFiles, SweepInv
<1>12. CASE UNCHANGED vars
  BY <1>12 DEF vars, local, SweepInv
<1>. QED
  BY <1>1, <1>2, <1>3, <1>4, <1>5, <1>6, <1>7, <1>8, <1>9, <1>10, <1>11, <1>12
  DEF Next, Review, CommitStep, Edit

\* "Imported segments live inside the session dir and the library references
\* them by path": on a side that is not discarded a track keeps its file
\* through every commit, crash and fault, unless its deletion failed or the
\* plan had stopped knowing it.
THEOREM RowsHaveFiles == Spec => []FilesOutliveRows
<1>1. IInv => TypeInv
  BY DEF IInv
<1>2. SweepInv => FilesOutliveRows
  BY DEF SweepInv, FilesOutliveRows
<1>. QED
  BY <1>1, <1>2, SweepInit, SweepNext, RowsAlways, FilesAlways, Invariance, PTL DEF Spec
=============================================================================
