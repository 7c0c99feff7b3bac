---------------------------- MODULE TrackCustody ----------------------------
(***************************************************************************)
(* What the engine promises about a decoded track (dub-engine): it is in   *)
(* one pair of hands at a time, and only the main thread frees it.         *)
(*                                                                         *)
(* The audio thread may let go of a track only into the trash, or lose it  *)
(* for good; it never takes the last reference away.  DeckTracks           *)
(* implements this.                                                        *)
(***************************************************************************)
CONSTANT Tracks

VARIABLE keeper   \* who keeps the track alive

\* main: nobody but the main thread, which frees it; audio: a command, a
\* deck, a park or a sampler slot; trash: the way back; lost: never freed.
Keepers == {"main", "audio", "trash", "lost"}

Init == keeper \in [Tracks -> {"main", "audio"}]

Moves(t, from, to) == keeper[t] = from /\ keeper'[t] \in to

\* The main thread hands tracks over and frees what came back.
MainStep == \A t \in Tracks : \/ keeper'[t] = keeper[t]
                              \/ Moves(t, "main", {"audio"})
                              \/ Moves(t, "trash", {"main"})

\* The audio thread gives tracks back or loses them.
AudioStep == \A t \in Tracks : \/ keeper'[t] = keeper[t]
                               \/ Moves(t, "audio", {"trash", "lost"})

Next == keeper' \in [Tracks -> Keepers] /\ (MainStep \/ AudioStep)
Spec == Init /\ [][Next]_keeper
=============================================================================
