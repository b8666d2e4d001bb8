-------------------------- MODULE MCEpisodeLifecycle --------------------------
(***************************************************************************)
(* Instances of EpisodeLifecycle for TLC.                                  *)
(***************************************************************************)
EXTENDS EpisodeLifecycle, TLC

\* Slots are interchangeable, and so are submissions of which the code knows nothing; the
\* empty list and the machine's, which may be submitted too, are not.
Symmetry ==
    Permutations(Request) \cup Permutations(Episode)
        \cup Permutations(Segments \ {NoSegments, MachineSegments})
==============================================================================
