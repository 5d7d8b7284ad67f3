-------------------------- MODULE MCThumbnailCache --------------------------
(* Two requests for one picture, one for a movie whose thumbnail is not to *)
(* be had, and one for a bundle without a main file. Two identities of     *)
(* worker threads, the bound of the run, are enough for the thread that    *)
(* ends, or dies, and the one that starts to overlap.                      *)
EXTENDS ThumbnailCache

CONSTANTS raw, movie, blank, r1, r2, r3, r4

MCFile == {raw, movie, blank}
MCRequest == {r1, r2, r3, r4}
MCFileOf == [r \in MCRequest |-> CASE r = r3 -> movie [] r = r4 -> blank [] OTHER -> raw]
MCReadable == {raw}
MCNameless == {blank}
MCTorn == {movie}
=============================================================================
