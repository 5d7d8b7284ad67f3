------------------------------ MODULE MCShell ------------------------------
(***************************************************************************)
(* Two files, of which one has a position and is upright, the other lies   *)
(* on its side.                                                            *)
(***************************************************************************)
EXTENDS Shell
CONSTANTS f1, f2
MCContent == {<<f1, f2>>, <<>>}
MCOrientation == (f1 :> 1) @@ (f2 :> 6)
=============================================================================
