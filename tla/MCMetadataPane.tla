--------------------------- MODULE MCMetadataPane ---------------------------
(***************************************************************************)
(* Pictures with a keyword that has a comma, and an aperture that is no    *)
(* fraction.                                                               *)
(***************************************************************************)
EXTENDS MetadataPane, TLC
CONSTANT w
FileSymmetry == Permutations(File)
MCKnown == {[headline |-> None, rating |-> 0, keywords |-> <<<<w, w>>>>,
             speed |-> <<2, 8>>, aperture |-> <<0, 0>>]}
=============================================================================
