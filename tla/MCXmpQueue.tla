----------------------------- MODULE MCXmpQueue -----------------------------
(***************************************************************************)
(* A picture with an XMP file and one without.                             *)
(***************************************************************************)
EXTENDS XmpQueue

CONSTANTS raw, bare

MCStars == [b \in {raw, bare} |-> IF b = raw THEN 1 ELSE Absent]
=============================================================================
