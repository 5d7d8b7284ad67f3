------------------------------ MODULE MCNiepce ------------------------------
(***************************************************************************)
(* A new library, and one with a folder of two pictures.                   *)
(***************************************************************************)
EXTENDS Niepce

MCNew ==
  {[folders |-> [d \in FolderRow |-> IF d = 1 THEN "trash" ELSE "none"],
    parent |-> [f \in FileRow |-> 0],
    rating |-> [f \in FileRow |-> Absent]]}

\* The first picture has a rating, the second has none.
MCUsed ==
  {[folders |-> [d \in FolderRow |-> IF d = 1 THEN "unnamed" ELSE "trash"],
    parent |-> [f \in FileRow |-> 1],
    rating |-> [f \in FileRow |-> IF f = 1 THEN 0 ELSE Absent]]}
=============================================================================
