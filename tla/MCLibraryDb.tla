---------------------------- MODULE MCLibraryDb ----------------------------
(***************************************************************************)
(* One RAW bundle with everything and one bare picture.                    *)
(***************************************************************************)
EXTENDS LibraryDb

CONSTANTS raw, bare, k1

MCBundle == {raw, bare}
MCParts == [b \in MCBundle |-> IF b = raw THEN {"xmp", "jpeg"} ELSE {}]
MCTags == [b \in MCBundle |-> IF b = raw THEN {k1} ELSE {}]
=============================================================================
