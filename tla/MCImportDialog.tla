--------------------------- MODULE MCImportDialog ---------------------------
(***************************************************************************)
(* A directory, and cameras that number their pictures the same way, one   *)
(* of which gives no preview of its second.                                *)
(***************************************************************************)
EXTENDS ImportDialog

MCContent == [s \in Source |->
  CASE s = "roll" -> <<"roll/a">>
    [] s = "usb:1" -> <<"DCIM/1">>
    [] OTHER -> <<"DCIM/1", "DCIM/2">>]
MCUnviewable == {<<"usb:2", "DCIM/2">>}
MCSymmetry == Permutations(Thread)
=============================================================================
