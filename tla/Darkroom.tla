------------------------------ MODULE Darkroom ------------------------------
(***************************************************************************)
(* The darkroom: DarkroomModule, which is given the file to show and loads *)
(* it only while its page is the visible one; ncr::Image, a graph of GEGL  *)
(* nodes with a status; and ImageCanvas, which draws the image into a      *)
(* backing store when it is told of a change, and paints the store.        *)
(*                                                                         *)
(* DarkroomModule holds the file by a weak pointer and its callers drop    *)
(* the file when they return: between two calls the pointer has expired.   *)
(* The file is the argument of the operators, and None once it is gone.    *)
(* The pixels, scales and frames are left out but for whether a picture is *)
(* upright.  Tilting and rotating by hand have no callers.                 *)
(***************************************************************************)
EXTENDS Naturals

CONSTANTS File,         \* the files of the library
          None,         \* no file
          Orientation   \* file -> its Exif orientation

Generic == "generic"    \* the picture shown instead of a file
Missing == "missing"    \* the picture shown for a file that is not there

ASSUME DarkroomAssumption ==
  /\ {None, Generic, Missing} \cap File = {}
  /\ Orientation \in [File -> 0..8]

VARIABLES m_need_reload,    \* DarkroomModule: the image is not that of the file
          m_status,         \* Image: "UNSET", "LOADING", "LOADED", "ERROR", "NOT_FOUND"
          picture,          \* Image: what its graph loads
          m_vertical,       \* Image: width and height are swapped
          m_size,           \* Image: m_width and m_height
          m_need_redisplay, \* ImageCanvas: the image has changed
          m_resized,        \* ImageCanvas: it has another size
          m_backingstore,   \* ImageCanvas: what was last drawn
          invalid,          \* the canvas is to be drawn
          drawn,            \* history: how often it was drawn since something happened, 0..2
          given             \* history: the file last given

image == <<m_status, picture, m_vertical, m_size>>
canvas == <<m_need_redisplay, m_resized, m_backingstore>>
darkroom == <<m_need_reload, image, canvas, invalid, drawn, given>>

Wide == <<3, 2>>    \* the size of a picture before it is turned
Swapped(size) == <<size[2], size[1]>>

Status == {"UNSET", "LOADING", "LOADED", "ERROR", "NOT_FOUND"}

DarkroomTypeOK ==
  /\ m_need_reload \in BOOLEAN
  /\ m_status \in Status
  /\ picture \in File \cup {None, Generic}
  /\ m_vertical \in BOOLEAN /\ m_size \in {<<0, 0>>, <<1, 1>>, Wide, Swapped(Wide)}
  /\ {m_need_redisplay, m_resized, invalid} \subseteq BOOLEAN
  /\ m_backingstore \in File \cup {None, Generic, Missing}
  /\ drawn \in 0..2 /\ given \in File \cup {None}

\* An image and a canvas as they are made.
Image ==
  /\ m_status = "UNSET" /\ picture = None
  /\ m_vertical = FALSE /\ m_size = <<0, 0>>

ImageCanvas ==
  /\ m_need_redisplay = TRUE /\ m_resized = FALSE
  /\ m_backingstore = None /\ invalid = FALSE

DarkroomInit ==
  /\ m_need_reload = TRUE
  /\ Image /\ ImageCanvas
  /\ drawn = 0 /\ given = None
-----------------------------------------------------------------------------
(* Image.                                                                  *)

\* The Exif orientation of what is loaded; the placeholder has none.
OrientationOf(what) == IF what \in File THEN Orientation[what] ELSE 0

SizeOf(what) == IF what \in File THEN Wide ELSE <<1, 1>>

\* Mutant: an upright picture leaves m_vertical as it is.
rotate_node_keep(orientation) == m_vertical \/ orientation \in 5..8

\* A quarter turn, one way or the other.
rotate_node(orientation) == orientation \in 5..8

\* The change is told to the canvas.
signal_update == m_need_redisplay' = TRUE /\ invalid' = TRUE

\* Image::reload, prepare_reload and reload_node.  The file may be missing,
\* or hold nothing that can be loaded.
reload(what) ==
  /\ picture' = what
  /\ \/ /\ m_status' = "LOADING"
        /\ m_vertical' = rotate_node(OrientationOf(what))
        /\ m_size' = IF m_vertical' THEN Swapped(SizeOf(what)) ELSE SizeOf(what)
     \/ /\ what \in File
        /\ m_status' = "ERROR"
        /\ m_vertical' = rotate_node(OrientationOf(what))
        /\ m_size' = <<0, 0>>
     \/ /\ what \in File
        /\ m_status' = "NOT_FOUND"
        /\ m_size' = <<0, 0>>
        /\ UNCHANGED m_vertical
  /\ signal_update
-----------------------------------------------------------------------------
(* DarkroomModule.                                                         *)

\* The file that was given is gone, unless the caller still has it.
reload_image(file) ==
  /\ reload(IF file = None THEN Generic ELSE file)
  /\ m_need_reload' = FALSE

\* The darkroom is given a file, or none.
set_image(file, active) ==
  /\ given' = file
  /\ IF active THEN reload_image(file)
     ELSE m_need_reload' = TRUE /\ UNCHANGED <<image, m_need_redisplay, invalid>>
  /\ drawn' = 0
  /\ UNCHANGED <<m_resized, m_backingstore>>

\* The page becomes the visible one, of the file given before if it is gone.
set_active ==
  /\ IF m_need_reload THEN reload_image(None)
     ELSE invalid' = TRUE /\ UNCHANGED <<image, m_need_redisplay, m_need_reload>>
  /\ drawn' = 0
  /\ UNCHANGED <<m_resized, m_backingstore, given>>

\* The page becomes the visible one while the file is there.
open_image(file) ==
  /\ given' = file
  /\ reload_image(file)
  /\ drawn' = 0
  /\ UNCHANGED <<m_resized, m_backingstore>>
-----------------------------------------------------------------------------
(* ImageCanvas.                                                            *)

on_size_allocate ==
  /\ m_resized' = TRUE /\ invalid' = TRUE
  /\ drawn' = 0
  /\ UNCHANGED <<m_need_reload, image, m_need_redisplay, m_backingstore, given>>

\* What is drawn of the image: a picture that could be loaded, or a placeholder.
Surface == CASE m_status \in {"LOADING", "LOADED"} -> picture
             [] m_status = "NOT_FOUND" -> Missing
             [] OTHER -> Generic

\* The scale of an image with nodes is set, which is another change of it.
set_output_scale == invalid' = (m_status \in {"LOADING", "LOADED"})

Count == drawn' = IF drawn = 2 THEN 2 ELSE drawn + 1

\* on_draw() with a change: setting the scale of the image signals another
\* change, for which the canvas is drawn again later, but the flags are
\* reset after that.
draw ==
  /\ m_need_redisplay \/ m_resized
  /\ m_backingstore' = Surface
  /\ m_status' = IF m_status = "LOADING" THEN "LOADED" ELSE m_status
  /\ set_output_scale
  /\ m_need_redisplay' = FALSE /\ m_resized' = FALSE
  /\ Count
  /\ UNCHANGED <<m_need_reload, picture, m_vertical, m_size, given>>

\* on_draw() without: the backing store is painted.
paint ==
  /\ ~m_need_redisplay /\ ~m_resized
  /\ invalid' = FALSE
  /\ Count
  /\ UNCHANGED <<m_need_reload, image, canvas, given>>

on_draw == invalid /\ (draw \/ paint)
=============================================================================
