----------------------------- MODULE Utilities -----------------------------
(***************************************************************************)
(* The functions of the framework on rectangles, pictures, paths and       *)
(* monikers, which the canvas, the thumbnails, the frame, the importers    *)
(* and the library's opening rely on.  They are applied to every small     *)
(* rectangle and path.                                                     *)
(*                                                                         *)
(* Sides are scaled in floating point and cut to integers: a product that  *)
(* should be whole may come out just below, one too small.                 *)
(***************************************************************************)
EXTENDS Integers, Sequences, SequencesExt

CONSTANTS MaxSide,      \* bound on the sides of rectangles
          MaxLength     \* bound on the length of paths

ASSUME UtilitiesAssumption == MaxSide \in Nat \ {0} /\ MaxLength \in Nat

\* The characters that the functions tell apart, and "n" for all others.
Slash == "/"
Dot == "."
Colon == ":"
Char == {Slash, Dot, Colon, "n"}

VARIABLES rect, dest,   \* two rectangles, [w, h]
          text          \* a path or a moniker

utilities == <<rect, dest, text>>

Rect == [w : 1..MaxSide, h : 1..MaxSide]

UtilitiesInit == rect \in Rect /\ dest \in Rect /\ text = <<>>

\* Other rectangles, or another path.
UtilitiesNext ==
  /\ UNCHANGED <<rect, dest>>
  /\ Len(text) < MaxLength
  /\ \E c \in Char : text' = Append(text, c)

UtilitiesSpec == UtilitiesInit /\ [][UtilitiesNext]_utilities
-----------------------------------------------------------------------------
(* Rect.                                                                   *)

\* What n * (num / den) may be cut to.
scale(n, num, den) ==
  {(n * num) \div den} \cup (IF (n * num) % den = 0 THEN {(n * num) \div den - 1} ELSE {})

\* One of the scales w / r.w and h / r.h is at most, or less than, the other.
WidthLeast(r, d) == d.w * r.h <= d.h * r.w
HeightLeast(r, d) == d.h * r.w <= d.w * r.h

\* Mutant: the side that decides is cut like the other.
fit_into_cut(r, d) ==
  IF WidthLeast(r, d) THEN [w : scale(r.w, d.w, r.w), h : scale(r.h, d.w, r.w)]
  ELSE [w : scale(r.w, d.h, r.h), h : scale(r.h, d.h, r.h)]

\* By the lesser scale; the side that it comes from is set.
fit_into(r, d) ==
  [w : IF WidthLeast(r, d) THEN {d.w} ELSE scale(r.w, d.h, r.h),
   h : IF HeightLeast(r, d) THEN {d.h} ELSE scale(r.h, d.w, r.w)]

\* By the greater.
fill_into(r, d) ==
  [w : IF HeightLeast(r, d) THEN {d.w} ELSE scale(r.w, d.h, r.h),
   h : IF WidthLeast(r, d) THEN {d.h} ELSE scale(r.h, d.w, r.w)]
-----------------------------------------------------------------------------
(* Thumbnails.  The functions are there twice, in C++ and in Rust          *)
(* (npc-fwk/src/toolkit/gdk_utils.rs), and are the same.                   *)

\* Into a square, both sides cut.
gdkpixbuf_scale_to_fit(r, dim) ==
  LET orig_dim == IF r.w < r.h THEN r.h ELSE r.w
  IN  [w : scale(r.w, dim, orig_dim), h : scale(r.h, dim, orig_dim)]

\* A picture by its corners, clockwise from the top left.
AsStored == <<"first", "end of first row", "last", "start of last row">>

clockwise(p) == <<p[4], p[1], p[2], p[3]>>
counterclockwise(p) == <<p[2], p[3], p[4], p[1]>>
upsidedown(p) == <<p[3], p[4], p[1], p[2]>>
flip(p, horizontal) == IF horizontal THEN <<p[2], p[1], p[4], p[3]>> ELSE <<p[4], p[3], p[2], p[1]>>

gdkpixbuf_exif_rotate(p, exif_orientation) ==
  CASE exif_orientation \in {0, 1} -> p
    [] exif_orientation = 2 -> flip(p, TRUE)
    [] exif_orientation = 3 -> upsidedown(p)
    [] exif_orientation = 4 -> flip(upsidedown(p), TRUE)
    [] exif_orientation = 5 -> flip(clockwise(p), FALSE)
    [] exif_orientation = 6 -> clockwise(p)
    [] exif_orientation = 7 -> flip(counterclockwise(p), FALSE)
    [] exif_orientation = 8 -> counterclockwise(p)
-----------------------------------------------------------------------------
(* Paths.                                                                  *)

find_last_of(s, c) == SelectLastInSeq(s, LAMBDA d : d = c)

path_basename(p) == SubSeq(p, find_last_of(p, Slash) + 1, Len(p))

path_dirname(p) ==
  LET slash == find_last_of(p, Slash)
  IN  IF slash = 0 THEN <<Dot>> ELSE SubSeq(p, 1, slash - 1)

\* Mutant: the dot may be in the name of a directory.
_path_extension_pos_any(p) == find_last_of(p, Dot)

\* The last dot, if it is in the last component.
_path_extension_pos(p) ==
  IF find_last_of(p, Dot) < find_last_of(p, Slash) THEN 0 ELSE find_last_of(p, Dot)

path_extension(p) ==
  LET at == _path_extension_pos(p)
  IN  IF at = 0 THEN <<>> ELSE SubSeq(p, at, Len(p))

path_replace_extension(p, ext) ==
  LET at == _path_extension_pos(p)
  IN  IF at = 0 THEN p ELSE SubSeq(p, 1, at - 1) \o ext

\* Moniker: the scheme is up to the first colon; without one both are empty.
moniker(s) ==
  LET colon == SelectInSeq(s, LAMBDA d : d = Colon)
  IN  IF colon = 0 THEN [scheme |-> <<>>, path |-> <<>>]
      ELSE [scheme |-> SubSeq(s, 1, colon - 1), path |-> SubSeq(s, colon + 1, Len(s))]

c_str(m) == m.scheme \o <<Colon>> \o m.path
-----------------------------------------------------------------------------
\* A picture fitted into a frame is within it, one that fills it covers it,
\* and both meet it on a side, whichever way the products were cut: there
\* is no line of background at the edge.  A thumbnail is within its square
\* and at most one short of it.
FitsExactly ==
  /\ \A r \in fit_into(rect, dest) :
       r.w <= dest.w /\ r.h <= dest.h /\ (r.w = dest.w \/ r.h = dest.h)
  /\ \A r \in fill_into(rect, dest) :
       r.w >= dest.w /\ r.h >= dest.h /\ (r.w = dest.w \/ r.h = dest.h)
  /\ \A r \in gdkpixbuf_scale_to_fit(rect, dest.w) :
       r.w <= dest.w /\ r.h <= dest.w /\ (r.w >= dest.w - 1 \/ r.h >= dest.w - 1)

\* Where Exif says that the first row and the first column belong.
FirstRow == <<"top", "top", "bottom", "bottom", "left", "right", "right", "left">>
FirstColumn == <<"left", "right", "right", "left", "top", "top", "bottom", "bottom">>

Edge(p, side) == CASE side = "top" -> {p[1], p[2]} [] side = "right" -> {p[2], p[3]}
                   [] side = "bottom" -> {p[3], p[4]} [] side = "left" -> {p[4], p[1]}

Upright(p, exif_orientation) ==
  /\ Edge(p, FirstRow[exif_orientation]) = Edge(AsStored, "top")
  /\ Edge(p, FirstColumn[exif_orientation]) = Edge(AsStored, "left")

\* A picture that was taken with the camera on its side or mirrored comes
\* out upright, except that the two orientations that are both are taken
\* for each other: such a picture is upside down.
TurnedUpright == \A o \in 1..8 :
  LET taken_for == CASE o = 5 -> 7 [] o = 7 -> 5 [] OTHER -> o
  IN  Upright(gdkpixbuf_exif_rotate(AsStored, o), taken_for)

\* Pictures have their size and their side up.
ShownRight == FitsExactly /\ TurnedUpright

\* What a path is taken apart into belongs together: directory and name
\* rejoin, the extension is that of the name, and another one does not move
\* the file to another directory nor change a file without extension; a
\* moniker's scheme and path rejoin.
PartsRejoin ==
  LET ext == <<Dot, "n">>
      other == path_replace_extension(text, ext)
  IN  /\ text # path_basename(text) =>
           path_dirname(text) \o <<Slash>> \o path_basename(text) = text
      /\ path_extension(path_basename(text)) = path_extension(text)
      /\ path_dirname(other) = path_dirname(text)
      /\ path_extension(other) = IF path_extension(text) = <<>> THEN <<>> ELSE ext
      /\ path_replace_extension(other, path_extension(text)) = text
      /\ Colon \in ToSet(text) => c_str(moniker(text)) = text
=============================================================================
