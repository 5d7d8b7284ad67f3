----------------------------- MODULE FileBundle -----------------------------
(***************************************************************************)
(* How the files of a directory become the bundles that are imported: the  *)
(* names are sorted, and each is added to the bundle under construction    *)
(* when it has the same base, which is the name up to its first dot, or    *)
(* starts the next bundle.  What add() does with a file depends on those   *)
(* added before it, and so on the order of the extensions.                 *)
(*                                                                         *)
(* A path is its base, whether there is nothing after the base, the kind   *)
(* of file that its content and extension make it, and its place in the    *)
(* sorted list.  Sorting puts names with the same base and an extension    *)
(* side by side; a bare name comes before those, maybe with others between *)
(* ("a", "a-1.jpg", "a.jpg").                                              *)
(***************************************************************************)
EXTENDS Integers, Sequences, FiniteSets

CONSTANTS Base,
          MaxFiles,   \* bound on the files of the directory
          None        \* an empty path, or no base yet

Kind == {"raw", "image", "movie", "xmp", "thumbnail", "other"}
BundleType == {"Unknown", "Raw", "RawJpeg", "Image", "Video"}
Path == [base : Base, bare : BOOLEAN, kind : Kind, at : 1..MaxFiles]

ASSUME FileBundleAssumption == MaxFiles \in Nat /\ None \notin Base \cup Path

\* `files' are the paths offered to the bundle, those it ignores included.
Bundle == [bundle_type : BundleType, main : Path \cup {None}, xmp_sidecar : Path \cup {None},
           jpeg : Path \cup {None}, sidecars : SUBSET Path, files : SUBSET Path]

VARIABLES taken,            \* the sorted list, up to the file looked at
          current_base,
          current_bundle,
          bundles,
          done

vars == <<taken, current_base, current_bundle, bundles, done>>

TypeOK ==
  /\ taken \in Seq(Path)
  /\ current_base \in Base \cup {None}
  /\ current_bundle \in Bundle
  /\ bundles \in Seq(Bundle)
  /\ done \in BOOLEAN

new == [bundle_type |-> "Unknown", main |-> None, xmp_sidecar |-> None, jpeg |-> None,
        sidecars |-> {}, files |-> {}]

Init ==
  /\ taken = <<>>
  /\ current_base = None
  /\ current_bundle = new
  /\ bundles = <<>>
  /\ done = FALSE

-----------------------------------------------------------------------------
\* A RAW file becomes the main one, and the main file so far the JPEG.
add_raw(b, p) ==
  IF b.main # None /\ b.jpeg = None
  THEN [b EXCEPT !.jpeg = b.main, !.main = p, !.bundle_type = "RawJpeg"]
  ELSE [b EXCEPT !.main = p, !.bundle_type = "Raw"]

\* Mutant: the type stays that of the main file.
add_image_no_type(b, p) ==
  IF b.main # None
  THEN [b EXCEPT !.jpeg = p]
  ELSE [b EXCEPT !.main = p, !.bundle_type = "Image"]

add_image(b, p) ==
  IF b.main # None
  THEN [b EXCEPT !.jpeg = p, !.bundle_type = "RawJpeg"]
  ELSE [b EXCEPT !.main = p, !.bundle_type = "Image"]

add_movie(b, p) ==
  IF b.bundle_type = "Unknown" THEN [b EXCEPT !.main = p, !.bundle_type = "Video"]
  ELSE IF b.bundle_type = "Image" THEN [b EXCEPT !.sidecars = @ \cup {p}]
  ELSE b

add(b, p) ==
  LET c == [b EXCEPT !.files = @ \cup {p}]
  IN  CASE p.kind = "raw" -> add_raw(c, p)
        [] p.kind = "image" -> add_image(c, p)
        [] p.kind = "movie" -> add_movie(c, p)
        [] p.kind = "xmp" -> [c EXCEPT !.xmp_sidecar = p]
        [] p.kind = "thumbnail" -> [c EXCEPT !.sidecars = @ \cup {p}]
        [] OTHER -> c

\* p can be next in the sorted list.
Sorted(p) ==
  /\ p.at = Len(taken) + 1
  /\ \A i \in DOMAIN taken :
       taken[i].base = p.base =>
         /\ ~p.bare
         /\ taken[i].bare \/ \A j \in i..Len(taken) : taken[j].base = p.base

\* One turn of the loop of filter_bundles().
take(p) ==
  /\ ~done
  /\ Sorted(p)
  /\ taken' = Append(taken, p)
  /\ IF p.base = current_base
     THEN current_bundle' = add(current_bundle, p) /\ UNCHANGED <<current_base, bundles>>
     ELSE /\ bundles' = IF current_base = None THEN bundles ELSE Append(bundles, current_bundle)
          /\ current_bundle' = add(new, p)
          /\ current_base' = p.base
  /\ UNCHANGED done

\* The end of the list.
finish ==
  /\ ~done
  /\ bundles' = IF current_base = None THEN bundles ELSE Append(bundles, current_bundle)
  /\ done' = TRUE
  /\ UNCHANGED <<taken, current_base, current_bundle>>

Next == finish \/ \E p \in Path : take(p)

Spec == Init /\ [][Next]_vars
-----------------------------------------------------------------------------
(* Properties.                                                             *)

Bundles == {bundles[i] : i \in DOMAIN bundles} \cup {current_bundle}

Roles(b) == ({b.main, b.jpeg, b.xmp_sidecar} \ {None}) \cup b.sidecars

\* The files of a bundle, in whatever role, have one base, the one they
\* were put together for, and each was offered to this bundle.
OneBase == \A b \in Bundles :
  /\ Roles(b) \subseteq b.files
  /\ \A p, q \in b.files : p.base = q.base

\* Wherever the RAW file is in the list, it is the main file of its bundle,
\* the one that is displayed and developed.
RawIsMain == \A b \in Bundles :
  (\E p \in b.files : p.kind = "raw") => b.main # None /\ b.main.kind = "raw"

\* A bundle has a main file just when there is something to show in it, and
\* a type just when it has a main file.
MainIsMedia == \A b \in Bundles :
  /\ b.main # None <=> \E p \in b.files : p.kind \in {"raw", "image", "movie"}
  /\ b.main # None <=> b.bundle_type # "Unknown"

\* What the test of filebundle.rs shows of some orders, for all: with one
\* file of each kind, and movies only beside a picture that precedes them,
\* the order does not matter.
OrderDoesNotMatter == \A b \in Bundles :
  LET of(kind) == {p \in b.files : p.kind = kind}
      only(S) == IF S = {} THEN None ELSE CHOOSE p \in S : TRUE
      first == IF of("raw") # {} THEN "raw" ELSE IF of("image") # {} THEN "image" ELSE "movie"
  IN  /\ \A kind \in Kind \ {"other", "thumbnail"} : Cardinality(of(kind)) <= 1
      /\ \A m \in of("movie") :
           of("raw") = {} /\ \A p \in of("image") : p.at < m.at
      => /\ b.main = only(of(first))
         /\ b.jpeg = IF first = "raw" THEN only(of("image")) ELSE None
         /\ b.xmp_sidecar = only(of("xmp"))
         /\ b.sidecars = of("thumbnail") \cup (IF first = "image" THEN of("movie") ELSE {})
         /\ b.bundle_type = IF b.jpeg # None THEN "RawJpeg"
                            ELSE IF b.main = None THEN "Unknown"
                            ELSE [raw |-> "Raw", image |-> "Image", movie |-> "Video"][first]

=============================================================================
