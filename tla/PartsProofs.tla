----------------------------- MODULE PartsProofs ------------------------------
(***************************************************************************)
(* Theorems of the parts that stand on their own, for every value of their *)
(* constants: directories of any length, histories of any depth, trees of  *)
(* any number of folders, paths and pictures of any size, cards and files  *)
(* of any length.  What add() does keeps a bundle good whatever the order  *)
(* of the files, and the loop only adds to a bundle files of its base,     *)
(* each after the others.  The history of commands and the workspace tree  *)
(* follow what is queued: their invariants say where the database, or the  *)
(* tree, is led by the operations and notifications still under way.  What *)
(* an importer, or the reader of a file, has done and has still to do is,  *)
(* end to end, what it was given.                                          *)
(***************************************************************************)
EXTENDS FileBundle, Commands, WorkspaceTree, UfrawMeta, Utilities, Importers, SequenceLemmas, TLAPS

Shows == {"raw", "image", "movie"}

\* What OneBase, RawIsMain and MainIsMedia say of one bundle.
OneBaseOf(b) ==
  /\ Roles(b) \subseteq b.files
  /\ \A p, q \in b.files : p.base = q.base
RawIsMainOf(b) == (\E p \in b.files : p.kind = "raw") => b.main # None /\ b.main.kind = "raw"
MainIsMediaOf(b) ==
  /\ b.main # None <=> \E p \in b.files : p.kind \in Shows
  /\ b.main # None <=> b.bundle_type # "Unknown"

Good(b) == b \in Bundle /\ OneBaseOf(b) /\ RawIsMainOf(b) /\ MainIsMediaOf(b)

\* The bundle under construction has files of the current base only.
BundleIInv ==
  /\ TypeOK
  /\ Good(current_bundle)
  /\ \A i \in DOMAIN bundles : Good(bundles[i])
  /\ \A p \in current_bundle.files : p.base = current_base

LEMMA NoneIsNoPath == \A p \in Path : p # None
  BY FileBundleAssumption

\* A new bundle is good.
LEMMA NewGood == Good(new) /\ new.files = {}
  BY DEF Good, new, Bundle, BundleType, OneBaseOf, Roles, RawIsMainOf, MainIsMediaOf

\* add() keeps a bundle good when the file has the base of the others: a
\* RAW file takes the main role, and only a RAW file takes it from another.
LEMMA AddGood ==
  ASSUME NEW b, Good(b), NEW p \in Path, \A q \in b.files : q.base = p.base
  PROVE  Good(add(b, p)) /\ add(b, p).files = b.files \cup {p}
<1> DEFINE c == [b EXCEPT !.files = @ \cup {p}]
<1> USE NoneIsNoPath
<1>1. /\ b \in Bundle /\ c \in Bundle /\ p.kind \in Kind
      /\ c.files = b.files \cup {p} /\ c.main = b.main /\ c.jpeg = b.jpeg
      /\ c.xmp_sidecar = b.xmp_sidecar /\ c.sidecars = b.sidecars
      /\ c.bundle_type = b.bundle_type
  BY DEF Good, Bundle, Path
<1>2. \A q, r \in b.files \cup {p} : q.base = r.base
  BY DEF Good, OneBaseOf
<1> HIDE DEF c
<1>3. CASE p.kind = "raw"
  <2>1. add(b, p) = add_raw(c, p)
    BY <1>3 DEF add, c
  <2>2. CASE c.main # None /\ c.jpeg = None
    <3>1. add(b, p) = [c EXCEPT !.jpeg = c.main, !.main = p, !.bundle_type = "RawJpeg"]
      BY <2>1, <2>2 DEF add_raw
    <3>2. /\ add(b, p) \in Bundle
          /\ add(b, p).files = b.files \cup {p}
          /\ add(b, p).main = p /\ add(b, p).jpeg = b.main
          /\ add(b, p).bundle_type = "RawJpeg"
          /\ add(b, p).xmp_sidecar = b.xmp_sidecar /\ add(b, p).sidecars = b.sidecars
      BY <1>1, <3>1 DEF Bundle, BundleType
    <3>3. OneBaseOf(add(b, p))
      BY <1>1, <1>2, <3>2 DEF Good, OneBaseOf, Roles
    <3>4. RawIsMainOf(add(b, p))
      BY <1>1, <1>3, <2>2, <3>2 DEF Good, RawIsMainOf, MainIsMediaOf, Shows
    <3>5. MainIsMediaOf(add(b, p))
      BY <1>1, <1>3, <2>2, <3>2 DEF Good, MainIsMediaOf, Shows
    <3> QED  BY <3>2, <3>3, <3>4, <3>5 DEF Good
  <2>3. CASE ~(c.main # None /\ c.jpeg = None)
    <3>1. add(b, p) = [c EXCEPT !.main = p, !.bundle_type = "Raw"]
      BY <2>1, <2>3 DEF add_raw
    <3>2. /\ add(b, p) \in Bundle
          /\ add(b, p).files = b.files \cup {p}
          /\ add(b, p).main = p /\ add(b, p).jpeg = b.jpeg
          /\ add(b, p).bundle_type = "Raw"
          /\ add(b, p).xmp_sidecar = b.xmp_sidecar /\ add(b, p).sidecars = b.sidecars
      BY <1>1, <3>1 DEF Bundle, BundleType
    <3>3. OneBaseOf(add(b, p))
      BY <1>1, <1>2, <3>2 DEF Good, OneBaseOf, Roles
    <3>4. RawIsMainOf(add(b, p))
      BY <1>1, <1>3, <2>3, <3>2 DEF Good, RawIsMainOf, MainIsMediaOf, Shows
    <3>5. MainIsMediaOf(add(b, p))
      BY <1>1, <1>3, <2>3, <3>2 DEF Good, MainIsMediaOf, Shows
    <3> QED  BY <3>2, <3>3, <3>4, <3>5 DEF Good
  <2> QED  BY <2>2, <2>3
<1>4. CASE p.kind = "image"
  <2>1. add(b, p) = add_image(c, p)
    BY <1>4 DEF add, c
  <2>2. CASE c.main # None
    <3>1. add(b, p) = [c EXCEPT !.jpeg = p, !.bundle_type = "RawJpeg"]
      BY <2>1, <2>2 DEF add_image
    <3>2. /\ add(b, p) \in Bundle
          /\ add(b, p).files = b.files \cup {p}
          /\ add(b, p).main = b.main /\ add(b, p).jpeg = p
          /\ add(b, p).bundle_type = "RawJpeg"
          /\ add(b, p).xmp_sidecar = b.xmp_sidecar /\ add(b, p).sidecars = b.sidecars
      BY <1>1, <3>1 DEF Bundle, BundleType
    <3>3. OneBaseOf(add(b, p))
      BY <1>1, <1>2, <3>2 DEF Good, OneBaseOf, Roles
    <3>4. RawIsMainOf(add(b, p))
      BY <1>1, <1>4, <2>2, <3>2 DEF Good, RawIsMainOf, MainIsMediaOf, Shows
    <3>5. MainIsMediaOf(add(b, p))
      BY <1>1, <1>4, <2>2, <3>2 DEF Good, MainIsMediaOf, Shows
    <3> QED  BY <3>2, <3>3, <3>4, <3>5 DEF Good
  <2>3. CASE c.main = None
    <3>1. add(b, p) = [c EXCEPT !.main = p, !.bundle_type = "Image"]
      BY <2>1, <2>3 DEF add_image
    <3>2. /\ add(b, p) \in Bundle
          /\ add(b, p).files = b.files \cup {p}
          /\ add(b, p).main = p /\ add(b, p).jpeg = b.jpeg
          /\ add(b, p).bundle_type = "Image"
          /\ add(b, p).xmp_sidecar = b.xmp_sidecar /\ add(b, p).sidecars = b.sidecars
      BY <1>1, <3>1 DEF Bundle, BundleType
    <3>3. OneBaseOf(add(b, p))
      BY <1>1, <1>2, <3>2 DEF Good, OneBaseOf, Roles
    <3>4. RawIsMainOf(add(b, p))
      BY <1>1, <1>4, <2>3, <3>2 DEF Good, RawIsMainOf, MainIsMediaOf, Shows
    <3>5. MainIsMediaOf(add(b, p))
      BY <1>1, <1>4, <2>3, <3>2 DEF Good, MainIsMediaOf, Shows
    <3> QED  BY <3>2, <3>3, <3>4, <3>5 DEF Good
  <2> QED  BY <2>2, <2>3
<1>5. CASE p.kind = "movie"
  <2>1. add(b, p) = add_movie(c, p)
    BY <1>5 DEF add, c
  <2>2. CASE c.bundle_type = "Unknown"
    <3>1. add(b, p) = [c EXCEPT !.main = p, !.bundle_type = "Video"]
      BY <2>1, <2>2 DEF add_movie
    <3>2. /\ add(b, p) \in Bundle
          /\ add(b, p).files = b.files \cup {p}
          /\ add(b, p).main = p /\ add(b, p).jpeg = b.jpeg
          /\ add(b, p).bundle_type = "Video"
          /\ add(b, p).xmp_sidecar = b.xmp_sidecar /\ add(b, p).sidecars = b.sidecars
      BY <1>1, <3>1 DEF Bundle, BundleType
    <3>3. OneBaseOf(add(b, p))
      BY <1>1, <1>2, <3>2 DEF Good, OneBaseOf, Roles
    <3>4. RawIsMainOf(add(b, p))
      BY <1>1, <1>5, <2>2, <3>2 DEF Good, RawIsMainOf, MainIsMediaOf, Shows
    <3>5. MainIsMediaOf(add(b, p))
      BY <1>1, <1>5, <2>2, <3>2 DEF Good, MainIsMediaOf, Shows
    <3> QED  BY <3>2, <3>3, <3>4, <3>5 DEF Good
  <2>3. CASE c.bundle_type = "Image"
    <3>1. add(b, p) = [c EXCEPT !.sidecars = @ \cup {p}]
      BY <2>1, <2>3 DEF add_movie
    <3> QED  BY <1>1, <1>2, <1>5, <2>3, <3>1
             DEF Good, Bundle, BundleType, OneBaseOf, Roles, RawIsMainOf, MainIsMediaOf, Shows
  <2>4. CASE c.bundle_type \notin {"Unknown", "Image"}
    <3>1. add(b, p) = c
      BY <2>1, <2>4 DEF add_movie
    <3> QED  BY <1>1, <1>2, <1>5, <2>4, <3>1
             DEF Good, OneBaseOf, Roles, RawIsMainOf, MainIsMediaOf, Shows
  <2> QED  BY <2>2, <2>3, <2>4
<1>6. CASE p.kind = "xmp"
  <2>1. add(b, p) = [c EXCEPT !.xmp_sidecar = p]
    BY <1>6 DEF add, c
  <2> QED  BY <1>1, <1>2, <1>6, <2>1
           DEF Good, Bundle, OneBaseOf, Roles, RawIsMainOf, MainIsMediaOf, Shows
<1>7. CASE p.kind = "thumbnail"
  <2>1. add(b, p) = [c EXCEPT !.sidecars = @ \cup {p}]
    BY <1>7 DEF add, c
  <2> QED  BY <1>1, <1>2, <1>7, <2>1
           DEF Good, Bundle, OneBaseOf, Roles, RawIsMainOf, MainIsMediaOf, Shows
<1>8. CASE p.kind = "other"
  <2>1. add(b, p) = c
    BY <1>8 DEF add, c
  <2> QED  BY <1>1, <1>2, <1>8, <2>1
           DEF Good, OneBaseOf, Roles, RawIsMainOf, MainIsMediaOf, Shows
<1> QED  BY <1>1, <1>3, <1>4, <1>5, <1>6, <1>7, <1>8 DEF Kind

LEMMA BundleInitInv == Init => BundleIInv
<1> SUFFICES ASSUME Init
             PROVE  BundleIInv
  OBVIOUS
<1>1. new \in Bundle
  BY NewGood DEF Good
<1>2. taken \in Seq(Path) /\ bundles \in Seq(Bundle)
  BY DEF Init
<1>3. done \in BOOLEAN
  BY Zenon DEF Init
<1>4. current_base \in Base \cup {None} /\ current_bundle \in Bundle
  BY <1>1, Zenon DEF Init
<1>5. TypeOK
  BY <1>2, <1>3, <1>4 DEF TypeOK
<1> QED  BY <1>5, NewGood DEF Init, BundleIInv

\* Appending a good bundle to good ones.
LEMMA AppendGood ==
  ASSUME NEW s \in Seq(Bundle), \A i \in DOMAIN s : Good(s[i]), NEW b, Good(b)
  PROVE  Append(s, b) \in Seq(Bundle) /\ \A i \in DOMAIN Append(s, b) : Good(Append(s, b)[i])
<1>1. b \in Bundle
  BY DEF Good
<1>2. \A i \in 1..Len(s) + 1 : Append(s, b)[i] = IF i = Len(s) + 1 THEN b ELSE s[i]
  BY <1>1
<1> QED  BY <1>1, <1>2

LEMMA TakeInv == BundleIInv /\ (\E p \in Path : take(p)) => BundleIInv'
<1> SUFFICES ASSUME BundleIInv, NEW p \in Path, take(p)
             PROVE  BundleIInv'
  OBVIOUS
<1>1. taken' \in Seq(Path) /\ done' \in BOOLEAN /\ p.base \in Base
  BY DEF BundleIInv, TypeOK, take, Path
<1>2. CASE p.base = current_base
  <2>1. Good(add(current_bundle, p))
        /\ add(current_bundle, p).files = current_bundle.files \cup {p}
    BY <1>2, AddGood DEF BundleIInv
  <2>2. current_bundle' = add(current_bundle, p)
        /\ current_base' = current_base /\ bundles' = bundles
    BY <1>2 DEF take
  <2> QED  BY <1>1, <1>2, <2>1, <2>2 DEF BundleIInv, TypeOK, Good
<1>3. CASE p.base # current_base
  <2>1. Good(add(new, p)) /\ add(new, p).files = {p}
    BY NewGood, AddGood
  <2>2. current_bundle' = add(new, p) /\ current_base' = p.base
    BY <1>3 DEF take
  <2>3. bundles' \in Seq(Bundle) /\ \A i \in DOMAIN bundles' : Good(bundles'[i])
    BY <1>3, AppendGood DEF take, BundleIInv, TypeOK
  <2> QED  BY <1>1, <2>1, <2>2, <2>3 DEF BundleIInv, TypeOK, Good
<1> QED  BY <1>2, <1>3

LEMMA FinishInv == BundleIInv /\ finish => BundleIInv'
<1> SUFFICES ASSUME BundleIInv, finish
             PROVE  BundleIInv'
  OBVIOUS
<1>1. bundles' \in Seq(Bundle) /\ \A i \in DOMAIN bundles' : Good(bundles'[i])
  BY AppendGood DEF finish, BundleIInv, TypeOK
<1> QED  BY <1>1 DEF finish, BundleIInv, TypeOK

LEMMA BundleStepInv == BundleIInv /\ [Next]_vars => BundleIInv'
<1>1. BundleIInv /\ UNCHANGED vars => BundleIInv'
  BY DEF BundleIInv, TypeOK, vars
<1> QED  BY <1>1, TakeInv, FinishInv DEF Next

LEMMA BundleIInvHolds == Spec => []BundleIInv
  BY BundleInitInv, BundleStepInv, PTL DEF Spec

LEMMA BundlesGood == BundleIInv => \A b \in Bundles : Good(b)
  BY DEF BundleIInv, Bundles

\* Types: every bundle made is one.
THEOREM BundleTypeCorrect == Spec => []TypeOK
<1>1. BundleIInv => TypeOK
  BY DEF BundleIInv
<1> QED  BY <1>1, BundleIInvHolds, PTL

\* A bundle holds files of one base only, in its roles as well.
THEOREM OneBaseCorrect == Spec => []OneBase
<1>1. BundleIInv => OneBase
  BY BundlesGood DEF Good, OneBaseOf, OneBase
<1> QED  BY <1>1, BundleIInvHolds, PTL

\* The RAW file of a bundle is its main file, wherever it is in the list.
THEOREM RawCorrect == Spec => []RawIsMain
<1>1. BundleIInv => RawIsMain
  BY BundlesGood DEF Good, RawIsMainOf, RawIsMain
<1> QED  BY <1>1, BundleIInvHolds, PTL

\* A bundle has a main file and a type just when it has something to show.
THEOREM MainCorrect == Spec => []MainIsMedia
<1>1. BundleIInv => MainIsMedia
  BY BundlesGood DEF Good, MainIsMediaOf, MainIsMedia, Shows
<1> QED  BY <1>1, BundleIInvHolds, PTL
-----------------------------------------------------------------------------
(* The order of a directory's files.                                       *)

Has(b, kind) == \E p \in b.files : p.kind = kind
IsThe(b, p, kind) == p \in b.files /\ p.kind = kind
Lead(b) == IF Has(b, "raw") THEN "raw" ELSE IF Has(b, "image") THEN "image" ELSE "movie"

\* One file of each kind, and movies only after a picture and beside no RAW.
Lone(b) ==
  /\ \A p, q \in b.files : p.kind = q.kind /\ p.kind \notin {"other", "thumbnail"} => p = q
  /\ \A m, p \in b.files : m.kind = "movie" => p.kind # "raw" /\ (p.kind = "image" => p.at < m.at)

\* What OrderDoesNotMatter says of such a bundle, file by file.
Orderly(b) ==
  /\ IF Has(b, Lead(b)) THEN IsThe(b, b.main, Lead(b)) ELSE b.main = None
  /\ IF Lead(b) = "raw" /\ Has(b, "image") THEN IsThe(b, b.jpeg, "image") ELSE b.jpeg = None
  /\ IF Has(b, "xmp") THEN IsThe(b, b.xmp_sidecar, "xmp") ELSE b.xmp_sidecar = None
  /\ b.sidecars = {p \in b.files : p.kind = "thumbnail" \/ (p.kind = "movie" /\ Lead(b) = "image")}
  /\ b.bundle_type = IF b.jpeg # None THEN "RawJpeg"
                     ELSE IF b.main = None THEN "Unknown"
                     ELSE IF Lead(b) = "raw" THEN "Raw" ELSE IF Lead(b) = "image" THEN "Image" ELSE "Video"

InOrder(b) == IsFiniteSet(b.files) /\ (Lone(b) => Orderly(b))

\* The files of the bundle under construction are among those taken.
OrderInv ==
  /\ InOrder(current_bundle)
  /\ \A i \in DOMAIN bundles : InOrder(bundles[i])
  /\ \A p \in current_bundle.files : p.at \in Int /\ p.at <= Len(taken)

LEMMA NewInOrder == InOrder(new)
<1>1. new.files = {} /\ new.main = None /\ new.jpeg = None /\ new.xmp_sidecar = None /\ new.sidecars = {} /\ new.bundle_type = "Unknown"
  BY DEF new
<1>2. IsFiniteSet(new.files)
  BY <1>1, FS_EmptySet
<1>3. Orderly(new)
  BY <1>1 DEF Orderly, Has, Lead
<1> QED BY <1>2, <1>3 DEF InOrder

\* A file after the others keeps the bundle in order.
LEMMA AddInOrder ==
  ASSUME NEW b, Good(b), InOrder(b), NEW p \in Path, \A q \in b.files : q.base = p.base /\ q.at < p.at
  PROVE  InOrder(add(b, p))
<1> DEFINE c == [b EXCEPT !.files = @ \cup {p}]
           a == add(b, p)
<1> USE NoneIsNoPath
<1>1. /\ b \in Bundle /\ c \in Bundle /\ p.kind \in Kind
      /\ c.files = b.files \cup {p} /\ c.main = b.main /\ c.jpeg = b.jpeg
      /\ c.xmp_sidecar = b.xmp_sidecar /\ c.sidecars = b.sidecars
      /\ c.bundle_type = b.bundle_type
  BY DEF Good, Bundle, Path
<1>2. a.files = b.files \cup {p} /\ p \notin b.files
  <2>1. a.files = b.files \cup {p}
    BY AddGood
  <2>2. p.at \in Int
    BY DEF Path
  <2> QED BY <2>1, <2>2
<1>3. IsFiniteSet(a.files)
  BY <1>2, FS_AddElement DEF InOrder
<1>4. SUFFICES ASSUME Lone(a) PROVE Orderly(a)
  BY <1>3 DEF InOrder
<1>5. Lone(b)
  BY <1>2, <1>4 DEF Lone
<1>6. Orderly(b)
  BY <1>5 DEF InOrder
<1>7. \A q \in b.files : q.kind = p.kind => p.kind \in {"other", "thumbnail"}
  BY <1>2, <1>4 DEF Lone
<1>8. \A q \in b.files : (q.kind = "movie" => p.kind # "raw" /\ p.kind # "image") /\ (p.kind = "movie" => q.kind # "raw")
  <2>1. p.at \in Int /\ \A q \in b.files : q.at \in Int /\ ~(p.at < q.at)
    BY <1>1 DEF Path, Bundle
  <2> QED BY <1>2, <1>4, <2>1 DEF Lone
<1>9. \A kind : Has(a, kind) <=> Has(b, kind) \/ kind = p.kind
  BY <1>2 DEF Has
<1>10. ASSUME NEW x, NEW kind, IsThe(b, x, kind) PROVE x # None
  BY <1>1, <1>10 DEF IsThe, Bundle
<1> HIDE NoneIsNoPath
<1> HIDE DEF c
<1>11. CASE p.kind = "raw"
  <2>1. a = add_raw(c, p)
    BY <1>11 DEF add, c
  <2>2. ~Has(b, "raw") /\ ~Has(b, "movie")
    BY <1>7, <1>8, <1>11 DEF Has
  <2>3. /\ Lead(b) = IF Has(b, "image") THEN "image" ELSE "movie"
        /\ b.jpeg = None /\ (b.main # None <=> Has(b, "image"))
    <3>1. Lead(b) = IF Has(b, "image") THEN "image" ELSE "movie"
      BY <2>2 DEF Lead
    <3>2. b.jpeg = None
      BY <1>6, <2>2, <3>1 DEF Orderly
    <3>3. b.main # None <=> Has(b, "image")
      BY <1>6, <1>10, <2>2, <3>1 DEF Orderly
    <3> QED BY <3>1, <3>2, <3>3
  <2>4. /\ a.main = p /\ a.jpeg = b.main /\ a.xmp_sidecar = b.xmp_sidecar /\ a.sidecars = b.sidecars
        /\ a.bundle_type = IF b.main # None THEN "RawJpeg" ELSE "Raw"
    <3>1. CASE c.main # None
      <4>1. a = [c EXCEPT !.jpeg = c.main, !.main = p, !.bundle_type = "RawJpeg"]
        BY <1>1, <2>1, <2>3, <3>1 DEF add_raw
      <4> QED BY <1>1, <3>1, <4>1 DEF Bundle
    <3>2. CASE c.main = None
      <4>1. a = [c EXCEPT !.main = p, !.bundle_type = "Raw"]
        BY <2>1, <3>2 DEF add_raw
      <4> QED BY <1>1, <2>3, <3>2, <4>1 DEF Bundle
    <3> QED BY <3>1, <3>2
  <2>5. Lead(a) = "raw" /\ Has(a, "raw")
    BY <1>9, <1>11 DEF Lead
  <2>6. IsThe(a, a.main, "raw")
    BY <1>2, <1>11, <2>4 DEF IsThe
  <2>7. IF Has(a, "image") THEN IsThe(a, a.jpeg, "image") ELSE a.jpeg = None
    BY <1>2, <1>6, <1>9, <1>11, <2>2, <2>3, <2>4 DEF Orderly, Lead, IsThe
  <2>8. IF Has(a, "xmp") THEN IsThe(a, a.xmp_sidecar, "xmp") ELSE a.xmp_sidecar = None
    BY <1>2, <1>6, <1>9, <1>11, <2>4 DEF Orderly, IsThe
  <2>9. a.sidecars = {q \in a.files : q.kind = "thumbnail" \/ (q.kind = "movie" /\ Lead(a) = "image")}
    BY <1>2, <1>6, <1>11, <2>2, <2>4, <2>5 DEF Orderly, Has
  <2>10. a.bundle_type = IF a.jpeg # None THEN "RawJpeg" ELSE IF a.main = None THEN "Unknown" ELSE "Raw"
    BY <2>4, NoneIsNoPath
  <2> HIDE DEF a
  <2> QED BY <2>5, <2>6, <2>7, <2>8, <2>9, <2>10 DEF Orderly
<1>12. CASE p.kind = "image"
  <2>1. a = add_image(c, p)
    BY <1>12 DEF add, c
  <2>2. ~Has(b, "image") /\ ~Has(b, "movie")
    BY <1>7, <1>8, <1>12 DEF Has
  <2>3. /\ Lead(b) = IF Has(b, "raw") THEN "raw" ELSE "movie"
        /\ b.jpeg = None /\ (b.main # None <=> Has(b, "raw"))
    <3>1. Lead(b) = IF Has(b, "raw") THEN "raw" ELSE "movie"
      BY <2>2 DEF Lead
    <3>2. b.jpeg = None
      BY <1>6, <2>2, <3>1 DEF Orderly
    <3>3. b.main # None <=> Has(b, "raw")
      BY <1>6, <1>10, <2>2, <3>1 DEF Orderly
    <3> QED BY <3>1, <3>2, <3>3
  <2>4. /\ a.xmp_sidecar = b.xmp_sidecar /\ a.sidecars = b.sidecars
        /\ a.main = (IF b.main # None THEN b.main ELSE p) /\ a.jpeg = (IF b.main # None THEN p ELSE None)
        /\ a.bundle_type = IF b.main # None THEN "RawJpeg" ELSE "Image"
    <3>1. CASE c.main # None
      <4>1. a = [c EXCEPT !.jpeg = p, !.bundle_type = "RawJpeg"]
        BY <2>1, <3>1 DEF add_image
      <4> QED BY <1>1, <3>1, <4>1 DEF Bundle
    <3>2. CASE c.main = None
      <4>1. a = [c EXCEPT !.main = p, !.bundle_type = "Image"]
        BY <2>1, <3>2 DEF add_image
      <4> QED BY <1>1, <2>3, <3>2, <4>1 DEF Bundle
    <3> QED BY <3>1, <3>2
  <2>5. Lead(a) = (IF b.main # None THEN "raw" ELSE "image") /\ Has(a, Lead(a)) /\ Has(a, "image")
    BY <1>9, <1>12, <2>3 DEF Lead
  <2>6. IsThe(a, a.main, Lead(a))
    BY <1>2, <1>6, <1>12, <2>3, <2>4, <2>5 DEF IsThe, Orderly, Lead
  <2>7. IF Lead(a) = "raw" THEN IsThe(a, a.jpeg, "image") ELSE a.jpeg = None
    BY <1>2, <1>12, <2>4, <2>5 DEF IsThe
  <2>8. IF Has(a, "xmp") THEN IsThe(a, a.xmp_sidecar, "xmp") ELSE a.xmp_sidecar = None
    BY <1>2, <1>6, <1>9, <1>12, <2>4 DEF Orderly, IsThe
  <2>9. a.sidecars = {q \in a.files : q.kind = "thumbnail" \/ (q.kind = "movie" /\ Lead(a) = "image")}
    BY <1>2, <1>6, <1>12, <2>2, <2>4 DEF Orderly, Has
  <2>10. a.bundle_type = IF a.jpeg # None THEN "RawJpeg" ELSE "Image"
    BY <2>4, NoneIsNoPath
  <2>11. a.main # None /\ (a.jpeg = None => Lead(a) = "image")
    BY <2>4, <2>5, NoneIsNoPath
  <2> HIDE DEF a
  <2> QED BY <2>5, <2>6, <2>7, <2>8, <2>9, <2>10, <2>11 DEF Orderly
<1>13. CASE p.kind = "movie"
  <2>1. a = add_movie(c, p)
    BY <1>13 DEF add, c
  <2>2. ~Has(b, "raw") /\ ~Has(b, "movie")
    BY <1>7, <1>8, <1>13 DEF Has
  <2>3. /\ Lead(b) = IF Has(b, "image") THEN "image" ELSE "movie"
        /\ b.jpeg = None /\ (b.main # None <=> Has(b, "image"))
        /\ b.bundle_type = IF Has(b, "image") THEN "Image" ELSE "Unknown"
    <3>1. Lead(b) = IF Has(b, "image") THEN "image" ELSE "movie"
      BY <2>2 DEF Lead
    <3>2. b.jpeg = None
      BY <1>6, <2>2, <3>1 DEF Orderly
    <3>3. b.main # None <=> Has(b, "image")
      BY <1>6, <1>10, <2>2, <3>1 DEF Orderly
    <3>4. b.bundle_type = IF Has(b, "image") THEN "Image" ELSE "Unknown"
      BY <1>6, <3>1, <3>2, <3>3 DEF Orderly
    <3> QED BY <3>1, <3>2, <3>3, <3>4
  <2>4. ~Has(a, "raw") /\ Has(a, "movie") /\ (Has(a, "image") <=> Has(b, "image")) /\ (Has(a, "xmp") <=> Has(b, "xmp"))
    BY <1>9, <1>13, <2>2
  <2>5. CASE Has(b, "image")
    <3>1. a = [c EXCEPT !.sidecars = @ \cup {p}]
      BY <1>1, <2>1, <2>3, <2>5 DEF add_movie
    <3>2. /\ a.main = b.main /\ a.jpeg = b.jpeg /\ a.xmp_sidecar = b.xmp_sidecar /\ a.sidecars = b.sidecars \cup {p}
          /\ a.bundle_type = b.bundle_type
      BY <1>1, <3>1 DEF Bundle
    <3>3. Lead(a) = "image" /\ Lead(b) = "image"
      BY <2>2, <2>4, <2>5 DEF Lead
    <3>4. IsThe(a, a.main, "image") /\ a.main # None
      BY <1>2, <1>6, <2>3, <2>5, <3>2, <3>3 DEF IsThe, Orderly
    <3>5. IF Has(a, "xmp") THEN IsThe(a, a.xmp_sidecar, "xmp") ELSE a.xmp_sidecar = None
      BY <1>2, <1>6, <2>4, <3>2 DEF Orderly, IsThe
    <3>6. a.sidecars = {q \in a.files : q.kind = "thumbnail" \/ (q.kind = "movie" /\ Lead(a) = "image")}
      BY <1>2, <1>6, <1>13, <3>2, <3>3 DEF Orderly
    <3> HIDE DEF a
    <3> QED BY <2>3, <2>4, <2>5, <3>2, <3>3, <3>4, <3>5, <3>6 DEF Orderly
  <2>6. CASE ~Has(b, "image")
    <3>1. a = [c EXCEPT !.main = p, !.bundle_type = "Video"]
      BY <1>1, <2>1, <2>3, <2>6 DEF add_movie
    <3>2. /\ a.main = p /\ a.jpeg = b.jpeg /\ a.xmp_sidecar = b.xmp_sidecar /\ a.sidecars = b.sidecars
          /\ a.bundle_type = "Video"
      BY <1>1, <3>1 DEF Bundle
    <3>3. Lead(a) = "movie" /\ Lead(b) = "movie"
      BY <2>2, <2>4, <2>6 DEF Lead
    <3>4. IsThe(a, a.main, "movie") /\ a.main # None
      BY <1>2, <1>13, <3>2, NoneIsNoPath DEF IsThe
    <3>5. IF Has(a, "xmp") THEN IsThe(a, a.xmp_sidecar, "xmp") ELSE a.xmp_sidecar = None
      BY <1>2, <1>6, <2>4, <3>2 DEF Orderly, IsThe
    <3>6. a.sidecars = {q \in a.files : q.kind = "thumbnail" \/ (q.kind = "movie" /\ Lead(a) = "image")}
      BY <1>2, <1>6, <1>13, <3>2, <3>3 DEF Orderly
    <3> HIDE DEF a
    <3> QED BY <2>3, <2>4, <2>6, <3>2, <3>3, <3>4, <3>5, <3>6 DEF Orderly
  <2> QED BY <2>5, <2>6
<1>14. ASSUME p.kind \in {"xmp", "thumbnail", "other"}
       PROVE  Lead(a) = Lead(b) /\ (Has(a, Lead(a)) <=> Has(b, Lead(b))) /\ (Has(a, "image") <=> Has(b, "image"))
  BY <1>9, <1>14 DEF Lead
<1>15. ASSUME NEW x, NEW kind, IsThe(b, x, kind) PROVE IsThe(a, x, kind)
  BY <1>2, <1>15 DEF IsThe
<1>16. CASE p.kind = "xmp"
  <2>1. a = [c EXCEPT !.xmp_sidecar = p]
    BY <1>16 DEF add, c
  <2>2. /\ a.main = b.main /\ a.jpeg = b.jpeg /\ a.xmp_sidecar = p /\ a.sidecars = b.sidecars
        /\ a.bundle_type = b.bundle_type
    BY <1>1, <2>1 DEF Bundle
  <2>3. IsThe(a, a.xmp_sidecar, "xmp") /\ Has(a, "xmp")
    BY <1>2, <1>9, <1>16, <2>2 DEF IsThe
  <2>4. a.sidecars = {q \in a.files : q.kind = "thumbnail" \/ (q.kind = "movie" /\ Lead(a) = "image")}
    BY <1>2, <1>6, <1>14, <1>16, <2>2 DEF Orderly
  <2> HIDE DEF a
  <2> QED BY <1>6, <1>14, <1>15, <1>16, <2>2, <2>3, <2>4 DEF Orderly
<1>17. CASE p.kind = "thumbnail"
  <2>1. a = [c EXCEPT !.sidecars = @ \cup {p}]
    BY <1>17 DEF add, c
  <2>2. /\ a.main = b.main /\ a.jpeg = b.jpeg /\ a.xmp_sidecar = b.xmp_sidecar /\ a.sidecars = b.sidecars \cup {p}
        /\ a.bundle_type = b.bundle_type
    BY <1>1, <2>1 DEF Bundle
  <2>3. Has(a, "xmp") <=> Has(b, "xmp")
    BY <1>9, <1>17
  <2>4. a.sidecars = {q \in a.files : q.kind = "thumbnail" \/ (q.kind = "movie" /\ Lead(a) = "image")}
    BY <1>2, <1>6, <1>14, <1>17, <2>2 DEF Orderly
  <2> HIDE DEF a
  <2> QED BY <1>6, <1>14, <1>15, <1>17, <2>2, <2>3, <2>4 DEF Orderly
<1>18. CASE p.kind = "other"
  <2>1. a = c
    BY <1>18 DEF add, c
  <2>2. /\ a.main = b.main /\ a.jpeg = b.jpeg /\ a.xmp_sidecar = b.xmp_sidecar /\ a.sidecars = b.sidecars
        /\ a.bundle_type = b.bundle_type
    BY <1>1, <2>1
  <2>3. Has(a, "xmp") <=> Has(b, "xmp")
    BY <1>9, <1>18
  <2>4. a.sidecars = {q \in a.files : q.kind = "thumbnail" \/ (q.kind = "movie" /\ Lead(a) = "image")}
    BY <1>2, <1>6, <1>14, <1>18, <2>2 DEF Orderly
  <2> HIDE DEF a
  <2> QED BY <1>6, <1>14, <1>15, <1>18, <2>2, <2>3, <2>4 DEF Orderly
<1> QED BY <1>1, <1>11, <1>12, <1>13, <1>16, <1>17, <1>18 DEF Kind

LEMMA AppendInOrder ==
  ASSUME NEW s \in Seq(Bundle), \A i \in DOMAIN s : InOrder(s[i]), NEW b \in Bundle, InOrder(b)
  PROVE  \A i \in DOMAIN Append(s, b) : InOrder(Append(s, b)[i])
<1>1. DOMAIN s = 1..Len(s) /\ DOMAIN Append(s, b) = 1..Len(s) + 1
  OBVIOUS
<1>2. \A i \in 1..Len(s) + 1 : Append(s, b)[i] = IF i = Len(s) + 1 THEN b ELSE s[i]
  OBVIOUS
<1> QED BY <1>1, <1>2

LEMMA TakeInOrder == BundleIInv /\ OrderInv /\ (\E p \in Path : take(p)) => OrderInv'
<1> SUFFICES ASSUME BundleIInv, OrderInv, NEW p \in Path, take(p)
             PROVE  OrderInv'
  OBVIOUS
<1>1. p.at \in Int /\ p.at = Len(taken) + 1 /\ Len(taken) \in Nat
  BY DEF take, Sorted, Path, BundleIInv, TypeOK
<1>2. Len(taken') = Len(taken) + 1
  BY DEF take, BundleIInv, TypeOK
<1>3. CASE p.base = current_base
  <2>1. current_bundle' = add(current_bundle, p) /\ bundles' = bundles
    BY <1>3 DEF take
  <2>2. \A q \in current_bundle.files : q.base = p.base /\ q.at \in Int /\ q.at < p.at
    BY <1>1, <1>3 DEF OrderInv, BundleIInv
  <2>3. Good(current_bundle)
    BY DEF BundleIInv
  <2>4. InOrder(add(current_bundle, p))
    BY <2>2, <2>3, AddInOrder DEF OrderInv
  <2>5. add(current_bundle, p).files = current_bundle.files \cup {p}
    BY <2>2, <2>3, AddGood
  <2>6. \A q \in current_bundle.files \cup {p} : q.at \in Int /\ q.at <= Len(taken')
    BY <1>1, <1>2 DEF OrderInv
  <2> QED BY <2>1, <2>4, <2>5, <2>6 DEF OrderInv
<1>4. CASE p.base # current_base
  <2>1. current_bundle' = add(new, p)
    BY <1>4 DEF take
  <2>2. InOrder(add(new, p))
    BY NewGood, NewInOrder, AddInOrder
  <2>3. add(new, p).files = {p}
    BY NewGood, AddGood
  <2>4. \A i \in DOMAIN bundles' : InOrder(bundles'[i])
    <3>1. bundles' = bundles \/ bundles' = Append(bundles, current_bundle)
      BY <1>4 DEF take
    <3>2. \A i \in DOMAIN Append(bundles, current_bundle) : InOrder(Append(bundles, current_bundle)[i])
      BY AppendInOrder DEF OrderInv, BundleIInv, TypeOK
    <3> QED BY <3>1, <3>2 DEF OrderInv
  <2> QED BY <1>1, <1>2, <2>1, <2>2, <2>3, <2>4 DEF OrderInv
<1> QED BY <1>3, <1>4

LEMMA FinishInOrder == BundleIInv /\ OrderInv /\ finish => OrderInv'
<1> SUFFICES ASSUME BundleIInv, OrderInv, finish
             PROVE  OrderInv'
  OBVIOUS
<1>1. \A i \in DOMAIN Append(bundles, current_bundle) : InOrder(Append(bundles, current_bundle)[i])
  BY AppendInOrder DEF OrderInv, BundleIInv, TypeOK
<1>2. bundles' = bundles \/ bundles' = Append(bundles, current_bundle)
  BY DEF finish
<1> QED BY <1>1, <1>2 DEF OrderInv, finish

LEMMA OrderInvHolds == Spec => []OrderInv
<1>1. Init => OrderInv
  BY NewInOrder, NewGood DEF Init, OrderInv
<1>2. OrderInv /\ UNCHANGED vars => OrderInv'
  BY DEF OrderInv, vars
<1>3. BundleIInv /\ OrderInv /\ [Next]_vars => OrderInv'
  BY <1>2, TakeInOrder, FinishInOrder DEF Next
<1> QED BY <1>1, <1>3, BundleIInvHolds, PTL DEF Spec

\* With one file of each kind, and movies only beside a picture that comes
\* before them, what a bundle is depends on its files alone, whatever the
\* order of their extensions.
THEOREM OrderCorrect == Spec => []OrderDoesNotMatter
<1>1. ASSUME BundleIInv, OrderInv, NEW b \in Bundles,
             \A kind \in Kind \ {"other", "thumbnail"} : Cardinality({p \in b.files : p.kind = kind}) <= 1,
             \A m \in {p \in b.files : p.kind = "movie"} :
               {p \in b.files : p.kind = "raw"} = {}
               /\ \A p \in {q \in b.files : q.kind = "image"} : p.at < m.at
      PROVE  Lone(b) /\ Orderly(b)
  <2>1. InOrder(b)
    BY <1>1 DEF OrderInv, Bundles
  <2>2. ASSUME NEW p \in b.files, NEW q \in b.files, p.kind = q.kind, p.kind \in Kind \ {"other", "thumbnail"}
        PROVE  p = q
    <3> DEFINE K == {r \in b.files : r.kind = p.kind}
    <3>1. IsFiniteSet(K)
      BY <2>1, FS_Subset DEF InOrder
    <3>2. Cardinality(K) <= 1 /\ p \in K /\ q \in K
      BY <1>1, <2>2
    <3>3. Cardinality(K) \in Nat /\ Cardinality(K) # 0
      BY <3>1, <3>2, FS_CardinalityType, FS_EmptySet
    <3>4. Cardinality(K) = 1
      BY <3>2, <3>3
    <3>5. PICK x : K = {x}
      BY <3>1, <3>4, FS_Singleton
    <3> QED BY <3>2, <3>5
  <2>3. \A p \in b.files : p.kind \in Kind
    BY <1>1, BundlesGood DEF Good, Bundle, Path
  <2>4. Lone(b)
    BY <1>1, <2>2, <2>3 DEF Lone
  <2> QED BY <2>1, <2>4 DEF InOrder
<1>2. ASSUME BundleIInv, OrderInv PROVE OrderDoesNotMatter
  <2> DEFINE of(b, kind) == {p \in b.files : p.kind = kind}
             only(S) == IF S = {} THEN None ELSE CHOOSE p \in S : TRUE
  <2>1. ASSUME NEW b, NEW x, NEW kind \in Kind \ {"other", "thumbnail"}, Lone(b),
               IF Has(b, kind) THEN IsThe(b, x, kind) ELSE x = None
        PROVE  x = only(of(b, kind))
    <3>1. CASE Has(b, kind)
      <4>1. of(b, kind) = {x}
        BY <2>1, <3>1 DEF Lone, IsThe
      <4> QED BY <4>1
    <3>2. CASE ~Has(b, kind)
      <4>1. of(b, kind) = {}
        BY <3>2 DEF Has
      <4> QED BY <2>1, <3>2, <4>1
    <3> QED BY <3>1, <3>2
  <2>2. \A b, kind : Has(b, kind) <=> of(b, kind) # {}
    BY DEF Has
  <2>3. ASSUME NEW b, Lone(b), Orderly(b)
        PROVE  /\ Lead(b) = IF of(b, "raw") # {} THEN "raw" ELSE IF of(b, "image") # {} THEN "image" ELSE "movie"
               /\ b.main = only(of(b, Lead(b)))
               /\ b.jpeg = IF Lead(b) = "raw" THEN only(of(b, "image")) ELSE None
               /\ b.xmp_sidecar = only(of(b, "xmp"))
               /\ b.sidecars = of(b, "thumbnail") \cup (IF Lead(b) = "image" THEN of(b, "movie") ELSE {})
               /\ b.bundle_type = IF b.jpeg # None THEN "RawJpeg"
                                  ELSE IF b.main = None THEN "Unknown"
                                  ELSE [raw |-> "Raw", image |-> "Image", movie |-> "Video"][Lead(b)]
    <3>1. Lead(b) = IF of(b, "raw") # {} THEN "raw" ELSE IF of(b, "image") # {} THEN "image" ELSE "movie"
      BY <2>2 DEF Lead
    <3>2. Lead(b) \in {"raw", "image", "movie"}
      BY <3>1
    <3>3. /\ {"raw", "image", "movie", "xmp"} \subseteq Kind \ {"other", "thumbnail"}
          /\ Lead(b) \in Kind \ {"other", "thumbnail"}
      BY <3>2 DEF Kind
    <3>4. b.main = only(of(b, Lead(b)))
      <4>1. IF Has(b, Lead(b)) THEN IsThe(b, b.main, Lead(b)) ELSE b.main = None
        BY <2>3 DEF Orderly
      <4> HIDE DEF of, only
      <4> QED BY <2>1, <2>3, <3>3, <4>1
    <3>5. b.jpeg = IF Lead(b) = "raw" THEN only(of(b, "image")) ELSE None
      <4>1. IF Lead(b) = "raw" /\ Has(b, "image") THEN IsThe(b, b.jpeg, "image") ELSE b.jpeg = None
        BY <2>3 DEF Orderly
      <4> HIDE DEF of, only
      <4> QED BY <2>1, <2>3, <3>3, <4>1
    <3>6. b.xmp_sidecar = only(of(b, "xmp"))
      <4>1. IF Has(b, "xmp") THEN IsThe(b, b.xmp_sidecar, "xmp") ELSE b.xmp_sidecar = None
        BY <2>3 DEF Orderly
      <4> HIDE DEF of, only
      <4> QED BY <2>1, <2>3, <3>3, <4>1
    <3>7. b.sidecars = of(b, "thumbnail") \cup (IF Lead(b) = "image" THEN of(b, "movie") ELSE {})
      BY <2>3 DEF Orderly
    <3>8. b.bundle_type = IF b.jpeg # None THEN "RawJpeg"
                          ELSE IF b.main = None THEN "Unknown"
                          ELSE [raw |-> "Raw", image |-> "Image", movie |-> "Video"][Lead(b)]
      BY <2>3, <3>2 DEF Orderly
    <3> HIDE DEF of, only
    <3> QED BY <3>1, <3>4, <3>5, <3>6, <3>7, <3>8
  <2>4. ASSUME NEW b \in Bundles,
               \A kind \in Kind \ {"other", "thumbnail"} : Cardinality(of(b, kind)) <= 1,
               \A m \in of(b, "movie") : of(b, "raw") = {} /\ \A p \in of(b, "image") : p.at < m.at
        PROVE  LET first == IF of(b, "raw") # {} THEN "raw" ELSE IF of(b, "image") # {} THEN "image" ELSE "movie"
               IN  /\ b.main = only(of(b, first))
                   /\ b.jpeg = IF first = "raw" THEN only(of(b, "image")) ELSE None
                   /\ b.xmp_sidecar = only(of(b, "xmp"))
                   /\ b.sidecars = of(b, "thumbnail") \cup (IF first = "image" THEN of(b, "movie") ELSE {})
                   /\ b.bundle_type = IF b.jpeg # None THEN "RawJpeg"
                                      ELSE IF b.main = None THEN "Unknown"
                                      ELSE [raw |-> "Raw", image |-> "Image", movie |-> "Video"][first]
    <3>1. Lone(b) /\ Orderly(b)
      BY <1>1, <1>2, <2>4
    <3> HIDE DEF of, only
    <3> QED BY <2>3, <3>1
  <2> QED BY <2>4 DEF OrderDoesNotMatter
<1> QED BY <1>2, BundleIInvHolds, OrderInvHolds, PTL

-----------------------------------------------------------------------------
(* Commands: what the history and the queue lead to.                       *)

Record == [Property -> Int]
SetOp == [op : {"set_metadata"}, file : Picture, property : Property, value : Int]
MoveOp == {o \in [op : {"move"}, file : Picture, from : Container, to : Container] : o.from # o.to}
Command == SetOp \cup MoveOp
Operation == Command \cup [op : {"query_folder_content"}, file : {Nothing}]
MoveNotice == {n \in [n : {"FileMoved"}, file : Picture, from : Container, to : Container] : n.from # n.to}
Notice ==
  [n : {"MetadataChanged"}, file : Picture, property : Property, value : Int]
  \cup MoveNotice
  \cup [n : {"FolderContentQueried"}, content : UNION {[D -> Record] : D \in SUBSET Picture}]

\* What a change is of, a file's property or its folder, and what it makes of it.
KeyOf(o) == <<o.file, IF o.op = "move" THEN "folder" ELSE o.property>>
Says(o) == IF o.op = "move" THEN o.to ELSE o.value
Keys == Picture \X (Property \cup {"folder"})
Values == Int \cup Container

Transaction ==
  {t \in [redo : Command, undo : Command] :
     /\ KeyOf(t.redo) = KeyOf(t.undo) /\ t.redo.op = t.undo.op
     /\ t.redo.op = "move" => t.redo.from = t.undo.to /\ t.undo.from = t.redo.to}

CommandsTyped ==
  /\ stored \in [Picture -> Record] /\ folder_of \in [Picture -> Container]
  /\ DOMAIN rows \subseteq Picture /\ rows \in [DOMAIN rows -> Record]
  /\ counts \in [Container -> Int]
  /\ selection # Nothing => selection \in DOMAIN rows
  /\ sent \in Seq(Operation) /\ told \in Seq(Notice)
  /\ undos \in Seq(Transaction) /\ redos \in Seq(Transaction)
  /\ hasty \subseteq Picture

LEMMA MenuTyped == \A m \in Menu : m.property \in Property /\ m.value \in Int
  BY DEF Menu, Item, Property

LEMMA SetIs ==
  ASSUME NEW f \in Picture, NEW p \in Property, NEW u \in Int, NEW v \in Int
  PROVE  /\ Set(f, p, u, v) \in Transaction
         /\ Set(f, p, u, v).redo \in Command /\ KeyOf(Set(f, p, u, v).redo) = <<f, p>> /\ Set(f, p, u, v).redo.op = "set_metadata"
         /\ Says(Set(f, p, u, v).redo) = v /\ Says(Set(f, p, u, v).undo) = u /\ Set(f, p, u, v).undo.value = u
<1> DEFINE r == [op |-> "set_metadata", file |-> f, property |-> p, value |-> v]
           w == [op |-> "set_metadata", file |-> f, property |-> p, value |-> u]
<1>1. Set(f, p, u, v) = [redo |-> r, undo |-> w]
  BY DEF Set, UndoTransaction
<1>2. r \in Command /\ w \in Command
  BY DEF Command, SetOp
<1>3. KeyOf(r) = <<f, p>> /\ KeyOf(w) = <<f, p>> /\ Says(r) = v /\ Says(w) = u /\ r.op = "set_metadata" /\ w.op = "set_metadata" /\ w.value = u
  BY DEF KeyOf, Says
<1> HIDE DEF r, w
<1> QED BY <1>1, <1>2, <1>3 DEF Transaction

LEMMA MoveIs ==
  ASSUME NEW f \in Picture
  PROVE  /\ Move(f, "roll", "trash") \in Transaction
         /\ Move(f, "roll", "trash").redo \in Command /\ KeyOf(Move(f, "roll", "trash").redo) = <<f, "folder">>
         /\ Move(f, "roll", "trash").redo.op = "move" /\ Move(f, "roll", "trash").redo.from = "roll"
         /\ Says(Move(f, "roll", "trash").redo) = "trash" /\ Says(Move(f, "roll", "trash").undo) = "roll"
<1> DEFINE r == [op |-> "move", file |-> f, from |-> "roll", to |-> "trash"]
           w == [op |-> "move", file |-> f, from |-> "trash", to |-> "roll"]
<1>1. Move(f, "roll", "trash") = [redo |-> r, undo |-> w]
  BY DEF Move, UndoTransaction
<1>2. r \in Command /\ w \in Command
  BY DEF Command, MoveOp, Container
<1>3. /\ KeyOf(r) = <<f, "folder">> /\ KeyOf(w) = <<f, "folder">> /\ Says(r) = "trash" /\ Says(w) = "roll" /\ r.op = "move" /\ w.op = "move"
      /\ r.from = "roll" /\ r.to = "trash" /\ w.from = "trash" /\ w.to = "roll"
  BY DEF KeyOf, Says
<1> HIDE DEF r, w
<1> QED BY <1>1, <1>2, <1>3 DEF Transaction

\* What is said is a value, of a key.
LEMMA CommandSays ==
  ASSUME NEW o \in Command
  PROVE  KeyOf(o) \in Keys /\ Says(o) \in Values /\ o \in Operation /\ o.file \in Picture
<1>1. CASE o \in SetOp
  BY <1>1 DEF SetOp, KeyOf, Says, Keys, Values, Operation, Command
<1>2. CASE o \in MoveOp
  BY <1>2 DEF MoveOp, KeyOf, Says, Keys, Values, Operation, Command
<1> QED BY <1>1, <1>2 DEF Command

LEMMA TransactionIs ==
  ASSUME NEW t \in Transaction
  PROVE  /\ t.redo \in Command /\ t.undo \in Command /\ KeyOf(t.redo) = KeyOf(t.undo) /\ t.redo.op = t.undo.op
         /\ Says(t.redo) \in Values /\ Says(t.undo) \in Values
         /\ t.redo.op = "move" => t.redo.from = Says(t.undo) /\ t.undo.from = Says(t.redo)
<1>1. /\ t.redo \in Command /\ t.undo \in Command /\ KeyOf(t.redo) = KeyOf(t.undo) /\ t.redo.op = t.undo.op
      /\ t.redo.op = "move" => t.redo.from = t.undo.to /\ t.undo.from = t.redo.to
  BY DEF Transaction
<1>2. t.redo.op = "move" => Says(t.redo) = t.redo.to /\ Says(t.undo) = t.undo.to
  BY <1>1 DEF Says
<1> QED BY <1>1, <1>2, CommandSays

\* What the commands of the user send.
Sends(t) ==
  /\ t \in Transaction /\ sent' = Append(sent, t.redo)
  /\ undos' = <<t>> \o undos /\ redos' = <<>>
  /\ UNCHANGED <<stored, folder_of, rows, counts, selection, told>>

LEMMA PropertySends ==
  ASSUME CommandsTyped, NEW p \in Property, NEW v \in Int, set_property(p, v)
  PROVE  /\ selection \in Picture /\ rows[selection][p] \in Int
         /\ Sends(Set(selection, p, rows[selection][p], v))
         /\ hasty' \in {hasty, hasty \cup {selection}}
<1>1. selection \in DOMAIN rows /\ selection \in Picture
  BY DEF set_property, CommandsTyped
<1>2. rows[selection] \in Record
  BY <1>1 DEF CommandsTyped
<1>3. rows[selection][p] \in Int
  BY <1>2 DEF Record
<1>4. Set(selection, p, rows[selection][p], v) \in Transaction
  BY <1>1, <1>3, SetIs
<1>5. execute(Set(selection, p, rows[selection][p], v)) /\ UNCHANGED <<library, views, told>>
  BY DEF set_property
<1>6. hasty' \in {hasty, hasty \cup {selection}}
  BY DEF set_property
<1> QED BY <1>1, <1>3, <1>4, <1>5, <1>6 DEF Sends, execute, library, views

LEMMA TrashSends ==
  ASSUME CommandsTyped, move_to_trash
  PROVE  selection \in Picture /\ Sends(Move(selection, "roll", "trash")) /\ hasty' \in {hasty, hasty \cup {selection}}
<1>1. selection \in Picture
  BY DEF move_to_trash, CommandsTyped
<1>2. Move(selection, "roll", "trash") \in Transaction
  BY <1>1, MoveIs
<1> QED BY <1>1, <1>2 DEF move_to_trash, Sends, execute, library, views

LEMMA SendsTyped ==
  ASSUME CommandsTyped, NEW t, Sends(t), hasty' \in {hasty, hasty \cup {selection}}, selection \in Picture
  PROVE  CommandsTyped'
<1>1. t \in Transaction /\ t.redo \in Operation
  BY TransactionIs, CommandSays DEF Sends
<1>2. sent' \in Seq(Operation) /\ undos' \in Seq(Transaction) /\ redos' \in Seq(Transaction)
  <2>1. sent \in Seq(Operation) /\ undos \in Seq(Transaction)
    BY DEF CommandsTyped
  <2>2. sent' = Append(sent, t.redo) /\ undos' = <<t>> \o undos /\ redos' = <<>>
    BY DEF Sends
  <2>3. Append(sent, t.redo) \in Seq(Operation)
    BY <1>1, <2>1
  <2>4. <<t>> \o undos \in Seq(Transaction)
    BY <1>1, <2>1
  <2> QED BY <2>2, <2>3, <2>4
<1>3. hasty' \subseteq Picture
  BY DEF CommandsTyped
<1> QED BY <1>2, <1>3 DEF Sends, CommandsTyped

LEMMA CommandsTypedInit == CommandsInit => CommandsTyped
<1> SUFFICES ASSUME CommandsInit PROVE CommandsTyped
  OBVIOUS
<1>1. stored \in [Picture -> Record] /\ rows = stored
  BY DEF CommandsInit, Unset, Record
<1>2. folder_of \in [Picture -> Container]
  BY DEF CommandsInit, Container
<1>3. counts \in [Container -> Int]
  <2>1. \A c : In(c) \in SUBSET Picture
    BY DEF In
  <2>2. \A c : Cardinality(In(c)) \in Nat
    BY <2>1, FS_Subset, FS_CardinalityType, CommandsAssumption
  <2>3. counts = [c \in Container |-> Cardinality(In(c))]
    BY DEF CommandsInit
  <2> HIDE DEF In
  <2> QED BY <2>2, <2>3
<1> QED BY <1>1, <1>2, <1>3 DEF CommandsInit, CommandsTyped

LEMMA CommandsTypedStep == CommandsTyped /\ [CommandsNext]_commands => CommandsTyped'
<1> SUFFICES ASSUME CommandsTyped, [CommandsNext]_commands PROVE CommandsTyped'
  OBVIOUS
<1> USE DEF library, views, histories
<1>1. CASE \E f \in Picture : select(f)
  BY <1>1 DEF select, CommandsTyped
<1>2. ASSUME NEW p \in Property, NEW v \in Int, set_property(p, v) PROVE CommandsTyped'
  BY <1>2, PropertySends, SendsTyped
<1>3. CASE \E m \in Menu : menu(m) \/ context_menu(m)
  BY <1>2, <1>3, MenuTyped DEF menu, context_menu
<1>4. CASE \E f \in Picture : on_rating_changed(f, 1)
  BY <1>2, <1>4 DEF on_rating_changed, Property
<1>5. CASE move_to_trash
  BY <1>5, TrashSends, SendsTyped
<1>6. CASE undo_command
  <2>1. undos \in Seq(Transaction) /\ undos # <<>> /\ redos \in Seq(Transaction) /\ sent \in Seq(Operation)
    BY <1>6 DEF undo_command, CommandsTyped
  <2>2. Head(undos) \in Transaction /\ Tail(undos) \in Seq(Transaction)
    BY <2>1
  <2>3. Head(undos).undo \in Operation
    BY <2>2, TransactionIs, CommandSays
  <2>4. <<Head(undos)>> \o redos \in Seq(Transaction) /\ Append(sent, Head(undos).undo) \in Seq(Operation)
    BY <2>1, <2>2, <2>3
  <2> QED BY <1>6, <2>2, <2>4 DEF undo_command, CommandsTyped
<1>7. CASE redo_command
  <2>1. redos \in Seq(Transaction) /\ redos # <<>> /\ undos \in Seq(Transaction) /\ sent \in Seq(Operation)
    BY <1>7 DEF redo_command, CommandsTyped
  <2>2. Head(redos) \in Transaction /\ Tail(redos) \in Seq(Transaction)
    BY <2>1
  <2>3. Head(redos).redo \in Operation
    BY <2>2, TransactionIs, CommandSays
  <2>4. <<Head(redos)>> \o undos \in Seq(Transaction) /\ Append(sent, Head(redos).redo) \in Seq(Operation)
    BY <2>1, <2>2, <2>3
  <2> QED BY <1>7, <2>2, <2>4 DEF redo_command, CommandsTyped
<1>8. CASE reselect
  <2>1. [op |-> "query_folder_content", file |-> Nothing] \in Operation
    BY DEF Operation
  <2>2. Append(sent, [op |-> "query_folder_content", file |-> Nothing]) \in Seq(Operation)
    BY <2>1 DEF CommandsTyped
  <2> QED BY <1>8, <2>2 DEF reselect, CommandsTyped
<1>9. ASSUME NEW op, Perform(op)
      PROVE  Head(sent) \in Operation /\ Head(sent).op = op /\ sent' \in Seq(Operation) /\ sent # <<>> /\ sent' = Tail(sent)
  <2>1. sent \in Seq(Operation) /\ sent # <<>>
    BY <1>9 DEF Perform, CommandsTyped
  <2>2. Head(sent) \in Operation /\ Tail(sent) \in Seq(Operation)
    BY <2>1
  <2> QED BY <1>9, <2>1, <2>2 DEF Perform
<1>10. CASE set_metadata
  <2> DEFINE o == Head(sent)
             n == [n |-> "MetadataChanged", file |-> o.file, property |-> o.property, value |-> o.value]
  <2>1. o \in Operation /\ o.op = "set_metadata" /\ sent' \in Seq(Operation)
    BY <1>9, <1>10 DEF set_metadata
  <2>2. o.file \in Picture /\ o.property \in Property /\ o.value \in Int
    BY <2>1 DEF Operation, Command, SetOp, MoveOp
  <2>3. n \in Notice
    BY <2>2 DEF Notice
  <2>4. stored' = [stored EXCEPT ![o.file][o.property] = o.value] /\ told' = Append(told, n)
    BY <1>10 DEF set_metadata
  <2> HIDE DEF n, o
  <2>5. told' \in Seq(Notice)
    BY <2>3, <2>4 DEF CommandsTyped
  <2>6. stored' \in [Picture -> Record]
    <3>1. stored \in [Picture -> [Property -> Int]]
      BY DEF CommandsTyped, Record
    <3> QED BY <2>2, <2>4, <3>1 DEF Record
  <2> QED BY <1>10, <2>1, <2>5, <2>6 DEF set_metadata, CommandsTyped
<1>11. CASE move_file_to_folder
  <2> DEFINE o == Head(sent)
             n == [n |-> "FileMoved", file |-> o.file, from |-> o.from, to |-> o.to]
  <2>1. o \in Operation /\ o.op = "move" /\ sent' \in Seq(Operation)
    BY <1>9, <1>11 DEF move_file_to_folder
  <2>2. o.file \in Picture /\ o.from \in Container /\ o.to \in Container /\ o.from # o.to
    BY <2>1 DEF Operation, Command, SetOp, MoveOp
  <2>3. n \in Notice
    BY <2>2 DEF Notice, MoveNotice
  <2>4. folder_of' = [folder_of EXCEPT ![o.file] = o.to] /\ told' = Append(told, n)
    BY <1>11 DEF move_file_to_folder
  <2> HIDE DEF n, o
  <2>5. told' \in Seq(Notice) /\ folder_of' \in [Picture -> Container]
    BY <2>2, <2>3, <2>4 DEF CommandsTyped
  <2> QED BY <1>11, <2>1, <2>5 DEF move_file_to_folder, CommandsTyped
<1>12. CASE query_folder_content
  <2> DEFINE c == [f \in In("roll") |-> stored[f]]
             n == [n |-> "FolderContentQueried", content |-> c]
  <2>1. sent' \in Seq(Operation) /\ told' = Append(told, n)
    BY <1>9, <1>12 DEF query_folder_content
  <2>2. In("roll") \in SUBSET Picture
    BY DEF In
  <2>3. c \in [In("roll") -> Record]
    BY <2>2 DEF CommandsTyped
  <2> HIDE DEF c
  <2>4. n \in Notice
    BY <2>2, <2>3 DEF Notice
  <2> HIDE DEF n
  <2>5. told' \in Seq(Notice)
    BY <2>1, <2>4 DEF CommandsTyped
  <2> QED BY <1>12, <2>1, <2>5 DEF query_folder_content, CommandsTyped
<1>13. ASSUME NEW m, Notified(m) PROVE Head(told) \in Notice /\ Head(told).n = m /\ told' \in Seq(Notice)
  <2>1. told \in Seq(Notice) /\ told # <<>>
    BY <1>13 DEF Notified, CommandsTyped
  <2>2. Head(told) \in Notice /\ Tail(told) \in Seq(Notice)
    BY <2>1
  <2> QED BY <1>13, <2>1, <2>2 DEF Notified
<1>14. CASE set_row_property
  <2> DEFINE c == Head(told)
  <2>1. c \in Notice /\ c.n = "MetadataChanged" /\ told' \in Seq(Notice)
    BY <1>13, <1>14 DEF set_row_property
  <2>2. c.property \in Property /\ c.value \in Int
    BY <2>1 DEF Notice, MoveNotice
  <2>3. rows' = IF c.file \in DOMAIN rows THEN [rows EXCEPT ![c.file][c.property] = c.value] ELSE rows
    BY <1>14 DEF set_row_property
  <2> HIDE DEF c
  <2>4. DOMAIN rows' = DOMAIN rows /\ rows' \in [DOMAIN rows' -> Record]
    <3>1. rows \in [DOMAIN rows -> [Property -> Int]]
      BY DEF CommandsTyped, Record
    <3>2. CASE c.file \in DOMAIN rows
      <4>1. rows' = [rows EXCEPT ![c.file][c.property] = c.value]
        BY <2>3, <3>2
      <4> QED BY <2>2, <3>1, <3>2, <4>1 DEF Record
    <3>3. CASE c.file \notin DOMAIN rows
      BY <2>3, <3>1, <3>3 DEF Record
    <3> QED BY <3>2, <3>3
  <2> QED BY <1>14, <2>1, <2>4 DEF set_row_property, CommandsTyped
<1>15. CASE file_moved
  <2> DEFINE m == Head(told)
             gone == IF m.from = "roll" THEN {m.file} ELSE {}
  <2>1. m \in Notice /\ m.n = "FileMoved" /\ told' \in Seq(Notice)
    BY <1>13, <1>15 DEF file_moved
  <2>2. m.from \in Container /\ m.to \in Container /\ m.from # m.to
    BY <2>1 DEF Notice, MoveNotice
  <2>3. /\ rows' = [f \in DOMAIN rows \ gone |-> rows[f]]
        /\ selection' = IF selection \in gone THEN Nothing ELSE selection
        /\ counts' = [counts EXCEPT ![m.from] = @ - 1, ![m.to] = @ + 1]
    BY <1>15 DEF file_moved, count_change
  <2> HIDE DEF m, gone
  <2>4. counts' \in [Container -> Int]
    BY <2>2, <2>3 DEF CommandsTyped
  <2>5. DOMAIN rows' \subseteq Picture /\ rows' \in [DOMAIN rows' -> Record] /\ (selection' # Nothing => selection' \in DOMAIN rows')
    BY <2>3 DEF CommandsTyped
  <2> QED BY <1>15, <2>1, <2>4, <2>5 DEF file_moved, CommandsTyped
<1>16. CASE folder_content
  <2>1. Head(told) \in Notice /\ Head(told).n = "FolderContentQueried" /\ told' \in Seq(Notice)
    BY <1>13, <1>16 DEF folder_content
  <2>2. Head(told).content \in UNION {[D -> Record] : D \in SUBSET Picture}
    BY <2>1 DEF Notice, MoveNotice
  <2>3. rows' = Head(told).content /\ selection' = Nothing
    BY <1>16 DEF folder_content
  <2>4. DOMAIN rows' \subseteq Picture /\ rows' \in [DOMAIN rows' -> Record]
    BY <2>2, <2>3
  <2> QED BY <1>16, <2>1, <2>3, <2>4 DEF folder_content, CommandsTyped
<1>17. CASE UNCHANGED commands
  BY <1>17 DEF commands, CommandsTyped
<1> QED BY <1>1, <1>3, <1>4, <1>5, <1>6, <1>7, <1>8, <1>10, <1>11, <1>12, <1>14, <1>15, <1>16, <1>17 DEF CommandsNext

\* What there is of a key now, and what each operation that is sent, each
\* transaction undone and each redone makes of it.
Have(k) == IF k[2] = "folder" THEN folder_of[k[1]] ELSE stored[k[1]][k[2]]

Pairs == Values \X Values
SentArcs(k) ==
  [o \in Operation |-> {p \in Pairs : IF KeyOf(o) = k THEN p[2] = Says(o) /\ (o.op = "move" => p[1] = o.from)
                                      ELSE p[1] = p[2]}]
UndoArcs(k) ==
  [t \in Transaction |-> {p \in Pairs : IF KeyOf(t.redo) = k THEN p[1] = Says(t.redo) /\ p[2] = Says(t.undo)
                                        ELSE p[1] = p[2]}]
RedoArcs(k) ==
  [t \in Transaction |-> {p \in Pairs : IF KeyOf(t.redo) = k THEN p[1] = Says(t.undo) /\ p[2] = Says(t.redo)
                                        ELSE p[1] = p[2]}]

\* The operations lead from what there is to where both histories start.
Leads(k, x) ==
  /\ Walks(SentArcs(k), sent, Have(k), x)
  /\ \E y : Walks(UndoArcs(k), undos, x, y)
  /\ \E z : Walks(RedoArcs(k), redos, x, z)

WalkInv == \A k \in Keys : k[1] \notin hasty => \E x \in Values : Leads(k, x)

LEMMA HaveTyped == ASSUME CommandsTyped, NEW k \in Keys PROVE Have(k) \in Values
<1>1. k[1] \in Picture /\ (k[2] = "folder" \/ k[2] \in Property)
  BY DEF Keys
<1>2. folder_of[k[1]] \in Container /\ stored[k[1]] \in Record
  BY <1>1 DEF CommandsTyped
<1>3. k[2] \in Property => stored[k[1]][k[2]] \in Int
  BY <1>2 DEF Record
<1> QED BY <1>1, <1>2, <1>3 DEF Have, Values

LEMMA SentArc ==
  ASSUME NEW o \in Operation, NEW k, NEW x, NEW y
  PROVE  <<x, y>> \in SentArcs(k)[o] <=>
           /\ x \in Values /\ y \in Values
           /\ IF KeyOf(o) = k THEN y = Says(o) /\ (o.op = "move" => x = o.from) ELSE x = y
<1>1. SentArcs(k)[o] = {p \in Pairs : IF KeyOf(o) = k THEN p[2] = Says(o) /\ (o.op = "move" => p[1] = o.from) ELSE p[1] = p[2]}
  BY DEF SentArcs
<1>2. <<x, y>>[1] = x /\ <<x, y>>[2] = y /\ (<<x, y>> \in Pairs <=> x \in Values /\ y \in Values)
  BY DEF Pairs
<1> QED BY <1>1, <1>2

LEMMA UndoArc ==
  ASSUME NEW t \in Transaction, NEW k, NEW x, NEW y
  PROVE  <<x, y>> \in UndoArcs(k)[t] <=>
           /\ x \in Values /\ y \in Values
           /\ IF KeyOf(t.redo) = k THEN x = Says(t.redo) /\ y = Says(t.undo) ELSE x = y
<1>1. UndoArcs(k)[t] = {p \in Pairs : IF KeyOf(t.redo) = k THEN p[1] = Says(t.redo) /\ p[2] = Says(t.undo) ELSE p[1] = p[2]}
  BY DEF UndoArcs
<1>2. <<x, y>>[1] = x /\ <<x, y>>[2] = y /\ (<<x, y>> \in Pairs <=> x \in Values /\ y \in Values)
  BY DEF Pairs
<1> QED BY <1>1, <1>2

LEMMA RedoArc ==
  ASSUME NEW t \in Transaction, NEW k, NEW x, NEW y
  PROVE  <<x, y>> \in RedoArcs(k)[t] <=>
           /\ x \in Values /\ y \in Values
           /\ IF KeyOf(t.redo) = k THEN x = Says(t.undo) /\ y = Says(t.redo) ELSE x = y
<1>1. RedoArcs(k)[t] = {p \in Pairs : IF KeyOf(t.redo) = k THEN p[1] = Says(t.undo) /\ p[2] = Says(t.redo) ELSE p[1] = p[2]}
  BY DEF RedoArcs
<1>2. <<x, y>>[1] = x /\ <<x, y>>[2] = y /\ (<<x, y>> \in Pairs <=> x \in Values /\ y \in Values)
  BY DEF Pairs
<1> QED BY <1>1, <1>2

\* A transaction that starts from where the operations lead, and changes that.
LEMMA SendsLeads ==
  ASSUME CommandsTyped, NEW t, Sends(t), NEW k \in Keys, NEW x \in Values, Leads(k, x),
         KeyOf(t.redo) = k => x = Says(t.undo)
  PROVE  \E y \in Values : Leads(k, y)'
<1>1. t \in Transaction /\ t.redo \in Operation /\ t.redo \in Command /\ t.undo \in Command
  BY TransactionIs, CommandSays DEF Sends
<1>2. sent \in Seq(Operation) /\ undos \in Seq(Transaction)
  BY DEF CommandsTyped
<1>3. Have(k)' = Have(k)
  BY DEF Sends, Have
<1> DEFINE y == IF KeyOf(t.redo) = k THEN Says(t.redo) ELSE x
<1>4. y \in Values
  BY <1>1, CommandSays
<1>5. <<x, y>> \in SentArcs(k)[t.redo]
  BY <1>1, <1>4, SentArc, TransactionIs
<1>6. <<y, x>> \in UndoArcs(k)[t]
  BY <1>1, <1>4, UndoArc, TransactionIs
<1> HIDE DEF y
<1>7. Walks(SentArcs(k), Append(sent, t.redo), Have(k), y)
  BY <1>1, <1>2, <1>5, WalksAppend DEF Leads
<1>8. PICK z : Walks(UndoArcs(k), undos, x, z)
  BY DEF Leads
<1>9. Walks(UndoArcs(k), <<t>> \o undos, y, z)
  BY <1>1, <1>2, <1>6, <1>8, WalksCons
<1>10. Walks(RedoArcs(k), <<>>, y, y)
  BY WalksNowhere
<1>11. sent' = Append(sent, t.redo) /\ undos' = <<t>> \o undos /\ redos' = <<>>
  BY DEF Sends
<1>12. Leads(k, y)'
  BY <1>3, <1>7, <1>9, <1>10, <1>11 DEF Leads
<1> QED BY <1>4, <1>12

\* The value a property is found to have is where the operations lead.
LEMMA PropertyLast ==
  ASSUME CommandsTyped, NEW p \in Property, NEW v \in Int, set_property(p, v), selection \notin hasty',
         NEW x \in Values, Leads(<<selection, p>>, x)
  PROVE  x = rows[selection][p]
<1> DEFINE old == rows[selection][p]
           Is(o) == o.op = "set_metadata" /\ o.file = selection /\ o.property = p
           m == SelectLastInSeq(sent, Is)
           latest == IF m = 0 THEN stored[selection][p] ELSE sent[m].value
           k == <<selection, p>>
<1>1. selection \in Picture /\ old \in Int /\ k[1] = selection /\ k[2] = p /\ p # "folder"
  BY PropertySends DEF Property
<1>2. old = latest
  <2>1. Set(selection, p, old, v).undo.value = old
    BY <1>1, SetIs
  <2>2. hasty' = IF Set(selection, p, old, v).undo.value = latest THEN hasty ELSE hasty \cup {selection}
    BY DEF set_property
  <2> QED BY <2>1, <2>2
<1>3. sent \in Seq(Operation) /\ m \in 0..Len(sent) /\ (m # 0 => Is(sent[m])) /\ \A i \in (m + 1)..Len(sent) : ~Is(sent[i])
  <2>1. sent \in Seq(Operation) /\ Len(sent) \in Nat
    BY DEF CommandsTyped
  <2> DEFINE Found == {i \in 1..Len(sent) : Is(sent[i])}
  <2>2. m = IF Found # {} THEN Max(Found) ELSE 0
    BY DEF SelectLastInSeq
  <2>3. Found \subseteq 0..Len(sent)
    OBVIOUS
  <2>4. CASE Found = {}
    <3>1. m = 0
      BY <2>2, <2>4
    <3>2. \A i \in (m + 1)..Len(sent) : i \in 1..Len(sent) /\ i \notin Found
      BY <2>1, <2>4, <3>1
    <3>3. \A i \in (m + 1)..Len(sent) : ~Is(sent[i])
      BY <3>2
    <3>4. m \in 0..Len(sent)
      BY <2>1, <3>1
    <3> HIDE DEF m
    <3> QED BY <2>1, <3>1, <3>3, <3>4
  <2>5. CASE Found # {}
    <3> HIDE DEF m
    <3>1. m = Max(Found)
      BY <2>2, <2>5
    <3>2. m \in Found /\ \A y \in Found : m >= y
      <4> HIDE DEF Found
      <4> QED BY <2>1, <2>3, <2>5, <3>1, GreatestNat
    <3>3. m \in 1..Len(sent) /\ Is(sent[m])
      BY <3>2
    <3>4. \A i \in (m + 1)..Len(sent) : i \in 1..Len(sent) /\ ~(m >= i)
      BY <2>1, <3>3
    <3>5. \A i \in (m + 1)..Len(sent) : ~Is(sent[i])
      BY <3>2, <3>4
    <3> QED BY <2>1, <3>3, <3>5
  <2> QED BY <2>4, <2>5
<1> HIDE DEF m
<1>4. \A i \in 1..Len(sent) : sent[i] \in Operation
  BY <1>3
<1>5. \A o \in Operation : KeyOf(o) = k <=> Is(o)
  <2> SUFFICES ASSUME NEW o \in Operation PROVE KeyOf(o) = k <=> Is(o)
    OBVIOUS
  <2>1. o.op = "set_metadata" \/ (o.op = "move" /\ KeyOf(o)[2] = "folder") \/ (o.op = "query_folder_content" /\ o.file = Nothing)
    BY DEF Operation, Command, SetOp, MoveOp, KeyOf
  <2>2. KeyOf(o) = k <=> o.file = selection /\ KeyOf(o)[2] = p
    BY DEF KeyOf
  <2>3. selection # Nothing
    BY <1>1, CommandsAssumption
  <2>4. o.op = "set_metadata" => KeyOf(o)[2] = o.property
    BY DEF KeyOf
  <2> QED BY <1>1, <2>1, <2>2, <2>3, <2>4
<1> DEFINE a == SentArcs(k)
<1>6. \A i \in (m + 1)..Len(sent) : \A q \in a[sent[i]] : q[1] = q[2]
  <2> SUFFICES ASSUME NEW i \in (m + 1)..Len(sent), NEW q \in a[sent[i]] PROVE q[1] = q[2]
    OBVIOUS
  <2>1. sent[i] \in Operation /\ KeyOf(sent[i]) # k
    BY <1>3, <1>4, <1>5
  <2>2. a[sent[i]] = {r \in Pairs : r[1] = r[2]}
    BY <2>1 DEF SentArcs
  <2> QED BY <2>2
<1>7. Walks(a, sent, Have(k), x)
  BY DEF Leads
<1> HIDE DEF a
<1>8. IF m = 0 THEN x = Have(k) ELSE \E z : <<z, x>> \in a[sent[m]]
  <2>1. sent \in Seq(Operation) /\ m \in 0..Len(sent)
    BY <1>3
  <2> HIDE DEF k
  <2> QED BY <1>6, <1>7, <2>1, WalksLast
<1>9. CASE m = 0
  <2>1. x = stored[selection][p]
    BY <1>1, <1>8, <1>9 DEF Have
  <2> QED BY <1>2, <1>9, <2>1
<1>10. CASE m # 0
  <2>1. sent[m] \in Operation /\ Is(sent[m])
    BY <1>3, <1>4, <1>10
  <2>2. KeyOf(sent[m]) = k
    BY <1>5, <2>1
  <2>3. PICK z : <<z, x>> \in SentArcs(k)[sent[m]]
    BY <1>8, <1>10 DEF a
  <2>4. x = Says(sent[m])
    <3> HIDE DEF k
    <3> QED BY <2>1, <2>2, <2>3, SentArc
  <2>5. x = sent[m].value
    BY <2>1, <2>4 DEF Says
  <2> QED BY <1>2, <1>10, <2>5
<1> QED BY <1>9, <1>10

\* A file is in the folder it is moved from.
LEMMA TrashLast ==
  ASSUME CommandsTyped, move_to_trash, selection \notin hasty',
         NEW x \in Values, Leads(<<selection, "folder">>, x)
  PROVE  x = "roll"
<1> DEFINE k == <<selection, "folder">>
           a == SentArcs(k)
<1>1. selection \in Picture /\ k[1] = selection /\ k[2] = "folder"
  BY TrashSends
<1>2. folder_of[selection] = "roll" /\ ~\E i \in DOMAIN sent : sent[i].op = "move" /\ sent[i].file = selection
  BY DEF move_to_trash
<1>3. sent \in Seq(Operation) /\ Len(sent) \in Nat /\ DOMAIN sent = 1..Len(sent)
  BY DEF CommandsTyped
<1>4. \A i \in (0 + 1)..Len(sent) : \A q \in a[sent[i]] : q[1] = q[2]
  <2> SUFFICES ASSUME NEW i \in 1..Len(sent), NEW q \in a[sent[i]] PROVE q[1] = q[2]
    OBVIOUS
  <2>1. sent[i] \in Operation /\ ~(sent[i].op = "move" /\ sent[i].file = selection)
    BY <1>2, <1>3
  <2>2. KeyOf(sent[i]) # k
    <3>1. /\ sent[i].op = "move" \/ (sent[i].op = "set_metadata" /\ sent[i].property \in Property)
             \/ (sent[i].op = "query_folder_content" /\ sent[i].file = Nothing)
      BY <2>1 DEF Operation, Command, SetOp, MoveOp
    <3>2. selection # Nothing /\ "folder" \notin Property
      BY <1>1, CommandsAssumption DEF Property
    <3>3. KeyOf(sent[i]) = k => sent[i].file = selection /\ (sent[i].op # "move" => sent[i].property = "folder")
      BY DEF KeyOf
    <3>4. sent[i].op = "set_metadata" => sent[i].op # "move"
      OBVIOUS
    <3> QED BY <2>1, <3>1, <3>2, <3>3, <3>4
  <2>3. a[sent[i]] = {r \in Pairs : r[1] = r[2]}
    BY <2>1, <2>2 DEF SentArcs
  <2> QED BY <2>3
<1>5. Walks(a, sent, Have(k), x)
  BY DEF Leads
<1> HIDE DEF a
<1>6. x = Have(k)
  <2>1. 0 \in 0..Len(sent)
    BY <1>3
  <2>2. IF 0 = 0 THEN x = Have(k) ELSE \E z : <<z, x>> \in a[sent[0]]
    <3> HIDE DEF k
    <3> QED BY <1>3, <1>4, <1>5, <2>1, WalksLast
  <2> QED BY <2>2
<1> QED BY <1>1, <1>2, <1>6 DEF Have

\* What leads on where nothing is done, and where the first operation is.
LEMMA LeadsSame ==
  ASSUME UNCHANGED <<stored, folder_of, sent, undos, redos>>, NEW k, NEW x, Leads(k, x)
  PROVE  Leads(k, x)'
<1>1. Have(k)' = Have(k)
  BY DEF Have
<1> QED BY <1>1 DEF Leads

LEMMA LeadsOn ==
  ASSUME CommandsTyped, sent # <<>>, sent' = Tail(sent), UNCHANGED <<undos, redos>>, NEW k, NEW x, Leads(k, x),
         \A y : <<Have(k), y>> \in SentArcs(k)[Head(sent)] => Have(k)' = y
  PROVE  Leads(k, x)'
<1>1. sent \in Seq(Operation)
  BY DEF CommandsTyped
<1>2. Walks(SentArcs(k), sent, Have(k), x)
  BY DEF Leads
<1>3. PICK y : <<Have(k), y>> \in SentArcs(k)[Head(sent)] /\ Walks(SentArcs(k), Tail(sent), y, x)
  BY <1>1, <1>2, WalksTail
<1>4. Walks(SentArcs(k), sent', Have(k)', x)
  BY <1>3
<1> QED BY <1>4 DEF Leads

\* The transaction undone, or redone, leads back.
LEMMA LeadsBack ==
  ASSUME CommandsTyped, undo_command, NEW k \in Keys, NEW x \in Values, Leads(k, x)
  PROVE  \E y \in Values : Leads(k, y)'
<1> DEFINE t == Head(undos)
<1>1. /\ undos \in Seq(Transaction) /\ undos # <<>> /\ redos \in Seq(Transaction) /\ sent \in Seq(Operation)
      /\ sent' = Append(sent, t.undo) /\ undos' = Tail(undos) /\ redos' = <<t>> \o redos /\ UNCHANGED <<stored, folder_of>>
  BY DEF CommandsTyped, undo_command, library
<1>2. t \in Transaction
  BY <1>1
<1>3. PICK y : <<x, y>> \in UndoArcs(k)[t] /\ \E z : Walks(UndoArcs(k), Tail(undos), y, z)
  <2>1. PICK z : Walks(UndoArcs(k), undos, x, z)
    BY DEF Leads
  <2> QED BY <1>1, <2>1, WalksTail
<1>4. PICK w : Walks(RedoArcs(k), redos, x, w)
  BY DEF Leads
<1> HIDE DEF t
<1>5. /\ t.undo \in Operation /\ KeyOf(t.undo) = KeyOf(t.redo) /\ t.undo.op = t.redo.op
      /\ t.redo.op = "move" => t.undo.from = Says(t.redo)
  BY <1>2, TransactionIs, CommandSays
<1>6. y \in Values /\ IF KeyOf(t.redo) = k THEN x = Says(t.redo) /\ y = Says(t.undo) ELSE x = y
  BY <1>2, <1>3, UndoArc
<1>7. <<x, y>> \in SentArcs(k)[t.undo]
  BY <1>5, <1>6, SentArc
<1>8. <<y, x>> \in RedoArcs(k)[t]
  BY <1>2, <1>6, RedoArc
<1>9. Walks(SentArcs(k), Append(sent, t.undo), Have(k), y)
  BY <1>1, <1>5, <1>7, WalksAppend DEF Leads
<1>10. Walks(RedoArcs(k), <<t>> \o redos, y, w)
  BY <1>1, <1>2, <1>4, <1>8, WalksCons
<1>11. Have(k)' = Have(k)
  BY <1>1 DEF Have
<1>12. Leads(k, y)'
  BY <1>1, <1>3, <1>9, <1>10, <1>11 DEF Leads
<1> QED BY <1>6, <1>12

LEMMA LeadsAgain ==
  ASSUME CommandsTyped, redo_command, NEW k \in Keys, NEW x \in Values, Leads(k, x)
  PROVE  \E y \in Values : Leads(k, y)'
<1> DEFINE t == Head(redos)
<1>1. /\ undos \in Seq(Transaction) /\ redos # <<>> /\ redos \in Seq(Transaction) /\ sent \in Seq(Operation)
      /\ sent' = Append(sent, t.redo) /\ redos' = Tail(redos) /\ undos' = <<t>> \o undos /\ UNCHANGED <<stored, folder_of>>
  BY DEF CommandsTyped, redo_command, library
<1>2. t \in Transaction
  BY <1>1
<1>3. PICK y : <<x, y>> \in RedoArcs(k)[t] /\ \E z : Walks(RedoArcs(k), Tail(redos), y, z)
  <2>1. PICK z : Walks(RedoArcs(k), redos, x, z)
    BY DEF Leads
  <2> QED BY <1>1, <2>1, WalksTail
<1>4. PICK w : Walks(UndoArcs(k), undos, x, w)
  BY DEF Leads
<1> HIDE DEF t
<1>5. t.redo \in Operation /\ (t.redo.op = "move" => t.redo.from = Says(t.undo))
  BY <1>2, TransactionIs, CommandSays
<1>6. y \in Values /\ IF KeyOf(t.redo) = k THEN x = Says(t.undo) /\ y = Says(t.redo) ELSE x = y
  BY <1>2, <1>3, RedoArc
<1>7. <<x, y>> \in SentArcs(k)[t.redo]
  BY <1>5, <1>6, SentArc
<1>8. <<y, x>> \in UndoArcs(k)[t]
  BY <1>2, <1>6, UndoArc
<1>9. Walks(SentArcs(k), Append(sent, t.redo), Have(k), y)
  BY <1>1, <1>5, <1>7, WalksAppend DEF Leads
<1>10. Walks(UndoArcs(k), <<t>> \o undos, y, w)
  BY <1>1, <1>2, <1>4, <1>8, WalksCons
<1>11. Have(k)' = Have(k)
  BY <1>1 DEF Have
<1>12. Leads(k, y)'
  BY <1>1, <1>3, <1>9, <1>10, <1>11 DEF Leads
<1> QED BY <1>6, <1>12

LEMMA WalkInit == CommandsInit => WalkInv
<1> SUFFICES ASSUME CommandsInit, NEW k \in Keys PROVE \E x \in Values : Leads(k, x)
  BY DEF WalkInv
<1>1. CommandsTyped
  BY CommandsTypedInit
<1>2. Have(k) \in Values
  BY <1>1, HaveTyped
<1>3. sent = <<>> /\ undos = <<>> /\ redos = <<>>
  BY DEF CommandsInit
<1>4. Leads(k, Have(k))
  BY <1>3, WalksNowhere DEF Leads
<1> QED BY <1>2, <1>4

LEMMA WalkStep == CommandsTyped /\ WalkInv /\ [CommandsNext]_commands => WalkInv'
<1> SUFFICES ASSUME CommandsTyped, WalkInv, [CommandsNext]_commands, NEW k \in Keys, k[1] \notin hasty'
             PROVE  \E x \in Values : Leads(k, x)'
  BY DEF WalkInv
<1> USE DEF library, views, histories
<1>k. k[1] \in Picture /\ k[2] \in Property \cup {"folder"} /\ k = <<k[1], k[2]>>
  BY DEF Keys
<1>x. ASSUME hasty' = hasty PROVE \E x \in Values : Leads(k, x)
  BY <1>x DEF WalkInv
<1>s. ASSUME hasty' = hasty, UNCHANGED <<stored, folder_of, sent, undos, redos>> PROVE \E x \in Values : Leads(k, x)'
  BY <1>x, <1>s, LeadsSame
<1>1. ASSUME NEW p \in Property, NEW v \in Int, set_property(p, v) PROVE \E x \in Values : Leads(k, x)'
  <2> DEFINE t == Set(selection, p, rows[selection][p], v)
  <2>1. selection \in Picture /\ rows[selection][p] \in Int /\ Sends(t) /\ hasty' \in {hasty, hasty \cup {selection}}
    BY <1>1, PropertySends
  <2>2. PICK x \in Values : Leads(k, x)
    BY <2>1 DEF WalkInv
  <2>3. KeyOf(t.redo) = <<selection, p>> /\ Says(t.undo) = rows[selection][p]
    BY <2>1, SetIs
  <2>4. CASE k = <<selection, p>>
    <3>1. selection \notin hasty'
      BY <2>4
    <3>2. x = rows[selection][p]
      BY <1>1, <2>2, <2>4, <3>1, PropertyLast
    <3> HIDE DEF t
    <3> QED BY <2>1, <2>2, <2>3, <3>2, SendsLeads
  <2>5. CASE k # <<selection, p>>
    <3> HIDE DEF t
    <3> QED BY <2>1, <2>2, <2>3, <2>5, SendsLeads
  <2> QED BY <2>4, <2>5
<1>2. CASE \E m \in Menu : menu(m) \/ context_menu(m)
  BY <1>1, <1>2, MenuTyped DEF menu, context_menu
<1>3. CASE \E f \in Picture : on_rating_changed(f, 1)
  BY <1>1, <1>3 DEF on_rating_changed, Property
<1>4. CASE move_to_trash
  <2> DEFINE t == Move(selection, "roll", "trash")
  <2>1. selection \in Picture /\ Sends(t) /\ hasty' \in {hasty, hasty \cup {selection}}
    BY <1>4, TrashSends
  <2>2. PICK x \in Values : Leads(k, x)
    BY <2>1 DEF WalkInv
  <2>3. KeyOf(t.redo) = <<selection, "folder">> /\ Says(t.undo) = "roll"
    BY <2>1, MoveIs
  <2>4. CASE k = <<selection, "folder">>
    <3>1. selection \notin hasty'
      BY <2>4
    <3>2. x = "roll"
      BY <1>4, <2>2, <2>4, <3>1, TrashLast
    <3> HIDE DEF t
    <3> QED BY <2>1, <2>2, <2>3, <3>2, SendsLeads
  <2>5. CASE k # <<selection, "folder">>
    <3> HIDE DEF t
    <3> QED BY <2>1, <2>2, <2>3, <2>5, SendsLeads
  <2> QED BY <2>4, <2>5
<1>5. CASE undo_command
  BY <1>5, <1>x, LeadsBack DEF undo_command
<1>6. CASE redo_command
  BY <1>6, <1>x, LeadsAgain DEF redo_command
<1>7. CASE \E f \in Picture : select(f)
  BY <1>7, <1>s DEF select
<1>8. CASE reselect
  <2> DEFINE o == [op |-> "query_folder_content", file |-> Nothing]
  <2>1. o \in Operation /\ KeyOf(o) # k
    <3>1. o.file = Nothing /\ KeyOf(o)[1] = o.file
      BY DEF KeyOf
    <3> QED BY <1>k, <3>1, CommandsAssumption DEF Operation
  <2>2. sent' = Append(sent, o) /\ hasty' = hasty /\ UNCHANGED <<stored, folder_of, undos, redos>>
    BY <1>8 DEF reselect
  <2>3. PICK x \in Values : Leads(k, x)
    BY <1>x, <2>2
  <2> HIDE DEF o
  <2>4. <<x, x>> \in SentArcs(k)[o]
    BY <2>1, SentArc
  <2>5. sent \in Seq(Operation)
    BY DEF CommandsTyped
  <2>6. Walks(SentArcs(k), Append(sent, o), Have(k), x)
    BY <2>1, <2>3, <2>4, <2>5, WalksAppend DEF Leads
  <2>7. Have(k)' = Have(k)
    BY <2>2 DEF Have
  <2>8. Leads(k, x)'
    BY <2>2, <2>3, <2>6, <2>7 DEF Leads
  <2> QED BY <2>8
<1>9. ASSUME NEW op, Perform(op), UNCHANGED <<histories, hasty>>,
             \A y : <<Have(k), y>> \in SentArcs(k)[Head(sent)] => Have(k)' = y
      PROVE  \E x \in Values : Leads(k, x)'
  <2>1. sent # <<>> /\ sent' = Tail(sent) /\ UNCHANGED <<undos, redos>> /\ hasty' = hasty
    BY <1>9 DEF Perform
  <2> QED BY <1>9, <1>x, <2>1, LeadsOn
<1>10. ASSUME NEW op, Perform(op) PROVE Head(sent) \in Operation /\ Head(sent).op = op
  <2>1. sent \in Seq(Operation) /\ sent # <<>>
    BY <1>10 DEF Perform, CommandsTyped
  <2>2. Head(sent) \in Operation
    BY <2>1
  <2> QED BY <1>10, <2>2 DEF Perform
<1>11. CASE set_metadata
  <2> DEFINE o == Head(sent)
  <2>1. o \in Operation /\ o.op = "set_metadata"
    BY <1>10, <1>11 DEF set_metadata
  <2>2. o.file \in Picture /\ o.property \in Property /\ o.value \in Int /\ o.op # "move"
    BY <2>1 DEF Operation, Command, SetOp, MoveOp
  <2>3. stored' = [stored EXCEPT ![o.file][o.property] = o.value] /\ folder_of' = folder_of
    BY <1>11 DEF set_metadata
  <2> HIDE DEF o
  <2>4. stored \in [Picture -> [Property -> Int]]
    BY DEF CommandsTyped, Record
  <2>5. KeyOf(o) = <<o.file, o.property>> /\ Says(o) = o.value /\ "folder" \notin Property
    BY <2>2 DEF KeyOf, Says, Property
  <2>6. ASSUME NEW y, <<Have(k), y>> \in SentArcs(k)[o] PROVE Have(k)' = y
    <3>1. IF KeyOf(o) = k THEN y = Says(o) ELSE Have(k) = y
      BY <2>1, <2>6, SentArc
    <3>2. CASE KeyOf(o) = k
      <4>1. k[1] = o.file /\ k[2] = o.property
        BY <2>5, <3>2
      <4>2. stored'[o.file][o.property] = o.value
        BY <2>2, <2>3, <2>4
      <4> QED BY <2>2, <2>5, <3>1, <3>2, <4>1, <4>2 DEF Have
    <3>3. CASE KeyOf(o) # k
      <4>1. k[1] # o.file \/ k[2] # o.property
        BY <1>k, <2>5, <3>3
      <4>2. k[2] # "folder" => stored'[k[1]][k[2]] = stored[k[1]][k[2]]
        BY <1>k, <2>2, <2>3, <2>4, <4>1
      <4> QED BY <2>3, <3>1, <3>3, <4>2 DEF Have
    <3> QED BY <3>2, <3>3
  <2> QED BY <1>9, <1>11, <2>6 DEF set_metadata, o
<1>12. CASE move_file_to_folder
  <2> DEFINE o == Head(sent)
  <2>1. o \in Operation /\ o.op = "move"
    BY <1>10, <1>12 DEF move_file_to_folder
  <2>2. o.file \in Picture /\ o.to \in Container
    BY <2>1 DEF Operation, Command, SetOp, MoveOp
  <2>3. folder_of' = [folder_of EXCEPT ![o.file] = o.to] /\ stored' = stored
    BY <1>12 DEF move_file_to_folder
  <2> HIDE DEF o
  <2>4. folder_of \in [Picture -> Container]
    BY DEF CommandsTyped
  <2>5. KeyOf(o) = <<o.file, "folder">> /\ Says(o) = o.to
    BY <2>1 DEF KeyOf, Says
  <2>6. ASSUME NEW y, <<Have(k), y>> \in SentArcs(k)[o] PROVE Have(k)' = y
    <3>1. IF KeyOf(o) = k THEN y = Says(o) ELSE Have(k) = y
      BY <2>1, <2>6, SentArc
    <3>2. CASE KeyOf(o) = k
      <4>1. k[1] = o.file /\ k[2] = "folder"
        BY <2>5, <3>2
      <4> QED BY <2>2, <2>3, <2>4, <2>5, <3>1, <3>2, <4>1 DEF Have
    <3>3. CASE KeyOf(o) # k
      <4>1. k[1] # o.file \/ k[2] # "folder"
        BY <1>k, <2>5, <3>3
      <4> QED BY <1>k, <2>2, <2>3, <2>4, <3>1, <3>3, <4>1 DEF Have
    <3> QED BY <3>2, <3>3
  <2> QED BY <1>9, <1>12, <2>6 DEF move_file_to_folder, o
<1>13. CASE query_folder_content
  <2> DEFINE o == Head(sent)
  <2>1. o \in Operation /\ o.op = "query_folder_content"
    BY <1>10, <1>13 DEF query_folder_content
  <2>2. o.file = Nothing
    BY <2>1 DEF Operation, Command, SetOp, MoveOp
  <2> HIDE DEF o
  <2>3. KeyOf(o) # k
    <3>1. KeyOf(o)[1] = o.file
      BY DEF KeyOf
    <3> QED BY <1>k, <2>2, <3>1, CommandsAssumption
  <2>4. Have(k)' = Have(k)
    BY <1>13 DEF query_folder_content, Have
  <2>5. ASSUME NEW y, <<Have(k), y>> \in SentArcs(k)[o] PROVE Have(k)' = y
    BY <2>1, <2>3, <2>4, <2>5, SentArc
  <2> QED BY <1>9, <1>13, <2>5 DEF query_folder_content, o
<1>14. CASE set_row_property
  BY <1>14, <1>s DEF set_row_property
<1>15. CASE file_moved
  BY <1>15, <1>s DEF file_moved
<1>16. CASE folder_content
  BY <1>16, <1>s DEF folder_content
<1>17. CASE UNCHANGED commands
  BY <1>17, <1>s DEF commands
<1> QED BY <1>2, <1>3, <1>4, <1>5, <1>6, <1>7, <1>8, <1>11, <1>12, <1>13, <1>14, <1>15, <1>16, <1>17 DEF CommandsNext

\* The counts shown, and those that the notifications will change, are of
\* the files that are there.
Into(c) == {n \in MoveNotice : n.to = c}
OutOf(c) == {n \in MoveNotice : n.from = c}
Coming(c) == Cardinality(Places(told, Into(c))) - Cardinality(Places(told, OutOf(c)))

CountInv == hasty = {} => \A c \in Container : counts[c] + Coming(c) = Cardinality(In(c))

LEMMA ComingEnters ==
  ASSUME CommandsTyped, NEW n \in Notice, told' = Append(told, n), NEW c
  PROVE  Coming(c)' = Coming(c) + (IF n \in Into(c) THEN 1 ELSE 0) - (IF n \in OutOf(c) THEN 1 ELSE 0)
<1>1. told \in Seq(Notice)
  BY DEF CommandsTyped
<1>2. Cardinality(Places(Append(told, n), Into(c))) = Cardinality(Places(told, Into(c))) + (IF n \in Into(c) THEN 1 ELSE 0)
  BY <1>1, PlacesAppend
<1>3. Cardinality(Places(Append(told, n), OutOf(c))) = Cardinality(Places(told, OutOf(c))) + (IF n \in OutOf(c) THEN 1 ELSE 0)
  BY <1>1, PlacesAppend
<1>4. Cardinality(Places(told, Into(c))) \in Nat /\ Cardinality(Places(told, OutOf(c))) \in Nat
  BY <1>1, PlacesFinite
<1> QED BY <1>2, <1>3, <1>4 DEF Coming

LEMMA ComingLeaves ==
  ASSUME CommandsTyped, told # <<>>, told' = Tail(told), NEW c
  PROVE  Coming(c) = Coming(c)' + (IF Head(told) \in Into(c) THEN 1 ELSE 0) - (IF Head(told) \in OutOf(c) THEN 1 ELSE 0)
<1>1. told \in Seq(Notice)
  BY DEF CommandsTyped
<1>2. Cardinality(Places(Tail(told), Into(c))) = Cardinality(Places(told, Into(c))) - (IF Head(told) \in Into(c) THEN 1 ELSE 0)
  BY <1>1, PlacesTail
<1>3. Cardinality(Places(Tail(told), OutOf(c))) = Cardinality(Places(told, OutOf(c))) - (IF Head(told) \in OutOf(c) THEN 1 ELSE 0)
  BY <1>1, PlacesTail
<1>4. Cardinality(Places(told, Into(c))) \in Nat /\ Cardinality(Places(told, OutOf(c))) \in Nat
  BY <1>1, PlacesFinite
<1> QED BY <1>2, <1>3, <1>4 DEF Coming

LEMMA ComingTyped == CommandsTyped => \A c : Coming(c) \in Int
<1> SUFFICES ASSUME CommandsTyped, NEW c PROVE Coming(c) \in Int
  OBVIOUS
<1>1. told \in Seq(Notice)
  BY DEF CommandsTyped
<1>2. Cardinality(Places(told, Into(c))) \in Nat /\ Cardinality(Places(told, OutOf(c))) \in Nat
  BY <1>1, PlacesFinite
<1> QED BY <1>2 DEF Coming

LEMMA ComingTypedNext == CommandsTyped' => \A c : Coming(c)' \in Int
<1> SUFFICES ASSUME CommandsTyped', NEW c PROVE Coming(c)' \in Int
  OBVIOUS
<1>1. told' \in Seq(Notice)
  BY DEF CommandsTyped
<1>2. Cardinality(Places(told', Into(c))) \in Nat /\ Cardinality(Places(told', OutOf(c))) \in Nat
  BY <1>1, PlacesFinite
<1> QED BY <1>2 DEF Coming

LEMMA CountStep == CommandsTyped /\ WalkInv /\ CountInv /\ [CommandsNext]_commands => CountInv'
<1> SUFFICES ASSUME CommandsTyped, WalkInv, CountInv, [CommandsNext]_commands, hasty' = {}, NEW c \in Container
             PROVE  counts'[c] + Coming(c)' = Cardinality(In(c))'
  BY DEF CountInv
<1> USE DEF library, views, histories
<1>h. hasty = {}
  <2>1. ASSUME NEW p \in Property, NEW v \in Int, set_property(p, v) PROVE hasty = {}
    BY <2>1 DEF set_property
  <2>2. CASE \E m \in Menu : menu(m) \/ context_menu(m)
    BY <2>1, <2>2, MenuTyped DEF menu, context_menu
  <2>3. CASE \E f \in Picture : on_rating_changed(f, 1)
    BY <2>1, <2>3 DEF on_rating_changed, Property
  <2>4. CASE move_to_trash
    BY <2>4 DEF move_to_trash
  <2> QED BY <2>2, <2>3, <2>4
      DEF CommandsNext, commands, select, undo_command, redo_command, reselect, set_metadata, move_file_to_folder,
          query_folder_content, set_row_property, file_moved, folder_content
<1>c. counts[c] + Coming(c) = Cardinality(In(c)) /\ counts[c] \in Int /\ Coming(c) \in Int
  BY <1>h, ComingTyped DEF CountInv, CommandsTyped
<1>s. ASSUME UNCHANGED <<folder_of, counts, told>> PROVE counts'[c] + Coming(c)' = Cardinality(In(c))'
  BY <1>c, <1>s DEF Coming, In
<1>t. ASSUME NEW n \in Notice, n \notin MoveNotice, told' = Append(told, n), UNCHANGED <<folder_of, counts>>
      PROVE  counts'[c] + Coming(c)' = Cardinality(In(c))'
  <2>1. n \notin Into(c) /\ n \notin OutOf(c)
    BY <1>t DEF Into, OutOf
  <2>2. Coming(c)' = Coming(c)
    BY <1>t, <1>c, <2>1, ComingEnters
  <2>3. In(c)' = In(c)
    BY <1>t DEF In
  <2> QED BY <1>t, <1>c, <2>2, <2>3
<1>l. ASSUME told # <<>>, told' = Tail(told), Head(told) \notin MoveNotice, UNCHANGED <<folder_of, counts>>
      PROVE  counts'[c] + Coming(c)' = Cardinality(In(c))'
  <2>1. Head(told) \notin Into(c) /\ Head(told) \notin OutOf(c)
    BY <1>l DEF Into, OutOf
  <2>a. CommandsTyped'
    BY CommandsTypedStep
  <2>b. Coming(c)' \in Int
    BY <2>a, ComingTypedNext
  <2>2. Coming(c) = Coming(c)'
    BY <1>l, <1>c, <2>1, <2>b, ComingLeaves
  <2>3. In(c)' = In(c)
    BY <1>l DEF In
  <2> QED BY <1>l, <1>c, <2>2, <2>3
<1>1. ASSUME NEW p \in Property, NEW v \in Int, set_property(p, v) PROVE UNCHANGED <<folder_of, counts, told>>
  BY <1>1 DEF set_property
<1>2. CASE \E m \in Menu : menu(m) \/ context_menu(m)
  BY <1>1, <1>2, <1>s, MenuTyped DEF menu, context_menu
<1>3. CASE \E f \in Picture : on_rating_changed(f, 1)
  BY <1>1, <1>3, <1>s DEF on_rating_changed, Property
<1>4. CASE move_to_trash \/ undo_command \/ redo_command \/ reselect \/ \E f \in Picture : select(f)
  BY <1>4, <1>s DEF move_to_trash, undo_command, redo_command, reselect, select
<1>10. ASSUME NEW op, Perform(op) PROVE Head(sent) \in Operation /\ Head(sent).op = op /\ sent # <<>> /\ sent \in Seq(Operation)
  <2>1. sent \in Seq(Operation) /\ sent # <<>>
    BY <1>10 DEF Perform, CommandsTyped
  <2>2. Head(sent) \in Operation
    BY <2>1
  <2> QED BY <1>10, <2>1, <2>2 DEF Perform
<1>11. CASE set_metadata
  <2> DEFINE o == Head(sent)
             n == [n |-> "MetadataChanged", file |-> o.file, property |-> o.property, value |-> o.value]
  <2>1. o \in Operation /\ o.op = "set_metadata"
    BY <1>10, <1>11 DEF set_metadata
  <2>2. o.file \in Picture /\ o.property \in Property /\ o.value \in Int
    BY <2>1 DEF Operation, Command, SetOp, MoveOp
  <2>3. told' = Append(told, n) /\ UNCHANGED <<folder_of, counts>>
    BY <1>11 DEF set_metadata
  <2> HIDE DEF o
  <2>4. n \in Notice /\ n \notin MoveNotice
    BY <2>2 DEF Notice, MoveNotice
  <2> HIDE DEF n
  <2> QED BY <1>t, <2>3, <2>4
<1>12. CASE move_file_to_folder
  <2> DEFINE o == Head(sent)
             n == [n |-> "FileMoved", file |-> o.file, from |-> o.from, to |-> o.to]
  <2>1. o \in Operation /\ o.op = "move" /\ sent # <<>> /\ sent \in Seq(Operation)
    BY <1>10, <1>12 DEF move_file_to_folder
  <2>2. o.file \in Picture /\ o.from \in Container /\ o.to \in Container /\ o.from # o.to
    BY <2>1 DEF Operation, Command, SetOp, MoveOp
  <2>3. told' = Append(told, n) /\ counts' = counts /\ folder_of' = [folder_of EXCEPT ![o.file] = o.to]
    BY <1>12 DEF move_file_to_folder
  <2>k. folder_of[o.file] = o.from
    <3> DEFINE k == <<o.file, "folder">>
    <3>1. k \in Keys /\ k[1] = o.file /\ k[2] = "folder"
      BY <2>2 DEF Keys
    <3>2. PICK x \in Values : Leads(k, x)
      BY <1>h, <3>1 DEF WalkInv
    <3>3. Walks(SentArcs(k), sent, Have(k), x)
      BY <3>2 DEF Leads
    <3> HIDE DEF k
    <3>4. PICK y : <<Have(k), y>> \in SentArcs(k)[o]
      BY <2>1, <3>3, WalksTail
    <3> HIDE DEF o
    <3>5. KeyOf(o) = k
      BY <2>1 DEF KeyOf, k
    <3>6. Have(k) = o.from
      BY <2>1, <3>4, <3>5, SentArc
    <3> QED BY <3>1, <3>6 DEF Have
  <2> HIDE DEF o
  <2>4. n \in Notice /\ (n \in Into(c) <=> o.to = c) /\ (n \in OutOf(c) <=> o.from = c)
    BY <2>2 DEF Notice, MoveNotice, Into, OutOf
  <2> HIDE DEF n
  <2>5. Coming(c)' = Coming(c) + (IF n \in Into(c) THEN 1 ELSE 0) - (IF n \in OutOf(c) THEN 1 ELSE 0)
    BY <2>3, <2>4, ComingEnters
  <2>6. folder_of \in [Picture -> Container]
    BY DEF CommandsTyped
  <2>7. IsFiniteSet(In(c)) /\ Cardinality(In(c)) \in Nat
    <3>1. In(c) \in SUBSET Picture
      BY DEF In
    <3> QED BY <3>1, FS_Subset, FS_CardinalityType, CommandsAssumption
  <2>8. CASE c = o.to
    <3>1. In(c)' = In(c) \cup {o.file} /\ o.file \notin In(c)
      BY <2>2, <2>3, <2>6, <2>8, <2>k DEF In
    <3>2. Cardinality(In(c) \cup {o.file}) = Cardinality(In(c)) + 1
      BY <2>7, <3>1, FS_AddElement
    <3>3. Coming(c)' = Coming(c) + 1
      BY <1>c, <2>2, <2>4, <2>5, <2>8
    <3> QED BY <1>c, <2>3, <2>7, <3>1, <3>2, <3>3
  <2>9. CASE c = o.from
    <3>1. In(c)' = In(c) \ {o.file} /\ o.file \in In(c)
      BY <2>2, <2>3, <2>6, <2>9, <2>k DEF In
    <3>2. Cardinality(In(c) \ {o.file}) = Cardinality(In(c)) - 1
      BY <2>7, <3>1, FS_RemoveElement
    <3>3. Coming(c)' = Coming(c) - 1
      BY <1>c, <2>2, <2>4, <2>5, <2>9
    <3> QED BY <1>c, <2>3, <2>7, <3>1, <3>2, <3>3
  <2>10. CASE c # o.from /\ c # o.to
    <3>1. In(c)' = In(c)
      BY <2>2, <2>3, <2>6, <2>10, <2>k DEF In
    <3>2. Coming(c)' = Coming(c)
      BY <1>c, <2>4, <2>5, <2>10
    <3> QED BY <1>c, <2>3, <3>1, <3>2
  <2> QED BY <2>8, <2>9, <2>10
<1>13. CASE query_folder_content
  <2> DEFINE d == [f \in In("roll") |-> stored[f]]
             n == [n |-> "FolderContentQueried", content |-> d]
  <2>1. told' = Append(told, n) /\ UNCHANGED <<folder_of, counts>>
    BY <1>13 DEF query_folder_content
  <2>2. In("roll") \in SUBSET Picture
    BY DEF In
  <2>3. d \in [In("roll") -> Record]
    BY <2>2 DEF CommandsTyped
  <2> HIDE DEF d
  <2>4. n \in Notice /\ n \notin MoveNotice
    BY <2>2, <2>3 DEF Notice, MoveNotice
  <2> HIDE DEF n
  <2> QED BY <1>t, <2>1, <2>4
<1>14. ASSUME NEW m, Notified(m) PROVE Head(told) \in Notice /\ Head(told).n = m /\ told # <<>> /\ told' = Tail(told)
  <2>1. told \in Seq(Notice) /\ told # <<>>
    BY <1>14 DEF Notified, CommandsTyped
  <2>2. Head(told) \in Notice
    BY <2>1
  <2> QED BY <1>14, <2>1, <2>2 DEF Notified
<1>15. CASE set_row_property
  <2>1. Head(told).n = "MetadataChanged" /\ told # <<>> /\ told' = Tail(told) /\ UNCHANGED <<folder_of, counts>>
    BY <1>14, <1>15 DEF set_row_property
  <2>2. Head(told) \notin MoveNotice
    BY <2>1 DEF MoveNotice
  <2> QED BY <1>l, <2>1, <2>2
<1>16. CASE folder_content
  <2>1. Head(told).n = "FolderContentQueried" /\ told # <<>> /\ told' = Tail(told) /\ UNCHANGED <<folder_of, counts>>
    BY <1>14, <1>16 DEF folder_content
  <2>2. Head(told) \notin MoveNotice
    BY <2>1 DEF MoveNotice
  <2> QED BY <1>l, <2>1, <2>2
<1>17. CASE file_moved
  <2> DEFINE m == Head(told)
  <2>1. m \in Notice /\ m.n = "FileMoved" /\ told # <<>> /\ told' = Tail(told)
    BY <1>14, <1>17 DEF file_moved
  <2>2. m \in MoveNotice /\ m.from \in Container /\ m.to \in Container /\ m.from # m.to
    BY <2>1 DEF Notice, MoveNotice
  <2>3. counts' = [counts EXCEPT ![m.from] = @ - 1, ![m.to] = @ + 1] /\ folder_of' = folder_of
    BY <1>17 DEF file_moved, count_change
  <2>4. (m \in Into(c) <=> m.to = c) /\ (m \in OutOf(c) <=> m.from = c)
    BY <2>2 DEF Into, OutOf
  <2>5. Coming(c) = Coming(c)' + (IF m \in Into(c) THEN 1 ELSE 0) - (IF m \in OutOf(c) THEN 1 ELSE 0)
    BY <2>1, ComingLeaves
  <2> HIDE DEF m
  <2>6. counts \in [Container -> Int]
    BY DEF CommandsTyped
  <2>7. In(c)' = In(c)
    BY <2>3 DEF In
  <2>a. CommandsTyped'
    BY CommandsTypedStep
  <2>b. Coming(c)' \in Int
    BY <2>a, ComingTypedNext
  <2>8. counts'[c] = counts[c] + (IF c = m.to THEN 1 ELSE 0) - (IF c = m.from THEN 1 ELSE 0)
    BY <2>2, <2>3, <2>6
  <2>9. counts'[c] + Coming(c)' = counts[c] + Coming(c)
    BY <1>c, <2>4, <2>5, <2>8, <2>b
  <2> QED BY <1>c, <2>7, <2>9
<1>18. CASE UNCHANGED commands
  BY <1>18, <1>s DEF commands
<1> QED BY <1>2, <1>3, <1>4, <1>11, <1>12, <1>13, <1>15, <1>16, <1>17, <1>18 DEF CommandsNext

LEMMA CountInit == CommandsInit => CountInv
<1> SUFFICES ASSUME CommandsInit, NEW c \in Container PROVE counts[c] + Coming(c) = Cardinality(In(c))
  BY DEF CountInv
<1>1. Coming(c) = 0
  <2>1. told = <<>> /\ \A T : Places(<<>>, T) = {}
    BY DEF CommandsInit, Places
  <2>2. Cardinality(Places(told, Into(c))) = 0 /\ Cardinality(Places(told, OutOf(c))) = 0
    BY <2>1, FS_EmptySet
  <2> QED BY <2>2 DEF Coming
<1>2. counts[c] = Cardinality(In(c))
  BY DEF CommandsInit
<1>3. Cardinality(In(c)) \in Nat
  <2>1. In(c) \in SUBSET Picture
    BY DEF In
  <2> QED BY <2>1, FS_Subset, FS_CardinalityType, CommandsAssumption
<1> QED BY <1>1, <1>2, <1>3

CommandsInv == CommandsTyped /\ WalkInv /\ CountInv

LEMMA CommandsInductive == CommandsSpec => []CommandsInv
<1>1. CommandsInit => CommandsInv
  BY CommandsTypedInit, WalkInit, CountInit DEF CommandsInv
<1>2. CommandsInv /\ [CommandsNext]_commands => CommandsInv'
  BY CommandsTypedStep, WalkStep, CountStep DEF CommandsInv
<1> QED BY <1>1, <1>2, PTL DEF CommandsSpec

\* The counts of the tree are those of the files in the folders.
THEOREM CommandsCountsFollow == CommandsSpec => []CountsFollow
<1>1. CommandsInv => CountsFollow
  <2> SUFFICES ASSUME CommandsInv, Answered, hasty = {}, NEW c \in Container PROVE counts[c] = Cardinality(In(c))
    BY DEF CountsFollow
  <2>1. Coming(c) = 0
    <3>1. told = <<>> /\ \A T : Places(<<>>, T) = {}
      BY DEF Answered, Places
    <3>2. Cardinality(Places(told, Into(c))) = 0 /\ Cardinality(Places(told, OutOf(c))) = 0
      BY <3>1, FS_EmptySet
    <3> QED BY <3>2 DEF Coming
  <2>2. counts[c] + Coming(c) = Cardinality(In(c)) /\ counts[c] \in Int
    BY DEF CommandsInv, CountInv, CommandsTyped
  <2> QED BY <2>1, <2>2
<1> QED BY <1>1, CommandsInductive, PTL

\* What was done last is as it was left, and what was undone last is as it
\* was found.
THEOREM CommandsHistoryStands == CommandsSpec => []HistoryStands
<1>1. CommandsInv => HistoryStands
  <2> SUFFICES ASSUME CommandsInv PROVE HistoryStands
    OBVIOUS
  <2>t. CommandsTyped /\ WalkInv
    BY DEF CommandsInv
  <2>1. ASSUME NEW k \in Keys, k[1] \notin hasty, sent = <<>> PROVE Leads(k, Have(k))
    <3>1. PICK x \in Values : Leads(k, x)
      BY <2>t, <2>1 DEF WalkInv
    <3>2. x = Have(k)
      BY <2>1, <3>1, WalksNowhere DEF Leads
    <3> QED BY <3>1, <3>2
  <2>2. ASSUME NEW o \in Command, Have(KeyOf(o)) = Says(o)
        PROVE  IF o.op = "move" THEN folder_of[o.file] = o.to ELSE stored[o.file][o.property] = o.value
    <3>1. CASE o.op = "move"
      <4>1. KeyOf(o)[1] = o.file /\ KeyOf(o)[2] = "folder" /\ Says(o) = o.to
        BY <3>1 DEF KeyOf, Says
      <4> QED BY <2>2, <3>1, <4>1 DEF Have
    <3>2. CASE o.op # "move"
      <4>1. o.property \in Property /\ o.property # "folder"
        BY <3>2 DEF Command, SetOp, MoveOp, Property
      <4>2. KeyOf(o)[1] = o.file /\ KeyOf(o)[2] = o.property /\ Says(o) = o.value
        BY <3>2 DEF KeyOf, Says
      <4> QED BY <2>2, <3>2, <4>1, <4>2 DEF Have
    <3> QED BY <3>1, <3>2
  <2>3. ASSUME Answered, undos # <<>>, undos[1].redo.file \notin hasty
        PROVE  undos[1].redo \in Command /\ Have(KeyOf(undos[1].redo)) = Says(undos[1].redo)
    <3>1. undos \in Seq(Transaction)
      BY <2>t DEF CommandsTyped
    <3>2. Head(undos) = undos[1] /\ undos[1] \in Transaction
      BY <2>3, <3>1
    <3> DEFINE t == undos[1]
               k == KeyOf(t.redo)
    <3>3. t.redo \in Command /\ k \in Keys /\ k[1] = t.redo.file
      BY <3>2, TransactionIs, CommandSays DEF KeyOf
    <3>4. Leads(k, Have(k))
      BY <2>1, <2>3, <3>3 DEF Answered
    <3>5. PICK y : Walks(UndoArcs(k), undos, Have(k), y)
      BY <3>4 DEF Leads
    <3> HIDE DEF k
    <3>6. PICK z : <<Have(k), z>> \in UndoArcs(k)[t]
      BY <2>3, <3>1, <3>2, <3>5, WalksTail
    <3>7. Have(k) = Says(t.redo)
      <4> HIDE DEF t
      <4> QED BY <3>2, <3>6, UndoArc DEF k, t
    <3> QED BY <3>3, <3>7 DEF k
  <2>4. ASSUME Answered, redos # <<>>, redos[1].undo.file \notin hasty
        PROVE  redos[1].undo \in Command /\ Have(KeyOf(redos[1].undo)) = Says(redos[1].undo)
    <3>1. redos \in Seq(Transaction)
      BY <2>t DEF CommandsTyped
    <3>2. Head(redos) = redos[1] /\ redos[1] \in Transaction
      BY <2>4, <3>1
    <3> DEFINE t == redos[1]
               k == KeyOf(t.undo)
    <3>3. t.undo \in Command /\ k \in Keys /\ k[1] = t.undo.file /\ KeyOf(t.redo) = k
      BY <3>2, TransactionIs, CommandSays DEF KeyOf
    <3>4. Leads(k, Have(k))
      BY <2>1, <2>4, <3>3 DEF Answered
    <3>5. PICK y : Walks(RedoArcs(k), redos, Have(k), y)
      BY <3>4 DEF Leads
    <3> HIDE DEF k
    <3>6. PICK z : <<Have(k), z>> \in RedoArcs(k)[t]
      BY <2>4, <3>1, <3>2, <3>5, WalksTail
    <3>7. Have(k) = Says(t.undo)
      <4> HIDE DEF t
      <4> QED BY <3>2, <3>3, <3>6, RedoArc DEF t
    <3> QED BY <3>3, <3>7 DEF k
  <2> QED BY <2>2, <2>3, <2>4 DEF HistoryStands
<1> QED BY <1>1, CommandsInductive, PTL

-----------------------------------------------------------------------------
(* The workspace tree.                                                     *)

AllFolders == TreeOp("get_all_folders", NoRoom)
AllKeywords == TreeOp("get_all_keywords", NoRoom)

\* The operations that are sent after these two, and the notifications.
LateOp ==
  [op : {"create_folder"}, what : {NoRoom}] \cup [op : {"set_keywords"}, what : SUBSET Tag]
  \cup [op : {"delete_folder", "count_folder"}, what : TreeFolder] \cup [op : {"count_keyword"}, what : Tag]
TreeNotice ==
  [n : {"AddedFolder", "FolderDeleted", "FolderCounted"}, what : TreeFolder]
  \cup [n : {"AddedKeyword", "KeywordCounted"}, what : Tag]

FolderRow(r, d) == r \in DOMAIN tree /\ tree[r].type = "FOLDER_ITEM" /\ tree[r].id = d
KeywordRow(r, k) == r \in DOMAIN tree /\ tree[r].type = "KEYWORD_ITEM" /\ tree[r].id = k

TreeTyped ==
  /\ db_folders \subseteq TreeFolder /\ db_tags \subseteq Tag
  /\ tree_notifs \in Seq(TreeNotice)
  /\ DOMAIN m_folderidmap \subseteq TreeFolder /\ DOMAIN m_keywordsidmap \subseteq Tag
  /\ asked \in TreeFolder \cup {NoRoom}

\* The maps lead to the rows, and the rows are where the maps lead.
RowInv ==
  /\ tree = [r \in DOMAIN tree |-> tree[r]]
  /\ \A r \in DOMAIN tree : tree[r] \in [type : {"FOLDER_ITEM", "KEYWORD_ITEM"}, id : TreeFolder \cup Tag, counted : BOOLEAN]
  /\ \A d \in DOMAIN m_folderidmap : FolderRow(m_folderidmap[d], d)
  /\ \A k \in DOMAIN m_keywordsidmap : KeywordRow(m_keywordsidmap[k], k)
  /\ \A r \in DOMAIN tree :
       \/ tree[r].type = "FOLDER_ITEM" /\ tree[r].id \in DOMAIN m_folderidmap /\ m_folderidmap[tree[r].id] = r
       \/ tree[r].type = "KEYWORD_ITEM" /\ tree[r].id \in DOMAIN m_keywordsidmap /\ m_keywordsidmap[tree[r].id] = r

\* What a notification makes of the ids that are in a map.
IdArcs(added, deleted, U) ==
  [n \in TreeNotice |->
     {p \in (SUBSET U) \X (SUBSET U) :
        IF n.n = added THEN n.what \notin p[1] /\ p[2] = p[1] \cup {n.what}
        ELSE IF n.n = deleted THEN n.what \in p[1] /\ p[2] = p[1] \ {n.what}
        ELSE p[1] = p[2]}]
FolderArcs == IdArcs("AddedFolder", "FolderDeleted", TreeFolder)
KeywordArcs == IdArcs("AddedKeyword", "none", Tag)

\* How far the library is: what it has told of, x of the folders and y of the
\* keywords.
Progress(x, y) ==
  \/ x = {} /\ y = {} /\ \E s \in Seq(LateOp) : tree_ops = <<AllFolders, AllKeywords>> \o s
  \/ x = db_folders /\ y = {} /\ \E s \in Seq(LateOp) : tree_ops = <<AllKeywords>> \o s
  \/ x = db_folders /\ y = db_tags /\ tree_ops \in Seq(LateOp)

TreeLeads ==
  \E x, y : /\ Walks(FolderArcs, tree_notifs, DOMAIN m_folderidmap, x)
            /\ Walks(KeywordArcs, tree_notifs, DOMAIN m_keywordsidmap, y)
            /\ Progress(x, y)

\* A row has its count, or it is asked for or told.
CountedInv ==
  /\ \A d \in DOMAIN m_folderidmap :
       \/ tree[m_folderidmap[d]].counted
       \/ Among(TreeOp("count_folder", d), tree_ops) \/ Among(TreeNotif("FolderCounted", d), tree_notifs)
  /\ \A k \in DOMAIN m_keywordsidmap :
       \/ tree[m_keywordsidmap[k]].counted
       \/ Among(TreeOp("count_keyword", k), tree_ops) \/ Among(TreeNotif("KeywordCounted", k), tree_notifs)

TreeInv == TreeTyped /\ RowInv /\ TreeLeads /\ CountedInv

LEMMA IdArc ==
  ASSUME NEW n \in TreeNotice, NEW added, NEW deleted, NEW U, NEW x, NEW y
  PROVE  <<x, y>> \in IdArcs(added, deleted, U)[n] <=>
           /\ x \subseteq U /\ y \subseteq U
           /\ IF n.n = added THEN n.what \notin x /\ y = x \cup {n.what}
              ELSE IF n.n = deleted THEN n.what \in x /\ y = x \ {n.what}
              ELSE x = y
<1> DEFINE P(p) == IF n.n = added THEN n.what \notin p[1] /\ p[2] = p[1] \cup {n.what}
                   ELSE IF n.n = deleted THEN n.what \in p[1] /\ p[2] = p[1] \ {n.what}
                   ELSE p[1] = p[2]
<1>1. IdArcs(added, deleted, U)[n] = {p \in (SUBSET U) \X (SUBSET U) : P(p)}
  BY DEF IdArcs
<1>2. <<x, y>>[1] = x /\ <<x, y>>[2] = y /\ (<<x, y>> \in (SUBSET U) \X (SUBSET U) <=> x \subseteq U /\ y \subseteq U)
  OBVIOUS
<1>3. P(<<x, y>>) <=> IF n.n = added THEN n.what \notin x /\ y = x \cup {n.what}
                      ELSE IF n.n = deleted THEN n.what \in x /\ y = x \ {n.what}
                      ELSE x = y
  BY <1>2
<1> HIDE DEF P
<1> QED BY <1>1, <1>2, <1>3

\* What is told of a set that was not told of before is added to it.
LEMMA TellAdds ==
  ASSUME NEW S, IsFiniteSet(S), NEW s \in SetToSeqs(S), NEW added, NEW deleted, NEW U, S \subseteq U,
         NEW A, A \subseteq U, A \cap S = {}, \A e \in S : TreeNotif(added, e) \in TreeNotice
  PROVE  LET t == [i \in DOMAIN s |-> TreeNotif(added, s[i])]
         IN  t \in Seq(TreeNotice) /\ Walks(IdArcs(added, deleted, U), t, A, A \cup S)
<1> DEFINE t == [i \in DOMAIN s |-> TreeNotif(added, s[i])]
           n == Len(s)
           a == IdArcs(added, deleted, U)
<1>1. /\ s \in Seq(S) /\ DOMAIN s = 1..n /\ n \in Nat /\ \A i, j \in 1..n : s[i] = s[j] => i = j
      /\ \A x \in S : \E i \in 1..n : s[i] = x
  BY SequencesOf
<1>2. \A i \in 1..n : s[i] \in S
  BY <1>1
<1>3. \A i \in 1..n : t[i] = TreeNotif(added, s[i]) /\ t[i] \in TreeNotice
  BY <1>1, <1>2
<1>4. t \in Seq(TreeNotice) /\ Len(t) = n
  <2>1. t \in [1..n -> TreeNotice]
    BY <1>1, <1>3
  <2> HIDE DEF t, n
  <2> QED BY <1>1, <2>1
<1> DEFINE w == [i \in 0..n |-> A \cup {s[j] : j \in 1..i}]
<1> HIDE DEF n
<1>5. w[0] = A
  BY <1>1
<1>6. w[n] = A \cup S
  <2>1. {s[j] : j \in 1..n} = S
    BY <1>1, <1>2
  <2> QED BY <1>1, <2>1
<1>7. ASSUME NEW i \in 1..n PROVE <<w[i - 1], w[i]>> \in a[t[i]]
  <2>1. w[i - 1] = A \cup {s[j] : j \in 1..(i - 1)} /\ w[i] = A \cup {s[j] : j \in 1..i}
    BY <1>1
  <2>2. (\A j \in 1..(i - 1) : j \in 1..n /\ j # i) /\ \A j \in 1..i : j \in 1..n /\ (j = i \/ j \in 1..(i - 1))
    BY <1>1
  <2>3. {s[j] : j \in 1..i} = {s[j] : j \in 1..(i - 1)} \cup {s[i]}
    BY <1>1, <2>2
  <2>4. s[i] \in S /\ s[i] \notin A /\ s[i] \notin {s[j] : j \in 1..(i - 1)}
    BY <1>1, <1>2, <2>2
  <2>5. {s[j] : j \in 1..(i - 1)} \subseteq S /\ {s[j] : j \in 1..i} \subseteq S
    BY <1>2, <2>2
  <2> HIDE DEF t, w
  <2>6. t[i] \in TreeNotice /\ t[i].n = added /\ t[i].what = s[i]
    <3>1. \A e : TreeNotif(added, e).n = added /\ TreeNotif(added, e).what = e
      BY DEF TreeNotif
    <3>2. t[i] = TreeNotif(added, s[i]) /\ t[i] \in TreeNotice
      BY <1>3
    <3> QED BY <3>1, <3>2
  <2>7. w[i - 1] \subseteq U /\ w[i] \subseteq U /\ t[i].what \notin w[i - 1] /\ w[i] = w[i - 1] \cup {t[i].what}
    BY <2>1, <2>3, <2>4, <2>5, <2>6
  <2> QED BY <2>6, <2>7, IdArc
<1> HIDE DEF w, a, t
<1>8. Walks(a, t, A, A \cup S)
  BY <1>4, <1>5, <1>6, <1>7 DEF Walks
<1> QED BY <1>4, <1>8 DEF a, t

\* What is told of another matter changes nothing in it.
LEMMA TellKeeps ==
  ASSUME NEW t \in Seq(TreeNotice), NEW added, NEW deleted, NEW U, NEW A, A \subseteq U,
         \A i \in DOMAIN t : t[i].n # added /\ t[i].n # deleted
  PROVE  Walks(IdArcs(added, deleted, U), t, A, A)
<1>1. \A i \in DOMAIN t : t[i] \in TreeNotice
  OBVIOUS
<1>2. \A i \in DOMAIN t : <<A, A>> \in IdArcs(added, deleted, U)[t[i]]
  BY <1>1, IdArc
<1> QED BY <1>2, WalksStill

\* What is told of.
LEMMA TellLeads ==
  ASSUME TreeTyped, NEW S, IsFiniteSet(S), NEW name, TellTree(name, S), \A e \in S : TreeNotif(name, e) \in TreeNotice,
         NEW added, NEW deleted, name # deleted, NEW U, NEW D, NEW x, x \subseteq U,
         Walks(IdArcs(added, deleted, U), tree_notifs, D, x), name = added => S \subseteq U /\ S \cap x = {}
  PROVE  Walks(IdArcs(added, deleted, U), tree_notifs', D, IF name = added THEN x \cup S ELSE x)
<1>1. PICK s \in SetToSeqs(S) : tree_notifs' = tree_notifs \o [i \in DOMAIN s |-> TreeNotif(name, s[i])]
  BY DEF TellTree
<1> DEFINE t == [i \in DOMAIN s |-> TreeNotif(name, s[i])]
<1>2. tree_notifs \in Seq(TreeNotice)
  BY DEF TreeTyped
<1>3. s \in Seq(S)
  BY SequencesOf
<1>4. \A i \in DOMAIN s : s[i] \in S
  BY <1>3
<1>5. t \in Seq(TreeNotice) /\ \A i \in DOMAIN t : t[i].n = name
  <2>1. DOMAIN s = 1..Len(s) /\ Len(s) \in Nat
    BY <1>3
  <2>2. t \in [1..Len(s) -> TreeNotice]
    BY <1>4, <2>1
  <2>3. \A i \in DOMAIN t : t[i].n = name
    BY DEF TreeNotif
  <2> HIDE DEF t
  <2> QED BY <2>1, <2>2, <2>3
<1>6. CASE name = added
  <2>1. Walks(IdArcs(added, deleted, U), t, x, x \cup S)
    <3>1. \A e \in S : TreeNotif(added, e) \in TreeNotice
      BY <1>6
    <3>2. x \cap S = {} /\ S \subseteq U
      BY <1>6
    <3> QED BY <1>6, <3>1, <3>2, TellAdds
  <2> HIDE DEF t
  <2>2. Walks(IdArcs(added, deleted, U), tree_notifs \o t, D, x \cup S)
    BY <1>2, <1>5, <2>1, WalksConcat
  <2> QED BY <1>1, <1>6, <2>2 DEF t
<1>7. CASE name # added
  <2>1. Walks(IdArcs(added, deleted, U), t, x, x)
    <3> HIDE DEF t
    <3>1. \A i \in DOMAIN t : t[i].n # added /\ t[i].n # deleted
      BY <1>5, <1>7
    <3> QED BY <1>5, <3>1, TellKeeps
  <2> HIDE DEF t
  <2>2. Walks(IdArcs(added, deleted, U), tree_notifs \o t, D, x)
    BY <1>2, <1>5, <2>1, WalksConcat
  <2> QED BY <1>1, <1>7, <2>2 DEF t
<1> QED BY <1>6, <1>7

LEMMA TellTyped ==
  ASSUME TreeTyped, NEW S, IsFiniteSet(S), NEW name, TellTree(name, S), \A e \in S : TreeNotif(name, e) \in TreeNotice
  PROVE  /\ tree_notifs' \in Seq(TreeNotice)
         /\ \A e : Among(e, tree_notifs) => Among(e, tree_notifs')
         /\ \A e \in S : Among(TreeNotif(name, e), tree_notifs')
<1>1. PICK s \in SetToSeqs(S) : tree_notifs' = tree_notifs \o [i \in DOMAIN s |-> TreeNotif(name, s[i])]
  BY DEF TellTree
<1> DEFINE t == [i \in DOMAIN s |-> TreeNotif(name, s[i])]
<1>2. tree_notifs \in Seq(TreeNotice)
  BY DEF TreeTyped
<1>3. s \in Seq(S) /\ \A e \in S : \E i \in DOMAIN s : s[i] = e
  BY SequencesOf
<1>4. \A i \in DOMAIN s : s[i] \in S
  BY <1>3
<1>5. t \in Seq(TreeNotice) /\ DOMAIN t = DOMAIN s /\ \A i \in DOMAIN s : t[i] = TreeNotif(name, s[i])
  <2>1. DOMAIN s = 1..Len(s) /\ Len(s) \in Nat
    BY <1>3
  <2>2. t \in [1..Len(s) -> TreeNotice]
    BY <1>4, <2>1
  <2>3. DOMAIN t = DOMAIN s /\ \A i \in DOMAIN s : t[i] = TreeNotif(name, s[i])
    OBVIOUS
  <2> HIDE DEF t
  <2> QED BY <2>1, <2>2, <2>3
<1> HIDE DEF t
<1>6. tree_notifs' = tree_notifs \o t
  BY <1>1 DEF t
<1>7. \A e \in S : Among(TreeNotif(name, e), t)
  BY <1>3, <1>5 DEF Among
<1>8. tree_notifs \o t \in Seq(TreeNotice)
  BY <1>2, <1>5
<1>9. \A e : Among(e, tree_notifs) \/ Among(e, t) => Among(e, tree_notifs \o t)
  BY <1>2, <1>5, AmongStays
<1> QED BY <1>6, <1>7, <1>8, <1>9

LEMMA OpsTyped ==
  ASSUME NEW x, NEW y, Progress(x, y)
  PROVE  tree_ops \in Seq(LateOp \cup {AllFolders, AllKeywords})
<1> DEFINE T == LateOp \cup {AllFolders, AllKeywords}
<1>1. ASSUME NEW s \in Seq(LateOp) PROVE s \in Seq(T)
  OBVIOUS
<1>2. AllFolders \in T /\ AllKeywords \in T
  OBVIOUS
<1> HIDE DEF T
<1>3. ASSUME NEW s \in Seq(T) PROVE <<AllFolders, AllKeywords>> \o s \in Seq(T) /\ <<AllKeywords>> \o s \in Seq(T)
  BY <1>2
<1>4. tree_ops \in Seq(T)
  BY <1>1, <1>3 DEF Progress
<1> QED BY <1>4 DEF T

\* What is sent comes after the operations that are there,
LEMMA ProgressSend ==
  ASSUME NEW x, NEW y, Progress(x, y), NEW o \in LateOp, tree_ops' = Append(tree_ops, o), UNCHANGED <<db_folders, db_tags>>
  PROVE  Progress(x, y)'
<1>1. ASSUME NEW s \in Seq(LateOp)
      PROVE  /\ Append(s, o) \in Seq(LateOp)
             /\ Append(<<AllFolders, AllKeywords>> \o s, o) = <<AllFolders, AllKeywords>> \o Append(s, o)
             /\ Append(<<AllKeywords>> \o s, o) = <<AllKeywords>> \o Append(s, o)
  OBVIOUS
<1>2. CASE x = {} /\ y = {} /\ \E s \in Seq(LateOp) : tree_ops = <<AllFolders, AllKeywords>> \o s
  <2>1. \E s \in Seq(LateOp) : tree_ops' = <<AllFolders, AllKeywords>> \o s
    BY <1>1, <1>2
  <2> QED BY <1>2, <2>1 DEF Progress
<1>3. CASE x = db_folders /\ y = {} /\ \E s \in Seq(LateOp) : tree_ops = <<AllKeywords>> \o s
  <2>1. \E s \in Seq(LateOp) : tree_ops' = <<AllKeywords>> \o s
    BY <1>1, <1>3
  <2> QED BY <1>3, <2>1 DEF Progress
<1>4. CASE x = db_folders /\ y = db_tags /\ tree_ops \in Seq(LateOp)
  <2>1. tree_ops' \in Seq(LateOp)
    BY <1>1, <1>4
  <2> QED BY <1>4, <2>1 DEF Progress
<1> QED BY <1>2, <1>3, <1>4 DEF Progress

\* and runs when the first two have run.
LEMMA ProgressRuns ==
  ASSUME NEW x, NEW y, Progress(x, y), NEW name, RunTree(name), name # "get_all_folders", name # "get_all_keywords"
  PROVE  /\ x = db_folders /\ y = db_tags /\ tree_ops \in Seq(LateOp) /\ tree_ops # <<>>
         /\ Head(tree_ops) \in LateOp /\ Head(tree_ops).op = name /\ tree_ops' \in Seq(LateOp) /\ tree_ops' = Tail(tree_ops)
<1>1. tree_ops # <<>> /\ Head(tree_ops).op = name /\ tree_ops' = Tail(tree_ops)
  BY DEF RunTree
<1>2. ASSUME NEW s \in Seq(LateOp) PROVE Head(<<AllFolders, AllKeywords>> \o s) = AllFolders /\ Head(<<AllKeywords>> \o s) = AllKeywords
  OBVIOUS
<1>3. AllFolders.op = "get_all_folders" /\ AllKeywords.op = "get_all_keywords"
  BY DEF AllFolders, AllKeywords, TreeOp
<1>4. x = db_folders /\ y = db_tags /\ tree_ops \in Seq(LateOp)
  BY <1>1, <1>2, <1>3 DEF Progress
<1>5. Head(tree_ops) \in LateOp /\ Tail(tree_ops) \in Seq(LateOp)
  BY <1>1, <1>4
<1> QED BY <1>1, <1>4, <1>5

LEMMA ProgressStarts ==
  ASSUME NEW x, NEW y, Progress(x, y), NEW name, RunTree(name)
  PROVE  /\ name = "get_all_folders" => x = {} /\ y = {} /\ \E s \in Seq(LateOp) : tree_ops' = <<AllKeywords>> \o s
         /\ name = "get_all_keywords" => x = db_folders /\ y = {} /\ tree_ops' \in Seq(LateOp)
<1>1. tree_ops # <<>> /\ Head(tree_ops).op = name /\ tree_ops' = Tail(tree_ops)
  BY DEF RunTree
<1>2. ASSUME NEW s \in Seq(LateOp)
      PROVE  /\ Head(<<AllFolders, AllKeywords>> \o s) = AllFolders /\ Head(<<AllKeywords>> \o s) = AllKeywords
             /\ Tail(<<AllFolders, AllKeywords>> \o s) = <<AllKeywords>> \o s /\ Tail(<<AllKeywords>> \o s) = s
  OBVIOUS
<1>3. AllFolders.op = "get_all_folders" /\ AllKeywords.op = "get_all_keywords"
  BY DEF AllFolders, AllKeywords, TreeOp
<1>4. tree_ops \in Seq(LateOp) => Head(tree_ops).op # "get_all_folders" /\ Head(tree_ops).op # "get_all_keywords"
  <2>1. \A o \in LateOp : o.op # "get_all_folders" /\ o.op # "get_all_keywords"
    BY DEF LateOp
  <2>2. tree_ops \in Seq(LateOp) => Head(tree_ops) \in LateOp
    BY <1>1
  <2> QED BY <2>1, <2>2
<1>5. CASE name = "get_all_folders"
  <2>1. x = {} /\ y = {} /\ \E s \in Seq(LateOp) : tree_ops = <<AllFolders, AllKeywords>> \o s
    BY <1>1, <1>2, <1>3, <1>4, <1>5 DEF Progress
  <2> QED BY <1>1, <1>2, <1>5, <2>1
<1>6. CASE name = "get_all_keywords"
  <2>1. x = db_folders /\ y = {} /\ \E s \in Seq(LateOp) : tree_ops = <<AllKeywords>> \o s
    BY <1>1, <1>2, <1>3, <1>4, <1>6 DEF Progress
  <2> QED BY <1>1, <1>2, <1>6, <2>1
<1> QED BY <1>5, <1>6

-----------------------------------------------------------------------------

SameTree == UNCHANGED <<db_folders, db_tags, tree_notifs, tree, m_folderidmap, m_keywordsidmap>>

LEMMA RowSame == ASSUME RowInv, UNCHANGED <<tree, m_folderidmap, m_keywordsidmap>> PROVE RowInv'
  BY DEF RowInv, FolderRow, KeywordRow

\* Nothing but an operation of the user's.
LEMMA UserKeeps ==
  ASSUME TreeInv, SameTree, tree_ops' = tree_ops \/ \E o \in LateOp : tree_ops' = Append(tree_ops, o),
         asked' \in TreeFolder \cup {NoRoom}
  PROVE  TreeInv'
<1>0. TreeTyped /\ RowInv /\ TreeLeads /\ CountedInv
  BY DEF TreeInv
<1>1. TreeTyped'
  BY <1>0 DEF TreeTyped, SameTree
<1>2. RowInv'
  BY <1>0, RowSame DEF SameTree
<1>3. PICK x, y : /\ Walks(FolderArcs, tree_notifs, DOMAIN m_folderidmap, x)
                  /\ Walks(KeywordArcs, tree_notifs, DOMAIN m_keywordsidmap, y) /\ Progress(x, y)
  BY <1>0 DEF TreeLeads
<1>4. Progress(x, y)'
  <2>1. CASE tree_ops' = tree_ops
    BY <1>3, <2>1 DEF Progress, SameTree
  <2>2. CASE \E o \in LateOp : tree_ops' = Append(tree_ops, o)
    BY <1>3, <2>2, ProgressSend DEF SameTree
  <2> QED BY <2>1, <2>2
<1>5. TreeLeads'
  BY <1>3, <1>4 DEF TreeLeads, SameTree
<1>6. \A e : Among(e, tree_ops) => Among(e, tree_ops')
  <2>1. tree_ops \in Seq(LateOp \cup {AllFolders, AllKeywords})
    BY <1>3, OpsTyped
  <2>2. CASE tree_ops' = tree_ops
    BY <2>2
  <2>3. CASE \E o \in LateOp : tree_ops' = Append(tree_ops, o)
    BY <2>1, <2>3, AmongStays
  <2> QED BY <2>2, <2>3
<1>7. CountedInv'
  BY <1>0, <1>6 DEF CountedInv, SameTree
<1> QED BY <1>1, <1>2, <1>5, <1>7 DEF TreeInv

\* What the library tells of: only the database and the two queues change.
LibraryTells(name, S) ==
  /\ TellTree(name, S) /\ IsFiniteSet(S) /\ \A e \in S : TreeNotif(name, e) \in TreeNotice
  /\ UNCHANGED <<tree, m_folderidmap, m_keywordsidmap, asked>>

LEMMA CountedKeeps ==
  ASSUME TreeTyped, CountedInv, NEW name, NEW S, LibraryTells(name, S),
         NEW T, tree_ops \in Seq(T), tree_ops # <<>>, tree_ops' = Tail(tree_ops),
         \A d \in TreeFolder : Head(tree_ops) = TreeOp("count_folder", d) => name = "FolderCounted" /\ d \in S,
         \A k \in Tag : Head(tree_ops) = TreeOp("count_keyword", k) => name = "KeywordCounted" /\ k \in S
  PROVE  CountedInv'
<1>1. /\ \A e : Among(e, tree_notifs) => Among(e, tree_notifs')
      /\ \A e \in S : Among(TreeNotif(name, e), tree_notifs')
  BY TellTyped DEF LibraryTells
<1>2. \A e : Among(e, tree_ops) => e = Head(tree_ops) \/ Among(e, tree_ops')
  BY AmongStays
<1>3. DOMAIN m_folderidmap \subseteq TreeFolder /\ DOMAIN m_keywordsidmap \subseteq Tag
  BY DEF TreeTyped
<1>4. UNCHANGED <<tree, m_folderidmap, m_keywordsidmap>>
  BY DEF LibraryTells
<1>5. ASSUME NEW d \in DOMAIN m_folderidmap, Among(TreeOp("count_folder", d), tree_ops)
      PROVE  Among(TreeOp("count_folder", d), tree_ops') \/ Among(TreeNotif("FolderCounted", d), tree_notifs')
  BY <1>1, <1>2, <1>3, <1>5
<1>6. ASSUME NEW k \in DOMAIN m_keywordsidmap, Among(TreeOp("count_keyword", k), tree_ops)
      PROVE  Among(TreeOp("count_keyword", k), tree_ops') \/ Among(TreeNotif("KeywordCounted", k), tree_notifs')
  BY <1>1, <1>2, <1>3, <1>6
<1> QED BY <1>1, <1>4, <1>5, <1>6 DEF CountedInv

\* x and y are the folders and keywords told of before, u and v after.
LEMMA LibraryKeeps ==
  ASSUME TreeInv, NEW name, NEW S, LibraryTells(name, S), tree_ops # <<>>, tree_ops' = Tail(tree_ops),
         \A d \in TreeFolder : Head(tree_ops) = TreeOp("count_folder", d) => name = "FolderCounted" /\ d \in S,
         \A k \in Tag : Head(tree_ops) = TreeOp("count_keyword", k) => name = "KeywordCounted" /\ k \in S,
         db_folders' \subseteq TreeFolder, db_tags' \subseteq Tag,
         \A x, y : Walks(FolderArcs, tree_notifs, DOMAIN m_folderidmap, x)
                   /\ Walks(KeywordArcs, tree_notifs, DOMAIN m_keywordsidmap, y) /\ Progress(x, y)
                   => \E u, v : /\ Walks(FolderArcs, tree_notifs', DOMAIN m_folderidmap, u)
                                /\ Walks(KeywordArcs, tree_notifs', DOMAIN m_keywordsidmap, v)
                                /\ Progress(u, v)'
  PROVE  TreeInv'
<1>0. TreeTyped /\ RowInv /\ TreeLeads /\ CountedInv
  BY DEF TreeInv
<1>1. TreeTyped'
  <2>1. tree_notifs' \in Seq(TreeNotice)
    BY <1>0, TellTyped DEF LibraryTells
  <2> QED BY <1>0, <2>1 DEF TreeTyped, LibraryTells
<1>2. RowInv'
  BY <1>0, RowSame DEF LibraryTells
<1>3. PICK x, y : /\ Walks(FolderArcs, tree_notifs, DOMAIN m_folderidmap, x)
                  /\ Walks(KeywordArcs, tree_notifs, DOMAIN m_keywordsidmap, y) /\ Progress(x, y)
  BY <1>0 DEF TreeLeads
<1>4. TreeLeads'
  BY <1>3 DEF TreeLeads, LibraryTells
<1>5. tree_ops \in Seq(LateOp \cup {AllFolders, AllKeywords})
  BY <1>3, OpsTyped
<1>6. CountedInv'
  BY <1>0, <1>5, CountedKeeps
<1> QED BY <1>1, <1>2, <1>4, <1>6 DEF TreeInv

\* What is told adds to the folders told of, to the keywords, or to neither.
LEMMA BothTold ==
  ASSUME TreeTyped, NEW name, NEW S, LibraryTells(name, S), name # "FolderDeleted", name # "none",
         NEW x, NEW y, Progress(x, y),
         Walks(FolderArcs, tree_notifs, DOMAIN m_folderidmap, x),
         Walks(KeywordArcs, tree_notifs, DOMAIN m_keywordsidmap, y),
         name = "AddedFolder" => S \subseteq TreeFolder /\ S \cap x = {},
         name = "AddedKeyword" => S \subseteq Tag /\ S \cap y = {}
  PROVE  /\ Walks(FolderArcs, tree_notifs', DOMAIN m_folderidmap, IF name = "AddedFolder" THEN x \cup S ELSE x)
         /\ Walks(KeywordArcs, tree_notifs', DOMAIN m_keywordsidmap, IF name = "AddedKeyword" THEN y \cup S ELSE y)
<1>1. x \subseteq TreeFolder /\ y \subseteq Tag
  BY DEF Progress, TreeTyped
<1>2. IsFiniteSet(S) /\ TellTree(name, S) /\ \A e \in S : TreeNotif(name, e) \in TreeNotice
  BY DEF LibraryTells
<1>3. Walks(FolderArcs, tree_notifs', DOMAIN m_folderidmap, IF name = "AddedFolder" THEN x \cup S ELSE x)
  BY <1>1, <1>2, TellLeads, SMTT(20) DEF FolderArcs
<1>4. Walks(KeywordArcs, tree_notifs', DOMAIN m_keywordsidmap, IF name = "AddedKeyword" THEN y \cup S ELSE y)
  BY <1>1, <1>2, TellLeads, SMTT(20) DEF KeywordArcs
<1> QED BY <1>3, <1>4

\* Nothing is told.
LEMMA TellsNothing ==
  ASSUME TreeTyped, NEW name, UNCHANGED tree_notifs
  PROVE  TellTree(name, {}) /\ IsFiniteSet({})
<1>1. Cardinality({}) = 0 /\ IsFiniteSet({})
  BY FS_EmptySet
<1>2. <<>> \in SetToSeqs({})
  BY <1>1 DEF SetToSeqs
<1> DEFINE t == [i \in DOMAIN <<>> |-> TreeNotif(name, <<>>[i])]
<1>3. t = <<>>
  OBVIOUS
<1> HIDE DEF t
<1>4. tree_notifs' = tree_notifs \o t
  BY <1>3 DEF TreeTyped
<1>5. \E s \in SetToSeqs({}) : tree_notifs' = tree_notifs \o [i \in DOMAIN s |-> TreeNotif(name, s[i])]
  BY <1>2, <1>4 DEF t
<1> QED BY <1>1, <1>5 DEF TellTree

LEMMA TagSetsFinite == \A S : S \subseteq Tag \/ S \subseteq TreeFolder => IsFiniteSet(S)
<1>1. IsFiniteSet(TreeFolder)
  BY FS_Interval, WorkspaceTreeAssumption DEF TreeFolder
<1> QED BY <1>1, FS_Subset, WorkspaceTreeAssumption

LEMMA NoticeIs ==
  /\ \A d \in TreeFolder : \A name \in {"AddedFolder", "FolderDeleted", "FolderCounted"} : TreeNotif(name, d) \in TreeNotice
  /\ \A k \in Tag : \A name \in {"AddedKeyword", "KeywordCounted"} : TreeNotif(name, k) \in TreeNotice
  /\ \A name, e : TreeNotif(name, e).n = name /\ TreeNotif(name, e).what = e
  BY DEF TreeNotif, TreeNotice

LEMMA FoldersAsked == TreeInv /\ get_all_folders => TreeInv'
<1> SUFFICES ASSUME TreeInv, get_all_folders PROVE TreeInv'
  OBVIOUS
<1> DEFINE name == "AddedFolder"
           S == db_folders
<1>1. TreeTyped
  BY DEF TreeInv
<1>2. RunTree("get_all_folders") /\ UNCHANGED <<db_folders, db_tags>>
  BY DEF get_all_folders, treedb
<1>3. LibraryTells(name, S)
  BY <1>1, TagSetsFinite, NoticeIs DEF LibraryTells, get_all_folders, rowmaps, TreeTyped
<1>4. tree_ops # <<>> /\ tree_ops' = Tail(tree_ops) /\ Head(tree_ops).op = "get_all_folders"
  BY <1>2 DEF RunTree
<1>5. \A e, o : o \in {"count_folder", "count_keyword"} => Head(tree_ops) # TreeOp(o, e)
  BY <1>4 DEF TreeOp
<1>6. ASSUME NEW x, NEW y, Walks(FolderArcs, tree_notifs, DOMAIN m_folderidmap, x),
             Walks(KeywordArcs, tree_notifs, DOMAIN m_keywordsidmap, y), Progress(x, y)
      PROVE  \E u, v : /\ Walks(FolderArcs, tree_notifs', DOMAIN m_folderidmap, u)
                       /\ Walks(KeywordArcs, tree_notifs', DOMAIN m_keywordsidmap, v) /\ Progress(u, v)'
  <2>1. x = {} /\ y = {} /\ \E s \in Seq(LateOp) : tree_ops' = <<AllKeywords>> \o s
    BY <1>2, <1>6, ProgressStarts
  <2>2. /\ Walks(FolderArcs, tree_notifs', DOMAIN m_folderidmap, IF name = "AddedFolder" THEN x \cup S ELSE x)
        /\ Walks(KeywordArcs, tree_notifs', DOMAIN m_keywordsidmap, IF name = "AddedKeyword" THEN y \cup S ELSE y)
    <3>1. S \subseteq TreeFolder /\ S \cap x = {}
      BY <1>1, <2>1 DEF TreeTyped
    <3>2. name # "FolderDeleted" /\ name # "none" /\ name # "AddedKeyword"
      OBVIOUS
    <3> HIDE DEF name, S
    <3> QED BY <1>1, <1>3, <1>6, <3>1, <3>2, BothTold
  <2>3. Progress(db_folders, {})'
    BY <2>1 DEF Progress
  <2>4. Walks(FolderArcs, tree_notifs', DOMAIN m_folderidmap, db_folders')
    <3>1. x \cup S = db_folders'
      BY <1>2, <2>1
    <3> QED BY <2>2, <3>1
  <2>5. Walks(KeywordArcs, tree_notifs', DOMAIN m_keywordsidmap, {})
    BY <2>1, <2>2
  <2> QED BY <2>3, <2>4, <2>5
<1>7. db_folders' \subseteq TreeFolder /\ db_tags' \subseteq Tag
  BY <1>1, <1>2 DEF TreeTyped
<1> HIDE DEF name, S
<1> QED BY <1>3, <1>4, <1>5, <1>6, <1>7, LibraryKeeps

LEMMA KeywordsAsked == TreeInv /\ get_all_keywords => TreeInv'
<1> SUFFICES ASSUME TreeInv, get_all_keywords PROVE TreeInv'
  OBVIOUS
<1> DEFINE name == "AddedKeyword"
           S == db_tags
<1>1. TreeTyped
  BY DEF TreeInv
<1>2. RunTree("get_all_keywords") /\ UNCHANGED <<db_folders, db_tags>>
  BY DEF get_all_keywords, treedb
<1>3. LibraryTells(name, S)
  BY <1>1, TagSetsFinite, NoticeIs DEF LibraryTells, get_all_keywords, rowmaps, TreeTyped
<1>4. tree_ops # <<>> /\ tree_ops' = Tail(tree_ops) /\ Head(tree_ops).op = "get_all_keywords"
  BY <1>2 DEF RunTree
<1>5. \A e, o : o \in {"count_folder", "count_keyword"} => Head(tree_ops) # TreeOp(o, e)
  BY <1>4 DEF TreeOp
<1>6. ASSUME NEW x, NEW y, Walks(FolderArcs, tree_notifs, DOMAIN m_folderidmap, x),
             Walks(KeywordArcs, tree_notifs, DOMAIN m_keywordsidmap, y), Progress(x, y)
      PROVE  \E u, v : /\ Walks(FolderArcs, tree_notifs', DOMAIN m_folderidmap, u)
                       /\ Walks(KeywordArcs, tree_notifs', DOMAIN m_keywordsidmap, v) /\ Progress(u, v)'
  <2>1. x = db_folders /\ y = {} /\ tree_ops' \in Seq(LateOp)
    BY <1>2, <1>6, ProgressStarts
  <2>2. /\ Walks(FolderArcs, tree_notifs', DOMAIN m_folderidmap, IF name = "AddedFolder" THEN x \cup S ELSE x)
        /\ Walks(KeywordArcs, tree_notifs', DOMAIN m_keywordsidmap, IF name = "AddedKeyword" THEN y \cup S ELSE y)
    <3>1. S \subseteq Tag /\ S \cap y = {}
      BY <1>1, <2>1 DEF TreeTyped
    <3>2. name # "FolderDeleted" /\ name # "none" /\ name # "AddedFolder"
      OBVIOUS
    <3> HIDE DEF name, S
    <3> QED BY <1>1, <1>3, <1>6, <3>1, <3>2, BothTold
  <2>3. Progress(db_folders, db_tags)'
    BY <2>1 DEF Progress
  <2>4. Walks(FolderArcs, tree_notifs', DOMAIN m_folderidmap, db_folders')
    BY <1>2, <2>1, <2>2
  <2>5. Walks(KeywordArcs, tree_notifs', DOMAIN m_keywordsidmap, db_tags')
    <3>1. y \cup S = db_tags'
      BY <1>2, <2>1
    <3> QED BY <2>2, <3>1
  <2> QED BY <2>3, <2>4, <2>5
<1>7. db_folders' \subseteq TreeFolder /\ db_tags' \subseteq Tag
  BY <1>1, <1>2 DEF TreeTyped
<1> HIDE DEF name, S
<1> QED BY <1>3, <1>4, <1>5, <1>6, <1>7, LibraryKeeps

\* The operations after these.  What is told is what is added to the database.
LEMMA LateKeeps ==
  ASSUME TreeInv, NEW op, RunTree(op), op # "get_all_folders", op # "get_all_keywords",
         NEW name, NEW S, LibraryTells(name, S), name # "FolderDeleted", name # "none",
         op = "count_folder" => name = "FolderCounted" /\ Head(tree_ops).what \in S,
         op = "count_keyword" => name = "KeywordCounted" /\ Head(tree_ops).what \in S,
         name = "AddedFolder" => S \subseteq TreeFolder /\ S \cap db_folders = {},
         name = "AddedKeyword" => S \subseteq Tag /\ S \cap db_tags = {},
         db_folders' = IF name = "AddedFolder" THEN db_folders \cup S ELSE db_folders,
         db_tags' = IF name = "AddedKeyword" THEN db_tags \cup S ELSE db_tags
  PROVE  TreeInv'
<1>1. TreeTyped
  BY DEF TreeInv
<1>4. tree_ops # <<>> /\ tree_ops' = Tail(tree_ops) /\ Head(tree_ops).op = op
  BY DEF RunTree
<1>5. /\ \A d \in TreeFolder : Head(tree_ops) = TreeOp("count_folder", d) => name = "FolderCounted" /\ d \in S
      /\ \A k \in Tag : Head(tree_ops) = TreeOp("count_keyword", k) => name = "KeywordCounted" /\ k \in S
  <2>1. \A o, e : TreeOp(o, e).op = o /\ TreeOp(o, e).what = e
    BY DEF TreeOp
  <2> QED BY <1>4, <2>1
<1>6. ASSUME NEW x, NEW y, Walks(FolderArcs, tree_notifs, DOMAIN m_folderidmap, x),
             Walks(KeywordArcs, tree_notifs, DOMAIN m_keywordsidmap, y), Progress(x, y)
      PROVE  \E u, v : /\ Walks(FolderArcs, tree_notifs', DOMAIN m_folderidmap, u)
                       /\ Walks(KeywordArcs, tree_notifs', DOMAIN m_keywordsidmap, v) /\ Progress(u, v)'
  <2>1. x = db_folders /\ y = db_tags /\ tree_ops' \in Seq(LateOp)
    BY <1>6, ProgressRuns
  <2>2. /\ Walks(FolderArcs, tree_notifs', DOMAIN m_folderidmap, IF name = "AddedFolder" THEN x \cup S ELSE x)
        /\ Walks(KeywordArcs, tree_notifs', DOMAIN m_keywordsidmap, IF name = "AddedKeyword" THEN y \cup S ELSE y)
    BY <1>1, <1>6, <2>1, BothTold
  <2>3. Progress(db_folders, db_tags)'
    BY <2>1 DEF Progress
  <2> QED BY <2>1, <2>2, <2>3
<1>7. db_folders' \subseteq TreeFolder /\ db_tags' \subseteq Tag
  BY <1>1 DEF TreeTyped
<1> QED BY <1>4, <1>5, <1>6, <1>7, LibraryKeeps

LEMMA FolderCreated == TreeInv /\ create_folder => TreeInv'
<1> SUFFICES ASSUME TreeInv, create_folder PROVE TreeInv'
  OBVIOUS
<1> DEFINE id == IF db_folders = {} THEN 1 ELSE (CHOOSE d \in db_folders : \A e \in db_folders : e <= d) + 1
<1>1. TreeTyped
  BY DEF TreeInv
<1>2. /\ RunTree("create_folder") /\ UNCHANGED <<db_tags, tree, m_folderidmap, m_keywordsidmap, asked>>
      /\ IF id \in TreeFolder THEN db_folders' = db_folders \cup {id} /\ TellTree("AddedFolder", {id})
         ELSE UNCHANGED <<db_folders, tree_notifs>>
  BY DEF create_folder, rowmaps
<1>3. id \notin db_folders
  <2>1. CASE db_folders = {}
    BY <2>1
  <2>2. CASE db_folders # {}
    <3>1. db_folders \subseteq 0..MaxTreeFolder
      BY <1>1 DEF TreeTyped, TreeFolder
    <3>2. \E d \in db_folders : \A e \in db_folders : e <= d
      <4>1. Max(db_folders) \in db_folders /\ \A e \in db_folders : Max(db_folders) >= e
        BY <2>2, <3>1, GreatestNat, WorkspaceTreeAssumption
      <4>2. \A e \in db_folders : e \in Int
        BY <3>1
      <4>3. \A e \in db_folders : e <= Max(db_folders)
        BY <4>1, <4>2
      <4> QED BY <4>1, <4>3
    <3> DEFINE d == CHOOSE d \in db_folders : \A e \in db_folders : e <= d
    <3>3. d \in db_folders /\ \A e \in db_folders : e <= d
      BY <3>2
    <3>4. id = d + 1
      BY <2>2
    <3> HIDE DEF id, d
    <3>5. d \in Int
      BY <3>1, <3>3
    <3> QED BY <3>3, <3>4, <3>5
  <2> QED BY <2>1, <2>2
<1> HIDE DEF id
<1>4. CASE id \in TreeFolder
  <2>1. LibraryTells("AddedFolder", {id})
    BY <1>2, <1>4, FS_Singleton, NoticeIs DEF LibraryTells
  <2>2. {id} \subseteq TreeFolder /\ {id} \cap db_folders = {} /\ db_folders' = db_folders \cup {id} /\ db_tags' = db_tags
    BY <1>2, <1>3, <1>4
  <2> QED BY <1>2, <2>1, <2>2, LateKeeps
<1>5. CASE id \notin TreeFolder
  <2>1. LibraryTells("AddedFolder", {})
    BY <1>1, <1>2, <1>5, TellsNothing DEF LibraryTells
  <2>2. db_folders' = db_folders \cup {} /\ db_tags' = db_tags
    BY <1>2, <1>5
  <2> QED BY <1>2, <2>1, <2>2, LateKeeps
<1> QED BY <1>4, <1>5

LEMMA KeywordsGiven == TreeInv /\ set_keywords => TreeInv'
<1> SUFFICES ASSUME TreeInv, set_keywords PROVE TreeInv'
  OBVIOUS
<1> DEFINE tags == Head(tree_ops).what
           S == tags \ db_tags
<1>1. TreeTyped /\ TreeLeads
  BY DEF TreeInv
<1>2. /\ RunTree("set_keywords") /\ UNCHANGED <<db_folders, tree, m_folderidmap, m_keywordsidmap, asked>>
      /\ TellTree("AddedKeyword", S) /\ db_tags' = db_tags \cup tags
  BY DEF set_keywords, make_keywords, rowmaps
<1>3. tags \subseteq Tag
  <2>1. PICK x, y : Progress(x, y)
    BY <1>1 DEF TreeLeads
  <2>2. Head(tree_ops) \in LateOp /\ Head(tree_ops).op = "set_keywords"
    BY <1>2, <2>1, ProgressRuns
  <2> QED BY <2>2 DEF LateOp
<1> HIDE DEF tags
<1>4. S \subseteq Tag /\ S \cap db_tags = {} /\ db_tags' = db_tags \cup S
  BY <1>2, <1>3
<1> HIDE DEF S
<1>5. LibraryTells("AddedKeyword", S)
  BY <1>2, <1>4, TagSetsFinite, NoticeIs DEF LibraryTells
<1> QED BY <1>2, <1>4, <1>5, LateKeeps

LEMMA ContainerCounted ==
  /\ TreeInv /\ count_container("count_folder", "FolderCounted") => TreeInv'
  /\ TreeInv /\ count_container("count_keyword", "KeywordCounted") => TreeInv'
<1> DEFINE what == Head(tree_ops).what
<1>1. ASSUME TreeInv, NEW op, RunTree(op), op # "get_all_folders", op # "get_all_keywords" PROVE Head(tree_ops) \in LateOp /\ Head(tree_ops).op = op
  <2>1. PICK x, y : Progress(x, y)
    BY <1>1 DEF TreeInv, TreeLeads
  <2> QED BY <1>1, <2>1, ProgressRuns
<1>2. ASSUME TreeInv, count_container("count_folder", "FolderCounted") PROVE TreeInv'
  <2>1. RunTree("count_folder") /\ TellTree("FolderCounted", {what}) /\ UNCHANGED <<db_folders, db_tags, tree, m_folderidmap, m_keywordsidmap, asked>>
    BY <1>2 DEF count_container, treedb, rowmaps
  <2>2. what \in TreeFolder
    <3>1. Head(tree_ops) \in LateOp /\ Head(tree_ops).op = "count_folder"
      BY <1>1, <1>2, <2>1
    <3> QED BY <3>1 DEF LateOp
  <2>3. LibraryTells("FolderCounted", {what})
    BY <2>1, <2>2, FS_Singleton, NoticeIs DEF LibraryTells
  <2> QED BY <1>2, <2>1, <2>3, LateKeeps
<1>3. ASSUME TreeInv, count_container("count_keyword", "KeywordCounted") PROVE TreeInv'
  <2>1. RunTree("count_keyword") /\ TellTree("KeywordCounted", {what}) /\ UNCHANGED <<db_folders, db_tags, tree, m_folderidmap, m_keywordsidmap, asked>>
    BY <1>3 DEF count_container, treedb, rowmaps
  <2>2. what \in Tag
    <3>1. Head(tree_ops) \in LateOp /\ Head(tree_ops).op = "count_keyword"
      BY <1>1, <1>3, <2>1
    <3> QED BY <3>1 DEF LateOp
  <2>3. LibraryTells("KeywordCounted", {what})
    BY <2>1, <2>2, FS_Singleton, NoticeIs DEF LibraryTells
  <2> QED BY <1>3, <2>1, <2>3, LateKeeps
<1> QED BY <1>2, <1>3

LEMMA FolderGoes == TreeInv /\ delete_folder => TreeInv'
<1> SUFFICES ASSUME TreeInv, delete_folder PROVE TreeInv'
  OBVIOUS
<1> DEFINE id == Head(tree_ops).what
<1>1. TreeTyped
  BY DEF TreeInv
<1>2. /\ RunTree("delete_folder") /\ UNCHANGED <<db_tags, tree, m_folderidmap, m_keywordsidmap, asked>>
      /\ IF id \in db_folders THEN db_folders' = db_folders \ {id} /\ TellTree("FolderDeleted", {id})
         ELSE UNCHANGED <<db_folders, tree_notifs>>
  BY DEF delete_folder, rowmaps
<1> HIDE DEF id
<1>4. CASE id \in db_folders
  <2>1. id \in TreeFolder /\ db_folders' = db_folders \ {id} /\ db_tags' = db_tags
    BY <1>1, <1>2, <1>4 DEF TreeTyped
  <2>2. LibraryTells("FolderDeleted", {id})
    BY <1>2, <1>4, <2>1, FS_Singleton, NoticeIs DEF LibraryTells
  <2>3. tree_ops # <<>> /\ tree_ops' = Tail(tree_ops) /\ Head(tree_ops).op = "delete_folder"
    BY <1>2 DEF RunTree
  <2>4. \A e, o : o \in {"count_folder", "count_keyword"} => Head(tree_ops) # TreeOp(o, e)
    BY <2>3 DEF TreeOp
  <2> DEFINE n == TreeNotif("FolderDeleted", id)
  <2>5. n \in TreeNotice /\ n.n = "FolderDeleted" /\ n.what = id
    BY <2>1, NoticeIs
  <2>6. tree_notifs' = Append(tree_notifs, n) /\ tree_notifs \in Seq(TreeNotice)
    <3>1. PICK s \in SetToSeqs({id}) : tree_notifs' = tree_notifs \o [i \in DOMAIN s |-> TreeNotif("FolderDeleted", s[i])]
      BY <1>2, <1>4 DEF TellTree
    <3>2. s = <<id>>
      BY SequencesOfOne
    <3>3. [i \in DOMAIN s |-> TreeNotif("FolderDeleted", s[i])] = <<n>>
      BY <3>2
    <3> HIDE DEF n
    <3>4. tree_notifs' = tree_notifs \o <<n>>
      BY <3>1, <3>3
    <3> QED BY <1>1, <2>5, <3>4 DEF TreeTyped
  <2> HIDE DEF n
  <2>7. ASSUME NEW x, NEW y, Walks(FolderArcs, tree_notifs, DOMAIN m_folderidmap, x),
               Walks(KeywordArcs, tree_notifs, DOMAIN m_keywordsidmap, y), Progress(x, y)
        PROVE  \E u, v : /\ Walks(FolderArcs, tree_notifs', DOMAIN m_folderidmap, u)
                         /\ Walks(KeywordArcs, tree_notifs', DOMAIN m_keywordsidmap, v) /\ Progress(u, v)'
    <3>1. x = db_folders /\ y = db_tags /\ tree_ops' \in Seq(LateOp)
      BY <1>2, <2>7, ProgressRuns
    <3>2. <<x, x \ {id}>> \in FolderArcs[n]
      BY <1>1, <1>4, <2>5, <3>1, IdArc DEF FolderArcs, TreeTyped
    <3>3. <<y, y>> \in KeywordArcs[n]
      BY <1>1, <2>5, <3>1, IdArc DEF KeywordArcs, TreeTyped
    <3>4. Walks(FolderArcs, tree_notifs', DOMAIN m_folderidmap, x \ {id})
      BY <2>5, <2>6, <2>7, <3>2, WalksAppend
    <3>5. Walks(KeywordArcs, tree_notifs', DOMAIN m_keywordsidmap, y)
      BY <2>5, <2>6, <2>7, <3>3, WalksAppend
    <3>6. Progress(db_folders, db_tags)'
      BY <3>1 DEF Progress
    <3>7. x \ {id} = db_folders' /\ y = db_tags'
      BY <2>1, <3>1
    <3> QED BY <3>4, <3>5, <3>6, <3>7
  <2>8. db_folders' \subseteq TreeFolder /\ db_tags' \subseteq Tag
    BY <1>1, <2>1 DEF TreeTyped
  <2> QED BY <2>2, <2>3, <2>4, <2>7, <2>8, LibraryKeeps
<1>5. CASE id \notin db_folders
  <2>1. LibraryTells("AddedFolder", {})
    BY <1>1, <1>2, <1>5, TellsNothing DEF LibraryTells
  <2>2. db_folders' = db_folders \cup {} /\ db_tags' = db_tags
    BY <1>2, <1>5
  <2> QED BY <1>2, <2>1, <2>2, LateKeeps
<1> QED BY <1>4, <1>5

\* A notification is taken.
LEMMA TakesLeads ==
  ASSUME TreeTyped, TreeLeads, NEW name, TakeTree(name)
  PROVE  /\ Head(tree_notifs) \in TreeNotice /\ Head(tree_notifs).n = name
         /\ tree_notifs' \in Seq(TreeNotice)
         /\ \A e : Among(e, tree_notifs) => e = Head(tree_notifs) \/ Among(e, tree_notifs')
         /\ \E x, y, z, w :
              /\ <<DOMAIN m_folderidmap, z>> \in FolderArcs[Head(tree_notifs)] /\ Walks(FolderArcs, tree_notifs', z, x)
              /\ <<DOMAIN m_keywordsidmap, w>> \in KeywordArcs[Head(tree_notifs)] /\ Walks(KeywordArcs, tree_notifs', w, y)
              /\ Progress(x, y)
<1>1. tree_notifs # <<>> /\ Head(tree_notifs).n = name /\ tree_notifs' = Tail(tree_notifs) /\ tree_notifs \in Seq(TreeNotice)
  BY DEF TakeTree, TreeTyped
<1>2. Head(tree_notifs) \in TreeNotice /\ Tail(tree_notifs) \in Seq(TreeNotice)
  BY <1>1
<1>3. \A e : Among(e, tree_notifs) => e = Head(tree_notifs) \/ Among(e, Tail(tree_notifs))
  BY <1>1, AmongStays
<1>4. PICK x, y : /\ Walks(FolderArcs, tree_notifs, DOMAIN m_folderidmap, x)
                  /\ Walks(KeywordArcs, tree_notifs, DOMAIN m_keywordsidmap, y) /\ Progress(x, y)
  BY DEF TreeLeads
<1>5. PICK z : <<DOMAIN m_folderidmap, z>> \in FolderArcs[Head(tree_notifs)] /\ Walks(FolderArcs, Tail(tree_notifs), z, x)
  BY <1>1, <1>4, WalksTail
<1>6. PICK w : <<DOMAIN m_keywordsidmap, w>> \in KeywordArcs[Head(tree_notifs)] /\ Walks(KeywordArcs, Tail(tree_notifs), w, y)
  BY <1>1, <1>4, WalksTail
<1> QED BY <1>1, <1>2, <1>3, <1>4, <1>5, <1>6

LEMMA FolderAdded == TreeInv /\ add_folder_item => TreeInv'
<1> SUFFICES ASSUME TreeInv, add_folder_item PROVE TreeInv'
  OBVIOUS
<1> DEFINE n == Head(tree_notifs)
           d == n.what
           o == TreeOp("count_folder", d)
<1>0. TreeTyped /\ RowInv /\ TreeLeads /\ CountedInv
  BY DEF TreeInv
<1>1. PICK r \in 1..MaxTreeRow :
        /\ r \notin DOMAIN tree
        /\ tree' = [s \in DOMAIN tree \cup {r} |-> IF s = r THEN [type |-> "FOLDER_ITEM", id |-> d, counted |-> FALSE] ELSE tree[s]]
        /\ m_folderidmap' = [e \in DOMAIN m_folderidmap \cup {d} |-> IF e = d THEN r ELSE m_folderidmap[e]]
  BY DEF add_folder_item, add_item, FreeRow, Told
<1>2. /\ TakeTree("AddedFolder") /\ tree_ops' = Append(tree_ops, o)
      /\ UNCHANGED <<db_folders, db_tags, m_keywordsidmap, asked>>
  BY DEF add_folder_item, SendTree, treedb, Told
<1>3. /\ n \in TreeNotice /\ n.n = "AddedFolder" /\ tree_notifs' \in Seq(TreeNotice)
      /\ \A e : Among(e, tree_notifs) => e = n \/ Among(e, tree_notifs')
  BY <1>0, <1>2, TakesLeads
<1>4. PICK x, y, z, w :
        /\ <<DOMAIN m_folderidmap, z>> \in FolderArcs[n] /\ Walks(FolderArcs, tree_notifs', z, x)
        /\ <<DOMAIN m_keywordsidmap, w>> \in KeywordArcs[n] /\ Walks(KeywordArcs, tree_notifs', w, y)
        /\ Progress(x, y)
  BY <1>0, <1>2, TakesLeads
<1>5. d \in TreeFolder
  BY <1>3 DEF TreeNotice
<1> HIDE DEF n
<1>6. d \notin DOMAIN m_folderidmap /\ z = DOMAIN m_folderidmap \cup {d}
  BY <1>3, <1>4, IdArc DEF FolderArcs
<1>7. w = DOMAIN m_keywordsidmap
  BY <1>3, <1>4, IdArc DEF KeywordArcs
<1>8. o \in LateOp
  BY <1>5 DEF LateOp, TreeOp
<1> HIDE DEF d, o
<1>9. DOMAIN m_folderidmap' = z /\ DOMAIN m_keywordsidmap' = w
  BY <1>1, <1>2, <1>6, <1>7
<1>10. Progress(x, y)'
  BY <1>2, <1>4, <1>8, ProgressSend
<1>11. TreeLeads'
  BY <1>4, <1>9, <1>10 DEF TreeLeads
<1>12. TreeTyped'
  BY <1>0, <1>2, <1>3, <1>5, <1>6, <1>9 DEF TreeTyped
<1>13. m_folderidmap'[d] = r /\ \A e \in DOMAIN m_folderidmap : e # d /\ m_folderidmap'[e] = m_folderidmap[e]
  BY <1>1, <1>6
<1>14. /\ DOMAIN tree' = DOMAIN tree \cup {r} /\ tree'[r] = [type |-> "FOLDER_ITEM", id |-> d, counted |-> FALSE]
       /\ \A s \in DOMAIN tree : s # r /\ tree'[s] = tree[s]
  BY <1>1
<1>15. RowInv'
  <2>1. tree' = [s \in DOMAIN tree' |-> tree'[s]]
    BY <1>1
  <2>2. \A s \in DOMAIN tree' : tree'[s] \in [type : {"FOLDER_ITEM", "KEYWORD_ITEM"}, id : TreeFolder \cup Tag, counted : BOOLEAN]
    <3>1. tree'[r] \in [type : {"FOLDER_ITEM", "KEYWORD_ITEM"}, id : TreeFolder \cup Tag, counted : BOOLEAN]
      BY <1>5, <1>14
    <3>2. \A s \in DOMAIN tree : tree[s] \in [type : {"FOLDER_ITEM", "KEYWORD_ITEM"}, id : TreeFolder \cup Tag, counted : BOOLEAN]
      BY <1>0 DEF RowInv
    <3> QED BY <1>14, <3>1, <3>2
  <2>3. \A e \in DOMAIN m_folderidmap' : FolderRow(m_folderidmap[e], e)'
    BY <1>0, <1>6, <1>9, <1>13, <1>14 DEF RowInv, FolderRow
  <2>4. \A k \in DOMAIN m_keywordsidmap' : KeywordRow(m_keywordsidmap[k], k)'
    BY <1>0, <1>2, <1>14 DEF RowInv, KeywordRow
  <2>5. \A s \in DOMAIN tree' :
          \/ tree'[s].type = "FOLDER_ITEM" /\ tree'[s].id \in DOMAIN m_folderidmap' /\ m_folderidmap'[tree'[s].id] = s
          \/ tree'[s].type = "KEYWORD_ITEM" /\ tree'[s].id \in DOMAIN m_keywordsidmap' /\ m_keywordsidmap'[tree'[s].id] = s
    BY <1>0, <1>2, <1>6, <1>9, <1>13, <1>14 DEF RowInv
  <2> QED BY <2>1, <2>2, <2>3, <2>4, <2>5 DEF RowInv
<1>16. CountedInv'
  <2>1. tree_ops \in Seq(LateOp \cup {AllFolders, AllKeywords})
    BY <1>4, OpsTyped
  <2>2. \A e : Among(e, tree_ops) \/ e = o => Among(e, tree_ops')
    BY <1>2, <1>8, <2>1, AmongStays
  <2>3. \A e : TreeNotif("FolderCounted", e) # n /\ TreeNotif("KeywordCounted", e) # n
    BY <1>3, NoticeIs
  <2>4. ASSUME NEW e \in DOMAIN m_folderidmap'
        PROVE  \/ tree'[m_folderidmap'[e]].counted
               \/ Among(TreeOp("count_folder", e), tree_ops') \/ Among(TreeNotif("FolderCounted", e), tree_notifs')
    <3>1. CASE e = d
      BY <2>2, <3>1 DEF o
    <3>2. CASE e # d
      <4>1. e \in DOMAIN m_folderidmap /\ m_folderidmap'[e] = m_folderidmap[e]
        BY <1>6, <1>9, <1>13, <2>4, <3>2
      <4>2. m_folderidmap[e] \in DOMAIN tree
        BY <1>0, <4>1 DEF RowInv, FolderRow
      <4>3. tree'[m_folderidmap'[e]] = tree[m_folderidmap[e]]
        BY <1>14, <4>1, <4>2
      <4>4. \/ tree[m_folderidmap[e]].counted
            \/ Among(TreeOp("count_folder", e), tree_ops) \/ Among(TreeNotif("FolderCounted", e), tree_notifs)
        BY <1>0, <4>1 DEF CountedInv
      <4> QED BY <1>3, <2>2, <2>3, <4>3, <4>4
    <3> QED BY <3>1, <3>2
  <2>5. ASSUME NEW k \in DOMAIN m_keywordsidmap'
        PROVE  \/ tree'[m_keywordsidmap'[k]].counted
               \/ Among(TreeOp("count_keyword", k), tree_ops') \/ Among(TreeNotif("KeywordCounted", k), tree_notifs')
    <3>1. k \in DOMAIN m_keywordsidmap /\ m_keywordsidmap'[k] = m_keywordsidmap[k]
      BY <1>2, <2>5
    <3>2. m_keywordsidmap[k] \in DOMAIN tree
      BY <1>0, <3>1 DEF RowInv, KeywordRow
    <3>3. tree'[m_keywordsidmap'[k]] = tree[m_keywordsidmap[k]]
      BY <1>14, <3>1, <3>2
    <3>4. \/ tree[m_keywordsidmap[k]].counted
          \/ Among(TreeOp("count_keyword", k), tree_ops) \/ Among(TreeNotif("KeywordCounted", k), tree_notifs)
      BY <1>0, <3>1 DEF CountedInv
    <3> QED BY <1>3, <2>2, <2>3, <3>3, <3>4
  <2> QED BY <2>4, <2>5 DEF CountedInv
<1> QED BY <1>11, <1>12, <1>15, <1>16 DEF TreeInv
LEMMA KeywordAdded == TreeInv /\ add_keyword_item => TreeInv'
<1> SUFFICES ASSUME TreeInv, add_keyword_item PROVE TreeInv'
  OBVIOUS
<1> DEFINE n == Head(tree_notifs)
           d == n.what
           o == TreeOp("count_keyword", d)
<1>0. TreeTyped /\ RowInv /\ TreeLeads /\ CountedInv
  BY DEF TreeInv
<1>1. PICK r \in 1..MaxTreeRow :
        /\ r \notin DOMAIN tree
        /\ tree' = [s \in DOMAIN tree \cup {r} |-> IF s = r THEN [type |-> "KEYWORD_ITEM", id |-> d, counted |-> FALSE] ELSE tree[s]]
        /\ m_keywordsidmap' = [e \in DOMAIN m_keywordsidmap \cup {d} |-> IF e = d THEN r ELSE m_keywordsidmap[e]]
  BY DEF add_keyword_item, add_item, FreeRow, Told
<1>2. /\ TakeTree("AddedKeyword") /\ tree_ops' = Append(tree_ops, o)
      /\ UNCHANGED <<db_folders, db_tags, m_folderidmap, asked>>
  BY DEF add_keyword_item, SendTree, treedb, Told
<1>3. /\ n \in TreeNotice /\ n.n = "AddedKeyword" /\ tree_notifs' \in Seq(TreeNotice)
      /\ \A e : Among(e, tree_notifs) => e = n \/ Among(e, tree_notifs')
  BY <1>0, <1>2, TakesLeads
<1>4. PICK x, y, w, z :
        /\ <<DOMAIN m_folderidmap, w>> \in FolderArcs[n] /\ Walks(FolderArcs, tree_notifs', w, x)
        /\ <<DOMAIN m_keywordsidmap, z>> \in KeywordArcs[n] /\ Walks(KeywordArcs, tree_notifs', z, y)
        /\ Progress(x, y)
  BY <1>0, <1>2, TakesLeads
<1>5. d \in Tag
  BY <1>3 DEF TreeNotice
<1> HIDE DEF n
<1>6. d \notin DOMAIN m_keywordsidmap /\ z = DOMAIN m_keywordsidmap \cup {d}
  BY <1>3, <1>4, IdArc DEF KeywordArcs
<1>7. w = DOMAIN m_folderidmap
  BY <1>3, <1>4, IdArc DEF FolderArcs
<1>8. o \in LateOp
  BY <1>5 DEF LateOp, TreeOp
<1> HIDE DEF d, o
<1>9. DOMAIN m_keywordsidmap' = z /\ DOMAIN m_folderidmap' = w
  BY <1>1, <1>2, <1>6, <1>7
<1>10. Progress(x, y)'
  BY <1>2, <1>4, <1>8, ProgressSend
<1>11. TreeLeads'
  BY <1>4, <1>9, <1>10 DEF TreeLeads
<1>12. TreeTyped'
  BY <1>0, <1>2, <1>3, <1>5, <1>6, <1>9 DEF TreeTyped
<1>13. m_keywordsidmap'[d] = r /\ \A e \in DOMAIN m_keywordsidmap : e # d /\ m_keywordsidmap'[e] = m_keywordsidmap[e]
  BY <1>1, <1>6
<1>14. /\ DOMAIN tree' = DOMAIN tree \cup {r} /\ tree'[r] = [type |-> "KEYWORD_ITEM", id |-> d, counted |-> FALSE]
       /\ \A s \in DOMAIN tree : s # r /\ tree'[s] = tree[s]
  BY <1>1
<1>15. RowInv'
  <2>1. tree' = [s \in DOMAIN tree' |-> tree'[s]]
    BY <1>1
  <2>2. \A s \in DOMAIN tree' : tree'[s] \in [type : {"KEYWORD_ITEM", "FOLDER_ITEM"}, id : TreeFolder \cup Tag, counted : BOOLEAN]
    <3>1. tree'[r] \in [type : {"KEYWORD_ITEM", "FOLDER_ITEM"}, id : TreeFolder \cup Tag, counted : BOOLEAN]
      BY <1>5, <1>14
    <3>2. \A s \in DOMAIN tree : tree[s] \in [type : {"KEYWORD_ITEM", "FOLDER_ITEM"}, id : TreeFolder \cup Tag, counted : BOOLEAN]
      BY <1>0 DEF RowInv
    <3> QED BY <1>14, <3>1, <3>2
  <2>3. \A e \in DOMAIN m_keywordsidmap' : KeywordRow(m_keywordsidmap[e], e)'
    BY <1>0, <1>6, <1>9, <1>13, <1>14 DEF RowInv, KeywordRow
  <2>4. \A k \in DOMAIN m_folderidmap' : FolderRow(m_folderidmap[k], k)'
    BY <1>0, <1>2, <1>14 DEF RowInv, FolderRow
  <2>5. \A s \in DOMAIN tree' :
          \/ tree'[s].type = "KEYWORD_ITEM" /\ tree'[s].id \in DOMAIN m_keywordsidmap' /\ m_keywordsidmap'[tree'[s].id] = s
          \/ tree'[s].type = "FOLDER_ITEM" /\ tree'[s].id \in DOMAIN m_folderidmap' /\ m_folderidmap'[tree'[s].id] = s
    BY <1>0, <1>2, <1>6, <1>9, <1>13, <1>14 DEF RowInv
  <2> QED BY <2>1, <2>2, <2>3, <2>4, <2>5 DEF RowInv
<1>16. CountedInv'
  <2>1. tree_ops \in Seq(LateOp \cup {AllFolders, AllKeywords})
    BY <1>4, OpsTyped
  <2>2. \A e : Among(e, tree_ops) \/ e = o => Among(e, tree_ops')
    BY <1>2, <1>8, <2>1, AmongStays
  <2>3. \A e : TreeNotif("KeywordCounted", e) # n /\ TreeNotif("FolderCounted", e) # n
    BY <1>3, NoticeIs
  <2>4. ASSUME NEW e \in DOMAIN m_keywordsidmap'
        PROVE  \/ tree'[m_keywordsidmap'[e]].counted
               \/ Among(TreeOp("count_keyword", e), tree_ops') \/ Among(TreeNotif("KeywordCounted", e), tree_notifs')
    <3>1. CASE e = d
      BY <2>2, <3>1 DEF o
    <3>2. CASE e # d
      <4>1. e \in DOMAIN m_keywordsidmap /\ m_keywordsidmap'[e] = m_keywordsidmap[e]
        BY <1>6, <1>9, <1>13, <2>4, <3>2
      <4>2. m_keywordsidmap[e] \in DOMAIN tree
        BY <1>0, <4>1 DEF RowInv, KeywordRow
      <4>3. tree'[m_keywordsidmap'[e]] = tree[m_keywordsidmap[e]]
        BY <1>14, <4>1, <4>2
      <4>4. \/ tree[m_keywordsidmap[e]].counted
            \/ Among(TreeOp("count_keyword", e), tree_ops) \/ Among(TreeNotif("KeywordCounted", e), tree_notifs)
        BY <1>0, <4>1 DEF CountedInv
      <4> QED BY <1>3, <2>2, <2>3, <4>3, <4>4
    <3> QED BY <3>1, <3>2
  <2>5. ASSUME NEW k \in DOMAIN m_folderidmap'
        PROVE  \/ tree'[m_folderidmap'[k]].counted
               \/ Among(TreeOp("count_folder", k), tree_ops') \/ Among(TreeNotif("FolderCounted", k), tree_notifs')
    <3>1. k \in DOMAIN m_folderidmap /\ m_folderidmap'[k] = m_folderidmap[k]
      BY <1>2, <2>5
    <3>2. m_folderidmap[k] \in DOMAIN tree
      BY <1>0, <3>1 DEF RowInv, FolderRow
    <3>3. tree'[m_folderidmap'[k]] = tree[m_folderidmap[k]]
      BY <1>14, <3>1, <3>2
    <3>4. \/ tree[m_folderidmap[k]].counted
          \/ Among(TreeOp("count_folder", k), tree_ops) \/ Among(TreeNotif("FolderCounted", k), tree_notifs)
      BY <1>0, <3>1 DEF CountedInv
    <3> QED BY <1>3, <2>2, <2>3, <3>3, <3>4
  <2> QED BY <2>4, <2>5 DEF CountedInv
<1> QED BY <1>11, <1>12, <1>15, <1>16 DEF TreeInv

LEMMA FolderRemoved == TreeInv /\ remove_folder_item => TreeInv'
<1> SUFFICES ASSUME TreeInv, remove_folder_item PROVE TreeInv'
  OBVIOUS
<1> DEFINE n == Head(tree_notifs)
           d == n.what
           gone == m_folderidmap[d]
<1>0. TreeTyped /\ RowInv /\ TreeLeads /\ CountedInv
  BY DEF TreeInv
<1>1. TakeTree("FolderDeleted") /\ UNCHANGED <<db_folders, db_tags, tree_ops, asked>>
  BY DEF remove_folder_item, treedb
<1>2. /\ n \in TreeNotice /\ n.n = "FolderDeleted" /\ tree_notifs' \in Seq(TreeNotice)
      /\ \A e : Among(e, tree_notifs) => e = n \/ Among(e, tree_notifs')
  BY <1>0, <1>1, TakesLeads
<1>3. PICK x, y, z, w :
        /\ <<DOMAIN m_folderidmap, z>> \in FolderArcs[n] /\ Walks(FolderArcs, tree_notifs', z, x)
        /\ <<DOMAIN m_keywordsidmap, w>> \in KeywordArcs[n] /\ Walks(KeywordArcs, tree_notifs', w, y)
        /\ Progress(x, y)
  BY <1>0, <1>1, TakesLeads
<1>4. d \in DOMAIN m_folderidmap /\ z = DOMAIN m_folderidmap \ {d} /\ w = DOMAIN m_keywordsidmap
  <2> HIDE DEF n
  <2> QED BY <1>2, <1>3, IdArc DEF FolderArcs, KeywordArcs
<1>5. /\ tree' = [s \in DOMAIN tree \ {gone} |-> tree[s]]
      /\ m_folderidmap' = [e \in DOMAIN m_folderidmap \ {d} |-> m_folderidmap[e]]
      /\ m_keywordsidmap' = m_keywordsidmap
  BY <1>4 DEF remove_folder_item, Told
<1> HIDE DEF n, d
<1>6. DOMAIN m_folderidmap' = z /\ DOMAIN m_keywordsidmap' = w
  BY <1>4, <1>5
<1>7. Progress(x, y)'
  BY <1>1, <1>3 DEF Progress
<1>8. TreeLeads'
  BY <1>3, <1>6, <1>7 DEF TreeLeads
<1>9. TreeTyped'
  BY <1>0, <1>1, <1>2, <1>4, <1>6 DEF TreeTyped
<1>10. FolderRow(gone, d)
  BY <1>0, <1>4 DEF RowInv
<1> HIDE DEF gone
<1>11. \A e \in DOMAIN m_folderidmap' : e \in DOMAIN m_folderidmap /\ e # d /\ m_folderidmap'[e] = m_folderidmap[e]
  BY <1>5
<1>12. DOMAIN tree' = DOMAIN tree \ {gone} /\ \A s \in DOMAIN tree' : s \in DOMAIN tree /\ s # gone /\ tree'[s] = tree[s]
  BY <1>5
<1>13. \A e \in DOMAIN m_folderidmap' : m_folderidmap[e] \in DOMAIN tree'
  BY <1>0, <1>10, <1>11, <1>12 DEF RowInv, FolderRow
<1>14. \A k \in DOMAIN m_keywordsidmap : m_keywordsidmap[k] \in DOMAIN tree'
  BY <1>0, <1>10, <1>12 DEF RowInv, FolderRow, KeywordRow
<1>15. RowInv'
  <2>1. tree' = [s \in DOMAIN tree' |-> tree'[s]]
    BY <1>5
  <2>2. \A s \in DOMAIN tree' : tree'[s] \in [type : {"FOLDER_ITEM", "KEYWORD_ITEM"}, id : TreeFolder \cup Tag, counted : BOOLEAN]
    BY <1>0, <1>12 DEF RowInv
  <2>3. \A e \in DOMAIN m_folderidmap' : FolderRow(m_folderidmap[e], e)'
    BY <1>0, <1>11, <1>12, <1>13 DEF RowInv, FolderRow
  <2>4. \A k \in DOMAIN m_keywordsidmap' : KeywordRow(m_keywordsidmap[k], k)'
    BY <1>0, <1>5, <1>12, <1>14 DEF RowInv, KeywordRow
  <2>5. \A s \in DOMAIN tree' :
          \/ tree'[s].type = "FOLDER_ITEM" /\ tree'[s].id \in DOMAIN m_folderidmap' /\ m_folderidmap'[tree'[s].id] = s
          \/ tree'[s].type = "KEYWORD_ITEM" /\ tree'[s].id \in DOMAIN m_keywordsidmap' /\ m_keywordsidmap'[tree'[s].id] = s
    BY <1>0, <1>4, <1>5, <1>6, <1>11, <1>12 DEF RowInv, gone
  <2> QED BY <2>1, <2>2, <2>3, <2>4, <2>5 DEF RowInv
<1>16. CountedInv'
  <2>1. \A e : TreeNotif("FolderCounted", e) # n /\ TreeNotif("KeywordCounted", e) # n
    BY <1>2, NoticeIs
  <2>2. \A e \in DOMAIN m_folderidmap' : tree'[m_folderidmap'[e]] = tree[m_folderidmap[e]]
    BY <1>11, <1>12, <1>13
  <2>3. \A k \in DOMAIN m_keywordsidmap' : tree'[m_keywordsidmap'[k]] = tree[m_keywordsidmap[k]]
    BY <1>5, <1>12, <1>14
  <2> QED BY <1>0, <1>1, <1>2, <1>5, <1>11, <2>1, <2>2, <2>3 DEF CountedInv
<1> QED BY <1>8, <1>9, <1>15, <1>16 DEF TreeInv

LEMMA RowCounts ==
  ASSUME NEW A, NEW B, NEW row \in [type : A, id : B, counted : BOOLEAN]
  PROVE  [row EXCEPT !.counted = TRUE] = [type |-> row.type, id |-> row.id, counted |-> TRUE]
<1>1. row = [type |-> row.type, id |-> row.id, counted |-> row.counted]
  OBVIOUS
<1> DEFINE t == row.type
           i == row.id
           c == row.counted
<1> HIDE DEF t, i, c
<1>2. row = [type |-> t, id |-> i, counted |-> c]
  BY <1>1 DEF t, i, c
<1>3. ASSUME NEW v PROVE [row EXCEPT !.counted = v] = [type |-> t, id |-> i, counted |-> v]
  BY <1>2
<1>4. [row EXCEPT !.counted = TRUE] = [type |-> t, id |-> i, counted |-> TRUE]
  BY <1>3, Zenon
<1> QED BY <1>4, Zenon DEF t, i

LEMMA FolderShowsCount == TreeInv /\ counted("FolderCounted", m_folderidmap) => TreeInv'
<1> SUFFICES ASSUME TreeInv, counted("FolderCounted", m_folderidmap) PROVE TreeInv'
  OBVIOUS
<1> DEFINE n == Head(tree_notifs)
           d == n.what
           row == m_folderidmap[d]
<1>0. TreeTyped /\ RowInv /\ TreeLeads /\ CountedInv
  BY DEF TreeInv
<1>1. /\ TakeTree("FolderCounted") /\ UNCHANGED <<db_folders, db_tags, tree_ops, m_folderidmap, m_keywordsidmap, asked>>
      /\ tree' = IF d \in DOMAIN m_folderidmap THEN [tree EXCEPT ![row].counted = TRUE] ELSE tree
  BY DEF counted, treedb, Told
<1>2. /\ n \in TreeNotice /\ n.n = "FolderCounted" /\ tree_notifs' \in Seq(TreeNotice)
      /\ \A e : Among(e, tree_notifs) => e = n \/ Among(e, tree_notifs')
  BY <1>0, <1>1, TakesLeads
<1>3. PICK x, y, z, w :
        /\ <<DOMAIN m_folderidmap, z>> \in FolderArcs[n] /\ Walks(FolderArcs, tree_notifs', z, x)
        /\ <<DOMAIN m_keywordsidmap, w>> \in KeywordArcs[n] /\ Walks(KeywordArcs, tree_notifs', w, y)
        /\ Progress(x, y)
  BY <1>0, <1>1, TakesLeads
<1> HIDE DEF n
<1>4. z = DOMAIN m_folderidmap /\ w = DOMAIN m_keywordsidmap
  BY <1>2, <1>3, IdArc DEF FolderArcs, KeywordArcs
<1> HIDE DEF d
<1>5. Progress(x, y)'
  BY <1>1, <1>3 DEF Progress
<1>6. TreeLeads'
  BY <1>1, <1>3, <1>4, <1>5 DEF TreeLeads
<1>7. TreeTyped'
  BY <1>0, <1>1, <1>2 DEF TreeTyped
<1>8. d \in DOMAIN m_folderidmap => row \in DOMAIN tree
  BY <1>0 DEF RowInv, FolderRow
<1> HIDE DEF row
<1>9. /\ DOMAIN tree' = DOMAIN tree /\ tree' = [s \in DOMAIN tree' |-> tree'[s]]
      /\ \A s \in DOMAIN tree :
           /\ tree'[s].type = tree[s].type /\ tree'[s].id = tree[s].id
           /\ tree'[s] \in [type : {"FOLDER_ITEM", "KEYWORD_ITEM"}, id : TreeFolder \cup Tag, counted : BOOLEAN]
           /\ tree[s].counted \/ (d \in DOMAIN m_folderidmap /\ s = row) => tree'[s].counted
  <2>1. tree = [s \in DOMAIN tree |-> tree[s]]
    BY <1>0 DEF RowInv
  <2>2. \A s \in DOMAIN tree : tree[s] \in [type : {"FOLDER_ITEM", "KEYWORD_ITEM"}, id : TreeFolder \cup Tag, counted : BOOLEAN]
    BY <1>0 DEF RowInv
  <2>3. CASE d \in DOMAIN m_folderidmap
    <3>1. tree' = [tree EXCEPT ![row] = [tree[row] EXCEPT !.counted = TRUE]]
      BY <1>1, <2>3
    <3>2. [tree[row] EXCEPT !.counted = TRUE] = [type |-> tree[row].type, id |-> tree[row].id, counted |-> TRUE]
      <4>1. tree[row] \in [type : {"FOLDER_ITEM", "KEYWORD_ITEM"}, id : TreeFolder \cup Tag, counted : BOOLEAN]
        BY <1>8, <2>2, <2>3
      <4> QED BY <4>1, RowCounts
    <3>3. DOMAIN tree' = DOMAIN tree /\ tree' = [s \in DOMAIN tree' |-> tree'[s]]
      BY <2>1, <3>1
    <3>4. tree'[row] = [type |-> tree[row].type, id |-> tree[row].id, counted |-> TRUE] /\ \A s \in DOMAIN tree : s # row => tree'[s] = tree[s]
      BY <1>8, <2>3, <3>1, <3>2
    <3>5. /\ tree'[row].type = tree[row].type /\ tree'[row].id = tree[row].id /\ tree'[row].counted
          /\ tree'[row] \in [type : {"FOLDER_ITEM", "KEYWORD_ITEM"}, id : TreeFolder \cup Tag, counted : BOOLEAN]
      BY <1>8, <2>2, <2>3, <3>4
    <3> QED BY <2>2, <3>3, <3>4, <3>5
  <2>4. CASE d \notin DOMAIN m_folderidmap
    BY <1>1, <2>1, <2>2, <2>4
  <2> QED BY <2>3, <2>4
<1>10. RowInv'
  <2>1. \A s \in DOMAIN tree' : tree'[s] \in [type : {"FOLDER_ITEM", "KEYWORD_ITEM"}, id : TreeFolder \cup Tag, counted : BOOLEAN]
    BY <1>9
  <2>2. \A e \in DOMAIN m_folderidmap : FolderRow(m_folderidmap[e], e)'
    BY <1>0, <1>1, <1>9 DEF RowInv, FolderRow
  <2>3. \A k \in DOMAIN m_keywordsidmap : KeywordRow(m_keywordsidmap[k], k)'
    BY <1>0, <1>1, <1>9 DEF RowInv, KeywordRow
  <2>4. \A s \in DOMAIN tree' :
          \/ tree'[s].type = "FOLDER_ITEM" /\ tree'[s].id \in DOMAIN m_folderidmap /\ m_folderidmap[tree'[s].id] = s
          \/ tree'[s].type = "KEYWORD_ITEM" /\ tree'[s].id \in DOMAIN m_keywordsidmap /\ m_keywordsidmap[tree'[s].id] = s
    BY <1>0, <1>9 DEF RowInv
  <2> QED BY <1>1, <1>9, <2>1, <2>2, <2>3, <2>4 DEF RowInv
<1>11. CountedInv'
  <2>1. \A e : TreeNotif("KeywordCounted", e) # n /\ (TreeNotif("FolderCounted", e) = n => e = d)
    BY <1>2, NoticeIs DEF d
  <2>2. ASSUME NEW e \in DOMAIN m_folderidmap
        PROVE  \/ tree'[m_folderidmap[e]].counted
               \/ Among(TreeOp("count_folder", e), tree_ops) \/ Among(TreeNotif("FolderCounted", e), tree_notifs')
    <3>1. m_folderidmap[e] \in DOMAIN tree
      BY <1>0 DEF RowInv, FolderRow
    <3>2. \/ tree[m_folderidmap[e]].counted
          \/ Among(TreeOp("count_folder", e), tree_ops) \/ Among(TreeNotif("FolderCounted", e), tree_notifs)
      BY <1>0 DEF CountedInv
    <3>3. e = d => m_folderidmap[e] = row
      BY DEF row
    <3>4. tree[m_folderidmap[e]].counted \/ e = d => tree'[m_folderidmap[e]].counted
      BY <1>9, <2>2, <3>1, <3>3
    <3>5. Among(TreeNotif("FolderCounted", e), tree_notifs) => e = d \/ Among(TreeNotif("FolderCounted", e), tree_notifs')
      BY <1>2, <2>1
    <3> QED BY <3>2, <3>4, <3>5
  <2>3. ASSUME NEW k \in DOMAIN m_keywordsidmap
        PROVE  \/ tree'[m_keywordsidmap[k]].counted
               \/ Among(TreeOp("count_keyword", k), tree_ops) \/ Among(TreeNotif("KeywordCounted", k), tree_notifs')
    <3>1. m_keywordsidmap[k] \in DOMAIN tree
      BY <1>0 DEF RowInv, KeywordRow
    <3>2. \/ tree[m_keywordsidmap[k]].counted
          \/ Among(TreeOp("count_keyword", k), tree_ops) \/ Among(TreeNotif("KeywordCounted", k), tree_notifs)
      BY <1>0 DEF CountedInv
    <3>3. tree[m_keywordsidmap[k]].counted => tree'[m_keywordsidmap[k]].counted
      BY <1>9, <3>1
    <3>4. Among(TreeNotif("KeywordCounted", k), tree_notifs) => Among(TreeNotif("KeywordCounted", k), tree_notifs')
      BY <1>2, <2>1
    <3> QED BY <3>2, <3>3, <3>4
  <2> QED BY <1>1, <2>2, <2>3 DEF CountedInv
<1> QED BY <1>6, <1>7, <1>10, <1>11 DEF TreeInv
LEMMA KeywordShowsCount == TreeInv /\ counted("KeywordCounted", m_keywordsidmap) => TreeInv'
<1> SUFFICES ASSUME TreeInv, counted("KeywordCounted", m_keywordsidmap) PROVE TreeInv'
  OBVIOUS
<1> DEFINE n == Head(tree_notifs)
           d == n.what
           row == m_keywordsidmap[d]
<1>0. TreeTyped /\ RowInv /\ TreeLeads /\ CountedInv
  BY DEF TreeInv
<1>1. /\ TakeTree("KeywordCounted") /\ UNCHANGED <<db_folders, db_tags, tree_ops, m_keywordsidmap, m_folderidmap, asked>>
      /\ tree' = IF d \in DOMAIN m_keywordsidmap THEN [tree EXCEPT ![row].counted = TRUE] ELSE tree
  BY DEF counted, treedb, Told
<1>2. /\ n \in TreeNotice /\ n.n = "KeywordCounted" /\ tree_notifs' \in Seq(TreeNotice)
      /\ \A e : Among(e, tree_notifs) => e = n \/ Among(e, tree_notifs')
  BY <1>0, <1>1, TakesLeads
<1>3. PICK x, y, w, z :
        /\ <<DOMAIN m_folderidmap, w>> \in FolderArcs[n] /\ Walks(FolderArcs, tree_notifs', w, x)
        /\ <<DOMAIN m_keywordsidmap, z>> \in KeywordArcs[n] /\ Walks(KeywordArcs, tree_notifs', z, y)
        /\ Progress(x, y)
  BY <1>0, <1>1, TakesLeads
<1> HIDE DEF n
<1>4. z = DOMAIN m_keywordsidmap /\ w = DOMAIN m_folderidmap
  BY <1>2, <1>3, IdArc DEF KeywordArcs, FolderArcs
<1> HIDE DEF d
<1>5. Progress(x, y)'
  BY <1>1, <1>3 DEF Progress
<1>6. TreeLeads'
  BY <1>1, <1>3, <1>4, <1>5 DEF TreeLeads
<1>7. TreeTyped'
  BY <1>0, <1>1, <1>2 DEF TreeTyped
<1>8. d \in DOMAIN m_keywordsidmap => row \in DOMAIN tree
  BY <1>0 DEF RowInv, KeywordRow
<1> HIDE DEF row
<1>9. /\ DOMAIN tree' = DOMAIN tree /\ tree' = [s \in DOMAIN tree' |-> tree'[s]]
      /\ \A s \in DOMAIN tree :
           /\ tree'[s].type = tree[s].type /\ tree'[s].id = tree[s].id
           /\ tree'[s] \in [type : {"KEYWORD_ITEM", "FOLDER_ITEM"}, id : TreeFolder \cup Tag, counted : BOOLEAN]
           /\ tree[s].counted \/ (d \in DOMAIN m_keywordsidmap /\ s = row) => tree'[s].counted
  <2>1. tree = [s \in DOMAIN tree |-> tree[s]]
    BY <1>0 DEF RowInv
  <2>2. \A s \in DOMAIN tree : tree[s] \in [type : {"KEYWORD_ITEM", "FOLDER_ITEM"}, id : TreeFolder \cup Tag, counted : BOOLEAN]
    BY <1>0 DEF RowInv
  <2>3. CASE d \in DOMAIN m_keywordsidmap
    <3>1. tree' = [tree EXCEPT ![row] = [tree[row] EXCEPT !.counted = TRUE]]
      BY <1>1, <2>3
    <3>2. [tree[row] EXCEPT !.counted = TRUE] = [type |-> tree[row].type, id |-> tree[row].id, counted |-> TRUE]
      <4>1. tree[row] \in [type : {"KEYWORD_ITEM", "FOLDER_ITEM"}, id : TreeFolder \cup Tag, counted : BOOLEAN]
        BY <1>8, <2>2, <2>3
      <4> QED BY <4>1, RowCounts
    <3>3. DOMAIN tree' = DOMAIN tree /\ tree' = [s \in DOMAIN tree' |-> tree'[s]]
      BY <2>1, <3>1
    <3>4. tree'[row] = [type |-> tree[row].type, id |-> tree[row].id, counted |-> TRUE] /\ \A s \in DOMAIN tree : s # row => tree'[s] = tree[s]
      BY <1>8, <2>3, <3>1, <3>2
    <3>5. /\ tree'[row].type = tree[row].type /\ tree'[row].id = tree[row].id /\ tree'[row].counted
          /\ tree'[row] \in [type : {"KEYWORD_ITEM", "FOLDER_ITEM"}, id : TreeFolder \cup Tag, counted : BOOLEAN]
      BY <1>8, <2>2, <2>3, <3>4
    <3> QED BY <2>2, <3>3, <3>4, <3>5
  <2>4. CASE d \notin DOMAIN m_keywordsidmap
    BY <1>1, <2>1, <2>2, <2>4
  <2> QED BY <2>3, <2>4
<1>10. RowInv'
  <2>1. \A s \in DOMAIN tree' : tree'[s] \in [type : {"KEYWORD_ITEM", "FOLDER_ITEM"}, id : TreeFolder \cup Tag, counted : BOOLEAN]
    BY <1>9
  <2>2. \A e \in DOMAIN m_keywordsidmap : KeywordRow(m_keywordsidmap[e], e)'
    BY <1>0, <1>1, <1>9 DEF RowInv, KeywordRow
  <2>3. \A k \in DOMAIN m_folderidmap : FolderRow(m_folderidmap[k], k)'
    BY <1>0, <1>1, <1>9 DEF RowInv, FolderRow
  <2>4. \A s \in DOMAIN tree' :
          \/ tree'[s].type = "KEYWORD_ITEM" /\ tree'[s].id \in DOMAIN m_keywordsidmap /\ m_keywordsidmap[tree'[s].id] = s
          \/ tree'[s].type = "FOLDER_ITEM" /\ tree'[s].id \in DOMAIN m_folderidmap /\ m_folderidmap[tree'[s].id] = s
    BY <1>0, <1>9 DEF RowInv
  <2> QED BY <1>1, <1>9, <2>1, <2>2, <2>3, <2>4 DEF RowInv
<1>11. CountedInv'
  <2>1. \A e : TreeNotif("FolderCounted", e) # n /\ (TreeNotif("KeywordCounted", e) = n => e = d)
    BY <1>2, NoticeIs DEF d
  <2>2. ASSUME NEW e \in DOMAIN m_keywordsidmap
        PROVE  \/ tree'[m_keywordsidmap[e]].counted
               \/ Among(TreeOp("count_keyword", e), tree_ops) \/ Among(TreeNotif("KeywordCounted", e), tree_notifs')
    <3>1. m_keywordsidmap[e] \in DOMAIN tree
      BY <1>0 DEF RowInv, KeywordRow
    <3>2. \/ tree[m_keywordsidmap[e]].counted
          \/ Among(TreeOp("count_keyword", e), tree_ops) \/ Among(TreeNotif("KeywordCounted", e), tree_notifs)
      BY <1>0 DEF CountedInv
    <3>3. e = d => m_keywordsidmap[e] = row
      BY DEF row
    <3>4. tree[m_keywordsidmap[e]].counted \/ e = d => tree'[m_keywordsidmap[e]].counted
      BY <1>9, <2>2, <3>1, <3>3
    <3>5. Among(TreeNotif("KeywordCounted", e), tree_notifs) => e = d \/ Among(TreeNotif("KeywordCounted", e), tree_notifs')
      BY <1>2, <2>1
    <3> QED BY <3>2, <3>4, <3>5
  <2>3. ASSUME NEW k \in DOMAIN m_folderidmap
        PROVE  \/ tree'[m_folderidmap[k]].counted
               \/ Among(TreeOp("count_folder", k), tree_ops) \/ Among(TreeNotif("FolderCounted", k), tree_notifs')
    <3>1. m_folderidmap[k] \in DOMAIN tree
      BY <1>0 DEF RowInv, FolderRow
    <3>2. \/ tree[m_folderidmap[k]].counted
          \/ Among(TreeOp("count_folder", k), tree_ops) \/ Among(TreeNotif("FolderCounted", k), tree_notifs)
      BY <1>0 DEF CountedInv
    <3>3. tree[m_folderidmap[k]].counted => tree'[m_folderidmap[k]].counted
      BY <1>9, <3>1
    <3>4. Among(TreeNotif("FolderCounted", k), tree_notifs) => Among(TreeNotif("FolderCounted", k), tree_notifs')
      BY <1>2, <2>1
    <3> QED BY <3>2, <3>3, <3>4
  <2> QED BY <1>1, <2>2, <2>3 DEF CountedInv
<1> QED BY <1>6, <1>7, <1>10, <1>11 DEF TreeInv

LEMMA TreeInvInit == TreeInit => TreeInv
<1> SUFFICES ASSUME TreeInit PROVE TreeInv
  OBVIOUS
<1> USE DEF TreeInit
<1>1. DOMAIN tree = {} /\ DOMAIN m_folderidmap = {} /\ DOMAIN m_keywordsidmap = {} /\ tree_notifs = <<>>
  OBVIOUS
<1>2. TreeTyped
  BY <1>1 DEF TreeTyped
<1>3. RowInv
  BY <1>1 DEF RowInv
<1>4. CountedInv
  BY <1>1 DEF CountedInv
<1>5. TreeLeads
  <2>1. tree_ops = <<AllFolders, AllKeywords>>
    BY DEF AllFolders, AllKeywords
  <2>2. Progress({}, {})
    <3>1. <<>> \in Seq(LateOp) /\ tree_ops = <<AllFolders, AllKeywords>> \o <<>>
      BY <2>1
    <3>2. \E s \in Seq(LateOp) : tree_ops = <<AllFolders, AllKeywords>> \o s
      BY <3>1
    <3> QED BY <3>2 DEF Progress
  <2>3. Walks(FolderArcs, tree_notifs, DOMAIN m_folderidmap, {}) /\ Walks(KeywordArcs, tree_notifs, DOMAIN m_keywordsidmap, {})
    BY <1>1, WalksNowhere
  <2> QED BY <2>2, <2>3 DEF TreeLeads
<1> QED BY <1>2, <1>3, <1>4, <1>5 DEF TreeInv

LEMMA TreeInvStep == TreeInv /\ [TreeNext]_workspace => TreeInv'
<1> SUFFICES ASSUME TreeInv, [TreeNext]_workspace PROVE TreeInv'
  OBVIOUS
<1> USE DEF treedb, treeio, rowmaps
<1>0. TreeTyped /\ RowInv
  BY DEF TreeInv
<1>a. asked \in TreeFolder \cup {NoRoom}
  BY <1>0 DEF TreeTyped
<1>1. CASE \E s \in DOMAIN tree \cup Root : select_row(s)
  BY <1>1, <1>a, UserKeeps DEF select_row, SameTree
<1>2. ASSUME new_folder PROVE TreeInv'
  <2>1. TreeOp("create_folder", NoRoom) \in LateOp
    BY DEF TreeOp, LateOp
  <2> QED BY <1>2, <1>a, <2>1, UserKeeps DEF new_folder, SendTree, SameTree
<1>3. ASSUME ask_delete_folder PROVE TreeInv'
  <2>1. selected_folder_id \in TreeFolder \cup {NoRoom}
    <3>1. CASE selected_row \in DOMAIN tree /\ tree[selected_row].type = "FOLDER_ITEM"
      <4>1. tree[selected_row].id \in DOMAIN m_folderidmap
        BY <1>0, <3>1 DEF RowInv
      <4> QED BY <1>0, <3>1, <4>1 DEF TreeTyped, selected_folder_id
    <3>2. CASE ~(selected_row \in DOMAIN tree /\ tree[selected_row].type = "FOLDER_ITEM")
      BY <3>2 DEF selected_folder_id
    <3> QED BY <3>1, <3>2
  <2> QED BY <1>3, <2>1, UserKeeps DEF ask_delete_folder, SameTree
<1>4. CASE tree_menu \/ tree_context_menu
  BY <1>2, <1>3, <1>4 DEF tree_menu, tree_context_menu
<1>5. CASE answer_delete_folder
  <2>1. TreeOp("delete_folder", asked) \in LateOp
    BY <1>5, <1>a DEF answer_delete_folder, TreeOp, LateOp
  <2>2. asked' = NoRoom /\ (tree_ops' = Append(tree_ops, TreeOp("delete_folder", asked)) \/ tree_ops' = tree_ops)
    BY <1>5 DEF answer_delete_folder, SendTree
  <2> QED BY <1>5, <2>1, <2>2, UserKeeps DEF answer_delete_folder, SameTree
<1>6. ASSUME NEW tags \in SUBSET Tag, give_keywords(tags) PROVE TreeInv'
  <2>1. TreeOp("set_keywords", tags) \in LateOp
    BY DEF TreeOp, LateOp
  <2> QED BY <1>6, <1>a, <2>1, UserKeeps DEF give_keywords, SendTree, SameTree
<1>7. CASE UNCHANGED workspace
  BY <1>7, <1>a, UserKeeps DEF workspace, SameTree
<1> QED BY <1>1, <1>4, <1>5, <1>6, <1>7, FoldersAsked, KeywordsAsked, FolderCreated, FolderGoes, KeywordsGiven, ContainerCounted,
           FolderAdded, KeywordAdded, FolderRemoved, FolderShowsCount, KeywordShowsCount DEF TreeNext

\* Two maps that are one to one and lead to different rows.
LEMMA RowsCounted ==
  ASSUME TreeTyped, RowInv
  PROVE  /\ DOMAIN tree = {m_folderidmap[d] : d \in DOMAIN m_folderidmap} \cup {m_keywordsidmap[k] : k \in DOMAIN m_keywordsidmap}
         /\ Cardinality(DOMAIN tree) = Cardinality(DOMAIN m_folderidmap) + Cardinality(DOMAIN m_keywordsidmap)
<1> DEFINE D == DOMAIN m_folderidmap
           K == DOMAIN m_keywordsidmap
           F == {m_folderidmap[d] : d \in D}
           G == {m_keywordsidmap[k] : k \in K}
           f == [d \in D |-> m_folderidmap[d]]
           g == [k \in K |-> m_keywordsidmap[k]]
<1>1. IsFiniteSet(D) /\ IsFiniteSet(K)
  BY TagSetsFinite DEF TreeTyped
<1>2. F \cup G = DOMAIN tree
  <2>1. F \subseteq DOMAIN tree /\ G \subseteq DOMAIN tree
    BY DEF RowInv, FolderRow, KeywordRow
  <2>2. \A r \in DOMAIN tree : r \in F \/ r \in G
    BY DEF RowInv
  <2> HIDE DEF F, G
  <2> QED BY <2>1, <2>2
<1>3. F \cap G = {}
  BY DEF RowInv, FolderRow, KeywordRow
<1>4. \A d, e \in D : m_folderidmap[d] = m_folderidmap[e] => d = e
  BY DEF RowInv, FolderRow
<1>5. \A d, e \in K : m_keywordsidmap[d] = m_keywordsidmap[e] => d = e
  BY DEF RowInv, KeywordRow
<1>6. IsFiniteSet(F) /\ Cardinality(F) = Cardinality(D)
  <2>1. f \in Injection(D, F)
    BY <1>4 DEF Injection, IsInjective
  <2>2. f \in Surjection(D, F)
    BY DEF Surjection
  <2>3. ExistsBijection(D, F)
    BY <2>1, <2>2 DEF ExistsBijection, Bijection
  <2> HIDE DEF F, D
  <2> QED BY <1>1, <2>3, FS_Bijection
<1>7. IsFiniteSet(G) /\ Cardinality(G) = Cardinality(K)
  <2>1. g \in Injection(K, G)
    BY <1>5 DEF Injection, IsInjective
  <2>2. g \in Surjection(K, G)
    BY DEF Surjection
  <2>3. ExistsBijection(K, G)
    BY <2>1, <2>2 DEF ExistsBijection, Bijection
  <2> HIDE DEF G, K
  <2> QED BY <1>1, <2>3, FS_Bijection
<1>8. Cardinality(F \cup G) = Cardinality(F) + Cardinality(G)
  <2> HIDE DEF F, G
  <2>1. Cardinality(F \cup G) = Cardinality(F) + Cardinality(G) - Cardinality(F \cap G)
    BY <1>6, <1>7, FS_Union
  <2>2. Cardinality(F \cap G) = 0
    BY <1>3, FS_EmptySet
  <2>3. Cardinality(F) \in Nat /\ Cardinality(G) \in Nat
    BY <1>6, <1>7, FS_CardinalityType
  <2> QED BY <2>1, <2>2, <2>3
<1> HIDE DEF F, G
<1>9. Cardinality(DOMAIN tree) = Cardinality(D) + Cardinality(K)
  BY <1>2, <1>6, <1>7, <1>8
<1> QED BY <1>2, <1>9 DEF F, G

\* The tree shows what the database holds, each with its count, and nothing
\* else, once everything has been told.
THEOREM TreeRowsAreDatabase == TreeSpec => []RowsAreDatabase
<1>1. TreeInv => RowsAreDatabase
  <2> SUFFICES ASSUME TreeInv, tree_ops = <<>>, tree_notifs = <<>> PROVE RowsAreDatabase
    BY DEF RowsAreDatabase
  <2>0. TreeTyped /\ RowInv /\ TreeLeads /\ CountedInv
    BY DEF TreeInv
  <2>1. PICK x, y : /\ Walks(FolderArcs, tree_notifs, DOMAIN m_folderidmap, x)
                    /\ Walks(KeywordArcs, tree_notifs, DOMAIN m_keywordsidmap, y) /\ Progress(x, y)
    BY <2>0 DEF TreeLeads
  <2>2. DOMAIN m_folderidmap = x /\ DOMAIN m_keywordsidmap = y
    BY <2>1, WalksNowhere
  <2>3. x = db_folders /\ y = db_tags
    <3>1. ASSUME NEW s \in Seq(LateOp) PROVE <<AllFolders, AllKeywords>> \o s # <<>> /\ <<AllKeywords>> \o s # <<>>
      OBVIOUS
    <3> QED BY <2>1, <3>1 DEF Progress
  <2>4. \A e : ~Among(e, tree_ops) /\ ~Among(e, tree_notifs)
    BY DEF Among
  <2>5. \A r \in DOMAIN tree : tree[r].counted
    <3>1. (\A d \in DOMAIN m_folderidmap : tree[m_folderidmap[d]].counted) /\ \A k \in DOMAIN m_keywordsidmap : tree[m_keywordsidmap[k]].counted
      BY <2>0, <2>4 DEF CountedInv
    <3> QED BY <2>0, <3>1 DEF RowInv
  <2> QED BY <2>0, <2>2, <2>3, <2>5, RowsCounted DEF RowsAreDatabase
<1>2. TreeSpec => []TreeInv
  BY TreeInvInit, TreeInvStep, PTL DEF TreeSpec
<1> QED BY <1>1, <1>2, PTL
-----------------------------------------------------------------------------
(* Utilities: sequences taken apart at a place, and sizes that fit.         *)

LEMMA Halves ==
  ASSUME NEW S, NEW s \in Seq(S), NEW n \in 1..Len(s)
  PROVE  /\ SubSeq(s, 1, n - 1) \in Seq(S) /\ Len(SubSeq(s, 1, n - 1)) = n - 1
         /\ \A i \in 1..(n - 1) : SubSeq(s, 1, n - 1)[i] = s[i]
         /\ SubSeq(s, n, Len(s)) \in Seq(S) /\ Len(SubSeq(s, n, Len(s))) = Len(s) - n + 1
         /\ \A i \in 1..(Len(s) - n + 1) : SubSeq(s, n, Len(s))[i] = s[n + i - 1]
         /\ SubSeq(s, 1, n - 1) \o SubSeq(s, n, Len(s)) = s
<1>1. /\ SubSeq(s, 1, n - 1) \in Seq(S) /\ Len(SubSeq(s, 1, n - 1)) = n - 1
      /\ \A i \in 1..(n - 1) : SubSeq(s, 1, n - 1)[i] = s[i]
  BY SubSeqProperties
<1>2. /\ SubSeq(s, n, Len(s)) \in Seq(S) /\ Len(SubSeq(s, n, Len(s))) = Len(s) - n + 1
      /\ \A i \in 1..(Len(s) - n + 1) : SubSeq(s, n, Len(s))[i] = s[n + i - 1]
  BY SubSeqProperties
<1> DEFINE a == SubSeq(s, 1, n - 1)
           b == SubSeq(s, n, Len(s))
<1>3. a \o b = s
  <2>1. /\ a \in Seq(S) /\ b \in Seq(S) /\ Len(a) = n - 1 /\ Len(b) = Len(s) - n + 1
        /\ \A i \in 1..(n - 1) : a[i] = s[i]
        /\ \A i \in 1..(Len(s) - n + 1) : b[i] = s[n + i - 1]
    BY <1>1, <1>2
  <2> HIDE DEF a, b
  <2>2. a \o b \in Seq(S) /\ Len(a \o b) = Len(s)
    BY <2>1
  <2>3. ASSUME NEW i \in 1..Len(s) PROVE (a \o b)[i] = s[i]
    <3>1. CASE i <= n - 1
      BY <2>1, <3>1
    <3>2. CASE i > n - 1
      <4>1. PICK j \in 1..Len(b) : j = i - (n - 1)
        BY <2>1, <3>2
      <4>2. (a \o b)[i] = b[j]
        BY <2>1, <3>2, <4>1
      <4>3. j \in 1..(Len(s) - n + 1) /\ n + j - 1 = i
        BY <2>1, <4>1
      <4>4. b[j] = s[n + j - 1]
        BY <2>1, <4>3
      <4>5. s[n + j - 1] = s[i]
        BY <4>3
      <4> QED BY <4>2, <4>4, <4>5, Zenon
    <3>3. i <= n - 1 \/ i > n - 1
      OBVIOUS
    <3> QED BY <3>1, <3>2, <3>3
  <2> QED BY <2>2, <2>3, SeqEqual
<1> QED BY <1>1, <1>2, <1>3

\* Around a place.
LEMMA Around ==
  ASSUME NEW S, NEW s \in Seq(S), NEW n \in 1..Len(s)
  PROVE  SubSeq(s, 1, n - 1) \o <<s[n]>> \o SubSeq(s, n + 1, Len(s)) = s
<1> DEFINE a == SubSeq(s, 1, n - 1)
           b == SubSeq(s, n, Len(s))
           c == SubSeq(s, n + 1, Len(s))
<1>1. a \o b = s
  BY Halves
<1>2. /\ b \in Seq(S) /\ Len(b) = Len(s) - n + 1
      /\ \A i \in 1..(Len(s) - n + 1) : b[i] = s[n + i - 1]
  BY Halves
<1>3. /\ c \in Seq(S) /\ Len(c) = Len(s) - n
      /\ \A i \in 1..(Len(s) - n) : c[i] = s[n + i]
  BY SubSeqProperties
<1>4. a \in Seq(S)
  BY Halves
<1>5. s[n] \in S
  OBVIOUS
<1> HIDE DEF a, b, c
<1>6. b = <<s[n]>> \o c
  <2> DEFINE d == <<s[n]>> \o c
  <2>1. d \in Seq(S) /\ Len(d) = Len(b) /\ d[1] = s[n] /\ \A i \in 1..(Len(s) - n) : d[i + 1] = c[i]
    <3> DEFINE e == <<s[n]>>
    <3>1. e \in Seq(S) /\ Len(e) = 1 /\ e[1] = s[n]
      BY <1>5
    <3> HIDE DEF e
    <3>2. d = e \o c
      BY DEF e
    <3> HIDE DEF d
    <3>3. d \in Seq(S) /\ Len(d) = 1 + Len(c)
      <4>1. e \o c \in Seq(S) /\ Len(e \o c) = Len(e) + Len(c)
        BY <3>1, <1>3, ConcatProperties
      <4> QED BY <3>1, <3>2, <4>1
    <3>4. Len(d) = Len(b) /\ d[1] = s[n]
      BY <3>1, <3>2, <3>3, <1>2, <1>3
    <3>5. ASSUME NEW i \in 1..(Len(s) - n) PROVE d[i + 1] = c[i]
      <4>1. \A j \in 1..Len(e) + Len(c) : (e \o c)[j] = IF j <= Len(e) THEN e[j] ELSE c[j - Len(e)]
        BY <3>1, <1>3, ConcatProperties
      <4>2. i + 1 \in 1..Len(e) + Len(c) /\ (i + 1) - Len(e) = i /\ ~(i + 1 <= Len(e))
        BY <3>1, <1>3
      <4> QED BY <4>1, <4>2, <3>2
    <3> QED BY <3>3, <3>4, <3>5
  <2> HIDE DEF d
  <2>2. ASSUME NEW i \in 1..Len(b) PROVE d[i] = b[i]
    <3>1. CASE i = 1
      BY <2>1, <3>1, <1>2
    <3>2. CASE i # 1
      <4>1. i - 1 \in 1..(Len(s) - n) /\ (i - 1) + 1 = i /\ n + (i - 1) = n + i - 1
        BY <3>2, <1>2
      <4> QED BY <4>1, <2>1, <1>2, <1>3
    <3> QED BY <3>1, <3>2
  <2>3. d = b
    BY <2>1, <2>2, <1>2, SeqEqual
  <2> QED BY <2>3 DEF d
<1>7. (a \o <<s[n]>>) \o c = a \o (<<s[n]>> \o c)
  <2>1. <<s[n]>> \in Seq(S)
    BY <1>5
  <2>2. \A p, q, r \in Seq(S) : (p \o q) \o r = p \o (q \o r) /\ p \o q \in Seq(S)
    <3>1. Associative(S)
      BY Associates
    <3> QED BY <3>1, Zenon DEF Associative
  <2>3. c \in Seq(S)
    BY <1>3
  <2>4. \A q, r \in Seq(S) : (a \o q) \o r = a \o (q \o r)
    BY <2>2, <1>4, Zenon
  <2> QED BY <2>1, <2>3, <2>4, Zenon
<1>8. (a \o <<s[n]>>) \o c = s
  BY <1>1, <1>6, <1>7, Zenon
<1> QED BY <1>8 DEF a, c

LEMMA LastOf ==
  ASSUME NEW S, NEW s \in Seq(S), NEW c
  PROVE  /\ find_last_of(s, c) \in 0..Len(s)
         /\ find_last_of(s, c) # 0 => s[find_last_of(s, c)] = c
         /\ \A i \in 1..Len(s) : i > find_last_of(s, c) => s[i] # c
<1> DEFINE I == {i \in 1..Len(s) : s[i] = c}
<1>1. find_last_of(s, c) = IF I # {} THEN Max(I) ELSE 0
  BY DEF find_last_of, SelectLastInSeq
<1>2. I \subseteq 0..Len(s) /\ Len(s) \in Nat /\ 0 \notin I
  OBVIOUS
<1>3. CASE I = {}
  BY <1>1, <1>3, <1>2
<1>4. CASE I # {}
  <2>1. Max(I) \in I /\ \A y \in I : Max(I) >= y
    <3> HIDE DEF I
    <3> QED BY <1>2, <1>4, GreatestNat
  <2>2. \A i \in 1..Len(s) : i > Max(I) => s[i] # c
    BY <2>1
  <2> QED BY <1>1, <1>4, <2>1, <2>2
<1> QED BY <1>3, <1>4

LEMMA LastOfIs ==
  ASSUME NEW S, NEW s \in Seq(S), NEW c, NEW n \in 0..Len(s), n # 0 => s[n] = c,
         \A i \in 1..Len(s) : i > n => s[i] # c
  PROVE  find_last_of(s, c) = n
<1>1. /\ find_last_of(s, c) \in 0..Len(s)
      /\ find_last_of(s, c) # 0 => s[find_last_of(s, c)] = c
      /\ \A i \in 1..Len(s) : i > find_last_of(s, c) => s[i] # c
  BY LastOf
<1>2. ~(find_last_of(s, c) > n)
  BY <1>1
<1>3. ~(find_last_of(s, c) < n)
  BY <1>1
<1> QED BY <1>1, <1>2, <1>3

LEMMA NameFirst == \A s \in Seq(Char) : find_last_of(s, Slash) = 0 => path_basename(s) = s
  BY SubSeqProperties DEF path_basename

\* Directory and name.
LEMMA NamesRejoin ==
  ASSUME NEW s \in Seq(Char), s # path_basename(s)
  PROVE  path_dirname(s) \o <<Slash>> \o path_basename(s) = s
<1> DEFINE n == find_last_of(s, Slash)
<1>1. n \in 1..Len(s) /\ s[n] = Slash
  <2>1. n # 0
    <3>1. SubSeq(s, 1, Len(s)) = s
      BY SeqEqual, SubSeqProperties
    <3> QED BY <3>1 DEF path_basename
  <2> QED BY <2>1, LastOf
<1> HIDE DEF n
<1>2. SubSeq(s, 1, n - 1) \o <<s[n]>> \o SubSeq(s, n + 1, Len(s)) = s
  BY <1>1, Around
<1>3. path_dirname(s) = SubSeq(s, 1, n - 1) /\ path_basename(s) = SubSeq(s, n + 1, Len(s))
  BY <1>1 DEF path_dirname, path_basename, n
<1> HIDE DEF path_dirname, path_basename
<1>4. path_dirname(s) \o <<Slash>> \o path_basename(s) = SubSeq(s, 1, n - 1) \o <<s[n]>> \o SubSeq(s, n + 1, Len(s))
  BY <1>1, <1>3
<1> QED BY <1>2, <1>4

\* The last slash and the last dot of a name are where they were.
LEMMA NameEnds ==
  ASSUME NEW s \in Seq(Char)
  PROVE  /\ path_basename(s) \in Seq(Char) /\ find_last_of(path_basename(s), Slash) = 0
         /\ LET n == find_last_of(s, Slash)
                d == find_last_of(s, Dot)
            IN  /\ Len(path_basename(s)) = Len(s) - n
                /\ \A i \in 1..(Len(s) - n) : path_basename(s)[i] = s[n + i]
                /\ find_last_of(path_basename(s), Dot) = IF d > n THEN d - n ELSE 0
<1> DEFINE n == find_last_of(s, Slash)
           d == find_last_of(s, Dot)
           b == path_basename(s)
<1>1. /\ n \in 0..Len(s) /\ (n # 0 => s[n] = Slash)
      /\ \A i \in 1..Len(s) : i > n => s[i] # Slash
  BY LastOf
<1>2. /\ d \in 0..Len(s) /\ (d # 0 => s[d] = Dot)
      /\ \A i \in 1..Len(s) : i > d => s[i] # Dot
  BY LastOf
<1>3. /\ b \in Seq(Char) /\ Len(b) = Len(s) - n /\ \A i \in 1..(Len(s) - n) : b[i] = s[n + i]
  <2>1. b = SubSeq(s, n + 1, Len(s))
    BY DEF path_basename
  <2> HIDE DEF b, n
  <2>2. /\ \A i \in (n + 1)..Len(s) : s[i] \in Char
        /\ n + 1 \in Int /\ Len(s) \in Int
    BY <1>1
  <2>3. /\ b \in Seq(Char) /\ Len(b) = IF n + 1 <= Len(s) THEN Len(s) - (n + 1) + 1 ELSE 0
        /\ \A i \in 1..(Len(s) - (n + 1) + 1) : b[i] = s[(n + 1) + i - 1]
    BY <2>1, <2>2, SubSeqProperties
  <2>4. Len(b) = Len(s) - n
    BY <2>3, <1>1
  <2>5. ASSUME NEW i \in 1..(Len(s) - n) PROVE b[i] = s[n + i]
    <3>1. i \in 1..(Len(s) - (n + 1) + 1) /\ (n + 1) + i - 1 = n + i
      BY <1>1
    <3> QED BY <3>1, <2>3
  <2> QED BY <2>3, <2>4, <2>5
<1> HIDE DEF b, n, d
<1>4. ASSUME NEW i \in 1..Len(b) PROVE b[i] # Slash
  <2>1. n + i \in 1..Len(s) /\ n + i > n /\ i \in 1..(Len(s) - n)
    BY <1>1, <1>3
  <2> QED BY <2>1, <1>1, <1>3
<1>5. find_last_of(b, Slash) = 0
  <2>1. 0 \in 0..Len(b) /\ \A i \in 1..Len(b) : i > 0 => b[i] # Slash
    BY <1>3, <1>4
  <2> QED BY <2>1, <1>3, LastOfIs
<1> DEFINE e == IF d > n THEN d - n ELSE 0
<1>6. e \in 0..Len(b)
  BY <1>1, <1>2, <1>3
<1>7. e # 0 => b[e] = Dot
  <2> SUFFICES ASSUME d > n PROVE b[d - n] = Dot
    BY <1>1, <1>2
  <2>1. d - n \in 1..(Len(s) - n) /\ n + (d - n) = d /\ d # 0
    BY <1>1, <1>2
  <2> QED BY <2>1, <1>2, <1>3
<1>8. ASSUME NEW i \in 1..Len(b), i > e PROVE b[i] # Dot
  <2>1. n + i \in 1..Len(s) /\ n + i > d /\ i \in 1..(Len(s) - n)
    BY <1>1, <1>2, <1>3, <1>8
  <2> QED BY <2>1, <1>2, <1>3
<1> HIDE DEF e
<1>9. find_last_of(b, Dot) = e
  BY <1>3, <1>6, <1>7, <1>8, LastOfIs
<1> QED BY <1>3, <1>5, <1>9 DEF b, n, d, e

LEMMA ExtensionOfName ==
  ASSUME NEW s \in Seq(Char)
  PROVE  path_extension(path_basename(s)) = path_extension(s)
<1> DEFINE n == find_last_of(s, Slash)
           d == find_last_of(s, Dot)
           b == path_basename(s)
<1>1. /\ n \in 0..Len(s) /\ (n # 0 => s[n] = Slash)
  BY LastOf
<1>2. /\ d \in 0..Len(s) /\ (d # 0 => s[d] = Dot)
  BY LastOf
<1>3. d = n => d = 0
  BY <1>1, <1>2 DEF Slash, Dot
<1>4. /\ b \in Seq(Char) /\ find_last_of(b, Slash) = 0 /\ Len(b) = Len(s) - n
      /\ \A i \in 1..(Len(s) - n) : b[i] = s[n + i]
      /\ find_last_of(b, Dot) = IF d > n THEN d - n ELSE 0
  BY NameEnds
<1> HIDE DEF b
<1>5. CASE d > n
  <2>1. _path_extension_pos(s) = d /\ d # 0
    BY <1>1, <1>2, <1>5 DEF _path_extension_pos
  <2>2. path_extension(s) = SubSeq(s, d, Len(s))
    BY <2>1 DEF path_extension
  <2>3. _path_extension_pos(b) = d - n /\ d - n # 0
    BY <1>1, <1>2, <1>4, <1>5 DEF _path_extension_pos
  <2>4. path_extension(b) = SubSeq(b, d - n, Len(b))
    BY <2>3 DEF path_extension
  <2> HIDE DEF n, d
  <2>5. d \in 1..Len(s) /\ d - n \in 1..Len(b)
    BY <1>1, <1>2, <1>4, <1>5
  <2>6. /\ SubSeq(s, d, Len(s)) \in Seq(Char) /\ Len(SubSeq(s, d, Len(s))) = Len(s) - d + 1
        /\ \A i \in 1..(Len(s) - d + 1) : SubSeq(s, d, Len(s))[i] = s[d + i - 1]
    BY <2>5, Halves
  <2> DEFINE m == d - n
  <2>7. m \in 1..Len(b)
    BY <2>5
  <2> HIDE DEF m
  <2>8. /\ SubSeq(b, m, Len(b)) \in Seq(Char) /\ Len(SubSeq(b, m, Len(b))) = Len(b) - m + 1
        /\ \A i \in 1..(Len(b) - m + 1) : SubSeq(b, m, Len(b))[i] = b[m + i - 1]
    BY <2>7, <1>4, Halves
  <2> DEFINE p == SubSeq(s, d, Len(s))
             q == SubSeq(b, m, Len(b))
  <2>9. p \in Seq(Char) /\ q \in Seq(Char) /\ Len(p) = Len(s) - d + 1 /\ Len(q) = Len(b) - m + 1
    BY <2>6, <2>8
  <2>10. \A i \in 1..(Len(s) - d + 1) : p[i] = s[d + i - 1]
    BY <2>6
  <2>11. \A i \in 1..(Len(b) - m + 1) : q[i] = b[m + i - 1]
    BY <2>8
  <2> HIDE DEF p, q
  <2>12. m = d - n
    BY DEF m
  <2>13. Len(p) = Len(q)
    BY <2>9, <2>12, <1>1, <1>2, <1>4
  <2>14. ASSUME NEW i \in 1..Len(p) PROVE p[i] = q[i]
    <3>1. /\ i \in 1..(Len(s) - d + 1) /\ i \in 1..(Len(b) - m + 1) /\ m + i - 1 \in 1..(Len(s) - n)
          /\ n + (m + i - 1) = d + i - 1
      BY <2>9, <2>12, <2>13, <1>1, <1>2, <1>4, <2>7
    <3>2. q[i] = b[m + i - 1]
      BY <3>1, <2>11
    <3>3. b[m + i - 1] = s[n + (m + i - 1)]
      BY <3>1, <1>4
    <3>4. p[i] = s[d + i - 1]
      BY <3>1, <2>10
    <3>5. s[n + (m + i - 1)] = s[d + i - 1]
      BY <3>1
    <3> QED BY <3>2, <3>3, <3>4, <3>5, Zenon
  <2>15. p = q
    BY <2>9, <2>13, <2>14, SeqEqual
  <2>16. path_extension(s) = p /\ path_extension(b) = q
    BY <2>2, <2>4, <2>12 DEF p, q
  <2> QED BY <2>15, <2>16 DEF b
<1>6. CASE ~(d > n)
  <2>1. _path_extension_pos(s) = 0
    <3>1. d < n \/ d = 0
      BY <1>1, <1>2, <1>3, <1>6
    <3> QED BY <3>1 DEF _path_extension_pos
  <2>2. _path_extension_pos(b) = 0
    BY <1>4, <1>6 DEF _path_extension_pos
  <2> QED BY <2>1, <2>2 DEF path_extension, b
<1> QED BY <1>5, <1>6

\* Another extension.
LEMMA ExtensionReplaced ==
  ASSUME NEW s \in Seq(Char)
  PROVE  LET ext == <<Dot, "n">>
             other == path_replace_extension(s, ext)
         IN  /\ path_dirname(other) = path_dirname(s)
             /\ path_extension(other) = IF path_extension(s) = <<>> THEN <<>> ELSE ext
             /\ path_replace_extension(other, path_extension(s)) = s
<1> DEFINE n == find_last_of(s, Slash)
           d == find_last_of(s, Dot)
           ext == <<Dot, "n">>
           other == path_replace_extension(s, ext)
           at == _path_extension_pos(s)
<1>1. /\ n \in 0..Len(s) /\ (n # 0 => s[n] = Slash)
      /\ \A i \in 1..Len(s) : i > n => s[i] # Slash
  BY LastOf
<1>2. /\ d \in 0..Len(s) /\ (d # 0 => s[d] = Dot)
      /\ \A i \in 1..Len(s) : i > d => s[i] # Dot
  BY LastOf
<1>3. d = n => d = 0
  BY <1>1, <1>2 DEF Slash, Dot
<1>4. CASE at = 0
  <2>1. other = s /\ path_extension(s) = <<>>
    BY <1>4 DEF path_replace_extension, path_extension
  <2>2. path_replace_extension(s, <<>>) = s
    BY <1>4 DEF path_replace_extension
  <2> QED BY <2>1, <2>2
<1>5. CASE at # 0
  <2>1. at = d /\ d > n /\ d # 0
    BY <1>1, <1>2, <1>3, <1>5 DEF _path_extension_pos
  <2>2. other = SubSeq(s, 1, d - 1) \o ext
    BY <2>1 DEF path_replace_extension
  <2>3. path_extension(s) = SubSeq(s, d, Len(s))
    BY <2>1 DEF path_extension
  <2> DEFINE a == SubSeq(s, 1, d - 1)
             p == SubSeq(s, d, Len(s))
  <2>4. /\ a \in Seq(Char) /\ Len(a) = d - 1 /\ \A i \in 1..(d - 1) : a[i] = s[i]
        /\ p \in Seq(Char) /\ Len(p) = Len(s) - d + 1 /\ a \o p = s
    <3>1. d \in 1..Len(s)
      BY <1>2, <2>1
    <3> HIDE DEF d
    <3> QED BY <3>1, Halves
  <2>5. ext \in Seq(Char) /\ Len(ext) = 2 /\ ext[1] = Dot /\ ext[2] = "n"
    BY DEF Char
  <2>6. other = a \o ext /\ path_extension(s) = p
    BY <2>2, <2>3
  <2> HIDE DEF other, ext, a, p, n, d, at
  <2>7. /\ other \in Seq(Char) /\ Len(other) = d + 1
        /\ \A i \in 1..(d - 1) : other[i] = s[i]
        /\ other[d] = Dot /\ other[d + 1] = "n"
    <3>1. /\ other \in Seq(Char) /\ Len(other) = Len(a) + Len(ext)
          /\ \A i \in 1..(Len(a) + Len(ext)) : other[i] = IF i <= Len(a) THEN a[i] ELSE ext[i - Len(a)]
      BY <2>4, <2>5, <2>6, ConcatProperties
    <3>2. Len(other) = d + 1
      BY <3>1, <2>4, <2>5, <1>2
    <3>3. ASSUME NEW i \in 1..(d - 1) PROVE other[i] = s[i]
      <4>1. i \in 1..(Len(a) + Len(ext)) /\ i <= Len(a)
        BY <2>4, <2>5, <1>2
      <4> QED BY <4>1, <3>1, <2>4
    <3>4. other[d] = ext[1] /\ other[d + 1] = ext[2]
      <4>1. /\ d \in 1..(Len(a) + Len(ext)) /\ ~(d <= Len(a)) /\ d - Len(a) = 1
            /\ d + 1 \in 1..(Len(a) + Len(ext)) /\ ~(d + 1 <= Len(a)) /\ (d + 1) - Len(a) = 2
        BY <2>4, <2>5, <1>2, <2>1
      <4> QED BY <4>1, <3>1
    <3> QED BY <3>1, <3>2, <3>3, <3>4, <2>5
  <2>8. find_last_of(other, Dot) = d
    <3>1. d \in 0..Len(other)
      BY <2>7, <1>2
    <3>2. \A i \in 1..Len(other) : i > d => other[i] # Dot
      <4>1. ASSUME NEW i \in 1..Len(other), i > d PROVE i = d + 1
        BY <4>1, <2>7, <1>2
      <4> QED BY <4>1, <2>7 DEF Dot
    <3> QED BY <3>1, <3>2, <2>7, LastOfIs
  <2>9. find_last_of(other, Slash) = n
    <3>1. n \in 0..Len(other)
      BY <2>7, <1>1, <1>2, <2>1
    <3>2. n # 0 => other[n] = Slash
      <4>1. n # 0 => n \in 1..(d - 1)
        BY <1>1, <1>2, <2>1
      <4> QED BY <4>1, <2>7, <1>1
    <3>3. ASSUME NEW i \in 1..Len(other), i > n PROVE other[i] # Slash
      <4>1. i \in 1..(d - 1) \/ i = d \/ i = d + 1
        BY <2>7, <1>2
      <4>2. i \in 1..(d - 1) => i \in 1..Len(s)
        BY <1>2
      <4> QED BY <4>1, <4>2, <3>3, <2>7, <1>1 DEF Slash, Dot
    <3> QED BY <3>1, <3>2, <3>3, <2>7, LastOfIs
  <2>10. _path_extension_pos(other) = d
    BY <2>8, <2>9, <2>1, <1>1, <1>2 DEF _path_extension_pos
  <2>11. path_dirname(other) = path_dirname(s)
    <3>1. CASE n = 0
      BY <2>9, <3>1 DEF path_dirname, n
    <3>2. CASE n # 0
      <4>1. path_dirname(other) = SubSeq(other, 1, n - 1) /\ path_dirname(s) = SubSeq(s, 1, n - 1)
        BY <2>9, <3>2 DEF path_dirname, n
      <4>2. /\ n \in 1..Len(s) /\ n \in 1..Len(other)
        BY <3>2, <1>1, <1>2, <2>1, <2>7
      <4>3. /\ SubSeq(s, 1, n - 1) \in Seq(Char) /\ Len(SubSeq(s, 1, n - 1)) = n - 1
            /\ \A i \in 1..(n - 1) : SubSeq(s, 1, n - 1)[i] = s[i]
        BY <4>2, Halves
      <4>4. /\ SubSeq(other, 1, n - 1) \in Seq(Char) /\ Len(SubSeq(other, 1, n - 1)) = n - 1
            /\ \A i \in 1..(n - 1) : SubSeq(other, 1, n - 1)[i] = other[i]
        BY <4>2, <2>7, Halves
      <4>5. \A i \in 1..(n - 1) : i \in 1..(d - 1)
        BY <4>2, <2>1, <1>2
      <4> DEFINE u == SubSeq(s, 1, n - 1)
                 v == SubSeq(other, 1, n - 1)
      <4>6. /\ u \in Seq(Char) /\ v \in Seq(Char) /\ Len(u) = n - 1 /\ Len(v) = n - 1
            /\ \A i \in 1..(n - 1) : u[i] = v[i]
        BY <4>3, <4>4, <4>5, <2>7
      <4> HIDE DEF u, v
      <4>7. u = v
        BY <4>6, SeqEqual
      <4> QED BY <4>1, <4>7 DEF u, v
    <3> QED BY <3>1, <3>2
  <2>12. path_extension(other) = ext
    <3>1. path_extension(other) = SubSeq(other, d, Len(other))
      BY <2>10, <2>1 DEF path_extension
    <3>2. d \in 1..Len(other)
      BY <2>7, <1>2, <2>1
    <3>3. SubSeq(other, 1, d - 1) \o SubSeq(other, d, Len(other)) = other
      BY <3>2, <2>7, Halves
    <3>4. /\ SubSeq(other, 1, d - 1) \in Seq(Char) /\ SubSeq(other, d, Len(other)) \in Seq(Char)
          /\ Len(SubSeq(other, d, Len(other))) = Len(other) - d + 1
          /\ \A i \in 1..(Len(other) - d + 1) : SubSeq(other, d, Len(other))[i] = other[d + i - 1]
      BY <3>2, <2>7, Halves
    <3> DEFINE q == SubSeq(other, d, Len(other))
    <3>5. q \in Seq(Char) /\ Len(q) = 2 /\ q[1] = other[d] /\ q[2] = other[d + 1]
      <4>1. Len(other) - d + 1 = 2 /\ d + 1 - 1 = d /\ d + 2 - 1 = d + 1 /\ d \in Nat
        BY <2>7, <1>2
      <4>2. 1 \in 1..2 /\ 2 \in 1..2
        OBVIOUS
      <4> QED BY <3>4, <4>1, <4>2
    <3> HIDE DEF q
    <3>6. Len(q) = Len(ext) /\ \A i \in 1..Len(q) : q[i] = ext[i]
      BY <3>5, <2>5, <2>7
    <3>7. q = ext
      BY <3>5, <3>6, <2>5, SeqEqual
    <3> QED BY <3>1, <3>7 DEF q
  <2>13. path_extension(s) # <<>>
    <3>1. Len(p) # 0
      BY <2>4, <1>2
    <3> QED BY <3>1, <2>6
  <2>14. path_replace_extension(other, p) = s
    <3>1. path_replace_extension(other, p) = SubSeq(other, 1, d - 1) \o p
      BY <2>10, <2>1 DEF path_replace_extension
    <3>2. d \in 1..Len(other)
      BY <2>7, <1>2, <2>1
    <3> DEFINE v == SubSeq(other, 1, d - 1)
    <3>3. v \in Seq(Char) /\ Len(v) = d - 1 /\ \A i \in 1..(d - 1) : v[i] = other[i]
      BY <3>2, <2>7, Halves
    <3> HIDE DEF v
    <3>4. v = a
      <4>1. Len(v) = Len(a) /\ \A i \in 1..Len(v) : v[i] = a[i]
        BY <3>3, <2>4, <2>7
      <4> QED BY <4>1, <3>3, <2>4, SeqEqual
    <3> QED BY <3>1, <3>4, <2>4 DEF v
  <2> QED BY <2>6, <2>11, <2>12, <2>13, <2>14 DEF other, ext
<1> QED BY <1>4, <1>5

\* The least of some numbers.
LEMMA LeastIs == ASSUME NEW G, G \subseteq Nat, G # {} PROVE Min(G) \in G
<1>1. \E x \in G : \A y \in G : x <= y
  BY LeastNat
<1> QED BY <1>1 DEF Min

LEMMA MonikerRejoins ==
  ASSUME NEW s \in Seq(Char), Colon \in ToSet(s)
  PROVE  c_str(moniker(s)) = s
<1> DEFINE I == {i \in 1..Len(s) : s[i] = Colon}
           n == SelectInSeq(s, LAMBDA d : d = Colon)
<1>1. n = IF I # {} THEN Min(I) ELSE 0
  BY DEF SelectInSeq
<1>2. I # {} /\ I \subseteq Nat
  BY DEF ToSet
<1>3. n \in 1..Len(s) /\ s[n] = Colon
  <2>1. Min(I) \in I
    <3> HIDE DEF I
    <3> QED BY <1>2, LeastIs
  <2>2. n = Min(I)
    BY <1>1, <1>2
  <2> HIDE DEF n
  <2> QED BY <2>1, <2>2
<1>4. moniker(s) = [scheme |-> SubSeq(s, 1, n - 1), path |-> SubSeq(s, n + 1, Len(s))]
  BY <1>3 DEF moniker
<1> HIDE DEF n
<1>5. SubSeq(s, 1, n - 1) \o <<s[n]>> \o SubSeq(s, n + 1, Len(s)) = s
  BY <1>3, Around
<1> HIDE DEF Colon
<1>6. c_str(moniker(s)) = SubSeq(s, 1, n - 1) \o <<s[n]>> \o SubSeq(s, n + 1, Len(s))
  <2> DEFINE m == moniker(s)
  <2>1. m = [scheme |-> SubSeq(s, 1, n - 1), path |-> SubSeq(s, n + 1, Len(s))]
    BY <1>4
  <2> HIDE DEF m
  <2>2. c_str(m) = SubSeq(s, 1, n - 1) \o <<Colon>> \o SubSeq(s, n + 1, Len(s))
    BY <2>1 DEF c_str
  <2> QED BY <2>2, <1>3 DEF m
<1> QED BY <1>5, <1>6

TextIsPath == text \in Seq(Char)

LEMMA TextTyped == UtilitiesSpec => []TextIsPath
<1>1. UtilitiesInit => TextIsPath
  BY DEF UtilitiesInit, TextIsPath
<1>2. TextIsPath /\ [UtilitiesNext]_utilities => TextIsPath'
  <2> SUFFICES ASSUME text \in Seq(Char), [UtilitiesNext]_utilities PROVE text' \in Seq(Char)
    BY DEF TextIsPath
  <2>1. text' = text \/ \E c \in Char : text' = Append(text, c)
    BY DEF UtilitiesNext, utilities
  <2> QED BY <2>1
<1> QED BY <1>1, <1>2, PTL DEF UtilitiesSpec

\* A path taken apart and put together again is the path, of any length.
THEOREM UtilitiesPartsRejoin == UtilitiesSpec => []PartsRejoin
<1>1. TextIsPath => PartsRejoin
  BY NamesRejoin, ExtensionOfName, ExtensionReplaced, MonikerRejoins DEF PartsRejoin, TextIsPath
<1> QED BY <1>1, TextTyped, PTL

\* A factor that is cancelled.
LEMMA Cancel ==
  ASSUME NEW a \in Int, NEW b \in Int, NEW c \in Nat \ {0}
  PROVE  /\ a * c <= b * c => a <= b
         /\ a * c < b * c => a < b
  OBVIOUS

\* The product is between what is cut and one more.
LEMMA Scaled ==
  ASSUME NEW n \in Nat, NEW num \in Nat, NEW den \in Nat \ {0}, NEW x \in scale(n, num, den)
  PROVE  x \in Int /\ x * den <= n * num /\ n * num <= (x + 1) * den
<1> DEFINE p == n * num
           q == p \div den
           r == p % den
<1>1. p \in Nat
  OBVIOUS
<1> HIDE DEF p
<1>2. q \in Int /\ r \in 0..(den - 1) /\ p = den * q + r
  BY <1>1
<1>3. x = q \/ (r = 0 /\ x = q - 1)
  BY DEF scale, p
<1> HIDE DEF q, r
<1>4. CASE x = q
  <2>1. x * den = den * q /\ (x + 1) * den = den * q + den
    BY <1>2, <1>4
  <2> QED BY <1>2, <1>4, <2>1 DEF p
<1>5. CASE r = 0 /\ x = q - 1
  <2>1. x * den = den * q - den /\ (x + 1) * den = den * q
    BY <1>2, <1>5
  <2> QED BY <1>2, <1>5, <2>1 DEF p
<1> QED BY <1>3, <1>4, <1>5

Side == Nat \ {0}
Sides == [w : Side, h : Side]

LEMMA FitsInto ==
  ASSUME NEW r \in Sides, NEW d \in Sides, NEW x \in fit_into(r, d)
  PROVE  x.w <= d.w /\ x.h <= d.h /\ (x.w = d.w \/ x.h = d.h)
<1>1. r.w \in Side /\ r.h \in Side /\ d.w \in Side /\ d.h \in Side
  BY DEF Sides
<1>2. /\ x.w \in (IF WidthLeast(r, d) THEN {d.w} ELSE scale(r.w, d.h, r.h))
      /\ x.h \in (IF HeightLeast(r, d) THEN {d.h} ELSE scale(r.h, d.w, r.w))
  BY DEF fit_into
<1>3. WidthLeast(r, d) \/ HeightLeast(r, d)
  BY <1>1 DEF WidthLeast, HeightLeast, Side
<1>4. CASE WidthLeast(r, d)
  <2>1. x.w = d.w
    BY <1>2, <1>4
  <2>2. CASE HeightLeast(r, d)
    BY <1>1, <1>2, <2>1, <2>2 DEF Side
  <2>3. CASE ~HeightLeast(r, d)
    <3>1. x.h \in scale(r.h, d.w, r.w)
      BY <1>2, <2>3
    <3>2. x.h \in Int /\ x.h * r.w <= r.h * d.w
      BY <3>1, <1>1, Scaled DEF Side
    <3>3. r.h * d.w = d.w * r.h
      BY <1>1 DEF Side
    <3>4. d.w * r.h <= d.h * r.w
      BY <1>4 DEF WidthLeast
    <3>5. x.h * r.w <= d.h * r.w
      <4>1. x.h * r.w \in Int /\ r.h * d.w \in Int /\ d.h * r.w \in Int
        BY <1>1, <3>2 DEF Side
      <4> QED BY <3>2, <3>3, <3>4, <4>1
    <3>6. x.h <= d.h
      BY <3>2, <3>5, <1>1, Cancel DEF Side
    <3> QED BY <2>1, <3>6, <1>1 DEF Side
  <2> QED BY <2>2, <2>3
<1>5. CASE ~WidthLeast(r, d)
  <2>1. x.h = d.h
    BY <1>2, <1>3, <1>5
  <2>2. x.w \in scale(r.w, d.h, r.h)
    BY <1>2, <1>5
  <2>3. x.w \in Int /\ x.w * r.h <= r.w * d.h
    BY <2>2, <1>1, Scaled DEF Side
  <2>4. r.w * d.h = d.h * r.w
    BY <1>1 DEF Side
  <2>5. d.h * r.w <= d.w * r.h
    BY <1>3, <1>5 DEF HeightLeast
  <2>6. x.w * r.h <= d.w * r.h
    <3>1. x.w * r.h \in Int /\ r.w * d.h \in Int /\ d.w * r.h \in Int
      BY <1>1, <2>3 DEF Side
    <3> QED BY <2>3, <2>4, <2>5, <3>1
  <2>7. x.w <= d.w
    BY <2>3, <2>6, <1>1, Cancel DEF Side
  <2> QED BY <2>1, <2>7, <1>1 DEF Side
<1> QED BY <1>4, <1>5

\* What is cut of more than d * c is at least d.
LEMMA AtLeast ==
  ASSUME NEW n \in Nat, NEW num \in Nat, NEW den \in Side, NEW x \in scale(n, num, den),
         NEW d \in Nat, d * den < n * num
  PROVE  d <= x
<1>1. x \in Int /\ n * num <= (x + 1) * den
  BY Scaled DEF Side
<1>2. d * den \in Int /\ n * num \in Int /\ (x + 1) * den \in Int
  BY <1>1 DEF Side
<1>3. d * den < (x + 1) * den
  BY <1>1, <1>2
<1>4. x + 1 \in Int /\ d \in Int /\ den \in Nat \ {0}
  BY <1>1 DEF Side
<1>5. d < x + 1
  BY <1>3, <1>4, Cancel
<1> QED BY <1>1, <1>5

LEMMA FillsInto ==
  ASSUME NEW r \in Sides, NEW d \in Sides, NEW x \in fill_into(r, d)
  PROVE  x.w >= d.w /\ x.h >= d.h /\ (x.w = d.w \/ x.h = d.h)
<1>1. r.w \in Side /\ r.h \in Side /\ d.w \in Side /\ d.h \in Side
  BY DEF Sides
<1>2. /\ x.w \in (IF HeightLeast(r, d) THEN {d.w} ELSE scale(r.w, d.h, r.h))
      /\ x.h \in (IF WidthLeast(r, d) THEN {d.h} ELSE scale(r.h, d.w, r.w))
  BY DEF fill_into
<1>3. WidthLeast(r, d) \/ HeightLeast(r, d)
  BY <1>1 DEF WidthLeast, HeightLeast, Side
<1>4. CASE HeightLeast(r, d)
  <2>1. x.w = d.w
    BY <1>2, <1>4
  <2>2. CASE WidthLeast(r, d)
    BY <1>1, <1>2, <2>1, <2>2 DEF Side
  <2>3. CASE ~WidthLeast(r, d)
    <3>1. x.h \in scale(r.h, d.w, r.w)
      BY <1>2, <2>3
    <3>2. ~(d.w * r.h <= d.h * r.w)
      BY <2>3 DEF WidthLeast
    <3>3. d.w * r.h = r.h * d.w /\ r.h * d.w \in Int /\ d.h * r.w \in Int
      BY <1>1 DEF Side
    <3>4. d.h * r.w < r.h * d.w
      BY <3>2, <3>3
    <3>5. d.h <= x.h /\ x.h \in Int
      BY <3>1, <3>4, <1>1, AtLeast, Scaled DEF Side
    <3> QED BY <2>1, <3>5, <1>1 DEF Side
  <2> QED BY <2>2, <2>3
<1>5. CASE ~HeightLeast(r, d)
  <2>1. x.h = d.h
    BY <1>2, <1>3, <1>5
  <2>2. x.w \in scale(r.w, d.h, r.h)
    BY <1>2, <1>5
  <2>3. ~(d.h * r.w <= d.w * r.h)
    BY <1>5 DEF HeightLeast
  <2>4. d.h * r.w = r.w * d.h /\ r.w * d.h \in Int /\ d.w * r.h \in Int
    BY <1>1 DEF Side
  <2>5. d.w * r.h < r.w * d.h
    BY <2>3, <2>4
  <2>6. d.w <= x.w /\ x.w \in Int
    BY <2>2, <2>5, <1>1, AtLeast, Scaled DEF Side
  <2> QED BY <2>1, <2>6, <1>1 DEF Side
<1> QED BY <1>4, <1>5

\* One side of a picture that is not longer than the longest, and one that is.
LEMMA Within1 ==
  ASSUME NEW s \in Side, NEW o \in Side, s <= o, NEW dim \in Side, NEW x \in scale(s, dim, o)
  PROVE  /\ x \in Int /\ x <= dim
         /\ s = o => x >= dim - 1
<1>1. x \in Int /\ x * o <= s * dim /\ s * dim <= (x + 1) * o
  BY Scaled DEF Side
<1>2. s * dim <= dim * o
  BY DEF Side
<1>3. x * o \in Int /\ s * dim \in Int /\ dim * o \in Int /\ (x + 1) * o \in Int
  BY <1>1 DEF Side
<1>4. x * o <= dim * o
  BY <1>1, <1>2, <1>3
<1>5. x <= dim
  BY <1>1, <1>4, Cancel DEF Side
<1>6. ASSUME s = o PROVE x >= dim - 1
  <2>1. s * dim = dim * o
    BY <1>6 DEF Side
  <2>2. dim * o <= (x + 1) * o
    BY <1>1, <1>3, <2>1
  <2>3. x + 1 \in Int /\ dim \in Int /\ o \in Nat \ {0}
    BY <1>1 DEF Side
  <2>4. dim <= x + 1
    BY <2>2, <2>3, Cancel
  <2> QED BY <1>1, <2>3, <2>4
<1> QED BY <1>1, <1>5, <1>6

LEMMA ThumbFits ==
  ASSUME NEW r \in Sides, NEW dim \in Side, NEW x \in gdkpixbuf_scale_to_fit(r, dim)
  PROVE  x.w <= dim /\ x.h <= dim /\ (x.w >= dim - 1 \/ x.h >= dim - 1)
<1> DEFINE o == IF r.w < r.h THEN r.h ELSE r.w
<1>1. r.w \in Side /\ r.h \in Side
  BY DEF Sides
<1>2. o \in Side /\ r.w <= o /\ r.h <= o /\ (r.w = o \/ r.h = o)
  BY <1>1 DEF Side
<1>3. x.w \in scale(r.w, dim, o) /\ x.h \in scale(r.h, dim, o)
  BY DEF gdkpixbuf_scale_to_fit
<1> HIDE DEF o
<1>4. x.w <= dim /\ (r.w = o => x.w >= dim - 1)
  BY <1>1, <1>2, <1>3, Within1
<1>5. x.h <= dim /\ (r.h = o => x.h >= dim - 1)
  BY <1>1, <1>2, <1>3, Within1
<1> QED BY <1>2, <1>4, <1>5

LEMMA TurnedRight == TurnedUpright
<1> SUFFICES ASSUME NEW o \in 1..8
             PROVE  LET taken_for == CASE o = 5 -> 7 [] o = 7 -> 5 [] OTHER -> o
                    IN  Upright(gdkpixbuf_exif_rotate(AsStored, o), taken_for)
  BY DEF TurnedUpright
<1>1. o \in {1, 2, 3, 4, 5, 6, 7, 8}
  OBVIOUS
<1> USE DEF Upright, gdkpixbuf_exif_rotate, AsStored, Edge, FirstRow, FirstColumn, flip, clockwise,
            counterclockwise, upsidedown
<1>2. CASE o = 1 BY <1>2
<1>3. CASE o = 2 BY <1>3
<1>4. CASE o = 3 BY <1>4
<1>5. CASE o = 4 BY <1>5
<1>6. CASE o = 5 BY <1>6
<1>7. CASE o = 6 BY <1>7
<1>8. CASE o = 7 BY <1>8
<1>9. CASE o = 8 BY <1>9
<1> QED BY <1>1, <1>2, <1>3, <1>4, <1>5, <1>6, <1>7, <1>8, <1>9

RectsTyped == rect \in Rect /\ dest \in Rect

\* Pictures are fitted, filled and turned right, of any size.
THEOREM UtilitiesShownRight == UtilitiesSpec => []ShownRight
<1>1. UtilitiesInit => RectsTyped
  BY DEF UtilitiesInit, RectsTyped
<1>2. RectsTyped /\ [UtilitiesNext]_utilities => RectsTyped'
  BY DEF UtilitiesNext, utilities, RectsTyped
<1>3. RectsTyped => ShownRight
  <2> SUFFICES ASSUME RectsTyped PROVE FitsExactly
    BY TurnedRight DEF ShownRight
  <2>1. rect \in Sides /\ dest \in Sides /\ dest.w \in Side
    BY UtilitiesAssumption DEF RectsTyped, Rect, Sides, Side
  <2> QED BY <2>1, FitsInto, FillsInto, ThumbFits DEF FitsExactly
<1> QED BY <1>1, <1>2, <1>3, PTL DEF UtilitiesSpec
-----------------------------------------------------------------------------
(* Importers: what a job has found and has still to look at is the card.   *)

AnyPath == Port \cup {AnyPort}
Folder == [name : STRING, files : Seq(STRING)]
CardFile == [folder : STRING, name : STRING]
Device == [path : AnyPath, model : Model]
Making == {"open", "list_root", "list_ptp", "folders", "download", "preview", "crashed", "thrown"}
Usual == {"closed", "idle", "imported"}

\* The camera is one of the list.
Known(camera) == \E d \in Range(devices) : d.path = camera.path /\ d.model = camera.model

JobTyped ==
  /\ job.pc \in Making \cup Usual /\ job.what \in {"list", "preview", "import"}
  /\ job.source \in AnyPath \cup {NoModel} \cup DOMAIN Directory
  /\ job.folders \in Seq(Folder) /\ job.files \in Seq(CardFile) /\ job.handed \in Seq(STRING)
  /\ steady \in BOOLEAN
JobRecord == job = [pc |-> job.pc, what |-> job.what, source |-> job.source, folders |-> job.folders,
                    files |-> job.files, copies |-> job.copies, handed |-> job.handed,
                    unsaved |-> job.unsaved]

CameraTyped ==
  /\ plugged \in [Port -> Model \cup {NoModel}]
  /\ Range(devices) \subseteq Device
  /\ m_camera = [path |-> m_camera.path, model |-> m_camera.model, made |-> m_camera.made]
  /\ m_camera.made \in BOOLEAN
  /\ m_camera = NoCamera \/ Known(m_camera)

\* A job on a camera is on the one that is open, once it is.
Camera == job.source \notin DOMAIN Directory
SourceInv ==
  /\ job.pc \in Making => Camera
  /\ job.pc = "open" /\ job.what # "preview" => job.files = <<>>
  /\ job.pc \in Making \ {"open"} => m_camera # NoCamera /\ m_camera.path = job.source
  /\ job.pc = "imported" /\ Camera => m_camera # NoCamera /\ m_camera.path = job.source
  /\ ~Camera => listed = list_directory(job.source)
  /\ job.pc = "imported" /\ ~Camera => job.handed = import_directory(job.source)

Handing == job.pc \in {"download", "imported"} /\ Camera

\* What is handed over was copied from that camera.
Copy(name) ==
  /\ name \in DOMAIN job.copies \cup job.unsaved
  /\ name \in DOMAIN job.copies => job.copies[name].model = m_camera.model
AllCopied == \A i \in DOMAIN job.handed : Copy(job.handed[i])
HandedInv ==
  /\ Handing => AllCopied
  /\ job.pc \in Making \ {"download"} => job.handed = <<>>

Names(files) == [i \in DOMAIN files |-> files[i].name]
FilesIn(folders) == FlattenSeq([i \in DOMAIN folders |-> folders[i].files])
Whole == FilesIn(Card[m_camera.model].folders)

\* While nothing failed, what was found and what is still to be looked at
\* are the files of the card.
SteadyInv ==
  steady =>
    /\ job.pc \in {"list_root", "list_ptp", "folders", "download"} => m_camera.made
    /\ job.pc \in {"list_root", "list_ptp"} => job.files = <<>>
    /\ job.pc = "list_ptp" => Card[m_camera.model].root = "ptp"
    /\ job.pc = "folders" => Names(job.files) \o FilesIn(job.folders) = Whole
    /\ job.pc = "download" => job.handed \o Names(job.files) = Whole
    /\ job.pc = "imported" /\ Camera => job.handed = Whole

ImportersInv == JobTyped /\ JobRecord /\ CameraTyped /\ SourceInv /\ HandedInv /\ SteadyInv

\* The rest of the job is as it was.
SameJob == /\ job'.what = job.what /\ job'.source = job.source /\ job'.copies = job.copies
           /\ job'.handed = job.handed /\ job'.unsaved = job.unsaved

LEMMA GoesTo ==
  ASSUME JobRecord, NEW pc, Goes(pc)
  PROVE  JobRecord' /\ SameJob /\ job'.pc = pc /\ job'.files = job.files /\ job'.folders = job.folders
BY DEF JobRecord, Goes, SameJob

LEMMA Begins ==
  ASSUME NEW what, NEW source, Begin(what, source)
  PROVE  /\ JobRecord' /\ job'.pc = "open" /\ job'.what = what /\ job'.source = source
         /\ job'.files = <<>> /\ job'.folders = <<>> /\ job'.handed = <<>> /\ job'.copies = <<>>
BY DEF JobRecord, Begin, NoJob

LEMMA Listing ==
  ASSUME NEW d \in DOMAIN Directory
  PROVE  list_directory(d) \in Seq(Range(Directory[d]))
<1> DEFINE S == Range(Directory[d])
           ss == [i \in DOMAIN Directory[d] |-> IF Directory[d][i] \in Media THEN <<Directory[d][i]>> ELSE <<>>]
<1>1. DOMAIN Directory[d] = 1..Len(Directory[d]) /\ Len(Directory[d]) \in Nat
  BY ImportersAssumption
<1>2. \A i \in DOMAIN Directory[d] : Directory[d][i] \in S
  BY DEF Range
<1> HIDE DEF S
<1>3. \A i \in DOMAIN Directory[d] : ss[i] \in Seq(S)
  BY <1>2
<1>4. ss \in Seq(Seq(S))
  BY <1>1, <1>3
<1> HIDE DEF ss
<1>5. FlattenSeq(ss) \in Seq(S)
  BY <1>4, FlattenType
<1> QED BY <1>5 DEF list_directory, ss, S

\* SetToSeq lists elements of the set.
LEMMA SetListed ==
  ASSUME NEW S, IsFiniteSet(S)
  PROVE  Range(SetToSeq(S)) \subseteq S
<1>1. ExistsBijection(1..Cardinality(S), S)
  BY FS_CardinalityType
<1>2. PICK f : f \in Bijection(1..Cardinality(S), S)
  BY <1>1 DEF ExistsBijection
<1>3. f \in [1..Cardinality(S) -> S] /\ IsInjective(f)
  BY <1>2 DEF Bijection, Injection
<1>4. SetToSeq(S) \in [1..Cardinality(S) -> S]
  BY <1>3 DEF SetToSeq
<1> QED BY <1>4 DEF Range

LEMMA Detected ==
  ASSUME CameraTyped, NEW specific \in BOOLEAN, NEW any \in BOOLEAN
  PROVE  Range(detect(specific, any)) \subseteq Device
<1> DEFINE used == {p \in Port : plugged[p] # NoModel}
           found == (IF any /\ used # {} THEN {GpDevice(AnyPort, plugged[CHOOSE p \in used : TRUE])} ELSE {})
                    \cup (IF specific THEN {GpDevice(p, plugged[p]) : p \in used} ELSE {})
           kept == IF Cardinality(found) > 1 THEN {d \in found : d.path # AnyPort} ELSE found
<1>1. IsFiniteSet(used) /\ used \subseteq Port
  BY ImportersAssumption, FS_Subset
<1>2. \A p \in used : plugged[p] \in Model
  BY DEF CameraTyped
<1>3. IsFiniteSet({GpDevice(p, plugged[p]) : p \in used})
  <2> DEFINE f == [p \in used |-> GpDevice(p, plugged[p])]
             T == {GpDevice(p, plugged[p]) : p \in used}
  <2> HIDE DEF used
  <2>1. f \in Surjection(used, T)
    BY DEF Surjection
  <2> QED BY <1>1, <2>1, FS_Surjection
<1>4. \A p \in used : GpDevice(p, plugged[p]) \in Device /\ GpDevice(AnyPort, plugged[p]) \in Device
  BY <1>1, <1>2 DEF GpDevice, Device, AnyPath
<1>5. used # {} => (CHOOSE p \in used : TRUE) \in used
  OBVIOUS
<1> HIDE DEF used
<1>6. found \subseteq Device
  BY <1>4, <1>5
<1>7. IsFiniteSet(found)
  <2>1. IsFiniteSet(IF any /\ used # {} THEN {GpDevice(AnyPort, plugged[CHOOSE p \in used : TRUE])} ELSE {})
    BY FS_Singleton, FS_EmptySet
  <2>2. IsFiniteSet(IF specific THEN {GpDevice(p, plugged[p]) : p \in used} ELSE {})
    BY <1>3, FS_EmptySet
  <2> QED BY <2>1, <2>2, FS_Union
<1> HIDE DEF found
<1>8. kept \subseteq found /\ IsFiniteSet(kept)
  BY <1>7, FS_Subset
<1>9. detect(specific, any) = SetToSeq(kept)
  BY DEF detect, found, kept, used
<1> HIDE DEF kept
<1> QED BY <1>6, <1>8, <1>9, SetListed

\* Nothing of the importers changes, but that a camera may be out of reach.
LEMMA UsbStep ==
  ASSUME ImportersInv, steady' \in BOOLEAN, steady' => steady, plugged' \in [Port -> Model \cup {NoModel}],
         UNCHANGED <<cameras, job, listed>>
  PROVE  ImportersInv'
<1>1. JobTyped' /\ JobRecord'
  BY DEF ImportersInv, JobTyped, JobRecord, cameras
<1>2. CameraTyped'
  BY DEF ImportersInv, CameraTyped, Known, cameras
<1>3. SourceInv' /\ HandedInv'
  BY DEF ImportersInv, SourceInv, HandedInv, AllCopied, Copy, Camera, Handing, cameras
<1>4. SteadyInv'
  BY DEF ImportersInv, SteadyInv, Camera, Whole, cameras
<1> QED BY <1>1, <1>2, <1>3, <1>4 DEF ImportersInv

LEMMA Changes ==
  ASSUME ImportersInv, NEW p \in Port,
         unplug(p) \/ mount(p) \/ unmounted(p) \/ \E m \in Model : plug(p, m)
  PROVE  ImportersInv'
<1>1. plugged \in [Port -> Model \cup {NoModel}] /\ steady \in BOOLEAN
  BY DEF ImportersInv, CameraTyped, JobTyped
<1>2. /\ plugged' \in [Port -> Model \cup {NoModel}]
      /\ steady' \in BOOLEAN /\ (steady' => steady) /\ UNCHANGED <<cameras, job, listed>>
  <2>1. CASE unplug(p)
    BY <1>1, <2>1 DEF unplug, Change
  <2>2. CASE mount(p)
    BY <1>1, <2>2 DEF mount, Change
  <2>3. CASE unmounted(p)
    BY <1>1, <2>3 DEF unmounted
  <2>4. CASE \E m \in Model : plug(p, m)
    BY <1>1, <2>4 DEF plug, Change
  <2> QED BY <2>1, <2>2, <2>3, <2>4
<1> QED BY <1>2, UsbStep

\* Jobs that are over, or not begun.
LEMMA OpensDialog == ASSUME ImportersInv, CameraImporterUI PROVE ImportersInv'
<1>1. /\ job' = [NoJob EXCEPT !.pc = "idle"] /\ m_camera' = NoCamera /\ listed' = <<>> /\ steady' = FALSE
      /\ UNCHANGED usb
  BY DEF CameraImporterUI
<1>2. JobRecord' /\ JobTyped'
  <2>1. /\ job'.pc = "idle" /\ job'.what = "list" /\ job'.source = NoModel /\ job'.folders = <<>>
        /\ job'.files = <<>> /\ job'.handed = <<>> /\ JobRecord'
    BY <1>1 DEF JobRecord, NoJob
  <2>2. steady' \in BOOLEAN
    BY <1>1
  <2> QED BY <2>1, <2>2 DEF JobTyped, Usual
<1>3. CameraTyped'
  <2>1. Range(devices') \subseteq Device
    BY Detected DEF CameraImporterUI, ImportersInv
  <2> QED BY <1>1, <2>1 DEF CameraTyped, ImportersInv, NoCamera, usb
<1>4. Camera'
  BY <1>1, ImportersAssumption DEF Camera, NoJob
<1>5. job'.pc = "idle" /\ ~steady'
  BY <1>1 DEF NoJob
<1>6. SourceInv' /\ HandedInv' /\ SteadyInv'
  BY <1>4, <1>5 DEF SourceInv, HandedInv, SteadyInv, Handing, Making
<1> QED BY <1>2, <1>3, <1>6 DEF ImportersInv

LEMMA ClosesDialog == ASSUME ImportersInv, close_dialog PROVE ImportersInv'
<1>1. job' = NoJob /\ m_camera' = NoCamera /\ listed' = <<>> /\ UNCHANGED <<usb, devices, steady>>
  BY DEF close_dialog
<1>2. JobRecord' /\ JobTyped'
  BY <1>1 DEF JobRecord, JobTyped, NoJob, Usual, ImportersInv
<1>3. CameraTyped'
  BY <1>1 DEF CameraTyped, ImportersInv, NoCamera, usb
<1>4. Camera' /\ job'.pc = "closed" /\ job'.files = <<>>
  BY <1>1, ImportersAssumption DEF Camera, NoJob
<1>5. SourceInv' /\ HandedInv' /\ SteadyInv'
  BY <1>4 DEF SourceInv, HandedInv, SteadyInv, Handing, Making
<1> QED BY <1>2, <1>3, <1>5 DEF ImportersInv

\* The camera and the list of cameras are as they were.
LEMMA CamerasStay ==
  ASSUME CameraTyped, UNCHANGED cameras, UNCHANGED plugged
  PROVE  CameraTyped'
BY DEF CameraTyped, cameras, Known

LEMMA BeginStep ==
  ASSUME ImportersInv, NEW what \in {"list", "import"}, NEW source \in AnyPath, Begin(what, source),
         UNCHANGED <<usb, cameras, steady>>
  PROVE  ImportersInv'
<1>1. /\ JobRecord' /\ job'.pc = "open" /\ job'.what = what /\ job'.source = source
      /\ job'.files = <<>> /\ job'.folders = <<>> /\ job'.handed = <<>> /\ job'.copies = <<>>
  BY Begins
<1>2. JobTyped'
  BY <1>1 DEF JobTyped, ImportersInv, Making
<1>3. CameraTyped'
  BY CamerasStay DEF ImportersInv, usb
<1>4. Camera'
  BY <1>1, ImportersAssumption DEF Camera, AnyPath
<1>5. SourceInv' /\ HandedInv' /\ SteadyInv'
  BY <1>1, <1>4 DEF SourceInv, HandedInv, SteadyInv, Handing, Making
<1> QED BY <1>1, <1>2, <1>3, <1>5 DEF ImportersInv

LEMMA SelectsCamera == ASSUME ImportersInv, select_camera PROVE ImportersInv'
<1>1. PICK d \in Range(devices) : Begin("list", d.path)
  BY DEF select_camera
<1>2. d.path \in AnyPath
  BY DEF ImportersInv, CameraTyped, Device
<1> QED BY <1>1, <1>2, BeginStep DEF select_camera

LEMMA SelectsDirectory ==
  ASSUME ImportersInv, NEW d \in DOMAIN Directory, do_select_directories(d)
  PROVE  ImportersInv'
<1>1. /\ job' = [NoJob EXCEPT !.pc = "idle", !.source = d] /\ listed' = list_directory(d)
      /\ UNCHANGED <<usb, cameras, steady>>
  BY DEF do_select_directories
<1>2. JobRecord' /\ JobTyped'
  <2>1. /\ job'.pc = "idle" /\ job'.what = "list" /\ job'.source = d /\ job'.folders = <<>>
        /\ job'.files = <<>> /\ job'.handed = <<>> /\ JobRecord'
    BY <1>1 DEF JobRecord, NoJob
  <2>2. steady' \in BOOLEAN
    BY <1>1 DEF ImportersInv, JobTyped
  <2> QED BY <2>1, <2>2 DEF JobTyped, Usual
<1>3. CameraTyped'
  BY <1>1, CamerasStay DEF ImportersInv, usb
<1>4. job'.pc = "idle" /\ job'.source = d
  BY <1>1 DEF NoJob
<1>5. SourceInv' /\ HandedInv' /\ SteadyInv'
  BY <1>1, <1>4 DEF SourceInv, HandedInv, SteadyInv, Handing, Making
<1> QED BY <1>2, <1>3, <1>5 DEF ImportersInv

LEMMA Imports == ASSUME ImportersInv, action_file_import PROVE ImportersInv'
<1>1. CASE job.source \in DOMAIN Directory
  <2>1. /\ job' = [job EXCEPT !.pc = "imported", !.handed = import_directory(job.source)]
        /\ UNCHANGED <<usb, cameras, listed, steady>>
    BY <1>1 DEF action_file_import
  <2>2. /\ job'.pc = "imported" /\ job'.what = job.what /\ job'.source = job.source /\ job'.folders = job.folders
        /\ job'.files = job.files /\ job'.handed = import_directory(job.source) /\ JobRecord'
    BY <2>1 DEF ImportersInv, JobRecord
  <2>3. import_directory(job.source) \in Seq(STRING)
    BY <1>1, ImportersAssumption DEF import_directory
  <2>4. JobTyped'
    BY <2>1, <2>2, <2>3 DEF ImportersInv, JobTyped, Usual
  <2>5. CameraTyped'
    BY <2>1, CamerasStay DEF ImportersInv, usb
  <2>6. ~Camera' /\ ~Camera
    BY <1>1, <2>2 DEF Camera
  <2>7. SourceInv' /\ HandedInv' /\ SteadyInv'
    BY <2>1, <2>2, <2>6 DEF ImportersInv, SourceInv, HandedInv, SteadyInv, Handing, Making
  <2> QED BY <2>2, <2>4, <2>5, <2>7 DEF ImportersInv
<1>2. CASE job.source \notin DOMAIN Directory
  <2>1. job.source \in AnyPath
    BY <1>2 DEF action_file_import, ImportersInv, JobTyped
  <2> QED BY <1>2, <2>1, BeginStep DEF action_file_import
<1> QED BY <1>1, <1>2

\* A camera of the list has a card and a path.
LEMMA KnownHas ==
  ASSUME CameraTyped, NEW camera, Known(camera)
  PROVE  camera.path \in AnyPath /\ camera.model \in Model
BY DEF CameraTyped, Known, Device

LEMMA CardHas ==
  ASSUME NEW m \in Model
  PROVE  Card[m].folders \in Seq(Folder) /\ Card[m].root \in {"dcim", "ptp"}
BY ImportersAssumption DEF Folder

LEMMA OpensCamera ==
  ASSUME ImportersInv, job.pc = "open", NEW camera, open_camera(camera), Known(camera),
         camera.path = job.source,
         camera = [path |-> camera.path, model |-> camera.model, made |-> camera.made]
  PROVE  /\ m_camera' = [path |-> camera.path, model |-> camera.model, made |-> Within(camera)]
         /\ m_camera' # NoCamera /\ Known(m_camera') /\ m_camera'.path = job.source
         /\ (Within(m_camera') => m_camera'.made)
<1>1. m_camera' = [camera EXCEPT !.made = Within(camera)]
  BY DEF open_camera
<1>2. m_camera' = [path |-> camera.path, model |-> camera.model, made |-> Within(camera)]
  BY <1>1
<1>3. m_camera'.path = camera.path /\ m_camera'.model = camera.model /\ m_camera'.made = Within(camera)
  BY <1>2
<1>4. camera.model # NoModel
  BY KnownHas, ImportersAssumption DEF ImportersInv
<1>5. m_camera' # NoCamera
  BY <1>3, <1>4 DEF NoCamera
<1>6. Within(m_camera') <=> Within(camera)
  BY <1>3 DEF Within
<1> QED BY <1>2, <1>3, <1>5, <1>6 DEF Known

LEMMA EnsuresOpen == ASSUME ImportersInv, ensure_camera_open PROVE ImportersInv'
<1>0. /\ job.pc = "open" /\ Opened /\ Camera /\ JobTyped /\ JobRecord /\ CameraTyped /\ job.handed = <<>>
  BY DEF ensure_camera_open, ImportersInv, SourceInv, HandedInv, Making
<1>1. PICK camera : /\ open_camera(camera) /\ Known(camera) /\ camera.path = job.source
                    /\ camera = [path |-> camera.path, model |-> camera.model, made |-> camera.made]
  <2>1. CASE New(job.source)
    <3>1. PICK d \in Range(devices) : /\ d.path = job.source
                                      /\ open_camera([path |-> job.source, model |-> d.model, made |-> FALSE])
      BY <2>1 DEF ensure_camera_open, get_device
    <3> QED BY <3>1 DEF Known
  <2>2. CASE ~New(job.source)
    BY <1>0, <2>2 DEF ensure_camera_open, New, CameraTyped
  <2> QED BY <2>1, <2>2
<1>2. /\ m_camera' = [path |-> camera.path, model |-> camera.model, made |-> Within(camera)]
      /\ m_camera' # NoCamera /\ Known(m_camera') /\ m_camera'.path = job.source
      /\ (Within(m_camera') => m_camera'.made)
  BY <1>0, <1>1, OpensCamera
<1>3. /\ steady' = Within(m_camera') /\ UNCHANGED <<plugged, devices, listed>>
      /\ Goes(IF job.what = "preview" THEN "preview" ELSE "list_root")
  BY <1>0 DEF Opened
<1>4. /\ JobRecord' /\ SameJob /\ job'.files = job.files /\ job'.folders = job.folders
      /\ job'.pc = (IF job.what = "preview" THEN "preview" ELSE "list_root")
  BY <1>0, <1>3, GoesTo
<1>5. JobTyped'
  BY <1>0, <1>3, <1>4 DEF JobTyped, SameJob, Making, Within
<1>6. CameraTyped'
  <2>1. Known(m_camera)'
    BY <1>2, <1>3 DEF Known
  <2>2. m_camera'.made \in BOOLEAN
    BY <1>2 DEF Within
  <2>3. m_camera' = [path |-> m_camera'.path, model |-> m_camera'.model, made |-> m_camera'.made]
    BY <1>2
  <2> QED BY <1>0, <1>3, <2>1, <2>2, <2>3 DEF CameraTyped
<1>7. Camera' /\ job'.source = job.source /\ job'.handed = <<>>
  BY <1>0, <1>4 DEF Camera, SameJob
<1>8. SourceInv' /\ HandedInv'
  BY <1>2, <1>4, <1>7 DEF SourceInv, HandedInv, Handing, Making
<1>9. SteadyInv'
  <2>1. job.what # "preview" => job.files = <<>>
    BY <1>0 DEF ImportersInv, SourceInv
  <2> QED BY <1>2, <1>3, <1>4, <1>7, <2>1 DEF SteadyInv
<1> QED BY <1>4, <1>5, <1>6, <1>8, <1>9 DEF ImportersInv

\* A call leaves the cameras alone; the job goes on without failure only if
\* it did so far, and the camera answers.
LEMMA Called ==
  ASSUME ImportersInv, Calls
  PROVE  /\ CameraTyped' /\ m_camera' = m_camera /\ steady' \in BOOLEAN
         /\ (steady' => steady /\ Unheld(m_camera))
         /\ (m_camera # NoCamera => Known(m_camera))
<1>1. UNCHANGED <<usb, cameras>> /\ steady' = (steady /\ Unheld(m_camera))
  BY DEF Calls
<1>2. CameraTyped' /\ m_camera' = m_camera
  BY <1>1, CamerasStay DEF ImportersInv, usb, cameras
<1>3. steady \in BOOLEAN /\ (m_camera # NoCamera => Known(m_camera))
  BY DEF ImportersInv, JobTyped, CameraTyped
<1> QED BY <1>1, <1>2, <1>3 DEF Unheld

\* What is found in the folders.
LEMMA FilesInTyped ==
  ASSUME NEW folders \in Seq(Folder)
  PROVE  FilesIn(folders) \in Seq(STRING)
<1> DEFINE ss == [i \in DOMAIN folders |-> folders[i].files]
<1>1. DOMAIN folders = 1..Len(folders) /\ Len(folders) \in Nat
  OBVIOUS
<1>2. \A i \in 1..Len(folders) : folders[i].files \in Seq(STRING)
  <2>1. \A i \in 1..Len(folders) : folders[i] \in Folder
    OBVIOUS
  <2> QED BY <2>1 DEF Folder
<1>3. ss \in Seq(Seq(STRING))
  BY <1>1, <1>2
<1> HIDE DEF ss
<1>4. FlattenSeq(ss) \in Seq(STRING)
  BY <1>3, FlattenType
<1> QED BY <1>4 DEF FilesIn, ss

LEMMA FilesInRest ==
  ASSUME NEW folders \in Seq(Folder), folders # <<>>
  PROVE  FilesIn(folders) = Head(folders).files \o FilesIn(Tail(folders))
<1> DEFINE ss == [i \in DOMAIN folders |-> folders[i].files]
           rest == Tail(folders)
           tt == [i \in DOMAIN rest |-> rest[i].files]
<1>1. DOMAIN folders = 1..Len(folders) /\ Len(folders) \in Nat /\ Len(folders) >= 1
  OBVIOUS
<1>2. \A i \in 1..Len(folders) : folders[i].files \in Seq(STRING)
  <2>1. \A i \in 1..Len(folders) : folders[i] \in Folder
    OBVIOUS
  <2> QED BY <2>1 DEF Folder
<1>3. ss \in Seq(Seq(STRING)) /\ Len(ss) = Len(folders) /\ ss # <<>> /\ ss[1] = folders[1].files
  BY <1>1, <1>2
<1>4. rest \in Seq(Folder) /\ Len(rest) = Len(folders) - 1 /\ \A i \in 1..Len(rest) : rest[i] = folders[i + 1]
  BY <1>1, HeadTailProperties
<1>5. tt = Tail(ss)
  <2>1. DOMAIN rest = 1..(Len(folders) - 1)
    BY <1>4
  <2>2. Tail(ss) = [i \in 1..(Len(folders) - 1) |-> ss[i + 1]]
    BY <1>3
  <2>3. \A i \in 1..(Len(folders) - 1) : rest[i].files = ss[i + 1]
    BY <1>1, <1>4
  <2> HIDE DEF ss
  <2> QED BY <2>1, <2>2, <2>3
<1> HIDE DEF ss, tt, rest
<1>6. FlattenSeq(ss) = Head(ss) \o FlattenSeq(Tail(ss))
  BY <1>3, FlattenCons
<1>7. Head(ss) = Head(folders).files
  BY <1>1, <1>3
<1>8. FlattenSeq(ss) = Head(folders).files \o FlattenSeq(tt)
  BY <1>5, <1>6, <1>7
<1> QED BY <1>8 DEF FilesIn, ss, tt, rest

LEMMA ListsRoot == ASSUME ImportersInv, list_root PROVE ImportersInv'
<1> DEFINE root == IF job.pc = "list_root" THEN "dcim" ELSE "ptp"
           found == Answers /\ Card[m_camera.model].root = root
<1>0. /\ job.pc \in {"list_root", "list_ptp"} /\ Calls /\ listed' = listed /\ Camera /\ JobTyped /\ JobRecord
      /\ m_camera # NoCamera /\ m_camera.path = job.source /\ job.handed = <<>>
      /\ CameraTyped /\ Known(m_camera)
  BY DEF list_root, ImportersInv, SourceInv, HandedInv, Making, CameraTyped
<1>1. /\ CameraTyped' /\ m_camera' = m_camera /\ steady' \in BOOLEAN
      /\ (steady' => steady /\ Unheld(m_camera))
  BY <1>0, Called
<1>2. m_camera.model \in Model /\ Card[m_camera.model].folders \in Seq(Folder)
      /\ Card[m_camera.model].root \in {"dcim", "ptp"}
  BY <1>0, KnownHas, CardHas
<1>3. /\ JobRecord' /\ SameJob /\ job'.files = job.files
      /\ \/ found /\ job'.pc = "folders" /\ job'.folders = Card[m_camera.model].folders
         \/ ~found /\ job'.folders = job.folders
            /\ job'.pc = (IF root = "dcim" THEN "list_ptp" ELSE "folders")
  <2>1. CASE found
    <3>1. job' = [job EXCEPT !.pc = "folders", !.folders = Card[m_camera.model].folders]
      BY <2>1 DEF list_root
    <3> QED BY <1>0, <2>1, <3>1 DEF JobRecord, SameJob
  <2>2. CASE ~found
    <3>1. Goes(IF root = "dcim" THEN "list_ptp" ELSE "folders")
      BY <2>2 DEF list_root
    <3>2. /\ JobRecord' /\ SameJob /\ job'.files = job.files /\ job'.folders = job.folders
          /\ job'.pc = (IF root = "dcim" THEN "list_ptp" ELSE "folders")
      BY <1>0, <3>1, GoesTo
    <3> QED BY <2>2, <3>2
  <2> QED BY <2>1, <2>2
<1>4. JobTyped'
  BY <1>0, <1>1, <1>2, <1>3 DEF JobTyped, SameJob, Making
<1>5. Camera' /\ job'.source = job.source /\ job'.handed = <<>> /\ job'.pc \in {"list_ptp", "folders"}
  BY <1>0, <1>3 DEF Camera, SameJob
<1>6. SourceInv' /\ HandedInv'
  BY <1>0, <1>1, <1>5 DEF SourceInv, HandedInv, Handing, Making
<1>7. SteadyInv'
  <2> SUFFICES ASSUME steady' PROVE SteadyInv'
    BY DEF SteadyInv
  <2>1. steady /\ m_camera.made /\ job.files = <<>> /\ Unheld(m_camera)
        /\ (job.pc = "list_ptp" => Card[m_camera.model].root = "ptp")
    BY <1>0, <1>1 DEF ImportersInv, SteadyInv
  <2>2. Answers
    BY <2>1 DEF Answers
  <2>3. job'.pc = "folders" => job'.folders = Card[m_camera.model].folders
    BY <1>0, <1>3, <2>1, <2>2
  <2>4. job'.pc = "list_ptp" => Card[m_camera.model].root = "ptp"
    BY <1>0, <1>2, <1>3, <2>1, <2>2
  <2>5. job'.pc = "folders" => Names(job'.files) \o FilesIn(job'.folders) = Whole'
    <3> HAVE job'.pc = "folders"
    <3>1. Names(job'.files) = <<>>
      BY <1>3, <2>1 DEF Names
    <3>2. FilesIn(Card[m_camera.model].folders) \in Seq(STRING)
      BY <1>2, FilesInTyped
    <3>3. Whole' = FilesIn(Card[m_camera.model].folders)
      BY <1>1 DEF Whole
    <3>4. <<>> \o FilesIn(Card[m_camera.model].folders) = FilesIn(Card[m_camera.model].folders)
      BY <3>2, ConcatEmptySeq
    <3> QED BY <2>3, <3>1, <3>3, <3>4
  <2> QED BY <1>1, <1>3, <1>5, <2>1, <2>4, <2>5 DEF SteadyInv
<1> QED BY <1>1, <1>3, <1>4, <1>6, <1>7 DEF ImportersInv

FilesOfTyped(folder) == FilesOf(folder) \in Seq(CardFile) /\ Names(FilesOf(folder)) = folder.files

\* The files of a folder keep their names.
LEMMA FilesOfNames ==
  ASSUME NEW folder \in Folder
  PROVE  FilesOfTyped(folder)
<1>1. folder.name \in STRING /\ folder.files \in Seq(STRING)
  BY DEF Folder
<1> DEFINE s == folder.files
           n == folder.name
<1>2. s \in Seq(STRING) /\ n \in STRING
  BY <1>1
<1>3. FilesOf(folder) = [i \in DOMAIN s |-> [folder |-> n, name |-> s[i]]]
  BY DEF FilesOf
<1> HIDE DEF s, n
<1>4. FilesOf(folder) \in Seq(CardFile) /\ DOMAIN FilesOf(folder) = DOMAIN s
  <2>1. DOMAIN s = 1..Len(s) /\ Len(s) \in Nat /\ \A i \in DOMAIN s : s[i] \in STRING
    BY <1>2
  <2>2. \A i \in DOMAIN s : [folder |-> n, name |-> s[i]] \in CardFile
    BY <1>2, <2>1 DEF CardFile
  <2>3. FilesOf(folder) \in [1..Len(s) -> CardFile]
    BY <1>3, <2>1, <2>2
  <2> QED BY <2>1, <2>3
<1>5. \A i \in DOMAIN s : FilesOf(folder)[i].name = s[i]
  BY <1>3
<1>6. Names(FilesOf(folder)) = [i \in DOMAIN s |-> s[i]]
  BY <1>4, <1>5 DEF Names
<1>7. s = [i \in DOMAIN s |-> s[i]]
  BY <1>2
<1> QED BY <1>4, <1>6, <1>7 DEF FilesOfTyped, s

LEMMA NamesTyped ==
  ASSUME NEW files \in Seq(CardFile)
  PROVE  Names(files) \in Seq(STRING) /\ Len(Names(files)) = Len(files)
         /\ \A i \in 1..Len(files) : Names(files)[i] = files[i].name
<1>1. \A i \in 1..Len(files) : files[i] \in CardFile
  OBVIOUS
<1>2. \A i \in 1..Len(files) : files[i].name \in STRING
  BY <1>1 DEF CardFile
<1> QED BY <1>2 DEF Names

LEMMA NamesConcat ==
  ASSUME NEW a \in Seq(CardFile), NEW b \in Seq(CardFile)
  PROVE  a \o b \in Seq(CardFile) /\ Names(a \o b) = Names(a) \o Names(b)
<1> DEFINE c == a \o b
           l == Names(c)
           na == Names(a)
           nb == Names(b)
           r == na \o nb
<1>1. c \in Seq(CardFile) /\ Len(c) = Len(a) + Len(b)
      /\ \A i \in 1..Len(c) : c[i] = IF i <= Len(a) THEN a[i] ELSE b[i - Len(a)]
  BY ConcatProperties
<1>2. l \in Seq(STRING) /\ Len(l) = Len(c) /\ \A i \in 1..Len(c) : l[i] = c[i].name
  BY <1>1, NamesTyped
<1>3. Names(a) \in Seq(STRING) /\ Len(Names(a)) = Len(a) /\ \A i \in 1..Len(a) : Names(a)[i] = a[i].name
  BY NamesTyped
<1>4. Names(b) \in Seq(STRING) /\ Len(Names(b)) = Len(b) /\ \A i \in 1..Len(b) : Names(b)[i] = b[i].name
  BY NamesTyped
<1>5. r \in Seq(STRING) /\ Len(r) = Len(a) + Len(b)
      /\ \A i \in 1..Len(r) : r[i] = IF i <= Len(a) THEN na[i] ELSE nb[i - Len(a)]
  <2>1. na \in Seq(STRING) /\ nb \in Seq(STRING) /\ Len(na) = Len(a) /\ Len(nb) = Len(b)
    BY <1>3, <1>4
  <2> HIDE DEF na, nb, c, l
  <2>2. r \in Seq(STRING) /\ Joined(r, na, nb)
    BY <2>1, Joins
  <2> QED BY <2>1, <2>2 DEF Joined
<1>6. Len(l) = Len(r)
  BY <1>1, <1>2, <1>5
<1> HIDE DEF c, l, r, na, nb
<1>7. ASSUME NEW i \in 1..Len(l) PROVE l[i] = r[i]
  <2>0. Len(a) \in Nat /\ Len(b) \in Nat
    OBVIOUS
  <2>1. i \in 1..Len(c) /\ i \in 1..Len(r)
    BY <1>2, <1>6
  <2>2. CASE i <= Len(a)
    <3>1. i \in 1..Len(a)
      BY <1>1, <2>0, <2>1, <2>2
    <3>2. c[i] = a[i] /\ r[i] = na[i]
      BY <1>1, <1>5, <2>1, <2>2
    <3>3. na[i] = a[i].name
      BY <1>3, <3>1 DEF na
    <3> QED BY <1>2, <2>1, <3>2, <3>3
  <2>3. CASE ~(i <= Len(a))
    <3>1. PICK j \in 1..Len(b) : j = i - Len(a)
      BY <1>1, <2>0, <2>1, <2>3
    <3>2. c[i] = b[j] /\ r[i] = nb[j]
      BY <1>1, <1>5, <2>1, <2>3, <3>1
    <3>3. nb[j] = b[j].name
      BY <1>4 DEF nb
    <3> QED BY <1>2, <2>1, <3>2, <3>3
  <2> QED BY <2>2, <2>3
<1>8. l = r
  BY <1>2, <1>5, <1>6, <1>7, SeqEqual
<1> QED BY <1>1, <1>8 DEF c, l, r, na, nb

LEMMA NamesRest ==
  ASSUME NEW files \in Seq(CardFile), files # <<>>
  PROVE  Names(files) # <<>> /\ Head(Names(files)) = Head(files).name /\ Tail(Names(files)) = Names(Tail(files))
<1>1. Names(files) \in Seq(STRING) /\ Len(Names(files)) = Len(files)
      /\ \A i \in 1..Len(files) : Names(files)[i] = files[i].name
  BY NamesTyped
<1>2. Len(files) >= 1 /\ Len(files) \in Nat
  OBVIOUS
<1>3. Names(files) # <<>> /\ Head(Names(files)) = Head(files).name
  BY <1>1, <1>2
<1> DEFINE t == Tail(files)
           l == Tail(Names(files))
           r == Names(t)
<1>4. t \in Seq(CardFile) /\ Len(t) = Len(files) - 1 /\ \A i \in 1..Len(t) : t[i] = files[i + 1]
  BY <1>2, HeadTailProperties
<1>5. r \in Seq(STRING) /\ Len(r) = Len(t) /\ \A i \in 1..Len(t) : r[i] = t[i].name
  BY <1>4, NamesTyped
<1>6. l \in Seq(STRING) /\ Len(l) = Len(files) - 1 /\ \A i \in 1..Len(l) : l[i] = Names(files)[i + 1]
  BY <1>1, <1>2, HeadTailProperties
<1> HIDE DEF t, l, r
<1>7. ASSUME NEW i \in 1..Len(l) PROVE l[i] = r[i]
  <2>1. i \in 1..Len(t) /\ i + 1 \in 1..Len(files)
    BY <1>2, <1>4, <1>6
  <2>2. l[i] = files[i + 1].name
    BY <1>1, <1>6, <2>1
  <2>3. r[i] = files[i + 1].name
    BY <1>4, <1>5, <2>1
  <2> QED BY <2>2, <2>3
<1>8. l = r
  BY <1>4, <1>5, <1>6, <1>7, SeqEqual
<1> QED BY <1>3, <1>8 DEF l, r, t

LEMMA ProcessesFolder == ASSUME ImportersInv, process_folders PROVE ImportersInv'
<1> DEFINE more == FilesOf(Head(job.folders))
<1>0. /\ job.pc = "folders" /\ job.folders # <<>> /\ Calls /\ listed' = listed /\ Camera /\ JobTyped /\ JobRecord
      /\ m_camera # NoCamera /\ m_camera.path = job.source /\ job.handed = <<>> /\ CameraTyped
      /\ job.folders \in Seq(Folder) /\ job.files \in Seq(CardFile)
  BY DEF process_folders, ImportersInv, SourceInv, HandedInv, Making, JobTyped
<1>1. /\ CameraTyped' /\ m_camera' = m_camera /\ steady' \in BOOLEAN
      /\ (steady' => steady /\ Unheld(m_camera))
  BY <1>0, Called
<1>2. Head(job.folders) \in Folder /\ Tail(job.folders) \in Seq(Folder)
  BY <1>0
<1>3. more \in Seq(CardFile) /\ Names(more) = Head(job.folders).files
  BY <1>2, FilesOfNames DEF FilesOfTyped
<1>4. job' = [job EXCEPT !.folders = Tail(job.folders), !.files = IF Answers THEN job.files \o more ELSE job.files]
  BY DEF process_folders
<1>5. /\ JobRecord' /\ SameJob /\ job'.pc = job.pc /\ job'.folders = Tail(job.folders)
      /\ job'.files = IF Answers THEN job.files \o more ELSE job.files
  <2> HIDE DEF more
  <2> QED BY <1>0, <1>4 DEF JobRecord, SameJob
<1>6. job.files \o more \in Seq(CardFile) /\ Names(job.files \o more) = Names(job.files) \o Names(more)
  <2> HIDE DEF more
  <2> QED BY <1>0, <1>3, NamesConcat
<1>7. JobTyped'
  <2>1. job'.files \in Seq(CardFile)
    BY <1>0, <1>5, <1>6
  <2> QED BY <1>0, <1>1, <1>2, <1>5, <2>1 DEF JobTyped, SameJob
<1>8. Camera' /\ job'.source = job.source /\ job'.handed = <<>> /\ job'.pc = "folders"
  BY <1>0, <1>5 DEF Camera, SameJob
<1>9. SourceInv' /\ HandedInv'
  BY <1>0, <1>1, <1>8 DEF SourceInv, HandedInv, Handing, Making
<1>10. SteadyInv'
  <2> SUFFICES ASSUME steady' PROVE SteadyInv'
    BY DEF SteadyInv
  <2>1. m_camera.made /\ Unheld(m_camera) /\ Names(job.files) \o FilesIn(job.folders) = Whole
    BY <1>0, <1>1 DEF ImportersInv, SteadyInv
  <2>2. job'.files = job.files \o more
    BY <1>5, <2>1 DEF Answers
  <2>3. FilesIn(job.folders) = Names(more) \o FilesIn(Tail(job.folders))
    BY <1>0, <1>3, FilesInRest
  <2>4. Names(job'.files) \o FilesIn(job'.folders) = (Names(job.files) \o Names(more)) \o FilesIn(Tail(job.folders))
    BY <1>5, <1>6, <2>2
  <2>5. Names(job.files) \in Seq(STRING) /\ Names(more) \in Seq(STRING) /\ FilesIn(Tail(job.folders)) \in Seq(STRING)
    <3> HIDE DEF more
    <3> QED BY <1>0, <1>2, <1>3, NamesTyped, FilesInTyped
  <2>6. (Names(job.files) \o Names(more)) \o FilesIn(Tail(job.folders)) = Whole
    <3> DEFINE a == Names(job.files)
               b == Names(more)
               c == FilesIn(Tail(job.folders))
    <3>1. a \in Seq(STRING) /\ b \in Seq(STRING) /\ c \in Seq(STRING) /\ FilesIn(job.folders) = b \o c
          /\ a \o FilesIn(job.folders) = Whole
      BY <2>1, <2>3, <2>5
    <3> HIDE DEF a, b, c
    <3>2. (a \o b) \o c = a \o (b \o c)
      <4>1. Associative(STRING)
        BY Associates
      <4> QED BY <3>1, <4>1 DEF Associative
    <3>3. (a \o b) \o c = Whole
      BY <3>1, <3>2
    <3> QED BY <3>3 DEF a, b, c
  <2>7. Whole' = Whole
    BY <1>1 DEF Whole
  <2>8. Names(job'.files) \o FilesIn(job'.folders) = Whole'
    BY <2>4, <2>6, <2>7
  <2> QED BY <1>1, <1>8, <2>1, <2>8 DEF SteadyInv
<1> QED BY <1>1, <1>5, <1>7, <1>9, <1>10 DEF ImportersInv

LEMMA ListsSource == ASSUME ImportersInv, list_source_content PROVE ImportersInv'
<1>0. /\ job.pc = "folders" /\ Camera /\ JobTyped /\ JobRecord /\ job.handed = <<>> /\ CameraTyped
      /\ UNCHANGED <<usb, cameras, steady>> /\ job' = [job EXCEPT !.pc = "open", !.what = "preview"]
  BY DEF list_source_content, ImportersInv, SourceInv, HandedInv, Making
<1>1. /\ JobRecord' /\ job'.pc = "open" /\ job'.what = "preview" /\ job'.source = job.source
      /\ job'.folders = job.folders /\ job'.files = job.files /\ job'.handed = job.handed
  BY <1>0 DEF JobRecord
<1>2. JobTyped'
  BY <1>0, <1>1 DEF JobTyped, Making
<1>3. CameraTyped'
  BY <1>0, CamerasStay DEF usb
<1>4. Camera'
  BY <1>0, <1>1 DEF Camera
<1>5. SourceInv' /\ HandedInv' /\ SteadyInv'
  BY <1>0, <1>1, <1>4 DEF SourceInv, HandedInv, SteadyInv, Handing, Making
<1> QED BY <1>1, <1>2, <1>3, <1>5 DEF ImportersInv

LEMMA GetsPreviews == ASSUME ImportersInv, get_previews_for PROVE ImportersInv'
<1>0. /\ job.pc = "preview" /\ Calls /\ listed' = listed /\ Camera /\ JobTyped /\ JobRecord
      /\ m_camera # NoCamera /\ m_camera.path = job.source /\ job.handed = <<>> /\ CameraTyped
      /\ job.files \in Seq(CardFile)
  BY DEF get_previews_for, ImportersInv, SourceInv, HandedInv, Making, JobTyped
<1>1. /\ CameraTyped' /\ m_camera' = m_camera /\ steady' \in BOOLEAN
  BY <1>0, Called
<1>2. /\ JobRecord' /\ SameJob /\ job'.folders = job.folders /\ job'.pc \in {"idle", "preview", "crashed"}
      /\ job'.files \in Seq(CardFile)
  <2>1. CASE job.files = <<>>
    <3>1. job' = [job EXCEPT !.pc = "idle"]
      BY <2>1 DEF get_previews_for
    <3> QED BY <1>0, <3>1 DEF JobRecord, SameJob
  <2>2. CASE job.files # <<>> /\ Answers
    <3>1. job' = [job EXCEPT !.files = Tail(job.files)]
      BY <2>2 DEF get_previews_for
    <3>2. Tail(job.files) \in Seq(CardFile)
      BY <1>0, <2>2
    <3> QED BY <1>0, <3>1, <3>2 DEF JobRecord, SameJob
  <2>3. CASE job.files # <<>> /\ ~Answers
    <3>1. job' = [job EXCEPT !.pc = "crashed"]
      BY <2>3 DEF get_previews_for
    <3> QED BY <1>0, <3>1 DEF JobRecord, SameJob
  <2> QED BY <2>1, <2>2, <2>3
<1>3. JobTyped'
  BY <1>0, <1>1, <1>2 DEF JobTyped, SameJob, Making, Usual
<1>4. Camera' /\ job'.source = job.source /\ job'.handed = <<>>
  BY <1>0, <1>2 DEF Camera, SameJob
<1>5. SourceInv' /\ HandedInv' /\ SteadyInv'
  BY <1>0, <1>1, <1>2, <1>4 DEF SourceInv, HandedInv, SteadyInv, Handing, Making
<1> QED BY <1>1, <1>2, <1>3, <1>5 DEF ImportersInv

LEMMA DoesImport == ASSUME ImportersInv, do_import PROVE ImportersInv'
<1>0. /\ job.pc = "folders" /\ job.folders = <<>> /\ Camera /\ JobTyped /\ JobRecord /\ job.handed = <<>>
      /\ CameraTyped /\ m_camera # NoCamera /\ m_camera.path = job.source
      /\ UNCHANGED <<usb, cameras, listed, steady>> /\ (Goes("download") \/ Goes("thrown"))
  BY DEF do_import, ImportersInv, SourceInv, HandedInv, Making
<1>1. PICK pc \in {"download", "thrown"} : Goes(pc)
  BY <1>0
<1>2. JobRecord' /\ SameJob /\ job'.pc = pc /\ job'.files = job.files /\ job'.folders = job.folders
  BY <1>0, <1>1, GoesTo
<1>3. JobTyped'
  BY <1>0, <1>2 DEF JobTyped, SameJob, Making
<1>4. CameraTyped' /\ m_camera' = m_camera
  BY <1>0, CamerasStay DEF usb, cameras
<1>5. Camera' /\ job'.source = job.source /\ job'.handed = <<>>
  BY <1>0, <1>2 DEF Camera, SameJob
<1>6. SourceInv' /\ HandedInv'
  <2>1. SourceInv'
    BY <1>0, <1>1, <1>2, <1>4, <1>5 DEF SourceInv, Making
  <2>2. HandedInv'
    BY <1>5 DEF HandedInv, AllCopied
  <2> QED BY <2>1, <2>2
<1>7. SteadyInv'
  <2> SUFFICES ASSUME steady' PROVE SteadyInv'
    BY DEF SteadyInv
  <2>1. m_camera.made /\ Names(job.files) \o FilesIn(<<>>) = Whole
    BY <1>0 DEF ImportersInv, SteadyInv
  <2>2. FilesIn(<<>>) = <<>>
    <3>1. [i \in DOMAIN <<>> |-> <<>>[i].files] = <<>>
      OBVIOUS
    <3> QED BY <3>1 DEF FilesIn, FlattenSeq
  <2>3. Names(job.files) \in Seq(STRING)
    BY <1>0, NamesTyped DEF JobTyped
  <2>4. Names(job.files) = Whole
    BY <2>1, <2>2, <2>3, ConcatEmptySeq
  <2>5. <<>> \o Names(job.files) = Names(job.files)
    BY <2>3, ConcatEmptySeq
  <2>6. Whole' = Whole
    BY <1>4 DEF Whole
  <2> QED BY <1>1, <1>2, <1>4, <1>5, <2>1, <2>4, <2>5, <2>6 DEF SteadyInv
<1> QED BY <1>2, <1>3, <1>4, <1>6, <1>7 DEF ImportersInv

\* A file that is left out, of which nothing or no whole copy is there.
LEMMA LeftOut ==
  ASSUME ImportersInv, job.pc = "download", job.files # <<>>, NotGiven \/ NotSaved(Head(job.files))
  PROVE  /\ CameraTyped' /\ m_camera' = m_camera /\ steady' = FALSE
         /\ JobRecord' /\ job'.pc = "download" /\ job'.what = job.what /\ job'.source = job.source
         /\ job'.folders = job.folders /\ job'.files = Tail(job.files)
         /\ job'.handed = job.handed /\ AllCopied'
<1> DEFINE n == Head(job.files).name
<1>0. JobRecord /\ Camera /\ AllCopied /\ (steady => m_camera.made)
  BY DEF ImportersInv, SourceInv, HandedInv, Making, Handing, SteadyInv
<1>1. CASE NotGiven
  <2>1. CameraTyped' /\ m_camera' = m_camera /\ steady' \in BOOLEAN /\ (steady' => steady /\ Unheld(m_camera))
    BY <1>1, Called DEF NotGiven
  <2>2. steady' = FALSE
    BY <1>0, <1>1, <2>1 DEF NotGiven, Answers
  <2>3. job' = [job EXCEPT !.files = Tail(job.files)]
    BY <1>1 DEF NotGiven
  <2>4. /\ JobRecord' /\ job'.pc = job.pc /\ SameJob /\ job'.folders = job.folders
        /\ job'.files = Tail(job.files)
    BY <1>0, <2>3 DEF JobRecord, SameJob
  <2>5. AllCopied'
    BY <1>0, <2>1, <2>4 DEF AllCopied, Copy, SameJob
  <2> QED BY <2>1, <2>2, <2>4, <2>5 DEF SameJob
<1>2. CASE NotSaved(Head(job.files))
  <2>1. CameraTyped' /\ m_camera' = m_camera /\ steady' = FALSE
    BY <1>2, CamerasStay DEF NotSaved, ImportersInv, usb, cameras
  <2>2. PICK lost \in SUBSET {n} :
          job' = [job EXCEPT !.files = Tail(job.files), !.copies = Restrict(job.copies, DOMAIN job.copies \ lost),
                             !.unsaved = job.unsaved \cup {n}]
    BY <1>2 DEF NotSaved
  <2> DEFINE cs == Restrict(job.copies, DOMAIN job.copies \ lost)
             us == job.unsaved \cup {n}
  <2>3. job' = [job EXCEPT !.files = Tail(job.files), !.copies = cs, !.unsaved = us]
    BY <2>2
  <2>4. DOMAIN cs = DOMAIN job.copies \ lost /\ \A x \in DOMAIN cs : cs[x] = job.copies[x]
    BY DEF Restrict
  <2>5. lost \subseteq us /\ job.unsaved \subseteq us
    OBVIOUS
  <2> HIDE DEF n, cs, us
  <2>6. /\ JobRecord' /\ job'.pc = job.pc /\ job'.what = job.what /\ job'.source = job.source
        /\ job'.folders = job.folders /\ job'.files = Tail(job.files) /\ job'.handed = job.handed
        /\ job'.copies = cs /\ job'.unsaved = us
    BY <1>0, <2>3 DEF JobRecord
  <2>7. AllCopied'
    <3>1. ASSUME NEW i \in DOMAIN job.handed
          PROVE  /\ job.handed[i] \in DOMAIN cs \cup us
                 /\ job.handed[i] \in DOMAIN cs => cs[job.handed[i]].model = m_camera.model
      <4>1. Copy(job.handed[i])
        BY <1>0 DEF AllCopied
      <4>2. job.handed[i] \in DOMAIN cs \cup us
        BY <2>4, <2>5, <4>1 DEF Copy
      <4> QED BY <2>4, <4>1, <4>2 DEF Copy
    <3> QED BY <2>1, <2>6, <3>1 DEF AllCopied, Copy
  <2> QED BY <2>1, <2>6, <2>7
<1> QED BY <1>1, <1>2

\* A file that is copied, in place of one of its name.
LEMMA IsDownloaded ==
  ASSUME ImportersInv, job.pc = "download", job.files # <<>>, Downloaded(Head(job.files))
  PROVE  /\ CameraTyped' /\ m_camera' = m_camera /\ steady' \in BOOLEAN /\ (steady' => steady)
         /\ JobRecord' /\ job'.pc = "download" /\ job'.what = job.what /\ job'.source = job.source
         /\ job'.folders = job.folders /\ job'.files = Tail(job.files)
         /\ job'.handed = Append(job.handed, Head(job.files).name) /\ job'.handed \in Seq(STRING)
         /\ AllCopied'
<1> DEFINE f == Head(job.files)
           n == f.name
           cs == Copied(job.copies, f)
           hs == Append(job.handed, n)
<1>0. /\ JobRecord /\ AllCopied /\ job.handed \in Seq(STRING)
      /\ job.files \in Seq(CardFile)
  BY DEF ImportersInv, SourceInv, HandedInv, Making, Handing, JobTyped
<1>1. CameraTyped' /\ m_camera' = m_camera /\ steady' \in BOOLEAN /\ (steady' => steady)
  BY Called DEF Downloaded
<1>2. n \in STRING
  <2>1. f \in CardFile
    BY <1>0
  <2> QED BY <2>1 DEF CardFile
<1>3. job' = [job EXCEPT !.files = Tail(job.files), !.copies = cs, !.handed = hs]
  BY DEF Downloaded
<1>4. /\ DOMAIN cs = {n} \cup DOMAIN job.copies /\ cs[n].model = m_camera.model
      /\ \A x \in DOMAIN job.copies : x # n => cs[x] = job.copies[x]
  BY DEF Copied
<1> HIDE DEF f, n, cs
<1>5. hs \in Seq(STRING) /\ \A i \in DOMAIN hs : hs[i] = n \/ \E j \in DOMAIN job.handed : hs[i] = job.handed[j]
  BY <1>0, <1>2
<1> HIDE DEF hs
<1>6. /\ JobRecord' /\ job'.pc = job.pc /\ job'.what = job.what /\ job'.source = job.source
      /\ job'.folders = job.folders /\ job'.files = Tail(job.files) /\ job'.handed = hs
      /\ job'.copies = cs /\ job'.unsaved = job.unsaved
  BY <1>0, <1>3 DEF JobRecord
<1>7. AllCopied'
  <2>1. ASSUME NEW i \in DOMAIN hs
        PROVE  /\ hs[i] \in DOMAIN cs \cup job.unsaved
               /\ hs[i] \in DOMAIN cs => cs[hs[i]].model = m_camera.model
    <3>1. CASE hs[i] = n
      BY <1>4, <3>1
    <3>2. CASE hs[i] # n
      <4>1. PICK j \in DOMAIN job.handed : hs[i] = job.handed[j]
        BY <1>5, <3>2
      <4>2. Copy(hs[i])
        BY <1>0, <4>1 DEF AllCopied
      <4> QED BY <1>4, <3>2, <4>2 DEF Copy
    <3> QED BY <3>1, <3>2
  <2> QED BY <1>1, <1>6, <2>1 DEF AllCopied, Copy
<1> QED BY <1>1, <1>5, <1>6, <1>7 DEF hs, n, f

LEMMA Downloads == ASSUME ImportersInv, download_file PROVE ImportersInv'
<1> DEFINE f == Head(job.files)
<1>0. /\ job.pc = "download" /\ job.files # <<>> /\ listed' = listed /\ Camera /\ JobTyped
      /\ m_camera # NoCamera /\ m_camera.path = job.source
      /\ job.files \in Seq(CardFile) /\ job.handed \in Seq(STRING)
      /\ Downloaded(f) \/ NotGiven \/ NotSaved(f)
  BY DEF download_file, ImportersInv, SourceInv, Making, JobTyped
<1>1. /\ CameraTyped' /\ m_camera' = m_camera /\ steady' \in BOOLEAN
      /\ JobRecord' /\ job'.pc = "download" /\ job'.what = job.what /\ job'.source = job.source
      /\ job'.folders = job.folders /\ job'.files = Tail(job.files) /\ job'.handed \in Seq(STRING)
      /\ AllCopied'
      /\ (steady' => steady /\ job'.handed = Append(job.handed, f.name))
  <2>1. CASE Downloaded(f)
    BY <1>0, <2>1, IsDownloaded
  <2>2. CASE NotGiven \/ NotSaved(f)
    BY <1>0, <2>2, LeftOut
  <2> QED BY <1>0, <2>1, <2>2
<1>2. Tail(job.files) \in Seq(CardFile)
  BY <1>0
<1>3. f.name \in STRING
  <2>1. f \in CardFile
    BY <1>0
  <2> QED BY <2>1 DEF CardFile
<1> HIDE DEF f
<1>7. JobTyped'
  BY <1>0, <1>1, <1>2 DEF JobTyped
<1>8. Camera'
  BY <1>0, <1>1 DEF Camera
<1>9. SourceInv' /\ HandedInv'
  BY <1>0, <1>1, <1>8 DEF SourceInv, HandedInv, Handing, Making
<1>10. SteadyInv'
  <2> SUFFICES ASSUME steady' PROVE SteadyInv'
    BY DEF SteadyInv
  <2>1. m_camera.made /\ job.handed \o Names(job.files) = Whole
    BY <1>0, <1>1 DEF ImportersInv, SteadyInv
  <2>2. job'.handed = Append(job.handed, f.name)
    BY <1>1
  <2> DEFINE names == Names(job.files)
             a == job.handed
             n == f.name
  <2>3. names \in Seq(STRING) /\ names # <<>> /\ Head(names) = n /\ Tail(names) = Names(Tail(job.files))
    BY <1>0, NamesTyped, NamesRest DEF f
  <2>4. a \in Seq(STRING) /\ n \in STRING
    BY <1>0, <1>3
  <2> HIDE DEF names, a, n
  <2>5. Append(a, n) \o Tail(names) = a \o names
    <3>1. Append(a, n) = a \o <<n>> /\ <<n>> \in Seq(STRING)
      <4>1. Append(a, n) = a \o <<n>>
        BY <2>4, AppendIsConcat
      <4>2. <<n>> \in Seq(STRING)
        BY <2>4, SeqSingle
      <4> QED BY <4>1, <4>2
    <3>2. names = <<n>> \o Tail(names) /\ Tail(names) \in Seq(STRING)
      <4>1. Tail(names) \in Seq(STRING) /\ Len(names) = Len(Tail(names)) + 1 /\ Len(names) \in Nat
            /\ \A i \in 1..Len(Tail(names)) : Tail(names)[i] = names[i + 1]
        BY <2>3, HeadTailProperties
      <4> DEFINE t == Tail(names)
                 o == <<n>>
                 r == o \o t
      <4>2. o \in Seq(STRING) /\ t \in Seq(STRING) /\ Len(o) = 1 /\ o[1] = n
        <5>1. o \in Seq(STRING)
          BY <2>4, SeqSingle
        <5>2. t \in Seq(STRING)
          BY <4>1
        <5>3. Len(o) = 1 /\ o[1] = n
          OBVIOUS
        <5> QED BY <5>1, <5>2, <5>3
      <4>3. Len(names) = Len(t) + 1 /\ Len(t) \in Nat /\ (\A i \in 1..Len(t) : t[i] = names[i + 1]) /\ names[1] = n
        BY <2>3, <4>1
      <4> HIDE DEF t, o
      <4>4. r \in Seq(STRING) /\ Joined(r, o, t)
        BY <4>2, Joins
      <4> HIDE DEF r
      <4>5. Len(r) = Len(names)
        BY <4>2, <4>3, <4>4 DEF Joined
      <4>6. ASSUME NEW i \in 1..Len(names) PROVE names[i] = r[i]
        <5>1. CASE i = 1
          BY <4>2, <4>3, <4>4, <4>5, <5>1 DEF Joined
        <5>2. CASE i # 1
          <6>1. PICK j \in 1..Len(t) : j = i - 1
            BY <4>3, <5>2
          <6>2. r[i] = t[j]
            BY <4>2, <4>4, <4>5, <5>2, <6>1 DEF Joined
          <6>3. t[j] = names[i]
            <7>1. j + 1 = i
              BY <6>1
            <7> QED BY <4>3, <7>1
          <6> QED BY <6>2, <6>3
        <5> QED BY <5>1, <5>2
      <4>7. names = r
        BY <2>3, <4>4, <4>5, <4>6, SeqEqual
      <4> QED BY <4>1, <4>7 DEF r, o, t
    <3>3. Associative(STRING)
      BY Associates
    <3> DEFINE t == Tail(names)
               o == <<n>>
    <3>4. a \in Seq(STRING) /\ o \in Seq(STRING) /\ t \in Seq(STRING) /\ names = o \o t
          /\ Append(a, n) = a \o o
      BY <2>4, <3>1, <3>2
    <3> HIDE DEF t, o
    <3>5. (a \o o) \o t = a \o (o \o t)
      BY <3>3, <3>4 DEF Associative
    <3>6. Append(a, n) \o t = a \o names
      BY <3>4, <3>5
    <3> QED BY <3>6 DEF t
  <2>6. job'.handed \o Names(job'.files) = Whole
    BY <1>1, <2>1, <2>2, <2>3, <2>5 DEF names, a, n
  <2>7. Whole' = Whole
    BY <1>1 DEF Whole
  <2> QED BY <1>1, <2>1, <2>6, <2>7 DEF SteadyInv
<1> QED BY <1>1, <1>7, <1>9, <1>10 DEF ImportersInv

LEMMA HandsOver == ASSUME ImportersInv, importer PROVE ImportersInv'
<1>0. /\ job.pc = "download" /\ job.files = <<>> /\ Camera /\ JobTyped /\ JobRecord
      /\ CameraTyped /\ m_camera # NoCamera /\ m_camera.path = job.source /\ Goes("imported")
      /\ UNCHANGED <<usb, cameras, listed, steady>>
  BY DEF importer, ImportersInv, SourceInv, Making
<1>1. JobRecord' /\ SameJob /\ job'.pc = "imported" /\ job'.files = job.files /\ job'.folders = job.folders
  BY <1>0, GoesTo
<1>2. JobTyped'
  BY <1>0, <1>1 DEF JobTyped, SameJob, Usual
<1>3. CameraTyped' /\ m_camera' = m_camera
  BY <1>0, CamerasStay DEF usb, cameras
<1>4. /\ Camera' /\ job'.source = job.source /\ job'.handed = job.handed /\ job'.copies = job.copies
      /\ job'.unsaved = job.unsaved
  BY <1>0, <1>1 DEF Camera, SameJob
<1>5. SourceInv' /\ HandedInv'
  <2>1. AllCopied'
    BY <1>0, <1>3, <1>4 DEF ImportersInv, HandedInv, Handing, AllCopied, Copy
  <2> QED BY <1>0, <1>1, <1>3, <1>4, <2>1 DEF SourceInv, HandedInv, Handing, Making
<1>6. SteadyInv'
  <2> SUFFICES ASSUME steady' PROVE SteadyInv'
    BY DEF SteadyInv
  <2>1. m_camera.made /\ job.handed \o Names(<<>>) = Whole
    BY <1>0 DEF ImportersInv, SteadyInv
  <2>2. Names(<<>>) = <<>>
    BY DEF Names
  <2>3. job.handed = Whole
    BY <1>0, <2>1, <2>2, ConcatEmptySeq DEF JobTyped
  <2>4. Whole' = Whole
    BY <1>3 DEF Whole
  <2> QED BY <1>1, <1>4, <2>3, <2>4 DEF SteadyInv
<1> QED BY <1>1, <1>2, <1>3, <1>5, <1>6 DEF ImportersInv

LEMMA ImportersInductive == ASSUME ImportersInv, [ImportersNext]_importers PROVE ImportersInv'
<1>1. CASE UNCHANGED importers
  <2>1. UNCHANGED <<plugged, steady, cameras, job, listed>>
    BY <1>1 DEF importers, usb
  <2> QED BY <2>1, UsbStep DEF ImportersInv, JobTyped, CameraTyped
<1>2. CASE ImportersNext
  BY <1>2, Changes, OpensDialog, ClosesDialog, SelectsCamera, SelectsDirectory, Imports, EnsuresOpen, ListsRoot,
     ProcessesFolder, ListsSource, GetsPreviews, DoesImport, Downloads, HandsOver DEF ImportersNext
<1> QED BY <1>1, <1>2

LEMMA ImportersStarts == ASSUME ImportersInit PROVE ImportersInv
<1>1. job = NoJob /\ m_camera = NoCamera /\ devices = <<>> /\ steady = FALSE
      /\ plugged \in [Port -> Model \cup {NoModel}]
  BY DEF ImportersInit
<1>2. /\ job.pc = "closed" /\ job.what = "list" /\ job.source = NoModel /\ job.folders = <<>>
      /\ job.files = <<>> /\ job.handed = <<>> /\ JobRecord
  BY <1>1 DEF NoJob, JobRecord
<1>3. JobTyped
  <2>1. steady \in BOOLEAN
    BY <1>1
  <2> QED BY <1>2, <2>1 DEF JobTyped, Usual
<1>4. CameraTyped
  <2>1. Range(devices) = {}
    BY <1>1 DEF Range
  <2>2. /\ m_camera = [path |-> m_camera.path, model |-> m_camera.model, made |-> m_camera.made]
        /\ m_camera.made \in BOOLEAN
    BY <1>1 DEF NoCamera
  <2> QED BY <1>1, <2>1, <2>2 DEF CameraTyped
<1>5. Camera
  BY <1>2, ImportersAssumption DEF Camera
<1>6. SourceInv /\ HandedInv /\ SteadyInv
  BY <1>1, <1>2, <1>5 DEF SourceInv, HandedInv, SteadyInv, Handing, Making
<1> QED BY <1>2, <1>3, <1>4, <1>6 DEF ImportersInv

LEMMA ImportersSafe == ASSUME ImportersInv PROVE HandsOverSource
<1>1. ASSUME job.pc = "imported", job.source \notin DOMAIN Directory
      PROVE  /\ \A i \in DOMAIN job.handed :
                  /\ job.handed[i] \in DOMAIN job.copies \cup job.unsaved
                  /\ job.handed[i] \in DOMAIN job.copies => \E d \in Range(devices) : d.path = job.source /\ d.model = job.copies[job.handed[i]].model
             /\ steady => job.handed = Whole
  <2>1. Camera /\ m_camera # NoCamera /\ m_camera.path = job.source
    BY <1>1 DEF Camera, ImportersInv, SourceInv
  <2>2. PICK d \in Range(devices) : d.path = job.source /\ d.model = m_camera.model
    BY <2>1 DEF ImportersInv, CameraTyped, Known
  <2>3. AllCopied
    BY <1>1, <2>1 DEF ImportersInv, HandedInv, Handing
  <2>4. steady => job.handed = Whole
    BY <1>1, <2>1 DEF ImportersInv, SteadyInv
  <2> QED BY <2>2, <2>3, <2>4 DEF AllCopied, Copy
<1>2. ASSUME job.pc = "imported", job.source \in DOMAIN Directory
      PROVE  \A i \in DOMAIN listed : listed[i] \in Range(job.handed)
  <2>1. listed = list_directory(job.source) /\ job.handed = Directory[job.source]
    BY <1>2 DEF ImportersInv, SourceInv, Camera, import_directory
  <2>2. listed \in Seq(Range(job.handed))
    BY <1>2, <2>1, Listing
  <2> QED BY <2>2
<1> QED BY <1>1, <1>2 DEF HandsOverSource, Whole, FilesIn

THEOREM ImportersHandsOverSource == ImportersSpec => []HandsOverSource
<1>1. ImportersInit => ImportersInv
  BY ImportersStarts
<1>2. ImportersInv /\ [ImportersNext]_importers => ImportersInv'
  BY ImportersInductive
<1>3. ImportersInv => HandsOverSource
  BY ImportersSafe
<1> QED BY <1>1, <1>2, <1>3, PTL DEF ImportersSpec
-----------------------------------------------------------------------------
(* UFRaw: the nodes of the elements that are not read yet.               *)

Value == {"good", "bad", "empty"}
Node == [node : {"element", "text", "end", "blank"}, tag : Tags, deep : BOOLEAN, value : Value]

\* What is read for an element when each has a text, or a blank, of its own.
Own == in_lines \/ \A i \in DOMAIN xml : xml[i].text # "empty"
SeenOf(e) == IF e.text = "empty" /\ in_lines THEN "bad" ELSE e.text
Sets(i, t) == xml[i].tag = t /\ ~xml[i].nested /\ Keeps(t, xml[i].text)

Elements == Len(xml)
NodesFrom(k) == [i \in 1..(Elements - k) |-> Nodes(xml[k + i], in_lines)]
Unread(k) == FlattenSeq(NodesFrom(k))

\* The last of the first k elements that sets t, or that there is none.
SetUpTo(k, t) ==
  \/ m_settings[t] = "none" /\ \A i \in 1..k : ~Sets(i, t)
  \/ \E i \in 1..k : /\ Sets(i, t) /\ m_settings[t] = SeenOf(xml[i])
                     /\ \A j \in 1..k : j > i => ~Sets(j, t)

Passed(p) == \A j \in 1..Len(p) : p[j].node # "element"
Parts == Seq(Node)

\* So many elements were handled; of the last, nodes that are passed over
\* may be left.
Reading(k, p) ==
  /\ reader = p \o Unread(k) /\ Passed(p)
  /\ \A t \in Taken : SetUpTo(k, t)

UfrawTyped ==
  /\ xml \in Seq(XmlElement) /\ in_lines \in BOOLEAN
  /\ m_settings \in [Taken -> Value \cup {"none"}] /\ m_hasSettings \in BOOLEAN
  /\ reader \in Seq(Node)

UfrawInv ==
  /\ UfrawTyped
  /\ parsing \in {"root", "reading", "stopped", "ended"}
  /\ m_hasSettings = (\E t \in Setting : m_settings[t] # "none")
  /\ parsing \in {"root", "stopped"} => ~m_hasSettings
  /\ Own /\ parsing \in {"root", "reading"} => \E k \in 0..Elements, p \in Parts : Reading(k, p)
  /\ Own /\ parsing = "ended" => \A t \in Taken : SetUpTo(Elements, t)

\* The nodes of an element.
LEMMA NodesOf ==
  ASSUME NEW e \in XmlElement, NEW lines \in BOOLEAN
  PROVE  /\ Nodes(e, lines) \in Seq(Node) /\ Len(Nodes(e, lines)) >= 1
         /\ Nodes(e, lines)[1] = [node |-> "element", tag |-> e.tag, deep |-> e.nested, value |-> "empty"]
         /\ \A j \in 2..Len(Nodes(e, lines)) : Nodes(e, lines)[j].node # "element"
         /\ lines \/ e.text # "empty" =>
              /\ Len(Nodes(e, lines)) >= 2
              /\ Nodes(e, lines)[2].value = IF e.text = "empty" THEN "bad" ELSE e.text
<1>0. e.tag \in Tags /\ e.text \in Value /\ e.nested \in BOOLEAN
  BY DEF XmlElement, Value
<1> DEFINE a == [node |-> "element", tag |-> e.tag, deep |-> e.nested, value |-> "empty"]
           b == [node |-> "text", tag |-> e.tag, deep |-> TRUE, value |-> e.text]
           c == [node |-> "end", tag |-> e.tag, deep |-> e.nested, value |-> "empty"]
           d == [node |-> "blank", tag |-> e.tag, deep |-> TRUE, value |-> "bad"]
<1>1. a \in Node /\ b \in Node /\ c \in Node /\ d \in Node
  BY <1>0 DEF Node, Value
<1>2. /\ a.node = "element" /\ b.node # "element" /\ c.node # "element" /\ d.node # "element"
      /\ b.value = e.text /\ d.value = "bad"
  OBVIOUS
<1>3. Nodes(e, lines) = <<a>> \o (IF e.text = "empty" THEN <<>> ELSE <<b, c>>) \o (IF lines THEN <<d>> ELSE <<>>)
  BY DEF Nodes
<1>4. a = [node |-> "element", tag |-> e.tag, deep |-> e.nested, value |-> "empty"]
  OBVIOUS
<1> HIDE DEF a, b, c, d
<1>5. Nodes(e, lines) = IF e.text = "empty" THEN IF lines THEN <<a, d>> ELSE <<a>>
                        ELSE IF lines THEN <<a, b, c, d>> ELSE <<a, b, c>>
  BY <1>1, <1>3, SMTT(20)
<1>6. CASE e.text = "empty" /\ lines
  <2> DEFINE s == Nodes(e, lines)
  <2>1. s = <<a, d>>
    BY <1>5, <1>6
  <2> HIDE DEF s
  <2>2. s \in Seq(Node) /\ Len(s) = 2 /\ s[1] = a /\ s[2] = d
    BY <1>1, <2>1
  <2>3. \A j \in 2..Len(s) : s[j].node # "element"
    BY <1>2, <2>2
  <2>4. s[2].value = IF e.text = "empty" THEN "bad" ELSE e.text
    BY <1>2, <1>6, <2>2
  <2> QED BY <1>4, <2>2, <2>3, <2>4 DEF s
<1>7. CASE e.text = "empty" /\ ~lines
  <2>1. Nodes(e, lines) = <<a>>
    BY <1>5, <1>7
  <2> QED BY <1>1, <1>2, <1>4, <1>7, <2>1
<1>8. CASE e.text # "empty" /\ lines
  <2> DEFINE s == Nodes(e, lines)
  <2>1. s = <<a, b, c, d>>
    BY <1>5, <1>8
  <2> HIDE DEF s
  <2>2. s \in Seq(Node) /\ Len(s) = 4 /\ s[1] = a /\ s[2] = b /\ s[3] = c /\ s[4] = d
    BY <1>1, <2>1
  <2>3. \A j \in 2..Len(s) : s[j].node # "element"
    BY <1>2, <2>2
  <2>4. s[2].value = IF e.text = "empty" THEN "bad" ELSE e.text
    BY <1>2, <1>8, <2>2
  <2> QED BY <1>4, <2>2, <2>3, <2>4 DEF s
<1>9. CASE e.text # "empty" /\ ~lines
  <2>1. Nodes(e, lines) = <<a, b, c>>
    BY <1>5, <1>9
  <2> QED BY <1>1, <1>2, <1>4, <1>9, <2>1
<1> QED BY <1>6, <1>7, <1>8, <1>9

\* What is unread begins with the nodes of the next element.
LEMMA UnreadIs ==
  ASSUME xml \in Seq(XmlElement), in_lines \in BOOLEAN, NEW k \in 0..Elements
  PROVE  /\ Unread(k) \in Seq(Node)
         /\ k = Elements => Unread(k) = <<>>
         /\ k < Elements => Unread(k) = Nodes(xml[k + 1], in_lines) \o Unread(k + 1)
<1>1. Elements \in Nat /\ \A i \in 1..Elements : xml[i] \in XmlElement
  BY DEF Elements
<1>2. ASSUME NEW j \in 0..Elements
      PROVE  NodesFrom(j) \in Seq(Seq(Node)) /\ Len(NodesFrom(j)) = Elements - j
  <2>1. Elements - j \in Nat
    BY <1>1
  <2>2. ASSUME NEW i \in 1..(Elements - j) PROVE Nodes(xml[j + i], in_lines) \in Seq(Node)
    <3>1. j + i \in 1..Elements
      BY <1>1
    <3> QED BY <1>1, <3>1, NodesOf
  <2>3. NodesFrom(j) \in [1..(Elements - j) -> Seq(Node)]
    BY <2>2 DEF NodesFrom
  <2> QED BY <2>1, <2>3
<1>3. Unread(k) \in Seq(Node)
  BY <1>2, FlattenType DEF Unread
<1>4. ASSUME k = Elements PROVE Unread(k) = <<>>
  <2>1. NodesFrom(k) = <<>>
    BY <1>1, <1>2, <1>4
  <2> QED BY <2>1 DEF Unread, FlattenSeq
<1>5. ASSUME k < Elements PROVE Unread(k) = Nodes(xml[k + 1], in_lines) \o Unread(k + 1)
  <2> DEFINE ss == NodesFrom(k)
             rest == NodesFrom(k + 1)
  <2>1. k + 1 \in 0..Elements
    BY <1>1, <1>5
  <2>2. ss \in Seq(Seq(Node)) /\ Len(ss) = Elements - k /\ rest \in Seq(Seq(Node)) /\ Len(rest) = Elements - (k + 1)
    BY <1>2, <2>1
  <2>3. \A i \in 1..(Elements - k) : ss[i] = Nodes(xml[k + i], in_lines)
    BY DEF NodesFrom
  <2>4. \A i \in 1..(Elements - (k + 1)) : rest[i] = Nodes(xml[(k + 1) + i], in_lines)
    BY DEF NodesFrom
  <2> HIDE DEF ss, rest
  <2>5. ss # <<>> /\ Head(ss) = Nodes(xml[k + 1], in_lines)
    BY <1>1, <1>5, <2>2, <2>3
  <2> DEFINE t == Tail(ss)
  <2>6. t \in Seq(Seq(Node)) /\ Len(t) = Len(ss) - 1 /\ \A i \in 1..Len(t) : t[i] = ss[i + 1]
    BY <2>2, <2>5, HeadTailProperties
  <2> HIDE DEF t
  <2>7. Len(t) = Len(rest)
    BY <1>1, <2>2, <2>6
  <2>8. ASSUME NEW i \in 1..Len(t) PROVE t[i] = rest[i]
    <3>1. i + 1 \in 1..(Elements - k) /\ i \in 1..(Elements - (k + 1)) /\ k + (i + 1) = (k + 1) + i
      BY <1>1, <1>5, <2>2, <2>6
    <3>2. t[i] = Nodes(xml[k + (i + 1)], in_lines)
      BY <2>3, <2>6, <3>1
    <3>3. rest[i] = Nodes(xml[(k + 1) + i], in_lines)
      BY <2>4, <3>1
    <3> QED BY <3>1, <3>2, <3>3
  <2>9. t = rest
    BY <2>2, <2>6, <2>7, <2>8, SeqEqual
  <2>10. FlattenSeq(ss) = Head(ss) \o FlattenSeq(t)
    BY <2>2, <2>5, FlattenCons DEF t
  <2> QED BY <2>5, <2>9, <2>10 DEF Unread, ss, rest
<1> QED BY <1>3, <1>4, <1>5

LEMMA ReaderTyped ==
  ASSUME UfrawTyped, NEW n, reader # <<>>, n = Head(reader)
  PROVE  n \in Node /\ Tail(reader) \in Seq(Node)
BY DEF UfrawTyped

\* A setting that is not well formed sets nothing, a name what it is.
LEMMA SettingSet ==
  ASSUME UfrawInv, process_setting
  PROVE  /\ UfrawTyped' /\ m_hasSettings' = (\E t \in Setting : m_settings'[t] # "none")
         /\ UNCHANGED <<xml, in_lines, version, parsing>>
<1> DEFINE n == Head(reader)
           v == getPropContent
<1>0. /\ UfrawTyped /\ reader # <<>> /\ n.tag \in Taken /\ UNCHANGED <<xml, in_lines, version, parsing>>
      /\ m_settings' = (IF Keeps(n.tag, v) THEN [m_settings EXCEPT ![n.tag] = v] ELSE m_settings)
      /\ m_hasSettings' = (m_hasSettings \/ (n.tag \in Setting /\ v = "good"))
      /\ reader' = IF Len(reader) > 1 THEN Tail(Tail(reader)) ELSE <<>>
      /\ m_hasSettings = (\E t \in Setting : m_settings[t] # "none")
  BY DEF process_setting, UfrawInv
<1>1. reader' \in Seq(Node)
  <2>1. CASE Len(reader) > 1
    <3>1. Tail(reader) \in Seq(Node) /\ Len(Tail(reader)) = Len(reader) - 1 /\ Len(reader) \in Nat
      BY <1>0, HeadTailProperties DEF UfrawTyped
    <3>2. Tail(reader) # <<>>
      <4> DEFINE t == Tail(reader)
      <4>1. t \in Seq(Node) /\ Len(t) = Len(reader) - 1 /\ Len(reader) \in Nat
        BY <3>1
      <4> DEFINE l == Len(reader)
      <4>2. Len(t) = l - 1 /\ l \in Nat /\ l > 1
        BY <2>1, <4>1
      <4> HIDE DEF t, l
      <4>3. Len(t) # 0
        BY <4>2
      <4>4. t # <<>>
        BY <4>3
      <4> QED BY <4>4 DEF t
    <3> QED BY <1>0, <2>1, <3>1, <3>2
  <2> QED BY <1>0, <2>1
<1>2. v \in Value
  <2>1. CASE Len(reader) > 1
    <3>1. reader[2] \in Node
      BY <1>0, <2>1 DEF UfrawTyped
    <3> QED BY <2>1, <3>1 DEF getPropContent, Node
  <2> QED BY <2>1 DEF getPropContent, Value
<1>3. n.tag \in Setting => (Keeps(n.tag, v) <=> v = "good")
  BY DEF Keeps, Setting, Text
<1>4. Setting \subseteq Taken
  BY DEF Setting, Taken, Tags
<1> HIDE DEF n, v
<1>5. m_settings' \in [Taken -> Value \cup {"none"}]
  BY <1>0, <1>2 DEF UfrawTyped
<1>6. m_hasSettings' = (\E t \in Setting : m_settings'[t] # "none")
  <2>1. CASE n.tag \in Setting
    BY <1>0, <1>3, <1>4, <2>1 DEF UfrawTyped
  <2>2. CASE n.tag \notin Setting
    BY <1>0, <1>4, <2>2 DEF UfrawTyped
  <2> QED BY <2>1, <2>2
<1> QED BY <1>0, <1>1, <1>5, <1>6 DEF UfrawTyped

\* What was set up to an element stays when nothing is set by the next.
LEMMA NotSetMore ==
  ASSUME NEW k \in Nat, NEW t, SetUpTo(k, t), m_settings'[t] = m_settings[t], UNCHANGED <<xml, in_lines>>, ~Sets(k + 1, t)
  PROVE  SetUpTo(k + 1, t)'
<1>1. \A i \in 1..(k + 1) : i \in 1..k \/ i = k + 1
  OBVIOUS
<1>2. \A i : Sets(i, t)' <=> Sets(i, t)
  BY DEF Sets, Keeps
<1>3. \A i : SeenOf(xml[i])' = SeenOf(xml[i])
  BY DEF SeenOf
<1>4. CASE m_settings[t] = "none" /\ \A i \in 1..k : ~Sets(i, t)
  BY <1>1, <1>2, <1>4 DEF SetUpTo
<1>5. ASSUME NEW i \in 1..k, Sets(i, t), m_settings[t] = SeenOf(xml[i]), \A j \in 1..k : j > i => ~Sets(j, t)
      PROVE  SetUpTo(k + 1, t)'
  <2>1. i \in 1..(k + 1)
    OBVIOUS
  <2>2. \A j \in 1..(k + 1) : j > i => ~Sets(j, t)
    BY <1>1, <1>5
  <2> QED BY <1>2, <1>3, <1>5, <2>1, <2>2 DEF SetUpTo
<1> QED BY <1>4, <1>5 DEF SetUpTo

\* It is what the next sets, when it sets it.
LEMMA SetMore ==
  ASSUME NEW k \in Nat, NEW t, m_settings'[t] = SeenOf(xml[k + 1]), UNCHANGED <<xml, in_lines>>, Sets(k + 1, t)
  PROVE  SetUpTo(k + 1, t)'
<1>1. \A i : Sets(i, t)' <=> Sets(i, t)
  BY DEF Sets, Keeps
<1>2. SeenOf(xml[k + 1])' = SeenOf(xml[k + 1])
  BY DEF SeenOf
<1>3. k + 1 \in 1..(k + 1) /\ \A j \in 1..(k + 1) : ~(j > k + 1)
  OBVIOUS
<1> QED BY <1>1, <1>2, <1>3 DEF SetUpTo

\* The state of the reader, of the next step.
LEMMA ReadingNext ==
  ASSUME NEW k \in 0..Elements, NEW p \in Parts, UNCHANGED <<xml, in_lines>>,
         reader' = p \o Unread(k), Passed(p), \A t \in Taken : SetUpTo(k, t)'
  PROVE  k \in 0..Elements' /\ Reading(k, p)'
<1>1. Unread(k)' = Unread(k) /\ Elements' = Elements
  BY DEF Unread, NodesFrom, Elements
<1> QED BY <1>1 DEF Reading, Passed

\* An element is taken when all before are, with its text or blank.
LEMMA TakesNext ==
  ASSUME UfrawInv, Own, parsing = "reading", reader # <<>>, NEW k \in 0..Elements, NEW p \in Parts, Reading(k, p)
  PROVE  \/ /\ Head(reader).node # "element" /\ p # <<>> /\ Tail(p) \in Parts /\ Passed(Tail(p))
            /\ Tail(reader) = Tail(p) \o Unread(k)
         \/ /\ k + 1 \in 0..Elements /\ xml[k + 1] \in XmlElement
            /\ Head(reader).node = "element" /\ Head(reader).tag = xml[k + 1].tag
            /\ Head(reader).deep = xml[k + 1].nested
            /\ getPropContent = SeenOf(xml[k + 1]) /\ Len(reader) > 1
            /\ \E q \in Parts : Passed(q) /\ Tail(reader) = q \o Unread(k + 1)
            /\ \E q \in Parts : Passed(q) /\ Tail(Tail(reader)) = q \o Unread(k + 1)
<1>0. /\ xml \in Seq(XmlElement) /\ in_lines \in BOOLEAN /\ reader = p \o Unread(k) /\ Passed(p)
      /\ p \in Seq(Node) /\ Unread(k) \in Seq(Node) /\ Elements \in Nat
  BY UnreadIs DEF UfrawInv, UfrawTyped, Reading, Parts, Elements
<1>1. CASE p # <<>>
  <2>1. Head(reader) = p[1] /\ Tail(reader) = Tail(p) \o Unread(k)
    BY <1>0, <1>1, HeadOfTwo
  <2>2. p[1].node # "element" /\ Tail(p) \in Seq(Node) /\ Len(Tail(p)) = Len(p) - 1 /\ Len(p) \in Nat
        /\ \A i \in 1..Len(Tail(p)) : Tail(p)[i] = p[i + 1]
    <3>1. Len(p) >= 1
      BY <1>0, <1>1
    <3> QED BY <1>0, <1>1, <3>1, HeadTailProperties DEF Passed
  <2>3. Passed(Tail(p))
    BY <1>0, <2>2 DEF Passed
  <2> QED BY <1>1, <2>1, <2>2, <2>3 DEF Parts
<1>2. CASE p = <<>>
  <2>1. reader = Unread(k)
    BY <1>0, <1>2, ConcatEmptySeq
  <2>2. k < Elements
    BY <1>0, <2>1, UnreadIs
  <2>3. k + 1 \in 0..Elements /\ xml[k + 1] \in XmlElement
    BY <1>0, <2>2 DEF Elements
  <2> DEFINE e == xml[k + 1]
             s == Nodes(e, in_lines)
             u == Unread(k + 1)
  <2>4. reader = s \o u /\ u \in Seq(Node)
    BY <1>0, <2>1, <2>2, <2>3, UnreadIs
  <2>5. in_lines \/ e.text # "empty"
    BY <1>0, <2>3 DEF Own, Elements
  <2>6. /\ s \in Seq(Node) /\ Len(s) >= 2
        /\ s[1].node = "element" /\ s[1].tag = e.tag /\ s[1].deep = e.nested
        /\ s[2].value = SeenOf(e) /\ \A j \in 2..Len(s) : s[j].node # "element"
    <3>1. e \in XmlElement
      BY <2>3
    <3> HIDE DEF e
    <3>2. /\ s \in Seq(Node)
          /\ s[1] = [node |-> "element", tag |-> e.tag, deep |-> e.nested, value |-> "empty"]
          /\ \A j \in 2..Len(s) : s[j].node # "element"
          /\ (in_lines \/ e.text # "empty" => Len(s) >= 2 /\ s[2].value = IF e.text = "empty" THEN "bad" ELSE e.text)
      BY <1>0, <3>1, NodesOf
    <3> HIDE DEF s
    <3>3. s[2].value = SeenOf(e) /\ Len(s) >= 2
      BY <2>5, <3>2 DEF SeenOf
    <3> QED BY <3>2, <3>3
  <2> HIDE DEF s, u, e
  <2>7. s # <<>> /\ Len(s) \in Nat
    BY <2>6
  <2>8. Head(reader) = s[1] /\ Tail(reader) = Tail(s) \o u /\ Len(reader) >= 2 /\ reader[2] = s[2] /\ reader \in Seq(Node)
    BY <2>4, <2>6, <2>7, HeadOfTwo
  <2> DEFINE q == Tail(s)
  <2>9. q \in Seq(Node) /\ Len(q) = Len(s) - 1 /\ \A i \in 1..Len(q) : q[i] = s[i + 1]
    BY <2>6, <2>7, HeadTailProperties
  <2>10. Passed(q) /\ q # <<>>
    <3>1. Len(q) >= 1
      BY <2>6, <2>7, <2>9
    <3>2. ASSUME NEW i \in 1..Len(q) PROVE q[i].node # "element"
      <4>1. i + 1 \in 2..Len(s)
        BY <2>7, <2>9
      <4> QED BY <2>6, <2>9, <4>1
    <3> HIDE DEF q
    <3>3. q # <<>>
      BY <3>1
    <3>4. Passed(q)
      BY <3>2 DEF Passed
    <3> QED BY <3>3, <3>4
  <2>11. Tail(reader) = q \o u
    BY <2>8
  <2> HIDE DEF q
  <2>12. Tail(Tail(reader)) = Tail(q) \o u
    <3> DEFINE r == Tail(reader)
    <3>1. r = q \o u
      BY <2>11
    <3> HIDE DEF r
    <3>2. Tail(r) = Tail(q) \o u
      BY <2>4, <2>9, <2>10, <3>1, HeadOfTwo
    <3> QED BY <3>2 DEF r
  <2>13. Tail(q) \in Seq(Node) /\ Passed(Tail(q))
    <3>1. Tail(q) \in Seq(Node) /\ Len(Tail(q)) = Len(q) - 1 /\ Len(q) \in Nat
          /\ \A i \in 1..Len(Tail(q)) : Tail(q)[i] = q[i + 1]
      BY <2>9, <2>10, HeadTailProperties
    <3> QED BY <2>10, <3>1 DEF Passed
  <2>14. getPropContent = SeenOf(e) /\ Len(reader) > 1
    <3>1. Len(reader) \in Nat
      BY <2>8
    <3> QED BY <2>6, <2>8, <3>1 DEF getPropContent
  <2>15. (\E o \in Parts : Passed(o) /\ Tail(reader) = o \o u) /\ \E o \in Parts : Passed(o) /\ Tail(Tail(reader)) = o \o u
    BY <2>9, <2>10, <2>11, <2>12, <2>13 DEF Parts
  <2> QED BY <2>3, <2>6, <2>8, <2>14, <2>15 DEF e, u
<1> QED BY <1>1, <1>2

LEMMA ReadsRoot == ASSUME UfrawInv, read_root PROVE UfrawInv'
<1>1. /\ parsing = "root" /\ parsing' = (IF version = "5" THEN "stopped" ELSE "reading")
      /\ UNCHANGED <<xml, in_lines, version, reader, m_settings, m_hasSettings>>
  BY DEF read_root
<1>2. UfrawTyped'
  BY <1>1 DEF UfrawInv, UfrawTyped
<1>3. ASSUME Own', parsing' \in {"root", "reading"}
      PROVE  \E k \in 0..Elements', p \in Parts' : Reading(k, p)'
  <2>1. PICK k \in 0..Elements, p \in Parts : Reading(k, p)
    BY <1>1, <1>3 DEF UfrawInv, Own
  <2>2. \A t \in Taken : SetUpTo(k, t)'
    BY <1>1, <2>1 DEF Reading, SetUpTo, Sets, SeenOf, Keeps
  <2> QED BY <1>1, <2>1, <2>2, ReadingNext DEF Reading, Parts
<1> QED BY <1>1, <1>2, <1>3 DEF UfrawInv

LEMMA EndsReading == ASSUME UfrawInv, ufraw_to_xmp_ends PROVE UfrawInv'
<1>1. /\ parsing = "reading" /\ reader = <<>> /\ parsing' = "ended"
      /\ UNCHANGED <<xml, in_lines, version, reader, m_settings, m_hasSettings>>
  BY DEF ufraw_to_xmp_ends
<1>2. UfrawTyped'
  BY <1>1 DEF UfrawInv, UfrawTyped
<1>3. ASSUME Own' PROVE \A t \in Taken : SetUpTo(Elements, t)'
  <2>1. PICK k \in 0..Elements, p \in Parts : Reading(k, p)
    BY <1>1, <1>3 DEF UfrawInv, Own
  <2>2. xml \in Seq(XmlElement) /\ in_lines \in BOOLEAN /\ Elements \in Nat
    BY DEF UfrawInv, UfrawTyped, Elements
  <2>3. Unread(k) \in Seq(Node) /\ p \in Seq(Node) /\ p \o Unread(k) = <<>>
    BY <1>1, <2>1, <2>2, UnreadIs DEF Reading, Parts
  <2>4. Unread(k) = <<>>
    <3>1. Joined(p \o Unread(k), p, Unread(k))
      BY <2>3, Joins
    <3>2. 0 = Len(p) + Len(Unread(k))
      BY <2>3, <3>1 DEF Joined
    <3>3. Len(Unread(k)) = 0
      BY <2>3, <3>2
    <3> QED BY <2>3, <3>3
  <2>5. k = Elements
    <3> SUFFICES ASSUME k < Elements PROVE FALSE
      BY <2>2
    <3>1. k + 1 \in 0..Elements /\ xml[k + 1] \in XmlElement
      BY <2>2 DEF Elements
    <3>2. Nodes(xml[k + 1], in_lines) \in Seq(Node) /\ Len(Nodes(xml[k + 1], in_lines)) >= 1
      BY <2>2, <3>1, NodesOf
    <3>3. Unread(k) = Nodes(xml[k + 1], in_lines) \o Unread(k + 1) /\ Unread(k + 1) \in Seq(Node)
      BY <2>2, <3>1, UnreadIs
    <3>4. Nodes(xml[k + 1], in_lines) # <<>>
      BY <3>2
    <3> QED BY <2>4, <3>2, <3>3, <3>4, HeadOfTwo
  <2>6. \A t \in Taken : SetUpTo(Elements, t)
    BY <2>1, <2>5 DEF Reading
  <2>7. Elements' = Elements
    BY <1>1 DEF Elements
  <2>8. ASSUME NEW t \in Taken PROVE SetUpTo(Elements, t)'
    <3>1. SetUpTo(Elements, t)
      BY <2>6
    <3> QED BY <1>1, <2>7, <3>1 DEF SetUpTo, Sets, SeenOf, Keeps
  <2> QED BY <2>8
<1> QED BY <1>1, <1>2, <1>3 DEF UfrawInv

LEMMA PassesOther == ASSUME UfrawInv, process_other PROVE UfrawInv'
<1>1. /\ parsing = "reading" /\ reader # <<>> /\ reader' = Tail(reader)
      /\ UNCHANGED <<xml, in_lines, version, parsing, m_settings, m_hasSettings>>
      /\ (Head(reader).node # "element" \/ Head(reader).deep \/ Head(reader).tag \notin Taken)
  BY DEF process_other
<1>2. UfrawTyped'
  BY <1>1 DEF UfrawInv, UfrawTyped
<1>3. ASSUME Own' PROVE \E k \in 0..Elements', p \in Parts' : Reading(k, p)'
  <2>0. Own
    BY <1>1, <1>3 DEF Own
  <2>1. PICK k \in 0..Elements, p \in Parts : Reading(k, p)
    BY <1>1, <2>0 DEF UfrawInv
  <2>2. CASE /\ p # <<>> /\ Tail(p) \in Parts /\ Passed(Tail(p))
             /\ Tail(reader) = Tail(p) \o Unread(k)
    <3>1. \A t \in Taken : SetUpTo(k, t)'
      BY <1>1, <2>1 DEF Reading, SetUpTo, Sets, SeenOf, Keeps
    <3> QED BY <1>1, <2>2, <3>1, ReadingNext DEF Parts
  <2>3. CASE /\ k + 1 \in 0..Elements /\ Head(reader).node = "element"
             /\ Head(reader).tag = xml[k + 1].tag /\ Head(reader).deep = xml[k + 1].nested
             /\ \E q \in Parts : Passed(q) /\ Tail(reader) = q \o Unread(k + 1)
    <3>1. \A t \in Taken : ~Sets(k + 1, t)
      BY <1>1, <2>3 DEF Sets
    <3>2. k \in Nat
      OBVIOUS
    <3>3. \A t \in Taken : SetUpTo(k + 1, t)'
      BY <1>1, <2>1, <3>1, <3>2, NotSetMore DEF Reading
    <3> QED BY <1>1, <2>3, <3>3, ReadingNext DEF Parts
  <2> QED BY <1>1, <2>0, <2>1, <2>2, <2>3, TakesNext
<1> QED BY <1>1, <1>2, <1>3 DEF UfrawInv

LEMMA ProcessesSetting == ASSUME UfrawInv, process_setting PROVE UfrawInv'
<1>1. /\ UfrawTyped' /\ m_hasSettings' = (\E t \in Setting : m_settings'[t] # "none")
      /\ UNCHANGED <<xml, in_lines, version, parsing>>
  BY SettingSet
<1>2. /\ parsing = "reading" /\ reader # <<>>
      /\ Head(reader).node = "element" /\ ~Head(reader).deep /\ Head(reader).tag \in Taken
      /\ m_settings' = (IF Keeps(Head(reader).tag, getPropContent)
                        THEN [m_settings EXCEPT ![Head(reader).tag] = getPropContent] ELSE m_settings)
      /\ (Len(reader) > 1 => reader' = Tail(Tail(reader)))
      /\ m_settings \in [Taken -> Value \cup {"none"}]
  BY DEF process_setting, UfrawInv, UfrawTyped
<1>3. ASSUME Own' PROVE \E k \in 0..Elements', p \in Parts' : Reading(k, p)'
  <2>0. Own
    BY <1>1, <1>3 DEF Own
  <2>1. PICK k \in 0..Elements, p \in Parts : Reading(k, p)
    BY <1>2, <2>0 DEF UfrawInv
  <2> DEFINE e == xml[k + 1]
  <2>2. /\ k + 1 \in 0..Elements /\ e \in XmlElement /\ Head(reader).tag = e.tag /\ Head(reader).deep = e.nested
        /\ getPropContent = SeenOf(e) /\ Len(reader) > 1
    BY <1>2, <2>0, <2>1, TakesNext
  <2>3. PICK q \in Parts : Passed(q) /\ Tail(Tail(reader)) = q \o Unread(k + 1)
    BY <1>2, <2>0, <2>1, TakesNext
  <2>4. Keeps(e.tag, getPropContent) <=> Keeps(e.tag, e.text)
    BY <2>2 DEF Keeps, SeenOf
  <2>5. ASSUME NEW t \in Taken PROVE SetUpTo(k + 1, t)'
    <3>0. k \in Nat /\ SetUpTo(k, t)
      BY <2>1 DEF Reading
    <3>1. CASE Sets(k + 1, t)
      <4>1. e.tag = t /\ Keeps(e.tag, e.text)
        BY <3>1 DEF Sets
      <4>2. m_settings'[t] = SeenOf(e)
        BY <1>2, <2>2, <2>4, <4>1
      <4> QED BY <1>1, <3>0, <3>1, <4>2, SetMore
    <3>2. CASE ~Sets(k + 1, t)
      <4>1. e.tag # t \/ ~Keeps(e.tag, e.text)
        BY <1>2, <2>2, <3>2 DEF Sets
      <4>2. m_settings'[t] = m_settings[t]
        BY <1>2, <2>2, <2>4, <4>1
      <4> QED BY <1>1, <3>0, <3>2, <4>2, NotSetMore
    <3> QED BY <3>1, <3>2
  <2> QED BY <1>1, <1>2, <2>2, <2>3, <2>5, ReadingNext DEF Parts
<1> QED BY <1>1, <1>2, <1>3 DEF UfrawInv

LEMMA UfrawInductive == ASSUME UfrawInv, [UfrawNext]_ufraw PROVE UfrawInv'
<1>1. CASE UNCHANGED ufraw
  <2>0. UNCHANGED <<xml, in_lines, version, reader, parsing, m_settings, m_hasSettings>>
    BY <1>1 DEF ufraw
  <2>1. UfrawTyped'
    BY <2>0 DEF UfrawInv, UfrawTyped
  <2>2. \A k, t : SetUpTo(k, t)' <=> SetUpTo(k, t)
    BY <2>0 DEF SetUpTo, Sets, SeenOf, Keeps
  <2>3. Elements' = Elements /\ (Own' <=> Own)
    BY <2>0 DEF Elements, Own
  <2>4. ASSUME NEW k \in 0..Elements, NEW p \in Parts, Reading(k, p)
        PROVE  \E j \in 0..Elements', q \in Parts' : Reading(j, q)'
    BY <2>0, <2>2, <2>4, ReadingNext DEF Reading, Parts
  <2>5. ASSUME Own', parsing' = "ended", NEW t \in Taken PROVE SetUpTo(Elements, t)'
    <3>1. SetUpTo(Elements, t)
      BY <2>0, <2>3, <2>5 DEF UfrawInv
    <3> QED BY <2>0, <2>3, <3>1 DEF SetUpTo, Sets, SeenOf, Keeps
  <2> QED BY <2>0, <2>1, <2>3, <2>4, <2>5 DEF UfrawInv
<1>2. CASE UfrawNext
  BY <1>2, ReadsRoot, EndsReading, PassesOther, ProcessesSetting DEF UfrawNext
<1> QED BY <1>1, <1>2

LEMMA UfrawStarts == ASSUME UfrawInit PROVE UfrawInv
<1>1. PICK n \in 0..MaxElements : xml \in [1..n -> XmlElement]
  BY DEF UfrawInit
<1>2. xml \in Seq(XmlElement) /\ in_lines \in BOOLEAN /\ Elements \in Nat
  BY <1>1, UfrawMetaAssumption DEF UfrawInit, Elements
<1>3. reader = Unread(0)
  <2>1. DOMAIN xml = 1..Elements /\ Elements - 0 = Elements /\ \A i \in 1..Elements : 0 + i = i
    BY <1>2 DEF Elements
  <2>2. [i \in DOMAIN xml |-> Nodes(xml[i], in_lines)] = NodesFrom(0)
    BY <2>1 DEF NodesFrom
  <2> QED BY <2>2 DEF UfrawInit, Unread
<1>4. 0 \in 0..Elements
  BY <1>2
<1>5. Unread(0) \in Seq(Node)
  BY <1>2, <1>4, UnreadIs
<1>6. <<>> \o Unread(0) = Unread(0) /\ <<>> \in Parts /\ Passed(<<>>)
  BY <1>5, ConcatEmptySeq DEF Parts, Passed
<1>7. m_settings = [t \in Taken |-> "none"] /\ m_hasSettings = FALSE /\ parsing = "root"
  BY DEF UfrawInit
<1>8. Setting \subseteq Taken
  BY DEF Setting, Taken, Tags
<1>9. \A t \in Taken : SetUpTo(0, t)
  BY <1>7 DEF SetUpTo
<1>10. Reading(0, <<>>)
  BY <1>3, <1>6, <1>9 DEF Reading
<1>11. UfrawTyped
  BY <1>2, <1>3, <1>5, <1>7 DEF UfrawTyped
<1> QED BY <1>4, <1>6, <1>7, <1>8, <1>10, <1>11 DEF UfrawInv

\* The last element that sets t, when it is at a place.
LEMMA LastSets ==
  ASSUME xml \in Seq(XmlElement), NEW t \in Taken, SetUpTo(Elements, t)
  PROVE  LET l == SelectLastInSeq(xml, LAMBDA e : e.tag = t /\ ~e.nested /\ Keeps(t, e.text))
         IN  m_settings[t] = IF l = 0 THEN "none" ELSE SeenOf(xml[l])
<1> DEFINE I == {i \in 1..Len(xml) : Sets(i, t)}
           l == SelectLastInSeq(xml, LAMBDA e : e.tag = t /\ ~e.nested /\ Keeps(t, e.text))
<1>1. l = IF I # {} THEN Max(I) ELSE 0
  BY DEF SelectLastInSeq, Sets
<1> HIDE DEF l
<1>2. ASSUME m_settings[t] = "none", \A i \in 1..Elements : ~Sets(i, t)
      PROVE  m_settings[t] = IF l = 0 THEN "none" ELSE SeenOf(xml[l])
  <2>1. I = {}
    BY <1>2 DEF Elements
  <2> HIDE DEF I
  <2>2. l = 0
    BY <1>1, <2>1
  <2> QED BY <1>2, <2>2
<1>3. ASSUME NEW i \in 1..Elements, Sets(i, t), m_settings[t] = SeenOf(xml[i]),
             \A j \in 1..Elements : j > i => ~Sets(j, t)
      PROVE  m_settings[t] = IF l = 0 THEN "none" ELSE SeenOf(xml[l])
  <2>1. i \in I /\ \A j \in I : i >= j
    BY <1>3 DEF Elements
  <2>2. \A m \in I : (\A j \in I : m >= j) => m = i
    BY <2>1
  <2> HIDE DEF I
  <2>3. Max(I) = i
    BY <2>1, <2>2 DEF Max
  <2>4. l = i /\ i # 0
    BY <1>1, <2>1, <2>3
  <2> QED BY <1>3, <2>4
<1>4. m_settings[t] = IF l = 0 THEN "none" ELSE SeenOf(xml[l])
  <2> DEFINE G == m_settings[t] = IF l = 0 THEN "none" ELSE SeenOf(xml[l])
  <2>1. (m_settings[t] = "none" /\ \A i \in 1..Elements : ~Sets(i, t)) => G
    BY <1>2
  <2>2. \A i \in 1..Elements : (/\ Sets(i, t) /\ m_settings[t] = SeenOf(xml[i])
                               /\ \A j \in 1..Elements : j > i => ~Sets(j, t)) => G
    BY <1>3
  <2> HIDE DEF G, I
  <2>3. G
    BY <2>1, <2>2 DEF SetUpTo
  <2> QED BY <2>3 DEF G
<1> QED BY <1>4 DEF l

LEMMA UfrawSafe == ASSUME UfrawInv PROVE LastValueIsSet
<1>1. ASSUME parsing = "ended", in_lines \/ \A i \in DOMAIN xml : xml[i].text # "empty", NEW t \in Taken
      PROVE  LET l == SelectLastInSeq(xml, LAMBDA e : e.tag = t /\ ~e.nested /\ Keeps(t, e.text))
             IN  m_settings[t] = IF l = 0 THEN "none" ELSE SeenOf(xml[l])
  <2>1. SetUpTo(Elements, t) /\ xml \in Seq(XmlElement)
    BY <1>1 DEF UfrawInv, UfrawTyped, Own
  <2> QED BY <2>1, LastSets
<1> QED BY <1>1 DEF LastValueIsSet, UfrawInv, SeenOf

THEOREM UfrawLastValueIsSet == UfrawSpec => []LastValueIsSet
<1>1. UfrawInit => UfrawInv
  BY UfrawStarts
<1>2. UfrawInv /\ [UfrawNext]_ufraw => UfrawInv'
  BY UfrawInductive
<1>3. UfrawInv => LastValueIsSet
  BY UfrawSafe
<1> QED BY <1>1, <1>2, <1>3, PTL DEF UfrawSpec
=============================================================================
