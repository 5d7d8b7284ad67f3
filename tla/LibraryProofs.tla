---------------------------- MODULE LibraryProofs -----------------------------
(***************************************************************************)
(* What holds of the library database for any folders, bundles and         *)
(* keywords, whichever statements fail and wherever the program ends; and  *)
(* of a catalog's making and its labels, for any number of starts, labels  *)
(* and transactions.                                                       *)
(***************************************************************************)
EXTENDS LibraryDb, Catalog, SequenceLemmas, TLAPS

Importing == loc.bundle # NoRow
NoOwner(i) == \A f \in Files, p \in Part : files[f].fs[p] # i

\* What the running command is about.
StageInv ==
  /\ pc = "idle" => loc = Started
  /\ pc # "dead"
  /\ pc \in {"fsfile", "row", "link", "sidecar"} => Importing
  /\ pc \in {"idle", "bundle", "block"} => ~Importing
  /\ pc = "bundle" => loc.cur = 0
  /\ pc = "bundle" \/ Importing => loc.folder \in FolderRow /\ folders[loc.folder] # NoRow

\* The file being imported, once it has a row.
CurInv ==
  Importing =>
    /\ loc.part = "main" => pc \in {"fsfile", "row", "keyword", "assign"}
    /\ loc.part # "main" => pc \in {"fsfile", "link", "sidecar"} /\ loc.part \in Parts[loc.bundle]
    /\ loc.part = "main" /\ pc \in {"fsfile", "row"} => loc.cur = 0
    /\ ~(loc.part = "main" /\ pc \in {"fsfile", "row"}) =>
         loc.cur \in Files /\ files[loc.cur].name = loc.bundle

\* An fsfile just added waits for the file that will own it.
FsInv ==
  /\ pc \in {"row", "link"} =>
       /\ loc.fs \in FsRow /\ fsfiles[loc.fs] = <<loc.bundle, loc.part>>
       /\ NoOwner(loc.fs)
  /\ pc = "sidecar" => loc.fs # 0 /\ files[loc.cur].fs[loc.part] = loc.fs

\* Which parts of the bundle the file already has.
PartInv ==
  Importing /\ loc.cur \in Files /\ files[loc.cur].name = loc.bundle
    /\ ~(loc.part = "main" /\ pc \in {"fsfile", "row"}) =>
    /\ loc.part # "main" /\ pc \in {"fsfile", "link"} => files[loc.cur].fs[loc.part] = 0
    /\ loc.part \in {"main", "xmp"} => files[loc.cur].fs["jpeg"] = 0
    /\ loc.part = "main" => files[loc.cur].fs["xmp"] = 0
    /\ loc.part = "jpeg" =>
         IF "xmp" \in Parts[loc.bundle]
         THEN <<loc.cur, files[loc.cur].fs["xmp"], "xmp">> \in sidecars
         ELSE files[loc.cur].fs["xmp"] = 0

RowInv == BundleRows /\ FsFileOwned /\ FilesHaveFolder /\ SidecarsKnown

LibraryIInv == TypeOK /\ StageInv /\ CurInv /\ FsInv /\ PartInv /\ RowInv /\ KeywordsUnique /\ BundleWhole
-----------------------------------------------------------------------------
LEMMA LibraryInitIInv == Init => LibraryIInv
<1> SUFFICES ASSUME Init PROVE LibraryIInv
  OBVIOUS
<1> USE DbAssumption, NoRowAssumption DEF Init, Started, Files
<1>1. TypeOK
  BY DEF TypeOK, Locals, FolderRow, FileRow, FsRow, KeywordRow, Part
<1>2. StageInv /\ CurInv /\ FsInv /\ PartInv
  BY DEF StageInv, CurInv, FsInv, PartInv, Importing
<1>3. RowInv /\ KeywordsUnique /\ BundleWhole
  BY DEF RowInv, BundleRows, FsFileOwned, FilesHaveFolder, SidecarsKnown, KeywordsUnique, BundleWhole
<1>4. QED
  BY <1>1, <1>2, <1>3 DEF LibraryIInv

LEMMA TypeStep == LibraryIInv /\ [Next]_vars => TypeOK'
<1> SUFFICES ASSUME LibraryIInv, [Next]_vars PROVE TypeOK'
  OBVIOUS
<1> USE DbAssumption, NoRowAssumption DEF LibraryIInv, TypeOK, Locals, FileRec, Part, tables
<1>1. CASE cmd_create_folder
  BY <1>1 DEF cmd_create_folder, add_folder, NextId
<1>2. ASSUME NEW d \in FolderRow, cmd_delete_folder(d) PROVE TypeOK'
  BY <1>2 DEF cmd_delete_folder
<1>3. ASSUME NEW p \in Path, cmd_import_files(p) PROVE TypeOK'
  BY <1>3 DEF cmd_import_files, add_folder, NextId, Started
<1>4. ASSUME NEW word \in Keyword, cmd_add_keyword(word) PROVE TypeOK'
  BY <1>4 DEF cmd_add_keyword, make_keyword, NextId
<1>5. ASSUME NEW g \in FileRow, NEW d \in FolderRow, cmd_move_file_to_folder(g, d) PROVE TypeOK'
  <2>1. files[g] \in FileRec
    BY <1>5 DEF cmd_move_file_to_folder, Files
  <2>2. [files[g] EXCEPT !.parent = d] \in FileRec
    BY <2>1
  <2>3. files' = [files EXCEPT ![g] = [files[g] EXCEPT !.parent = d]]
    BY <1>5 DEF cmd_move_file_to_folder
  <2>4. QED
    BY <1>5, <2>2, <2>3 DEF cmd_move_file_to_folder
<1>6. ASSUME NEW g \in FileRow, NEW words \in SUBSET Keyword, cmd_set_keywords(g, words) PROVE TypeOK'
  BY <1>6 DEF cmd_set_keywords
<1>7. ASSUME NEW g \in FileRow, cmd_metadata(g) PROVE TypeOK'
  BY <1>7 DEF cmd_metadata
<1>8. ASSUME NEW b \in Bundle, next_bundle(b) PROVE TypeOK'
  BY <1>8 DEF next_bundle
<1>9. CASE last_bundle
  BY <1>9 DEF last_bundle, Finish, Started
<1>10. CASE add_fs_file
  <2>1. <<loc.bundle, loc.part>> \in Bundle \X Part
    BY <1>10 DEF add_fs_file, StageInv, Importing
  <2>2. QED
    BY <1>10, <2>1 DEF add_fs_file
<1>11. CASE insert_file
  <2> DEFINE row == [name |-> loc.bundle, parent |-> loc.folder,
                     fs |-> [p \in Part |-> IF p = "main" THEN loc.fs ELSE 0]]
  <2>1. loc.bundle \in Bundle /\ loc.folder \in FolderRow /\ loc.fs \in FsRow
    BY <1>11 DEF insert_file, StageInv, FsInv, Importing
  <2>2. row \in FileRec
    BY <2>1
  <2>3. Tags[loc.bundle] \in SUBSET Keyword
    BY <2>1
  <2>4. PICK f \in FileRow : /\ files' = [files EXCEPT ![f] = row]
                             /\ loc' = [loc EXCEPT !.cur = f, !.left = Tags[loc.bundle]]
                             /\ cut' = cut \ {f} /\ known' = known \cup {f}
    BY ONLY <1>11, Zenon DEF insert_file
  <2> HIDE DEF row
  <2>5. files' \in [FileRow -> FileRec \cup {NoRow}] /\ loc' \in Locals
    BY <2>2, <2>3, <2>4
  <2>6. QED
    BY <1>11, <2>4, <2>5 DEF insert_file
<1>12. CASE link_part
  <2>1. files[loc.cur] \in FileRec /\ loc.cur \in FileRow /\ loc.fs \in FsRow
    BY <1>12 DEF link_part, Files, CurInv, StageInv, Importing, FsInv
  <2>2. [files[loc.cur] EXCEPT !.fs[loc.part] = loc.fs] \in FileRec
    BY <2>1
  <2>3. files' = [files EXCEPT ![loc.cur] = [files[loc.cur] EXCEPT !.fs[loc.part] = loc.fs]]
    BY <1>12 DEF link_part
  <2>4. QED
    BY <1>12, <2>1, <2>2, <2>3 DEF link_part
<1>13. CASE add_sidecar_fsfile_to_bundle
  <2>1. loc.cur \in FileRow /\ loc.part \in {"xmp", "jpeg"} /\ loc.fs \in FsRow
    BY <1>13 DEF add_sidecar_fsfile_to_bundle, Files, CurInv, StageInv, Importing, FsInv
  <2>2. sidecars' \subseteq FileRow \X FsRow \X {"xmp", "jpeg"}
    BY <1>13, <2>1 DEF add_sidecar_fsfile_to_bundle
  <2>3. loc' \in Locals /\ pc' \in {"bundle", "fsfile"}
    BY <1>13 DEF add_sidecar_fsfile_to_bundle, NextPart, NextBundle, Started
  <2>4. QED
    BY <1>13, <2>2, <2>3 DEF add_sidecar_fsfile_to_bundle
<1>14. CASE next_keyword
  <2>1. PICK word \in loc.left, k \in KeywordRow :
          make_keyword(word, k) /\ loc' = [loc EXCEPT !.left = loc.left \ {word}, !.kw = k]
    BY ONLY <1>14, Zenon DEF next_keyword
  <2>2. keywords' \in [KeywordRow -> Keyword \cup {NoRow}] /\ missed' \subseteq Keyword
    <3>1. word \in Keyword
      BY <2>1
    <3> QED BY <2>1, <3>1 DEF make_keyword
  <2>3. loc' \in Locals
    BY <2>1
  <2>4. QED
    BY <1>14, <2>2, <2>3 DEF next_keyword
<1>15. CASE assign_keyword
  <2>1. <<loc.kw, loc.cur>> \in Nat \X Nat
    BY DEF KeywordRow, FileRow
  <2>2. QED
    BY <1>15, <2>1 DEF assign_keyword
<1>16. CASE end_keywords_import
  BY <1>16 DEF end_keywords_import, NextPart, NextBundle, Started
<1>17. CASE end_keywords_set
  BY <1>17 DEF end_keywords_set
<1>18. CASE get_metadata
  BY <1>18 DEF get_metadata, Finish, Started
<1>19. CASE statement_fails
  BY <1>19 DEF statement_fails, CutShort, NextBundle, Finish, Started
<1>20. CASE restart
  BY <1>20 DEF restart, CutShort, Finish, Started
<1>21. CASE UNCHANGED vars
  BY <1>21 DEF vars
<1>22. QED
  BY <1>1, <1>2, <1>3, <1>4, <1>5, <1>6, <1>7, <1>8, <1>9, <1>10, <1>11, <1>12, <1>13, <1>14, <1>15, <1>16, <1>17, <1>18, <1>19, <1>20, <1>21 DEF Next, Command, Statement

\* No file refers to an fsfile that is not there.
LEMMA FreeUnowned == LibraryIInv => \A i \in FsRow : fsfiles[i] = NoRow => NoOwner(i)
<1> SUFFICES ASSUME LibraryIInv, NEW i \in FsRow, fsfiles[i] = NoRow,
                    NEW f \in Files, NEW p \in Part, files[f].fs[p] = i
             PROVE  FALSE
  BY DEF NoOwner
<1>1. files[f] \in FileRec
  BY DEF LibraryIInv, TypeOK, Files
<1>2. <<files[f].name, p>> \in Bundle \X Part
  BY <1>1 DEF FileRec
<1>3. fsfiles[i] = <<files[f].name, p>>
  <2>1. files[f].fs[p] # 0
    BY DEF FsRow
  <2>2. BundleRows
    BY DEF LibraryIInv, RowInv
  <2>3. QED
    BY <2>1, <2>2 DEF BundleRows
<1>4. QED
  BY <1>2, <1>3, NoRowAssumption

LEMMA StageStep == LibraryIInv /\ [Next]_vars => StageInv'
<1> SUFFICES ASSUME LibraryIInv, [Next]_vars PROVE StageInv'
  OBVIOUS
<1> USE DbAssumption, NoRowAssumption DEF LibraryIInv, TypeOK, Locals, tables, Importing, StageInv
<1>1. CASE cmd_create_folder
  BY <1>1 DEF cmd_create_folder, add_folder, NextId
<1>2. ASSUME NEW d \in FolderRow, cmd_delete_folder(d) PROVE StageInv'
  BY <1>2 DEF cmd_delete_folder
<1>3. ASSUME NEW p \in Path, cmd_import_files(p) PROVE StageInv'
  BY <1>3 DEF cmd_import_files, add_folder, NextId, Started
<1>4. ASSUME NEW word \in Keyword, cmd_add_keyword(word) PROVE StageInv'
  BY <1>4 DEF cmd_add_keyword, make_keyword, NextId
<1>5. ASSUME NEW g \in FileRow, NEW d \in FolderRow, cmd_move_file_to_folder(g, d) PROVE StageInv'
  BY <1>5 DEF cmd_move_file_to_folder
<1>6. ASSUME NEW g \in FileRow, NEW words \in SUBSET Keyword, cmd_set_keywords(g, words) PROVE StageInv'
  BY <1>6 DEF cmd_set_keywords
<1>7. ASSUME NEW g \in FileRow, cmd_metadata(g) PROVE StageInv'
  BY <1>7 DEF cmd_metadata
<1>8. ASSUME NEW b \in Bundle, next_bundle(b) PROVE StageInv'
  BY <1>8 DEF next_bundle
<1>9. CASE last_bundle
  BY <1>9 DEF last_bundle, Finish, Started
<1>10. CASE add_fs_file
  BY <1>10 DEF add_fs_file, NextId
<1>11. CASE insert_file
  BY <1>11 DEF insert_file, NextId
<1>12. CASE link_part
  BY <1>12 DEF link_part
<1>13. CASE add_sidecar_fsfile_to_bundle
  BY <1>13 DEF add_sidecar_fsfile_to_bundle, NextPart, NextBundle, Started
<1>14. CASE next_keyword
  BY <1>14 DEF next_keyword, make_keyword, NextId
<1>15. CASE assign_keyword
  BY <1>15 DEF assign_keyword
<1>16. CASE end_keywords_import
  BY <1>16 DEF end_keywords_import, NextPart, NextBundle, Started
<1>17. CASE end_keywords_set
  BY <1>17 DEF end_keywords_set
<1>18. CASE get_metadata
  BY <1>18 DEF get_metadata, Finish, Started, RowInv, FilesHaveFolder, Files
<1>19. CASE statement_fails
  BY <1>19 DEF statement_fails, CutShort, NextBundle, Finish, Started
<1>20. CASE restart
  BY <1>20 DEF restart, CutShort, Finish, Started
<1>21. CASE UNCHANGED vars
  BY <1>21 DEF vars
<1>22. QED
  BY <1>1, <1>2, <1>3, <1>4, <1>5, <1>6, <1>7, <1>8, <1>9, <1>10, <1>11, <1>12, <1>13, <1>14, <1>15, <1>16, <1>17, <1>18, <1>19, <1>20, <1>21 DEF Next, Command, Statement

LEMMA CurStep == LibraryIInv /\ [Next]_vars => CurInv'
<1> SUFFICES ASSUME LibraryIInv, [Next]_vars PROVE CurInv'
  OBVIOUS
<1> USE DbAssumption, NoRowAssumption DEF LibraryIInv, TypeOK, Locals, FileRec, Part, tables, Importing, Files, StageInv, CurInv
<1>1. CASE cmd_create_folder
  BY <1>1 DEF cmd_create_folder, add_folder, NextId
<1>2. ASSUME NEW d \in FolderRow, cmd_delete_folder(d) PROVE CurInv'
  BY <1>2 DEF cmd_delete_folder
<1>3. ASSUME NEW p \in Path, cmd_import_files(p) PROVE CurInv'
  BY <1>3 DEF cmd_import_files, add_folder, NextId, Started
<1>4. ASSUME NEW word \in Keyword, cmd_add_keyword(word) PROVE CurInv'
  BY <1>4 DEF cmd_add_keyword, make_keyword, NextId
<1>5. ASSUME NEW g \in FileRow, NEW d \in FolderRow, cmd_move_file_to_folder(g, d) PROVE CurInv'
  BY <1>5 DEF cmd_move_file_to_folder
<1>6. ASSUME NEW g \in FileRow, NEW words \in SUBSET Keyword, cmd_set_keywords(g, words) PROVE CurInv'
  BY <1>6 DEF cmd_set_keywords
<1>7. ASSUME NEW g \in FileRow, cmd_metadata(g) PROVE CurInv'
  BY <1>7 DEF cmd_metadata
<1>8. ASSUME NEW b \in Bundle, next_bundle(b) PROVE CurInv'
  BY <1>8 DEF next_bundle
<1>9. CASE last_bundle
  BY <1>9 DEF last_bundle, Finish, Started
<1>10. CASE add_fs_file
  BY <1>10 DEF add_fs_file, NextId
<1>11. CASE insert_file
  BY <1>11 DEF insert_file, NextId
<1>12. CASE link_part
  BY <1>12 DEF link_part
<1>13. CASE add_sidecar_fsfile_to_bundle
  BY <1>13 DEF add_sidecar_fsfile_to_bundle, NextPart, NextBundle, Started
<1>14. CASE next_keyword
  BY <1>14 DEF next_keyword, make_keyword, NextId
<1>15. CASE assign_keyword
  BY <1>15 DEF assign_keyword
<1>16. CASE end_keywords_import
  BY <1>16 DEF end_keywords_import, NextPart, NextBundle, Started
<1>17. CASE end_keywords_set
  BY <1>17 DEF end_keywords_set
<1>18. CASE get_metadata
  BY <1>18 DEF get_metadata, Finish, Started
<1>19. CASE statement_fails
  BY <1>19 DEF statement_fails, CutShort, NextBundle, Finish, Started
<1>20. CASE restart
  BY <1>20 DEF restart, CutShort, Finish, Started
<1>21. CASE UNCHANGED vars
  BY <1>21 DEF vars
<1>22. QED
  BY <1>1, <1>2, <1>3, <1>4, <1>5, <1>6, <1>7, <1>8, <1>9, <1>10, <1>11, <1>12, <1>13, <1>14, <1>15, <1>16, <1>17, <1>18, <1>19, <1>20, <1>21 DEF Next, Command, Statement

LEMMA FsStep == LibraryIInv /\ [Next]_vars => FsInv'
<1> SUFFICES ASSUME LibraryIInv, [Next]_vars PROVE FsInv'
  OBVIOUS
<1> USE DbAssumption, NoRowAssumption DEF LibraryIInv, TypeOK, Locals, FileRec, Part, tables, Importing, Files, StageInv, CurInv, FsInv, RowInv, BundleRows, NoOwner
<1>1. CASE cmd_create_folder
  BY <1>1 DEF cmd_create_folder, add_folder, NextId
<1>2. ASSUME NEW d \in FolderRow, cmd_delete_folder(d) PROVE FsInv'
  BY <1>2 DEF cmd_delete_folder
<1>3. ASSUME NEW p \in Path, cmd_import_files(p) PROVE FsInv'
  BY <1>3 DEF cmd_import_files, add_folder, NextId, Started
<1>4. ASSUME NEW word \in Keyword, cmd_add_keyword(word) PROVE FsInv'
  BY <1>4 DEF cmd_add_keyword, make_keyword, NextId
<1>5. ASSUME NEW g \in FileRow, NEW d \in FolderRow, cmd_move_file_to_folder(g, d) PROVE FsInv'
  BY <1>5 DEF cmd_move_file_to_folder
<1>6. ASSUME NEW g \in FileRow, NEW words \in SUBSET Keyword, cmd_set_keywords(g, words) PROVE FsInv'
  BY <1>6 DEF cmd_set_keywords
<1>7. ASSUME NEW g \in FileRow, cmd_metadata(g) PROVE FsInv'
  BY <1>7 DEF cmd_metadata
<1>8. ASSUME NEW b \in Bundle, next_bundle(b) PROVE FsInv'
  BY <1>8 DEF next_bundle
<1>9. CASE last_bundle
  BY <1>9 DEF last_bundle, Finish, Started
<1>10. CASE add_fs_file
  <2>1. PICK i \in FsRow : /\ NextId(fsfiles, i)
                           /\ fsfiles' = [fsfiles EXCEPT ![i] = <<loc.bundle, loc.part>>]
                           /\ loc' = [loc EXCEPT !.fs = i]
    BY <1>10 DEF add_fs_file
  <2>2. fsfiles[i] = NoRow /\ i # 0
    BY <2>1 DEF NextId, FsRow
  <2>3. NoOwner(i)
    BY <2>2, FreeUnowned
  <2>4. QED
    BY <1>10, <2>1, <2>2, <2>3 DEF add_fs_file
<1>11. CASE insert_file
  BY <1>11 DEF insert_file, NextId
<1>12. CASE link_part
  <2>1. /\ loc.cur \in FileRow /\ files[loc.cur] \in FileRec /\ loc.part \in Part
        /\ loc.fs \in FsRow /\ loc.fs # 0
    BY <1>12 DEF link_part, FsRow
  <2>2. /\ files'[loc.cur] = [files[loc.cur] EXCEPT !.fs[loc.part] = loc.fs]
        /\ \A f \in FileRow \ {loc.cur} : files'[f] = files[f]
    BY <1>12, <2>1 DEF link_part
  <2>3. /\ files'[loc.cur].fs[loc.part] = loc.fs
        /\ \A p \in Part \ {loc.part} : files'[loc.cur].fs[p] = files[loc.cur].fs[p]
    BY <2>1, <2>2
  <2>4. QED
    BY <1>12, <2>1, <2>3 DEF link_part
<1>13. CASE add_sidecar_fsfile_to_bundle
  BY <1>13 DEF add_sidecar_fsfile_to_bundle, NextPart, NextBundle, Started
<1>14. CASE next_keyword
  BY <1>14 DEF next_keyword, make_keyword, NextId
<1>15. CASE assign_keyword
  BY <1>15 DEF assign_keyword
<1>16. CASE end_keywords_import
  BY <1>16 DEF end_keywords_import, NextPart, NextBundle, Started
<1>17. CASE end_keywords_set
  BY <1>17 DEF end_keywords_set
<1>18. CASE get_metadata
  BY <1>18 DEF get_metadata, Finish, Started
<1>19. CASE statement_fails
  BY <1>19 DEF statement_fails, CutShort, NextBundle, Finish, Started
<1>20. CASE restart
  BY <1>20 DEF restart, CutShort, Finish, Started
<1>21. CASE UNCHANGED vars
  BY <1>21 DEF vars
<1>22. QED
  BY <1>1, <1>2, <1>3, <1>4, <1>5, <1>6, <1>7, <1>8, <1>9, <1>10, <1>11, <1>12, <1>13, <1>14, <1>15, <1>16, <1>17, <1>18, <1>19, <1>20, <1>21 DEF Next, Command, Statement

LEMMA PartStep == LibraryIInv /\ [Next]_vars => PartInv'
<1> SUFFICES ASSUME LibraryIInv, [Next]_vars PROVE PartInv'
  OBVIOUS
<1> USE DbAssumption, NoRowAssumption DEF LibraryIInv, TypeOK, Locals, FileRec, Part, tables, Importing, Files, StageInv, CurInv, FsInv, PartInv
<1>1. CASE cmd_create_folder
  BY <1>1 DEF cmd_create_folder, add_folder, NextId
<1>2. ASSUME NEW d \in FolderRow, cmd_delete_folder(d) PROVE PartInv'
  BY <1>2 DEF cmd_delete_folder
<1>3. ASSUME NEW p \in Path, cmd_import_files(p) PROVE PartInv'
  BY <1>3 DEF cmd_import_files, add_folder, NextId, Started
<1>4. ASSUME NEW word \in Keyword, cmd_add_keyword(word) PROVE PartInv'
  BY <1>4 DEF cmd_add_keyword, make_keyword, NextId
<1>5. ASSUME NEW g \in FileRow, NEW d \in FolderRow, cmd_move_file_to_folder(g, d) PROVE PartInv'
  BY <1>5 DEF cmd_move_file_to_folder
<1>6. ASSUME NEW g \in FileRow, NEW words \in SUBSET Keyword, cmd_set_keywords(g, words) PROVE PartInv'
  BY <1>6 DEF cmd_set_keywords
<1>7. ASSUME NEW g \in FileRow, cmd_metadata(g) PROVE PartInv'
  BY <1>7 DEF cmd_metadata
<1>8. ASSUME NEW b \in Bundle, next_bundle(b) PROVE PartInv'
  BY <1>8 DEF next_bundle
<1>9. CASE last_bundle
  BY <1>9 DEF last_bundle, Finish, Started
<1>10. CASE add_fs_file
  BY <1>10 DEF add_fs_file, NextId
<1>11. CASE insert_file
  BY <1>11 DEF insert_file, NextId
<1>12. CASE link_part
  BY <1>12 DEF link_part
<1>13. CASE add_sidecar_fsfile_to_bundle
  BY <1>13 DEF add_sidecar_fsfile_to_bundle, NextPart, NextBundle, Started
<1>14. CASE next_keyword
  BY <1>14 DEF next_keyword, make_keyword, NextId
<1>15. CASE assign_keyword
  BY <1>15 DEF assign_keyword
<1>16. CASE end_keywords_import
  BY <1>16 DEF end_keywords_import, NextPart, NextBundle, Started
<1>17. CASE end_keywords_set
  BY <1>17 DEF end_keywords_set
<1>18. CASE get_metadata
  BY <1>18 DEF get_metadata, Finish, Started
<1>19. CASE statement_fails
  BY <1>19 DEF statement_fails, CutShort, NextBundle, Finish, Started
<1>20. CASE restart
  BY <1>20 DEF restart, CutShort, Finish, Started
<1>21. CASE UNCHANGED vars
  BY <1>21 DEF vars
<1>22. QED
  BY <1>1, <1>2, <1>3, <1>4, <1>5, <1>6, <1>7, <1>8, <1>9, <1>10, <1>11, <1>12, <1>13, <1>14, <1>15, <1>16, <1>17, <1>18, <1>19, <1>20, <1>21 DEF Next, Command, Statement

LEMMA BundleStep == LibraryIInv /\ [Next]_vars => BundleRows'
<1> SUFFICES ASSUME LibraryIInv, [Next]_vars PROVE BundleRows'
  OBVIOUS
<1> USE DbAssumption, NoRowAssumption DEF LibraryIInv, TypeOK, Locals, FileRec, Part, tables, Importing, Files, StageInv, CurInv, FsInv, RowInv, BundleRows, FsFileOwned, NoOwner
<1>1. CASE cmd_create_folder
  BY <1>1 DEF cmd_create_folder, add_folder, NextId
<1>2. ASSUME NEW d \in FolderRow, cmd_delete_folder(d) PROVE BundleRows'
  <2> SUFFICES ASSUME NEW f \in Files', NEW p \in Part, files'[f].fs[p] # 0
               PROVE  fsfiles'[files'[f].fs[p]] = <<files'[f].name, p>>
    OBVIOUS
  <2> DEFINE gone == {g \in Files : files[g].parent = d}
  <2>1. f \in Files /\ f \notin gone /\ files'[f] = files[f]
    BY <1>2 DEF cmd_delete_folder
  <2>2. files[f].fs[p] \in FsRow
    BY <2>1
  <2>3. ~ \E g \in gone, q \in Part : files[g].fs[q] = files[f].fs[p]
    BY <2>1
  <2>4. fsfiles'[files[f].fs[p]] = fsfiles[files[f].fs[p]]
    BY <1>2, <2>2, <2>3 DEF cmd_delete_folder
  <2>5. QED
    BY <2>1, <2>4
<1>3. ASSUME NEW p \in Path, cmd_import_files(p) PROVE BundleRows'
  BY <1>3 DEF cmd_import_files, add_folder, NextId, Started
<1>4. ASSUME NEW word \in Keyword, cmd_add_keyword(word) PROVE BundleRows'
  BY <1>4 DEF cmd_add_keyword, make_keyword, NextId
<1>5. ASSUME NEW g \in FileRow, NEW d \in FolderRow, cmd_move_file_to_folder(g, d) PROVE BundleRows'
  BY <1>5 DEF cmd_move_file_to_folder
<1>6. ASSUME NEW g \in FileRow, NEW words \in SUBSET Keyword, cmd_set_keywords(g, words) PROVE BundleRows'
  BY <1>6 DEF cmd_set_keywords
<1>7. ASSUME NEW g \in FileRow, cmd_metadata(g) PROVE BundleRows'
  BY <1>7 DEF cmd_metadata
<1>8. ASSUME NEW b \in Bundle, next_bundle(b) PROVE BundleRows'
  BY <1>8 DEF next_bundle
<1>9. CASE last_bundle
  BY <1>9 DEF last_bundle, Finish, Started
<1>10. CASE add_fs_file
  <2>1. PICK i \in FsRow : /\ NextId(fsfiles, i)
                           /\ fsfiles' = [fsfiles EXCEPT ![i] = <<loc.bundle, loc.part>>]
                           /\ loc' = [loc EXCEPT !.fs = i]
    BY <1>10 DEF add_fs_file
  <2>2. fsfiles[i] = NoRow /\ i # 0
    BY <2>1 DEF NextId, FsRow
  <2>3. \A f \in Files, p \in Part : files[f].fs[p] # i
    BY <2>2, FreeUnowned DEF NoOwner
  <2>4. files' = files
    BY <1>10 DEF add_fs_file
  <2>5. \A j \in FsRow \ {i} : fsfiles'[j] = fsfiles[j]
    BY <2>1
  <2>6. QED
    BY <2>3, <2>4, <2>5
<1>11. CASE insert_file
  BY <1>11 DEF insert_file, NextId
<1>12. CASE link_part
  BY <1>12 DEF link_part
<1>13. CASE add_sidecar_fsfile_to_bundle
  BY <1>13 DEF add_sidecar_fsfile_to_bundle, NextPart, NextBundle, Started
<1>14. CASE next_keyword
  BY <1>14 DEF next_keyword, make_keyword, NextId
<1>15. CASE assign_keyword
  BY <1>15 DEF assign_keyword
<1>16. CASE end_keywords_import
  BY <1>16 DEF end_keywords_import, NextPart, NextBundle, Started
<1>17. CASE end_keywords_set
  BY <1>17 DEF end_keywords_set
<1>18. CASE get_metadata
  BY <1>18 DEF get_metadata, Finish, Started
<1>19. CASE statement_fails
  BY <1>19 DEF statement_fails, CutShort, NextBundle, Finish, Started
<1>20. CASE restart
  BY <1>20 DEF restart, CutShort, Finish, Started
<1>21. CASE UNCHANGED vars
  BY <1>21 DEF vars
<1>22. QED
  BY <1>1, <1>2, <1>3, <1>4, <1>5, <1>6, <1>7, <1>8, <1>9, <1>10, <1>11, <1>12, <1>13, <1>14, <1>15, <1>16, <1>17, <1>18, <1>19, <1>20, <1>21 DEF Next, Command, Statement

LEMMA OwnedStep == LibraryIInv /\ [Next]_vars => FsFileOwned'
<1> SUFFICES ASSUME LibraryIInv, [Next]_vars PROVE FsFileOwned'
  OBVIOUS
<1> USE DbAssumption, NoRowAssumption DEF LibraryIInv, TypeOK, Locals, FileRec, Part, tables, Importing, Files, StageInv, CurInv, FsInv, RowInv, FsFileOwned, NoOwner
<1>1. CASE cmd_create_folder
  BY <1>1 DEF cmd_create_folder, add_folder, NextId
<1>2. ASSUME NEW d \in FolderRow, cmd_delete_folder(d) PROVE FsFileOwned'
  BY <1>2 DEF cmd_delete_folder
<1>3. ASSUME NEW p \in Path, cmd_import_files(p) PROVE FsFileOwned'
  BY <1>3 DEF cmd_import_files, add_folder, NextId, Started
<1>4. ASSUME NEW word \in Keyword, cmd_add_keyword(word) PROVE FsFileOwned'
  BY <1>4 DEF cmd_add_keyword, make_keyword, NextId
<1>5. ASSUME NEW g \in FileRow, NEW d \in FolderRow, cmd_move_file_to_folder(g, d) PROVE FsFileOwned'
  BY <1>5 DEF cmd_move_file_to_folder
<1>6. ASSUME NEW g \in FileRow, NEW words \in SUBSET Keyword, cmd_set_keywords(g, words) PROVE FsFileOwned'
  BY <1>6 DEF cmd_set_keywords
<1>7. ASSUME NEW g \in FileRow, cmd_metadata(g) PROVE FsFileOwned'
  BY <1>7 DEF cmd_metadata
<1>8. ASSUME NEW b \in Bundle, next_bundle(b) PROVE FsFileOwned'
  BY <1>8 DEF next_bundle
<1>9. CASE last_bundle
  BY <1>9 DEF last_bundle, Finish, Started
<1>10. CASE add_fs_file
  BY <1>10 DEF add_fs_file, NextId
<1>11. CASE insert_file
  BY <1>11 DEF insert_file, NextId
<1>12. CASE link_part
  BY <1>12 DEF link_part
<1>13. CASE add_sidecar_fsfile_to_bundle
  BY <1>13 DEF add_sidecar_fsfile_to_bundle, NextPart, NextBundle, Started
<1>14. CASE next_keyword
  BY <1>14 DEF next_keyword, make_keyword, NextId
<1>15. CASE assign_keyword
  BY <1>15 DEF assign_keyword
<1>16. CASE end_keywords_import
  BY <1>16 DEF end_keywords_import, NextPart, NextBundle, Started
<1>17. CASE end_keywords_set
  BY <1>17 DEF end_keywords_set
<1>18. CASE get_metadata
  BY <1>18 DEF get_metadata, Finish, Started
<1>19. CASE statement_fails
  BY <1>19 DEF statement_fails, CutShort, NextBundle, Finish, Started
<1>20. CASE restart
  BY <1>20 DEF restart, CutShort, Finish, Started
<1>21. CASE UNCHANGED vars
  BY <1>21 DEF vars
<1>22. QED
  BY <1>1, <1>2, <1>3, <1>4, <1>5, <1>6, <1>7, <1>8, <1>9, <1>10, <1>11, <1>12, <1>13, <1>14, <1>15, <1>16, <1>17, <1>18, <1>19, <1>20, <1>21 DEF Next, Command, Statement

LEMMA FolderStep == LibraryIInv /\ [Next]_vars => FilesHaveFolder'
<1> SUFFICES ASSUME LibraryIInv, [Next]_vars PROVE FilesHaveFolder'
  OBVIOUS
<1> USE DbAssumption, NoRowAssumption DEF LibraryIInv, TypeOK, Locals, FileRec, Part, tables, Importing, Files, StageInv, RowInv, FilesHaveFolder
<1>1. CASE cmd_create_folder
  BY <1>1 DEF cmd_create_folder, add_folder, NextId
<1>2. ASSUME NEW d \in FolderRow, cmd_delete_folder(d) PROVE FilesHaveFolder'
  BY <1>2 DEF cmd_delete_folder
<1>3. ASSUME NEW p \in Path, cmd_import_files(p) PROVE FilesHaveFolder'
  BY <1>3 DEF cmd_import_files, add_folder, NextId, Started
<1>4. ASSUME NEW word \in Keyword, cmd_add_keyword(word) PROVE FilesHaveFolder'
  BY <1>4 DEF cmd_add_keyword, make_keyword, NextId
<1>5. ASSUME NEW g \in FileRow, NEW d \in FolderRow, cmd_move_file_to_folder(g, d) PROVE FilesHaveFolder'
  BY <1>5 DEF cmd_move_file_to_folder
<1>6. ASSUME NEW g \in FileRow, NEW words \in SUBSET Keyword, cmd_set_keywords(g, words) PROVE FilesHaveFolder'
  BY <1>6 DEF cmd_set_keywords
<1>7. ASSUME NEW g \in FileRow, cmd_metadata(g) PROVE FilesHaveFolder'
  BY <1>7 DEF cmd_metadata
<1>8. ASSUME NEW b \in Bundle, next_bundle(b) PROVE FilesHaveFolder'
  BY <1>8 DEF next_bundle
<1>9. CASE last_bundle
  BY <1>9 DEF last_bundle, Finish, Started
<1>10. CASE add_fs_file
  BY <1>10 DEF add_fs_file, NextId
<1>11. CASE insert_file
  BY <1>11 DEF insert_file, NextId
<1>12. CASE link_part
  BY <1>12 DEF link_part
<1>13. CASE add_sidecar_fsfile_to_bundle
  BY <1>13 DEF add_sidecar_fsfile_to_bundle, NextPart, NextBundle, Started
<1>14. CASE next_keyword
  BY <1>14 DEF next_keyword, make_keyword, NextId
<1>15. CASE assign_keyword
  BY <1>15 DEF assign_keyword
<1>16. CASE end_keywords_import
  BY <1>16 DEF end_keywords_import, NextPart, NextBundle, Started
<1>17. CASE end_keywords_set
  BY <1>17 DEF end_keywords_set
<1>18. CASE get_metadata
  BY <1>18 DEF get_metadata, Finish, Started
<1>19. CASE statement_fails
  BY <1>19 DEF statement_fails, CutShort, NextBundle, Finish, Started
<1>20. CASE restart
  BY <1>20 DEF restart, CutShort, Finish, Started
<1>21. CASE UNCHANGED vars
  BY <1>21 DEF vars
<1>22. QED
  BY <1>1, <1>2, <1>3, <1>4, <1>5, <1>6, <1>7, <1>8, <1>9, <1>10, <1>11, <1>12, <1>13, <1>14, <1>15, <1>16, <1>17, <1>18, <1>19, <1>20, <1>21 DEF Next, Command, Statement

LEMMA SidecarStep == LibraryIInv /\ [Next]_vars => SidecarsKnown'
<1> SUFFICES ASSUME LibraryIInv, [Next]_vars PROVE SidecarsKnown'
  OBVIOUS
<1> USE DbAssumption, NoRowAssumption DEF LibraryIInv, TypeOK, Locals, FileRec, Part, tables, Importing, Files, StageInv, CurInv, FsInv, PartInv, RowInv, SidecarsKnown
<1>1. CASE cmd_create_folder
  BY <1>1 DEF cmd_create_folder, add_folder, NextId
<1>2. ASSUME NEW d \in FolderRow, cmd_delete_folder(d) PROVE SidecarsKnown'
  BY <1>2 DEF cmd_delete_folder
<1>3. ASSUME NEW p \in Path, cmd_import_files(p) PROVE SidecarsKnown'
  BY <1>3 DEF cmd_import_files, add_folder, NextId, Started
<1>4. ASSUME NEW word \in Keyword, cmd_add_keyword(word) PROVE SidecarsKnown'
  BY <1>4 DEF cmd_add_keyword, make_keyword, NextId
<1>5. ASSUME NEW g \in FileRow, NEW d \in FolderRow, cmd_move_file_to_folder(g, d) PROVE SidecarsKnown'
  BY <1>5 DEF cmd_move_file_to_folder
<1>6. ASSUME NEW g \in FileRow, NEW words \in SUBSET Keyword, cmd_set_keywords(g, words) PROVE SidecarsKnown'
  BY <1>6 DEF cmd_set_keywords
<1>7. ASSUME NEW g \in FileRow, cmd_metadata(g) PROVE SidecarsKnown'
  BY <1>7 DEF cmd_metadata
<1>8. ASSUME NEW b \in Bundle, next_bundle(b) PROVE SidecarsKnown'
  BY <1>8 DEF next_bundle
<1>9. CASE last_bundle
  BY <1>9 DEF last_bundle, Finish, Started
<1>10. CASE add_fs_file
  BY <1>10 DEF add_fs_file, NextId
<1>11. CASE insert_file
  <2> DEFINE row == [name |-> loc.bundle, parent |-> loc.folder,
                     fs |-> [p \in Part |-> IF p = "main" THEN loc.fs ELSE 0]]
  <2>1. PICK f \in FileRow : /\ NextId(files, f) /\ files' = [files EXCEPT ![f] = row]
                             /\ loc' = [loc EXCEPT !.cur = f, !.left = Tags[loc.bundle]]
                             /\ cut' = cut \ {f}
    BY ONLY <1>11, Zenon DEF insert_file
  <2>2. files[f] = NoRow
    BY <2>1 DEF NextId, FileRow
  <2>3. \A g \in FileRow \ {f} : files'[g] = files[g]
    BY <2>1
  <2>4. sidecars' = sidecars
    BY <1>11 DEF insert_file
  <2>5. QED
    BY <2>2, <2>3, <2>4
<1>12. CASE link_part
  <2>1. /\ loc.cur \in FileRow /\ files[loc.cur] \in FileRec /\ loc.part \in Part
        /\ loc.fs \in FsRow /\ loc.fs # 0
    BY <1>12 DEF link_part, FsRow
  <2>2. /\ files'[loc.cur] = [files[loc.cur] EXCEPT !.fs[loc.part] = loc.fs]
        /\ \A f \in FileRow \ {loc.cur} : files'[f] = files[f]
    BY <1>12, <2>1 DEF link_part
  <2>3. /\ files'[loc.cur].fs[loc.part] = loc.fs
        /\ \A p \in Part \ {loc.part} : files'[loc.cur].fs[p] = files[loc.cur].fs[p]
    BY <2>1, <2>2
  <2>4. sidecars' = sidecars /\ files[loc.cur].fs[loc.part] = 0
    BY <1>12 DEF link_part
  <2> SUFFICES ASSUME NEW s \in sidecars
               PROVE  s[1] \in Files' /\ files'[s[1]].fs[s[3]] = s[2]
    BY <2>4
  <2>5. /\ s[1] \in Files /\ files[s[1]].fs[s[3]] = s[2]
        /\ s[2] # 0 /\ s[3] \in Part
    BY DEF FsRow
  <2>6. files'[loc.cur] # NoRow
    BY <2>1, <2>2
  <2>7. CASE s[1] = loc.cur
    BY <2>1, <2>3, <2>4, <2>5, <2>6, <2>7
  <2>8. CASE s[1] # loc.cur
    BY <2>2, <2>5, <2>8
  <2>9. QED
    BY <2>7, <2>8
<1>13. CASE add_sidecar_fsfile_to_bundle
  BY <1>13 DEF add_sidecar_fsfile_to_bundle, NextPart, NextBundle, Started
<1>14. CASE next_keyword
  BY <1>14 DEF next_keyword, make_keyword, NextId
<1>15. CASE assign_keyword
  BY <1>15 DEF assign_keyword
<1>16. CASE end_keywords_import
  BY <1>16 DEF end_keywords_import, NextPart, NextBundle, Started
<1>17. CASE end_keywords_set
  BY <1>17 DEF end_keywords_set
<1>18. CASE get_metadata
  BY <1>18 DEF get_metadata, Finish, Started
<1>19. CASE statement_fails
  BY <1>19 DEF statement_fails, CutShort, NextBundle, Finish, Started
<1>20. CASE restart
  BY <1>20 DEF restart, CutShort, Finish, Started
<1>21. CASE UNCHANGED vars
  BY <1>21 DEF vars
<1>22. QED
  BY <1>1, <1>2, <1>3, <1>4, <1>5, <1>6, <1>7, <1>8, <1>9, <1>10, <1>11, <1>12, <1>13, <1>14, <1>15, <1>16, <1>17, <1>18, <1>19, <1>20, <1>21 DEF Next, Command, Statement

LEMMA KeywordStep == LibraryIInv /\ [Next]_vars => KeywordsUnique'
<1> SUFFICES ASSUME LibraryIInv, [Next]_vars PROVE KeywordsUnique'
  OBVIOUS
<1> USE DbAssumption, NoRowAssumption DEF LibraryIInv, TypeOK, tables, KeywordsUnique
<1>1. CASE cmd_create_folder
  BY <1>1 DEF cmd_create_folder, add_folder, NextId
<1>2. ASSUME NEW d \in FolderRow, cmd_delete_folder(d) PROVE KeywordsUnique'
  BY <1>2 DEF cmd_delete_folder
<1>3. ASSUME NEW p \in Path, cmd_import_files(p) PROVE KeywordsUnique'
  BY <1>3 DEF cmd_import_files, add_folder, NextId, Started
<1>4. ASSUME NEW word \in Keyword, cmd_add_keyword(word) PROVE KeywordsUnique'
  BY <1>4 DEF cmd_add_keyword, make_keyword, NextId
<1>5. ASSUME NEW g \in FileRow, NEW d \in FolderRow, cmd_move_file_to_folder(g, d) PROVE KeywordsUnique'
  BY <1>5 DEF cmd_move_file_to_folder
<1>6. ASSUME NEW g \in FileRow, NEW words \in SUBSET Keyword, cmd_set_keywords(g, words) PROVE KeywordsUnique'
  BY <1>6 DEF cmd_set_keywords
<1>7. ASSUME NEW g \in FileRow, cmd_metadata(g) PROVE KeywordsUnique'
  BY <1>7 DEF cmd_metadata
<1>8. ASSUME NEW b \in Bundle, next_bundle(b) PROVE KeywordsUnique'
  BY <1>8 DEF next_bundle
<1>9. CASE last_bundle
  BY <1>9 DEF last_bundle, Finish, Started
<1>10. CASE add_fs_file
  BY <1>10 DEF add_fs_file, NextId
<1>11. CASE insert_file
  BY <1>11 DEF insert_file, NextId
<1>12. CASE link_part
  BY <1>12 DEF link_part
<1>13. CASE add_sidecar_fsfile_to_bundle
  BY <1>13 DEF add_sidecar_fsfile_to_bundle, NextPart, NextBundle, Started
<1>14. CASE next_keyword
  BY <1>14 DEF next_keyword, make_keyword, NextId
<1>15. CASE assign_keyword
  BY <1>15 DEF assign_keyword
<1>16. CASE end_keywords_import
  BY <1>16 DEF end_keywords_import, NextPart, NextBundle, Started
<1>17. CASE end_keywords_set
  BY <1>17 DEF end_keywords_set
<1>18. CASE get_metadata
  BY <1>18 DEF get_metadata, Finish, Started
<1>19. CASE statement_fails
  BY <1>19 DEF statement_fails, CutShort, NextBundle, Finish, Started
<1>20. CASE restart
  BY <1>20 DEF restart, CutShort, Finish, Started
<1>21. CASE UNCHANGED vars
  BY <1>21 DEF vars
<1>22. QED
  BY <1>1, <1>2, <1>3, <1>4, <1>5, <1>6, <1>7, <1>8, <1>9, <1>10, <1>11, <1>12, <1>13, <1>14, <1>15, <1>16, <1>17, <1>18, <1>19, <1>20, <1>21 DEF Next, Command, Statement

LEMMA WholeStep == LibraryIInv /\ [Next]_vars => BundleWhole'
<1> SUFFICES ASSUME LibraryIInv, [Next]_vars PROVE BundleWhole'
  OBVIOUS
<1> USE DbAssumption, NoRowAssumption DEF LibraryIInv, TypeOK, Locals, FileRec, Part, tables, Importing, Files, StageInv, CurInv, FsInv, PartInv, BundleWhole
<1>1. CASE cmd_create_folder
  BY <1>1 DEF cmd_create_folder, add_folder, NextId
<1>2. ASSUME NEW d \in FolderRow, cmd_delete_folder(d) PROVE BundleWhole'
  <2>1. /\ UNCHANGED <<loc, cut>>
        /\ \A f \in FileRow : files'[f] # NoRow => f \in Files /\ files'[f] = files[f]
        /\ \A x \in sidecars : files'[x[1]] # NoRow => x \in sidecars'
    BY <1>2 DEF cmd_delete_folder
  <2>2. ASSUME NEW f \in FileRow, files'[f] # NoRow, NEW p \in {"xmp", "jpeg"}, NEW i, <<f, i, p>> \in sidecars
        PROVE  <<f, i, p>> \in sidecars'
    BY <2>1, <2>2
  <2> QED BY <2>1, <2>2
<1>3. ASSUME NEW p \in Path, cmd_import_files(p) PROVE BundleWhole'
  BY <1>3 DEF cmd_import_files, add_folder, NextId, Started
<1>4. ASSUME NEW word \in Keyword, cmd_add_keyword(word) PROVE BundleWhole'
  BY <1>4 DEF cmd_add_keyword, make_keyword, NextId
<1>5. ASSUME NEW g \in FileRow, NEW d \in FolderRow, cmd_move_file_to_folder(g, d) PROVE BundleWhole'
  BY <1>5 DEF cmd_move_file_to_folder
<1>6. ASSUME NEW g \in FileRow, NEW words \in SUBSET Keyword, cmd_set_keywords(g, words) PROVE BundleWhole'
  BY <1>6 DEF cmd_set_keywords
<1>7. ASSUME NEW g \in FileRow, cmd_metadata(g) PROVE BundleWhole'
  BY <1>7 DEF cmd_metadata
<1>8. ASSUME NEW b \in Bundle, next_bundle(b) PROVE BundleWhole'
  BY <1>8 DEF next_bundle
<1>9. CASE last_bundle
  BY <1>9 DEF last_bundle, Finish, Started
<1>10. CASE add_fs_file
  BY <1>10 DEF add_fs_file, NextId
<1>11. CASE insert_file
  <2> DEFINE row == [name |-> loc.bundle, parent |-> loc.folder,
                     fs |-> [p \in Part |-> IF p = "main" THEN loc.fs ELSE 0]]
  <2>1. PICK f \in FileRow : /\ NextId(files, f) /\ files' = [files EXCEPT ![f] = row]
                             /\ loc' = [loc EXCEPT !.cur = f, !.left = Tags[loc.bundle]]
                             /\ cut' = cut \ {f}
    BY ONLY <1>11, Zenon DEF insert_file
  <2>2. files[f] = NoRow
    BY <2>1 DEF NextId, FileRow
  <2>3. \A g \in FileRow \ {f} : files'[g] = files[g]
    BY <2>1
  <2>4. sidecars' = sidecars /\ Importing' /\ loc'.cur = f
    BY <1>11, <2>1 DEF insert_file
  <2>5. loc.cur = 0
    BY <1>11 DEF insert_file, StageInv, CurInv
  <2>6. \A g \in Files \ {f} : loc.cur # g
    BY <2>5 DEF FileRow
  <2>7. QED
    BY <2>1, <2>2, <2>3, <2>4, <2>6
<1>12. CASE link_part
  BY <1>12 DEF link_part
<1>13. CASE add_sidecar_fsfile_to_bundle
  BY <1>13 DEF add_sidecar_fsfile_to_bundle, NextPart, NextBundle, Started
<1>14. CASE next_keyword
  BY <1>14 DEF next_keyword, make_keyword, NextId
<1>15. CASE assign_keyword
  BY <1>15 DEF assign_keyword
<1>16. CASE end_keywords_import
  BY <1>16 DEF end_keywords_import, NextPart, NextBundle, Started
<1>17. CASE end_keywords_set
  BY <1>17 DEF end_keywords_set
<1>18. CASE get_metadata
  BY <1>18 DEF get_metadata, Finish, Started
<1>19. CASE statement_fails
  <2>1. files' = files /\ sidecars' = sidecars /\ cut \subseteq cut'
    BY <1>19 DEF statement_fails, CutShort
  <2>2. \A f \in Files : f = loc.cur /\ Importing => f \in cut'
    BY <1>19 DEF statement_fails, CutShort, FileRow
  <2>3. QED
    BY <2>1, <2>2
<1>20. CASE restart
  <2>1. files' = files /\ sidecars' = sidecars /\ cut \subseteq cut'
    BY <1>20 DEF restart, CutShort
  <2>2. \A f \in Files : f = loc.cur /\ Importing => f \in cut'
    BY <1>20 DEF restart, CutShort, FileRow
  <2>3. QED
    BY <2>1, <2>2
<1>21. CASE UNCHANGED vars
  BY <1>21 DEF vars
<1>22. QED
  BY <1>1, <1>2, <1>3, <1>4, <1>5, <1>6, <1>7, <1>8, <1>9, <1>10, <1>11, <1>12, <1>13, <1>14, <1>15, <1>16, <1>17, <1>18, <1>19, <1>20, <1>21 DEF Next, Command, Statement

-----------------------------------------------------------------------------
(* The theorems.                                                           *)

LEMMA LibraryIInvHolds == Spec => []LibraryIInv
<1>1. LibraryIInv /\ [Next]_vars => LibraryIInv'
  BY TypeStep, StageStep, CurStep, FsStep, PartStep, BundleStep, OwnedStep, FolderStep,
     SidecarStep, KeywordStep, WholeStep DEF LibraryIInv, RowInv
<1>2. QED
  BY <1>1, LibraryInitIInv, PTL DEF Spec

\* Every table keeps its type.
THEOREM TypeCorrect == Spec => []TypeOK
<1>1. LibraryIInv => TypeOK
  BY DEF LibraryIInv
<1>2. QED
  BY <1>1, LibraryIInvHolds, PTL

\* However bundles are imported, half-imported and deleted, and row ids used
\* again, a file's fsfiles are those of its own bundle.
THEOREM RowsCorrect == Spec => []BundleRows
<1>1. LibraryIInv => BundleRows
  BY DEF LibraryIInv, RowInv
<1>2. QED
  BY <1>1, LibraryIInvHolds, PTL

\* No two files share an fsfile.
THEOREM OwnedCorrect == Spec => []FsFileOwned
<1>1. LibraryIInv => FsFileOwned
  BY DEF LibraryIInv, RowInv
<1>2. QED
  BY <1>1, LibraryIInvHolds, PTL

\* Every file is in a folder that exists, so reading metadata never panics
\* for want of one.
THEOREM FolderCorrect == Spec => []FilesHaveFolder
<1>1. LibraryIInv => FilesHaveFolder
  BY DEF LibraryIInv, RowInv
<1>2. QED
  BY <1>1, LibraryIInvHolds, PTL

\* The rows of sidecars belong to files.
THEOREM SidecarCorrect == Spec => []SidecarsKnown
<1>1. LibraryIInv => SidecarsKnown
  BY DEF LibraryIInv, RowInv
<1>2. QED
  BY <1>1, LibraryIInvHolds, PTL

\* A keyword has one row, unless a query failed that looked for it.
THEOREM KeywordCorrect == Spec => []KeywordsUnique
<1>1. LibraryIInv => KeywordsUnique
  BY DEF LibraryIInv
<1>2. QED
  BY <1>1, LibraryIInvHolds, PTL

\* A bundle is only half there if its import was cut short.
THEOREM WholeCorrect == Spec => []BundleWhole
<1>1. LibraryIInv => BundleWhole
  BY DEF LibraryIInv
<1>2. QED
  BY <1>1, LibraryIInvHolds, PTL

\* A picture leaves the library only in the step that deletes its folder.
THEOREM DeletedCorrect == Spec => DeletedWithFolder
<1>1. LibraryIInv /\ [Next]_vars =>
        [\A f \in Files : f \notin Files' => folders'[files[f].parent] = NoRow]_vars
  <2> DEFINE Kept == \A f \in Files : f \notin Files' => folders'[files[f].parent] = NoRow
  <2> SUFFICES ASSUME LibraryIInv, [Next]_vars PROVE Kept
    OBVIOUS
  <2> USE DbAssumption, NoRowAssumption DEF LibraryIInv, TypeOK, FileRec, Part, tables, Files
  <2>1. CASE cmd_create_folder
    BY <2>1 DEF cmd_create_folder, add_folder, NextId
  <2>2. ASSUME NEW d \in FolderRow, cmd_delete_folder(d) PROVE Kept
    BY <2>2 DEF cmd_delete_folder
  <2>3. ASSUME NEW p \in Path, cmd_import_files(p) PROVE Kept
    BY <2>3 DEF cmd_import_files, add_folder, NextId, Started
  <2>4. ASSUME NEW word \in Keyword, cmd_add_keyword(word) PROVE Kept
    BY <2>4 DEF cmd_add_keyword, make_keyword, NextId
  <2>5. ASSUME NEW g \in FileRow, NEW d \in FolderRow, cmd_move_file_to_folder(g, d) PROVE Kept
    BY <2>5 DEF cmd_move_file_to_folder
  <2>6. ASSUME NEW g \in FileRow, NEW words \in SUBSET Keyword, cmd_set_keywords(g, words) PROVE Kept
    BY <2>6 DEF cmd_set_keywords
  <2>7. ASSUME NEW g \in FileRow, cmd_metadata(g) PROVE Kept
    BY <2>7 DEF cmd_metadata
  <2>8. ASSUME NEW b \in Bundle, next_bundle(b) PROVE Kept
    BY <2>8 DEF next_bundle
  <2>9. CASE last_bundle
    BY <2>9 DEF last_bundle, Finish, Started
  <2>10. CASE add_fs_file
    BY <2>10 DEF add_fs_file, NextId
  <2>11. CASE insert_file
    <3> DEFINE row == [name |-> loc.bundle, parent |-> loc.folder,
                       fs |-> [p \in Part |-> IF p = "main" THEN loc.fs ELSE 0]]
    <3>1. PICK f \in FileRow : /\ NextId(files, f) /\ files' = [files EXCEPT ![f] = row]
                               /\ loc' = [loc EXCEPT !.cur = f, !.left = Tags[loc.bundle]]
                               /\ cut' = cut \ {f}
      BY ONLY <2>11, Zenon DEF insert_file
    <3>2. files[f] = NoRow
      BY <3>1 DEF NextId, FileRow
    <3>3. \A g \in FileRow \ {f} : files'[g] = files[g]
      BY <3>1
    <3>4. QED
      BY <3>2, <3>3
  <2>12. CASE link_part
    <3>1. /\ loc.cur \in FileRow /\ files[loc.cur] \in FileRec /\ loc.part \in Part
          /\ loc.fs \in FsRow /\ loc.fs # 0
      BY <2>12 DEF link_part, FsRow, StageInv, CurInv, FsInv, Importing
    <3>2. /\ files'[loc.cur] = [files[loc.cur] EXCEPT !.fs[loc.part] = loc.fs]
          /\ \A f \in FileRow \ {loc.cur} : files'[f] = files[f]
      BY <2>12, <3>1 DEF link_part
    <3>3. /\ files'[loc.cur].fs[loc.part] = loc.fs
          /\ \A p \in Part \ {loc.part} : files'[loc.cur].fs[p] = files[loc.cur].fs[p]
      BY <3>1, <3>2
    <3>4. files'[loc.cur] # NoRow
      BY <3>1, <3>2
    <3>5. QED
      BY <3>2, <3>4
  <2>13. CASE add_sidecar_fsfile_to_bundle
    BY <2>13 DEF add_sidecar_fsfile_to_bundle, NextPart, NextBundle, Started
  <2>14. CASE next_keyword
    BY <2>14 DEF next_keyword, make_keyword, NextId
  <2>15. CASE assign_keyword
    BY <2>15 DEF assign_keyword
  <2>16. CASE end_keywords_import
    BY <2>16 DEF end_keywords_import, NextPart, NextBundle, Started
  <2>17. CASE end_keywords_set
    BY <2>17 DEF end_keywords_set
  <2>18. CASE get_metadata
    BY <2>18 DEF get_metadata, Finish, Started
  <2>19. CASE statement_fails
    BY <2>19 DEF statement_fails, CutShort, NextBundle, Finish, Started
  <2>20. CASE restart
    BY <2>20 DEF restart, CutShort, Finish, Started
  <2>21. CASE UNCHANGED vars
    BY <2>21 DEF vars
  <2>22. QED
    BY <2>1, <2>2, <2>3, <2>4, <2>5, <2>6, <2>7, <2>8, <2>9, <2>10, <2>11, <2>12, <2>13, <2>14, <2>15, <2>16, <2>17, <2>18, <2>19, <2>20, <2>21 DEF Next, Command, Statement
<1>2. QED
  BY <1>1, LibraryIInvHolds, PTL DEF Spec, DeletedWithFolder

-----------------------------------------------------------------------------
(* The catalog and its labels.                                             *)

LabelName == Name \cup {Default}
LabelRequest ==
  {r \in [op : {"list", "create", "delete", "update"}, id : Int, name : LabelName \cup {None}, sync : BOOLEAN] :
     r.op = "create" => r.name \in LabelName}
LabelNews ==
  {n \in [type : {"LibCreated", "AddedLabel", "LabelDeleted"}, id : Int, name : LabelName \cup {None}] :
     n.type = "AddedLabel" => n.name \in LabelName}
LabelCommand == [kind : {"create", "update"}, id : Int, name : Name]
Shown == [id : Int, name : LabelName]

CatalogTyped ==
  /\ worker \in {"off", "checking", "creating", "ready", "dead"} /\ step \in Nat
  /\ labels \in [DOMAIN labels -> LabelName] /\ DOMAIN labels \subseteq 1..MaxId
  /\ ops \in Seq(LabelRequest) /\ notifs \in Seq(LabelNews)
  /\ m_labels \in Seq(Shown)
  /\ edits # <<>> => edits \in [Row -> Name \cup {None}]
  /\ m_undos \in Seq(Seq(LabelCommand)) /\ m_redos \in Seq(Seq(LabelCommand))
  /\ running \in [done : Seq(LabelCommand), todo : Seq(LabelCommand)] /\ reply \in Int /\ base \in Nat

LEMMA OrderedEnumerates ==
  ASSUME NEW m \in Nat, NEW S, S \subseteq 1..m
  PROVE  IsFiniteSet(S) /\ S \subseteq Nat /\ Enumerates(Ordered(S), S)
<1>5. IsFiniteSet(S) /\ S \subseteq Nat /\ \E s : Enumerates(s, S)
  BY EnumeratesExists
<1>6. \E s \in [1 .. Cardinality(S) -> S] : \A i, j \in 1 .. Cardinality(S) : i < j => s[i] < s[j]
  BY <1>5 DEF Enumerates, Ascends
<1>7. /\ Ordered(S) \in [1 .. Cardinality(S) -> S]
      /\ \A i, j \in 1 .. Cardinality(S) : i < j => Ordered(S)[i] < Ordered(S)[j]
  BY <1>6 DEF Ordered
<1> QED BY <1>5, <1>7 DEF Enumerates, Ascends
-----------------------------------------------------------------------------
LEMMA NewIdIsNew ==
  CatalogTyped => /\ NextLabelId \in Nat /\ NextLabelId \notin DOMAIN labels /\ 1 <= NextLabelId
                  /\ \A i \in DOMAIN labels : i \in Nat /\ i < NextLabelId
<1> SUFFICES ASSUME CatalogTyped PROVE /\ NextLabelId \in Nat /\ NextLabelId \notin DOMAIN labels /\ 1 <= NextLabelId
                  /\ \A i \in DOMAIN labels : i \in Nat /\ i < NextLabelId
  OBVIOUS
<1>1. MaxId \in Nat /\ DOMAIN labels \subseteq 1..MaxId
  BY CatalogAssumption DEF CatalogTyped
<1>2. CASE labels = <<>>
  BY <1>2 DEF NextLabelId
<1>3. CASE labels # <<>>
  <2>1. DOMAIN labels # {}
    <3>1. labels = [i \in DOMAIN labels |-> labels[i]]
      BY DEF CatalogTyped
    <3> QED BY <1>3, <3>1
  <2>2. \E i \in DOMAIN labels : \A j \in DOMAIN labels : j <= i
    <3> DEFINE T == {MaxId - i : i \in DOMAIN labels}
    <3>1. T \subseteq Nat /\ T # {}
      BY <1>1, <2>1
    <3>2. PICK x \in T : \A y \in T : x <= y
      <4> HIDE DEF T
      <4> QED BY <3>1, LeastNat
    <3>3. PICK i \in DOMAIN labels : x = MaxId - i
      OBVIOUS
    <3>4. \A j \in DOMAIN labels : MaxId - i <= MaxId - j
      BY <3>2, <3>3
    <3>5. \A j \in DOMAIN labels : j <= i
      BY <3>4, <1>1
    <3> QED BY <3>5
  <2> DEFINE g == CHOOSE i \in DOMAIN labels : \A j \in DOMAIN labels : j <= i
  <2>3. g \in DOMAIN labels /\ \A j \in DOMAIN labels : j <= g
    BY <2>2
  <2>4. NextLabelId = 1 + g
    BY <1>3 DEF NextLabelId
  <2> HIDE DEF g
  <2> QED BY <1>1, <2>3, <2>4
<1> QED BY <1>2, <1>3

LEMMA ListingIs ==
  ASSUME NEW table, DOMAIN table \subseteq 1..MaxId, table \in [DOMAIN table -> LabelName]
  PROVE  /\ Listing(table) \in Seq(Shown) /\ Len(Listing(table)) = Cardinality(DOMAIN table)
         /\ \A i \in 1..Len(Listing(table)) :
              /\ Listing(table)[i].id = Ordered(DOMAIN table)[i] /\ Listing(table)[i].id \in DOMAIN table
              /\ Listing(table)[i].name = table[Ordered(DOMAIN table)[i]]
         /\ IsFiniteSet(DOMAIN table) /\ DOMAIN table \subseteq Nat
         /\ Enumerates(Ordered(DOMAIN table), DOMAIN table)
<1> DEFINE ids == Ordered(DOMAIN table)
           n == Cardinality(DOMAIN table)
<1>1. MaxId \in Nat
  BY CatalogAssumption
<1>2. IsFiniteSet(DOMAIN table) /\ DOMAIN table \subseteq Nat /\ Enumerates(ids, DOMAIN table) /\ n \in Nat
  BY <1>1, OrderedEnumerates, FS_CardinalityType
<1>3. ids \in [1..n -> DOMAIN table] /\ DOMAIN ids = 1..n
  BY <1>2 DEF Enumerates
<1>4. Listing(table) = [i \in 1..n |-> [id |-> ids[i], name |-> table[ids[i]]]]
  BY <1>3 DEF Listing
<1>5. \A i \in 1..n : [id |-> ids[i], name |-> table[ids[i]]] \in Shown
  BY <1>2, <1>3 DEF Shown
<1>6. Listing(table) \in Seq(Shown) /\ Len(Listing(table)) = n
  <2> HIDE DEF n, ids
  <2> QED BY <1>2, <1>4, <1>5
<1>7. \A i \in 1..n : Listing(table)[i] = [id |-> ids[i], name |-> table[ids[i]]]
  BY <1>4
<1> HIDE DEF ids, n
<1>8. \A i \in 1..Len(Listing(table)) :
              /\ Listing(table)[i].id = ids[i] /\ Listing(table)[i].id \in DOMAIN table
              /\ Listing(table)[i].name = table[ids[i]]
  BY <1>3, <1>6, <1>7
<1> QED BY <1>2, <1>6, <1>8 DEF ids, n
-----------------------------------------------------------------------------
LEMMA CatalogTypedInit == CatalogInit => CatalogTyped
<1> SUFFICES ASSUME CatalogInit PROVE CatalogTyped
  OBVIOUS
<1>1. labels \in [DOMAIN labels -> LabelName] /\ DOMAIN labels \subseteq 1..MaxId
  BY DEF CatalogInit
<1>2. Idle \in [done : Seq(LabelCommand), todo : Seq(LabelCommand)]
  BY DEF Idle
<1> QED BY <1>1, <1>2 DEF CatalogInit, CatalogTyped

LEMMA DoneTyped ==
  ASSUME CatalogTyped, Waiting, NEW c \in LabelCommand, Done(c)
  PROVE  /\ m_undos' \in Seq(Seq(LabelCommand))
         /\ running' \in [done : Seq(LabelCommand), todo : Seq(LabelCommand)]
<1>1. running.done \in Seq(LabelCommand) /\ running.todo \in Seq(LabelCommand) /\ running.todo # <<>>
  BY DEF CatalogTyped, Waiting
<1>2. Append(running.done, c) \in Seq(LabelCommand) /\ Tail(running.todo) \in Seq(LabelCommand)
  BY <1>1
<1>3. CASE Tail(running.todo) = <<>>
  <2>1. running' = Idle /\ m_undos' = <<Append(running.done, c)>> \o m_undos
    BY <1>3 DEF Done
  <2>2. <<Append(running.done, c)>> \in Seq(Seq(LabelCommand)) /\ m_undos \in Seq(Seq(LabelCommand))
    BY <1>2 DEF CatalogTyped
  <2>3. <<Append(running.done, c)>> \o m_undos \in Seq(Seq(LabelCommand))
    BY <2>2, ConcatProperties
  <2> QED BY <2>1, <2>3 DEF Idle
<1>4. CASE Tail(running.todo) # <<>>
  <2>1. running' = [done |-> Append(running.done, c), todo |-> Tail(running.todo)] /\ m_undos' = m_undos
    BY <1>4 DEF Done
  <2>2. m_undos \in Seq(Seq(LabelCommand))
    BY DEF CatalogTyped
  <2> QED BY <1>2, <2>1, <2>2
<1> QED BY <1>3, <1>4

\* What deleteLabel makes of the list, what undo asks for, and what the
\* dialog leaves to do.
Removed(list, id) ==
  LET at == {i \in DOMAIN list : list[i].id = id}
  IN  IF at = {} THEN list ELSE RemoveAt(list, CHOOSE i \in at : \A j \in at : i <= j)
Undoing(done) ==
  LET t == Reverse(done)
      request(c) == Request(IF c.kind = "create" THEN "delete" ELSE "update", c.id, None, FALSE)
  IN  [i \in DOMAIN t |-> request(t[i])]
Edited ==
  LET changed == Ordered({r \in Row : edits[r] # None})
      command(r) == IF r \in DOMAIN m_labels
                    THEN [kind |-> "update", id |-> m_labels[r].id, name |-> edits[r]]
                    ELSE [kind |-> "create", id |-> 0, name |-> edits[r]]
  IN  [i \in DOMAIN changed |-> command(changed[i])]

\* The first of some places.
LEMMA FirstOf ==
  ASSUME NEW T, T \subseteq Nat, T # {}, NEW k, k = CHOOSE i \in T : \A j \in T : i <= j
  PROVE  k \in T /\ \A j \in T : k <= j
<1>1. \E i \in T : \A j \in T : i <= j
  BY LeastNat
<1> QED BY <1>1

LEMMA RemoveAtIs ==
  ASSUME NEW S, NEW s \in Seq(S), NEW k \in DOMAIN s
  PROVE  /\ RemoveAt(s, k) \in Seq(S) /\ Len(RemoveAt(s, k)) = Len(s) - 1
         /\ \A i \in 1..(Len(s) - 1) : RemoveAt(s, k)[i] = IF i < k THEN s[i] ELSE s[i + 1]
<1> DEFINE a == SubSeq(s, 1, k - 1)
           b == SubSeq(s, k + 1, Len(s))
<1>1. k \in 1..Len(s) /\ Len(s) \in Nat
  OBVIOUS
<1>2. a \in Seq(S) /\ Len(a) = k - 1 /\ \A i \in 1..(k - 1) : a[i] = s[i]
  BY <1>1, SubSeqProperties
<1>3. b \in Seq(S) /\ Len(b) = Len(s) - k /\ \A i \in 1..(Len(s) - k) : b[i] = s[i + k]
  BY <1>1, SubSeqProperties
<1>4. RemoveAt(s, k) = a \o b
  BY DEF RemoveAt
<1> HIDE DEF a, b
<1>5. /\ a \o b \in Seq(S) /\ Len(a \o b) = Len(a) + Len(b)
      /\ \A i \in 1 .. Len(a) + Len(b) : (a \o b)[i] = IF i <= Len(a) THEN a[i] ELSE b[i - Len(a)]
  BY <1>2, <1>3, ConcatProperties
<1>6. Len(a) + Len(b) = Len(s) - 1
  BY <1>1, <1>2, <1>3
<1>7. ASSUME NEW i \in 1..(Len(s) - 1) PROVE (a \o b)[i] = IF i < k THEN s[i] ELSE s[i + 1]
  <2>1. CASE i < k
    <3>1. (a \o b)[i] = a[i] /\ i \in 1..(k - 1)
      BY <1>1, <1>2, <1>5, <1>6, <1>7, <2>1
    <3> QED BY <1>2, <2>1, <3>1
  <2>2. CASE ~(i < k)
    <3>1. (a \o b)[i] = b[i - Len(a)]
      <4>1. i \in 1 .. Len(a) + Len(b) /\ ~(i <= Len(a))
        BY <1>1, <1>2, <1>6, <1>7, <2>2
      <4>2. QED
        BY <1>5, <4>1
    <3>2. i - Len(a) \in 1..(Len(s) - k) /\ i - Len(a) + k = i + 1
      BY <1>1, <1>2, <1>7, <2>2
    <3>3. b[i - Len(a)] = s[i - Len(a) + k]
      BY <1>3, <3>2
    <3> QED BY <2>2, <3>1, <3>2, <3>3
  <2> QED BY <2>1, <2>2
<1> QED BY <1>4, <1>5, <1>6, <1>7

LEMMA RemovedType == ASSUME NEW list \in Seq(Shown), NEW id PROVE Removed(list, id) \in Seq(Shown)
<1> DEFINE at == {i \in DOMAIN list : list[i].id = id}
           k == CHOOSE i \in at : \A j \in at : i <= j
<1>1. CASE at = {}
  BY <1>1 DEF Removed
<1>2. CASE at # {}
  <2>1. at \subseteq Nat
    OBVIOUS
  <2>2. k \in at
    <3> HIDE DEF at
    <3> QED BY <1>2, <2>1, FirstOf
  <2>3. k \in DOMAIN list
    BY <2>2
  <2>4. Removed(list, id) = RemoveAt(list, k)
    BY <1>2 DEF Removed
  <2> HIDE DEF k, at
  <2> QED BY <2>3, <2>4, RemoveAtIs
<1> QED BY <1>1, <1>2

LEMMA UndoingIs ==
  ASSUME NEW done \in Seq(LabelCommand)
  PROVE  /\ Undoing(done) \in Seq(LabelRequest) /\ Len(Undoing(done)) = Len(done)
         /\ \A i \in 1..Len(done) :
              /\ Len(done) - i + 1 \in 1..Len(done)
              /\ Undoing(done)[i].id = done[Len(done) - i + 1].id
              /\ Undoing(done)[i].op = IF done[Len(done) - i + 1].kind = "create" THEN "delete" ELSE "update"
              /\ Undoing(done)[i].sync = FALSE
<1> DEFINE t == Reverse(done)
           request(c) == Request(IF c.kind = "create" THEN "delete" ELSE "update", c.id, None, FALSE)
           n == Len(done)
<1>1. n \in Nat /\ done \in [1..n -> LabelCommand]
  OBVIOUS
<1>2. t = [i \in 1..n |-> done[(n - i) + 1]]
  BY DEF Reverse
<1>3. \A i \in 1..n : (n - i) + 1 \in 1..n
  <2> HIDE DEF n
  <2> QED BY <1>1
<1>4. \A i \in 1..n : done[(n - i) + 1] \in LabelCommand
  BY <1>1, <1>3
<1>5. \A c \in LabelCommand : request(c) \in LabelRequest
  BY DEF Request, LabelRequest, LabelCommand
<1>6. \A c \in LabelCommand : /\ request(c).id = c.id /\ request(c).sync = FALSE
                              /\ request(c).op = IF c.kind = "create" THEN "delete" ELSE "update"
  BY DEF Request, LabelCommand
<1>7. Undoing(done) = [i \in DOMAIN t |-> request(t[i])]
  BY DEF Undoing
<1>8. DOMAIN t = 1..n /\ \A i \in 1..n : t[i] = done[(n - i) + 1]
  BY <1>2
<1> HIDE DEF t, n, request
<1>9. Undoing(done) = [i \in 1..n |-> request(done[(n - i) + 1])]
  BY <1>7, <1>8
<1>10. \A i \in 1..n : request(done[(n - i) + 1]) \in LabelRequest
  BY <1>4, <1>5
<1>11. Undoing(done) \in Seq(LabelRequest) /\ Len(Undoing(done)) = n
  BY <1>1, <1>9, <1>10
<1>12. \A i \in 1..n :
              /\ Undoing(done)[i].id = done[(n - i) + 1].id
              /\ Undoing(done)[i].op = IF done[(n - i) + 1].kind = "create" THEN "delete" ELSE "update"
              /\ Undoing(done)[i].sync = FALSE
  <2> TAKE i \in 1..n
  <2>1. Undoing(done)[i] = request(done[(n - i) + 1])
    BY <1>9
  <2>2. done[(n - i) + 1] \in LabelCommand
    BY <1>4
  <2>3. LET c == done[(n - i) + 1] IN
           /\ request(c).id = c.id /\ request(c).sync = FALSE
           /\ request(c).op = IF c.kind = "create" THEN "delete" ELSE "update"
    BY <2>2, <1>6
  <2> QED BY <2>1, <2>3
<1>13. \A i \in 1..Len(done) : Len(done) - i + 1 \in 1..Len(done)
  BY <1>3 DEF n
<1>14. Undoing(done) \in Seq(LabelRequest) /\ Len(Undoing(done)) = Len(done)
  BY <1>11 DEF n
<1> QED BY <1>12, <1>13, <1>14 DEF n

LEMMA EditedIs == ASSUME CatalogTyped, edits # <<>> PROVE Edited \in Seq(LabelCommand)
<1> DEFINE S == {r \in Row : edits[r] # None}
           changed == Ordered(S)
           n == Cardinality(S)
           command(r) == IF r \in DOMAIN m_labels
                    THEN [kind |-> "update", id |-> m_labels[r].id, name |-> edits[r]]
                    ELSE [kind |-> "create", id |-> 0, name |-> edits[r]]
<1>1. NLabel \in Nat /\ S \subseteq 1..NLabel
  BY CatalogAssumption DEF Row
<1>2. n \in Nat /\ changed \in [1..n -> S] /\ DOMAIN changed = 1..n
  <2>1. IsFiniteSet(S) /\ Enumerates(changed, S)
    <3> HIDE DEF S
    <3> QED BY <1>1, OrderedEnumerates
  <2> QED BY <2>1, FS_CardinalityType DEF Enumerates
<1>3. \A r \in S : command(r) \in LabelCommand
  <2> TAKE r \in S
  <2>1. edits[r] \in Name
    BY DEF CatalogTyped
  <2>2. CASE r \in DOMAIN m_labels
    <3>1. m_labels[r] \in Shown
      BY <2>2 DEF CatalogTyped
    <3>2. m_labels[r].id \in Int
      BY <3>1 DEF Shown
    <3> QED BY <2>1, <2>2, <3>2 DEF LabelCommand
  <2>3. CASE r \notin DOMAIN m_labels
    BY <2>1, <2>3 DEF LabelCommand
  <2> QED BY <2>2, <2>3
<1>4. Edited = [i \in DOMAIN changed |-> command(changed[i])]
  BY DEF Edited
<1> HIDE DEF S, n, changed, command
<1>5. Edited = [i \in 1..n |-> command(changed[i])] /\ \A i \in 1..n : command(changed[i]) \in LabelCommand
  BY <1>2, <1>3, <1>4
<1> QED BY <1>2, <1>5

LEMMA NextCommand == CatalogTyped /\ Waiting => Head(running.todo) \in LabelCommand
<1>1. CatalogTyped => running.todo \in Seq(LabelCommand)
  BY DEF CatalogTyped
<1> QED BY <1>1 DEF Waiting

LEMMA CatalogTypedStep == CatalogTyped /\ [CatalogNext]_catalog_vars => CatalogTyped'
<1> SUFFICES ASSUME CatalogTyped, [CatalogNext]_catalog_vars PROVE CatalogTyped'
  OBVIOUS
<1> USE CatalogAssumption
<1>u. CASE UNCHANGED catalog_vars
  BY <1>u DEF CatalogTyped, catalog_vars, disk, client, ui
<1>1. CASE check_database_version \/ check_version_fails \/ init_db \/ open_fails \/ init_db_fails
  <2>0. worker \in {"off", "checking", "creating", "ready", "dead"} /\ step \in Nat
    BY DEF CatalogTyped
  <2>1. worker' \in {"off", "checking", "creating", "ready", "dead"} /\ step' \in Nat
    <3>1. CASE check_database_version
      BY <2>0, <3>1 DEF check_database_version, disk
    <3>2. CASE init_db
      BY <2>0, <3>2 DEF init_db, disk
    <3>3. CASE open_fails
      BY <2>0, <3>3 DEF open_fails, disk
    <3>4. CASE init_db_fails
      BY <2>0, <3>4 DEF init_db_fails, disk
    <3>5. CASE check_version_fails
      BY <2>0, <3>5 DEF check_version_fails, disk
    <3> QED BY <1>1, <3>1, <3>2, <3>3, <3>4, <3>5
  <2>2. UNCHANGED <<labels, ops, notifs, ui, base>>
    BY <1>1 DEF check_database_version, check_version_fails, init_db, open_fails, init_db_fails, disk
  <2> QED BY <2>1, <2>2 DEF CatalogTyped, ui
<1>2. CASE init_db_end
  <2>1. [type |-> "LibCreated", id |-> 0, name |-> None] \in LabelNews
    BY DEF LabelNews
  <2>2. notifs' \in Seq(LabelNews)
    BY <1>2, <2>1 DEF init_db_end, Notify, CatalogTyped
  <2> QED BY <1>2, <2>2 DEF init_db_end, CatalogTyped, disk, client, ui
<1>3. CASE cmd_list_all_labels
  <2>0. ops # <<>> /\ ops' \in Seq(LabelRequest)
    BY <1>3, Dropped DEF cmd_list_all_labels, Execute, CatalogTyped
  <2>1. notifs' \in Seq(LabelNews)
    <3> DEFINE l == Listing(labels)
               g == [i \in DOMAIN l |-> [type |-> "AddedLabel", id |-> l[i].id, name |-> l[i].name]]
    <3>1. l \in Seq(Shown)
      BY ListingIs DEF CatalogTyped
    <3>2. g \in Seq(LabelNews)
      <4> HIDE DEF l
      <4>1. \A i \in DOMAIN l : [type |-> "AddedLabel", id |-> l[i].id, name |-> l[i].name] \in LabelNews
        <5>1. \A i \in DOMAIN l : l[i] \in Shown
          BY <3>1
        <5> QED BY <5>1 DEF Shown, LabelNews
      <4> QED BY <3>1, <4>1
    <3>3. notifs' = notifs \o g \/ notifs' = notifs
      BY <1>3 DEF cmd_list_all_labels
    <3> HIDE DEF g, l
    <3>4. notifs \in Seq(LabelNews)
      BY DEF CatalogTyped
    <3>5. notifs \o g \in Seq(LabelNews)
      BY <3>2, <3>4, ConcatProperties
    <3> QED BY <3>3, <3>4, <3>5
  <2> QED BY <1>3, <2>0, <2>1 DEF cmd_list_all_labels, CatalogTyped, disk, ui
<1>4. CASE cmd_create_label
  <2>0. ops # <<>> /\ ops' \in Seq(LabelRequest) /\ Head(ops) \in LabelRequest /\ Head(ops).op = "create" /\ NextLabelId <= MaxId
    BY <1>4, Dropped DEF cmd_create_label, Execute, CatalogTyped
  <2>1. Head(ops).name \in LabelName
    BY <2>0 DEF LabelRequest
  <2>2. NextLabelId \in 1..MaxId /\ NextLabelId \in Nat
    BY <2>0, NewIdIsNew
  <2>3. \/ UNCHANGED <<labels, notifs, base>>
        \/ /\ labels' = [i \in DOMAIN labels \cup {NextLabelId} |-> IF i = NextLabelId THEN Head(ops).name ELSE labels[i]]
           /\ notifs' = Notify("AddedLabel", NextLabelId, Head(ops).name)
           /\ base' = base \/ base' = base + 1
    BY <1>4, Zenon DEF cmd_create_label
  <2>4. reply' \in Int
    BY <1>4, <2>2 DEF cmd_create_label, CatalogTyped
  <2>5. labels' \in [DOMAIN labels' -> LabelName] /\ DOMAIN labels' \subseteq 1..MaxId
    BY <2>1, <2>2, <2>3 DEF CatalogTyped
  <2>6. notifs' \in Seq(LabelNews)
    <3>1. [type |-> "AddedLabel", id |-> NextLabelId, name |-> Head(ops).name] \in LabelNews
      BY <2>1, <2>2 DEF LabelNews
    <3>2. notifs' = notifs \/ \E n \in LabelNews : notifs' = Append(notifs, n)
      BY <2>3, <3>1 DEF Notify
    <3>3. notifs \in Seq(LabelNews)
      BY DEF CatalogTyped
    <3> QED BY <3>2, <3>3, SMTT(20)
  <2>7. base' \in Nat
    BY <2>3, SMTT(20) DEF CatalogTyped
  <2>8. UNCHANGED <<worker, step, m_labels, edits, m_undos, m_redos, running>>
    BY <1>4, SMTT(20) DEF cmd_create_label
  <2> QED BY <2>0, <2>4, <2>5, <2>6, <2>7, <2>8 DEF CatalogTyped
<1>5. CASE cmd_delete_label
  <2>0. ops # <<>> /\ ops' \in Seq(LabelRequest) /\ Head(ops) \in LabelRequest
    BY <1>5, Dropped DEF cmd_delete_label, Execute, CatalogTyped
  <2>1. \/ UNCHANGED <<labels, notifs>>
        \/ /\ labels' = [i \in DOMAIN labels \ {Head(ops).id} |-> labels[i]]
           /\ notifs' = Notify("LabelDeleted", Head(ops).id, None)
    BY <1>5 DEF cmd_delete_label
  <2>2. labels' \in [DOMAIN labels' -> LabelName] /\ DOMAIN labels' \subseteq 1..MaxId
    BY <2>1 DEF CatalogTyped
  <2>3. notifs' \in Seq(LabelNews)
    <3>1. [type |-> "LabelDeleted", id |-> Head(ops).id, name |-> None] \in LabelNews
      BY <2>0 DEF LabelNews, LabelRequest
    <3>2. notifs' = notifs \/ \E n \in LabelNews : notifs' = Append(notifs, n)
      BY <2>1, <3>1 DEF Notify
    <3>3. notifs \in Seq(LabelNews)
      BY DEF CatalogTyped
    <3> QED BY <3>2, <3>3
  <2>4. UNCHANGED <<worker, step, ui, base>>
    BY <1>5 DEF cmd_delete_label
  <2> QED BY <2>0, <2>2, <2>3, <2>4 DEF CatalogTyped, ui
<1>6. CASE cmd_update_label
  <2>1. ops # <<>> /\ ops' \in Seq(LabelRequest)
    BY <1>6, Dropped DEF cmd_update_label, Execute, CatalogTyped
  <2> QED BY <1>6, <2>1 DEF cmd_update_label, CatalogTyped, disk, ui
<1>7. CASE create_initial_labels
  <2>1. notifs' \in Seq(LabelNews)
    BY <1>7, Dropped DEF create_initial_labels, Deliver, CatalogTyped
  <2>2. ops' \in Seq(LabelRequest)
    <3> DEFINE g == [i \in Row |-> Request("create", 0, Default, FALSE)]
    <3>1. Request("create", 0, Default, FALSE) \in LabelRequest
      BY DEF Request, LabelRequest, LabelName
    <3>2. g \in Seq(LabelRequest)
      <4>1. \E r \in LabelRequest : g = [i \in Row |-> r]
        BY <3>1, Zenon
      <4>2. NLabel \in Nat
        OBVIOUS
      <4> HIDE DEF g
      <4> QED BY <4>1, <4>2 DEF Row
    <3>3. ops' = ops \o g
      BY <1>7 DEF create_initial_labels
    <3> HIDE DEF g
    <3>4. ops \in Seq(LabelRequest)
      BY DEF CatalogTyped
    <3>5. ops \o g \in Seq(LabelRequest)
      BY <3>2, <3>4, ConcatProperties
    <3> QED BY <3>3, <3>5
  <2>3. UNCHANGED <<disk, worker, step, ui, base>>
    BY <1>7 DEF create_initial_labels
  <2> QED BY <2>1, <2>2, <2>3 DEF CatalogTyped, disk, ui
<1>8. CASE addLabel
  <2>1. notifs' \in Seq(LabelNews) /\ Head(notifs) \in LabelNews /\ Head(notifs).type = "AddedLabel"
    BY <1>8, Dropped DEF addLabel, Deliver, CatalogTyped
  <2>2. [id |-> Head(notifs).id, name |-> Head(notifs).name] \in Shown
    BY <2>1 DEF Shown, LabelNews
  <2>3. m_labels' \in Seq(Shown)
    BY <1>8, <2>2 DEF addLabel, CatalogTyped
  <2>4. UNCHANGED <<disk, client, edits, m_undos, m_redos, running, reply, base>>
    BY <1>8 DEF addLabel
  <2> QED BY <2>1, <2>3, <2>4 DEF CatalogTyped, disk, client
<1>9. CASE deleteLabel
  <2>1. notifs' \in Seq(LabelNews) /\ Head(notifs) \in LabelNews
    BY <1>9, Dropped DEF deleteLabel, Deliver, CatalogTyped
  <2>3. m_labels' \in Seq(Shown)
    BY <1>9, RemovedType DEF deleteLabel, CatalogTyped, Removed
  <2>4. UNCHANGED <<disk, client, edits, m_undos, m_redos, running, reply, base>>
    BY <1>9 DEF deleteLabel
  <2> QED BY <2>1, <2>3, <2>4 DEF CatalogTyped, disk, client
<1>10. CASE update_label
  <2>1. Waiting /\ Head(running.todo) \in LabelCommand
    BY <1>10, NextCommand DEF update_label
  <2>2. /\ m_undos' \in Seq(Seq(LabelCommand))
        /\ running' \in [done : Seq(LabelCommand), todo : Seq(LabelCommand)]
    BY <1>10, <2>1, DoneTyped DEF update_label
  <2>3. \E r \in LabelRequest : ops' = Append(ops, r)
    <3>1. Request("update", Head(running.todo).id, None, FALSE) \in LabelRequest
      BY <2>1 DEF Request, LabelRequest, LabelCommand
    <3> QED BY <1>10, <3>1, Zenon DEF update_label
  <2>4. ops' \in Seq(LabelRequest)
    BY <2>3 DEF CatalogTyped
  <2>5. UNCHANGED <<disk, worker, step, notifs, m_labels, edits, m_redos, reply, base>>
    BY <1>10 DEF update_label
  <2> QED BY <2>2, <2>4, <2>5 DEF CatalogTyped, disk
<1>11. CASE create_label_sync
  <2>1. Head(running.todo) \in LabelCommand
    BY <1>11 DEF create_label_sync, Waiting, CatalogTyped
  <2>3. \E r \in LabelRequest : ops' = Append(ops, r)
    <3>1. Request("create", 0, Head(running.todo).name, TRUE) \in LabelRequest
      BY <2>1 DEF Request, LabelRequest, LabelCommand, LabelName
    <3> QED BY <1>11, <3>1, Zenon DEF create_label_sync
  <2>4. ops' \in Seq(LabelRequest)
    BY <2>3 DEF CatalogTyped
  <2>5. UNCHANGED <<disk, worker, step, notifs, ui, base>>
    BY <1>11 DEF create_label_sync
  <2> QED BY <2>4, <2>5 DEF CatalogTyped, disk, ui
<1>12. CASE recv
  <2>1. Waiting /\ Head(running.todo) \in LabelCommand
    BY <1>12, NextCommand DEF recv
  <2>2. [Head(running.todo) EXCEPT !.id = reply] \in LabelCommand
    BY <2>1 DEF LabelCommand, CatalogTyped
  <2>3. /\ m_undos' \in Seq(Seq(LabelCommand))
        /\ running' \in [done : Seq(LabelCommand), todo : Seq(LabelCommand)]
    BY <1>12, <2>1, <2>2, DoneTyped DEF recv
  <2>5. UNCHANGED <<disk, client, notifs, m_labels, edits, m_redos, base>> /\ reply' = 0
    BY <1>12 DEF recv
  <2>6. UNCHANGED <<worker, step, labels, ops, notifs, m_labels, edits, m_redos, base>> /\ reply' \in Int
    BY <2>5 DEF disk, client
  <2> QED BY <2>3, <2>6 DEF CatalogTyped
<1>13. CASE open_library
  <2>1. \E r \in LabelRequest : ops' = <<r>>
    <3>1. Request("list", 0, None, FALSE) \in LabelRequest
      BY DEF Request, LabelRequest
    <3> QED BY <1>13, <3>1, Zenon DEF open_library
  <2>2. ops' \in Seq(LabelRequest)
    BY <2>1
  <2> QED BY <1>13, <2>2 DEF open_library, CatalogTyped, disk, ui
<1>14. CASE undo
  <2>1. m_undos # <<>> /\ m_undos \in Seq(Seq(LabelCommand)) /\ m_redos \in Seq(Seq(LabelCommand))
    BY <1>14 DEF undo, CatalogTyped
  <2>2. Head(m_undos) \in Seq(LabelCommand) /\ m_undos' \in Seq(Seq(LabelCommand))
    BY <1>14, <2>1 DEF undo
  <2>3. m_redos' \in Seq(Seq(LabelCommand))
    <3>1. <<Head(m_undos)>> \in Seq(Seq(LabelCommand))
      BY <2>2
    <3>2. <<Head(m_undos)>> \o m_redos \in Seq(Seq(LabelCommand))
      BY <2>1, <3>1, ConcatProperties
    <3> QED BY <1>14, <3>2 DEF undo
  <2>4. ops' \in Seq(LabelRequest)
    <3>1. ops' = ops \o Undoing(Head(m_undos))
      BY <1>14 DEF undo, Undoing
    <3>2. Undoing(Head(m_undos)) \in Seq(LabelRequest)
      BY <2>2, UndoingIs
    <3>3. ops \in Seq(LabelRequest)
      BY DEF CatalogTyped
    <3>4. ops \o Undoing(Head(m_undos)) \in Seq(LabelRequest)
      BY <3>2, <3>3, ConcatProperties
    <3> QED BY <3>1, <3>4
  <2>5. UNCHANGED <<disk, worker, step, notifs, m_labels, edits, running, reply, base>>
    BY <1>14 DEF undo
  <2> QED BY <2>2, <2>3, <2>4, <2>5 DEF CatalogTyped, disk
<1>15. CASE redo
  <2>1. m_redos # <<>> /\ m_redos \in Seq(Seq(LabelCommand))
    BY <1>15 DEF redo, CatalogTyped
  <2>2. Head(m_redos) \in Seq(LabelCommand) /\ m_redos' \in Seq(Seq(LabelCommand))
    BY <1>15, <2>1 DEF redo
  <2>3. running' \in [done : Seq(LabelCommand), todo : Seq(LabelCommand)]
    BY <1>15, <2>2 DEF redo
  <2>4. UNCHANGED <<disk, client, notifs, m_labels, edits, m_undos, reply, base>>
    BY <1>15 DEF redo
  <2> QED BY <2>2, <2>3, <2>4 DEF CatalogTyped, disk, client
<1>16. CASE on_action_edit_labels
  <2>1. edits' \in [Row -> Name \cup {None}]
    BY <1>16 DEF on_action_edit_labels
  <2>2. UNCHANGED <<disk, client, notifs, m_labels, m_undos, m_redos, running, reply, base>>
    BY <1>16 DEF on_action_edit_labels
  <2> QED BY <2>1, <2>2 DEF CatalogTyped, disk, client
<1>17. CASE update_labels
  <2>1. running' \in [done : Seq(LabelCommand), todo : Seq(LabelCommand)]
    BY <1>17, EditedIs DEF update_labels, Edited
  <2>2. m_redos' \in Seq(Seq(LabelCommand))
    BY <1>17 DEF update_labels, CatalogTyped
  <2>3. UNCHANGED <<disk, client, notifs, m_labels, m_undos, reply, base>> /\ edits' = <<>>
    BY <1>17 DEF update_labels
  <2> QED BY <2>1, <2>2, <2>3 DEF CatalogTyped, disk, client
<1>18. CASE \E r \in Row, name \in Name \cup {None} : label_name_changed(r, name)
  <2>1. edits' \in [Row -> Name \cup {None}]
    BY <1>18 DEF label_name_changed, CatalogTyped
  <2>2. UNCHANGED <<disk, client, notifs, m_labels, m_undos, m_redos, running, reply, base>>
    BY <1>18 DEF label_name_changed
  <2> QED BY <2>1, <2>2 DEF CatalogTyped, disk, client
<1>19. CASE restart_program
  <2>1. base' \in Nat
    BY <1>19, ListingIs, FS_CardinalityType DEF restart_program, CatalogTyped
  <2>2. Idle \in [done : Seq(LabelCommand), todo : Seq(LabelCommand)]
    BY DEF Idle
  <2>3. /\ worker' = "off" /\ step' = 1 /\ ops' = <<>> /\ notifs' = <<>> /\ m_labels' = <<>> /\ edits' = <<>>
        /\ m_undos' = <<>> /\ m_redos' = <<>> /\ running' = Idle /\ reply' = 0 /\ labels' = labels
    BY <1>19 DEF restart_program, disk
  <2>4. labels' \in [DOMAIN labels' -> LabelName] /\ DOMAIN labels' \subseteq 1..MaxId
    BY <2>3 DEF CatalogTyped
  <2>5. ops' \in Seq(LabelRequest) /\ notifs' \in Seq(LabelNews) /\ m_labels' \in Seq(Shown)
    BY <2>3
  <2>6. m_undos' \in Seq(Seq(LabelCommand)) /\ m_redos' \in Seq(Seq(LabelCommand))
    BY <2>3
  <2>7. running' \in [done : Seq(LabelCommand), todo : Seq(LabelCommand)]
    BY <2>2, <2>3
  <2>8. /\ worker' \in {"off", "checking", "creating", "ready", "dead"} /\ step' \in Nat
        /\ reply' \in Int /\ (edits' # <<>> => edits' \in [Row -> Name \cup {None}])
    BY <2>3
  <2> QED BY <2>1, <2>4, <2>5, <2>6, <2>7, <2>8 DEF CatalogTyped
<1> QED BY <1>u, <1>1, <1>2, <1>3, <1>4, <1>5, <1>6, <1>7, <1>8, <1>9, <1>10, <1>11, <1>12, <1>13, <1>14, <1>15, <1>16, <1>17, <1>18, <1>19
  DEF CatalogNext, Worker, MainLoop, User, Failure
-----------------------------------------------------------------------------
(* The schema is made once, and so are the first labels.                   *)

\* init_db() runs on a new catalog.
Making == worker = "creating" /\ (step > 1 \/ "admin" \notin schema)

\* What init_db() has made, it made in order; what there is of a schema has
\* the admin table, which is met only if the version could not be asked for.
SchemaInOrder ==
  /\ Making => step \in 1..(Len(Schema) + 1) /\ schema = {Schema[i] : i \in 1..(step - 1)}
  /\ worker = "creating" => Making \/ (step = 1 /\ "version" \in failed)
  /\ worker \in {"off", "checking"} => step = 1
  /\ schema # {} => "admin" \in schema
  /\ worker = "dead" => failed \cap {"init", "version"} # {}

FirstLabel == {o \in LabelRequest : o.op = "create" /\ o.name = Default}
NewCatalog == {n \in LabelNews : n.type = "LibCreated"}

\* Nothing is made before the catalog is new, and the notification of a new
\* one is sent once.
InitialOnce ==
  /\ Making \/ "admin" \notin schema =>
       Initial = {} /\ Places(ops, FirstLabel) = {} /\ Places(notifs, NewCatalog) = {}
  /\ Places(notifs, NewCatalog) # {} => Initial = {} /\ Places(ops, FirstLabel) = {}
  /\ Cardinality(Places(notifs, NewCatalog)) <= 1
  /\ Cardinality(Initial) + Cardinality(Places(ops, FirstLabel)) <= NLabel

LEMMA SchemaIs ==
  /\ Len(Schema) = 17 /\ Schema[1] = "admin"
  /\ \A i, j \in 1..17 : Schema[i] = Schema[j] => i = j
<1>1. Len(Schema) = 17 /\ Schema[1] = "admin"
  BY DEF Schema
<1>2. \A i, j \in 1..17 : Schema[i] = Schema[j] => i = j
  BY DEF Schema
<1> QED BY <1>1, <1>2

LEMMA SchemaInOrderStep == CatalogTyped /\ SchemaInOrder /\ [CatalogNext]_catalog_vars => SchemaInOrder'
<1> SUFFICES ASSUME CatalogTyped, SchemaInOrder, [CatalogNext]_catalog_vars PROVE SchemaInOrder'
  OBVIOUS
<1>1. CASE init_db
  <2>0. worker = "creating" /\ step <= 17
    BY <1>1, SchemaIs DEF init_db
  <2>a. CASE ~Making
    <3>1. step = 1 /\ "version" \in failed /\ "admin" \in schema
      BY <2>0, <2>a DEF SchemaInOrder, Making
    <3>2. worker' = "dead" /\ UNCHANGED <<schema, step, failed>>
      BY <1>1, <3>1, SchemaIs DEF init_db
    <3> QED BY <3>1, <3>2 DEF SchemaInOrder, Making
  <2>b. CASE Making
    <3>1. step \in 1..17 /\ schema = {Schema[i] : i \in 1..(step - 1)}
      BY <2>0, <2>b, SchemaIs DEF SchemaInOrder
    <3>2. Schema[step] \notin schema
      BY <3>1, SchemaIs
    <3>3. schema' = schema \cup {Schema[step]} /\ step' = step + 1 /\ worker' = worker /\ failed' = failed
      BY <1>1, <3>2 DEF init_db
    <3>4. step' \in 1..18 /\ step' > 1 /\ 1..(step' - 1) = 1..(step - 1) \cup {step}
      BY <3>1, <3>3
    <3>5. schema' = {Schema[i] : i \in 1..(step' - 1)}
      BY <3>1, <3>3, <3>4
    <3>6. 1 \in 1..(step' - 1)
      BY <3>1, <3>3
    <3>7. "admin" \in schema'
      BY <3>5, <3>6, SchemaIs
    <3>8. Len(Schema) + 1 = 18
      BY SchemaIs
    <3> QED BY <2>0, <3>3, <3>4, <3>5, <3>7, <3>8 DEF SchemaInOrder, Making
  <2> QED BY <2>a, <2>b
<1>2. CASE check_database_version
  <2>1. worker' = "ready" \/ (worker' = "creating" /\ schema = {})
    BY <1>2 DEF check_database_version, SchemaInOrder
  <2>2. step = 1 /\ step' = step /\ schema' = schema /\ failed' = failed
    BY <1>2 DEF check_database_version, SchemaInOrder, disk
  <2>3. 1 \in 1..(Len(Schema) + 1) /\ {Schema[i] : i \in 1..(1 - 1)} = {}
    BY SchemaIs
  <2>4. schema = {} => "admin" \notin schema
    OBVIOUS
  <2> QED BY <2>1, <2>2, <2>3, <2>4 DEF SchemaInOrder, Making
<1>v. CASE check_version_fails
  <2>1. worker' = "creating" /\ step = 1 /\ UNCHANGED <<schema, step>> /\ "version" \in failed'
    BY <1>v DEF check_version_fails, SchemaInOrder, disk
  <2>2. "admin" \notin schema => schema = {}
    BY DEF SchemaInOrder
  <2>3. 1 \in 1..(Len(Schema) + 1) /\ {Schema[i] : i \in 1..(1 - 1)} = {}
    BY SchemaIs
  <2> QED BY <2>1, <2>2, <2>3 DEF SchemaInOrder, Making
<1>3. CASE init_db_fails \/ init_db_end \/ open_fails
  BY <1>3 DEF init_db_fails, init_db_end, open_fails, SchemaInOrder, Making, disk
<1>4. CASE open_library
  BY <1>4 DEF open_library, SchemaInOrder, Making, disk
<1>5. CASE restart_program
  BY <1>5 DEF restart_program, SchemaInOrder, Making, disk
<1>6. CASE cmd_list_all_labels \/ cmd_create_label \/ cmd_delete_label \/ cmd_update_label
  <2>1. UNCHANGED <<schema, worker, step>> /\ worker = "ready"
    BY <1>6 DEF cmd_list_all_labels, cmd_create_label, cmd_delete_label, cmd_update_label, Execute, disk
  <2> QED BY <2>1 DEF SchemaInOrder, Making
<1>7. CASE \/ create_initial_labels \/ addLabel \/ deleteLabel \/ update_label \/ create_label_sync \/ recv
           \/ undo \/ redo \/ on_action_edit_labels \/ update_labels
           \/ \E r \in Row, name \in Name \cup {None} : label_name_changed(r, name)
           \/ UNCHANGED catalog_vars
  <2>1. UNCHANGED <<schema, worker, step, failed>>
    BY <1>7 DEF create_initial_labels, addLabel, deleteLabel, update_label, create_label_sync, recv, undo, redo,
      on_action_edit_labels, update_labels, label_name_changed, catalog_vars, disk, client
  <2> QED BY <2>1 DEF SchemaInOrder, Making
<1> QED BY <1>1, <1>2, <1>v, <1>3, <1>4, <1>5, <1>6, <1>7 DEF CatalogNext, Worker, MainLoop, User, Failure

LEMMA PlacesMore ==
  ASSUME NEW S, NEW T, NEW s \in Seq(S), NEW t \in Seq(S)
  PROVE  /\ (\A i \in DOMAIN t : t[i] \notin T) => Places(s \o t, T) = Places(s, T)
         /\ Places(s, T) = {} /\ (\A i \in DOMAIN t : t[i] \in T) => Cardinality(Places(s \o t, T)) = Len(t)
<1>1. /\ s \o t \in Seq(S) /\ Len(s \o t) = Len(s) + Len(t)
      /\ \A i \in 1 .. Len(s) + Len(t) : (s \o t)[i] = IF i <= Len(s) THEN s[i] ELSE t[i - Len(s)]
  BY ConcatProperties
<1>2. Len(s) \in Nat /\ Len(t) \in Nat /\ DOMAIN s = 1..Len(s) /\ DOMAIN t = 1..Len(t)
  OBVIOUS
<1>3. DOMAIN (s \o t) = 1..(Len(s) + Len(t))
  BY <1>1
<1>4. \A i \in 1..Len(s) : i \in 1..(Len(s) + Len(t)) /\ (s \o t)[i] = s[i]
  <2> TAKE i \in 1..Len(s)
  <2>1. i \in 1..(Len(s) + Len(t)) /\ i <= Len(s)
    BY <1>2
  <2> QED BY <1>1, <2>1
<1>5. \A i \in 1..(Len(s) + Len(t)) : i \notin 1..Len(s) => i - Len(s) \in 1..Len(t) /\ (s \o t)[i] = t[i - Len(s)]
  <2> SUFFICES ASSUME NEW i \in 1..(Len(s) + Len(t)), i \notin 1..Len(s)
               PROVE  i - Len(s) \in 1..Len(t) /\ (s \o t)[i] = t[i - Len(s)]
    OBVIOUS
  <2>1. i - Len(s) \in 1..Len(t) /\ ~(i <= Len(s))
    BY <1>2
  <2> QED BY <1>1, <2>1
<1>6. (\A i \in DOMAIN t : t[i] \notin T) => Places(s \o t, T) = Places(s, T)
  BY <1>2, <1>3, <1>4, <1>5 DEF Places
<1>7. ASSUME Places(s, T) = {}, \A i \in DOMAIN t : t[i] \in T PROVE Cardinality(Places(s \o t, T)) = Len(t)
  <2>1. Places(s \o t, T) = (Len(s) + 1)..(Len(s) + Len(t))
    <3>1. \A i \in 1..Len(s) : s[i] \notin T
      BY <1>2, <1>7 DEF Places
    <3>2. \A i \in 1..(Len(s) + Len(t)) : (s \o t)[i] \in T <=> i \notin 1..Len(s)
      BY <1>2, <1>4, <1>5, <1>7, <3>1
    <3> QED BY <1>2, <1>3, <3>2 DEF Places
  <2> DEFINE a == Len(s) + 1
             b == Len(s) + Len(t)
  <2>2. a \in Int /\ b \in Int /\ (IF a > b THEN 0 ELSE b - a + 1) = Len(t)
    BY <1>2
  <2> HIDE DEF a, b
  <2>3. Cardinality(a..b) = IF a > b THEN 0 ELSE b - a + 1
    BY <2>2, FS_Interval
  <2>4. Cardinality(a..b) = Len(t)
    BY <2>2, <2>3
  <2> QED BY <2>1, <2>4 DEF a, b
<1> QED BY <1>6, <1>7

\* How the first labels, asked for and made, change with the queue and the
\* table.
LEMMA InitialFinite ==
  ASSUME CatalogTyped
  PROVE  /\ IsFiniteSet(Initial) /\ Cardinality(Initial) \in Nat
         /\ Cardinality(Places(ops, FirstLabel)) \in Nat /\ Cardinality(Places(notifs, NewCatalog)) \in Nat
<1>1. IsFiniteSet(DOMAIN labels)
  BY ListingIs DEF CatalogTyped
<1>2. Initial \in SUBSET DOMAIN labels
  BY DEF Initial
<1>3. IsFiniteSet(Initial) /\ Cardinality(Initial) \in Nat
  BY <1>1, <1>2, FS_Subset, FS_CardinalityType
<1>4. Cardinality(Places(ops, FirstLabel)) \in Nat /\ Cardinality(Places(notifs, NewCatalog)) \in Nat
  BY PlacesFinite DEF CatalogTyped
<1> QED BY <1>3, <1>4

LEMMA NoPlaces ==
  ASSUME NEW S, NEW s \in Seq(S), NEW T
  PROVE  (Places(s, T) = {} <=> Cardinality(Places(s, T)) = 0) /\ Places(<<>>, T) = {} /\ Cardinality({}) = 0
<1>1. IsFiniteSet(Places(s, T))
  BY PlacesFinite
<1> QED BY <1>1, FS_EmptySet DEF Places

\* A step that makes no first label nor asks for one, and sends no
\* notification of a new catalog.
LEMMA InitialOnceKept ==
  ASSUME CatalogTyped, CatalogTyped', InitialOnce,
         "admin" \in schema => "admin" \in schema', Making' => Making \/ "admin" \notin schema,
         Initial' \subseteq Initial,
         Cardinality(Places(ops', FirstLabel)) <= Cardinality(Places(ops, FirstLabel)),
         Cardinality(Places(notifs', NewCatalog)) <= Cardinality(Places(notifs, NewCatalog))
  PROVE  InitialOnce'
<1>1. /\ IsFiniteSet(Initial) /\ Cardinality(Initial) \in Nat
      /\ Cardinality(Places(ops, FirstLabel)) \in Nat /\ Cardinality(Places(notifs, NewCatalog)) \in Nat
  BY InitialFinite
<1>2. Cardinality(Initial') <= Cardinality(Initial) /\ Cardinality(Initial') \in Nat
  <2>1. Initial' \in SUBSET Initial
    OBVIOUS
  <2> QED BY <1>1, <2>1, FS_Subset, FS_CardinalityType
<1>3. Cardinality(Places(ops', FirstLabel)) \in Nat /\ Cardinality(Places(notifs', NewCatalog)) \in Nat
  BY PlacesFinite DEF CatalogTyped
<1>4. /\ Places(ops, FirstLabel) = {} <=> Cardinality(Places(ops, FirstLabel)) = 0
      /\ Places(ops', FirstLabel) = {} <=> Cardinality(Places(ops', FirstLabel)) = 0
  BY NoPlaces DEF CatalogTyped
<1>5. /\ Places(notifs, NewCatalog) = {} <=> Cardinality(Places(notifs, NewCatalog)) = 0
      /\ Places(notifs', NewCatalog) = {} <=> Cardinality(Places(notifs', NewCatalog)) = 0
  BY NoPlaces DEF CatalogTyped
<1>6. NLabel \in Nat
  BY CatalogAssumption
<1>7. Cardinality(Initial') + Cardinality(Places(ops', FirstLabel)) <= NLabel
  BY <1>1, <1>2, <1>3, <1>6 DEF InitialOnce
<1>8. /\ Places(ops, FirstLabel) = {} => Places(ops', FirstLabel) = {}
      /\ Places(notifs, NewCatalog) = {} => Places(notifs', NewCatalog) = {}
      /\ Cardinality(Places(notifs', NewCatalog)) <= 1
  BY <1>1, <1>3, <1>4, <1>5 DEF InitialOnce
<1> QED BY <1>7, <1>8 DEF InitialOnce

LEMMA InitialOnceStep ==
  CatalogTyped /\ CatalogTyped' /\ SchemaInOrder /\ InitialOnce /\ [CatalogNext]_catalog_vars => InitialOnce'
<1> SUFFICES ASSUME CatalogTyped, CatalogTyped', SchemaInOrder, InitialOnce, [CatalogNext]_catalog_vars PROVE InitialOnce'
  OBVIOUS
<1>f. /\ IsFiniteSet(Initial) /\ Cardinality(Initial) \in Nat
      /\ Cardinality(Places(ops, FirstLabel)) \in Nat /\ Cardinality(Places(notifs, NewCatalog)) \in Nat
  BY InitialFinite
<1>g. ops \in Seq(LabelRequest) /\ notifs \in Seq(LabelNews) /\ ops' \in Seq(LabelRequest) /\ notifs' \in Seq(LabelNews)
  BY DEF CatalogTyped
<1>e. (\A T : Places(<<>>, T) = {}) /\ Cardinality({}) = 0
  BY FS_EmptySet DEF Places
<1>n. NLabel \in Nat
  BY CatalogAssumption
<1>t. ops # <<>> => Cardinality(Places(Tail(ops), FirstLabel)) = Cardinality(Places(ops, FirstLabel)) - (IF Head(ops) \in FirstLabel THEN 1 ELSE 0)
  BY <1>g, PlacesTail
<1>d. notifs # <<>> => Cardinality(Places(Tail(notifs), NewCatalog)) = Cardinality(Places(notifs, NewCatalog)) - (IF Head(notifs) \in NewCatalog THEN 1 ELSE 0)
  BY <1>g, PlacesTail
<1>a. \A n \in LabelNews : n.type # "LibCreated" => Cardinality(Places(Append(notifs, n), NewCatalog)) = Cardinality(Places(notifs, NewCatalog))
  <2> SUFFICES ASSUME NEW n \in LabelNews, n.type # "LibCreated"
               PROVE Cardinality(Places(Append(notifs, n), NewCatalog)) = Cardinality(Places(notifs, NewCatalog))
    OBVIOUS
  <2>1. Cardinality(Places(Append(notifs, n), NewCatalog)) = Cardinality(Places(notifs, NewCatalog)) + (IF n \in NewCatalog THEN 1 ELSE 0)
    BY <1>g, PlacesAppend
  <2>2. n \notin NewCatalog
    BY DEF NewCatalog
  <2> QED BY <1>f, <2>1, <2>2
<1>b. \A o \in LabelRequest : ~(o.op = "create" /\ o.name = Default) => Cardinality(Places(Append(ops, o), FirstLabel)) = Cardinality(Places(ops, FirstLabel))
  <2> SUFFICES ASSUME NEW o \in LabelRequest, ~(o.op = "create" /\ o.name = Default)
               PROVE Cardinality(Places(Append(ops, o), FirstLabel)) = Cardinality(Places(ops, FirstLabel))
    OBVIOUS
  <2>1. Cardinality(Places(Append(ops, o), FirstLabel)) = Cardinality(Places(ops, FirstLabel)) + (IF o \in FirstLabel THEN 1 ELSE 0)
    BY <1>g, PlacesAppend
  <2>2. o \notin FirstLabel
    BY DEF FirstLabel
  <2> QED BY <1>f, <2>1, <2>2
<1>1. CASE check_database_version \/ check_version_fails \/ init_db \/ open_fails \/ init_db_fails
  <2>1. UNCHANGED <<labels, ops, notifs>> /\ (Making' => Making \/ "admin" \notin schema)
        /\ ("admin" \in schema => "admin" \in schema')
    <3>1. CASE init_db
      <4>1. UNCHANGED <<labels, ops, notifs>> /\ schema \subseteq schema' /\ worker = "creating"
        BY <3>1 DEF init_db
      <4>2. step = 1 /\ "admin" \in schema => worker' = "dead"
        BY <3>1, SchemaIs DEF init_db
      <4>3. Making \/ "admin" \notin schema \/ step = 1
        BY <4>1 DEF SchemaInOrder
      <4> QED BY <4>1, <4>2, <4>3 DEF Making
    <3>2. CASE check_database_version
      BY <3>2 DEF check_database_version, disk, Making
    <3>3. CASE check_version_fails
      <4>1. step = 1 /\ UNCHANGED <<schema, step, labels, ops, notifs>>
        BY <3>3 DEF check_version_fails, disk, SchemaInOrder
      <4> QED BY <4>1 DEF Making
    <3>4. CASE open_fails \/ init_db_fails
      BY <3>4 DEF open_fails, init_db_fails, disk, Making
    <3> QED BY <1>1, <3>1, <3>2, <3>3, <3>4
  <2>2. Initial' = Initial
    BY <2>1 DEF Initial
  <2>3. /\ Cardinality(Places(ops', FirstLabel)) <= Cardinality(Places(ops, FirstLabel))
        /\ Cardinality(Places(notifs', NewCatalog)) <= Cardinality(Places(notifs, NewCatalog))
    BY <2>1, <1>f
  <2> QED BY <2>1, <2>2, <2>3, InitialOnceKept DEF Making
<1>2. CASE init_db_end
  <2>0. Making /\ step > 17
    <3>1. worker = "creating" /\ step > 17
      BY <1>2, SchemaIs DEF init_db_end
    <3>2. step \in Nat
      BY DEF CatalogTyped
    <3>3. step > 1
      BY <3>1, <3>2
    <3> QED BY <3>1, <3>3 DEF Making
  <2>1. /\ Initial = {} /\ Places(ops, FirstLabel) = {} /\ Places(notifs, NewCatalog) = {}
        /\ worker' = "ready" /\ UNCHANGED <<disk, ops>>
        /\ notifs' = Append(notifs, [type |-> "LibCreated", id |-> 0, name |-> None])
    BY <1>2, <2>0 DEF init_db_end, InitialOnce, Notify
  <2>2. "admin" \in schema
    <3>1. step \in 1..18 /\ step > 17 /\ schema = {Schema[i] : i \in 1..(step - 1)}
      BY <2>0, SchemaIs DEF SchemaInOrder
    <3>2. 1 \in 1..(step - 1)
      BY <3>1
    <3> QED BY <3>1, <3>2, SchemaIs
  <2>3. [type |-> "LibCreated", id |-> 0, name |-> None] \in LabelNews
    BY DEF LabelNews
  <2>4. \E n \in LabelNews : notifs' = Append(notifs, n)
    BY <2>1, <2>3
  <2>5. Cardinality(Places(notifs', NewCatalog)) <= 1
    <3>1. PICK n \in LabelNews : notifs' = Append(notifs, n)
      BY <2>4
    <3>2. Cardinality(Places(notifs', NewCatalog)) = Cardinality(Places(notifs, NewCatalog)) + (IF n \in NewCatalog THEN 1 ELSE 0)
      BY <1>g, <3>1, PlacesAppend
    <3>3. Cardinality(Places(notifs, NewCatalog)) = 0
      BY <2>1, <1>e
    <3> QED BY <3>2, <3>3
  <2>6. Initial' = Initial
    BY <2>1 DEF Initial, disk
  <2>7. Places(ops', FirstLabel) = {} /\ Cardinality(Initial') = 0 /\ Cardinality(Places(ops', FirstLabel)) = 0
    BY <2>1, <2>6, <1>e
  <2>8. ~Making' /\ "admin" \in schema'
    BY <2>1, <2>2 DEF Making, disk
  <2> QED BY <2>5, <2>6, <2>7, <2>8, <1>n, <2>1, <1>e DEF InitialOnce
<1>3. CASE cmd_list_all_labels
  <2>1. UNCHANGED <<disk, worker, step>> /\ ops # <<>> /\ ops' = Tail(ops) /\ worker = "ready"
    BY <1>3 DEF cmd_list_all_labels, Execute
  <2>2. Initial' = Initial
    BY <2>1 DEF Initial, disk
  <2>3. Cardinality(Places(ops', FirstLabel)) <= Cardinality(Places(ops, FirstLabel))
    BY <2>1, <1>t, <1>f
  <2>4. Cardinality(Places(notifs', NewCatalog)) <= Cardinality(Places(notifs, NewCatalog))
    <3> DEFINE l == Listing(labels)
               g == [i \in DOMAIN l |-> [type |-> "AddedLabel", id |-> l[i].id, name |-> l[i].name]]
    <3>1. l \in Seq(Shown)
      BY ListingIs DEF CatalogTyped
    <3>2. \A i \in DOMAIN l : g[i] \in LabelNews /\ g[i] \notin NewCatalog
      <4> HIDE DEF l
      <4>1. \A i \in DOMAIN l : l[i] \in Shown
        BY <3>1
      <4> QED BY <4>1 DEF Shown, LabelNews, NewCatalog
    <3>3. DOMAIN g = DOMAIN l
      OBVIOUS
    <3>4. g \in Seq(LabelNews)
      <4>1. g = [i \in DOMAIN l |-> g[i]]
        OBVIOUS
      <4> HIDE DEF g, l
      <4> QED BY <3>1, <3>2, <4>1
    <3>5. notifs' = notifs \o g \/ notifs' = notifs
      BY <1>3 DEF cmd_list_all_labels
    <3> HIDE DEF g, l
    <3>6. Places(notifs \o g, NewCatalog) = Places(notifs, NewCatalog)
      BY <1>g, <3>2, <3>3, <3>4, PlacesMore
    <3>7. Cardinality(Places(notifs', NewCatalog)) = Cardinality(Places(notifs, NewCatalog))
      BY <3>5, <3>6
    <3> QED BY <3>7, <1>f
  <2> QED BY <2>1, <2>2, <2>3, <2>4, InitialOnceKept DEF Making, disk
<1>4. CASE cmd_create_label
  <2>1. /\ ops # <<>> /\ ops' = Tail(ops) /\ Head(ops).op = "create" /\ worker = "ready" /\ UNCHANGED <<schema, worker>>
        /\ \/ UNCHANGED <<labels, notifs>>
           \/ /\ labels' = [i \in DOMAIN labels \cup {NextLabelId} |-> IF i = NextLabelId THEN Head(ops).name ELSE labels[i]]
              /\ notifs' = Notify("AddedLabel", NextLabelId, Head(ops).name)
              /\ "labels" \in schema
    BY <1>4, Zenon DEF cmd_create_label, Execute, Fails
  <2>2. Head(ops) \in LabelRequest /\ Head(ops).name \in LabelName
    BY <2>1, <1>g, Dropped DEF LabelRequest
  <2>3. CASE UNCHANGED <<labels, notifs>>
    <3>1. Initial' = Initial
      BY <2>3 DEF Initial
    <3>2. /\ Cardinality(Places(ops', FirstLabel)) <= Cardinality(Places(ops, FirstLabel))
          /\ Cardinality(Places(notifs', NewCatalog)) <= Cardinality(Places(notifs, NewCatalog))
      BY <2>1, <2>3, <1>t, <1>f
    <3> QED BY <2>1, <3>1, <3>2, InitialOnceKept DEF Making
  <2>4. CASE /\ labels' = [i \in DOMAIN labels \cup {NextLabelId} |-> IF i = NextLabelId THEN Head(ops).name ELSE labels[i]]
             /\ notifs' = Notify("AddedLabel", NextLabelId, Head(ops).name)
             /\ "labels" \in schema
    <3>0. NextLabelId \notin DOMAIN labels /\ NextLabelId \in Nat
      BY NewIdIsNew
    <3>1. Initial' = IF Head(ops).name = Default THEN Initial \cup {NextLabelId} ELSE Initial
      BY <2>4, <3>0 DEF Initial
    <3>2. [type |-> "AddedLabel", id |-> NextLabelId, name |-> Head(ops).name] \in LabelNews
      BY <2>2, <3>0 DEF LabelNews
    <3>3. Cardinality(Places(notifs', NewCatalog)) = Cardinality(Places(notifs, NewCatalog))
      <4>1. \E n \in LabelNews : n.type # "LibCreated" /\ notifs' = Append(notifs, n)
        BY <2>4, <3>2 DEF Notify
      <4> QED BY <4>1, <1>a
    <3>4. CASE Head(ops).name # Default
      BY <3>1, <3>3, <3>4, <2>1, <1>t, <1>f, InitialOnceKept DEF Making
    <3>5. CASE Head(ops).name = Default
      <4>1. Head(ops) \in FirstLabel /\ Initial' = Initial \cup {NextLabelId} /\ NextLabelId \notin Initial
        BY <2>1, <2>2, <3>0, <3>1, <3>5 DEF FirstLabel, Initial
      <4>2. Cardinality(Initial') = Cardinality(Initial) + 1
        BY <4>1, <1>f, FS_AddElement
      <4>3. Cardinality(Places(ops', FirstLabel)) = Cardinality(Places(ops, FirstLabel)) - 1
        BY <4>1, <2>1, <1>t
      <4>4. Cardinality(Places(ops', FirstLabel)) \in Nat /\ Cardinality(Places(notifs', NewCatalog)) \in Nat
        BY <1>g, PlacesFinite
      <4>5. Places(ops, FirstLabel) # {}
        <5>1. Cardinality(Places(ops, FirstLabel)) # 0
          BY <4>3, <4>4, <1>f
        <5> QED BY <5>1, <1>e
      <4>6. Places(notifs, NewCatalog) = {} /\ ~(Making \/ "admin" \notin schema)
        BY <4>5 DEF InitialOnce
      <4>7. Places(notifs', NewCatalog) = {}
        <5>1. Cardinality(Places(notifs', NewCatalog)) = 0
          BY <3>3, <4>6, <1>e
        <5> QED BY <5>1, <1>g, NoPlaces
      <4>8. Cardinality(Initial') + Cardinality(Places(ops', FirstLabel)) <= NLabel
        BY <4>2, <4>3, <1>f, <1>n DEF InitialOnce
      <4>9. ~Making' /\ "admin" \in schema'
        BY <4>6, <2>1 DEF Making
      <4> QED BY <4>7, <4>8, <4>9, <1>e DEF InitialOnce
    <3> QED BY <3>4, <3>5
  <2> QED BY <2>1, <2>3, <2>4
<1>5. CASE cmd_delete_label
  <2>1. /\ ops # <<>> /\ ops' = Tail(ops) /\ UNCHANGED <<schema, worker, step>>
        /\ \/ UNCHANGED <<labels, notifs>>
           \/ /\ labels' = [i \in DOMAIN labels \ {Head(ops).id} |-> labels[i]]
              /\ notifs' = Notify("LabelDeleted", Head(ops).id, None)
    BY <1>5, Zenon DEF cmd_delete_label, Execute
  <2>2. Initial' \subseteq Initial
    BY <2>1 DEF Initial
  <2>3. Cardinality(Places(ops', FirstLabel)) <= Cardinality(Places(ops, FirstLabel))
    BY <2>1, <1>t, <1>f
  <2>4. Cardinality(Places(notifs', NewCatalog)) <= Cardinality(Places(notifs, NewCatalog))
    <3>1. Head(ops) \in LabelRequest
      BY <2>1, <1>g, Dropped
    <3>2. [type |-> "LabelDeleted", id |-> Head(ops).id, name |-> None] \in LabelNews
      BY <3>1 DEF LabelRequest, LabelNews
    <3>3. notifs' = notifs \/ \E n \in LabelNews : n.type # "LibCreated" /\ notifs' = Append(notifs, n)
      BY <2>1, <3>2 DEF Notify
    <3>4. Cardinality(Places(notifs', NewCatalog)) = Cardinality(Places(notifs, NewCatalog))
      <4>1. CASE notifs' = notifs
        BY <4>1
      <4>2. CASE \E n \in LabelNews : n.type # "LibCreated" /\ notifs' = Append(notifs, n)
        BY <4>2, <1>a
      <4> QED BY <3>3, <4>1, <4>2
    <3> QED BY <3>4, <1>f
  <2> QED BY <2>1, <2>2, <2>3, <2>4, InitialOnceKept DEF Making
<1>6. CASE cmd_update_label
  <2>1. UNCHANGED <<disk, worker, step, notifs>> /\ ops # <<>> /\ ops' = Tail(ops)
    BY <1>6 DEF cmd_update_label, Execute
  <2>2. Initial' = Initial
    BY <2>1 DEF Initial, disk
  <2> QED BY <2>1, <2>2, <1>t, <1>f, InitialOnceKept DEF Making, disk
<1>7. CASE create_initial_labels
  <2>1. notifs # <<>> /\ notifs' = Tail(notifs) /\ Head(notifs).type = "LibCreated" /\ UNCHANGED <<disk, worker, step>>
        /\ ops' = ops \o [i \in Row |-> Request("create", 0, Default, FALSE)]
    BY <1>7 DEF create_initial_labels, Deliver
  <2>2. Head(notifs) \in NewCatalog
    BY <2>1, <1>g, Dropped DEF NewCatalog
  <2>3. Cardinality(Places(notifs', NewCatalog)) = Cardinality(Places(notifs, NewCatalog)) - 1
    BY <2>1, <2>2, <1>d
  <2>4. Cardinality(Places(notifs', NewCatalog)) \in Nat
    BY <1>g, PlacesFinite
  <2>5. Cardinality(Places(notifs', NewCatalog)) = 0 /\ Cardinality(Places(notifs, NewCatalog)) = 1
    BY <2>3, <2>4, <1>f DEF InitialOnce
  <2>6. Places(notifs, NewCatalog) # {} /\ Places(notifs', NewCatalog) = {}
    BY <2>5, <1>e, <1>g, NoPlaces
  <2>7. Initial = {} /\ Places(ops, FirstLabel) = {} /\ ~(Making \/ "admin" \notin schema)
    BY <2>6 DEF InitialOnce
  <2>8. Initial' = {}
    BY <2>1, <2>7 DEF Initial, disk
  <2>9. Cardinality(Places(ops', FirstLabel)) = NLabel
    <3> DEFINE g == [i \in Row |-> Request("create", 0, Default, FALSE)]
    <3>1. Request("create", 0, Default, FALSE) \in FirstLabel
      BY DEF Request, LabelRequest, LabelName, FirstLabel
    <3>2. FirstLabel \subseteq LabelRequest
      BY DEF FirstLabel
    <3>3. \E r \in FirstLabel : g = [i \in Row |-> r]
      BY <3>1, Zenon
    <3> HIDE DEF g
    <3>4. g \in Seq(LabelRequest) /\ Len(g) = NLabel /\ \A i \in DOMAIN g : g[i] \in FirstLabel
      BY <3>2, <3>3, <1>n DEF Row
    <3>5. ops' = ops \o g
      BY <2>1 DEF g
    <3>6. g \in Seq(LabelRequest) /\ ops \in Seq(LabelRequest)
      BY <3>4, <1>g
    <3>7. Places(ops, FirstLabel) = {} /\ \A i \in DOMAIN g : g[i] \in FirstLabel
      BY <2>7, <3>4
    <3>8. Cardinality(Places(ops \o g, FirstLabel)) = Len(g)
      BY ONLY <3>6, <3>7, PlacesMore
    <3> QED BY <3>4, <3>5, <3>8
  <2>x. ~Making' /\ "admin" \in schema'
    BY <2>1, <2>7 DEF Making, disk
  <2>y. Cardinality(Initial') = 0
    BY <2>8, <1>e
  <2> QED BY <2>5, <2>6, <2>8, <2>9, <2>x, <2>y, <1>n DEF InitialOnce
<1>8. CASE addLabel \/ deleteLabel
  <2>1. notifs # <<>> /\ notifs' = Tail(notifs) /\ UNCHANGED <<disk, client>>
    BY <1>8 DEF addLabel, deleteLabel, Deliver
  <2>2. Initial' = Initial
    BY <2>1 DEF Initial, disk
  <2> QED BY <2>1, <2>2, <1>d, <1>f, InitialOnceKept DEF Making, disk, client
<1>9. CASE update_label \/ create_label_sync
  <2>a. UNCHANGED <<disk, worker, step, notifs>> /\ running.todo # <<>>
    BY <1>9 DEF update_label, create_label_sync, Waiting
  <2>b. running.todo \in Seq(LabelCommand)
    BY DEF CatalogTyped
  <2>1. UNCHANGED <<disk, worker, step, notifs>> /\ Head(running.todo) \in LabelCommand
    BY <2>a, <2>b
  <2>2. Initial' = Initial
    BY <2>1 DEF Initial, disk
  <2>3. \E o \in LabelRequest : ~(o.op = "create" /\ o.name = Default) /\ ops' = Append(ops, o)
    <3>1. CASE update_label
      <4>1. Request("update", Head(running.todo).id, None, FALSE) \in LabelRequest
        BY <2>1 DEF Request, LabelRequest, LabelCommand
      <4>2. Request("update", Head(running.todo).id, None, FALSE).op # "create"
        BY DEF Request
      <4> QED BY <3>1, <4>1, <4>2, Zenon DEF update_label
    <3>2. CASE create_label_sync
      <4>0. Head(running.todo).name # Default
        BY <2>1, CatalogAssumption DEF LabelCommand
      <4>1. Request("create", 0, Head(running.todo).name, TRUE) \in LabelRequest
        BY <2>1 DEF Request, LabelRequest, LabelCommand, LabelName
      <4>2. Request("create", 0, Head(running.todo).name, TRUE).name # Default
        BY <4>0 DEF Request
      <4> QED BY <3>2, <4>1, <4>2, Zenon DEF create_label_sync
    <3> QED BY <1>9, <3>1, <3>2
  <2>4. Cardinality(Places(ops', FirstLabel)) = Cardinality(Places(ops, FirstLabel))
    BY <2>3, <1>b
  <2> QED BY <2>1, <2>2, <2>4, <1>f, InitialOnceKept DEF Making, disk
<1>10. CASE undo
  <2>1. UNCHANGED <<disk, worker, step, notifs>> /\ m_undos # <<>> /\ ops' = ops \o Undoing(Head(m_undos))
    BY <1>10 DEF undo, Undoing
  <2>2. Initial' = Initial
    BY <2>1 DEF Initial, disk
  <2>a. m_undos \in Seq(Seq(LabelCommand))
    BY DEF CatalogTyped
  <2>3. Head(m_undos) \in Seq(LabelCommand)
    BY <2>1, <2>a
  <2>4. /\ Undoing(Head(m_undos)) \in Seq(LabelRequest)
        /\ \A i \in DOMAIN Undoing(Head(m_undos)) : Undoing(Head(m_undos))[i] \notin FirstLabel
    <3> DEFINE u == Undoing(Head(m_undos))
               n == Len(Head(m_undos))
               done == Head(m_undos)
    <3>1. /\ u \in Seq(LabelRequest) /\ Len(u) = n
          /\ \A i \in 1..n : u[i].op = IF done[n - i + 1].kind = "create" THEN "delete" ELSE "update"
      BY <2>3, UndoingIs
    <3> HIDE DEF u, n, done
    <3>2. \A i \in DOMAIN u : u[i].op # "create"
      BY <3>1
    <3>3. \A i \in DOMAIN u : u[i] \notin FirstLabel
      BY <3>2 DEF FirstLabel
    <3> QED BY <3>1, <3>3 DEF u
  <2>5. Places(ops', FirstLabel) = Places(ops, FirstLabel)
    BY <2>1, <2>4, <1>g, PlacesMore
  <2> QED BY <2>1, <2>2, <2>5, <1>f, InitialOnceKept DEF Making, disk
<1>11. CASE open_library
  <2>1. UNCHANGED <<disk, notifs>> /\ worker' = "checking" /\ ops' = <<Request("list", 0, None, FALSE)>>
    BY <1>11 DEF open_library
  <2>2. Initial' = Initial
    BY <2>1 DEF Initial, disk
  <2>3. Places(ops', FirstLabel) = {}
    <3>1. Request("list", 0, None, FALSE).op # "create"
      BY DEF Request
    <3>2. Request("list", 0, None, FALSE) \notin FirstLabel
      BY <3>1 DEF FirstLabel
    <3>3. \E r : ops' = <<r>> /\ r \notin FirstLabel
      BY <2>1, <3>2, Zenon
    <3> QED BY <3>3 DEF Places
  <2>4. /\ Cardinality(Places(ops', FirstLabel)) <= Cardinality(Places(ops, FirstLabel))
        /\ Cardinality(Places(notifs', NewCatalog)) <= Cardinality(Places(notifs, NewCatalog))
    <3>1. Cardinality(Places(ops', FirstLabel)) = 0
      BY <2>3, <1>e
    <3>2. notifs' = notifs
      BY <2>1
    <3> QED BY <3>1, <3>2, <1>f
  <2> QED BY <2>1, <2>2, <2>4, InitialOnceKept DEF Making, disk
<1>12. CASE restart_program
  <2>1. UNCHANGED disk /\ worker' = "off" /\ ops' = <<>> /\ notifs' = <<>>
    BY <1>12 DEF restart_program
  <2>2. Initial' = Initial
    BY <2>1 DEF Initial, disk
  <2>3. Places(ops', FirstLabel) = {} /\ Places(notifs', NewCatalog) = {}
    BY <2>1, <1>e
  <2>4. /\ Cardinality(Places(ops', FirstLabel)) <= Cardinality(Places(ops, FirstLabel))
        /\ Cardinality(Places(notifs', NewCatalog)) <= Cardinality(Places(notifs, NewCatalog))
    BY <2>3, <1>e, <1>f
  <2> QED BY <2>1, <2>2, <2>4, InitialOnceKept DEF Making, disk
<1>13. CASE \/ recv \/ redo \/ on_action_edit_labels \/ update_labels
            \/ \E r \in Row, name \in Name \cup {None} : label_name_changed(r, name)
            \/ UNCHANGED catalog_vars
  <2>1. UNCHANGED <<schema, labels, worker, step, ops, notifs>>
    BY <1>13 DEF recv, redo, on_action_edit_labels, update_labels, label_name_changed, catalog_vars, disk, client
  <2>2. Initial' = Initial
    BY <2>1 DEF Initial
  <2> QED BY <2>1, <2>2, <1>f, InitialOnceKept DEF Making
<1> QED BY <1>1, <1>2, <1>3, <1>4, <1>5, <1>6, <1>7, <1>8, <1>9, <1>10, <1>11, <1>12, <1>13
  DEF CatalogNext, Worker, MainLoop, User, Failure

CatalogIInv == CatalogTyped /\ SchemaInOrder /\ InitialOnce

LEMMA CatalogIInvHolds == CatalogSpec => []CatalogIInv
<1>1. CatalogInit => CatalogIInv
  <2> SUFFICES ASSUME CatalogInit PROVE CatalogIInv
    OBVIOUS
  <2>1. CatalogTyped
    BY CatalogTypedInit
  <2>2. Initial = {} /\ Places(ops, FirstLabel) = {} /\ Places(notifs, NewCatalog) = {} /\ Cardinality({}) = 0
    BY FS_EmptySet DEF CatalogInit, Initial, Places
  <2>3. InitialOnce
    BY <2>2, CatalogAssumption DEF InitialOnce
  <2>4. SchemaInOrder
    BY DEF CatalogInit, SchemaInOrder
  <2> QED BY <2>1, <2>3, <2>4 DEF CatalogIInv
<1>2. CatalogIInv /\ [CatalogNext]_catalog_vars => CatalogIInv'
  BY CatalogTypedStep, SchemaInOrderStep, InitialOnceStep DEF CatalogIInv
<1> QED BY <1>1, <1>2, PTL DEF CatalogSpec

\* However often the program ends while it makes a catalog or its labels, the
\* worker meets no table of an earlier attempt, unless the version could not
\* be asked for, and the labels that the program makes are made once.
THEOREM CatalogCreatedOnce == CatalogSpec => []CreatedOnce
<1>1. CatalogIInv => CreatedOnce
  <2> SUFFICES ASSUME CatalogIInv PROVE CreatedOnce
    OBVIOUS
  <2>1. Cardinality(Initial) \in Nat /\ Cardinality(Places(ops, FirstLabel)) \in Nat /\ NLabel \in Nat
    BY InitialFinite, CatalogAssumption DEF CatalogIInv
  <2> QED BY <2>1 DEF CatalogIInv, SchemaInOrder, InitialOnce, CreatedOnce
<1> QED BY <1>1, CatalogIInvHolds, PTL
-----------------------------------------------------------------------------
(* The list of labels is that of the table.                                *)

\* What the next label does to the list of them,
LEMMA ListingAdded ==
  ASSUME NEW table, DOMAIN table \subseteq 1..MaxId, table \in [DOMAIN table -> LabelName],
         NEW x \in 1..MaxId, \A y \in DOMAIN table : y < x, NEW name \in LabelName
  PROVE  Listing([i \in DOMAIN table \cup {x} |-> IF i = x THEN name ELSE table[i]])
           = Append(Listing(table), [id |-> x, name |-> name])
<1> DEFINE more == [i \in DOMAIN table \cup {x} |-> IF i = x THEN name ELSE table[i]]
           D == DOMAIN table
           n == Cardinality(D)
           s == Ordered(D)
           new == [id |-> x, name |-> name]
<1>1. MaxId \in Nat /\ D \subseteq Nat /\ x \in Nat
  BY CatalogAssumption
<1>2. /\ DOMAIN more = D \cup {x} /\ more[x] = name /\ \A y \in D : more[y] = table[y] /\ y # x
      /\ more \in [DOMAIN more -> LabelName] /\ DOMAIN more \subseteq 1..MaxId
  BY <1>1
<1>3. IsFiniteSet(D) /\ Enumerates(s, D) /\ n \in Nat /\ s \in [1..n -> D]
  BY ListingIs, FS_CardinalityType DEF Enumerates
<1>4. Cardinality(D \cup {x}) = n + 1 /\ IsFiniteSet(D \cup {x})
  <2>1. x \notin D
    BY <1>1
  <2> QED BY <1>3, <2>1, FS_AddElement
<1>5. Enumerates(Append(s, x), D \cup {x})
  <2> HIDE DEF D, s
  <2> QED BY <1>1, <1>2, <1>3, EnumeratesMore
<1>6. Ordered(D \cup {x}) = Append(s, x)
  <2>1. D \cup {x} \subseteq 1..MaxId /\ D \cup {x} \subseteq Nat
    BY <1>1
  <2>2. Enumerates(Ordered(D \cup {x}), D \cup {x})
    <3> HIDE DEF D
    <3> QED BY <1>1, <2>1, OrderedEnumerates
  <2> HIDE DEF D, s
  <2> QED BY <1>4, <1>5, <2>1, <2>2, EnumeratesOne
<1>7. /\ DOMAIN Append(s, x) = 1..(n + 1) /\ Append(s, x)[n + 1] = x
      /\ \A i \in 1..n : Append(s, x)[i] = s[i]
  <2>1. s \in Seq(Nat) /\ Len(s) = n
    <3> HIDE DEF D, s, n
    <3> QED BY <1>1, <1>3
  <2> HIDE DEF D, s, n
  <2> QED BY <1>1, <2>1, Appended
<1>8. Listing(table) = [i \in 1..n |-> [id |-> s[i], name |-> table[s[i]]]]
  BY <1>3 DEF Listing
<1>9. Listing(more) = [i \in 1..(n + 1) |-> [id |-> Append(s, x)[i], name |-> more[Append(s, x)[i]]]]
  BY <1>2, <1>6, <1>7 DEF Listing
<1>10. Listing(table) \in Seq(Shown) /\ Len(Listing(table)) = n /\ new \in Shown
  <2>1. new \in Shown
    BY <1>1 DEF Shown
  <2>2. Listing(table) \in Seq(Shown) /\ Len(Listing(table)) = n
    BY ListingIs
  <2> QED BY <2>1, <2>2
<1> DEFINE a == Append(Listing(table), new)
<1>11. DOMAIN a = 1..(n + 1) /\ a[n + 1] = new /\ (\A i \in 1..n : a[i] = Listing(table)[i]) /\ a \in Seq(Shown)
  <2>1. DOMAIN Listing(table) = 1..n
    BY <1>8
  <2> HIDE DEF n, new
  <2> QED BY <1>10, <2>1, Appended
<1>12. a = [i \in 1..(n + 1) |-> a[i]]
  <2>1. \A q \in Seq(Shown) : q = [i \in DOMAIN q |-> q[i]]
    OBVIOUS
  <2> HIDE DEF a, n, new
  <2> QED BY <1>11, <2>1
<1>13. \A i \in 1..(n + 1) : a[i] = [id |-> Append(s, x)[i], name |-> more[Append(s, x)[i]]]
  <2> TAKE i \in 1..(n + 1)
  <2>1. CASE i = n + 1
    BY <1>2, <1>7, <1>11, <2>1
  <2>2. CASE i # n + 1
    <3>1. i \in 1..n
      BY <1>3, <2>2
    <3>2. a[i] = [id |-> s[i], name |-> table[s[i]]]
      BY <1>8, <1>11, <3>1
    <3>3. Append(s, x)[i] = s[i] /\ s[i] \in D
      BY <1>3, <1>7, <3>1
    <3> HIDE DEF a, s, D, more
    <3> QED BY <1>2, <3>2, <3>3
  <2> QED BY <2>1, <2>2
<1>14. Listing(more) = a
  <2> HIDE DEF a, n, s, more, new
  <2> QED BY <1>9, <1>12, <1>13
<1> QED BY <1>14

\* and the end of one.
LEMMA ListingRemoved ==
  ASSUME NEW table, DOMAIN table \subseteq 1..MaxId, table \in [DOMAIN table -> LabelName], NEW x \in DOMAIN table
  PROVE  Listing([i \in DOMAIN table \ {x} |-> table[i]]) = Removed(Listing(table), x)
<1> DEFINE less == [i \in DOMAIN table \ {x} |-> table[i]]
           D == DOMAIN table
           n == Cardinality(D)
           s == Ordered(D)
           l == Listing(table)
           at == {i \in DOMAIN l : l[i].id = x}
           k == CHOOSE i \in at : \A j \in at : i <= j
           t == [i \in 1..(n - 1) |-> IF i < k THEN s[i] ELSE s[i + 1]]
<1>1. MaxId \in Nat /\ D \subseteq Nat /\ x \in Nat
  BY CatalogAssumption
<1>2. /\ DOMAIN less = D \ {x} /\ \A y \in D : y # x => less[y] = table[y]
  OBVIOUS
<1>3. IsFiniteSet(D) /\ Enumerates(s, D) /\ n \in Nat /\ s \in [1..n -> D] /\ DOMAIN s = 1..n
  BY ListingIs, FS_CardinalityType DEF Enumerates
<1>4. IsFiniteSet(D \ {x}) /\ Cardinality(D \ {x}) = n - 1
  BY <1>3, FS_RemoveElement
<1>5. l = [i \in 1..n |-> [id |-> s[i], name |-> table[s[i]]]]
  BY <1>3 DEF Listing
<1>6. \A i \in 1..n : l[i] = [id |-> s[i], name |-> table[s[i]]] /\ l[i].id = s[i]
  BY <1>5
<1>7. l \in Seq(Shown) /\ Len(l) = n /\ DOMAIN l = 1..n
  BY <1>5, ListingIs
<1>8. k \in 1..n /\ s[k] = x
  <2>1. Covers(s, D)
    <3> HIDE DEF D, s
    <3> QED BY <1>1, <1>3, EnumeratesAll
  <2>2. PICK i \in 1..n : s[i] = x
    BY <2>1 DEF Covers
  <2>3. at # {}
    BY <1>6, <1>7, <2>2
  <2>4. at \subseteq Nat
    BY <1>3, <1>7
  <2>5. k \in at
    <3> HIDE DEF at
    <3> QED BY <2>3, <2>4, FirstOf
  <2>6. k \in DOMAIN l /\ l[k].id = x
    BY <2>5
  <2> HIDE DEF k
  <2> QED BY <1>6, <1>7, <2>6
<1>9. Removed(l, x) = RemoveAt(l, k)
  <2>1. at # {}
    <3> HIDE DEF k, l
    <3> QED BY <1>6, <1>7, <1>8
  <2> QED BY <2>1 DEF Removed
<1> HIDE DEF k
<1>10. \A i, j \in 1..n : i < j => s[i] < s[j]
  BY <1>3 DEF Enumerates, Ascends
<1>11. \A i \in 1..n : s[i] \in Nat /\ s[i] \in D
  <2> HIDE DEF s, D, n
  <2> QED BY <1>1, <1>3
<1>12. \A i \in 1..(n - 1) : /\ i \in 1..n /\ i + 1 \in 1..n /\ i < i + 1
                            /\ t[i] = IF i < k THEN s[i] ELSE s[i + 1]
  <2> HIDE DEF s, n
  <2> QED BY <1>3
<1>13. Enumerates(t, D \ {x})
  <2> HIDE DEF n, s, D
  <2>1. \A i \in 1..(n - 1) : t[i] \in D /\ t[i] # x
    <3> TAKE i \in 1..(n - 1)
    <3>1. CASE i < k
      <4>1. s[i] < s[k] /\ t[i] = s[i]
        BY <1>8, <1>10, <1>12, <3>1
      <4> QED BY <1>8, <1>11, <1>12, <4>1
    <3>2. CASE ~(i < k)
      <4>1. k < i + 1 /\ i + 1 \in 1..n /\ t[i] = s[i + 1]
        BY <1>3, <1>8, <1>12, <3>2
      <4>2. s[k] < s[i + 1]
        BY <1>8, <1>10, <4>1
      <4> QED BY <1>8, <1>11, <4>1, <4>2
    <3> QED BY <3>1, <3>2
  <2>2. t \in [1..(n - 1) -> D \ {x}]
    BY <2>1
  <2>3. ASSUME NEW i \in 1..(n - 1), NEW j \in 1..(n - 1), i < j PROVE t[i] < t[j]
    <3>0. /\ i \in 1..n /\ i + 1 \in 1..n /\ i < i + 1 /\ t[i] = IF i < k THEN s[i] ELSE s[i + 1]
          /\ j \in 1..n /\ j + 1 \in 1..n /\ j < j + 1 /\ t[j] = IF j < k THEN s[j] ELSE s[j + 1]
      BY <1>12
    <3>1. i < j + 1 /\ i + 1 < j + 1 /\ (i < k \/ ~(j < k))
      BY <1>3, <1>8, <2>3
    <3>2. s[i] < s[j] /\ s[i] < s[j + 1] /\ s[i + 1] < s[j + 1]
      BY <1>10, <3>0, <3>1, <2>3
    <3> HIDE DEF t
    <3> QED BY <3>0, <3>1, <3>2
  <2>4. DOMAIN t = 1..(n - 1)
    OBVIOUS
  <2> HIDE DEF t
  <2> QED BY <1>4, <2>2, <2>3, <2>4 DEF Enumerates, Ascends
<1>14. Ordered(D \ {x}) = t
  <2>1. D \ {x} \subseteq 1..MaxId /\ D \ {x} \subseteq Nat
    BY <1>1
  <2>2. Enumerates(Ordered(D \ {x}), D \ {x})
    <3> HIDE DEF D
    <3> QED BY <1>1, <2>1, OrderedEnumerates
  <2> HIDE DEF D, t
  <2> QED BY <1>4, <1>13, <2>1, <2>2, EnumeratesOne
<1>15. Listing(less) = [i \in 1..(n - 1) |-> [id |-> t[i], name |-> less[t[i]]]]
  <2>1. DOMAIN t = 1..(n - 1)
    OBVIOUS
  <2> HIDE DEF t, n
  <2> QED BY <1>2, <1>14, <2>1 DEF Listing
<1> DEFINE a == RemoveAt(l, k)
<1>16. /\ a \in Seq(Shown) /\ Len(a) = n - 1
       /\ \A i \in 1..(n - 1) : a[i] = IF i < k THEN l[i] ELSE l[i + 1]
  <2> HIDE DEF l, n
  <2> QED BY <1>7, <1>8, RemoveAtIs
<1>17. a = [i \in 1..(n - 1) |-> a[i]]
  <2>1. \A q \in Seq(Shown) : DOMAIN q = 1..Len(q) /\ q = [i \in DOMAIN q |-> q[i]]
    OBVIOUS
  <2> HIDE DEF a, n
  <2> QED BY <1>16, <2>1
<1>18. \A i \in 1..(n - 1) : a[i] = [id |-> t[i], name |-> less[t[i]]]
  <2> HIDE DEF a, n, s, l, less, D
  <2> TAKE i \in 1..(n - 1)
  <2>1. t[i] \in D /\ t[i] # x
    <3>1. t \in [1..(n - 1) -> D \ {x}]
      BY <1>4, <1>13 DEF Enumerates
    <3> HIDE DEF t
    <3> QED BY <3>1
  <2>2. less[t[i]] = table[t[i]]
    BY <1>2, <2>1
  <2>3. CASE i < k
    <3>1. a[i] = l[i] /\ t[i] = s[i] /\ i \in 1..n
      BY <1>12, <1>16, <2>3
    <3> HIDE DEF t
    <3> QED BY <1>6, <2>2, <3>1
  <2>4. CASE ~(i < k)
    <3>1. a[i] = l[i + 1] /\ t[i] = s[i + 1] /\ i + 1 \in 1..n
      BY <1>12, <1>16, <2>4
    <3> HIDE DEF t
    <3> QED BY <1>6, <2>2, <3>1
  <2> QED BY <2>3, <2>4
<1>19. Listing(less) = a
  <2> HIDE DEF a, n, t, less
  <2> QED BY <1>15, <1>17, <1>18
<1> QED BY <1>9, <1>19

\* What the main loop makes of the list with a notification, and with those
\* that are on their way.
Applied(list, n) ==
  IF n.type = "AddedLabel" THEN Append(list, [id |-> n.id, name |-> n.name])
  ELSE IF n.type = "LabelDeleted" THEN Removed(list, n.id) ELSE list
Follows(h, list, news) ==
  /\ h \in [0..Len(news) -> Seq(Shown)] /\ h[0] = list
  /\ \A i \in 1..Len(news) : h[i] = Applied(h[i - 1], news[i])
Leads(list, news, goal) == \E h : Follows(h, list, news) /\ h[Len(news)] = goal

LEMMA AppliedType == ASSUME NEW list \in Seq(Shown), NEW n \in LabelNews PROVE Applied(list, n) \in Seq(Shown)
<1>1. CASE n.type = "AddedLabel"
  <2>1. [id |-> n.id, name |-> n.name] \in Shown
    BY <1>1 DEF LabelNews, Shown
  <2>2. Append(list, [id |-> n.id, name |-> n.name]) \in Seq(Shown)
    BY <2>1
  <2> QED BY <1>1, <2>2 DEF Applied
<1>2. CASE n.type = "LabelDeleted"
  BY <1>2, RemovedType DEF Applied
<1>3. CASE n.type # "AddedLabel" /\ n.type # "LabelDeleted"
  BY <1>3 DEF Applied
<1> QED BY <1>1, <1>2, <1>3

LEMMA LeadsNowhere == ASSUME NEW list, NEW goal, Leads(list, <<>>, goal) PROVE list = goal
BY DEF Leads, Follows

LEMMA LeadsMore ==
  ASSUME NEW list, NEW news \in Seq(LabelNews), NEW goal, NEW n \in LabelNews, Leads(list, news, goal)
  PROVE  Leads(list, Append(news, n), Applied(goal, n))
<1>1. PICK h : Follows(h, list, news) /\ h[Len(news)] = goal
  BY DEF Leads
<1> DEFINE m == Len(news)
           g == [i \in 0..(m + 1) |-> IF i = m + 1 THEN Applied(goal, n) ELSE h[i]]
           more == Append(news, n)
<1>2. m \in Nat /\ h \in [0..m -> Seq(Shown)] /\ goal \in Seq(Shown) /\ h[0] = list
  BY <1>1 DEF Follows
<1>3. /\ DOMAIN more = 1..(m + 1) /\ more[m + 1] = n /\ more \in Seq(LabelNews)
      /\ \A i \in 1..m : more[i] = news[i]
  <2>1. DOMAIN news = 1..m
    OBVIOUS
  <2> HIDE DEF m
  <2> QED BY <2>1, Appended DEF m
<1>4. Len(more) = m + 1
  OBVIOUS
<1>5. Applied(goal, n) \in Seq(Shown)
  BY <1>2, AppliedType
<1>6. g \in [0..(m + 1) -> Seq(Shown)]
  <2>1. \A i \in 0..(m + 1) : i # m + 1 => i \in 0..m
    <3> HIDE DEF m
    <3> QED BY <1>2
  <2> HIDE DEF m
  <2> QED BY <1>2, <1>5, <2>1
<1>7. g[0] = list /\ g[m + 1] = Applied(goal, n) /\ \A i \in 0..m : g[i] = h[i]
  <2> HIDE DEF m
  <2> QED BY <1>2
<1>8. ASSUME NEW i \in 1..(m + 1) PROVE g[i] = Applied(g[i - 1], more[i])
  <2>1. CASE i = m + 1
    <3>1. i - 1 = m /\ m \in 0..m
      <4> HIDE DEF m
      <4> QED BY <1>2, <2>1
    <3>2. g[m] = goal
      BY <1>1, <1>7, <3>1
    <3> HIDE DEF g, more
    <3> QED BY <1>3, <1>7, <2>1, <3>1, <3>2
  <2>2. CASE i # m + 1
    <3>1. i \in 1..m /\ i \in 0..m /\ i - 1 \in 0..m
      <4> HIDE DEF m
      <4> QED BY <1>2, <2>2
    <3>2. h[i] = Applied(h[i - 1], news[i])
      BY <1>1, <3>1 DEF Follows
    <3> HIDE DEF g, more
    <3> QED BY <1>3, <1>7, <3>1, <3>2
  <2> QED BY <2>1, <2>2
<1> HIDE DEF g, more, m
<1>9. Follows(g, list, more) /\ g[Len(more)] = Applied(goal, n)
  BY <1>4, <1>6, <1>7, <1>8 DEF Follows
<1> QED BY <1>9 DEF Leads, more

LEMMA LeadsLess ==
  ASSUME NEW list, NEW news \in Seq(LabelNews), NEW goal, news # <<>>, Leads(list, news, goal)
  PROVE  Leads(Applied(list, Head(news)), Tail(news), goal)
<1>1. PICK h : Follows(h, list, news) /\ h[Len(news)] = goal
  BY DEF Leads
<1> DEFINE m == Len(news)
           less == Tail(news)
           g == [i \in 0..(m - 1) |-> h[i + 1]]
<1>2. m \in Nat /\ m >= 1 /\ h \in [0..m -> Seq(Shown)] /\ h[0] = list
  BY <1>1 DEF Follows
<1>3. Len(less) = m - 1 /\ Head(news) = news[1] /\ \A i \in 1..(m - 1) : less[i] = news[i + 1]
  OBVIOUS
<1> HIDE DEF less, m
<1>4. g \in [0..(m - 1) -> Seq(Shown)]
  <2>1. \A i \in 0..(m - 1) : i + 1 \in 0..m
    BY <1>2
  <2> QED BY <1>2, <2>1
<1>5. \A i \in 1..m : h[i] = Applied(h[i - 1], news[i])
  BY <1>1 DEF Follows, m
<1>6. g[0] = Applied(list, Head(news))
  <2>1. 1 \in 1..m /\ 0 \in 0..(m - 1)
    BY <1>2
  <2>2. h[1] = Applied(h[1 - 1], news[1])
    BY <1>5, <2>1
  <2> QED BY <1>2, <1>3, <2>1, <2>2
<1>7. ASSUME NEW i \in 1..(m - 1) PROVE g[i] = Applied(g[i - 1], less[i])
  <2>1. i \in 0..(m - 1) /\ i - 1 \in 0..(m - 1) /\ i + 1 \in 1..m /\ (i + 1) - 1 = i /\ (i - 1) + 1 = i
    BY <1>2
  <2>2. g[i] = h[i + 1] /\ g[i - 1] = h[i]
    BY <2>1
  <2>3. h[i + 1] = Applied(h[(i + 1) - 1], news[i + 1])
    BY <1>5, <2>1
  <2> HIDE DEF g
  <2> QED BY <1>3, <2>1, <2>2, <2>3
<1>8. g[m - 1] = goal
  <2>1. m - 1 \in 0..(m - 1) /\ (m - 1) + 1 = m
    BY <1>2
  <2> QED BY <1>1, <2>1 DEF m
<1> HIDE DEF g
<1>9. Follows(g, Applied(list, Head(news)), less) /\ g[Len(less)] = goal
  BY <1>3, <1>4, <1>6, <1>7, <1>8 DEF Follows
<1> QED BY <1>9 DEF Leads, less

\* The list as it is asked for leads to itself.
LEMMA LeadsListed ==
  ASSUME NEW news \in Seq(LabelNews), \A i \in DOMAIN news : news[i].type = "LibCreated", NEW l \in Seq(Shown)
  PROVE  Leads(<<>>, news \o [i \in DOMAIN l |-> [type |-> "AddedLabel", id |-> l[i].id, name |-> l[i].name]], l)
<1> DEFINE m == Len(news)
           k == Len(l)
           a == [i \in DOMAIN l |-> [type |-> "AddedLabel", id |-> l[i].id, name |-> l[i].name]]
           first(j) == [i \in 1..j |-> l[i]]
           g == [i \in 0..(m + k) |-> IF i <= m THEN <<>> ELSE first(i - m)]
<1>1. m \in Nat /\ k \in Nat /\ DOMAIN l = 1..k /\ \A i \in 1..k : l[i] \in Shown
  OBVIOUS
<1>2. a \in Seq(LabelNews) /\ Len(a) = k
  <2> HIDE DEF k
  <2>1. \A i \in 1..k : [type |-> "AddedLabel", id |-> l[i].id, name |-> l[i].name] \in LabelNews
    BY <1>1 DEF Shown, LabelNews
  <2> QED BY <1>1, <2>1
<1>3. \A i \in 1..k : a[i].type = "AddedLabel" /\ [id |-> a[i].id, name |-> a[i].name] = l[i]
  <2> TAKE i \in 1..k
  <2>1. l[i] \in Shown /\ a[i] = [type |-> "AddedLabel", id |-> l[i].id, name |-> l[i].name]
    BY <1>1
  <2>2. [id |-> l[i].id, name |-> l[i].name] = l[i]
    BY <2>1 DEF Shown
  <2> HIDE DEF a
  <2> QED BY <2>1, <2>2
<1> HIDE DEF a
<1>4. /\ news \o a \in Seq(LabelNews) /\ Len(news \o a) = m + k
      /\ \A i \in 1..(m + k) : (news \o a)[i] = IF i <= m THEN news[i] ELSE a[i - m]
  <2>0. news \in Seq(LabelNews) /\ a \in Seq(LabelNews)
    BY <1>2
  <2>1. /\ news \o a \in Seq(LabelNews) /\ Len(news \o a) = Len(news) + Len(a)
        /\ \A i \in 1..Len(news) + Len(a) : (news \o a)[i] = IF i <= Len(news) THEN news[i] ELSE a[i - Len(news)]
    BY <2>0, ConcatProperties
  <2> QED BY <1>2, <2>1
<1>5. \A j \in 0..k : first(j) \in Seq(Shown) /\ Len(first(j)) = j
  <2> SUFFICES ASSUME NEW j \in 0..k PROVE first(j) \in Seq(Shown) /\ Len(first(j)) = j
    OBVIOUS
  <2> HIDE DEF k
  <2>1. j \in Nat /\ \A i \in 1..j : i \in 1..k
    BY <1>1
  <2> QED BY <1>1, <2>1
<1>6. first(0) = <<>> /\ first(k) = l
  <2>1. first(0) = <<>>
    OBVIOUS
  <2>2. l = [i \in 1..k |-> l[i]]
    BY <1>1
  <2> QED BY <2>1, <2>2
<1>7. \A j \in 0..k : j < k => first(j + 1) = Append(first(j), l[j + 1])
  <2> SUFFICES ASSUME NEW j \in 0..k, j < k PROVE first(j + 1) = Append(first(j), l[j + 1])
    OBVIOUS
  <2> DEFINE b == Append(first(j), l[j + 1])
  <2>0. j \in Nat /\ j + 1 \in 1..k /\ \A i \in 1..j : i \in 1..k /\ i # j + 1
    <3> HIDE DEF k
    <3> QED BY <1>1
  <2>1. first(j) \in Seq(Shown) /\ Len(first(j)) = j /\ DOMAIN first(j) = 1..j /\ l[j + 1] \in Shown
    BY <1>1, <1>5, <2>0
  <2>2. /\ b \in Seq(Shown) /\ DOMAIN b = 1..(j + 1) /\ b[j + 1] = l[j + 1]
        /\ \A i \in 1..j : b[i] = first(j)[i]
    <3> HIDE DEF first, k
    <3> QED BY <2>1, Appended
  <2>3. \A i \in 1..j : b[i] = l[i]
    BY <2>2
  <2>4. \A i \in 1..(j + 1) : i \in 1..j \/ i = j + 1
    BY <2>0
  <2>5. \A i \in 1..(j + 1) : b[i] = l[i]
    <3> HIDE DEF b
    <3> QED BY <2>2, <2>3, <2>4
  <2>6. b = [i \in 1..(j + 1) |-> b[i]]
    <3>1. \A q \in Seq(Shown) : q = [i \in DOMAIN q |-> q[i]]
      OBVIOUS
    <3> HIDE DEF b
    <3> QED BY <2>2, <3>1
  <2> HIDE DEF b
  <2> QED BY <2>5, <2>6 DEF b
<1> HIDE DEF m, k
<1>8. g \in [0..(m + k) -> Seq(Shown)] /\ g[0] = <<>>
  <2>1. \A i \in 0..(m + k) : ~(i <= m) => i - m \in 0..k
    BY <1>1
  <2>2. \A i \in 0..(m + k) : g[i] \in Seq(Shown)
    <3> HIDE DEF first
    <3> QED BY <1>5, <2>1
  <2>3. g = [i \in 0..(m + k) |-> g[i]] /\ 0 \in 0..(m + k) /\ 0 <= m
    BY <1>1
  <2> HIDE DEF first
  <2> QED BY <2>2, <2>3
<1>9. ASSUME NEW i \in 1..(m + k) PROVE g[i] = Applied(g[i - 1], (news \o a)[i])
  <2>0. i \in 0..(m + k) /\ i - 1 \in 0..(m + k)
    BY <1>1
  <2>1. CASE i <= m
    <3>1. i - 1 <= m /\ i \in 1..m
      BY <1>1, <2>1
    <3>2. g[i] = <<>> /\ g[i - 1] = <<>>
      <4> HIDE DEF first
      <4> QED BY <2>0, <2>1, <3>1
    <3>3. (news \o a)[i] = news[i] /\ news[i].type = "LibCreated"
      BY <1>4, <2>1, <3>1 DEF m
    <3> HIDE DEF g
    <3> QED BY <3>2, <3>3 DEF Applied
  <2>2. CASE ~(i <= m)
    <3> DEFINE j == i - m - 1
    <3>1. j \in 0..k /\ j < k /\ j + 1 = i - m /\ j + 1 \in 1..k
      BY <1>1, <2>2
    <3>2. g[i] = first(j + 1)
      <4> HIDE DEF first
      <4> QED BY <2>0, <2>2, <3>1
    <3>3. g[i - 1] = first(j)
      <4>1. CASE i - 1 = m
        <5>1. j = 0
          BY <1>1, <4>1
        <5>2. g[i - 1] = <<>>
          <6> HIDE DEF first, j
          <6> QED BY <2>0, <4>1, <1>1
        <5> HIDE DEF g, first, j
        <5> QED BY <1>6, <5>1, <5>2
      <4>2. CASE i - 1 # m
        <5>1. ~(i - 1 <= m) /\ i - 1 - m = j
          BY <1>1, <2>2, <4>2
        <5> HIDE DEF first, j
        <5> QED BY <2>0, <5>1
      <4> QED BY <4>1, <4>2
    <3>4. (news \o a)[i] = a[j + 1]
      BY <1>4, <2>2, <3>1
    <3>5. Applied(first(j), a[j + 1]) = Append(first(j), l[j + 1])
      <4> HIDE DEF first, j
      <4> QED BY <1>3, <3>1 DEF Applied
    <3>6. first(j + 1) = Append(first(j), l[j + 1])
      <4> HIDE DEF first, j
      <4> QED BY <1>7, <3>1
    <3> HIDE DEF g, first, j
    <3> QED BY <3>2, <3>3, <3>4, <3>5, <3>6
  <2> QED BY <2>1, <2>2
<1>10. g[m + k] = l
  <2>1. m + k \in 0..(m + k) /\ (m + k) - m = k /\ (m + k <= m <=> k = 0)
    BY <1>1
  <2>2. g[m + k] = IF k = 0 THEN <<>> ELSE first(k)
    <3> HIDE DEF first
    <3> QED BY <2>1
  <2> HIDE DEF g, first
  <2> QED BY <1>6, <2>2
<1> HIDE DEF g
<1>11. Follows(g, <<>>, news \o a) /\ g[Len(news \o a)] = l
  BY <1>4, <1>8, <1>9, <1>10 DEF Follows
<1> QED BY <1>11 DEF Leads, a

\* The labels are asked for first, and from then on the list, with what is on
\* its way, is that of the table.
ListInv ==
  /\ \A i \in DOMAIN ops : ops[i].op = "list" => i = 1
  /\ worker = "off" => notifs = <<>> /\ m_labels = <<>>
  /\ worker # "off" /\ "list" \notin failed =>
       IF ops # <<>> /\ Head(ops).op = "list"
       THEN m_labels = <<>> /\ \A i \in DOMAIN notifs : notifs[i].type = "LibCreated"
       ELSE Leads(m_labels, notifs, Listing(labels))

\* What is asked for later comes later.
LEMMA ListQueued ==
  ASSUME CatalogTyped, ListInv, NEW t \in Seq(LabelRequest), \A i \in DOMAIN t : t[i].op # "list", ops' = ops \o t
  PROVE  /\ \A i \in DOMAIN ops' : ops'[i].op = "list" => i = 1
         /\ (ops' # <<>> /\ Head(ops').op = "list") <=> (ops # <<>> /\ Head(ops).op = "list")
<1>1. ops' = ops \o t /\ \A i \in DOMAIN t : t[i].op # "list"
  OBVIOUS
<1>2. ops \in Seq(LabelRequest)
  BY DEF CatalogTyped
<1>3. /\ ops \o t \in Seq(LabelRequest) /\ Len(ops \o t) = Len(ops) + Len(t)
      /\ \A i \in 1..Len(ops) + Len(t) : (ops \o t)[i] = IF i <= Len(ops) THEN ops[i] ELSE t[i - Len(ops)]
  BY <1>2, ConcatProperties
<1>4. DOMAIN (ops \o t) = 1..(Len(ops) + Len(t)) /\ Len(ops) \in Nat /\ Len(t) \in Nat /\ DOMAIN ops = 1..Len(ops) /\ DOMAIN t = 1..Len(t)
  BY <1>2, <1>3
<1>5. ASSUME NEW i \in DOMAIN ops', ops'[i].op = "list" PROVE i \in DOMAIN ops /\ ops'[i] = ops[i] /\ i = 1
  <2>1. i \in 1..(Len(ops) + Len(t)) /\ ops'[i] = IF i <= Len(ops) THEN ops[i] ELSE t[i - Len(ops)]
    BY <1>1, <1>3, <1>4, <1>5
  <2>2. i <= Len(ops)
    <3>1. SUFFICES ASSUME ~(i <= Len(ops)) PROVE FALSE
      OBVIOUS
    <3>2. i - Len(ops) \in DOMAIN t
      BY <1>4, <2>1, <3>1
    <3> QED BY <1>1, <1>5, <2>1, <3>1, <3>2
  <2>3. i \in DOMAIN ops /\ ops'[i] = ops[i]
    BY <1>4, <2>1, <2>2
  <2> QED BY <1>5, <2>3 DEF ListInv
<1>6. (ops' # <<>> /\ Head(ops').op = "list") <=> (ops # <<>> /\ Head(ops).op = "list")
  <2>1. ops # <<>> => 1 \in 1..(Len(ops) + Len(t)) /\ 1 <= Len(ops) /\ ops' # <<>> /\ Head(ops') = ops'[1] /\ Head(ops) = ops[1] /\ ops'[1] = ops[1]
    <3> SUFFICES ASSUME ops # <<>>
                 PROVE 1 \in 1..(Len(ops) + Len(t)) /\ 1 <= Len(ops) /\ ops' # <<>> /\ Head(ops') = ops'[1] /\ Head(ops) = ops[1] /\ ops'[1] = ops[1]
      OBVIOUS
    <3>1. Len(ops) \in Nat /\ Len(t) \in Nat /\ 1 <= Len(ops) /\ Head(ops) = ops[1]
      BY <1>2
    <3>2. 1 \in 1..(Len(ops) + Len(t))
      BY <3>1
    <3>3. ops'[1] = ops[1]
      BY <1>1, <1>3, <3>1, <3>2
    <3>4. ops' # <<>>
      <4>1. Len(ops') # 0
        BY <1>1, <1>3, <3>1
      <4> QED BY <4>1
    <3>5. Head(ops') = ops'[1]
      BY <1>1, <1>3, <3>4
    <3> QED BY <3>1, <3>2, <3>3, <3>4, <3>5
  <2>2. ops' # <<>> => 1 \in DOMAIN ops' /\ Head(ops') = ops'[1]
    BY <1>1, <1>3
  <2>3. ops = <<>> => DOMAIN ops = {}
    OBVIOUS
  <2> QED BY <1>5, <2>1, <2>2, <2>3
<1> QED BY <1>5, <1>6

\* A step that at most asks for more.
LEMMA ListKept ==
  ASSUME CatalogTyped, ListInv, UNCHANGED <<labels, notifs, m_labels>>,
         worker' = "off" <=> worker = "off", "list" \in failed => "list" \in failed',
         ops' = ops \/ \E t \in Seq(LabelRequest) : ops' = ops \o t /\ \A i \in DOMAIN t : t[i].op # "list"
  PROVE  ListInv'
<1>1. /\ \A i \in DOMAIN ops' : ops'[i].op = "list" => i = 1
      /\ (ops' # <<>> /\ Head(ops').op = "list") <=> (ops # <<>> /\ Head(ops).op = "list")
  <2>1. CASE ops' = ops
    BY <2>1 DEF ListInv
  <2>2. CASE \E t \in Seq(LabelRequest) : ops' = ops \o t /\ \A i \in DOMAIN t : t[i].op # "list"
    BY <2>2, ListQueued
  <2> QED BY <2>1, <2>2
<1> QED BY <1>1 DEF ListInv

\* The worker takes an operation that is not the first listing.
LEMMA ListTaken ==
  ASSUME CatalogTyped, ListInv, ops # <<>>, ops' = Tail(ops)
  PROVE  /\ \A i \in DOMAIN ops' : ops'[i].op # "list"
         /\ ~(ops' # <<>> /\ Head(ops').op = "list")
<1>0. ops \in Seq(LabelRequest)
  BY DEF CatalogTyped
<1>1. /\ ops' \in Seq(LabelRequest) /\ \A i \in DOMAIN ops' : i + 1 \in DOMAIN ops /\ ops'[i] = ops[i + 1] /\ i \in Nat
  BY <1>0, Dropped
<1>2. ASSUME NEW i \in DOMAIN ops' PROVE ops'[i].op # "list" /\ i \in Nat /\ i # 0
  <2>1. i + 1 \in DOMAIN ops /\ ops'[i] = ops[i + 1] /\ i \in 1..Len(ops')
    BY <1>1
  <2>2. i + 1 # 1
    BY <2>1
  <2> QED BY <2>1, <2>2 DEF ListInv
<1>3. ops' # <<>> => 1 \in DOMAIN ops' /\ Head(ops') = ops'[1]
  BY <1>1
<1> QED BY <1>2, <1>3

LEMMA ListInvStep == CatalogTyped /\ CatalogTyped' /\ ListInv /\ [CatalogNext]_catalog_vars => ListInv'
<1> SUFFICES ASSUME CatalogTyped, CatalogTyped', ListInv, [CatalogNext]_catalog_vars PROVE ListInv'
  OBVIOUS
<1>g. /\ ops \in Seq(LabelRequest) /\ notifs \in Seq(LabelNews) /\ m_labels \in Seq(Shown)
      /\ DOMAIN labels \subseteq 1..MaxId /\ labels \in [DOMAIN labels -> LabelName]
  BY DEF CatalogTyped
<1>l. Listing(labels) \in Seq(Shown)
  BY <1>g, ListingIs
<1>1. CASE check_database_version \/ check_version_fails \/ init_db \/ open_fails \/ init_db_fails
  <2>1. UNCHANGED <<labels, notifs, m_labels>> /\ ops' = ops /\ worker # "off" /\ worker' # "off" /\ ("list" \in failed => "list" \in failed')
    BY <1>1 DEF check_database_version, check_version_fails, init_db, open_fails, init_db_fails, disk, ui, CatalogTyped
  <2> QED BY <2>1, ListKept
<1>2. CASE init_db_end
  <2>1. /\ UNCHANGED <<labels, ops, m_labels, failed>> /\ worker # "off" /\ worker' # "off"
        /\ notifs' = Append(notifs, [type |-> "LibCreated", id |-> 0, name |-> None])
    BY <1>2 DEF init_db_end, Notify, disk, ui
  <2>2. [type |-> "LibCreated", id |-> 0, name |-> None] \in LabelNews
    BY DEF LabelNews
  <2>3. PICK n \in LabelNews : notifs' = Append(notifs, n) /\ n.type = "LibCreated"
    BY <2>1, <2>2
  <2>4. ASSUME Leads(m_labels, notifs, Listing(labels)) PROVE Leads(m_labels', notifs', Listing(labels)')
    <3>1. Leads(m_labels, Append(notifs, n), Applied(Listing(labels), n))
      BY <1>g, <2>4, LeadsMore
    <3>2. Applied(Listing(labels), n) = Listing(labels)
      BY <2>3 DEF Applied
    <3> QED BY <2>1, <2>3, <3>1, <3>2
  <2>5. (\A i \in DOMAIN notifs : notifs[i].type = "LibCreated") => \A i \in DOMAIN notifs' : notifs'[i].type = "LibCreated"
    BY <1>g, <2>3, Appended
  <2> QED BY <2>1, <2>4, <2>5 DEF ListInv
<1>3. CASE cmd_list_all_labels
  <2>1. /\ ops # <<>> /\ Head(ops).op = "list" /\ ops' = Tail(ops) /\ worker = "ready"
        /\ UNCHANGED <<labels, worker, m_labels>>
    BY <1>3 DEF cmd_list_all_labels, Execute, disk, ui
  <2>2. /\ \A i \in DOMAIN ops' : ops'[i].op # "list"
        /\ ~(ops' # <<>> /\ Head(ops').op = "list")
    BY <2>1, ListTaken
  <2>3. CASE "list" \in failed'
    BY <2>1, <2>2, <2>3 DEF ListInv
  <2>4. CASE "list" \notin failed'
    <3> DEFINE l == Listing(labels)
    <3>1. /\ failed' = failed
          /\ notifs' = notifs \o [i \in DOMAIN l |-> [type |-> "AddedLabel", id |-> l[i].id, name |-> l[i].name]]
      BY <1>3, <2>4 DEF cmd_list_all_labels
    <3>2. m_labels = <<>> /\ \A i \in DOMAIN notifs : notifs[i].type = "LibCreated"
      BY <2>1, <2>4, <3>1 DEF ListInv
    <3>3. Leads(<<>>, notifs', l)
      <4> HIDE DEF l
      <4>1. l \in Seq(Shown)
        BY <1>l DEF l
      <4> QED BY <1>g, <3>1, <3>2, <4>1, LeadsListed
    <3>4. Leads(m_labels', notifs', Listing(labels)')
      BY <2>1, <3>2, <3>3
    <3> QED BY <2>1, <2>2, <3>4 DEF ListInv
  <2> QED BY <2>3, <2>4
<1>4. CASE cmd_create_label
  <2>1. /\ ops # <<>> /\ Head(ops).op = "create" /\ ops' = Tail(ops) /\ worker = "ready" /\ NextLabelId <= MaxId
        /\ UNCHANGED <<worker, m_labels>> /\ ("list" \in failed => "list" \in failed')
        /\ \/ UNCHANGED <<labels, notifs>>
           \/ /\ labels' = [i \in DOMAIN labels \cup {NextLabelId} |-> IF i = NextLabelId THEN Head(ops).name ELSE labels[i]]
              /\ notifs' = Notify("AddedLabel", NextLabelId, Head(ops).name)
    <3>1. /\ ops # <<>> /\ Head(ops).op = "create" /\ ops' = Tail(ops) /\ worker = "ready" /\ NextLabelId <= MaxId
          /\ UNCHANGED <<worker, m_labels>>
      BY <1>4 DEF cmd_create_label, Execute
    <3>2. failed' = failed \/ failed' = failed \cup {"create"}
      BY <1>4, Zenon DEF cmd_create_label
    <3>3. \/ UNCHANGED <<labels, notifs>>
          \/ /\ labels' = [i \in DOMAIN labels \cup {NextLabelId} |-> IF i = NextLabelId THEN Head(ops).name ELSE labels[i]]
             /\ notifs' = Notify("AddedLabel", NextLabelId, Head(ops).name)
      BY <1>4, Zenon DEF cmd_create_label
    <3> QED BY <3>1, <3>2, <3>3
  <2>2. /\ \A i \in DOMAIN ops' : ops'[i].op # "list"
        /\ ~(ops' # <<>> /\ Head(ops').op = "list")
    BY <2>1, ListTaken
  <2>3. "list" \notin failed => Leads(m_labels, notifs, Listing(labels))
    BY <2>1 DEF ListInv
  <2>4. CASE UNCHANGED <<labels, notifs>>
    BY <2>1, <2>2, <2>3, <2>4 DEF ListInv
  <2>5. CASE /\ labels' = [i \in DOMAIN labels \cup {NextLabelId} |-> IF i = NextLabelId THEN Head(ops).name ELSE labels[i]]
             /\ notifs' = Notify("AddedLabel", NextLabelId, Head(ops).name)
    <3>1. Head(ops) \in LabelRequest /\ Head(ops).name \in LabelName
      BY <2>1, <1>g, Dropped DEF LabelRequest
    <3>2. NextLabelId \in 1..MaxId /\ NextLabelId \in Int /\ \A y \in DOMAIN labels : y < NextLabelId
      BY <2>1, NewIdIsNew, CatalogAssumption
    <3>3. Listing(labels') = Append(Listing(labels), [id |-> NextLabelId, name |-> Head(ops).name])
      BY <1>g, <2>5, <3>1, <3>2, ListingAdded
    <3>4. [type |-> "AddedLabel", id |-> NextLabelId, name |-> Head(ops).name] \in LabelNews
      BY <3>1, <3>2 DEF LabelNews
    <3>5. PICK n \in LabelNews : /\ notifs' = Append(notifs, n) /\ n.type = "AddedLabel"
                                 /\ n.id = NextLabelId /\ n.name = Head(ops).name
      BY <2>5, <3>4 DEF Notify
    <3>6. ASSUME "list" \notin failed PROVE Leads(m_labels, notifs', Listing(labels'))
      <4>1. Leads(m_labels, Append(notifs, n), Applied(Listing(labels), n))
        BY <1>g, <2>3, <3>6, LeadsMore
      <4>2. Applied(Listing(labels), n) = Listing(labels')
        BY <3>3, <3>5 DEF Applied
      <4> QED BY <3>5, <4>1, <4>2
    <3>7. Listing(labels)' = Listing(labels')
      OBVIOUS
    <3>8. "list" \notin failed' => Leads(m_labels', notifs', Listing(labels)')
      BY <2>1, <3>6, <3>7
    <3> QED BY <2>1, <2>2, <3>8 DEF ListInv
  <2> QED BY <2>1, <2>4, <2>5
<1>5. CASE cmd_delete_label
  <2>1. /\ ops # <<>> /\ Head(ops).op = "delete" /\ ops' = Tail(ops) /\ worker = "ready"
        /\ UNCHANGED <<worker, m_labels>> /\ ("list" \in failed => "list" \in failed')
        /\ \/ UNCHANGED <<labels, notifs>>
           \/ /\ Head(ops).id \in DOMAIN labels
              /\ labels' = [i \in DOMAIN labels \ {Head(ops).id} |-> labels[i]]
              /\ notifs' = Notify("LabelDeleted", Head(ops).id, None)
    <3>1. /\ ops # <<>> /\ Head(ops).op = "delete" /\ ops' = Tail(ops) /\ worker = "ready"
          /\ UNCHANGED <<worker, m_labels>>
      BY <1>5 DEF cmd_delete_label, Execute, ui
    <3>2. failed' = failed \/ failed' = failed \cup {"delete"}
      BY <1>5, Zenon DEF cmd_delete_label
    <3>3. \/ UNCHANGED <<labels, notifs>>
          \/ /\ Head(ops).id \in DOMAIN labels
             /\ labels' = [i \in DOMAIN labels \ {Head(ops).id} |-> labels[i]]
             /\ notifs' = Notify("LabelDeleted", Head(ops).id, None)
      BY <1>5, Zenon DEF cmd_delete_label
    <3> QED BY <3>1, <3>2, <3>3
  <2>2. /\ \A i \in DOMAIN ops' : ops'[i].op # "list"
        /\ ~(ops' # <<>> /\ Head(ops').op = "list")
    BY <2>1, ListTaken
  <2>3. "list" \notin failed => Leads(m_labels, notifs, Listing(labels))
    BY <2>1 DEF ListInv
  <2>4. CASE UNCHANGED <<labels, notifs>>
    BY <2>1, <2>2, <2>3, <2>4 DEF ListInv
  <2>5. CASE /\ Head(ops).id \in DOMAIN labels
             /\ labels' = [i \in DOMAIN labels \ {Head(ops).id} |-> labels[i]]
             /\ notifs' = Notify("LabelDeleted", Head(ops).id, None)
    <3>1. Head(ops) \in LabelRequest
      BY <2>1, <1>g, Dropped
    <3>3. Listing(labels') = Removed(Listing(labels), Head(ops).id)
      BY <1>g, <2>5, ListingRemoved
    <3>4. [type |-> "LabelDeleted", id |-> Head(ops).id, name |-> None] \in LabelNews
      BY <3>1 DEF LabelNews, LabelRequest
    <3>5. PICK n \in LabelNews : notifs' = Append(notifs, n) /\ n.type = "LabelDeleted" /\ n.id = Head(ops).id
      BY <2>5, <3>4 DEF Notify
    <3>6. ASSUME "list" \notin failed PROVE Leads(m_labels, notifs', Listing(labels'))
      <4>1. Leads(m_labels, Append(notifs, n), Applied(Listing(labels), n))
        BY <1>g, <2>3, <3>6, LeadsMore
      <4>2. Applied(Listing(labels), n) = Listing(labels')
        BY <3>3, <3>5 DEF Applied
      <4> QED BY <3>5, <4>1, <4>2
    <3>7. Listing(labels)' = Listing(labels')
      OBVIOUS
    <3>8. "list" \notin failed' => Leads(m_labels', notifs', Listing(labels)')
      BY <2>1, <3>6, <3>7
    <3> QED BY <2>1, <2>2, <3>8 DEF ListInv
  <2> QED BY <2>1, <2>4, <2>5
<1>6. CASE cmd_update_label
  <2>1. ops # <<>> /\ Head(ops).op = "update" /\ ops' = Tail(ops) /\ worker = "ready" /\ UNCHANGED <<labels, worker, notifs, m_labels, failed>>
    BY <1>6 DEF cmd_update_label, Execute, disk, ui
  <2>2. /\ \A i \in DOMAIN ops' : ops'[i].op # "list"
        /\ ~(ops' # <<>> /\ Head(ops').op = "list")
    BY <2>1, ListTaken
  <2> QED BY <2>1, <2>2 DEF ListInv
<1>7. CASE create_initial_labels
  <2> DEFINE t == [i \in Row |-> Request("create", 0, Default, FALSE)]
  <2>1. /\ notifs # <<>> /\ notifs' = Tail(notifs) /\ Head(notifs).type = "LibCreated"
        /\ UNCHANGED <<labels, worker, m_labels, failed>> /\ ops' = ops \o t
    BY <1>7 DEF create_initial_labels, Deliver, disk, ui
  <2>2. t \in Seq(LabelRequest) /\ \A i \in DOMAIN t : t[i].op # "list"
    <3>1. Request("create", 0, Default, FALSE) \in LabelRequest /\ Request("create", 0, Default, FALSE).op # "list"
      BY DEF Request, LabelRequest, LabelName
    <3>2. \E r \in LabelRequest : r.op # "list" /\ t = [i \in Row |-> r]
      BY <3>1, Zenon
    <3> HIDE DEF t
    <3> QED BY <3>2, CatalogAssumption DEF Row
  <2>3. /\ Head(notifs) \in LabelNews /\ Tail(notifs) \in Seq(LabelNews)
        /\ \A i \in DOMAIN Tail(notifs) : i + 1 \in DOMAIN notifs /\ Tail(notifs)[i] = notifs[i + 1]
    BY <1>g, <2>1, Dropped
  <2>4. ASSUME Leads(m_labels, notifs, Listing(labels)) PROVE Leads(m_labels, Tail(notifs), Listing(labels))
    <3>1. Leads(Applied(m_labels, Head(notifs)), Tail(notifs), Listing(labels))
      BY <1>g, <2>1, <2>4, LeadsLess
    <3>2. Applied(m_labels, Head(notifs)) = m_labels
      BY <2>1 DEF Applied
    <3> QED BY <3>1, <3>2
  <2>5. (\A i \in DOMAIN notifs : notifs[i].type = "LibCreated") => \A i \in DOMAIN notifs' : notifs'[i].type = "LibCreated"
    BY <2>1, <2>3
  <2>6. worker # "off"
    BY <2>1 DEF ListInv
  <2> HIDE DEF t
  <2> QED BY <1>g, <2>1, <2>2, <2>4, <2>5, <2>6, ListQueued DEF ListInv
<1>8. CASE addLabel \/ deleteLabel
  <2>1. /\ notifs # <<>> /\ notifs' = Tail(notifs) /\ Head(notifs).type # "LibCreated"
        /\ UNCHANGED <<labels, worker, ops, failed>> /\ m_labels' = Applied(m_labels, Head(notifs))
    BY <1>8 DEF addLabel, deleteLabel, Deliver, disk, client, Applied, Removed
  <2>2. worker # "off"
    BY <2>1 DEF ListInv
  <2>3. Head(notifs) = notifs[1] /\ 1 \in DOMAIN notifs
    BY <1>g, <2>1, Dropped
  <2>4. Leads(m_labels, notifs, Listing(labels)) => Leads(m_labels', Tail(notifs), Listing(labels))
    BY <1>g, <2>1, LeadsLess
  <2> QED BY <2>1, <2>2, <2>3, <2>4 DEF ListInv
<1>9. CASE update_label \/ create_label_sync
  <2>a. UNCHANGED <<labels, notifs, m_labels, worker, failed>> /\ running.todo # <<>>
    BY <1>9 DEF update_label, create_label_sync, Waiting, disk, ui
  <2>b. running.todo \in Seq(LabelCommand)
    BY DEF CatalogTyped
  <2>c. Head(running.todo) \in LabelCommand
    BY <2>a, <2>b
  <2>3. \E o \in LabelRequest : o.op # "list" /\ ops' = Append(ops, o)
    <3>1. CASE update_label
      <4>1. Request("update", Head(running.todo).id, None, FALSE) \in LabelRequest
        BY <2>c DEF Request, LabelRequest, LabelCommand
      <4>2. Request("update", Head(running.todo).id, None, FALSE).op # "list"
        BY DEF Request
      <4> QED BY <3>1, <4>1, <4>2, Zenon DEF update_label
    <3>2. CASE create_label_sync
      <4>1. Request("create", 0, Head(running.todo).name, TRUE) \in LabelRequest
        BY <2>c DEF Request, LabelRequest, LabelCommand, LabelName
      <4>2. Request("create", 0, Head(running.todo).name, TRUE).op # "list"
        BY DEF Request
      <4> QED BY <3>2, <4>1, <4>2, Zenon DEF create_label_sync
    <3> QED BY <1>9, <3>1, <3>2
  <2>4. PICK o \in LabelRequest : o.op # "list" /\ ops' = Append(ops, o)
    BY <2>3
  <2>5. <<o>> \in Seq(LabelRequest) /\ ops' = ops \o <<o>> /\ \A i \in DOMAIN <<o>> : <<o>>[i].op # "list"
    BY <1>g, <2>4
  <2> QED BY <2>a, <2>5, ListKept
<1>10. CASE undo
  <2>1. UNCHANGED <<labels, notifs, m_labels, worker, failed>> /\ m_undos # <<>> /\ ops' = ops \o Undoing(Head(m_undos))
    BY <1>10 DEF undo, Undoing, disk
  <2>a. m_undos \in Seq(Seq(LabelCommand))
    BY DEF CatalogTyped
  <2>3. Head(m_undos) \in Seq(LabelCommand)
    BY <2>1, <2>a
  <2> DEFINE u == Undoing(Head(m_undos))
             n == Len(Head(m_undos))
             done == Head(m_undos)
  <2>4. /\ u \in Seq(LabelRequest) /\ Len(u) = n
        /\ \A i \in 1..n : u[i].op = IF done[n - i + 1].kind = "create" THEN "delete" ELSE "update"
    BY <2>3, UndoingIs
  <2>5. ops' = ops \o u
    BY <2>1
  <2> HIDE DEF u, n, done
  <2>6. \A i \in DOMAIN u : u[i].op # "list"
    BY <2>4
  <2> QED BY <2>1, <2>4, <2>5, <2>6, ListKept
<1>11. CASE open_library
  <2>1. /\ UNCHANGED <<labels, notifs, m_labels, failed>> /\ worker = "off" /\ worker' = "checking"
        /\ ops' = <<Request("list", 0, None, FALSE)>>
    BY <1>11 DEF open_library, disk, ui
  <2>2. Request("list", 0, None, FALSE).op = "list"
    BY DEF Request
  <2>3. PICK r : ops' = <<r>> /\ r.op = "list"
    BY <2>1, <2>2, Zenon
  <2>4. ops' # <<>> /\ Head(ops') = r /\ \A i \in DOMAIN ops' : i = 1
    BY <2>3
  <2>5. m_labels' = <<>> /\ notifs' = <<>>
    BY <2>1 DEF ListInv
  <2>6. \A i \in DOMAIN notifs' : notifs'[i].type = "LibCreated"
    BY <2>5
  <2> QED BY <2>1, <2>3, <2>4, <2>5, <2>6 DEF ListInv
<1>12. CASE restart_program
  BY <1>12 DEF restart_program, ListInv
<1>13. CASE \/ recv \/ redo \/ on_action_edit_labels \/ update_labels
            \/ \E r \in Row, name \in Name \cup {None} : label_name_changed(r, name)
            \/ UNCHANGED catalog_vars
  <2>1. UNCHANGED <<labels, worker, ops, notifs, m_labels, failed>>
    BY <1>13 DEF recv, redo, on_action_edit_labels, update_labels, label_name_changed, catalog_vars, disk, client, ui
  <2> QED BY <2>1 DEF ListInv
<1> QED BY <1>1, <1>2, <1>3, <1>4, <1>5, <1>6, <1>7, <1>8, <1>9, <1>10, <1>11, <1>12, <1>13
  DEF CatalogNext, Worker, MainLoop, User, Failure

\* Once all that was asked for is done, the labels shown are those of the
\* table, in the order of their ids.
THEOREM CatalogLabelsFollow == CatalogSpec => []LabelsFollow
<1>1. CatalogInit => ListInv
  BY DEF CatalogInit, ListInv
<1>2. CatalogIInv /\ CatalogIInv' /\ ListInv /\ [CatalogNext]_catalog_vars => ListInv'
  BY ListInvStep DEF CatalogIInv
<1>3. ListInv => LabelsFollow
  BY LeadsNowhere DEF ListInv, LabelsFollow, Quiet
<1> QED BY <1>1, <1>2, <1>3, CatalogIInvHolds, PTL DEF CatalogSpec
-----------------------------------------------------------------------------
(* Undo: whose the labels are.                                             *)

\* Commands that made a label, and operations that delete one.
OwnCommand == {c \in LabelCommand : c.kind = "create" /\ c.id # -1}
UndoRequest == {o \in LabelRequest : o.op = "delete" /\ o.id # -1}

\* Transactions that made different labels, which are there by their names.
AllIds(ss) == UNION {Ids(ss[t], OwnCommand) : t \in DOMAIN ss}
Exact(ss) ==
  /\ \A t \in DOMAIN ss : Apart(ss[t], OwnCommand)
  /\ \A t, u \in DOMAIN ss : t # u => Ids(ss[t], OwnCommand) \cap Ids(ss[u], OwnCommand) = {}
NamedIn(table) == {c \in LabelCommand : c.id \in DOMAIN table /\ table[c.id] = c.name}
Named(s, table) == \A i \in Places(s, OwnCommand) : s[i] \in NamedIn(table)

LEMMA ExactCons ==
  ASSUME NEW s \in Seq(LabelCommand), NEW ss \in Seq(Seq(LabelCommand)), NEW table, Exact(ss), Apart(s, OwnCommand),
         Ids(s, OwnCommand) \cap AllIds(ss) = {}, Named(s, table), \A t \in DOMAIN ss : Named(ss[t], table)
  PROVE  /\ Exact(<<s>> \o ss) /\ AllIds(<<s>> \o ss) = Ids(s, OwnCommand) \cup AllIds(ss)
         /\ \A t \in DOMAIN (<<s>> \o ss) : Named((<<s>> \o ss)[t], table)
<1> DEFINE c == <<s>> \o ss
           S == Seq(LabelCommand)
<1>1. /\ c \in Seq(S) /\ Len(c) = Len(<<s>>) + Len(ss)
      /\ \A i \in 1 .. Len(<<s>>) + Len(ss) : c[i] = IF i <= Len(<<s>>) THEN <<s>>[i] ELSE ss[i - Len(<<s>>)]
  <2>1. <<s>> \in Seq(S) /\ ss \in Seq(S)
    OBVIOUS
  <2> HIDE DEF S
  <2> QED BY <2>1, ConcatProperties
<1>2. Len(<<s>>) = 1 /\ <<s>>[1] = s /\ Len(ss) \in Nat /\ DOMAIN ss = 1..Len(ss)
  OBVIOUS
<1> HIDE DEF c, S
<1>3. DOMAIN c = 1..(1 + Len(ss))
  BY <1>1, <1>2
<1>4. 1 \in DOMAIN c /\ c[1] = s
  BY <1>1, <1>2, <1>3
<1>5. \A i \in DOMAIN c : i # 1 => i - 1 \in DOMAIN ss /\ c[i] = ss[i - 1] /\ i \in Int
  <2> SUFFICES ASSUME NEW i \in 1..(1 + Len(ss)), i # 1 PROVE i - 1 \in DOMAIN ss /\ c[i] = ss[i - 1] /\ i \in Int
    BY <1>3
  <2>1. i - 1 \in DOMAIN ss /\ ~(i <= 1) /\ i \in Int
    BY <1>2
  <2> QED BY <1>1, <1>2, <2>1
<1>6. \A i \in DOMAIN ss : i + 1 \in DOMAIN c /\ c[i + 1] = ss[i]
  <2> SUFFICES ASSUME NEW i \in 1..Len(ss) PROVE i + 1 \in DOMAIN c /\ c[i + 1] = ss[i]
    BY <1>2
  <2>1. i + 1 \in DOMAIN c /\ i + 1 # 1 /\ (i + 1) - 1 = i
    BY <1>2, <1>3
  <2> QED BY <1>5, <2>1
<1>7. AllIds(c) = Ids(s, OwnCommand) \cup AllIds(ss)
  <2>1. ASSUME NEW x \in AllIds(c) PROVE x \in Ids(s, OwnCommand) \cup AllIds(ss)
    <3>1. PICK i \in DOMAIN c : x \in Ids(c[i], OwnCommand)
      BY DEF AllIds
    <3> QED BY <1>4, <1>5, <3>1 DEF AllIds
  <2>2. ASSUME NEW x \in AllIds(ss) PROVE x \in AllIds(c)
    <3>1. PICK i \in DOMAIN ss : x \in Ids(ss[i], OwnCommand)
      BY DEF AllIds
    <3> QED BY <1>6, <3>1 DEF AllIds
  <2>3. Ids(s, OwnCommand) \subseteq AllIds(c)
    BY <1>4 DEF AllIds
  <2> QED BY <2>1, <2>2, <2>3
<1>8. \A t \in DOMAIN c : Apart(c[t], OwnCommand) /\ Named(c[t], table)
  BY <1>4, <1>5 DEF Exact
<1>9. ASSUME NEW t \in DOMAIN c, NEW u \in DOMAIN c, t # u PROVE Ids(c[t], OwnCommand) \cap Ids(c[u], OwnCommand) = {}
  <2>1. \A v \in DOMAIN ss : Ids(ss[v], OwnCommand) \subseteq AllIds(ss)
    BY DEF AllIds
  <2>2. CASE t = 1
    <3>1. u - 1 \in DOMAIN ss /\ c[u] = ss[u - 1] /\ c[t] = s
      BY <1>4, <1>5, <1>9, <2>2
    <3> QED BY <2>1, <3>1
  <2>3. CASE u = 1
    <3>1. t - 1 \in DOMAIN ss /\ c[t] = ss[t - 1] /\ c[u] = s
      BY <1>4, <1>5, <1>9, <2>3
    <3> QED BY <2>1, <3>1
  <2>4. CASE t # 1 /\ u # 1
    <3>1. /\ t - 1 \in DOMAIN ss /\ c[t] = ss[t - 1] /\ t \in Int
          /\ u - 1 \in DOMAIN ss /\ c[u] = ss[u - 1] /\ u \in Int
      BY <1>5, <2>4
    <3>2. t - 1 # u - 1
      BY <1>9, <3>1
    <3> QED BY <3>1, <3>2 DEF Exact
  <2> QED BY <2>2, <2>3, <2>4
<1> QED BY <1>7, <1>8, <1>9 DEF Exact, c

LEMMA ExactSplit ==
  ASSUME NEW ss \in Seq(Seq(LabelCommand)), ss # <<>>, NEW table, Exact(ss), \A t \in DOMAIN ss : Named(ss[t], table)
  PROVE  /\ Tail(ss) \in Seq(Seq(LabelCommand)) /\ Head(ss) \in Seq(LabelCommand)
         /\ Exact(Tail(ss)) /\ Apart(Head(ss), OwnCommand)
         /\ AllIds(ss) = Ids(Head(ss), OwnCommand) \cup AllIds(Tail(ss))
         /\ Ids(Head(ss), OwnCommand) \cap AllIds(Tail(ss)) = {}
         /\ \A t \in DOMAIN Tail(ss) : Named(Tail(ss)[t], table)
<1> DEFINE S == Seq(LabelCommand)
           b == Tail(ss)
           a == Head(ss)
<1>1. /\ b \in Seq(S) /\ 1 \in DOMAIN ss /\ a = ss[1] /\ DOMAIN ss \subseteq Nat
      /\ \A i \in DOMAIN b : i + 1 \in DOMAIN ss /\ b[i] = ss[i + 1]
      /\ \A i \in DOMAIN ss : i # 1 => i - 1 \in DOMAIN b /\ b[i - 1] = ss[i]
      /\ DOMAIN b \subseteq Nat
  <2> HIDE DEF S
  <2> QED BY Dropped DEF S
<1>2. a \in S
  BY <1>1
<1>0. 0 \notin DOMAIN b
  BY <1>1
<1> HIDE DEF a, b, S
<1>3. Apart(a, OwnCommand) /\ \A t \in DOMAIN b : Apart(b[t], OwnCommand) /\ Named(b[t], table)
  BY <1>1 DEF Exact
<1>4. ASSUME NEW t \in DOMAIN b, NEW u \in DOMAIN b, t # u PROVE Ids(b[t], OwnCommand) \cap Ids(b[u], OwnCommand) = {}
  <2>1. t + 1 \in DOMAIN ss /\ u + 1 \in DOMAIN ss /\ t + 1 # u + 1 /\ b[t] = ss[t + 1] /\ b[u] = ss[u + 1]
    BY <1>1, <1>4
  <2> QED BY <2>1 DEF Exact
<1>5. ASSUME NEW t \in DOMAIN b PROVE Ids(a, OwnCommand) \cap Ids(b[t], OwnCommand) = {}
  <2>1. t + 1 \in DOMAIN ss /\ t + 1 # 1 /\ b[t] = ss[t + 1] /\ 1 \in DOMAIN ss /\ a = ss[1]
    BY <1>0, <1>1
  <2> QED BY <2>1 DEF Exact
<1>6. AllIds(ss) = Ids(a, OwnCommand) \cup AllIds(b)
  <2>1. ASSUME NEW x \in AllIds(ss) PROVE x \in Ids(a, OwnCommand) \cup AllIds(b)
    <3>1. PICK i \in DOMAIN ss : x \in Ids(ss[i], OwnCommand)
      BY DEF AllIds
    <3>2. CASE i = 1
      BY <1>1, <3>1, <3>2
    <3>3. CASE i # 1
      <4>1. i - 1 \in DOMAIN b /\ b[i - 1] = ss[i]
        BY <1>1, <3>3
      <4> QED BY <3>1, <4>1 DEF AllIds
    <3> QED BY <3>2, <3>3
  <2>2. ASSUME NEW x \in AllIds(b) PROVE x \in AllIds(ss)
    <3>1. PICK i \in DOMAIN b : x \in Ids(b[i], OwnCommand)
      BY DEF AllIds
    <3> QED BY <1>1, <3>1 DEF AllIds
  <2>3. Ids(a, OwnCommand) \subseteq AllIds(ss)
    BY <1>1 DEF AllIds
  <2> QED BY <2>1, <2>2, <2>3
<1>7. Ids(a, OwnCommand) \cap AllIds(b) = {}
  BY <1>5 DEF AllIds
<1> QED BY <1>1, <1>2, <1>3, <1>4, <1>6, <1>7 DEF Exact, a, b, S

LEMMA ExactFlatten ==
  ASSUME NEW ss \in Seq(Seq(LabelCommand)), NEW table, Exact(ss), \A t \in DOMAIN ss : Named(ss[t], table)
  PROVE  /\ FlattenSeq(ss) \in Seq(LabelCommand) /\ Ids(FlattenSeq(ss), OwnCommand) = AllIds(ss)
         /\ Apart(FlattenSeq(ss), OwnCommand) /\ Named(FlattenSeq(ss), table)
<1>1. CASE ss = <<>>
  <2>1. FlattenSeq(ss) = <<>>
    BY <1>1 DEF FlattenSeq
  <2>2. AllIds(ss) = {} /\ Places(<<>>, OwnCommand) = {} /\ <<>> \in Seq(LabelCommand)
    BY <1>1 DEF AllIds, Places
  <2> QED BY <2>1, <2>2, IdsSingle DEF Named
<1>2. CASE ss # <<>>
  <2>1. PICK f : Flattens(f, ss) /\ FlattenSeq(ss) = f[Len(ss)]
    BY <1>2, FlattensIs
  <2> DEFINE upto(n) == UNION {Ids(ss[t], OwnCommand) : t \in 1..n}
             good(n) == {s \in Seq(LabelCommand) : Ids(s, OwnCommand) = upto(n) /\ Apart(s, OwnCommand) /\ Named(s, table)}
             G == [n \in 1..Len(ss) |-> good(n)]
  <2>2. Len(ss) \in Nat /\ DOMAIN ss = 1..Len(ss) /\ 1 \in 1..Len(ss) /\ \A n \in 1..Len(ss) : ss[n] \in Seq(LabelCommand)
    BY <1>2
  <2>3. ss[1] \in good(1)
    <3>1. upto(1) = Ids(ss[1], OwnCommand)
      OBVIOUS
    <3> HIDE DEF upto
    <3> QED BY <2>2, <3>1 DEF Exact
  <2>4. ASSUME NEW n \in 1..(Len(ss) - 1), NEW s \in good(n) PROVE s \o ss[n + 1] \in good(n + 1)
    <3>1. n \in Nat /\ n \in 1..Len(ss) /\ n + 1 \in 1..Len(ss)
      BY <2>2
    <3>2. upto(n + 1) = upto(n) \cup Ids(ss[n + 1], OwnCommand)
      <4>1. 1..(n + 1) = 1..n \cup {n + 1}
        BY <3>1
      <4> QED BY <4>1
    <3>3. upto(n) \cap Ids(ss[n + 1], OwnCommand) = {}
      <4>1. \A t \in 1..n : t \in DOMAIN ss /\ t # n + 1
        BY <2>2, <3>1
      <4>2. n + 1 \in DOMAIN ss
        BY <2>2, <3>1
      <4> QED BY <4>1, <4>2 DEF Exact
    <3> HIDE DEF upto
    <3>4. s \in Seq(LabelCommand) /\ Ids(s, OwnCommand) = upto(n) /\ Apart(s, OwnCommand) /\ Named(s, table)
      OBVIOUS
    <3>5. ss[n + 1] \in Seq(LabelCommand) /\ Apart(ss[n + 1], OwnCommand) /\ Named(ss[n + 1], table)
      BY <2>2, <3>1 DEF Exact
    <3> DEFINE t == ss[n + 1]
    <3> HIDE DEF t
    <3>6. /\ s \o t \in Seq(LabelCommand) /\ Ids(s \o t, OwnCommand) = Ids(s, OwnCommand) \cup Ids(t, OwnCommand)
          /\ Apart(s, OwnCommand) /\ Apart(t, OwnCommand) /\ Ids(s, OwnCommand) \cap Ids(t, OwnCommand) = {} => Apart(s \o t, OwnCommand)
          /\ \A P : (\A i \in Places(s, OwnCommand) : s[i] \in P) /\ (\A i \in Places(t, OwnCommand) : t[i] \in P)
                     => \A i \in Places(s \o t, OwnCommand) : (s \o t)[i] \in P
      BY <3>4, <3>5, IdsConcat DEF t
    <3>7. Named(s \o t, table)
      BY <3>4, <3>5, <3>6 DEF Named, t
    <3>8. Ids(s \o t, OwnCommand) = upto(n + 1) /\ Apart(s \o t, OwnCommand)
      BY <3>2, <3>3, <3>4, <3>5, <3>6 DEF t
    <3> QED BY <3>6, <3>7, <3>8 DEF t
  <2>5. ss[1] \in G[1] /\ \A n \in 1..(Len(ss) - 1) : \A s \in G[n] : s \o ss[n + 1] \in G[n + 1]
    <3>1. \A n \in 1..(Len(ss) - 1) : n \in 1..Len(ss) /\ n + 1 \in 1..Len(ss)
      BY <2>2
    <3>2. \A n \in 1..Len(ss) : G[n] = good(n)
      OBVIOUS
    <3> HIDE DEF good, G
    <3> QED BY <2>2, <2>3, <2>4, <3>1, <3>2
  <2>6. f[Len(ss)] \in good(Len(ss))
    <3>1. \A n \in 1..Len(ss) : f[n] \in G[n]
      <4> HIDE DEF G
      <4> QED BY <1>2, <2>1, <2>5, FlattensInduct
    <3>2. Len(ss) \in 1..Len(ss)
      BY <2>2
    <3> HIDE DEF good
    <3> QED BY <3>1, <3>2
  <2>7. upto(Len(ss)) = AllIds(ss)
    BY <2>2 DEF AllIds
  <2> HIDE DEF upto
  <2> QED BY <2>1, <2>6, <2>7
<1> QED BY <1>1, <1>2

LEMMA UndoingIds ==
  ASSUME NEW done \in Seq(LabelCommand), Apart(done, OwnCommand)
  PROVE  Ids(Undoing(done), UndoRequest) = Ids(done, OwnCommand) /\ Apart(Undoing(done), UndoRequest)
<1> DEFINE n == Len(done)
           u == Undoing(done)
<1>1. /\ u \in Seq(LabelRequest) /\ Len(u) = n
      /\ \A i \in 1..n :
              /\ n - i + 1 \in 1..n
              /\ u[i].id = done[n - i + 1].id
              /\ u[i].op = IF done[n - i + 1].kind = "create" THEN "delete" ELSE "update"
  BY UndoingIs
<1>2. n \in Nat /\ DOMAIN done = 1..n /\ DOMAIN u = 1..n /\ \A i \in 1..n : done[i] \in LabelCommand
  BY <1>1
<1>3. \A i \in 1..n : u[i] \in LabelRequest
  BY <1>1
<1> HIDE DEF n, u
<1>4. ASSUME NEW i \in Places(u, UndoRequest) PROVE n - i + 1 \in Places(done, OwnCommand) /\ u[i].id = done[n - i + 1].id /\ i \in Int
  <2>1. i \in 1..n /\ u[i].op = "delete" /\ u[i].id # -1
    BY <1>2 DEF Places, UndoRequest
  <2>2. n - i + 1 \in 1..n /\ done[n - i + 1].kind = "create" /\ done[n - i + 1].id # -1 /\ done[n - i + 1] \in LabelCommand
    BY <1>1, <1>2, <2>1
  <2> QED BY <1>1, <1>2, <2>1, <2>2 DEF Places, OwnCommand
<1>5. ASSUME NEW i \in Places(done, OwnCommand) PROVE n - i + 1 \in Places(u, UndoRequest) /\ u[n - i + 1].id = done[i].id
  <2>1. i \in 1..n /\ done[i].kind = "create" /\ done[i].id # -1
    BY <1>2 DEF Places, OwnCommand
  <2>2. n - i + 1 \in 1..n /\ n - (n - i + 1) + 1 = i
    BY <1>2, <2>1
  <2>3. u[n - i + 1].id = done[i].id /\ u[n - i + 1].op = "delete" /\ u[n - i + 1] \in LabelRequest
    BY <1>1, <1>3, <2>1, <2>2
  <2> QED BY <1>2, <2>1, <2>2, <2>3 DEF Places, UndoRequest
<1>6. Ids(u, UndoRequest) = Ids(done, OwnCommand)
  BY <1>4, <1>5 DEF Ids
<1>7. ASSUME NEW i \in Places(u, UndoRequest), NEW j \in Places(u, UndoRequest), u[i].id = u[j].id PROVE i = j
  <2>1. n - i + 1 = n - j + 1
    BY <1>4, <1>7 DEF Apart
  <2> QED BY <1>2, <1>4, <2>1
<1> QED BY <1>6, <1>7 DEF Apart, u

\* Of the transaction that is executed: what it waits for.
SyncRequest == {o \in LabelRequest : o.sync = TRUE}
SyncInv ==
  /\ worker = "off" => ops = <<>> /\ edits = <<>> /\ running.todo = <<>>
  /\ edits # <<>> => running.todo = <<>>
  /\ running.todo = <<>> => running.done = <<>>
  /\ Cardinality(Places(ops, SyncRequest)) <= 1
  /\ Places(ops, SyncRequest) # {} => reply = 0 /\ running.todo # <<>> /\ Head(running.todo).kind = "create"
  /\ \A i \in Places(ops, SyncRequest) : ops[i].op = "create" /\ ops[i].name = Head(running.todo).name
  /\ reply # 0 => running.todo # <<>> /\ Head(running.todo).kind = "create"

LEMMA PlacesTailKeep ==
  ASSUME NEW S, NEW T, NEW s \in Seq(S), s # <<>>, NEW P, \A i \in Places(s, T) : s[i] \in P
  PROVE  \A i \in Places(Tail(s), T) : Tail(s)[i] \in P
BY Dropped DEF Places

LEMMA SyncQueued ==
  ASSUME CatalogTyped, SyncInv, NEW t \in Seq(LabelRequest), \A i \in DOMAIN t : t[i].sync = FALSE
  PROVE  /\ ops \o t \in Seq(LabelRequest) /\ Places(ops \o t, SyncRequest) = Places(ops, SyncRequest)
         /\ \A i \in Places(ops, SyncRequest) :
              (ops \o t)[i].op = "create" /\ (ops \o t)[i].name = Head(running.todo).name
<1>1. ops \in Seq(LabelRequest)
  BY DEF CatalogTyped
<1>2. \A i \in DOMAIN t : t[i] \notin SyncRequest
  BY DEF SyncRequest
<1>3. Places(ops \o t, SyncRequest) = Places(ops, SyncRequest)
  BY <1>1, <1>2, PlacesMore
<1> DEFINE P == {o \in LabelRequest : o.op = "create" /\ o.name = Head(running.todo).name}
<1>4. \A i \in Places(ops, SyncRequest) : ops[i] \in P
  BY <1>1 DEF SyncInv, Places
<1>5. Places(t, SyncRequest) = {}
  BY <1>2 DEF Places
<1>6. \A i \in Places(ops \o t, SyncRequest) : (ops \o t)[i] \in P
  <2> HIDE DEF P
  <2> QED BY <1>1, <1>4, <1>5, IdsConcat
<1>7. ops \o t \in Seq(LabelRequest)
  BY <1>1, ConcatProperties
<1> QED BY <1>3, <1>6, <1>7

\* A step that leaves the transaction and the reply alone, and at most asks
\* for what nobody waits for.
LEMMA SyncKept ==
  ASSUME CatalogTyped, SyncInv, UNCHANGED <<running, reply>>,
         worker' = "off" => worker = "off", edits' # <<>> => running.todo = <<>>, worker' = "off" => edits' = <<>> /\ ops' = <<>>,
         ops' = ops \/ \E t \in Seq(LabelRequest) : ops' = ops \o t /\ \A i \in DOMAIN t : t[i].sync = FALSE
  PROVE  SyncInv'
<1>1. CASE ops' = ops
  BY <1>1 DEF SyncInv
<1>2. CASE \E t \in Seq(LabelRequest) : ops' = ops \o t /\ \A i \in DOMAIN t : t[i].sync = FALSE
  <2>1. /\ Places(ops', SyncRequest) = Places(ops, SyncRequest)
        /\ \A i \in Places(ops, SyncRequest) : ops'[i].op = "create" /\ ops'[i].name = Head(running.todo).name
    <3>1. PICK t \in Seq(LabelRequest) : ops' = ops \o t /\ \A i \in DOMAIN t : t[i].sync = FALSE
      BY <1>2
    <3> QED BY <3>1, SyncQueued
  <2>2. worker' = "off" => ops' = <<>> /\ edits' = <<>> /\ running'.todo = <<>>
    BY DEF SyncInv
  <2> QED BY <2>1, <2>2 DEF SyncInv
<1> QED BY <1>1, <1>2

\* The worker takes an operation; the reply is the one to the caller that waits.
LEMMA SyncTaken ==
  ASSUME CatalogTyped, SyncInv, ops # <<>>, ops' = Tail(ops), worker = "ready", UNCHANGED <<worker, edits, running>>,
         reply' = reply \/ Head(ops).sync = TRUE
  PROVE  SyncInv'
<1>0. ops \in Seq(LabelRequest) /\ running' = running
  BY DEF CatalogTyped
<1>1. Cardinality(Places(ops', SyncRequest)) = Cardinality(Places(ops, SyncRequest)) - (IF Head(ops) \in SyncRequest THEN 1 ELSE 0)
  BY <1>0, PlacesTail
<1>2. /\ Cardinality(Places(ops, SyncRequest)) \in Nat /\ Tail(ops) \in Seq(LabelRequest) /\ Head(ops) \in LabelRequest
      /\ Cardinality(Places(Tail(ops), SyncRequest)) \in Nat
  <2>1. Tail(ops) \in Seq(LabelRequest) /\ Head(ops) \in LabelRequest
    BY <1>0
  <2> QED BY <1>0, <2>1, PlacesFinite
<1> DEFINE P == {o \in LabelRequest : o.op = "create" /\ o.name = Head(running.todo).name}
<1>3. \A i \in Places(ops, SyncRequest) : ops[i] \in P
  BY <1>0 DEF SyncInv, Places
<1>4. \A i \in Places(ops', SyncRequest) : ops'[i] \in P
  <2> HIDE DEF P
  <2> QED BY <1>0, <1>3, PlacesTailKeep
<1>5. Places(ops', SyncRequest) # {} => Places(ops, SyncRequest) # {} /\ Head(ops) \notin SyncRequest
  <2>1. Places(ops', SyncRequest) # {} => Cardinality(Places(ops', SyncRequest)) # 0
    BY <1>0, <1>2, NoPlaces
  <2>2. Places(ops, SyncRequest) = {} <=> Cardinality(Places(ops, SyncRequest)) = 0
    BY <1>0, NoPlaces
  <2>3. CASE Head(ops) \in SyncRequest
    <3>1. Cardinality(Places(ops', SyncRequest)) = 0
      BY <1>1, <1>2, <2>3 DEF SyncInv
    <3> QED BY <2>1, <3>1
  <2>4. CASE Head(ops) \notin SyncRequest
    <3>1. Cardinality(Places(ops', SyncRequest)) = Cardinality(Places(ops, SyncRequest))
      BY <1>1, <1>2, <2>4
    <3> QED BY <2>1, <2>2, <2>4, <3>1
  <2> QED BY <2>3, <2>4
<1>6. Cardinality(Places(ops', SyncRequest)) <= 1
  BY <1>1, <1>2 DEF SyncInv
<1>7. Head(ops).sync = TRUE => Head(ops) \in SyncRequest /\ Places(ops, SyncRequest) # {}
  <2>1. ops # <<>> => 1 \in DOMAIN ops /\ Head(ops) = ops[1]
    BY <1>0, Dropped
  <2> QED BY <1>2, <2>1 DEF SyncRequest, Places
<1>8. Places(ops', SyncRequest) # {} => reply' = 0 /\ running.todo # <<>> /\ Head(running.todo).kind = "create"
  <2> SUFFICES ASSUME Places(ops', SyncRequest) # {} PROVE reply' = 0 /\ running.todo # <<>> /\ Head(running.todo).kind = "create"
    OBVIOUS
  <2>1. Places(ops, SyncRequest) # {} /\ Head(ops).sync # TRUE
    BY <1>5, <1>7
  <2> QED BY <2>1 DEF SyncInv
<1>9. reply' # 0 => running.todo # <<>> /\ Head(running.todo).kind = "create"
  BY <1>7 DEF SyncInv
<1>10. \A i \in Places(ops', SyncRequest) : ops'[i].op = "create" /\ ops'[i].name = Head(running.todo).name
  BY <1>4
<1>11. worker' # "off" /\ (edits' # <<>> => running.todo = <<>>) /\ (running.todo = <<>> => running.done = <<>>)
  BY DEF SyncInv
<1> QED BY <1>0, <1>6, <1>8, <1>9, <1>10, <1>11 DEF SyncInv

\* What each action asks for.
LEMMA Asked ==
  ASSUME CatalogTyped
  PROVE  /\ create_initial_labels =>
              \E t \in Seq(LabelRequest) : /\ ops' = ops \o t
                                           /\ \A i \in DOMAIN t : t[i].op = "create" /\ t[i].sync = FALSE
         /\ update_label =>
              \E o \in LabelRequest : ops' = ops \o <<o>> /\ <<o>> \in Seq(LabelRequest) /\ o.op = "update" /\ o.sync = FALSE
         /\ create_label_sync =>
              \E o \in LabelRequest : /\ ops' = Append(ops, o) /\ ops' = ops \o <<o>> /\ <<o>> \in Seq(LabelRequest)
                                      /\ o.op = "create" /\ o.name = Head(running.todo).name
         /\ undo => /\ Head(m_undos) \in Seq(LabelCommand) /\ ops' = ops \o Undoing(Head(m_undos))
                    /\ Undoing(Head(m_undos)) \in Seq(LabelRequest)
                    /\ \A i \in DOMAIN Undoing(Head(m_undos)) : Undoing(Head(m_undos))[i].sync = FALSE
<1>g. ops \in Seq(LabelRequest) /\ running.todo \in Seq(LabelCommand) /\ m_undos \in Seq(Seq(LabelCommand))
  BY DEF CatalogTyped
<1>a. \A o \in LabelRequest : Append(ops, o) = ops \o <<o>> /\ <<o>> \in Seq(LabelRequest)
  BY <1>g
<1>1. ASSUME create_initial_labels
      PROVE  \E t \in Seq(LabelRequest) : /\ ops' = ops \o t
                                          /\ \A i \in DOMAIN t : t[i].op = "create" /\ t[i].sync = FALSE
  <2> DEFINE t == [i \in Row |-> Request("create", 0, Default, FALSE)]
  <2>1. Request("create", 0, Default, FALSE) \in LabelRequest
    BY DEF Request, LabelRequest, LabelName
  <2>2. \E r \in LabelRequest : r.op = "create" /\ r.sync = FALSE /\ t = [i \in Row |-> r]
    <3>1. Request("create", 0, Default, FALSE).op = "create" /\ Request("create", 0, Default, FALSE).sync = FALSE
      BY DEF Request
    <3> QED BY <2>1, <3>1, Zenon
  <2>3. ops' = ops \o t
    BY <1>1 DEF create_initial_labels
  <2> HIDE DEF t
  <2>4. t \in Seq(LabelRequest) /\ \A i \in DOMAIN t : t[i].op = "create" /\ t[i].sync = FALSE
    BY <2>2, CatalogAssumption DEF Row
  <2> QED BY <2>3, <2>4
<1>2. ASSUME update_label
      PROVE  \E o \in LabelRequest : ops' = ops \o <<o>> /\ <<o>> \in Seq(LabelRequest) /\ o.op = "update" /\ o.sync = FALSE
  <2>1. Head(running.todo) \in LabelCommand
    BY <1>g, <1>2 DEF update_label, Waiting
  <2>2. Request("update", Head(running.todo).id, None, FALSE) \in LabelRequest
    BY <2>1 DEF Request, LabelRequest, LabelCommand
  <2>3. \E o \in LabelRequest : ops' = Append(ops, o) /\ o.op = "update" /\ o.sync = FALSE
    <3>1. /\ Request("update", Head(running.todo).id, None, FALSE).op = "update"
          /\ Request("update", Head(running.todo).id, None, FALSE).sync = FALSE
      BY DEF Request
    <3> QED BY <1>2, <2>2, <3>1, Zenon DEF update_label
  <2> QED BY <1>a, <2>3
<1>3. ASSUME create_label_sync
      PROVE  \E o \in LabelRequest : /\ ops' = Append(ops, o) /\ ops' = ops \o <<o>> /\ <<o>> \in Seq(LabelRequest)
                                     /\ o.op = "create" /\ o.name = Head(running.todo).name
  <2>1. Head(running.todo) \in LabelCommand
    BY <1>g, <1>3 DEF create_label_sync, Waiting
  <2>2. Request("create", 0, Head(running.todo).name, TRUE) \in LabelRequest
    BY <2>1 DEF Request, LabelRequest, LabelCommand, LabelName
  <2>3. \E o \in LabelRequest : ops' = Append(ops, o) /\ o.op = "create" /\ o.name = Head(running.todo).name
    <3>1. /\ Request("create", 0, Head(running.todo).name, TRUE).op = "create"
          /\ Request("create", 0, Head(running.todo).name, TRUE).name = Head(running.todo).name
      BY DEF Request
    <3> QED BY <1>3, <2>2, <3>1, Zenon DEF create_label_sync
  <2> QED BY <1>a, <2>3
<1>4. ASSUME undo
      PROVE  /\ Head(m_undos) \in Seq(LabelCommand) /\ ops' = ops \o Undoing(Head(m_undos))
             /\ Undoing(Head(m_undos)) \in Seq(LabelRequest)
             /\ \A i \in DOMAIN Undoing(Head(m_undos)) : Undoing(Head(m_undos))[i].sync = FALSE
  <2>1. m_undos # <<>> /\ ops' = ops \o Undoing(Head(m_undos))
    BY <1>4 DEF undo, Undoing
  <2>2. Head(m_undos) \in Seq(LabelCommand)
    BY <1>g, <2>1
  <2> DEFINE u == Undoing(Head(m_undos))
             n == Len(Head(m_undos))
  <2>3. /\ u \in Seq(LabelRequest) /\ Len(u) = n /\ \A i \in 1..n : u[i].sync = FALSE
    BY <2>2, UndoingIs
  <2> HIDE DEF u, n
  <2>4. \A i \in DOMAIN u : u[i].sync = FALSE
    BY <2>3
  <2> QED BY <2>1, <2>2, <2>3, <2>4 DEF u
<1> QED BY <1>1, <1>2, <1>3, <1>4

LEMMA SyncInvStep == CatalogTyped /\ CatalogTyped' /\ ListInv /\ SyncInv /\ [CatalogNext]_catalog_vars => SyncInv'
<1> SUFFICES ASSUME CatalogTyped, CatalogTyped', ListInv, SyncInv, [CatalogNext]_catalog_vars PROVE SyncInv'
  OBVIOUS
<1>g. /\ ops \in Seq(LabelRequest) /\ running.todo \in Seq(LabelCommand) /\ running.done \in Seq(LabelCommand)
      /\ Cardinality(Places(ops, SyncRequest)) \in Nat
  BY PlacesFinite DEF CatalogTyped
<1>1. CASE check_database_version \/ check_version_fails \/ init_db \/ open_fails \/ init_db_fails \/ init_db_end
  <2>1. UNCHANGED <<running, reply, edits, ops>> /\ worker' # "off"
    BY <1>1 DEF check_database_version, check_version_fails, init_db, open_fails, init_db_fails, init_db_end, ui, CatalogTyped
  <2>2. edits' # <<>> => running.todo = <<>>
    BY <2>1 DEF SyncInv
  <2> QED BY <2>1, <2>2, SyncKept
<1>2. CASE cmd_list_all_labels \/ cmd_create_label \/ cmd_delete_label \/ cmd_update_label
  <2>1. ops # <<>> /\ ops' = Tail(ops) /\ worker = "ready" /\ UNCHANGED <<worker, edits, running>>
    BY <1>2 DEF cmd_list_all_labels, cmd_create_label, cmd_delete_label, cmd_update_label, Execute, ui
  <2>2. reply' = reply \/ Head(ops).sync = TRUE
    <3>1. CASE cmd_create_label
      <4>1. ~Head(ops).sync => reply' = reply
        BY <3>1, Zenon DEF cmd_create_label
      <4>2. Head(ops) \in LabelRequest
        BY <1>g, <2>1
      <4>3. Head(ops).sync \in BOOLEAN
        BY <4>2 DEF LabelRequest
      <4> QED BY <4>1, <4>3
    <3>2. CASE ~cmd_create_label
      BY <1>2, <3>2 DEF cmd_list_all_labels, cmd_delete_label, cmd_update_label, ui
    <3> QED BY <3>1, <3>2
  <2> QED BY <2>1, <2>2, SyncTaken
<1>3. CASE create_initial_labels
  <2>1. \E t \in Seq(LabelRequest) : ops' = ops \o t /\ \A i \in DOMAIN t : t[i].sync = FALSE
    BY <1>3, Asked
  <2>2. UNCHANGED <<running, reply, edits, worker>> /\ worker # "off"
    BY <1>3 DEF create_initial_labels, Deliver, ui, ListInv
  <2>3. edits' # <<>> => running.todo = <<>>
    BY <2>2 DEF SyncInv
  <2> QED BY <2>1, <2>2, <2>3, SyncKept
<1>4. CASE addLabel \/ deleteLabel \/ UNCHANGED catalog_vars
  <2>1. UNCHANGED <<running, reply, edits, worker, ops>>
    BY <1>4 DEF addLabel, deleteLabel, client, ui, catalog_vars
  <2> QED BY <2>1 DEF SyncInv
<1>5. CASE update_label
  <2>1. PICK o \in LabelRequest : ops' = ops \o <<o>> /\ <<o>> \in Seq(LabelRequest) /\ o.sync = FALSE
    BY <1>5, Asked
  <2>2. /\ running.todo # <<>> /\ Head(running.todo).kind = "update" /\ UNCHANGED <<reply, worker, edits>>
    BY <1>5 DEF update_label, Waiting
  <2>3. reply = 0 /\ Places(ops, SyncRequest) = {}
    BY <2>2 DEF SyncInv
  <2>4. Places(ops', SyncRequest) = {}
    <3>1. \A i \in DOMAIN <<o>> : <<o>>[i].sync = FALSE
      BY <2>1
    <3> QED BY <2>1, <2>3, <3>1, SyncQueued
  <2>5. Cardinality(Places(ops', SyncRequest)) = 0
    BY <2>4, FS_EmptySet
  <2>6. edits = <<>> /\ worker # "off"
    BY <2>2 DEF SyncInv
  <2>7. running'.todo = <<>> => running'.done = <<>>
    BY <1>5 DEF update_label, Done, Idle
  <2> QED BY <2>2, <2>3, <2>4, <2>5, <2>6, <2>7 DEF SyncInv
<1>6. CASE recv
  <2>1. running.todo # <<>> /\ reply # 0 /\ reply' = 0 /\ UNCHANGED <<ops, worker, edits>>
    BY <1>6 DEF recv, Waiting, client
  <2>2. Places(ops, SyncRequest) = {}
    BY <2>1 DEF SyncInv
  <2>3. edits = <<>> /\ worker # "off"
    BY <2>1 DEF SyncInv
  <2>4. running'.todo = <<>> => running'.done = <<>>
    BY <1>6 DEF recv, Done, Idle
  <2>5. Cardinality(Places(ops', SyncRequest)) <= 1 /\ Places(ops', SyncRequest) = {}
    BY <2>1, <2>2 DEF SyncInv
  <2> QED BY <2>1, <2>3, <2>4, <2>5 DEF SyncInv
<1>7. CASE create_label_sync
  <2>1. PICK o \in LabelRequest : /\ ops' = Append(ops, o) /\ o.op = "create" /\ o.name = Head(running.todo).name
    BY <1>7, Asked
  <2>2. /\ running.todo # <<>> /\ Head(running.todo).kind = "create" /\ reply = 0
        /\ UNCHANGED <<running, reply, worker, edits>>
    BY <1>7 DEF create_label_sync, Waiting, ui
  <2>3. \A i \in DOMAIN ops : ops[i] \notin SyncRequest
    BY <1>7, Zenon DEF create_label_sync, SyncRequest
  <2>4. Places(ops, SyncRequest) = {}
    BY <2>3 DEF Places
  <2>5. Cardinality(Places(ops', SyncRequest)) = Cardinality(Places(ops, SyncRequest)) + (IF o \in SyncRequest THEN 1 ELSE 0)
    BY <1>g, <2>1, PlacesAppend
  <2>6. Cardinality(Places(ops, SyncRequest)) = 0
    BY <2>4, FS_EmptySet
  <2>7. Cardinality(Places(ops', SyncRequest)) <= 1
    BY <2>5, <2>6
  <2>8. \A i \in Places(ops', SyncRequest) : ops'[i] = o
    BY <1>g, <2>1, <2>3, Appended DEF Places
  <2>9. edits = <<>> /\ worker # "off"
    BY <2>2 DEF SyncInv
  <2>10. \A i \in Places(ops', SyncRequest) : ops'[i].op = "create" /\ ops'[i].name = Head(running.todo).name
    BY <2>1, <2>8
  <2> QED BY <2>2, <2>7, <2>9, <2>10 DEF SyncInv
<1>8. CASE undo
  <2>1. \E t \in Seq(LabelRequest) : ops' = ops \o t /\ \A i \in DOMAIN t : t[i].sync = FALSE
    BY <1>8, Asked
  <2>2. UNCHANGED <<running, reply, edits, worker>> /\ worker # "off"
    BY <1>8 DEF undo, Free
  <2>3. edits' # <<>> => running.todo = <<>>
    BY <2>2 DEF SyncInv
  <2> QED BY <2>1, <2>2, <2>3, SyncKept
<1>9. CASE redo \/ update_labels
  <2>1. running.todo = <<>> /\ worker # "off" /\ edits' = <<>> /\ UNCHANGED <<worker, ops, reply>>
    BY <1>9 DEF redo, update_labels, Free, Waiting, client, SyncInv
  <2>2. running'.done = <<>> /\ reply = 0 /\ Places(ops, SyncRequest) = {}
    BY <1>9, <2>1 DEF redo, update_labels, SyncInv
  <2>3. Cardinality(Places(ops', SyncRequest)) <= 1 /\ Places(ops', SyncRequest) = {}
    BY <2>1, <2>2 DEF SyncInv
  <2> QED BY <2>1, <2>2, <2>3 DEF SyncInv
<1>10. CASE on_action_edit_labels \/ \E r \in Row, name \in Name \cup {None} : label_name_changed(r, name)
  <2>1. UNCHANGED <<running, reply, ops, worker>> /\ running.todo = <<>> /\ worker # "off"
    BY <1>10 DEF on_action_edit_labels, label_name_changed, Free, Waiting, client, SyncInv
  <2> QED BY <2>1, SyncKept
<1>11. CASE open_library
  <2>1. UNCHANGED <<running, reply, edits>> /\ worker = "off" /\ worker' = "checking" /\ ops' = <<Request("list", 0, None, FALSE)>>
    BY <1>11 DEF open_library, ui
  <2>2. PICK o : ops' = <<o>> /\ o.sync = FALSE
    <3>1. Request("list", 0, None, FALSE).sync = FALSE
      BY DEF Request
    <3> QED BY <2>1, <3>1, Zenon
  <2>3. Places(ops', SyncRequest) = {}
    BY <2>2 DEF Places, SyncRequest
  <2>4. Cardinality(Places(ops', SyncRequest)) = 0
    BY <2>3, FS_EmptySet
  <2> QED BY <2>1, <2>3, <2>4 DEF SyncInv
<1>12. CASE restart_program
  <2>1. worker' = "off" /\ ops' = <<>> /\ edits' = <<>> /\ running' = Idle /\ reply' = 0
    BY <1>12 DEF restart_program
  <2>2. Places(<<>>, SyncRequest) = {} /\ Cardinality({}) = 0
    BY FS_EmptySet DEF Places
  <2>3. running'.todo = <<>> /\ running'.done = <<>>
    BY <2>1 DEF Idle
  <2>4. Places(ops', SyncRequest) = {} /\ Cardinality(Places(ops', SyncRequest)) = 0
    BY <2>1, <2>2
  <2> QED BY <2>1, <2>3, <2>4 DEF SyncInv
<1> QED BY <1>1, <1>2, <1>3, <1>4, <1>5, <1>6, <1>7, <1>8, <1>9, <1>10, <1>11, <1>12
  DEF CatalogNext, Worker, MainLoop, User, Failure

Replied == {reply} \ {0, -1}

\* The labels are those of the start or made by the program, those of the
\* transactions that can be undone, those of the one that is executed, those
\* that an undo has asked to delete, and the one whose id is being returned:
\* each of them of one kind.
Split(S, B, U, R, D, P) ==
  /\ S = B \cup U \cup R \cup D \cup P
  /\ B \cap U = {} /\ B \cap R = {} /\ B \cap D = {} /\ B \cap P = {}
  /\ U \cap R = {} /\ U \cap D = {} /\ U \cap P = {}
  /\ R \cap D = {} /\ R \cap P = {} /\ D \cap P = {}

UndoInv ==
  "delete" \notin failed =>
    /\ Exact(m_undos) /\ \A t \in DOMAIN m_undos : Named(m_undos[t], labels)
    /\ Apart(running.done, OwnCommand) /\ Named(running.done, labels)
    /\ Apart(ops, UndoRequest)
    /\ \A x \in Replied : x \in DOMAIN labels /\ labels[x] = Head(running.todo).name
    /\ \E B : /\ Cardinality(B) = base
              /\ Split(DOMAIN labels, B, AllIds(m_undos), Ids(running.done, OwnCommand), Ids(ops, UndoRequest), Replied)

LEMMA UndoKept ==
  ASSUME CatalogTyped, UndoInv, UNCHANGED <<labels, m_undos, base, reply>>,
         running'.done = running.done, reply # 0 => Head(running'.todo) = Head(running.todo),
         "delete" \in failed => "delete" \in failed',
         Ids(ops', UndoRequest) = Ids(ops, UndoRequest), Apart(ops, UndoRequest) => Apart(ops', UndoRequest)
  PROVE  UndoInv'
<1>1. Replied' = Replied /\ (Replied # {} => reply # 0) /\ AllIds(m_undos') = AllIds(m_undos)
  BY DEF Replied
<1>2. ASSUME "delete" \notin failed'
      PROVE  /\ Exact(m_undos') /\ \A t \in DOMAIN m_undos' : Named(m_undos'[t], labels')
             /\ Apart(running'.done, OwnCommand) /\ Named(running'.done, labels')
             /\ Apart(ops', UndoRequest)
             /\ \A x \in Replied' : x \in DOMAIN labels' /\ labels'[x] = Head(running'.todo).name
             /\ \E B : /\ Cardinality(B) = base'
                       /\ Split(DOMAIN labels', B, AllIds(m_undos'), Ids(running'.done, OwnCommand), Ids(ops', UndoRequest), Replied')
  BY <1>1, <1>2 DEF UndoInv
<1> QED BY <1>2 DEF UndoInv

\* What is asked for in addition deletes nothing.
LEMMA NothingDeleted ==
  ASSUME CatalogTyped, NEW t \in Seq(LabelRequest), \A i \in DOMAIN t : t[i].op # "delete", ops' = ops \o t
  PROVE  Ids(ops', UndoRequest) = Ids(ops, UndoRequest) /\ (Apart(ops, UndoRequest) => Apart(ops', UndoRequest))
<1>1. Places(t, UndoRequest) = {}
  BY DEF Places, UndoRequest
<1>2. Ids(t, UndoRequest) = {} /\ Apart(t, UndoRequest)
  BY <1>1 DEF Ids, Apart
<1>3. ops \in Seq(LabelRequest)
  BY DEF CatalogTyped
<1>4. /\ Ids(ops \o t, UndoRequest) = Ids(ops, UndoRequest) \cup Ids(t, UndoRequest)
      /\ Apart(ops, UndoRequest) /\ Apart(t, UndoRequest) /\ Ids(ops, UndoRequest) \cap Ids(t, UndoRequest) = {}
           => Apart(ops \o t, UndoRequest)
  BY <1>3, IdsConcat
<1> QED BY <1>2, <1>4

\* The next command of a transaction is done.
LEMMA DoneExact ==
  ASSUME CatalogTyped, Waiting, NEW c \in LabelCommand, Done(c), NEW table,
         Exact(m_undos), \A t \in DOMAIN m_undos : Named(m_undos[t], table),
         Apart(running.done, OwnCommand), Named(running.done, table), Ids(running.done, OwnCommand) \cap AllIds(m_undos) = {},
         c \in OwnCommand => c \in NamedIn(table) /\ c.id \notin Ids(running.done, OwnCommand) /\ c.id \notin AllIds(m_undos),
         NEW I, I = IF c \in OwnCommand THEN {c.id} ELSE {}
  PROVE  /\ Exact(m_undos') /\ \A t \in DOMAIN m_undos' : Named(m_undos'[t], table)
         /\ Apart(running'.done, OwnCommand) /\ Named(running'.done, table)
         /\ \/ /\ AllIds(m_undos') = AllIds(m_undos) \cup Ids(running.done, OwnCommand) \cup I
               /\ Ids(running'.done, OwnCommand) = {}
            \/ /\ AllIds(m_undos') = AllIds(m_undos)
               /\ Ids(running'.done, OwnCommand) = Ids(running.done, OwnCommand) \cup I
<1> DEFINE done == Append(running.done, c)
<1>1. /\ running.done \in Seq(LabelCommand) /\ <<c>> \in Seq(LabelCommand) /\ done = running.done \o <<c>>
      /\ m_undos \in Seq(Seq(LabelCommand))
  <2>1. running.done \in Seq(LabelCommand) /\ m_undos \in Seq(Seq(LabelCommand))
    BY DEF CatalogTyped
  <2>2. \A q \in Seq(LabelCommand) : Append(q, c) = q \o <<c>> /\ <<c>> \in Seq(LabelCommand)
    OBVIOUS
  <2> QED BY <2>1, <2>2
<1>2. Ids(<<c>>, OwnCommand) = I /\ Apart(<<c>>, OwnCommand)
  BY IdsSingle
<1>3. \A i \in Places(<<c>>, OwnCommand) : <<c>>[i] \in NamedIn(table)
  BY DEF Places
<1> HIDE DEF done
<1>4. /\ done \in Seq(LabelCommand) /\ Ids(done, OwnCommand) = Ids(running.done, OwnCommand) \cup I
      /\ Apart(done, OwnCommand)
  <2>1. Ids(running.done, OwnCommand) \cap Ids(<<c>>, OwnCommand) = {}
    BY <1>2
  <2>2. /\ running.done \o <<c>> \in Seq(LabelCommand)
        /\ Ids(running.done \o <<c>>, OwnCommand) = Ids(running.done, OwnCommand) \cup Ids(<<c>>, OwnCommand)
        /\ Apart(running.done \o <<c>>, OwnCommand)
    BY <1>1, <1>2, <2>1, IdsConcat
  <2> QED BY <1>1, <1>2, <2>2
<1>5. Named(done, table)
  BY <1>1, <1>3, IdsConcat DEF Named
<1>6. Ids(done, OwnCommand) \cap AllIds(m_undos) = {}
  BY <1>4
<1>7. CASE Tail(running.todo) = <<>>
  <2>1. running' = Idle /\ m_undos' = <<done>> \o m_undos
    BY <1>7 DEF Done, done
  <2>2. running'.done = <<>>
    BY <2>1 DEF Idle
  <2>3. /\ Exact(<<done>> \o m_undos) /\ AllIds(<<done>> \o m_undos) = Ids(done, OwnCommand) \cup AllIds(m_undos)
        /\ \A t \in DOMAIN (<<done>> \o m_undos) : Named((<<done>> \o m_undos)[t], table)
    BY <1>1, <1>4, <1>5, <1>6, ExactCons
  <2>4. Ids(<<>>, OwnCommand) = {} /\ Apart(<<>>, OwnCommand) /\ Named(<<>>, table)
    BY DEF Ids, Apart, Named, Places
  <2>5. AllIds(m_undos') = AllIds(m_undos) \cup Ids(running.done, OwnCommand) \cup I
    BY <1>4, <2>1, <2>3
  <2> QED BY <2>1, <2>2, <2>3, <2>4, <2>5
<1>8. CASE Tail(running.todo) # <<>>
  <2>1. running' = [done |-> done, todo |-> Tail(running.todo)] /\ m_undos' = m_undos
    BY <1>8 DEF Done, done
  <2>2. running'.done = done
    BY <2>1
  <2> QED BY <1>4, <1>5, <2>1, <2>2
<1> QED BY <1>7, <1>8

\* An operation that deletes nothing is taken.
LEMMA UndoTaken ==
  ASSUME ops \in Seq(LabelRequest), ops # <<>>, ops' = Tail(ops), Head(ops) \notin UndoRequest
  PROVE  Ids(ops', UndoRequest) = Ids(ops, UndoRequest) /\ (Apart(ops, UndoRequest) => Apart(ops', UndoRequest))
<1>1. /\ Ids(ops, UndoRequest) = Ids(Tail(ops), UndoRequest) \cup (IF Head(ops) \in UndoRequest THEN {Head(ops).id} ELSE {})
      /\ Apart(ops, UndoRequest) => Apart(Tail(ops), UndoRequest)
  BY IdsSplit
<1> QED BY <1>1

LEMMA UndoInvCreate ==
  CatalogTyped /\ SyncInv /\ UndoInv /\ cmd_create_label => UndoInv'
<1> SUFFICES ASSUME CatalogTyped, SyncInv, UndoInv, cmd_create_label, "delete" \notin failed' PROVE UndoInv'
  BY DEF UndoInv
<1> DEFINE x == NextLabelId
           o == Head(ops)
<1>1. ops \in Seq(LabelRequest) /\ ops # <<>> /\ ops' = Tail(ops) /\ o.op = "create" /\ UNCHANGED <<m_undos, running>>
  BY DEF cmd_create_label, Execute, CatalogTyped
<1>2. o \in LabelRequest /\ o.sync \in BOOLEAN
  <2>1. o \in LabelRequest
    BY <1>1
  <2> QED BY <2>1 DEF LabelRequest
<1>3. /\ x \notin DOMAIN labels /\ x \in Nat /\ 1 <= x
  BY NewIdIsNew
<1>4. o \notin UndoRequest
  BY <1>1 DEF UndoRequest
<1>5. Ids(ops', UndoRequest) = Ids(ops, UndoRequest) /\ (Apart(ops, UndoRequest) => Apart(ops', UndoRequest))
  BY <1>1, <1>4, UndoTaken
<1>6. o.sync = TRUE => reply = 0 /\ o.name = Head(running.todo).name
  <2> SUFFICES ASSUME o.sync = TRUE PROVE reply = 0 /\ o.name = Head(running.todo).name
    OBVIOUS
  <2>1. 1 \in DOMAIN ops /\ ops[1] = o
    BY <1>1, Dropped
  <2>2. 1 \in Places(ops, SyncRequest)
    BY <1>2, <2>1 DEF Places, SyncRequest
  <2> QED BY <2>1, <2>2 DEF SyncInv
<1>7. \/ /\ UNCHANGED <<labels, base>> /\ (reply' = reply \/ (o.sync = TRUE /\ reply' = -1))
      \/ /\ labels' = [i \in DOMAIN labels \cup {x} |-> IF i = x THEN o.name ELSE labels[i]]
         /\ failed' = failed
         /\ \/ o.sync = TRUE /\ base' = base /\ reply' = x
            \/ o.sync = FALSE /\ base' = base + 1 /\ reply' = reply
  <2> USE <1>2
  <2>1. CASE o.sync = TRUE
    BY <2>1 DEF cmd_create_label
  <2>2. CASE o.sync = FALSE
    <3>1. ~o.sync
      BY <2>2
    <3>2. \/ UNCHANGED <<labels, base>> /\ reply' = reply
          \/ /\ labels' = [i \in DOMAIN labels \cup {x} |-> IF i = x THEN o.name ELSE labels[i]]
             /\ failed' = failed /\ base' = base + 1 /\ reply' = reply
      <4>1. PICK fails \in Fails :
              /\ reply' = reply
              /\ IF fails
                 THEN UNCHANGED <<labels, notifs, base>>
                 ELSE /\ labels' = [i \in DOMAIN labels \cup {x} |-> IF i = x THEN o.name ELSE labels[i]]
                      /\ base' = base + 1 /\ failed' = failed
        BY <3>1, Zenon DEF cmd_create_label
      <4> QED BY <4>1, Zenon
    <3>3. CASE UNCHANGED <<labels, base>> /\ reply' = reply
      <4>1. labels' = labels /\ base' = base /\ reply' = reply
        BY <3>3
      <4> HIDE DEF x, o
      <4> QED BY <4>1
    <3>4. CASE /\ labels' = [i \in DOMAIN labels \cup {x} |-> IF i = x THEN o.name ELSE labels[i]]
               /\ failed' = failed /\ base' = base + 1 /\ reply' = reply
      <4> HIDE DEF x, o
      <4> QED BY <2>2, <3>4
    <3> QED BY <3>2, <3>3, <3>4
  <2> QED BY <2>1, <2>2
<1>8. "delete" \notin failed
  BY Zenon DEF cmd_create_label
<1> HIDE DEF x, o
<1>9. PICK B : /\ Cardinality(B) = base
               /\ Split(DOMAIN labels, B, AllIds(m_undos), Ids(running.done, OwnCommand), Ids(ops, UndoRequest), Replied)
  BY <1>8 DEF UndoInv
<1>10. CASE UNCHANGED <<labels, base>> /\ (reply' = reply \/ (o.sync = TRUE /\ reply' = -1))
  <2>1. Replied' = Replied
    BY <1>6, <1>10 DEF Replied
  <2>2. \E C : /\ Cardinality(C) = base'
                /\ Split(DOMAIN labels', C, AllIds(m_undos'), Ids(running'.done, OwnCommand), Ids(ops', UndoRequest), Replied')
    BY <1>1, <1>5, <1>9, <1>10, <2>1
  <2> QED BY <1>1, <1>5, <1>8, <1>10, <2>1, <2>2 DEF UndoInv
<1>11. CASE /\ labels' = [i \in DOMAIN labels \cup {x} |-> IF i = x THEN o.name ELSE labels[i]]
            /\ failed' = failed
            /\ \/ o.sync = TRUE /\ base' = base /\ reply' = x
               \/ o.sync = FALSE /\ base' = base + 1 /\ reply' = reply
  <2>1. DOMAIN labels' = DOMAIN labels \cup {x} /\ labels'[x] = o.name /\ \A i \in DOMAIN labels : labels'[i] = labels[i]
    BY <1>3, <1>11
  <2>2. NamedIn(labels) \subseteq NamedIn(labels')
    BY <2>1 DEF NamedIn
  <2>3. \A s : Named(s, labels) => Named(s, labels')
    BY <2>2 DEF Named
  <2>4. IsFiniteSet(B)
    <3>1. IsFiniteSet(DOMAIN labels)
      BY ListingIs DEF CatalogTyped
    <3>2. B \in SUBSET DOMAIN labels
      BY <1>9 DEF Split
    <3> QED BY <3>1, <3>2, FS_Subset
  <2>5. CASE o.sync = TRUE /\ base' = base /\ reply' = x
    <3>1. Replied' = {x} /\ Replied = {}
      BY <1>3, <1>6, <2>5 DEF Replied
    <3>2. Split(DOMAIN labels', B, AllIds(m_undos), Ids(running.done, OwnCommand), Ids(ops, UndoRequest), {x})
      BY <1>3, <1>9, <2>1, <3>1 DEF Split
    <3>3. Split(DOMAIN labels', B, AllIds(m_undos'), Ids(running'.done, OwnCommand), Ids(ops', UndoRequest), Replied')
      BY <1>1, <1>5, <3>1, <3>2
    <3>4. \A y \in Replied' : y \in DOMAIN labels' /\ labels'[y] = Head(running'.todo).name
      BY <1>1, <1>6, <2>1, <2>5, <3>1
    <3> QED BY <1>1, <1>5, <1>8, <1>9, <2>3, <2>5, <3>3, <3>4 DEF UndoInv
  <2>6. CASE o.sync = FALSE /\ base' = base + 1 /\ reply' = reply
    <3>1. Replied' = Replied
      BY <2>6 DEF Replied
    <3>2. Split(DOMAIN labels', B \cup {x}, AllIds(m_undos), Ids(running.done, OwnCommand), Ids(ops, UndoRequest), Replied)
      BY <1>3, <1>9, <2>1 DEF Split
    <3>3. Split(DOMAIN labels', B \cup {x}, AllIds(m_undos'), Ids(running'.done, OwnCommand), Ids(ops', UndoRequest), Replied')
      BY <1>1, <1>5, <3>1, <3>2
    <3>4. Cardinality(B \cup {x}) = base'
      <4>1. x \notin B
        BY <1>3, <1>9 DEF Split
      <4> QED BY <1>9, <2>4, <2>6, <4>1, FS_AddElement
    <3>5. \A y \in Replied' : y \in DOMAIN labels' /\ labels'[y] = Head(running'.todo).name
      BY <1>1, <1>8, <2>1, <3>1 DEF UndoInv
    <3> QED BY <1>1, <1>5, <1>8, <2>3, <3>3, <3>4, <3>5 DEF UndoInv
  <2> QED BY <1>11, <2>5, <2>6
<1> QED BY <1>7, <1>10, <1>11

LEMMA UndoInvDelete ==
  CatalogTyped /\ SyncInv /\ UndoInv /\ cmd_delete_label => UndoInv'
<1> SUFFICES ASSUME CatalogTyped, SyncInv, UndoInv, cmd_delete_label, "delete" \notin failed' PROVE UndoInv'
  BY DEF UndoInv
<1> DEFINE o == Head(ops)
           x == o.id
<1>1. /\ ops \in Seq(LabelRequest) /\ ops # <<>> /\ ops' = Tail(ops) /\ o.op = "delete" /\ UNCHANGED <<m_undos, running, reply, base>>
  BY DEF cmd_delete_label, Execute, CatalogTyped, ui
<1>2. o \in LabelRequest
  BY <1>1
<1>3. \/ failed' = failed /\ labels' = labels /\ x \notin DOMAIN labels
      \/ failed' = failed /\ x \in DOMAIN labels /\ labels' = [i \in DOMAIN labels \ {x} |-> labels[i]]
  BY DEF cmd_delete_label
<1>4. DOMAIN labels \subseteq 1..MaxId
  BY DEF CatalogTyped
<1> HIDE DEF x
<1>5. "delete" \notin failed
  BY <1>3
<1>6. PICK B : /\ Cardinality(B) = base
               /\ Split(DOMAIN labels, B, AllIds(m_undos), Ids(running.done, OwnCommand), Ids(ops, UndoRequest), Replied)
  BY <1>5 DEF UndoInv
<1>7. o \in UndoRequest <=> x # -1
  BY <1>1, <1>2 DEF UndoRequest, x
<1>8. /\ Ids(ops, UndoRequest) = Ids(ops', UndoRequest) \cup (IF o \in UndoRequest THEN {x} ELSE {})
      /\ Apart(ops', UndoRequest)
      /\ o \in UndoRequest => x \notin Ids(ops', UndoRequest)
  <2>1. Apart(ops, UndoRequest)
    BY <1>5 DEF UndoInv
  <2> QED BY <1>1, <2>1, IdsSplit DEF x
<1>9. Replied' = Replied
  BY <1>1 DEF Replied
<1>10. CASE labels' = labels /\ x \notin DOMAIN labels /\ failed' = failed
  <2>1. Ids(ops', UndoRequest) = Ids(ops, UndoRequest)
    <3>1. Ids(ops, UndoRequest) \subseteq DOMAIN labels
      BY <1>6 DEF Split
    <3> QED BY <1>8, <1>10, <3>1
  <2> QED BY <1>1, <1>8, <1>10, <2>1, UndoKept
<1>11. CASE failed' = failed /\ x \in DOMAIN labels /\ labels' = [i \in DOMAIN labels \ {x} |-> labels[i]]
  <2>1. x # -1
    BY <1>4, <1>11
  <2>2. Ids(ops, UndoRequest) = Ids(ops', UndoRequest) \cup {x} /\ x \notin Ids(ops', UndoRequest)
    BY <1>7, <1>8, <2>1
  <2>3. DOMAIN labels' = DOMAIN labels \ {x} /\ \A i \in DOMAIN labels' : labels'[i] = labels[i]
    BY <1>11
  <2>4. Split(DOMAIN labels', B, AllIds(m_undos), Ids(running.done, OwnCommand), Ids(ops', UndoRequest), Replied)
    BY <1>6, <2>2, <2>3 DEF Split
  <2>5. x \notin AllIds(m_undos) /\ x \notin Ids(running.done, OwnCommand) /\ x \notin Replied
    BY <1>6, <2>2 DEF Split
  <2>6. ASSUME NEW s, Named(s, labels), x \notin Ids(s, OwnCommand) PROVE Named(s, labels')
    <3>1. ASSUME NEW i \in Places(s, OwnCommand) PROVE s[i] \in NamedIn(labels')
      <4>1. s[i] \in NamedIn(labels) /\ s[i].id # x
        BY <2>6, <3>1 DEF Named, Ids
      <4> QED BY <2>3, <4>1 DEF NamedIn
    <3> QED BY <3>1 DEF Named
  <2>7. \A t \in DOMAIN m_undos : Named(m_undos[t], labels')
    <3> TAKE t \in DOMAIN m_undos
    <3>1. x \notin Ids(m_undos[t], OwnCommand)
      BY <2>5 DEF AllIds
    <3>2. Named(m_undos[t], labels)
      BY <1>5 DEF UndoInv
    <3> QED BY <2>6, <3>1, <3>2
  <2>8. Named(running.done, labels')
    <3>1. Named(running.done, labels)
      BY <1>5 DEF UndoInv
    <3> QED BY <2>5, <2>6, <3>1
  <2>9. \A y \in Replied' : y \in DOMAIN labels' /\ labels'[y] = Head(running'.todo).name
    <3>1. \A y \in Replied : y \in DOMAIN labels /\ labels[y] = Head(running.todo).name
      BY <1>5 DEF UndoInv
    <3> QED BY <1>1, <1>9, <2>3, <2>5, <3>1
  <2>10. Cardinality(B) = base' /\ Split(DOMAIN labels', B, AllIds(m_undos'), Ids(running'.done, OwnCommand), Ids(ops', UndoRequest), Replied')
    BY <1>1, <1>6, <1>9, <2>4
  <2>11. Exact(m_undos') /\ Apart(running'.done, OwnCommand)
    BY <1>1, <1>5 DEF UndoInv
  <2> QED BY <1>1, <1>8, <2>7, <2>8, <2>9, <2>10, <2>11 DEF UndoInv
<1> QED BY <1>3, <1>10, <1>11

LEMMA UndoInvDone ==
  CatalogTyped /\ SyncInv /\ UndoInv /\ (recv \/ update_label) => UndoInv'
<1> SUFFICES ASSUME CatalogTyped, SyncInv, UndoInv, recv \/ update_label, "delete" \notin failed' PROVE UndoInv'
  BY DEF UndoInv
<1> DEFINE h == Head(running.todo)
           c == IF recv THEN [h EXCEPT !.id = reply] ELSE h
<1>1. /\ running.todo \in Seq(LabelCommand) /\ running.todo # <<>> /\ Waiting /\ UNCHANGED <<labels, base, failed>> /\ reply' = 0
  BY DEF recv, update_label, Waiting, CatalogTyped, disk, SyncInv
<1>2. h \in LabelCommand /\ reply \in Int
  BY <1>1 DEF CatalogTyped
<1>3. Done(c) /\ c \in LabelCommand
  <2>1. CASE recv
    <3>1. [h EXCEPT !.id = reply] \in LabelCommand
      BY <1>2 DEF LabelCommand
    <3> QED BY <2>1, <3>1 DEF recv
  <2>2. CASE ~recv
    BY <1>2, <2>2 DEF update_label
  <2> QED BY <2>1, <2>2
<1>4. "delete" \notin failed
  BY <1>1
<1>5. PICK B : /\ Cardinality(B) = base
               /\ Split(DOMAIN labels, B, AllIds(m_undos), Ids(running.done, OwnCommand), Ids(ops, UndoRequest), Replied)
  BY <1>4 DEF UndoInv
<1>6. Replied = IF c \in OwnCommand THEN {c.id} ELSE {}
  <2>1. CASE recv
    <3>1. reply # 0 /\ h.kind = "create"
      BY <2>1 DEF recv, SyncInv
    <3>2. c.id = reply /\ c.kind = "create"
      BY <1>2, <2>1, <3>1 DEF LabelCommand
    <3> HIDE DEF c
    <3> QED BY <1>3, <3>1, <3>2 DEF OwnCommand, Replied
  <2>2. CASE ~recv
    <3>1. c = h /\ h.kind = "update"
      BY <2>2 DEF update_label
    <3>2. reply = 0
      BY <3>1 DEF SyncInv
    <3> HIDE DEF c, h
    <3> QED BY <3>1, <3>2 DEF OwnCommand, Replied
  <2> QED BY <2>1, <2>2
<1>7. c \in OwnCommand => c \in NamedIn(labels)
  <2> SUFFICES ASSUME c \in OwnCommand PROVE c \in NamedIn(labels)
    OBVIOUS
  <2>1. c.id \in Replied
    BY <1>6
  <2>2. c.id \in DOMAIN labels /\ labels[c.id] = h.name
    <3> HIDE DEF c
    <3> QED BY <1>4, <2>1 DEF UndoInv
  <2>3. c.name = h.name
    BY <1>2 DEF LabelCommand
  <2> HIDE DEF c, h
  <2> QED BY <1>3, <2>2, <2>3 DEF NamedIn
<1> DEFINE R == Ids(running.done, OwnCommand)
<1> HIDE DEF c, h, R
<1>8. R \cap AllIds(m_undos) = {} /\ (c \in OwnCommand => c.id \notin R /\ c.id \notin AllIds(m_undos))
  BY <1>5, <1>6 DEF Split, R
<1>9. /\ Exact(m_undos) /\ \A t \in DOMAIN m_undos : Named(m_undos[t], labels)
      /\ Apart(running.done, OwnCommand) /\ Named(running.done, labels)
      /\ Apart(ops, UndoRequest)
  BY <1>4 DEF UndoInv
<1>10. /\ Exact(m_undos') /\ \A t \in DOMAIN m_undos' : Named(m_undos'[t], labels)
       /\ Apart(running'.done, OwnCommand) /\ Named(running'.done, labels)
       /\ \/ /\ AllIds(m_undos') = AllIds(m_undos) \cup R \cup Replied
             /\ Ids(running'.done, OwnCommand) = {}
          \/ /\ AllIds(m_undos') = AllIds(m_undos)
             /\ Ids(running'.done, OwnCommand) = R \cup Replied
  BY <1>1, <1>3, <1>6, <1>7, <1>8, <1>9, DoneExact DEF R
<1>11. Replied' = {}
  BY <1>1 DEF Replied
<1>12. Ids(ops', UndoRequest) = Ids(ops, UndoRequest) /\ Apart(ops', UndoRequest)
  <2>1. CASE recv
    BY <1>9, <2>1 DEF recv, client
  <2>2. CASE update_label
    <3>1. PICK u \in LabelRequest : ops' = ops \o <<u>> /\ <<u>> \in Seq(LabelRequest) /\ u.op = "update"
      BY <2>2, Asked
    <3>2. \A i \in DOMAIN <<u>> : <<u>>[i].op # "delete"
      BY <3>1
    <3> QED BY <1>9, <3>1, <3>2, NothingDeleted
  <2> QED BY <2>1, <2>2
<1>13. Split(DOMAIN labels', B, AllIds(m_undos'), Ids(running'.done, OwnCommand), Ids(ops', UndoRequest), Replied')
  <2>1. Split(DOMAIN labels, B, AllIds(m_undos), R, Ids(ops, UndoRequest), Replied)
    BY <1>5 DEF R
  <2>2. Split(DOMAIN labels, B, AllIds(m_undos'), Ids(running'.done, OwnCommand), Ids(ops, UndoRequest), {})
    <3>1. CASE /\ AllIds(m_undos') = AllIds(m_undos) \cup R \cup Replied
               /\ Ids(running'.done, OwnCommand) = {}
      BY <2>1, <3>1 DEF Split
    <3>2. CASE /\ AllIds(m_undos') = AllIds(m_undos)
               /\ Ids(running'.done, OwnCommand) = R \cup Replied
      BY <2>1, <3>2 DEF Split
    <3> QED BY <1>10, <3>1, <3>2
  <2> QED BY <1>1, <1>11, <1>12, <2>2
<1>14. Cardinality(B) = base' /\ labels' = labels
  BY <1>1, <1>5
<1> QED BY <1>10, <1>11, <1>12, <1>13, <1>14 DEF UndoInv

LEMMA UndoInvUndo ==
  CatalogTyped /\ UndoInv /\ undo => UndoInv'
<1> SUFFICES ASSUME CatalogTyped, UndoInv, undo, "delete" \notin failed' PROVE UndoInv'
  BY DEF UndoInv
<1> DEFINE h == Head(m_undos)
           I == Ids(h, OwnCommand)
           D == Ids(ops, UndoRequest)
<1>1. /\ UNCHANGED <<labels, base, reply, running, failed>> /\ m_undos # <<>> /\ m_undos' = Tail(m_undos)
      /\ ops \in Seq(LabelRequest) /\ m_undos \in Seq(Seq(LabelCommand))
  BY DEF undo, disk, CatalogTyped
<1>2. /\ h \in Seq(LabelCommand) /\ ops' = ops \o Undoing(h) /\ Undoing(h) \in Seq(LabelRequest)
  BY Asked
<1>3. /\ Exact(m_undos) /\ \A t \in DOMAIN m_undos : Named(m_undos[t], labels)
      /\ Apart(running.done, OwnCommand) /\ Named(running.done, labels)
      /\ Apart(ops, UndoRequest) /\ \A x \in Replied : x \in DOMAIN labels /\ labels[x] = Head(running.todo).name
  BY <1>1 DEF UndoInv
<1>4. PICK B : /\ Cardinality(B) = base
               /\ Split(DOMAIN labels, B, AllIds(m_undos), Ids(running.done, OwnCommand), D, Replied)
  BY <1>1 DEF UndoInv
<1>5. /\ Exact(m_undos') /\ Apart(h, OwnCommand)
      /\ AllIds(m_undos) = I \cup AllIds(m_undos') /\ I \cap AllIds(m_undos') = {}
      /\ \A t \in DOMAIN m_undos' : Named(m_undos'[t], labels)
  BY <1>1, <1>3, ExactSplit
<1>6. Ids(Undoing(h), UndoRequest) = I /\ Apart(Undoing(h), UndoRequest)
  BY <1>2, <1>5, UndoingIds
<1> HIDE DEF h, I, D
<1>7. D \cap I = {}
  BY <1>4, <1>5 DEF Split
<1>8. Ids(ops', UndoRequest) = D \cup I /\ Apart(ops', UndoRequest)
  <2>0. ops \in Seq(LabelRequest) /\ Undoing(h) \in Seq(LabelRequest)
    BY <1>1, <1>2
  <2>1. /\ Ids(ops \o Undoing(h), UndoRequest) = Ids(ops, UndoRequest) \cup Ids(Undoing(h), UndoRequest)
        /\ Apart(ops, UndoRequest) /\ Apart(Undoing(h), UndoRequest) /\ Ids(ops, UndoRequest) \cap Ids(Undoing(h), UndoRequest) = {}
             => Apart(ops \o Undoing(h), UndoRequest)
    BY <2>0, IdsConcat
  <2> QED BY <1>2, <1>3, <1>6, <1>7, <2>1 DEF D
<1>9. Split(DOMAIN labels, B, AllIds(m_undos'), Ids(running.done, OwnCommand), D \cup I, Replied)
  BY <1>4, <1>5, <1>7 DEF Split
<1>10. Replied' = Replied
  BY <1>1 DEF Replied
<1>11. Cardinality(B) = base' /\ Split(DOMAIN labels', B, AllIds(m_undos'), Ids(running'.done, OwnCommand), Ids(ops', UndoRequest), Replied')
  BY <1>1, <1>4, <1>8, <1>9, <1>10
<1> QED BY <1>1, <1>3, <1>5, <1>8, <1>10, <1>11 DEF UndoInv

Nothing == ops = <<>> /\ m_undos = <<>> /\ running = Idle /\ reply = 0 /\ base = Cardinality(DOMAIN labels)

LEMMA UndoInvEmpty == Nothing => UndoInv
<1> SUFFICES ASSUME Nothing PROVE UndoInv
  OBVIOUS
<1>1. AllIds(m_undos) = {} /\ Exact(m_undos) /\ DOMAIN m_undos = {}
  BY DEF Nothing, AllIds, Exact
<1>2. running.done = <<>>
  BY DEF Nothing, Idle
<1>3. Ids(<<>>, UndoRequest) = {} /\ Apart(<<>>, UndoRequest) /\ Ids(<<>>, OwnCommand) = {} /\ Apart(<<>>, OwnCommand)
  BY IdsSingle
<1>4. Named(<<>>, labels)
  BY DEF Named, Places
<1>5. Replied = {}
  BY DEF Replied, Nothing
<1>6. Split(DOMAIN labels, DOMAIN labels, AllIds(m_undos), Ids(running.done, OwnCommand), Ids(ops, UndoRequest), Replied)
  BY <1>1, <1>2, <1>3, <1>5 DEF Split, Nothing
<1> QED BY <1>1, <1>2, <1>3, <1>4, <1>5, <1>6 DEF UndoInv, Nothing

LEMMA UndoInvStep ==
  CatalogTyped /\ ListInv /\ SyncInv /\ UndoInv /\ [CatalogNext]_catalog_vars => UndoInv'
<1> SUFFICES ASSUME CatalogTyped, ListInv, SyncInv, UndoInv, [CatalogNext]_catalog_vars PROVE UndoInv'
  OBVIOUS
<1>g. /\ ops \in Seq(LabelRequest)
  BY DEF CatalogTyped
<1>1. CASE \/ check_database_version \/ check_version_fails \/ init_db \/ open_fails \/ init_db_fails \/ init_db_end \/ addLabel \/ deleteLabel
           \/ on_action_edit_labels \/ (\E r \in Row, name \in Name \cup {None} : label_name_changed(r, name))
           \/ UNCHANGED catalog_vars
  <2>1. UNCHANGED <<labels, m_undos, base, reply, running, ops>> /\ ("delete" \in failed => "delete" \in failed')
    BY <1>1 DEF check_database_version, check_version_fails, init_db, open_fails, init_db_fails, init_db_end, addLabel, deleteLabel,
                on_action_edit_labels, label_name_changed, catalog_vars, disk, client, ui
  <2> QED BY <2>1, UndoKept
<1>2. CASE cmd_list_all_labels \/ cmd_update_label
  <2>1. /\ UNCHANGED <<labels, m_undos, base, reply, running>> /\ ("delete" \in failed => "delete" \in failed')
        /\ ops # <<>> /\ ops' = Tail(ops) /\ Head(ops).op # "delete"
    BY <1>2 DEF cmd_list_all_labels, cmd_update_label, Execute, disk, ui
  <2>2. Head(ops) \notin UndoRequest
    BY <2>1 DEF UndoRequest
  <2>3. Ids(ops', UndoRequest) = Ids(ops, UndoRequest) /\ (Apart(ops, UndoRequest) => Apart(ops', UndoRequest))
    BY <1>g, <2>1, <2>2, UndoTaken
  <2> QED BY <2>1, <2>3, UndoKept
<1>3. CASE create_initial_labels
  <2>1. PICK t \in Seq(LabelRequest) : ops' = ops \o t /\ \A i \in DOMAIN t : t[i].op = "create"
    BY <1>3, Asked
  <2>2. \A i \in DOMAIN t : t[i].op # "delete"
    BY <2>1
  <2>3. Ids(ops', UndoRequest) = Ids(ops, UndoRequest) /\ (Apart(ops, UndoRequest) => Apart(ops', UndoRequest))
    BY <2>1, <2>2, NothingDeleted
  <2>4. UNCHANGED <<labels, m_undos, base, reply, running, failed>>
    BY <1>3 DEF create_initial_labels, disk, ui
  <2> QED BY <2>3, <2>4, UndoKept
<1>4. CASE create_label_sync
  <2>1. PICK o \in LabelRequest : ops' = ops \o <<o>> /\ <<o>> \in Seq(LabelRequest) /\ o.op = "create"
    BY <1>4, Asked
  <2>2. \A i \in DOMAIN <<o>> : <<o>>[i].op # "delete"
    BY <2>1
  <2>3. Ids(ops', UndoRequest) = Ids(ops, UndoRequest) /\ (Apart(ops, UndoRequest) => Apart(ops', UndoRequest))
    BY <2>1, <2>2, NothingDeleted
  <2>4. UNCHANGED <<labels, m_undos, base, reply, running, failed>>
    BY <1>4 DEF create_label_sync, disk, ui
  <2> QED BY <2>3, <2>4, UndoKept
<1>5. CASE redo \/ update_labels
  <2>1. /\ UNCHANGED <<labels, m_undos, base, reply, ops, failed>> /\ running'.done = <<>> /\ running.todo = <<>>
    BY <1>5 DEF redo, update_labels, Free, Waiting, disk, client, SyncInv
  <2>2. running.done = <<>> /\ reply = 0
    BY <2>1 DEF SyncInv
  <2> QED BY <2>1, <2>2, UndoKept
<1>6. CASE open_library
  <2>1. /\ UNCHANGED <<labels, m_undos, base, reply, running, failed>> /\ worker = "off"
        /\ ops' = <<Request("list", 0, None, FALSE)>>
    BY <1>6 DEF open_library, disk, ui
  <2>2. PICK o : ops' = <<o>> /\ o \notin UndoRequest
    <3>1. Request("list", 0, None, FALSE) \notin UndoRequest
      BY DEF Request, UndoRequest
    <3> QED BY <2>1, <3>1, Zenon
  <2>3. ops = <<>>
    BY <2>1 DEF SyncInv
  <2>4. Ids(ops', UndoRequest) = {} /\ Apart(ops', UndoRequest) /\ Ids(ops, UndoRequest) = {}
    <3>1. /\ Ids(<<o>>, UndoRequest) = IF o \in UndoRequest THEN {o.id} ELSE {}
          /\ Apart(<<o>>, UndoRequest) /\ Ids(<<>>, UndoRequest) = {}
      BY IdsSingle
    <3> QED BY <2>2, <2>3, <3>1
  <2> QED BY <2>1, <2>4, UndoKept
<1>7. CASE restart_program
  <2>1. /\ ops' = <<>> /\ m_undos' = <<>> /\ running' = Idle /\ reply' = 0 /\ labels' = labels
        /\ base' = Cardinality(DOMAIN labels)
    BY <1>7 DEF restart_program, disk
  <2>2. Nothing'
    BY <2>1 DEF Nothing, Idle
  <2>3. Nothing' => UndoInv'
    BY UndoInvEmpty, PTL
  <2> QED BY <2>2, <2>3
<1>8. CASE cmd_create_label
  BY <1>8, UndoInvCreate
<1>9. CASE cmd_delete_label
  BY <1>9, UndoInvDelete
<1>10. CASE recv \/ update_label
  BY <1>10, UndoInvDone
<1>11. CASE undo
  BY <1>11, UndoInvUndo
<1> QED BY <1>1, <1>2, <1>3, <1>4, <1>5, <1>6, <1>7, <1>8, <1>9, <1>10, <1>11
  DEF CatalogNext, Worker, MainLoop, User, Failure

\* After the last command nothing is in the way of the count.
LEMMA UndoIsExactFollows == CatalogTyped /\ SyncInv /\ UndoInv => UndoIsExact
<1> SUFFICES ASSUME CatalogTyped, SyncInv, UndoInv, Quiet, "delete" \notin failed
             PROVE  LET all == FlattenSeq(m_undos)
                        created == {i \in DOMAIN all : all[i].kind = "create" /\ all[i].id # -1}
                    IN  /\ \A i \in created : all[i].id \in DOMAIN labels /\ labels[all[i].id] = all[i].name
                        /\ Cardinality(DOMAIN labels) = base + Cardinality(created)
  BY DEF UndoIsExact
<1> DEFINE all == FlattenSeq(m_undos)
           created == {i \in DOMAIN all : all[i].kind = "create" /\ all[i].id # -1}
<1>1. m_undos \in Seq(Seq(LabelCommand)) /\ Exact(m_undos) /\ \A t \in DOMAIN m_undos : Named(m_undos[t], labels)
  BY DEF CatalogTyped, UndoInv
<1>2. all \in Seq(LabelCommand) /\ Ids(all, OwnCommand) = AllIds(m_undos) /\ Apart(all, OwnCommand) /\ Named(all, labels)
  BY <1>1, ExactFlatten
<1>3. running.done = <<>> /\ running.todo = <<>> /\ ops = <<>> /\ reply = 0
  BY DEF Quiet, Idle, SyncInv
<1>4. PICK B : /\ Cardinality(B) = base
               /\ Split(DOMAIN labels, B, AllIds(m_undos), Ids(running.done, OwnCommand), Ids(ops, UndoRequest), Replied)
  BY DEF UndoInv
<1> HIDE DEF all
<1>5. created = Places(all, OwnCommand)
  <2>1. \A i \in DOMAIN all : all[i] \in LabelCommand
    BY <1>2
  <2> QED BY <2>1 DEF Places, OwnCommand
<1> HIDE DEF created
<1>6. \A i \in created : all[i].id \in DOMAIN labels /\ labels[all[i].id] = all[i].name
  BY <1>2, <1>5 DEF Named, NamedIn
<1>7. DOMAIN labels = B \cup AllIds(m_undos) /\ B \cap AllIds(m_undos) = {}
  <2>1. Replied = {} /\ Ids(running.done, OwnCommand) = {} /\ Ids(ops, UndoRequest) = {}
    BY <1>3, IdsSingle DEF Replied
  <2> QED BY <1>4, <2>1 DEF Split
<1>8. IsFiniteSet(AllIds(m_undos)) /\ Cardinality(AllIds(m_undos)) = Cardinality(created)
  BY <1>2, <1>5, IdsCount
<1>9. IsFiniteSet(B)
  <2>1. IsFiniteSet(DOMAIN labels)
    BY ListingIs DEF CatalogTyped
  <2>2. B \in SUBSET DOMAIN labels
    BY <1>7
  <2> QED BY <2>1, <2>2, FS_Subset
<1>10. Cardinality(B \cup AllIds(m_undos)) = Cardinality(B) + Cardinality(AllIds(m_undos)) - Cardinality(B \cap AllIds(m_undos))
  BY <1>8, <1>9, FS_Union
<1>11. Cardinality(B \cap AllIds(m_undos)) = 0
  BY <1>7, FS_EmptySet
<1>12. Cardinality(created) \in Nat /\ base \in Nat
  BY <1>8, FS_CardinalityType DEF CatalogTyped
<1>13. Cardinality(DOMAIN labels) = base + Cardinality(created)
  BY <1>4, <1>7, <1>8, <1>10, <1>11, <1>12
<1> QED BY <1>6, <1>13 DEF all, created

\* Once all that was asked for is done, the labels are those of the start, of
\* a new catalog and, once each, of the transactions that are not undone
\* (engine/src/db/library.rs, the undo history and the EditLabels dialog).
THEOREM CatalogUndoIsExact == CatalogSpec => []UndoIsExact
<1>1. CatalogInit => ListInv /\ SyncInv /\ UndoInv
  <2> SUFFICES ASSUME CatalogInit PROVE ListInv /\ SyncInv /\ UndoInv
    OBVIOUS
  <2>1. ListInv
    BY DEF CatalogInit, ListInv
  <2>2. ops = <<>> /\ edits = <<>> /\ running = Idle /\ reply = 0 /\ m_undos = <<>> /\ base = 0 /\ labels = <<>>
    BY DEF CatalogInit
  <2>3. Places(ops, SyncRequest) = {} /\ Cardinality(Places(ops, SyncRequest)) = 0
    <3>1. Places(ops, SyncRequest) = {}
      BY <2>2 DEF Places
    <3> QED BY <3>1, FS_EmptySet
  <2>4. running.todo = <<>> /\ running.done = <<>>
    BY <2>2 DEF Idle
  <2>5. SyncInv
    BY <2>2, <2>3, <2>4 DEF SyncInv
  <2>6. DOMAIN labels = {}
    BY <2>2
  <2>7. Nothing
    BY <2>2, <2>3, <2>6 DEF Nothing
  <2> QED BY <2>1, <2>5, <2>7, UndoInvEmpty
<1>2. CatalogIInv /\ CatalogIInv' /\ ListInv /\ SyncInv /\ UndoInv /\ [CatalogNext]_catalog_vars
        => ListInv' /\ SyncInv' /\ UndoInv'
  BY ListInvStep, SyncInvStep, UndoInvStep DEF CatalogIInv
<1>3. CatalogIInv /\ SyncInv /\ UndoInv => UndoIsExact
  BY UndoIsExactFollows DEF CatalogIInv
<1> QED BY <1>1, <1>2, <1>3, CatalogIInvHolds, PTL DEF CatalogSpec
=============================================================================
