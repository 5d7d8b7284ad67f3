------------------------------ MODULE LibraryDb ------------------------------
(***************************************************************************)
(* The library database: folders, files, the fsfiles and sidecars of their *)
(* bundles, keywords and keywording, with the triggers between them, and   *)
(* the commands that change them.  (The metadata columns of a file and the *)
(* XMP queue are in XmpQueue.)                                             *)
(*                                                                         *)
(* Commands run one after the other on the worker thread (see ClientImpl), *)
(* but a command is several SQL statements, each committed on its own, as  *)
(* no transaction is ever opened: one statement is one step, and between   *)
(* two of them a statement may fail, the thread may panic and the program  *)
(* may end.                                                                *)
(*                                                                         *)
(* A row id is one more than the largest in its table (INTEGER PRIMARY     *)
(* KEY, no AUTOINCREMENT), so the id of the last row is used again once    *)
(* that row is deleted.  A table maps row ids to rows or NoRow; 0 is NULL. *)
(***************************************************************************)
EXTENDS Integers, FiniteSets

CONSTANTS NoRow,
          Path,        \* the directories pictures are imported from
          Bundle,      \* the picture bundles found there
          Parts,       \* the side files of a bundle, a subset of {"xmp", "jpeg"}
          Tags,        \* the keywords in the metadata of a bundle
          Keyword,
          MaxFolder, MaxFile, MaxFs, MaxKeyword   \* bounds on the row ids

Part == {"main", "xmp", "jpeg"}

FolderRow == 1..MaxFolder
FileRow == 1..MaxFile
FsRow == 1..MaxFs
KeywordRow == 1..MaxKeyword

ASSUME DbAssumption ==
  /\ MaxFolder \in Nat \ {0} /\ MaxFile \in Nat
  /\ MaxFs \in Nat /\ MaxKeyword \in Nat
  /\ Parts \in [Bundle -> SUBSET {"xmp", "jpeg"}]
  /\ Tags \in [Bundle -> SUBSET Keyword]
  /\ NoRow \notin Bundle \cup Keyword \cup Path \cup {"trash", "unnamed"}

VARIABLES folders,            \* id -> its path; "trash" for the locked Trash
          files,              \* id -> FileRec
          fsfiles,            \* id -> the bundle and the part the path names
          sidecars,           \* rows <<file_id, fsfile_id, type>>
          keywords,           \* id -> keyword
          keywording,         \* rows <<file_id, keyword_id>>
          pc,                 \* the statement to execute, or "idle", or "dead"
          loc,                \* the locals of the running command
          cut,                \* history: the files whose import was cut short
          known,              \* history: file ids the UI may ask about
          missed              \* history: keywords whose row a failing query missed

tables == <<folders, files, fsfiles, sidecars, keywords, keywording>>
vars == <<tables, pc, loc, cut, known, missed>>

FileRec == [name : Bundle, parent : FolderRow, fs : [Part -> FsRow \cup {0}]]

ASSUME NoRowAssumption == NoRow \notin FileRec \cup (Bundle \X Part)

Locals == [bundle : Bundle \cup {NoRow},    \* NoRow outside of an import
           folder : FolderRow \cup {0},
           part : Part,
           cur : FileRow \cup {0},          \* the file worked on
           fs : FsRow \cup {0},             \* last_insert_rowid of fsfiles
           kw : KeywordRow \cup {0},
           left : SUBSET Keyword]           \* keywords still to assign

Started == [bundle |-> NoRow, folder |-> 0, part |-> "main", cur |-> 0, fs |-> 0, kw |-> 0,
            left |-> {}]

TypeOK ==
  /\ folders \in [FolderRow -> Path \cup {"trash", "unnamed", NoRow}]
  /\ files \in [FileRow -> FileRec \cup {NoRow}]
  /\ fsfiles \in [FsRow -> (Bundle \X Part) \cup {NoRow}]
  /\ sidecars \subseteq FileRow \X FsRow \X {"xmp", "jpeg"}
  /\ keywords \in [KeywordRow -> Keyword \cup {NoRow}]
  /\ keywording \subseteq Nat \X Nat
  /\ pc \in {"idle", "bundle", "fsfile", "row", "keyword", "assign", "link", "sidecar",
             "block", "dead"}
  /\ loc \in Locals
  /\ cut \subseteq FileRow
  /\ known \subseteq FileRow
  /\ missed \subseteq Keyword

Files == {f \in FileRow : files[f] # NoRow}

Init ==
  /\ folders = [d \in FolderRow |-> IF d = 1 THEN "trash" ELSE NoRow]
  /\ files = [f \in FileRow |-> NoRow]
  /\ fsfiles = [i \in FsRow |-> NoRow]
  /\ sidecars = {}
  /\ keywords = [k \in KeywordRow |-> NoRow]
  /\ keywording = {}
  /\ pc = "idle"
  /\ loc = Started
  /\ cut = {}
  /\ known = {}
  /\ missed = {}

\* The rowid SQLite gives to the next row of table t.
NextId(t, id) ==
  LET used == {j \in DOMAIN t : t[j] # NoRow}
  IN  (\A j \in used : j < id) /\ id - 1 \in used \cup {0}

Finish == pc' = "idle" /\ loc' = Started
-----------------------------------------------------------------------------
(* Folders.                                                                *)

add_folder(row, d) ==
  /\ NextId(folders, d)
  /\ folders' = [folders EXCEPT ![d] = row]

cmd_create_folder ==
  /\ pc = "idle"
  /\ \E d \in FolderRow : add_folder("unnamed", d)
  /\ UNCHANGED <<files, fsfiles, sidecars, keywords, keywording, pc, loc, cut, known, missed>>

\* Mutant: the fsfiles trigger compares with the id of the file.
cmd_delete_folder_by_file_id(d) ==
  /\ pc = "idle"
  /\ folders[d] # NoRow
  /\ folders' = [folders EXCEPT ![d] = NoRow]
  /\ LET gone == {f \in Files : files[f].parent = d}
     IN  /\ files' = [f \in FileRow |-> IF f \in gone THEN NoRow ELSE files[f]]
         /\ fsfiles' = [i \in FsRow |-> IF i \in gone THEN NoRow ELSE fsfiles[i]]
         /\ sidecars' = {s \in sidecars : s[1] \notin gone}
         /\ keywording' = {k \in keywording : k[1] \notin gone}
  /\ UNCHANGED <<keywords, pc, loc, cut, known, missed>>

\* The statement and the three triggers it fires are one step: the files in
\* the folder, their fsfiles, sidecars and keywording go with it.
cmd_delete_folder(d) ==
  /\ pc = "idle"
  /\ folders[d] # NoRow
  /\ folders' = [folders EXCEPT ![d] = NoRow]
  /\ LET gone == {f \in Files : files[f].parent = d}
     IN  /\ files' = [f \in FileRow |-> IF f \in gone THEN NoRow ELSE files[f]]
         /\ fsfiles' = [i \in FsRow |->
              IF \E f \in gone, p \in Part : files[f].fs[p] = i THEN NoRow ELSE fsfiles[i]]
         /\ sidecars' = {s \in sidecars : s[1] \notin gone}
         /\ keywording' = {k \in keywording : k[1] \notin gone}
  /\ UNCHANGED <<keywords, pc, loc, cut, known, missed>>

\* Whether the file exists is not looked at; if not, no row changes.
cmd_move_file_to_folder(f, d) ==
  /\ pc = "idle"
  /\ folders[d] # NoRow /\ f \in Files
  /\ files' = [files EXCEPT ![f].parent = d]
  /\ UNCHANGED <<folders, fsfiles, sidecars, keywords, keywording, pc, loc, cut, known, missed>>

-----------------------------------------------------------------------------
(* Keywords.                                                               *)

\* The keyword's row is k: the one that the query finds, or a new one if it
\* finds none; a query that fails when it is stepped finds none either.
make_keyword(word, k) ==
  \/ keywords[k] = word /\ UNCHANGED <<keywords, missed>>
  \/ /\ NextId(keywords, k)
     /\ keywords' = [keywords EXCEPT ![k] = word]
     /\ missed' = IF \E j \in KeywordRow : keywords[j] = word THEN missed \cup {word} ELSE missed

cmd_add_keyword(word) ==
  /\ pc = "idle"
  /\ \E k \in KeywordRow : make_keyword(word, k)
  /\ UNCHANGED <<folders, files, fsfiles, sidecars, keywording, pc, loc, cut, known>>

next_keyword ==
  /\ pc = "keyword"
  /\ \E word \in loc.left, k \in KeywordRow :
       /\ make_keyword(word, k)
       /\ loc' = [loc EXCEPT !.left = @ \ {word}, !.kw = k]
  /\ pc' = "assign"
  /\ UNCHANGED <<folders, files, fsfiles, sidecars, keywording, cut, known>>

\* The statement binds ?1, the column file_id, to kw_id and ?2 to file_id.
assign_keyword ==
  /\ pc = "assign"
  /\ keywording' = keywording \cup {<<loc.kw, loc.cur>>}
  /\ pc' = "keyword"
  /\ UNCHANGED <<folders, files, fsfiles, sidecars, keywords, loc, cut, known, missed>>

-----------------------------------------------------------------------------
(* Import: the folder, then bundle after bundle; each its main file and    *)
(* row, its keywords, and its XMP and JPEG files.                          *)

\* get_folder_for_import.
cmd_import_files(p) ==
  /\ pc = "idle"
  /\ pc' = "bundle"
  /\ \E d \in FolderRow :
       /\ \/ folders[d] = p /\ UNCHANGED folders
          \/ (\A e \in FolderRow : folders[e] # p) /\ add_folder(p, d)
       /\ loc' = [loc EXCEPT !.folder = d]
  /\ UNCHANGED <<files, fsfiles, sidecars, keywords, keywording, cut, known, missed>>

next_bundle(b) ==
  /\ pc = "bundle"
  /\ pc' = "fsfile"
  /\ loc' = [loc EXCEPT !.bundle = b, !.part = "main"]
  /\ UNCHANGED <<tables, cut, known, missed>>

last_bundle ==
  /\ pc = "bundle"
  /\ Finish
  /\ UNCHANGED <<tables, cut, known, missed>>

NextBundle == pc' = "bundle" /\ loc' = [Started EXCEPT !.folder = loc.folder]
\* Mutant: the JPEG is only looked at when there is no XMP file.
NextPart_either(p) ==
  \/ /\ p = "main" /\ "xmp" \in Parts[loc.bundle]
     /\ pc' = "fsfile" /\ loc' = [loc EXCEPT !.part = "xmp"]
  \/ /\ p = "main" /\ "xmp" \notin Parts[loc.bundle] /\ "jpeg" \in Parts[loc.bundle]
     /\ pc' = "fsfile" /\ loc' = [loc EXCEPT !.part = "jpeg"]
  \/ /\ p = "main" => Parts[loc.bundle] = {}
     /\ NextBundle

\* The next part of the bundle to add after part p, if any.
NextPart(p) ==
  \/ /\ p = "main" /\ "xmp" \in Parts[loc.bundle]
     /\ pc' = "fsfile" /\ loc' = [loc EXCEPT !.part = "xmp"]
  \/ /\ "jpeg" \in Parts[loc.bundle]
     /\ \/ p = "main" /\ "xmp" \notin Parts[loc.bundle]
        \/ p = "xmp"
     /\ pc' = "fsfile" /\ loc' = [loc EXCEPT !.part = "jpeg"]
  \/ /\ p = "main" => Parts[loc.bundle] = {}
     /\ p = "xmp" => "jpeg" \notin Parts[loc.bundle]
     /\ NextBundle

add_fs_file ==
  /\ pc = "fsfile"
  /\ \E i \in FsRow :
       /\ NextId(fsfiles, i)
       /\ fsfiles' = [fsfiles EXCEPT ![i] = <<loc.bundle, loc.part>>]
       /\ loc' = [loc EXCEPT !.fs = i]
  /\ pc' = IF loc.part = "main" THEN "row" ELSE "link"
  /\ UNCHANGED <<folders, files, sidecars, keywords, keywording, cut, known, missed>>

\* The keywords assigned afterwards are those of the metadata.
insert_file ==
  /\ pc = "row"
  /\ LET b == loc.bundle
         row == [name |-> b, parent |-> loc.folder,
                 fs |-> [p \in Part |-> IF p = "main" THEN loc.fs ELSE 0]]
     IN  \E f \in FileRow :
           /\ NextId(files, f)
           /\ files' = [files EXCEPT ![f] = row]
           /\ loc' = [loc EXCEPT !.cur = f, !.left = Tags[b]]
           /\ cut' = cut \ {f}
           /\ known' = known \cup {f}
  /\ pc' = "keyword"
  /\ UNCHANGED <<folders, fsfiles, sidecars, keywords, keywording, missed>>

\* add_file() returns.
end_keywords_import ==
  /\ pc = "keyword" /\ loc.left = {} /\ loc.bundle # NoRow
  /\ NextPart("main")
  /\ UNCHANGED <<tables, cut, known, missed>>

\* add_xmp_sidecar_to_bundle, add_jpeg_file_to_bundle.
link_part ==
  /\ pc = "link"
  /\ files[loc.cur] # NoRow
  /\ files' = [files EXCEPT ![loc.cur].fs[loc.part] = loc.fs]
  /\ pc' = "sidecar"
  /\ UNCHANGED <<folders, fsfiles, sidecars, keywords, keywording, loc, cut, known, missed>>

add_sidecar_fsfile_to_bundle ==
  /\ pc = "sidecar"
  /\ sidecars' = sidecars \cup {<<loc.cur, loc.fs, loc.part>>}
  /\ NextPart(loc.part)
  /\ UNCHANGED <<folders, files, fsfiles, keywords, keywording, cut, known, missed>>

-----------------------------------------------------------------------------
(* Metadata: what setting it does to these tables.                         *)

\* unassign_all_keywords_for_file; f may be gone.
cmd_set_keywords(f, words) ==
  /\ pc = "idle"
  /\ f \in known
  /\ keywording' = {k \in keywording : k[1] # f}
  /\ pc' = "keyword"
  /\ loc' = [loc EXCEPT !.cur = f, !.left = words]
  /\ UNCHANGED <<folders, files, fsfiles, sidecars, keywords, cut, known, missed>>

end_keywords_set ==
  /\ pc = "keyword" /\ loc.left = {} /\ loc.bundle = NoRow
  /\ pc' = "block"
  /\ UNCHANGED <<tables, loc, cut, known, missed>>

\* The other properties, and cmd_request_metadata.
cmd_metadata(f) ==
  /\ pc = "idle"
  /\ f \in known
  /\ pc' = "block"
  /\ loc' = [loc EXCEPT !.cur = f]
  /\ UNCHANGED <<tables, cut, known, missed>>

\* LibMetadata::read_from() panics on the NULL name of a folder that is gone.
get_metadata ==
  /\ pc = "block"
  /\ IF loc.cur \in Files /\ folders[files[loc.cur].parent] = NoRow
     THEN pc' = "dead" /\ UNCHANGED loc
     ELSE Finish
  /\ UNCHANGED <<tables, cut, known, missed>>

-----------------------------------------------------------------------------
(* Failures.                                                               *)

CutShort ==
  cut' = IF loc.cur # 0 /\ loc.bundle # NoRow THEN cut \cup {loc.cur} ELSE cut

\* A statement fails: an import goes on with the next bundle, any other
\* command returns.
statement_fails ==
  /\ pc \in {"fsfile", "row", "keyword", "assign", "link", "sidecar", "block"}
  /\ pc = "keyword" => loc.left # {}
  /\ CutShort
  /\ IF loc.bundle # NoRow THEN NextBundle ELSE Finish
  /\ UNCHANGED <<tables, known, missed>>

\* The program ends, because it is told to or not, and is started again.
restart ==
  /\ pc # "idle"
  /\ CutShort
  /\ Finish
  /\ UNCHANGED <<tables, known, missed>>

-----------------------------------------------------------------------------
Command ==
  \/ cmd_create_folder
  \/ \E d \in FolderRow : cmd_delete_folder(d)
  \/ \E p \in Path : cmd_import_files(p)
  \/ \E word \in Keyword : cmd_add_keyword(word)
  \/ \E f \in FileRow :
       \/ \E d \in FolderRow : cmd_move_file_to_folder(f, d)
       \/ \E words \in SUBSET Keyword : cmd_set_keywords(f, words)
       \/ cmd_metadata(f)

Statement ==
  \/ \E b \in Bundle : next_bundle(b)
  \/ last_bundle \/ add_fs_file \/ insert_file \/ link_part
  \/ add_sidecar_fsfile_to_bundle
  \/ next_keyword \/ assign_keyword \/ end_keywords_import \/ end_keywords_set
  \/ get_metadata

Next == Command \/ Statement \/ statement_fails \/ restart

Spec == Init /\ [][Next]_vars
-----------------------------------------------------------------------------
(* Properties.                                                             *)

\* The fsfiles a file refers to are there, and are those of its own bundle:
\* neither deletions nor the reuse of row ids mix two files up.
BundleRows ==
  \A f \in Files, p \in Part :
    files[f].fs[p] # 0 => fsfiles[files[f].fs[p]] = <<files[f].name, p>>

\* Two files never share an fsfile, so deleting one keeps the other's.
FsFileOwned ==
  \A f, g \in Files, p, q \in Part :
    files[f].fs[p] = files[g].fs[q] /\ files[f].fs[p] # 0 => f = g /\ p = q

\* Every file is in a folder that exists: a file whose folder is gone is in
\* no folder's content, and reading its metadata panics.
FilesHaveFolder == \A f \in Files : folders[files[f].parent] # NoRow

\* A sidecar row belongs to a file, and names the fsfile that the file names.
SidecarsKnown ==
  \A s \in sidecars : s[1] \in Files /\ files[s[1]].fs[s[3]] = s[2]

\* There is one row for a keyword however it came in, unless a query that
\* failed did not find the row it had.
KeywordsUnique ==
  \A j, k \in KeywordRow :
    keywords[j] = keywords[k] /\ keywords[j] # NoRow => j = k \/ keywords[j] \in missed

\* A file has its whole bundle unless its import was cut short.
BundleWhole ==
  \A f \in Files : f \in cut \/ (loc.cur = f /\ loc.bundle # NoRow) \/
    \A p \in {"xmp", "jpeg"} :
      IF p \in Parts[files[f].name] THEN <<f, files[f].fs[p], p>> \in sidecars
                                    ELSE files[f].fs[p] = 0

\* A picture leaves the library only with its folder.
DeletedWithFolder ==
  [][\A f \in Files : f \notin Files' => folders'[files[f].parent] = NoRow]_vars

\* doc/database.txt: a row of keywording links a file and a keyword.
KeywordingLinks ==
  \A k \in keywording : \E f \in FileRow, w \in KeywordRow : k = <<f, w>> /\ keywords[w] # NoRow

=============================================================================
