------------------------------- MODULE Niepce -------------------------------
(***************************************************************************)
(* The user interface and the library at work together: the user's actions *)
(* become operations queued for the worker thread; each operation changes  *)
(* or reads the database and sends notifications, which the main loop      *)
(* delivers in order to the workspace tree, the image list and the         *)
(* metadata pane, whose handlers queue operations in turn.  The user acts  *)
(* on what is shown, which may be older than the database.                 *)
(*                                                                         *)
(* An operation is one step here; that its statements can fail one by one  *)
(* is in LibraryDb, the queue and its thread are in ClientImpl.  Of the    *)
(* metadata only the rating is here.  ImageListStore::get_file() never     *)
(* finds a file, so the commands that start from it (the rating shortcuts, *)
(* moving to the Trash, opening the darkroom) never do anything.  Keywords, *)
(* labels and thumbnails are left out.                                     *)
(***************************************************************************)
EXTENDS Integers, Sequences, SequencesExt, FiniteSets

CONSTANTS Library,               \* the databases to start with
          Path,                  \* directories to import from
          MaxRating,
          MaxFolder, MaxFile,    \* bounds on the row ids
          MaxPending,            \* how far the user gets ahead
          MaxUndo                \* bound on the undo history

Absent == -1
Rating == 0..MaxRating
Value == Rating \cup {Absent}
FolderRow == 1..MaxFolder
FileRow == 1..MaxFile

NoItem == -2        \* in folderidmap: no row in the tree
Unknown == -1       \* shown as "--"

ASSUME NiepceAssumption ==
  /\ MaxRating \in Nat /\ MaxFolder \in Nat \ {0} /\ MaxFile \in Nat
  /\ MaxPending \in Nat /\ MaxUndo \in Nat /\ "none" \notin Path
  /\ Library \subseteq [folders : [FolderRow -> Path \cup {"trash", "unnamed", "none"}],
                        parent : [FileRow -> FolderRow \cup {0}],
                        rating : [FileRow -> Value]]

VARIABLES folders,          \* database: id -> path, "trash", "unnamed" or "none"
          parent,           \* database: file id -> its folder, 0 for no file
          rating,           \* database: file id -> rating in its metadata
          ops,              \* the operations queued for the worker
          notifs,           \* the notifications in the channel
          folderidmap,      \* tree: folder id -> count shown, Unknown or NoItem
          selected_folder,  \* tree: the folder selected, or 0
          current_folder,   \* list: the folder it was filled for
          idmap,            \* list: file in it -> rating shown
          selection,        \* list: the file selected, or 0
          fileid,           \* pane: the file displayed, or 0
          current_data,     \* pane: the rating displayed
          undos, redos,     \* transactions, latest first
          uncounted, unlisted,   \* history: folders an import has since changed
          astray,           \* history: file ids that were given up or hastily edited
          crossed           \* history: a file no longer selected is read again

database == <<folders, parent, rating>>
channels == <<ops, notifs>>
list == <<current_folder, idmap, selection>>
pane == <<fileid, current_data>>
undo_history == <<undos, redos>>
history == <<uncounted, unlisted, astray, crossed>>
vars == <<database, channels, folderidmap, selected_folder, list, pane, undo_history, history>>

op(name, id) == [op |-> name, id |-> id, value |-> Absent]

Folders == {d \in FolderRow : folders[d] # "none"}
Files == {f \in FileRow : parent[f] # 0}
Items == {d \in FolderRow : folderidmap[d] # NoItem}

\* The column is 0 when there is no rating in the metadata.
content(d) == [f \in {g \in FileRow : parent[g] = d} |-> IF rating[f] = Absent THEN 0 ELSE rating[f]]
Count(d) == Cardinality(DOMAIN content(d))

Empty == [f \in {} |-> 0]

Init ==
  /\ \E l \in Library : folders = l.folders /\ parent = l.parent /\ rating = l.rating
  /\ ops = <<op("get_all_folders", 0)>> /\ notifs = <<>>
  /\ folderidmap = [d \in FolderRow |-> NoItem]
  /\ selected_folder = 0 /\ current_folder = 0 /\ idmap = Empty /\ selection = 0
  /\ fileid = 0 /\ current_data = Absent
  /\ undos = <<>> /\ redos = <<>>
  /\ uncounted = {} /\ unlisted = {} /\ astray = {} /\ crossed = FALSE

\* The program ends, and is started again: what was queued is not done.
Restart ==
  /\ ops' = <<op("get_all_folders", 0)>> /\ notifs' = <<>>
  /\ folderidmap' = [d \in FolderRow |-> NoItem]
  /\ selected_folder' = 0 /\ current_folder' = 0 /\ idmap' = Empty /\ selection' = 0
  /\ fileid' = 0 /\ current_data' = Absent
  /\ undos' = <<>> /\ redos' = <<>>
  /\ uncounted' = {} /\ unlisted' = {} /\ astray' = {} /\ crossed' = FALSE
  /\ UNCHANGED database

-----------------------------------------------------------------------------
(* The user.                                                               *)

UserActs == Len(ops) + Len(notifs) < MaxPending

schedule_op(o) == ops' = Append(ops, o)

\* The list becomes empty, and with it the selection; the controller tells
\* the pane so when there was one.
EmptyList ==
  /\ selection' = 0
  /\ IF selection = 0 THEN UNCHANGED pane ELSE fileid' = 0 /\ current_data' = Absent

\* The selected item is a folder, or (0) one of the other items of the tree.
on_libtree_selection(d) ==
  /\ selected_folder' = d
  /\ IF d = 0 THEN UNCHANGED ops ELSE schedule_op(op("query_folder_content", d))
  /\ idmap' = Empty /\ EmptyList
  /\ UNCHANGED current_folder

select_item(d) ==
  /\ UserActs
  /\ d # selected_folder
  /\ d \in Items \cup {0}
  /\ on_libtree_selection(d)
  /\ UNCHANGED <<database, notifs, folderidmap, undo_history, history>>

Command(o) ==
  /\ UserActs
  /\ schedule_op(o)
  /\ UNCHANGED <<database, notifs, folderidmap, selected_folder, list, pane, undo_history, history>>

action_new_folder == Command(op("create_folder", 0))
action_delete_folder == selected_folder # 0 /\ Command(op("delete_folder", selected_folder))
action_file_import(p) == Command([op |-> "import_files", path |-> p])

\* Mutant: what the pane displays is not asked for again.
select_image_cached(f) ==
  /\ UserActs
  /\ f \in DOMAIN idmap /\ f # selection
  /\ selection' = f
  /\ IF f = fileid THEN UNCHANGED ops ELSE schedule_op(op("request_metadata", f))
  /\ crossed' = FALSE
  /\ UNCHANGED <<database, notifs, folderidmap, selected_folder, current_folder, idmap, pane,
                 undo_history, uncounted, unlisted, astray>>

\* on_image_selected.
select_image(f) ==
  /\ UserActs
  /\ f \in DOMAIN idmap /\ f # selection
  /\ selection' = f
  /\ schedule_op(op("request_metadata", f))
  /\ crossed' = FALSE
  /\ UNCHANGED <<database, notifs, folderidmap, selected_folder, current_folder, idmap, pane,
                 undo_history, uncounted, unlisted, astray>>

set_rating_op(f, r) == [op |-> "set_metadata", id |-> f, value |-> r]

\* The rating of file f once what is queued is done.
Latest(f) ==
  LET last == SelectLastInSeq(ops, LAMBDA o : o.op = "set_metadata" /\ o.id = f)
  IN  IF last = 0 THEN rating[f] ELSE ops[last].value

\* Mutant: what was undone can still be done again.
set_properties_keep_redos(r) ==
  /\ UserActs
  /\ Len(undos) < MaxUndo
  /\ fileid # 0
  /\ undos' = <<[file |-> selection, old |-> current_data, new |-> r]>> \o undos
  /\ UNCHANGED redos
  /\ schedule_op(set_rating_op(selection, r))
  /\ astray' = IF selection = 0 THEN astray
               ELSE IF selection = fileid /\ current_data = Latest(selection) THEN astray
               ELSE astray \cup {selection}
  /\ UNCHANGED <<database, notifs, folderidmap, selected_folder, list, pane, uncounted, unlisted, crossed>>

\* The pane displays a file and its rating is edited: that of the selection
\* is set, with the value displayed as the one to return to.
set_properties(r) ==
  /\ UserActs
  /\ Len(undos) < MaxUndo
  /\ fileid # 0
  /\ undos' = <<[file |-> selection, old |-> current_data, new |-> r]>> \o undos
  /\ redos' = <<>>
  /\ schedule_op(set_rating_op(selection, r))
  /\ astray' = IF selection = 0 THEN astray
               ELSE IF selection = fileid /\ current_data = Latest(selection) THEN astray
               ELSE astray \cup {selection}
  /\ UNCHANGED <<database, notifs, folderidmap, selected_folder, list, pane, uncounted, unlisted, crossed>>

\* With no old value the pointer passed is null, and the program crashes.
undo ==
  /\ UserActs
  /\ undos # <<>>
  /\ LET t == Head(undos)
     IN  IF t.old = Absent THEN Restart
         ELSE /\ schedule_op(set_rating_op(t.file, t.old))
              /\ undos' = Tail(undos)
              /\ redos' = <<t>> \o redos
              /\ UNCHANGED <<database, notifs, folderidmap, selected_folder, list, pane, history>>

redo ==
  /\ UserActs
  /\ redos # <<>>
  /\ LET t == Head(redos)
     IN  /\ schedule_op(set_rating_op(t.file, t.new))
         /\ redos' = Tail(redos)
         /\ undos' = <<t>> \o undos
  /\ UNCHANGED <<database, notifs, folderidmap, selected_folder, list, pane, history>>

restart == Restart
-----------------------------------------------------------------------------
(* The worker: one action per operation.                                   *)

ui == <<folderidmap, selected_folder, list, pane, undo_history>>

Execute(name) == ops # <<>> /\ Head(ops).op = name /\ ops' = Tail(ops)

Notify(s) == notifs' = notifs \o s

\* The numbers of a set from the least on.
Ordered(S) ==
  CHOOSE s \in [1 .. Cardinality(S) -> S] : \A i, j \in 1 .. Cardinality(S) : i < j => s[i] < s[j]

cmd_list_all_folders ==
  /\ Execute("get_all_folders")
  /\ LET ids == Ordered(Folders)
     IN  Notify([i \in DOMAIN ids |-> [n |-> "AddedFolder", id |-> ids[i]]])
  /\ UNCHANGED <<database, ui, history>>

\* Mutant: an empty folder is not worth a notification.
cmd_query_folder_content_nonempty ==
  /\ Execute("query_folder_content")
  /\ LET d == Head(ops).id
     IN  /\ Notify(IF Count(d) = 0 THEN <<>>
                   ELSE <<[n |-> "FolderContentQueried", id |-> d, content |-> content(d)]>>)
         /\ unlisted' = unlisted \ {d}
  /\ UNCHANGED <<database, ui, uncounted, astray, crossed>>

cmd_query_folder_content ==
  /\ Execute("query_folder_content")
  /\ LET d == Head(ops).id
     IN  /\ Notify(<<[n |-> "FolderContentQueried", id |-> d, content |-> content(d)]>>)
         /\ unlisted' = unlisted \ {d}
  /\ UNCHANGED <<database, ui, uncounted, astray, crossed>>

cmd_count_folder ==
  /\ Execute("count_folder")
  /\ LET d == Head(ops).id
     IN  /\ Notify(<<[n |-> "FolderCounted", id |-> d, count |-> Count(d)]>>)
         /\ uncounted' = uncounted \ {d}
  /\ UNCHANGED <<database, ui, unlisted, astray, crossed>>

\* The rowid SQLite gives to the next row.
NextRow(used, id) == (\A j \in used : j < id) /\ id - 1 \in used \cup {0}
Full(used, rows) == ~\E id \in rows : NextRow(used, id)

add_folder(path, d) ==
  /\ NextRow(Folders, d)
  /\ folders' = [folders EXCEPT ![d] = path]

cmd_create_folder ==
  /\ Execute("create_folder")
  /\ \/ \E d \in FolderRow : add_folder("unnamed", d) /\ Notify(<<[n |-> "AddedFolder", id |-> d]>>)
     \/ Full(Folders, FolderRow) /\ UNCHANGED <<folders, notifs>>
  /\ UNCHANGED <<parent, rating, ui, history>>

\* Deletes the folder and, by trigger, the files in it.
cmd_delete_folder ==
  /\ Execute("delete_folder")
  /\ LET d == Head(ops).id
         gone == DOMAIN content(d)
     IN  IF d \notin Folders THEN UNCHANGED <<database, notifs, history>>
         ELSE /\ folders' = [folders EXCEPT ![d] = "none"]
              /\ parent' = [f \in FileRow |-> IF f \in gone THEN 0 ELSE parent[f]]
              /\ rating' = [f \in FileRow |-> IF f \in gone THEN Absent ELSE rating[f]]
              /\ Notify(<<[n |-> "FolderDeleted", id |-> d]>>)
              /\ uncounted' = uncounted \ {d} /\ unlisted' = unlisted \ {d}
              /\ astray' = astray \cup gone
              /\ UNCHANGED crossed
  /\ UNCHANGED ui

\* One file comes in, or none.
import_into(d) ==
  /\ uncounted' = uncounted \cup {d} /\ unlisted' = unlisted \cup {d}
  /\ \/ UNCHANGED <<parent, rating>>
     \/ \E f \in FileRow, v \in Value :
          /\ NextRow(Files, f)
          /\ parent' = [parent EXCEPT ![f] = d]
          /\ rating' = [rating EXCEPT ![f] = v]

\* get_folder_for_import finds the folder of the path or adds one.
cmd_import_files ==
  /\ Execute("import_files")
  /\ LET path == Head(ops).path
     IN  \/ \E d \in FolderRow :
              /\ folders[d] = path
              /\ import_into(d)
              /\ Notify(<<[n |-> "AddedFiles"]>>)
              /\ UNCHANGED folders
         \/ /\ \A d \in FolderRow : folders[d] # path
            /\ \/ \E d \in FolderRow :
                    /\ add_folder(path, d)
                    /\ import_into(d)
                    /\ Notify(<<[n |-> "AddedFolder", id |-> d], [n |-> "AddedFiles"]>>)
               \/ /\ Full(Folders, FolderRow)
                  /\ UNCHANGED <<database, notifs, uncounted, unlisted>>
  /\ UNCHANGED <<ui, astray, crossed>>

cmd_request_metadata ==
  /\ Execute("request_metadata")
  /\ LET f == Head(ops).id
     IN  Notify(IF f \in Files THEN <<[n |-> "MetadataQueried", id |-> f, value |-> rating[f]]>>
                               ELSE <<>>)
  /\ UNCHANGED <<database, ui, history>>

cmd_set_metadata ==
  /\ Execute("set_metadata")
  /\ LET o == Head(ops)
     IN  IF o.id \in Files
         THEN /\ rating' = [rating EXCEPT ![o.id] = o.value]
              /\ Notify(<<[n |-> "MetadataChanged", id |-> o.id, value |-> o.value]>>)
         ELSE UNCHANGED <<rating, notifs>>
  /\ UNCHANGED <<folders, parent, ui, history>>
-----------------------------------------------------------------------------
(* The main loop: one action per notification delivered.                   *)

Deliver(name) == notifs # <<>> /\ Head(notifs).n = name /\ notifs' = Tail(notifs)

\* Mutant: a folder that was added is empty, and is not counted.
on_added_folder_empty ==
  /\ Deliver("AddedFolder")
  /\ folderidmap' = [folderidmap EXCEPT ![Head(notifs).id] = 0]
  /\ UNCHANGED <<database, ops, selected_folder, list, pane, undo_history, history>>

\* add_folder_item.
on_added_folder ==
  /\ Deliver("AddedFolder")
  /\ LET d == Head(notifs).id
     IN  /\ folderidmap' = [folderidmap EXCEPT ![d] = Unknown]
         /\ schedule_op(op("count_folder", d))
  /\ UNCHANGED <<database, selected_folder, list, pane, undo_history, history>>

\* remove_folder_item.  When the item was selected the tree view selects
\* another one, or none, which on_libtree_selection ignores.
on_folder_deleted ==
  /\ Deliver("FolderDeleted")
  /\ LET d == Head(notifs).id
     IN  /\ folderidmap' = [folderidmap EXCEPT ![d] = NoItem]
         /\ \/ d # selected_folder /\ UNCHANGED <<selected_folder, ops, list, pane>>
            \/ /\ d = selected_folder
               /\ \/ selected_folder' = 0 /\ UNCHANGED <<ops, list, pane>>
                  \/ \E e \in (Items \ {d}) \cup {0} : on_libtree_selection(e)
  /\ UNCHANGED <<database, undo_history, history>>

\* Mutant: an item not in the tree is waited for.
on_folder_counted_retry ==
  /\ Deliver("FolderCounted")
  /\ LET c == Head(notifs)
     IN  IF folderidmap[c.id] = NoItem
         THEN schedule_op(op("count_folder", c.id)) /\ UNCHANGED folderidmap
         ELSE folderidmap' = [folderidmap EXCEPT ![c.id] = c.count] /\ UNCHANGED ops
  /\ UNCHANGED <<database, selected_folder, list, pane, undo_history, history>>

on_folder_counted ==
  /\ Deliver("FolderCounted")
  /\ LET c == Head(notifs)
     IN  folderidmap' = IF folderidmap[c.id] = NoItem THEN folderidmap
                        ELSE [folderidmap EXCEPT ![c.id] = c.count]
  /\ UNCHANGED <<database, ops, selected_folder, list, pane, undo_history, history>>

on_folder_content ==
  /\ Deliver("FolderContentQueried")
  /\ current_folder' = Head(notifs).id
  /\ idmap' = Head(notifs).content
  /\ EmptyList
  /\ UNCHANGED <<database, ops, folderidmap, selected_folder, undo_history, history>>

\* The pane displays what was read, whatever is selected by now.
on_metadata_queried ==
  /\ Deliver("MetadataQueried")
  /\ fileid' = Head(notifs).id
  /\ current_data' = Head(notifs).value
  /\ UNCHANGED <<database, ops, folderidmap, selected_folder, list, undo_history, history>>

\* Mutant: the pane is read again for the file selected.
on_metadata_changed_selection ==
  /\ Deliver("MetadataChanged")
  /\ LET c == Head(notifs)
     IN  /\ IF c.id = selection THEN schedule_op(op("request_metadata", c.id)) ELSE UNCHANGED ops
         /\ crossed' = (crossed \/ (c.id = fileid /\ c.id # selection))
         /\ idmap' = IF c.id \in DOMAIN idmap THEN [idmap EXCEPT ![c.id] = c.value] ELSE idmap
  /\ UNCHANGED <<database, folderidmap, selected_folder, current_folder, selection, pane,
                 undo_history, uncounted, unlisted, astray>>

\* The pane reads the metadata of the file it displays again; the list
\* shows the new rating.
on_metadata_changed ==
  /\ Deliver("MetadataChanged")
  /\ LET c == Head(notifs)
     IN  /\ IF c.id = fileid THEN schedule_op(op("request_metadata", c.id)) ELSE UNCHANGED ops
         /\ crossed' = (crossed \/ (c.id = fileid /\ c.id # selection))
         /\ idmap' = IF c.id \in DOMAIN idmap THEN [idmap EXCEPT ![c.id] = c.value] ELSE idmap
  /\ UNCHANGED <<database, folderidmap, selected_folder, current_folder, selection, pane,
                 undo_history, uncounted, unlisted, astray>>

\* No one handles it.
on_added_files ==
  /\ Deliver("AddedFiles")
  /\ UNCHANGED <<database, ops, ui, history>>
-----------------------------------------------------------------------------
User ==
  \/ \E d \in FolderRow \cup {0} : select_item(d)
  \/ action_new_folder \/ action_delete_folder
  \/ \E p \in Path : action_file_import(p)
  \/ \E f \in FileRow : select_image(f)
  \/ \E r \in Rating : set_properties(r)
  \/ undo \/ redo \/ restart

Worker ==
  \/ cmd_list_all_folders \/ cmd_query_folder_content \/ cmd_count_folder
  \/ cmd_create_folder \/ cmd_delete_folder \/ cmd_import_files
  \/ cmd_request_metadata \/ cmd_set_metadata

MainLoop ==
  \/ on_added_folder \/ on_folder_deleted \/ on_folder_counted \/ on_folder_content
  \/ on_metadata_queried \/ on_metadata_changed \/ on_added_files

Next == User \/ Worker \/ MainLoop

\* The worker thread runs whenever there is an operation, the main loop
\* whenever the channel holds a notification.  The user owes nothing.
Spec == Init /\ [][Next]_vars /\ WF_vars(Worker) /\ WF_vars(MainLoop)

-----------------------------------------------------------------------------
Quiet == ops = <<>> /\ notifs = <<>>

\* Once everything asked for is done, the tree has exactly the folders of
\* the database, even when ids are used again, and each shows the count of
\* its files, unless files were imported into it since it was counted.
CountsSettle == Quiet => \A d \in FolderRow :
  /\ d \in Folders <=> folderidmap[d] # NoItem
  /\ d \in Folders \ uncounted => folderidmap[d] = Count(d)

\* Once everything asked for is done, the image list holds the files of the
\* folder selected in the tree with their ratings, whatever was selected,
\* deleted or edited meanwhile; only what an import has since added is
\* missing.
ListFollowsTree == Quiet /\ selected_folder # 0 =>
  /\ current_folder = selected_folder
  /\ selected_folder \in Folders
  /\ selected_folder \notin unlisted => idmap = content(selected_folder)

\* Once everything asked for is done, the pane shows the rating that the
\* file it displays has, although edits, undos and other files' replies
\* may have crossed.  (The file may not be the one selected.)
PaneIsCurrent ==
  Quiet /\ fileid \in Files \ astray => current_data = rating[fileid]

\* Once everything asked for is done, a file that was only edited while the
\* pane was up to date has the rating that the undo history says: what the
\* last transaction on it set or, if all are undone, what it was before.
UndoIsExact == Quiet =>
  \A f \in Files \ astray :
    LET done == SelectInSeq(undos, LAMBDA t : t.file = f)
        undone == SelectInSeq(redos, LAMBDA t : t.file = f)
    IN  IF done # 0 THEN rating[f] = undos[done].new
        ELSE undone # 0 => rating[f] = redos[undone].old

\* Once everything asked for is done, the pane displays the image selected,
\* unless a change made to the image displayed before was told after this
\* one was selected: the earlier image is then read, and shown, last.
PaneFollowsSelection ==
  Quiet /\ selection \in Files \ astray /\ ~crossed => fileid = selection

\* Handlers queue operations and operations cause notifications, but when
\* the user does nothing more this comes to an end.
Settles == []<><<User>>_vars \/ <>[]Quiet

=============================================================================
