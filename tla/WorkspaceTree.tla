--------------------------- MODULE WorkspaceTree ---------------------------
(***************************************************************************)
(* The rows of the workspace tree: three nodes that are always there, and  *)
(* under them a row for each folder and each keyword that the library told *)
(* of.  Two maps lead from an id to its row, so that the row can be given  *)
(* its count or go.  Folders and keywords come at the start, when made and *)
(* when pictures are given keywords that are new; a folder is deleted in a *)
(* dialog, while which notifications still come.                           *)
(*                                                                         *)
(* Niepce has the folders' counts and the image list; here are the rows    *)
(* themselves, the keywords, and the commands offered on the row selected. *)
(***************************************************************************)
EXTENDS Integers, Sequences, SequencesExt, FiniteSets

CONSTANTS Tag,          \* the keywords there may be
          MaxTreeFolder,
          MaxTreeRow,   \* bound on the rows ever made
          MaxTreeSent   \* bound: how far the user gets ahead

ASSUME WorkspaceTreeAssumption ==
  IsFiniteSet(Tag) /\ MaxTreeFolder \in Nat /\ MaxTreeRow \in Nat /\ MaxTreeSent \in Nat

FOLDERS_ITEM == -1
PROJECTS_ITEM == -2
KEYWORDS_ITEM == -3
Root == {FOLDERS_ITEM, PROJECTS_ITEM, KEYWORDS_ITEM}
TreeFolder == 1..MaxTreeFolder
NoRoom == 0             \* no row; no folder

VARIABLES db_folders, db_tags,      \* the database
          tree_ops, tree_notifs,    \* to and from the library
          tree,                     \* the rows: number -> [type, id, counted]
          m_folderidmap, m_keywordsidmap,
          selected_row,             \* a row, a node or NoRoom
          can_delete,               \* the action DeleteFolder is enabled
          asked                     \* the folder that the open dialog is about, or NoRoom

treedb == <<db_folders, db_tags>>
treeio == <<tree_ops, tree_notifs>>
rowmaps == <<tree, m_folderidmap, m_keywordsidmap>>
workspace == <<treedb, treeio, rowmaps, selected_row, can_delete, asked>>

TreeOp(name, what) == [op |-> name, what |-> what]
TreeNotif(name, what) == [n |-> name, what |-> what]

\* buildWidget makes the nodes, on_ready asks for what is under them.
TreeInit ==
  /\ db_folders \in SUBSET TreeFolder /\ db_tags \in SUBSET Tag
  /\ tree_ops = <<TreeOp("get_all_folders", NoRoom), TreeOp("get_all_keywords", NoRoom)>>
  /\ tree_notifs = <<>>
  /\ tree = [r \in {} |-> 0]
  /\ m_folderidmap = [d \in {} |-> 0] /\ m_keywordsidmap = [k \in {} |-> 0]
  /\ selected_row = NoRoom /\ can_delete = FALSE /\ asked = NoRoom
-----------------------------------------------------------------------------
(* The user.                                                               *)

TreeUser == asked = NoRoom /\ Len(tree_ops) + Len(tree_notifs) < MaxTreeSent

\* on_libtree_selection: without a row the command stays as it is.
tree_selection(s) ==
  /\ selected_row' = s
  /\ can_delete' = IF s = NoRoom THEN can_delete
                   ELSE s \in DOMAIN tree /\ tree[s].type = "FOLDER_ITEM"

select_row(s) ==
  /\ TreeUser
  /\ s # selected_row
  /\ tree_selection(s)
  /\ UNCHANGED <<treedb, treeio, rowmaps, asked>>

SendTree(o) == tree_ops' = Append(tree_ops, o)

new_folder ==
  /\ TreeUser
  /\ SendTree(TreeOp("create_folder", NoRoom))
  /\ UNCHANGED <<treedb, tree_notifs, rowmaps, selected_row, can_delete, asked>>

\* A picture is given keywords, in the metadata pane or by being imported.
give_keywords(tags) ==
  /\ TreeUser
  /\ SendTree(TreeOp("set_keywords", tags))
  /\ UNCHANGED <<treedb, tree_notifs, rowmaps, selected_row, can_delete, asked>>

\* get_selected_folder_id.
selected_folder_id ==
  IF selected_row \in DOMAIN tree /\ tree[selected_row].type = "FOLDER_ITEM"
  THEN tree[selected_row].id ELSE NoRoom

\* action_delete_folder, up to the dialog.
ask_delete_folder ==
  /\ TreeUser /\ can_delete
  /\ asked' = selected_folder_id
  /\ UNCHANGED <<treedb, treeio, rowmaps, selected_row, can_delete>>

\* The menu of the workspace, and the same where something is selected.
tree_menu == new_folder \/ ask_delete_folder
tree_context_menu == selected_row # NoRoom /\ tree_menu

answer_delete_folder ==
  /\ asked # NoRoom
  /\ asked' = NoRoom
  /\ \/ SendTree(TreeOp("delete_folder", asked))
     \/ UNCHANGED tree_ops
  /\ UNCHANGED <<treedb, tree_notifs, rowmaps, selected_row, can_delete>>
-----------------------------------------------------------------------------
(* The library.                                                            *)

RunTree(name) == tree_ops # <<>> /\ Head(tree_ops).op = name /\ tree_ops' = Tail(tree_ops)

TellTree(name, whats) ==
  \E s \in SetToSeqs(whats) :
    tree_notifs' = tree_notifs \o [i \in DOMAIN s |-> TreeNotif(name, s[i])]

get_all_folders ==
  /\ RunTree("get_all_folders") /\ TellTree("AddedFolder", db_folders)
  /\ UNCHANGED <<treedb, rowmaps, selected_row, can_delete, asked>>

get_all_keywords ==
  /\ RunTree("get_all_keywords") /\ TellTree("AddedKeyword", db_tags)
  /\ UNCHANGED <<treedb, rowmaps, selected_row, can_delete, asked>>

\* The row id that SQLite gives next.
create_folder ==
  /\ RunTree("create_folder")
  /\ LET id == IF db_folders = {} THEN 1 ELSE (CHOOSE d \in db_folders : \A e \in db_folders : e <= d) + 1
     IN  IF id \in TreeFolder THEN db_folders' = db_folders \cup {id} /\ TellTree("AddedFolder", {id})
         ELSE UNCHANGED <<db_folders, tree_notifs>>
  /\ UNCHANGED <<db_tags, rowmaps, selected_row, can_delete, asked>>

delete_folder ==
  /\ RunTree("delete_folder")
  /\ LET id == Head(tree_ops).what
     IN  IF id \in db_folders THEN db_folders' = db_folders \ {id} /\ TellTree("FolderDeleted", {id})
         ELSE UNCHANGED <<db_folders, tree_notifs>>
  /\ UNCHANGED <<db_tags, rowmaps, selected_row, can_delete, asked>>

\* Library::make_keyword tells of a keyword when it makes the row.
make_keywords(tags) == TellTree("AddedKeyword", tags \ db_tags)

set_keywords ==
  /\ RunTree("set_keywords")
  /\ LET tags == Head(tree_ops).what
     IN  make_keywords(tags) /\ db_tags' = db_tags \cup tags
  /\ UNCHANGED <<db_folders, rowmaps, selected_row, can_delete, asked>>

count_container(name, told) ==
  /\ RunTree(name) /\ TellTree(told, {Head(tree_ops).what})
  /\ UNCHANGED <<treedb, rowmaps, selected_row, can_delete, asked>>
-----------------------------------------------------------------------------
(* The notifications, on_lib_notification.                                 *)

TakeTree(name) == tree_notifs # <<>> /\ Head(tree_notifs).n = name /\ tree_notifs' = Tail(tree_notifs)
Told == Head(tree_notifs).what

FreeRow(r) == r \notin DOMAIN tree /\ \A s \in 1..(r - 1) : s \in DOMAIN tree

\* A row under its node, which shows "--" for its count.
add_item(r, type, id) ==
  tree' = [s \in DOMAIN tree \cup {r} |->
             IF s = r THEN [type |-> type, id |-> id, counted |-> FALSE] ELSE tree[s]]

add_folder_item ==
  /\ TakeTree("AddedFolder")
  /\ \E r \in 1..MaxTreeRow :
       /\ FreeRow(r)
       /\ add_item(r, "FOLDER_ITEM", Told)
       /\ m_folderidmap' = [d \in DOMAIN m_folderidmap \cup {Told} |-> IF d = Told THEN r ELSE m_folderidmap[d]]
  /\ SendTree(TreeOp("count_folder", Told))
  /\ UNCHANGED <<treedb, m_keywordsidmap, selected_row, can_delete, asked>>

add_keyword_item ==
  /\ TakeTree("AddedKeyword")
  /\ \E r \in 1..MaxTreeRow :
       /\ FreeRow(r)
       /\ add_item(r, "KEYWORD_ITEM", Told)
       /\ m_keywordsidmap' = [k \in DOMAIN m_keywordsidmap \cup {Told} |->
                                IF k = Told THEN r ELSE m_keywordsidmap[k]]
  /\ SendTree(TreeOp("count_keyword", Told))
  /\ UNCHANGED <<treedb, m_folderidmap, selected_row, can_delete, asked>>

\* Mutant: the row goes and its place in the map stays.
remove_folder_item_keep_id ==
  /\ TakeTree("FolderDeleted")
  /\ IF Told \notin DOMAIN m_folderidmap
     THEN UNCHANGED <<rowmaps, selected_row, can_delete>>
     ELSE LET gone == m_folderidmap[Told]
          IN  /\ tree' = [s \in DOMAIN tree \ {gone} |-> tree[s]]
              /\ IF selected_row # gone THEN UNCHANGED <<selected_row, can_delete>>
                 ELSE selected_row' = NoRoom /\ UNCHANGED can_delete
              /\ UNCHANGED <<m_folderidmap, m_keywordsidmap>>
  /\ UNCHANGED <<treedb, tree_ops, asked>>

\* When the row that goes is selected the view selects another, or none.
remove_folder_item ==
  /\ TakeTree("FolderDeleted")
  /\ IF Told \notin DOMAIN m_folderidmap
     THEN UNCHANGED <<rowmaps, selected_row, can_delete>>
     ELSE LET gone == m_folderidmap[Told]
          IN  /\ tree' = [s \in DOMAIN tree \ {gone} |-> tree[s]]
              /\ m_folderidmap' = [d \in DOMAIN m_folderidmap \ {Told} |-> m_folderidmap[d]]
              /\ UNCHANGED m_keywordsidmap
              /\ \/ selected_row # gone /\ UNCHANGED <<selected_row, can_delete>>
                 \/ /\ selected_row = gone
                    /\ \E s \in (DOMAIN tree \ {gone}) \cup Root \cup {NoRoom} : tree_selection(s)
  /\ UNCHANGED <<treedb, tree_ops, asked>>

\* The row of the id, if the map has one, shows its count.
counted(name, idmap) ==
  /\ TakeTree(name)
  /\ tree' = IF Told \in DOMAIN idmap THEN [tree EXCEPT ![idmap[Told]].counted = TRUE] ELSE tree
  /\ UNCHANGED <<treedb, tree_ops, m_folderidmap, m_keywordsidmap, selected_row, can_delete, asked>>

TreeNext ==
  \/ \E s \in DOMAIN tree \cup Root : select_row(s)
  \/ tree_menu \/ tree_context_menu \/ answer_delete_folder
  \/ \E tags \in SUBSET Tag : give_keywords(tags)
  \/ get_all_folders \/ get_all_keywords \/ create_folder \/ delete_folder \/ set_keywords
  \/ count_container("count_folder", "FolderCounted")
  \/ count_container("count_keyword", "KeywordCounted")
  \/ add_folder_item \/ add_keyword_item \/ remove_folder_item
  \/ counted("FolderCounted", m_folderidmap)
  \/ counted("KeywordCounted", m_keywordsidmap)

TreeSpec == TreeInit /\ [][TreeNext]_workspace
-----------------------------------------------------------------------------
\* Once the library has answered, the tree has one row for each folder and
\* each keyword of the database and no other, with its count, and the maps
\* lead to just these rows; although ids are used again, rows go while they
\* are selected or asked about and keywords come in any number at a time.
RowsAreDatabase == tree_ops = <<>> /\ tree_notifs = <<>> =>
  /\ DOMAIN m_folderidmap = db_folders /\ DOMAIN m_keywordsidmap = db_tags
  /\ DOMAIN tree = {m_folderidmap[d] : d \in db_folders} \cup {m_keywordsidmap[k] : k \in db_tags}
  /\ Cardinality(DOMAIN tree) = Cardinality(db_folders) + Cardinality(db_tags)
  /\ \A r \in DOMAIN tree : tree[r].counted

=============================================================================
