------------------------------ MODULE Commands ------------------------------
(***************************************************************************)
(* The commands of the shell's menu on the image selected: each becomes a  *)
(* transaction of the undo history, whose old value is read from the row   *)
(* of the image list, and an operation for the library, which tells the    *)
(* list and the folder tree when it is done.  Commands may be given ahead  *)
(* of that.                                                                *)
(*                                                                         *)
(* get_file(), which gives the file of a row, is meant to find it; in this *)
(* version it never does (see Shell), and both are possible here.  The     *)
(* copy of the file that a command changes afterwards "so that undo/redo   *)
(* works consistently" is its own and dropped: only the notification       *)
(* changes the row.                                                        *)
(***************************************************************************)
EXTENDS Integers, Sequences, SequencesExt, FiniteSets

CONSTANTS Picture,      \* the files of the folder
          Used,         \* the menu items that are used
          MaxSent,      \* bound: operations and notifications on their way
          MaxDone       \* bound on the undo history

Nothing == "nothing"    \* no file selected
Property == {"label", "rating", "flag"}
Container == {"roll", "trash"}

Item(action, property, value) == [action |-> action, property |-> property, value |-> value]

\* The items that set a property of the selection.
Menu ==
  {Item("SetLabel6", "label", 1), Item("SetLabel7", "label", 2),
   Item("SetLabel8", "label", 3), Item("SetLabel9", "label", 4),
   Item("SetRating0", "rating", 0), Item("SetRating1", "rating", 1), Item("SetRating2", "rating", 2),
   Item("SetRating3", "rating", 3), Item("SetRating4", "rating", 4), Item("SetRating5", "rating", 5),
   Item("SetFlagReject", "flag", -1), Item("SetFlagNone", "flag", 0), Item("SetFlagPick", "flag", 1)}

ASSUME CommandsAssumption ==
  /\ Nothing \notin Picture /\ IsFiniteSet(Picture)
  /\ Used \subseteq {m.action : m \in Menu} /\ MaxSent \in Nat /\ MaxDone \in Nat

VARIABLES stored,       \* database: file -> its properties
          folder_of,    \* database: file -> its folder
          rows,         \* list: the files in it, with their properties
          counts,       \* tree: folder -> the count shown
          selection,
          sent, told,   \* operations for the library, notifications from it
          undos, redos, \* transactions, latest first
          hasty         \* history: files given a command that read an old row

library == <<stored, folder_of>>
views == <<rows, counts, selection>>
histories == <<undos, redos>>
commands == <<library, views, sent, told, histories, hasty>>

Unset == [p \in Property |-> 0]

In(c) == {f \in Picture : folder_of[f] = c}

\* The list shows the folder "roll".
CommandsInit ==
  /\ stored = [f \in Picture |-> Unset] /\ folder_of = [f \in Picture |-> "roll"]
  /\ rows = stored /\ counts = [c \in Container |-> Cardinality(In(c))] /\ selection = Nothing
  /\ sent = <<>> /\ told = <<>> /\ undos = <<>> /\ redos = <<>> /\ hasty = {}
-----------------------------------------------------------------------------
(* SelectionController and the undo history.                               *)

Ahead == Len(sent) + Len(told) < MaxSent

select(f) ==
  /\ f \in DOMAIN rows /\ selection' = f
  /\ UNCHANGED <<library, rows, counts, sent, told, histories, hasty>>

\* A transaction of one command, which is two operations.
UndoTransaction(redo, undo) == [redo |-> redo, undo |-> undo]

Set(f, p, old, new) ==
  LET To(value) == [op |-> "set_metadata", file |-> f, property |-> p, value |-> value]
  IN  UndoTransaction(To(new), To(old))

Move(f, from, to) ==
  LET Goes(a, b) == [op |-> "move", file |-> f, from |-> a, to |-> b]
  IN  UndoTransaction(Goes(from, to), Goes(to, from))

\* The transaction enters the history, what was undone is given up, and the
\* operation is sent.
execute(t) ==
  /\ Len(undos) < MaxDone
  /\ undos' = <<t>> \o undos /\ redos' = <<>>
  /\ sent' = Append(sent, t.redo)

\* set_label, set_rating and set_flag.
set_property(p, value) ==
  /\ Ahead
  /\ selection # Nothing
  /\ LET t == Set(selection, p, rows[selection][p], value)
         last == SelectLastInSeq(sent, LAMBDA o : o.op = "set_metadata" /\ o.file = selection /\ o.property = p)
         latest == IF last = 0 THEN stored[selection][p] ELSE sent[last].value
     IN  /\ execute(t)
         /\ hasty' = IF t.undo.value = latest THEN hasty ELSE hasty \cup {selection}
  /\ UNCHANGED <<library, views, told>>

menu(m) == m.action \in Used /\ set_property(m.property, m.value)

\* The shell's menu as the grid's context menu, where something is selected.
context_menu(m) == selection # Nothing /\ menu(m)

\* A click on the stars of a cell rates the image selected, whichever cell.
on_rating_changed(f, value) == f \in DOMAIN rows /\ set_property("rating", value)

\* The folder is that of the row: a second Delete before the row is gone
\* moves the file from there once more.
move_to_trash ==
  /\ Ahead
  /\ selection # Nothing
  /\ execute(Move(selection, "roll", "trash"))
  /\ hasty' = IF folder_of[selection] = "roll"
                 /\ ~\E i \in DOMAIN sent : sent[i].op = "move" /\ sent[i].file = selection
              THEN hasty ELSE hasty \cup {selection}
  /\ UNCHANGED <<library, views, told>>

\* Mutant: what is undone can be undone again.
undo_command_keep ==
  /\ Ahead /\ undos # <<>>
  /\ sent' = Append(sent, Head(undos).undo)
  /\ redos' = <<Head(undos)>> \o redos
  /\ UNCHANGED <<library, views, told, undos, hasty>>

undo_command ==
  /\ Ahead /\ undos # <<>>
  /\ sent' = Append(sent, Head(undos).undo)
  /\ undos' = Tail(undos) /\ redos' = <<Head(undos)>> \o redos
  /\ UNCHANGED <<library, views, told, hasty>>

redo_command ==
  /\ Ahead /\ redos # <<>>
  /\ sent' = Append(sent, Head(redos).redo)
  /\ redos' = Tail(redos) /\ undos' = <<Head(redos)>> \o undos
  /\ UNCHANGED <<library, views, told, hasty>>

\* The folder is selected again: the list is empty until its content comes.
reselect ==
  /\ Ahead
  /\ rows' = [f \in {} |-> Unset] /\ selection' = Nothing
  /\ sent' = Append(sent, [op |-> "query_folder_content", file |-> Nothing])
  /\ UNCHANGED <<library, counts, told, histories, hasty>>
-----------------------------------------------------------------------------
(* The library.                                                            *)

Perform(op) == sent # <<>> /\ Head(sent).op = op /\ sent' = Tail(sent)

set_metadata ==
  /\ Perform("set_metadata")
  /\ LET o == Head(sent)
     IN  /\ stored' = [stored EXCEPT ![o.file][o.property] = o.value]
         /\ told' = Append(told, [n |-> "MetadataChanged", file |-> o.file, property |-> o.property,
                                  value |-> o.value])
  /\ UNCHANGED <<folder_of, views, histories, hasty>>

\* Whatever folder the file is in, the one that was said is told of.
move_file_to_folder ==
  /\ Perform("move")
  /\ LET o == Head(sent)
     IN  /\ folder_of' = [folder_of EXCEPT ![o.file] = o.to]
         /\ told' = Append(told, [n |-> "FileMoved", file |-> o.file, from |-> o.from, to |-> o.to])
  /\ UNCHANGED <<stored, views, histories, hasty>>

query_folder_content ==
  /\ Perform("query_folder_content")
  /\ told' = Append(told, [n |-> "FolderContentQueried", content |-> [f \in In("roll") |-> stored[f]]])
  /\ UNCHANGED <<library, views, histories, hasty>>
-----------------------------------------------------------------------------
(* The list and the tree, told by the main loop.                           *)

Notified(n) == told # <<>> /\ Head(told).n = n /\ told' = Tail(told)

\* ImageListStore::set_property.
set_row_property ==
  /\ Notified("MetadataChanged")
  /\ LET c == Head(told)
     IN  rows' = IF c.file \in DOMAIN rows THEN [rows EXCEPT ![c.file][c.property] = c.value] ELSE rows
  /\ UNCHANGED <<library, counts, selection, sent, histories, hasty>>

\* Mutant: only the folder that the file is moved to counts it.
count_change_to(counted, from, to) == [counted EXCEPT ![to] = @ + 1]

\* FOLDER_COUNT_CHANGE, one for each folder.
count_change(counted, from, to) == [counted EXCEPT ![from] = @ - 1, ![to] = @ + 1]

\* The file leaves the list when it leaves the folder of the list; a file
\* that comes back does not come back to the list.
file_moved ==
  /\ Notified("FileMoved")
  /\ LET m == Head(told)
         gone == IF m.from = "roll" THEN {m.file} ELSE {}
     IN  /\ rows' = [f \in DOMAIN rows \ gone |-> rows[f]]
         /\ selection' = IF selection \in gone THEN Nothing ELSE selection
         /\ counts' = count_change(counts, m.from, m.to)
  /\ UNCHANGED <<library, sent, histories, hasty>>

folder_content ==
  /\ Notified("FolderContentQueried")
  /\ rows' = Head(told).content /\ selection' = Nothing
  /\ UNCHANGED <<library, counts, sent, histories, hasty>>

CommandsNext ==
  \/ \E f \in Picture : select(f)
  \/ \E m \in Menu : menu(m) \/ context_menu(m)
  \/ \E f \in Picture : on_rating_changed(f, 1)
  \/ move_to_trash \/ undo_command \/ redo_command \/ reselect
  \/ set_metadata \/ move_file_to_folder \/ query_folder_content
  \/ set_row_property \/ file_moved \/ folder_content

CommandsSpec == CommandsInit /\ [][CommandsNext]_commands
-----------------------------------------------------------------------------
Answered == sent = <<>> /\ told = <<>>

\* Once the library has answered, the file of the last transaction that is
\* not undone is as that transaction left it, and what the last one undone
\* found is there again; but for files that were given a command while
\* their row was not up to date.
HistoryStands ==
  LET Stands(o) == IF o.op = "move" THEN folder_of[o.file] = o.to
                   ELSE stored[o.file][o.property] = o.value
  IN  Answered =>
        /\ undos # <<>> /\ undos[1].redo.file \notin hasty => Stands(undos[1].redo)
        /\ redos # <<>> /\ redos[1].undo.file \notin hasty => Stands(redos[1].undo)

\* The counts of the tree, which are told by how much they change, add up to
\* the files that are in the folders; but for files moved once too often.
CountsFollow == Answered /\ hasty = {} =>
  \A c \in Container : counts[c] = Cardinality(In(c))
=============================================================================
