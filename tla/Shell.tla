------------------------------- MODULE Shell -------------------------------
(***************************************************************************)
(* The module shell: the list of images, the two views of it (the grid and *)
(* the film strip) that SelectionController keeps on the same image, and   *)
(* the stack of modules (grid, darkroom, map) of which one is visible.     *)
(* What is selected goes to the darkroom at once, and to the metadata pane *)
(* and the map when the library has answered.                              *)
(*                                                                         *)
(* Everything runs on the main loop.  The list tells each view, the grid   *)
(* first, of a row that goes; a view that loses its selected row signals   *)
(* so in the middle of that, and SelectionController guards itself against *)
(* the signals it causes.  Of an edit only the file is here, whose change  *)
(* the library tells: the values are in Niepce and MetadataPane, and the   *)
(* operations that fail in LibraryDb.                                      *)
(***************************************************************************)
EXTENDS Darkroom, Sequences, SequencesExt

CONSTANTS Content,      \* what a folder may hold: files in an order, without repetition
          Located,      \* the files with a position
          MaxPending    \* bound: requests and answers on their way

ASSUME ShellAssumption ==
  /\ Located \subseteq File
  /\ Content \subseteq Seq(File)
  /\ \A c \in Content : \A i, j \in DOMAIN c : c[i] = c[j] => i = j

View == {"grid", "strip"}
Page == {"grid", "darkroom", "map"}
Home == "home"          \* the position that the map starts with

VARIABLES store,        \* ImageListStore: the files, in order
          selected_in,  \* the image selected in each view
          page,         \* ModuleShellWidget: the visible page, m_current_module
          active,       \* the modules with m_active
          m_fileid,     \* the file in the metadata pane
          centre,       \* the map: the position in its middle
          requests,     \* to the library: metadata asked for ("queried") or set ("changed")
          notifs,       \* from the library: the metadata of a file, or that it has changed
          watching      \* history: since the last selection the map has been active,
                        \* and no file but the one selected was asked for again

stack == <<page, active>>
shell == <<store, selected_in, stack>>
shown == <<m_fileid, centre>>
channels == <<requests, notifs>>
vars == <<darkroom, shell, shown, channels, watching>>

Message == [n : {"queried", "changed"}, id : File]
Queried(f) == [n |-> "queried", id |-> f]
Changed(f) == [n |-> "changed", id |-> f]

ShellTypeOK ==
  /\ DarkroomTypeOK
  /\ store \in Seq(File) /\ \A i, j \in DOMAIN store : store[i] = store[j] => i = j
  /\ selected_in \in [View -> File \cup {None}]
  /\ page \in Page /\ active \subseteq Page
  /\ m_fileid \in File \cup {None}
  /\ centre \in Located \cup {Home}
  /\ requests \in Seq(Message) /\ notifs \in Seq(Message)
  /\ watching \in BOOLEAN

Init ==
  /\ DarkroomInit
  /\ store = <<>> /\ selected_in = [v \in View |-> None]
  /\ page = "grid" /\ active = {}
  /\ m_fileid = None /\ centre = Home
  /\ requests = <<>> /\ notifs = <<>>
  /\ watching = FALSE
-----------------------------------------------------------------------------
(* SelectionController.                                                    *)

\* The image list gives the file or nothing.  (In this version always
\* nothing: ImageListStore::get_file lacks a `return'.)
get_file(f) == {None} \cup ({f} \cap ToSet(store))

\* The first view's selection stands for that of all.
get_selection == selected_in["grid"]

\* DarkroomModule::on_selected.
on_selected(f) == \E file \in get_file(f) : set_image(file, "darkroom" \in active)

UserActs == Len(requests) + Len(notifs) < MaxPending

\* The selection in all the views is f: the shell asks the library for its
\* metadata or empties the pane, and the darkroom takes the file.
signal_selected(f) ==
  /\ IF f # None THEN requests' = Append(requests, Queried(f)) /\ UNCHANGED m_fileid
     ELSE m_fileid' = None /\ UNCHANGED requests
  /\ on_selected(f)
  /\ watching' = ("map" \in active)

\* A list has a row of the image, and a path to it.
get_path_from_id(f, list) == f \in list

\* Mutant: an image that is not in the list leaves the selection as it is.
select_image_keep(v, f, list) == IF get_path_from_id(f, list) THEN f ELSE selected_in[v]

\* IImageSelectable::select_image: a view selects an image of the list, or
\* nothing.
select_image(v, f, list) == IF get_path_from_id(f, list) THEN f ELSE None

\* The selection of a view has changed to f: the other views follow.  Their
\* own signals are not followed.
selected(v, f, list) ==
  /\ selected_in' = [w \in View |-> IF w = v THEN f ELSE select_image(w, f, list)]
  /\ signal_selected(f)

\* A click on an image of a view, or beside them.
click(v, f) ==
  /\ UserActs
  /\ f # selected_in[v]
  /\ selected(v, f, ToSet(store))
  /\ UNCHANGED <<store, stack, centre, notifs>>

\* Previous and next image.  Before the first there is the first, which is
\* selected again; after the last there is nothing.
selection_move(step) ==
  /\ UserActs
  /\ get_path_from_id(get_selection, ToSet(store))
  /\ LET at == CHOOSE i \in DOMAIN store : store[i] = get_selection
         to == IF at + step = 0 THEN at ELSE at + step
     IN  /\ to \in DOMAIN store
         /\ selected_in' = [v \in View |-> select_image(v, store[to], ToSet(store))]
         /\ signal_selected(store[to])
  /\ UNCHANGED <<store, stack, centre, notifs>>

\* The items of the shell's menu that go from image to image.  (Rotating
\* does nothing.)
Menu == selection_move(-1) \/ selection_move(1)

\* Rows go from the list: the view first told that its selected row is gone
\* takes the other with it.
rows_deleted(left) ==
  LET bereft == {v \in View : selected_in[v] # None /\ selected_in[v] \notin left}
  IN  IF bereft = {} THEN UNCHANGED <<darkroom, selected_in, m_fileid, requests, watching>>
      ELSE selected(IF "grid" \in bereft THEN "grid" ELSE "strip", None, left)

\* Another folder is selected in the tree.
content_will_change ==
  /\ store # <<>>
  /\ store' = <<>>
  /\ rows_deleted({})
  /\ UNCHANGED <<stack, centre, channels>>

\* SelectionController::_set_metadata.
set_metadata(f) ==
  /\ UserActs
  /\ requests' = Append(requests, Changed(f))
  /\ UNCHANGED <<darkroom, shell, shown, notifs, watching>>

\* While the pane displays a file, an edit in it is one of the image selected.
set_properties == m_fileid # None /\ get_selection # None /\ set_metadata(get_selection)

\* An earlier edit is undone or done again, whatever is selected now.  (The
\* model starts in a session in which every file has been edited.)
undo_edit(f) == set_metadata(f)
-----------------------------------------------------------------------------
(* ModuleShell and its stack.                                              *)

\* ModuleShellWidget::stack_changed: the module of the page before is
\* deactivated, then that of the new page is activated.  The grid ignores it.
stack_changed(p) ==
  /\ page' = p
  /\ active' = {p} \ {"grid"}

\* Another page is chosen.
switch(p) ==
  /\ p # page
  /\ stack_changed(p)
  /\ IF p = "darkroom" THEN set_active ELSE UNCHANGED darkroom
  /\ watching' = FALSE
  /\ UNCHANGED <<store, selected_in, shown, channels>>

\* A double click on an image opens it in the darkroom.
on_image_activated(f) ==
  /\ f \in ToSet(store) /\ f \in get_file(f)
  /\ IF page = "darkroom"
     THEN set_image(f, "darkroom" \in active) /\ UNCHANGED <<stack, watching>>
     ELSE open_image(f) /\ stack_changed("darkroom") /\ watching' = FALSE
  /\ UNCHANGED <<store, selected_in, shown, channels>>

\* The canvas has another size.
resize ==
  /\ page = "darkroom" /\ ~m_resized
  /\ on_size_allocate
  /\ UNCHANGED <<shell, shown, channels, watching>>

redraw ==
  /\ page = "darkroom"
  /\ on_draw
  /\ UNCHANGED <<shell, shown, channels, watching>>
-----------------------------------------------------------------------------
(* The library and its notifications.                                      *)

\* The library answers with the metadata asked for, or tells the change.
Execute(n) ==
  /\ requests # <<>> /\ Head(requests).n = n
  /\ requests' = Tail(requests)
  /\ notifs' = Append(notifs, Head(requests))
  /\ UNCHANGED <<darkroom, shell, shown, watching>>

cmd_request_metadata == Execute("queried")
cmd_set_metadata == Execute("changed")

\* Mutant: the map keeps the first position it is given.
centerOn_once(f) == centre' = IF f \in Located /\ centre = Home THEN f ELSE centre

\* The map goes to where the picture was taken, if that is known.
centerOn(f) == centre' = IF f \in Located THEN f ELSE centre

\* The pane displays the file; the map takes notice only while it is active.
on_metadata_queried ==
  /\ notifs # <<>> /\ Head(notifs).n = "queried"
  /\ notifs' = Tail(notifs)
  /\ LET f == Head(notifs).id
     IN  /\ m_fileid' = f
         /\ IF "map" \in active THEN centerOn(f) ELSE UNCHANGED centre
  /\ UNCHANGED <<darkroom, shell, requests, watching>>

\* The file that the pane displays is asked for again, selected or not: the
\* map takes that answer too.
on_metadata_changed ==
  /\ notifs # <<>> /\ Head(notifs).n = "changed"
  /\ notifs' = Tail(notifs)
  /\ LET f == Head(notifs).id
     IN  /\ requests' = IF f = m_fileid THEN Append(requests, Queried(f)) ELSE requests
         /\ watching' = (watching /\ (f = m_fileid => f = get_selection))
  /\ UNCHANGED <<darkroom, shell, shown>>

\* The content of the folder or keyword selected comes.
on_folder_content(content) ==
  /\ store' = content
  /\ rows_deleted({})
  /\ UNCHANGED <<stack, centre, notifs>>

\* A file is moved out of the folder displayed.
on_file_moved(f) ==
  /\ f \in ToSet(store)
  /\ store' = RemoveAt(store, CHOOSE i \in DOMAIN store : store[i] = f)
  /\ rows_deleted(ToSet(store) \ {f})
  /\ UNCHANGED <<stack, centre, channels>>

Next ==
  \/ \E v \in View, f \in ToSet(store) \cup {None} : click(v, f)
  \/ Menu
  \/ set_properties
  \/ \E f \in File : undo_edit(f)
  \/ content_will_change
  \/ \E p \in Page : switch(p)
  \/ \E f \in File : on_image_activated(f)
  \/ resize \/ redraw
  \/ cmd_request_metadata \/ cmd_set_metadata
  \/ on_metadata_queried \/ on_metadata_changed
  \/ \E content \in Content : on_folder_content(content)
  \/ \E f \in File : on_file_moved(f)

Spec == Init /\ [][Next]_vars
-----------------------------------------------------------------------------
\* The views show the same selection, an image of the list, through clicks
\* in either of them, moves, lists that change and the signals that each of
\* these sets off within another: commands act on the grid's selection,
\* whatever view the user sees.
ViewsAgree ==
  /\ selected_in["grid"] = selected_in["strip"]
  /\ selected_in["grid"] \in ToSet(store) \cup {None}

\* Once the library has answered, a map that has been visible since the
\* selection was made shows the position of the image selected, whatever
\* was selected before and answered late, and however often its own changes
\* had it asked for again.  Unless the change of another image was told
\* while the pane still displayed that one: it is then asked for after the
\* selection, and the map may end there.
MapFollows ==
  watching /\ requests = <<>> /\ notifs = <<>> /\ selected_in["grid"] \in Located =>
    centre = selected_in["grid"]

\* When the darkroom has been drawn it shows the file last given to it or a
\* placeholder, never another file, and in a frame that is turned as the
\* picture is.
DarkroomShowsGiven ==
  page = "darkroom" /\ ~invalid =>
    /\ m_backingstore \in (IF given = None THEN {Generic} ELSE {given, Generic, Missing})
    /\ m_backingstore \in File =>
         m_size = IF Orientation[m_backingstore] \in 5..8 THEN Swapped(Wide) ELSE Wide

\* Drawing, which itself signals a change of the image, comes to rest: with
\* nothing else happening the canvas is drawn twice at most.
DrawingSettles == drawn = 2 => ~invalid
=============================================================================
