---------------------------- MODULE ImportDialog ----------------------------
(***************************************************************************)
(* The import dialog from its opening to the import.  Choosing a source    *)
(* starts a detached thread that lists it; the list, once the main loop is *)
(* told of it, starts another that makes the previews.  Threads leave      *)
(* results in a UIResultSingle (the list) and a UIResults (the previews)   *)
(* and emit on a Glib::Dispatcher, one call of the slot per emission.      *)
(* Nothing stops a thread whose source is no longer wanted.  All threads,  *)
(* and the import, use the one GpCamera of the camera importer, which each *)
(* closes and opens again, under the calls of the others.  So any opening  *)
(* and any call of it may fail, with a camera that works and without.      *)
(*                                                                         *)
(* A file is its path; two cameras have files of the same path.  A         *)
(* directory that cannot be read lists as an empty one.  The races on the  *)
(* memory of clear(), of a GpCamera that is replaced while in use and of a *)
(* dialog that is gone before its threads are not modelled beyond what the *)
(* pointers are: the thread goes on with the new camera, or to no effect.  *)
(***************************************************************************)
EXTENDS Integers, Sequences, SequencesExt, FiniteSets, TLC

CONSTANTS Directory, Camera,   \* the sources of the two importers
          Content,             \* source -> its files
          Unviewable,          \* <<source, file>>: no preview can be made
          Thread,              \* the threads at one time
          MaxPending           \* how far the user gets ahead of the main loop

None == "none"
Source == Directory \cup Camera
Importer == {"DirectoryImporter", "CameraImporter"}
Owner(s) == IF s \in Camera THEN "CameraImporter" ELSE "DirectoryImporter"
File == UNION {Range(Content[s]) : s \in Source}

ASSUME ImportAssumption ==
  /\ Directory \cap Camera = {} /\ None \notin Source
  /\ Content \in [Source -> Seq(STRING)]
  /\ \A s \in Source : IsInjective(Content[s])
  /\ \A d \in Directory : \A s \in Source \ {d} : Range(Content[d]) \cap Range(Content[s]) = {}
  /\ IsFiniteSet(Thread)
  /\ MaxPending \in Nat

VARIABLES phase,          \* the dialog and then the import
          importer,       \* m_current_importer
          source,         \* m_source, or None for ""
          dest,           \* m_dest_dir: the source it was made for
          rows,           \* m_images_list_model: files and their previews
          map,            \* m_images_list_map: file -> row
          files,          \* the data of m_files_to_import
          previews,       \* the data of m_previews_to_import
          pending,        \* emissions the main loop has not seen
          task,           \* what each thread does
          camera,         \* the device that m_camera is for, or None
          is_open,        \* it has a ::Camera
          failed,         \* history: a camera did not open, list or give all its
                          \* files, since the source was chosen or the import began
          download,       \* the import: files still to download
          imported,       \* the import: <<device or directory, file>>
          overlap         \* history: chosen while an earlier choice was being served

dialog == <<importer, source, dest>>
grid == <<rows, map>>
results == <<files, previews, pending>>
import == <<download, imported>>
device == <<camera, is_open, failed>>
vars == <<phase, dialog, grid, results, task, device, import, overlap>>

Idle == [pc |-> "idle", importer |-> None, source |-> None, todo |-> <<>>]
ListTask(i, s) == [pc |-> "open", importer |-> i, source |-> s, todo |-> <<>>]
PreviewTask(i, s, paths) == [pc |-> "open_previews", importer |-> i, source |-> s, todo |-> paths]

Empty == [f \in {} |-> 0]

Init ==
  /\ phase = "open" /\ importer \in Importer /\ source = None /\ dest = None
  /\ rows = <<>> /\ map = Empty /\ files = <<>> /\ previews = <<>> /\ pending = <<>>
  /\ task = [t \in Thread |-> Idle] /\ camera = None /\ is_open = FALSE /\ failed = FALSE
  /\ download = <<>> /\ imported = {} /\ overlap = FALSE

Quiet == pending = <<>> /\ \A t \in Thread : task[t] = Idle
-----------------------------------------------------------------------------
(* The user.                                                               *)

UserActs == phase = "open" /\ Len(pending) < MaxPending

\* Mutant: the map keeps the rows of the list before.
clear_import_list_keep_map == rows' = <<>> /\ map' = map /\ files' = <<>>

clear_import_list == rows' = <<>> /\ map' = Empty /\ files' = <<>>

run(t, what) == task[t] = Idle /\ task' = [task EXCEPT ![t] = what]

\* Mutant: the source chosen before stays.
import_source_changed_keep(i) ==
  /\ UserActs
  /\ i # importer
  /\ importer' = i
  /\ clear_import_list
  /\ overlap' = ~Quiet
  /\ UNCHANGED <<phase, source, dest, previews, pending, task, device, import>>

import_source_changed(i) ==
  /\ UserActs
  /\ i # importer
  /\ importer' = i
  /\ source' = None
  /\ clear_import_list
  /\ overlap' = ~Quiet
  /\ UNCHANGED <<phase, dest, previews, pending, task, device, import>>

\* Mutant: the list is not cleared.
set_source_keep(s, t) ==
  /\ UserActs
  /\ Owner(s) = importer
  /\ files' = <<>>
  /\ run(t, ListTask(importer, s))
  /\ source' = s /\ dest' = s
  /\ overlap' = ~Quiet /\ failed' = FALSE
  /\ UNCHANGED <<phase, importer, grid, previews, pending, camera, is_open, import>>

\* The source is one that the current importer's widget offers.
set_source(s, t) ==
  /\ UserActs
  /\ Owner(s) = importer
  /\ clear_import_list
  /\ run(t, ListTask(importer, s))
  /\ source' = s /\ dest' = s
  /\ overlap' = ~Quiet /\ failed' = FALSE
  /\ UNCHANGED <<phase, importer, previews, pending, camera, is_open, import>>

\* Import or cancel; import without a source is cancel.  The directory
\* importer hands over the directory at once.
action_file_import ==
  /\ UserActs
  /\ source # None
  /\ IF importer = "DirectoryImporter"
     THEN /\ phase' = "imported"
          /\ imported' = {source} \X Range(Content[source])
     ELSE phase' = "opening" /\ UNCHANGED imported
  /\ UNCHANGED <<dialog, grid, results, task, device, download, overlap>>

cancel ==
  /\ UserActs
  /\ phase' = "cancelled"
  /\ UNCHANGED <<dialog, grid, results, task, device, import, overlap>>
-----------------------------------------------------------------------------
(* The threads.                                                            *)

Become(t, pc) == task' = [task EXCEPT ![t].pc = pc]
End(t) == task' = [task EXCEPT ![t] = Idle]

\* A device that is not in the list leaves the camera that there is.  The
\* camera is opened every time, GpCamera::open() closing it before, and what
\* comes of it is not looked at.
ensure_camera_open(s) ==
  /\ camera' = IF s \in Camera THEN s ELSE camera
  /\ IF camera' = None THEN UNCHANGED is_open ELSE is_open' \in BOOLEAN

\* list_source_content and get_previews_for, up to the camera being open.
open(t) ==
  /\ task[t].pc \in {"open", "open_previews"}
  /\ LET next == IF task[t].pc = "open" THEN "list" ELSE "preview"
     IN  IF task[t].importer = "DirectoryImporter"
         THEN Become(t, next) /\ UNCHANGED device
         ELSE /\ ensure_camera_open(task[t].source)
              /\ failed' = (failed \/ ~is_open')
              /\ IF camera' = None THEN End(t) ELSE Become(t, next)
  /\ UNCHANGED <<phase, dialog, grid, results, import, overlap>>

\* What there is at the source: the camera importer asks the camera it has
\* by now.
Contents(i, s) == IF i = "CameraImporter" THEN Content[camera] ELSE Content[s]

\* GpCamera::list_content: a camera that is not open, or that fails, lists
\* as an empty one (in Importers folder by folder).
Listed(i, s) ==
  IF i = "DirectoryImporter" THEN {Contents(i, s)}
  ELSE {<<>>} \cup (IF is_open THEN {Contents(i, s)} ELSE {})

Lists(i, s, list) ==
  /\ list \in Listed(i, s)
  /\ failed' = (failed \/ list # Contents(i, s))
  /\ UNCHANGED <<camera, is_open>>

list_source_content(t) ==
  /\ task[t].pc = "list"
  /\ \E list \in Listed(task[t].importer, task[t].source) :
       /\ Lists(task[t].importer, task[t].source, list)
       /\ task' = [task EXCEPT ![t].todo = list, ![t].pc = "send"]
  /\ UNCHANGED <<phase, dialog, grid, results, import, overlap>>

\* UIResultSingle::send_data: the data, then the emission.
send_data(t) ==
  /\ task[t].pc = "send"
  /\ files' = task[t].todo
  /\ Become(t, "emit")
  /\ UNCHANGED <<phase, dialog, grid, previews, pending, device, import, overlap>>

emit(t) ==
  /\ task[t].pc = "emit"
  /\ pending' = Append(pending, "files")
  /\ End(t)
  /\ UNCHANGED <<phase, dialog, grid, files, previews, device, import, overlap>>

\* The source whose file the preview shows, or None.
Preview(s, f) == IF f \in Range(Content[s]) /\ <<s, f>> \notin Unviewable THEN s ELSE None

\* The camera importer has no thumbnail at all when the camera gives none.
Made(i, f) ==
  LET of(p) == [file |-> f, preview |-> p, null |-> (i = "CameraImporter" /\ p = None)]
      ds == {d \in Directory : Preview(d, f) = d}
  IN  IF i = "CameraImporter" THEN {of(p) : p \in {None} \cup (IF is_open THEN {Preview(camera, f)} ELSE {})}
      ELSE {of(IF ds = {} THEN None ELSE CHOOSE d \in ds : TRUE)}

\* One preview is made and sent (UIResults::send_data).
get_preview(t) ==
  /\ task[t].pc = "preview"
  /\ IF task[t].todo = <<>> THEN End(t) /\ UNCHANGED previews
     ELSE /\ \E made \in Made(task[t].importer, Head(task[t].todo)) : previews' = Append(previews, made)
          /\ task' = [task EXCEPT ![t].todo = Tail(@), ![t].pc = "emit_preview"]
  /\ UNCHANGED <<phase, dialog, grid, files, pending, device, import, overlap>>

emit_preview(t) ==
  /\ task[t].pc = "emit_preview"
  /\ pending' = Append(pending, "preview")
  /\ Become(t, "preview")
  /\ UNCHANGED <<phase, dialog, grid, files, previews, device, import, overlap>>
-----------------------------------------------------------------------------
(* The main loop, while the dialog is open.                                *)

Deliver(what) ==
  /\ phase = "open"
  /\ pending # <<>> /\ Head(pending) = what
  /\ pending' = Tail(pending)

\* The data stays in the UIResultSingle; importer and source are the
\* present ones.  A file that is in the map already keeps its row there.
append_files_to_import(t) ==
  /\ Deliver("files")
  /\ rows' = rows \o [i \in DOMAIN files |-> [file |-> files[i], preview |-> None]]
  /\ map' = [f \in DOMAIN map \cup Range(files) |->
               IF f \in DOMAIN map THEN map[f] ELSE Len(rows) + (CHOOSE i \in DOMAIN files : files[i] = f)]
  /\ run(t, PreviewTask(importer, source, files))
  /\ UNCHANGED <<phase, dialog, files, previews, device, import, overlap>>

\* A null thumbnail is dereferenced.
preview_received ==
  /\ Deliver("preview")
  /\ IF previews = <<>> THEN UNCHANGED <<phase, previews, rows>>
     ELSE LET p == Head(previews)
          IN  /\ previews' = Tail(previews)
              /\ IF p.file \notin DOMAIN map THEN UNCHANGED <<phase, rows>>
                 ELSE IF p.null THEN phase' = "crashed" /\ UNCHANGED rows
                 ELSE rows' = [rows EXCEPT ![map[p.file]].preview = p.preview] /\ UNCHANGED phase
  /\ UNCHANGED <<dialog, map, files, task, device, import, overlap>>
-----------------------------------------------------------------------------
(* CameraImporter::do_import, on the main loop's thread.                   *)

\* Without a camera nothing is imported.
do_import_open ==
  /\ phase = "opening"
  /\ ensure_camera_open(source)
  /\ failed' = ~is_open'
  /\ phase' = IF camera' = None THEN "cancelled" ELSE "listing"
  /\ UNCHANGED <<dialog, grid, results, task, import, overlap>>

do_import_list ==
  /\ phase = "listing"
  /\ \E list \in Listed(importer, source) : Lists(importer, source, list) /\ download' = list
  /\ phase' = "downloading"
  /\ UNCHANGED <<dialog, grid, results, task, imported, overlap>>

\* A file that the camera of the moment does not give, or that cannot be
\* saved, is left out.
LeftOut == UNCHANGED imported /\ failed' = TRUE

Downloaded(f) ==
  /\ is_open /\ f \in Range(Content[camera])
  /\ imported' = imported \cup {<<camera, f>>}
  /\ UNCHANGED failed

\* When all were tried the directory is imported.
download_file ==
  /\ phase = "downloading"
  /\ IF download = <<>> THEN phase' = "imported" /\ UNCHANGED <<import, failed>>
     ELSE /\ download' = Tail(download)
          /\ Downloaded(Head(download)) \/ LeftOut
          /\ UNCHANGED phase
  /\ UNCHANGED <<dialog, grid, results, task, camera, is_open, overlap>>
-----------------------------------------------------------------------------
User ==
  \/ \E i \in Importer : import_source_changed(i)
  \/ \E s \in Source, t \in Thread : set_source(s, t)
  \/ action_file_import \/ cancel

Run(t) ==
  /\ phase # "crashed"
  /\ \/ open(t) \/ list_source_content(t) \/ send_data(t) \/ emit(t)
     \/ get_preview(t) \/ emit_preview(t)

MainLoop ==
  \/ \E t \in Thread : append_files_to_import(t)
  \/ preview_received
  \/ do_import_open \/ do_import_list \/ download_file

Next == User \/ MainLoop \/ \E t \in Thread : Run(t)

Spec == Init /\ [][Next]_vars
-----------------------------------------------------------------------------
(* Properties.                                                             *)

\* Once all is done the dialog lists the files of the source, in order, each
\* once and with its preview, unless the source was chosen while another was
\* still being listed or previewed (the older files are then listed too), or
\* its camera did not open or list all its folders.
ShownIsSource ==
  Quiet /\ phase = "open" /\ source # None /\ ~overlap /\ ~failed =>
    rows = [i \in DOMAIN Content[source] |->
              [file |-> Content[source][i], preview |-> Preview(source, Content[source][i])]]

\* A preview goes to a row of its file, however the list was cleared and
\* filled while it was made; a picture of a directory has no other's.
PreviewOfRow ==
  /\ \A f \in DOMAIN map : map[f] \in DOMAIN rows /\ rows[map[f]].file = f
  /\ \A i \in DOMAIN rows : rows[i].preview # None => rows[i].file \in Range(Content[rows[i].preview])

\* "perform import from source": every file imported is one of the source
\* chosen last, through changes of the importer and whatever fails, and none
\* is left out unless, from when the import opened the camera on, an opening
\* of it failed (by the import, or by the thread of the previews under it) or
\* a call of the import did; unless a thread of another choice was at work
\* when the source was chosen (it may take the camera from the import).
ImportedFromSource == ~overlap =>
  /\ \A x \in imported : x[1] = source
  /\ phase = "imported" /\ ~failed => {x[2] : x \in imported} = Range(Content[source])
=============================================================================
