----------------------------- MODULE Importers -----------------------------
(***************************************************************************)
(* The importers and the cameras they import from, between two calls of    *)
(* whose library a camera may be unplugged, plugged in again or taken by   *)
(* the file manager.  An importer calls one after another here; the        *)
(* threads that share a camera are in ImportDialog.                        *)
(*                                                                         *)
(* A camera answers when it is the one plugged in at its port and nobody   *)
(* else holds it.  The library opens it at the first call if it is not     *)
(* open, so a GpCamera that was made and not given up can be called.       *)
(***************************************************************************)
EXTENDS Naturals, Sequences, SequencesExt, FiniteSets, TLC

CONSTANTS Port,          \* the ports of the computer
          Card,          \* model -> [root, folders], each folder [name, files]
          Directory,     \* directory -> its files, in order
          Media,         \* those that are pictures or movies
          MaxChanges     \* how often cameras come, go and are taken

Model == DOMAIN Card
AnyPort == "usb:"      \* the port that stands for any
NoModel == "none"

\* A camera keeps its pictures in one of the two places that are looked at.
ASSUME ImportersAssumption ==
  /\ IsFiniteSet(Port) /\ AnyPort \notin Port /\ NoModel \notin Model \cup Port
  /\ \A m \in Model : Card[m] \in [root : {"dcim", "ptp"}, folders : Seq([name : STRING, files : Seq(STRING)])]
  /\ DOMAIN Directory \cap (Port \cup {AnyPort, NoModel}) = {}
  /\ \A d \in DOMAIN Directory : Directory[d] \in Seq(STRING)
  /\ MaxChanges \in Nat

VARIABLES plugged,     \* port -> the model plugged in, or NoModel
          mounted,     \* ports whose camera the file manager holds
          unmounting,  \* those it was asked to give up
          changes,     \* bounds the changes
          devices,     \* GpDeviceList, and what the widget offers
          m_camera,    \* [path, model, made], or NoCamera
          job,         \* what the importer does
          listed,      \* the files the dialog shows
          steady       \* history: during the job the camera stayed within reach
                       \* and every copy was saved

usb == <<plugged, mounted, unmounting, changes>>
cameras == <<devices, m_camera>>
importers == <<usb, cameras, job, listed, steady>>

\* A device: its port and its model.
GpDevice(path, model) == [path |-> path, model |-> model]

NoCamera == [path |-> AnyPort, model |-> NoModel, made |-> FALSE]
NoJob == [pc |-> "closed", what |-> "list", source |-> NoModel, folders |-> <<>>,
          files |-> <<>>, copies |-> <<>>, handed |-> <<>>, unsaved |-> {}]

ImportersInit ==
  /\ plugged \in [Port -> Model \cup {NoModel}]
  /\ \A p, q \in Port : plugged[p] = plugged[q] => p = q \/ plugged[p] = NoModel
  /\ mounted = {} /\ unmounting = {} /\ changes = 0
  /\ devices = <<>> /\ m_camera = NoCamera /\ job = NoJob /\ listed = <<>> /\ steady = FALSE

Ports(path) == IF path = AnyPort THEN Port ELSE {path}
Within(camera) == \E p \in Ports(camera.path) : plugged[p] = camera.model
Unheld(camera) == \E p \in Ports(camera.path) : plugged[p] = camera.model /\ p \notin mounted

\* A call of the camera succeeds.
Answers == m_camera.made /\ Unheld(m_camera)
-----------------------------------------------------------------------------
(* What happens to cameras.                                                *)

Touches(p) == m_camera # NoCamera /\ p \in Ports(m_camera.path)

Change(p) ==
  /\ changes < MaxChanges
  /\ changes' = changes + 1
  /\ steady' = (steady /\ ~Touches(p))
  /\ UNCHANGED <<cameras, job, listed>>

plug(p, model) ==
  /\ plugged[p] = NoModel /\ \A q \in Port : plugged[q] # model
  /\ plugged' = [plugged EXCEPT ![p] = model]
  /\ Change(p) /\ UNCHANGED <<mounted, unmounting>>

unplug(p) ==
  /\ plugged[p] # NoModel
  /\ plugged' = [plugged EXCEPT ![p] = NoModel]
  /\ mounted' = mounted \ {p} /\ unmounting' = unmounting \ {p}
  /\ Change(p)

mount(p) ==
  /\ plugged[p] # NoModel /\ p \notin mounted
  /\ mounted' = mounted \cup {p}
  /\ Change(p) /\ UNCHANGED <<plugged, unmounting>>

\* What GpCamera asked for: the camera is given up, in its time.
unmounted(p) ==
  /\ p \in unmounting
  /\ mounted' = mounted \ {p} /\ unmounting' = unmounting \ {p}
  /\ UNCHANGED <<plugged, changes, cameras, job, listed, steady>>
-----------------------------------------------------------------------------
(* The dialog and the widgets of the importers.                            *)

\* GpDeviceList::detect: the library finds a camera at its port, at any
\* port, or both; the second counts when it is all there is.
detect(specific, any) ==
  LET used == {p \in Port : plugged[p] # NoModel}
      found == (IF any /\ used # {} THEN {GpDevice(AnyPort, plugged[CHOOSE p \in used : TRUE])} ELSE {})
               \cup (IF specific THEN {GpDevice(p, plugged[p]) : p \in used} ELSE {})
  IN  SetToSeq(IF Cardinality(found) > 1 THEN {d \in found : d.path # AnyPort} ELSE found)

\* The dialog opens with new importers.
CameraImporterUI ==
  /\ job.pc = "closed"
  /\ \E specific, any \in BOOLEAN : devices' = detect(specific, any)
  /\ m_camera' = NoCamera
  /\ job' = [NoJob EXCEPT !.pc = "idle"]
  /\ listed' = <<>> /\ steady' = FALSE
  /\ UNCHANGED usb

Begin(what, source) ==
  job' = [NoJob EXCEPT !.pc = "open", !.what = what, !.source = source]

select_camera ==
  /\ job.pc = "idle"
  /\ \E d \in Range(devices) : Begin("list", d.path)
  /\ listed' = <<>>
  /\ UNCHANGED <<usb, cameras, steady>>

\* DirectoryImporter: what is listed is media, and handed over is all.
list_directory(d) ==
  FlattenSeq([i \in DOMAIN Directory[d] |-> IF Directory[d][i] \in Media THEN <<Directory[d][i]>> ELSE <<>>])
import_directory(d) == Directory[d]

do_select_directories(d) ==
  /\ job.pc = "idle"
  /\ job' = [NoJob EXCEPT !.pc = "idle", !.source = d]
  /\ listed' = list_directory(d)
  /\ UNCHANGED <<usb, cameras, steady>>

action_file_import ==
  /\ job.pc = "idle" /\ job.source # NoModel
  /\ IF job.source \in DOMAIN Directory
     THEN job' = [job EXCEPT !.pc = "imported", !.handed = import_directory(job.source)]
     ELSE Begin("import", job.source)
  /\ UNCHANGED <<usb, cameras, listed, steady>>

\* The dialog and the importers are gone.
close_dialog ==
  /\ job.pc \in {"idle", "imported"}
  /\ job' = NoJob /\ m_camera' = NoCamera /\ listed' = <<>>
  /\ UNCHANGED <<usb, devices, steady>>
-----------------------------------------------------------------------------
(* A camera is listed, its previews are made, or it is imported.           *)

Goes(pc) == job' = [job EXCEPT !.pc = pc]

\* GpCamera::try_unmount_camera: the path names a device, which is mounted.
try_unmount_camera(camera) ==
  \/ unmounting' = unmounting \cup ({camera.path} \cap mounted)
  \/ UNCHANGED unmounting

\* GpCamera::open: a camera that is held is asked for, and one that cannot
\* be had is given up.
open_camera(camera) ==
  /\ m_camera' = [camera EXCEPT !.made = Within(camera)]
  /\ IF Within(camera) /\ ~Unheld(camera) THEN try_unmount_camera(camera) ELSE UNCHANGED unmounting

\* The device of the list at a path, and the camera of it.
get_device(path) ==
  {[path |-> path, model |-> d.model, made |-> FALSE] : d \in {e \in Range(devices) : e.path = path}}

New(source) == m_camera = NoCamera \/ m_camera.path # source

Opened ==
  /\ steady' = Within(m_camera')
  /\ Goes(IF job.what = "preview" THEN "preview" ELSE "list_root")
  /\ UNCHANGED <<plugged, mounted, changes, devices, listed>>

\* Mutant: a camera is opened when it is new only.
ensure_camera_open_once ==
  /\ job.pc = "open"
  /\ IF New(job.source)
     THEN \E camera \in get_device(job.source) : open_camera(camera)
     ELSE UNCHANGED <<m_camera, unmounting>>
  /\ Opened

\* CameraImporter::ensure_camera_open, which does not look at whether the
\* camera opened.  The widget offers devices of the list only.
ensure_camera_open ==
  /\ job.pc = "open"
  /\ IF New(job.source)
     THEN \E camera \in get_device(job.source) : open_camera(camera)
     ELSE open_camera(m_camera)
  /\ Opened

Calls == steady' = (steady /\ Unheld(m_camera)) /\ UNCHANGED <<usb, cameras>>

\* GpCamera::list_content: the folders of DCIM, or of that of PTP.
list_root ==
  /\ job.pc \in {"list_root", "list_ptp"}
  /\ LET root == IF job.pc = "list_root" THEN "dcim" ELSE "ptp"
     IN  IF Answers /\ Card[m_camera.model].root = root
         THEN job' = [job EXCEPT !.pc = "folders", !.folders = Card[m_camera.model].folders]
         ELSE Goes(IF root = "dcim" THEN "list_ptp" ELSE "folders")
  /\ Calls /\ UNCHANGED listed

FilesOf(folder) ==
  [i \in DOMAIN folder.files |-> [folder |-> folder.name, name |-> folder.files[i]]]

\* One folder; one that cannot be listed is left out.
process_folders ==
  /\ job.pc = "folders" /\ job.folders # <<>>
  /\ job' = [job EXCEPT !.folders = Tail(@),
                        !.files = IF Answers THEN @ \o FilesOf(Head(job.folders)) ELSE @]
  /\ Calls /\ UNCHANGED listed

\* The list is sent and its previews are asked for.
list_source_content ==
  /\ job.pc = "folders" /\ job.folders = <<>> /\ job.what = "list"
  /\ listed' = [i \in DOMAIN job.files |-> job.files[i].name]
  /\ job' = [job EXCEPT !.pc = "open", !.what = "preview"]
  /\ UNCHANGED <<usb, cameras, steady>>

\* One preview; a camera that gives none ends the program, which takes a
\* null thumbnail for one.
get_previews_for ==
  /\ job.pc = "preview"
  /\ job' = IF job.files = <<>> THEN [job EXCEPT !.pc = "idle"]
            ELSE IF Answers THEN [job EXCEPT !.files = Tail(@)]
            ELSE [job EXCEPT !.pc = "crashed"]
  /\ Calls /\ UNCHANGED listed

\* CameraImporter::do_import, once it has the list: the directory is made,
\* or an exception is thrown that nothing catches.
do_import ==
  /\ job.pc = "folders" /\ job.folders = <<>> /\ job.what = "import"
  /\ Goes("download") \/ Goes("thrown")
  /\ UNCHANGED <<usb, cameras, listed, steady>>

\* A file is copied, in place of one of its name.
Copied(copies, f) ==
  [n \in DOMAIN copies \cup {f.name} |->
     IF n = f.name THEN [model |-> m_camera.model, folder |-> f.folder, name |-> n] ELSE copies[n]]

\* GpCamera::download_file: into the directory, under its name.
Downloaded(f) ==
  /\ Answers
  /\ job' = [job EXCEPT !.files = Tail(@), !.copies = Copied(@, f), !.handed = Append(@, f.name)]
  /\ Calls

\* What the camera does not give is left out.
NotGiven ==
  /\ ~Answers
  /\ job' = [job EXCEPT !.files = Tail(@)]
  /\ Calls

\* And what cannot be saved (gp_file_save): an earlier copy of that name
\* stays, or it is gone when the disk is full in the middle of it.
NotSaved(f) ==
  /\ Answers
  /\ \E lost \in SUBSET {f.name} :
       job' = [job EXCEPT !.files = Tail(@), !.copies = Restrict(@, DOMAIN @ \ lost),
                          !.unsaved = @ \cup {f.name}]
  /\ steady' = FALSE /\ UNCHANGED <<usb, cameras>>

download_file ==
  /\ job.pc = "download" /\ job.files # <<>>
  /\ Downloaded(Head(job.files)) \/ NotGiven \/ NotSaved(Head(job.files))
  /\ UNCHANGED listed

\* importer(tmp_dir_path, files, Managed::NO): the files go to the library.
importer ==
  /\ job.pc = "download" /\ job.files = <<>>
  /\ Goes("imported")
  /\ UNCHANGED <<usb, cameras, listed, steady>>

ImportersNext ==
  \/ \E p \in Port : unplug(p) \/ mount(p) \/ unmounted(p) \/ \E model \in Model : plug(p, model)
  \/ CameraImporterUI \/ select_camera \/ action_file_import \/ close_dialog
  \/ \E d \in DOMAIN Directory : do_select_directories(d)
  \/ ensure_camera_open \/ list_root \/ process_folders \/ list_source_content
  \/ get_previews_for \/ do_import \/ download_file \/ importer

ImportersSpec == ImportersInit /\ [][ImportersNext]_importers
-----------------------------------------------------------------------------
(* Properties.                                                             *)

\* "Copy shall occur first if needed": what an importer hands over is there,
\* unless another file of its name could not be saved after it, and of its
\* source.  A camera that stays plugged in from the opening on, and that
\* nobody holds from the first call on, is handed over whole if every copy
\* could be saved, however it came, went and was held before and whatever
\* failed then; cards whose folders have files of one name apart, of which
\* one is kept.
HandsOverSource ==
  LET whole == FlattenSeq([i \in DOMAIN Card[m_camera.model].folders |-> Card[m_camera.model].folders[i].files])
      camera == job.pc = "imported" /\ job.source \notin DOMAIN Directory
  IN  /\ camera => \A i \in DOMAIN job.handed :
             /\ job.handed[i] \in DOMAIN job.copies \cup job.unsaved
             /\ job.handed[i] \in DOMAIN job.copies =>
                  \E d \in Range(devices) : d.path = job.source /\ d.model = job.copies[job.handed[i]].model
      /\ camera /\ steady => job.handed = whole
      /\ job.pc = "imported" /\ job.source \in DOMAIN Directory =>
           \A i \in DOMAIN listed : listed[i] \in Range(job.handed)
=============================================================================
