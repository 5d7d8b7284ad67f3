------------------------- MODULE ImportDialogProofs -------------------------
(***************************************************************************)
(* What holds of the import dialog for any directories, cameras, lists of  *)
(* files and number of threads.                                            *)
(*                                                                         *)
(* That the dialog ends up showing its source follows from what has become *)
(* of the one choice being served: its thread is listing, or its list is   *)
(* on its way, or the rows are there and the previews received, on their   *)
(* way and still to make are, in this order, the files of the source.      *)
(***************************************************************************)
EXTENDS ImportDialog, SequenceLemmas

Pc == {"idle", "open", "list", "send", "emit", "open_previews", "preview", "emit_preview"}
Phase == {"open", "imported", "opening", "cancelled", "crashed", "listing", "downloading"}
Task == [pc : Pc, importer : Importer \cup {None}, source : Source \cup {None}, todo : Seq(STRING)]
Row == [file : STRING, preview : Source \cup {None}]
PreviewData == [file : STRING, preview : Source \cup {None}, null : BOOLEAN]

Typed ==
  /\ phase \in Phase /\ importer \in Importer /\ source \in Source \cup {None}
  /\ rows \in Seq(Row) /\ map \in [DOMAIN map -> Nat] /\ files \in Seq(STRING)
  /\ previews \in Seq(PreviewData) /\ pending \in Seq({"files", "preview"})
  /\ task \in [Thread -> Task] /\ camera \in Camera \cup {None} /\ download \in Seq(STRING)
  /\ is_open \in BOOLEAN /\ failed \in BOOLEAN

\* The importer that is asked is the one of the source, and has a camera by then.
Cameras ==
  /\ source # None => Owner(source) = importer
  /\ \A t \in Thread : task[t].pc \in {"open", "list"} => task[t].source \in Source /\ task[t].importer \in Importer
  /\ \A t \in Thread : task[t].pc = "list" /\ task[t].importer = "CameraImporter" => camera # None
  /\ phase \in {"opening", "listing", "downloading"} => importer = "CameraImporter" /\ source # None
  /\ phase \in {"listing", "downloading"} => camera # None

\* A preview on its way is one of its file.
PreviewsShow ==
  \A i \in DOMAIN previews :
    previews[i].preview # None => previews[i].file \in Range(Content[previews[i].preview])

\* No preview is there that is not being announced.
Owed(s) == Places(s, {"preview"})
Senders == {t \in Thread : task[t].pc = "emit_preview"}
PreviewsOwed == Len(previews) <= Cardinality(Owed(pending)) + Cardinality(Senders)

\* Unless a choice overlapped another, one thread at most is at work, for
\* the source chosen.
Busy(t) == task[t] # Idle
ServesSource == ~overlap =>
  /\ \A t, u \in Thread : Busy(t) /\ Busy(u) => t = u
  /\ \A t \in Thread : Busy(t) => task[t].importer = importer /\ task[t].source = source /\ source # None
  /\ \A t \in Thread : task[t].pc \in {"list", "preview", "emit_preview"} /\ importer = "CameraImporter"
                         => camera = source

\* Then a list is on its way only when the threads are done, and one only.
AllIdle == \A t \in Thread : task[t] = Idle
Turns == ~overlap =>
  /\ \A i, j \in DOMAIN pending : pending[i] = "files" /\ pending[j] = "files" => i = j
  /\ (\E i \in DOMAIN pending : pending[i] = "files") => AllIdle /\ source # None

ImportFollows ==
  /\ phase \notin {"downloading", "imported"} => imported = {}
  /\ ~overlap =>
     /\ \A x \in imported : x[1] = source /\ x[2] \in Range(Content[source])
     /\ phase \in {"listing", "downloading"} => camera = source
     /\ phase = "downloading" /\ ~failed => Range(download) \cup {x[2] : x \in imported} = Range(Content[source])
     /\ phase = "imported" /\ ~failed => {x[2] : x \in imported} = Range(Content[source])

Wanted == Content[source]

\* The source is being listed, or its list is on its way.
ListStage ==
  /\ rows = <<>> /\ map = Empty /\ previews = <<>>
  /\ \/ /\ pending = <<>>
        /\ \E t \in Thread : \/ task[t].pc \in {"open", "list"}
                             \/ task[t].pc = "send" /\ task[t].todo = Wanted
                             \/ task[t].pc = "emit" /\ files = Wanted
     \/ pending = <<"files">> /\ files = Wanted /\ AllIdle

\* Of a file there is the preview, or nothing, which the dialog does not
\* survive.
ShownOrNull(p, f) == p.preview = Preview(source, f) \/ p.null

\* k previews were received; those on their way come next, then those still
\* to be made.  The thread that is sending one has not announced it.
PreviewStageOf(k, todo, sending) ==
  /\ k + Len(previews) + Len(todo) = Len(Wanted)
  /\ \A j \in DOMAIN todo : todo[j] = Wanted[k + Len(previews) + j]
  /\ \A j \in DOMAIN previews : previews[j].file = Wanted[k + j] /\ ShownOrNull(previews[j], Wanted[k + j])
  /\ rows = [i \in DOMAIN Wanted |->
               [file |-> Wanted[i], preview |-> IF i <= k THEN Preview(source, Wanted[i]) ELSE None]]
  /\ Len(previews) = Len(pending) + sending
  /\ \/ sending = 0 /\ todo = <<>> /\ AllIdle
     \/ \E t \in Thread : /\ task[t].todo = todo
                          /\ \/ task[t].pc \in {"open_previews", "preview"} /\ sending = 0
                             \/ task[t].pc = "emit_preview" /\ sending = 1

PreviewStage ==
  /\ \A i \in DOMAIN Wanted : Wanted[i] \in DOMAIN map /\ map[Wanted[i]] = i
  /\ \A i \in DOMAIN pending : pending[i] = "preview"
  /\ \E k \in Nat, todo \in Seq(STRING), sending \in {0, 1} : PreviewStageOf(k, todo, sending)

Pipeline == ~overlap /\ ~failed /\ phase = "open" =>
  IF source = None THEN pending = <<>> /\ AllIdle ELSE ListStage \/ PreviewStage

ImportIInv ==
  Typed /\ Cameras /\ PreviewOfRow /\ PreviewsShow /\ PreviewsOwed /\ ServesSource /\ Turns
  /\ ImportFollows /\ Pipeline
-----------------------------------------------------------------------------
LEMMA Owners ==
  /\ \A s \in Camera : Owner(s) = "CameraImporter" /\ s \in Source /\ s # None
  /\ \A s \in Source : Owner(s) = "CameraImporter" => s \in Camera
  /\ \A s \in Source : Content[s] \in Seq(STRING) /\ s # None
  BY ImportAssumption DEF Owner, Source

LEMMA TaskIs ==
  /\ Idle \in Task
  /\ \A i \in Importer, s \in Source : ListTask(i, s) \in Task
       /\ ListTask(i, s).pc = "open" /\ ListTask(i, s).importer = i /\ ListTask(i, s).source = s
  /\ \A i \in Importer, s \in Source \cup {None}, paths \in Seq(STRING) : PreviewTask(i, s, paths) \in Task
       /\ PreviewTask(i, s, paths).pc = "open_previews" /\ PreviewTask(i, s, paths).importer = i
       /\ PreviewTask(i, s, paths).source = s /\ PreviewTask(i, s, paths).todo = paths
<1>1. <<>> \in Seq(STRING)
  OBVIOUS
<1>2. Idle \in Task
  BY <1>1 DEF Idle, Task, Pc
<1>3. \A i \in Importer, s \in Source : ListTask(i, s) \in Task
  BY <1>1 DEF ListTask, Task, Pc
<1>4. \A i \in Importer, s \in Source \cup {None}, paths \in Seq(STRING) : PreviewTask(i, s, paths) \in Task
  BY DEF PreviewTask, Task, Pc
<1>5. QED
  BY <1>2, <1>3, <1>4 DEF ListTask, PreviewTask

LEMMA IdlePc == Idle.pc = "idle" /\ Idle.todo = <<>>
  BY DEF Idle

-----------------------------------------------------------------------------
(* Threads.                                                                *)

LEMMA EmptyMap == DOMAIN Empty = {} /\ Empty \in [DOMAIN Empty -> Nat] /\ <<>> \in Seq(Row) /\ <<>> \in Seq(STRING)
  BY DEF Empty

LEMMA HeadTail ==
  ASSUME NEW S, NEW s \in Seq(S), s # <<>> PROVE Head(s) \in S /\ Tail(s) \in Seq(S)
  OBVIOUS

LEMMA Working ==
  ASSUME Typed, NEW t \in Thread, NEW x \in Task, task' = [task EXCEPT ![t] = x]
  PROVE  task' \in [Thread -> Task] /\ task'[t] = x /\ \A u \in Thread : u # t => task'[u] = task[u]
  BY DEF Typed

LEMMA PcBusy ==
  ASSUME Typed, ServesSource, ~overlap, NEW t \in Thread, task[t].pc # "idle"
  PROVE  /\ Busy(t) /\ task[t].importer = importer /\ task[t].source = source /\ source # None
         /\ \A u \in Thread : u # t => task[u] = Idle /\ task[u].pc = "idle"
  BY IdlePc DEF ServesSource, Busy

LEMMA SendersFinite == IsFiniteSet(Senders) /\ Cardinality(Senders) \in Nat
<1>1. Senders \in SUBSET Thread
  BY DEF Senders
<1>2. QED
  BY <1>1, ImportAssumption, FS_Subset, FS_CardinalityType

\* What one thread's step does to the number of those sending.
LEMMA SendersStep ==
  ASSUME Typed, NEW t \in Thread, NEW x \in Task, task' = [task EXCEPT ![t] = x]
  PROVE  Cardinality(Senders') = Cardinality(Senders)
           + (IF x.pc = "emit_preview" THEN 1 ELSE 0) - (IF task[t].pc = "emit_preview" THEN 1 ELSE 0)
<1>1. task'[t] = x /\ \A u \in Thread : u # t => task'[u] = task[u]
  BY Working
<1>2. IsFiniteSet(Senders) /\ Cardinality(Senders) \in Nat
  BY SendersFinite
<1>3. CASE x.pc = "emit_preview" /\ task[t].pc # "emit_preview"
  <2>1. Senders' = Senders \cup {t} /\ t \notin Senders
    BY <1>1, <1>3 DEF Senders
  <2>2. Cardinality(Senders \cup {t}) = Cardinality(Senders) + 1
    BY <1>2, <2>1, FS_AddElement
  <2>3. QED
    BY <1>2, <1>3, <2>1, <2>2
<1>4. CASE x.pc # "emit_preview" /\ task[t].pc = "emit_preview"
  <2>1. Senders' = Senders \ {t} /\ t \in Senders
    BY <1>1, <1>4 DEF Senders
  <2>2. Cardinality(Senders \ {t}) = Cardinality(Senders) - 1
    BY <1>2, <2>1, FS_RemoveElement
  <2>3. QED
    BY <1>2, <1>4, <2>1, <2>2
<1>5. CASE x.pc = "emit_preview" <=> task[t].pc = "emit_preview"
  <2>1. Senders' = Senders
    BY <1>1, <1>5 DEF Senders
  <2>2. QED
    BY <1>2, <1>5, <2>1
<1>6. QED
  BY <1>3, <1>4, <1>5

\* A thread goes on for its source, or ends.
LEMMA ServesStep ==
  ASSUME Typed, ServesSource, NEW t \in Thread, task[t].pc # "idle", NEW x \in Task,
         task' = [task EXCEPT ![t] = x], UNCHANGED <<importer, source, overlap>>,
         x = Idle \/ (x.importer = task[t].importer /\ x.source = task[t].source),
         ~overlap /\ x.pc \in {"list", "preview", "emit_preview"} /\ importer = "CameraImporter" => camera' = source
  PROVE  ServesSource'
<1>1. SUFFICES ASSUME ~overlap
               PROVE  /\ \A u, v \in Thread : task'[u] # Idle /\ task'[v] # Idle => u = v
                      /\ \A u \in Thread : task'[u] # Idle =>
                           task'[u].importer = importer /\ task'[u].source = source /\ source # None
                      /\ \A u \in Thread :
                           task'[u].pc \in {"list", "preview", "emit_preview"} /\ importer = "CameraImporter"
                             => camera' = source
  BY DEF ServesSource, Busy
<1>2. task'[t] = x /\ \A u \in Thread : u # t => task'[u] = task[u]
  BY Working
<1>3. /\ task[t].importer = importer /\ task[t].source = source /\ source # None
      /\ \A u \in Thread : u # t => task[u] = Idle /\ task[u].pc = "idle"
  BY <1>1, PcBusy
<1>4. QED
  BY <1>1, <1>2, <1>3

\* A thread at work, with no list on its way, goes on.
LEMMA TurnsStep ==
  ASSUME Typed, ServesSource, Turns, NEW t \in Thread, task[t].pc # "idle", UNCHANGED <<pending, overlap, source>>
  PROVE  Turns'
BY PcBusy, IdlePc DEF Turns, AllIdle

\* Once all is quiet no preview is left behind.
LEMMA QuietNoPreviews == ASSUME Typed, PreviewsOwed, Quiet PROVE previews = <<>>
<1>1. Owed(pending) = {} /\ Senders = {}
  BY IdlePc DEF Quiet, Owed, Places, Senders
<1>2. Len(previews) <= 0
  BY <1>1, FS_EmptySet DEF PreviewsOwed
<1>3. QED
  BY <1>2 DEF Typed
-----------------------------------------------------------------------------
(* The user.                                                               *)

LEMMA ImportInitIInv == Init => ImportIInv
<1> SUFFICES ASSUME Init PROVE ImportIInv
  OBVIOUS
<1>1. /\ phase = "open" /\ importer \in Importer /\ source = None /\ rows = <<>> /\ map = Empty /\ files = <<>>
      /\ previews = <<>> /\ pending = <<>> /\ task = [t \in Thread |-> Idle] /\ camera = None
      /\ download = <<>> /\ imported = {} /\ overlap = FALSE /\ is_open = FALSE /\ failed = FALSE
  BY DEF Init
<1>2. <<>> \in Seq(PreviewData) /\ <<>> \in Seq({"files", "preview"}) /\ Len(<<>>) = 0
  OBVIOUS
<1>3. Typed
  BY <1>1, <1>2, EmptyMap, TaskIs DEF Typed, Phase
<1>4. \A t \in Thread : task[t] = Idle /\ task[t].pc = "idle"
  BY <1>1, IdlePc
<1>5. Cameras /\ ServesSource /\ Turns /\ ImportFollows /\ Pipeline
  BY <1>1, <1>4 DEF Cameras, ServesSource, Busy, Turns, ImportFollows, Pipeline, AllIdle
<1>6. PreviewOfRow /\ PreviewsShow
  BY <1>1, EmptyMap DEF PreviewOfRow, PreviewsShow
<1>7. PreviewsOwed
  <2>1. Owed(pending) = {} /\ Senders = {}
    BY <1>1, <1>4 DEF Owed, Places, Senders
  <2>2. Cardinality({}) = 0
    BY FS_EmptySet
  <2>3. Len(previews) = 0 /\ Cardinality(Owed(pending)) = 0 /\ Cardinality(Senders) = 0
    BY <1>1, <2>1, <2>2
  <2>4. QED
    BY <2>3 DEF PreviewsOwed
<1>8. QED
  BY <1>3, <1>5, <1>6, <1>7 DEF ImportIInv

LEMMA ChangeStep == ASSUME ImportIInv, NEW i \in Importer, import_source_changed(i) PROVE ImportIInv'
<1> USE DEF ImportIInv
<1>1. /\ phase = "open" /\ importer' = i /\ source' = None /\ rows' = <<>> /\ map' = Empty /\ files' = <<>>
      /\ UNCHANGED <<phase, previews, pending, task, camera, is_open, failed, download, imported>>
  BY DEF import_source_changed, UserActs, clear_import_list, import, device
<1>2. ~overlap' => Quiet
  BY DEF import_source_changed
<1>3. Typed'
  BY <1>1, EmptyMap DEF Typed
<1>4. Cameras' /\ ImportFollows'
  BY <1>1 DEF Cameras, ImportFollows
<1>5. PreviewOfRow' /\ PreviewsShow' /\ PreviewsOwed'
  BY <1>1, EmptyMap DEF PreviewOfRow, PreviewsShow, PreviewsOwed, Senders
<1>6. ServesSource' /\ Turns' /\ Pipeline'
  BY <1>1, <1>2, IdlePc DEF ServesSource, Busy, Turns, Pipeline, AllIdle, Quiet
<1>7. QED
  BY <1>3, <1>4, <1>5, <1>6

LEMMA SetSourceStep ==
  ASSUME ImportIInv, NEW s \in Source, NEW t \in Thread, set_source(s, t) PROVE ImportIInv'
<1> USE DEF ImportIInv
<1> DEFINE x == ListTask(importer, s)
<1>1. /\ phase = "open" /\ Owner(s) = importer /\ source' = s /\ rows' = <<>> /\ map' = Empty /\ files' = <<>>
      /\ task[t] = Idle /\ task' = [task EXCEPT ![t] = x]
      /\ failed' = FALSE /\ UNCHANGED <<phase, importer, previews, pending, camera, is_open, download, imported>>
  BY DEF set_source, UserActs, clear_import_list, import, run
<1>2. ~overlap' => Quiet
  BY DEF set_source
<1>3. x \in Task /\ x.pc = "open" /\ x.importer = importer /\ x.source = s
  BY TaskIs DEF Typed
<1>4. task' \in [Thread -> Task] /\ task'[t] = x /\ \A u \in Thread : u # t => task'[u] = task[u]
  BY <1>1, <1>3, Working
<1>5. Typed'
  BY <1>1, <1>4, EmptyMap DEF Typed
<1>6. Cameras' /\ ImportFollows'
  <2>1. importer \in Importer
    BY DEF Typed
  <2>2. Cameras'
    BY <1>1, <1>3, <1>4, <2>1 DEF Cameras
  <2>3. ImportFollows'
    BY <1>1 DEF ImportFollows
  <2>4. QED
    BY <2>2, <2>3
<1>7. PreviewOfRow' /\ PreviewsShow'
  BY <1>1, EmptyMap DEF PreviewOfRow, PreviewsShow
<1>8. PreviewsOwed'
  <2>1. Senders' = Senders
    BY <1>1, <1>3, <1>4, IdlePc DEF Senders
  <2>2. QED
    BY <1>1, <2>1 DEF PreviewsOwed
<1>9. ServesSource'
  <2>1. source' # None
    BY <1>1, Owners
  <2>2. QED
    BY <1>1, <1>2, <1>3, <1>4, <2>1, IdlePc DEF ServesSource, Busy, Quiet
<1>10. Pipeline'
  <2>1. SUFFICES ASSUME ~overlap' PROVE ListStage'
    BY <1>1, Owners DEF Pipeline
  <2>2. previews = <<>> /\ pending = <<>>
    BY <1>2, <2>1, QuietNoPreviews DEF Quiet
  <2>3. QED
    BY <1>1, <1>3, <1>4, <2>2 DEF ListStage
<1>11. Turns'
  BY <1>1, <1>2 DEF Turns, Quiet
<1>12. QED
  BY <1>5, <1>6, <1>7, <1>8, <1>9, <1>10, <1>11

LEMMA ButtonStep == ASSUME ImportIInv, action_file_import \/ cancel PROVE ImportIInv'
<1> USE DEF ImportIInv
<1>1. /\ UNCHANGED <<importer, source, rows, map, files, previews, pending, task, camera, is_open, failed, download,
                     overlap>>
      /\ phase = "open"
      /\ \/ source # None /\ importer = "DirectoryImporter" /\ phase' = "imported"
            /\ imported' = {source} \X Range(Content[source])
         \/ source # None /\ importer # "DirectoryImporter" /\ phase' = "opening" /\ UNCHANGED imported
         \/ phase' = "cancelled" /\ UNCHANGED imported
  BY DEF action_file_import, cancel, UserActs, dialog, grid, results, import, device
<1>2. Typed'
  BY <1>1 DEF Typed, Phase
<1>3. Cameras'
  BY <1>1 DEF Cameras, Typed, Importer
<1>4. PreviewOfRow' /\ PreviewsShow' /\ PreviewsOwed' /\ ServesSource' /\ Turns'
  BY <1>1 DEF PreviewOfRow, PreviewsShow, PreviewsOwed, Senders, ServesSource, Busy, Turns, AllIdle
<1>5. ImportFollows'
  <2>1. CASE phase' = "imported"
    <3>1. imported' = {source} \X Range(Content[source])
      BY <1>1, <2>1
    <3>2. {x[2] : x \in imported'} = Range(Content[source])
      <4>1. \A f \in Range(Content[source]) : <<source, f>> \in imported'
        BY <3>1
      <4>2. \A f \in Range(Content[source]) : \E x \in imported' : f = x[2]
        BY <4>1
      <4>3. \A x \in imported' : x[2] \in Range(Content[source])
        BY <3>1
      <4>4. QED
        BY <4>2, <4>3
    <3>3. QED
      BY <1>1, <2>1, <3>1, <3>2 DEF ImportFollows
  <2>2. CASE phase' # "imported"
    BY <1>1, <2>2 DEF ImportFollows
  <2>3. QED
    BY <2>1, <2>2
<1>6. Pipeline'
  BY <1>1 DEF Pipeline
<1>7. QED
  BY <1>2, <1>3, <1>4, <1>5, <1>6
-----------------------------------------------------------------------------
(* The threads' steps.                                                     *)

LEMMA BecomeIs ==
  ASSUME Typed, NEW t \in Thread, NEW pc \in Pc, Become(t, pc)
  PROVE  \E x \in Task : /\ task' = [task EXCEPT ![t] = x]
                         /\ x.pc = pc /\ x.importer = task[t].importer
                         /\ x.source = task[t].source /\ x.todo = task[t].todo
<1> DEFINE x == [task[t] EXCEPT !.pc = pc]
<1>1. task[t] \in Task
  BY DEF Typed
<1>2. /\ x \in Task /\ x.pc = pc /\ x.importer = task[t].importer
      /\ x.source = task[t].source /\ x.todo = task[t].todo
  BY <1>1 DEF Task
<1>3. task' = [task EXCEPT ![t] = x]
  BY DEF Become
<1>4. QED
  BY <1>2, <1>3

\* The rows and the results stay, as does the number announced.
LEMMA SameResults ==
  ASSUME ImportIInv, UNCHANGED <<rows, map, previews, pending>>, Senders' = Senders
  PROVE  PreviewOfRow' /\ PreviewsShow' /\ PreviewsOwed'
  BY DEF ImportIInv, PreviewOfRow, PreviewsShow, PreviewsOwed

LEMMA OpenStep == ASSUME ImportIInv, NEW t \in Thread, open(t) PROVE ImportIInv'
<1> USE DEF ImportIInv
<1> DEFINE next == IF task[t].pc = "open" THEN "list" ELSE "preview"
<1>1. /\ UNCHANGED <<phase, importer, source, rows, map, files, previews, pending, download, imported, overlap>>
      /\ task[t].pc \in {"open", "open_previews"} /\ next \in Pc
  BY DEF open, dialog, grid, results, import, Pc
<1>2. PICK x \in Task :
        /\ task' = [task EXCEPT ![t] = x]
        /\ \/ x.pc = next /\ x.importer = task[t].importer /\ x.source = task[t].source /\ x.todo = task[t].todo
           \/ x = Idle /\ camera' = None /\ task[t].importer # "DirectoryImporter"
        /\ x.pc = next /\ task[t].importer # "DirectoryImporter" => camera' # None
  BY <1>1, BecomeIs, TaskIs, IdlePc DEF open, End
<1>3. \/ camera' = camera /\ task[t].importer = "DirectoryImporter"
      \/ task[t].source \in Camera /\ camera' = task[t].source /\ task[t].importer # "DirectoryImporter"
      \/ task[t].source \notin Camera /\ camera' = camera /\ task[t].importer # "DirectoryImporter"
  BY DEF open, ensure_camera_open, device
<1>4. task' \in [Thread -> Task] /\ task'[t] = x /\ \A u \in Thread : u # t => task'[u] = task[u]
  BY <1>2, Working
<1>5. /\ camera' \in Camera \cup {None} /\ (camera # None => camera' # None)
      /\ is_open' \in BOOLEAN /\ failed' \in BOOLEAN /\ (failed => failed')
  <2>1. camera' \in Camera \cup {None} /\ (camera # None => camera' # None)
    BY <1>3, Owners DEF Typed
  <2>2. is_open' \in BOOLEAN /\ failed' \in BOOLEAN /\ (failed => failed')
    BY DEF open, ensure_camera_open, Typed, device
  <2>3. QED
    BY <2>1, <2>2
<1>6. Typed'
  BY <1>1, <1>4, <1>5 DEF Typed
<1>7. Cameras'
  BY <1>1, <1>2, <1>4, <1>5, IdlePc DEF Cameras
<1>8. PreviewOfRow' /\ PreviewsShow' /\ PreviewsOwed'
  <2>1. Senders' = Senders
    BY <1>1, <1>2, <1>4, IdlePc DEF Senders
  <2>2. QED
    BY <1>1, <2>1, SameResults
<1>9. ~overlap => /\ source # None /\ task[t].importer = importer /\ task[t].source = source
                  /\ importer = "CameraImporter" => camera' = source
                  /\ importer # "CameraImporter" => camera' = camera
                  /\ x # Idle
  <2>1. SUFFICES ASSUME ~overlap
                 PROVE  /\ source # None /\ task[t].importer = importer /\ task[t].source = source
                        /\ importer = "CameraImporter" => camera' = source
                        /\ importer # "CameraImporter" => camera' = camera
                        /\ x # Idle
    OBVIOUS
  <2>2. source # None /\ task[t].importer = importer /\ task[t].source = source /\ importer \in Importer
    BY <1>1, <2>1, PcBusy DEF Typed
  <2>3. importer = "CameraImporter" => source \in Camera
    BY <2>2, Owners DEF Cameras, Typed
  <2>4. (importer = "CameraImporter" => camera' = source) /\ (importer # "CameraImporter" => camera' = camera)
    BY <1>3, <2>2, <2>3 DEF Importer
  <2>5. x # Idle
    BY <1>1, <1>2, <2>2, <2>4, IdlePc DEF Importer, Pc
  <2>6. QED
    BY <2>2, <2>4, <2>5
<1>10. ServesSource' /\ Turns'
  BY <1>1, <1>2, <1>9, ServesStep, TurnsStep
<1>11. ImportFollows'
  BY <1>1, <1>5, <1>9 DEF ImportFollows
<1>12. Pipeline'
  <2>1. SUFFICES ASSUME ~overlap, ~failed, phase = "open" PROVE ListStage' \/ PreviewStage'
    BY <1>1, <1>5, <1>9 DEF Pipeline
  <2>2. /\ \A u \in Thread : u # t => task[u] = Idle /\ task[u].pc = "idle"
        /\ ~AllIdle /\ source # None
        /\ x.pc = next /\ x.todo = task[t].todo
    BY <1>1, <1>2, <1>9, <2>1, PcBusy, IdlePc DEF AllIdle
  <2>3. CASE ListStage
    BY <1>1, <1>4, <2>2, <2>3 DEF ListStage, Wanted
  <2>4. CASE PreviewStage
    <3>1. PICK k \in Nat, todo \in Seq(STRING), sending \in {0, 1} : PreviewStageOf(k, todo, sending)
      BY <2>4 DEF PreviewStage
    <3>2. sending = 0 /\ task[t].todo = todo /\ task[t].pc = "open_previews"
      BY <1>1, <2>2, <3>1 DEF PreviewStageOf
    <3>3. PreviewStageOf(k, todo, sending)'
      BY <1>1, <1>4, <2>2, <3>1, <3>2 DEF PreviewStageOf, ShownOrNull, Wanted
    <3>4. QED
      BY <1>1, <2>4, <3>3 DEF PreviewStage, Wanted
  <2>5. QED
    BY <2>1, <2>2, <2>3, <2>4 DEF Pipeline
<1>13. QED
  BY <1>6, <1>7, <1>8, <1>10, <1>11, <1>12

\* A list is of what is there; with nothing failing, of all.
LEMMA ListsIs ==
  ASSUME Typed, NEW i \in Importer, NEW s \in Source, i = "CameraImporter" => camera # None, NEW list, Lists(i, s, list)
  PROVE  /\ list \in Seq(STRING) /\ failed' \in BOOLEAN /\ (failed => failed')
         /\ (~failed' => list = Contents(i, s)) /\ UNCHANGED <<camera, is_open>>
<1>1. Contents(i, s) \in Seq(STRING) /\ <<>> \in Seq(STRING)
  BY Owners DEF Contents, Typed
<1>2. list \in {Contents(i, s), <<>>}
  BY DEF Lists, Listed
<1>3. QED
  BY <1>1, <1>2 DEF Lists, Typed

LEMMA ListStep == ASSUME ImportIInv, NEW t \in Thread, list_source_content(t) PROVE ImportIInv'
<1> USE DEF ImportIInv
<1>0. PICK list : /\ Lists(task[t].importer, task[t].source, list)
                  /\ task' = [task EXCEPT ![t].todo = list, ![t].pc = "send"]
  BY DEF list_source_content
<1> DEFINE x == [task[t] EXCEPT !.todo = list, !.pc = "send"]
<1>1. /\ UNCHANGED <<phase, importer, source, rows, map, files, previews, pending, download, imported, overlap>>
      /\ task[t].pc = "list"
  BY DEF list_source_content, dialog, grid, results, import
<1>2. /\ list \in Seq(STRING) /\ failed' \in BOOLEAN /\ (failed => failed') /\ UNCHANGED <<camera, is_open>>
      /\ (~failed' => list = Contents(task[t].importer, task[t].source))
  <2>1. task[t].importer \in Importer /\ task[t].source \in Source
    BY <1>0, <1>1 DEF Cameras, Typed, Task
  <2>2. task[t].importer = "CameraImporter" => camera # None
    BY <1>1 DEF Cameras
  <2>3. QED
    BY <1>0, <2>1, <2>2, ListsIs
<1>3. /\ x \in Task /\ x.pc = "send" /\ x.importer = task[t].importer /\ x.source = task[t].source /\ x.todo = list
      /\ task' = [task EXCEPT ![t] = x]
  <2>1. task[t] \in Task
    BY DEF Typed
  <2>2. x \in Task /\ x.pc = "send" /\ x.importer = task[t].importer /\ x.source = task[t].source /\ x.todo = list
    BY <1>2, <2>1 DEF Task, Pc
  <2>3. task' = [task EXCEPT ![t] = x]
    BY <1>0 DEF Typed
  <2>4. QED
    BY <2>2, <2>3
<1> HIDE DEF x
<1>4. task' \in [Thread -> Task] /\ task'[t] = x /\ \A u \in Thread : u # t => task'[u] = task[u]
  BY <1>3, Working
<1>5. Typed' /\ Cameras' /\ ImportFollows'
  BY <1>1, <1>2, <1>3, <1>4 DEF Typed, Cameras, ImportFollows
<1>6. PreviewOfRow' /\ PreviewsShow' /\ PreviewsOwed'
  <2>1. Senders' = Senders
    BY <1>1, <1>3, <1>4 DEF Senders
  <2>2. QED
    BY <1>1, <2>1, SameResults
<1>7. ServesSource' /\ Turns'
  BY <1>1, <1>2, <1>3, ServesStep, TurnsStep DEF ServesSource
<1>8. Pipeline'
  <2>1. SUFFICES ASSUME ~overlap, ~failed', phase = "open" PROVE source # None /\ ListStage'
    BY <1>1 DEF Pipeline
  <2>2. /\ task[t].importer = importer /\ task[t].source = source /\ source # None
        /\ \A u \in Thread : u # t => task[u] = Idle /\ task[u].pc = "idle"
        /\ ~AllIdle
    BY <1>1, <2>1, PcBusy, IdlePc DEF AllIdle
  <2>3. list = Wanted
    BY <1>1, <1>2, <2>1, <2>2 DEF Contents, Wanted, ServesSource
  <2>4. ListStage
    BY <1>1, <1>2, <2>1, <2>2 DEF Pipeline, PreviewStage, PreviewStageOf
  <2>5. QED
    BY <1>1, <1>3, <1>4, <2>2, <2>3, <2>4 DEF ListStage, Wanted
<1>9. QED
  BY <1>5, <1>6, <1>7, <1>8

\* While a list is under way nothing else is.
LEMMA ListStageOf ==
  ASSUME ImportIInv, ~overlap, ~failed, phase = "open", NEW t \in Thread, task[t].pc \in {"open", "list", "send", "emit"}
  PROVE  /\ source # None /\ ListStage /\ ~AllIdle /\ pending = <<>>
         /\ \A u \in Thread : u # t => task[u] = Idle /\ task[u].pc = "idle"
         /\ task[t].pc = "send" => task[t].todo = Wanted
         /\ task[t].pc = "emit" => files = Wanted
<1> USE DEF ImportIInv
<1>1. /\ source # None /\ ~AllIdle
      /\ \A u \in Thread : u # t => task[u] = Idle /\ task[u].pc = "idle"
  BY PcBusy, IdlePc DEF AllIdle
<1>2. ListStage
  BY <1>1 DEF Pipeline, PreviewStage, PreviewStageOf
<1>3. QED
  BY <1>1, <1>2 DEF ListStage

LEMMA SendStep == ASSUME ImportIInv, NEW t \in Thread, send_data(t) PROVE ImportIInv'
<1> USE DEF ImportIInv
<1>1. /\ UNCHANGED <<phase, importer, source, rows, map, previews, pending, camera, is_open, failed, download, imported,
                     overlap>>
      /\ task[t].pc = "send" /\ files' = task[t].todo
  BY DEF send_data, dialog, grid, import, device
<1>2. PICK x \in Task : /\ task' = [task EXCEPT ![t] = x] /\ x.pc = "emit"
                       /\ x.importer = task[t].importer /\ x.source = task[t].source
  BY BecomeIs DEF send_data, Pc
<1>3. task' \in [Thread -> Task] /\ task'[t] = x /\ \A u \in Thread : u # t => task'[u] = task[u]
  BY <1>2, Working
<1>4. files' \in Seq(STRING)
  BY <1>1 DEF Typed, Task
<1>5. Typed' /\ Cameras' /\ ImportFollows'
  BY <1>1, <1>2, <1>3, <1>4 DEF Typed, Cameras, ImportFollows
<1>6. PreviewOfRow' /\ PreviewsShow' /\ PreviewsOwed'
  <2>1. Senders' = Senders
    BY <1>1, <1>2, <1>3 DEF Senders
  <2>2. QED
    BY <1>1, <2>1, SameResults
<1>7. ServesSource' /\ Turns'
  BY <1>1, <1>2, ServesStep, TurnsStep
<1>8. Pipeline'
  <2>1. SUFFICES ASSUME ~overlap, ~failed, phase = "open" PROVE source # None /\ ListStage'
    BY <1>1 DEF Pipeline
  <2>2. source # None /\ ListStage /\ pending = <<>> /\ files' = Wanted
    BY <1>1, <2>1, ListStageOf
  <2>3. QED
    BY <1>1, <1>2, <1>3, <2>2 DEF ListStage, Wanted
<1>9. QED
  BY <1>5, <1>6, <1>7, <1>8

LEMMA EmitStep == ASSUME ImportIInv, NEW t \in Thread, emit(t) PROVE ImportIInv'
<1> USE DEF ImportIInv
<1>1. /\ UNCHANGED <<phase, importer, source, rows, map, files, previews, camera, is_open, failed, download, imported, overlap>>
      /\ task[t].pc = "emit" /\ task' = [task EXCEPT ![t] = Idle] /\ pending' = Append(pending, "files")
  BY DEF emit, End, dialog, grid, import, device
<1>2. Idle \in Task
  BY TaskIs
<1>3. task' \in [Thread -> Task] /\ task'[t] = Idle /\ \A u \in Thread : u # t => task'[u] = task[u]
  BY <1>1, <1>2, Working
<1>4. pending' \in Seq({"files", "preview"})
  BY <1>1 DEF Typed
<1>5. Typed' /\ Cameras' /\ ImportFollows'
  BY <1>1, <1>3, <1>4, IdlePc DEF Typed, Cameras, ImportFollows
<1>6. PreviewOfRow' /\ PreviewsShow'
  BY <1>1 DEF PreviewOfRow, PreviewsShow
<1>7. PreviewsOwed'
  <2>1. Senders' = Senders
    BY <1>1, <1>3, IdlePc DEF Senders
  <2>2. pending \in Seq({"files", "preview"}) /\ "files" \in {"files", "preview"} /\ "files" # "preview"
    BY DEF Typed
  <2>3. Cardinality(Owed(pending)) \in Nat
    BY <2>2, PlacesFinite DEF Owed
  <2>4. Cardinality(Owed(pending')) = Cardinality(Owed(pending))
    BY <1>1, <2>2, <2>3, PlacesAppend DEF Owed
  <2>5. QED
    BY <1>1, <2>1, <2>4 DEF PreviewsOwed
<1>8. ServesSource'
  BY <1>1, <1>2, IdlePc, ServesStep
<1>9. Pipeline'
  <2>1. SUFFICES ASSUME ~overlap, ~failed, phase = "open" PROVE source # None /\ ListStage'
    BY <1>1 DEF Pipeline
  <2>2. /\ source # None /\ ListStage /\ pending = <<>> /\ files = Wanted
        /\ \A u \in Thread : u # t => task[u] = Idle
    BY <1>1, <2>1, ListStageOf
  <2>3. AllIdle' /\ pending' = <<"files">>
    BY <1>1, <1>3, <2>2 DEF AllIdle
  <2>4. QED
    BY <1>1, <2>2, <2>3 DEF ListStage, Wanted
<1>10. Turns'
  <2>1. SUFFICES ASSUME ~overlap PROVE Turns'
    BY <1>1 DEF Turns
  <2>2. /\ source # None /\ (\A u \in Thread : u # t => task[u] = Idle)
        /\ \A i \in DOMAIN pending : pending[i] # "files"
    BY <1>1, <2>1, PcBusy, IdlePc DEF Turns, AllIdle
  <2>3. /\ DOMAIN pending' = 1..(Len(pending) + 1) /\ DOMAIN pending = 1..Len(pending) /\ Len(pending) \in Nat
        /\ \A i \in DOMAIN pending : pending'[i] = pending[i]
    BY <1>1 DEF Typed
  <2>4. \A i \in DOMAIN pending' : pending'[i] = "files" => i = Len(pending) + 1
    BY <2>2, <2>3
  <2>5. QED
    BY <1>1, <1>3, <2>2, <2>4 DEF Turns, AllIdle
<1>11. QED
  BY <1>5, <1>6, <1>7, <1>8, <1>9, <1>10
-----------------------------------------------------------------------------
LEMMA MadeIs ==
  ASSUME Typed, NEW i, NEW f \in STRING, NEW m \in Made(i, f)
  PROVE  /\ m \in PreviewData /\ m.file = f
         /\ m.preview # None => f \in Range(Content[m.preview])
<1> DEFINE ds == {d \in Directory : Preview(d, f) = d}
           ps == IF i = "CameraImporter" THEN {None, Preview(camera, f)}
                 ELSE {IF ds = {} THEN None ELSE CHOOSE d \in ds : TRUE}
<1>1. \E p \in ps : m = [file |-> f, preview |-> p, null |-> (i = "CameraImporter" /\ p = None)]
  BY DEF Made
<1>2. ASSUME NEW p \in ps PROVE p \in Source \cup {None} /\ (p # None => f \in Range(Content[p]))
  <2>1. CASE i = "CameraImporter"
    BY <2>1 DEF Typed, Preview, Source
  <2>2. CASE i # "CameraImporter" /\ ds # {}
    <3>1. (CHOOSE d \in ds : TRUE) \in ds
      BY <2>2
    <3>2. p \in Directory /\ Preview(p, f) = p
      BY <2>2, <3>1
    <3>3. QED
      BY <3>2 DEF Preview, Source
  <2>3. CASE i # "CameraImporter" /\ ds = {}
    BY <2>3
  <2>4. QED
    BY <2>1, <2>2, <2>3
<1> HIDE DEF ps
<1>3. QED
  BY <1>1, <1>2 DEF PreviewData

\* The preview of a file of the source is the source's own, if any.
LEMMA MadeOfSource ==
  ASSUME Typed, Cameras, source # None, importer = "CameraImporter" => camera = source,
         NEW f \in Range(Content[source]), NEW m \in Made(importer, f)
  PROVE  ShownOrNull(m, f)
<1> DEFINE ds == {d \in Directory : Preview(d, f) = d}
<1>1. CASE importer = "CameraImporter"
  <2>1. PICK p \in {None, Preview(camera, f)} : m = [file |-> f, preview |-> p, null |-> (p = None)]
    BY <1>1 DEF Made
  <2>2. m.preview = p /\ m.null = (p = None)
    BY <2>1
  <2>3. QED
    BY <1>1, <2>2 DEF ShownOrNull
<1>2. CASE importer # "CameraImporter"
  <2>1. source \in Directory
    BY <1>2 DEF Typed, Cameras, Owner, Source
  <2>2. ds \subseteq {source}
    BY <2>1, ImportAssumption DEF Preview, Source
  <2>3. Preview(source, f) = source <=> source \in ds
    BY <2>1
  <2>4. Preview(source, f) \in {source, None}
    BY DEF Preview
  <2>5. m.preview = IF ds = {} THEN None ELSE CHOOSE d \in ds : TRUE
    BY <1>2 DEF Made
  <2>6. QED
    BY <2>2, <2>3, <2>4, <2>5 DEF ShownOrNull
<1>3. QED
  BY <1>1, <1>2

LEMMA GetStep == ASSUME ImportIInv, NEW t \in Thread, get_preview(t) PROVE ImportIInv'
<1> USE DEF ImportIInv
<1>1. /\ UNCHANGED <<phase, importer, source, rows, map, files, pending, camera, is_open, failed, download, imported, overlap>>
      /\ task[t].pc = "preview" /\ task[t] \in Task
  BY DEF get_preview, dialog, grid, import, device, Typed
<1>2. CASE task[t].todo = <<>>
  <2>1. UNCHANGED previews /\ task' = [task EXCEPT ![t] = Idle] /\ Idle \in Task
    BY <1>2, TaskIs DEF get_preview, End
  <2>2. task' \in [Thread -> Task] /\ task'[t] = Idle /\ \A u \in Thread : u # t => task'[u] = task[u]
    BY <2>1, Working
  <2>3. Typed' /\ Cameras' /\ ImportFollows'
    BY <1>1, <2>1, <2>2, IdlePc DEF Typed, Cameras, ImportFollows
  <2>4. Senders' = Senders
    BY <1>1, <2>2, IdlePc DEF Senders
  <2>5. PreviewOfRow' /\ PreviewsShow' /\ PreviewsOwed'
    BY <1>1, <2>1, <2>4, SameResults
  <2>6. ServesSource' /\ Turns'
    BY <1>1, <2>1, IdlePc, ServesStep, TurnsStep
  <2>7. Pipeline'
    <3>1. SUFFICES ASSUME ~overlap, ~failed, phase = "open" PROVE source # None /\ PreviewStage'
      BY <1>1 DEF Pipeline
    <3>2. source # None /\ ~AllIdle /\ \A u \in Thread : u # t => task[u] = Idle /\ task[u].pc = "idle"
      BY <1>1, <3>1, PcBusy, IdlePc DEF AllIdle
    <3>3. PreviewStage
      BY <1>1, <3>1, <3>2 DEF Pipeline, ListStage
    <3>4. PICK k \in Nat, todo \in Seq(STRING), sending \in {0, 1} : PreviewStageOf(k, todo, sending)
      BY <3>3 DEF PreviewStage
    <3>5. sending = 0 /\ todo = <<>>
      BY <1>1, <1>2, <3>2, <3>4 DEF PreviewStageOf
    <3>6. AllIdle'
      BY <2>2, <3>2 DEF AllIdle
    <3>7. PreviewStageOf(k, todo, sending)'
      BY <1>1, <2>1, <3>4, <3>5, <3>6 DEF PreviewStageOf, ShownOrNull, Wanted
    <3>8. QED
      BY <1>1, <3>2, <3>3, <3>7 DEF PreviewStage, Wanted
  <2>8. QED
    BY <2>3, <2>5, <2>6, <2>7
<1>3. CASE task[t].todo # <<>>
  <2> DEFINE x == [task[t] EXCEPT !.todo = Tail(task[t].todo), !.pc = "emit_preview"]
  <2>1. PICK m \in Made(task[t].importer, Head(task[t].todo)) :
          previews' = Append(previews, m) /\ task' = [task EXCEPT ![t] = x]
    BY <1>3 DEF get_preview, Typed
  <2>2. task[t].todo \in Seq(STRING) /\ Head(task[t].todo) \in STRING /\ Tail(task[t].todo) \in Seq(STRING)
    <3>1. task[t].todo \in Seq(STRING)
      BY <1>1 DEF Task
    <3>2. QED
      BY <1>3, <3>1, HeadTail
  <2>3. /\ x \in Task /\ x.pc = "emit_preview" /\ x.importer = task[t].importer /\ x.source = task[t].source
        /\ x.todo = Tail(task[t].todo)
    BY <1>1, <2>2 DEF Task, Pc
  <2> HIDE DEF x
  <2>4. task' \in [Thread -> Task] /\ task'[t] = x /\ \A u \in Thread : u # t => task'[u] = task[u]
    BY <2>1, <2>3, Working
  <2>5. /\ m \in PreviewData /\ m.file = Head(task[t].todo)
        /\ m.preview # None => m.file \in Range(Content[m.preview])
    <3>1. m \in Made(task[t].importer, Head(task[t].todo)) /\ Head(task[t].todo) \in STRING
      BY <2>1, <2>2
    <3>2. Typed
      OBVIOUS
    <3> DEFINE i == task[t].importer  f == Head(task[t].todo)
    <3>3. f \in STRING /\ m \in Made(i, f)
      BY <3>1
    <3> HIDE DEF i
    <3>4. m \in PreviewData /\ m.file = f /\ (m.preview # None => f \in Range(Content[m.preview]))
      <4> HIDE DEF f
      <4>1. QED
        BY <3>2, <3>3, MadeIs
    <3>5. QED
      BY <3>4
  <2>6. /\ previews' \in Seq(PreviewData) /\ DOMAIN previews' = 1..(Len(previews) + 1)
        /\ DOMAIN previews = 1..Len(previews) /\ Len(previews) \in Nat /\ Len(previews') = Len(previews) + 1
        /\ \A i \in DOMAIN previews : previews'[i] = previews[i]
        /\ previews'[Len(previews) + 1] = m
    BY <2>1, <2>5, Appended DEF Typed
  <2>7. Typed' /\ Cameras' /\ ImportFollows'
    BY <1>1, <2>3, <2>4, <2>6 DEF Typed, Cameras, ImportFollows
  <2>8. PreviewOfRow' /\ PreviewsShow'
    BY <1>1, <2>5, <2>6 DEF PreviewOfRow, PreviewsShow
  <2>9. PreviewsOwed'
    <3>1. Cardinality(Senders') = Cardinality(Senders) + 1
      <4>1. Cardinality(Senders') = Cardinality(Senders)
              + (IF x.pc = "emit_preview" THEN 1 ELSE 0) - (IF task[t].pc = "emit_preview" THEN 1 ELSE 0)
        BY <2>1, <2>3, SendersStep
      <4>2. QED
        BY <1>1, <2>3, <4>1, SendersFinite
    <3>2. Cardinality(Owed(pending)) \in Nat /\ Cardinality(Senders) \in Nat
      BY PlacesFinite, SendersFinite DEF Typed, Owed
    <3>3. Cardinality(Owed(pending)') = Cardinality(Owed(pending))
      BY <1>1 DEF Owed
    <3>4. QED
      BY <2>6, <3>1, <3>2, <3>3 DEF PreviewsOwed
  <2>10. ~overlap /\ importer = "CameraImporter" => camera = source
    BY <1>1 DEF ServesSource
  <2>11. ServesSource' /\ Turns'
    BY <1>1, <2>1, <2>3, <2>10, ServesStep, TurnsStep
  <2>12. Pipeline'
    <3>1. SUFFICES ASSUME ~overlap, ~failed, phase = "open" PROVE source # None /\ PreviewStage'
      BY <1>1 DEF Pipeline
    <3>2. /\ source # None /\ task[t].importer = importer /\ ~AllIdle
          /\ \A u \in Thread : u # t => task[u] = Idle /\ task[u].pc = "idle"
      BY <1>1, <3>1, PcBusy, IdlePc DEF AllIdle
    <3>3. PreviewStage
      BY <1>1, <3>1, <3>2 DEF Pipeline, ListStage
    <3>4. PICK k \in Nat, todo \in Seq(STRING), sending \in {0, 1} : PreviewStageOf(k, todo, sending)
      BY <3>3 DEF PreviewStage
    <3>5. sending = 0 /\ task[t].todo = todo
      BY <1>1, <3>2, <3>4 DEF PreviewStageOf
    <3>6. /\ Wanted \in Seq(STRING) /\ Len(todo) > 0 /\ Head(todo) = Wanted[k + Len(previews) + 1]
          /\ k + Len(previews) + 1 \in DOMAIN Wanted
      <4>1. todo \in Seq(STRING) /\ Len(todo) \in Nat /\ Len(todo) > 0
            /\ 1 \in DOMAIN todo /\ Head(todo) = todo[1]
        BY <1>3, <3>4, <3>5
      <4>2. Wanted \in Seq(STRING)
        BY <3>2, Owners DEF Wanted, Typed
      <4> HIDE DEF Wanted
      <4>3. DOMAIN Wanted = 1..Len(Wanted) /\ Len(Wanted) \in Nat
        BY <4>2
      <4>4. k + Len(previews) + Len(todo) = Len(Wanted) /\ todo[1] = Wanted[k + Len(previews) + 1]
        BY <3>4, <4>1 DEF PreviewStageOf
      <4>5. k + Len(previews) + 1 \in 1..Len(Wanted)
        BY <2>6, <4>1, <4>3, <4>4
      <4>6. QED
        BY <4>1, <4>2, <4>3, <4>4, <4>5
    <3>7. ShownOrNull(m, Head(todo))
      <4>1. Head(todo) \in Range(Content[source]) /\ m \in Made(importer, Head(todo))
        BY <2>1, <3>2, <3>5, <3>6 DEF Wanted, Range
      <4>2. QED
        BY <2>10, <3>1, <3>2, <4>1, MadeOfSource
    <3>8. PreviewStageOf(k, Tail(todo), 1)'
      <4>1. \A j \in DOMAIN Tail(todo) : Tail(todo)[j] = Wanted[k + Len(previews') + j]
        <5>1. ASSUME NEW j \in DOMAIN Tail(todo) PROVE Tail(todo)[j] = Wanted[k + Len(previews') + j]
          <6>1. j \in Nat /\ j + 1 \in DOMAIN todo /\ Tail(todo)[j] = todo[j + 1]
            BY <1>3, <3>5, Dropped
          <6>2. todo[j + 1] = Wanted[k + Len(previews) + (j + 1)]
            BY <3>4, <6>1 DEF PreviewStageOf
          <6>3. k + Len(previews) + (j + 1) = k + Len(previews') + j
            BY <2>6, <6>1
          <6>4. QED
            BY <6>1, <6>2, <6>3
        <5>2. QED
          BY <5>1
      <4>2. k + Len(previews') + Len(Tail(todo)) = Len(Wanted)
        <5>1. Len(Tail(todo)) = Len(todo) - 1 /\ Len(todo) \in Nat
          BY <3>6
        <5>2. k + Len(previews) + Len(todo) = Len(Wanted) /\ Len(previews) \in Nat /\ Len(Wanted) \in Nat
          BY <2>6, <3>4, <3>6 DEF PreviewStageOf
        <5>3. \A n, l, w \in Nat : k + n + l = w => k + (n + 1) + (l - 1) = w
          OBVIOUS
        <5>4. k + (Len(previews) + 1) + (Len(todo) - 1) = Len(Wanted)
          BY <5>1, <5>2, <5>3
        <5>5. QED
          BY <2>6, <5>1, <5>4
      <4>3. \A j \in DOMAIN previews' :
              previews'[j].file = Wanted[k + j] /\ ShownOrNull(previews'[j], Wanted[k + j])
        <5>1. ASSUME NEW j \in DOMAIN previews, previews'[j] = previews[j]
              PROVE  previews'[j].file = Wanted[k + j] /\ ShownOrNull(previews'[j], Wanted[k + j])
          BY <3>4, <5>1 DEF PreviewStageOf
        <5>2. m.file = Wanted[k + (Len(previews) + 1)] /\ ShownOrNull(m, Wanted[k + (Len(previews) + 1)])
          <6>1. k + Len(previews) + 1 = k + (Len(previews) + 1)
            BY <2>6
          <6>2. QED
            BY <2>5, <3>5, <3>6, <3>7, <6>1
        <5>3. \A j \in DOMAIN previews' : j \in DOMAIN previews \/ j = Len(previews) + 1
          BY <2>6
        <5>4. QED
          BY <2>6, <5>1, <5>2, <5>3
      <4>4. Len(previews') = Len(pending) + 1
        BY <2>6, <3>4, <3>5 DEF PreviewStageOf, Typed
      <4>5. task'[t].todo = Tail(todo) /\ task'[t].pc = "emit_preview"
        BY <2>3, <2>4, <3>5
      <4>6. UNCHANGED Wanted
        BY <1>1 DEF Wanted
      <4>7. QED
        BY <1>1, <3>4, <4>1, <4>2, <4>3, <4>4, <4>5, <4>6 DEF PreviewStageOf, ShownOrNull
    <3>9. Tail(todo) \in Seq(STRING)
      BY <2>2, <3>5
    <3>10. QED
      BY <1>1, <3>2, <3>3, <3>8, <3>9 DEF PreviewStage, Wanted
  <2>13. QED
    BY <2>7, <2>8, <2>9, <2>11, <2>12
<1>4. QED
  BY <1>2, <1>3

LEMMA EmitPreviewStep == ASSUME ImportIInv, NEW t \in Thread, emit_preview(t) PROVE ImportIInv'
<1> USE DEF ImportIInv
<1>1. /\ UNCHANGED <<phase, importer, source, rows, map, files, previews, camera, is_open, failed, download, imported, overlap>>
      /\ task[t].pc = "emit_preview" /\ pending' = Append(pending, "preview")
  BY DEF emit_preview, dialog, grid, import, device
<1>2. PICK x \in Task : /\ task' = [task EXCEPT ![t] = x] /\ x.pc = "preview"
                       /\ x.importer = task[t].importer /\ x.source = task[t].source /\ x.todo = task[t].todo
  BY BecomeIs DEF emit_preview, Pc
<1>3. task' \in [Thread -> Task] /\ task'[t] = x /\ \A u \in Thread : u # t => task'[u] = task[u]
  BY <1>2, Working
<1>4. pending \in Seq({"files", "preview"}) /\ "preview" \in {"files", "preview"}
  BY DEF Typed
<1>5. /\ pending' \in Seq({"files", "preview"}) /\ DOMAIN pending' = 1..(Len(pending) + 1)
      /\ DOMAIN pending = 1..Len(pending) /\ Len(pending) \in Nat /\ Len(pending') = Len(pending) + 1
      /\ \A i \in DOMAIN pending : pending'[i] = pending[i]
      /\ pending'[Len(pending) + 1] = "preview"
  BY <1>1, <1>4, Appended
<1>6. Typed' /\ Cameras' /\ ImportFollows'
  BY <1>1, <1>2, <1>3, <1>5 DEF Typed, Cameras, ImportFollows
<1>7. PreviewOfRow' /\ PreviewsShow'
  BY <1>1 DEF PreviewOfRow, PreviewsShow
<1>8. PreviewsOwed'
  <2>1. Cardinality(Senders') = Cardinality(Senders) - 1
    <3>1. Cardinality(Senders') = Cardinality(Senders)
            + (IF x.pc = "emit_preview" THEN 1 ELSE 0) - (IF task[t].pc = "emit_preview" THEN 1 ELSE 0)
      BY <1>2, SendersStep
    <3>2. QED
      BY <1>1, <1>2, <3>1, SendersFinite
  <2>2. Cardinality(Owed(pending)) \in Nat /\ Cardinality(Senders) \in Nat /\ Len(previews) \in Nat
    BY <1>4, PlacesFinite, SendersFinite DEF Typed, Owed
  <2>3. Cardinality(Owed(pending')) = Cardinality(Owed(pending)) + 1
    BY <1>1, <1>4, PlacesAppend DEF Owed
  <2>4. QED
    BY <1>1, <2>1, <2>2, <2>3 DEF PreviewsOwed
<1>9. ServesSource'
  BY <1>1, <1>2, ServesStep DEF ServesSource
<1>10. Pipeline'
  <2>1. SUFFICES ASSUME ~overlap, ~failed, phase = "open" PROVE source # None /\ PreviewStage'
    BY <1>1 DEF Pipeline
  <2>2. /\ source # None /\ ~AllIdle
        /\ \A u \in Thread : u # t => task[u] = Idle /\ task[u].pc = "idle"
    BY <1>1, <2>1, PcBusy, IdlePc DEF AllIdle
  <2>3. PreviewStage
    BY <1>1, <2>1, <2>2 DEF Pipeline, ListStage
  <2>4. PICK k \in Nat, todo \in Seq(STRING), sending \in {0, 1} : PreviewStageOf(k, todo, sending)
    BY <2>3 DEF PreviewStage
  <2>5. sending = 1 /\ task[t].todo = todo
    BY <1>1, <2>2, <2>4 DEF PreviewStageOf
  <2>6. Len(previews) = Len(pending') + 0
    BY <1>5, <2>4, <2>5 DEF PreviewStageOf
  <2>7. PreviewStageOf(k, todo, 0)'
    BY <1>1, <1>2, <1>3, <2>4, <2>5, <2>6 DEF PreviewStageOf, ShownOrNull, Wanted
  <2>8. QED
    BY <1>1, <1>5, <2>2, <2>3, <2>7 DEF PreviewStage, Wanted
<1>11. Turns'
  <2>1. ASSUME ~overlap PROVE \A i \in DOMAIN pending : pending[i] # "files"
    BY <1>1, <2>1, PcBusy, IdlePc DEF Turns, AllIdle
  <2>2. ASSUME ~overlap PROVE \A i \in DOMAIN pending' : pending'[i] # "files"
    BY <1>5, <2>1, <2>2
  <2>3. QED
    BY <1>1, <2>2 DEF Turns
<1>12. QED
  BY <1>6, <1>7, <1>8, <1>9, <1>10, <1>11
-----------------------------------------------------------------------------
(* The main loop.                                                          *)

LEMMA AppendFilesStep == ASSUME ImportIInv, NEW t \in Thread, append_files_to_import(t) PROVE ImportIInv'
<1> USE DEF ImportIInv
<1> DEFINE added == [i \in DOMAIN files |-> [file |-> files[i], preview |-> None]]
           x == PreviewTask(importer, source, files)
           pos(f) == CHOOSE i \in DOMAIN files : files[i] = f
<1>1. /\ UNCHANGED <<phase, importer, source, files, previews, camera, is_open, failed, download, imported, overlap>>
      /\ phase = "open" /\ pending # <<>> /\ Head(pending) = "files" /\ pending' = Tail(pending)
      /\ rows' = rows \o added
      /\ map' = [f \in DOMAIN map \cup Range(files) |-> IF f \in DOMAIN map THEN map[f] ELSE Len(rows) + pos(f)]
      /\ task[t] = Idle /\ task' = [task EXCEPT ![t] = x]
  BY DEF append_files_to_import, Deliver, dialog, import, device, run
<1>2. x \in Task /\ x.pc = "open_previews" /\ x.importer = importer /\ x.source = source /\ x.todo = files
  BY TaskIs DEF Typed
<1>3. task' \in [Thread -> Task] /\ task'[t] = x /\ \A u \in Thread : u # t => task'[u] = task[u]
  BY <1>1, <1>2, Working
<1>4. /\ added \in Seq(Row) /\ Len(added) = Len(files) /\ rows \in Seq(Row) /\ files \in Seq(STRING)
      /\ \A i \in DOMAIN files : added[i] = [file |-> files[i], preview |-> None]
      /\ DOMAIN files = 1..Len(files)
  <2>1. rows \in Seq(Row) /\ files \in Seq(STRING) /\ DOMAIN files = 1..Len(files) /\ Len(files) \in Nat
    BY DEF Typed
  <2>2. \A i \in DOMAIN files : files[i] \in STRING
    BY <2>1
  <2>3. \A i \in 1..Len(files) : added[i] = [file |-> files[i], preview |-> None] /\ added[i] \in Row
    BY <2>1, <2>2 DEF Row
  <2>4. added = [i \in 1..Len(files) |-> added[i]]
    BY <2>1
  <2> HIDE DEF added
  <2>5. added \in Seq(Row) /\ Len(added) = Len(files)
    BY <2>1, <2>3, <2>4
  <2>6. QED
    BY <2>1, <2>3, <2>5
<1> HIDE DEF x, added
<1>5. /\ rows' \in Seq(Row) /\ Len(rows') = Len(rows) + Len(files) /\ Len(rows) \in Nat /\ Len(files) \in Nat
      /\ \A i \in 1..(Len(rows) + Len(files)) : rows'[i] = IF i <= Len(rows) THEN rows[i] ELSE added[i - Len(rows)]
  <2>1. /\ rows \o added \in Seq(Row) /\ Len(rows \o added) = Len(rows) + Len(added)
        /\ \A i \in 1..(Len(rows) + Len(added)) :
             (rows \o added)[i] = IF i <= Len(rows) THEN rows[i] ELSE added[i - Len(rows)]
    <3>1. rows \in Seq(Row) /\ added \in Seq(Row)
      BY <1>4
    <3>2. QED
      BY <3>1, ConcatProperties
  <2>2. QED
    BY <1>1, <1>4, <2>1
<1>6. DOMAIN rows = 1..Len(rows) /\ DOMAIN rows' = 1..(Len(rows) + Len(files))
  BY <1>4, <1>5
<1>7. \A f \in Range(files) : pos(f) \in DOMAIN files /\ files[pos(f)] = f /\ pos(f) \in 1..Len(files)
  BY <1>4 DEF Range
<1> HIDE DEF pos
<1>8. /\ map' \in [DOMAIN map' -> Nat] /\ DOMAIN map' = DOMAIN map \cup Range(files)
      /\ \A f \in DOMAIN map : map'[f] = map[f]
      /\ \A f \in Range(files) : f \notin DOMAIN map => map'[f] = Len(rows) + pos(f)
  <2>1. \A f \in DOMAIN map : map[f] \in Nat
    BY DEF Typed
  <2>2. \A f \in Range(files) : Len(rows) + pos(f) \in Nat
    BY <1>5, <1>7
  <2>3. QED
    BY <1>1, <2>1, <2>2
<1>9. pending' \in Seq({"files", "preview"})
  BY <1>1, HeadTail DEF Typed
<1>10. Typed' /\ Cameras' /\ ImportFollows'
  BY <1>1, <1>2, <1>3, <1>5, <1>8, <1>9 DEF Typed, Cameras, ImportFollows
<1>11. PreviewOfRow'
  <2>1. ASSUME NEW f \in DOMAIN map' PROVE map'[f] \in DOMAIN rows' /\ rows'[map'[f]].file = f
    <3>1. CASE f \in DOMAIN map
      <4>1. map[f] \in 1..Len(rows) /\ rows[map[f]].file = f
        BY <1>6, <3>1 DEF PreviewOfRow
      <4>2. rows'[map[f]] = rows[map[f]] /\ map[f] \in DOMAIN rows'
        BY <1>5, <1>6, <4>1
      <4>3. QED
        BY <1>8, <3>1, <4>1, <4>2
    <3>2. CASE f \notin DOMAIN map
      <4>1. f \in Range(files) /\ map'[f] = Len(rows) + pos(f) /\ pos(f) \in 1..Len(files) /\ files[pos(f)] = f
        BY <1>7, <1>8, <3>2
      <4>2. rows'[map'[f]] = added[pos(f)] /\ map'[f] \in DOMAIN rows'
        BY <1>5, <1>6, <4>1
      <4>3. added[pos(f)] = [file |-> f, preview |-> None]
        BY <1>4, <4>1
      <4>4. QED
        BY <4>2, <4>3
    <3>3. QED
      BY <3>1, <3>2
  <2>2. ASSUME NEW i \in DOMAIN rows', rows'[i].preview # None PROVE rows'[i].file \in Range(Content[rows'[i].preview])
    <3>1. CASE i <= Len(rows)
      BY <1>5, <1>6, <2>2, <3>1 DEF PreviewOfRow
    <3>2. CASE ~(i <= Len(rows))
      <4>1. rows'[i] = added[i - Len(rows)] /\ i - Len(rows) \in DOMAIN files
        BY <1>4, <1>5, <1>6, <3>2
      <4>2. added[i - Len(rows)] = [file |-> files[i - Len(rows)], preview |-> None]
        BY <1>4, <4>1
      <4>3. QED
        BY <2>2, <4>1, <4>2
    <3>3. QED
      BY <3>1, <3>2
  <2>3. QED
    BY <2>1, <2>2 DEF PreviewOfRow
<1>12. PreviewsShow'
  BY <1>1 DEF PreviewsShow
<1>13. PreviewsOwed'
  <2>1. Senders' = Senders
    BY <1>1, <1>2, <1>3, IdlePc DEF Senders
  <2>2. pending \in Seq({"files", "preview"}) /\ "files" # "preview"
    BY DEF Typed
  <2>3. Cardinality(Owed(pending)) \in Nat
    BY <2>2, PlacesFinite DEF Owed
  <2>4. Cardinality(Owed(pending')) = Cardinality(Owed(pending))
    BY <1>1, <2>2, <2>3, PlacesTail DEF Owed
  <2>5. QED
    BY <1>1, <2>1, <2>4 DEF PreviewsOwed
\* With nothing overlapping, the list is the source's and all threads wait.
<1>14. ~overlap /\ ~failed => source # None /\ ListStage /\ AllIdle /\ files = Wanted /\ pending = <<"files">>
  <2>1. ASSUME PreviewStage PROVE FALSE
    BY <1>1, <2>1 DEF PreviewStage, Typed
  <2>2. QED
    BY <1>1, <2>1 DEF Pipeline, ListStage
<1>15. ServesSource' /\ Turns'
  <2>1. SUFFICES ASSUME ~overlap PROVE ServesSource' /\ Turns'
    BY <1>1 DEF ServesSource, Turns
  <2>2. 1 \in DOMAIN pending /\ pending[1] = "files"
    BY <1>1 DEF Typed
  <2>3. AllIdle /\ source # None
    BY <2>1, <2>2 DEF Turns
  <2>4. ServesSource'
    BY <1>1, <1>2, <1>3, <2>3, IdlePc DEF ServesSource, Busy, AllIdle
  <2>5. ASSUME NEW i \in DOMAIN pending' PROVE pending'[i] # "files"
    <3>1. i + 1 \in DOMAIN pending /\ pending'[i] = pending[i + 1] /\ i + 1 # 1
      BY <1>1, Dropped DEF Typed
    <3>2. QED
      BY <2>1, <2>2, <3>1 DEF Turns
  <2>6. QED
    BY <2>4, <2>5 DEF Turns
<1>16. Pipeline'
  <2>1. SUFFICES ASSUME ~overlap, ~failed PROVE source # None /\ PreviewStage'
    BY <1>1 DEF Pipeline
  <2>2. rows = <<>> /\ map = Empty /\ previews = <<>> /\ pending' = <<>> /\ files = Wanted /\ source # None
    <3>1. pending = <<"files">> /\ pending' = Tail(pending)
      BY <1>1, <1>14, <2>1
    <3>2. pending' = <<>>
      BY <3>1
    <3>3. QED
      BY <1>14, <2>1, <3>2 DEF ListStage
  <2>3. Len(rows) = 0 /\ Len(previews) = 0 /\ Len(pending') = 0 /\ DOMAIN pending' = {} /\ DOMAIN previews = {}
    BY <2>2
  <2>4. IsInjective(files) /\ UNCHANGED Wanted
    BY <1>1, <2>2, ImportAssumption DEF Wanted, Typed
  <2>5. \A i \in DOMAIN Wanted : Wanted[i] \in DOMAIN map' /\ map'[Wanted[i]] = i
    <3>1. ASSUME NEW i \in DOMAIN files PROVE files[i] \in DOMAIN map' /\ map'[files[i]] = i
      <4>1. files[i] \in Range(files) /\ files[i] \notin DOMAIN map
        BY <2>2, EmptyMap DEF Range
      <4>2. pos(files[i]) = i
        BY <1>7, <2>4, <4>1 DEF IsInjective
      <4>3. QED
        BY <1>4, <1>8, <2>3, <4>1, <4>2
    <3>2. QED
      BY <2>2, <3>1
  <2>6. rows' = [i \in DOMAIN Wanted |->
                   [file |-> Wanted[i], preview |-> IF i <= 0 THEN Preview(source, Wanted[i]) ELSE None]]
    <3>1. \A i \in DOMAIN files : rows'[i] = [file |-> files[i], preview |-> None]
      BY <1>4, <1>5, <2>3
    <3>2. rows' = [i \in DOMAIN files |-> rows'[i]]
      BY <1>4, <1>5, <1>6, <2>3
    <3>3. \A i \in DOMAIN files : ~(i <= 0)
      BY <1>4
    <3>4. QED
      BY <2>2, <3>1, <3>2, <3>3
  <2>7. PreviewStageOf(0, files, 0)'
    <3>1. 0 + Len(previews') + Len(files) = Len(Wanted) /\ Len(previews') = Len(pending') + 0
      BY <1>1, <1>5, <2>2, <2>3
    <3>2. \A j \in DOMAIN files : files[j] = Wanted[0 + Len(previews') + j]
      BY <1>1, <1>4, <2>2, <2>3
    <3>3. DOMAIN previews' = {}
      BY <1>1, <2>3
    <3>4. QED
      BY <1>1, <1>2, <1>3, <2>4, <2>6, <3>1, <3>2, <3>3 DEF PreviewStageOf
  <2>8. QED
    BY <1>1, <1>4, <2>2, <2>3, <2>4, <2>5, <2>7 DEF PreviewStage
<1>17. QED
  BY <1>10, <1>11, <1>12, <1>13, <1>15, <1>16

LEMMA ReceivedStep == ASSUME ImportIInv, preview_received PROVE ImportIInv'
<1> USE DEF ImportIInv
<1> DEFINE p == Head(previews)
<1>1. /\ UNCHANGED <<importer, source, map, files, task, camera, is_open, failed, download, imported, overlap>>
      /\ phase = "open" /\ pending # <<>> /\ Head(pending) = "preview" /\ pending' = Tail(pending)
      /\ \/ previews = <<>> /\ UNCHANGED <<phase, previews, rows>>
         \/ /\ previews # <<>> /\ previews' = Tail(previews)
            /\ \/ p.file \notin DOMAIN map /\ UNCHANGED <<phase, rows>>
               \/ p.file \in DOMAIN map /\ phase' = "crashed" /\ UNCHANGED rows
               \/ /\ p.file \in DOMAIN map /\ ~p.null /\ UNCHANGED phase
                  /\ rows' = [rows EXCEPT ![map[p.file]].preview = p.preview]
  BY DEF preview_received, Deliver, dialog, import, device
<1>2. /\ pending \in Seq({"files", "preview"}) /\ pending' \in Seq({"files", "preview"})
      /\ Len(pending') = Len(pending) - 1
      /\ \A i \in DOMAIN pending' : i + 1 \in DOMAIN pending /\ pending'[i] = pending[i + 1]
  BY <1>1, Dropped DEF Typed
<1>3. previews # <<>> =>
        /\ p \in PreviewData /\ p = previews[1] /\ 1 \in DOMAIN previews /\ previews' \in Seq(PreviewData)
        /\ Len(previews') = Len(previews) - 1
        /\ \A i \in DOMAIN previews' : i \in Nat /\ i + 1 \in DOMAIN previews /\ previews'[i] = previews[i + 1]
  <2>1. previews \in Seq(PreviewData)
    BY DEF Typed
  <2>2. SUFFICES ASSUME previews # <<>>
                 PROVE  /\ p \in PreviewData /\ p = previews[1] /\ 1 \in DOMAIN previews /\ previews' \in Seq(PreviewData)
                        /\ Len(previews') = Len(previews) - 1
                        /\ \A i \in DOMAIN previews' :
                             i \in Nat /\ i + 1 \in DOMAIN previews /\ previews'[i] = previews[i + 1]
    OBVIOUS
  <2>3. previews' = Tail(previews)
    BY <1>1, <2>2
  <2>4. Len(Tail(previews)) = Len(previews) - 1 /\ p \in PreviewData
    BY <2>1, <2>2, HeadTail
  <2>5. QED
    BY <2>1, <2>2, <2>3, <2>4, Dropped
<1>4. Len(previews) \in Nat /\ Len(pending) \in Nat /\ Len(previews') \in Nat
  BY <1>1, <1>3 DEF Typed
\* The rows keep their files; one gets its preview.
<1>5. /\ rows' \in Seq(Row) /\ DOMAIN rows' = DOMAIN rows
      /\ \A i \in DOMAIN rows : rows'[i].file = rows[i].file
      /\ \A i \in DOMAIN rows :
           \/ rows'[i].preview = rows[i].preview
           \/ previews # <<>> /\ rows[i].file = p.file /\ rows'[i].preview = p.preview
  <2>1. CASE UNCHANGED rows
    BY <2>1 DEF Typed
  <2>2. CASE previews # <<>> /\ p.file \in DOMAIN map /\ rows' = [rows EXCEPT ![map[p.file]].preview = p.preview]
    <3> DEFINE r == map[p.file]
    <3>1. r \in DOMAIN rows /\ rows[r].file = p.file /\ rows \in Seq(Row) /\ rows[r] \in Row
      BY <2>2 DEF PreviewOfRow, Typed
    <3>2. p.preview \in Source \cup {None}
      BY <1>3, <2>2 DEF PreviewData
    <3>3. [rows[r] EXCEPT !.preview = p.preview] \in Row
      BY <3>1, <3>2 DEF Row
    <3>4. rows' = [rows EXCEPT ![r] = [rows[r] EXCEPT !.preview = p.preview]]
      BY <2>2
    <3> HIDE DEF r
    <3>5. rows' \in Seq(Row) /\ DOMAIN rows' = DOMAIN rows
      BY <3>1, <3>3, <3>4
    <3>6. \A i \in DOMAIN rows : i # r => rows'[i] = rows[i]
      BY <3>1, <3>4
    <3>7. rows'[r].file = rows[r].file /\ rows'[r].preview = p.preview
      BY <3>1, <3>3, <3>4 DEF Row
    <3>8. QED
      BY <2>2, <3>1, <3>5, <3>6, <3>7
  <2>3. QED
    BY <1>1, <2>1, <2>2
<1>6. Typed' /\ Cameras' /\ ImportFollows'
  BY <1>1, <1>2, <1>3, <1>5 DEF Typed, Phase, Cameras, ImportFollows
<1>7. PreviewOfRow'
  <2>1. \A f \in DOMAIN map : map[f] \in DOMAIN rows' /\ rows'[map[f]].file = f
    BY <1>5 DEF PreviewOfRow
  <2>2. ASSUME NEW i \in DOMAIN rows, rows'[i].preview # None PROVE rows'[i].file \in Range(Content[rows'[i].preview])
    <3>1. CASE rows'[i].preview = rows[i].preview
      BY <1>5, <2>2, <3>1 DEF PreviewOfRow
    <3>2. CASE previews # <<>> /\ rows[i].file = p.file /\ rows'[i].preview = p.preview
      BY <1>3, <1>5, <2>2, <3>2 DEF PreviewsShow
    <3>3. QED
      BY <1>5, <3>1, <3>2
  <2>3. QED
    BY <1>1, <1>5, <2>1, <2>2 DEF PreviewOfRow
<1>8. PreviewsShow'
  BY <1>1, <1>3 DEF PreviewsShow
<1>9. PreviewsOwed'
  <2>1. Cardinality(Owed(pending)) \in Nat /\ Cardinality(Senders) \in Nat /\ Senders' = Senders
    BY <1>1, <1>2, PlacesFinite, SendersFinite DEF Senders, Owed
  <2>2. Cardinality(Owed(pending')) = Cardinality(Owed(pending)) - 1
    BY <1>1, <1>2, <2>1, PlacesTail DEF Owed
  <2>3. Cardinality(Owed(pending')) \in Nat
    BY <1>2, PlacesFinite DEF Owed
  <2>4. CASE previews = <<>>
    <3>1. Len(previews') = 0
      BY <1>1, <2>4
    <3>2. QED
      BY <2>1, <2>3, <3>1 DEF PreviewsOwed
  <2>5. CASE previews # <<>>
    BY <1>3, <1>4, <2>1, <2>2, <2>5 DEF PreviewsOwed
  <2>6. QED
    BY <2>4, <2>5
<1>10. ServesSource' /\ Turns'
  <2>1. ServesSource'
    BY <1>1 DEF ServesSource, Busy
  <2>2. Turns'
    <3>1. SUFFICES ASSUME ~overlap PROVE Turns'
      BY <1>1 DEF Turns
    <3>2. \A i, j \in DOMAIN pending' : i + 1 = j + 1 => i = j
      BY <1>2
    <3>3. \A i, j \in DOMAIN pending' : pending'[i] = "files" /\ pending'[j] = "files" => i = j
      BY <1>2, <3>1, <3>2 DEF Turns
    <3>4. (\E i \in DOMAIN pending' : pending'[i] = "files") => AllIdle /\ source # None
      BY <1>2, <3>1 DEF Turns
    <3>5. QED
      BY <1>1, <3>3, <3>4 DEF Turns, AllIdle
  <2>3. QED
    BY <2>1, <2>2
<1>11. Pipeline'
  <2>1. SUFFICES ASSUME ~overlap, ~failed, phase' = "open" PROVE source # None /\ PreviewStage'
    BY <1>1 DEF Pipeline
  <2>2. source # None /\ PreviewStage
    BY <1>1, <2>1 DEF Pipeline, ListStage
  <2>3. PICK k \in Nat, todo \in Seq(STRING), sending \in {0, 1} : PreviewStageOf(k, todo, sending)
    BY <2>2 DEF PreviewStage
  <2>4. Len(pending) > 0 /\ Len(previews) > 0 /\ previews # <<>>
    BY <1>1, <1>2, <1>4, <2>3, SMTT(20) DEF PreviewStageOf
  <2>5. Wanted \in Seq(STRING) /\ DOMAIN Wanted = 1..Len(Wanted) /\ Len(Wanted) \in Nat /\ Len(todo) \in Nat
    <3>1. Wanted \in Seq(STRING)
      BY <2>2, Owners DEF Wanted, Typed
    <3> HIDE DEF Wanted
    <3>2. QED
      BY <3>1
  <2>6. k + 1 \in DOMAIN Wanted /\ p.file = Wanted[k + 1] /\ ShownOrNull(p, Wanted[k + 1])
    <3>1. p = previews[1] /\ 1 \in DOMAIN previews
      BY <1>3, <2>4
    <3>2. previews[1].file = Wanted[k + 1] /\ ShownOrNull(previews[1], Wanted[k + 1])
      BY <2>3, <3>1 DEF PreviewStageOf
    <3>3. k + Len(previews) + Len(todo) = Len(Wanted)
      BY <2>3 DEF PreviewStageOf
    <3>4. QED
      BY <1>4, <2>4, <2>5, <3>1, <3>2, <3>3
  <2>7. p.file \in DOMAIN map /\ map[p.file] = k + 1
    BY <2>2, <2>6 DEF PreviewStage
  <2>8. rows' = [rows EXCEPT ![k + 1].preview = p.preview] /\ p.preview = Preview(source, Wanted[k + 1])
    BY <1>1, <2>1, <2>4, <2>6, <2>7 DEF ShownOrNull
  <2>9. rows' = [i \in DOMAIN Wanted |->
                   [file |-> Wanted[i], preview |-> IF i <= k + 1 THEN Preview(source, Wanted[i]) ELSE None]]
    <3>1. rows = [i \in DOMAIN Wanted |->
                    [file |-> Wanted[i], preview |-> IF i <= k THEN Preview(source, Wanted[i]) ELSE None]]
      BY <2>3 DEF PreviewStageOf
    <3>2. rows' = [i \in DOMAIN Wanted |-> rows'[i]]
      BY <2>8, <3>1
    <3>3. rows'[k + 1] = [file |-> Wanted[k + 1], preview |-> Preview(source, Wanted[k + 1])]
      BY <2>6, <2>8, <3>1
    <3>4. ASSUME NEW i \in DOMAIN Wanted, i # k + 1
          PROVE  rows'[i] = rows[i] /\ (i <= k <=> i <= k + 1)
      BY <2>5, <2>8, <3>1, <3>4
    <3>5. ASSUME NEW i \in DOMAIN Wanted
          PROVE  rows'[i] = [file |-> Wanted[i], preview |-> IF i <= k + 1 THEN Preview(source, Wanted[i]) ELSE None]
      <4>1. CASE i = k + 1
        BY <2>5, <3>3, <4>1
      <4>2. CASE i # k + 1
        BY <3>1, <3>4, <4>2
      <4>3. QED
        BY <4>1, <4>2
    <3>6. QED
      BY <3>2, <3>5
  <2>10. PreviewStageOf(k + 1, todo, sending)'
    <3>1. /\ (k + 1) + Len(previews') + Len(todo) = Len(Wanted) /\ Len(previews') = Len(pending') + sending
          /\ k + Len(previews) = (k + 1) + Len(previews')
      <4>1. k + Len(previews) + Len(todo) = Len(Wanted) /\ Len(previews) = Len(pending) + sending
        BY <2>3 DEF PreviewStageOf
      <4>2. Len(previews') = Len(previews) - 1 /\ Len(pending') = Len(pending) - 1
        BY <1>2, <1>3, <2>4
      <4>3. QED
        BY <1>4, <2>5, <4>1, <4>2
    <3>2. \A j \in DOMAIN todo : todo[j] = Wanted[(k + 1) + Len(previews') + j]
      BY <2>3, <3>1 DEF PreviewStageOf
    <3>3. ASSUME NEW j \in DOMAIN previews'
          PROVE  previews'[j].file = Wanted[(k + 1) + j] /\ ShownOrNull(previews'[j], Wanted[(k + 1) + j])
      <4>1. j \in Nat /\ j + 1 \in DOMAIN previews /\ previews'[j] = previews[j + 1] /\ k + (j + 1) = (k + 1) + j
        BY <1>3, <2>4
      <4>2. previews[j + 1].file = Wanted[k + (j + 1)] /\ ShownOrNull(previews[j + 1], Wanted[k + (j + 1)])
        BY <2>3, <4>1 DEF PreviewStageOf
      <4>3. QED
        BY <4>1, <4>2
    <3>4. UNCHANGED <<Wanted, task, source>> /\ (AllIdle <=> AllIdle')
      BY <1>1 DEF Wanted, AllIdle
    <3>5. QED
      BY <2>3, <2>9, <3>1, <3>2, <3>3, <3>4 DEF PreviewStageOf, ShownOrNull
  <2>11. (\A i \in DOMAIN pending' : pending'[i] = "preview") /\ UNCHANGED <<map, Wanted>> /\ k + 1 \in Nat
    BY <1>1, <1>2, <2>2 DEF PreviewStage, Wanted
  <2>12. QED
    BY <2>2, <2>10, <2>11 DEF PreviewStage
<1>12. QED
  BY <1>6, <1>7, <1>8, <1>9, <1>10, <1>11
-----------------------------------------------------------------------------
(* The import.                                                             *)

LEMMA ImportOpenStep == ASSUME ImportIInv, do_import_open PROVE ImportIInv'
<1> USE DEF ImportIInv
<1>1. /\ UNCHANGED <<importer, source, rows, map, files, previews, pending, task, download, imported, overlap>>
      /\ phase = "opening" /\ ensure_camera_open(source) /\ failed' = ~is_open'
      /\ phase' = IF camera' = None THEN "cancelled" ELSE "listing"
  BY DEF do_import_open, dialog, grid, results, import
<1>2. source \in Camera /\ camera' = source /\ source # None /\ phase' = "listing"
  BY <1>1, Owners DEF ensure_camera_open, Cameras, Typed
<1>3. Typed' /\ Cameras' /\ ImportFollows'
  <2>1. is_open' \in BOOLEAN /\ failed' \in BOOLEAN
    BY <1>1, <1>2 DEF ensure_camera_open
  <2>2. QED
    BY <1>1, <1>2, <2>1 DEF Typed, Phase, Cameras, ImportFollows
<1>4. PreviewOfRow' /\ PreviewsShow' /\ PreviewsOwed' /\ ServesSource' /\ Turns' /\ Pipeline'
  BY <1>1, <1>2 DEF Turns, AllIdle, PreviewOfRow, PreviewsShow, PreviewsOwed, Senders, ServesSource, Busy, Pipeline
<1>5. QED
  BY <1>3, <1>4

LEMMA ImportListStep == ASSUME ImportIInv, do_import_list PROVE ImportIInv'
<1> USE DEF ImportIInv
<1>1. /\ UNCHANGED <<importer, source, rows, map, files, previews, pending, task, imported, overlap>>
      /\ phase = "listing" /\ phase' = "downloading" /\ importer = "CameraImporter" /\ source \in Source
      /\ camera # None /\ Lists(importer, source, download')
  BY DEF do_import_list, dialog, grid, results, Cameras, Typed
<1>2. /\ download' \in Seq(STRING) /\ failed' \in BOOLEAN /\ UNCHANGED <<camera, is_open>>
      /\ (~failed' => download' = Content[camera])
  BY <1>1, ListsIs DEF Contents, Importer
<1>3. Typed' /\ Cameras'
  BY <1>1, <1>2 DEF Typed, Phase, Cameras
<1>4. ImportFollows'
  <2>1. imported = {} /\ {x[2] : x \in imported} = {}
    BY <1>1 DEF ImportFollows
  <2>2. QED
    BY <1>1, <1>2, <2>1 DEF ImportFollows
<1>5. PreviewOfRow' /\ PreviewsShow' /\ PreviewsOwed' /\ ServesSource' /\ Turns' /\ Pipeline'
  BY <1>1, <1>2 DEF Turns, AllIdle, PreviewOfRow, PreviewsShow, PreviewsOwed, Senders, ServesSource, Busy, Pipeline
<1>6. QED
  BY <1>3, <1>4, <1>5

LEMMA DownloadStep == ASSUME ImportIInv, download_file PROVE ImportIInv'
<1> USE DEF ImportIInv
<1> DEFINE h == Head(download)
           got(c) == {x[2] : x \in c}
<1>1. /\ UNCHANGED <<importer, source, rows, map, files, previews, pending, task, camera, is_open, overlap>>
      /\ phase = "downloading"
      /\ \/ download = <<>> /\ phase' = "imported" /\ UNCHANGED <<download, imported, failed>>
         \/ /\ download # <<>> /\ download' = Tail(download) /\ UNCHANGED phase
            /\ \/ UNCHANGED imported /\ failed' = TRUE
               \/ h \in Range(Content[camera]) /\ imported' = imported \cup {<<camera, h>>} /\ UNCHANGED failed
  BY DEF download_file, Downloaded, LeftOut, dialog, grid, results, import
<1>2. download' \in Seq(STRING)
  BY <1>1, HeadTail DEF Typed
<1>3. Typed' /\ Cameras'
  BY <1>1, <1>2 DEF Typed, Phase, Cameras
<1>4. ImportFollows'
  <2>1. SUFFICES ASSUME ~overlap
                 PROVE  /\ \A x \in imported' : x[1] = source /\ x[2] \in Range(Content[source])
                        /\ phase' = "downloading" /\ ~failed' => Range(download') \cup got(imported') = Range(Content[source])
                        /\ phase' = "imported" /\ ~failed' => got(imported') = Range(Content[source])
    BY <1>1 DEF ImportFollows
  <2>2. /\ \A x \in imported : x[1] = source /\ x[2] \in Range(Content[source])
        /\ camera = source /\ (~failed => Range(download) \cup got(imported) = Range(Content[source]))
    BY <1>1, <2>1 DEF ImportFollows
  <2>3. CASE download = <<>>
    <3>1. Range(download) = {} /\ phase' = "imported" /\ imported' = imported
      BY <1>1, <2>3 DEF Range
    <3>2. QED
      BY <1>1, <2>2, <2>3, <3>1
  <2>4. CASE download # <<>>
    <3>1. Range(download) = Range(Tail(download)) \cup {h}
      <4>1. /\ 1 \in DOMAIN download /\ h = download[1]
            /\ \A i \in DOMAIN Tail(download) : i + 1 \in DOMAIN download /\ Tail(download)[i] = download[i + 1]
            /\ \A i \in DOMAIN download : i # 1 => i - 1 \in DOMAIN Tail(download) /\ Tail(download)[i - 1] = download[i]
        BY <2>4, Dropped DEF Typed
      <4>2. \A i \in DOMAIN Tail(download) : Tail(download)[i] \in Range(download)
        BY <4>1 DEF Range
      <4>3. \A i \in DOMAIN download : download[i] \in Range(Tail(download)) \cup {h}
        BY <4>1 DEF Range
      <4>4. h \in Range(download)
        BY <4>1 DEF Range
      <4>5. QED
        BY <4>2, <4>3, <4>4 DEF Range
    <3>2. CASE failed' = TRUE /\ UNCHANGED imported
      BY <1>1, <2>2, <2>4, <3>2
    <3>3. CASE h \in Range(Content[source]) /\ imported' = imported \cup {<<source, h>>} /\ UNCHANGED failed
      <4>1. got(imported') = got(imported) \cup {h}
        <5>1. <<source, h>>[2] = h
          OBVIOUS
        <5>2. \A f : f \in got(imported') <=> f \in got(imported) \/ f = h
          BY <3>3, <5>1
        <5>3. QED
          BY <5>2
      <4>2. (\A x \in imported' : x[1] = source /\ x[2] \in Range(Content[source])) /\ phase' = "downloading"
        BY <1>1, <2>2, <2>4, <3>3
      <4>3. ~failed' => Range(download') \cup got(imported') = Range(Content[source])
        BY <1>1, <2>2, <2>4, <3>1, <3>3, <4>1
      <4>4. QED
        BY <4>2, <4>3
    <3>4. QED
      BY <1>1, <2>2, <2>4, <3>2, <3>3
  <2>5. QED
    BY <2>3, <2>4
<1>5. PreviewOfRow' /\ PreviewsShow' /\ PreviewsOwed' /\ ServesSource' /\ Turns' /\ Pipeline'
  BY <1>1, <1>2 DEF Turns, AllIdle, PreviewOfRow, PreviewsShow, PreviewsOwed, Senders, ServesSource, Busy, Pipeline
<1>6. QED
  BY <1>3, <1>4, <1>5
-----------------------------------------------------------------------------
LEMMA ImportIInvHolds == Spec => []ImportIInv
<1>1. ASSUME ImportIInv, User PROVE ImportIInv'
  BY <1>1, ChangeStep, SetSourceStep, ButtonStep DEF User
<1>2. ASSUME ImportIInv, NEW t \in Thread, Run(t) PROVE ImportIInv'
  BY <1>2, OpenStep, ListStep, SendStep, EmitStep, GetStep, EmitPreviewStep DEF Run
<1>3. ASSUME ImportIInv, MainLoop PROVE ImportIInv'
  BY <1>3, AppendFilesStep, ReceivedStep, ImportOpenStep, ImportListStep, DownloadStep DEF MainLoop
<1>4. ASSUME ImportIInv, UNCHANGED vars PROVE ImportIInv'
  BY <1>4 DEF vars, dialog, grid, results, device, import, ImportIInv, Typed, Cameras, PreviewOfRow, PreviewsShow,
     PreviewsOwed, Senders, ServesSource, Busy, Turns, ImportFollows, Pipeline, AllIdle, ListStage, PreviewStage,
     PreviewStageOf, ShownOrNull, Wanted
<1>5. ImportIInv /\ [Next]_vars => ImportIInv'
  BY <1>1, <1>2, <1>3, <1>4 DEF Next
<1>6. QED
  BY <1>5, ImportInitIInv, PTL DEF Spec

\* A preview goes to a row of its file, however the list was cleared and
\* filled while it was made.
THEOREM ImportPreviewOfRow == Spec => []PreviewOfRow
<1>1. ImportIInv => PreviewOfRow
  BY DEF ImportIInv
<1>2. QED
  BY <1>1, ImportIInvHolds, PTL

\* Unless choices overlapped, the files imported are of the source chosen
\* last, and all of them are unless something failed since the import began.
THEOREM ImportIsFromSource == Spec => []ImportedFromSource
<1>1. ImportIInv => ImportedFromSource
  BY DEF ImportIInv, ImportFollows, ImportedFromSource
<1>2. QED
  BY <1>1, ImportIInvHolds, PTL

\* When all is quiet nothing is to be made and nothing on its way.
LEMMA QuietShowsSource == ImportIInv => ShownIsSource
<1> SUFFICES ASSUME ImportIInv, Quiet, phase = "open", source # None, ~overlap, ~failed
             PROVE  rows = [i \in DOMAIN Content[source] |->
                              [file |-> Content[source][i], preview |-> Preview(source, Content[source][i])]]
  BY DEF ShownIsSource
<1>1. AllIdle /\ pending = <<>> /\ \A t \in Thread : task[t].pc = "idle"
  BY IdlePc DEF Quiet, AllIdle
<1>2. PreviewStage
  BY <1>1 DEF ImportIInv, Pipeline, ListStage
<1>3. PICK k \in Nat, todo \in Seq(STRING), sending \in {0, 1} : PreviewStageOf(k, todo, sending)
  BY <1>2 DEF PreviewStage
<1>4. sending = 0 /\ todo = <<>> /\ Len(previews) = 0
  BY <1>1, <1>3 DEF PreviewStageOf
<1>5. k = Len(Wanted) /\ Wanted \in Seq(STRING)
  BY <1>3, <1>4, Owners DEF PreviewStageOf, ImportIInv, Typed, Wanted
<1>6. \A i \in DOMAIN Wanted : i <= k
  BY <1>5
<1>7. QED
  BY <1>3, <1>6 DEF PreviewStageOf, Wanted

\* Once all is done the dialog lists the files of the source, in order, each
\* with its preview, unless choices overlapped or the camera failed.
THEOREM ImportShowsSource == Spec => []ShownIsSource
  BY QuietShowsSource, ImportIInvHolds, PTL
=============================================================================
