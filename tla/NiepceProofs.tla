---------------------------- MODULE NiepceProofs ----------------------------
(***************************************************************************)
(* What holds of the user interface and the library at work together, for  *)
(* any number of folders, files and ratings and any length of the queues:  *)
(* the five properties of the quiet states.  What the queued operations    *)
(* and notifications will still make of a value is a walk along the queue  *)
(* (SequenceLemmas); each invariant says where that walk ends.             *)
(*                                                                         *)
(* Last, what holds of the thumbnail cache for any number of threads,      *)
(* tasks and files.                                                        *)
(***************************************************************************)
EXTENDS Niepce, ThumbnailCache, SequenceLemmas

-----------------------------------------------------------------------------
(* Types.                                                                  *)

\* The files that anything may still speak of.
Known == Files \cup astray \cup {0}

GetAll == op("get_all_folders", 0)

\* The operations that are queued after the first, the notifications and
\* the transactions, when they speak of files in K.
OpOf(K) ==
  [op : {"create_folder"}, id : {0}, value : {Absent}]
  \cup [op : {"query_folder_content", "count_folder", "delete_folder"}, id : FolderRow, value : {Absent}]
  \cup [op : {"import_files"}, path : Path]
  \cup [op : {"request_metadata"}, id : K, value : {Absent}]
  \cup [op : {"set_metadata"}, id : K, value : Rating]
ContentOf(K) == UNION {[D -> Rating] : D \in SUBSET K}
NotifOf(K) ==
  [n : {"AddedFolder", "FolderDeleted"}, id : FolderRow]
  \cup [n : {"FolderCounted"}, id : FolderRow, count : Nat]
  \cup [n : {"FolderContentQueried"}, id : FolderRow, content : ContentOf(K)]
  \cup [n : {"MetadataQueried"}, id : K, value : Value]
  \cup [n : {"MetadataChanged"}, id : K, value : Rating]
  \cup [n : {"AddedFiles"}]
TransOf(K) == [file : K, old : Value, new : Rating]

AddedMsg(d) == [n |-> "AddedFolder", id |-> d]
DeletedMsg(d) == [n |-> "FolderDeleted", id |-> d]
CountedMsg(d, c) == [n |-> "FolderCounted", id |-> d, count |-> c]
ContentMsg(d, m) == [n |-> "FolderContentQueried", id |-> d, content |-> m]
QueriedMsg(f, v) == [n |-> "MetadataQueried", id |-> f, value |-> v]
ChangedMsg(f, v) == [n |-> "MetadataChanged", id |-> f, value |-> v]
FilesMsg == [n |-> "AddedFiles"]

DatabaseTyped ==
  /\ folders \in [FolderRow -> Path \cup {"trash", "unnamed", "none"}]
  /\ parent \in [FileRow -> FolderRow \cup {0}]
  /\ rating \in [FileRow -> Value]

TreeTyped ==
  /\ folderidmap \in [FolderRow -> Nat \cup {Unknown, NoItem}]
  /\ selected_folder \in Items \cup {0}
  /\ uncounted \subseteq FolderRow /\ unlisted \subseteq FolderRow

ShownTyped ==
  /\ astray \subseteq FileRow /\ current_folder \in FolderRow \cup {0}
  /\ selection \in Known /\ fileid \in Known /\ current_data \in Value
  /\ idmap \in ContentOf(Known)
  /\ undos \in Seq(TransOf(Known)) /\ redos \in Seq(TransOf(Known))

QueuesTyped == ops \in Seq(OpOf(Known) \cup {GetAll}) /\ notifs \in Seq(NotifOf(Known))

NiepceTyped == DatabaseTyped /\ TreeTyped /\ ShownTyped /\ QueuesTyped

\* The first operation after a start is to list the folders; until it runs
\* nothing was told.
Starting == ops # <<>> /\ Head(ops) = GetAll

StartInv ==
  /\ Starting => notifs = <<>> /\ NoneOf(Tail(ops), {GetAll}) /\ \A d \in FolderRow : folderidmap[d] = NoItem
  /\ ~Starting => NoneOf(ops, {GetAll})

LEMMA OpKinds ==
  \A K, o : o \in OpOf(K) \cup {GetAll} =>
    /\ o.op = "get_all_folders" => o = GetAll
    /\ o.op = "create_folder" => o = op("create_folder", 0)
    /\ o.op \in {"query_folder_content", "count_folder", "delete_folder"} => o.id \in FolderRow /\ o = op(o.op, o.id)
    /\ o.op = "import_files" => o.path \in Path
    /\ o.op = "request_metadata" => o.id \in K /\ o = op("request_metadata", o.id)
    /\ o.op = "set_metadata" => o.id \in K /\ o.value \in Rating /\ o = set_rating_op(o.id, o.value)
  BY DEF OpOf, GetAll, op, set_rating_op

LEMMA OpTypes ==
  ASSUME NEW K
  PROVE  /\ op("create_folder", 0) \in OpOf(K)
         /\ \A d \in FolderRow : op("query_folder_content", d) \in OpOf(K) /\ op("count_folder", d) \in OpOf(K)
                                 /\ op("delete_folder", d) \in OpOf(K)
         /\ \A p \in Path : [op |-> "import_files", path |-> p] \in OpOf(K)
         /\ \A f \in K : op("request_metadata", f) \in OpOf(K)
         /\ \A f \in K, r \in Rating : set_rating_op(f, r) \in OpOf(K)
         /\ \A o \in OpOf(K) : o # GetAll
  BY DEF OpOf, op, set_rating_op, GetAll

LEMMA NotifKinds ==
  \A K : \A c \in NotifOf(K) :
    /\ c.n = "AddedFolder" => c.id \in FolderRow /\ c = AddedMsg(c.id)
    /\ c.n = "FolderDeleted" => c.id \in FolderRow /\ c = DeletedMsg(c.id)
    /\ c.n = "FolderCounted" => c.id \in FolderRow /\ c.count \in Nat /\ c = CountedMsg(c.id, c.count)
    /\ c.n = "FolderContentQueried" => c.id \in FolderRow /\ c.content \in ContentOf(K) /\ c = ContentMsg(c.id, c.content)
    /\ c.n = "MetadataQueried" => c.id \in K /\ c.value \in Value /\ c = QueriedMsg(c.id, c.value)
    /\ c.n = "MetadataChanged" => c.id \in K /\ c.value \in Rating /\ c = ChangedMsg(c.id, c.value)
    /\ c.n = "AddedFiles" => c = FilesMsg
  BY DEF NotifOf, AddedMsg, DeletedMsg, CountedMsg, ContentMsg, QueriedMsg, ChangedMsg, FilesMsg

LEMMA NotifTypes ==
  ASSUME NEW K
  PROVE  /\ \A d \in FolderRow : AddedMsg(d) \in NotifOf(K) /\ DeletedMsg(d) \in NotifOf(K)
         /\ \A d \in FolderRow, c \in Nat : CountedMsg(d, c) \in NotifOf(K)
         /\ \A d \in FolderRow, m \in ContentOf(K) : ContentMsg(d, m) \in NotifOf(K)
         /\ \A f \in K, v \in Value : QueriedMsg(f, v) \in NotifOf(K)
         /\ \A f \in K, v \in Rating : ChangedMsg(f, v) \in NotifOf(K)
         /\ FilesMsg \in NotifOf(K)
  BY DEF NotifOf, AddedMsg, DeletedMsg, CountedMsg, ContentMsg, QueriedMsg, ChangedMsg, FilesMsg

LEMMA ContentIs ==
  \A K, m : m \in ContentOf(K) <=> DOMAIN m \subseteq K /\ m \in [DOMAIN m -> Rating]
  BY DEF ContentOf

LEMMA Grows ==
  ASSUME NEW J, NEW K, J \subseteq K
  PROVE  /\ OpOf(J) \subseteq OpOf(K) /\ ContentOf(J) \subseteq ContentOf(K) /\ NotifOf(J) \subseteq NotifOf(K)
         /\ TransOf(J) \subseteq TransOf(K)
<1>1. OpOf(J) \subseteq OpOf(K)
  BY DEF OpOf
<1>2. ContentOf(J) \subseteq ContentOf(K)
  BY ContentIs
<1>3. NotifOf(J) \subseteq NotifOf(K)
  BY <1>2 DEF NotifOf
<1>4. TransOf(J) \subseteq TransOf(K)
  BY DEF TransOf
<1> QED BY <1>1, <1>2, <1>3, <1>4

LEMMA SeqGrows == ASSUME NEW S, NEW T, S \subseteq T PROVE Seq(S) \subseteq Seq(T)
  OBVIOUS

\* When no file is forgotten, what was queued and shown keeps its type.
LEMMA KeepsTyped ==
  ASSUME NiepceTyped, Known \subseteq Known'
  PROVE  /\ ops \in Seq(OpOf(Known)' \cup {GetAll}) /\ notifs \in Seq(NotifOf(Known)')
         /\ undos \in Seq(TransOf(Known)') /\ redos \in Seq(TransOf(Known)')
         /\ selection \in Known' /\ fileid \in Known' /\ idmap \in ContentOf(Known)'
<1>1. OpOf(Known) \subseteq OpOf(Known)' /\ ContentOf(Known) \subseteq ContentOf(Known)'
      /\ NotifOf(Known) \subseteq NotifOf(Known)' /\ TransOf(Known) \subseteq TransOf(Known)'
  BY Grows
<1>2. ops \in Seq(OpOf(Known)' \cup {GetAll})
  <2>1. OpOf(Known) \cup {GetAll} \subseteq OpOf(Known)' \cup {GetAll}
    BY <1>1
  <2> QED BY <2>1, SeqGrows DEF NiepceTyped, QueuesTyped
<1>3. notifs \in Seq(NotifOf(Known)')
  BY <1>1, SeqGrows DEF NiepceTyped, QueuesTyped
<1>4. undos \in Seq(TransOf(Known)') /\ redos \in Seq(TransOf(Known)')
  BY <1>1, SeqGrows DEF NiepceTyped, ShownTyped
<1> QED BY <1>1, <1>2, <1>3, <1>4 DEF NiepceTyped, ShownTyped

LEMMA NiepceConstants ==
  /\ MaxRating \in Nat /\ MaxFolder \in Nat \ {0} /\ MaxFile \in Nat /\ "none" \notin Path
  /\ Rating \subseteq Value /\ Absent \in Value /\ Absent \notin Rating /\ \A v \in Value : v = Absent \/ v \in Rating
  /\ 0 \notin FileRow /\ 0 \notin FolderRow /\ 0 \in Rating
  BY NiepceAssumption DEF Rating, Value, Absent, FileRow, FolderRow

LEMMA KnownSame == ASSUME UNCHANGED <<parent, astray>> PROVE Known' = Known /\ Files' = Files
  BY DEF Known, Files

LEMMA EmptyContent == \A K : Empty \in ContentOf(K)
  BY ContentIs DEF Empty

\* The content of a folder, and its count.
LEMMA FolderContent ==
  ASSUME NiepceTyped, NEW d \in FolderRow
  PROVE  /\ content(d) \in ContentOf(Known) /\ Count(d) \in Nat
         /\ DOMAIN content(d) = {f \in FileRow : parent[f] = d} /\ DOMAIN content(d) \subseteq Files
         /\ \A f \in DOMAIN content(d) : content(d)[f] = IF rating[f] = Absent THEN 0 ELSE rating[f]
<1>1. DOMAIN content(d) = {f \in FileRow : parent[f] = d}
  BY DEF content
<1>2. \A f \in DOMAIN content(d) : content(d)[f] = IF rating[f] = Absent THEN 0 ELSE rating[f]
  BY DEF content
<1>3. DOMAIN content(d) \subseteq Files
  BY <1>1, NiepceConstants DEF Files
<1>4. \A f \in DOMAIN content(d) : content(d)[f] \in Rating
  BY <1>1, <1>2, NiepceConstants DEF NiepceTyped, DatabaseTyped
<1>5. content(d) \in [DOMAIN content(d) -> Rating]
  BY <1>4 DEF content
<1>6. content(d) \in ContentOf(Known)
  BY <1>3, <1>5, ContentIs DEF Known
<1>7. Count(d) \in Nat
  <2>1. IsFiniteSet(FileRow)
    BY NiepceConstants, FS_Interval DEF FileRow
  <2>2. IsFiniteSet(DOMAIN content(d))
    BY <1>1, <2>1, FS_Subset
  <2> QED BY <2>2, FS_CardinalityType DEF Count
<1> QED BY <1>1, <1>2, <1>3, <1>6, <1>7

LEMMA SchedulesTyped ==
  ASSUME NEW K, NEW s \in Seq(OpOf(K) \cup {GetAll}), NEW o \in OpOf(K)
  PROVE  Append(s, o) \in Seq(OpOf(K) \cup {GetAll})
  OBVIOUS

LEMMA EmptyListTyped ==
  ASSUME NiepceTyped, EmptyList, Known \subseteq Known'
  PROVE  selection' \in Known' /\ fileid' \in Known' /\ current_data' \in Value
<1>1. 0 \in Known' /\ fileid \in Known' /\ current_data \in Value /\ Absent \in Value
  BY NiepceConstants DEF Known, NiepceTyped, ShownTyped
<1> QED BY <1>1 DEF EmptyList, pane

LEMMA InitTyped == Init => NiepceTyped /\ StartInv
<1> SUFFICES ASSUME Init PROVE NiepceTyped /\ StartInv
  OBVIOUS
<1>1. DatabaseTyped
  BY NiepceAssumption DEF Init, DatabaseTyped
<1>2. 0 \in Known /\ Absent \in Value
  BY NiepceConstants DEF Known
<1>3. TreeTyped
  BY DEF Init, TreeTyped
<1>4. ShownTyped
  BY <1>2, EmptyContent DEF Init, ShownTyped
<1>5. QueuesTyped /\ ops = <<GetAll>>
  BY DEF Init, QueuesTyped, GetAll
<1>6. StartInv
  <2>1. Tail(ops) = <<>> /\ Head(ops) = GetAll /\ ops # <<>>
    BY <1>5
  <2> QED BY <2>1, LastNothing DEF Init, StartInv, Starting
<1> QED BY <1>1, <1>3, <1>4, <1>5, <1>6 DEF NiepceTyped

LEMMA RestartTyped == ASSUME NiepceTyped, Restart PROVE NiepceTyped' /\ StartInv'
<1>1. DatabaseTyped'
  BY DEF Restart, database, DatabaseTyped, NiepceTyped
<1>2. 0 \in Known' /\ Absent \in Value
  BY NiepceConstants DEF Known
<1>3. TreeTyped'
  BY DEF Restart, TreeTyped
<1>4. ShownTyped'
  BY <1>2, EmptyContent DEF Restart, ShownTyped
<1>5. QueuesTyped' /\ ops' = <<GetAll>>
  BY DEF Restart, QueuesTyped, GetAll
<1>6. StartInv'
  <2>1. Tail(ops') = <<>> /\ Head(ops') = GetAll /\ ops' # <<>>
    BY <1>5
  <2> QED BY <2>1, LastNothing DEF Restart, StartInv, Starting
<1> QED BY <1>1, <1>3, <1>4, <1>5, <1>6 DEF NiepceTyped

\* An operation that is queued does not change what comes first.
LEMMA StartSchedules ==
  ASSUME NiepceTyped, StartInv, NEW o \in OpOf(Known)', ops' = Append(ops, o), Known \subseteq Known', UNCHANGED <<notifs, folderidmap>>
  PROVE  StartInv' /\ (Starting' <=> Starting)
<1> DEFINE T == OpOf(Known)' \cup {GetAll}
<1>1. ops \in Seq(T) /\ o \in T /\ o # GetAll
  BY KeepsTyped, OpTypes
<1> HIDE DEF T
<1>2. NoneOf(Append(ops, o), {GetAll}) <=> NoneOf(ops, {GetAll})
  BY <1>1, LastAppend
<1>3. CASE ops = <<>>
  <2>1. Head(ops') = o /\ ops' # <<>>
    BY <1>1, <1>3
  <2> QED BY <1>1, <1>2, <1>3, <2>1 DEF StartInv, Starting
<1>4. CASE ops # <<>>
  <2>1. Head(ops') = Head(ops) /\ ops' # <<>> /\ Tail(ops') = Append(Tail(ops), o) /\ Tail(ops) \in Seq(T)
    BY <1>1, <1>4
  <2>2. NoneOf(Append(Tail(ops), o), {GetAll}) <=> NoneOf(Tail(ops), {GetAll})
    BY <1>1, <2>1, LastAppend
  <2> QED BY <1>2, <1>4, <2>1, <2>2 DEF StartInv, Starting
<1> QED BY <1>3, <1>4

\* Another operation than the first runs when the first has run.
LEMMA RunsLate ==
  ASSUME NiepceTyped, StartInv, NEW name, Execute(name), name # "get_all_folders"
  PROVE  /\ ~Starting /\ ops # <<>> /\ ops' = Tail(ops) /\ Head(ops).op = name /\ Head(ops) \in OpOf(Known) \cup {GetAll}
         /\ ops' \in Seq(OpOf(Known) \cup {GetAll}) /\ StartInv' /\ ~Starting'
<1> DEFINE T == OpOf(Known) \cup {GetAll}
<1>1. ops \in Seq(T) /\ ops # <<>> /\ Head(ops).op = name /\ ops' = Tail(ops)
  BY DEF NiepceTyped, QueuesTyped, Execute
<1>2. ~Starting
  BY <1>1 DEF Starting, GetAll, op
<1> HIDE DEF T
<1>3. Head(ops) \in T /\ ops' \in Seq(T)
  BY <1>1
<1>4. NoneOf(ops', {GetAll})
  BY <1>1, <1>2, LastTail DEF StartInv
<1>5. ~Starting'
  <2>1. ops' # <<>> => Head(ops') = ops'[1] /\ 1 \in DOMAIN ops'
    BY <1>3
  <2> QED BY <1>4, <2>1 DEF Starting, NoneOf
<1> QED BY <1>1, <1>2, <1>3, <1>4, <1>5 DEF T, StartInv

\* A notification is delivered after the first operation.
LEMMA DeliversLate ==
  ASSUME NiepceTyped, StartInv, NEW name, Deliver(name), Known' = Known
  PROVE  /\ ~Starting /\ notifs # <<>> /\ notifs' = Tail(notifs) /\ Head(notifs).n = name /\ Head(notifs) \in NotifOf(Known)
         /\ notifs' \in Seq(NotifOf(Known))
         /\ ops' = ops => StartInv' /\ ~Starting'
         /\ \A o \in OpOf(Known) : ops' = Append(ops, o) => StartInv' /\ ~Starting'
<1>1. notifs \in Seq(NotifOf(Known)) /\ notifs # <<>> /\ Head(notifs).n = name /\ notifs' = Tail(notifs)
  BY DEF NiepceTyped, QueuesTyped, Deliver
<1>2. ~Starting
  BY <1>1 DEF StartInv
<1>3. Head(notifs) \in NotifOf(Known) /\ notifs' \in Seq(NotifOf(Known))
  BY <1>1
<1>4. ops' = ops => StartInv' /\ ~Starting'
  BY <1>2 DEF StartInv, Starting
<1>5. ASSUME NEW o \in OpOf(Known), ops' = Append(ops, o) PROVE StartInv' /\ ~Starting'
  <2> DEFINE T == OpOf(Known) \cup {GetAll}
  <2>1. ops \in Seq(T) /\ o \in T /\ o # GetAll
    BY OpTypes DEF NiepceTyped, QueuesTyped
  <2> HIDE DEF T
  <2>0. NoneOf(Append(ops, o), {GetAll}) /\ Append(ops, o) \in Seq(T)
    BY <1>2, <2>1, LastAppend DEF StartInv
  <2>2. NoneOf(ops', {GetAll}) /\ ops' \in Seq(T)
    BY <1>5, <2>0
  <2>3. ops' # <<>> => Head(ops') = ops'[1] /\ 1 \in DOMAIN ops'
    BY <2>2
  <2> QED BY <2>2, <2>3 DEF StartInv, Starting, NoneOf
<1> QED BY <1>1, <1>2, <1>3, <1>4, <1>5

StateTyped == NiepceTyped /\ StartInv

LEMMA SelectsTyped ==
  ASSUME StateTyped, NEW d \in FolderRow \cup {0}, select_item(d)
  PROVE  StateTyped'
<1>0. NiepceTyped /\ StartInv
  BY DEF StateTyped
<1>1. Known' = Known
  BY KnownSame DEF select_item, database, history
<1>2. on_libtree_selection(d) /\ d \in Items \cup {0}
  BY DEF select_item
<1>3. idmap' = Empty /\ EmptyList /\ selected_folder' = d
  BY <1>2 DEF on_libtree_selection
<1>4. ops' = ops \/ (d \in FolderRow /\ ops' = Append(ops, op("query_folder_content", d)))
  BY <1>2 DEF on_libtree_selection, schedule_op
<1>5. DatabaseTyped'
  BY <1>0 DEF select_item, database, DatabaseTyped, NiepceTyped
<1>6. TreeTyped'
  BY <1>0, <1>2, <1>3 DEF select_item, history, NiepceTyped, TreeTyped, Items
<1>7. ShownTyped'
  <2>1. selection' \in Known' /\ fileid' \in Known' /\ current_data' \in Value
    BY <1>0, <1>1, <1>3, EmptyListTyped
  <2> QED BY <1>0, <1>1, <1>3, <2>1, EmptyContent DEF select_item, on_libtree_selection, undo_history, history, ShownTyped, NiepceTyped
<1>8. QueuesTyped' /\ StartInv'
  <2>1. UNCHANGED <<notifs, folderidmap>>
    BY DEF select_item
  <2>2. CASE ops' = ops
    BY <1>0, <1>1, <2>1, <2>2 DEF QueuesTyped, NiepceTyped, StartInv, Starting
  <2>3. CASE d \in FolderRow /\ ops' = Append(ops, op("query_folder_content", d))
    <3>1. op("query_folder_content", d) \in OpOf(Known)'
      BY <2>3, OpTypes
    <3>2. StartInv'
      BY <1>0, <1>1, <2>1, <2>3, <3>1, StartSchedules
    <3>3. ops' \in Seq(OpOf(Known)' \cup {GetAll})
      BY <1>0, <1>1, <2>3, <3>1, SchedulesTyped, KeepsTyped
    <3> QED BY <1>0, <1>1, <2>1, <3>2, <3>3 DEF QueuesTyped, NiepceTyped
  <2> QED BY <1>4, <2>2, <2>3
<1> QED BY <1>5, <1>6, <1>7, <1>8 DEF StateTyped, NiepceTyped

\* The user's commands queue an operation.
LEMMA CommandTyped ==
  ASSUME StateTyped, NEW o \in OpOf(Known), ops' = Append(ops, o), UNCHANGED <<database, notifs, folderidmap, selected_folder>>,
         UNCHANGED <<current_folder, idmap, pane, uncounted, unlisted>>, selection' \in Known, astray' \subseteq FileRow, astray \subseteq astray',
         undos' \in Seq(TransOf(Known)), redos' \in Seq(TransOf(Known))
  PROVE  StateTyped' /\ (Starting' <=> Starting) /\ Known \subseteq Known'
<1>0. NiepceTyped /\ StartInv
  BY DEF StateTyped
<1>1. Known \subseteq Known'
  BY DEF Known, Files, database
<1>2. DatabaseTyped'
  BY <1>0 DEF database, DatabaseTyped, NiepceTyped
<1>3. TreeTyped'
  BY <1>0 DEF NiepceTyped, TreeTyped, Items
<1>4. ShownTyped'
  <2>1. TransOf(Known) \subseteq TransOf(Known)'
    BY <1>1, Grows
  <2>2. undos' \in Seq(TransOf(Known)') /\ redos' \in Seq(TransOf(Known)')
    BY <2>1, SeqGrows
  <2>3. fileid \in Known' /\ idmap \in ContentOf(Known)'
    BY <1>0, <1>1, KeepsTyped
  <2> QED BY <1>0, <1>1, <2>2, <2>3 DEF pane, ShownTyped, NiepceTyped
<1>5. o \in OpOf(Known)'
  BY <1>1, Grows
<1>6. StartInv' /\ (Starting' <=> Starting)
  BY <1>0, <1>1, <1>5, StartSchedules
<1>7. QueuesTyped'
  BY <1>0, <1>1, <1>5, SchedulesTyped, KeepsTyped DEF QueuesTyped, NiepceTyped
<1> QED BY <1>1, <1>2, <1>3, <1>4, <1>6, <1>7 DEF StateTyped, NiepceTyped

LEMMA ConsTyped ==
  ASSUME NEW S, NEW s \in Seq(S), NEW e \in S
  PROVE  <<e>> \o s \in Seq(S) /\ (s # <<>> => Head(s) \in S /\ Tail(s) \in Seq(S))
  OBVIOUS

\* What the user does that queues an operation.
UserQueues ==
  \E o \in OpOf(Known) :
    /\ ops' = Append(ops, o)
    /\ UNCHANGED <<database, notifs, folderidmap, selected_folder, current_folder, idmap, pane, uncounted, unlisted>>
    /\ \/ o.op \in {"create_folder", "delete_folder", "import_files"} /\ UNCHANGED <<selection, astray, crossed, undos, redos>>
       \/ /\ \E f \in FileRow : f \in DOMAIN idmap /\ o = op("request_metadata", f) /\ selection' = f
          /\ crossed' = FALSE /\ UNCHANGED <<astray, undos, redos>>
       \/ /\ o.op = "set_metadata" /\ UNCHANGED <<selection, crossed>>
          /\ undos' \in Seq(TransOf(Known)) /\ redos' \in Seq(TransOf(Known))
          /\ astray' \subseteq FileRow /\ astray \subseteq astray'

LEMMA UserQueuesOps ==
  ASSUME StateTyped, User, ~Restart, \A d \in FolderRow \cup {0} : ~select_item(d)
  PROVE  UserQueues
<1>0. NiepceTyped /\ ShownTyped /\ TreeTyped
  BY DEF StateTyped, NiepceTyped
<1> USE DEF Command, schedule_op, list, undo_history, history, pane
<1>1. CASE action_new_folder
  <2>1. op("create_folder", 0) \in OpOf(Known) /\ op("create_folder", 0).op = "create_folder"
    BY OpTypes DEF op
  <2> QED BY <1>1, <2>1 DEF action_new_folder, UserQueues
<1>2. CASE action_delete_folder
  <2>1. selected_folder \in FolderRow
    BY <1>0, <1>2 DEF action_delete_folder, TreeTyped, Items
  <2>2. op("delete_folder", selected_folder) \in OpOf(Known) /\ op("delete_folder", selected_folder).op = "delete_folder"
    BY <2>1, OpTypes DEF op
  <2> QED BY <1>2, <2>2 DEF action_delete_folder, UserQueues
<1>3. ASSUME NEW p \in Path, action_file_import(p) PROVE UserQueues
  <2>1. [op |-> "import_files", path |-> p] \in OpOf(Known) /\ [op |-> "import_files", path |-> p].op = "import_files"
    BY OpTypes
  <2> QED BY <1>3, <2>1 DEF action_file_import, UserQueues
<1>4. ASSUME NEW f \in FileRow, select_image(f) PROVE UserQueues
  <2>1. f \in Known
    BY <1>0, <1>4, ContentIs DEF select_image, ShownTyped
  <2>2. op("request_metadata", f) \in OpOf(Known)
    BY <2>1, OpTypes
  <2> QED BY <1>4, <2>2 DEF select_image, UserQueues
<1>5. ASSUME NEW r \in Rating, set_properties(r) PROVE UserQueues
  <2>1. set_rating_op(selection, r) \in OpOf(Known) /\ set_rating_op(selection, r).op = "set_metadata"
    BY <1>0, OpTypes DEF ShownTyped, set_rating_op
  <2>2. [file |-> selection, old |-> current_data, new |-> r] \in TransOf(Known)
    BY <1>0 DEF ShownTyped, TransOf
  <2>3. undos' \in Seq(TransOf(Known)) /\ redos' \in Seq(TransOf(Known))
    BY <1>0, <1>5, <2>2, ConsTyped DEF ShownTyped, set_properties
  <2>4. astray' \subseteq FileRow /\ astray \subseteq astray'
    BY <1>0, <1>5 DEF ShownTyped, set_properties, Known, Files
  <2> QED BY <1>5, <2>1, <2>3, <2>4 DEF set_properties, UserQueues
<1>6. CASE undo
  <2> DEFINE t == Head(undos)
  <2>1. t \in TransOf(Known) /\ Tail(undos) \in Seq(TransOf(Known)) /\ <<t>> \o redos \in Seq(TransOf(Known))
    BY <1>0, <1>6, ConsTyped DEF undo, ShownTyped
  <2>2. t.old # Absent
    BY <1>6 DEF undo
  <2>3. t.file \in Known /\ t.old \in Rating
    BY <2>1, <2>2, NiepceConstants DEF TransOf
  <2>4. set_rating_op(t.file, t.old) \in OpOf(Known) /\ set_rating_op(t.file, t.old).op = "set_metadata"
    BY <2>3, OpTypes DEF set_rating_op
  <2>5. astray \subseteq FileRow
    BY <1>0 DEF ShownTyped
  <2> QED BY <1>6, <2>1, <2>2, <2>4, <2>5 DEF undo, UserQueues
<1>7. CASE redo
  <2> DEFINE t == Head(redos)
  <2>1. t \in TransOf(Known) /\ Tail(redos) \in Seq(TransOf(Known)) /\ <<t>> \o undos \in Seq(TransOf(Known))
    BY <1>0, <1>7, ConsTyped DEF redo, ShownTyped
  <2>2. t.file \in Known /\ t.new \in Rating
    BY <2>1 DEF TransOf
  <2>3. set_rating_op(t.file, t.new) \in OpOf(Known) /\ set_rating_op(t.file, t.new).op = "set_metadata"
    BY <2>2, OpTypes DEF set_rating_op
  <2>4. astray \subseteq FileRow
    BY <1>0 DEF ShownTyped
  <2> QED BY <1>7, <2>1, <2>3, <2>4 DEF redo, UserQueues
<1> QED BY <1>1, <1>2, <1>3, <1>4, <1>5, <1>6, <1>7 DEF User, restart

LEMMA UserQueuesTyped == ASSUME StateTyped, UserQueues PROVE StateTyped' /\ (Starting' <=> Starting) /\ Known \subseteq Known'
<1>1. ShownTyped
  BY DEF StateTyped, NiepceTyped
<1>2. PICK o \in OpOf(Known) :
    /\ ops' = Append(ops, o)
    /\ UNCHANGED <<database, notifs, folderidmap, selected_folder, current_folder, idmap, pane, uncounted, unlisted>>
    /\ selection' \in Known /\ astray' \subseteq FileRow /\ astray \subseteq astray'
    /\ undos' \in Seq(TransOf(Known)) /\ redos' \in Seq(TransOf(Known))
  BY <1>1, ContentIs DEF UserQueues, ShownTyped
<1> QED BY <1>2, CommandTyped

LEMMA OrderedFolders ==
  ASSUME NEW S, S \subseteq FolderRow
  PROVE  /\ Ordered(S) \in [1 .. Cardinality(S) -> S] /\ Cardinality(S) \in Nat
         /\ \A d \in S : \E i \in 1 .. Cardinality(S) : Ordered(S)[i] = d
<1>1. IsFiniteSet(S) /\ S \subseteq Nat /\ \E s : Enumerates(s, S)
  BY NiepceConstants, EnumeratesExists DEF FolderRow
<1>2. Ordered(S) \in [1 .. Cardinality(S) -> S]
      /\ \A i, j \in 1 .. Cardinality(S) : i < j => Ordered(S)[i] < Ordered(S)[j]
  BY <1>1 DEF Ordered, Enumerates, Ascends
<1>3. Enumerates(Ordered(S), S)
  BY <1>1, <1>2 DEF Enumerates, Ascends
<1>4. Covers(Ordered(S), S)
  BY <1>1, <1>3, EnumeratesAll
<1> QED BY <1>1, <1>2, <1>4, FS_CardinalityType DEF Covers

\* What the first operation tells of.
Listed == [i \in 1 .. Cardinality(Folders) |-> AddedMsg(Ordered(Folders)[i])]

LEMMA ListsTyped ==
  ASSUME StateTyped, cmd_list_all_folders
  PROVE  /\ StateTyped' /\ Starting /\ ~Starting' /\ UNCHANGED <<database, ui, history>>
         /\ notifs' = Listed /\ Listed \in Seq(NotifOf(Known)) /\ Len(Listed) = Cardinality(Folders)
<1>0. NiepceTyped /\ StartInv
  BY DEF StateTyped
<1>1. ops # <<>> /\ Head(ops).op = "get_all_folders" /\ ops' = Tail(ops)
  BY DEF cmd_list_all_folders, Execute
<1>2. Head(ops) \in OpOf(Known) \cup {GetAll} /\ ops' \in Seq(OpOf(Known) \cup {GetAll})
  BY <1>0, <1>1 DEF NiepceTyped, QueuesTyped
<1>3. Starting
  BY <1>1, <1>2, OpKinds DEF Starting
<1>4. notifs = <<>> /\ NoneOf(ops', {GetAll})
  BY <1>0, <1>1, <1>3 DEF StartInv
<1>5. ~Starting'
  <2>1. ops' # <<>> => Head(ops') = ops'[1] /\ 1 \in DOMAIN ops'
    BY <1>2
  <2> QED BY <1>4, <2>1 DEF Starting, NoneOf
<1>6. Folders \subseteq FolderRow
  BY DEF Folders
<1>7. /\ Ordered(Folders) \in [1 .. Cardinality(Folders) -> Folders] /\ Cardinality(Folders) \in Nat
  BY <1>6, OrderedFolders
<1>8. Listed \in Seq(NotifOf(Known)) /\ Len(Listed) = Cardinality(Folders)
  <2>1. \A i \in 1 .. Cardinality(Folders) : AddedMsg(Ordered(Folders)[i]) \in NotifOf(Known)
    BY <1>6, <1>7, NotifTypes
  <2>2. Listed \in [1 .. Cardinality(Folders) -> NotifOf(Known)]
    BY <2>1 DEF Listed
  <2> QED BY <1>7, <2>2
<1>9. notifs' = Listed
  <2>1. DOMAIN Ordered(Folders) = 1 .. Cardinality(Folders)
    BY <1>7
  <2>2. notifs' = <<>> \o Listed
    BY <1>4, <2>1 DEF cmd_list_all_folders, Notify, Listed, AddedMsg
  <2> QED BY <1>8, <2>2
<1>10. UNCHANGED <<database, ui, history>>
  BY DEF cmd_list_all_folders
<1>11. Known' = Known
  BY <1>10, KnownSame DEF database, history
<1>12. DatabaseTyped' /\ TreeTyped' /\ ShownTyped'
  BY <1>0, <1>10, <1>11 DEF NiepceTyped, DatabaseTyped, TreeTyped, ShownTyped, Items, database, ui, history, list, pane, undo_history
<1>13. QueuesTyped'
  BY <1>2, <1>8, <1>9, <1>11 DEF QueuesTyped
<1> QED BY <1>3, <1>4, <1>5, <1>8, <1>9, <1>10, <1>12, <1>13 DEF StateTyped, NiepceTyped, StartInv

\* The other operations.
LEMMA RunTyped ==
  ASSUME StateTyped, NEW name, Execute(name), name # "get_all_folders", UNCHANGED ui, Known \subseteq Known',
         DatabaseTyped', uncounted' \subseteq FolderRow, unlisted' \subseteq FolderRow, astray' \subseteq FileRow,
         notifs' \in Seq(NotifOf(Known)')
  PROVE  StateTyped'
<1>0. NiepceTyped /\ StartInv
  BY DEF StateTyped
<1>1. ops' \in Seq(OpOf(Known) \cup {GetAll}) /\ StartInv'
  BY <1>0, RunsLate
<1>2. ops' \in Seq(OpOf(Known)' \cup {GetAll})
  <2>1. OpOf(Known) \cup {GetAll} \subseteq OpOf(Known)' \cup {GetAll}
    BY Grows
  <2> QED BY <1>1, <2>1, SeqGrows
<1>3. TreeTyped'
  BY <1>0 DEF NiepceTyped, TreeTyped, Items, ui
<1>4. ShownTyped'
  BY <1>0, KeepsTyped DEF NiepceTyped, ShownTyped, ui, list, pane, undo_history
<1> QED BY <1>1, <1>2, <1>3, <1>4 DEF StateTyped, NiepceTyped, QueuesTyped

LEMMA TellsTyped ==
  ASSUME StateTyped, Known \subseteq Known', NEW c \in NotifOf(Known)'
  PROVE  Append(notifs, c) \in Seq(NotifOf(Known)') /\ notifs \o <<c>> = Append(notifs, c)
<1>1. notifs \in Seq(NotifOf(Known)')
  BY KeepsTyped DEF StateTyped
<1> QED BY <1>1

-----------------------------------------------------------------------------
(* What the worker's steps amount to.                                      *)

\* The first operation, o, runs.
Ran(o) == ~Starting /\ ~Starting' /\ ops # <<>> /\ Head(ops) = o /\ ops' = Tail(ops) /\ UNCHANGED ui

RunsQuery(d) ==
  /\ Ran(op("query_folder_content", d))
  /\ content(d) \in ContentOf(Known) /\ notifs' = Append(notifs, ContentMsg(d, content(d)))
  /\ unlisted' = unlisted \ {d}
  /\ UNCHANGED <<database, uncounted, astray, crossed>>

RunsCount(d) ==
  /\ Ran(op("count_folder", d))
  /\ Count(d) \in Nat /\ notifs' = Append(notifs, CountedMsg(d, Count(d)))
  /\ uncounted' = uncounted \ {d}
  /\ UNCHANGED <<database, unlisted, astray, crossed>>

RunsCreate(d) ==
  /\ Ran(op("create_folder", 0))
  /\ d \notin Folders /\ folders' = [folders EXCEPT ![d] = "unnamed"]
  /\ notifs' = Append(notifs, AddedMsg(d))
  /\ UNCHANGED <<parent, rating, history>>

RunsDelete(d) ==
  /\ Ran(op("delete_folder", d))
  /\ folders' = [folders EXCEPT ![d] = "none"]
  /\ parent' = [f \in FileRow |-> IF parent[f] = d THEN 0 ELSE parent[f]]
  /\ rating' = [f \in FileRow |-> IF parent[f] = d THEN Absent ELSE rating[f]]
  /\ notifs' = Append(notifs, DeletedMsg(d))
  /\ uncounted' = uncounted \ {d} /\ unlisted' = unlisted \ {d}
  /\ astray' = astray \cup {f \in FileRow : parent[f] = d}
  /\ UNCHANGED crossed

RunsImport(d) ==
  /\ \E p \in Path : Ran([op |-> "import_files", path |-> p])
  /\ \/ d \in Folders /\ UNCHANGED folders /\ notifs' = Append(notifs, FilesMsg)
     \/ /\ d \notin Folders
        /\ \E p \in Path : folders' = [folders EXCEPT ![d] = p]
        /\ notifs' = Append(Append(notifs, AddedMsg(d)), FilesMsg)
  /\ uncounted' = uncounted \cup {d} /\ unlisted' = unlisted \cup {d}
  /\ \/ UNCHANGED <<parent, rating>>
     \/ \E f \in FileRow \ Files, v \in Value :
          parent' = [parent EXCEPT ![f] = d] /\ rating' = [rating EXCEPT ![f] = v]
  /\ UNCHANGED <<astray, crossed>>

RunsRequest(f) ==
  /\ Ran(op("request_metadata", f))
  /\ IF f \in Files THEN notifs' = Append(notifs, QueriedMsg(f, rating[f])) ELSE UNCHANGED notifs
  /\ UNCHANGED <<database, history>>

RunsSet(f, v) ==
  /\ Ran(set_rating_op(f, v))
  /\ IF f \in Files THEN rating' = [rating EXCEPT ![f] = v] /\ notifs' = Append(notifs, ChangedMsg(f, v))
     ELSE UNCHANGED <<rating, notifs>>
  /\ UNCHANGED <<folders, parent, history>>

RunsInVain ==
  /\ \E o \in OpOf(Known) : o.op \in {"create_folder", "delete_folder", "import_files"} /\ Ran(o)
  /\ UNCHANGED <<database, notifs, history>>

LEMMA QueryRuns ==
  ASSUME StateTyped, cmd_query_folder_content
  PROVE  StateTyped' /\ \E d \in FolderRow : RunsQuery(d)
<1> DEFINE d == Head(ops).id
<1>0. NiepceTyped /\ StartInv /\ DatabaseTyped /\ TreeTyped /\ ShownTyped
  BY DEF StateTyped, NiepceTyped
<1>1. Execute("query_folder_content") /\ UNCHANGED <<database, ui, uncounted, astray, crossed>> /\ unlisted' = unlisted \ {d}
      /\ notifs' = notifs \o <<ContentMsg(d, content(d))>>
  BY DEF cmd_query_folder_content, Notify, ContentMsg
<1>2. Known' = Known
  BY <1>1, KnownSame DEF database
<1>3. ~Starting /\ ops # <<>> /\ ops' = Tail(ops) /\ Head(ops).op = "query_folder_content" /\ Head(ops) \in OpOf(Known) \cup {GetAll} /\ ~Starting'
  BY <1>0, <1>1, RunsLate
<1>4. d \in FolderRow /\ Head(ops) = op("query_folder_content", d)
  BY <1>3, OpKinds
<1> HIDE DEF d
<1>5. content(d) \in ContentOf(Known) /\ ContentMsg(d, content(d)) \in NotifOf(Known)
  BY <1>0, <1>4, FolderContent, NotifTypes
<1>6. notifs' = Append(notifs, ContentMsg(d, content(d))) /\ notifs' \in Seq(NotifOf(Known)')
  BY <1>1, <1>2, <1>5, TellsTyped
<1>7. DatabaseTyped' /\ uncounted' \subseteq FolderRow /\ unlisted' \subseteq FolderRow /\ astray' \subseteq FileRow
  BY <1>0, <1>1 DEF DatabaseTyped, TreeTyped, ShownTyped, database
<1>8. StateTyped'
  BY <1>1, <1>2, <1>6, <1>7, RunTyped
<1> QED BY <1>1, <1>3, <1>4, <1>5, <1>6, <1>8 DEF RunsQuery, Ran

LEMMA CountRuns ==
  ASSUME StateTyped, cmd_count_folder
  PROVE  StateTyped' /\ \E d \in FolderRow : RunsCount(d)
<1> DEFINE d == Head(ops).id
<1>0. NiepceTyped /\ StartInv /\ DatabaseTyped /\ TreeTyped /\ ShownTyped
  BY DEF StateTyped, NiepceTyped
<1>1. Execute("count_folder") /\ UNCHANGED <<database, ui, unlisted, astray, crossed>> /\ uncounted' = uncounted \ {d}
      /\ notifs' = notifs \o <<CountedMsg(d, Count(d))>>
  BY DEF cmd_count_folder, Notify, CountedMsg
<1>2. Known' = Known
  BY <1>1, KnownSame DEF database
<1>3. ~Starting /\ ops # <<>> /\ ops' = Tail(ops) /\ Head(ops).op = "count_folder" /\ Head(ops) \in OpOf(Known) \cup {GetAll} /\ ~Starting'
  BY <1>0, <1>1, RunsLate
<1>4. d \in FolderRow /\ Head(ops) = op("count_folder", d)
  BY <1>3, OpKinds
<1> HIDE DEF d
<1>5. Count(d) \in Nat /\ CountedMsg(d, Count(d)) \in NotifOf(Known)
  BY <1>0, <1>4, FolderContent, NotifTypes
<1>6. notifs' = Append(notifs, CountedMsg(d, Count(d))) /\ notifs' \in Seq(NotifOf(Known)')
  BY <1>1, <1>2, <1>5, TellsTyped
<1>7. DatabaseTyped' /\ uncounted' \subseteq FolderRow /\ unlisted' \subseteq FolderRow /\ astray' \subseteq FileRow
  BY <1>0, <1>1 DEF DatabaseTyped, TreeTyped, ShownTyped, database
<1>8. StateTyped'
  BY <1>1, <1>2, <1>6, <1>7, RunTyped
<1> QED BY <1>1, <1>3, <1>4, <1>5, <1>6, <1>8 DEF RunsCount, Ran

LEMMA RequestRuns ==
  ASSUME StateTyped, cmd_request_metadata
  PROVE  StateTyped' /\ \E f \in Known : RunsRequest(f)
<1> DEFINE f == Head(ops).id
<1>0. NiepceTyped /\ StartInv /\ DatabaseTyped /\ TreeTyped /\ ShownTyped
  BY DEF StateTyped, NiepceTyped
<1>1. Execute("request_metadata") /\ UNCHANGED <<database, ui, history>>
      /\ notifs' = notifs \o (IF f \in Files THEN <<QueriedMsg(f, rating[f])>> ELSE <<>>)
  BY DEF cmd_request_metadata, Notify, QueriedMsg
<1>2. Known' = Known
  BY <1>1, KnownSame DEF database, history
<1>3. ~Starting /\ ops # <<>> /\ ops' = Tail(ops) /\ Head(ops).op = "request_metadata" /\ Head(ops) \in OpOf(Known) \cup {GetAll} /\ ~Starting'
  BY <1>0, <1>1, RunsLate
<1>4. f \in Known /\ Head(ops) = op("request_metadata", f)
  BY <1>3, OpKinds
<1> HIDE DEF f
<1>6. /\ IF f \in Files THEN notifs' = Append(notifs, QueriedMsg(f, rating[f])) ELSE UNCHANGED notifs
      /\ notifs' \in Seq(NotifOf(Known)')
  <2>1. CASE f \in Files
    <3>1. QueriedMsg(f, rating[f]) \in NotifOf(Known)
      BY <1>0, <1>4, <2>1, NotifTypes DEF DatabaseTyped, Files
    <3> QED BY <1>1, <1>2, <2>1, <3>1, TellsTyped
  <2>2. CASE f \notin Files
    <3>1. notifs \in Seq(NotifOf(Known)) /\ notifs' = notifs \o <<>>
      BY <1>0, <1>1, <2>2 DEF NiepceTyped, QueuesTyped
    <3>2. notifs' = notifs
      BY <3>1
    <3> QED BY <1>2, <2>2, <3>1, <3>2
  <2> QED BY <2>1, <2>2
<1>7. DatabaseTyped' /\ uncounted' \subseteq FolderRow /\ unlisted' \subseteq FolderRow /\ astray' \subseteq FileRow
  BY <1>0, <1>1 DEF DatabaseTyped, TreeTyped, ShownTyped, database, history
<1>8. StateTyped'
  BY <1>1, <1>2, <1>6, <1>7, RunTyped
<1> QED BY <1>1, <1>3, <1>4, <1>6, <1>8 DEF RunsRequest, Ran

LEMMA SetRuns ==
  ASSUME StateTyped, cmd_set_metadata
  PROVE  StateTyped' /\ \E f \in Known, v \in Rating : RunsSet(f, v)
<1> DEFINE f == Head(ops).id
           v == Head(ops).value
<1>0. NiepceTyped /\ StartInv /\ DatabaseTyped /\ TreeTyped /\ ShownTyped
  BY DEF StateTyped, NiepceTyped
<1>1. Execute("set_metadata") /\ UNCHANGED <<folders, parent, ui, history>>
      /\ IF f \in Files THEN rating' = [rating EXCEPT ![f] = v] /\ notifs' = notifs \o <<ChangedMsg(f, v)>>
         ELSE UNCHANGED <<rating, notifs>>
  BY DEF cmd_set_metadata, Notify, ChangedMsg
<1>2. Known' = Known
  BY <1>1, KnownSame DEF history
<1>3. ~Starting /\ ops # <<>> /\ ops' = Tail(ops) /\ Head(ops).op = "set_metadata" /\ Head(ops) \in OpOf(Known) \cup {GetAll} /\ ~Starting'
  BY <1>0, <1>1, RunsLate
<1>4. f \in Known /\ v \in Rating /\ Head(ops) = set_rating_op(f, v)
  BY <1>3, OpKinds
<1> HIDE DEF f, v
<1>5. ChangedMsg(f, v) \in NotifOf(Known)
  BY <1>4, NotifTypes
<1>6. /\ f \in Files => notifs' = Append(notifs, ChangedMsg(f, v))
      /\ notifs' \in Seq(NotifOf(Known)')
  <2>1. CASE f \in Files
    BY <1>1, <1>2, <1>5, <2>1, TellsTyped
  <2>2. CASE f \notin Files
    BY <1>0, <1>1, <1>2, <2>2 DEF NiepceTyped, QueuesTyped
  <2> QED BY <2>1, <2>2
<1>7. DatabaseTyped' /\ uncounted' \subseteq FolderRow /\ unlisted' \subseteq FolderRow /\ astray' \subseteq FileRow
  BY <1>0, <1>1, <1>4, NiepceConstants DEF DatabaseTyped, TreeTyped, ShownTyped, database, history, Files
<1>8. StateTyped'
  BY <1>1, <1>2, <1>6, <1>7, RunTyped
<1> QED BY <1>1, <1>3, <1>4, <1>6, <1>8 DEF RunsSet, Ran

LEMMA CreateRuns ==
  ASSUME StateTyped, cmd_create_folder
  PROVE  StateTyped' /\ (RunsInVain \/ \E d \in FolderRow : RunsCreate(d))
<1>0. NiepceTyped /\ StartInv /\ DatabaseTyped /\ TreeTyped /\ ShownTyped
  BY DEF StateTyped, NiepceTyped
<1>1. Execute("create_folder") /\ UNCHANGED <<parent, rating, ui, history>>
  BY DEF cmd_create_folder
<1>2. Known' = Known
  BY <1>1, KnownSame DEF history
<1>3. ~Starting /\ ops # <<>> /\ ops' = Tail(ops) /\ Head(ops).op = "create_folder" /\ Head(ops) \in OpOf(Known) \cup {GetAll} /\ ~Starting'
  BY <1>0, <1>1, RunsLate
<1>4. Head(ops) = op("create_folder", 0) /\ op("create_folder", 0) \in OpOf(Known)
  BY <1>3, OpKinds, OpTypes
<1>5. uncounted' \subseteq FolderRow /\ unlisted' \subseteq FolderRow /\ astray' \subseteq FileRow
  BY <1>0, <1>1 DEF TreeTyped, ShownTyped, history
<1>6. CASE UNCHANGED <<folders, notifs>>
  <2>1. DatabaseTyped' /\ notifs' \in Seq(NotifOf(Known)')
    BY <1>0, <1>1, <1>2, <1>6 DEF DatabaseTyped, NiepceTyped, QueuesTyped
  <2>2. StateTyped'
    BY <1>1, <1>2, <1>5, <2>1, RunTyped
  <2> QED BY <1>1, <1>3, <1>4, <1>6, <2>2 DEF RunsInVain, Ran, database
<1>7. ASSUME NEW d \in FolderRow, add_folder("unnamed", d), Notify(<<AddedMsg(d)>>)
      PROVE  StateTyped' /\ RunsCreate(d)
  <2>1. d \notin Folders /\ folders' = [folders EXCEPT ![d] = "unnamed"]
    BY <1>7 DEF add_folder, NextRow, FolderRow
  <2>2. AddedMsg(d) \in NotifOf(Known)'
    BY NotifTypes
  <2>3. notifs' = Append(notifs, AddedMsg(d)) /\ notifs' \in Seq(NotifOf(Known)')
    BY <1>2, <1>7, <2>2, TellsTyped DEF Notify
  <2>4. DatabaseTyped'
    BY <1>0, <1>1, <2>1 DEF DatabaseTyped
  <2>5. StateTyped'
    BY <1>1, <1>2, <1>5, <2>3, <2>4, RunTyped
  <2> QED BY <1>1, <1>3, <1>4, <2>1, <2>3, <2>5 DEF RunsCreate, Ran
<1> QED BY <1>6, <1>7 DEF cmd_create_folder, AddedMsg

LEMMA DeleteRuns ==
  ASSUME StateTyped, cmd_delete_folder
  PROVE  StateTyped' /\ (RunsInVain \/ \E d \in FolderRow : RunsDelete(d))
<1> DEFINE d == Head(ops).id
<1>0. NiepceTyped /\ StartInv /\ DatabaseTyped /\ TreeTyped /\ ShownTyped
  BY DEF StateTyped, NiepceTyped
<1>1. Execute("delete_folder") /\ UNCHANGED ui
  BY DEF cmd_delete_folder
<1>3. ~Starting /\ ops # <<>> /\ ops' = Tail(ops) /\ Head(ops).op = "delete_folder" /\ Head(ops) \in OpOf(Known) \cup {GetAll} /\ ~Starting'
  BY <1>0, <1>1, RunsLate
<1>4. d \in FolderRow /\ Head(ops) = op("delete_folder", d) /\ op("delete_folder", d) \in OpOf(Known)
      /\ op("delete_folder", d).op = "delete_folder"
  BY <1>3, OpKinds, OpTypes DEF op
<1>6. CASE UNCHANGED <<database, notifs, history>>
  <2>0. Known' = Known
    BY <1>6, KnownSame DEF database, history
  <2>1. DatabaseTyped' /\ notifs' \in Seq(NotifOf(Known)')
        /\ uncounted' \subseteq FolderRow /\ unlisted' \subseteq FolderRow /\ astray' \subseteq FileRow
    BY <1>0, <1>6, <2>0 DEF DatabaseTyped, NiepceTyped, QueuesTyped, database, history, TreeTyped, ShownTyped
  <2>2. StateTyped'
    BY <1>1, <2>0, <2>1, RunTyped
  <2> QED BY <1>1, <1>3, <1>4, <1>6, <2>2 DEF RunsInVain, Ran
<1>7. CASE d \in Folders /\ ~UNCHANGED <<database, notifs, history>>
  <2> DEFINE gone == {f \in FileRow : parent[f] = d}
  <2>0. DOMAIN content(d) = gone
    BY DEF content
  <2>1. /\ folders' = [folders EXCEPT ![d] = "none"]
        /\ parent' = [f \in FileRow |-> IF f \in gone THEN 0 ELSE parent[f]]
        /\ rating' = [f \in FileRow |-> IF f \in gone THEN Absent ELSE rating[f]]
        /\ notifs' = notifs \o <<DeletedMsg(d)>>
        /\ uncounted' = uncounted \ {d} /\ unlisted' = unlisted \ {d}
        /\ astray' = astray \cup gone /\ UNCHANGED crossed
    BY <1>7, <2>0 DEF cmd_delete_folder, Notify, DeletedMsg
  <2>2. /\ parent' = [f \in FileRow |-> IF parent[f] = d THEN 0 ELSE parent[f]]
        /\ rating' = [f \in FileRow |-> IF parent[f] = d THEN Absent ELSE rating[f]]
    BY <2>1
  <2>3. DatabaseTyped'
    <3>1. folders' \in [FolderRow -> Path \cup {"trash", "unnamed", "none"}]
      BY <1>0, <2>1 DEF DatabaseTyped
    <3>2. parent' \in [FileRow -> FolderRow \cup {0}]
      BY <1>0, <2>2 DEF DatabaseTyped
    <3>3. rating' \in [FileRow -> Value]
      BY <1>0, <2>2, NiepceConstants DEF DatabaseTyped
    <3> QED BY <3>1, <3>2, <3>3 DEF DatabaseTyped
  <2>4. Known \subseteq Known'
    BY <2>1, <2>2 DEF Known, Files
  <2>5. DeletedMsg(d) \in NotifOf(Known)'
    BY <1>4, NotifTypes
  <2>6. notifs' = Append(notifs, DeletedMsg(d)) /\ notifs' \in Seq(NotifOf(Known)')
    BY <2>1, <2>4, <2>5, TellsTyped
  <2>7. uncounted' \subseteq FolderRow /\ unlisted' \subseteq FolderRow /\ astray' \subseteq FileRow
    BY <1>0, <2>1 DEF TreeTyped, ShownTyped
  <2>8. StateTyped'
    BY <1>1, <2>3, <2>4, <2>6, <2>7, RunTyped
  <2>9. RunsDelete(d)
    BY <1>1, <1>3, <1>4, <2>1, <2>2, <2>6 DEF RunsDelete, Ran
  <2> QED BY <1>4, <2>8, <2>9
<1> QED BY <1>6, <1>7 DEF cmd_delete_folder

LEMMA ImportRuns ==
  ASSUME StateTyped, cmd_import_files
  PROVE  StateTyped' /\ (RunsInVain \/ \E d \in FolderRow : RunsImport(d))
<1> DEFINE p == Head(ops).path
<1>0. NiepceTyped /\ StartInv /\ DatabaseTyped /\ TreeTyped /\ ShownTyped
  BY DEF StateTyped, NiepceTyped
<1>1. Execute("import_files") /\ UNCHANGED <<ui, astray, crossed>>
  BY DEF cmd_import_files
<1>3. ~Starting /\ ops # <<>> /\ ops' = Tail(ops) /\ Head(ops).op = "import_files" /\ Head(ops) \in OpOf(Known) \cup {GetAll} /\ ~Starting'
  BY <1>0, <1>1, RunsLate
<1>4. p \in Path /\ Head(ops) = [op |-> "import_files", path |-> p] /\ Head(ops) \in OpOf(Known) /\ p # "none"
  BY <1>3, NiepceConstants DEF OpOf, GetAll, op
<1>5. Ran(Head(ops)) /\ \E q \in Path : Ran([op |-> "import_files", path |-> q])
  BY <1>1, <1>3, <1>4 DEF Ran
<1>6. CASE UNCHANGED <<database, notifs, uncounted, unlisted>>
  <2>0. Known' = Known
    BY <1>1, <1>6, KnownSame DEF database
  <2>1. DatabaseTyped' /\ notifs' \in Seq(NotifOf(Known)')
        /\ uncounted' \subseteq FolderRow /\ unlisted' \subseteq FolderRow /\ astray' \subseteq FileRow
    BY <1>0, <1>1, <1>6, <2>0 DEF DatabaseTyped, NiepceTyped, QueuesTyped, database, TreeTyped, ShownTyped
  <2>2. StateTyped'
    BY <1>1, <2>0, <2>1, RunTyped
  <2> QED BY <1>1, <1>3, <1>4, <1>5, <1>6, <2>2 DEF RunsInVain, history
<1>7. ASSUME NEW d \in FolderRow, import_into(d), folders' \in [FolderRow -> Path \cup {"trash", "unnamed", "none"}],
             \/ d \in Folders /\ UNCHANGED folders /\ notifs' = notifs \o <<FilesMsg>>
             \/ /\ d \notin Folders
                /\ \E q \in Path : folders' = [folders EXCEPT ![d] = q]
                /\ notifs' = notifs \o <<AddedMsg(d), FilesMsg>>
      PROVE  StateTyped' /\ RunsImport(d)
  <2>1. uncounted' = uncounted \cup {d} /\ unlisted' = unlisted \cup {d}
    BY <1>7 DEF import_into
  <2>2. \/ UNCHANGED <<parent, rating>>
        \/ \E f \in FileRow \ Files, v \in Value :
             parent' = [parent EXCEPT ![f] = d] /\ rating' = [rating EXCEPT ![f] = v]
    <3>1. ASSUME NEW f \in FileRow, NextRow(Files, f) PROVE f \notin Files
      BY <3>1 DEF NextRow, FileRow
    <3> QED BY <1>7, <3>1 DEF import_into
  <2>3. parent' \in [FileRow -> FolderRow \cup {0}] /\ rating' \in [FileRow -> Value] /\ Files \subseteq Files'
    <3>1. CASE UNCHANGED <<parent, rating>>
      BY <1>0, <3>1 DEF DatabaseTyped, Files
    <3>2. ASSUME NEW f \in FileRow \ Files, NEW v \in Value, parent' = [parent EXCEPT ![f] = d], rating' = [rating EXCEPT ![f] = v]
          PROVE  parent' \in [FileRow -> FolderRow \cup {0}] /\ rating' \in [FileRow -> Value] /\ Files \subseteq Files'
      BY <1>0, <3>2, NiepceConstants DEF DatabaseTyped, Files
    <3> QED BY <2>2, <3>1, <3>2
  <2>4. DatabaseTyped' /\ Known \subseteq Known'
    BY <1>1, <1>7, <2>3 DEF DatabaseTyped, Known
  <2>5. notifs \in Seq(NotifOf(Known)') /\ AddedMsg(d) \in NotifOf(Known)' /\ FilesMsg \in NotifOf(Known)'
    BY <2>4, KeepsTyped, NotifTypes DEF StateTyped
  <2>6. notifs \o <<FilesMsg>> = Append(notifs, FilesMsg)
        /\ notifs \o <<AddedMsg(d), FilesMsg>> = Append(Append(notifs, AddedMsg(d)), FilesMsg)
        /\ notifs' \in Seq(NotifOf(Known)')
    <3> DEFINE T == NotifOf(Known)'
    <3>1. notifs \in Seq(T) /\ AddedMsg(d) \in T /\ FilesMsg \in T
      BY <2>5
    <3> HIDE DEF T
    <3>2. notifs \o <<FilesMsg>> = Append(notifs, FilesMsg)
          /\ notifs \o <<AddedMsg(d), FilesMsg>> = Append(Append(notifs, AddedMsg(d)), FilesMsg)
      BY <3>1
    <3>3. Append(notifs, FilesMsg) \in Seq(T) /\ Append(Append(notifs, AddedMsg(d)), FilesMsg) \in Seq(T)
      BY <3>1
    <3>4. notifs' \in Seq(T)
      BY <1>7, <3>2, <3>3
    <3> QED BY <3>2, <3>4 DEF T
  <2>7. uncounted' \subseteq FolderRow /\ unlisted' \subseteq FolderRow /\ astray' \subseteq FileRow
    BY <1>0, <1>1, <2>1 DEF TreeTyped, ShownTyped
  <2>8. StateTyped'
    BY <1>1, <2>4, <2>6, <2>7, RunTyped
  <2>9. RunsImport(d)
    BY <1>1, <1>5, <1>7, <2>1, <2>2, <2>6 DEF RunsImport
  <2> QED BY <2>8, <2>9
<1>8. ASSUME NEW d \in FolderRow, folders[d] = p, import_into(d), notifs' = notifs \o <<FilesMsg>>, UNCHANGED folders
      PROVE  StateTyped' /\ RunsImport(d)
  BY <1>0, <1>4, <1>7, <1>8 DEF Folders, DatabaseTyped
<1>9. ASSUME NEW d \in FolderRow, add_folder(p, d), import_into(d), notifs' = notifs \o <<AddedMsg(d), FilesMsg>>
      PROVE  StateTyped' /\ RunsImport(d)
  <2>1. d \notin Folders /\ folders' = [folders EXCEPT ![d] = p]
    BY <1>9 DEF add_folder, NextRow, FolderRow
  <2>2. folders' \in [FolderRow -> Path \cup {"trash", "unnamed", "none"}]
    BY <1>0, <1>4, <2>1 DEF DatabaseTyped
  <2> QED BY <1>4, <1>7, <1>9, <2>1, <2>2
<1> QED BY <1>6, <1>8, <1>9 DEF cmd_import_files, Notify, AddedMsg, FilesMsg

LEMMA WorkerRuns ==
  ASSUME StateTyped, Worker
  PROVE  /\ StateTyped'
         /\ \/ cmd_list_all_folders \/ RunsInVain
            \/ \E d \in FolderRow : RunsQuery(d) \/ RunsCount(d) \/ RunsCreate(d) \/ RunsDelete(d) \/ RunsImport(d)
            \/ \E f \in Known : RunsRequest(f) \/ \E v \in Rating : RunsSet(f, v)
<1>1. CASE cmd_list_all_folders
  BY <1>1, ListsTyped
<1>2. CASE cmd_query_folder_content
  BY <1>2, QueryRuns
<1>3. CASE cmd_count_folder
  BY <1>3, CountRuns
<1>4. CASE cmd_create_folder
  BY <1>4, CreateRuns
<1>5. CASE cmd_delete_folder
  BY <1>5, DeleteRuns
<1>6. CASE cmd_import_files
  BY <1>6, ImportRuns
<1>7. CASE cmd_request_metadata
  BY <1>7, RequestRuns
<1>8. CASE cmd_set_metadata
  BY <1>8, SetRuns
<1> QED BY <1>1, <1>2, <1>3, <1>4, <1>5, <1>6, <1>7, <1>8 DEF Worker

-----------------------------------------------------------------------------
(* What the main loop's steps amount to.                                   *)

\* The first notification, c, is delivered.
Told(c) ==
  /\ ~Starting /\ ~Starting' /\ notifs # <<>> /\ Head(notifs) = c /\ notifs' = Tail(notifs)
  /\ UNCHANGED <<database, undo_history, uncounted, unlisted, astray>>

TellsAdded(d) ==
  /\ Told(AddedMsg(d))
  /\ folderidmap' = [folderidmap EXCEPT ![d] = Unknown]
  /\ ops' = Append(ops, op("count_folder", d))
  /\ UNCHANGED <<selected_folder, list, pane, crossed>>

TellsDeleted(d) ==
  /\ Told(DeletedMsg(d))
  /\ folderidmap' = [folderidmap EXCEPT ![d] = NoItem]
  /\ \/ d # selected_folder /\ UNCHANGED <<selected_folder, ops, list, pane>>
     \/ selected_folder' = 0 /\ UNCHANGED <<ops, list, pane>>
     \/ \E e \in (Items \ {d}) \cup {0} : on_libtree_selection(e)
  /\ UNCHANGED crossed

TellsCounted(d, c) ==
  /\ Told(CountedMsg(d, c))
  /\ folderidmap' = IF folderidmap[d] = NoItem THEN folderidmap ELSE [folderidmap EXCEPT ![d] = c]
  /\ UNCHANGED <<ops, selected_folder, list, pane, crossed>>

TellsContent(d, m) ==
  /\ Told(ContentMsg(d, m))
  /\ current_folder' = d /\ idmap' = m /\ EmptyList
  /\ UNCHANGED <<ops, folderidmap, selected_folder, crossed>>

TellsQueried(f, v) ==
  /\ Told(QueriedMsg(f, v))
  /\ fileid' = f /\ current_data' = v
  /\ UNCHANGED <<ops, folderidmap, selected_folder, list, crossed>>

TellsChanged(f, v) ==
  /\ Told(ChangedMsg(f, v))
  /\ IF f = fileid THEN ops' = Append(ops, op("request_metadata", f)) ELSE UNCHANGED ops
  /\ crossed' = (crossed \/ (f = fileid /\ f # selection))
  /\ idmap' = IF f \in DOMAIN idmap THEN [idmap EXCEPT ![f] = v] ELSE idmap
  /\ UNCHANGED <<folderidmap, selected_folder, current_folder, selection, pane>>

TellsFiles == Told(FilesMsg) /\ UNCHANGED <<ops, folderidmap, selected_folder, list, pane, crossed>>

LEMMA TellingTyped ==
  ASSUME StateTyped, NEW name, Deliver(name),
         UNCHANGED <<database, undo_history, uncounted, unlisted, astray>>,
         folderidmap' \in [FolderRow -> Nat \cup {Unknown, NoItem}],
         selected_folder' = 0 \/ (selected_folder' \in FolderRow /\ folderidmap'[selected_folder'] # NoItem),
         current_folder' \in FolderRow \cup {0}, selection' \in Known, fileid' \in Known, current_data' \in Value,
         idmap' \in ContentOf(Known),
         ops' = ops \/ \E o \in OpOf(Known) : ops' = Append(ops, o)
  PROVE  StateTyped' /\ Told(Head(notifs)) /\ Head(notifs) \in NotifOf(Known) /\ Head(notifs).n = name
<1>0. NiepceTyped /\ StartInv /\ DatabaseTyped /\ TreeTyped /\ ShownTyped
  BY DEF StateTyped, NiepceTyped
<1>1. Known' = Known
  BY KnownSame DEF database
<1>2. /\ ~Starting /\ notifs # <<>> /\ notifs' = Tail(notifs) /\ Head(notifs).n = name /\ Head(notifs) \in NotifOf(Known)
      /\ notifs' \in Seq(NotifOf(Known)) /\ StartInv' /\ ~Starting'
  BY <1>0, <1>1, DeliversLate
<1>3. Told(Head(notifs))
  BY <1>2 DEF Told
<1>4. DatabaseTyped'
  BY <1>0 DEF DatabaseTyped, database
<1>5. TreeTyped'
  BY <1>0 DEF TreeTyped, Items
<1>6. ShownTyped'
  BY <1>0, <1>1 DEF ShownTyped, undo_history
<1>7. QueuesTyped'
  <2>1. ops \in Seq(OpOf(Known) \cup {GetAll})
    BY <1>0 DEF NiepceTyped, QueuesTyped
  <2>2. ops' \in Seq(OpOf(Known) \cup {GetAll})
    BY <2>1, SchedulesTyped
  <2> QED BY <1>1, <1>2, <2>2 DEF QueuesTyped
<1> QED BY <1>2, <1>3, <1>4, <1>5, <1>6, <1>7 DEF StateTyped, NiepceTyped

LEMMA ShownNow ==
  ASSUME StateTyped
  PROVE  /\ folderidmap \in [FolderRow -> Nat \cup {Unknown, NoItem}]
         /\ selected_folder = 0 \/ (selected_folder \in FolderRow /\ folderidmap[selected_folder] # NoItem)
         /\ current_folder \in FolderRow \cup {0} /\ selection \in Known /\ fileid \in Known /\ current_data \in Value
         /\ idmap \in ContentOf(Known) /\ 0 \in Known /\ Absent \in Value
         /\ notifs # <<>> => Head(notifs) \in NotifOf(Known)
<1>1. notifs # <<>> => Head(notifs) \in NotifOf(Known)
  BY DEF StateTyped, NiepceTyped, QueuesTyped
<1> QED BY <1>1, NiepceConstants DEF StateTyped, NiepceTyped, TreeTyped, ShownTyped, Known, Items

LEMMA AddedTold == ASSUME StateTyped, on_added_folder PROVE StateTyped' /\ \E d \in FolderRow : TellsAdded(d)
<1> DEFINE d == Head(notifs).id
<1>1. Deliver("AddedFolder") /\ folderidmap' = [folderidmap EXCEPT ![d] = Unknown] /\ ops' = Append(ops, op("count_folder", d))
      /\ UNCHANGED <<database, selected_folder, list, pane, undo_history, history>>
  BY DEF on_added_folder, schedule_op
<1>2. d \in FolderRow /\ Head(notifs) = AddedMsg(d)
  BY <1>1, ShownNow, NotifKinds DEF Deliver
<1> HIDE DEF d
<1>3. folderidmap' \in [FolderRow -> Nat \cup {Unknown, NoItem}]
      /\ (selected_folder' = 0 \/ (selected_folder' \in FolderRow /\ folderidmap'[selected_folder'] # NoItem))
  BY <1>1, <1>2, ShownNow DEF Unknown, NoItem
<1>4. op("count_folder", d) \in OpOf(Known)
  BY <1>2, OpTypes
<1>5. StateTyped' /\ Told(Head(notifs))
  BY <1>1, <1>3, <1>4, ShownNow, TellingTyped DEF list, pane, history
<1> QED BY <1>1, <1>2, <1>5 DEF TellsAdded, history

LEMMA CountedTold == ASSUME StateTyped, on_folder_counted PROVE StateTyped' /\ \E d \in FolderRow, c \in Nat : TellsCounted(d, c)
<1> DEFINE d == Head(notifs).id
           c == Head(notifs).count
<1>1. Deliver("FolderCounted") /\ folderidmap' = (IF folderidmap[d] = NoItem THEN folderidmap ELSE [folderidmap EXCEPT ![d] = c])
      /\ UNCHANGED <<database, ops, selected_folder, list, pane, undo_history, history>>
  BY DEF on_folder_counted
<1>2. d \in FolderRow /\ c \in Nat /\ Head(notifs) = CountedMsg(d, c)
  BY <1>1, ShownNow, NotifKinds DEF Deliver
<1> HIDE DEF d, c
<1>3. folderidmap' \in [FolderRow -> Nat \cup {Unknown, NoItem}]
      /\ (selected_folder' = 0 \/ (selected_folder' \in FolderRow /\ folderidmap'[selected_folder'] # NoItem))
  BY <1>1, <1>2, ShownNow DEF Unknown, NoItem
<1>5. StateTyped' /\ Told(Head(notifs))
  BY <1>1, <1>3, ShownNow, TellingTyped DEF list, pane, history
<1> QED BY <1>1, <1>2, <1>5 DEF TellsCounted, history

LEMMA EmptyListShown ==
  ASSUME StateTyped, EmptyList PROVE selection' \in Known /\ fileid' \in Known /\ current_data' \in Value
  BY ShownNow DEF EmptyList, pane

LEMMA ContentTold ==
  ASSUME StateTyped, on_folder_content
  PROVE  StateTyped' /\ \E d \in FolderRow, m \in ContentOf(Known) : TellsContent(d, m)
<1> DEFINE d == Head(notifs).id
           m == Head(notifs).content
<1>1. Deliver("FolderContentQueried") /\ current_folder' = d /\ idmap' = m /\ EmptyList
      /\ UNCHANGED <<database, ops, folderidmap, selected_folder, undo_history, history>>
  BY DEF on_folder_content
<1>2. d \in FolderRow /\ m \in ContentOf(Known) /\ Head(notifs) = ContentMsg(d, m)
  BY <1>1, ShownNow, NotifKinds DEF Deliver
<1> HIDE DEF d, m
<1>5. StateTyped' /\ Told(Head(notifs))
  BY <1>1, <1>2, ShownNow, EmptyListShown, TellingTyped DEF history
<1> QED BY <1>1, <1>2, <1>5 DEF TellsContent, history

LEMMA QueriedTold ==
  ASSUME StateTyped, on_metadata_queried
  PROVE  StateTyped' /\ \E f \in Known, v \in Value : TellsQueried(f, v)
<1> DEFINE f == Head(notifs).id
           v == Head(notifs).value
<1>1. Deliver("MetadataQueried") /\ fileid' = f /\ current_data' = v
      /\ UNCHANGED <<database, ops, folderidmap, selected_folder, list, undo_history, history>>
  BY DEF on_metadata_queried
<1>2. f \in Known /\ v \in Value /\ Head(notifs) = QueriedMsg(f, v)
  BY <1>1, ShownNow, NotifKinds DEF Deliver
<1> HIDE DEF f, v
<1>5. StateTyped' /\ Told(Head(notifs))
  BY <1>1, <1>2, ShownNow, TellingTyped DEF list, history
<1> QED BY <1>1, <1>2, <1>5 DEF TellsQueried, history

LEMMA ChangedTold ==
  ASSUME StateTyped, on_metadata_changed
  PROVE  StateTyped' /\ \E f \in Known, v \in Rating : TellsChanged(f, v)
<1> DEFINE f == Head(notifs).id
           v == Head(notifs).value
<1>1. /\ Deliver("MetadataChanged")
      /\ IF f = fileid THEN ops' = Append(ops, op("request_metadata", f)) ELSE UNCHANGED ops
      /\ crossed' = (crossed \/ (f = fileid /\ f # selection))
      /\ idmap' = IF f \in DOMAIN idmap THEN [idmap EXCEPT ![f] = v] ELSE idmap
      /\ UNCHANGED <<database, folderidmap, selected_folder, current_folder, selection, pane,
                     undo_history, uncounted, unlisted, astray>>
  BY DEF on_metadata_changed, schedule_op
<1>2. f \in Known /\ v \in Rating /\ Head(notifs) = ChangedMsg(f, v)
  BY <1>1, ShownNow, NotifKinds DEF Deliver
<1> HIDE DEF f, v
<1>3. idmap' \in ContentOf(Known)
  <2>1. DOMAIN idmap \subseteq Known /\ idmap \in [DOMAIN idmap -> Rating]
    BY ShownNow, ContentIs
  <2>2. DOMAIN idmap' = DOMAIN idmap /\ idmap' \in [DOMAIN idmap -> Rating]
    BY <1>1, <1>2, <2>1
  <2> QED BY <2>1, <2>2, ContentIs
<1>4. op("request_metadata", f) \in OpOf(Known)
  BY <1>2, OpTypes
<1>5. StateTyped' /\ Told(Head(notifs))
  BY <1>1, <1>3, <1>4, ShownNow, TellingTyped DEF pane
<1> QED BY <1>1, <1>2, <1>5 DEF TellsChanged

LEMMA FilesTold == ASSUME StateTyped, on_added_files PROVE StateTyped' /\ TellsFiles
<1>1. Deliver("AddedFiles") /\ UNCHANGED <<database, ops, ui, history>>
  BY DEF on_added_files
<1>2. Head(notifs) = FilesMsg
  BY <1>1, ShownNow, NotifKinds DEF Deliver
<1>3. UNCHANGED <<folderidmap, selected_folder, list, pane, undo_history>>
  BY <1>1 DEF ui
<1>5. StateTyped' /\ Told(Head(notifs))
  BY <1>1, <1>3, ShownNow, TellingTyped DEF list, pane, history
<1> QED BY <1>1, <1>2, <1>3, <1>5 DEF TellsFiles, history

LEMMA DeletedTold == ASSUME StateTyped, on_folder_deleted PROVE StateTyped' /\ \E d \in FolderRow : TellsDeleted(d)
<1> DEFINE d == Head(notifs).id
<1>1. /\ Deliver("FolderDeleted") /\ folderidmap' = [folderidmap EXCEPT ![d] = NoItem]
      /\ \/ d # selected_folder /\ UNCHANGED <<selected_folder, ops, list, pane>>
         \/ selected_folder' = 0 /\ UNCHANGED <<ops, list, pane>>
         \/ \E e \in (Items \ {d}) \cup {0} : on_libtree_selection(e)
      /\ UNCHANGED <<database, undo_history, history>>
  BY DEF on_folder_deleted
<1>2. d \in FolderRow /\ Head(notifs) = DeletedMsg(d)
  BY <1>1, ShownNow, NotifKinds DEF Deliver
<1> HIDE DEF d
<1>3. folderidmap' \in [FolderRow -> Nat \cup {Unknown, NoItem}] /\ \A e \in FolderRow : e # d => folderidmap'[e] = folderidmap[e]
  BY <1>1, <1>2, ShownNow
<1>4. CASE (d # selected_folder /\ UNCHANGED <<selected_folder, ops, list, pane>>) \/ (selected_folder' = 0 /\ UNCHANGED <<ops, list, pane>>)
  <2>1. selected_folder' = 0 \/ (selected_folder' \in FolderRow /\ folderidmap'[selected_folder'] # NoItem)
    BY <1>3, <1>4, ShownNow
  <2>2. StateTyped' /\ Told(Head(notifs))
    BY <1>1, <1>3, <1>4, <2>1, ShownNow, TellingTyped DEF list, pane, history
  <2> QED BY <1>1, <1>2, <2>2 DEF TellsDeleted, history
<1>5. ASSUME NEW e \in (Items \ {d}) \cup {0}, on_libtree_selection(e) PROVE StateTyped' /\ TellsDeleted(d)
  <2>1. selected_folder' = e /\ idmap' = Empty /\ EmptyList /\ UNCHANGED current_folder
        /\ (ops' = ops \/ (e # 0 /\ ops' = Append(ops, op("query_folder_content", e))))
    BY <1>5 DEF on_libtree_selection, schedule_op
  <2>2. selected_folder' = 0 \/ (selected_folder' \in FolderRow /\ folderidmap'[selected_folder'] # NoItem)
    BY <1>3, <1>5, <2>1 DEF Items
  <2>3. ops' = ops \/ \E o \in OpOf(Known) : ops' = Append(ops, o)
    BY <1>5, <2>1, OpTypes DEF Items
  <2>4. StateTyped' /\ Told(Head(notifs))
    BY <1>1, <1>3, <2>1, <2>2, <2>3, ShownNow, EmptyContent, EmptyListShown, TellingTyped DEF list, pane, history
  <2> QED BY <1>1, <1>2, <1>5, <2>4 DEF TellsDeleted, history
<1> QED BY <1>1, <1>2, <1>4, <1>5

LEMMA MainLoopTells ==
  ASSUME StateTyped, MainLoop
  PROVE  /\ StateTyped'
         /\ \/ TellsFiles
            \/ \E d \in FolderRow : \/ TellsAdded(d) \/ TellsDeleted(d)
                                    \/ \E c \in Nat : TellsCounted(d, c)
                                    \/ \E m \in ContentOf(Known) : TellsContent(d, m)
            \/ \E f \in Known : (\E v \in Value : TellsQueried(f, v)) \/ (\E v \in Rating : TellsChanged(f, v))
<1>1. CASE on_added_folder
  BY <1>1, AddedTold
<1>2. CASE on_folder_deleted
  BY <1>2, DeletedTold
<1>3. CASE on_folder_counted
  BY <1>3, CountedTold
<1>4. CASE on_folder_content
  BY <1>4, ContentTold
<1>5. CASE on_metadata_queried
  BY <1>5, QueriedTold
<1>6. CASE on_metadata_changed
  BY <1>6, ChangedTold
<1>7. CASE on_added_files
  BY <1>7, FilesTold
<1> QED BY <1>1, <1>2, <1>3, <1>4, <1>5, <1>6, <1>7 DEF MainLoop

LEMMA StateTypedStep == ASSUME StateTyped, [Next]_vars PROVE StateTyped'
<1>1. CASE Worker
  BY <1>1, WorkerRuns
<1>2. CASE MainLoop
  BY <1>2, MainLoopTells
<1>3. CASE Restart
  BY <1>3, RestartTyped DEF StateTyped
<1>4. ASSUME NEW d \in FolderRow \cup {0}, select_item(d) PROVE StateTyped'
  BY <1>4, SelectsTyped
<1>5. CASE User /\ ~Restart /\ \A d \in FolderRow \cup {0} : ~select_item(d)
  BY <1>5, UserQueuesOps, UserQueuesTyped
<1>6. CASE UNCHANGED vars
  <2>1. UNCHANGED <<folders, parent, rating, ops, notifs, folderidmap, selected_folder, current_folder, idmap, selection,
                    fileid, current_data, undos, redos, uncounted, unlisted, astray, crossed>>
    BY <1>6 DEF vars, database, channels, list, pane, undo_history, history
  <2>2. Known' = Known
    BY <2>1, KnownSame
  <2>3. DatabaseTyped' /\ TreeTyped' /\ ShownTyped' /\ QueuesTyped' /\ StartInv'
    BY <2>1, <2>2 DEF StateTyped, NiepceTyped, DatabaseTyped, TreeTyped, ShownTyped, QueuesTyped, StartInv, Starting, Items
  <2> QED BY <2>3 DEF StateTyped, NiepceTyped
<1> QED BY <1>1, <1>2, <1>3, <1>4, <1>5, <1>6 DEF Next

\* The queues only hold operations and notifications about folders and about
\* files that are there or were given up, and the list of all folders is
\* asked for before anything else is told.
THEOREM NiepceTypes == Spec => []StateTyped
<1>1. Init => StateTyped
  BY InitTyped DEF StateTyped
<1>2. StateTyped /\ [Next]_vars => StateTyped'
  BY StateTypedStep
<1> QED BY <1>1, <1>2, PTL DEF Spec

-----------------------------------------------------------------------------
(* The steps as the metadata of files sees them.                           *)

MetaMsgs == [n : {"MetadataQueried", "MetadataChanged"}, id : FileRow \cup {0}, value : Value]

\* From s to t nothing changes for the notifications about metadata.
KeepsMeta(s, t) ==
  \A T, U \in SUBSET MetaMsgs : /\ NoneOf(s, T) => NoneOf(t, T)
                                /\ NoneOf(t, T) => NoneOf(s, T)
                                /\ Final(s, T, U) => Final(t, T, U)
                                /\ Followed(s, T, U) => Followed(t, T, U)

FilesKept == \A f \in (Files \ astray)' : (f \in Files \ astray /\ rating'[f] = rating[f]) \/ f \notin Known

\* The worker runs something else than to read or to set metadata.
OtherRuns ==
  /\ ops # <<>> /\ ops' = Tail(ops) /\ Head(ops).op \notin {"request_metadata", "set_metadata"}
  /\ KeepsMeta(notifs, notifs') /\ FilesKept
  /\ UNCHANGED <<ui, crossed>>

\* Something else happens in the user interface.
Elsewhere ==
  /\ ops' = ops \/ \E o \in OpOf(Known) : o.op \notin {"request_metadata", "set_metadata"} /\ ops' = Append(ops, o)
  /\ KeepsMeta(notifs, notifs')
  /\ UNCHANGED <<selection, pane>> \/ (selection' = 0 /\ (UNCHANGED pane \/ fileid' = 0))
  /\ UNCHANGED <<database, undo_history, astray, crossed>>

SelectsImage(f) ==
  /\ ops' = Append(ops, op("request_metadata", f)) /\ op("request_metadata", f) \in OpOf(Known)
  /\ selection' = f /\ crossed' = FALSE
  /\ UNCHANGED <<database, notifs, pane, undo_history, astray>>

UserSets ==
  /\ \E o \in OpOf(Known) : o.op = "set_metadata" /\ ops' = Append(ops, o)
  /\ astray \subseteq astray'
  /\ UNCHANGED <<database, notifs, selection, pane, crossed>>

LEMMA MetaAppend ==
  ASSUME NEW S, NEW s \in Seq(S), NEW c \in S, c \notin MetaMsgs
  PROVE  KeepsMeta(s, Append(s, c))
<1> SUFFICES ASSUME NEW T \in SUBSET MetaMsgs, NEW U \in SUBSET MetaMsgs
             PROVE  /\ NoneOf(s, T) => NoneOf(Append(s, c), T)
                    /\ NoneOf(Append(s, c), T) => NoneOf(s, T)
                    /\ Final(s, T, U) => Final(Append(s, c), T, U)
                    /\ Followed(s, T, U) => Followed(Append(s, c), T, U)
  BY DEF KeepsMeta
<1>1. c \notin T
  OBVIOUS
<1> QED BY <1>1, LastAppend

LEMMA MetaTail ==
  ASSUME NEW S, NEW s \in Seq(S), s # <<>>, Head(s) \notin MetaMsgs
  PROVE  KeepsMeta(s, Tail(s))
<1> SUFFICES ASSUME NEW T \in SUBSET MetaMsgs, NEW U \in SUBSET MetaMsgs
             PROVE  /\ NoneOf(s, T) => NoneOf(Tail(s), T)
                    /\ NoneOf(Tail(s), T) => NoneOf(s, T)
                    /\ Final(s, T, U) => Final(Tail(s), T, U)
                    /\ Followed(s, T, U) => Followed(Tail(s), T, U)
  BY DEF KeepsMeta
<1>1. Head(s) \notin T /\ Head(s) \notin U
  OBVIOUS
<1> QED BY <1>1, LastTail

LEMMA MetaSame == \A s : KeepsMeta(s, s)
  BY DEF KeepsMeta

LEMMA MetaTrans == \A s, t, u : KeepsMeta(s, t) /\ KeepsMeta(t, u) => KeepsMeta(s, u)
  BY DEF KeepsMeta

LEMMA NotMeta ==
  /\ \A d : AddedMsg(d) \notin MetaMsgs /\ DeletedMsg(d) \notin MetaMsgs
  /\ \A d, c : CountedMsg(d, c) \notin MetaMsgs /\ ContentMsg(d, c) \notin MetaMsgs
  /\ FilesMsg \notin MetaMsgs
<1>1. \A c \in MetaMsgs : c.n \in {"MetadataQueried", "MetadataChanged"}
  BY DEF MetaMsgs
<1>2. \A d, c : AddedMsg(d).n = "AddedFolder" /\ DeletedMsg(d).n = "FolderDeleted" /\ CountedMsg(d, c).n = "FolderCounted"
                /\ ContentMsg(d, c).n = "FolderContentQueried" /\ FilesMsg.n = "AddedFiles"
  BY DEF AddedMsg, DeletedMsg, CountedMsg, ContentMsg, FilesMsg
<1>3. \A d : AddedMsg(d) \notin MetaMsgs
  BY <1>1, <1>2
<1>4. \A d : DeletedMsg(d) \notin MetaMsgs
  BY <1>1, <1>2
<1>5. \A d, c : CountedMsg(d, c) \notin MetaMsgs
  BY <1>1, <1>2
<1>6. \A d, c : ContentMsg(d, c) \notin MetaMsgs
  BY <1>1, <1>2
<1>7. FilesMsg \notin MetaMsgs
  BY <1>1, <1>2
<1> QED BY <1>3, <1>4, <1>5, <1>6, <1>7

LEMMA NotifsTyped == ASSUME StateTyped PROVE notifs \in Seq(NotifOf(Known)) /\ ops \in Seq(OpOf(Known) \cup {GetAll})
  BY DEF StateTyped, NiepceTyped, QueuesTyped

\* Nothing about metadata is among what is appended.
LEMMA AppendsOther ==
  ASSUME NEW c, c \notin MetaMsgs, NEW s, s \in Seq(NotifOf(Known)) PROVE KeepsMeta(s, Append(s, c))
<1>1. c \in NotifOf(Known) \cup {c} /\ s \in Seq(NotifOf(Known) \cup {c})
  BY SeqGrows
<1> QED BY <1>1, MetaAppend

LEMMA ListedMeta == ASSUME StateTyped, cmd_list_all_folders PROVE KeepsMeta(notifs, notifs')
<1>1. notifs = <<>>
  BY ListsTyped DEF StateTyped, StartInv
<1>2. notifs' = Listed /\ Listed \in Seq(NotifOf(Known))
  BY ListsTyped
<1>3. \A i \in DOMAIN Listed : Listed[i] \notin MetaMsgs
  BY NotMeta DEF Listed
<1> SUFFICES ASSUME NEW T \in SUBSET MetaMsgs, NEW U \in SUBSET MetaMsgs
             PROVE  /\ NoneOf(<<>>, T) => NoneOf(Listed, T)
                    /\ NoneOf(Listed, T) => NoneOf(<<>>, T)
                    /\ Final(<<>>, T, U) => Final(Listed, T, U)
                    /\ Followed(<<>>, T, U) => Followed(Listed, T, U)
  BY <1>1, <1>2 DEF KeepsMeta
<1>4. NoneOf(Listed, T) /\ Followed(Listed, T, U)
  BY <1>3 DEF NoneOf, Followed
<1> QED BY <1>4, LastNothing

LEMMA SameFilesKept == ASSUME UNCHANGED <<parent, rating, astray>> PROVE FilesKept
  BY DEF FilesKept, Files

LEMMA OthersRun ==
  ASSUME StateTyped,
         \/ cmd_list_all_folders \/ RunsInVain
         \/ \E d \in FolderRow : RunsQuery(d) \/ RunsCount(d) \/ RunsCreate(d) \/ RunsDelete(d) \/ RunsImport(d)
  PROVE  OtherRuns
<1>0. notifs \in Seq(NotifOf(Known)) /\ ops \in Seq(OpOf(Known) \cup {GetAll})
  BY NotifsTyped
<1>1. CASE cmd_list_all_folders
  <2>1. ops # <<>> /\ ops' = Tail(ops) /\ Head(ops).op = "get_all_folders" /\ UNCHANGED <<database, ui, history>>
    BY <1>1 DEF cmd_list_all_folders, Execute
  <2>2. FilesKept
    BY <2>1, SameFilesKept DEF database, history
  <2> QED BY <1>1, <2>1, <2>2, ListedMeta DEF OtherRuns, history
<1>2. CASE RunsInVain
  <2>1. FilesKept /\ notifs' = notifs
    BY <1>2, SameFilesKept DEF RunsInVain, database, history
  <2> QED BY <1>2, <2>1, MetaSame DEF RunsInVain, Ran, OtherRuns, history
<1>3. ASSUME NEW d \in FolderRow, RunsQuery(d) \/ RunsCount(d) \/ RunsCreate(d) PROVE OtherRuns
  <2>1. FilesKept
    BY <1>3, SameFilesKept DEF RunsQuery, RunsCount, RunsCreate, database, history
  <2>2. KeepsMeta(notifs, notifs')
    BY <1>0, <1>3, AppendsOther, NotMeta DEF RunsQuery, RunsCount, RunsCreate
  <2> QED BY <1>3, <2>1, <2>2 DEF RunsQuery, RunsCount, RunsCreate, Ran, op, OtherRuns, history
<1>4. ASSUME NEW d \in FolderRow, RunsDelete(d) PROVE OtherRuns
  <2>1. FilesKept
    <3> SUFFICES ASSUME NEW f \in (Files \ astray)' PROVE f \in Files \ astray /\ rating'[f] = rating[f]
      BY DEF FilesKept
    <3>1. f \in FileRow /\ parent'[f] # 0 /\ parent[f] # d
      BY <1>4 DEF Files, RunsDelete
    <3> QED BY <1>4, <3>1 DEF Files, RunsDelete
  <2>2. KeepsMeta(notifs, notifs')
    BY <1>0, <1>4, AppendsOther, NotMeta DEF RunsDelete
  <2> QED BY <1>4, <2>1, <2>2 DEF RunsDelete, Ran, op, OtherRuns
<1>5. ASSUME NEW d \in FolderRow, RunsImport(d) PROVE OtherRuns
  <2>1. FilesKept
    <3>1. CASE UNCHANGED <<parent, rating>>
      BY <1>5, <3>1, SameFilesKept DEF RunsImport
    <3>2. ASSUME NEW f \in FileRow \ Files, NEW v \in Value, parent' = [parent EXCEPT ![f] = d], rating' = [rating EXCEPT ![f] = v]
          PROVE  FilesKept
      <4> SUFFICES ASSUME NEW g \in (Files \ astray)' PROVE (g \in Files \ astray /\ rating'[g] = rating[g]) \/ g \notin Known
        BY DEF FilesKept
      <4>1. g \in FileRow /\ g \notin astray /\ g # 0 /\ astray' = astray
        BY <1>5, NiepceConstants DEF Files, RunsImport
      <4>2. parent \in [FileRow -> FolderRow \cup {0}] /\ rating \in [FileRow -> Value]
        BY DEF StateTyped, NiepceTyped, DatabaseTyped
      <4>3. CASE g = f
        BY <3>2, <4>1, <4>3 DEF Known
      <4>4. CASE g # f
        BY <3>2, <4>1, <4>2, <4>4 DEF Files
      <4> QED BY <4>3, <4>4
    <3> QED BY <1>5, <3>1, <3>2 DEF RunsImport
  <2>2. KeepsMeta(notifs, notifs')
    <3>1. CASE notifs' = Append(notifs, FilesMsg)
      BY <1>0, <3>1, AppendsOther, NotMeta
    <3>2. CASE notifs' = Append(Append(notifs, AddedMsg(d)), FilesMsg)
      <4>1. KeepsMeta(notifs, Append(notifs, AddedMsg(d)))
        BY <1>0, AppendsOther, NotMeta
      <4>2. AddedMsg(d) \in NotifOf(Known)
        BY NotifTypes
      <4>3. Append(notifs, AddedMsg(d)) \in Seq(NotifOf(Known))
        BY <1>0, <4>2
      <4>4. KeepsMeta(Append(notifs, AddedMsg(d)), notifs')
        BY <3>2, <4>3, AppendsOther, NotMeta
      <4> QED BY <4>1, <4>4, MetaTrans
    <3> QED BY <1>5, <3>1, <3>2 DEF RunsImport
  <2>3. PICK p \in Path : Ran([op |-> "import_files", path |-> p])
    BY <1>5 DEF RunsImport
  <2> QED BY <1>5, <2>1, <2>2, <2>3 DEF RunsImport, Ran, OtherRuns
<1> QED BY <1>1, <1>2, <1>3, <1>4, <1>5

LEMMA OthersTold ==
  ASSUME StateTyped,
         \/ TellsFiles
         \/ \E d \in FolderRow : \/ TellsAdded(d) \/ TellsDeleted(d)
                                 \/ \E c \in Nat : TellsCounted(d, c)
                                 \/ \E m \in ContentOf(Known) : TellsContent(d, m)
  PROVE  Elsewhere
<1>0. notifs \in Seq(NotifOf(Known))
  BY NotifsTyped
<1> DEFINE Here(c) == Told(c) /\ c \notin MetaMsgs
           Ops == ops' = ops \/ \E o \in OpOf(Known) : o.op \notin {"request_metadata", "set_metadata"} /\ ops' = Append(ops, o)
           Shows == UNCHANGED <<selection, pane>> \/ (selection' = 0 /\ (UNCHANGED pane \/ fileid' = 0))
<1>1. ASSUME NEW c, Here(c), Ops, Shows, UNCHANGED crossed PROVE Elsewhere
  <2>1. KeepsMeta(notifs, notifs')
    BY <1>0, <1>1, MetaTail DEF Told
  <2> QED BY <1>1, <2>1 DEF Elsewhere, Told
<1>2. EmptyList => Shows
  BY DEF EmptyList
<1>3. \A d \in FolderRow : /\ op("count_folder", d) \in OpOf(Known) /\ op("query_folder_content", d) \in OpOf(Known)
                           /\ op("count_folder", d).op = "count_folder" /\ op("query_folder_content", d).op = "query_folder_content"
  BY OpTypes DEF op
<1>4. CASE TellsFiles
  <2>1. Here(FilesMsg) /\ Ops /\ Shows /\ UNCHANGED crossed
    BY <1>4, NotMeta DEF TellsFiles, list
  <2> HIDE DEF Here, Ops, Shows
  <2> QED BY <1>1, <2>1
<1>5. ASSUME NEW d \in FolderRow, TellsAdded(d) PROVE Elsewhere
  <2>1. Here(AddedMsg(d)) /\ Ops /\ Shows /\ UNCHANGED crossed
    BY <1>3, <1>5, NotMeta DEF TellsAdded, list
  <2> HIDE DEF Here, Ops, Shows
  <2> QED BY <1>1, <2>1
<1>6. ASSUME NEW d \in FolderRow, TellsDeleted(d) PROVE Elsewhere
  <2>1. Here(DeletedMsg(d)) /\ UNCHANGED crossed
    BY <1>6, NotMeta DEF TellsDeleted
  <2>2. CASE UNCHANGED <<ops, list, pane>>
    BY <1>1, <2>1, <2>2 DEF list
  <2>3. ASSUME NEW e \in (Items \ {d}) \cup {0}, on_libtree_selection(e) PROVE Elsewhere
    <3>1. e = 0 \/ e \in FolderRow
      BY DEF Items
    <3>2. Ops /\ Shows
      BY <1>2, <1>3, <2>3, <3>1 DEF on_libtree_selection, schedule_op
    <3> HIDE DEF Here, Ops, Shows
    <3> QED BY <1>1, <2>1, <3>2
  <2> QED BY <1>6, <2>2, <2>3 DEF TellsDeleted
<1>7. ASSUME NEW d \in FolderRow, NEW c \in Nat, TellsCounted(d, c) PROVE Elsewhere
  <2>1. Here(CountedMsg(d, c)) /\ Ops /\ Shows /\ UNCHANGED crossed
    BY <1>7, NotMeta DEF TellsCounted, list
  <2> HIDE DEF Here, Ops, Shows
  <2> QED BY <1>1, <2>1
<1>8. ASSUME NEW d \in FolderRow, NEW m \in ContentOf(Known), TellsContent(d, m) PROVE Elsewhere
  <2>1. Here(ContentMsg(d, m)) /\ Ops /\ Shows /\ UNCHANGED crossed
    BY <1>2, <1>8, NotMeta DEF TellsContent
  <2> HIDE DEF Here, Ops, Shows
  <2> QED BY <1>1, <2>1
<1> QED BY <1>4, <1>5, <1>6, <1>7, <1>8

LEMMA FileSteps ==
  ASSUME StateTyped, [Next]_vars
  PROVE  \/ Restart \/ OtherRuns \/ Elsewhere
         \/ \E f \in FileRow : SelectsImage(f)
         \/ UserSets /\ ((\E r \in Rating : set_properties(r)) \/ undo \/ redo) /\ ~Restart
         \/ \E f \in Known : RunsRequest(f) \/ (\E v \in Rating : RunsSet(f, v))
                             \/ (\E v \in Value : TellsQueried(f, v)) \/ (\E v \in Rating : TellsChanged(f, v))
<1>1. CASE Worker
  BY <1>1, WorkerRuns, OthersRun
<1>2. CASE MainLoop
  BY <1>2, MainLoopTells, OthersTold
<1>3. ASSUME NEW d \in FolderRow \cup {0}, select_item(d) PROVE Elsewhere
  <2>1. on_libtree_selection(d) /\ UNCHANGED <<database, notifs, undo_history, history>>
    BY <1>3 DEF select_item
  <2>2. ops' = ops \/ (d \in FolderRow /\ ops' = Append(ops, op("query_folder_content", d)))
    BY <2>1 DEF on_libtree_selection, schedule_op
  <2>3. ops' = ops \/ \E o \in OpOf(Known) : o.op \notin {"request_metadata", "set_metadata"} /\ ops' = Append(ops, o)
    BY <2>2, OpTypes DEF op
  <2> QED BY <2>1, <2>3, MetaSame DEF on_libtree_selection, EmptyList, Elsewhere, history
<1>4. CASE User /\ ~Restart /\ \A d \in FolderRow \cup {0} : ~select_item(d)
  <2>1. UserQueues
    BY <1>4, UserQueuesOps
  <2>2. CASE (\E r \in Rating : set_properties(r)) \/ undo \/ redo
    <3>1. \A f, r : set_rating_op(f, r).op = "set_metadata" /\ \A g : set_rating_op(f, r) # op("request_metadata", g)
      BY DEF set_rating_op, op
    <3>2. \E f, r : ops' = Append(ops, set_rating_op(f, r))
      BY <1>4, <2>2 DEF set_properties, undo, redo, schedule_op
    <3>3. PICK o \in OpOf(Known) : ops' = Append(ops, o) /\ (o.op \in {"create_folder", "delete_folder", "import_files"} \/ o.op = "request_metadata" \/ o.op = "set_metadata")
      BY <2>1 DEF UserQueues, op
    <3>4. ops \in Seq(OpOf(Known) \cup {GetAll})
      BY NotifsTyped
    <3>5. o.op = "set_metadata"
      <4>1. \A x, y : Append(ops, x) = Append(ops, y) => x = y
        BY <3>4, Appended
      <4> QED BY <3>1, <3>2, <3>3, <4>1
    <3>6. astray \subseteq astray' /\ UNCHANGED <<database, notifs, selection, pane, crossed>>
      BY <1>4, <2>2 DEF set_properties, undo, redo, list, history
    <3> QED BY <1>4, <2>2, <3>3, <3>5, <3>6 DEF UserSets
  <2>3. ASSUME NEW f \in FileRow, select_image(f) PROVE SelectsImage(f)
    <3>1. f \in Known
      BY <2>3, ShownNow, ContentIs DEF select_image
    <3> QED BY <2>3, <3>1, OpTypes DEF select_image, schedule_op, SelectsImage, undo_history, pane
  <2>4. CASE action_new_folder \/ action_delete_folder \/ \E p \in Path : action_file_import(p)
    <3>1. \E o \in OpOf(Known) : o.op \notin {"request_metadata", "set_metadata"} /\ ops' = Append(ops, o)
      <4>1. CASE action_new_folder
        BY <4>1, OpTypes DEF action_new_folder, Command, schedule_op, op
      <4>2. CASE action_delete_folder
        <5>1. selected_folder \in FolderRow
          BY <4>2, ShownNow DEF action_delete_folder
        <5> QED BY <4>2, <5>1, OpTypes DEF action_delete_folder, Command, schedule_op, op
      <4>3. ASSUME NEW p \in Path, action_file_import(p)
            PROVE  \E o \in OpOf(Known) : o.op \notin {"request_metadata", "set_metadata"} /\ ops' = Append(ops, o)
        BY <4>3, OpTypes DEF action_file_import, Command, schedule_op
      <4> QED BY <2>4, <4>1, <4>2, <4>3
    <3>2. UNCHANGED <<database, notifs, selection, pane, undo_history, history>>
      BY <2>4 DEF action_new_folder, action_delete_folder, action_file_import, Command, list
    <3> QED BY <3>1, <3>2, MetaSame DEF Elsewhere, history
  <2> QED BY <1>4, <2>2, <2>3, <2>4 DEF User, restart
<1>5. CASE UNCHANGED vars
  BY <1>5, MetaSame DEF vars, Elsewhere, history, list, channels
<1> QED BY <1>1, <1>2, <1>3, <1>4, <1>5 DEF Next

-----------------------------------------------------------------------------
(* The pane is current.                                                    *)

QueriedOf(f) == {QueriedMsg(f, v) : v \in Value}
ChangedOf(f) == {ChangedMsg(f, v) : v \in Rating}
Stale(f) == {QueriedMsg(f, v) : v \in Value \ {rating[f]}}
RequestOf(f) == {op("request_metadata", f)}

\* What was read of a file before it was changed is followed by the
\* notification of the change, on which the pane reads it again.
PaneInv == \A f \in Files \ astray :
  /\ Followed(notifs, Stale(f), ChangedOf(f))
  /\ fileid = f => \/ current_data = rating[f]
                   \/ ~NoneOf(ops, RequestOf(f)) \/ ~NoneOf(notifs, QueriedOf(f)) \/ ~NoneOf(notifs, ChangedOf(f))

LEMMA MetaKinds ==
  ASSUME NEW f \in FileRow \cup {0}
  PROVE  /\ QueriedOf(f) \in SUBSET MetaMsgs /\ ChangedOf(f) \in SUBSET MetaMsgs /\ Stale(f) \in SUBSET QueriedOf(f)
         /\ \A v : QueriedMsg(f, v) \notin ChangedOf(f) /\ ChangedMsg(f, v) \notin QueriedOf(f)
         /\ \A g, v : g # f => QueriedMsg(g, v) \notin QueriedOf(f) /\ ChangedMsg(g, v) \notin ChangedOf(f)
         /\ \A g, v : QueriedMsg(g, v) \notin ChangedOf(f) /\ ChangedMsg(g, v) \notin QueriedOf(f)
<1>1. \A g, v : QueriedMsg(g, v).n = "MetadataQueried" /\ QueriedMsg(g, v).id = g
                /\ ChangedMsg(g, v).n = "MetadataChanged" /\ ChangedMsg(g, v).id = g
  BY DEF QueriedMsg, ChangedMsg
<1>2. \A v \in Value : QueriedMsg(f, v) \in MetaMsgs
  BY DEF MetaMsgs, QueriedMsg
<1>3. \A v \in Rating : ChangedMsg(f, v) \in MetaMsgs
  BY NiepceConstants DEF MetaMsgs, ChangedMsg
<1>4. QueriedOf(f) \in SUBSET MetaMsgs /\ ChangedOf(f) \in SUBSET MetaMsgs /\ Stale(f) \in SUBSET QueriedOf(f)
  BY <1>2, <1>3 DEF QueriedOf, ChangedOf, Stale
<1>5. (\A c \in QueriedOf(f) : c.n = "MetadataQueried" /\ c.id = f) /\ \A c \in ChangedOf(f) : c.n = "MetadataChanged" /\ c.id = f
  BY <1>1 DEF QueriedOf, ChangedOf
<1>6. \A g, v : QueriedMsg(g, v) \notin ChangedOf(f) /\ ChangedMsg(g, v) \notin QueriedOf(f)
  BY <1>1, <1>5
<1>7. \A g, v : g # f => QueriedMsg(g, v) \notin QueriedOf(f) /\ ChangedMsg(g, v) \notin ChangedOf(f)
  BY <1>1, <1>5
<1> QED BY <1>4, <1>6, <1>7

LEMMA NoneOfSubset == \A s, T, U : T \subseteq U /\ NoneOf(s, U) => NoneOf(s, T)
  BY DEF NoneOf
LEMMA NoneFollowed == \A s, T, U : NoneOf(s, T) => Followed(s, T, U)
  BY DEF NoneOf, Followed

\* Nothing speaks of a file that is not known.
LEMMA Unspoken ==
  ASSUME StateTyped, NEW f, f \notin Known
  PROVE  /\ NoneOf(ops, RequestOf(f)) /\ NoneOf(notifs, QueriedOf(f)) /\ NoneOf(notifs, ChangedOf(f))
         /\ fileid # f /\ selection # f
<1>0. notifs \in Seq(NotifOf(Known)) /\ ops \in Seq(OpOf(Known) \cup {GetAll})
  BY NotifsTyped
<1>1. \A v : QueriedMsg(f, v) \notin NotifOf(Known) /\ ChangedMsg(f, v) \notin NotifOf(Known)
  <2>1. \A v : QueriedMsg(f, v).n = "MetadataQueried" /\ QueriedMsg(f, v).id = f
                /\ ChangedMsg(f, v).n = "MetadataChanged" /\ ChangedMsg(f, v).id = f
    BY DEF QueriedMsg, ChangedMsg
  <2> QED BY <2>1, NotifKinds
<1>2. op("request_metadata", f) \notin OpOf(Known) \cup {GetAll}
  <2>1. op("request_metadata", f).op = "request_metadata" /\ op("request_metadata", f).id = f
    BY DEF op
  <2> QED BY <2>1, OpKinds
<1>3. \A i \in DOMAIN notifs : notifs[i] \in NotifOf(Known)
  BY <1>0
<1>4. \A i \in DOMAIN ops : ops[i] \in OpOf(Known) \cup {GetAll}
  BY <1>0
<1>5. NoneOf(ops, RequestOf(f)) /\ NoneOf(notifs, QueriedOf(f)) /\ NoneOf(notifs, ChangedOf(f))
  BY <1>1, <1>2, <1>3, <1>4 DEF NoneOf, RequestOf, QueriedOf, ChangedOf
<1> QED BY <1>5, ShownNow

LEMMA KnownRows == ASSUME StateTyped PROVE Known \subseteq FileRow \cup {0}
  BY DEF StateTyped, NiepceTyped, ShownTyped, Known, Files

LEMMA PaneOtherRuns == ASSUME StateTyped, PaneInv, OtherRuns PROVE PaneInv'
<1> SUFFICES ASSUME NEW f \in (Files \ astray)'
             PROVE  /\ Followed(notifs', Stale(f)', ChangedOf(f))
                    /\ fileid' = f => \/ current_data' = rating'[f]
                                      \/ ~NoneOf(ops', RequestOf(f)) \/ ~NoneOf(notifs', QueriedOf(f)) \/ ~NoneOf(notifs', ChangedOf(f))
  BY DEF PaneInv, RequestOf, QueriedOf, ChangedOf
<1>0. f \in FileRow /\ KeepsMeta(notifs, notifs') /\ UNCHANGED pane
  BY DEF Files, OtherRuns, ui
<1>1. QueriedOf(f) \in SUBSET MetaMsgs /\ ChangedOf(f) \in SUBSET MetaMsgs /\ Stale(f) \in SUBSET QueriedOf(f)
  BY <1>0, MetaKinds
<1>2. CASE f \in Files \ astray /\ rating'[f] = rating[f]
  <2>1. Stale(f)' = Stale(f) /\ Stale(f) \in SUBSET MetaMsgs
    BY <1>1, <1>2 DEF Stale
  <2>2. Followed(notifs', Stale(f), ChangedOf(f))
    BY <1>0, <1>1, <1>2, <2>1 DEF PaneInv, KeepsMeta
  <2>3. NoneOf(ops', RequestOf(f)) => NoneOf(ops, RequestOf(f))
    <3>1. ops \in Seq(OpOf(Known) \cup {GetAll}) /\ ops # <<>> /\ ops' = Tail(ops)
      BY NotifsTyped DEF OtherRuns
    <3>2. Head(ops) \notin RequestOf(f)
      BY DEF OtherRuns, RequestOf, op
    <3> QED BY <3>1, <3>2, LastTail
  <2>4. /\ NoneOf(notifs', QueriedOf(f)) => NoneOf(notifs, QueriedOf(f))
        /\ NoneOf(notifs', ChangedOf(f)) => NoneOf(notifs, ChangedOf(f))
    BY <1>0, <1>1 DEF KeepsMeta
  <2> QED BY <1>0, <1>2, <2>1, <2>2, <2>3, <2>4 DEF PaneInv, pane
<1>3. CASE f \notin Known
  <2>1. NoneOf(notifs, QueriedOf(f)) /\ fileid # f
    BY <1>3, Unspoken
  <2>2. NoneOf(notifs', QueriedOf(f))
    BY <1>0, <1>1, <2>1 DEF KeepsMeta
  <2>3. Stale(f)' \subseteq QueriedOf(f)
    BY DEF Stale, QueriedOf
  <2> QED BY <1>0, <2>1, <2>2, <2>3, NoneOfSubset, NoneFollowed DEF pane
<1> QED BY <1>2, <1>3 DEF OtherRuns, FilesKept

LEMMA PaneElsewhere == ASSUME StateTyped, PaneInv, Elsewhere \/ (\E f \in FileRow : SelectsImage(f)) \/ UserSets PROVE PaneInv'
<1> SUFFICES ASSUME NEW f \in (Files \ astray)'
             PROVE  /\ Followed(notifs', Stale(f)', ChangedOf(f))
                    /\ fileid' = f => \/ current_data' = rating'[f]
                                      \/ ~NoneOf(ops', RequestOf(f)) \/ ~NoneOf(notifs', QueriedOf(f)) \/ ~NoneOf(notifs', ChangedOf(f))
  BY DEF PaneInv, RequestOf, QueriedOf, ChangedOf
<1>0. /\ f \in Files \ astray /\ f \in FileRow /\ f # 0 /\ rating' = rating
      /\ KeepsMeta(notifs, notifs') /\ (UNCHANGED pane \/ fileid' = 0)
  BY MetaSame, NiepceConstants DEF Files, Elsewhere, SelectsImage, UserSets, database, pane
<1>1. QueriedOf(f) \in SUBSET MetaMsgs /\ ChangedOf(f) \in SUBSET MetaMsgs /\ Stale(f) \in SUBSET QueriedOf(f)
  BY <1>0, MetaKinds
<1>2. Stale(f)' = Stale(f) /\ Stale(f) \in SUBSET MetaMsgs
  BY <1>0, <1>1 DEF Stale
<1>3. Followed(notifs', Stale(f), ChangedOf(f))
  BY <1>0, <1>1, <1>2 DEF PaneInv, KeepsMeta
<1>4. NoneOf(ops', RequestOf(f)) => NoneOf(ops, RequestOf(f))
  <2>1. ops \in Seq(OpOf(Known) \cup {GetAll})
    BY NotifsTyped
  <2>2. ops' = ops \/ \E o \in OpOf(Known) : ops' = Append(ops, o)
    BY DEF Elsewhere, SelectsImage, UserSets
  <2>3. ASSUME NEW o \in OpOf(Known), ops' = Append(ops, o), NoneOf(ops', RequestOf(f)) PROVE NoneOf(ops, RequestOf(f))
    <3>1. o \in OpOf(Known) \cup {GetAll}
      OBVIOUS
    <3>2. NoneOf(Append(ops, o), RequestOf(f))
      BY <2>3
    <3> QED BY <2>1, <3>1, <3>2, LastAppend
  <2> QED BY <2>2, <2>3
<1>5. /\ NoneOf(notifs', QueriedOf(f)) => NoneOf(notifs, QueriedOf(f))
      /\ NoneOf(notifs', ChangedOf(f)) => NoneOf(notifs, ChangedOf(f))
  BY <1>0, <1>1 DEF KeepsMeta
<1> QED BY <1>0, <1>2, <1>3, <1>4, <1>5 DEF PaneInv, pane

LEMMA PaneRequest == ASSUME StateTyped, PaneInv, NEW g \in Known, RunsRequest(g) PROVE PaneInv'
<1> SUFFICES ASSUME NEW f \in (Files \ astray)'
             PROVE  /\ Followed(notifs', Stale(f)', ChangedOf(f))
                    /\ fileid' = f => \/ current_data' = rating'[f]
                                      \/ ~NoneOf(ops', RequestOf(f)) \/ ~NoneOf(notifs', QueriedOf(f)) \/ ~NoneOf(notifs', ChangedOf(f))
  BY DEF PaneInv, RequestOf, QueriedOf, ChangedOf
<1>0. /\ f \in Files \ astray /\ f \in FileRow /\ f # 0 /\ rating' = rating /\ UNCHANGED pane
      /\ ops # <<>> /\ ops' = Tail(ops) /\ Head(ops) = op("request_metadata", g)
  BY NiepceConstants DEF Files, RunsRequest, Ran, database, history, ui
<1>1. Stale(f)' = Stale(f)
  BY <1>0 DEF Stale
<1>2. notifs \in Seq(NotifOf(Known)) /\ ops \in Seq(OpOf(Known) \cup {GetAll})
  BY NotifsTyped
<1>3. Followed(notifs, Stale(f), ChangedOf(f))
  BY <1>0 DEF PaneInv
<1>4. g # f => (NoneOf(ops', RequestOf(f)) => NoneOf(ops, RequestOf(f)))
  <2>1. g # f => Head(ops) \notin RequestOf(f)
    BY <1>0 DEF RequestOf, op
  <2> QED BY <1>0, <1>2, <2>1, LastTail
<1>5. CASE g \in Files
  <2> DEFINE c == QueriedMsg(g, rating[g])
  <2>1. c \in NotifOf(Known)
    BY <1>5, NotifTypes DEF StateTyped, NiepceTyped, DatabaseTyped, Files
  <2>2. notifs' = Append(notifs, c)
    BY <1>5 DEF RunsRequest
  <2>3. c \notin Stale(f)
    <3>1. \A v : QueriedMsg(g, v).id = g /\ QueriedMsg(g, v).value = v /\ QueriedMsg(f, v).id = f /\ QueriedMsg(f, v).value = v
      BY DEF QueriedMsg
    <3> QED BY <3>1 DEF Stale
  <2>4. g = f => c \in QueriedOf(f)
    BY <1>5 DEF QueriedOf, StateTyped, NiepceTyped, DatabaseTyped, Files
  <2> HIDE DEF c
  <2>5. Followed(Append(notifs, c), Stale(f), ChangedOf(f))
    BY <1>2, <1>3, <2>1, <2>3, LastAppend
  <2>6. /\ NoneOf(Append(notifs, c), QueriedOf(f)) => NoneOf(notifs, QueriedOf(f)) /\ c \notin QueriedOf(f)
        /\ NoneOf(Append(notifs, c), ChangedOf(f)) => NoneOf(notifs, ChangedOf(f))
    BY <1>2, <2>1, LastAppend
  <2>7. Followed(notifs', Stale(f)', ChangedOf(f))
    BY <1>1, <2>2, <2>5
  <2>8. /\ NoneOf(notifs', QueriedOf(f)) => NoneOf(notifs, QueriedOf(f)) /\ g # f
        /\ NoneOf(notifs', ChangedOf(f)) => NoneOf(notifs, ChangedOf(f))
    BY <2>2, <2>4, <2>6
  <2> QED BY <1>0, <1>4, <2>7, <2>8 DEF PaneInv, pane
<1>6. CASE g \notin Files
  <2>1. notifs' = notifs /\ g # f
    BY <1>0, <1>6 DEF RunsRequest
  <2> QED BY <1>0, <1>1, <1>3, <1>4, <2>1 DEF PaneInv, pane
<1> QED BY <1>5, <1>6

LEMMA PaneSet == ASSUME StateTyped, PaneInv, NEW g \in Known, NEW r \in Rating, RunsSet(g, r) PROVE PaneInv'
<1> SUFFICES ASSUME NEW f \in (Files \ astray)'
             PROVE  /\ Followed(notifs', Stale(f)', ChangedOf(f))
                    /\ fileid' = f => \/ current_data' = rating'[f]
                                      \/ ~NoneOf(ops', RequestOf(f)) \/ ~NoneOf(notifs', QueriedOf(f)) \/ ~NoneOf(notifs', ChangedOf(f))
  BY DEF PaneInv, RequestOf, QueriedOf, ChangedOf
<1>0. /\ f \in Files \ astray /\ f \in FileRow /\ f # 0 /\ UNCHANGED pane
      /\ ops # <<>> /\ ops' = Tail(ops) /\ Head(ops) = set_rating_op(g, r)
  BY NiepceConstants DEF Files, RunsSet, Ran, history, ui
<1>2. notifs \in Seq(NotifOf(Known)) /\ ops \in Seq(OpOf(Known) \cup {GetAll})
  BY NotifsTyped
<1>3. Followed(notifs, Stale(f), ChangedOf(f))
  BY <1>0 DEF PaneInv
<1>4. NoneOf(ops', RequestOf(f)) => NoneOf(ops, RequestOf(f))
  <2>1. Head(ops) \notin RequestOf(f)
    BY <1>0 DEF RequestOf, op, set_rating_op
  <2> QED BY <1>0, <1>2, <2>1, LastTail
<1>5. CASE g \in Files
  <2> DEFINE c == ChangedMsg(g, r)
  <2>1. c \in NotifOf(Known)
    BY NotifTypes
  <2>2. notifs' = Append(notifs, c) /\ rating' = [rating EXCEPT ![g] = r]
    BY <1>5 DEF RunsSet
  <2>3. c \notin Stale(f)' /\ c \notin Stale(f)
    <3>1. c.n = "MetadataChanged" /\ \A v : QueriedMsg(f, v).n = "MetadataQueried"
      BY DEF QueriedMsg, ChangedMsg
    <3> QED BY <3>1 DEF Stale
  <2>4. g = f => c \in ChangedOf(f)
    BY DEF ChangedOf
  <2>5. rating \in [FileRow -> Value]
    BY DEF StateTyped, NiepceTyped, DatabaseTyped
  <2>6. g # f => rating'[f] = rating[f] /\ Stale(f)' = Stale(f)
    BY <1>0, <2>2, <2>5 DEF Stale
  <2> HIDE DEF c
  <2>7. Followed(notifs', Stale(f)', ChangedOf(f))
    <3>1. CASE g = f
      <4>1. Followed(Append(notifs, c), Stale(f)', ChangedOf(f))
        BY <1>2, <2>1, <2>3, <2>4, <3>1, LastAppend
      <4> QED BY <2>2, <4>1
    <3>2. CASE g # f
      <4>1. Followed(Append(notifs, c), Stale(f), ChangedOf(f))
        BY <1>2, <1>3, <2>1, <2>3, LastAppend
      <4> QED BY <2>2, <2>6, <3>2, <4>1
    <3> QED BY <3>1, <3>2
  <2>8. /\ NoneOf(Append(notifs, c), QueriedOf(f)) => NoneOf(notifs, QueriedOf(f))
        /\ NoneOf(Append(notifs, c), ChangedOf(f)) => NoneOf(notifs, ChangedOf(f)) /\ c \notin ChangedOf(f)
    BY <1>2, <2>1, LastAppend
  <2>9. /\ NoneOf(notifs', QueriedOf(f)) => NoneOf(notifs, QueriedOf(f))
        /\ NoneOf(notifs', ChangedOf(f)) => NoneOf(notifs, ChangedOf(f)) /\ g # f
    BY <2>2, <2>4, <2>8
  <2> QED BY <1>0, <1>4, <2>6, <2>7, <2>9 DEF PaneInv, pane
<1>6. CASE g \notin Files
  <2>1. notifs' = notifs /\ rating' = rating /\ Stale(f)' = Stale(f)
    BY <1>6 DEF RunsSet, Stale
  <2> QED BY <1>0, <1>3, <1>4, <2>1 DEF PaneInv, pane
<1> QED BY <1>5, <1>6

LEMMA PaneQueried == ASSUME StateTyped, PaneInv, NEW g \in Known, NEW v \in Value, TellsQueried(g, v) PROVE PaneInv'
<1> SUFFICES ASSUME NEW f \in (Files \ astray)'
             PROVE  /\ Followed(notifs', Stale(f)', ChangedOf(f))
                    /\ fileid' = f => \/ current_data' = rating'[f]
                                      \/ ~NoneOf(ops', RequestOf(f)) \/ ~NoneOf(notifs', QueriedOf(f)) \/ ~NoneOf(notifs', ChangedOf(f))
  BY DEF PaneInv, RequestOf, QueriedOf, ChangedOf
<1>0. /\ f \in Files \ astray /\ f \in FileRow /\ rating' = rating /\ ops' = ops /\ fileid' = g /\ current_data' = v
      /\ notifs # <<>> /\ notifs' = Tail(notifs) /\ Head(notifs) = QueriedMsg(g, v)
  BY DEF Files, TellsQueried, Told, database
<1>1. Stale(f)' = Stale(f)
  BY <1>0 DEF Stale
<1>2. notifs \in Seq(NotifOf(Known))
  BY NotifsTyped
<1>3. Followed(notifs, Stale(f), ChangedOf(f))
  BY <1>0 DEF PaneInv
<1>4. Followed(Tail(notifs), Stale(f), ChangedOf(f)) /\ (Head(notifs) \in Stale(f) => ~NoneOf(Tail(notifs), ChangedOf(f)))
  BY <1>0, <1>2, <1>3, LastTail
<1>5. g = f => v = rating[f] \/ Head(notifs) \in Stale(f)
  BY <1>0 DEF Stale
<1> QED BY <1>0, <1>1, <1>4, <1>5

LEMMA PaneChanged == ASSUME StateTyped, PaneInv, NEW g \in Known, NEW r \in Rating, TellsChanged(g, r) PROVE PaneInv'
<1> SUFFICES ASSUME NEW f \in (Files \ astray)'
             PROVE  /\ Followed(notifs', Stale(f)', ChangedOf(f))
                    /\ fileid' = f => \/ current_data' = rating'[f]
                                      \/ ~NoneOf(ops', RequestOf(f)) \/ ~NoneOf(notifs', QueriedOf(f)) \/ ~NoneOf(notifs', ChangedOf(f))
  BY DEF PaneInv, RequestOf, QueriedOf, ChangedOf
<1>0. /\ f \in Files \ astray /\ f \in FileRow /\ rating' = rating /\ UNCHANGED pane
      /\ IF g = fileid THEN ops' = Append(ops, op("request_metadata", g)) ELSE UNCHANGED ops
      /\ notifs # <<>> /\ notifs' = Tail(notifs) /\ Head(notifs) = ChangedMsg(g, r)
  BY DEF Files, TellsChanged, Told, database
<1>1. Stale(f)' = Stale(f)
  BY <1>0 DEF Stale
<1>2. notifs \in Seq(NotifOf(Known)) /\ ops \in Seq(OpOf(Known) \cup {GetAll})
  BY NotifsTyped
<1>3. Followed(notifs, Stale(f), ChangedOf(f))
  BY <1>0 DEF PaneInv
<1>4. Followed(Tail(notifs), Stale(f), ChangedOf(f))
  BY <1>0, <1>2, <1>3, LastTail
<1>5. /\ NoneOf(Tail(notifs), QueriedOf(f)) => NoneOf(notifs, QueriedOf(f))
      /\ g # f => (NoneOf(Tail(notifs), ChangedOf(f)) => NoneOf(notifs, ChangedOf(f)))
  <2>1. Head(notifs) \notin QueriedOf(f) /\ (g # f => Head(notifs) \notin ChangedOf(f))
    BY <1>0, MetaKinds
  <2> QED BY <1>0, <1>2, <2>1, LastTail
<1>6. op("request_metadata", g) \in OpOf(Known) \cup {GetAll}
  BY OpTypes
<1>7. g = f /\ fileid = f => ~NoneOf(ops', RequestOf(f))
  <2>1. op("request_metadata", g) \in RequestOf(g)
    BY DEF RequestOf
  <2>2. ~NoneOf(Append(ops, op("request_metadata", g)), RequestOf(g))
    BY <1>2, <1>6, <2>1, LastAppend
  <2> QED BY <1>0, <2>2
<1>8. fileid = f /\ g # f => ops' = ops
  BY <1>0
<1> QED BY <1>0, <1>1, <1>4, <1>5, <1>7, <1>8 DEF PaneInv, pane

LEMMA PaneRestart == ASSUME Restart PROVE PaneInv'
<1>1. notifs' = <<>> /\ fileid' = 0
  BY DEF Restart
<1>2. 0 \notin (Files \ astray)'
  BY NiepceConstants DEF Files
<1> QED BY <1>1, <1>2, LastNothing DEF PaneInv

LEMMA PaneStep == ASSUME StateTyped, PaneInv, [Next]_vars PROVE PaneInv'
  BY FileSteps, PaneRestart, PaneOtherRuns, PaneElsewhere, PaneRequest, PaneSet, PaneQueried, PaneChanged

LEMMA PaneInit == Init => PaneInv
<1> SUFFICES ASSUME Init PROVE PaneInv
  OBVIOUS
<1>1. notifs = <<>> /\ fileid = 0
  BY DEF Init
<1>2. 0 \notin Files \ astray
  BY NiepceConstants DEF Files
<1> QED BY <1>1, <1>2, LastNothing DEF PaneInv

\* Once everything asked for is done, the pane shows the rating that the
\* file it displays has, however edits, undos and replies crossed.
THEOREM NiepcePaneIsCurrent == Spec => []PaneIsCurrent
<1>1. Init => StateTyped /\ PaneInv
  BY InitTyped, PaneInit DEF StateTyped
<1>2. StateTyped /\ PaneInv /\ [Next]_vars => (StateTyped /\ PaneInv)'
  BY StateTypedStep, PaneStep
<1>3. PaneInv => PaneIsCurrent
  BY LastNothing DEF PaneInv, PaneIsCurrent, Quiet
<1> QED BY <1>1, <1>2, <1>3, PTL DEF Spec

-----------------------------------------------------------------------------
(* The pane follows the selection.                                         *)

Requests == {op("request_metadata", f) : f \in FileRow \cup {0}}
AnyQueried == {QueriedMsg(f, v) : f \in FileRow \cup {0}, v \in Value}

\* The last request is for the file selected or, when all were answered, the
\* last answer is.
Follows(f) ==
  \/ Final(ops, Requests, RequestOf(f))
  \/ /\ NoneOf(ops, Requests)
     /\ Final(notifs, AnyQueried, QueriedOf(f)) \/ (NoneOf(notifs, AnyQueried) /\ fileid = f)

FollowInv == selection \in Files \ astray /\ ~crossed => Follows(selection)

LEMMA AnyQueriedMeta ==
  /\ AnyQueried \in SUBSET MetaMsgs /\ \A f \in FileRow : QueriedOf(f) \in SUBSET AnyQueried
  /\ \A f, v : ChangedMsg(f, v) \notin AnyQueried
<1>1. \A f \in FileRow \cup {0}, v \in Value : QueriedMsg(f, v) \in MetaMsgs
  BY DEF MetaMsgs, QueriedMsg
<1>2. AnyQueried \in SUBSET MetaMsgs /\ \A f \in FileRow : QueriedOf(f) \in SUBSET AnyQueried
  BY <1>1 DEF AnyQueried, QueriedOf
<1>3. \A c \in AnyQueried : c.n = "MetadataQueried"
  BY DEF AnyQueried, QueriedMsg
<1>4. \A f, v : ChangedMsg(f, v).n = "MetadataChanged"
  BY DEF ChangedMsg
<1> QED BY <1>2, <1>3, <1>4

LEMMA NotRequests == \A o : o.op # "request_metadata" => o \notin Requests
  BY DEF Requests, op

\* A step that asks for nothing and is no answer.
LEMMA FollowKeeps ==
  ASSUME StateTyped, NEW f \in FileRow, Follows(f), UNCHANGED fileid, KeepsMeta(notifs, notifs'),
         \/ ops' = ops
         \/ \E o \in OpOf(Known) : o.op # "request_metadata" /\ ops' = Append(ops, o)
         \/ ops # <<>> /\ ops' = Tail(ops) /\ Head(ops).op # "request_metadata"
  PROVE  Follows(f)'
<1>1. ops \in Seq(OpOf(Known) \cup {GetAll})
  BY NotifsTyped
<1>2. /\ NoneOf(ops, Requests) => NoneOf(ops', Requests)
      /\ Final(ops, Requests, RequestOf(f)) => Final(ops', Requests, RequestOf(f))
  <2>1. ASSUME NEW o \in OpOf(Known), o.op # "request_metadata", ops' = Append(ops, o)
        PROVE  /\ NoneOf(ops, Requests) => NoneOf(ops', Requests)
               /\ Final(ops, Requests, RequestOf(f)) => Final(ops', Requests, RequestOf(f))
    <3>1. o \in OpOf(Known) \cup {GetAll} /\ o \notin Requests
      BY <2>1, NotRequests
    <3>2. /\ NoneOf(ops, Requests) => NoneOf(Append(ops, o), Requests)
          /\ Final(ops, Requests, RequestOf(f)) => Final(Append(ops, o), Requests, RequestOf(f))
      BY <1>1, <3>1, LastAppend
    <3> QED BY <2>1, <3>2
  <2>2. ASSUME ops # <<>>, ops' = Tail(ops), Head(ops).op # "request_metadata"
        PROVE  /\ NoneOf(ops, Requests) => NoneOf(ops', Requests)
               /\ Final(ops, Requests, RequestOf(f)) => Final(ops', Requests, RequestOf(f))
    <3>1. Head(ops) \notin Requests /\ Head(ops) \notin RequestOf(f)
      BY <2>2, NotRequests DEF RequestOf, op
    <3>2. /\ NoneOf(ops, Requests) => NoneOf(Tail(ops), Requests)
          /\ Final(ops, Requests, RequestOf(f)) => Final(Tail(ops), Requests, RequestOf(f))
      BY <1>1, <2>2, <3>1, LastTail
    <3> QED BY <2>2, <3>2
  <2> QED BY <2>1, <2>2
<1>3. /\ Final(notifs, AnyQueried, QueriedOf(f)) => Final(notifs', AnyQueried, QueriedOf(f))
      /\ NoneOf(notifs, AnyQueried) => NoneOf(notifs', AnyQueried)
  <2>1. AnyQueried \in SUBSET MetaMsgs /\ QueriedOf(f) \in SUBSET MetaMsgs
    BY AnyQueriedMeta
  <2> QED BY <2>1 DEF KeepsMeta
<1> QED BY <1>2, <1>3 DEF Follows, Requests, RequestOf, AnyQueried, QueriedOf

LEMMA FollowStep == ASSUME StateTyped, FollowInv, [Next]_vars PROVE FollowInv'
<1> SUFFICES ASSUME (selection \in Files \ astray /\ ~crossed)' PROVE Follows(selection)'
  BY DEF FollowInv
<1> DEFINE f == selection'
<1>0. f \in FileRow /\ f # 0 /\ f \in (Files \ astray)'
  BY NiepceConstants DEF Files
<1>q. notifs \in Seq(NotifOf(Known)) /\ ops \in Seq(OpOf(Known) \cup {GetAll}) /\ selection \in Known
  BY NotifsTyped, ShownNow
<1>1. CASE Restart
  BY <1>0, <1>1 DEF Restart
<1>2. CASE OtherRuns
  <2>1. selection' = selection /\ fileid' = fileid /\ crossed' = crossed
    BY <1>2 DEF OtherRuns, ui, list, pane
  <2>2. selection \in Files \ astray
    BY <1>0, <1>2, <1>q, <2>1 DEF OtherRuns, FilesKept
  <2>3. Follows(selection) /\ selection \in FileRow
    BY <1>0, <2>1, <2>2 DEF FollowInv
  <2> QED BY <1>2, <2>1, <2>3, FollowKeeps DEF OtherRuns, Follows
<1>3. CASE Elsewhere \/ UserSets
  <2>1. selection' = selection /\ fileid' = fileid /\ crossed' = crossed /\ KeepsMeta(notifs, notifs')
    BY <1>0, <1>3, MetaSame DEF Elsewhere, UserSets, pane
  <2>2. selection \in Files \ astray
    BY <1>0, <1>3, <2>1 DEF Elsewhere, UserSets, database, Files
  <2>3. Follows(selection) /\ selection \in FileRow
    BY <1>0, <2>1, <2>2 DEF FollowInv
  <2>4. ops' = ops \/ \E o \in OpOf(Known) : o.op # "request_metadata" /\ ops' = Append(ops, o)
    BY <1>3 DEF Elsewhere, UserSets
  <2> QED BY <2>1, <2>3, <2>4, FollowKeeps DEF Follows
<1>4. ASSUME NEW g \in FileRow, SelectsImage(g) PROVE Follows(selection)'
  <2>1. f = g /\ ops' = Append(ops, op("request_metadata", g)) /\ op("request_metadata", g) \in OpOf(Known) \cup {GetAll}
    BY <1>4 DEF SelectsImage
  <2>2. op("request_metadata", g) \in RequestOf(g)
    BY DEF RequestOf
  <2>3. Final(Append(ops, op("request_metadata", g)), Requests, RequestOf(g))
    BY <1>q, <2>1, <2>2, LastAppend
  <2> QED BY <2>1, <2>3 DEF Follows, Requests, RequestOf
<1>5. ASSUME NEW g \in Known, RunsRequest(g) PROVE Follows(selection)'
  <2>1. /\ selection' = selection /\ fileid' = fileid /\ crossed' = crossed /\ ops # <<>> /\ ops' = Tail(ops)
        /\ Head(ops) = op("request_metadata", g) /\ selection \in Files \ astray
    BY <1>0, <1>5 DEF RunsRequest, Ran, ui, list, pane, history, database, Files
  <2>2. Follows(f) /\ f \in FileRow
    BY <1>0, <2>1 DEF FollowInv
  <2>3. Head(ops) \in Requests
    BY <2>1, KnownRows DEF Requests
  <2>4. ~NoneOf(ops, Requests)
    BY <1>q, <2>1, <2>3, LastTail
  <2>5. Final(ops, Requests, RequestOf(f))
    BY <2>2, <2>4 DEF Follows
  <2>6. Final(Tail(ops), Requests, RequestOf(f)) \/ (Head(ops) \in RequestOf(f) /\ NoneOf(Tail(ops), Requests))
    BY <1>q, <2>1, <2>5, LastTail
  <2>7. CASE Final(Tail(ops), Requests, RequestOf(f))
    BY <2>1, <2>7 DEF Follows, Requests, RequestOf
  <2>8. CASE Head(ops) \in RequestOf(f) /\ NoneOf(Tail(ops), Requests)
    <3>1. g = f
      BY <2>1, <2>8 DEF RequestOf, op
    <3>2. f \in Files /\ notifs' = Append(notifs, QueriedMsg(f, rating[f]))
      BY <1>5, <2>1, <3>1 DEF RunsRequest
    <3>3. QueriedMsg(f, rating[f]) \in QueriedOf(f) /\ QueriedMsg(f, rating[f]) \in NotifOf(Known)
      BY <1>5, <2>2, <3>1, NotifTypes DEF QueriedOf, StateTyped, NiepceTyped, DatabaseTyped
    <3> HIDE DEF f
    <3>4. Final(Append(notifs, QueriedMsg(f, rating[f])), AnyQueried, QueriedOf(f))
      BY <1>q, <3>3, LastAppend
    <3>5. Final(notifs', AnyQueried, QueriedOf(f)) /\ NoneOf(ops', Requests)
      BY <2>1, <2>8, <3>2, <3>4
    <3> USE DEF f
    <3> QED BY <3>5 DEF Follows, AnyQueried, QueriedOf, Requests
  <2> QED BY <2>6, <2>7, <2>8
<1>6. ASSUME NEW g \in Known, NEW v \in Rating, RunsSet(g, v) PROVE Follows(selection)'
  <2>1. /\ selection' = selection /\ fileid' = fileid /\ crossed' = crossed /\ ops # <<>> /\ ops' = Tail(ops)
        /\ Head(ops) = set_rating_op(g, v) /\ selection \in Files \ astray
    BY <1>0, <1>6 DEF RunsSet, Ran, ui, list, pane, history, Files
  <2>2. Follows(f) /\ f \in FileRow
    BY <1>0, <2>1 DEF FollowInv
  <2>3. /\ NoneOf(ops, Requests) => NoneOf(Tail(ops), Requests)
        /\ Final(ops, Requests, RequestOf(f)) => Final(Tail(ops), Requests, RequestOf(f))
    <3>1. Head(ops).op = "set_metadata"
      BY <2>1 DEF set_rating_op
    <3>2. Head(ops) \notin Requests /\ Head(ops) \notin RequestOf(f)
      BY <3>1, NotRequests DEF RequestOf, op
    <3> QED BY <1>q, <2>1, <3>2, LastTail
  <2>4. /\ NoneOf(notifs, AnyQueried) => NoneOf(notifs', AnyQueried)
        /\ Final(notifs, AnyQueried, QueriedOf(f)) => Final(notifs', AnyQueried, QueriedOf(f))
    <3>1. ChangedMsg(g, v) \in NotifOf(Known) /\ ChangedMsg(g, v) \notin AnyQueried
      BY NotifTypes, AnyQueriedMeta
    <3>2. /\ NoneOf(notifs, AnyQueried) => NoneOf(Append(notifs, ChangedMsg(g, v)), AnyQueried)
          /\ Final(notifs, AnyQueried, QueriedOf(f)) => Final(Append(notifs, ChangedMsg(g, v)), AnyQueried, QueriedOf(f))
      BY <1>q, <3>1, LastAppend
    <3>3. notifs' = notifs \/ notifs' = Append(notifs, ChangedMsg(g, v))
      BY <1>6 DEF RunsSet
    <3> QED BY <3>2, <3>3
  <2> QED BY <2>1, <2>2, <2>3, <2>4 DEF Follows, Requests, RequestOf, AnyQueried, QueriedOf
<1>7. ASSUME NEW g \in Known, NEW v \in Value, TellsQueried(g, v) PROVE Follows(selection)'
  <2>1. /\ selection' = selection /\ fileid' = g /\ crossed' = crossed /\ ops' = ops /\ notifs # <<>> /\ notifs' = Tail(notifs)
        /\ Head(notifs) = QueriedMsg(g, v) /\ selection \in Files \ astray
    BY <1>0, <1>7 DEF TellsQueried, Told, list, database, Files
  <2>2. Follows(f) /\ f \in FileRow
    BY <1>0, <2>1 DEF FollowInv
  <2>3. Head(notifs) \in AnyQueried
    BY <2>1, KnownRows DEF AnyQueried
  <2>4. ~NoneOf(notifs, AnyQueried)
    BY <1>q, <2>1, <2>3, LastTail
  <2>5. Final(notifs, AnyQueried, QueriedOf(f)) =>
          Final(Tail(notifs), AnyQueried, QueriedOf(f)) \/ (Head(notifs) \in QueriedOf(f) /\ NoneOf(Tail(notifs), AnyQueried))
    BY <1>q, <2>1, LastTail
  <2>6. Head(notifs) \in QueriedOf(f) => g = f
    BY <1>0, <2>1, MetaKinds
  <2> QED BY <2>1, <2>2, <2>4, <2>5, <2>6 DEF Follows, Requests, RequestOf, AnyQueried, QueriedOf
<1>8. ASSUME NEW g \in Known, NEW v \in Rating, TellsChanged(g, v) PROVE Follows(selection)'
  <2>1. /\ selection' = selection /\ fileid' = fileid /\ notifs # <<>> /\ notifs' = Tail(notifs) /\ Head(notifs) = ChangedMsg(g, v)
        /\ selection \in Files \ astray /\ ~crossed /\ ~(g = fileid /\ g # selection)
        /\ IF g = fileid THEN ops' = Append(ops, op("request_metadata", g)) ELSE UNCHANGED ops
    BY <1>0, <1>8 DEF TellsChanged, Told, pane, database, Files
  <2>2. Follows(f) /\ f \in FileRow
    BY <1>0, <2>1 DEF FollowInv
  <2>3. CASE g = fileid
    <3>1. g = f /\ ops' = Append(ops, op("request_metadata", g)) /\ op("request_metadata", g) \in OpOf(Known) \cup {GetAll}
      BY <2>1, <2>3, OpTypes
    <3>2. op("request_metadata", g) \in RequestOf(g)
      BY DEF RequestOf
    <3>3. Final(Append(ops, op("request_metadata", g)), Requests, RequestOf(g))
      BY <1>q, <3>1, <3>2, LastAppend
    <3> QED BY <3>1, <3>3 DEF Follows, Requests, RequestOf
  <2>4. CASE g # fileid
    <3>1. Head(notifs) \notin AnyQueried /\ Head(notifs) \notin QueriedOf(f)
      BY <2>1, <2>2, AnyQueriedMeta
    <3>2. /\ NoneOf(notifs, AnyQueried) => NoneOf(Tail(notifs), AnyQueried)
          /\ Final(notifs, AnyQueried, QueriedOf(f)) => Final(Tail(notifs), AnyQueried, QueriedOf(f))
      BY <1>q, <2>1, <3>1, LastTail
    <3> QED BY <2>1, <2>2, <2>4, <3>2 DEF Follows, Requests, RequestOf, AnyQueried, QueriedOf
  <2> QED BY <2>3, <2>4
<1> QED BY <1>1, <1>2, <1>3, <1>4, <1>5, <1>6, <1>7, <1>8, FileSteps

\* Once everything asked for is done, the pane displays the image selected,
\* unless a change of the image displayed before was told in between.
THEOREM NiepcePaneFollowsSelection == Spec => []PaneFollowsSelection
<1>1. Init => StateTyped /\ FollowInv
  <2>1. Init => selection = 0
    BY DEF Init
  <2>2. 0 \notin Files
    BY NiepceConstants DEF Files
  <2> QED BY <2>1, <2>2, InitTyped DEF StateTyped, FollowInv
<1>2. StateTyped /\ FollowInv /\ [Next]_vars => (StateTyped /\ FollowInv)'
  BY StateTypedStep, FollowStep
<1>3. FollowInv => PaneFollowsSelection
  BY LastNothing DEF FollowInv, Follows, PaneFollowsSelection, Quiet
<1> QED BY <1>1, <1>2, <1>3, PTL DEF Spec

-----------------------------------------------------------------------------
(* Undo is exact.                                                          *)

Sets(f) == {set_rating_op(f, v) : v \in Rating}

\* The rating of f once the operations q are done, when it is r now.
LatestOf(q, f, r) ==
  LET last == SelectLastInSeq(q, LAMBDA o : o.op = "set_metadata" /\ o.id = f)
  IN  IF last = 0 THEN r ELSE q[last].value
LastSet(q, f, r, v) == (NoneOf(q, Sets(f)) /\ v = r) \/ (v \in Rating /\ Final(q, Sets(f), {set_rating_op(f, v)}))

LEMMA LatestIsOf == \A f : Latest(f) = LatestOf(ops, f, rating[f])
  BY DEF Latest, LatestOf

LEMMA LatestFound ==
  ASSUME NEW K, NEW q \in Seq(OpOf(K) \cup {GetAll}), NEW f \in K, NEW r
  PROVE  LastSet(q, f, r, LatestOf(q, f, r))
<1> DEFINE Is(o) == o.op = "set_metadata" /\ o.id = f
           m == SelectLastInSeq(q, Is)
           Found == {i \in 1..Len(q) : Is(q[i])}
<1>1. Len(q) \in Nat /\ DOMAIN q = 1..Len(q) /\ \A i \in 1..Len(q) : q[i] \in OpOf(K) \cup {GetAll}
  OBVIOUS
<1>2. m = IF Found # {} THEN Max(Found) ELSE 0
  BY DEF SelectLastInSeq
<1>3. \A o \in OpOf(K) \cup {GetAll} : /\ Is(o) => o.value \in Rating /\ o = set_rating_op(f, o.value)
                                       /\ ~Is(o) => o \notin Sets(f)
  <2>1. \A o \in OpOf(K) \cup {GetAll} : Is(o) => o.value \in Rating /\ o = set_rating_op(f, o.value)
    BY OpKinds
  <2>2. \A o \in Sets(f) : Is(o)
    BY DEF Sets, set_rating_op
  <2> QED BY <2>1, <2>2
<1>4. LatestOf(q, f, r) = IF m = 0 THEN r ELSE q[m].value
  BY DEF LatestOf
<1>5. CASE Found = {}
  <2>1. m = 0
    BY <1>2, <1>5
  <2>2. \A i \in DOMAIN q : q[i] \notin Sets(f)
    <3> SUFFICES ASSUME NEW i \in DOMAIN q PROVE q[i] \notin Sets(f)
      OBVIOUS
    <3>1. i \in 1..Len(q) /\ i \notin Found
      BY <1>1, <1>5
    <3>2. ~Is(q[i])
      BY <3>1
    <3> HIDE DEF Is
    <3> QED BY <1>1, <1>3, <3>1, <3>2
  <2> HIDE DEF m
  <2> QED BY <1>4, <2>1, <2>2 DEF LastSet, NoneOf
<1>6. CASE Found # {}
  <2>1. m \in Found /\ \A y \in Found : m >= y
    <3>1. Found \subseteq 0..Len(q)
      BY <1>1
    <3> HIDE DEF m, Found
    <3> QED BY <1>1, <1>2, <1>6, <3>1, GreatestNat
  <2>2. m \in DOMAIN q /\ m # 0 /\ Is(q[m])
    <3> HIDE DEF m
    <3> QED BY <1>1, <2>1
  <2>3. \A j \in DOMAIN q : m < j => q[j] \notin Sets(f)
    <3> SUFFICES ASSUME NEW j \in DOMAIN q, m < j PROVE q[j] \notin Sets(f)
      OBVIOUS
    <3>1. j \in 1..Len(q) /\ m \in 1..Len(q)
      BY <1>1, <2>2
    <3> HIDE DEF m
    <3>2. ~(m >= j)
      BY <1>1, <3>1
    <3>3. ~Is(q[j])
      BY <2>1, <3>1, <3>2
    <3> HIDE DEF Is
    <3> QED BY <1>1, <1>3, <3>1, <3>3
  <2> HIDE DEF m, Found
  <2>4. q[m].value \in Rating /\ q[m] = set_rating_op(f, q[m].value)
    BY <1>1, <1>3, <2>2
  <2>5. LatestOf(q, f, r) = q[m].value
    BY <1>4, <2>2
  <2>6. Final(q, Sets(f), {set_rating_op(f, q[m].value)})
    BY <2>2, <2>3, <2>4 DEF Final
  <2> QED BY <2>4, <2>5, <2>6 DEF LastSet
<1> QED BY <1>5, <1>6

LEMMA LastSetOnce ==
  ASSUME NEW S, NEW q \in Seq(S), NEW f, NEW r, NEW v, NEW w, LastSet(q, f, r, v), LastSet(q, f, r, w)
  PROVE  v = w
<1>1. \A u \in Rating : set_rating_op(f, u) \in Sets(f) /\ set_rating_op(f, u).value = u
  BY DEF Sets, set_rating_op
<1>2. DOMAIN q \subseteq Nat
  OBVIOUS
<1>3. CASE NoneOf(q, Sets(f))
  <2>1. \A u \in Rating : ~Final(q, Sets(f), {set_rating_op(f, u)})
    BY <1>1, <1>3 DEF NoneOf, Final
  <2> QED BY <2>1 DEF LastSet
<1>4. CASE ~NoneOf(q, Sets(f))
  <2>1. v \in Rating /\ w \in Rating /\ Final(q, Sets(f), {set_rating_op(f, v)}) /\ Final(q, Sets(f), {set_rating_op(f, w)})
    BY <1>4 DEF LastSet
  <2>2. PICK i \in DOMAIN q : q[i] = set_rating_op(f, v) /\ \A j \in DOMAIN q : i < j => q[j] \notin Sets(f)
    BY <2>1 DEF Final
  <2>3. PICK k \in DOMAIN q : q[k] = set_rating_op(f, w) /\ \A j \in DOMAIN q : k < j => q[j] \notin Sets(f)
    BY <2>1 DEF Final
  <2>4. ~(i < k) /\ ~(k < i)
    BY <1>1, <2>1, <2>2, <2>3
  <2>5. i = k
    BY <1>2, <2>4
  <2> QED BY <1>1, <2>1, <2>2, <2>3, <2>5
<1> QED BY <1>3, <1>4

\* The latest rating is the one last set.
LEMMA LatestIs ==
  ASSUME NEW K, NEW q \in Seq(OpOf(K) \cup {GetAll}), NEW f \in K, NEW r, NEW v
  PROVE  LastSet(q, f, r, v) <=> v = LatestOf(q, f, r)
<1> DEFINE S == OpOf(K) \cup {GetAll}
           L == LatestOf(q, f, r)
<1>1. LastSet(q, f, r, L) /\ q \in Seq(S)
  BY LatestFound
<1> HIDE DEF S, L
<1>2. LastSet(q, f, r, v) => v = L
  BY <1>1, LastSetOnce
<1> QED BY <1>1, <1>2 DEF L

\* An operation that does not set the rating of f leaves it; one that does is the latest.
LEMMA LatestAppend ==
  ASSUME NEW K, NEW q \in Seq(OpOf(K) \cup {GetAll}), NEW f \in K, NEW r, NEW o \in OpOf(K)
  PROVE  /\ o \notin Sets(f) => LatestOf(Append(q, o), f, r) = LatestOf(q, f, r)
         /\ \A v \in Rating : o = set_rating_op(f, v) => LatestOf(Append(q, o), f, r) = v
<1> DEFINE L == LatestOf(q, f, r)
<1>1. LastSet(q, f, r, L) /\ o \in OpOf(K) \cup {GetAll} /\ Append(q, o) \in Seq(OpOf(K) \cup {GetAll})
  BY LatestFound
<1> HIDE DEF L
<1>2. ASSUME o \notin Sets(f) PROVE LatestOf(Append(q, o), f, r) = L
  <2>1. /\ NoneOf(q, Sets(f)) => NoneOf(Append(q, o), Sets(f))
        /\ \A U : Final(q, Sets(f), U) => Final(Append(q, o), Sets(f), U)
    BY <1>1, <1>2, LastAppend
  <2>2. LastSet(Append(q, o), f, r, L)
    BY <1>1, <2>1 DEF LastSet
  <2> DEFINE p == Append(q, o)
  <2>3. p \in Seq(OpOf(K) \cup {GetAll}) /\ LastSet(p, f, r, L)
    BY <1>1, <2>2
  <2> HIDE DEF p
  <2>4. L = LatestOf(p, f, r)
    BY <2>3, LatestIs
  <2> QED BY <2>4 DEF p
<1>3. ASSUME NEW v \in Rating, o = set_rating_op(f, v) PROVE LatestOf(Append(q, o), f, r) = v
  <2>1. o \in {set_rating_op(f, v)}
    BY <1>3
  <2>2. Final(Append(q, o), Sets(f), {set_rating_op(f, v)})
    BY <1>1, <2>1, LastAppend
  <2>3. LastSet(Append(q, o), f, r, v)
    BY <2>2 DEF LastSet
  <2> DEFINE p == Append(q, o)
  <2>4. p \in Seq(OpOf(K) \cup {GetAll}) /\ LastSet(p, f, r, v)
    BY <1>1, <2>3
  <2> HIDE DEF p
  <2>5. v = LatestOf(p, f, r)
    BY <2>4, LatestIs
  <2> QED BY <2>5 DEF p
<1> QED BY <1>2, <1>3 DEF L

\* Nothing changes when the first operation runs.
LEMMA LatestTail ==
  ASSUME NEW K, NEW q \in Seq(OpOf(K) \cup {GetAll}), q # <<>>, NEW f \in K, NEW r
  PROVE  /\ Head(q) \notin Sets(f) => LatestOf(Tail(q), f, r) = LatestOf(q, f, r)
         /\ \A v \in Rating : Head(q) = set_rating_op(f, v) => LatestOf(Tail(q), f, v) = LatestOf(q, f, r)
<1> DEFINE L == LatestOf(q, f, r)
<1>1. LastSet(q, f, r, L) /\ Tail(q) \in Seq(OpOf(K) \cup {GetAll})
  BY LatestIs
<1> HIDE DEF L
<1>2. \A u : /\ NoneOf(q, Sets(f)) <=> NoneOf(Tail(q), Sets(f)) /\ Head(q) \notin Sets(f)
             /\ Final(q, Sets(f), {set_rating_op(f, u)}) =>
                  Final(Tail(q), Sets(f), {set_rating_op(f, u)}) \/ (Head(q) \in {set_rating_op(f, u)} /\ NoneOf(Tail(q), Sets(f)))
  BY LastTail
<1>3. ASSUME Head(q) \notin Sets(f) PROVE LatestOf(Tail(q), f, r) = L
  <2>1. L \in Rating => Head(q) \notin {set_rating_op(f, L)}
    BY <1>3 DEF Sets
  <2>2. LastSet(Tail(q), f, r, L)
    BY <1>1, <1>2, <1>3, <2>1 DEF LastSet
  <2> QED BY <1>1, <2>2, LatestIs
<1>4. ASSUME NEW v \in Rating, Head(q) = set_rating_op(f, v) PROVE LatestOf(Tail(q), f, v) = L
  <2>1. Head(q) \in Sets(f)
    BY <1>4 DEF Sets
  <2>2. L \in Rating /\ Final(q, Sets(f), {set_rating_op(f, L)})
    BY <1>1, <1>2, <2>1 DEF LastSet
  <2>3. Final(Tail(q), Sets(f), {set_rating_op(f, L)}) \/ (set_rating_op(f, v) = set_rating_op(f, L) /\ NoneOf(Tail(q), Sets(f)))
    BY <1>2, <1>4, <2>2
  <2>4. set_rating_op(f, v) = set_rating_op(f, L) => v = L
    BY DEF set_rating_op
  <2>5. LastSet(Tail(q), f, v, L)
    BY <2>2, <2>3, <2>4 DEF LastSet
  <2> QED BY <1>1, <2>5, LatestIs
<1> QED BY <1>3, <1>4 DEF L

LEMMA NotSets ==
  /\ \A o, f : o.op # "set_metadata" => o \notin Sets(f)
  /\ \A f, g, v : g # f => set_rating_op(g, v) \notin Sets(f)
<1>1. \A f : \A o \in Sets(f) : o.op = "set_metadata" /\ o.id = f
  BY DEF Sets, set_rating_op
<1>2. \A g, v : set_rating_op(g, v).id = g
  BY DEF set_rating_op
<1> QED BY <1>1, <1>2

\* Of a file that stays, the latest rating changes only when it is edited.
LatestKept == \A f \in (Files \ astray)' : (f \in Files \ astray /\ Latest(f)' = Latest(f)) \/ f \notin Known

LEMMA LatestStep ==
  ASSUME StateTyped, [Next]_vars
  PROVE  \/ Restart
         \/ LatestKept /\ UNCHANGED undo_history
         \/ UserSets /\ ((\E r \in Rating : set_properties(r)) \/ undo \/ redo) /\ ~Restart
<1> DEFINE T == OpOf(Known) \cup {GetAll}
<1>0. ops \in Seq(OpOf(Known) \cup {GetAll}) /\ Files \subseteq Known
  BY NotifsTyped DEF Known
<1>l. \A f : Latest(f) = LatestOf(ops, f, rating[f]) /\ Latest(f)' = LatestOf(ops', f, rating'[f])
  BY DEF Latest, LatestOf, SelectLastInSeq
<1>1. ASSUME OtherRuns PROVE LatestKept /\ UNCHANGED undo_history
  <2> SUFFICES ASSUME NEW f \in (Files \ astray)', f \in Files \ astray, rating'[f] = rating[f] PROVE Latest(f)' = Latest(f)
    BY <1>1 DEF LatestKept, OtherRuns, FilesKept, ui, undo_history
  <2>1. ops # <<>> /\ ops' = Tail(ops) /\ Head(ops) \notin Sets(f)
    BY <1>1, NotSets DEF OtherRuns
  <2>2. LatestOf(Tail(ops), f, rating[f]) = LatestOf(ops, f, rating[f])
    BY <1>0, <2>1, LatestTail
  <2> QED BY <1>l, <2>1, <2>2
<1>2. ASSUME Elsewhere \/ \E f \in FileRow : SelectsImage(f) PROVE LatestKept /\ UNCHANGED undo_history
  <2> SUFFICES ASSUME NEW f \in (Files \ astray)' PROVE f \in Files \ astray /\ Latest(f)' = Latest(f)
    BY <1>2 DEF LatestKept, Elsewhere, SelectsImage
  <2>1. f \in Files \ astray /\ rating' = rating
    BY <1>2 DEF Elsewhere, SelectsImage, database, Files
  <2>2. ops' = ops \/ \E o \in OpOf(Known) : o.op # "set_metadata" /\ ops' = Append(ops, o)
    BY <1>2 DEF Elsewhere, SelectsImage, op
  <2>3. ASSUME NEW o \in OpOf(Known), o.op # "set_metadata", ops' = Append(ops, o) PROVE Latest(f)' = Latest(f)
    <3>1. o \notin Sets(f)
      BY <2>3, NotSets
    <3>2. LatestOf(Append(ops, o), f, rating[f]) = LatestOf(ops, f, rating[f])
      BY <1>0, <2>1, <3>1, LatestAppend
    <3> QED BY <1>l, <2>1, <2>3, <3>2
  <2> QED BY <1>l, <2>1, <2>2, <2>3
<1>3. ASSUME NEW g \in Known, RunsRequest(g) PROVE LatestKept /\ UNCHANGED undo_history
  <2> SUFFICES ASSUME NEW f \in (Files \ astray)' PROVE f \in Files \ astray /\ Latest(f)' = Latest(f)
    BY <1>3 DEF LatestKept, RunsRequest, Ran, ui, undo_history
  <2>1. f \in Files \ astray /\ rating' = rating /\ ops # <<>> /\ ops' = Tail(ops) /\ Head(ops) = op("request_metadata", g)
    BY <1>3 DEF RunsRequest, Ran, database, history, Files
  <2>2. Head(ops).op # "set_metadata"
    BY <2>1 DEF op
  <2>3. Head(ops) \notin Sets(f)
    BY <2>2, NotSets
  <2>4. LatestOf(Tail(ops), f, rating[f]) = LatestOf(ops, f, rating[f])
    BY <1>0, <2>1, <2>3, LatestTail
  <2> QED BY <1>l, <2>1, <2>4
<1>4. ASSUME NEW g \in Known, NEW v \in Rating, RunsSet(g, v) PROVE LatestKept /\ UNCHANGED undo_history
  <2> SUFFICES ASSUME NEW f \in (Files \ astray)' PROVE f \in Files \ astray /\ Latest(f)' = Latest(f)
    BY <1>4 DEF LatestKept, RunsSet, Ran, ui, undo_history
  <2>1. f \in Files \ astray /\ ops # <<>> /\ ops' = Tail(ops) /\ Head(ops) = set_rating_op(g, v)
    BY <1>4 DEF RunsSet, Ran, history, Files
  <2>2. rating \in [FileRow -> Value] /\ f \in FileRow
    BY <2>1 DEF StateTyped, NiepceTyped, DatabaseTyped, Files
  <2>3. CASE g = f
    <3>1. rating'[f] = v
      BY <1>4, <2>1, <2>2, <2>3 DEF RunsSet
    <3>2. LatestOf(Tail(ops), f, v) = LatestOf(ops, f, rating[f])
      BY <1>0, <2>1, <2>3, LatestTail
    <3> QED BY <1>l, <2>1, <3>1, <3>2
  <2>4. CASE g # f
    <3>1. rating'[f] = rating[f]
      BY <1>4, <2>2, <2>4 DEF RunsSet
    <3>2. Head(ops) \notin Sets(f)
      BY <2>1, <2>4, NotSets
    <3>3. LatestOf(Tail(ops), f, rating[f]) = LatestOf(ops, f, rating[f])
      BY <1>0, <2>1, <3>2, LatestTail
    <3> QED BY <1>l, <2>1, <3>1, <3>3
  <2> QED BY <2>3, <2>4
<1>5. ASSUME NEW g \in Known, (\E v \in Value : TellsQueried(g, v)) \/ (\E v \in Rating : TellsChanged(g, v))
      PROVE  LatestKept /\ UNCHANGED undo_history
  <2> SUFFICES ASSUME NEW f \in (Files \ astray)' PROVE f \in Files \ astray /\ Latest(f)' = Latest(f)
    BY <1>5 DEF LatestKept, TellsQueried, TellsChanged, Told
  <2>1. f \in Files \ astray /\ rating' = rating
    BY <1>5 DEF TellsQueried, TellsChanged, Told, database, Files
  <2>2. ops' = ops \/ ops' = Append(ops, op("request_metadata", g))
    BY <1>5 DEF TellsQueried, TellsChanged
  <2>3. CASE ops' = Append(ops, op("request_metadata", g))
    <3>1. op("request_metadata", g) \in OpOf(Known) /\ op("request_metadata", g).op = "request_metadata"
      BY OpTypes DEF op
    <3>2. op("request_metadata", g) \notin Sets(f)
      BY <3>1, NotSets
    <3>3. LatestOf(Append(ops, op("request_metadata", g)), f, rating[f]) = LatestOf(ops, f, rating[f])
      BY <1>0, <2>1, <3>1, <3>2, LatestAppend
    <3> QED BY <1>l, <2>1, <2>3, <3>3
  <2> QED BY <1>l, <2>1, <2>2, <2>3
<1> DEFINE Kept == LatestKept /\ UNCHANGED undo_history
<1>6. ASSUME NEW g \in Known, RunsRequest(g) \/ (\E v \in Rating : RunsSet(g, v))
                             \/ (\E v \in Value : TellsQueried(g, v)) \/ (\E v \in Rating : TellsChanged(g, v))
      PROVE  Kept
  BY <1>3, <1>4, <1>5, <1>6
<1>7. (OtherRuns => Kept) /\ (Elsewhere => Kept) /\ ((\E f \in FileRow : SelectsImage(f)) => Kept)
  BY <1>1, <1>2
<1> HIDE DEF Kept
<1>8. (\E f \in Known : RunsRequest(f) \/ (\E v \in Rating : RunsSet(f, v))
                         \/ (\E v \in Value : TellsQueried(f, v)) \/ (\E v \in Rating : TellsChanged(f, v))) => Kept
  BY <1>6
<1> QED BY <1>7, <1>8, FileSteps DEF Kept

AnyTrans == TransOf(FileRow \cup {0})
UndoWalk(f) == [t \in AnyTrans |-> IF t.file = f THEN {<<t.new, t.old>>} ELSE {<<v, v>> : v \in Value}]
RedoWalk(f) == [t \in AnyTrans |-> IF t.file = f THEN {<<t.old, t.new>>} ELSE {<<v, v>> : v \in Value}]

\* The transactions to undo lead back from the latest rating, each from what
\* it set to what was there before; those to redo lead on from it.
Leads(f, us, rs, v) == (\E z : Walks(UndoWalk(f), us, v, z)) /\ \E z : Walks(RedoWalk(f), rs, v, z)

UndoInv == \A f \in Files \ astray : Leads(f, undos, redos, Latest(f))

LEMMA LatestValue ==
  ASSUME NEW K, NEW q \in Seq(OpOf(K) \cup {GetAll}), NEW f \in K, NEW r \in Value
  PROVE  LatestOf(q, f, r) \in Value
  BY LatestFound, NiepceConstants DEF LastSet

LEMMA HistoryTyped ==
  ASSUME StateTyped PROVE undos \in Seq(AnyTrans) /\ redos \in Seq(AnyTrans) /\ TransOf(Known) \subseteq AnyTrans
<1>1. TransOf(Known) \subseteq AnyTrans
  BY KnownRows, Grows DEF AnyTrans
<1>2. undos \in Seq(TransOf(Known)) /\ redos \in Seq(TransOf(Known))
  BY DEF StateTyped, NiepceTyped, ShownTyped
<1> QED BY <1>1, <1>2, SeqGrows

LEMMA Steps ==
  ASSUME NEW t \in AnyTrans, NEW f, NEW v \in Value
  PROVE  /\ t.file # f => <<v, v>> \in UndoWalk(f)[t] /\ <<v, v>> \in RedoWalk(f)[t]
         /\ t.file = f => <<t.new, t.old>> \in UndoWalk(f)[t] /\ <<t.old, t.new>> \in RedoWalk(f)[t]
         /\ t.file = f => (\A x, y : /\ <<x, y>> \in UndoWalk(f)[t] => x = t.new /\ y = t.old
                                     /\ <<x, y>> \in RedoWalk(f)[t] => x = t.old /\ y = t.new)
         /\ t.file # f => \A x, y : <<x, y>> \in UndoWalk(f)[t] \/ <<x, y>> \in RedoWalk(f)[t] => x = y
  BY DEF UndoWalk, RedoWalk

\* The first transaction of a file.
LEMMA FirstFound ==
  ASSUME NEW s \in Seq(AnyTrans), NEW f, SelectInSeq(s, LAMBDA t : t.file = f) # 0
  PROVE  LET m == SelectInSeq(s, LAMBDA t : t.file = f)
         IN  m \in 1..Len(s) /\ s[m].file = f /\ \A i \in 1..(m - 1) : s[i].file # f
<1> DEFINE Found == {i \in 1..Len(s) : s[i].file = f}
           m == SelectInSeq(s, LAMBDA t : t.file = f)
<1>1. m = IF Found # {} THEN Min(Found) ELSE 0
  BY DEF SelectInSeq
<1>2. Found # {} /\ m = Min(Found)
  BY <1>1
<1>3. Found \subseteq Nat /\ Len(s) \in Nat
  OBVIOUS
<1>4. Min(Found) \in Found /\ \A y \in Found : Min(Found) <= y
  <2> HIDE DEF Found
  <2>1. \E x \in Found : \A y \in Found : x <= y
    BY <1>2, <1>3, LeastNat
  <2> QED BY <2>1 DEF Min
<1> HIDE DEF m
<1>5. m \in 1..Len(s) /\ s[m].file = f
  BY <1>2, <1>4
<1>6. ASSUME NEW i \in 1..(m - 1), s[i].file = f PROVE FALSE
  <2>1. i \in 1..Len(s) /\ i < m
    BY <1>3, <1>5
  <2>2. i \in Found
    BY <1>6, <2>1
  <2>3. m <= i
    <3> HIDE DEF Found
    <3> QED BY <1>2, <1>4, <2>2
  <2> QED BY <1>5, <2>1, <2>3
<1> QED BY <1>5, <1>6 DEF m

\* Transactions on other files lead nowhere.
LEMMA LeadsNowhere ==
  ASSUME NEW f, NEW us \in Seq(AnyTrans), NEW rs \in Seq(AnyTrans), NEW v \in Value,
         \A i \in DOMAIN us : us[i].file # f, \A i \in DOMAIN rs : rs[i].file # f
  PROVE  Leads(f, us, rs, v)
<1>1. (\A i \in DOMAIN us : us[i] \in AnyTrans) /\ \A i \in DOMAIN rs : rs[i] \in AnyTrans
  OBVIOUS
<1>2. \A i \in DOMAIN us : <<v, v>> \in UndoWalk(f)[us[i]]
  BY <1>1, Steps
<1>3. \A i \in DOMAIN rs : <<v, v>> \in RedoWalk(f)[rs[i]]
  BY <1>1, Steps
<1>4. Walks(UndoWalk(f), us, v, v)
  BY <1>2, WalksStill
<1>5. Walks(RedoWalk(f), rs, v, v)
  BY <1>3, WalksStill
<1> QED BY <1>4, <1>5 DEF Leads

LEMMA LatestSets ==
  ASSUME StateTyped, NEW g \in Known, NEW r \in Rating, ops' = Append(ops, set_rating_op(g, r)), UNCHANGED database, NEW f \in Known
  PROVE  Latest(f)' = IF f = g THEN r ELSE Latest(f)
<1>1. Latest(f) = LatestOf(ops, f, rating[f]) /\ Latest(f)' = LatestOf(ops', f, rating[f])
  BY DEF Latest, LatestOf, SelectLastInSeq, database
<1>2. ops \in Seq(OpOf(Known) \cup {GetAll}) /\ set_rating_op(g, r) \in OpOf(Known)
  BY NotifsTyped, OpTypes
<1>3. f # g => set_rating_op(g, r) \notin Sets(f)
  BY NotSets
<1>4. /\ f # g => LatestOf(Append(ops, set_rating_op(g, r)), f, rating[f]) = LatestOf(ops, f, rating[f])
      /\ f = g => LatestOf(Append(ops, set_rating_op(g, r)), f, rating[f]) = r
  BY <1>2, <1>3, LatestAppend
<1> QED BY <1>1, <1>4

LEMMA UndoStep ==
  ASSUME StateTyped, StateTyped', UndoInv, [Next]_vars PROVE UndoInv'
<1> SUFFICES ASSUME NEW f \in (Files \ astray)' PROVE Leads(f, undos', redos', Latest(f)')
  BY DEF UndoInv, Leads, UndoWalk, RedoWalk
<1>0. f \in FileRow /\ f \in Known' /\ Latest(f)' \in Value
  <2>1. f \in FileRow /\ f \in Known'
    BY DEF Files, Known
  <2>2. ops' \in Seq(OpOf(Known') \cup {GetAll}) /\ rating'[f] \in Value
    BY <2>1 DEF StateTyped, NiepceTyped, QueuesTyped, DatabaseTyped, OpOf
  <2>3. LatestOf(ops', f, rating'[f]) \in Value
    BY <2>1, <2>2, LatestValue
  <2>4. Latest(f)' = LatestOf(ops', f, rating'[f])
    BY DEF Latest, LatestOf, SelectLastInSeq
  <2> QED BY <2>1, <2>3, <2>4
<1>h. undos \in Seq(AnyTrans) /\ redos \in Seq(AnyTrans) /\ TransOf(Known) \subseteq AnyTrans
  BY HistoryTyped
<1>t. undos \in Seq(TransOf(Known)) /\ redos \in Seq(TransOf(Known))
  BY DEF StateTyped, NiepceTyped, ShownTyped
<1>1. CASE Restart
  <2>1. undos' = <<>> /\ redos' = <<>> /\ <<>> \in Seq(AnyTrans) /\ DOMAIN <<>> = {}
    BY <1>1 DEF Restart
  <2> QED BY <1>0, <2>1, LeadsNowhere
<1>2. CASE LatestKept /\ UNCHANGED undo_history
  <2>1. LatestKept /\ undos' = undos /\ redos' = redos
    BY <1>2 DEF undo_history
  <2>2. CASE f \in Files \ astray /\ Latest(f)' = Latest(f)
    BY <2>1, <2>2 DEF UndoInv
  <2>3. CASE f \notin Known
    <3>1. \A i \in DOMAIN undos : undos[i] \in TransOf(Known)
      BY <1>t
    <3>2. \A i \in DOMAIN redos : redos[i] \in TransOf(Known)
      BY <1>t
    <3>3. \A t \in TransOf(Known) : t.file \in Known
      BY DEF TransOf
    <3>4. (\A i \in DOMAIN undos : undos[i].file # f) /\ \A i \in DOMAIN redos : redos[i].file # f
      BY <2>3, <3>1, <3>2, <3>3
    <3> QED BY <1>0, <1>h, <2>1, <3>4, LeadsNowhere
  <2> QED BY <2>1, <2>2, <2>3 DEF LatestKept
<1>3. CASE UserSets /\ ((\E r \in Rating : set_properties(r)) \/ undo \/ redo) /\ ~Restart
  <2>0. f \in Files \ astray /\ f \in Known /\ UNCHANGED database
    BY <1>3 DEF UserSets, database, Files, Known
  <2> DEFINE L == Latest(f)
  <2>1. (\E z : Walks(UndoWalk(f), undos, L, z)) /\ \E z : Walks(RedoWalk(f), redos, L, z)
    BY <2>0 DEF UndoInv, Leads
  <2>v. L \in Value
    <3>1. ops \in Seq(OpOf(Known) \cup {GetAll}) /\ rating[f] \in Value
      BY <1>0, NotifsTyped DEF StateTyped, NiepceTyped, DatabaseTyped
    <3>2. LatestOf(ops, f, rating[f]) \in Value
      BY <2>0, <3>1, LatestValue
    <3> QED BY <3>2, LatestIsOf
  <2>2. ASSUME NEW r \in Rating, set_properties(r) PROVE Leads(f, undos', redos', Latest(f)')
    <3> DEFINE t == [file |-> selection, old |-> current_data, new |-> r]
    <3>1. t \in TransOf(Known) /\ t.file = selection /\ t.old = current_data /\ t.new = r
      BY ShownNow DEF TransOf
    <3>2. undos' = <<t>> \o undos /\ redos' = <<>> /\ ops' = Append(ops, set_rating_op(selection, r))
      BY <2>2 DEF set_properties, schedule_op
    <3>3. Latest(f)' = IF f = selection THEN r ELSE L
      BY <2>0, <3>2, ShownNow, LatestSets
    <3>4. f = selection => current_data = L
      BY <1>0, <2>2, NiepceConstants DEF set_properties, Files
    <3>5. t \in AnyTrans
      BY <1>h, <3>1
    <3>6. <<Latest(f)', L>> \in UndoWalk(f)[t]
      BY <2>v, <3>1, <3>3, <3>4, <3>5, Steps
    <3> HIDE DEF t, L
    <3>7. PICK z : Walks(UndoWalk(f), undos, L, z)
      BY <2>1
    <3>8. Walks(UndoWalk(f), <<t>> \o undos, Latest(f)', z)
      BY <1>h, <3>5, <3>6, <3>7, WalksCons
    <3>9. Walks(RedoWalk(f), <<>>, Latest(f)', Latest(f)')
      BY WalksNowhere
    <3> QED BY <3>2, <3>8, <3>9 DEF Leads
  <2>3. CASE undo
    <3> DEFINE t == Head(undos)
    <3>1. undos # <<>> /\ t.old # Absent /\ ops' = Append(ops, set_rating_op(t.file, t.old)) /\ undos' = Tail(undos) /\ redos' = <<t>> \o redos
      BY <1>3, <2>3 DEF undo, schedule_op
    <3>2. t \in TransOf(Known)
      BY <1>t, <3>1
    <3>3. t.file \in Known /\ t.old \in Rating /\ t \in AnyTrans
      BY <1>h, <3>1, <3>2, NiepceConstants DEF TransOf
    <3>4. Latest(f)' = IF f = t.file THEN t.old ELSE L
      BY <2>0, <3>1, <3>3, LatestSets
    <3> HIDE DEF t, L
    <3>5. PICK z : Walks(UndoWalk(f), undos, L, z)
      BY <2>1
    <3>6. PICK y : <<L, y>> \in UndoWalk(f)[t] /\ Walks(UndoWalk(f), Tail(undos), y, z)
      BY <1>h, <3>1, <3>5, WalksTail DEF t
    <3>7. y = Latest(f)' /\ (t.file = f => L = t.new)
      BY <2>v, <3>3, <3>4, <3>6, Steps
    <3>8. <<Latest(f)', L>> \in RedoWalk(f)[t]
      BY <2>v, <3>3, <3>4, <3>7, Steps
    <3>9. PICK x : Walks(RedoWalk(f), redos, L, x)
      BY <2>1
    <3>10. Walks(RedoWalk(f), <<t>> \o redos, Latest(f)', x)
      BY <1>h, <3>3, <3>8, <3>9, WalksCons
    <3> QED BY <3>1, <3>6, <3>7, <3>10 DEF Leads, t
  <2>4. CASE redo
    <3> DEFINE t == Head(redos)
    <3>1. redos # <<>> /\ ops' = Append(ops, set_rating_op(t.file, t.new)) /\ redos' = Tail(redos) /\ undos' = <<t>> \o undos
      BY <2>4 DEF redo, schedule_op
    <3>2. t \in TransOf(Known)
      BY <1>t, <3>1
    <3>3. t.file \in Known /\ t.new \in Rating /\ t \in AnyTrans
      BY <1>h, <3>1, <3>2 DEF TransOf
    <3>4. Latest(f)' = IF f = t.file THEN t.new ELSE L
      BY <2>0, <3>1, <3>3, LatestSets
    <3> HIDE DEF t, L
    <3>5. PICK z : Walks(RedoWalk(f), redos, L, z)
      BY <2>1
    <3>6. PICK y : <<L, y>> \in RedoWalk(f)[t] /\ Walks(RedoWalk(f), Tail(redos), y, z)
      BY <1>h, <3>1, <3>5, WalksTail DEF t
    <3>7. y = Latest(f)' /\ (t.file = f => L = t.old)
      BY <2>v, <3>3, <3>4, <3>6, Steps
    <3>8. <<Latest(f)', L>> \in UndoWalk(f)[t]
      BY <2>v, <3>3, <3>4, <3>7, Steps
    <3>9. PICK x : Walks(UndoWalk(f), undos, L, x)
      BY <2>1
    <3>10. Walks(UndoWalk(f), <<t>> \o undos, Latest(f)', x)
      BY <1>h, <3>3, <3>8, <3>9, WalksCons
    <3> QED BY <3>1, <3>6, <3>7, <3>10 DEF Leads, t
  <2> QED BY <1>3, <2>2, <2>3, <2>4
<1> QED BY <1>1, <1>2, <1>3, LatestStep

LEMMA UndoProperty == StateTyped /\ UndoInv => UndoIsExact
<1> SUFFICES ASSUME StateTyped, UndoInv, Quiet, NEW f \in Files \ astray
             PROVE  LET done == SelectInSeq(undos, LAMBDA t : t.file = f)
                        undone == SelectInSeq(redos, LAMBDA t : t.file = f)
                    IN  IF done # 0 THEN rating[f] = undos[done].new
                        ELSE undone # 0 => rating[f] = redos[undone].old
  BY DEF UndoIsExact
<1> DEFINE Is(t) == t.file = f
           done == SelectInSeq(undos, Is)
           undone == SelectInSeq(redos, Is)
<1>1. undos \in Seq(AnyTrans) /\ redos \in Seq(AnyTrans)
  BY HistoryTyped
<1>2. Latest(f) = rating[f]
  <2>1. ops = <<>> /\ f \in Known /\ ops \in Seq(OpOf(Known) \cup {GetAll})
    BY NotifsTyped DEF Quiet, Known
  <2>2. LastSet(ops, f, rating[f], LatestOf(ops, f, rating[f]))
    BY <2>1, LatestFound
  <2>3. LatestOf(ops, f, rating[f]) = rating[f]
    BY <2>1, <2>2, LastNothing DEF LastSet
  <2> QED BY <2>3, LatestIsOf
<1>3. (\E z : Walks(UndoWalk(f), undos, rating[f], z)) /\ \E z : Walks(RedoWalk(f), redos, rating[f], z)
  BY <1>2 DEF UndoInv, Leads
<1>4. done # 0 => done \in 1..Len(undos) /\ undos[done].file = f /\ \A i \in 1..(done - 1) : undos[i].file # f
  BY <1>1, FirstFound
<1>5. undone # 0 => undone \in 1..Len(redos) /\ redos[undone].file = f /\ \A i \in 1..(undone - 1) : redos[i].file # f
  BY <1>1, FirstFound
<1> HIDE DEF done, undone
<1>6. ASSUME done # 0 PROVE rating[f] = undos[done].new
  <2>1. done \in 1..Len(undos) /\ Len(undos) \in Nat /\ \A i \in 1..(done - 1) : i \in 1..Len(undos)
    BY <1>1, <1>4, <1>6
  <2>2. \A i \in 1..Len(undos) : undos[i] \in AnyTrans
    BY <1>1
  <2>3. \A i \in 1..(done - 1) : \A p \in UndoWalk(f)[undos[i]] : p[1] = p[2]
    BY <1>4, <1>6, <2>1, <2>2 DEF UndoWalk
  <2>4. PICK y : Walks(UndoWalk(f), undos, rating[f], y)
    BY <1>3
  <2>5. PICK z : <<rating[f], z>> \in UndoWalk(f)[undos[done]]
    BY <1>1, <2>1, <2>3, <2>4, WalksFirst
  <2>6. undos[done] \in AnyTrans /\ undos[done].file = f
    BY <1>4, <1>6, <2>1, <2>2
  <2> QED BY <2>5, <2>6 DEF UndoWalk
<1>7. ASSUME undone # 0 PROVE rating[f] = redos[undone].old
  <2>1. undone \in 1..Len(redos) /\ Len(redos) \in Nat /\ \A i \in 1..(undone - 1) : i \in 1..Len(redos)
    BY <1>1, <1>5, <1>7
  <2>2. \A i \in 1..Len(redos) : redos[i] \in AnyTrans
    BY <1>1
  <2>3. \A i \in 1..(undone - 1) : \A p \in RedoWalk(f)[redos[i]] : p[1] = p[2]
    BY <1>5, <1>7, <2>1, <2>2 DEF RedoWalk
  <2>4. PICK y : Walks(RedoWalk(f), redos, rating[f], y)
    BY <1>3
  <2>5. PICK z : <<rating[f], z>> \in RedoWalk(f)[redos[undone]]
    BY <1>1, <2>1, <2>3, <2>4, WalksFirst
  <2>6. redos[undone] \in AnyTrans /\ redos[undone].file = f
    BY <1>5, <1>7, <2>1, <2>2
  <2> QED BY <2>5, <2>6 DEF RedoWalk
<1> QED BY <1>6, <1>7 DEF done, undone

LEMMA UndoInit == Init => UndoInv
<1> SUFFICES ASSUME Init, NEW f \in Files \ astray PROVE Leads(f, undos, redos, Latest(f))
  BY DEF UndoInv
<1>1. StateTyped
  BY InitTyped DEF StateTyped
<1>2. undos = <<>> /\ redos = <<>> /\ <<>> \in Seq(AnyTrans) /\ DOMAIN <<>> = {}
  BY DEF Init
<1>3. f \in FileRow /\ f \in Known /\ ops \in Seq(OpOf(Known) \cup {GetAll})
  BY <1>1, NotifsTyped DEF Files, Known
<1>4. rating[f] \in Value
  BY <1>1, <1>3 DEF StateTyped, NiepceTyped, DatabaseTyped
<1>5. LatestOf(ops, f, rating[f]) \in Value
  BY <1>3, <1>4, LatestValue
<1> QED BY <1>2, <1>5, LatestIsOf, LeadsNowhere

\* Once everything asked for is done, a file edited only while the pane was
\* up to date has the rating that the undo history says.
THEOREM NiepceUndoIsExact == Spec => []UndoIsExact
<1>1. Init => StateTyped /\ UndoInv
  BY InitTyped, UndoInit DEF StateTyped
<1>2. StateTyped /\ UndoInv /\ [Next]_vars => (StateTyped /\ UndoInv)'
  BY StateTypedStep, UndoStep
<1>3. StateTyped /\ UndoInv => UndoIsExact
  BY UndoProperty
<1> QED BY <1>1, <1>2, <1>3, PTL DEF Spec

-----------------------------------------------------------------------------
(* The counts settle.                                                      *)

AnyNotif == NotifOf(FileRow \cup {0})
Shown == Nat \cup {Unknown, NoItem}

\* How a notification moves what the tree shows of folder d.
RowLeads(d) == [c \in AnyNotif |->
  IF c = AddedMsg(d) THEN {<<x, Unknown>> : x \in Shown}
  ELSE IF c = DeletedMsg(d) THEN {<<x, NoItem>> : x \in Shown}
  ELSE IF c.n = "FolderCounted" /\ c.id = d THEN {<<x, IF x = NoItem THEN NoItem ELSE c.count>> : x \in Shown}
  ELSE {<<x, x>> : x \in Shown}]

\* What the notifications will make of it is right, or will be counted.
RowSettles(d) == \E y \in Shown :
  /\ Walks(RowLeads(d), notifs, folderidmap[d], y)
  /\ y # NoItem <=> d \in Folders
  /\ d \in Folders \ uncounted =>
       y = Count(d) \/ Among(op("count_folder", d), ops) \/ Among(AddedMsg(d), notifs)

CountsInv == ~Starting => \A d \in FolderRow : RowSettles(d)

Elsewhen(c, d) == c \in AnyNotif /\ c # AddedMsg(d) /\ c # DeletedMsg(d) /\ ~(c.n = "FolderCounted" /\ c.id = d)

LEMMA RowSteps ==
  ASSUME NEW d \in FolderRow, NEW x \in Shown
  PROVE  /\ <<x, Unknown>> \in RowLeads(d)[AddedMsg(d)] /\ <<x, NoItem>> \in RowLeads(d)[DeletedMsg(d)]
         /\ \A c \in Nat : <<x, IF x = NoItem THEN NoItem ELSE c>> \in RowLeads(d)[CountedMsg(d, c)]
         /\ \A c : Elsewhen(c, d) => <<x, x>> \in RowLeads(d)[c]
         /\ \A y : /\ <<x, y>> \in RowLeads(d)[AddedMsg(d)] => y = Unknown
                   /\ <<x, y>> \in RowLeads(d)[DeletedMsg(d)] => y = NoItem
                   /\ \A c \in Nat : <<x, y>> \in RowLeads(d)[CountedMsg(d, c)] => y = IF x = NoItem THEN NoItem ELSE c
                   /\ \A c : Elsewhen(c, d) /\ <<x, y>> \in RowLeads(d)[c] => y = x
<1>1. AddedMsg(d) \in AnyNotif /\ DeletedMsg(d) \in AnyNotif /\ \A c \in Nat : CountedMsg(d, c) \in AnyNotif
  BY NotifTypes DEF AnyNotif
<1>2. DeletedMsg(d) # AddedMsg(d) /\ \A c : CountedMsg(d, c) # AddedMsg(d) /\ CountedMsg(d, c) # DeletedMsg(d)
      /\ CountedMsg(d, c).n = "FolderCounted" /\ CountedMsg(d, c).id = d /\ CountedMsg(d, c).count = c
  <2>1. \A c : CountedMsg(d, c).n = "FolderCounted" /\ CountedMsg(d, c).id = d /\ CountedMsg(d, c).count = c
        /\ AddedMsg(d).n = "AddedFolder" /\ DeletedMsg(d).n = "FolderDeleted"
    BY DEF CountedMsg, AddedMsg, DeletedMsg
  <2> QED BY <2>1
<1>3. /\ RowLeads(d)[AddedMsg(d)] = {<<z, Unknown>> : z \in Shown}
      /\ RowLeads(d)[DeletedMsg(d)] = {<<z, NoItem>> : z \in Shown}
      /\ \A c \in Nat : RowLeads(d)[CountedMsg(d, c)] = {<<z, IF z = NoItem THEN NoItem ELSE c>> : z \in Shown}
      /\ \A c : Elsewhen(c, d) => RowLeads(d)[c] = {<<z, z>> : z \in Shown}
  <2>1. RowLeads(d)[AddedMsg(d)] = {<<z, Unknown>> : z \in Shown}
    BY <1>1 DEF RowLeads
  <2>2. RowLeads(d)[DeletedMsg(d)] = {<<z, NoItem>> : z \in Shown}
    BY <1>1, <1>2 DEF RowLeads
  <2>3. ASSUME NEW c \in Nat PROVE RowLeads(d)[CountedMsg(d, c)] = {<<z, IF z = NoItem THEN NoItem ELSE c>> : z \in Shown}
    BY <1>1, <1>2 DEF RowLeads
  <2>4. ASSUME NEW c, Elsewhen(c, d) PROVE RowLeads(d)[c] = {<<z, z>> : z \in Shown}
    BY <2>4 DEF RowLeads, Elsewhen
  <2> QED BY <2>1, <2>2, <2>3, <2>4
<1> QED BY <1>3

LEMMA NotifsAny ==
  ASSUME StateTyped PROVE notifs \in Seq(AnyNotif) /\ \A c \in NotifOf(Known) : c \in AnyNotif
<1>1. NotifOf(Known) \subseteq AnyNotif
  BY KnownRows, Grows DEF AnyNotif
<1> QED BY <1>1, NotifsTyped, SeqGrows

LEMMA ElsewhenKinds ==
  ASSUME NEW d \in FolderRow, NEW c \in AnyNotif
  PROVE  /\ c.n \notin {"AddedFolder", "FolderDeleted", "FolderCounted"} => Elsewhen(c, d)
         /\ c.n \in {"AddedFolder", "FolderDeleted", "FolderCounted"} /\ c.id # d => Elsewhen(c, d)
  BY DEF Elsewhen, AddedMsg, DeletedMsg

\* Notifications that do not concern d were appended.
RowKept(d, s, t) ==
  /\ \A x, y \in Shown : Walks(RowLeads(d), s, x, y) => Walks(RowLeads(d), t, x, y)
  /\ Among(AddedMsg(d), s) => Among(AddedMsg(d), t)

LEMMA RowAppends ==
  ASSUME NEW d \in FolderRow, NEW s \in Seq(AnyNotif), NEW c, Elsewhen(c, d)
  PROVE  RowKept(d, s, Append(s, c)) /\ Append(s, c) \in Seq(AnyNotif)
<1>1. c \in AnyNotif
  BY DEF Elsewhen
<1>2. ASSUME NEW x \in Shown, NEW y \in Shown, Walks(RowLeads(d), s, x, y) PROVE Walks(RowLeads(d), Append(s, c), x, y)
  <2>1. <<y, y>> \in RowLeads(d)[c]
    BY RowSteps
  <2> QED BY <1>1, <1>2, <2>1, WalksAppend
<1>3. Among(AddedMsg(d), s) => Among(AddedMsg(d), Append(s, c))
  BY <1>1, AmongStays
<1> QED BY <1>1, <1>2, <1>3 DEF RowKept

LEMMA RowSame ==
  ASSUME StateTyped, NEW d \in FolderRow, RowSettles(d), folderidmap'[d] = folderidmap[d], RowKept(d, notifs, notifs'),
         d \in Folders' <=> d \in Folders, Count(d)' = Count(d), d \in uncounted => d \in uncounted',
         Among(op("count_folder", d), ops) => Among(op("count_folder", d), ops')
  PROVE  RowSettles(d)'
<1>1. PICK y \in Shown : /\ Walks(RowLeads(d), notifs, folderidmap[d], y)
                         /\ y # NoItem <=> d \in Folders
                         /\ d \in Folders \ uncounted =>
                              y = Count(d) \/ Among(op("count_folder", d), ops) \/ Among(AddedMsg(d), notifs)
  BY DEF RowSettles
<1>2. folderidmap[d] \in Shown
  BY ShownNow DEF Shown
<1>3. Walks(RowLeads(d), notifs', folderidmap'[d], y)
  BY <1>1, <1>2 DEF RowKept
<1>4. d \in (Folders \ uncounted)' => y = Count(d)' \/ Among(op("count_folder", d), ops') \/ Among(AddedMsg(d), notifs')
  BY <1>1 DEF RowKept
<1>5. \E z \in Shown :
        /\ Walks(RowLeads(d), notifs', folderidmap'[d], z)
        /\ z # NoItem <=> d \in Folders'
        /\ d \in (Folders \ uncounted)' =>
             z = Count(d)' \/ Among(op("count_folder", d), ops') \/ Among(AddedMsg(d), notifs')
  BY <1>1, <1>3, <1>4
<1> QED BY <1>5 DEF RowSettles, RowLeads, AnyNotif, Shown, AddedMsg, op, DeletedMsg

LEMMA CountSame ==
  ASSUME NEW d \in FolderRow, \A f \in FileRow : parent'[f] = d <=> parent[f] = d PROVE Count(d)' = Count(d)
<1>1. DOMAIN content(d) = {f \in FileRow : parent[f] = d} /\ (DOMAIN content(d))' = {f \in FileRow : parent'[f] = d}
  BY DEF content
<1>2. (DOMAIN content(d))' = DOMAIN content(d)
  BY <1>1
<1> QED BY <1>2 DEF Count

\* A count is still to be done after another operation.
LEMMA StillCounts ==
  ASSUME StateTyped, NEW d \in FolderRow
  PROVE  /\ \A o \in OpOf(Known) : ops' = Append(ops, o) => (Among(op("count_folder", d), ops) => Among(op("count_folder", d), ops'))
         /\ ops # <<>> /\ ops' = Tail(ops) /\ Head(ops) # op("count_folder", d) =>
              (Among(op("count_folder", d), ops) => Among(op("count_folder", d), ops'))
<1>1. ops \in Seq(OpOf(Known) \cup {GetAll})
  BY NotifsTyped
<1>2. ASSUME NEW o \in OpOf(Known) PROVE Among(op("count_folder", d), ops) => Among(op("count_folder", d), Append(ops, o))
  <2>1. o \in OpOf(Known) \cup {GetAll}
    OBVIOUS
  <2> QED BY <1>1, <2>1, AmongStays
<1>3. ops # <<>> => (Among(op("count_folder", d), ops) => op("count_folder", d) = Head(ops) \/ Among(op("count_folder", d), Tail(ops)))
  BY <1>1, AmongStays
<1> QED BY <1>2, <1>3

LEMMA RowKeptSame == \A d, s : RowKept(d, s, s)
  BY DEF RowKept

\* The user's steps leave the rows.
LEMMA RowsUser ==
  ASSUME StateTyped, NEW d \in FolderRow, RowSettles(d), UNCHANGED <<notifs, folderidmap, folders, parent, uncounted>>,
         ops' = ops \/ \E o \in OpOf(Known) : ops' = Append(ops, o)
  PROVE  RowSettles(d)'
<1>1. Among(op("count_folder", d), ops) => Among(op("count_folder", d), ops')
  BY StillCounts
<1>2. Count(d)' = Count(d) /\ Folders' = Folders
  BY CountSame DEF Folders
<1> QED BY <1>1, <1>2, RowKeptSame, RowSame

\* Once a folder was added its row is there until something else is told of it.
LEMMA WalkEnds ==
  ASSUME NEW d \in FolderRow, NEW s \in Seq(AnyNotif), NEW x, NEW y \in Shown, Walks(RowLeads(d), s, x, y),
         \A i \in DOMAIN s : s[i] = AddedMsg(d) \/ Elsewhen(s[i], d), NEW k \in DOMAIN s, s[k] = AddedMsg(d)
  PROVE  y = Unknown
<1> DEFINE n == Len(s)
           G == {i \in DOMAIN s : s[i] = AddedMsg(d)}
<1>1. n \in Nat /\ DOMAIN s = 1..n
  OBVIOUS
<1>2. Max(G) \in G /\ \A i \in G : Max(G) >= i
  <2>1. G \subseteq 0..n /\ G # {}
    BY <1>1
  <2> HIDE DEF G, n
  <2> QED BY <1>1, <2>1, GreatestNat
<1> DEFINE m == Max(G)
<1>3. m \in 1..n /\ s[m] = AddedMsg(d) /\ \A i \in G : m >= i
  <2>1. \A i \in G : i \in 1..n /\ s[i] = AddedMsg(d)
    BY <1>1
  <2> HIDE DEF G
  <2> QED BY <1>2, <2>1
<1> HIDE DEF m
<1>4. \A i \in (m + 1)..n : \A p \in RowLeads(d)[s[i]] : p[1] = p[2]
  <2> SUFFICES ASSUME NEW i \in (m + 1)..n PROVE \A p \in RowLeads(d)[s[i]] : p[1] = p[2]
    OBVIOUS
  <2>1. i \in 1..n /\ ~(m >= i)
    BY <1>1, <1>3
  <2>2. Elsewhen(s[i], d)
    BY <1>1, <1>3, <2>1
  <2>3. RowLeads(d)[s[i]] = {<<z, z>> : z \in Shown}
    BY <2>2 DEF RowLeads, Elsewhen
  <2> QED BY <2>3
<1>5. m \in 0..n /\ m # 0
  BY <1>1, <1>3
<1>6. PICK z : <<z, y>> \in RowLeads(d)[s[m]]
  BY <1>4, <1>5, WalksLast
<1>7. RowLeads(d)[AddedMsg(d)] = {<<z1, Unknown>> : z1 \in Shown}
  BY NotifTypes DEF RowLeads, AnyNotif
<1> QED BY <1>3, <1>6, <1>7

LEMMA RowsList ==
  ASSUME StateTyped, cmd_list_all_folders, NEW d \in FolderRow PROVE RowSettles(d)'
<1>1. notifs' = Listed /\ Listed \in Seq(NotifOf(Known)) /\ Starting /\ UNCHANGED <<database, ui>> /\ Len(Listed) = Cardinality(Folders)
  BY ListsTyped
<1>2. folderidmap'[d] = NoItem /\ folders' = folders
  BY <1>1 DEF StateTyped, StartInv, ui, database
<1>3. Listed \in Seq(AnyNotif)
  <2>1. NotifOf(Known) \subseteq AnyNotif
    BY KnownRows, Grows DEF AnyNotif
  <2> QED BY <1>1, <2>1, SeqGrows
<1>4. /\ Ordered(Folders) \in [1 .. Cardinality(Folders) -> Folders] /\ Cardinality(Folders) \in Nat
      /\ \A e \in Folders : \E i \in 1 .. Cardinality(Folders) : Ordered(Folders)[i] = e
  <2>1. Folders \subseteq FolderRow
    BY DEF Folders
  <2> QED BY <2>1, OrderedFolders
<1>5. \A i \in DOMAIN Listed : Listed[i] \in AnyNotif /\ \E e \in Folders : Listed[i] = AddedMsg(e)
  BY <1>3, <1>4 DEF Listed
<1>6. \A e \in FolderRow : e # d => Elsewhen(AddedMsg(e), d)
  <2>1. \A e \in FolderRow : AddedMsg(e) \in AnyNotif /\ AddedMsg(e).n = "AddedFolder" /\ AddedMsg(e).id = e
    BY NotifTypes DEF AnyNotif, AddedMsg
  <2> QED BY <2>1, ElsewhenKinds
<1>7. CASE d \notin Folders
  <2>1. \A i \in DOMAIN Listed : <<NoItem, NoItem>> \in RowLeads(d)[Listed[i]]
    <3>1. \A i \in DOMAIN Listed : Elsewhen(Listed[i], d)
      BY <1>5, <1>6, <1>7 DEF Folders
    <3> QED BY <3>1, RowSteps DEF Shown
  <2>2. Walks(RowLeads(d), Listed, NoItem, NoItem)
    BY <1>3, <2>1, WalksStill
  <2>3. Walks(RowLeads(d), notifs', folderidmap'[d], NoItem) /\ d \notin Folders' /\ NoItem \in Shown
    BY <1>1, <1>2, <1>7, <2>2 DEF Folders, Shown
  <2>4. \E z \in Shown :
          /\ Walks(RowLeads(d), notifs', folderidmap'[d], z)
          /\ z # NoItem <=> d \in Folders'
          /\ d \in (Folders \ uncounted)' =>
               z = Count(d)' \/ Among(op("count_folder", d), ops') \/ Among(AddedMsg(d), notifs')
    BY <2>3
  <2> QED BY <2>4 DEF RowSettles, RowLeads, AnyNotif, Shown, AddedMsg, op, DeletedMsg
<1>8. CASE d \in Folders
  <2>1. PICK i \in DOMAIN Listed : Listed[i] = AddedMsg(d)
    BY <1>3, <1>4, <1>8 DEF Listed
  <2>2. Among(AddedMsg(d), Listed)
    BY <2>1 DEF Among
  <2>3. \A c \in AnyNotif, v \in Shown : (\E e \in Folders : c = AddedMsg(e)) => \E u \in Shown : <<v, u>> \in RowLeads(d)[c]
    <3> SUFFICES ASSUME NEW e \in Folders, NEW v \in Shown PROVE \E u \in Shown : <<v, u>> \in RowLeads(d)[AddedMsg(e)]
      OBVIOUS
    <3>1. e = d \/ Elsewhen(AddedMsg(e), d)
      BY <1>6 DEF Folders
    <3> QED BY <3>1, RowSteps DEF Shown
  <2>4. Walks(RowLeads(d), Listed, NoItem, Unknown)
    <3> DEFINE T == {AddedMsg(e) : e \in Folders}
    <3>1. Listed \in Seq(T) /\ \A c \in T, v \in Shown : \E u \in Shown : <<v, u>> \in RowLeads(d)[c]
      <4>1. Listed \in Seq(T)
        <5>1. \A j \in 1 .. Cardinality(Folders) : AddedMsg(Ordered(Folders)[j]) \in T
          BY <1>4
        <5>2. Listed \in [1 .. Cardinality(Folders) -> T]
          BY <5>1 DEF Listed
        <5> QED BY <1>4, <5>2
      <4>2. \A c \in T : c \in AnyNotif /\ \E e \in Folders : c = AddedMsg(e)
        BY NotifTypes DEF Folders, AnyNotif
      <4> QED BY <2>3, <4>1, <4>2
    <3> HIDE DEF T
    <3>2. PICK y \in Shown : Walks(RowLeads(d), Listed, NoItem, y)
      BY <3>1, WalksTotal DEF Shown
    <3>3. \A j \in DOMAIN Listed : Listed[j] = AddedMsg(d) \/ Elsewhen(Listed[j], d)
      BY <1>5, <1>6 DEF Folders
    <3>4. y = Unknown
      BY <1>3, <2>1, <3>2, <3>3, WalkEnds
    <3> QED BY <3>2, <3>4
  <2>5. Walks(RowLeads(d), notifs', folderidmap'[d], Unknown) /\ d \in Folders' /\ Unknown \in Shown /\ Unknown # NoItem
        /\ Among(AddedMsg(d), notifs')
    BY <1>1, <1>2, <1>8, <2>2, <2>4 DEF Folders, Shown, Unknown, NoItem
  <2>6. \E z \in Shown :
          /\ Walks(RowLeads(d), notifs', folderidmap'[d], z)
          /\ z # NoItem <=> d \in Folders'
          /\ d \in (Folders \ uncounted)' =>
               z = Count(d)' \/ Among(op("count_folder", d), ops') \/ Among(AddedMsg(d), notifs')
    BY <2>5
  <2> QED BY <2>6 DEF RowSettles, RowLeads, AnyNotif, Shown, AddedMsg, op, DeletedMsg
<1> QED BY <1>7, <1>8

\* Of the row of d the next state says that it settles at y.
LEMMA RowSettlesAt ==
  ASSUME NEW d \in FolderRow, NEW y \in Shown,
         Walks(RowLeads(d), notifs', folderidmap'[d], y),
         y # NoItem <=> d \in Folders',
         d \in (Folders \ uncounted)' =>
           y = Count(d)' \/ Among(op("count_folder", d), ops') \/ Among(AddedMsg(d), notifs')
  PROVE  RowSettles(d)'
<1>1. \E z \in Shown :
        /\ Walks(RowLeads(d), notifs', folderidmap'[d], z)
        /\ z # NoItem <=> d \in Folders'
        /\ d \in (Folders \ uncounted)' =>
             z = Count(d)' \/ Among(op("count_folder", d), ops') \/ Among(AddedMsg(d), notifs')
  OBVIOUS
<1> QED BY <1>1 DEF RowSettles, RowLeads, AnyNotif, Shown, AddedMsg, op, DeletedMsg

LEMMA MsgsElsewhen ==
  ASSUME StateTyped, NEW d \in FolderRow
  PROVE  /\ \A e \in FolderRow : e # d => Elsewhen(AddedMsg(e), d) /\ Elsewhen(DeletedMsg(e), d)
         /\ \A e \in FolderRow, c \in Nat : e # d => Elsewhen(CountedMsg(e, c), d)
         /\ \A e \in FolderRow, m \in ContentOf(Known) : Elsewhen(ContentMsg(e, m), d)
         /\ \A f \in Known, v \in Value : Elsewhen(QueriedMsg(f, v), d)
         /\ \A f \in Known, v \in Rating : Elsewhen(ChangedMsg(f, v), d)
         /\ Elsewhen(FilesMsg, d)
<1>0. \A c \in NotifOf(Known) : c \in AnyNotif
  BY NotifsAny
<1>1. /\ \A e \in FolderRow : AddedMsg(e) \in AnyNotif /\ DeletedMsg(e) \in AnyNotif
      /\ \A e \in FolderRow, c \in Nat : CountedMsg(e, c) \in AnyNotif
      /\ \A e \in FolderRow, m \in ContentOf(Known) : ContentMsg(e, m) \in AnyNotif
      /\ \A f \in Known, v \in Value : QueriedMsg(f, v) \in AnyNotif
      /\ \A f \in Known, v \in Rating : ChangedMsg(f, v) \in AnyNotif
      /\ FilesMsg \in AnyNotif
  BY <1>0, NotifTypes
<1>2. \A e, m : /\ AddedMsg(e).n = "AddedFolder" /\ AddedMsg(e).id = e /\ DeletedMsg(e).n = "FolderDeleted" /\ DeletedMsg(e).id = e
                /\ CountedMsg(e, m).n = "FolderCounted" /\ CountedMsg(e, m).id = e /\ ContentMsg(e, m).n = "FolderContentQueried"
                /\ QueriedMsg(e, m).n = "MetadataQueried" /\ ChangedMsg(e, m).n = "MetadataChanged" /\ FilesMsg.n = "AddedFiles"
  BY DEF AddedMsg, DeletedMsg, CountedMsg, ContentMsg, QueriedMsg, ChangedMsg, FilesMsg
<1>3. \A e \in FolderRow : e # d => Elsewhen(AddedMsg(e), d) /\ Elsewhen(DeletedMsg(e), d)
  BY <1>1, <1>2, ElsewhenKinds
<1>4. \A e \in FolderRow, c \in Nat : e # d => Elsewhen(CountedMsg(e, c), d)
  BY <1>1, <1>2, ElsewhenKinds
<1>5. \A e \in FolderRow, m \in ContentOf(Known) : Elsewhen(ContentMsg(e, m), d)
  BY <1>1, <1>2, ElsewhenKinds
<1>6. \A f \in Known, v \in Value : Elsewhen(QueriedMsg(f, v), d)
  BY <1>1, <1>2, ElsewhenKinds
<1>7. \A f \in Known, v \in Rating : Elsewhen(ChangedMsg(f, v), d)
  BY <1>1, <1>2, ElsewhenKinds
<1>8. Elsewhen(FilesMsg, d)
  BY <1>1, <1>2, ElsewhenKinds
<1> QED BY <1>3, <1>4, <1>5, <1>6, <1>7, <1>8

\* An operation that reads, sets a rating or does nothing.
LEMMA RowsRead ==
  ASSUME StateTyped, NEW d \in FolderRow, RowSettles(d),
         \/ RunsInVain
         \/ \E e \in FolderRow : RunsQuery(e) \/ (e # d /\ RunsCount(e))
         \/ \E f \in Known : RunsRequest(f) \/ \E v \in Rating : RunsSet(f, v)
  PROVE  RowSettles(d)'
<1>0. notifs \in Seq(AnyNotif)
  BY NotifsAny
<1>1. /\ ops # <<>> /\ ops' = Tail(ops) /\ folderidmap' = folderidmap /\ folders' = folders /\ parent' = parent
      /\ d \in uncounted => d \in uncounted'
  BY DEF RunsInVain, RunsQuery, RunsCount, RunsRequest, RunsSet, Ran, ui, database, history
<1>2. Head(ops) # op("count_folder", d)
  <2>1. op("count_folder", d).op = "count_folder" /\ op("count_folder", d).id = d
    BY DEF op
  <2>2. Head(ops).op # "count_folder" \/ Head(ops).id # d
    BY DEF RunsInVain, RunsQuery, RunsCount, RunsRequest, RunsSet, Ran, op, set_rating_op
  <2> QED BY <2>1, <2>2
<1>3. RowKept(d, notifs, notifs')
  <2>1. ASSUME NEW c, Elsewhen(c, d), notifs' = Append(notifs, c) PROVE RowKept(d, notifs, notifs')
    BY <1>0, <2>1, RowAppends
  <2>2. CASE notifs' = notifs
    BY <2>2, RowKeptSame
  <2>3. ASSUME NEW e \in FolderRow, RunsQuery(e) PROVE RowKept(d, notifs, notifs')
    BY <2>1, <2>3, MsgsElsewhen DEF RunsQuery
  <2>4. ASSUME NEW e \in FolderRow, e # d, RunsCount(e) PROVE RowKept(d, notifs, notifs')
    BY <2>1, <2>4, MsgsElsewhen DEF RunsCount
  <2>5. ASSUME NEW f \in Known, RunsRequest(f) PROVE RowKept(d, notifs, notifs')
    <3>1. CASE f \in Files
      <4>1. rating[f] \in Value
        BY <3>1 DEF StateTyped, NiepceTyped, DatabaseTyped, Files
      <4> QED BY <2>1, <2>5, <3>1, <4>1, MsgsElsewhen DEF RunsRequest
    <3> QED BY <2>2, <2>5, <3>1 DEF RunsRequest
  <2>6. ASSUME NEW f \in Known, NEW v \in Rating, RunsSet(f, v) PROVE RowKept(d, notifs, notifs')
    BY <2>1, <2>2, <2>6, MsgsElsewhen DEF RunsSet
  <2>7. CASE RunsInVain
    BY <2>2, <2>7 DEF RunsInVain
  <2> QED BY <2>3, <2>4, <2>5, <2>6, <2>7
<1>4. Count(d)' = Count(d) /\ Folders' = Folders
  BY <1>1, CountSame DEF Folders
<1>5. Among(op("count_folder", d), ops) => Among(op("count_folder", d), ops')
  BY <1>1, <1>2, StillCounts
<1> QED BY <1>1, <1>3, <1>4, <1>5, RowSame

LEMMA RowsCount ==
  ASSUME StateTyped, NEW d \in FolderRow, RowSettles(d), RunsCount(d) PROVE RowSettles(d)'
<1>0. notifs \in Seq(AnyNotif) /\ CountedMsg(d, Count(d)) \in AnyNotif /\ Count(d) \in Nat
  BY NotifsAny, NotifTypes DEF RunsCount, AnyNotif
<1>1. /\ folderidmap' = folderidmap /\ folders' = folders /\ parent' = parent /\ notifs' = Append(notifs, CountedMsg(d, Count(d)))
  BY DEF RunsCount, Ran, ui, database
<1>2. PICK y \in Shown : Walks(RowLeads(d), notifs, folderidmap[d], y) /\ (y # NoItem <=> d \in Folders)
  BY DEF RowSettles
<1> DEFINE z == IF y = NoItem THEN NoItem ELSE Count(d)
<1>3. <<y, z>> \in RowLeads(d)[CountedMsg(d, Count(d))]
  BY <1>0, RowSteps
<1>4. z \in Shown /\ (z # NoItem <=> d \in Folders) /\ (d \in Folders => z = Count(d))
  BY <1>0, <1>2 DEF Shown, NoItem
<1> HIDE DEF z
<1>5. Walks(RowLeads(d), Append(notifs, CountedMsg(d, Count(d))), folderidmap[d], z)
  BY <1>0, <1>2, <1>3, WalksAppend
<1>6. Count(d)' = Count(d) /\ Folders' = Folders
  BY <1>1, CountSame DEF Folders
<1> QED BY <1>1, <1>4, <1>5, <1>6, RowSettlesAt

LEMMA RowsCreate ==
  ASSUME StateTyped, NEW d \in FolderRow, RowSettles(d), NEW e \in FolderRow, RunsCreate(e) PROVE RowSettles(d)'
<1>0. notifs \in Seq(AnyNotif) /\ AddedMsg(e) \in AnyNotif
  BY NotifsAny, NotifTypes DEF AnyNotif
<1>1. /\ ops # <<>> /\ ops' = Tail(ops) /\ folderidmap' = folderidmap /\ folders' = [folders EXCEPT ![e] = "unnamed"] /\ parent' = parent
      /\ notifs' = Append(notifs, AddedMsg(e)) /\ uncounted' = uncounted /\ Head(ops) = op("create_folder", 0)
  BY DEF RunsCreate, Ran, ui, history
<1>2. folders \in [FolderRow -> Path \cup {"trash", "unnamed", "none"}]
  BY DEF StateTyped, NiepceTyped, DatabaseTyped
<1>3. Count(d)' = Count(d) /\ (e # d => (d \in Folders' <=> d \in Folders)) /\ e \in Folders'
  BY <1>1, <1>2, CountSame DEF Folders
<1>4. CASE e # d
  <2>1. RowKept(d, notifs, notifs')
    BY <1>0, <1>1, <1>4, RowAppends, MsgsElsewhen
  <2>2. Head(ops) # op("count_folder", d)
    BY <1>1 DEF op
  <2>3. Among(op("count_folder", d), ops) => Among(op("count_folder", d), ops')
    BY <1>1, <2>2, StillCounts
  <2> QED BY <1>1, <1>3, <1>4, <2>1, <2>3, RowSame
<1>5. CASE e = d
  <2>1. PICK y \in Shown : Walks(RowLeads(d), notifs, folderidmap[d], y)
    BY DEF RowSettles
  <2>2. <<y, Unknown>> \in RowLeads(d)[AddedMsg(e)]
    BY <1>5, RowSteps
  <2>3. Walks(RowLeads(d), Append(notifs, AddedMsg(e)), folderidmap[d], Unknown)
    BY <1>0, <2>1, <2>2, WalksAppend
  <2>4. Unknown \in Shown /\ Unknown # NoItem
    BY DEF Shown, Unknown, NoItem
  <2>5. Among(AddedMsg(d), Append(notifs, AddedMsg(e)))
    BY <1>0, <1>5, AmongStays
  <2> QED BY <1>1, <1>3, <1>5, <2>3, <2>4, <2>5, RowSettlesAt
<1> QED BY <1>4, <1>5

LEMMA RowsDelete ==
  ASSUME StateTyped, NEW d \in FolderRow, RowSettles(d), NEW e \in FolderRow, RunsDelete(e) PROVE RowSettles(d)'
<1>0. notifs \in Seq(AnyNotif) /\ DeletedMsg(e) \in AnyNotif
  BY NotifsAny, NotifTypes DEF AnyNotif
<1>1. /\ ops # <<>> /\ ops' = Tail(ops) /\ folderidmap' = folderidmap /\ folders' = [folders EXCEPT ![e] = "none"]
      /\ parent' = [f \in FileRow |-> IF parent[f] = e THEN 0 ELSE parent[f]]
      /\ notifs' = Append(notifs, DeletedMsg(e)) /\ uncounted' = uncounted \ {e} /\ Head(ops) = op("delete_folder", e)
  BY DEF RunsDelete, Ran, ui
<1>2. folders \in [FolderRow -> Path \cup {"trash", "unnamed", "none"}]
  BY DEF StateTyped, NiepceTyped, DatabaseTyped
<1>3. (e # d => (d \in Folders' <=> d \in Folders)) /\ e \notin Folders'
  BY <1>1, <1>2 DEF Folders
<1>4. CASE e # d
  <2>1. RowKept(d, notifs, notifs')
    BY <1>0, <1>1, <1>4, RowAppends, MsgsElsewhen
  <2>2. Head(ops) # op("count_folder", d)
    BY <1>1 DEF op
  <2>3. Among(op("count_folder", d), ops) => Among(op("count_folder", d), ops')
    BY <1>1, <2>2, StillCounts
  <2>4. \A f \in FileRow : parent'[f] = d <=> parent[f] = d
    BY <1>1, <1>4, NiepceConstants
  <2>5. Count(d)' = Count(d)
    BY <2>4, CountSame
  <2> QED BY <1>1, <1>3, <1>4, <2>1, <2>3, <2>5, RowSame
<1>5. CASE e = d
  <2>1. PICK y \in Shown : Walks(RowLeads(d), notifs, folderidmap[d], y)
    BY DEF RowSettles
  <2>2. <<y, NoItem>> \in RowLeads(d)[DeletedMsg(e)]
    BY <1>5, RowSteps
  <2>3. Walks(RowLeads(d), Append(notifs, DeletedMsg(e)), folderidmap[d], NoItem)
    BY <1>0, <2>1, <2>2, WalksAppend
  <2>4. NoItem \in Shown
    BY DEF Shown
  <2> QED BY <1>1, <1>3, <1>5, <2>3, <2>4, RowSettlesAt
<1> QED BY <1>4, <1>5

LEMMA RowsImport ==
  ASSUME StateTyped, NEW d \in FolderRow, RowSettles(d), NEW e \in FolderRow, RunsImport(e) PROVE RowSettles(d)'
<1>0. notifs \in Seq(AnyNotif) /\ AddedMsg(e) \in AnyNotif /\ FilesMsg \in AnyNotif /\ Elsewhen(FilesMsg, d)
  BY NotifsAny, NotifTypes, MsgsElsewhen DEF AnyNotif
<1>1. /\ ops # <<>> /\ ops' = Tail(ops) /\ folderidmap' = folderidmap /\ Head(ops).op = "import_files"
      /\ uncounted' = uncounted \cup {e}
      /\ \/ e \in Folders /\ UNCHANGED folders /\ notifs' = Append(notifs, FilesMsg)
         \/ /\ e \notin Folders
            /\ \E p \in Path : folders' = [folders EXCEPT ![e] = p]
            /\ notifs' = Append(Append(notifs, AddedMsg(e)), FilesMsg)
      /\ \/ UNCHANGED <<parent, rating>>
         \/ \E f \in FileRow \ Files, v \in Value :
              parent' = [parent EXCEPT ![f] = e] /\ rating' = [rating EXCEPT ![f] = v]
  BY DEF RunsImport, Ran, ui
<1>2. folders \in [FolderRow -> Path \cup {"trash", "unnamed", "none"}] /\ parent \in [FileRow -> FolderRow \cup {0}]
  BY DEF StateTyped, NiepceTyped, DatabaseTyped
<1>3. (e # d => (d \in Folders' <=> d \in Folders)) /\ (e \in Folders <=> folders' = folders) /\ e \in Folders'
  <2>1. CASE e \in Folders
    BY <1>1, <2>1 DEF Folders
  <2>2. ASSUME NEW p \in Path, folders' = [folders EXCEPT ![e] = p], e \notin Folders
        PROVE  (e # d => (d \in Folders' <=> d \in Folders)) /\ folders' # folders /\ e \in Folders'
    <3>1. p # "none" /\ folders[e] = "none" /\ folders'[e] = p
      BY <1>2, <2>2, NiepceConstants DEF Folders
    <3>2. e # d => folders'[d] = folders[d]
      BY <1>2, <2>2
    <3> QED BY <3>1, <3>2 DEF Folders
  <2> QED BY <1>1, <2>1, <2>2
<1>4. Head(ops) # op("count_folder", d) /\ (Among(op("count_folder", d), ops) => Among(op("count_folder", d), ops'))
  <2>1. Head(ops) # op("count_folder", d)
    BY <1>1 DEF op
  <2> QED BY <1>1, <2>1, StillCounts
<1>5. CASE e # d
  <2>1. RowKept(d, notifs, notifs')
    <3>1. RowKept(d, notifs, Append(notifs, FilesMsg))
      BY <1>0, RowAppends
    <3> DEFINE p == Append(notifs, AddedMsg(e))
    <3>2. RowKept(d, notifs, p) /\ p \in Seq(AnyNotif)
      BY <1>0, <1>5, RowAppends, MsgsElsewhen
    <3> HIDE DEF p
    <3>3. RowKept(d, p, Append(p, FilesMsg))
      BY <1>0, <3>2, RowAppends
    <3>4. RowKept(d, notifs, Append(p, FilesMsg))
      BY <3>2, <3>3 DEF RowKept
    <3> QED BY <1>1, <3>1, <3>4 DEF p
  <2>2. \A f \in FileRow : parent'[f] = d <=> parent[f] = d
    <3>1. ASSUME NEW g \in FileRow \ Files, parent' = [parent EXCEPT ![g] = e] PROVE \A f \in FileRow : parent'[f] = d <=> parent[f] = d
      <4>1. parent[g] = 0 /\ d # 0
        BY <3>1, NiepceConstants DEF Files
      <4> QED BY <1>2, <1>5, <3>1, <4>1
    <3> QED BY <1>1, <3>1
  <2>3. Count(d)' = Count(d)
    BY <2>2, CountSame
  <2> QED BY <1>1, <1>3, <1>4, <1>5, <2>1, <2>3, RowSame
<1>6. CASE e = d /\ e \in Folders
  <2>1. PICK y \in Shown : Walks(RowLeads(d), notifs, folderidmap[d], y) /\ (y # NoItem <=> d \in Folders)
    BY DEF RowSettles
  <2>2. notifs' = Append(notifs, FilesMsg) /\ folders' = folders
    BY <1>1, <1>3, <1>6
  <2>3. folderidmap[d] \in Shown
    BY ShownNow DEF Shown
  <2>4. Walks(RowLeads(d), Append(notifs, FilesMsg), folderidmap[d], y)
    BY <1>0, <2>1, <2>3, RowAppends DEF RowKept
  <2>5. d \notin (Folders \ uncounted)'
    BY <1>1, <1>6
  <2>6. y # NoItem <=> d \in Folders'
    BY <1>3, <1>6, <2>1
  <2>7. Walks(RowLeads(d), notifs', folderidmap'[d], y)
    BY <1>1, <2>2, <2>4
  <2> QED BY <2>5, <2>6, <2>7, RowSettlesAt
<1>7. CASE e = d /\ e \notin Folders
  <2>1. PICK y \in Shown : Walks(RowLeads(d), notifs, folderidmap[d], y)
    BY DEF RowSettles
  <2>2. <<y, Unknown>> \in RowLeads(d)[AddedMsg(d)]
    BY RowSteps
  <2>3. Walks(RowLeads(d), Append(notifs, AddedMsg(d)), folderidmap[d], Unknown) /\ Append(notifs, AddedMsg(d)) \in Seq(AnyNotif)
    BY <1>0, <1>7, <2>1, <2>2, WalksAppend
  <2>4. Unknown \in Shown /\ Unknown # NoItem /\ folderidmap[d] \in Shown
    BY ShownNow DEF Shown, Unknown, NoItem
  <2> DEFINE p == Append(notifs, AddedMsg(d))
  <2>5. p \in Seq(AnyNotif) /\ Walks(RowLeads(d), p, folderidmap[d], Unknown)
    BY <2>3
  <2> HIDE DEF p
  <2>6. Walks(RowLeads(d), Append(p, FilesMsg), folderidmap[d], Unknown)
    BY <1>0, <2>4, <2>5, RowAppends DEF RowKept
  <2>7. notifs' = Append(p, FilesMsg)
    BY <1>1, <1>7 DEF p
  <2>8. d \notin (Folders \ uncounted)' /\ d \in Folders'
    BY <1>1, <1>3, <1>7
  <2> QED BY <1>1, <2>4, <2>6, <2>7, <2>8, RowSettlesAt
<1> QED BY <1>5, <1>6, <1>7

\* A notification of something else was delivered.
LEMMA RowsToldElsewhen ==
  ASSUME StateTyped, NEW d \in FolderRow, RowSettles(d), NEW c, Told(c), Elsewhen(c, d), folderidmap'[d] = folderidmap[d],
         ops' = ops \/ \E o \in OpOf(Known) : ops' = Append(ops, o)
  PROVE  RowSettles(d)'
<1>0. notifs \in Seq(AnyNotif) /\ notifs # <<>> /\ Head(notifs) = c /\ notifs' = Tail(notifs) /\ c # AddedMsg(d)
      /\ folders' = folders /\ parent' = parent /\ uncounted' = uncounted
  BY NotifsAny DEF Told, Elsewhen, database
<1>1. \A x, y \in Shown : Walks(RowLeads(d), notifs, x, y) => Walks(RowLeads(d), Tail(notifs), x, y)
  <2> SUFFICES ASSUME NEW x \in Shown, NEW y \in Shown, Walks(RowLeads(d), notifs, x, y)
               PROVE  Walks(RowLeads(d), Tail(notifs), x, y)
    OBVIOUS
  <2>1. PICK z : <<x, z>> \in RowLeads(d)[Head(notifs)] /\ Walks(RowLeads(d), Tail(notifs), z, y)
    BY <1>0, WalksTail
  <2>2. z = x
    BY <1>0, <2>1, RowSteps
  <2> QED BY <2>1, <2>2
<1>2. Among(AddedMsg(d), notifs) => Among(AddedMsg(d), Tail(notifs))
  BY <1>0, AmongStays
<1>3. RowKept(d, notifs, notifs')
  BY <1>0, <1>1, <1>2 DEF RowKept
<1>4. Among(op("count_folder", d), ops) => Among(op("count_folder", d), ops')
  BY StillCounts
<1>5. Count(d)' = Count(d) /\ Folders' = Folders
  BY <1>0, CountSame DEF Folders
<1> QED BY <1>0, <1>3, <1>4, <1>5, RowSame

LEMMA RowsTold ==
  ASSUME StateTyped, NEW d \in FolderRow, RowSettles(d), MainLoop PROVE RowSettles(d)'
<1>0. notifs \in Seq(AnyNotif)
  BY NotifsAny
<1>1. CASE TellsFiles
  BY <1>1, MsgsElsewhen, RowsToldElsewhen DEF TellsFiles
<1>2. ASSUME NEW e \in FolderRow, TellsAdded(e) PROVE RowSettles(d)'
  <2>0. Told(AddedMsg(e)) /\ folderidmap' = [folderidmap EXCEPT ![e] = Unknown] /\ ops' = Append(ops, op("count_folder", e))
        /\ op("count_folder", e) \in OpOf(Known)
    BY <1>2, OpTypes DEF TellsAdded
  <2>1. CASE e # d
    <3>1. folderidmap'[d] = folderidmap[d]
      BY <2>0, <2>1, ShownNow
    <3> QED BY <2>0, <2>1, <3>1, MsgsElsewhen, RowsToldElsewhen
  <2>2. CASE e = d
    <3>1. /\ notifs # <<>> /\ Head(notifs) = AddedMsg(d) /\ notifs' = Tail(notifs) /\ folderidmap'[d] = Unknown
          /\ folders' = folders
      BY <2>0, <2>2, ShownNow DEF Told, database
    <3>2. PICK y \in Shown : Walks(RowLeads(d), notifs, folderidmap[d], y) /\ (y # NoItem <=> d \in Folders)
      BY DEF RowSettles
    <3>3. PICK z : <<folderidmap[d], z>> \in RowLeads(d)[Head(notifs)] /\ Walks(RowLeads(d), Tail(notifs), z, y)
      BY <1>0, <3>1, <3>2, WalksTail
    <3>4. z = Unknown
      <4>1. folderidmap[d] \in Shown
        BY ShownNow DEF Shown
      <4>2. <<folderidmap[d], z>> \in RowLeads(d)[AddedMsg(d)]
        BY <3>1, <3>3
      <4> QED BY <4>1, <4>2, RowSteps
    <3>5. Among(op("count_folder", d), ops')
      <4>1. ops \in Seq(OpOf(Known) \cup {GetAll}) /\ op("count_folder", d) \in OpOf(Known) \cup {GetAll}
        BY <2>0, <2>2, NotifsTyped
      <4>2. Among(op("count_folder", d), Append(ops, op("count_folder", d)))
        BY <4>1, AmongStays
      <4> QED BY <2>0, <2>2, <4>2
    <3>6. y # NoItem <=> d \in Folders'
      BY <3>1, <3>2 DEF Folders
    <3> QED BY <3>1, <3>3, <3>4, <3>5, <3>6, RowSettlesAt
  <2> QED BY <2>1, <2>2
<1>3. ASSUME NEW e \in FolderRow, TellsDeleted(e) PROVE RowSettles(d)'
  <2>0. Told(DeletedMsg(e)) /\ folderidmap' = [folderidmap EXCEPT ![e] = NoItem]
    BY <1>3 DEF TellsDeleted
  <2>1. ops' = ops \/ \E o \in OpOf(Known) : ops' = Append(ops, o)
    <3>1. ASSUME NEW g \in (Items \ {e}) \cup {0}, on_libtree_selection(g)
          PROVE  ops' = ops \/ \E o \in OpOf(Known) : ops' = Append(ops, o)
      BY <3>1, OpTypes DEF on_libtree_selection, schedule_op, Items
    <3> QED BY <1>3, <3>1 DEF TellsDeleted
  <2>2. CASE e # d
    <3>1. folderidmap'[d] = folderidmap[d]
      BY <2>0, <2>2, ShownNow
    <3> QED BY <2>0, <2>1, <2>2, <3>1, MsgsElsewhen, RowsToldElsewhen
  <2>3. CASE e = d
    <3>1. /\ notifs # <<>> /\ Head(notifs) = DeletedMsg(d) /\ notifs' = Tail(notifs) /\ folderidmap'[d] = NoItem
          /\ folders' = folders /\ parent' = parent /\ uncounted' = uncounted
      BY <2>0, <2>3, ShownNow DEF Told, database
    <3>2. PICK y \in Shown : /\ Walks(RowLeads(d), notifs, folderidmap[d], y)
                             /\ y # NoItem <=> d \in Folders
                             /\ d \in Folders \ uncounted =>
                                  y = Count(d) \/ Among(op("count_folder", d), ops) \/ Among(AddedMsg(d), notifs)
      BY DEF RowSettles
    <3>3. PICK z : <<folderidmap[d], z>> \in RowLeads(d)[Head(notifs)] /\ Walks(RowLeads(d), Tail(notifs), z, y)
      BY <1>0, <3>1, <3>2, WalksTail
    <3>4. z = NoItem
      <4>1. folderidmap[d] \in Shown
        BY ShownNow DEF Shown
      <4>2. <<folderidmap[d], z>> \in RowLeads(d)[DeletedMsg(d)]
        BY <3>1, <3>3
      <4> QED BY <4>1, <4>2, RowSteps
    <3>5. Among(op("count_folder", d), ops) => Among(op("count_folder", d), ops')
      BY <2>1, StillCounts
    <3>6. Among(AddedMsg(d), notifs) => Among(AddedMsg(d), notifs')
      <4>1. AddedMsg(d) # DeletedMsg(d)
        BY DEF AddedMsg, DeletedMsg
      <4> QED BY <1>0, <3>1, <4>1, AmongStays
    <3>7. Count(d)' = Count(d) /\ Folders' = Folders
      BY <3>1, CountSame DEF Folders
    <3>8. d \in (Folders \ uncounted)' =>
            y = Count(d)' \/ Among(op("count_folder", d), ops') \/ Among(AddedMsg(d), notifs')
      BY <3>1, <3>2, <3>5, <3>6, <3>7
    <3>9. Walks(RowLeads(d), notifs', folderidmap'[d], y) /\ (y # NoItem <=> d \in Folders')
      BY <3>1, <3>2, <3>3, <3>4, <3>7
    <3> QED BY <3>8, <3>9, RowSettlesAt
  <2> QED BY <2>2, <2>3
<1>4. ASSUME NEW e \in FolderRow, NEW c \in Nat, TellsCounted(e, c) PROVE RowSettles(d)'
  <2>0. Told(CountedMsg(e, c)) /\ ops' = ops
        /\ folderidmap' = IF folderidmap[e] = NoItem THEN folderidmap ELSE [folderidmap EXCEPT ![e] = c]
    BY <1>4 DEF TellsCounted
  <2>1. CASE e # d
    <3>1. folderidmap'[d] = folderidmap[d]
      BY <2>0, <2>1, ShownNow
    <3> QED BY <2>0, <2>1, <3>1, MsgsElsewhen, RowsToldElsewhen
  <2>3. CASE e = d
    <3>1. /\ notifs # <<>> /\ Head(notifs) = CountedMsg(d, c) /\ notifs' = Tail(notifs)
          /\ folderidmap'[d] = (IF folderidmap[d] = NoItem THEN NoItem ELSE c)
          /\ folders' = folders /\ parent' = parent /\ uncounted' = uncounted
      BY <2>0, <2>3, ShownNow DEF Told, database
    <3>2. PICK y \in Shown : /\ Walks(RowLeads(d), notifs, folderidmap[d], y)
                             /\ y # NoItem <=> d \in Folders
                             /\ d \in Folders \ uncounted =>
                                  y = Count(d) \/ Among(op("count_folder", d), ops) \/ Among(AddedMsg(d), notifs)
      BY DEF RowSettles
    <3>3. PICK z : <<folderidmap[d], z>> \in RowLeads(d)[Head(notifs)] /\ Walks(RowLeads(d), Tail(notifs), z, y)
      BY <1>0, <3>1, <3>2, WalksTail
    <3>4. z = IF folderidmap[d] = NoItem THEN NoItem ELSE c
      <4>1. folderidmap[d] \in Shown
        BY ShownNow DEF Shown
      <4> DEFINE x == folderidmap[d]
      <4>2. x \in Shown
        BY <4>1
      <4> HIDE DEF x
      <4>3. \A y1 : <<x, y1>> \in RowLeads(d)[CountedMsg(d, c)] => y1 = IF x = NoItem THEN NoItem ELSE c
        BY <4>2, RowSteps
      <4>4. <<x, z>> \in RowLeads(d)[CountedMsg(d, c)]
        BY <3>1, <3>3 DEF x
      <4> QED BY <4>3, <4>4 DEF x
    <3>6. Among(AddedMsg(d), notifs) => Among(AddedMsg(d), notifs')
      <4>1. AddedMsg(d).n = "AddedFolder" /\ CountedMsg(d, c).n = "FolderCounted"
        BY DEF AddedMsg, CountedMsg
      <4>2. AddedMsg(d) # CountedMsg(d, c)
        BY <4>1
      <4> QED BY <1>0, <3>1, <4>2, AmongStays
    <3>7. Count(d)' = Count(d) /\ Folders' = Folders
      BY <3>1, CountSame DEF Folders
    <3>8. d \in (Folders \ uncounted)' =>
            y = Count(d)' \/ Among(op("count_folder", d), ops') \/ Among(AddedMsg(d), notifs')
      BY <2>0, <3>1, <3>2, <3>6, <3>7
    <3>9. Walks(RowLeads(d), notifs', folderidmap'[d], y) /\ (y # NoItem <=> d \in Folders')
      BY <3>1, <3>2, <3>3, <3>4, <3>7
    <3> QED BY <3>8, <3>9, RowSettlesAt
  <2> QED BY <2>1, <2>3
<1>5. ASSUME NEW e \in FolderRow, NEW m \in ContentOf(Known), TellsContent(e, m) PROVE RowSettles(d)'
  BY <1>5, MsgsElsewhen, RowsToldElsewhen DEF TellsContent
<1>6. ASSUME NEW f \in Known, NEW v \in Value, TellsQueried(f, v) PROVE RowSettles(d)'
  BY <1>6, MsgsElsewhen, RowsToldElsewhen DEF TellsQueried
<1>7. ASSUME NEW f \in Known, NEW v \in Rating, TellsChanged(f, v) PROVE RowSettles(d)'
  <2>1. ops' = ops \/ \E o \in OpOf(Known) : ops' = Append(ops, o)
    BY <1>7, OpTypes DEF TellsChanged
  <2> QED BY <1>7, <2>1, MsgsElsewhen, RowsToldElsewhen DEF TellsChanged
<1> QED BY <1>1, <1>2, <1>3, <1>4, <1>5, <1>6, <1>7, MainLoopTells

LEMMA SelectsStarting ==
  ASSUME StateTyped, Starting, NEW d \in FolderRow \cup {0}, select_item(d)
  PROVE  Starting'
<1>0. NiepceTyped /\ StartInv
  BY DEF StateTyped
<1>1. UNCHANGED <<notifs, folderidmap>> /\ Known' = Known
  BY KnownSame DEF select_item, database, history
<1>2. CASE ops' = ops
  BY <1>2 DEF Starting
<1>3. CASE ops' # ops
  <2>1. d \in FolderRow /\ ops' = Append(ops, op("query_folder_content", d))
    BY <1>3 DEF select_item, on_libtree_selection, schedule_op
  <2>2. op("query_folder_content", d) \in OpOf(Known)'
    BY <2>1, OpTypes
  <2> QED BY <1>0, <1>1, <2>1, <2>2, StartSchedules
<1> QED BY <1>2, <1>3

LEMMA CountsStep == ASSUME StateTyped, CountsInv, [Next]_vars PROVE CountsInv'
<1> SUFFICES ASSUME ~Starting', NEW d \in FolderRow PROVE RowSettles(d)'
  BY DEF CountsInv
<1>1. CASE Restart
  <2>1. ops' = <<GetAll>>
    BY <1>1 DEF Restart, GetAll
  <2>2. ops' # <<>> /\ Head(ops') = GetAll
    BY <2>1
  <2> QED BY <2>2 DEF Starting
<1>2. CASE Starting /\ ~Restart
  <2>1. CASE cmd_list_all_folders
    BY <2>1, RowsList
  <2>2. CASE UserQueues
    BY <1>2, <2>2, UserQueuesTyped
  <2>3. ASSUME NEW e \in FolderRow \cup {0}, select_item(e) PROVE FALSE
    BY <1>2, <2>3, SelectsStarting
  <2>4. CASE MainLoop
    BY <1>2, <2>4, MainLoopTells DEF TellsFiles, TellsAdded, TellsDeleted, TellsCounted, TellsContent, TellsQueried, TellsChanged, Told
  <2>5. CASE Worker /\ ~cmd_list_all_folders
    BY <1>2, <2>5, WorkerRuns DEF RunsInVain, RunsQuery, RunsCount, RunsCreate, RunsDelete, RunsImport, RunsRequest, RunsSet, Ran
  <2>6. CASE UNCHANGED vars
    BY <1>2, <2>6 DEF vars, channels, Starting
  <2> QED BY <1>2, <2>1, <2>2, <2>3, <2>4, <2>5, <2>6, UserQueuesOps DEF Next
<1>3. CASE ~Starting /\ ~Restart
  <2>0. RowSettles(d)
    BY <1>3 DEF CountsInv
  <2>1. CASE cmd_list_all_folders
    BY <2>1, RowsList
  <2>2. CASE UserQueues
    BY <2>0, <2>2, RowsUser DEF UserQueues, database
  <2>3. ASSUME NEW e \in FolderRow \cup {0}, select_item(e) PROVE RowSettles(d)'
    <3>1. UNCHANGED <<notifs, folderidmap, folders, parent, uncounted>>
      BY <2>3 DEF select_item, database, history
    <3>2. ops' = ops \/ \E o \in OpOf(Known) : ops' = Append(ops, o)
      BY <2>3, OpTypes DEF select_item, on_libtree_selection, schedule_op
    <3> QED BY <2>0, <3>1, <3>2, RowsUser
  <2>4. CASE MainLoop
    BY <2>0, <2>4, RowsTold
  <2>5. CASE Worker /\ ~cmd_list_all_folders
    BY <2>0, <2>5, WorkerRuns, RowsRead, RowsCount, RowsCreate, RowsDelete, RowsImport
  <2>6. CASE UNCHANGED vars
    <3>1. UNCHANGED <<notifs, folderidmap, folders, parent, uncounted, ops>>
      BY <2>6 DEF vars, channels, database, history
    <3> QED BY <2>0, <3>1, RowsUser
  <2> QED BY <1>3, <2>1, <2>2, <2>3, <2>4, <2>5, <2>6, UserQueuesOps DEF Next
<1> QED BY <1>1, <1>2, <1>3

LEMMA CountsSettled == ASSUME StateTyped, CountsInv PROVE CountsSettle
<1> SUFFICES ASSUME Quiet, NEW d \in FolderRow
             PROVE  /\ d \in Folders <=> folderidmap[d] # NoItem
                    /\ d \in Folders \ uncounted => folderidmap[d] = Count(d)
  BY DEF CountsSettle
<1>1. ops = <<>> /\ notifs = <<>> /\ ~Starting
  BY DEF Quiet, Starting
<1>2. PICK y \in Shown : /\ Walks(RowLeads(d), <<>>, folderidmap[d], y)
                         /\ y # NoItem <=> d \in Folders
                         /\ d \in Folders \ uncounted =>
                              y = Count(d) \/ Among(op("count_folder", d), <<>>) \/ Among(AddedMsg(d), <<>>)
  BY <1>1 DEF CountsInv, RowSettles
<1>3. y = folderidmap[d]
  BY <1>2, WalksNowhere
<1>4. \A e : ~Among(e, <<>>)
  BY DEF Among
<1> QED BY <1>2, <1>3, <1>4

\* Once everything asked for is done, the tree has the folders of the
\* database, each with the count of its files unless an import has since
\* added to it, however the counts and the notifications of folders created,
\* deleted and created again under the same id crossed.
THEOREM NiepceCountsSettle == Spec => []CountsSettle
<1>1. Init => StateTyped /\ CountsInv
  <2> SUFFICES ASSUME Init PROVE StateTyped /\ CountsInv
    OBVIOUS
  <2>1. ops = <<GetAll>>
    BY DEF Init, GetAll
  <2>2. ops # <<>> /\ Head(ops) = GetAll
    BY <2>1
  <2> QED BY <2>2, InitTyped DEF StateTyped, CountsInv, Starting
<1>2. StateTyped /\ CountsInv /\ [Next]_vars => (StateTyped /\ CountsInv)'
  BY StateTypedStep, CountsStep
<1>3. StateTyped /\ CountsInv => CountsSettle
  BY CountsSettled
<1> QED BY <1>1, <1>2, <1>3, PTL DEF Spec

-----------------------------------------------------------------------------
(* The list follows the tree.                                              *)

AnyContent == ContentOf(FileRow \cup {0})

\* What the list shows: the folder it was filled for and its files.
Views == (FolderRow \cup {0}) \X AnyContent

Patched(m, f, v) == IF f \in DOMAIN m THEN [m EXCEPT ![f] = v] ELSE m

\* How a notification moves what the list shows.
ListLeads == [c \in AnyNotif |->
  IF c.n = "FolderContentQueried" THEN {<<x, <<c.id, c.content>>>> : x \in Views}
  ELSE IF c.n = "MetadataChanged" THEN {<<x, <<x[1], Patched(x[2], c.id, c.value)>>>> : x \in Views}
  ELSE {<<x, x>> : x \in Views}]

QueryOp(d) == op("query_folder_content", d)
Queries == {QueryOp(d) : d \in FolderRow}

\* What the notifications will make of the list is the content of folder d.
ListSettles(d) == \E m \in AnyContent :
  /\ Walks(ListLeads, notifs, <<current_folder, idmap>>, <<d, m>>)
  /\ d \notin unlisted => m = content(d)

\* The last query to come is for folder d or, when all were answered, the
\* list settles on it.
ListLeadsTo(d) == Final(ops, Queries, {QueryOp(d)}) \/ (NoneOf(ops, Queries) /\ ListSettles(d))

\* Unless the folder selected was deleted, which is still to be told.
ListInv == \A d \in FolderRow : selected_folder = d /\ ~Among(DeletedMsg(d), notifs) => ListLeadsTo(d)

LEMMA PatchedTyped ==
  ASSUME NEW m \in AnyContent, NEW f, NEW v \in Rating PROVE Patched(m, f, v) \in AnyContent
<1>1. DOMAIN m \subseteq FileRow \cup {0} /\ m \in [DOMAIN m -> Rating]
  BY ContentIs DEF AnyContent
<1>2. DOMAIN Patched(m, f, v) = DOMAIN m /\ Patched(m, f, v) \in [DOMAIN m -> Rating]
  BY <1>1 DEF Patched
<1> QED BY <1>1, <1>2, ContentIs DEF AnyContent

LEMMA ListSteps ==
  ASSUME NEW x \in Views
  PROVE  /\ \A d \in FolderRow, m \in AnyContent : \A y : <<x, y>> \in ListLeads[ContentMsg(d, m)] <=> y = <<d, m>>
         /\ \A f \in FileRow \cup {0}, v \in Rating :
              \A y : <<x, y>> \in ListLeads[ChangedMsg(f, v)] <=> y = <<x[1], Patched(x[2], f, v)>>
         /\ \A c \in AnyNotif : c.n \notin {"FolderContentQueried", "MetadataChanged"} =>
              \A y : <<x, y>> \in ListLeads[c] <=> y = x
<1>1. ASSUME NEW d \in FolderRow, NEW m \in AnyContent
      PROVE  ListLeads[ContentMsg(d, m)] = {<<z, <<d, m>>>> : z \in Views}
  <2>1. ContentMsg(d, m) \in AnyNotif
    BY NotifTypes DEF AnyNotif, AnyContent
  <2>2. ContentMsg(d, m).n = "FolderContentQueried" /\ ContentMsg(d, m).id = d /\ ContentMsg(d, m).content = m
    BY DEF ContentMsg
  <2> QED BY <2>1, <2>2 DEF ListLeads
<1>2. ASSUME NEW f \in FileRow \cup {0}, NEW v \in Rating
      PROVE  ListLeads[ChangedMsg(f, v)] = {<<z, <<z[1], Patched(z[2], f, v)>>>> : z \in Views}
  <2>1. ChangedMsg(f, v) \in AnyNotif
    BY NotifTypes DEF AnyNotif
  <2>2. ChangedMsg(f, v).n = "MetadataChanged" /\ ChangedMsg(f, v).id = f /\ ChangedMsg(f, v).value = v
    BY DEF ChangedMsg
  <2>3. ChangedMsg(f, v).n # "FolderContentQueried"
    BY <2>2
  <2> QED BY <2>1, <2>2, <2>3 DEF ListLeads
<1>3. ASSUME NEW c \in AnyNotif, c.n \notin {"FolderContentQueried", "MetadataChanged"}
      PROVE  ListLeads[c] = {<<z, z>> : z \in Views}
  BY <1>3 DEF ListLeads
<1>4. \A d \in FolderRow, m \in AnyContent : \A y : <<x, y>> \in ListLeads[ContentMsg(d, m)] <=> y = <<d, m>>
  BY <1>1
<1>5. \A f \in FileRow \cup {0}, v \in Rating : \A y : <<x, y>> \in ListLeads[ChangedMsg(f, v)] <=> y = <<x[1], Patched(x[2], f, v)>>
  <2> SUFFICES ASSUME NEW f \in FileRow \cup {0}, NEW v \in Rating, NEW y
               PROVE  <<x, y>> \in ListLeads[ChangedMsg(f, v)] <=> y = <<x[1], Patched(x[2], f, v)>>
    OBVIOUS
  <2> QED BY <1>2
<1>6. \A c \in AnyNotif : c.n \notin {"FolderContentQueried", "MetadataChanged"} => \A y : <<x, y>> \in ListLeads[c] <=> y = x
  BY <1>3
<1> QED BY <1>4, <1>5, <1>6

LEMMA ListTotal ==
  ASSUME NEW c \in AnyNotif, NEW x \in Views PROVE \E y \in Views : <<x, y>> \in ListLeads[c]
<1>0. x[1] \in FolderRow \cup {0} /\ x[2] \in AnyContent
  BY DEF Views
<1>1. CASE c.n = "FolderContentQueried"
  <2>1. c.id \in FolderRow /\ c.content \in AnyContent /\ c = ContentMsg(c.id, c.content)
    BY <1>1, NotifKinds DEF AnyNotif, AnyContent
  <2>2. <<c.id, c.content>> \in Views /\ <<x, <<c.id, c.content>>>> \in ListLeads[c]
    BY <2>1, ListSteps DEF Views
  <2> QED BY <2>2
<1>2. CASE c.n = "MetadataChanged"
  <2>1. c.id \in FileRow \cup {0} /\ c.value \in Rating /\ c = ChangedMsg(c.id, c.value)
    BY <1>2, NotifKinds DEF AnyNotif
  <2> DEFINE y == <<x[1], Patched(x[2], c.id, c.value)>>
  <2>2. y \in Views
    BY <1>0, <2>1, PatchedTyped DEF Views
  <2>3. <<x, y>> \in ListLeads[c]
    BY <2>1, ListSteps
  <2> QED BY <2>2, <2>3
<1>3. CASE c.n \notin {"FolderContentQueried", "MetadataChanged"}
  BY <1>3, ListSteps
<1> QED BY <1>1, <1>2, <1>3

\* Where the list stands.
LEMMA ViewNow ==
  ASSUME StateTyped
  PROVE  /\ <<current_folder, idmap>> \in Views /\ notifs \in Seq(AnyNotif)
         /\ \A c \in NotifOf(Known) : c \in AnyNotif
         /\ ContentOf(Known) \subseteq AnyContent /\ idmap \in AnyContent
         /\ \A d \in FolderRow : content(d) \in AnyContent
<1>1. ContentOf(Known) \subseteq AnyContent
  BY KnownRows, Grows DEF AnyContent
<1>2. <<current_folder, idmap>> \in Views /\ idmap \in AnyContent
  BY <1>1, ShownNow DEF Views
<1>3. \A d \in FolderRow : content(d) \in AnyContent
  BY <1>1, FolderContent DEF StateTyped
<1> QED BY <1>1, <1>2, <1>3, NotifsAny

LEMMA ContentSame ==
  ASSUME NEW d \in FolderRow, \A f \in FileRow : parent'[f] = d <=> parent[f] = d,
         \A f \in FileRow : parent[f] = d => rating'[f] = rating[f]
  PROVE  content(d)' = content(d)
<1>1. {g \in FileRow : parent'[g] = d} = {g \in FileRow : parent[g] = d}
  OBVIOUS
<1> DEFINE D == {g \in FileRow : parent[g] = d}
<1>2. content(d) = [f \in D |-> IF rating[f] = Absent THEN 0 ELSE rating[f]]
  BY DEF content
<1>3. content(d)' = [f \in D |-> IF rating'[f] = Absent THEN 0 ELSE rating'[f]]
  BY <1>1 DEF content, Absent
<1>4. \A f \in D : rating'[f] = rating[f]
  OBVIOUS
<1> HIDE DEF D
<1> QED BY <1>2, <1>3, <1>4

\* Operations that do not query.
LEMMA QueriesKept ==
  ASSUME StateTyped, NEW d \in FolderRow,
         \/ ops' = ops
         \/ \E o \in OpOf(Known) : o.op # "query_folder_content" /\ ops' = Append(ops, o)
         \/ ops # <<>> /\ ops' = Tail(ops) /\ Head(ops).op # "query_folder_content"
  PROVE  /\ NoneOf(ops, Queries) => NoneOf(ops', Queries)
         /\ Final(ops, Queries, {QueryOp(d)}) => Final(ops', Queries, {QueryOp(d)})
<1>0. ops \in Seq(OpOf(Known) \cup {GetAll})
  BY NotifsTyped
<1>1. \A o : o.op # "query_folder_content" => o \notin Queries /\ o \notin {QueryOp(d)}
  BY DEF Queries, QueryOp, op
<1>2. ASSUME NEW o \in OpOf(Known), o.op # "query_folder_content", ops' = Append(ops, o)
      PROVE  /\ NoneOf(ops, Queries) => NoneOf(ops', Queries)
             /\ Final(ops, Queries, {QueryOp(d)}) => Final(ops', Queries, {QueryOp(d)})
  <2>1. o \in OpOf(Known) \cup {GetAll} /\ o \notin Queries
    BY <1>1, <1>2
  <2>2. /\ NoneOf(ops, Queries) => NoneOf(Append(ops, o), Queries)
        /\ Final(ops, Queries, {QueryOp(d)}) => Final(Append(ops, o), Queries, {QueryOp(d)})
    BY <1>0, <2>1, LastAppend
  <2> QED BY <1>2, <2>2
<1>3. ASSUME ops # <<>>, ops' = Tail(ops), Head(ops).op # "query_folder_content"
      PROVE  /\ NoneOf(ops, Queries) => NoneOf(ops', Queries)
             /\ Final(ops, Queries, {QueryOp(d)}) => Final(ops', Queries, {QueryOp(d)})
  <2>1. Head(ops) \notin Queries /\ Head(ops) \notin {QueryOp(d)}
    BY <1>1, <1>3
  <2>2. /\ NoneOf(ops, Queries) => NoneOf(Tail(ops), Queries)
        /\ Final(ops, Queries, {QueryOp(d)}) => Final(Tail(ops), Queries, {QueryOp(d)})
    BY <1>0, <1>3, <2>1, LastTail
  <2> QED BY <1>3, <2>2
<1> QED BY <1>2, <1>3

\* Of folder d the next state says that the list leads to it.
LEMMA ListLeadsToAt ==
  ASSUME NEW d \in FolderRow,
         \/ Final(ops', Queries, {QueryOp(d)})
         \/ /\ NoneOf(ops', Queries)
            /\ \E m \in AnyContent : /\ Walks(ListLeads, notifs', <<current_folder', idmap'>>, <<d, m>>)
                                     /\ d \notin unlisted' => m = content(d)'
  PROVE  ListLeadsTo(d)'
  BY DEF ListLeadsTo, ListSettles, Queries, QueryOp, op, ListLeads, AnyNotif, AnyContent, Views

\* What happens to the list when it still settles on m, which becomes k.
LEMMA ListKept ==
  ASSUME NEW d \in FolderRow, ListLeadsTo(d),
         NoneOf(ops, Queries) => NoneOf(ops', Queries),
         Final(ops, Queries, {QueryOp(d)}) => Final(ops', Queries, {QueryOp(d)}),
         \A m \in AnyContent : Walks(ListLeads, notifs, <<current_folder, idmap>>, <<d, m>>) =>
           \E k \in AnyContent : /\ Walks(ListLeads, notifs', <<current_folder', idmap'>>, <<d, k>>)
                                 /\ (d \notin unlisted => m = content(d)) /\ d \notin unlisted' => k = content(d)'
  PROVE  ListLeadsTo(d)'
<1>1. CASE Final(ops, Queries, {QueryOp(d)})
  BY <1>1, ListLeadsToAt
<1>2. CASE NoneOf(ops, Queries) /\ ListSettles(d)
  <2>1. PICK m \in AnyContent : /\ Walks(ListLeads, notifs, <<current_folder, idmap>>, <<d, m>>)
                                /\ d \notin unlisted => m = content(d)
    BY <1>2 DEF ListSettles
  <2>2. PICK k \in AnyContent : /\ Walks(ListLeads, notifs', <<current_folder', idmap'>>, <<d, k>>)
                                /\ (d \notin unlisted => m = content(d)) /\ d \notin unlisted' => k = content(d)'
    BY <2>1
  <2>3. d \notin unlisted' => k = content(d)'
    BY <2>1, <2>2
  <2> QED BY <1>2, <2>2, <2>3, ListLeadsToAt
<1> QED BY <1>1, <1>2 DEF ListLeadsTo

Unheard(c) == c \in AnyNotif /\ c.n \notin {"FolderContentQueried", "MetadataChanged"}

LEMMA UnheardMsgs ==
  ASSUME StateTyped
  PROVE  /\ \A e \in FolderRow : Unheard(AddedMsg(e)) /\ Unheard(DeletedMsg(e))
         /\ \A e \in FolderRow, c \in Nat : Unheard(CountedMsg(e, c))
         /\ \A f \in Known, v \in Value : Unheard(QueriedMsg(f, v))
         /\ Unheard(FilesMsg)
<1>0. \A c \in NotifOf(Known) : c \in AnyNotif
  BY NotifsAny
<1>1. \A e \in FolderRow : Unheard(AddedMsg(e)) /\ Unheard(DeletedMsg(e))
  BY <1>0, NotifTypes DEF Unheard, AddedMsg, DeletedMsg
<1>2. \A e \in FolderRow, c \in Nat : Unheard(CountedMsg(e, c))
  BY <1>0, NotifTypes DEF Unheard, CountedMsg
<1>3. \A f \in Known, v \in Value : Unheard(QueriedMsg(f, v))
  BY <1>0, NotifTypes DEF Unheard, QueriedMsg
<1>4. Unheard(FilesMsg)
  BY <1>0, NotifTypes DEF Unheard, FilesMsg
<1> QED BY <1>1, <1>2, <1>3, <1>4

LEMMA ViewAppends ==
  ASSUME NEW s \in Seq(AnyNotif), NEW c, Unheard(c), NEW x \in Views, NEW y \in Views, Walks(ListLeads, s, x, y)
  PROVE  Walks(ListLeads, Append(s, c), x, y) /\ Append(s, c) \in Seq(AnyNotif)
<1>1. c \in AnyNotif /\ <<y, y>> \in ListLeads[c]
  BY ListSteps DEF Unheard
<1> QED BY <1>1, WalksAppend

\* An operation that leaves the content of d and tells nothing of lists.
LEMMA ListRuns ==
  ASSUME StateTyped, NEW d \in FolderRow, ListLeadsTo(d), NEW o, Ran(o), o.op # "query_folder_content",
         d \notin unlisted' => d \notin unlisted /\ content(d)' = content(d),
         \/ notifs' = notifs
         \/ \E c : Unheard(c) /\ notifs' = Append(notifs, c)
         \/ \E b, c : Unheard(b) /\ Unheard(c) /\ notifs' = Append(Append(notifs, b), c)
  PROVE  ListLeadsTo(d)'
<1>0. /\ ops # <<>> /\ ops' = Tail(ops) /\ Head(ops) = o /\ current_folder' = current_folder /\ idmap' = idmap
      /\ <<current_folder, idmap>> \in Views /\ notifs \in Seq(AnyNotif)
  BY ViewNow DEF Ran, ui, list
<1>1. /\ NoneOf(ops, Queries) => NoneOf(ops', Queries)
      /\ Final(ops, Queries, {QueryOp(d)}) => Final(ops', Queries, {QueryOp(d)})
  BY <1>0, QueriesKept
<1>2. ASSUME NEW m \in AnyContent, Walks(ListLeads, notifs, <<current_folder, idmap>>, <<d, m>>)
      PROVE  Walks(ListLeads, notifs', <<current_folder', idmap'>>, <<d, m>>)
  <2> DEFINE x == <<current_folder, idmap>>
             y == <<d, m>>
  <2>1. x \in Views /\ y \in Views /\ Walks(ListLeads, notifs, x, y) /\ <<current_folder', idmap'>> = x
    BY <1>0, <1>2 DEF Views
  <2> HIDE DEF x, y
  <2>2. ASSUME NEW c, Unheard(c), notifs' = Append(notifs, c) PROVE Walks(ListLeads, notifs', x, y)
    BY <1>0, <2>1, <2>2, ViewAppends
  <2>3. ASSUME NEW b, NEW c, Unheard(b), Unheard(c), notifs' = Append(Append(notifs, b), c) PROVE Walks(ListLeads, notifs', x, y)
    <3> DEFINE p == Append(notifs, b)
    <3>1. Walks(ListLeads, p, x, y) /\ p \in Seq(AnyNotif) /\ notifs' = Append(p, c)
      BY <1>0, <2>1, <2>3, ViewAppends
    <3> HIDE DEF p
    <3> QED BY <2>1, <2>3, <3>1, ViewAppends
  <2>4. Walks(ListLeads, notifs', x, y)
    BY <2>1, <2>2, <2>3
  <2> QED BY <2>1, <2>4 DEF y
<1>3. \A m \in AnyContent : Walks(ListLeads, notifs, <<current_folder, idmap>>, <<d, m>>) =>
        \E k \in AnyContent : /\ Walks(ListLeads, notifs', <<current_folder', idmap'>>, <<d, k>>)
                              /\ (d \notin unlisted => m = content(d)) /\ d \notin unlisted' => k = content(d)'
  <2> SUFFICES ASSUME NEW m \in AnyContent, Walks(ListLeads, notifs, <<current_folder, idmap>>, <<d, m>>)
               PROVE  \E k \in AnyContent : /\ Walks(ListLeads, notifs', <<current_folder', idmap'>>, <<d, k>>)
                                            /\ (d \notin unlisted => m = content(d)) /\ d \notin unlisted' => k = content(d)'
    OBVIOUS
  <2>1. Walks(ListLeads, notifs', <<current_folder', idmap'>>, <<d, m>>)
    BY <1>2
  <2> QED BY <2>1
<1> QED BY <1>1, <1>3, ListKept

LEMMA ListRunsQuery ==
  ASSUME StateTyped, NEW d \in FolderRow, ListLeadsTo(d), NEW e \in FolderRow, RunsQuery(e) PROVE ListLeadsTo(d)'
<1>0. /\ ops # <<>> /\ ops' = Tail(ops) /\ Head(ops) = QueryOp(e) /\ current_folder' = current_folder /\ idmap' = idmap
      /\ notifs' = Append(notifs, ContentMsg(e, content(e))) /\ parent' = parent /\ rating' = rating
      /\ unlisted' = unlisted \ {e}
  BY DEF RunsQuery, Ran, ui, list, database, QueryOp
<1>1. ops \in Seq(OpOf(Known) \cup {GetAll})
  BY NotifsTyped
<1>2. Head(ops) \in Queries
  BY <1>0 DEF Queries
<1>3. ~NoneOf(ops, Queries)
  BY <1>0, <1>1, <1>2, LastTail
<1>4. Final(Tail(ops), Queries, {QueryOp(d)}) \/ (Head(ops) \in {QueryOp(d)} /\ NoneOf(Tail(ops), Queries))
  BY <1>0, <1>1, <1>3, LastTail DEF ListLeadsTo
<1>5. CASE Final(Tail(ops), Queries, {QueryOp(d)})
  BY <1>0, <1>5, ListLeadsToAt
<1>6. CASE Head(ops) \in {QueryOp(d)} /\ NoneOf(Tail(ops), Queries)
  <2>1. e = d
    BY <1>0, <1>6 DEF QueryOp, op
  <2>2. content(d)' = content(d) /\ content(d) \in AnyContent
    BY <1>0, ContentSame, ViewNow
  <2> DEFINE x == <<current_folder, idmap>>
             c == ContentMsg(d, content(d))
  <2>3. x \in Views /\ notifs \in Seq(AnyNotif) /\ c \in AnyNotif
    BY <2>2, ViewNow, NotifTypes DEF AnyNotif, AnyContent
  <2> HIDE DEF x, c
  <2>4. PICK y \in Views : Walks(ListLeads, notifs, x, y)
    BY <2>3, ListTotal, WalksTotal
  <2>5. <<y, <<d, content(d)>>>> \in ListLeads[c]
    BY <2>2, ListSteps DEF c
  <2>6. Walks(ListLeads, Append(notifs, c), x, <<d, content(d)>>)
    BY <2>3, <2>4, <2>5, WalksAppend
  <2>7. Walks(ListLeads, notifs', <<current_folder', idmap'>>, <<d, content(d)>>)
    BY <1>0, <2>1, <2>6 DEF x, c
  <2> QED BY <1>0, <1>6, <2>2, <2>7, ListLeadsToAt
<1> QED BY <1>4, <1>5, <1>6

LEMMA ListRunsSet ==
  ASSUME StateTyped, NEW d \in FolderRow, ListLeadsTo(d), NEW f \in Known, NEW v \in Rating, RunsSet(f, v) PROVE ListLeadsTo(d)'
<1>0. /\ Ran(set_rating_op(f, v)) /\ parent' = parent /\ unlisted' = unlisted /\ set_rating_op(f, v).op = "set_metadata"
      /\ ops # <<>> /\ ops' = Tail(ops) /\ Head(ops) = set_rating_op(f, v) /\ current_folder' = current_folder /\ idmap' = idmap
  BY DEF RunsSet, Ran, ui, list, history, set_rating_op
<1>1. CASE f \notin Files
  <2>1. notifs' = notifs /\ rating' = rating
    BY <1>1 DEF RunsSet
  <2>2. content(d)' = content(d)
    BY <1>0, <2>1, ContentSame
  <2> QED BY <1>0, <2>1, <2>2, ListRuns
<1>2. CASE f \in Files
  <2>1. rating' = [rating EXCEPT ![f] = v] /\ notifs' = Append(notifs, ChangedMsg(f, v))
    BY <1>2 DEF RunsSet
  <2>2. f \in FileRow /\ rating \in [FileRow -> Value] /\ v # Absent
    BY <1>2, NiepceConstants DEF Files, StateTyped, NiepceTyped, DatabaseTyped
  <2>3. content(d)' = Patched(content(d), f, v)
    <3> DEFINE D == {g \in FileRow : parent[g] = d}
    <3>1. content(d) = [g \in D |-> IF rating[g] = Absent THEN 0 ELSE rating[g]]
      BY DEF content
    <3>2. content(d)' = [g \in D |-> IF rating'[g] = Absent THEN 0 ELSE rating'[g]]
      BY <1>0 DEF content, Absent
    <3>3. \A g \in D : rating'[g] = IF g = f THEN v ELSE rating[g]
      BY <2>1, <2>2
    <3>4. D \subseteq FileRow
      OBVIOUS
    <3> HIDE DEF D
    <3>5. content(d)' = [g \in D |-> IF g = f THEN v ELSE IF rating[g] = Absent THEN 0 ELSE rating[g]]
      BY <2>2, <3>2, <3>3
    <3>6. DOMAIN content(d) = D
      BY <3>1
    <3>7. CASE f \in D
      <4>1. Patched(content(d), f, v) = [content(d) EXCEPT ![f] = v]
        BY <3>6, <3>7 DEF Patched
      <4> QED BY <3>1, <3>5, <4>1
    <3>8. CASE f \notin D
      <4>1. Patched(content(d), f, v) = content(d)
        BY <3>6, <3>8 DEF Patched
      <4> QED BY <3>1, <3>5, <3>8, <4>1
    <3> QED BY <3>7, <3>8
  <2>4. /\ NoneOf(ops, Queries) => NoneOf(ops', Queries)
        /\ Final(ops, Queries, {QueryOp(d)}) => Final(ops', Queries, {QueryOp(d)})
    BY <1>0, QueriesKept
  <2>5. ASSUME NEW m \in AnyContent, Walks(ListLeads, notifs, <<current_folder, idmap>>, <<d, m>>)
        PROVE  Walks(ListLeads, notifs', <<current_folder', idmap'>>, <<d, Patched(m, f, v)>>) /\ Patched(m, f, v) \in AnyContent
    <3> DEFINE x == <<current_folder, idmap>>
               y == <<d, m>>
               c == ChangedMsg(f, v)
               z == <<d, Patched(m, f, v)>>
    <3>1. y \in Views /\ f \in FileRow \cup {0} /\ y[1] = d /\ y[2] = m /\ c \in AnyNotif /\ notifs \in Seq(AnyNotif)
      BY <2>2, ViewNow, NotifTypes DEF Views, AnyNotif
    <3>2. <<y, z>> \in ListLeads[c]
      BY <3>1, ListSteps
    <3> HIDE DEF x, y, z, c
    <3>3. Walks(ListLeads, notifs, x, y)
      BY <2>5 DEF x, y
    <3>4. Walks(ListLeads, Append(notifs, c), x, z)
      BY <3>1, <3>2, <3>3, WalksAppend
    <3> QED BY <1>0, <2>1, <3>4, PatchedTyped DEF x, z, c
  <2>6. \A m \in AnyContent : Walks(ListLeads, notifs, <<current_folder, idmap>>, <<d, m>>) =>
          \E k \in AnyContent : /\ Walks(ListLeads, notifs', <<current_folder', idmap'>>, <<d, k>>)
                                /\ (d \notin unlisted => m = content(d)) /\ d \notin unlisted' => k = content(d)'
    <3> SUFFICES ASSUME NEW m \in AnyContent, Walks(ListLeads, notifs, <<current_folder, idmap>>, <<d, m>>)
                 PROVE  \E k \in AnyContent : /\ Walks(ListLeads, notifs', <<current_folder', idmap'>>, <<d, k>>)
                                              /\ (d \notin unlisted => m = content(d)) /\ d \notin unlisted' => k = content(d)'
      OBVIOUS
    <3> DEFINE k == Patched(m, f, v)
    <3>1. Walks(ListLeads, notifs', <<current_folder', idmap'>>, <<d, k>>) /\ k \in AnyContent
      BY <2>5
    <3>2. (d \notin unlisted => m = content(d)) /\ d \notin unlisted' => k = content(d)'
      BY <1>0, <2>3
    <3> HIDE DEF k
    <3> QED BY <3>1, <3>2
  <2> QED BY <2>4, <2>6, ListKept
<1> QED BY <1>1, <1>2

LEMMA ListWorker ==
  ASSUME StateTyped, NEW d \in FolderRow, ListLeadsTo(d), ~Among(DeletedMsg(d), notifs'),
         \/ RunsInVain
         \/ \E e \in FolderRow : RunsQuery(e) \/ RunsCount(e) \/ RunsCreate(e) \/ RunsDelete(e) \/ RunsImport(e)
         \/ \E f \in Known : RunsRequest(f) \/ \E v \in Rating : RunsSet(f, v)
  PROVE  ListLeadsTo(d)'
<1>0. notifs \in Seq(AnyNotif) /\ parent \in [FileRow -> FolderRow \cup {0}] /\ rating \in [FileRow -> Value]
  BY NotifsAny DEF StateTyped, NiepceTyped, DatabaseTyped
<1>1. CASE RunsInVain
  <2>1. PICK o : Ran(o) /\ o.op # "query_folder_content"
    BY <1>1 DEF RunsInVain
  <2>2. notifs' = notifs /\ unlisted' = unlisted /\ parent' = parent /\ rating' = rating
    BY <1>1 DEF RunsInVain, database, history
  <2>3. content(d)' = content(d)
    BY <2>2, ContentSame
  <2> QED BY <2>1, <2>2, <2>3, ListRuns
<1>2. ASSUME NEW e \in FolderRow, RunsCount(e) PROVE ListLeadsTo(d)'
  <2>1. Ran(op("count_folder", e)) /\ op("count_folder", e).op # "query_folder_content"
    BY <1>2 DEF RunsCount, op
  <2>2. Unheard(CountedMsg(e, Count(e))) /\ notifs' = Append(notifs, CountedMsg(e, Count(e)))
        /\ unlisted' = unlisted /\ parent' = parent /\ rating' = rating
    BY <1>2, UnheardMsgs DEF RunsCount, database
  <2>3. content(d)' = content(d)
    BY <2>2, ContentSame
  <2> QED BY <2>1, <2>2, <2>3, ListRuns
<1>3. ASSUME NEW e \in FolderRow, RunsCreate(e) PROVE ListLeadsTo(d)'
  <2>1. Ran(op("create_folder", 0)) /\ op("create_folder", 0).op # "query_folder_content"
    BY <1>3 DEF RunsCreate, op
  <2>2. Unheard(AddedMsg(e)) /\ notifs' = Append(notifs, AddedMsg(e))
        /\ unlisted' = unlisted /\ parent' = parent /\ rating' = rating
    BY <1>3, UnheardMsgs DEF RunsCreate, history
  <2>3. content(d)' = content(d)
    BY <2>2, ContentSame
  <2> QED BY <2>1, <2>2, <2>3, ListRuns
<1>4. ASSUME NEW e \in FolderRow, RunsDelete(e) PROVE ListLeadsTo(d)'
  <2>1. Ran(op("delete_folder", e)) /\ op("delete_folder", e).op # "query_folder_content"
    BY <1>4 DEF RunsDelete, op
  <2>2. Unheard(DeletedMsg(e)) /\ notifs' = Append(notifs, DeletedMsg(e)) /\ DeletedMsg(e) \in AnyNotif
        /\ unlisted' = unlisted \ {e}
        /\ parent' = [f \in FileRow |-> IF parent[f] = e THEN 0 ELSE parent[f]]
        /\ rating' = [f \in FileRow |-> IF parent[f] = e THEN Absent ELSE rating[f]]
    BY <1>4, UnheardMsgs DEF RunsDelete, Unheard
  <2>3. e # d
    <3>1. Among(DeletedMsg(e), Append(notifs, DeletedMsg(e)))
      BY <1>0, <2>2, AmongStays
    <3> QED BY <2>2, <3>1
  <2>4. content(d)' = content(d)
    <3>1. \A f \in FileRow : parent'[f] = d <=> parent[f] = d
      BY <2>2, <2>3, NiepceConstants
    <3>2. \A f \in FileRow : parent[f] = d => rating'[f] = rating[f]
      BY <2>2, <2>3
    <3> QED BY <3>1, <3>2, ContentSame
  <2> QED BY <2>1, <2>2, <2>3, <2>4, ListRuns
<1>5. ASSUME NEW e \in FolderRow, RunsImport(e) PROVE ListLeadsTo(d)'
  <2>1. PICK p \in Path : Ran([op |-> "import_files", path |-> p])
    BY <1>5 DEF RunsImport
  <2>2. [op |-> "import_files", path |-> p].op # "query_folder_content" /\ unlisted' = unlisted \cup {e}
    BY <1>5 DEF RunsImport
  <2>3. notifs' = Append(notifs, FilesMsg) \/ notifs' = Append(Append(notifs, AddedMsg(e)), FilesMsg)
    BY <1>5 DEF RunsImport
  <2>4. Unheard(FilesMsg) /\ Unheard(AddedMsg(e))
    BY UnheardMsgs
  <2>5. d \notin unlisted' => content(d)' = content(d)
    <3> SUFFICES ASSUME e # d PROVE content(d)' = content(d)
      BY <2>2
    <3>1. CASE UNCHANGED <<parent, rating>>
      BY <3>1, ContentSame
    <3>2. ASSUME NEW g \in FileRow \ Files, NEW v \in Value, parent' = [parent EXCEPT ![g] = e], rating' = [rating EXCEPT ![g] = v]
          PROVE  content(d)' = content(d)
      <4>1. parent[g] = 0 /\ d # 0
        BY NiepceConstants DEF Files
      <4>2. \A f \in FileRow : parent'[f] = d <=> parent[f] = d
        BY <1>0, <3>2, <4>1
      <4>3. \A f \in FileRow : parent[f] = d => rating'[f] = rating[f]
        BY <1>0, <3>2, <4>1
      <4> QED BY <4>2, <4>3, ContentSame
    <3> QED BY <1>5, <3>1, <3>2 DEF RunsImport
  <2>6. d \notin unlisted' => d \notin unlisted /\ content(d)' = content(d)
    BY <2>2, <2>5
  <2> DEFINE o == [op |-> "import_files", path |-> p]
  <2>7. Ran(o) /\ o.op # "query_folder_content"
    BY <2>1, <2>2
  <2> HIDE DEF o
  <2> QED BY <2>3, <2>4, <2>6, <2>7, ListRuns
<1>6. ASSUME NEW f \in Known, RunsRequest(f) PROVE ListLeadsTo(d)'
  <2>1. Ran(op("request_metadata", f)) /\ op("request_metadata", f).op # "query_folder_content"
    BY <1>6 DEF RunsRequest, op
  <2>2. unlisted' = unlisted /\ parent' = parent /\ rating' = rating
        /\ (notifs' = notifs \/ (f \in Files /\ notifs' = Append(notifs, QueriedMsg(f, rating[f]))))
    BY <1>6 DEF RunsRequest, database, history
  <2>3. f \in Files => Unheard(QueriedMsg(f, rating[f]))
    BY <1>0, UnheardMsgs DEF Files
  <2>4. content(d)' = content(d)
    BY <2>2, ContentSame
  <2> QED BY <2>1, <2>2, <2>3, <2>4, ListRuns
<1> QED BY <1>1, <1>2, <1>3, <1>4, <1>5, <1>6, ListRunsQuery, ListRunsSet

\* A notification that the list takes up was delivered.
LEMMA ListTold ==
  ASSUME StateTyped, NEW d \in FolderRow, ListLeadsTo(d), NEW c, Told(c),
         \A z : <<<<current_folder, idmap>>, z>> \in ListLeads[c] => z = <<current_folder', idmap'>>,
         ops' = ops \/ \E o \in OpOf(Known) : o.op # "query_folder_content" /\ ops' = Append(ops, o)
  PROVE  ListLeadsTo(d)'
<1>0. notifs \in Seq(AnyNotif) /\ notifs # <<>> /\ Head(notifs) = c /\ notifs' = Tail(notifs)
      /\ parent' = parent /\ rating' = rating /\ unlisted' = unlisted
  BY NotifsAny DEF Told, database
<1>1. /\ NoneOf(ops, Queries) => NoneOf(ops', Queries)
      /\ Final(ops, Queries, {QueryOp(d)}) => Final(ops', Queries, {QueryOp(d)})
  BY QueriesKept
<1>2. content(d)' = content(d)
  BY <1>0, ContentSame
<1>3. ASSUME NEW m \in AnyContent, Walks(ListLeads, notifs, <<current_folder, idmap>>, <<d, m>>)
      PROVE  Walks(ListLeads, notifs', <<current_folder', idmap'>>, <<d, m>>)
  <2>1. PICK z : <<<<current_folder, idmap>>, z>> \in ListLeads[Head(notifs)] /\ Walks(ListLeads, Tail(notifs), z, <<d, m>>)
    BY <1>0, <1>3, WalksTail
  <2>2. z = <<current_folder', idmap'>>
    BY <1>0, <2>1
  <2> QED BY <1>0, <2>1, <2>2
<1>4. \A m \in AnyContent : Walks(ListLeads, notifs, <<current_folder, idmap>>, <<d, m>>) =>
        \E k \in AnyContent : /\ Walks(ListLeads, notifs', <<current_folder', idmap'>>, <<d, k>>)
                              /\ (d \notin unlisted => m = content(d)) /\ d \notin unlisted' => k = content(d)'
  <2> SUFFICES ASSUME NEW m \in AnyContent, Walks(ListLeads, notifs, <<current_folder, idmap>>, <<d, m>>)
               PROVE  \E k \in AnyContent : /\ Walks(ListLeads, notifs', <<current_folder', idmap'>>, <<d, k>>)
                                            /\ (d \notin unlisted => m = content(d)) /\ d \notin unlisted' => k = content(d)'
    OBVIOUS
  <2>1. Walks(ListLeads, notifs', <<current_folder', idmap'>>, <<d, m>>)
    BY <1>3
  <2> QED BY <1>0, <1>2, <2>1
<1> QED BY <1>1, <1>4, ListKept

\* Another notification than the two the list takes up.
LEMMA ListToldUnheard ==
  ASSUME StateTyped, NEW d \in FolderRow, ListLeadsTo(d), NEW c, Told(c), Unheard(c), UNCHANGED <<current_folder, idmap>>,
         ops' = ops \/ \E o \in OpOf(Known) : o.op # "query_folder_content" /\ ops' = Append(ops, o)
  PROVE  ListLeadsTo(d)'
<1>1. <<current_folder, idmap>> \in Views
  BY ViewNow
<1>2. \A z : <<<<current_folder, idmap>>, z>> \in ListLeads[c] => z = <<current_folder', idmap'>>
  BY <1>1, ListSteps DEF Unheard
<1> QED BY <1>2, ListTold

\* A folder is selected: its content is asked for last.
LEMMA ListSelects ==
  ASSUME StateTyped, NEW d \in FolderRow, ops' = Append(ops, QueryOp(d)) PROVE ListLeadsTo(d)'
<1>1. ops \in Seq(OpOf(Known) \cup {GetAll}) /\ QueryOp(d) \in OpOf(Known) \cup {GetAll} /\ QueryOp(d) \in {QueryOp(d)}
  BY NotifsTyped, OpTypes DEF QueryOp
<1>2. Final(Append(ops, QueryOp(d)), Queries, {QueryOp(d)})
  BY <1>1, LastAppend
<1> QED BY <1>2, ListLeadsToAt

LEMMA ListMainLoop == ASSUME StateTyped, ListInv, MainLoop PROVE ListInv'
<1> SUFFICES ASSUME NEW d \in FolderRow, selected_folder' = d, ~Among(DeletedMsg(d), notifs') PROVE ListLeadsTo(d)'
  BY DEF ListInv, DeletedMsg
<1>0. notifs \in Seq(AnyNotif) /\ <<current_folder, idmap>> \in Views /\ d # 0
  BY ViewNow, NiepceConstants
<1>1. ASSUME NEW c, Told(c), c # DeletedMsg(d), selected_folder' = selected_folder PROVE ListLeadsTo(d)
  <2>1. ~Among(DeletedMsg(d), notifs)
    BY <1>0, <1>1, AmongStays DEF Told
  <2> QED BY <1>1, <2>1 DEF ListInv
<1>2. ASSUME NEW c, Told(c), c # DeletedMsg(d), Unheard(c), UNCHANGED <<selected_folder, list, ops>> PROVE ListLeadsTo(d)'
  <2>1. UNCHANGED <<current_folder, idmap, ops>>
    BY <1>2 DEF list
  <2> QED BY <1>1, <1>2, <2>1, ListToldUnheard
<1>d. DeletedMsg(d).n = "FolderDeleted"
  BY DEF DeletedMsg
<1>3. CASE TellsFiles
  <2>1. FilesMsg # DeletedMsg(d)
    BY <1>d DEF FilesMsg
  <2> QED BY <1>2, <1>3, <2>1, UnheardMsgs DEF TellsFiles
<1>4. ASSUME NEW e \in FolderRow, TellsAdded(e) PROVE ListLeadsTo(d)'
  <2>1. AddedMsg(e) # DeletedMsg(d) /\ op("count_folder", e).op # "query_folder_content" /\ op("count_folder", e) \in OpOf(Known)
    <3>1. AddedMsg(e).n = "AddedFolder"
      BY DEF AddedMsg
    <3>2. op("count_folder", e).op # "query_folder_content"
      BY DEF op
    <3> QED BY <1>d, <3>1, <3>2, OpTypes
  <2>2. Told(AddedMsg(e)) /\ ops' = Append(ops, op("count_folder", e)) /\ UNCHANGED <<selected_folder, current_folder, idmap>>
    BY <1>4 DEF TellsAdded, list
  <2> QED BY <1>1, <2>1, <2>2, UnheardMsgs, ListToldUnheard
<1>5. ASSUME NEW e \in FolderRow, TellsDeleted(e) PROVE ListLeadsTo(d)'
  <2>0. Told(DeletedMsg(e))
    BY <1>5 DEF TellsDeleted
  <2>1. CASE e # selected_folder /\ UNCHANGED <<selected_folder, ops, list, pane>>
    <3>1. DeletedMsg(e) # DeletedMsg(d)
      BY <2>1 DEF DeletedMsg
    <3> QED BY <1>2, <2>0, <2>1, <3>1, UnheardMsgs
  <2>2. CASE selected_folder' = 0
    BY <1>0, <2>2
  <2>3. ASSUME NEW g \in (Items \ {e}) \cup {0}, on_libtree_selection(g) PROVE ListLeadsTo(d)'
    <3>1. g = d /\ ops' = Append(ops, QueryOp(d))
      BY <1>0, <2>3 DEF on_libtree_selection, schedule_op, QueryOp
    <3> QED BY <3>1, ListSelects
  <2> QED BY <1>5, <2>1, <2>2, <2>3 DEF TellsDeleted
<1>6. ASSUME NEW e \in FolderRow, NEW c \in Nat, TellsCounted(e, c) PROVE ListLeadsTo(d)'
  <2>1. CountedMsg(e, c) # DeletedMsg(d)
    <3>1. CountedMsg(e, c).n = "FolderCounted"
      BY DEF CountedMsg
    <3> QED BY <1>d, <3>1
  <2> QED BY <1>2, <1>6, <2>1, UnheardMsgs DEF TellsCounted
<1>7. ASSUME NEW e \in FolderRow, NEW m \in ContentOf(Known), TellsContent(e, m) PROVE ListLeadsTo(d)'
  <2>1. ContentMsg(e, m) # DeletedMsg(d)
    <3>1. ContentMsg(e, m).n = "FolderContentQueried"
      BY DEF ContentMsg
    <3> QED BY <1>d, <3>1
  <2>2. Told(ContentMsg(e, m)) /\ current_folder' = e /\ idmap' = m /\ UNCHANGED <<ops, selected_folder>> /\ m \in AnyContent
    BY <1>7, ViewNow DEF TellsContent
  <2>3. \A z : <<<<current_folder, idmap>>, z>> \in ListLeads[ContentMsg(e, m)] => z = <<current_folder', idmap'>>
    BY <1>0, <2>2, ListSteps
  <2> QED BY <1>1, <2>1, <2>2, <2>3, ListTold
<1>8. ASSUME NEW f \in Known, NEW v \in Value, TellsQueried(f, v) PROVE ListLeadsTo(d)'
  <2>1. QueriedMsg(f, v) # DeletedMsg(d)
    <3>1. QueriedMsg(f, v).n = "MetadataQueried"
      BY DEF QueriedMsg
    <3> QED BY <1>d, <3>1
  <2> QED BY <1>2, <1>8, <2>1, UnheardMsgs DEF TellsQueried
<1>9. ASSUME NEW f \in Known, NEW v \in Rating, TellsChanged(f, v) PROVE ListLeadsTo(d)'
  <2>1. ChangedMsg(f, v) # DeletedMsg(d)
    <3>1. ChangedMsg(f, v).n = "MetadataChanged"
      BY DEF ChangedMsg
    <3> QED BY <1>d, <3>1
  <2>2. /\ Told(ChangedMsg(f, v)) /\ current_folder' = current_folder /\ idmap' = Patched(idmap, f, v) /\ UNCHANGED selected_folder
        /\ ops' = ops \/ ops' = Append(ops, op("request_metadata", f))
    BY <1>9 DEF TellsChanged, Patched
  <2>3. op("request_metadata", f) \in OpOf(Known) /\ op("request_metadata", f).op # "query_folder_content" /\ f \in FileRow \cup {0}
    BY OpTypes, KnownRows DEF op
  <2>4. \A z : <<<<current_folder, idmap>>, z>> \in ListLeads[ChangedMsg(f, v)] => z = <<current_folder', idmap'>>
    <3> DEFINE x == <<current_folder, idmap>>
    <3>1. x \in Views /\ x[1] = current_folder /\ x[2] = idmap
      BY <1>0
    <3> HIDE DEF x
    <3>2. \A z : <<x, z>> \in ListLeads[ChangedMsg(f, v)] => z = <<x[1], Patched(x[2], f, v)>>
      BY <2>3, <3>1, ListSteps
    <3>3. \A z : <<x, z>> \in ListLeads[ChangedMsg(f, v)] => z = <<current_folder', idmap'>>
      BY <2>2, <3>1, <3>2
    <3> QED BY <3>3 DEF x
  <2> QED BY <1>1, <2>1, <2>2, <2>3, <2>4, ListTold
<1> QED BY <1>3, <1>4, <1>5, <1>6, <1>7, <1>8, <1>9, MainLoopTells

\* What the worker tells in one step.
LEMMA WorkerTells ==
  ASSUME StateTyped,
         \/ RunsInVain
         \/ \E e \in FolderRow : RunsQuery(e) \/ RunsCount(e) \/ RunsCreate(e) \/ RunsDelete(e) \/ RunsImport(e)
         \/ \E f \in Known : RunsRequest(f) \/ \E v \in Rating : RunsSet(f, v)
  PROVE  \/ notifs' = notifs
         \/ \E c \in AnyNotif : notifs' = Append(notifs, c)
         \/ \E b \in AnyNotif, c \in AnyNotif : notifs' = Append(Append(notifs, b), c)
<1>0. /\ \A c \in NotifOf(Known) : c \in AnyNotif
      /\ \A f \in Files : rating[f] \in Value
  BY NotifsAny DEF StateTyped, NiepceTyped, DatabaseTyped, Files
<1>1. \A e \in FolderRow : RunsQuery(e) => \E c \in AnyNotif : notifs' = Append(notifs, c)
  BY <1>0, NotifTypes DEF RunsQuery
<1>2. \A e \in FolderRow : RunsCount(e) => \E c \in AnyNotif : notifs' = Append(notifs, c)
  BY <1>0, NotifTypes DEF RunsCount
<1>3. \A e \in FolderRow : RunsCreate(e) \/ RunsDelete(e) => \E c \in AnyNotif : notifs' = Append(notifs, c)
  BY <1>0, NotifTypes DEF RunsCreate, RunsDelete
<1>4. \A e \in FolderRow : RunsImport(e) => \/ \E c \in AnyNotif : notifs' = Append(notifs, c)
                                            \/ \E b \in AnyNotif, c \in AnyNotif : notifs' = Append(Append(notifs, b), c)
  BY <1>0, NotifTypes DEF RunsImport
<1>5. \A f \in Known : RunsRequest(f) => notifs' = notifs \/ \E c \in AnyNotif : notifs' = Append(notifs, c)
  BY <1>0, NotifTypes DEF RunsRequest
<1>6. \A f \in Known, v \in Rating : RunsSet(f, v) => notifs' = notifs \/ \E c \in AnyNotif : notifs' = Append(notifs, c)
  BY <1>0, NotifTypes DEF RunsSet
<1>7. RunsInVain => notifs' = notifs
  BY DEF RunsInVain
<1> QED BY <1>1, <1>2, <1>3, <1>4, <1>5, <1>6, <1>7

LEMMA ListUser ==
  ASSUME StateTyped, ListInv, UNCHANGED <<database, notifs, selected_folder, current_folder, idmap, unlisted>>,
         ops' = ops \/ \E o \in OpOf(Known) : o.op # "query_folder_content" /\ ops' = Append(ops, o)
  PROVE  ListInv'
<1> SUFFICES ASSUME NEW d \in FolderRow, selected_folder' = d, ~Among(DeletedMsg(d), notifs') PROVE ListLeadsTo(d)'
  BY DEF ListInv, DeletedMsg
<1>1. ListLeadsTo(d)
  BY DEF ListInv
<1>2. /\ NoneOf(ops, Queries) => NoneOf(ops', Queries)
      /\ Final(ops, Queries, {QueryOp(d)}) => Final(ops', Queries, {QueryOp(d)})
  BY QueriesKept
<1>3. content(d)' = content(d)
  BY ContentSame DEF database
<1> QED BY <1>1, <1>2, <1>3, ListKept

LEMMA ListStep == ASSUME StateTyped, ListInv, [Next]_vars PROVE ListInv'
<1>1. CASE Restart
  <2>1. selected_folder' = 0
    BY <1>1 DEF Restart
  <2> QED BY <2>1, NiepceConstants DEF ListInv
<1>2. CASE UserQueues
  <2>1. UNCHANGED <<database, notifs, selected_folder, current_folder, idmap, unlisted>>
    BY <1>2 DEF UserQueues
  <2>2. \E o \in OpOf(Known) : o.op # "query_folder_content" /\ ops' = Append(ops, o)
    <3>1. PICK o \in OpOf(Known) : /\ ops' = Append(ops, o)
                                   /\ \/ o.op \in {"create_folder", "delete_folder", "import_files"}
                                      \/ \E f \in FileRow : o = op("request_metadata", f)
                                      \/ o.op = "set_metadata"
      BY <1>2 DEF UserQueues
    <3>2. o.op # "query_folder_content"
      BY <3>1 DEF op
    <3> QED BY <3>1, <3>2
  <2> QED BY <2>1, <2>2, ListUser
<1>3. ASSUME NEW e \in FolderRow \cup {0}, select_item(e) PROVE ListInv'
  <2> SUFFICES ASSUME NEW d \in FolderRow, selected_folder' = d PROVE ListLeadsTo(d)'
    BY DEF ListInv
  <2>1. e = d /\ ops' = Append(ops, QueryOp(d))
    BY <1>3, NiepceConstants DEF select_item, on_libtree_selection, schedule_op, QueryOp
  <2> QED BY <2>1, ListSelects
<1>4. CASE cmd_list_all_folders
  <2>1. Starting /\ selected_folder' = selected_folder
    BY <1>4, ListsTyped DEF ui
  <2>2. \A d \in FolderRow : folderidmap[d] = NoItem
    BY <2>1 DEF StateTyped, StartInv
  <2>3. selected_folder' = 0
    BY <2>1, <2>2, ShownNow
  <2> QED BY <2>3, NiepceConstants DEF ListInv
<1>5. CASE Worker /\ ~cmd_list_all_folders
  <2> SUFFICES ASSUME NEW d \in FolderRow, selected_folder' = d, ~Among(DeletedMsg(d), notifs') PROVE ListLeadsTo(d)'
    BY DEF ListInv, DeletedMsg
  <2>1. \/ RunsInVain
        \/ \E e \in FolderRow : RunsQuery(e) \/ RunsCount(e) \/ RunsCreate(e) \/ RunsDelete(e) \/ RunsImport(e)
        \/ \E f \in Known : RunsRequest(f) \/ \E v \in Rating : RunsSet(f, v)
    BY <1>5, WorkerRuns
  <2>2. selected_folder' = selected_folder
    BY <2>1 DEF RunsInVain, RunsQuery, RunsCount, RunsCreate, RunsDelete, RunsImport, RunsRequest, RunsSet, Ran, ui
  <2>3. ~Among(DeletedMsg(d), notifs)
    <3>1. notifs' = notifs \/ (\E c \in AnyNotif : notifs' = Append(notifs, c))
          \/ \E b \in AnyNotif, c \in AnyNotif : notifs' = Append(Append(notifs, b), c)
      BY <2>1, WorkerTells
    <3>2. notifs \in Seq(AnyNotif)
      BY NotifsAny
    <3>3. \A c \in AnyNotif : Among(DeletedMsg(d), notifs) => Among(DeletedMsg(d), Append(notifs, c))
      BY <3>2, AmongStays
    <3>4. \A b, c \in AnyNotif : Among(DeletedMsg(d), notifs) => Among(DeletedMsg(d), Append(Append(notifs, b), c))
      <4> SUFFICES ASSUME NEW b \in AnyNotif, NEW c \in AnyNotif, Among(DeletedMsg(d), notifs)
                   PROVE  Among(DeletedMsg(d), Append(Append(notifs, b), c))
        OBVIOUS
      <4> DEFINE p == Append(notifs, b)
      <4>1. p \in Seq(AnyNotif) /\ Among(DeletedMsg(d), p)
        BY <3>2, <3>3
      <4> HIDE DEF p
      <4>2. Among(DeletedMsg(d), Append(p, c))
        BY <4>1, AmongStays
      <4> QED BY <4>2 DEF p
    <3> QED BY <3>1, <3>3, <3>4
  <2>4. ListLeadsTo(d)
    BY <2>2, <2>3 DEF ListInv
  <2> QED BY <2>1, <2>4, ListWorker
<1>6. CASE MainLoop
  BY <1>6, ListMainLoop
<1>7. CASE UNCHANGED vars
  <2>1. UNCHANGED <<database, notifs, selected_folder, current_folder, idmap, unlisted, ops>>
    BY <1>7 DEF vars, channels, list, history
  <2> QED BY <2>1, ListUser
<1> QED BY <1>1, <1>2, <1>3, <1>4, <1>5, <1>6, <1>7, UserQueuesOps DEF Next

\* Once everything asked for is done, the list holds the files of the folder
\* selected in the tree, with their ratings, whatever was selected, deleted
\* or edited meanwhile; only what an import has since added is missing.
THEOREM NiepceListFollowsTree == Spec => []ListFollowsTree
<1>1. Init => StateTyped /\ CountsInv /\ ListInv
  <2> SUFFICES ASSUME Init PROVE StateTyped /\ CountsInv /\ ListInv
    OBVIOUS
  <2>1. ops = <<GetAll>> /\ selected_folder = 0
    BY DEF Init, GetAll
  <2>2. ops # <<>> /\ Head(ops) = GetAll
    BY <2>1
  <2> QED BY <2>1, <2>2, InitTyped, NiepceConstants DEF StateTyped, CountsInv, ListInv, Starting
<1>2. StateTyped /\ CountsInv /\ ListInv /\ [Next]_vars => (StateTyped /\ CountsInv /\ ListInv)'
  BY StateTypedStep, CountsStep, ListStep
<1>3. StateTyped /\ CountsInv /\ ListInv => ListFollowsTree
  <2> SUFFICES ASSUME StateTyped, CountsInv, ListInv, Quiet, selected_folder # 0
               PROVE  /\ current_folder = selected_folder
                      /\ selected_folder \in Folders
                      /\ selected_folder \notin unlisted => idmap = content(selected_folder)
    BY DEF ListFollowsTree
  <2> DEFINE d == selected_folder
  <2>1. d \in FolderRow /\ folderidmap[d] # NoItem /\ ops = <<>> /\ notifs = <<>>
    BY ShownNow DEF Quiet
  <2>2. d \in Folders
    BY <2>1, CountsSettled DEF CountsSettle
  <2>3. ~Among(DeletedMsg(d), <<>>)
    BY DEF Among
  <2>4. ListLeadsTo(d)
    BY <2>1, <2>3 DEF ListInv
  <2>5. ListSettles(d)
    BY <2>1, <2>4, LastNothing DEF ListLeadsTo
  <2>6. PICK m \in AnyContent : Walks(ListLeads, <<>>, <<current_folder, idmap>>, <<d, m>>) /\ (d \notin unlisted => m = content(d))
    BY <2>1, <2>5 DEF ListSettles
  <2>7. <<current_folder, idmap>> = <<d, m>>
    BY <2>6, WalksNowhere
  <2>8. current_folder = d /\ idmap = m
    BY <2>7
  <2> QED BY <2>2, <2>6, <2>8
<1> QED BY <1>1, <1>2, <1>3, PTL DEF Spec

-----------------------------------------------------------------------------
(* The thumbnail cache.                                                    *)

\* The flag is up while tasks are queued, and up only if some thread is
\* still to test it or died since: the argument of NoStrandedTask.
FlagInv ==
  /\ queue # <<>> => running
  /\ running => orphaned \/ \E w \in Loader : ~At(w, "none")

\* A thread holds a task exactly in execute().
HoldInv == \A w \in Loader : task[w] # None <=> pc[w] \in Busy

NoDup(s) == \A i, j \in 1..Len(s) : s[i] = s[j] => i = j

\* A thread is about to announce the thumbnail of f, or one did.
Announces(w, f) ==
  /\ task[w] # None /\ fileOf(w) = f
  /\ pix[w] /\ pc[w] \in {"save", "status", "notify"}

Delivering(f) == f \in loaded \/ \E w \in Loader : Announces(w, f)

\* Whoever may come back empty-handed (or already did) leaves a thread that
\* will announce the thumbnail: only the writer makes the file partial, and
\* the writer announces what it wrote.
DeliverInv ==
  \A f \in Readable \ Torn :
    /\ cache[f] = "partial" => Delivering(f)
    /\ \A w \in Loader : task[w] # None /\ fileOf(w) = f =>
         /\ pc[w] = "load" => cache[f] # "absent"
         /\ pc[w] = "save" => Delivering(f)
         /\ pc[w] \in {"status", "notify"} /\ present[f] => Delivering(f)
    /\ \A r \in finished : FileOf[r] = f /\ present[f] => Delivering(f)

OnceInv ==
  /\ PoppedInOrder
  /\ NoDup(asked)
  /\ HoldInv
  /\ ExecutedOnce

CacheInv == TypeOK /\ FlagInv /\ OnceInv /\ DeliverInv
-----------------------------------------------------------------------------
\* Popping the head of q leaves the same sequence behind p.
LEMMA PopSeq ==
  ASSUME NEW p \in Seq(Request), NEW q \in Seq(Request), q # <<>>
  PROVE  /\ Head(q) \in Request /\ Tail(q) \in Seq(Request)
         /\ p \o q = Append(p, Head(q)) \o Tail(q)
<1>1. Head(q) \in Request /\ Tail(q) \in Seq(Request)
  BY HeadTailProperties
<1>2. q = <<Head(q)>> \o Tail(q)
  OBVIOUS
<1>3. <<Head(q)>> \in Seq(Request)
  BY <1>1
<1>4. (p \o <<Head(q)>>) \o Tail(q) = p \o (<<Head(q)>> \o Tail(q))
  BY <1>1, <1>3, ConcatAssociative
<1>5. Append(p, Head(q)) = p \o <<Head(q)>>
  BY <1>1, AppendIsConcat, Zenon
<1> QED BY <1>1, <1>2, <1>4, <1>5, Zenon

\* Pushing at the end of q is pushing at the end of both.
LEMMA PushSeq ==
  ASSUME NEW p \in Seq(Request), NEW q \in Seq(Request), NEW r \in Request
  PROVE  Append(p \o q, r) = p \o Append(q, r)
<1>1. <<r>> \in Seq(Request)
  OBVIOUS
<1>2. (p \o q) \o <<r>> = p \o (q \o <<r>>)
  BY <1>1, ConcatAssociative
<1>3. Append(p \o q, r) = (p \o q) \o <<r>> /\ Append(q, r) = q \o <<r>>
  <2>1. p \o q \in Seq(Request)
    OBVIOUS
  <2> QED BY <2>1, AppendIsConcat, Zenon
<1> QED BY <1>2, <1>3, Zenon

\* The head of the queue was not popped before.
LEMMA HeadIsNew ==
  \A a, p, q \in Seq(Request) :
    a = p \o q /\ NoDup(a) /\ q # <<>> => ~InSeq(Head(q), p)
<1> SUFFICES ASSUME NEW a \in Seq(Request), NEW p \in Seq(Request), NEW q \in Seq(Request),
                    a = p \o q, NoDup(a), q # <<>>, InSeq(Head(q), p)
             PROVE  FALSE
  OBVIOUS
<1>1. PICK i \in 1..Len(p) : p[i] = Head(q)
  BY DEF InSeq
<1>2. a[i] = p[i] /\ i \in 1..Len(a)
  OBVIOUS
<1>3. a[Len(p) + 1] = Head(q) /\ Len(p) + 1 \in 1..Len(a)
  OBVIOUS
<1>4. i = Len(p) + 1
  BY <1>1, <1>2, <1>3 DEF NoDup
<1>5. QED
  BY <1>1, <1>4

LEMMA AppendIn ==
  \A p \in Seq(Request) : \A x, r \in Request :
    InSeq(x, Append(p, r)) <=> InSeq(x, p) \/ x = r
<1> SUFFICES ASSUME NEW p \in Seq(Request), NEW x \in Request, NEW r \in Request
             PROVE  InSeq(x, Append(p, r)) <=> InSeq(x, p) \/ x = r
  OBVIOUS
<1>1. /\ Len(Append(p, r)) = Len(p) + 1
      /\ \A i \in 1..Len(p) : Append(p, r)[i] = p[i]
      /\ Append(p, r)[Len(p) + 1] = r
      /\ DOMAIN p = 1..Len(p) /\ DOMAIN Append(p, r) = 1..(Len(p) + 1)
  OBVIOUS
<1>2. QED
  BY <1>1 DEF InSeq
-----------------------------------------------------------------------------
(* The inductive invariant.                                                *)

LEMMA CacheInvInit == CacheInit => CacheInv
<1> SUFFICES ASSUME CacheInit PROVE CacheInv
  OBVIOUS
<1> USE CacheAssumption
<1>1. TypeOK
  <2>1. queue \in Seq(Request) /\ asked \in Seq(Request) /\ popped \in Seq(Request)
    BY DEF CacheInit
  <2>2. /\ running \in BOOLEAN /\ finished \subseteq Request
        /\ died \subseteq Request /\ orphaned \in BOOLEAN
        /\ loaded \subseteq File /\ missing \subseteq File
        /\ cache \in [File -> {"absent", "partial", "full"}] /\ present \in [File -> BOOLEAN]
    BY DEF CacheInit
  <2>3. /\ pc \in [Loader -> {"none", "loop", "pop", "check"} \cup Busy]
        /\ task \in [Loader -> Request \cup {None}] /\ pix \in [Loader -> BOOLEAN]
    BY DEF CacheInit
  <2>4. QED
    BY <2>1, <2>2, <2>3 DEF TypeOK
<1>2. FlagInv
  BY DEF CacheInit, FlagInv
<1>3. PoppedInOrder /\ NoDup(asked)
  BY DEF CacheInit, PoppedInOrder, NoDup
<1>4. HoldInv
  BY DEF CacheInit, HoldInv, Busy
<1>5. ExecutedOnce
  BY DEF CacheInit, ExecutedOnce, InSeq
<1>6. DeliverInv
  BY DEF CacheInit, DeliverInv
<1>7. QED
  BY <1>1, <1>2, <1>3, <1>4, <1>5, <1>6 DEF CacheInv, OnceInv

LEMMA CacheTypeStep == CacheInv /\ [CacheNext]_cache_vars => TypeOK'
<1> SUFFICES ASSUME CacheInv, [CacheNext]_cache_vars PROVE TypeOK'
  OBVIOUS
<1> USE CacheAssumption DEF CacheInv, TypeOK, Busy, work, cache_history, Goto, At, fileOf
<1>1. ASSUME NEW r \in Request, schedule(r) PROVE TypeOK'
  <2>1. queue' \in Seq(Request) /\ asked' \in Seq(Request)
    <3>1. queue' = Append(queue, r) /\ asked' = Append(asked, r)
      BY <1>1 DEF schedule
    <3>2. QED
      BY <3>1
  <2>2. running' \in BOOLEAN /\ orphaned' \in BOOLEAN /\ pc' \in [Loader -> {"none", "loop", "pop", "check"} \cup Busy]
    BY <1>1 DEF schedule, spawn
  <2>3. UNCHANGED <<task, pix, cache, present, popped, finished, died, loaded, missing>>
    BY <1>1 DEF schedule
  <2>4. QED
    BY <2>1, <2>2, <2>3
<1>2. ASSUME NEW w \in Loader, load_running(w) PROVE TypeOK'
  BY <1>2 DEF load_running
<1>3. ASSUME NEW w \in Loader, pop_front(w) PROVE TypeOK'
  <2>1. CASE queue = <<>>
    BY <1>3, <2>1 DEF pop_front
  <2>2. CASE queue # <<>>
    <3>1. Head(queue) \in Request /\ Tail(queue) \in Seq(Request)
      BY <2>2
    <3>2. /\ task' = [task EXCEPT ![w] = Head(queue)] /\ queue' = Tail(queue)
          /\ popped' = Append(popped, Head(queue)) /\ pc' = [pc EXCEPT ![w] = "lookup"]
          /\ UNCHANGED <<running, pix, cache, present, asked, finished, died, orphaned, loaded, missing>>
      BY <1>3, <2>2 DEF pop_front
    <3>3. popped' \in Seq(Request)
      BY <3>1, <3>2
    <3>4. task' \in [Loader -> Request \cup {None}] /\ queue' \in Seq(Request)
      BY <3>1, <3>2
    <3>5. pc' \in [Loader -> {"none", "loop", "pop", "check"} \cup Busy]
      BY <3>2
    <3>6. QED
      BY <3>2, <3>3, <3>4, <3>5
  <2>3. QED
    BY <2>1, <2>2
<1>4. ASSUME NEW w \in Loader, check_empty(w) PROVE TypeOK'
  BY <1>4 DEF check_empty
<1>5. ASSUME NEW w \in Loader, lookup(w) PROVE TypeOK'
  BY <1>5 DEF lookup, is_thumbnail_cached
<1>5a. ASSUME NEW w \in Loader, lookup_panics(w) PROVE TypeOK'
  <2>1. task[w] \in Request
    BY <1>5a DEF lookup_panics, OnceInv, HoldInv
  <2>2. QED
    BY <1>5a, <2>1 DEF lookup_panics
<1>6. ASSUME NEW w \in Loader, load_cached(w) PROVE TypeOK'
  BY <1>6 DEF load_cached
<1>7. ASSUME NEW w \in Loader, create(w) PROVE TypeOK'
  BY <1>7 DEF create
<1>8. ASSUME NEW w \in Loader, end_save(w) PROVE TypeOK'
  BY <1>8 DEF end_save
<1>9. ASSUME NEW w \in Loader, check_status(w) PROVE TypeOK'
  <2>1. task[w] \in Request
    BY <1>9 DEF check_status, OnceInv, HoldInv
  <2>2. QED
    BY <1>9, <2>1 DEF check_status
<1>10. ASSUME NEW w \in Loader, notify(w) PROVE TypeOK'
  <2>1. task[w] \in Request
    BY <1>10 DEF notify, OnceInv, HoldInv
  <2>2. QED
    BY <1>10, <2>1 DEF notify
<1>11. ASSUME NEW f \in File, remove_picture(f) PROVE TypeOK'
  BY <1>11 DEF remove_picture
<1>12. CASE UNCHANGED cache_vars
  BY <1>12 DEF cache_vars
<1>13. QED
  BY <1>1, <1>2, <1>3, <1>4, <1>5, <1>5a, <1>6, <1>7, <1>8, <1>9, <1>10, <1>11, <1>12 DEF CacheNext, Thread

LEMMA FlagStep == CacheInv /\ [CacheNext]_cache_vars => FlagInv'
<1> SUFFICES ASSUME CacheInv, [CacheNext]_cache_vars PROVE FlagInv'
  OBVIOUS
<1> USE DEF CacheInv, TypeOK, FlagInv, Busy, work, cache_history, Goto, At
<1>1. ASSUME NEW r \in Request, schedule(r) PROVE FlagInv'
  BY <1>1 DEF schedule, spawn
<1>2. ASSUME NEW w \in Loader, load_running(w) PROVE FlagInv'
  BY <1>2 DEF load_running
<1>3. ASSUME NEW w \in Loader, pop_front(w) PROVE FlagInv'
  BY <1>3 DEF pop_front
<1>4. ASSUME NEW w \in Loader, check_empty(w) PROVE FlagInv'
  BY <1>4 DEF check_empty
<1>5. ASSUME NEW w \in Loader, lookup(w) PROVE FlagInv'
  BY <1>5 DEF lookup, is_thumbnail_cached
<1>5a. ASSUME NEW w \in Loader, lookup_panics(w) PROVE FlagInv'
  BY <1>5a DEF lookup_panics
<1>6. ASSUME NEW w \in Loader, load_cached(w) PROVE FlagInv'
  BY <1>6 DEF load_cached
<1>7. ASSUME NEW w \in Loader, create(w) PROVE FlagInv'
  BY <1>7 DEF create
<1>8. ASSUME NEW w \in Loader, end_save(w) PROVE FlagInv'
  BY <1>8 DEF end_save
<1>9. ASSUME NEW w \in Loader, check_status(w) PROVE FlagInv'
  BY <1>9 DEF check_status
<1>10. ASSUME NEW w \in Loader, notify(w) PROVE FlagInv'
  BY <1>10 DEF notify
<1>11. ASSUME NEW f \in File, remove_picture(f) PROVE FlagInv'
  BY <1>11 DEF remove_picture
<1>12. CASE UNCHANGED cache_vars
  BY <1>12 DEF cache_vars
<1>13. QED
  BY <1>1, <1>2, <1>3, <1>4, <1>5, <1>5a, <1>6, <1>7, <1>8, <1>9, <1>10, <1>11, <1>12 DEF CacheNext, Thread

LEMMA CacheOrderStep == CacheInv /\ [CacheNext]_cache_vars => PoppedInOrder' /\ NoDup(asked)'
<1> SUFFICES ASSUME CacheInv, [CacheNext]_cache_vars PROVE PoppedInOrder' /\ NoDup(asked)'
  OBVIOUS
<1> USE DEF CacheInv, TypeOK, OnceInv, PoppedInOrder, work, cache_history
<1>1. ASSUME NEW r \in Request, schedule(r) PROVE PoppedInOrder' /\ NoDup(asked)'
  <2>1. queue' = Append(queue, r) /\ asked' = Append(asked, r) /\ UNCHANGED popped
    BY <1>1 DEF schedule
  <2>2. ~InSeq(r, asked)
    BY <1>1 DEF schedule
  <2>3. asked' = popped' \o queue'
    <3>1. popped \in Seq(Request) /\ queue \in Seq(Request)
      OBVIOUS
    <3>2. Append(popped \o queue, r) = popped \o Append(queue, r)
      BY <3>1, PushSeq, Zenon
    <3>3. QED
      BY <2>1, <3>2
  <2>4. NoDup(asked')
    <3>1. /\ Len(asked') = Len(asked) + 1 /\ asked'[Len(asked) + 1] = r
          /\ \A i \in 1..Len(asked) : asked'[i] = asked[i]
      BY <2>1
    <3>2. DOMAIN asked = 1..Len(asked) /\ Len(asked) \in Nat
      OBVIOUS
    <3>3. \A i \in 1..Len(asked) : asked[i] # r
      BY <2>2, <3>2 DEF InSeq
    <3>4. NoDup(asked)
      OBVIOUS
    <3>5. \A i, j \in 1..(Len(asked) + 1) : asked'[i] = asked'[j] => i = j
      BY ONLY <3>1, <3>2, <3>3, <3>4 DEF NoDup
    <3>6. QED
      BY <3>1, <3>5 DEF NoDup
  <2>5. QED
    BY <2>3, <2>4
<1>2. ASSUME NEW w \in Loader, load_running(w) PROVE PoppedInOrder' /\ NoDup(asked)'
  BY <1>2 DEF load_running
<1>3. ASSUME NEW w \in Loader, pop_front(w) PROVE PoppedInOrder' /\ NoDup(asked)'
  <2>1. CASE queue = <<>>
    BY <1>3, <2>1 DEF pop_front
  <2>2. CASE queue # <<>>
    <3>1. popped \in Seq(Request) /\ queue \in Seq(Request)
      OBVIOUS
    <3>2. popped \o queue = Append(popped, Head(queue)) \o Tail(queue)
      BY <2>2, <3>1, PopSeq, Zenon
    <3>3. queue' = Tail(queue) /\ popped' = Append(popped, Head(queue)) /\ asked' = asked
      BY <1>3, <2>2 DEF pop_front
    <3>4. asked' = popped' \o queue'
      BY <3>2, <3>3, Zenon DEF PoppedInOrder
    <3>5. QED
      BY <3>3, <3>4
  <2>3. QED
    BY <2>1, <2>2
<1>4. ASSUME NEW w \in Loader, check_empty(w) PROVE PoppedInOrder' /\ NoDup(asked)'
  BY <1>4 DEF check_empty
<1>5. ASSUME NEW w \in Loader, lookup(w) PROVE PoppedInOrder' /\ NoDup(asked)'
  BY <1>5 DEF lookup, is_thumbnail_cached
<1>5a. ASSUME NEW w \in Loader, lookup_panics(w) PROVE PoppedInOrder' /\ NoDup(asked)'
  BY <1>5a DEF lookup_panics
<1>6. ASSUME NEW w \in Loader, load_cached(w) PROVE PoppedInOrder' /\ NoDup(asked)'
  BY <1>6 DEF load_cached
<1>7. ASSUME NEW w \in Loader, create(w) PROVE PoppedInOrder' /\ NoDup(asked)'
  BY <1>7 DEF create
<1>8. ASSUME NEW w \in Loader, end_save(w) PROVE PoppedInOrder' /\ NoDup(asked)'
  BY <1>8 DEF end_save
<1>9. ASSUME NEW w \in Loader, check_status(w) PROVE PoppedInOrder' /\ NoDup(asked)'
  BY <1>9 DEF check_status
<1>10. ASSUME NEW w \in Loader, notify(w) PROVE PoppedInOrder' /\ NoDup(asked)'
  BY <1>10 DEF notify
<1>11. ASSUME NEW f \in File, remove_picture(f) PROVE PoppedInOrder' /\ NoDup(asked)'
  BY <1>11 DEF remove_picture
<1>12. CASE UNCHANGED cache_vars
  BY <1>12 DEF cache_vars
<1>13. QED
  BY <1>1, <1>2, <1>3, <1>4, <1>5, <1>5a, <1>6, <1>7, <1>8, <1>9, <1>10, <1>11, <1>12 DEF CacheNext, Thread

LEMMA HoldStep == CacheInv /\ [CacheNext]_cache_vars => HoldInv'
<1> SUFFICES ASSUME CacheInv, [CacheNext]_cache_vars PROVE HoldInv'
  OBVIOUS
<1> USE CacheAssumption DEF CacheInv, TypeOK, OnceInv, HoldInv, Busy, work, cache_history, Goto, At
<1>1. ASSUME NEW r \in Request, schedule(r) PROVE HoldInv'
  BY <1>1 DEF schedule, spawn
<1>2. ASSUME NEW w \in Loader, load_running(w) PROVE HoldInv'
  BY <1>2 DEF load_running
<1>3. ASSUME NEW w \in Loader, pop_front(w) PROVE HoldInv'
  <2>1. CASE queue = <<>>
    BY <1>3, <2>1 DEF pop_front
  <2>2. CASE queue # <<>>
    <3>1. Head(queue) \in Request
      BY <2>2
    <3>2. task' = [task EXCEPT ![w] = Head(queue)] /\ pc' = [pc EXCEPT ![w] = "lookup"]
      BY <1>3, <2>2 DEF pop_front
    <3>3. Head(queue) # None
      BY <3>1
    <3>4. QED
      BY <3>2, <3>3
  <2>3. QED
    BY <2>1, <2>2
<1>4. ASSUME NEW w \in Loader, check_empty(w) PROVE HoldInv'
  BY <1>4 DEF check_empty
<1>5. ASSUME NEW w \in Loader, lookup(w) PROVE HoldInv'
  BY <1>5 DEF lookup, is_thumbnail_cached
<1>5a. ASSUME NEW w \in Loader, lookup_panics(w) PROVE HoldInv'
  BY <1>5a DEF lookup_panics
<1>6. ASSUME NEW w \in Loader, load_cached(w) PROVE HoldInv'
  BY <1>6 DEF load_cached
<1>7. ASSUME NEW w \in Loader, create(w) PROVE HoldInv'
  BY <1>7 DEF create
<1>8. ASSUME NEW w \in Loader, end_save(w) PROVE HoldInv'
  BY <1>8 DEF end_save
<1>9. ASSUME NEW w \in Loader, check_status(w) PROVE HoldInv'
  BY <1>9 DEF check_status
<1>10. ASSUME NEW w \in Loader, notify(w) PROVE HoldInv'
  BY <1>10 DEF notify
<1>11. ASSUME NEW f \in File, remove_picture(f) PROVE HoldInv'
  BY <1>11 DEF remove_picture
<1>12. CASE UNCHANGED cache_vars
  BY <1>12 DEF cache_vars
<1>13. QED
  BY <1>1, <1>2, <1>3, <1>4, <1>5, <1>5a, <1>6, <1>7, <1>8, <1>9, <1>10, <1>11, <1>12 DEF CacheNext, Thread

LEMMA OnceStep == CacheInv /\ [CacheNext]_cache_vars => ExecutedOnce'
<1> SUFFICES ASSUME CacheInv, [CacheNext]_cache_vars PROVE ExecutedOnce'
  OBVIOUS
<1> USE CacheAssumption DEF CacheInv, TypeOK, OnceInv, ExecutedOnce, work, cache_history, Goto, At
<1>1. ASSUME NEW r \in Request, schedule(r) PROVE ExecutedOnce'
  BY <1>1 DEF schedule, spawn
<1>2. ASSUME NEW w \in Loader, load_running(w) PROVE ExecutedOnce'
  BY <1>2 DEF load_running
<1>3. ASSUME NEW w \in Loader, pop_front(w) PROVE ExecutedOnce'
  <2>1. CASE queue = <<>>
    BY <1>3, <2>1 DEF pop_front
  <2>2. CASE queue # <<>>
    <3>1. popped \in Seq(Request) /\ queue \in Seq(Request) /\ asked \in Seq(Request)
      OBVIOUS
    <3>2. Head(queue) \in Request
      BY <2>2
    <3>3. ~InSeq(Head(queue), popped)
      <4>1. asked = popped \o queue /\ NoDup(asked)
        BY DEF PoppedInOrder
      <4>2. QED
        BY <2>2, <3>1, <4>1, HeadIsNew, Zenon
    <3>4. \A x \in Request : InSeq(x, Append(popped, Head(queue))) <=> InSeq(x, popped) \/ x = Head(queue)
      BY <3>1, <3>2, AppendIn, Zenon
    <3>5. Head(queue) \notin finished \cup died /\ \A v \in Loader : task[v] # Head(queue)
      BY <3>2, <3>3
    <3>6. /\ task' = [task EXCEPT ![w] = Head(queue)] /\ popped' = Append(popped, Head(queue))
          /\ finished' = finished /\ died' = died /\ task[w] = None
      BY <1>3, <2>2 DEF pop_front, HoldInv, Busy
    <3>7. \A x \in Request : InSeq(x, popped') <=> InSeq(x, popped) \/ x = Head(queue)
      BY <3>4, <3>6
    <3>8. QED
      BY <3>2, <3>5, <3>6, <3>7
  <2>3. QED
    BY <2>1, <2>2
<1>4. ASSUME NEW w \in Loader, check_empty(w) PROVE ExecutedOnce'
  BY <1>4 DEF check_empty
<1>5. ASSUME NEW w \in Loader, lookup(w) PROVE ExecutedOnce'
  BY <1>5 DEF lookup, is_thumbnail_cached
<1>5a. ASSUME NEW w \in Loader, lookup_panics(w) PROVE ExecutedOnce'
  <2>1. task[w] \in Request
    BY <1>5a DEF lookup_panics, HoldInv, Busy
  <2>2. task' = [task EXCEPT ![w] = None] /\ died' = died \cup {task[w]} /\ UNCHANGED <<finished, popped>>
    BY <1>5a DEF lookup_panics
  <2>3. QED
    BY <2>1, <2>2
<1>6. ASSUME NEW w \in Loader, load_cached(w) PROVE ExecutedOnce'
  BY <1>6 DEF load_cached
<1>7. ASSUME NEW w \in Loader, create(w) PROVE ExecutedOnce'
  BY <1>7 DEF create
<1>8. ASSUME NEW w \in Loader, end_save(w) PROVE ExecutedOnce'
  BY <1>8 DEF end_save
<1>9. ASSUME NEW w \in Loader, check_status(w) PROVE ExecutedOnce'
  BY <1>9 DEF check_status
<1>10. ASSUME NEW w \in Loader, notify(w) PROVE ExecutedOnce'
  <2>1. task[w] \in Request
    BY <1>10 DEF notify, HoldInv, Busy
  <2>2. QED
    BY <1>10, <2>1 DEF notify
<1>11. ASSUME NEW f \in File, remove_picture(f) PROVE ExecutedOnce'
  BY <1>11 DEF remove_picture
<1>12. CASE UNCHANGED cache_vars
  BY <1>12 DEF cache_vars
<1>13. QED
  BY <1>1, <1>2, <1>3, <1>4, <1>5, <1>5a, <1>6, <1>7, <1>8, <1>9, <1>10, <1>11, <1>12 DEF CacheNext, Thread

\* What is being delivered stays so until it is.
LEMMA DeliveringStep ==
  ASSUME CacheInv, [CacheNext]_cache_vars, NEW f \in File, Delivering(f)
  PROVE  Delivering(f)'
<1> USE CacheAssumption DEF CacheInv, TypeOK, OnceInv, HoldInv, Busy, Delivering, Announces, work, cache_history, Goto, At, fileOf
<1>1. ASSUME NEW r \in Request, schedule(r) PROVE Delivering(f)'
  BY <1>1 DEF schedule, spawn
<1>2. ASSUME NEW w \in Loader, load_running(w) PROVE Delivering(f)'
  BY <1>2 DEF load_running
<1>3. ASSUME NEW w \in Loader, pop_front(w) PROVE Delivering(f)'
  BY <1>3 DEF pop_front
<1>4. ASSUME NEW w \in Loader, check_empty(w) PROVE Delivering(f)'
  BY <1>4 DEF check_empty
<1>5. ASSUME NEW w \in Loader, lookup(w) PROVE Delivering(f)'
  BY <1>5 DEF lookup, is_thumbnail_cached
<1>5a. ASSUME NEW w \in Loader, lookup_panics(w) PROVE Delivering(f)'
  BY <1>5a DEF lookup_panics
<1>6. ASSUME NEW w \in Loader, load_cached(w) PROVE Delivering(f)'
  BY <1>6 DEF load_cached
<1>7. ASSUME NEW w \in Loader, create(w) PROVE Delivering(f)'
  BY <1>7 DEF create
<1>8. ASSUME NEW w \in Loader, end_save(w) PROVE Delivering(f)'
  BY <1>8 DEF end_save
<1>9. ASSUME NEW w \in Loader, check_status(w) PROVE Delivering(f)'
  BY <1>9 DEF check_status
<1>10. ASSUME NEW w \in Loader, notify(w) PROVE Delivering(f)'
  BY <1>10 DEF notify
<1>11. ASSUME NEW g \in File, remove_picture(g) PROVE Delivering(f)'
  BY <1>11 DEF remove_picture
<1>12. CASE UNCHANGED cache_vars
  BY <1>12 DEF cache_vars
<1>13. QED
  BY <1>1, <1>2, <1>3, <1>4, <1>5, <1>5a, <1>6, <1>7, <1>8, <1>9, <1>10, <1>11, <1>12 DEF CacheNext, Thread

\* A cached file may be rewritten but does not go away.
LEMMA CachedStep ==
  ASSUME CacheInv, [CacheNext]_cache_vars, NEW f \in File, cache[f] # "absent"
  PROVE  cache'[f] # "absent"
<1> USE CacheAssumption DEF CacheInv, TypeOK, OnceInv, HoldInv, Busy, work, cache_history, Goto, At, fileOf
<1>1. ASSUME NEW r \in Request, schedule(r) PROVE cache'[f] # "absent"
  BY <1>1 DEF schedule, spawn
<1>2. ASSUME NEW w \in Loader, load_running(w) PROVE cache'[f] # "absent"
  BY <1>2 DEF load_running
<1>3. ASSUME NEW w \in Loader, pop_front(w) PROVE cache'[f] # "absent"
  BY <1>3 DEF pop_front
<1>4. ASSUME NEW w \in Loader, check_empty(w) PROVE cache'[f] # "absent"
  BY <1>4 DEF check_empty
<1>5. ASSUME NEW w \in Loader, lookup(w) PROVE cache'[f] # "absent"
  BY <1>5 DEF lookup, is_thumbnail_cached
<1>5a. ASSUME NEW w \in Loader, lookup_panics(w) PROVE cache'[f] # "absent"
  BY <1>5a DEF lookup_panics
<1>6. ASSUME NEW w \in Loader, load_cached(w) PROVE cache'[f] # "absent"
  BY <1>6 DEF load_cached
<1>7. ASSUME NEW w \in Loader, create(w) PROVE cache'[f] # "absent"
  BY <1>7 DEF create
<1>8. ASSUME NEW w \in Loader, end_save(w) PROVE cache'[f] # "absent"
  BY <1>8 DEF end_save
<1>9. ASSUME NEW w \in Loader, check_status(w) PROVE cache'[f] # "absent"
  BY <1>9 DEF check_status
<1>10. ASSUME NEW w \in Loader, notify(w) PROVE cache'[f] # "absent"
  BY <1>10 DEF notify
<1>11. ASSUME NEW g \in File, remove_picture(g) PROVE cache'[f] # "absent"
  BY <1>11 DEF remove_picture
<1>12. CASE UNCHANGED cache_vars
  BY <1>12 DEF cache_vars
<1>13. QED
  BY <1>1, <1>2, <1>3, <1>4, <1>5, <1>5a, <1>6, <1>7, <1>8, <1>9, <1>10, <1>11, <1>12 DEF CacheNext, Thread

\* A thread loads a cached file only if there is one.
LEMMA LoadStep ==
  ASSUME CacheInv, [CacheNext]_cache_vars, NEW f \in Readable \ Torn, NEW v \in Loader,
         task'[v] # None, FileOf[task'[v]] = f, pc'[v] = "load"
  PROVE  cache'[f] # "absent"
<1>1. f \in File
  BY CacheAssumption
<1>2. SUFFICES ASSUME cache[f] = "absent" PROVE FALSE
  BY <1>1, CachedStep
<1>3. pc[v] # "load" \/ task[v] = None \/ fileOf(v) # f
  BY <1>2 DEF CacheInv, DeliverInv
<1> USE CacheAssumption DEF CacheInv, TypeOK, OnceInv, HoldInv, Busy, work, cache_history, Goto, At, fileOf
<1>4. ASSUME NEW r \in Request, schedule(r) PROVE FALSE
  BY <1>1, <1>2, <1>3, <1>4 DEF schedule, spawn
<1>5. ASSUME NEW w \in Loader, load_running(w) PROVE FALSE
  BY <1>1, <1>2, <1>3, <1>5 DEF load_running
<1>6. ASSUME NEW w \in Loader, pop_front(w) PROVE FALSE
  BY <1>1, <1>2, <1>3, <1>6 DEF pop_front
<1>7. ASSUME NEW w \in Loader, check_empty(w) PROVE FALSE
  BY <1>1, <1>2, <1>3, <1>7 DEF check_empty
<1>8. ASSUME NEW w \in Loader, lookup(w) PROVE FALSE
  BY <1>1, <1>2, <1>3, <1>8 DEF lookup, is_thumbnail_cached
<1>8a. ASSUME NEW w \in Loader, lookup_panics(w) PROVE FALSE
  BY <1>1, <1>2, <1>3, <1>8a DEF lookup_panics
<1>9. ASSUME NEW w \in Loader, load_cached(w) PROVE FALSE
  BY <1>1, <1>2, <1>3, <1>9 DEF load_cached
<1>10. ASSUME NEW w \in Loader, create(w) PROVE FALSE
  BY <1>1, <1>2, <1>3, <1>10 DEF create
<1>11. ASSUME NEW w \in Loader, end_save(w) PROVE FALSE
  BY <1>1, <1>2, <1>3, <1>11 DEF end_save
<1>12. ASSUME NEW w \in Loader, check_status(w) PROVE FALSE
  BY <1>1, <1>2, <1>3, <1>12 DEF check_status
<1>13. ASSUME NEW w \in Loader, notify(w) PROVE FALSE
  BY <1>1, <1>2, <1>3, <1>13 DEF notify
<1>14. ASSUME NEW g \in File, remove_picture(g) PROVE FALSE
  BY <1>1, <1>2, <1>3, <1>14 DEF remove_picture
<1>15. CASE UNCHANGED cache_vars
  BY <1>1, <1>2, <1>3, <1>15 DEF cache_vars
<1>16. QED
  BY <1>4, <1>5, <1>6, <1>7, <1>8, <1>8a, <1>9, <1>10, <1>11, <1>12, <1>13, <1>14, <1>15 DEF CacheNext, Thread

LEMMA DeliverStep == CacheInv /\ [CacheNext]_cache_vars => DeliverInv'
<1> DEFINE Ok(f) == /\ cache[f] = "partial" => Delivering(f)
                    /\ \A w \in Loader : task[w] # None /\ fileOf(w) = f =>
                         /\ pc[w] = "load" => cache[f] # "absent"
                         /\ pc[w] = "save" => Delivering(f)
                         /\ pc[w] \in {"status", "notify"} /\ present[f] => Delivering(f)
                    /\ \A r \in finished : FileOf[r] = f /\ present[f] => Delivering(f)
<1> SUFFICES ASSUME CacheInv, [CacheNext]_cache_vars, NEW f \in Readable \ Torn PROVE Ok(f)'
  BY DEF DeliverInv
<1>1. f \in File /\ Ok(f)
  BY CacheAssumption DEF CacheInv, DeliverInv
<1>2. \A v \in Loader : task'[v] # None /\ FileOf[task'[v]] = f /\ pc'[v] = "load" => cache'[f] # "absent"
  BY LoadStep
<1>3. CASE Delivering(f)
  <2>1. Delivering(f)'
    BY <1>1, <1>3, DeliveringStep
  <2>2. QED
    BY <1>2, <2>1 DEF fileOf
<1>4. SUFFICES ASSUME ~Delivering(f) PROVE Ok(f)'
  BY <1>3
\* Nobody announces f: its cached file is whole or absent, and only a thread
\* that has not looked yet holds a task for it, unless the picture is gone.
<1>5. /\ cache[f] # "partial"
      /\ \A v \in Loader : task[v] # None /\ fileOf(v) = f =>
           /\ pc[v] = "load" => cache[f] = "full"
           /\ pc[v] # "save"
           /\ pc[v] \in {"status", "notify"} => ~present[f]
      /\ \A r \in finished : FileOf[r] = f => ~present[f]
  BY <1>1, <1>4 DEF CacheInv, TypeOK
<1> HIDE DEF Ok
<1>6. ASSUME NEW r \in Request, schedule(r) PROVE Ok(f)'
  BY <1>1, <1>2, <1>5, <1>6 DEF schedule, spawn, Ok, Delivering, Announces, CacheInv, TypeOK, OnceInv, HoldInv, Busy, work, cache_history, Goto, At, fileOf
<1>7. ASSUME NEW w \in Loader, load_running(w) PROVE Ok(f)'
  BY <1>1, <1>2, <1>5, <1>7 DEF load_running, Ok, Delivering, Announces, CacheInv, TypeOK, OnceInv, HoldInv, Busy, work, cache_history, Goto, At, fileOf
<1>8. ASSUME NEW w \in Loader, pop_front(w) PROVE Ok(f)'
  BY <1>1, <1>2, <1>5, <1>8 DEF pop_front, Ok, Delivering, Announces, CacheInv, TypeOK, OnceInv, HoldInv, Busy, work, cache_history, Goto, At, fileOf
<1>9. ASSUME NEW w \in Loader, check_empty(w) PROVE Ok(f)'
  BY <1>1, <1>2, <1>5, <1>9 DEF check_empty, Ok, Delivering, Announces, CacheInv, TypeOK, OnceInv, HoldInv, Busy, work, cache_history, Goto, At, fileOf
<1>10. ASSUME NEW w \in Loader, lookup(w) PROVE Ok(f)'
  BY <1>1, <1>2, <1>5, <1>10 DEF lookup, is_thumbnail_cached, Ok, Delivering, Announces, CacheInv, TypeOK, OnceInv, HoldInv, Busy, work, cache_history, Goto, At, fileOf
<1>10a. ASSUME NEW w \in Loader, lookup_panics(w) PROVE Ok(f)'
  BY <1>1, <1>2, <1>5, <1>10a DEF lookup_panics, Ok, Delivering, Announces, CacheInv, TypeOK, OnceInv, HoldInv, Busy, work, cache_history, Goto, At, fileOf
<1>11. ASSUME NEW w \in Loader, load_cached(w) PROVE Ok(f)'
  BY <1>1, <1>2, <1>5, <1>11 DEF load_cached, Ok, Delivering, Announces, CacheInv, TypeOK, OnceInv, HoldInv, Busy, work, cache_history, Goto, At, fileOf
<1>12. ASSUME NEW w \in Loader, create(w) PROVE Ok(f)'
  BY <1>1, <1>2, <1>5, <1>12 DEF create, Ok, Delivering, Announces, CacheInv, TypeOK, OnceInv, HoldInv, Busy, work, cache_history, Goto, At, fileOf
<1>13. ASSUME NEW w \in Loader, end_save(w) PROVE Ok(f)'
  BY <1>1, <1>2, <1>5, <1>13 DEF end_save, Ok, Delivering, Announces, CacheInv, TypeOK, OnceInv, HoldInv, Busy, work, cache_history, Goto, At, fileOf
<1>14. ASSUME NEW w \in Loader, check_status(w) PROVE Ok(f)'
  BY <1>1, <1>2, <1>5, <1>14 DEF check_status, Ok, Delivering, Announces, CacheInv, TypeOK, OnceInv, HoldInv, Busy, work, cache_history, Goto, At, fileOf
<1>15. ASSUME NEW w \in Loader, notify(w) PROVE Ok(f)'
  BY <1>1, <1>2, <1>5, <1>15 DEF notify, Ok, Delivering, Announces, CacheInv, TypeOK, OnceInv, HoldInv, Busy, work, cache_history, Goto, At, fileOf
<1>16. ASSUME NEW g \in File, remove_picture(g) PROVE Ok(f)'
  BY <1>1, <1>2, <1>5, <1>16 DEF remove_picture, Ok, Delivering, Announces, CacheInv, TypeOK, OnceInv, HoldInv, Busy, work, cache_history, Goto, At, fileOf
<1>17. CASE UNCHANGED cache_vars
  BY <1>1, <1>2, <1>5, <1>17 DEF cache_vars, Ok, Delivering, Announces, CacheInv, TypeOK, OnceInv, HoldInv, Busy, work, cache_history, Goto, At, fileOf
<1>18. QED
  BY <1>6, <1>7, <1>8, <1>9, <1>10, <1>10a, <1>11, <1>12, <1>13, <1>14, <1>15, <1>16, <1>17 DEF CacheNext, Thread
-----------------------------------------------------------------------------
(* The theorems.                                                           *)

LEMMA CacheInvStep == CacheInv /\ [CacheNext]_cache_vars => CacheInv'
  BY CacheTypeStep, FlagStep, CacheOrderStep, HoldStep, OnceStep, DeliverStep DEF CacheInv, OnceInv

LEMMA CacheInvHolds == CacheSpec => []CacheInv
<1>1. CacheSpec => CacheInit /\ [][CacheNext]_cache_vars
  BY PTL DEF CacheSpec, SafeSpec
<1>2. QED
  BY <1>1, CacheInvInit, CacheInvStep, PTL

\* Every variable of the cache keeps its type.
THEOREM CacheTypes == CacheSpec => []TypeOK
<1>1. CacheInv => TypeOK
  BY DEF CacheInv
<1>2. QED
  BY <1>1, CacheInvHolds, PTL

\* No thumbnail task is left in the queue without a thread to take it, but
\* by a thread that died since the flag was last raised.
THEOREM StrandedCorrect == CacheSpec => []NoStrandedTask
<1>1. CacheInv => NoStrandedTask
  BY DEF CacheInv, FlagInv, NoStrandedTask
<1>2. QED
  BY <1>1, CacheInvHolds, PTL

\* Tasks are popped once each, in the order of the requests.
THEOREM PopCorrect == CacheSpec => []PoppedInOrder
<1>1. CacheInv => PoppedInOrder
  BY DEF CacheInv, OnceInv
<1>2. QED
  BY <1>1, CacheInvHolds, PTL

\* A popped task belongs to one thread, then is executed, and never again,
\* or has killed that thread.
THEOREM OnceCorrect == CacheSpec => []ExecutedOnce
<1>1. CacheInv => ExecutedOnce
  BY DEF CacheInv, OnceInv
<1>2. QED
  BY <1>1, CacheInvHolds, PTL

\* A readable picture asked for has its thumbnail announced, however the
\* threads interleave in the cache directory.
THEOREM DeliveredCorrect == CacheSpec => []ThumbnailDelivered
<1>1. CacheInv => ThumbnailDelivered
  BY DEF CacheInv, DeliverInv, Delivering, Announces, ThumbnailDelivered
<1>2. QED
  BY <1>1, CacheInvHolds, PTL
=============================================================================
