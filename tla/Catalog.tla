------------------------------ MODULE Catalog ------------------------------
(***************************************************************************)
(* Opening a catalog, its schema, and the labels, which the program makes  *)
(* for a new one and the user edits: Library::init (db/library.rs) on the  *)
(* worker thread, a statement at a time, so that the program may end       *)
(* between any two; NiepceWindow and UIDataProvider, which keep the list   *)
(* of labels up to date from the notifications; the EditLabels dialog and  *)
(* its undo transactions, whose commands create labels synchronously.      *)
(*                                                                         *)
(* The client's queue is the one of ClientImpl; here an operation is       *)
(* executed in one step, its single SQL statement and its notifications.   *)
(* A label's colour goes with its name.  update_label() has a statement    *)
(* that SQLite refuses (UPDATE ... FROM the table itself), so it never     *)
(* changes a label and LabelChanged is never sent.                         *)
(***************************************************************************)
EXTENDS Integers, FiniteSets, Sequences, SequencesExt

CONSTANTS
  NLabel,     \* the labels of a new catalog, and the rows of the dialog: 5
  Name,       \* the names that the user gives
  Default,    \* the name of a label made by the program
  None,
  MaxId,      \* bound: row ids of labels
  MaxPending, \* bound: the user waits for some of so many operations and notifications
  MaxUndo,    \* bound: transactions to be undone
  MaxStart,   \* bound: starts of the program
  MaxFail     \* bound: kinds of failures between two starts

ASSUME CatalogAssumption ==
  /\ {NLabel, MaxId, MaxPending, MaxUndo, MaxStart, MaxFail} \subseteq Nat
  /\ {Default, None} \cap Name = {} /\ Default # None

VARIABLES
  schema,     \* the statements of init_db() that this catalog's file has seen
  labels,     \* the table: names by id
  worker,     \* "off", "checking", "creating", "ready" or "dead"
  step,       \* the next statement of init_db()
  ops,        \* the queue of the client
  notifs,     \* the channel to the main loop
  m_labels,   \* UIDataProvider: the labels, in order
  edits,      \* the dialog: the new name of each row, or None; <<>>: closed
  m_undos, m_redos,   \* the undo history: transactions, the last first
  running,    \* the commands of the transaction being executed, done and to do
  reply,      \* of the synchronous creation that the main loop waits for
  starts,     \* bounded: how often the program was started
  base,       \* history: labels that are not of the undo history
  failed      \* history: what failed since the start

disk == <<schema, labels>>
client == <<worker, step, ops>>
ui == <<m_labels, edits, m_undos, m_redos, running, reply>>
catalog_vars == <<disk, client, notifs, ui, starts, base, failed>>

Row == 1 .. NLabel
Idle == [done |-> <<>>, todo |-> <<>>]

\* Mutant: the version is written once all is there.
Schema_admin_last ==
  <<"vaults", "folders", "folder_delete_trigger", "Trash", "files", "fsfiles", "sidecars",
    "file_triggers", "keywords", "keywording", "keyword_delete_trigger", "labels",
    "xmp_update_queue", "file_update_trigger", "xmp_update_trigger", "admin", "version">>

\* The statements of init_db(), each committed when it returns.
Schema ==
  <<"admin", "version", "vaults", "folders", "folder_delete_trigger", "Trash", "files",
    "fsfiles", "sidecars", "file_triggers", "keywords", "keywording",
    "keyword_delete_trigger", "labels", "xmp_update_queue", "file_update_trigger",
    "xmp_update_trigger">>

-----------------------------------------------------------------------------
Request(op, id, name, sync) == [op |-> op, id |-> id, name |-> name, sync |-> sync]
Notify(type, id, name) == Append(notifs, [type |-> type, id |-> id, name |-> name])

MayFail == Cardinality(failed) < MaxFail

\* The numbers of a set from the least on.
Ordered(S) ==
  CHOOSE s \in [1 .. Cardinality(S) -> S] : \A i, j \in 1 .. Cardinality(S) : i < j => s[i] < s[j]

\* The rows of a table in the order of their ids.
Listing(table) ==
  LET ids == Ordered(DOMAIN table)
  IN  [i \in DOMAIN ids |-> [id |-> ids[i], name |-> table[ids[i]]]]

\* SQLite gives the id after the greatest in use.
NextLabelId == IF labels = <<>> THEN 1 ELSE 1 + CHOOSE i \in DOMAIN labels : \A j \in DOMAIN labels : j <= i

CatalogInit ==
  /\ schema = {} /\ labels = <<>>
  /\ worker = "off" /\ step = 1 /\ ops = <<>> /\ notifs = <<>>
  /\ m_labels = <<>> /\ edits = <<>>
  /\ m_undos = <<>> /\ m_redos = <<>> /\ running = Idle /\ reply = 0
  /\ starts = 0 /\ base = 0 /\ failed = {}
-----------------------------------------------------------------------------
(* The worker thread opens the library.                                    *)

\* NiepceWindow::on_open_library: the client is made, which starts its
\* thread, and is asked for the labels at once.
open_library ==
  /\ worker = "off" /\ starts < MaxStart
  /\ worker' = "checking"
  /\ starts' = starts + 1
  /\ ops' = <<Request("list", 0, None, FALSE)>>
  /\ UNCHANGED <<disk, step, notifs, ui, base, failed>>

\* Without an admin table the database is a new one.  An admin table with no
\* version in it, or that cannot be read, makes init() fail, but the worker
\* goes on with the library.
check_database_version ==
  /\ worker = "checking"
  /\ worker' = IF "admin" \in schema THEN "ready" ELSE "creating"
  /\ UNCHANGED <<disk, step, ops, notifs, ui, starts, base, failed>>

\* When the statement that asks for the version cannot be prepared, the
\* catalog is taken for a new one, whatever is in it.
check_version_fails ==
  /\ worker = "checking" /\ MayFail
  /\ worker' = "creating"
  /\ failed' = failed \cup {"version"}
  /\ UNCHANGED <<disk, step, ops, notifs, ui, starts, base>>

\* The database cannot be opened: each operation will fail.
open_fails ==
  /\ worker = "checking" /\ MayFail
  /\ worker' = "ready"
  /\ failed' = failed \cup {"open"}
  /\ UNCHANGED <<disk, step, ops, notifs, ui, starts, base>>

\* A statement that fails, as a table made twice does, panics the worker.
init_db ==
  /\ worker = "creating" /\ step <= Len(Schema)
  /\ IF Schema[step] \in schema
     THEN worker' = "dead" /\ UNCHANGED <<schema, step>>
     ELSE /\ schema' = schema \cup {Schema[step]}
          /\ step' = step + 1
          /\ UNCHANGED worker
  /\ UNCHANGED <<labels, ops, notifs, ui, starts, base, failed>>

init_db_fails ==
  /\ worker = "creating" /\ step <= Len(Schema) /\ MayFail
  /\ worker' = "dead"
  /\ failed' = failed \cup {"init"}
  /\ UNCHANGED <<disk, step, ops, notifs, ui, starts, base>>

init_db_end ==
  /\ worker = "creating" /\ step > Len(Schema)
  /\ worker' = "ready"
  /\ notifs' = Notify("LibCreated", 0, None)
  /\ UNCHANGED <<disk, step, ops, ui, starts, base, failed>>

-----------------------------------------------------------------------------
(* Operations on the labels.                                               *)

Execute(op) == worker = "ready" /\ ops # <<>> /\ Head(ops).op = op /\ ops' = Tail(ops)

\* A statement on the labels may fail at any time, and does so without a
\* connection or without the table.
Fails == IF "open" \in failed \/ "labels" \notin schema THEN {TRUE}
         ELSE {FALSE} \cup {f \in {TRUE} : MayFail}

cmd_list_all_labels ==
  /\ Execute("list")
  /\ \E fails \in Fails :
       IF fails THEN failed' = failed \cup {"list"} /\ UNCHANGED notifs
       ELSE /\ notifs' = notifs \o [i \in DOMAIN Listing(labels) |->
                                      [type |-> "AddedLabel", id |-> Listing(labels)[i].id,
                                       name |-> Listing(labels)[i].name]]
            /\ UNCHANGED failed
  /\ UNCHANGED <<disk, worker, step, ui, starts, base>>

\* The caller of a synchronous creation gets the id, or -1.
cmd_create_label ==
  /\ Execute("create") /\ NextLabelId <= MaxId
  /\ LET op == Head(ops)
     IN  \E fails \in Fails :
           /\ reply' = IF ~op.sync THEN reply ELSE IF fails THEN -1 ELSE NextLabelId
           /\ IF fails
              THEN failed' = failed \cup {"create"} /\ UNCHANGED <<labels, notifs, base>>
              ELSE /\ labels' = [i \in DOMAIN labels \cup {NextLabelId} |->
                                   IF i = NextLabelId THEN op.name ELSE labels[i]]
                   /\ notifs' = Notify("AddedLabel", NextLabelId, op.name)
                   /\ base' = IF op.sync THEN base ELSE base + 1
                   /\ UNCHANGED failed
  /\ UNCHANGED <<schema, worker, step, m_labels, edits, m_undos, m_redos, running, starts>>

\* A row that is not there is an error, like a statement that fails.
cmd_delete_label ==
  /\ Execute("delete")
  /\ LET id == Head(ops).id
     IN  \E fails \in Fails :
           IF fails \/ id \notin DOMAIN labels
           THEN /\ failed' = IF id \in DOMAIN labels THEN failed \cup {"delete"} ELSE failed
                /\ UNCHANGED <<labels, notifs>>
           ELSE /\ labels' = [i \in DOMAIN labels \ {id} |-> labels[i]]
                /\ notifs' = Notify("LabelDeleted", id, None)
                /\ UNCHANGED failed
  /\ UNCHANGED <<schema, worker, step, ui, starts, base>>

\* The statement is always refused.
cmd_update_label ==
  /\ Execute("update")
  /\ UNCHANGED <<disk, worker, step, notifs, ui, starts, base, failed>>

-----------------------------------------------------------------------------
(* Notifications: delivered when no command waits, the dialog open or not. *)

Waiting == running.todo # <<>>
Deliver(type) ==
  /\ ~Waiting /\ notifs # <<>> /\ Head(notifs).type = type
  /\ notifs' = Tail(notifs)

\* Mutant: a notification that comes while a dialog is open is dropped.
create_initial_labels_modal ==
  /\ Deliver("LibCreated")
  /\ ops' = IF edits = <<>> THEN ops \o [i \in Row |-> Request("create", 0, Default, FALSE)] ELSE ops
  /\ UNCHANGED <<disk, worker, step, ui, starts, base, failed>>

\* NEW_LIBRARY_CREATED: the initial labels are created.
create_initial_labels ==
  /\ Deliver("LibCreated")
  /\ ops' = ops \o [i \in Row |-> Request("create", 0, Default, FALSE)]
  /\ UNCHANGED <<disk, worker, step, ui, starts, base, failed>>

\* Mutant: the last label is shown first.
addLabel_front ==
  /\ Deliver("AddedLabel")
  /\ LET l == Head(notifs) IN m_labels' = <<[id |-> l.id, name |-> l.name]>> \o m_labels
  /\ UNCHANGED <<disk, client, edits, m_undos, m_redos, running, reply, starts, base, failed>>

addLabel ==
  /\ Deliver("AddedLabel")
  /\ LET l == Head(notifs) IN m_labels' = Append(m_labels, [id |-> l.id, name |-> l.name])
  /\ UNCHANGED <<disk, client, edits, m_undos, m_redos, running, reply, starts, base, failed>>

\* The first label with that id goes.
deleteLabel ==
  /\ Deliver("LabelDeleted")
  /\ LET at == {i \in DOMAIN m_labels : m_labels[i].id = Head(notifs).id}
     IN  m_labels' = IF at = {} THEN m_labels
                     ELSE RemoveAt(m_labels, CHOOSE i \in at : \A j \in at : i <= j)
  /\ UNCHANGED <<disk, client, edits, m_undos, m_redos, running, reply, starts, base, failed>>

-----------------------------------------------------------------------------
(* The dialog, and the undo history.                                       *)

\* The dialog is modal.
Free == worker # "off" /\ edits = <<>> /\ ~Waiting /\ Len(ops) + Len(notifs) < MaxPending

on_action_edit_labels ==
  /\ Free /\ Len(m_undos) < MaxUndo
  /\ edits' = [r \in Row |-> None]
  /\ UNCHANGED <<disk, client, notifs, m_labels, m_undos, m_redos, running, reply,
                 starts, base, failed>>

\* A row that is emptied is left out, like one that was not touched.
label_name_changed(r, name) ==
  /\ edits # <<>>
  /\ edits' = [edits EXCEPT ![r] = name]
  /\ UNCHANGED <<disk, client, notifs, m_labels, m_undos, m_redos, running, reply,
                 starts, base, failed>>

\* Whatever the answer, the dialog makes a transaction of the rows changed.
\* Which labels there are is looked up now, not when the dialog was opened.
update_labels ==
  /\ edits # <<>>
  /\ LET changed == Ordered({r \in Row : edits[r] # None})
         command(r) == IF r \in DOMAIN m_labels
                       THEN [kind |-> "update", id |-> m_labels[r].id, name |-> edits[r]]
                       ELSE [kind |-> "create", id |-> 0, name |-> edits[r]]
     IN  /\ running' = [done |-> <<>>, todo |-> [i \in DOMAIN changed |-> command(changed[i])]]
         /\ m_redos' = IF changed = <<>> THEN m_redos ELSE <<>>
  /\ edits' = <<>>
  /\ UNCHANGED <<disk, client, notifs, m_labels, m_undos, reply, starts, base, failed>>

\* The first transaction undone is executed again.
redo ==
  /\ Free /\ m_redos # <<>>
  /\ running' = [done |-> <<>>, todo |-> Head(m_redos)]
  /\ m_redos' = Tail(m_redos)
  /\ UNCHANGED <<disk, client, notifs, m_labels, edits, m_undos, reply, starts, base, failed>>

\* The next command is done, as c; after the last one the transaction is the
\* first to be undone.
Done(c) ==
  LET done == Append(running.done, c)
      todo == Tail(running.todo)
  IN  IF todo = <<>> THEN running' = Idle /\ m_undos' = <<done>> \o m_undos
      ELSE running' = [done |-> done, todo |-> todo] /\ UNCHANGED m_undos

update_label ==
  /\ Waiting /\ Head(running.todo).kind = "update"
  /\ ops' = Append(ops, Request("update", Head(running.todo).id, None, FALSE))
  /\ Done(Head(running.todo))
  /\ UNCHANGED <<disk, worker, step, notifs, m_labels, edits, m_redos, reply,
                 starts, base, failed>>

\* The main loop is blocked in recv() until the worker has sent the id.
create_label_sync ==
  /\ Waiting /\ Head(running.todo).kind = "create"
  /\ reply = 0 /\ \A i \in DOMAIN ops : ~ops[i].sync
  /\ ops' = Append(ops, Request("create", 0, Head(running.todo).name, TRUE))
  /\ UNCHANGED <<disk, worker, step, notifs, ui, starts, base, failed>>

\* Mutant: redo() keeps the id that the first execution gave.
recv_keep_id ==
  /\ Waiting /\ reply # 0
  /\ Done(IF Head(running.todo).id # 0 THEN Head(running.todo)
          ELSE [Head(running.todo) EXCEPT !.id = reply])
  /\ reply' = 0
  /\ UNCHANGED <<disk, client, notifs, m_labels, edits, m_redos, starts, base, failed>>

recv ==
  /\ Waiting /\ reply # 0
  /\ Done([Head(running.todo) EXCEPT !.id = reply])
  /\ reply' = 0
  /\ UNCHANGED <<disk, client, notifs, m_labels, edits, m_redos, starts, base, failed>>

\* The commands of the last transaction are undone, the last first.
undo ==
  /\ Free /\ m_undos # <<>>
  /\ LET t == Reverse(Head(m_undos))
         request(c) == Request(IF c.kind = "create" THEN "delete" ELSE "update", c.id, None, FALSE)
     IN  ops' = ops \o [i \in DOMAIN t |-> request(t[i])]
  /\ m_redos' = <<Head(m_undos)>> \o m_redos
  /\ m_undos' = Tail(m_undos)
  /\ UNCHANGED <<disk, worker, step, notifs, m_labels, edits, running, reply,
                 starts, base, failed>>

\* The program ends, in whatever it is doing, and can be started again.
restart_program ==
  /\ worker # "off"
  /\ worker' = "off" /\ step' = 1 /\ ops' = <<>> /\ notifs' = <<>>
  /\ m_labels' = <<>> /\ edits' = <<>>
  /\ m_undos' = <<>> /\ m_redos' = <<>> /\ running' = Idle /\ reply' = 0
  /\ base' = Cardinality(DOMAIN labels)
  /\ failed' = {}
  /\ UNCHANGED <<disk, starts>>

-----------------------------------------------------------------------------
Worker ==
  \/ check_database_version \/ init_db \/ init_db_end
  \/ cmd_list_all_labels \/ cmd_create_label \/ cmd_delete_label \/ cmd_update_label

MainLoop ==
  \/ create_initial_labels \/ addLabel \/ deleteLabel
  \/ update_label \/ create_label_sync \/ recv

User ==
  \/ open_library \/ undo \/ redo
  \/ on_action_edit_labels \/ update_labels
  \/ \E r \in Row, name \in Name \cup {None} : label_name_changed(r, name)

Failure == open_fails \/ check_version_fails \/ init_db_fails \/ restart_program

CatalogNext == Worker \/ MainLoop \/ User \/ Failure

\* The worker thread runs.  An iteration of the main loop dispatches all
\* that is ready, so the notifications get their turn each time a command
\* of the user is done.  The user owes nothing.
CatalogSpec == CatalogInit /\ [][CatalogNext]_catalog_vars /\ WF_catalog_vars(Worker) /\ SF_catalog_vars(MainLoop)
-----------------------------------------------------------------------------
(* Properties.                                                             *)

Quiet == worker = "ready" /\ ops = <<>> /\ notifs = <<>> /\ running = Idle

Initial == {i \in DOMAIN labels : labels[i] = Default}

\* Once all that was asked for is done, the labels shown are those of the
\* table in the order of their ids, whether they were listed, made for a new
\* catalog or by the dialog, or deleted by an undo meanwhile: the dialog
\* finds a label by its place.
LabelsFollow == Quiet /\ "list" \notin failed => m_labels = Listing(labels)

\* However often the program ends while it makes a catalog or its labels,
\* init_db() never meets a table of an earlier attempt, which would panic
\* the worker, unless the version could not be asked for; and even then no
\* second set of initial labels is made.
CreatedOnce ==
  /\ worker = "dead" => failed \cap {"init", "version"} # {}
  /\ Cardinality(Initial) <= NLabel

\* Once all that was asked for is done, the table holds the labels of the
\* start, those of a new catalog and, once each and under its own id, those
\* of the transactions that are not undone.
UndoIsExact ==
  Quiet /\ "delete" \notin failed =>
    LET all == FlattenSeq(m_undos)
        created == {i \in DOMAIN all : all[i].kind = "create" /\ all[i].id # -1}
    IN  /\ \A i \in created : all[i].id \in DOMAIN labels /\ labels[all[i].id] = all[i].name
        /\ Cardinality(DOMAIN labels) = base + Cardinality(created)

\* A new catalog gets its labels, whatever the user does in the meantime,
\* unless the program ends or a statement fails.
NewGetsLabels ==
  (\E i \in DOMAIN notifs : notifs[i].type = "LibCreated")
    ~> (Cardinality(Initial) = NLabel \/ worker = "off" \/ failed # {} \/ NextLabelId > MaxId)
=============================================================================
