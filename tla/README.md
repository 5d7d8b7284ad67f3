# A TLA+ verification project for Niepce

Niepce is a photo library manager: a GTK user interface in C++ (`src/src`), an
engine in Rust (`src/crates/npc-engine`, `src/crates/npc-fwk`) and the Rust side
of the user interface with the foreign function interface between the two
(`src/niepce-main`). The modules here model the parts of it in which something
is *decided over time*: a queue served by a thread, a database changed one
statement at a time, notifications that arrive later than they are true, files
read by detached threads.

Paths below are relative to the repository.

## 1. Inventory

### How the parts interact

```
   user ──► windows, dialogs, tree, list, pane  (main loop: one thread)
             │  ▲                     ▲    ▲
   operations│  │notifications        │    │Glib::Dispatcher
   (closures)│  │(channel, in order)  │    │(one call per emission)
             ▼  │                     │    │
        LibraryClient ── worker thread│    detached threads of the import dialog
             │   (one operation       │          │
             ▼    at a time)          │          ▼
        SQLite catalog + XMP files    │    directories, cameras
                                      │
        ThumbnailCache ── 0, 1 or more threads ── cache directory
```

* The user interface never touches the database. It queues *operations* (boxed
  closures) on the client, whose worker thread runs them one after the other
  (`niepce-main/src/libraryclient/clientimpl.rs`). A few creations are
  *synchronous*: the caller waits for the new id.
* Operations are the functions of `crates/npc-engine/src/library/commands.rs`;
  each is a sequence of SQL statements of `db/library.rs`, each committed on its
  own: no transaction is ever opened.
* What an operation has done comes back as notifications, sent on a channel and
  delivered by the main loop to every listener in order.
* A query for thumbnails is handed to the thumbnail cache, which has threads of
  its own.
* Listing and previewing what is to be imported is done by threads of the import
  dialog.

### Components, their state, operations and what is hard in them

| Component | State | Operations | What is hard | Modules |
|---|---|---|---|---|
| Library client | queue, `terminate`, condition variable, reply channel | `schedule_op`, `create_*_sync`, `stop`, the loop of the worker | wake-ups, `stop()` outside the mutex, a blocked caller, a panic | `SerialExecutor`, `ClientImpl` |
| Thumbnail cache | queue, `running` flag, threads, cache directory | `request`, `schedule`, `main`, `execute`, `get_thumbnail` | flag lowered inside, tested outside the mutex; two threads on one cached file; a failed save | `ThumbnailCache` |
| Library database | folders, files, fsfiles, sidecars, keywords, keywording | import, deletion of a folder, move, keywords | several statements with no transaction, failure and restart between them, row ids used again | `LibraryDb` |
| Catalog, schema and labels | the schema, the labels, the provider's list, the dialog's rows, undo history | `init`, `init_db`, initial labels, label dialog, undo, redo | a half-made catalog; labels that arrive one at a time; ids that change with undo and redo | `Catalog` |
| Metadata and XMP queue | rating column, XMP block, XMP update queue, XMP files | `set_metadata`, `write_metadata`, `process_xmp_update_queue` | row dequeued before the file is written; failures; files without XMP; the user's preference | `XmpQueue` |
| Workspace, list, selection, pane | tree with counts, list, selection, pane, undo history | every user action on them, every operation they queue, every notification handler | everything shown may be older than the database, and replies may be for an earlier selection | `Niepce` |
| Workspace tree | rows of folders and keywords, two maps from ids to rows, the row selected | rows added, counted, removed, selected; the commands on the folder selected | rows that go while selected or asked about; ids given again | `WorkspaceTree` |
| Menu commands and Trash | the list's rows, the tree's counts, undo history | labels, ratings, flags, move to Trash, undo, redo | a command given before the library has told of the one before | `Commands` |
| Metadata pane and widgets | a widget per property, the bag it was filled from | fill, clear, type, leave | a widget left writes back what it reads from its own text | `MetadataPane` |
| Shell: grid, strip, map | list, selection in each view, page, map's centre | select, move, open, switch pages, files that go | two views that select each other through nested signals; late answers | `Shell` |
| Darkroom, canvas, image | file given, image's status and size, backing store | `set_image`, `reload`, `on_size_allocate`, `on_draw` | a file given while hidden; drawing that signals a change of what is drawn | `Darkroom`, `Shell` |
| Application, window, configuration | two configurations, the dialog's binders, window, splitter, nodes, undo actions | start, open, prompt, preferences, quit, kill | what an end at any moment keeps | `Window` |
| File bundles | the bundle under construction | `filter_bundles`, `add` | the result depends on the order of the files | `FileBundle` |
| Import dialog | source, rows, results, threads, the camera | choose, list, preview, import | results of an earlier choice; one camera shared by all threads | `ImportDialog` |
| Importers and cameras | ports, device list, the camera open, a job | detect, open, list, preview, download, copy | cameras unplugged, exchanged or held by the file manager between two calls | `Importers` |
| C++ worker and notification center | queue, mutex, condition, thread, dispatcher | `schedule`, `clear`, destructor, `main`, `post`, `dispatch` | the lock given up between a task and the look at the queue | `Worker` |
| UFRaw settings | the pull reader, the settings | one handler per element | a handler takes the next node itself, whatever it is | `UfrawMeta` |
| Base utilities | none | rectangles, thumbnails, paths, monikers | products of quotients that are cut; two-step turns | `Utilities` |
| Undo history | two lists of transactions | `add`, `undo`, `redo` | commands whose ids are only known later | in `Niepce`, `Catalog`, `Commands`, `Window` |
| Notification channel | a sequence | send, deliver | order against what the user does | in `Niepce`, `Catalog`, `Commands`, `WorkspaceTree` |
| Plug-ins; camera wire | | | | not modelled, see section 7 |

What makes each correct is listed with its run in section 4. `PROJECT.json`
lists the components with their files, and the hazards with their lines.

## 2. The modules and the code

All variables have the name of the field they stand for where there is one; a
variable marked *history* is not in the code, and only properties (never a
guard of the code's own) read it. Bounds are the constants named `Max...`.

### `SerialExecutor` and `ClientImpl`

`SerialExecutor` is the promise: operations run one at a time in the order they
were given, each at most once, and after closing at most one more starts.
`ClientImpl` is `clientimpl.rs`. The mutex is only ever held inside one step, so
it is not a variable; the steps are those between which another thread can act:

* worker: test of `terminate`; pop; execution; emptiness check together with
  `cond.wait` (they share the mutex); a wake-up, also a spurious one;
* caller: `schedule_op` (push and `notify_all` under the mutex); the synchronous
  creations, which push and then block in `recv()`; `stop()`, whose store and
  whose notify are two steps, as neither takes the mutex.

An operation may panic: the worker is gone, the mutex is not poisoned (it is not
held), and the channel of the operation is disconnected. What an operation does
is left to the other modules. The mapping to `SerialExecutor` is `pending <-
tasks, current <- elem, done <- executed, mode <- Mode`.

### `ThumbnailCache`

`library/thumbnail_cache.rs`. A thread tests `running` without the mutex, pops
under it, and lowers the flag when the queue was empty; `schedule()` pushes and
starts a thread when the flag was down. So a thread that has lowered the flag and
one just started can serve the queue together. The cached file is `absent`,
`partial` or `full`: saving truncates it and then writes it, and may fail, so
another thread may read it half-written. Pictures can be removed at any time, and
a cached file may be torn by an earlier session (`Torn`). The name of the cached
file is unwrapped from that of the picture, and a bundle without a main file has
none (`Nameless`): its request panics, the thread dies with the flag up, and what is
queued is then served by the other thread if there is one, and else by none.

### `LibraryDb`

The statements of `db/library.rs` that add, move and delete, with the triggers
of the schema in the step of the statement that fires them. A command is a `pc`
and its locals `loc`. Between any two statements one can fail (the command goes
on or returns, as its `?`, `and_then` or `if let` says; a keyword that could not
be looked up is inserted) or the program can end
(`restart`). A row id is one more than the largest in its table, so ids are used
again after a deletion: this is what makes a row left behind dangerous. `known`
is the set of ids that the user interface may still ask about, so that commands
arrive late.

### `Catalog`

`Library::init` and `init_db` one statement at a time (a version that cannot be asked
for is taken for that of a new catalog), `NiepceWindow`'s answer to
a new library (the initial labels), `UIDataProvider`'s list of labels, the
`EditLabels` dialog, which reads that list itself, and its undo transaction, whose
commands create labels synchronously. The renaming of a label is an operation
that changes nothing: the statement of `update_label()` names its table a second
time and SQLite refuses it.

### `XmpQueue`

`set_metadata()` (a column, then a read and an update of the block), the
trigger that queues a file, `XmpNeedsUpdate`, and `process_xmp_update_queue()`:
each file is dequeued and then, if the preference says so, written. The rating
stands for the four properties that have a column of their own. A file without
XMP makes `write_metadata()` panic; the model has the panic.

### `Niepce`

The composition: the user's actions, the queue of operations (each now one
step, its statements being in `LibraryDb` and its thread in `ClientImpl`), the
channel, and every handler of the counts of the tree (`workspacecontroller.cpp`), the list
(`image_list_store.rs`), the grid (`gridviewmodule.cpp`) and the pane
(`metadatapanecontroller.cpp`, `metadatawidget.cpp`), with undo and redo
(`selectioncontroller.cpp`, `undo.cpp`). `ImageListStore::get_file()` never finds
a file (see section 6), so the commands that begin with it do nothing and are not
actions here; they are in `Commands`.

### `WorkspaceTree`

The rows themselves, which `Niepce` has as counts only: `add_folder_item`,
`add_keyword_item`, `remove_folder_item` and the two counts of
`workspacecontroller.cpp`, with the maps from ids to rows, the row selected, the
action *Delete folder* and the dialog that it opens, during which notifications
are still delivered. Pictures are given any number of keywords at a time, each
of which is a row when it is new.

### `Commands`

The thirteen items of the shell's menu that set a property, *Move to Trash*, undo
and redo: what `SelectionController` reads from the list's row as the old value,
the operation queued, and the notifications to list and tree. In the code all of
this hangs on `get_file()`, which never finds the file of a row; whether it does is a
choice here, so both the program as it is and as it is meant are covered.

### `MetadataPane`

`metadatawidget.cpp` and the widgets it fills: `set_data_source` clears and fills,
`add_data` by the format of the property, and a widget that loses the focus has
its text parsed and written to the library, typed over or not. A text is the
words between its commas, so the conversions are what they are: an empty list
of keywords reads back as one empty keyword.

### `Shell` and `Darkroom`

`Shell` EXTENDS `Darkroom`. The list of images tells the grid and then the strip of a
row that goes; a view that loses its selected row signals in the middle of that,
and `SelectionController` holds off the signals it causes itself. The selection
goes to the darkroom at once and, by way of the library, to the map. Edits, undone
or not, change a file in the library, which tells; the grid then asks again for
the file that the pane displays, and the map takes that answer like any other.
`Darkroom` has `DarkroomModule` (a weak pointer to the file, a reload that waits until
the page is shown), `ncr::Image` (status, size, whether it lies on its side) and
`ImageCanvas::on_draw`. A behaviour of the whole has files given as if `get_file()` found
them.

### `Window`

The application's configuration and each catalog's, the preferences dialog with
its binders, the prompt for a catalog, window and splitter, the nodes of the tree
and the undo actions. A value is kept when the code calls `setValue`: the theme at
once, the other preferences when the dialog's binders are destroyed, one after the
other, the catalog before it is known to open, the layout by destructors. `kill` can come
between any two. What the user wished and what the last orderly end left are
history variables.

### `Worker`

`fwk::Worker` with `MtQueue`, and the notification center that tasks post to. Who holds
the mutex is a variable, as the destructor empties the queue without it. A
worker destroyed before its thread begins, or while a task runs, is joined for
ever; taking a task from a queue that has just been emptied is `undefined`.

### `UfrawMeta`

The file as its nodes, and `getPropContent`, which takes the next node for the text
of an element: for an empty element that is the blank behind it, or the next
element, whose setting is lost.

### `Utilities`

`Rect::fit_into` and `fill_into`, the scaling and turning of thumbnails, the parts of
paths, and monikers, as operators applied to every small rectangle and path. A
product of a side and a quotient of doubles is cut: where it is whole, it may
come out one less, and both are values of `scale`. A picture that is turned is
its four corners.

### `FileBundle`

`filter_bundles()` and `add()` of `db/filebundle.rs`. A path is its base, whether
there is anything after the base, its kind and its place in the sorted list.
The files are taken one by one in any order that sorting could produce.

### `ImportDialog`

`importdialog.cpp` with its threads. A source that is chosen starts a thread
that lists it; the list starts a thread that makes previews. Results go through
`UIResultSingle` (it keeps only the last) and `UIResults` (all), and the main loop
is told once per emission. No thread is ever told to stop, and all of them share
the importer's one camera, which each closes and opens again (`is_open`), whatever the
others are doing with it: so every opening, listing, preview and download may fail,
and `failed` says that one did. The import itself downloads file by file and
leaves out what it does not get.

### `Importers`

`CameraImporter`, `DirectoryImporter`, `GpDeviceList` and `GpCamera` one call after another,
and what happens to the ports between two calls: a camera is unplugged, another
is plugged in, the file manager takes it or is asked to give it up. Whether the
opening succeeded is not looked at, so every later call may fail. A copy that
cannot be saved is left out, and may take the earlier copy of its name with it.

## 3. What is assumed of the outside

* **SQLite**: a statement is atomic and durable; it may fail at any time.
* **Files**: a save truncates first and writes afterwards; either may fail.
* **The GTK main loop**: sources are dispatched one at a time on one thread;
  channel messages arrive in order, once; a `Glib::Dispatcher` calls its slot
  once per emission.
* **Decoding, MIME detection, XMP parsing, cameras**: a choice or a constant.
* **The user**: does anything the widgets allow, at any time, and owes nothing.

## 4. The runs

Every run finishes with the bounds stated. `CHECK_DEADLOCK FALSE` is in those runs
where the system may come to rest: the client is closed and its worker ended
(`client`), every request is served (`thumbnails`), the bounds on starts and on
undo are used up with nothing left to do (`catalog`), the import is over
(`import_dialog`), and one of the parts is at its end, such as a directory or a
file that is read or a worker that was joined (`parts`). The others never rest.

| Run | Question | Properties |
|---|---|---|
| `client` | Does the queue do what it promises in every interleaving? | `SyncReturnDrains`, `SyncEventuallyReturns`, `StopSettles`, `ImplementsExecutor` |
| `thumbnails` | Is every thumbnail asked for made, with several threads at work? | `NoStrandedTask`, `ThumbnailDelivered`, `EventuallyExecuted` |
| `library` | Do the tables stay consistent through failing statements and restarts? | `BundleRows`, `BundleWhole` |
| `catalog` | Is a catalog made once, and are labels shown and undone exactly? | `LabelsFollow`, `CreatedOnce`, `UndoIsExact`, `NewGetsLabels` |
| `xmp_queue` | Is a change of metadata ever lost silently? | `RatingMatchesBlock`, `XmpSavedOrQueued`, `QueueServed` |
| `niepce` | Do tree and list end up showing the database? | `CountsSettle`, `ListFollowsTree`, `Settles` |
| `niepce_edits` | Do pane and undo history agree with the database? | `PaneIsCurrent`, `PaneFollowsSelection`, `UndoIsExact` |
| `metadata_pane` | Does every widget end up showing the library's value, and does looking at a picture leave it alone? | `PaneShowsLibrary`, `LookingChangesNothing` |
| `shell` | Do grid, strip, map and darkroom show the image selected? | `ViewsAgree`, `MapFollows`, `DarkroomShowsGiven` |
| `import_dialog` | Is what is listed, previewed and imported the source's? | `ShownIsSource`, `PreviewOfRow`, `ImportedFromSource` |
| `parts` | The parts that share nothing with others, see below | ten |
| `library_keywording` | Does a keywording row link a file and a keyword? | `KeywordingLinks`, violated |

`MCParts` is eight modules in one run: a behaviour is one of its part, chosen at
first, and leaves the others in a first state, so that the state space is the
sum of the eight. Its properties are of

* `FileBundle`: `OrderDoesNotMatter`, which file of a directory gets which role
  whatever the order of the extensions;
* `Commands`: `HistoryStands`, that what was done last is as it was left and what was
  undone last as it was found, and `CountsFollow`, that list and tree follow the moves to the
  Trash and back;
* `WorkspaceTree`: `RowsAreDatabase`, one row for each folder and keyword once the
  library has answered;
* `Worker`: `NoTaskForgotten`, that a thread that waits has nothing to do;
* `UfrawMeta`: `LastValueIsSet`, that a setting is the last one in the file, except
  where an empty element has swallowed it;
* `Utilities`: `ShownRight`, rectangles and thumbnails have their size and their side
  up, and `PartsRejoin`, on paths and monikers;
* `Window`: `KeptForNextStart`, what an end keeps, the next start finds: of a dialog whose
  binders a kill interrupts, the first preference and not the second;
* `Importers`: `HandsOverSource`, what is handed over is there and of its source, and is
  all of it if the camera stayed and every copy was saved.

The bounds, and why they are enough to see what the properties are about:

* `client`: five operations, of which two are synchronous and two panic (one of
  them both). Two are needed for order, one more for one that is dropped by
  `stop()`; the kinds are all there at once.
* `thumbnails`: two requests for one readable picture, one for a movie that has
  no thumbnail and whose cached file is torn, one for a bundle without a main file;
  two identities of threads. Two threads are the fewest that overlap on one file,
  and the other requests let one thread end, or die, and be started again under
  them.
* `library`: a RAW bundle with XMP, JPEG and keyword, and a bare picture; one path
  and the Trash; two files, four fsfiles, two keywords. An import that is cut
  short at any statement, a deletion, and a second import that gets the same ids
  all fit.
* `catalog`: two initial labels for the code's five and two starts of the
  program, each with at most one kind of failure (opening, asking for the version,
  `init_db`); two operations queued, two
  transactions, four ids. Two labels are enough for a list that is half there.
  `init_db` has its statements in the code's order, so the restart falls between
  any two.
* `xmp_queue`: a picture with an XMP file and one without, two ratings and none,
  two files, one notification in flight beside the one being served.
* `niepce`: a new library, one path, two folders (one is the Trash), one file,
  three operations or notifications pending, no edits. `niepce_edits`: a folder
  with two pictures, one rated and one not, two ratings, three pending, an undo
  history of one transaction. Together they have all the actions; apart they
  let the user be three steps ahead of the replies in each.
* `metadata_pane`: two interchangeable files; a property of each format (text,
  rating, keywords, and two fractions, of which one is no fraction); texts of one
  word; two operations or notifications pending, so that the answer for a file
  comes while another is displayed.
* `shell`: two files, of which one lies on its side, both in a folder, and the empty
  folder; two answers pending. A third file adds moves but no
  case: a view has the file selected, another, or none.
* `import_dialog`: a directory of one file and two cameras with one file and with two,
  of the same names, the second without a preview; two threads, two emissions
  pending. Two files are needed where one may be left out. Threads are interchangeable
  (`SYMMETRY`; the run has no liveness property).
* `parts`: directories of four files of two bases (no rule of `add()` looks at more
  than three files of a bundle); two catalogs, two places of the window, one
  node, two undo steps, which are taken beside one state of the preferences only and
  without their dialog, as they share nothing with them; two pictures and the flag, two commands ahead and two in
  the history; two folders and keywords, four rows ever made, two operations
  ahead; four tasks; two elements in an UFRaw file, one to swallow the next; sides
  up to six, paths up to five characters; two ports and two models of which one
  has two folders with a file of one name, three changes at the ports.

### Fairness

* `ClientImpl`: weak fairness of the worker, which is a thread that runs until it
  ends; of `recv`, which returns once the channel has a reply or is
  disconnected; and of the second step of `stop()`. None for the caller's
  decisions and none for spurious wake-ups.
* `ThumbnailCache`: weak fairness of each thread. None for requests.
* `Niepce`: weak fairness of the worker and of the main loop. None for the user.
* `Catalog`: weak fairness of the worker and strong fairness of the main loop. Each
  command of the user is a step of the main loop's thread too, and a synchronous
  creation disables the delivery of notifications until its reply is there; but
  an iteration of the main loop dispatches all the sources that are ready, so
  the channel gets its turn however often the user keeps the thread busy.
* The others are checked for safety only. Their properties of the form "once
  the library has answered" say what must hold when nothing is on its way.

## 5. What is proved

The theorems hold for every value of the constants, from the assumptions named
in the modules. These are as weak as the argument allows: finite sets where
something is counted (threads, pictures, keywords, ports), natural numbers for the
bounds, that `None` is not an element, that a path is none of the words that
stand for no path, that paths in two directories differ. `Importers` assumes of a
camera that its folders are in one of the two places the code looks at, as an
importer finds nothing of another. The bounds themselves are arbitrary: none of
the proofs uses that a queue or a history is short. None is about liveness.

Every proof has the same shape: an inductive invariant, that the initial states
have it, one lemma for each action that keeps it (or for each of its parts and
each action, where it has many), that it implies the property, and the theorem.
TLC checked the invariants on small instances before they were proved.

### The argument for what is shown

Most properties of the user interface are of the form "when nothing is on its way,
what is shown is what is stored". They are not inductive: they say nothing while
something *is* on its way, which is nearly always. What is inductive says where
that which is on its way leads. `SequenceLemmas` has this once, as a *walk*:
`Walks(L, s, x, y)` says that the steps `L[s[1]]`, `L[s[2]]`, ... lead from `x` to `y`,
where `L` gives for each message the pairs of values it leads from and to. A
message sent is a step more at the end, a message delivered a step taken at the
front, and a message that does not concern the value leads from each value to
itself. So each action moves one end of a walk, and the property is the walk over
the empty queue. The lemmas are `WalksAppend`, `WalksTail`, `WalksCons`, `WalksConcat`,
`WalksStay` and `WalksTotal`; beside them are `Final` and `Followed` (the last of some
messages is this one; each of these has one of those behind it), numbers of
ids in queues (`Ids...`), and `FlattenSeq`.

Induction over numbers and sequences is not to be had from the library's theorems
on it, which take an operator as parameter. It is had from the one that does
not: finite sets are well-founded under strict inclusion, so a set of naturals has
a least element (`LeastNat`), so what holds of 0 and goes on holds (`CountUp`), so
what holds of the first place of a fold and is kept holds of the last
(`FlattensInduct`).

### `ClientImplProofs`

`IInv` is types;
`ExecutedInOrder` (what was scheduled is what was executed, followed by what the
worker holds, followed by the queue); `NoMissedWakeup`; `ElemInv` (the worker holds
an operation exactly in `execute`, or has panicked in it); `LateInv` (which relates
the flag, the position of the worker and what it popped since the flag was
raised: without it, `AtMostOneLate` is not inductive, as nothing says that the
worker popping now has popped nothing late before); `NoDupInv` (an operation is
scheduled once); `ReplyInv` (the operation awaited is the last one scheduled, and
a reply in the channel means that nothing is left to run). From it: types, order, wake-ups, `AtMostOneLate`, `SyncReturnDrains`, and
`Refinement`, that every step is one of `SerialExecutor` or a stutter.

### `NiepceProofs`

The composition, whose state is typed by `StateTyped` (with `StartInv`: the first
operation after a start is to list the folders, and until it ran nothing was
told). Then an invariant for each of its properties:

* `PaneInv`, for `PaneIsCurrent`: what was read of a file before it changed is followed
  by the notification of that change, on which the pane reads it again; and the
  pane has the rating of its file unless it is still asked for, answered or
  announced.
* `FollowInv`, for `PaneFollowsSelection`: the last request, or else the last answer, is
  for the file selected.
* `UndoInv`, for `UndoIsExact`: the transactions to undo are a walk back from the rating
  that the operations queued will leave (`Latest`), those to redo a walk on from
  it.
* `CountsInv`, for `CountsSettle`: for each folder, the notifications lead from what the
  tree shows to no row if the folder is gone, and otherwise to its count, unless
  it is still to be counted. An id that is given again before the deletion
  of the former folder is told is no exception: the walk passes through both.
* `ListInv`, for `ListFollowsTree`: the last query queued is for the folder selected or,
  when all were answered, the notifications lead from what the list shows to the
  content of that folder; the exception is a selected folder whose deletion
  is still to be told, after which another is selected.

Of `ThumbnailCache`, `CacheInv` is types, `FlagInv` (the flag is up while tasks
are queued, and up only if some thread is still to test it), `HoldInv`, `OnceInv` (a task is
queued, held by one thread, or executed) and `DeliverInv`, which says of each place
in `execute()` what the cached file and the thumbnail of *another* thread on the
same picture can be. From it: no task is stranded, tasks are popped once and in
order, executed once, and a readable picture has its thumbnail. A thread that died of its task (`died`) is in each of
them: the task is held by nobody and not executed, and until the flag is raised
again (`orphaned`) the queue may have no thread.

### `LibraryProofs`

Of `LibraryDb`, `LibraryIInv` is types, `StageInv` (which `pc` goes with which
locals), `CurInv` and `FsInv` (the file and the fsfile that the running command
has just made are rows, and the fsfile is nobody's yet), `PartInv` (which parts of
the bundle the file has so far), `RowInv` (the two properties on fsfiles, the
folder and the sidecars), `KeywordsUnique` (but for a row that a failing query `missed`) and `BundleWhole`. Row ids used again
are the reason for `FsInv`: a new row has the id of an old one, and the proof needs
that nothing names the old one any more.

Of `Catalog`: `SchemaInOrder` (while a catalog is made, its schema is the statements up
to the worker's place, and a schema that has anything has `admin`) and
`InitialOnce` (a catalog announced as new has no initial labels yet, made or
queued, and those made and queued never exceed their number) give `CreatedOnce`.
`ListInv` gives `LabelsFollow`: the notifications lead from the list shown to the rows of
the table in the order of their ids, which takes that a new id is the largest.
`SyncInv` (one creation at a time is awaited, and it is the one at the head of the
transaction) and `UndoInv` give `UndoIsExact`: the ids in the table are, each once,
those of the start, of the transactions to undo, of the part of the running one that
is done, of the requests queued, and of the reply that is not yet read. Each id
passes through these places in turn; that no two of them ever have the same is what
makes the count exact. A version query that fails runs `init_db` on a catalog that
is there: `CreatedOnce` then allows the worker's end, and proves that even so no
label of the program is made twice.

### `MetadataProofs`

Of `XmpQueue`, `XmpIInv` is types, `HoldsInv` (which file the worker holds at which
statement, and what it has read of it) and the three properties, which need each
other: that a file taken out of the queue is written rests on what the worker
holds of its block, and that on the rows' being changed only by the worker.

Of `MetadataPane`, `PaneIInv` is types, `BagsAreFresh` (an answer on its way is what the
library has, or the notification of a change comes behind it) and `PaneFollows`
(something is on its way that will fill the pane again, or each widget shows the
library's value but the one typed in). `PaneLookingChangesNothing` is an action
property from it.

### `ApplicationProofs`

Of `Window`, `WindowIInv` is the types in three groups (configuration, flags, what was
left), `PhaseInv` (what is open in which phase), `WishedInv` (the configuration says
what the user wished, and the open dialog is ahead of it, but for the theme),
`LeftInv` (what the last orderly end left is in the configurations), the types of
the undo history and `UndoOffered`. From it: types, `UndoOffered`, and the action
property `KeptForNextStart`.

Of `Shell`, `ShellIInv` is a part for the list (`LInv`: types, `ViewsAgree`, and
`AskedInv`, that of all answers on their way the last is about the image selected
unless the one displayed before it was asked for again, without which `MapFollows` says nothing of the step before) and one for the
darkroom (`DInv`: types, `GivenInv`, that what is loaded is the file given unless a
reload is due, and `SettleInv`, that the canvas is valid again after two draws).
`DrawingSettles` is a bound on the steps where one would expect liveness.

Of `Worker`, `WorkerIInv` is types, `NoTaskForgotten`, `MutexInv` (the mutex is held
exactly where it is, and only a destructor empties the queue meanwhile), `CallsInv`
(one call of the dispatcher for each notification) and `TasksInv` (what is
dispatched, posted, running and queued, end to end, is what was scheduled and not
forgotten, in order).

### `ImportDialogProofs`

`ImportIInv` is types, `Cameras` (the importer asked is the one of the source, and has
its camera by then), `PreviewOfRow` with `PreviewsShow` and `PreviewsOwed` (a preview on
its way is of its file, and none waits without being announced), `ServesSource`
(unless choices overlapped, at most one thread is at work, for the source chosen
and its camera), `Turns` (and then a list is on its way only when that thread is
done), `ImportFollows` (what is imported is of the source, and with what is still to be
downloaded is all of it unless something failed) and `Pipeline`: the source is being listed, or its previews are
received, on their way, or still to be made, in that order and end to end.

### `PartsProofs`

* `FileBundle`: that each bundle is good (`RawIsMain`, `MainIsMedia`, roles are
  among its files) is kept by `add()` whatever the order and number of files; the
  loop adds only files of one base. `Orderly` says which file has which role from
  the *set* of files alone; that `add()` keeps it, when there is at most one file
  of each kind, is `OrderDoesNotMatter`.
* `Commands`: `WalkInv`, that for each property of each picture the operations queued
  lead to a value from which the undo history is a walk back and the redo
  history a walk on, for pictures to which no command was given in haste, gives
  `HistoryStands`; `CountInv`, that a count shown and the moves still to be told
  add up to the files there, gives `CountsFollow`.
* `WorkspaceTree`: `RowInv` (maps and rows lead to each other), `TreeLeads` (the
  notifications lead from the ids in the maps to what the library has told of,
  which is nothing, the folders, or all) and `CountedInv` (a row has its count, or
  it is asked for or told) give `RowsAreDatabase`.
* `Utilities`: `PartsRejoin` from what the first and the last place of a separator are,
  for sequences of any length; `ShownRight` from the arithmetic of cut products.
* `Importers`: `ImportersInv` is types, `SourceInv` (a job on a camera is on the one that is
  open), `HandedInv` (what is handed over was copied from it, unless a later copy of
  its name failed) and `SteadyInv`: while nothing failed, the names of what was found and those in the folders still to be
  looked at are, end to end, the files of the card.
* `UfrawMeta`: `UfrawInv`, that some first elements were handled, that the reader has
  what is left of the last of them, which is no element, and the nodes of all
  others, and that each setting is that of the last of these that sets it.

### Only model-checked

All liveness: `SyncEventuallyReturns`, `StopSettles`, `EventuallyExecuted`, `Settles`,
`NewGetsLabels` and the fairness in `ImplementsExecutor`, which is out of reach of
the prover. Every invariant and every action property that a run checks is stated
by a theorem (`KeywordingLinks`, which is violated, of course is not).

## 6. What was found

With a run (`findings` of `PROJECT.json`):

* `assign_keyword()` binds its two ids in the wrong order (`db/library.rs:796`), so a
  row of `keywording` is (keyword, file). The unit test has 1 for both.

Seen while modelling; the models do as the code does:

* `gdkpixbuf_exif_rotate()`, in C++ and in Rust, takes the two Exif orientations that
  both turn and mirror (5 and 7) for each other: a thumbnail of such a picture
  is upside down (`TurnedUpright` has them as they are).
* The Trash is locked but `delete_folder()` does not look (`db/library.rs:477`).
* `get_selected()` returns 0 for no selection, and the edits test `>= 0`
  (`selectioncontroller.cpp:298`): an edit made before the pane is emptied is for file
  0 and is lost, but is in the undo history.
* `image_list_store.rs:233-243`: `get_file()` never returns a file, so the rating
  shortcuts, *Move to Trash* and opening the darkroom do nothing.
* `db/library.rs:988-1000`: `update_label()` is refused by SQLite every time.
* A catalog whose creation was cut short is never completed: the `admin` table is
  what the next start looks for, and it is made first, before the other tables.
* `file_update_trigger` has no `WHERE`; `cmd_add_keyword` notifies twice;
  `cmd_create_label` returns -1 on failure while `commands.rs:393` says 0;
  `doc/database.txt:12` gives version 7 and the code has 9.
* A version query that fails, for any reason, counts as a new catalog: `init_db()` is
  run on the tables that are there and panics (`db/library.rs:172`).
* A thumbnail of a bundle without a main file panics and leaves the queue's flag up
  (`thumbnail_cache.rs:199`).
* A keyword that could not be looked up is inserted again (`db/library.rs:762`).
* A change of the file that the pane displays makes the grid ask for it again, even
  when another is selected by then; the map ends on it (`gridviewmodule.cpp:70`).
* A queued XMP id outlives its file and may be another file's by then: an
  unchanged file is then written.
* A reply to a metadata request is displayed whatever is selected by then
  (`gridviewmodule.cpp:59`): the pane may show a file that is no longer selected.
  `PaneFollowsSelection` and `UndoIsExact` say precisely when it does not.
* Delete, pressed twice before the row is gone, is two transactions, and the old
  value of a command is that of before the ones still on their way.
* Leaving the widget of an empty list of keywords, or of a keyword with a comma,
  changes the picture's keywords.
* In the import dialog a second source chosen while the first is being listed
  adds to it; with two cameras, a thread of the first may take the shared camera
  from the second, and even the thread of the same source opens it again under
  an import, which then lacks files. A camera without a preview is a null pointer in
  `preview_received()`. The dialog may be gone before its threads.
* Files of one name in two folders of a card are copied to one path.
* An empty element of an UFRaw file swallows the one behind it.
* A worker of the C++ framework that is destroyed before its thread begins, or
  while a task runs, is joined for ever.
* All thumbnails of movies go through one temporary file.
* `UndoHistory::clear()` clears nothing.

Properties whose promise the code keeps only in part have the exception in them,
either in words of the state or as a history variable (`cut`, `failed`, `overlap`,
`crossed`, `astray`, `steady`, `watching`, `missed`, `died`, `orphaned`), set in the step where the exception arises
and nowhere else.

## 7. What is not modelled, and why

* **Pixels, scales and frames of the darkroom, and its develop tools**: GEGL's, and
  sliders that nothing listens to. Tilting and rotating by hand have no callers.
* **Docks, cell renderers, menus, icons, scrolling**: they display; what the user
  does with them is an input of the models.
* **Base utilities (dates, colours, fractions)**: small functions with unit tests of
  their own.
* **XMP, Exif and RAW formats**: tables of names over external libraries.
* **The queries of the database and the fields of notifications**: no state.
* **Races on memory** (`UIResult::clear` without the lock, a camera freed while in
  use, a dialog destroyed under its threads): undefined from there on. The
  models have their first consequence, the choice of an outcome, and stop.
* **Plug-ins and Camera Wire**: nothing calls `load_modules()` and nothing is shipped,
  and a window without behaviour.

## 8. Plan

Done, in this order: the client with its abstract executor; the thumbnail cache;
the library database; the XMP queue; the composition; bundles; the import
dialog; the catalog and its labels; proofs for four of them; then the metadata
pane, shell and darkroom, window and configuration, menu commands, the rows of
the tree, importers and cameras, the C++ worker, UFRaw and the utilities; proofs
for the XMP queue, the window, the shell and the worker; then for all that was
left: the composition, the catalog, the pane, the import dialog, commands, tree,
bundles, utilities, importers and UFRaw.

Left, most important first:

1. That the composition implements its parts: each operation of `Niepce` is one step
   there and several statements in `LibraryDb`, and its queue is that of `ClientImpl`.
2. Keywords and labels in the composition, and `Commands` and `WorkspaceTree` as
   refinements of it.
