------------------------------ MODULE XmpQueue ------------------------------
(***************************************************************************)
(* The metadata of the files and the XMP update queue.  Setting a value    *)
(* changes a column, then the XMP block of the file; a trigger puts the    *)
(* file in xmp_update_queue and sends XmpNeedsUpdate to the UI, which asks *)
(* the worker to process the queue: each file is taken out of it, then, if *)
(* the user's preference says so, its XMP file is written.                 *)
(*                                                                         *)
(* Each statement is committed on its own, so it is one step; between two  *)
(* a statement may fail, the thread may panic, and the program may end.    *)
(* Of a file's other tables (see LibraryDb) only whether it has an XMP     *)
(* file is here, and of its metadata only the rating.                      *)
(***************************************************************************)
EXTENDS Integers, FiniteSets

CONSTANTS NoRow,
          Bundle,      \* pictures; each its own path
          WithXmp,     \* those that come with an XMP file
          Stars,       \* the rating in their metadata, or Absent
          MaxRating,
          MaxFile,     \* bound on the row ids
          MaxAsked     \* bound on the requests in flight

Absent == -1
Rating == 0..MaxRating
Content == Rating \cup {Absent}
FileRow == 1..MaxFile

\* `block' is the xmp column; `touched' that it has a MetadataDate of ours.
FileRec == [name : Bundle, xmp : BOOLEAN, rating : Rating, block : Content, touched : BOOLEAN]

ASSUME XmpAssumption ==
  /\ MaxRating \in Nat /\ MaxFile \in Nat /\ MaxAsked \in Nat
  /\ WithXmp \subseteq Bundle
  /\ Stars \in [Bundle -> Content]
  /\ NoRow \notin Content \cup FileRec

VARIABLES files,              \* id -> FileRec, or NoRow
          xmp_update_queue,   \* file ids
          disk,               \* bundle -> what its XMP file holds; NoRow: anything else
          asked,              \* XmpNeedsUpdate notifications, and the commands
                              \* they cause, in flight
          pc,                 \* the statement to execute, or "idle", or "dead"
          cur,                \* the file worked on, or 0
          value,              \* the rating to set
          todo,               \* ids to take out of the queue
          write,              \* whether to write their XMP files
          cut                 \* history: what failures and wishes cut short

command == <<cur, value, todo, write>>
vars == <<files, xmp_update_queue, disk, asked, pc, command, cut>>

TypeOK ==
  /\ files \in [FileRow -> FileRec \cup {NoRow}]
  /\ xmp_update_queue \subseteq FileRow
  /\ disk \in [Bundle -> Content \cup {NoRow}]
  /\ asked \in 0..MaxAsked
  /\ pc \in {"idle", "block", "dequeue", "write", "dead"}
  /\ cur \in FileRow \cup {0}
  /\ value \in Content
  /\ todo \subseteq FileRow
  /\ write \in BOOLEAN
  /\ cut \subseteq FileRow \X {"set", "write", "queue"}

Files == {f \in FileRow : files[f] # NoRow}

Start == /\ pc = "idle" /\ cur = 0 /\ value = Absent /\ todo = {} /\ write = FALSE
Finish == /\ pc' = "idle" /\ cur' = 0 /\ value' = Absent /\ todo' = {} /\ write' = FALSE

Init ==
  /\ files = [f \in FileRow |-> NoRow]
  /\ xmp_update_queue = {}
  /\ disk = [b \in Bundle |-> NoRow]
  /\ asked = 0
  /\ Start
  /\ cut = {}

\* The columns have no room for Absent.
column(r) == IF r = Absent THEN 0 ELSE r
-----------------------------------------------------------------------------
(* Files come and go, between two metadata commands.                       *)

\* Mutant: the rating is left to the default of the column.
add_bundle_unrated(b, f) ==
  /\ pc = "idle"
  /\ \A g \in Files : g < f
  /\ f = 1 \/ f - 1 \in Files
  /\ \E x \in BOOLEAN :
       /\ x => b \in WithXmp
       /\ files' = [files EXCEPT ![f] = [name |-> b, xmp |-> x, rating |-> 0,
                                         block |-> Stars[b], touched |-> FALSE]]
  /\ cut' = {c \in cut : c[1] # f \/ c[2] = "queue"}
  /\ UNCHANGED <<xmp_update_queue, disk, asked, pc, command>>

\* The id is the next after the largest in use: it may have been another
\* file's, and still be in the queue.  (An import cut short has no XMP file.)
add_bundle(b, f) ==
  /\ pc = "idle"
  /\ \A g \in Files : g < f
  /\ f = 1 \/ f - 1 \in Files
  /\ \E x \in BOOLEAN :
       /\ x => b \in WithXmp
       /\ files' = [files EXCEPT ![f] = [name |-> b, xmp |-> x, rating |-> column(Stars[b]),
                                         block |-> Stars[b], touched |-> FALSE]]
  /\ cut' = {c \in cut : c[1] # f \/ c[2] = "queue"}
  /\ UNCHANGED <<xmp_update_queue, disk, asked, pc, command>>

\* No trigger takes them out of the queue.
delete_files(gone) ==
  /\ pc = "idle"
  /\ gone # {}
  /\ files' = [f \in FileRow |-> IF f \in gone THEN NoRow ELSE files[f]]
  /\ UNCHANGED <<xmp_update_queue, disk, asked, pc, command, cut>>

-----------------------------------------------------------------------------
(* set_metadata().                                                         *)

\* A value that is not a number (Absent) is refused for the column, but the
\* block still loses its rating.  (For a file that is gone, nothing changes.)
set_internal_metadata(f, r) ==
  /\ pc = "idle"
  /\ f \in Files
  /\ files' = IF r = Absent THEN files ELSE [files EXCEPT ![f].rating = r]
  /\ pc' = "block"
  /\ cur' = f
  /\ value' = r
  /\ cut' = IF r = Absent THEN cut \cup {<<f, "set">>} ELSE cut
  /\ UNCHANGED <<xmp_update_queue, disk, asked, todo, write>>

\* Mutant: the trigger only sends the notification.
set_metadata_block_no_queue ==
  /\ pc = "block"
  /\ asked < MaxAsked
  /\ files' = [files EXCEPT ![cur].block = value, ![cur].touched = TRUE]
  /\ asked' = asked + 1
  /\ cut' = cut \ {<<cur, "queue">>}
  /\ Finish
  /\ UNCHANGED <<xmp_update_queue, disk>>

\* Mutant: the notification is sent when the queue was empty.
set_metadata_block_first ==
  /\ pc = "block"
  /\ asked < MaxAsked
  /\ files' = [files EXCEPT ![cur].block = value, ![cur].touched = TRUE]
  /\ xmp_update_queue' = xmp_update_queue \cup {cur}
  /\ asked' = IF xmp_update_queue = {} THEN asked + 1 ELSE asked
  /\ cut' = cut \ {<<cur, "queue">>}
  /\ Finish
  /\ UNCHANGED disk

\* The update of xmp fires the trigger, which also sends XmpNeedsUpdate.
set_metadata_block ==
  /\ pc = "block"
  /\ asked < MaxAsked
  /\ files' = [files EXCEPT ![cur].block = value, ![cur].touched = TRUE]
  /\ xmp_update_queue' = xmp_update_queue \cup {cur}
  /\ asked' = asked + 1
  /\ cut' = cut \ {<<cur, "queue">>}
  /\ Finish
  /\ UNCHANGED disk

-----------------------------------------------------------------------------
(* Writing the XMP files.                                                  *)

cmd_write_metadata(f) ==
  /\ pc = "idle"
  /\ pc' = "dequeue"
  /\ todo' = {f}
  /\ write' = TRUE
  /\ UNCHANGED <<files, xmp_update_queue, disk, asked, cur, value, cut>>

\* The UI answers XmpNeedsUpdate with its preference of the moment.
cmd_process_xmp_update_queue(pref) ==
  /\ pc = "idle"
  /\ asked > 0
  /\ asked' = asked - 1
  /\ pc' = "dequeue"
  /\ todo' = xmp_update_queue
  /\ write' = pref
  /\ UNCHANGED <<files, xmp_update_queue, disk, cur, value, cut>>

\* The row leaves the queue before the file is written, or not written.
rewrite_dequeue(f) ==
  /\ pc = "dequeue"
  /\ f \in todo
  /\ xmp_update_queue' = xmp_update_queue \ {f}
  /\ todo' = todo \ {f}
  /\ IF write /\ f \in Files THEN pc' = "write" /\ cur' = f ELSE UNCHANGED <<pc, cur>>
  /\ cut' = (IF f \in xmp_update_queue /\ ~write THEN cut \cup {<<f, "write">>} ELSE cut)
            \ {<<f, "queue">>}
  /\ UNCHANGED <<files, disk, asked, value, write>>

rewrite_end ==
  /\ pc = "dequeue" /\ todo = {}
  /\ Finish
  /\ UNCHANGED <<files, xmp_update_queue, disk, asked, cut>>

\* File::create() may fail, write() may fail after it truncated the file:
\* neither is reported.  A picture imported twice has the file twice.
rewrite_file ==
  /\ pc = "write"
  /\ files[cur].xmp
  /\ LET b == files[cur].name
         twins == {<<f, "write">> : f \in {g \in Files : files[g].name = b}}
     IN  \/ /\ disk' = [disk EXCEPT ![b] = files[cur].block]
            /\ cut' = (cut \cup twins) \ {<<cur, "write">>}
         \/ /\ disk' = [disk EXCEPT ![b] = NoRow]
            /\ cut' = cut \cup twins
         \/ /\ UNCHANGED disk
            /\ cut' = cut \cup {<<cur, "write">>}
  /\ pc' = "dequeue"
  /\ cur' = 0
  /\ UNCHANGED <<files, xmp_update_queue, asked, value, todo, write>>

\* A file without an XMP file has NULL there, which row.get() refuses.
rewrite_panic ==
  /\ pc = "write"
  /\ ~files[cur].xmp
  /\ pc' = "dead"
  /\ UNCHANGED <<files, xmp_update_queue, disk, asked, command, cut>>

-----------------------------------------------------------------------------
(* Failures.                                                               *)

\* The command returns; the rest of its work is not taken up again.
statement_fails ==
  /\ pc \in {"block", "dequeue"}
  /\ pc = "dequeue" => todo # {}
  /\ cut' = cut \cup (todo \X {"queue"}) \cup {<<f, "set">> : f \in {cur} \ {0}}
  /\ Finish
  /\ UNCHANGED <<files, xmp_update_queue, disk, asked>>

\* The program ends, because it is told to or not, and is started again:
\* nothing looks at the queue then.
restart ==
  /\ cut' = cut \cup (xmp_update_queue \X {"queue"})
                \cup {<<f, IF write THEN "write" ELSE "set">> : f \in {cur} \ {0}}
  /\ asked' = 0
  /\ Finish
  /\ UNCHANGED <<files, xmp_update_queue, disk>>

-----------------------------------------------------------------------------
Next ==
  \/ \E f \in FileRow : \/ \E b \in Bundle : add_bundle(b, f)
                        \/ \E r \in Content : set_internal_metadata(f, r)
                        \/ cmd_write_metadata(f)
                        \/ rewrite_dequeue(f)
  \/ \E gone \in SUBSET Files : delete_files(gone)
  \/ set_metadata_block
  \/ \E pref \in BOOLEAN : cmd_process_xmp_update_queue(pref)
  \/ rewrite_end \/ rewrite_file \/ rewrite_panic
  \/ statement_fails \/ restart

Spec == Init /\ [][Next]_vars
-----------------------------------------------------------------------------
(* Properties.                                                             *)

\* The rating column and the XMP block agree unless a setting was cut short
\* or had an improper value.
RatingMatchesBlock ==
  \A f \in Files :
    <<f, "set">> \in cut \/ (pc = "block" /\ cur = f) \/ files[f].rating = column(files[f].block)

\* Metadata that was changed is in the XMP file or queued to be written,
\* unless a write failed, was not wanted, or the picture is there twice.
XmpSavedOrQueued ==
  \A f \in Files :
    \/ <<f, "write">> \in cut \/ (pc \in {"write", "dead"} /\ cur = f)
    \/ files[f].touched => f \in xmp_update_queue \/ disk[files[f].name] = files[f].block

\* A queued file is about to be looked at: the request is in flight or
\* running, unless a failure or a restart dropped it.
QueueServed ==
  \A f \in xmp_update_queue : asked > 0 \/ f \in todo \/ <<f, "queue">> \in cut
=============================================================================
