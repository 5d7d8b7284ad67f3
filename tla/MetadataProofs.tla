---------------------------- MODULE MetadataProofs ----------------------------
(***************************************************************************)
(* What holds of the metadata and its queue for any pictures and ratings,  *)
(* through failures, panics, restarts and row ids used again; and of the   *)
(* pane that shows them, for any properties, texts and files.              *)
(***************************************************************************)
EXTENDS XmpQueue, MetadataPane, SequenceLemmas

\* What the worker holds, statement by statement.
HoldsInv ==
  /\ pc = "idle" => cur = 0 /\ todo = {} /\ ~write
  /\ pc = "dequeue" => cur = 0
  /\ pc = "block" => /\ cur \in Files /\ todo = {} /\ ~write
                     /\ value = Absent => <<cur, "set">> \in cut
                     /\ value # Absent => files[cur].rating = value
  /\ pc \in {"write", "dead"} => cur \in Files /\ write

XmpIInv == TypeOK /\ HoldsInv /\ RatingMatchesBlock /\ XmpSavedOrQueued /\ QueueServed
-----------------------------------------------------------------------------
LEMMA Columns == \A r \in Content : column(r) \in Rating /\ (r \in Rating => r # Absent /\ column(r) = r)
  BY XmpAssumption DEF Content, Rating, Absent, column

LEMMA XmpInitIInv == Init => XmpIInv
<1> SUFFICES ASSUME Init PROVE XmpIInv
  OBVIOUS
<1>1. /\ files = [f \in FileRow |-> NoRow] /\ xmp_update_queue = {} /\ disk = [b \in Bundle |-> NoRow]
      /\ asked = 0 /\ pc = "idle" /\ cur = 0 /\ value = Absent /\ todo = {} /\ write = FALSE /\ cut = {}
  BY DEF Init, Start
<1>2. write \in BOOLEAN
  BY <1>1, Zenon
<1>3. TypeOK
  BY <1>1, <1>2, XmpAssumption DEF TypeOK, Content
<1>4. Files = {}
  BY <1>1 DEF Files
<1>5. HoldsInv /\ RatingMatchesBlock /\ XmpSavedOrQueued /\ QueueServed
  BY <1>1, <1>4 DEF HoldsInv, RatingMatchesBlock, XmpSavedOrQueued, QueueServed
<1>6. QED
  BY <1>3, <1>5 DEF XmpIInv

\* When a command ends the worker holds nothing.
LEMMA Finished ==
  Finish => pc' = "idle" /\ cur' = 0 /\ value' = Absent /\ todo' = {} /\ write' = FALSE
            /\ write' \in BOOLEAN /\ HoldsInv'
<1> SUFFICES ASSUME Finish
             PROVE  pc' = "idle" /\ cur' = 0 /\ value' = Absent /\ todo' = {} /\ write' = FALSE
                    /\ write' \in BOOLEAN /\ HoldsInv'
  OBVIOUS
<1>1. pc' = "idle" /\ cur' = 0 /\ value' = Absent /\ todo' = {} /\ write' = FALSE
  BY DEF Finish
<1>2. write' \in BOOLEAN
  BY <1>1, Zenon
<1>3. QED
  BY <1>1, <1>2 DEF HoldsInv
-----------------------------------------------------------------------------
(* Files come and go.                                                      *)

LEMMA AddStep == ASSUME XmpIInv, NEW b \in Bundle, NEW f \in FileRow, add_bundle(b, f) PROVE XmpIInv'
<1> USE DEF XmpIInv
<1>1. PICK x \in BOOLEAN :
        files' = [files EXCEPT ![f] = [name |-> b, xmp |-> x, rating |-> column(Stars[b]),
                                       block |-> Stars[b], touched |-> FALSE]]
  BY DEF add_bundle
<1>2. /\ pc = "idle" /\ f \notin Files
      /\ cut' = {c \in cut : c[1] # f \/ c[2] = "queue"}
      /\ UNCHANGED <<xmp_update_queue, disk, asked, pc, cur, value, todo, write>>
  BY DEF add_bundle, command, FileRow
<1> DEFINE new == [name |-> b, xmp |-> x, rating |-> column(Stars[b]), block |-> Stars[b], touched |-> FALSE]
<1>4. /\ new \in FileRec /\ ~new.touched /\ new.rating = column(new.block)
  BY XmpAssumption, Columns DEF FileRec
<1> HIDE DEF new
<1>5. /\ files' \in [FileRow -> FileRec \cup {NoRow}] /\ files'[f] = new
      /\ \A g \in FileRow \ {f} : files'[g] = files[g]
  BY <1>1, <1>4 DEF TypeOK, new
<1>6. \A g \in Files' : g = f \/ (g \in Files /\ g # f)
  <2>1. \A g : /\ g \in Files' <=> g \in FileRow /\ files'[g] # NoRow
               /\ g \in Files <=> g \in FileRow /\ files[g] # NoRow
    BY DEF Files
  <2>2. QED
    BY <1>5, <2>1
<1>7. TypeOK' /\ HoldsInv'
  BY <1>2, <1>5 DEF TypeOK, HoldsInv
<1>8. \A g \in FileRow, w \in {"set", "write", "queue"} : g # f \/ w = "queue" =>
        (<<g, w>> \in cut' <=> <<g, w>> \in cut)
  BY <1>2
<1>9. RatingMatchesBlock'
  BY <1>2, <1>4, <1>5, <1>6, <1>8 DEF RatingMatchesBlock, Files
<1>10. XmpSavedOrQueued'
  BY <1>2, <1>4, <1>5, <1>6, <1>8 DEF XmpSavedOrQueued, Files
<1>11. QueueServed'
  BY <1>2, <1>8 DEF QueueServed, TypeOK
<1>12. QED
  BY <1>7, <1>9, <1>10, <1>11

LEMMA DeleteStep == ASSUME XmpIInv, NEW gone \in SUBSET Files, delete_files(gone) PROVE XmpIInv'
<1> USE DEF XmpIInv
<1>1. /\ pc = "idle" /\ files' = [f \in FileRow |-> IF f \in gone THEN NoRow ELSE files[f]]
      /\ UNCHANGED <<xmp_update_queue, disk, asked, pc, cur, value, todo, write, cut>>
  BY DEF delete_files, command
<1>2. \A f \in Files' : f \in Files /\ files'[f] = files[f]
  BY <1>1 DEF Files
<1>3. files' \in [FileRow -> FileRec \cup {NoRow}]
  BY <1>1 DEF TypeOK
<1>4. TypeOK' /\ HoldsInv'
  BY <1>1, <1>3 DEF TypeOK, HoldsInv
<1>5. RatingMatchesBlock' /\ XmpSavedOrQueued' /\ QueueServed'
  BY <1>1, <1>2 DEF RatingMatchesBlock, XmpSavedOrQueued, QueueServed
<1>6. QED
  BY <1>4, <1>5
-----------------------------------------------------------------------------
(* Setting metadata.                                                       *)

LEMMA SetStep ==
  ASSUME XmpIInv, NEW f \in FileRow, NEW r \in Content, set_internal_metadata(f, r)
  PROVE  XmpIInv'
<1> USE DEF XmpIInv
<1>1. /\ pc = "idle" /\ f \in Files /\ pc' = "block" /\ cur' = f /\ value' = r
      /\ files' = IF r = Absent THEN files ELSE [files EXCEPT ![f].rating = r]
      /\ cut' = IF r = Absent THEN cut \cup {<<f, "set">>} ELSE cut
      /\ UNCHANGED <<xmp_update_queue, disk, asked, todo, write>>
  BY DEF set_internal_metadata
<1>2. files[f] \in FileRec
  BY <1>1 DEF Files, TypeOK
<1>3. /\ files' \in [FileRow -> FileRec \cup {NoRow}]
      /\ \A g \in FileRow \ {f} : files'[g] = files[g]
      /\ r # Absent => files'[f].rating = r
      /\ files'[f].name = files[f].name /\ files'[f].touched = files[f].touched
      /\ files'[f].block = files[f].block /\ files'[f] \in FileRec
  <2>1. CASE r = Absent
    BY <1>1, <1>2, <2>1 DEF TypeOK
  <2>2. CASE r # Absent
    <3>1. r \in Rating
      BY <2>2 DEF Content
    <3> DEFINE new == [files[f] EXCEPT !.rating = r]
    <3>2. /\ new \in FileRec /\ new.rating = r /\ new.name = files[f].name
          /\ new.touched = files[f].touched /\ new.block = files[f].block
      BY <1>2, <3>1 DEF FileRec
    <3>3. files' = [files EXCEPT ![f] = new]
      BY <1>1, <2>2
    <3> HIDE DEF new
    <3>4. QED
      BY <2>2, <3>2, <3>3 DEF TypeOK
  <2>3. QED
    BY <2>1, <2>2
<1>4. Files' \subseteq Files /\ f \in Files'
  <2>1. \A g \in FileRow : files'[g] # NoRow => g \in Files
    BY <1>1, <1>3 DEF Files
  <2>2. files'[f] # NoRow
    BY <1>3, XmpAssumption
  <2>3. QED
    BY <2>1, <2>2 DEF Files
<1>5. TypeOK'
  BY <1>1, <1>3 DEF TypeOK
<1>6. HoldsInv'
  BY <1>1, <1>3, <1>4 DEF HoldsInv
<1>7. RatingMatchesBlock'
  BY <1>1, <1>3, <1>4 DEF RatingMatchesBlock, Files
<1>8. XmpSavedOrQueued' /\ QueueServed'
  BY <1>1, <1>3, <1>4 DEF XmpSavedOrQueued, QueueServed, Files
<1>9. QED
  BY <1>5, <1>6, <1>7, <1>8

LEMMA BlockStep == ASSUME XmpIInv, set_metadata_block PROVE XmpIInv'
<1> USE DEF XmpIInv
<1>1. /\ pc = "block" /\ asked < MaxAsked
      /\ files' = [files EXCEPT ![cur].block = value, ![cur].touched = TRUE]
      /\ xmp_update_queue' = xmp_update_queue \cup {cur}
      /\ asked' = asked + 1
      /\ cut' = cut \ {<<cur, "queue">>}
      /\ Finish /\ disk' = disk
  BY DEF set_metadata_block
<1>2. cur \in Files /\ files[cur] \in FileRec /\ cur \in FileRow
  BY <1>1 DEF HoldsInv, Files, TypeOK
<1> DEFINE new == [[files[cur] EXCEPT !.block = value] EXCEPT !.touched = TRUE]
<1>3. /\ new \in FileRec /\ new.rating = files[cur].rating /\ new.block = value
      /\ new.name = files[cur].name
  BY <1>2 DEF FileRec, TypeOK
<1>4. files' = [files EXCEPT ![cur] = new]
  BY <1>1, <1>2 DEF TypeOK
<1> HIDE DEF new
<1>5. /\ files' \in [FileRow -> FileRec \cup {NoRow}] /\ files'[cur] = new
      /\ \A g \in FileRow \ {cur} : files'[g] = files[g]
  BY <1>2, <1>3, <1>4 DEF TypeOK
<1>6. Files' \subseteq Files
  BY <1>2, <1>5 DEF Files
<1>7. TypeOK' /\ HoldsInv'
  BY <1>1, <1>2, <1>5, Finished, XmpAssumption DEF TypeOK, Content
<1>8. \A g \in FileRow : /\ <<g, "set">> \in cut' <=> <<g, "set">> \in cut
                         /\ <<g, "write">> \in cut' <=> <<g, "write">> \in cut
                         /\ g # cur => (<<g, "queue">> \in cut' <=> <<g, "queue">> \in cut)
  BY <1>1
<1>9. <<cur, "set">> \in cut \/ files'[cur].rating = column(files'[cur].block)
  BY <1>1, <1>3, <1>5 DEF HoldsInv, column
<1>10. RatingMatchesBlock'
  BY <1>1, <1>5, <1>6, <1>8, <1>9 DEF RatingMatchesBlock, Files
<1>11. XmpSavedOrQueued'
  BY <1>1, <1>5, <1>6, <1>8 DEF XmpSavedOrQueued, Files
<1>12. QueueServed'
  <2>1. asked' > 0
    BY <1>1, XmpAssumption DEF TypeOK
  <2>2. QED
    BY <2>1 DEF QueueServed
<1>13. QED
  BY <1>7, <1>10, <1>11, <1>12
-----------------------------------------------------------------------------
(* Writing.                                                                *)

LEMMA AskStep ==
  ASSUME XmpIInv,
         (\E f \in FileRow : cmd_write_metadata(f)) \/ (\E pref \in BOOLEAN : cmd_process_xmp_update_queue(pref))
  PROVE  XmpIInv'
<1> USE DEF XmpIInv
<1>1. /\ pc = "idle" /\ pc' = "dequeue" /\ asked' \in {asked, asked - 1}
      /\ UNCHANGED <<files, xmp_update_queue, disk, cur, value, cut>>
      /\ \/ asked' = asked
         \/ asked > 0 /\ todo' = xmp_update_queue
      /\ todo' \subseteq FileRow /\ write' \in BOOLEAN
  BY DEF cmd_write_metadata, cmd_process_xmp_update_queue, TypeOK
<1>2. TypeOK' /\ HoldsInv'
  BY <1>1, XmpAssumption DEF TypeOK, HoldsInv
<1>3. RatingMatchesBlock' /\ XmpSavedOrQueued'
  BY <1>1 DEF RatingMatchesBlock, XmpSavedOrQueued, Files
<1>4. QueueServed'
  BY <1>1 DEF QueueServed, HoldsInv
<1>5. QED
  BY <1>2, <1>3, <1>4

LEMMA DequeueStep == ASSUME XmpIInv, NEW f \in FileRow, rewrite_dequeue(f) PROVE XmpIInv'
<1> USE DEF XmpIInv
<1>1. /\ pc = "dequeue" /\ f \in todo /\ cur = 0
      /\ xmp_update_queue' = xmp_update_queue \ {f} /\ todo' = todo \ {f}
      /\ IF write /\ f \in Files THEN pc' = "write" /\ cur' = f ELSE pc' = pc /\ cur' = cur
      /\ cut' = (IF f \in xmp_update_queue /\ ~write THEN cut \cup {<<f, "write">>} ELSE cut)
                \ {<<f, "queue">>}
      /\ UNCHANGED <<files, disk, asked, value, write>>
  BY DEF rewrite_dequeue, HoldsInv
<1>2. Files' = Files
  BY <1>1 DEF Files
<1>3. TypeOK' /\ HoldsInv'
  BY <1>1, <1>2 DEF TypeOK, HoldsInv
<1>4. \A g \in FileRow : /\ <<g, "set">> \in cut' <=> <<g, "set">> \in cut
                         /\ <<g, "write">> \in cut => <<g, "write">> \in cut'
                         /\ g # f => (<<g, "queue">> \in cut' <=> <<g, "queue">> \in cut)
                         /\ f \in xmp_update_queue /\ ~write => <<f, "write">> \in cut'
  BY <1>1
<1>5. RatingMatchesBlock'
  BY <1>1, <1>2, <1>4 DEF RatingMatchesBlock, Files
<1>6. XmpSavedOrQueued'
  BY <1>1, <1>2, <1>4 DEF XmpSavedOrQueued, Files
<1>7. QueueServed'
  BY <1>1, <1>4 DEF QueueServed, TypeOK
<1>8. QED
  BY <1>3, <1>5, <1>6, <1>7

LEMMA WriteStep == ASSUME XmpIInv, rewrite_file PROVE XmpIInv'
<1> USE DEF XmpIInv
<1> DEFINE b == files[cur].name
           twins == {<<f, "write">> : f \in {g \in Files : files[g].name = b}}
<1>1. /\ pc = "write" /\ cur \in Files /\ cur \in FileRow
      /\ pc' = "dequeue" /\ cur' = 0
      /\ UNCHANGED <<files, xmp_update_queue, asked, value, todo, write>>
      /\ \/ /\ disk' = [disk EXCEPT ![b] = files[cur].block]
            /\ cut' = (cut \cup twins) \ {<<cur, "write">>}
         \/ /\ disk' = [disk EXCEPT ![b] = NoRow]
            /\ cut' = cut \cup twins
         \/ /\ disk' = disk
            /\ cut' = cut \cup {<<cur, "write">>}
  BY DEF rewrite_file, HoldsInv, Files
<1>2. Files' = Files
  BY <1>1 DEF Files
<1>3. files[cur] \in FileRec /\ b \in Bundle /\ files[cur].block \in Content
  BY <1>1 DEF Files, TypeOK, FileRec
<1>4. \A g \in FileRow : <<g, "write">> \in twins <=> g \in Files /\ files[g].name = b
  OBVIOUS
<1>5. twins \subseteq FileRow \X {"write"}
  BY DEF Files
<1> HIDE DEF twins
<1>6. cut' \subseteq FileRow \X {"set", "write", "queue"}
  BY <1>1, <1>5 DEF TypeOK
<1>7. disk' \in [Bundle -> Content \cup {NoRow}] /\ \A n \in Bundle \ {b} : disk'[n] = disk[n]
  BY <1>1, <1>3 DEF TypeOK
<1>8. TypeOK' /\ HoldsInv'
  BY <1>1, <1>6, <1>7 DEF TypeOK, HoldsInv
<1>9. \A g \in FileRow : /\ <<g, "set">> \in cut' <=> <<g, "set">> \in cut
                         /\ <<g, "queue">> \in cut' <=> <<g, "queue">> \in cut
                         /\ g # cur /\ <<g, "write">> \in cut => <<g, "write">> \in cut'
  BY <1>1, <1>5
<1>10. RatingMatchesBlock' /\ QueueServed'
  BY <1>1, <1>2, <1>9 DEF RatingMatchesBlock, QueueServed, Files, TypeOK
<1>11. <<cur, "write">> \in cut' \/ disk'[b] = files[cur].block
  BY <1>1, <1>3, <1>4 DEF TypeOK
<1>12. ASSUME NEW g \in Files, g # cur
       PROVE  <<g, "write">> \in cut' \/ (files[g].touched => g \in xmp_update_queue \/ disk'[files[g].name] = files[g].block)
  <2>1. g \in FileRow /\ files[g].name \in Bundle
    BY DEF Files, TypeOK, FileRec
  <2>2. CASE files[g].name = b /\ disk' # disk
    BY <1>1, <1>4, <1>12, <2>1, <2>2
  <2>3. CASE files[g].name # b \/ disk' = disk
    <3>1. disk'[files[g].name] = disk[files[g].name]
      BY <1>7, <2>1, <2>3
    <3>2. <<g, "write">> \in cut \/ (files[g].touched => g \in xmp_update_queue \/ disk[files[g].name] = files[g].block)
      BY <1>1, <1>12 DEF XmpSavedOrQueued
    <3>3. QED
      BY <1>9, <1>12, <2>1, <3>1, <3>2
  <2>4. QED
    BY <2>2, <2>3
<1>13. XmpSavedOrQueued'
  BY <1>1, <1>2, <1>11, <1>12 DEF XmpSavedOrQueued
<1>14. QED
  BY <1>8, <1>10, <1>13

LEMMA EndStep == ASSUME XmpIInv, rewrite_end \/ rewrite_panic \/ UNCHANGED vars PROVE XmpIInv'
<1> USE DEF XmpIInv
<1>1. CASE rewrite_end
  <2>1. /\ pc = "dequeue" /\ todo = {} /\ Finish
        /\ UNCHANGED <<files, xmp_update_queue, disk, asked, cut>>
    BY <1>1 DEF rewrite_end
  <2>2. TypeOK' /\ HoldsInv'
    BY <2>1, Finished, XmpAssumption DEF TypeOK, Content
  <2>3. RatingMatchesBlock' /\ XmpSavedOrQueued' /\ QueueServed'
    BY <2>1, Finished DEF RatingMatchesBlock, XmpSavedOrQueued, QueueServed, Files
  <2>4. QED
    BY <2>2, <2>3
<1>2. CASE rewrite_panic \/ UNCHANGED vars
  <2>1. /\ UNCHANGED <<files, xmp_update_queue, disk, asked, cur, value, todo, write, cut>>
        /\ pc' = pc \/ (pc = "write" /\ pc' = "dead")
    BY <1>2 DEF rewrite_panic, vars, command
  <2>2. TypeOK' /\ HoldsInv'
    BY <2>1 DEF TypeOK, HoldsInv, Files
  <2>3. RatingMatchesBlock' /\ XmpSavedOrQueued' /\ QueueServed'
    BY <2>1 DEF RatingMatchesBlock, XmpSavedOrQueued, QueueServed, Files
  <2>4. QED
    BY <2>2, <2>3
<1>3. QED
  BY <1>1, <1>2

LEMMA FailStep == ASSUME XmpIInv, statement_fails \/ restart PROVE XmpIInv'
<1> USE DEF XmpIInv
<1>1. /\ Finish /\ UNCHANGED <<files, xmp_update_queue, disk>>
      /\ asked' = asked \/ (asked' = 0 /\ restart)
      /\ cut \subseteq cut'
  BY DEF statement_fails, restart
<1>2. pc \in {"block", "write", "dead"} => cur \in FileRow /\ cur # 0
  BY DEF HoldsInv, Files, FileRow
<1>2a. cut' \subseteq FileRow \X {"set", "write", "queue"}
  <2>1. \A f \in {cur} \ {0} : f \in FileRow
    BY DEF TypeOK
  <2>2. CASE statement_fails
    BY <2>1, <2>2 DEF statement_fails, TypeOK
  <2>3. CASE restart
    BY <2>1, <2>3 DEF restart, TypeOK
  <2>4. QED
    BY <2>2, <2>3
<1>2b. pc = "block" => <<cur, "set">> \in cut'
  <2>1. CASE statement_fails
    BY <1>2, <2>1 DEF statement_fails
  <2>2. CASE restart
    <3>1. pc = "block" => ~write
      BY DEF HoldsInv
    <3>2. QED
      BY <1>2, <2>2, <3>1 DEF restart
  <2>3. QED
    BY <2>1, <2>2
<1>2c. pc \in {"write", "dead"} => <<cur, "write">> \in cut'
  <2>1. ~(pc \in {"write", "dead"} /\ statement_fails)
    BY DEF statement_fails
  <2>2. pc \in {"write", "dead"} => write
    BY DEF HoldsInv
  <2>3. QED
    BY <1>2, <2>1, <2>2 DEF restart
<1>2d. \A f \in todo : statement_fails => <<f, "queue">> \in cut'
  BY DEF statement_fails
<1>2e. \A f \in xmp_update_queue : restart => <<f, "queue">> \in cut'
  BY DEF restart
<1>3. TypeOK' /\ HoldsInv'
  BY <1>1, <1>2a, Finished, XmpAssumption DEF TypeOK, Content
<1>4. RatingMatchesBlock' /\ XmpSavedOrQueued'
  BY <1>1, <1>2b, <1>2c, Finished DEF RatingMatchesBlock, XmpSavedOrQueued, Files
<1>5. QueueServed'
  BY <1>1, <1>2d, <1>2e, Finished DEF QueueServed
<1>6. QED
  BY <1>3, <1>4, <1>5

LEMMA XmpIInvHolds == Spec => []XmpIInv
<1>1. XmpIInv /\ [Next]_vars => XmpIInv'
  BY AddStep, DeleteStep, SetStep, BlockStep, AskStep, DequeueStep, WriteStep, EndStep, FailStep DEF Next
<1>2. QED
  BY <1>1, XmpInitIInv, PTL DEF Spec
-----------------------------------------------------------------------------
\* The metadata, the queue and the worker are what their types say.
THEOREM XmpTypeCorrect == Spec => []TypeOK
<1>1. XmpIInv => TypeOK
  BY DEF XmpIInv
<1>2. QED
  BY <1>1, XmpIInvHolds, PTL

\* The rating column and the XMP block agree unless a setting was cut short
\* or had an improper value.
THEOREM XmpRatingMatchesBlock == Spec => []RatingMatchesBlock
<1>1. XmpIInv => RatingMatchesBlock
  BY DEF XmpIInv
<1>2. QED
  BY <1>1, XmpIInvHolds, PTL

\* Metadata that was changed is in the XMP file or queued to be written,
\* unless a write failed, was not wanted, or the picture is there twice.
THEOREM XmpIsSavedOrQueued == Spec => []XmpSavedOrQueued
<1>1. XmpIInv => XmpSavedOrQueued
  BY DEF XmpIInv
<1>2. QED
  BY <1>1, XmpIInvHolds, PTL

\* A queued file is about to be looked at, unless a failure or a restart
\* dropped the request.
THEOREM XmpQueueServed == Spec => []QueueServed
<1>1. XmpIInv => QueueServed
  BY DEF XmpIInv
<1>2. QED
  BY <1>1, XmpIInvHolds, PTL
-----------------------------------------------------------------------------
(* The metadata pane.                                                      *)

\* What a widget hands over, and what the queue and the channel hold.
Handed(p) == IF Kind(p) \in {"STRING", "TEXT"} THEN Seq(Word) ELSE Values(p)
PaneBag == {b \in [Prop -> UNION {Values(p) \cup {None} : p \in Prop}] :
              \A p \in Prop : b[p] \in Values(p) \cup {None}}
Operation ==
  [op : {"request_metadata"}, file : File] \cup
  UNION {[op : {"set_metadata"}, file : File \cup {None}, prop : {p}, value : Handed(p)] : p \in Prop}
Notification ==
  [n : {"MetadataQueried"}, file : File, bag : PaneBag] \cup [n : {"MetadataChanged"}, file : File]

WidgetsTyped ==
  /\ selection \in File \cup {None} /\ m_fileid \in File \cup {None}
  /\ m_data_map = [p \in Prop |-> m_data_map[p]]
  /\ \A p \in Enterable : m_data_map[p] \in Seq(Word)
  /\ focus \in Enterable \cup {None}
  /\ focus = None => ~typed
  /\ focus # None \/ m_current_data # None => m_fileid # None

PaneTyped == library \in [File -> PaneBag] /\ ops \in Seq(Operation) /\ notifs \in Seq(Notification)

\* Something on its way that will have the pane filled again.
Coming ==
  \/ \E i \in DOMAIN notifs : notifs[i].n = "MetadataQueried" \/ notifs[i].file = m_fileid
  \/ \E i \in DOMAIN ops : ops[i].op = "request_metadata" \/ ops[i].file = m_fileid

\* A bag on its way is what the library has, or the news that it is not follows.
BagsAreFresh ==
  \A i \in DOMAIN notifs : notifs[i].n = "MetadataQueried" =>
    \/ notifs[i].bag = library[notifs[i].file]
    \/ \E j \in DOMAIN notifs : j > i /\ notifs[j].n = "MetadataChanged" /\ notifs[j].file = notifs[i].file

PaneFollows ==
  m_fileid # None /\ ~astray =>
    \/ Coming
    \/ \A p \in Prop : p # focus \/ ~typed => m_data_map[p] = Shown(p, library[m_fileid][p])

PaneIInv == PaneTyped /\ WidgetsTyped /\ BagsAreFresh /\ PaneFollows
-----------------------------------------------------------------------------
LEMMA Entry ==
  /\ \A p \in Enterable : p \in Prop /\ Kind(p) \in {"STRING", "TEXT", "STRING_ARRAY"}
  /\ \A p \in Starred : p \in Prop /\ Kind(p) = "STAR_RATING" /\ p \notin Enterable
  BY PaneAssumption DEF Enterable, Starred, Kind, Format

LEMMA TextWords == Text \subseteq Seq(Word)
  BY PaneAssumption DEF Text, BoundedSeq, SeqOf

LEMMA GetTokens == ASSUME NEW text \in Seq(Word) PROVE get_tokens(text) \in Seq(Seq(Word))
<1>1. CASE text = <<>>
  BY <1>1 DEF get_tokens
<1>2. CASE text # <<>>
  <2>1. get_tokens(text) = [i \in 1..Len(text) |-> <<text[i]>>] /\ Len(text) \in Nat
    BY <1>2 DEF get_tokens
  <2>2. \A i \in 1..Len(text) : <<text[i]>> \in Seq(Word)
    OBVIOUS
  <2>3. QED
    BY <2>1, <2>2
<1>3. QED
  BY <1>1, <1>2

\* What a widget shows can be handed over, and stored.
LEMMA ShownIsText ==
  ASSUME NEW p \in Enterable, NEW v \in Values(p) \cup {None}
  PROVE  Shown(p, v) \in Seq(Word)
<1>1. Kind(p) \in {"STRING", "TEXT", "STRING_ARRAY"}
  BY Entry
<1>2. CASE v = None
  BY <1>1, <1>2 DEF Shown, Cleared
<1>3. CASE v # None
  <2>1. CASE Kind(p) = "STRING_ARRAY"
    BY <1>3, <2>1, FlattenType DEF Shown, add_data, set_tokens, Values
  <2>2. CASE Kind(p) \in {"STRING", "TEXT"}
    BY <1>3, <2>2 DEF Shown, add_data, Values
  <2>3. QED
    BY <1>1, <2>1, <2>2
<1>4. QED
  BY <1>2, <1>3

LEMMA EnteredIsHanded ==
  ASSUME NEW p \in Enterable, NEW text \in Seq(Word) PROVE Entered(p, text) \in Handed(p)
<1>1. Kind(p) \in {"STRING", "TEXT", "STRING_ARRAY"}
  BY Entry
<1>2. QED
  BY <1>1, GetTokens DEF Entered, Handed, Values

LEMMA HandedIsStored ==
  ASSUME NEW p \in Prop, NEW v \in Handed(p) PROVE Stored(p, v) \in Values(p) \cup {None}
  BY DEF Stored, Handed, Values

LEMMA BagSet == ASSUME NEW b, IsBag(b) PROVE b \in PaneBag
  BY DEF IsBag, PaneBag
-----------------------------------------------------------------------------
(* The steps.                                                              *)

LEMMA PaneInitIInv == PaneInit => PaneIInv
<1> SUFFICES ASSUME PaneInit PROVE PaneIInv
  OBVIOUS
<1>1. PaneTyped
  BY PaneAssumption, BagSet DEF PaneInit, PaneTyped
<1>2. m_data_map = [p \in Prop |-> Cleared(p)] /\ \A p \in Enterable : m_data_map[p] \in Seq(Word)
  BY Entry DEF PaneInit, Cleared
<1>3. WidgetsTyped
  BY <1>2, PaneAssumption DEF PaneInit, WidgetsTyped
<1>4. BagsAreFresh /\ PaneFollows
  BY DEF PaneInit, BagsAreFresh, PaneFollows
<1>5. QED
  BY <1>1, <1>3, <1>4 DEF PaneIInv

\* A request is queued: the pane will be filled again.
LEMMA SelectStep == ASSUME PaneIInv, NEW f \in File, select_image(f) PROVE PaneIInv'
<1> DEFINE o == [op |-> "request_metadata", file |-> f]
<1>1. o \in Operation /\ ops' = Append(ops, o)
  BY DEF select_image, Operation
<1>2. UNCHANGED <<library, notifs, m_fileid, m_current_data, m_data_map, focus, typed, astray>> /\ selection' = f
  BY DEF select_image, pane
<1>3. ops' \in Seq(Operation) /\ \E i \in DOMAIN ops' : ops'[i] = o
  BY <1>1, Appended DEF PaneIInv, PaneTyped
<1>4. PaneTyped' /\ WidgetsTyped' /\ BagsAreFresh'
  BY <1>2, <1>3 DEF PaneIInv, PaneTyped, WidgetsTyped, BagsAreFresh
<1>5. PaneFollows'
  BY <1>3 DEF PaneFollows, Coming
<1>6. QED
  BY <1>4, <1>5 DEF PaneIInv

LEMMA DeselectStep == ASSUME PaneIInv, content_will_change PROVE PaneIInv'
<1>1. display_none /\ UNCHANGED library
  BY DEF content_will_change, deselect, Restart
<1>2. \/ ops' = <<>> /\ notifs' = <<>> /\ focus' = None
      \/ UNCHANGED <<ops, notifs, focus>> /\ focus = None
  BY DEF content_will_change, deselect, Restart, channels
<1>3. PaneTyped' /\ BagsAreFresh'
  <2>1. CASE ops' = <<>> /\ notifs' = <<>>
    <3>1. ops' \in Seq(Operation) /\ notifs' \in Seq(Notification) /\ DOMAIN notifs' = {}
      BY <2>1
    <3>2. QED
      BY <1>1, <3>1 DEF PaneIInv, PaneTyped, BagsAreFresh
  <2>2. CASE UNCHANGED <<ops, notifs>>
    BY <1>1, <2>2 DEF PaneIInv, PaneTyped, BagsAreFresh
  <2>3. QED
    BY <1>2, <2>1, <2>2
<1>4. m_data_map' = [p \in Prop |-> Cleared(p)] /\ \A p \in Enterable : m_data_map'[p] \in Seq(Word)
  BY <1>1, Entry DEF display_none, Cleared
<1>5. WidgetsTyped' /\ PaneFollows'
  BY <1>1, <1>2, <1>4 DEF display_none, WidgetsTyped, PaneFollows
<1>6. QED
  BY <1>3, <1>5 DEF PaneIInv

LEMMA FocusStep == ASSUME PaneIInv, NEW p \in Enterable, focus_in(p) PROVE PaneIInv'
<1>1. /\ UNCHANGED <<library, ops, notifs, selection, m_fileid, m_current_data, m_data_map, astray>>
      /\ focus = None /\ focus' = p /\ typed' = FALSE /\ m_current_data # None
  BY DEF focus_in, pane, channels
<1>2. PaneTyped' /\ WidgetsTyped' /\ BagsAreFresh'
  BY <1>1 DEF PaneIInv, PaneTyped, WidgetsTyped, BagsAreFresh
<1>3. PaneFollows'
  BY <1>1 DEF PaneIInv, PaneFollows, Coming, WidgetsTyped
<1>4. QED
  BY <1>2, <1>3 DEF PaneIInv

\* Only the widget that is typed in may differ.
LEMMA TypeStep == ASSUME PaneIInv, NEW t \in Text, type_in(t) PROVE PaneIInv'
<1>1. /\ UNCHANGED <<library, ops, notifs, selection, m_fileid, m_current_data, focus, astray>>
      /\ focus # None /\ typed' = TRUE /\ m_data_map' = [m_data_map EXCEPT ![focus] = t]
  BY DEF type_in, channels
<1>2. t \in Seq(Word) /\ focus \in Enterable /\ focus \in Prop
  BY <1>1, TextWords, Entry DEF PaneIInv, WidgetsTyped
<1>3. \A p \in Prop : m_data_map'[p] = IF p = focus THEN t ELSE m_data_map[p]
  BY <1>1, <1>2 DEF PaneIInv, WidgetsTyped
<1>4. m_data_map' = [p \in Prop |-> m_data_map'[p]]
  BY <1>1 DEF PaneIInv, WidgetsTyped
<1>5. PaneTyped' /\ BagsAreFresh'
  BY <1>1 DEF PaneIInv, PaneTyped, BagsAreFresh
<1>6. WidgetsTyped'
  BY <1>1, <1>2, <1>3, <1>4, Entry DEF PaneIInv, WidgetsTyped
<1>7. PaneFollows'
  BY <1>1, <1>3 DEF PaneIInv, PaneFollows, Coming
<1>8. QED
  BY <1>5, <1>6, <1>7 DEF PaneIInv

\* An edit is queued: for the file displayed, or the widgets are astray.
LEMMA EditIsComing ==
  ASSUME PaneIInv, NEW p \in Prop, NEW v \in Handed(p), emit_metadata_changed(p, v), UNCHANGED <<notifs, m_fileid>>
  PROVE  ops' \in Seq(Operation) /\ (astray' \/ m_fileid' = None \/ Coming')
<1> DEFINE o == [op |-> "set_metadata", file |-> selection, prop |-> p, value |-> v]
<1>1. ops' = Append(ops, o) /\ astray' = (astray \/ selection # m_fileid)
  BY DEF emit_metadata_changed, set_properties, set_metadata
<1>2. o \in Operation
  BY DEF Operation, PaneIInv, WidgetsTyped
<1>3. ops' \in Seq(Operation) /\ \E i \in DOMAIN ops' : ops'[i] = o
  BY <1>1, <1>2, Appended DEF PaneIInv, PaneTyped
<1>4. ~astray' => selection = m_fileid
  BY <1>1
<1>5. QED
  BY <1>3, <1>4 DEF Coming

LEMMA FocusOutStep == ASSUME PaneIInv, NEW p \in Enterable \cup {None}, on_focus_out(p) PROVE PaneIInv'
<1>1. /\ UNCHANGED <<library, notifs, selection, m_fileid, m_current_data, m_data_map>>
      /\ focus # None /\ focus' = p /\ typed' = FALSE
      /\ emit_metadata_changed(focus, Entered(focus, m_data_map[focus]))
  BY DEF on_focus_out, pane
<1>2. focus \in Prop /\ Entered(focus, m_data_map[focus]) \in Handed(focus)
  BY <1>1, Entry, EnteredIsHanded DEF PaneIInv, WidgetsTyped
<1>3. ops' \in Seq(Operation) /\ (astray' \/ m_fileid' = None \/ Coming')
  BY <1>1, <1>2, EditIsComing
<1>4. PaneTyped' /\ WidgetsTyped' /\ BagsAreFresh' /\ PaneFollows'
  BY <1>1, <1>3 DEF PaneIInv, PaneTyped, WidgetsTyped, BagsAreFresh, PaneFollows
<1>5. QED
  BY <1>4 DEF PaneIInv

LEMMA StarStep ==
  ASSUME PaneIInv, NEW p \in Starred, NEW r \in StarRating, on_int_changed(p, r) PROVE PaneIInv'
<1>1. /\ UNCHANGED <<library, notifs, selection, m_fileid, m_current_data, focus, typed>>
      /\ m_data_map' = [m_data_map EXCEPT ![p] = r] /\ emit_metadata_changed(p, r)
  BY DEF on_int_changed
<1>2. p \in Prop /\ p \notin Enterable /\ r \in Handed(p)
  BY Entry DEF Handed, Values
<1>3. ops' \in Seq(Operation) /\ (astray' \/ m_fileid' = None \/ Coming')
  BY <1>1, <1>2, EditIsComing
<1>4. m_data_map' = [q \in Prop |-> m_data_map'[q]] /\ \A q \in Enterable : m_data_map'[q] = m_data_map[q]
  BY <1>1, <1>2, Entry DEF PaneIInv, WidgetsTyped
<1>5. WidgetsTyped'
  BY <1>1, <1>4 DEF PaneIInv, WidgetsTyped
<1>6. PaneTyped' /\ BagsAreFresh' /\ PaneFollows'
  BY <1>1, <1>3 DEF PaneIInv, PaneTyped, BagsAreFresh, PaneFollows
<1>7. QED
  BY <1>5, <1>6 DEF PaneIInv
-----------------------------------------------------------------------------
LEMMA RequestStep == ASSUME PaneIInv, cmd_request_metadata PROVE PaneIInv'
<1> DEFINE e == [n |-> "MetadataQueried", file |-> Head(ops).file, bag |-> library[Head(ops).file]]
<1>1. /\ ops # <<>> /\ Head(ops).op = "request_metadata" /\ ops' = Tail(ops) /\ notifs' = Append(notifs, e)
      /\ UNCHANGED <<library, selection, m_fileid, m_current_data, m_data_map, focus, typed, astray>>
  BY DEF cmd_request_metadata, Execute, pane
<1>2. Head(ops) \in Operation /\ ops' \in Seq(Operation)
  BY <1>1, Dropped DEF PaneIInv, PaneTyped
<1>3. e \in Notification
  BY <1>1, <1>2 DEF Operation, Notification, PaneIInv, PaneTyped
<1>4. /\ notifs' \in Seq(Notification) /\ DOMAIN notifs' = 1..(Len(notifs) + 1)
      /\ DOMAIN notifs = 1..Len(notifs) /\ Len(notifs) \in Nat
      /\ \A i \in DOMAIN notifs : notifs'[i] = notifs[i]
      /\ notifs'[Len(notifs) + 1] = e
  BY <1>1, <1>3, Appended DEF PaneIInv, PaneTyped
<1>5. PaneTyped' /\ WidgetsTyped'
  BY <1>1, <1>2, <1>4 DEF PaneIInv, PaneTyped, WidgetsTyped
<1>6. BagsAreFresh'
  <2>1. SUFFICES ASSUME NEW i \in DOMAIN notifs', notifs'[i].n = "MetadataQueried"
                 PROVE  \/ notifs'[i].bag = library[notifs'[i].file]
                        \/ \E j \in DOMAIN notifs' : j > i /\ notifs'[j].n = "MetadataChanged"
                                                     /\ notifs'[j].file = notifs'[i].file
    BY <1>1 DEF BagsAreFresh
  <2>2. CASE i = Len(notifs) + 1
    BY <1>4, <2>2
  <2>3. CASE i \in DOMAIN notifs
    BY <1>4, <2>1, <2>3 DEF PaneIInv, BagsAreFresh
  <2>4. QED
    BY <1>4, <2>2, <2>3
<1>7. Coming'
  <2>1. Len(notifs) + 1 \in DOMAIN notifs' /\ notifs'[Len(notifs) + 1].n = "MetadataQueried"
    BY <1>4
  <2>2. QED
    BY <2>1 DEF Coming
<1>8. QED
  BY <1>5, <1>6, <1>7 DEF PaneIInv, PaneFollows

\* The library changes, and the news follows every bag that it makes stale.
LEMMA SetMetadataStep == ASSUME PaneIInv, cmd_set_metadata PROVE PaneIInv'
<1> DEFINE o == Head(ops)
           e == [n |-> "MetadataChanged", file |-> o.file]
<1>1. /\ ops # <<>> /\ o.op = "set_metadata" /\ ops' = Tail(ops)
      /\ UNCHANGED <<selection, m_fileid, m_current_data, m_data_map, focus, typed, astray>>
  BY DEF cmd_set_metadata, Execute, pane
<1>2. /\ o \in Operation /\ ops' \in Seq(Operation) /\ o = ops[1]
      /\ \A i \in DOMAIN ops : i # 1 => i - 1 \in DOMAIN ops' /\ ops'[i - 1] = ops[i]
  BY <1>1, Dropped DEF PaneIInv, PaneTyped
<1>3. PICK p \in Prop : o.file \in File \cup {None} /\ o.prop = p /\ o.value \in Handed(p)
  BY <1>1, <1>2 DEF Operation
<1>4. WidgetsTyped'
  BY <1>1 DEF PaneIInv, WidgetsTyped
<1>5. CASE o.file = None
  <2>1. UNCHANGED <<library, notifs>>
    BY <1>5 DEF cmd_set_metadata
  <2>2. PaneTyped' /\ BagsAreFresh'
    BY <1>2, <2>1 DEF PaneIInv, PaneTyped, BagsAreFresh
  <2>3. Coming /\ m_fileid # None => Coming'
    BY <1>1, <1>2, <1>5, <2>1 DEF Coming
  <2>4. PaneFollows'
    BY <1>1, <2>1, <2>3 DEF PaneIInv, PaneFollows
  <2>5. QED
    BY <1>4, <2>2, <2>4 DEF PaneIInv
<1>6. CASE o.file # None
  <2>1. /\ library' = [library EXCEPT ![o.file][o.prop] = Stored(o.prop, o.value)]
        /\ notifs' = Append(notifs, e) /\ o.file \in File
    BY <1>3, <1>6 DEF cmd_set_metadata
  <2>2. e \in Notification
    BY <2>1 DEF Notification
  <2>3. /\ notifs' \in Seq(Notification) /\ DOMAIN notifs' = 1..(Len(notifs) + 1)
        /\ DOMAIN notifs = 1..Len(notifs) /\ Len(notifs) \in Nat
        /\ \A i \in DOMAIN notifs : notifs'[i] = notifs[i]
        /\ notifs'[Len(notifs) + 1] = e
    BY <2>1, <2>2, Appended DEF PaneIInv, PaneTyped
  <2>4. library' \in [File -> PaneBag] /\ \A f \in File : f # o.file => library'[f] = library[f]
    <3>1. library[o.file] \in PaneBag /\ Stored(p, o.value) \in Values(p) \cup {None}
      BY <1>3, <2>1, HandedIsStored DEF PaneIInv, PaneTyped
    <3>2. [library[o.file] EXCEPT ![p] = Stored(p, o.value)] \in PaneBag
      BY <3>1 DEF PaneBag
    <3>3. library' = [library EXCEPT ![o.file] = [library[o.file] EXCEPT ![p] = Stored(p, o.value)]]
      BY <1>3, <2>1
    <3>4. QED
      BY <2>1, <3>2, <3>3 DEF PaneIInv, PaneTyped
  <2>5. PaneTyped'
    BY <1>2, <2>3, <2>4 DEF PaneTyped
  <2>6. BagsAreFresh'
    <3>1. SUFFICES ASSUME NEW i \in DOMAIN notifs', notifs'[i].n = "MetadataQueried"
                   PROVE  \/ notifs'[i].bag = library'[notifs'[i].file]
                          \/ \E j \in DOMAIN notifs' : j > i /\ notifs'[j].n = "MetadataChanged"
                                                       /\ notifs'[j].file = notifs'[i].file
      BY DEF BagsAreFresh
    <3>2. i \in DOMAIN notifs /\ notifs'[i] = notifs[i] /\ i \in 1..Len(notifs)
      BY <2>3, <3>1
    <3>3. notifs[i].file \in File
      BY <3>2 DEF PaneIInv, PaneTyped, Notification
    <3>4. CASE notifs[i].file = o.file
      BY <2>3, <3>2, <3>4
    <3>5. CASE notifs[i].file # o.file
      BY <2>3, <2>4, <3>1, <3>2, <3>3, <3>5 DEF PaneIInv, BagsAreFresh
    <3>6. QED
      BY <3>4, <3>5
  <2>7. PaneFollows'
    <3>1. CASE o.file = m_fileid
      <4>1. Len(notifs) + 1 \in DOMAIN notifs' /\ notifs'[Len(notifs) + 1].file = m_fileid'
        BY <1>1, <2>3, <3>1
      <4>2. QED
        BY <4>1 DEF PaneFollows, Coming
    <3>2. CASE o.file # m_fileid
      <4>1. Coming => Coming'
        <5>1. ASSUME NEW i \in DOMAIN ops, ops[i].op = "request_metadata" \/ ops[i].file = m_fileid PROVE Coming'
          <6>1. i # 1
            BY <1>1, <1>2, <3>2, <5>1
          <6>2. i - 1 \in DOMAIN ops' /\ ops'[i - 1] = ops[i]
            BY <1>2, <6>1
          <6>3. QED
            BY <1>1, <5>1, <6>2 DEF Coming
        <5>2. ASSUME NEW i \in DOMAIN notifs, notifs[i].n = "MetadataQueried" \/ notifs[i].file = m_fileid
              PROVE  Coming'
          <6>1. i \in DOMAIN notifs' /\ notifs'[i] = notifs[i]
            BY <2>3
          <6>2. QED
            BY <1>1, <5>2, <6>1 DEF Coming
        <5>3. QED
          BY <5>1, <5>2 DEF Coming
      <4>2. m_fileid # None => library'[m_fileid] = library[m_fileid]
        BY <2>4, <3>2 DEF PaneIInv, WidgetsTyped
      <4>3. QED
        BY <1>1, <4>1, <4>2 DEF PaneIInv, PaneFollows
    <3>3. QED
      BY <3>1, <3>2
  <2>8. QED
    BY <1>4, <2>5, <2>6, <2>7 DEF PaneIInv
<1>7. QED
  BY <1>5, <1>6

\* Notifications are taken one by one.
LEMMA DeliverStep ==
  ASSUME PaneIInv, notifs # <<>>, notifs' = Tail(notifs), UNCHANGED library
  PROVE  /\ Head(notifs) \in Notification /\ Head(notifs) = notifs[1] /\ 1 \in DOMAIN notifs
         /\ notifs' \in Seq(Notification) /\ DOMAIN notifs \subseteq Nat
         /\ \A i \in DOMAIN notifs : i # 1 => i - 1 \in DOMAIN notifs' /\ notifs'[i - 1] = notifs[i]
         /\ BagsAreFresh'
<1>1. /\ notifs' \in Seq(Notification) /\ 1 \in DOMAIN notifs /\ Head(notifs) = notifs[1] /\ DOMAIN notifs \subseteq Nat
      /\ \A i \in DOMAIN notifs' : i + 1 \in DOMAIN notifs /\ notifs'[i] = notifs[i + 1]
      /\ \A i \in DOMAIN notifs : i # 1 => i - 1 \in DOMAIN notifs' /\ notifs'[i - 1] = notifs[i]
      /\ DOMAIN notifs' \subseteq Nat
  BY Dropped DEF PaneIInv, PaneTyped
<1>2. Head(notifs) \in Notification
  BY <1>1 DEF PaneIInv, PaneTyped
<1>3. BagsAreFresh'
  <2>1. SUFFICES ASSUME NEW i \in DOMAIN notifs', notifs'[i].n = "MetadataQueried",
                        notifs'[i].bag # library[notifs'[i].file]
                 PROVE  \E j \in DOMAIN notifs' : j > i /\ notifs'[j].n = "MetadataChanged"
                                                 /\ notifs'[j].file = notifs'[i].file
    BY DEF BagsAreFresh
  <2>2. PICK j \in DOMAIN notifs : j > i + 1 /\ notifs[j].n = "MetadataChanged" /\ notifs[j].file = notifs'[i].file
    BY <1>1, <2>1 DEF PaneIInv, BagsAreFresh
  <2>3. j - 1 \in DOMAIN notifs' /\ notifs'[j - 1] = notifs[j] /\ j - 1 > i
    BY <1>1, <2>2
  <2>4. QED
    BY <2>2, <2>3
<1>4. QED
  BY <1>1, <1>2, <1>3

LEMMA QueriedStep == ASSUME PaneIInv, on_metadata_queried PROVE PaneIInv'
<1> DEFINE f == Head(notifs).file
           b == Head(notifs).bag
<1>1. /\ notifs # <<>> /\ Head(notifs).n = "MetadataQueried" /\ notifs' = Tail(notifs)
      /\ UNCHANGED <<library, ops, selection, focus>> /\ typed' = FALSE
      /\ m_fileid' = f /\ m_data_map' = [p \in Prop |-> Shown(p, b[p])]
  BY DEF on_metadata_queried, Deliver, display, set_data_source
<1>2. /\ Head(notifs) \in Notification /\ Head(notifs) = notifs[1] /\ 1 \in DOMAIN notifs
      /\ notifs' \in Seq(Notification) /\ DOMAIN notifs \subseteq Nat
      /\ \A i \in DOMAIN notifs : i # 1 => i - 1 \in DOMAIN notifs' /\ notifs'[i - 1] = notifs[i]
      /\ BagsAreFresh'
  BY <1>1, DeliverStep
<1>3. f \in File /\ b \in PaneBag
  BY <1>1, <1>2 DEF Notification
<1>4. \A p \in Prop : b[p] \in Values(p) \cup {None}
  BY <1>3 DEF PaneBag
<1>5. \A p \in Enterable : m_data_map'[p] \in Seq(Word)
  BY <1>1, <1>4, Entry, ShownIsText
<1>6. PaneTyped' /\ WidgetsTyped'
  BY <1>1, <1>2, <1>3, <1>5, PaneAssumption DEF PaneIInv, PaneTyped, WidgetsTyped
<1>7. b = library[f] \/ Coming'
  <2>1. \/ b = library[f]
        \/ \E j \in DOMAIN notifs : j > 1 /\ notifs[j].file = f
    BY <1>1, <1>2 DEF PaneIInv, BagsAreFresh
  <2>2. ASSUME NEW j \in DOMAIN notifs, j > 1, notifs[j].file = f PROVE Coming'
    <3>1. j - 1 \in DOMAIN notifs' /\ notifs'[j - 1] = notifs[j]
      BY <1>2, <2>2
    <3>2. QED
      BY <1>1, <2>2, <3>1 DEF Coming
  <2>3. QED
    BY <2>1, <2>2
<1>8. PaneFollows'
  BY <1>1, <1>7 DEF PaneFollows
<1>9. QED
  BY <1>2, <1>6, <1>8 DEF PaneIInv

LEMMA ChangedStep == ASSUME PaneIInv, on_metadata_changed PROVE PaneIInv'
<1> DEFINE f == Head(notifs).file
           o == [op |-> "request_metadata", file |-> m_fileid]
<1>1. /\ notifs # <<>> /\ Head(notifs).n = "MetadataChanged" /\ notifs' = Tail(notifs)
      /\ UNCHANGED <<library, selection, m_fileid, m_current_data, m_data_map, focus, typed, astray>>
      /\ ops' = IF f = m_fileid THEN Append(ops, o) ELSE ops
  BY DEF on_metadata_changed, Deliver, pane
<1>2. /\ Head(notifs) \in Notification /\ Head(notifs) = notifs[1] /\ 1 \in DOMAIN notifs
      /\ notifs' \in Seq(Notification) /\ DOMAIN notifs \subseteq Nat
      /\ \A i \in DOMAIN notifs : i # 1 => i - 1 \in DOMAIN notifs' /\ notifs'[i - 1] = notifs[i]
      /\ BagsAreFresh'
  BY <1>1, DeliverStep
<1>3. f \in File
  BY <1>1, <1>2 DEF Notification
<1>4. WidgetsTyped'
  BY <1>1 DEF PaneIInv, WidgetsTyped
<1>5. CASE f = m_fileid
  <2>1. ops' = Append(ops, o) /\ o \in Operation
    BY <1>1, <1>3, <1>5 DEF Operation
  <2>2. ops' \in Seq(Operation) /\ \E i \in DOMAIN ops' : ops'[i] = o
    BY <2>1, Appended DEF PaneIInv, PaneTyped
  <2>3. PaneTyped' /\ Coming'
    BY <1>1, <1>2, <2>2 DEF PaneIInv, PaneTyped, Coming
  <2>4. QED
    BY <1>2, <1>4, <2>3 DEF PaneIInv, PaneFollows
<1>6. CASE f # m_fileid
  <2>1. PaneTyped'
    BY <1>1, <1>2, <1>6 DEF PaneIInv, PaneTyped
  <2>2. Coming => Coming'
    BY <1>1, <1>2, <1>6 DEF Coming
  <2>3. PaneFollows'
    BY <1>1, <2>2 DEF PaneIInv, PaneFollows
  <2>4. QED
    BY <1>2, <1>4, <2>1, <2>3 DEF PaneIInv
<1>7. QED
  BY <1>5, <1>6

LEMMA PaneIInvHolds == PaneSpec => []PaneIInv
<1>1. ASSUME PaneIInv, PaneNext PROVE PaneIInv'
  BY <1>1, SelectStep, DeselectStep, FocusStep, TypeStep, FocusOutStep, StarStep, RequestStep, SetMetadataStep,
     QueriedStep, ChangedStep DEF PaneNext
<1>2. ASSUME PaneIInv, UNCHANGED pane_vars PROVE PaneIInv'
  BY <1>2 DEF pane_vars, channels, pane, PaneIInv, PaneTyped, WidgetsTyped, BagsAreFresh, PaneFollows, Coming
<1>3. PaneIInv /\ [PaneNext]_pane_vars => PaneIInv'
  BY <1>1, <1>2
<1>4. QED
  BY <1>3, PaneInitIInv, PTL DEF PaneSpec
-----------------------------------------------------------------------------
LEMMA QuietShows == PaneIInv => PaneShowsLibrary
<1>1. Quiet => ~Coming
  BY DEF Quiet, Coming
<1>2. QED
  BY <1>1 DEF PaneIInv, PaneFollows, PaneShowsLibrary

\* Once the library has answered everything, each widget but the one being
\* typed in shows what the library has of the file displayed.
THEOREM PaneShowsTheLibrary == PaneSpec => []PaneShowsLibrary
  BY QuietShows, PaneIInvHolds, PTL

\* Showing a list of keywords that splits, and splitting it again, gives the
\* list back.
LEMMA TokensRoundTrip ==
  ASSUME NEW v \in Seq(Seq(Word)), v # <<>>, \A i \in DOMAIN v : Len(v[i]) = 1
  PROVE  get_tokens(set_tokens(v)) = v
<1>1. set_tokens(v) = [i \in DOMAIN v |-> v[i][1]]
  BY FlattenSingles DEF set_tokens
<1>2. 1 \in DOMAIN v /\ DOMAIN v = 1..Len(v)
  OBVIOUS
<1>3. set_tokens(v) # <<>> /\ DOMAIN set_tokens(v) = DOMAIN v
  <2>1. DOMAIN set_tokens(v) = DOMAIN v
    BY <1>1
  <2>2. DOMAIN <<>> = {}
    OBVIOUS
  <2>3. QED
    BY <1>2, <2>1, <2>2
<1>4. get_tokens(set_tokens(v)) = [i \in DOMAIN v |-> <<v[i][1]>>]
  BY <1>1, <1>3 DEF get_tokens
<1>5. \A i \in DOMAIN v : v[i] = <<v[i][1]>>
  OBVIOUS
<1>6. QED
  BY <1>4, <1>5, <1>2

LEMMA LookingIsHarmless == PaneIInv => LookingChangesNothing
<1> SUFFICES ASSUME PaneIInv, Quiet, focus # None, ~typed, ~astray,
                    Splits(focus, library[m_fileid][focus])
             PROVE  Stored(focus, Entered(focus, m_data_map[focus])) = library[m_fileid][focus]
  BY DEF LookingChangesNothing
<1> DEFINE v == library[m_fileid][focus]
<1>1. focus \in Prop /\ Kind(focus) \in {"STRING", "TEXT", "STRING_ARRAY"}
  BY Entry DEF PaneIInv, WidgetsTyped
<1>2. m_fileid # None /\ m_fileid \in File
  BY DEF PaneIInv, WidgetsTyped
<1>3. v \in Values(focus) \cup {None}
  BY <1>1, <1>2 DEF PaneIInv, PaneTyped, PaneBag
<1>4. m_data_map[focus] = Shown(focus, v)
  BY <1>1, <1>2, QuietShows DEF PaneShowsLibrary
<1>5. CASE Kind(focus) = "STRING_ARRAY"
  <2>1. v \in Seq(Seq(Word)) /\ v # None /\ v # <<>> /\ \A i \in DOMAIN v : Len(v[i]) = 1
    BY <1>3, <1>5 DEF Values, Splits
  <2>2. get_tokens(set_tokens(v)) = v
    BY <2>1, TokensRoundTrip
  <2>3. QED
    BY <1>4, <1>5, <2>1, <2>2 DEF Shown, add_data, Entered, Stored
<1>6. CASE Kind(focus) \in {"STRING", "TEXT"}
  <2>1. v = None \/ (v # None /\ v # <<>>)
    BY <1>3, <1>6 DEF Values
  <2>2. QED
    BY <1>4, <1>6, <2>1 DEF Shown, Cleared, add_data, Entered, Stored
<1>7. QED
  BY <1>1, <1>5, <1>6

\* A widget entered and left without typing sets its property to the value
\* that the library has already.
THEOREM PaneLookingChangesNothing == PaneSpec => []LookingChangesNothing
  BY LookingIsHarmless, PaneIInvHolds, PTL
=============================================================================
