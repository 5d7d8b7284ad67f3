-------------------------- MODULE ApplicationProofs --------------------------
(***************************************************************************)
(* What holds of the application's frame: the module shell with its views  *)
(* and the darkroom, the window and its configuration, and the worker.     *)
(* The three share no state; each has an inductive invariant of its own.   *)
(***************************************************************************)
EXTENDS Shell, Window, Worker, SequenceTheorems, TLAPS

-----------------------------------------------------------------------------
(***************************************************************************)
(* The module shell, its views and the darkroom, for any files, folders    *)
(* and orders of clicks, moves and answers.                                *)
(***************************************************************************)

\* The list, the views and the stack.
ListTypeOK ==
  /\ store \in Seq(File) /\ \A i, j \in DOMAIN store : store[i] = store[j] => i = j
  /\ selected_in \in [View -> File \cup {None}]
  /\ requests \in Seq(Message) /\ notifs \in Seq(Message)
  /\ m_fileid \in File \cup {None} /\ centre \in Located \cup {Home}
  /\ watching \in BOOLEAN
  /\ page \in Page /\ active = {page} \ {"grid"}

\* The metadata last asked for, or told, in a queue is that of f; or none is.
LastIs(s, f) ==
  \E i \in DOMAIN s : s[i] = Queried(f) /\ \A j \in DOMAIN s : j > i => s[j].n # "queried"
Silent(s) == \A i \in DOMAIN s : s[i].n # "queried"

\* The last metadata on its way is that of the selection.
AskedInv ==
  /\ watching => "map" \in active
  /\ watching /\ get_selection # None =>
       \/ LastIs(requests, get_selection)
       \/ Silent(requests) /\ LastIs(notifs, get_selection)
       \/ Silent(requests) /\ Silent(notifs) /\ (get_selection \in Located => centre = get_selection)

LInv == ListTypeOK /\ ViewsAgree /\ AskedInv

\* The darkroom, and what it has drawn of what it was given.
GivenInv ==
  /\ page = "darkroom" => ~m_need_reload
  /\ ~m_need_reload => picture = (IF given = None THEN Generic ELSE given) \/ picture = Generic
  /\ m_status = "NOT_FOUND" => picture \in File
  /\ ~m_need_redisplay => m_backingstore = Surface
  /\ m_status \in {"LOADING", "LOADED"} /\ picture \in File =>
       m_size = IF Orientation[picture] \in 5..8 THEN Swapped(Wide) ELSE Wide
  /\ page = "darkroom" /\ ~invalid => ~m_need_redisplay /\ ~m_resized

SettleInv ==
  /\ drawn = 1 => ~invalid \/ (~m_need_redisplay /\ ~m_resized)
  /\ DrawingSettles

DInv == DarkroomTypeOK /\ GivenInv /\ SettleInv

ShellIInv == LInv /\ DInv
-----------------------------------------------------------------------------
(* The list and its views.                                                 *)

LEMMA NoneIsNoFile == None \notin File /\ Located \subseteq File
  BY DarkroomAssumption, ShellAssumption

\* What is left when a row goes.
LEMMA RowRemoved ==
  ASSUME NEW s \in Seq(File), NEW at \in DOMAIN s,
         \A i, j \in DOMAIN s : s[i] = s[j] => i = j
  PROVE  /\ RemoveAt(s, at) \in Seq(File)
         /\ \A i, j \in DOMAIN RemoveAt(s, at) : RemoveAt(s, at)[i] = RemoveAt(s, at)[j] => i = j
         /\ ToSet(s) \ {s[at]} \subseteq ToSet(RemoveAt(s, at))
<1> DEFINE r == RemoveAt(s, at)
<1>1. at \in 1..Len(s)
  OBVIOUS
<1>2. r = SubSeq(s, 1, at - 1) \o SubSeq(s, at + 1, Len(s))
  BY DEF RemoveAt
<1>3. /\ r \in Seq(File) /\ Len(r) = Len(s) - 1
      /\ \A i \in 1..Len(r) : r[i] = IF i < at THEN s[i] ELSE s[i + 1]
  <2> DEFINE a == SubSeq(s, 1, at - 1)
             b == SubSeq(s, at + 1, Len(s))
  <2>1. a \in Seq(File) /\ Len(a) = at - 1 /\ \A i \in 1..(at - 1) : a[i] = s[i]
    BY <1>1
  <2>2. b \in Seq(File) /\ Len(b) = Len(s) - at /\ \A i \in 1..(Len(s) - at) : b[i] = s[at + i]
    BY <1>1
  <2> HIDE DEF a, b
  <2>3. /\ a \o b \in Seq(File) /\ Len(a \o b) = Len(a) + Len(b)
        /\ \A i \in 1..(Len(a) + Len(b)) : (a \o b)[i] = IF i <= Len(a) THEN a[i] ELSE b[i - Len(a)]
    <3>1. a \in Seq(File) /\ b \in Seq(File)
      BY <2>1, <2>2
    <3>2. QED
      BY <3>1, ConcatProperties
  <2>4. \A i \in 1..(Len(s) - 1) : (a \o b)[i] = IF i < at THEN s[i] ELSE s[i + 1]
    <3> TAKE i \in 1..(Len(s) - 1)
    <3>1. CASE i < at
      <4>1. i \in 1..(at - 1) /\ i \in 1..(Len(a) + Len(b)) /\ i <= Len(a)
        BY <1>1, <2>1, <2>2, <3>1
      <4>2. QED
        BY <2>1, <2>3, <3>1, <4>1
    <3>2. CASE ~(i < at)
      <4>1. i - (at - 1) \in 1..(Len(s) - at) /\ at + (i - (at - 1)) = i + 1
        BY <1>1, <3>2
      <4>2. (a \o b)[i] = b[i - (at - 1)]
        <5>1. i \in 1..(Len(a) + Len(b)) /\ ~(i <= Len(a)) /\ Len(a) = at - 1
          BY <1>1, <2>1, <2>2, <3>2
        <5>2. QED
          BY <2>3, <5>1
      <4>3. QED
        BY <2>2, <3>2, <4>1, <4>2
    <3>3. QED
      BY <3>1, <3>2
  <2>5. r = a \o b
    BY <1>2 DEF a, b
  <2>6. Len(a) + Len(b) = Len(s) - 1
    BY <1>1, <2>1, <2>2
  <2> HIDE DEF r
  <2>7. QED
    BY <2>3, <2>4, <2>5, <2>6
<1> HIDE DEF r
<1>4. \A i, j \in DOMAIN r : r[i] = r[j] => i = j
  <2> TAKE i, j \in DOMAIN r
  <2> HAVE r[i] = r[j]
  <2>1. i \in 1..Len(r) /\ j \in 1..Len(r)
    BY <1>3
  <2> DEFINE k(n) == IF n < at THEN n ELSE n + 1
  <2>2. \A n \in 1..Len(r) : k(n) \in DOMAIN s /\ r[n] = s[k(n)]
    BY <1>1, <1>3
  <2>3. k(i) = k(j)
    BY <2>1, <2>2
  <2>4. QED
    BY <1>1, <2>1, <2>3
<1>5. ASSUME NEW i \in DOMAIN s, i # at PROVE \E j \in DOMAIN r : r[j] = s[i]
  <2>1. CASE i < at
    BY <1>1, <1>3, <1>5, <2>1
  <2>2. CASE i > at
    <3>1. i - 1 \in 1..Len(r) /\ ~(i - 1 < at) /\ (i - 1) + 1 = i
      BY <1>1, <1>3, <1>5, <2>2
    <3>2. r[i - 1] = s[i]
      BY <1>3, <3>1
    <3>3. QED
      BY <1>3, <3>1, <3>2
  <2>3. QED
    BY <1>1, <1>5, <2>1, <2>2
<1>6. ToSet(s) \ {s[at]} \subseteq ToSet(r)
  BY <1>5 DEF ToSet
<1>7. QED
  BY <1>3, <1>4, <1>6 DEF r

LEMMA Messages ==
  /\ \A f \in File : Queried(f) \in Message /\ Changed(f) \in Message
  /\ \A f : Queried(f).n = "queried" /\ Queried(f).id = f /\ Changed(f).n = "changed" /\ Changed(f).id = f
  /\ \A m \in Message : /\ m.id \in File
                        /\ m = Queried(m.id) \/ m = Changed(m.id)
  BY DEF Message, Queried, Changed

\* What is last asked for in a queue, when a message is added at its end.
LEMMA Added ==
  ASSUME NEW s \in Seq(Message), NEW m \in Message
  PROVE  /\ Append(s, m) \in Seq(Message)
         /\ \A f : (m = Queried(f)) => LastIs(Append(s, m), f)
         /\ m.n # "queried" => /\ \A f : (LastIs(s, f) => LastIs(Append(s, m), f))
                              /\ (Silent(s) => Silent(Append(s, m)))
<1> DEFINE t == Append(s, m)
<1>1. /\ t \in Seq(Message) /\ Len(s) \in Nat /\ DOMAIN s = 1..Len(s) /\ DOMAIN t = 1..(Len(s) + 1)
      /\ t[Len(s) + 1] = m /\ \A i \in 1..Len(s) : t[i] = s[i]
  BY AppendProperties
<1> HIDE DEF t
<1>2. ASSUME NEW f, m = Queried(f) PROVE LastIs(t, f)
  <2>1. Len(s) + 1 \in DOMAIN t /\ t[Len(s) + 1] = Queried(f) /\ \A j \in DOMAIN t : ~(j > Len(s) + 1)
    BY <1>1, <1>2
  <2>2. QED
    BY <2>1 DEF LastIs
<1>3. ASSUME m.n # "queried", NEW f, LastIs(s, f) PROVE LastIs(t, f)
  <2>1. PICK i \in DOMAIN s : s[i] = Queried(f) /\ \A j \in DOMAIN s : j > i => s[j].n # "queried"
    BY <1>3 DEF LastIs
  <2>2. i \in DOMAIN t /\ t[i] = Queried(f)
    BY <1>1, <2>1
  <2>3. ASSUME NEW j \in DOMAIN t, j > i PROVE t[j].n # "queried"
    BY <1>1, <1>3, <2>1, <2>3
  <2>4. QED
    BY <2>2, <2>3 DEF LastIs
<1>4. ASSUME m.n # "queried", Silent(s) PROVE Silent(t)
  BY <1>1, <1>4 DEF Silent
<1>5. QED
  BY <1>1, <1>2, <1>3, <1>4 DEF t

\* And when the first is taken from it.
LEMMA Taken ==
  ASSUME NEW s \in Seq(Message), s # <<>>
  PROVE  /\ Head(s) \in Message /\ Tail(s) \in Seq(Message)
         /\ Silent(s) => Head(s).n # "queried" /\ Silent(Tail(s))
         /\ \A f : LastIs(s, f) => LastIs(Tail(s), f) \/ (Head(s) = Queried(f) /\ Silent(Tail(s)))
<1> DEFINE t == Tail(s)
<1>1. /\ Head(s) = s[1] /\ Head(s) \in Message /\ t \in Seq(Message)
      /\ Len(s) \in Nat \ {0} /\ DOMAIN s = 1..Len(s) /\ DOMAIN t = 1..(Len(s) - 1)
      /\ \A i \in 1..(Len(s) - 1) : t[i] = s[i + 1]
  BY HeadTailProperties, EmptySeq
<1> HIDE DEF t
<1>2. ASSUME Silent(s) PROVE Head(s).n # "queried" /\ Silent(t)
  <2>1. 1 \in DOMAIN s /\ \A i \in DOMAIN t : i + 1 \in DOMAIN s /\ t[i] = s[i + 1]
    BY <1>1
  <2>2. QED
    BY <1>1, <1>2, <2>1 DEF Silent
<1>3. ASSUME NEW f, LastIs(s, f) PROVE LastIs(t, f) \/ (Head(s) = Queried(f) /\ Silent(t))
  <2>1. PICK i \in DOMAIN s : s[i] = Queried(f) /\ \A j \in DOMAIN s : j > i => s[j].n # "queried"
    BY <1>3 DEF LastIs
  <2>2. CASE i = 1
    <3>1. \A j \in DOMAIN t : j + 1 \in DOMAIN s /\ j + 1 > i /\ t[j] = s[j + 1]
      BY <1>1, <2>2
    <3>2. QED
      BY <1>1, <2>1, <2>2, <3>1 DEF Silent
  <2>3. CASE i # 1
    <3>1. i - 1 \in DOMAIN t /\ t[i - 1] = s[i]
      BY <1>1, <2>3
    <3>2. \A j \in DOMAIN t : j > i - 1 => j + 1 \in DOMAIN s /\ j + 1 > i /\ t[j] = s[j + 1]
      BY <1>1, <2>3
    <3>3. QED
      BY <2>1, <3>1, <3>2 DEF LastIs
  <2>4. QED
    BY <2>2, <2>3
<1>4. QED
  BY <1>1, <1>2, <1>3 DEF t

\* A selection, in a list that has the image selected or of nothing: the
\* views agree, and what is asked last is the metadata of that image.
LEMMA SelectedStep ==
  ASSUME LInv, NEW v \in View, NEW list \in SUBSET File, NEW f \in list \cup {None},
         selected(v, f, list)
  PROVE  /\ selected_in' = [w \in View |-> f]
         /\ requests' \in Seq(Message) /\ m_fileid' \in File \cup {None}
         /\ watching' = ("map" \in active)
         /\ f # None => LastIs(requests', f)
<1>1. /\ selected_in' = [w \in View |-> IF w = v THEN f ELSE select_image(w, f, list)]
      /\ IF f # None THEN requests' = Append(requests, Queried(f)) /\ UNCHANGED m_fileid
         ELSE m_fileid' = None /\ UNCHANGED requests
      /\ watching' = ("map" \in active)
  BY DEF selected, signal_selected
<1>2. \A w \in View : select_image(w, f, list) = f
  BY NoneIsNoFile DEF select_image, get_path_from_id
<1>3. selected_in' = [w \in View |-> f]
  BY <1>1, <1>2
<1>4. /\ requests' \in Seq(Message) /\ m_fileid' \in File \cup {None}
      /\ f # None => LastIs(requests', f)
  <2>1. CASE f # None
    <3>1. Queried(f) \in Message /\ requests \in Seq(Message) /\ m_fileid \in File \cup {None}
      BY <2>1, Messages DEF LInv, ListTypeOK
    <3>2. Append(requests, Queried(f)) \in Seq(Message) /\ LastIs(Append(requests, Queried(f)), f)
      BY <3>1, Added
    <3>3. QED
      BY <1>1, <2>1, <3>1, <3>2
  <2>2. CASE f = None
    BY <1>1, <2>2 DEF LInv, ListTypeOK
  <2>3. QED
    BY <2>1, <2>2
<1>5. QED
  BY <1>1, <1>3, <1>4

\* After it the views, the list and what is asked are right.
LEMMA AfterSelected ==
  ASSUME LInv, NEW f, f = None \/ f \in ToSet(store'),
         selected_in' = [w \in View |-> f],
         requests' \in Seq(Message), m_fileid' \in File \cup {None},
         watching' = ("map" \in active),
         f # None => LastIs(requests', f),
         store' \in Seq(File), \A i, j \in DOMAIN store' : store'[i] = store'[j] => i = j,
         UNCHANGED <<stack, centre, notifs>>
  PROVE  LInv'
<1>1. f \in File \cup {None}
  BY DEF ToSet
<1>2. selected_in'["grid"] = f /\ selected_in'["strip"] = f
  BY DEF View
<1>3. ListTypeOK'
  BY <1>1 DEF LInv, ListTypeOK, stack
<1>4. ViewsAgree'
  BY <1>2 DEF ViewsAgree
<1>5. AskedInv'
  BY <1>2, NoneIsNoFile DEF AskedInv, get_selection, stack
<1>6. QED
  BY <1>3, <1>4, <1>5 DEF LInv

LEMMA RowsStep ==
  ASSUME LInv, NEW kept \in SUBSET File, rows_deleted(kept), kept \subseteq ToSet(store'),
         store' \in Seq(File), \A i, j \in DOMAIN store' : store'[i] = store'[j] => i = j,
         UNCHANGED <<stack, centre, notifs>>
  PROVE  LInv'
<1> DEFINE bereft == {v \in View : selected_in[v] # None /\ selected_in[v] \notin kept}
<1>1. CASE bereft = {}
  <2>1. UNCHANGED <<selected_in, m_fileid, requests, watching>>
    BY <1>1 DEF rows_deleted
  <2>2. selected_in["grid"] \in ToSet(store') \cup {None}
    BY <1>1 DEF View
  <2>3. QED
    BY <2>1, <2>2 DEF LInv, ListTypeOK, ViewsAgree, AskedInv, get_selection, stack
<1>2. CASE bereft # {}
  <2>1. PICK v \in View : selected(v, None, kept)
    BY <1>2 DEF rows_deleted, View
  <2>2. /\ selected_in' = [w \in View |-> None]
        /\ requests' \in Seq(Message) /\ m_fileid' \in File \cup {None}
        /\ watching' = ("map" \in active)
    <3>1. v \in View /\ kept \in SUBSET File /\ None \in kept \cup {None} /\ selected(v, None, kept)
      BY <2>1
    <3>2. QED
      BY <3>1, SelectedStep, ZenonT(40)
  <2>3. QED
    BY <2>2, AfterSelected
<1>3. QED
  BY <1>1, <1>2

LEMMA SelectionMoves ==
  ASSUME LInv, NEW step \in {-1, 1}, selection_move(step)
  PROVE  LInv'
<1>1. PICK to \in DOMAIN store :
        /\ selected_in' = [v \in View |-> select_image(v, store[to], ToSet(store))]
        /\ signal_selected(store[to])
  <2> DEFINE at == CHOOSE i \in DOMAIN store : store[i] = get_selection
             go == IF at + step = 0 THEN at ELSE at + step
  <2>1. /\ go \in DOMAIN store
        /\ selected_in' = [v \in View |-> select_image(v, store[go], ToSet(store))]
        /\ signal_selected(store[go])
    BY DEF selection_move
  <2> HIDE DEF at, go
  <2>2. QED
    BY <2>1
<1>2. store[to] \in ToSet(store) /\ store[to] \in File /\ store[to] # None
  BY NoneIsNoFile DEF ToSet, LInv, ListTypeOK
<1>3. selected_in' = [v \in View |-> store[to]]
  BY <1>1, <1>2 DEF select_image, get_path_from_id
<1>4. requests' = Append(requests, Queried(store[to])) /\ m_fileid' = m_fileid /\ watching' = ("map" \in active)
  BY <1>1, <1>2 DEF signal_selected
<1>5. requests' \in Seq(Message) /\ LastIs(requests', store[to])
  BY <1>2, <1>4, Added, Messages DEF LInv, ListTypeOK
<1>6. UNCHANGED <<store, stack, centre, notifs>>
  BY DEF selection_move
<1>7. QED
  BY <1>2, <1>3, <1>4, <1>5, <1>6, AfterSelected DEF LInv, ListTypeOK

LEMMA NextLInv == LInv /\ [Next]_vars => LInv'
<1> SUFFICES ASSUME LInv, [Next]_vars PROVE LInv'
  OBVIOUS
<1>1. ASSUME NEW v \in View, NEW f \in ToSet(store) \cup {None}, click(v, f) PROVE LInv'
  <2>1. ToSet(store) \in SUBSET File
    BY DEF LInv, ListTypeOK, ToSet
  <2>2. selected(v, f, ToSet(store)) /\ UNCHANGED <<store, stack, centre, notifs>>
    BY <1>1 DEF click
  <2>3. /\ selected_in' = [w \in View |-> f]
        /\ requests' \in Seq(Message) /\ m_fileid' \in File \cup {None}
        /\ watching' = ("map" \in active)
        /\ f # None => LastIs(requests', f)
    BY <2>1, <2>2, SelectedStep
  <2>4. /\ f = None \/ f \in ToSet(store')
        /\ store' \in Seq(File) /\ \A i, j \in DOMAIN store' : store'[i] = store'[j] => i = j
    BY <2>2 DEF LInv, ListTypeOK
  <2>5. QED
    BY <2>2, <2>3, <2>4, AfterSelected
<1>2. CASE Menu
  BY <1>2, SelectionMoves DEF Menu
<1>3. CASE content_will_change
  BY <1>3, RowsStep DEF content_will_change, channels
<1>4. ASSUME NEW content \in Content, on_folder_content(content) PROVE LInv'
  BY <1>4, RowsStep, ShellAssumption DEF on_folder_content
<1>5. ASSUME NEW f \in File, on_file_moved(f) PROVE LInv'
  <2> DEFINE at == CHOOSE i \in DOMAIN store : store[i] = f
  <2>1. at \in DOMAIN store /\ store[at] = f
    BY <1>5 DEF on_file_moved, ToSet
  <2>2. /\ store' = RemoveAt(store, at) /\ rows_deleted(ToSet(store) \ {f})
        /\ UNCHANGED <<stack, centre, channels>>
    BY <1>5 DEF on_file_moved
  <2>3. /\ store' \in Seq(File) /\ \A i, j \in DOMAIN store' : store'[i] = store'[j] => i = j
        /\ ToSet(store) \ {f} \subseteq ToSet(store')
    BY <2>1, <2>2, RowRemoved DEF LInv, ListTypeOK
  <2>4. ToSet(store) \ {f} \in SUBSET File
    BY DEF LInv, ListTypeOK, ToSet
  <2>5. QED
    BY <2>2, <2>3, <2>4, RowsStep DEF channels
<1>6. ASSUME NEW p \in Page, switch(p) PROVE LInv'
  BY <1>6 DEF switch, stack_changed, shown, channels, LInv, ListTypeOK, ViewsAgree, AskedInv
<1>7. ASSUME NEW f \in File, on_image_activated(f) PROVE LInv'
  BY <1>7 DEF on_image_activated, stack_changed, stack, shown, channels, LInv, ListTypeOK,
              ViewsAgree, AskedInv, get_selection, Page
<1>8. CASE resize \/ redraw \/ UNCHANGED vars
  BY <1>8 DEF resize, redraw, vars, shell, shown, channels, stack, LInv, ListTypeOK, ViewsAgree,
              AskedInv, get_selection
<1>9. ASSUME NEW f \in File, set_metadata(f) PROVE LInv'
  <2>1. /\ requests' = Append(requests, Changed(f))
        /\ UNCHANGED <<shell, shown, notifs, watching>>
    BY <1>9 DEF set_metadata
  <2>2. /\ requests' \in Seq(Message) /\ Changed(f).n # "queried"
        /\ LastIs(requests, get_selection) => LastIs(requests', get_selection)
        /\ Silent(requests) => Silent(requests')
    BY <2>1, Added, Messages DEF LInv, ListTypeOK
  <2>3. QED
    BY <2>1, <2>2 DEF LInv, ListTypeOK, ViewsAgree, AskedInv, get_selection, shell, stack, shown
<1>10. ASSUME NEW n, Execute(n) PROVE LInv'
  <2> DEFINE m == Head(requests)
  <2>1. /\ requests # <<>> /\ requests' = Tail(requests) /\ notifs' = Append(notifs, m)
        /\ UNCHANGED <<shell, shown, watching>>
    BY <1>10 DEF Execute
  <2>2. /\ m \in Message /\ requests' \in Seq(Message) /\ notifs' \in Seq(Message)
        /\ Silent(requests) => m.n # "queried" /\ Silent(requests')
        /\ LastIs(requests, get_selection) =>
             LastIs(requests', get_selection) \/ (m = Queried(get_selection) /\ Silent(requests'))
    BY <2>1, Taken, Added DEF LInv, ListTypeOK
  <2>3. /\ m = Queried(get_selection) => LastIs(notifs', get_selection)
        /\ m.n # "queried" => /\ (LastIs(notifs, get_selection) => LastIs(notifs', get_selection))
                             /\ (Silent(notifs) => Silent(notifs'))
    BY <2>1, <2>2, Added DEF LInv, ListTypeOK
  <2> HIDE DEF m
  <2>4. /\ get_selection' = get_selection
        /\ UNCHANGED <<store, selected_in, page, active, m_fileid, centre, watching>>
    BY <2>1 DEF get_selection, shell, stack, shown
  <2>5. AskedInv'
    BY <2>2, <2>3, <2>4 DEF LInv, AskedInv
  <2>6. QED
    BY <2>2, <2>4, <2>5 DEF LInv, ListTypeOK, ViewsAgree
<1>10a. ASSUME on_metadata_queried \/ on_metadata_changed PROVE LInv'
  <2> DEFINE m == Head(notifs)
  <2>1. /\ notifs # <<>> /\ notifs' = Tail(notifs)
        /\ UNCHANGED <<store, selected_in, page, active>>
    BY <1>10a DEF on_metadata_queried, on_metadata_changed, shell, stack
  <2>2. /\ m \in Message /\ notifs' \in Seq(Message)
        /\ Silent(notifs) => m.n # "queried" /\ Silent(notifs')
        /\ LastIs(notifs, get_selection) =>
             LastIs(notifs', get_selection) \/ (m = Queried(get_selection) /\ Silent(notifs'))
    BY <2>1, Taken DEF LInv, ListTypeOK
  <2>3. m.id \in File /\ get_selection' = get_selection
    BY <2>1, <2>2, Messages DEF get_selection
  <2>4. CASE on_metadata_queried
    <3>1. /\ m.n = "queried" /\ m_fileid' = m.id
          /\ centre' = IF "map" \in active /\ m.id \in Located THEN m.id ELSE centre
          /\ UNCHANGED <<requests, watching>>
      BY <2>4 DEF on_metadata_queried, centerOn
    <3>2. m = Queried(get_selection) => m.id = get_selection
      BY Messages
    <3> HIDE DEF m
    <3>3. AskedInv'
      BY <2>2, <2>3, <3>1, <3>2, <2>1 DEF LInv, AskedInv
    <3>4. QED
      BY <2>1, <2>2, <2>3, <3>1, <3>3 DEF LInv, ListTypeOK, ViewsAgree
  <2>5. CASE on_metadata_changed
    <3>1. /\ m.n = "changed" /\ UNCHANGED <<m_fileid, centre>>
          /\ requests' = IF m.id = m_fileid THEN Append(requests, Queried(m.id)) ELSE requests
          /\ watching' = (watching /\ (m.id = m_fileid => m.id = get_selection))
      BY <2>5 DEF on_metadata_changed, shown
    <3>2. /\ Append(requests, Queried(m.id)) \in Seq(Message)
          /\ LastIs(Append(requests, Queried(m.id)), m.id)
      BY <2>3, Added, Messages DEF LInv, ListTypeOK
    <3>3. m # Queried(get_selection)
      BY <3>1, Messages
    <3> HIDE DEF m
    <3>4. watching' \in BOOLEAN /\ (watching' => watching /\ (m.id = m_fileid => m.id = get_selection))
      <4>1. watching \in BOOLEAN
        BY DEF LInv, ListTypeOK
      <4>2. QED
        BY <3>1, <4>1, Zenon
    <3>5. AskedInv'
      BY <2>1, <2>2, <2>3, <3>1, <3>2, <3>3, <3>4 DEF LInv, AskedInv
    <3>6. QED
      BY <2>1, <2>2, <2>3, <3>1, <3>2, <3>4, <3>5 DEF LInv, ListTypeOK, ViewsAgree
  <2>6. QED
    BY <1>10a, <2>4, <2>5
<1>11. CASE set_properties \/ \E f \in File : undo_edit(f)
  BY <1>9, <1>11 DEF set_properties, undo_edit, get_selection, LInv, ListTypeOK, View
<1>12. CASE cmd_request_metadata \/ cmd_set_metadata
  BY <1>10, <1>12 DEF cmd_request_metadata, cmd_set_metadata
<1>13. QED
  BY <1>1, <1>2, <1>3, <1>4, <1>5, <1>6, <1>7, <1>8, <1>10a, <1>11, <1>12 DEF Next
-----------------------------------------------------------------------------
(* The darkroom.                                                           *)

LEMMA PlaceholdersAreNoFiles == None \notin File /\ Generic \notin File /\ Missing \notin File
  BY DarkroomAssumption

\* The file given, or the placeholder when it is gone, is loaded.
LEMMA Reloaded ==
  ASSUME DarkroomTypeOK, NEW file \in File \cup {None}, reload_image(file),
         given' \in File \cup {None}, file = given' \/ file = None, drawn' = 0,
         UNCHANGED <<m_resized, m_backingstore>>
  PROVE  DInv'
<1> DEFINE what == IF file = None THEN Generic ELSE file
<1>1. /\ picture' = what /\ ~m_need_reload' /\ m_need_reload' \in BOOLEAN
      /\ m_need_redisplay' /\ m_need_redisplay' \in BOOLEAN
      /\ invalid' /\ invalid' \in BOOLEAN
  BY DEF reload_image, reload, signal_update
<1>2. what \in File \cup {Generic}
  OBVIOUS
<1>3. rotate_node(OrientationOf(what)) \in BOOLEAN
  <2> DEFINE turned == OrientationOf(what) \in 5..8
  <2>1. (turned => turned = TRUE) /\ (~turned => turned = FALSE)
    OBVIOUS
  <2>2. turned \in BOOLEAN
    BY <2>1, Zenon
  <2>3. QED
    BY <2>2, Zenon DEF rotate_node
<1>4. /\ m_status' \in Status /\ m_vertical' \in BOOLEAN
      /\ m_size' \in {<<0, 0>>, <<1, 1>>, Wide, Swapped(Wide)}
  <2>1. Swapped(SizeOf(what)) \in {<<1, 1>>, Swapped(Wide)} /\ SizeOf(what) \in {<<1, 1>>, Wide}
    BY <1>2 DEF Swapped, SizeOf
  <2>2. /\ m_status' \in Status
        /\ m_vertical' = rotate_node(OrientationOf(what)) \/ m_vertical' = m_vertical
        /\ \/ m_size' = <<0, 0>>
           \/ m_size' = Swapped(SizeOf(what))
           \/ m_size' = SizeOf(what)
    BY DEF reload_image, reload, Status
  <2>3. QED
    BY <1>3, <2>1, <2>2 DEF DarkroomTypeOK
<1>5. DarkroomTypeOK'
  BY <1>1, <1>2, <1>4 DEF DarkroomTypeOK
<1>6. m_status' \in {"LOADING", "LOADED"} /\ picture' \in File =>
        m_size' = IF Orientation[picture'] \in 5..8 THEN Swapped(Wide) ELSE Wide
  <2> HAVE m_status' \in {"LOADING", "LOADED"} /\ picture' \in File
  <2>1. /\ m_vertical' = rotate_node(OrientationOf(what))
        /\ m_size' = IF m_vertical' THEN Swapped(SizeOf(what)) ELSE SizeOf(what)
    BY DEF reload_image, reload
  <2>2. what \in File
    BY <1>1
  <2>3. QED
    BY <1>1, <2>1, <2>2 DEF OrientationOf, SizeOf, rotate_node
<1>6a. m_status' = "NOT_FOUND" => picture' \in File
  BY DEF reload_image, reload
<1>7. GivenInv'
  BY <1>1, <1>6, <1>6a, PlaceholdersAreNoFiles DEF GivenInv
<1>8. SettleInv'
  BY DEF SettleInv, DrawingSettles
<1>9. QED
  BY <1>5, <1>7, <1>8 DEF DInv

\* What the darkroom is given while its page is not the visible one.
LEMMA SetImage ==
  ASSUME DInv, NEW file \in File \cup {None}, set_image(file, "darkroom" \in active),
         active = {page} \ {"grid"}, page' = page
  PROVE  DInv'
<1>1. CASE "darkroom" \in active
  BY <1>1, Reloaded DEF set_image, DInv
<1>2. CASE "darkroom" \notin active
  <2>1. /\ given' = file /\ m_need_reload' = TRUE /\ drawn' = 0
        /\ UNCHANGED <<m_status, picture, m_vertical, m_size, m_need_redisplay, m_resized,
                       m_backingstore, invalid>>
    BY <1>2 DEF set_image, image
  <2>2. page' # "darkroom"
    BY <1>2
  <2>3. DarkroomTypeOK'
    BY <2>1 DEF DInv, DarkroomTypeOK
  <2>4. GivenInv'
    BY <2>1, <2>2 DEF DInv, GivenInv, Surface
  <2>5. SettleInv'
    BY <2>1 DEF SettleInv, DrawingSettles
  <2>6. QED
    BY <2>3, <2>4, <2>5 DEF DInv
<1>3. QED
  BY <1>1, <1>2

LEMMA OpenImage ==
  ASSUME DInv, NEW file \in File, open_image(file)
  PROVE  DInv'
  BY Reloaded DEF DInv, open_image

\* The page of the darkroom becomes the visible one.
LEMMA SetActive == ASSUME DInv, set_active PROVE DInv'
<1>1. CASE m_need_reload
  BY <1>1, Reloaded DEF set_active, DInv, DarkroomTypeOK
<1>2. CASE ~m_need_reload
  <2>1. /\ invalid' = TRUE /\ drawn' = 0
        /\ UNCHANGED <<m_need_reload, m_status, picture, m_vertical, m_size, m_need_redisplay,
                       m_resized, m_backingstore, given>>
    BY <1>2 DEF set_active, image
  <2>2. DarkroomTypeOK' /\ SettleInv'
    BY <2>1 DEF DInv, DarkroomTypeOK, SettleInv, DrawingSettles
  <2>3. GivenInv'
    BY <1>2, <2>1 DEF DInv, GivenInv, Surface
  <2>4. QED
    BY <2>2, <2>3 DEF DInv
<1>3. QED
  BY <1>1, <1>2

LEMMA Undisturbed ==
  ASSUME DInv, UNCHANGED darkroom, page' = page \/ page' # "darkroom"
  PROVE  DInv'
  BY DEF DInv, darkroom, image, canvas, DarkroomTypeOK, GivenInv, Surface, SettleInv, DrawingSettles

LEMMA Resized == ASSUME DInv, on_size_allocate, page' = page PROVE DInv'
<1>1. /\ m_resized' = TRUE /\ invalid' = TRUE /\ drawn' = 0
      /\ UNCHANGED <<m_need_reload, m_status, picture, m_vertical, m_size, m_need_redisplay,
                     m_backingstore, given>>
  BY DEF on_size_allocate, image
<1>2. QED
  BY <1>1 DEF DInv, DarkroomTypeOK, GivenInv, Surface, SettleInv, DrawingSettles

LEMMA Drawn == ASSUME DInv, on_draw, page' = page PROVE DInv'
<1>0. drawn' \in 0..2 /\ (drawn = 0 => drawn' = 1) /\ (drawn # 0 => drawn' = 2)
  BY DEF on_draw, draw, paint, Count, DInv, DarkroomTypeOK
<1>1. CASE draw
  <2>1. /\ m_backingstore' = Surface
        /\ m_status' = IF m_status = "LOADING" THEN "LOADED" ELSE m_status
        /\ invalid' = (m_status \in {"LOADING", "LOADED"})
        /\ m_need_redisplay' = FALSE /\ m_resized' = FALSE
        /\ UNCHANGED <<m_need_reload, picture, m_vertical, m_size, given>>
    BY <1>1 DEF draw, set_output_scale
  <2>2. Surface' = Surface
    BY <2>1 DEF Surface
  <2>3. Surface \in File \cup {None, Generic, Missing} /\ m_status' \in Status
    BY <2>1 DEF Surface, DInv, DarkroomTypeOK, Status
  <2>4. invalid' \in BOOLEAN
    BY <2>1
  <2>5. DarkroomTypeOK'
    BY <1>0, <2>1, <2>3, <2>4 DEF DInv, DarkroomTypeOK
  <2>6. GivenInv'
    BY <2>1, <2>2 DEF DInv, GivenInv
  <2>7. drawn = 0
    BY <1>1 DEF on_draw, draw, DInv, SettleInv, DrawingSettles, DarkroomTypeOK
  <2>8. SettleInv'
    BY <1>0, <2>1, <2>7 DEF SettleInv, DrawingSettles
  <2>9. QED
    BY <2>5, <2>6, <2>8 DEF DInv
<1>2. CASE paint
  <2>1. /\ ~m_need_redisplay /\ ~m_resized /\ invalid' = FALSE
        /\ UNCHANGED <<m_need_reload, m_status, picture, m_vertical, m_size, m_need_redisplay,
                       m_resized, m_backingstore, given>>
    BY <1>2 DEF paint, image, canvas
  <2>2. DarkroomTypeOK'
    BY <1>0, <2>1 DEF DInv, DarkroomTypeOK
  <2>3. GivenInv' /\ SettleInv'
    BY <2>1 DEF DInv, GivenInv, Surface, SettleInv, DrawingSettles
  <2>4. QED
    BY <2>2, <2>3 DEF DInv
<1>3. QED
  BY <1>1, <1>2 DEF on_draw

\* The file that the list gives, or nothing.
LEMMA Selected == ASSUME DInv, LInv, NEW f, on_selected(f), page' = page PROVE DInv'
<1>1. PICK file \in {None} \cup ({f} \cap ToSet(store)) : set_image(file, "darkroom" \in active)
  BY DEF on_selected, get_file
<1>2. file \in File \cup {None}
  BY <1>1 DEF LInv, ListTypeOK, ToSet
<1>3. QED
  BY <1>1, <1>2, SetImage DEF LInv, ListTypeOK

LEMMA NextDInv == ShellIInv /\ [Next]_vars => DInv'
<1> SUFFICES ASSUME LInv, DInv, [Next]_vars PROVE DInv'
  BY DEF ShellIInv
<1>1. ASSUME NEW kept, rows_deleted(kept), page' = page PROVE DInv'
  <2>1. UNCHANGED darkroom \/ on_selected(None)
    BY <1>1 DEF rows_deleted, selected, signal_selected
  <2>2. QED
    BY <1>1, <2>1, Undisturbed, Selected
<1>2. CASE \E v \in View, f \in ToSet(store) \cup {None} : click(v, f)
  BY <1>2, Selected DEF click, selected, signal_selected, stack
<1>3. CASE Menu
  <2>1. PICK f : on_selected(f) /\ page' = page
    BY <1>3 DEF Menu, selection_move, signal_selected, stack
  <2>2. QED
    BY <2>1, Selected
<1>4. CASE content_will_change \/ \E c \in Content : on_folder_content(c)
  BY <1>1, <1>4 DEF content_will_change, on_folder_content, stack
<1>5. CASE \E f \in File : on_file_moved(f)
  BY <1>1, <1>5 DEF on_file_moved, stack
<1>6. ASSUME NEW p \in Page, switch(p) PROVE DInv'
  BY <1>6, SetActive, Undisturbed DEF switch, stack_changed
<1>7. ASSUME NEW f \in File, on_image_activated(f) PROVE DInv'
  BY <1>7, SetImage, OpenImage DEF on_image_activated, stack, LInv, ListTypeOK
<1>8. CASE resize \/ redraw
  BY <1>8, Resized, Drawn DEF resize, redraw, shell, stack
<1>9. CASE \/ set_properties \/ \E f \in File : undo_edit(f)
           \/ cmd_request_metadata \/ cmd_set_metadata
           \/ on_metadata_queried \/ on_metadata_changed \/ UNCHANGED vars
  <2>1. UNCHANGED darkroom /\ page' = page
    BY <1>9 DEF set_properties, undo_edit, set_metadata, cmd_request_metadata, cmd_set_metadata, Execute,
                on_metadata_queried, on_metadata_changed, vars, shell, stack
  <2>2. QED
    BY <2>1, Undisturbed
<1>10. QED
  BY <1>2, <1>3, <1>4, <1>5, <1>6, <1>7, <1>8, <1>9 DEF Next
-----------------------------------------------------------------------------
LEMMA ShellInitIInv == Init => ShellIInv
<1> SUFFICES ASSUME Init PROVE ShellIInv
  OBVIOUS
<1>1. LInv
  <2>1. /\ store = <<>> /\ selected_in = [v \in View |-> None] /\ page = "grid" /\ active = {}
        /\ m_fileid = None /\ centre = Home /\ requests = <<>> /\ notifs = <<>> /\ watching = FALSE
    BY DEF Init
  <2>2. store \in Seq(File) /\ requests \in Seq(Message) /\ notifs \in Seq(Message) /\ DOMAIN store = {}
    BY <2>1
  <2>3. watching \in BOOLEAN
    BY <2>1, Zenon
  <2>4. selected_in \in [View -> File \cup {None}]
    BY <2>1
  <2>5. ListTypeOK
    BY <2>1, <2>2, <2>3, <2>4 DEF ListTypeOK, Page
  <2>6. ViewsAgree /\ AskedInv
    BY <2>1 DEF ViewsAgree, AskedInv, View
  <2>7. QED
    BY <2>5, <2>6 DEF LInv
<1>2. DarkroomTypeOK
  <2>1. /\ m_need_reload = TRUE /\ m_status = "UNSET" /\ picture = None
        /\ m_vertical = FALSE /\ m_size = <<0, 0>>
        /\ m_need_redisplay = TRUE /\ m_resized = FALSE /\ m_backingstore = None /\ invalid = FALSE
        /\ drawn = 0 /\ given = None
    BY DEF Init, DarkroomInit, Image, ImageCanvas
  <2>2. /\ m_need_reload \in BOOLEAN /\ m_vertical \in BOOLEAN
        /\ {m_need_redisplay, m_resized, invalid} \subseteq BOOLEAN
    BY <2>1, Zenon
  <2>3. QED
    BY <2>1, <2>2 DEF DarkroomTypeOK, Status
<1>3. GivenInv /\ SettleInv
  BY DEF Init, DarkroomInit, Image, ImageCanvas, GivenInv, SettleInv, DrawingSettles
<1>4. QED
  BY <1>1, <1>2, <1>3 DEF ShellIInv, DInv

LEMMA ShellIInvHolds == Spec => []ShellIInv
<1>1. ShellIInv /\ [Next]_vars => ShellIInv'
  BY NextLInv, NextDInv DEF ShellIInv
<1>2. QED
  BY <1>1, ShellInitIInv, PTL DEF Spec

\* The state of the shell is what its types say.
THEOREM ShellTypeCorrect == Spec => []ShellTypeOK
<1>1. ShellIInv => ShellTypeOK
  <2> SUFFICES ASSUME ShellIInv PROVE ShellTypeOK
    OBVIOUS
  <2>1. ToSet(store) \subseteq File /\ active \subseteq Page
    BY DEF ShellIInv, LInv, ListTypeOK, ToSet
  <2>2. QED
    BY <2>1 DEF ShellIInv, LInv, ListTypeOK, DInv, ShellTypeOK
<1>2. QED
  BY <1>1, ShellIInvHolds, PTL

\* The views show the same selection, an image of the list.
THEOREM ShellViewsAgree == Spec => []ViewsAgree
<1>1. ShellIInv => ViewsAgree
  BY DEF ShellIInv, LInv
<1>2. QED
  BY <1>1, ShellIInvHolds, PTL

\* The map that has been visible since the selection was made shows the
\* position of the image selected, once the library has answered.
THEOREM ShellMapFollows == Spec => []MapFollows
<1>1. ASSUME ShellIInv PROVE MapFollows
  <2>1. requests = <<>> /\ notifs = <<>> => ~LastIs(requests, get_selection) /\ ~LastIs(notifs, get_selection)
    BY DEF LastIs
  <2>2. QED
    BY <1>1, <2>1, NoneIsNoFile DEF ShellIInv, LInv, AskedInv, get_selection, MapFollows
<1>2. QED
  BY <1>1, ShellIInvHolds, PTL

\* The darkroom shows the file last given to it or a placeholder, in a frame
\* that is turned as the picture is.
THEOREM ShellDarkroomShowsGiven == Spec => []DarkroomShowsGiven
<1>1. ShellIInv => DarkroomShowsGiven
  <2> SUFFICES ASSUME DarkroomTypeOK, GivenInv, page = "darkroom", ~invalid
               PROVE  /\ m_backingstore \in (IF given = None THEN {Generic} ELSE {given, Generic, Missing})
                      /\ m_backingstore \in File =>
                           m_size = IF Orientation[m_backingstore] \in 5..8 THEN Swapped(Wide) ELSE Wide
    BY DEF ShellIInv, DInv, DarkroomShowsGiven
  <2>1. picture = (IF given = None THEN Generic ELSE given) \/ picture = Generic
    BY DEF GivenInv
  <2>2. m_backingstore = Surface
    BY DEF GivenInv
  <2>3. m_status \in {"LOADING", "LOADED"} /\ picture \in File =>
          m_size = IF Orientation[picture] \in 5..8 THEN Swapped(Wide) ELSE Wide
    BY DEF GivenInv
  <2>4. CASE m_status \in {"LOADING", "LOADED"}
    <3>1. m_backingstore = picture
      BY <2>2, <2>4 DEF Surface
    <3>2. QED
      BY <2>1, <2>3, <2>4, <3>1
  <2>5. CASE m_status = "NOT_FOUND"
    <3>1. m_backingstore = Missing
      BY <2>2, <2>5 DEF Surface
    <3>2. given # None
      BY <2>1, <2>5, PlaceholdersAreNoFiles DEF GivenInv
    <3>3. QED
      BY <3>1, <3>2, PlaceholdersAreNoFiles
  <2>6. CASE m_status \notin {"LOADING", "LOADED", "NOT_FOUND"}
    <3>1. m_backingstore = Generic
      BY <2>2, <2>6 DEF Surface
    <3>2. QED
      BY <3>1, PlaceholdersAreNoFiles
  <2>7. QED
    BY <2>4, <2>5, <2>6
<1>2. QED
  BY <1>1, ShellIInvHolds, PTL

\* Nothing else happening, the canvas is drawn twice at most.
THEOREM ShellDrawingSettles == Spec => []DrawingSettles
<1>1. ShellIInv => DrawingSettles
  BY DEF ShellIInv, DInv, SettleInv
<1>2. QED
  BY <1>1, ShellIInvHolds, PTL
-----------------------------------------------------------------------------
(***************************************************************************)
(* What the application keeps in its configuration and finds at its next   *)
(* start, for any catalogs, positions and nodes, and however it ended.     *)
(***************************************************************************)

\* The value of each key is of its kind.
ConfigTypeOK ==
  /\ config \in [Key -> {NotKept, "0", "1"} \cup Moniker \cup Place]
  /\ config["last_open_catalog"] \in Moniker \cup {NotKept}
  /\ config["mainWindow-frame"] \in Place \cup {NotKept}
  /\ config["workspace_splitter"] \in Place \cup {NotKept}
  /\ library_cfg \in [Moniker -> [Node -> {NotKept, "0", "1"}]]
  /\ m_libClient \in Moniker \cup {NotKept}
  /\ frame \in Place /\ splitter \in Place /\ m_value \in Place
  /\ node_rows \in [Node -> {"empty", "collapsed", "expanded"}]

FlagsTypeOK ==
  /\ phase \in {"off", "prompt", "up", "closing"}
  /\ dark \in BOOLEAN
  /\ dialog \in [Pref -> BOOLEAN] \cup {NotKept}
  /\ pool \subseteq Bound /\ (pool # {} => dialog # NotKept)
  /\ wished \in [Pref -> BOOLEAN]
  /\ chosen \in Moniker \cup {NotKept}

LeftTypeOK == left \in [frame : Place, splitter : Place, expanded : [Moniker -> [Node -> BOOLEAN]]]

\* Only a window that is up has a catalog, and nodes.
PhaseInv ==
  /\ phase \in {"off", "prompt"} => m_libClient = NotKept
  /\ \A n \in Node : node_rows[n] # "empty" => m_libClient # NotKept

\* The configuration says what the user wished; the dialog may be ahead of
\* it, but for the theme.
WishedInv ==
  /\ \A k \in Pref : Wish(k) <=> wished[k]
  /\ dialog # NotKept => (dialog["ui_dark_theme"] <=> wished["ui_dark_theme"])
  /\ config["last_open_catalog"] = chosen

\* It says where things were left.
LeftInv ==
  /\ getValue("mainWindow-frame", Initial) = left.frame
  /\ getValue("workspace_splitter", Initial) = left.splitter
  /\ m_libClient # NotKept => m_value = splitter
  /\ \A c \in Moniker, n \in Node : library_cfg[c][n] # "0" <=> left.expanded[c][n]

UndoTypeOK ==
  /\ m_undos \in 0..MaxUndo /\ m_redos \in Nat /\ m_undos + m_redos <= MaxUndo
  /\ m_undo_action \in BOOLEAN /\ m_redo_action \in BOOLEAN

KInv == ConfigTypeOK /\ FlagsTypeOK /\ LeftTypeOK /\ PhaseInv /\ WishedInv /\ LeftInv
UInv == UndoTypeOK /\ UndoOffered
WindowIInv == KInv /\ UInv
-----------------------------------------------------------------------------
LEMMA InitKInv == WindowInit => KInv
<1> SUFFICES ASSUME WindowInit PROVE KInv
  OBVIOUS
<1> USE WindowAssumption DEF WindowInit, Gone, Pref, Key
<1>1. ConfigTypeOK /\ PhaseInv
  BY DEF ConfigTypeOK, PhaseInv
<1>2. FlagsTypeOK
  BY DEF FlagsTypeOK
<1>3. LeftTypeOK
  BY DEF LeftTypeOK
<1>4. WishedInv
  BY DEF WishedInv, Wish, getValue
<1>5. LeftInv
  BY DEF LeftInv, getValue
<1>6. QED
  BY <1>1, <1>2, <1>3, <1>4, <1>5 DEF KInv

\* Whatever ends the program, what is kept stays as it is.
LEMMA EndStep == KInv /\ End /\ UNCHANGED <<settings, history>> => KInv'
<1> SUFFICES ASSUME KInv, End, UNCHANGED <<settings, history>> PROVE KInv'
  OBVIOUS
<1> USE WindowAssumption DEF KInv, End, settings, history
<1>1. (ConfigTypeOK /\ PhaseInv)'
  BY DEF ConfigTypeOK, PhaseInv
<1>2. (FlagsTypeOK /\ LeftTypeOK)'
  BY DEF FlagsTypeOK, LeftTypeOK
<1>3. WishedInv'
  BY DEF WishedInv, Wish, getValue
<1>4. LeftInv'
  BY DEF LeftInv, getValue
<1>5. QED
  BY <1>1, <1>2, <1>3, <1>4

\* The steps that leave the configurations, the wishes and what was left alone.
LEMMA QuietStep ==
  ASSUME KInv, UNCHANGED <<settings, history, dialog, pool>>, FlagsTypeOK', PhaseInv',
         m_libClient' \in Moniker \cup {NotKept}, frame' \in Place, splitter' \in Place,
         m_value' \in Place, m_libClient' # NotKept => m_value' = splitter',
         node_rows' \in [Node -> {"empty", "collapsed", "expanded"}]
  PROVE  KInv'
<1> USE DEF KInv, settings, history
<1>1. ConfigTypeOK' /\ LeftTypeOK'
  BY DEF ConfigTypeOK, LeftTypeOK
<1>2. WishedInv'
  BY DEF WishedInv, Wish, getValue
<1>3. LeftInv'
  BY DEF LeftInv, getValue
<1>4. QED
  BY <1>1, <1>2, <1>3
-----------------------------------------------------------------------------
(* The actions, by what they write.                                        *)

LEMMA StartStep == KInv /\ (main \/ prompt_cancelled) => KInv'
<1> SUFFICES ASSUME KInv, main \/ prompt_cancelled PROVE KInv'
  OBVIOUS
<1>1. CASE main
  <2>1. UNCHANGED <<settings, history, dialog, pool, node_rows>> /\ frame' = getValue("mainWindow-frame", Initial)
    BY <1>1 DEF main, add_frame, frameRectFromConfig, preferences
  <2>2. frame' \in Place
    BY <2>1, WindowAssumption DEF KInv, ConfigTypeOK, getValue
  <2>3. dark' \in BOOLEAN
    BY <1>1, Zenon DEF main, Wish
  <2>4. phase = "off" /\ m_libClient = NotKept
    BY <1>1 DEF main, KInv, PhaseInv
  <2>5. CASE open_library(config["last_open_catalog"]) /\ config["last_open_catalog"] # NotKept
    <3>1. /\ phase' = "up" /\ m_libClient' = config["last_open_catalog"] /\ m_value' = splitter'
          /\ splitter' = getValue("workspace_splitter", Initial)
      BY <2>5 DEF open_library, bind_splitter
    <3>2. splitter' \in Place /\ m_libClient' \in Moniker
      BY <2>5, <3>1, WindowAssumption DEF KInv, ConfigTypeOK, getValue
    <3>3. FlagsTypeOK' /\ PhaseInv'
      BY <2>1, <2>3, <3>1, <3>2, WindowAssumption DEF KInv, FlagsTypeOK, PhaseInv, history
    <3>4. QED
      BY <2>1, <2>2, <3>1, <3>2, <3>3, QuietStep DEF KInv, ConfigTypeOK
  <2>6. CASE phase' = "prompt" /\ UNCHANGED <<m_libClient, splitter, m_value>>
    <3>1. FlagsTypeOK' /\ PhaseInv'
      BY <2>1, <2>3, <2>4, <2>6 DEF KInv, FlagsTypeOK, PhaseInv, history
    <3>2. QED
      BY <2>1, <2>2, <2>4, <2>6, <3>1, QuietStep DEF KInv, ConfigTypeOK
  <2>7. QED
    BY <1>1, <2>5, <2>6 DEF main, add_frame, on_open_library
<1>2. CASE prompt_cancelled
  <2>1. /\ UNCHANGED <<settings, history, dialog, pool>> /\ UNCHANGED <<m_libClient, frame, splitter, m_value, node_rows>>
        /\ phase = "prompt" /\ phase' = "up" /\ dark' = dark
    BY <1>2 DEF prompt_cancelled, window, Frame, preferences
  <2>2. FlagsTypeOK' /\ PhaseInv'
    BY <2>1 DEF KInv, FlagsTypeOK, PhaseInv, history
  <2>3. QED
    BY <2>1, <2>2, QuietStep DEF KInv, ConfigTypeOK, LeftInv
<1>3. QED
  BY <1>1, <1>2

LEMMA PromptStep == ASSUME KInv, NEW c \in Moniker, prompt_open_library(c) PROVE KInv'
<1> USE DEF KInv
<1>1. /\ phase = "prompt" /\ phase' = "up"
      /\ config' = [config EXCEPT !["last_open_catalog"] = c]
      /\ chosen' = c /\ m_libClient' = c
      /\ splitter' = getValue("workspace_splitter", Initial) /\ m_value' = splitter'
      /\ UNCHANGED <<library_cfg, dark, frame, node_rows, dialog, pool, wished, left>>
  BY DEF prompt_open_library, open_library, bind_splitter, preferences
<1>2. /\ config' \in [Key -> {NotKept, "0", "1"} \cup Moniker \cup Place]
      /\ config'["last_open_catalog"] = c
      /\ \A k \in Key : k # "last_open_catalog" => config'[k] = config[k]
  BY <1>1 DEF ConfigTypeOK, Key
<1>3. splitter' \in Place
  BY <1>1, WindowAssumption DEF ConfigTypeOK, getValue
<1>4. ConfigTypeOK'
  BY <1>1, <1>2, <1>3 DEF ConfigTypeOK, Key
<1>5. (FlagsTypeOK /\ LeftTypeOK /\ PhaseInv)'
  BY <1>1, WindowAssumption DEF FlagsTypeOK, LeftTypeOK, PhaseInv
<1>6. WishedInv'
  BY <1>1, <1>2 DEF WishedInv, Wish, getValue, Pref, Key
<1>7. LeftInv'
  BY <1>1, <1>2 DEF LeftInv, getValue, Key
<1>8. QED
  BY <1>4, <1>5, <1>6, <1>7

LEMMA LayoutStep ==
  ASSUME KInv, NEW p \in Place, move_window(p) \/ on_changed(p)
  PROVE  KInv'
<1>1. UNCHANGED <<settings, history, dialog, pool>> /\ UNCHANGED <<phase, dark, m_libClient, node_rows>>
  BY DEF move_window, on_changed, preferences
<1>2. FlagsTypeOK' /\ PhaseInv'
  BY <1>1 DEF KInv, FlagsTypeOK, PhaseInv, history
<1>3. frame' \in Place /\ splitter' \in Place /\ m_value' \in Place
  BY DEF move_window, on_changed, KInv, ConfigTypeOK
<1>4. m_libClient' # NotKept => m_value' = splitter'
  BY DEF move_window, on_changed, KInv, LeftInv
<1>5. QED
  BY <1>1, <1>2, <1>3, <1>4, QuietStep DEF KInv, ConfigTypeOK

LEMMA NodeStep ==
  ASSUME KInv, NEW n \in Node,
         add_first_item(n) \/ remove_last_item(n) \/ on_row_expanded_collapsed(n)
  PROVE  KInv'
<1> USE DEF KInv
<1>0. UNCHANGED <<config, phase, dark, m_libClient, frame, splitter, m_value, dialog, pool, wished, chosen>>
  BY DEF add_first_item, remove_last_item, on_row_expanded_collapsed, settings, history, preferences
<1>1. m_libClient \in Moniker
  BY DEF add_first_item, remove_last_item, on_row_expanded_collapsed, ConfigTypeOK, PhaseInv
<1>2. /\ node_rows' \in [Node -> {"empty", "collapsed", "expanded"}]
      /\ \/ library_cfg' = library_cfg /\ left' = left
         \/ /\ library_cfg[m_libClient][n] # "0"
            /\ library_cfg' = [library_cfg EXCEPT ![m_libClient][n] = "1"] /\ left' = left
         \/ \E e \in BOOLEAN :
              /\ library_cfg' = [library_cfg EXCEPT ![m_libClient][n] = to_string(e)]
              /\ left' = [left EXCEPT !.expanded[m_libClient][n] = e]
  <2>1. CASE add_first_item(n)
    BY <2>1, WindowAssumption DEF add_first_item, expand_from_cfg, ConfigTypeOK, history
  <2>2. CASE remove_last_item(n)
    BY <2>2 DEF remove_last_item, ConfigTypeOK, settings, history
  <2>3. CASE on_row_expanded_collapsed(n)
    <3>1. (node_rows[n] = "collapsed") \in BOOLEAN
      OBVIOUS
    <3>2. QED
      BY <2>3, <3>1 DEF on_row_expanded_collapsed, ConfigTypeOK
  <2>4. QED
    BY <2>1, <2>2, <2>3
<1>3. (FlagsTypeOK /\ PhaseInv /\ WishedInv)'
  BY <1>0, <1>1, <1>2, WindowAssumption DEF FlagsTypeOK, PhaseInv, WishedInv, Wish, getValue
<1>4. /\ library_cfg' \in [Moniker -> [Node -> {NotKept, "0", "1"}]]
      /\ LeftTypeOK' /\ left'.frame = left.frame /\ left'.splitter = left.splitter
      /\ \A c \in Moniker, m \in Node : library_cfg'[c][m] # "0" <=> left'.expanded[c][m]
  <2>1. CASE library_cfg' = library_cfg /\ left' = left
    BY <2>1 DEF ConfigTypeOK, LeftTypeOK, LeftInv
  <2>2. CASE /\ library_cfg[m_libClient][n] # "0"
             /\ library_cfg' = [library_cfg EXCEPT ![m_libClient][n] = "1"] /\ left' = left
    <3>1. \A c \in Moniker, m \in Node : library_cfg'[c][m] # "0" <=> library_cfg[c][m] # "0"
      BY <1>1, <2>2 DEF ConfigTypeOK
    <3>2. QED
      BY <1>1, <2>2, <3>1 DEF ConfigTypeOK, LeftTypeOK, LeftInv
  <2>3. ASSUME NEW e \in BOOLEAN,
               library_cfg' = [library_cfg EXCEPT ![m_libClient][n] = to_string(e)],
               left' = [left EXCEPT !.expanded[m_libClient][n] = e]
        PROVE  <1>4!1 /\ <1>4!2 /\ <1>4!3
    <3>0. to_string(e) \in {"0", "1"} /\ (to_string(e) # "0" <=> e)
      BY DEF to_string
    <3>1. library_cfg' \in [Moniker -> [Node -> {NotKept, "0", "1"}]]
      BY <1>1, <2>3, <3>0 DEF ConfigTypeOK
    <3>2. \A c \in Moniker, m \in Node :
            library_cfg'[c][m] = IF c = m_libClient /\ m = n THEN to_string(e) ELSE library_cfg[c][m]
      BY <1>1, <2>3 DEF ConfigTypeOK
    <3>3. /\ left'.frame = left.frame /\ left'.splitter = left.splitter
          /\ left'.expanded = [left.expanded EXCEPT ![m_libClient][n] = e]
          /\ left' = [frame |-> left.frame, splitter |-> left.splitter,
                      expanded |-> [left.expanded EXCEPT ![m_libClient][n] = e]]
      BY <2>3 DEF LeftTypeOK
    <3>4. /\ [left.expanded EXCEPT ![m_libClient][n] = e] \in [Moniker -> [Node -> BOOLEAN]]
          /\ left.frame \in Place /\ left.splitter \in Place
      BY <1>1 DEF LeftTypeOK
    <3>5. LeftTypeOK'
      BY <3>3, <3>4 DEF LeftTypeOK
    <3>6. \A c \in Moniker, m \in Node :
            left'.expanded[c][m] = IF c = m_libClient /\ m = n THEN e ELSE left.expanded[c][m]
      BY <1>1, <3>3 DEF LeftTypeOK
    <3>7. \A c \in Moniker, m \in Node : library_cfg'[c][m] # "0" <=> left'.expanded[c][m]
      <4> TAKE c \in Moniker, m \in Node
      <4>1. CASE c = m_libClient /\ m = n
        BY <3>0, <3>2, <3>6, <4>1
      <4>2. CASE ~(c = m_libClient /\ m = n)
        BY <3>2, <3>6, <4>2 DEF LeftInv
      <4>3. QED
        BY <4>1, <4>2
    <3>8. QED
      BY <3>1, <3>3, <3>5, <3>7
  <2>4. QED
    BY <1>2, <2>1, <2>2, <2>3
<1>5. ConfigTypeOK'
  BY <1>0, <1>2, <1>4 DEF ConfigTypeOK
<1>6. LeftInv'
  BY <1>0, <1>4 DEF LeftInv, getValue
<1>7. QED
  BY <1>3, <1>4, <1>5, <1>6

LEMMA DialogStep ==
  ASSUME KInv, on_action_preferences \/ close_preferences \/ \E k \in Pref : toggle(k) \/ destroy_binder(k)
  PROVE  KInv'
<1> USE DEF KInv
<1>0. UNCHANGED <<library_cfg, phase, dark, m_libClient, splitter, m_value, node_rows, frame, chosen, left>>
  BY DEF on_action_preferences, close_preferences, toggle, destroy_binder, settings, window, Frame, history
<1>1. CASE on_action_preferences
  <2>1. UNCHANGED <<config, wished>> /\ dialog' = [k \in Pref |-> Wish(k)] /\ pool = {} /\ pool' = {}
    BY <1>1 DEF on_action_preferences, setup_widget, settings, history, AtEase, LoopRuns
  <2>2. dialog' \in [Pref -> BOOLEAN]
    <3>1. \A k \in Pref : Wish(k) \in BOOLEAN
      BY Zenon DEF Wish
    <3>2. QED
      BY <2>1, <3>1
  <2>3. dialog'["ui_dark_theme"] <=> wished["ui_dark_theme"]
    BY <2>1 DEF WishedInv, Pref
  <2>4. (ConfigTypeOK /\ LeftTypeOK /\ PhaseInv /\ LeftInv)'
    BY <1>0, <2>1 DEF ConfigTypeOK, LeftTypeOK, PhaseInv, LeftInv, getValue
  <2>5. FlagsTypeOK'
    BY <1>0, <2>1, <2>2 DEF FlagsTypeOK
  <2>6. WishedInv'
    BY <1>0, <2>1, <2>3 DEF WishedInv, Wish, getValue
  <2>7. QED
    BY <2>4, <2>5, <2>6
<1>2. \A b \in BOOLEAN : to_string(b) \in {"0", "1"} /\ (to_string(b) = "1" <=> b)
  BY DEF to_string
<1>3. CASE close_preferences
  <2>1. UNCHANGED <<config, wished, dialog>> /\ pool' = Bound /\ dialog # NotKept
    BY <1>3 DEF close_preferences, settings, history
  <2>2. (ConfigTypeOK /\ LeftTypeOK /\ PhaseInv /\ LeftInv)'
    BY <1>0, <2>1 DEF ConfigTypeOK, LeftTypeOK, PhaseInv, LeftInv, getValue
  <2>3. FlagsTypeOK' /\ WishedInv'
    BY <1>0, <2>1 DEF FlagsTypeOK, WishedInv, Wish, getValue
  <2>4. QED
    BY <2>2, <2>3
<1>3a. ASSUME NEW k \in Pref, destroy_binder(k) PROVE KInv'
  <2>1. /\ k \in Bound /\ pool' = pool \ {k} /\ dialog \in [Pref -> BOOLEAN]
        /\ config' = [config EXCEPT ![k] = to_string(dialog[k])]
        /\ wished' = [wished EXCEPT ![k] = dialog[k]]
        /\ dialog' = IF pool' = {} THEN NotKept ELSE dialog
    BY <1>3a DEF destroy_binder, FlagsTypeOK
  <2>2. /\ config' \in [Key -> {NotKept, "0", "1"} \cup Moniker \cup Place]
        /\ config'[k] = to_string(dialog[k]) /\ \A j \in Key \ {k} : config'[j] = config[j]
    BY <1>2, <2>1 DEF ConfigTypeOK, Key
  <2>3. /\ wished' \in [Pref -> BOOLEAN]
        /\ wished'[k] = dialog[k] /\ \A j \in Pref \ {k} : wished'[j] = wished[j]
    BY <2>1 DEF FlagsTypeOK
  <2>4. (ConfigTypeOK /\ LeftTypeOK /\ PhaseInv /\ LeftInv)'
    BY <1>0, <2>1, <2>2 DEF ConfigTypeOK, LeftTypeOK, PhaseInv, LeftInv, getValue, Key, Bound, Pref
  <2>5. FlagsTypeOK'
    BY <1>0, <2>1, <2>3 DEF FlagsTypeOK
  <2>6. \A j \in Pref : Wish(j)' <=> wished'[j]
    <3> TAKE j \in Pref
    <3>1. CASE j = k
      BY <1>2, <2>1, <2>2, <2>3, <3>1, WindowAssumption DEF Wish, getValue
    <3>2. CASE j # k
      <4>1. config'[j] = config[j] /\ wished'[j] = wished[j]
        BY <2>2, <2>3, <3>2 DEF Key
      <4>2. QED
        BY <4>1 DEF WishedInv, Wish, getValue
    <3>3. QED
      BY <3>1, <3>2
  <2>7. /\ config'["last_open_catalog"] = chosen'
        /\ dialog' # NotKept => (dialog'["ui_dark_theme"] <=> wished'["ui_dark_theme"])
    BY <1>0, <2>1, <2>2, <2>3 DEF WishedInv, Key, Bound, Pref
  <2>8. WishedInv'
    BY <2>6, <2>7 DEF WishedInv
  <2>9. QED
    BY <2>4, <2>5, <2>8
<1>4. ASSUME NEW k \in Pref, toggle(k) PROVE KInv'
  <2>1. /\ dialog \in [Pref -> BOOLEAN] /\ pool = {} /\ pool' = {}
        /\ dialog' = [dialog EXCEPT ![k] = ~@]
    BY <1>4 DEF toggle, FlagsTypeOK
  <2>2. dialog' \in [Pref -> BOOLEAN] /\ \A j \in Pref \ {k} : dialog'[j] = dialog[j]
    BY <2>1
  <2>3. CASE k = "ui_dark_theme"
    <3>1. /\ config' = [config EXCEPT !["ui_dark_theme"] = to_string(dialog'[k])]
          /\ wished' = [wished EXCEPT !["ui_dark_theme"] = dialog'[k]]
      BY <1>4, <2>3 DEF toggle, set_use_dark_theme
    <3>2. dialog'[k] \in BOOLEAN
      BY <2>2
    <3>3. /\ wished' \in [Pref -> BOOLEAN]
          /\ wished'[k] = dialog'[k] /\ \A j \in Pref \ {k} : wished'[j] = wished[j]
      BY <2>3, <3>1, <3>2 DEF FlagsTypeOK
    <3>4. /\ config' \in [Key -> {NotKept, "0", "1"} \cup Moniker \cup Place]
          /\ config'[k] = to_string(dialog'[k]) /\ \A j \in Key \ {k} : config'[j] = config[j]
      BY <1>2, <2>3, <3>1, <3>2 DEF ConfigTypeOK, Key, Pref
    <3>5. (ConfigTypeOK /\ LeftTypeOK /\ PhaseInv /\ LeftInv)'
      BY <1>0, <2>3, <3>4 DEF ConfigTypeOK, LeftTypeOK, PhaseInv, LeftInv, getValue, Key
    <3>6. FlagsTypeOK'
      BY <1>0, <2>1, <2>2, <3>3 DEF FlagsTypeOK
    <3>7. \A j \in Pref : Wish(j)' <=> wished'[j]
      <4> TAKE j \in Pref
      <4>1. CASE j = k
        BY <1>2, <3>2, <3>3, <3>4, <4>1, WindowAssumption DEF Wish, getValue
      <4>2. CASE j # k
        <5>1. config'[j] = config[j] /\ wished'[j] = wished[j]
          BY <3>3, <3>4, <4>2 DEF Key
        <5>2. QED
          BY <5>1 DEF WishedInv, Wish, getValue
      <4>3. QED
        BY <4>1, <4>2
    <3>8. WishedInv'
      BY <1>0, <2>3, <3>3, <3>4, <3>7 DEF WishedInv, Key
    <3>9. QED
      BY <3>5, <3>6, <3>8
  <2>4. CASE k # "ui_dark_theme"
    <3>1. UNCHANGED <<config, wished>>
      BY <1>4, <2>4 DEF toggle
    <3>2. dialog'["ui_dark_theme"] = dialog["ui_dark_theme"] /\ dialog # NotKept
      BY <1>4, <2>2, <2>4 DEF toggle, Pref
    <3>3. (ConfigTypeOK /\ LeftTypeOK /\ PhaseInv /\ LeftInv)'
      BY <1>0, <3>1 DEF ConfigTypeOK, LeftTypeOK, PhaseInv, LeftInv, getValue
    <3>4. FlagsTypeOK'
      BY <1>0, <2>1, <2>2, <3>1 DEF FlagsTypeOK
    <3>5. WishedInv'
      BY <1>0, <3>1, <3>2 DEF WishedInv, Wish, getValue
    <3>6. QED
      BY <3>3, <3>4, <3>5
  <2>5. QED
    BY <2>3, <2>4
<1>5. QED
  BY <1>1, <1>3, <1>3a, <1>4

LEMMA CloseStep == KInv /\ close => KInv'
<1> SUFFICES ASSUME KInv, close PROVE KInv'
  OBVIOUS
<1> USE DEF KInv
<1>1. /\ config' = [config EXCEPT !["mainWindow-frame"] = frame]
      /\ left' = [left EXCEPT !.frame = frame]
      /\ phase = "up" /\ phase' = "closing"
      /\ UNCHANGED <<library_cfg, dark, m_libClient, splitter, m_value, node_rows, frame, dialog, pool,
                     wished, chosen>>
  BY DEF close, frameRectToConfig, AtEase, LoopRuns, window, Frame, preferences
<1>2. /\ config' \in [Key -> {NotKept, "0", "1"} \cup Moniker \cup Place]
      /\ config'["mainWindow-frame"] = frame
      /\ \A k \in Key : k # "mainWindow-frame" => config'[k] = config[k]
  BY <1>1 DEF ConfigTypeOK, Key
<1>3. /\ LeftTypeOK' /\ left'.frame = frame
      /\ left'.splitter = left.splitter /\ left'.expanded = left.expanded
  BY <1>1 DEF LeftTypeOK, ConfigTypeOK
<1>4. ConfigTypeOK'
  BY <1>1, <1>2 DEF ConfigTypeOK, Key
<1>5. (FlagsTypeOK /\ PhaseInv)'
  BY <1>1 DEF FlagsTypeOK, PhaseInv
<1>6. WishedInv'
  BY <1>1, <1>2 DEF WishedInv, Wish, getValue, Pref, Key
<1>7. frame # NotKept
  BY WindowAssumption DEF ConfigTypeOK
<1>8. LeftInv'
  BY <1>1, <1>2, <1>3, <1>7 DEF LeftInv, getValue, Key
<1>9. QED
  BY <1>3, <1>4, <1>5, <1>6, <1>8

LEMMA DestroyStep == KInv /\ destroy_binders => KInv'
<1> SUFFICES ASSUME KInv, destroy_binders PROVE KInv'
  OBVIOUS
<1>1. CASE m_libClient = NotKept
  BY <1>1, EndStep DEF destroy_binders, settings, history
<1>2. CASE m_libClient # NotKept
  <2> USE DEF KInv
  <2>1. /\ config' = [config EXCEPT !["workspace_splitter"] = m_value]
        /\ left' = [left EXCEPT !.splitter = splitter]
        /\ m_value = splitter
        /\ End /\ UNCHANGED <<library_cfg, wished, chosen>>
    BY <1>2 DEF destroy_binders, LeftInv
  <2>2. /\ config' \in [Key -> {NotKept, "0", "1"} \cup Moniker \cup Place]
        /\ config'["workspace_splitter"] = splitter
        /\ \A k \in Key : k # "workspace_splitter" => config'[k] = config[k]
    BY <2>1 DEF ConfigTypeOK, Key
  <2>3. /\ LeftTypeOK' /\ left'.splitter = splitter
        /\ left'.frame = left.frame /\ left'.expanded = left.expanded
    BY <2>1 DEF LeftTypeOK, ConfigTypeOK
  <2>4. (ConfigTypeOK /\ PhaseInv)'
    BY <2>1, <2>2, WindowAssumption DEF ConfigTypeOK, PhaseInv, End, Key
  <2>5. FlagsTypeOK'
    BY <2>1 DEF FlagsTypeOK, End
  <2>6. WishedInv'
    BY <2>1, <2>2 DEF WishedInv, Wish, getValue, Pref, Key, End
  <2>7. splitter # NotKept
    BY WindowAssumption DEF ConfigTypeOK
  <2>8. LeftInv'
    BY <2>1, <2>2, <2>3, <2>7 DEF LeftInv, getValue, Key, End
  <2>9. QED
    BY <2>3, <2>4, <2>5, <2>6, <2>8
<1>3. QED
  BY <1>1, <1>2

LEMMA StayStep ==
  ASSUME KInv, begin_undo \/ undo \/ redo \/ UNCHANGED program
  PROVE  KInv'
<1>1. /\ UNCHANGED <<settings, history, dialog, pool>>
      /\ UNCHANGED <<phase, dark, m_libClient, frame, splitter, m_value, node_rows>>
  BY DEF begin_undo, undo, redo, program, window, Frame, preferences
<1>2. FlagsTypeOK' /\ PhaseInv'
  BY <1>1 DEF KInv, FlagsTypeOK, PhaseInv, history
<1>3. QED
  BY <1>1, <1>2, QuietStep DEF KInv, ConfigTypeOK, LeftInv

LEMMA NextKInv == KInv /\ [WindowNext]_program => KInv'
<1> SUFFICES ASSUME KInv, [WindowNext]_program PROVE KInv'
  OBVIOUS
<1>1. CASE on_action_edit \/ kill
  BY <1>1, EndStep DEF on_action_edit, kill
<1>2. CASE begin_undo \/ HeaderBar \/ UNCHANGED program
  BY <1>2, StayStep DEF HeaderBar
<1>3. CASE on_action_preferences \/ close_preferences \/ \E k \in Pref : toggle(k) \/ destroy_binder(k)
  BY <1>3, DialogStep
<1>4. CASE main \/ prompt_cancelled
  BY <1>4, StartStep
<1>5. CASE close \/ destroy_binders
  BY <1>5, CloseStep, DestroyStep
<1>6. CASE \E c \in Moniker : prompt_open_library(c)
  BY <1>6, PromptStep
<1>7. CASE \E p \in Place : move_window(p) \/ on_changed(p)
  BY <1>7, LayoutStep
<1>8. CASE \E n \in Node : add_first_item(n) \/ remove_last_item(n) \/ on_row_expanded_collapsed(n)
  BY <1>8, NodeStep
<1>9. QED
  BY <1>1, <1>2, <1>3, <1>4, <1>5, <1>6, <1>7, <1>8 DEF WindowNext, User, AppActions

LEMMA InitUInv == WindowInit => UInv
<1> SUFFICES ASSUME WindowInit PROVE UInv
  OBVIOUS
<1>1. m_undos = 0 /\ m_redos = 0 /\ m_undo_action = FALSE /\ m_redo_action = FALSE
  BY DEF WindowInit, Gone
<1>2. UndoTypeOK
  <2>1. m_undos \in 0..MaxUndo /\ m_redos \in Nat /\ m_undos + m_redos <= MaxUndo
    BY <1>1, WindowAssumption
  <2>2. m_undo_action \in BOOLEAN /\ m_redo_action \in BOOLEAN
    BY <1>1, Zenon
  <2>3. QED
    BY <2>1, <2>2 DEF UndoTypeOK
<1>3. UndoOffered
  BY <1>1 DEF UndoOffered
<1>4. QED
  BY <1>2, <1>3 DEF UInv

LEMMA Offered ==
  ASSUME NEW n \in Nat, NEW offered, offered = (n > 0)
  PROVE  offered \in BOOLEAN /\ (offered <=> n > 0)
<1>1. offered \in BOOLEAN
  OBVIOUS
<1>2. offered <=> n > 0
  OBVIOUS
<1>3. QED
  BY <1>1, <1>2, Zenon

LEMMA NextUInv == UInv /\ [WindowNext]_program => UInv'
<1> SUFFICES ASSUME UInv, [WindowNext]_program PROVE UInv'
  OBVIOUS
<1> USE DEF UInv, UndoTypeOK, UndoOffered
<1>0. ASSUME changed, m_undos' \in Nat, m_redos' \in Nat
      PROVE  UndoOffered' /\ m_undo_action' \in BOOLEAN /\ m_redo_action' \in BOOLEAN
  <2>1. m_undo_action' = (m_undos' > 0) /\ m_redo_action' = (m_redos' > 0)
    BY <1>0 DEF changed
  <2>2. m_undo_action' \in BOOLEAN /\ (m_undo_action' <=> m_undos' > 0)
    BY <1>0, <2>1, Offered, Zenon
  <2>3. m_redo_action' \in BOOLEAN /\ (m_redo_action' <=> m_redos' > 0)
    BY <1>0, <2>1, Offered, Zenon
  <2>4. QED
    BY <2>2, <2>3, Zenon
<1>1. CASE begin_undo
  <2>1. m_undos' \in 0..MaxUndo /\ m_redos' \in Nat /\ m_undos' + m_redos' <= MaxUndo
    BY <1>1, WindowAssumption DEF begin_undo
  <2>2. QED
    BY <1>0, <1>1, <2>1 DEF begin_undo
<1>2. CASE undo \/ redo
  <2>1. m_undos' \in 0..MaxUndo /\ m_redos' \in Nat /\ m_undos' + m_redos' <= MaxUndo
    BY <1>2, WindowAssumption DEF undo, redo
  <2>2. QED
    BY <1>0, <1>2, <2>1 DEF undo, redo
<1>3. CASE End
  <2>1. m_undos' = 0 /\ m_redos' = 0 /\ m_undo_action' = FALSE /\ m_redo_action' = FALSE
    BY <1>3 DEF End
  <2>2. m_undos' \in 0..MaxUndo /\ m_redos' \in Nat /\ m_undos' + m_redos' <= MaxUndo
    BY <2>1, WindowAssumption
  <2>3. m_undo_action' \in BOOLEAN /\ m_redo_action' \in BOOLEAN
    BY <2>1, Zenon
  <2>4. UndoOffered'
    BY <2>1
  <2>5. QED
    BY <2>2, <2>3, <2>4
<1>4. CASE UNCHANGED <<undo_history, actions>>
  BY <1>4 DEF undo_history, actions
<1>5. CASE on_action_edit \/ kill \/ destroy_binders
  BY <1>3, <1>5 DEF on_action_edit, kill, destroy_binders
<1>6. CASE main \/ prompt_cancelled \/ close \/ on_action_preferences \/ close_preferences
  BY <1>4, <1>6 DEF main, prompt_cancelled, close, on_action_preferences, close_preferences, Frame
<1>7. CASE \E c \in Moniker : prompt_open_library(c)
  BY <1>4, <1>7 DEF prompt_open_library
<1>8. CASE \E p \in Place : move_window(p) \/ on_changed(p)
  BY <1>4, <1>8 DEF move_window, on_changed
<1>9. CASE \E n \in Node : add_first_item(n) \/ remove_last_item(n) \/ on_row_expanded_collapsed(n)
  BY <1>4, <1>9 DEF add_first_item, remove_last_item, on_row_expanded_collapsed
<1>10. CASE \E k \in Pref : toggle(k) \/ destroy_binder(k)
  BY <1>4, <1>10 DEF toggle, destroy_binder, Frame
<1>11. CASE UNCHANGED program
  BY <1>4, <1>11 DEF program, Frame
<1>12. QED
  BY <1>1, <1>2, <1>5, <1>6, <1>7, <1>8, <1>9, <1>10, <1>11 DEF WindowNext, User, HeaderBar, AppActions

LEMMA WindowIInvHolds == WindowSpec => []WindowIInv
<1>1. WindowInit => WindowIInv
  BY InitKInv, InitUInv DEF WindowIInv
<1>2. WindowIInv /\ [WindowNext]_program => WindowIInv'
  BY NextKInv, NextUInv DEF WindowIInv
<1>3. QED
  BY <1>1, <1>2, PTL DEF WindowSpec
-----------------------------------------------------------------------------
\* The state of the application is what its types say.
THEOREM WindowTypeCorrect == WindowSpec => []WindowTypeOK
<1>1. WindowIInv => WindowTypeOK
  <2> SUFFICES ASSUME WindowIInv PROVE WindowTypeOK
    OBVIOUS
  <2>1. m_undos \in 0..MaxUndo /\ m_redos \in 0..MaxUndo
    BY WindowAssumption DEF WindowIInv, UInv, UndoTypeOK
  <2>2. QED
    BY <2>1 DEF WindowIInv, KInv, UInv, ConfigTypeOK, FlagsTypeOK, LeftTypeOK, UndoTypeOK, WindowTypeOK
<1>2. QED
  BY <1>1, WindowIInvHolds, PTL

\* Undo and redo are offered exactly when there is something to undo, or to
\* redo.
THEOREM WindowUndoOffered == WindowSpec => []UndoOffered
<1>1. WindowIInv => UndoOffered
  BY DEF WindowIInv, UInv
<1>2. QED
  BY <1>1, WindowIInvHolds, PTL

\* What the next start finds, one step of it.
LEMMA KeptStep ==
  ASSUME WindowIInv, WindowNext
  PROVE  /\ phase = "off" /\ phase' # "off" =>
              /\ dark' = wished["ui_dark_theme"]
              /\ write_xmp = wished["write_xmp_automatically"]
              /\ m_libClient' = IF wished["reopen_last_catalog"] THEN chosen ELSE NotKept
              /\ frame' = left.frame
         /\ m_libClient = NotKept /\ m_libClient' # NotKept => splitter' = left.splitter
         /\ \A n \in Node : node_rows[n] = "empty" /\ node_rows'[n] # "empty" =>
              (node_rows'[n] = "expanded") = left.expanded[m_libClient][n]
<1> USE DEF WindowIInv, KInv
<1>1. CASE main
  <2>1. /\ dark' = Wish("ui_dark_theme")
        /\ frame' = getValue("mainWindow-frame", Initial)
        /\ phase = "off" /\ m_libClient = NotKept /\ node_rows' = node_rows
    BY <1>1 DEF main, add_frame, frameRectFromConfig, PhaseInv
  <2>2. \A k \in Pref : Wish(k) = wished[k]
    <3> TAKE k \in Pref
    <3>1. wished[k] \in BOOLEAN /\ (Wish(k) <=> wished[k])
      BY DEF FlagsTypeOK, WishedInv
    <3>2. Wish(k) \in BOOLEAN
      BY Zenon DEF Wish
    <3>3. QED
      BY <3>1, <3>2, Zenon
  <2>3. /\ dark' = wished["ui_dark_theme"]
        /\ write_xmp = wished["write_xmp_automatically"]
        /\ frame' = left.frame
    BY <2>1, <2>2 DEF Pref, write_xmp, LeftInv
  <2>4. \/ /\ Wish("reopen_last_catalog") /\ m_libClient' = config["last_open_catalog"]
           /\ splitter' = getValue("workspace_splitter", Initial)
        \/ /\ ~(Wish("reopen_last_catalog") /\ config["last_open_catalog"] # NotKept)
           /\ m_libClient' = NotKept
    BY <1>1, <2>1 DEF main, add_frame, on_open_library, open_library, bind_splitter
  <2>5. m_libClient' = IF wished["reopen_last_catalog"] THEN chosen ELSE NotKept
    BY <2>4 DEF WishedInv, Pref
  <2>6. m_libClient' # NotKept => splitter' = left.splitter
    BY <2>4 DEF LeftInv
  <2>7. QED
    BY <2>1, <2>3, <2>5, <2>6
<1>2. CASE \E c \in Moniker : prompt_open_library(c)
  <2>1. phase = "prompt" /\ splitter' = getValue("workspace_splitter", Initial) /\ node_rows' = node_rows
    BY <1>2 DEF prompt_open_library, open_library, bind_splitter
  <2>2. QED
    BY <2>1 DEF LeftInv
<1>3. ASSUME NEW m \in Node, add_first_item(m)
      PROVE  (node_rows'[m] = "expanded") = left.expanded[m_libClient][m]
  <2>1. node_rows'[m] = IF expand_from_cfg(m) THEN "expanded" ELSE "collapsed"
    BY <1>3 DEF add_first_item, ConfigTypeOK
  <2>2. m_libClient \in Moniker
    BY <1>3 DEF add_first_item, ConfigTypeOK
  <2>3. node_rows'[m] = "expanded" <=> left.expanded[m_libClient][m]
    BY <2>1, <2>2, WindowAssumption DEF expand_from_cfg, LeftInv, ConfigTypeOK
  <2>4. left.expanded[m_libClient][m] \in BOOLEAN
    BY <2>2 DEF LeftTypeOK
  <2>5. QED
    BY <2>3, <2>4, Zenon
<1>4. CASE \E m \in Node : add_first_item(m) \/ remove_last_item(m) \/ on_row_expanded_collapsed(m)
  <2>1. PICK m \in Node : add_first_item(m) \/ remove_last_item(m) \/ on_row_expanded_collapsed(m)
    BY <1>4
  <2>2. phase' = phase /\ m_libClient' = m_libClient /\ \A n \in Node \ {m} : node_rows'[n] = node_rows[n]
    BY <2>1 DEF add_first_item, remove_last_item, on_row_expanded_collapsed, ConfigTypeOK
  <2>3. node_rows[m] = "empty" /\ node_rows'[m] # "empty" => add_first_item(m)
    BY <2>1 DEF remove_last_item, on_row_expanded_collapsed
  <2>4. QED
    BY <1>3, <2>2, <2>3
<1>5. CASE End
  BY <1>5 DEF End
<1>6. CASE phase # "off" /\ m_libClient' = m_libClient /\ node_rows' = node_rows
  BY <1>6
<1>7. CASE on_action_edit \/ kill \/ destroy_binders
  BY <1>5, <1>7 DEF on_action_edit, kill, destroy_binders
<1>8. CASE prompt_cancelled \/ close \/ on_action_preferences \/ begin_undo \/ HeaderBar
  BY <1>6, <1>8 DEF prompt_cancelled, close, on_action_preferences, begin_undo, HeaderBar, undo, redo, AtEase, LoopRuns, window
<1>9. CASE \E p \in Place : move_window(p) \/ on_changed(p)
  BY <1>6, <1>9 DEF move_window, on_changed, AtEase, LoopRuns
<1>10. CASE close_preferences \/ \E k \in Pref : toggle(k) \/ destroy_binder(k)
  <2>1. phase' = phase /\ m_libClient' = m_libClient /\ node_rows' = node_rows
    BY <1>10 DEF close_preferences, toggle, destroy_binder, window
  <2>2. QED
    BY <2>1
<1>11. QED
  BY <1>1, <1>2, <1>4, <1>7, <1>8, <1>9, <1>10 DEF WindowNext, User, AppActions

\* What an end keeps, the next start finds, whatever prompts were cancelled,
\* dialogs cut short and ends not orderly.
THEOREM WindowKeptForNextStart == WindowSpec => KeptForNextStart
<1>1. WindowIInv /\ [WindowNext]_program =>
        [/\ phase = "off" /\ phase' # "off" =>
              /\ dark' = wished["ui_dark_theme"]
              /\ write_xmp = wished["write_xmp_automatically"]
              /\ m_libClient' = IF wished["reopen_last_catalog"] THEN chosen ELSE NotKept
              /\ frame' = left.frame
         /\ m_libClient = NotKept /\ m_libClient' # NotKept => splitter' = left.splitter
         /\ \A n \in Node : node_rows[n] = "empty" /\ node_rows'[n] # "empty" =>
              (node_rows'[n] = "expanded") = left.expanded[m_libClient][n]]_program
  BY KeptStep
<1>2. QED
  BY <1>1, WindowIInvHolds, PTL DEF WindowSpec, KeptForNextStart
-----------------------------------------------------------------------------
(***************************************************************************)
(* The worker thread and the notifications of its tasks, however many      *)
(* tasks there are and whenever the worker is destroyed.                   *)
(***************************************************************************)

WorkerSpec == WorkerInit /\ [][WorkerNext]_worker

WorkerTypeOK ==
  /\ thread_at \in {"start", "loop", "check", "waiting", "woken", "pop", "execute", "emit", "end",
                    "undefined"}
  /\ m_q_mutex \in {Free, "thread"}
  /\ m_tasks \in Seq(Nat) /\ op \in Nat
  /\ owner \in {"alive", "clearing", "joining", "joined"}
  /\ scheduled \in Nat /\ forgotten \subseteq 1..scheduled
  /\ m_notificationQueue \in Seq(Nat) /\ emitted \in Nat /\ dispatched \in Seq(Nat)

\* The mutex is the thread's exactly while it takes a task; only a
\* destructor can take that task away meanwhile, and nothing comes after it.
MutexInv ==
  /\ m_q_mutex = "thread" <=> thread_at = "pop"
  /\ thread_at = "pop" /\ owner = "alive" => m_tasks # <<>>
  /\ owner # "alive" => m_tasks = <<>>
  /\ thread_at = "undefined" => owner # "alive"
  /\ op # 0 => thread_at \in {"execute", "emit"}
  /\ owner = "joined" => thread_at = "end"

\* One call of the dispatcher for each notification, but for the one that
\* the thread has just added.
CallsInv == Len(m_notificationQueue) = emitted + (IF thread_at = "emit" THEN 1 ELSE 0)

\* The tasks end to end are in order, and are those that were not cleared.
Increasing(s) == \A i, j \in DOMAIN s : i < j => s[i] < s[j]
Elements(s) == {s[i] : i \in DOMAIN s}
TasksInv ==
  /\ Increasing(AllTasks)
  /\ Elements(AllTasks) = (1..scheduled) \ forgotten

WorkerIInv == WorkerTypeOK /\ NoTaskForgotten /\ MutexInv /\ CallsInv /\ TasksInv
-----------------------------------------------------------------------------
(* The queues end to end.                                                  *)

\* From the front of one queue to the hands of the next.
LEMMA FromHead ==
  \A s, t \in Seq(Nat) : t # <<>> => s \o <<>> \o t = s \o <<Head(t)>> \o Tail(t)
  OBVIOUS

\* From the hands to the end of the queue.
LEMMA ToEnd ==
  \A a, b \in Seq(Nat) : \A x \in Nat : a \o b \o <<x>> = a \o Append(b, x)
<1> SUFFICES ASSUME NEW a \in Seq(Nat), NEW b \in Seq(Nat), NEW x \in Nat
             PROVE  a \o b \o <<x>> = a \o Append(b, x)
  OBVIOUS
<1>1. <<x>> \in Seq(Nat) /\ Append(b, x) = b \o <<x>>
  BY AppendIsConcat
<1>2. QED
  BY <1>1, ConcatAssociative

LEMMA EmptyHands == \A s \in Seq(Nat) : s \o <<>> = s
  OBVIOUS

LEMMA AppendLast == \A a, b \in Seq(Nat) : \A x \in Nat : a \o Append(b, x) = Append(a \o b, x)
  OBVIOUS

\* From the front of one queue to the end of the next.
LEMMA FromHeadToEnd ==
  \A a, b \in Seq(Nat) : b # <<>> => a \o b = Append(a, Head(b)) \o Tail(b)
  OBVIOUS

\* A task more at the end.
LEMMA OneMore ==
  \A s \in Seq(Nat), n \in Nat : \A f \in SUBSET (1..n) :
    Increasing(s) /\ Elements(s) = (1..n) \ f =>
      /\ Increasing(Append(s, n + 1))
      /\ Elements(Append(s, n + 1)) = (1..(n + 1)) \ f
<1> SUFFICES ASSUME NEW s \in Seq(Nat), NEW n \in Nat, NEW f \in SUBSET (1..n),
                    Increasing(s), Elements(s) = (1..n) \ f
             PROVE  /\ Increasing(Append(s, n + 1))
                    /\ Elements(Append(s, n + 1)) = (1..(n + 1)) \ f
  OBVIOUS
<1> DEFINE t == Append(s, n + 1)
<1>1. DOMAIN t = 1..(Len(s) + 1) /\ t[Len(s) + 1] = n + 1 /\ \A i \in 1..Len(s) : t[i] = s[i]
  OBVIOUS
<1>2. \A i \in 1..Len(s) : s[i] \in 1..n
  BY DEF Elements
<1>3. Increasing(t)
  <2> SUFFICES ASSUME NEW i \in 1..(Len(s) + 1), NEW j \in 1..(Len(s) + 1), i < j
               PROVE  t[i] < t[j]
    BY <1>1 DEF Increasing
  <2>1. CASE j = Len(s) + 1
    BY <1>1, <1>2, <2>1
  <2>2. CASE j # Len(s) + 1
    BY <1>1, <2>2 DEF Increasing
  <2>3. QED
    BY <2>1, <2>2
<1>4. Elements(t) = Elements(s) \cup {n + 1}
  <2>1. \A x : x \in Elements(t) <=> \E i \in 1..(Len(s) + 1) : x = t[i]
    BY <1>1 DEF Elements
  <2>2. \A x : x \in Elements(s) <=> \E i \in 1..Len(s) : x = s[i]
    BY DEF Elements
  <2>3. \A x : x \in Elements(t) <=> x \in Elements(s) \/ x = n + 1
    BY <1>1, <2>1, <2>2
  <2>4. QED
    BY <2>3
<1>5. QED
  BY <1>3, <1>4

\* The tasks at the end are cleared.
LEMMA Cleared ==
  \A s, t \in Seq(Nat), n \in Nat : \A f \in SUBSET (1..n) :
    Increasing(s \o t) /\ Elements(s \o t) = (1..n) \ f =>
      /\ Increasing(s)
      /\ Elements(s) = (1..n) \ (f \cup Elements(t))
      /\ Elements(t) \subseteq 1..n
<1> SUFFICES ASSUME NEW s \in Seq(Nat), NEW t \in Seq(Nat), NEW n \in Nat, NEW f \in SUBSET (1..n),
                    Increasing(s \o t), Elements(s \o t) = (1..n) \ f
             PROVE  /\ Increasing(s)
                    /\ Elements(s) = (1..n) \ (f \cup Elements(t))
                    /\ Elements(t) \subseteq 1..n
  OBVIOUS
<1> DEFINE u == s \o t
<1>1. /\ DOMAIN u = 1..(Len(s) + Len(t))
      /\ \A i \in 1..Len(s) : u[i] = s[i]
      /\ \A i \in 1..Len(t) : u[Len(s) + i] = t[i]
  OBVIOUS
<1>0. Increasing(u)
  OBVIOUS
<1>2. Increasing(s)
  <2> SUFFICES ASSUME NEW i \in 1..Len(s), NEW j \in 1..Len(s), i < j
               PROVE  s[i] < s[j]
    BY DEF Increasing
  <2>1. i \in DOMAIN u /\ j \in DOMAIN u
    BY <1>1
  <2>2. u[i] < u[j]
    BY <1>0, <2>1 DEF Increasing
  <2>3. QED
    BY <1>1, <2>2
<1>3. \A i \in 1..Len(s), j \in 1..Len(t) : s[i] < t[j]
  <2> TAKE i \in 1..Len(s), j \in 1..Len(t)
  <2>1. i < Len(s) + j /\ i \in DOMAIN u /\ Len(s) + j \in DOMAIN u
    BY <1>1
  <2>2. u[i] < u[Len(s) + j]
    BY <1>0, <2>1 DEF Increasing
  <2>3. QED
    BY <1>1, <2>2
<1>4. \A x : x \in Elements(u) <=> x \in Elements(s) \/ x \in Elements(t)
  <2>1. \A i \in 1..(Len(s) + Len(t)) : i \in 1..Len(s) \/ \E j \in 1..Len(t) : i = Len(s) + j
    <3> TAKE i \in 1..(Len(s) + Len(t))
    <3>1. CASE i > Len(s)
      <4>1. i - Len(s) \in 1..Len(t) /\ i = Len(s) + (i - Len(s))
        BY <3>1
      <4>2. QED
        BY <4>1
    <3>2. QED
      BY <3>1
  <2>2. \A x : x \in Elements(u) <=> \E i \in 1..(Len(s) + Len(t)) : x = u[i]
    BY <1>1 DEF Elements
  <2>3. \A x : /\ x \in Elements(s) <=> \E i \in 1..Len(s) : x = s[i]
               /\ x \in Elements(t) <=> \E j \in 1..Len(t) : x = t[j]
    BY DEF Elements
  <2>4. \A j \in 1..Len(t) : Len(s) + j \in 1..(Len(s) + Len(t))
    OBVIOUS
  <2>5. \A i \in 1..Len(s) : i \in 1..(Len(s) + Len(t))
    OBVIOUS
  <2>6. ASSUME NEW x, x \in Elements(u) PROVE x \in Elements(s) \/ x \in Elements(t)
    <3>1. PICK i \in 1..(Len(s) + Len(t)) : x = u[i]
      BY <2>2, <2>6
    <3>2. CASE i \in 1..Len(s)
      BY <1>1, <2>3, <3>1, <3>2
    <3>3. CASE \E j \in 1..Len(t) : i = Len(s) + j
      BY <1>1, <2>3, <3>1, <3>3
    <3>4. QED
      BY <2>1, <3>2, <3>3
  <2>7. ASSUME NEW x, x \in Elements(s) PROVE x \in Elements(u)
    BY <1>1, <2>2, <2>3, <2>5, <2>7
  <2>8. ASSUME NEW x, x \in Elements(t) PROVE x \in Elements(u)
    <3>1. PICK j \in 1..Len(t) : x = t[j]
      BY <2>3, <2>8
    <3>2. x = u[Len(s) + j] /\ Len(s) + j \in 1..(Len(s) + Len(t))
      BY <1>1, <2>4, <3>1
    <3>3. QED
      BY <2>2, <3>2
  <2>9. QED
    BY <2>6, <2>7, <2>8
<1>5. \A x \in Elements(s) : x \notin Elements(t)
  <2>1. \A i \in 1..Len(s), j \in 1..Len(t) : s[i] # t[j]
    BY <1>3
  <2>2. \A x : /\ x \in Elements(s) => \E i \in 1..Len(s) : x = s[i]
               /\ x \in Elements(t) => \E j \in 1..Len(t) : x = t[j]
    BY DEF Elements
  <2>3. QED
    BY <2>1, <2>2
<1>6. QED
  BY <1>2, <1>4, <1>5
-----------------------------------------------------------------------------
(* The inductive invariant.                                                *)

LEMMA WorkerInitIInv == WorkerInit => WorkerIInv
  BY DEF WorkerInit, WorkerIInv, WorkerTypeOK, NoTaskForgotten, MutexInv, CallsInv, TasksInv, AllTasks,
         Running, Increasing, Elements, Free

LEMMA TypeStep == WorkerIInv /\ [WorkerNext]_worker => WorkerTypeOK'
<1> SUFFICES ASSUME WorkerTypeOK, TasksInv, CallsInv, [WorkerNext]_worker
             PROVE  WorkerTypeOK'
  BY DEF WorkerIInv
<1> USE DEF WorkerTypeOK, Free
<1>1. CASE schedule
  BY <1>1 DEF schedule, wake, enqueue, center
<1>2. forget => forgotten' \subseteq 1..scheduled
  <2> SUFFICES ASSUME forget PROVE Elements(m_tasks) \subseteq 1..scheduled
    BY DEF forget, Elements
  <2> DEFINE s == dispatched \o m_notificationQueue \o Running
  <2>1. s \in Seq(Nat) /\ AllTasks = s \o m_tasks
    BY DEF AllTasks, Running
  <2>2. QED
    BY <2>1, Cleared DEF TasksInv
<1>3. CASE clear
  BY <1>2, <1>3 DEF clear, forget, center
<1>4. CASE destroy
  BY <1>2, <1>4 DEF destroy, forget, center
<1>5. CASE terminate
  BY <1>5 DEF terminate, wake, center
<1>6. CASE join
  BY <1>6 DEF join, center
<1>7. CASE main_begins \/ look \/ check \/ spurious \/ again
  BY <1>7 DEF main_begins, look, check, spurious, again, center, is_empty
<1>8. CASE pop
  <2>1. m_tasks # <<>> => Head(m_tasks) \in Nat /\ Tail(m_tasks) \in Seq(Nat)
    OBVIOUS
  <2>2. QED
    BY <1>8, <2>1 DEF pop, center
<1>9. CASE post_add
  BY <1>9 DEF post_add, enqueue
<1>10. CASE post_emit
  BY <1>10 DEF post_emit
<1>11. CASE dispatch
  BY <1>11 DEF dispatch
<1>12. CASE UNCHANGED worker
  BY <1>12 DEF worker
<1>13. QED
  BY <1>1, <1>3, <1>4, <1>5, <1>6, <1>7, <1>8, <1>9, <1>10, <1>11, <1>12 DEF WorkerNext

LEMMA ControlStep == WorkerIInv /\ [WorkerNext]_worker => (NoTaskForgotten /\ MutexInv /\ CallsInv)'
<1> SUFFICES ASSUME WorkerTypeOK, NoTaskForgotten, MutexInv, CallsInv, [WorkerNext]_worker
             PROVE  (NoTaskForgotten /\ MutexInv /\ CallsInv)'
  BY DEF WorkerIInv
<1> USE DEF WorkerTypeOK, NoTaskForgotten, MutexInv, CallsInv, Free
<1>1. CASE schedule
  BY <1>1 DEF schedule, wake, enqueue, center
<1>2. CASE clear \/ destroy
  BY <1>2 DEF clear, destroy, forget, center
<1>3. CASE terminate \/ join
  BY <1>3 DEF terminate, wake, join, center
<1>4. CASE main_begins \/ look \/ check \/ spurious \/ again
  BY <1>4 DEF main_begins, look, check, spurious, again, center, is_empty
<1>5. CASE pop
  BY <1>5 DEF pop, center
<1>6. CASE post_add
  BY <1>6 DEF post_add, enqueue
<1>7. CASE post_emit
  BY <1>7 DEF post_emit
<1>8. CASE dispatch
  BY <1>8 DEF dispatch
<1>9. CASE UNCHANGED worker
  BY <1>9 DEF worker
<1>10. QED
  BY <1>1, <1>2, <1>3, <1>4, <1>5, <1>6, <1>7, <1>8, <1>9 DEF WorkerNext

LEMMA TasksStep == WorkerIInv /\ [WorkerNext]_worker => TasksInv'
<1> SUFFICES ASSUME WorkerTypeOK, MutexInv, CallsInv, TasksInv, [WorkerNext]_worker
             PROVE  TasksInv'
  BY DEF WorkerIInv
<1> USE DEF WorkerTypeOK
<1> DEFINE before == dispatched \o m_notificationQueue \o Running
<1>0. before \in Seq(Nat) /\ AllTasks = before \o m_tasks
  BY DEF AllTasks, Running
<1>1. CASE schedule
  <2>1. Running' = Running
    BY <1>1 DEF schedule, wake, Running
  <2>2. AllTasks' = before \o Append(m_tasks, scheduled + 1)
    BY <1>1, <2>1 DEF schedule, enqueue, center, AllTasks
  <2>3. AllTasks' = Append(AllTasks, scheduled + 1)
    <3>1. scheduled + 1 \in Nat
      OBVIOUS
    <3> HIDE DEF before
    <3>2. before \o Append(m_tasks, scheduled + 1) = Append(before \o m_tasks, scheduled + 1)
      BY <1>0, <3>1, AppendLast
    <3>3. QED
      BY <1>0, <2>2, <3>2
  <2>4. AllTasks \in Seq(Nat) /\ scheduled' = scheduled + 1 /\ forgotten' = forgotten
    BY <1>0, <1>1 DEF schedule
  <2>5. QED
    BY <2>3, <2>4, OneMore DEF TasksInv
<1>2. CASE clear \/ destroy
  <2>1. Running' = Running /\ UNCHANGED <<dispatched, m_notificationQueue, scheduled>>
    BY <1>2 DEF clear, destroy, center, Running
  <2>2. m_tasks' = <<>> /\ forgotten' = forgotten \cup Elements(m_tasks)
    BY <1>2 DEF clear, destroy, forget, Elements
  <2>3. AllTasks' = before \o <<>>
    BY <2>1, <2>2 DEF AllTasks
  <2>4. AllTasks' = before
    BY <1>0, <2>3
  <2>5. /\ Increasing(before)
        /\ Elements(before) = (1..scheduled) \ (forgotten \cup Elements(m_tasks))
    <3>1. Increasing(before \o m_tasks) /\ Elements(before \o m_tasks) = (1..scheduled) \ forgotten
      BY <1>0 DEF TasksInv
    <3>2. m_tasks \in Seq(Nat) /\ scheduled \in Nat /\ forgotten \in SUBSET (1..scheduled)
      OBVIOUS
    <3> HIDE DEF before, WorkerTypeOK
    <3>3. before \in Seq(Nat)
      BY <1>0
    <3>4. \A n \in Nat : \A f \in SUBSET (1..n) :
            Increasing(before \o m_tasks) /\ Elements(before \o m_tasks) = (1..n) \ f =>
              /\ Increasing(before)
              /\ Elements(before) = (1..n) \ (f \cup Elements(m_tasks))
              /\ Elements(m_tasks) \subseteq 1..n
      BY <3>2, <3>3, Cleared, Zenon
    <3>5. QED
      BY <3>1, <3>2, <3>4, Zenon
  <2>6. QED
    BY <2>1, <2>2, <2>4, <2>5 DEF TasksInv
<1>3. AllTasks' = AllTasks /\ UNCHANGED <<scheduled, forgotten>> => TasksInv'
  BY DEF TasksInv
<1>4. CASE terminate \/ join \/ main_begins \/ look \/ check \/ spurious \/ again \/ post_emit
  <2>1. Running' = Running
    BY <1>4 DEF terminate, wake, join, main_begins, look, check, spurious, again, post_emit, Running
  <2>2. UNCHANGED <<dispatched, m_notificationQueue, m_tasks, scheduled, forgotten>>
    BY <1>4 DEF terminate, join, main_begins, look, check, spurious, again, post_emit, center
  <2>3. QED
    BY <1>3, <2>1, <2>2 DEF AllTasks
<1>5. CASE pop
  <2>1. CASE m_tasks = <<>>
    BY <1>3, <1>5, <2>1 DEF pop, center, Running, AllTasks
  <2>2. CASE m_tasks # <<>>
    <3>1. Running = <<>> /\ Running' = <<Head(m_tasks)>> /\ m_tasks' = Tail(m_tasks)
      BY <1>5, <2>2 DEF pop, Running
    <3>2. dispatched \o m_notificationQueue \in Seq(Nat)
      OBVIOUS
    <3>3. AllTasks' = AllTasks
      BY <1>5, <2>2, <3>1, <3>2, FromHead DEF pop, center, AllTasks
    <3>4. QED
      BY <1>3, <1>5, <3>3 DEF pop
  <2>3. QED
    BY <2>1, <2>2
<1>6. CASE post_add
  <2>1. Running = <<op>> /\ Running' = <<>> /\ m_notificationQueue' = Append(m_notificationQueue, op)
    BY <1>6 DEF post_add, enqueue, Running
  <2>2. UNCHANGED <<dispatched, m_tasks, scheduled, forgotten>> /\ op \in Nat
    BY <1>6 DEF post_add
  <2>3. /\ dispatched \o m_notificationQueue' \in Seq(Nat)
        /\ dispatched \o m_notificationQueue \o <<op>> = dispatched \o m_notificationQueue'
    <3>1. dispatched \o Append(m_notificationQueue, op) \in Seq(Nat)
      BY <2>2
    <3>2. QED
      BY <2>1, <2>2, <3>1, ToEnd
  <2>4. AllTasks' = dispatched \o m_notificationQueue' \o m_tasks
    BY <2>1, <2>2, <2>3, EmptyHands DEF AllTasks
  <2>5. AllTasks = dispatched \o m_notificationQueue' \o m_tasks
    BY <2>1, <2>3 DEF AllTasks
  <2>6. QED
    BY <1>3, <2>2, <2>4, <2>5
<1>7. CASE dispatch
  <2>1. Running' = Running /\ Running \o m_tasks \in Seq(Nat)
    BY <1>7 DEF dispatch, Running
  <2>2. AllTasks' = AllTasks
    BY <1>7, <2>1, FromHeadToEnd DEF dispatch, AllTasks, Running
  <2>3. QED
    BY <1>3, <1>7, <2>2 DEF dispatch
<1>8. CASE UNCHANGED worker
  BY <1>3, <1>8 DEF worker, AllTasks, Running
<1>9. QED
  BY <1>1, <1>2, <1>4, <1>5, <1>6, <1>7, <1>8 DEF WorkerNext

LEMMA WorkerIInvHolds == WorkerSpec => []WorkerIInv
<1>1. WorkerIInv /\ [WorkerNext]_worker => WorkerIInv'
  BY TypeStep, ControlStep, TasksStep DEF WorkerIInv
<1>2. QED
  BY <1>1, WorkerInitIInv, PTL DEF WorkerSpec
-----------------------------------------------------------------------------
\* A thread that waits has nothing to do, whatever is scheduled, cleared or
\* destroyed while it runs a task or goes to wait.
THEOREM WorkerNoTaskForgotten == WorkerSpec => []NoTaskForgotten
<1>1. WorkerIInv => NoTaskForgotten
  BY DEF WorkerIInv
<1>2. QED
  BY <1>1, WorkerIInvHolds, PTL

\* The subscribers are given one notification for each task that was not
\* cleared, in the order the tasks were scheduled, and no call of the
\* dispatcher finds the queue empty.
THEOREM WorkerPostedIsDispatched == WorkerSpec => []PostedIsDispatched
<1>1. WorkerIInv => PostedIsDispatched
  BY DEF WorkerIInv, WorkerTypeOK, CallsInv, TasksInv, Increasing, Elements, PostedIsDispatched
<1>2. QED
  BY <1>1, WorkerIInvHolds, PTL

\* A worker that is alive takes no task from an empty queue, and one that is
\* joined leaves none behind.
THEOREM WorkerEndsCleanHolds == WorkerSpec => []WorkerEndsClean
<1>1. WorkerIInv => WorkerEndsClean
  BY DEF WorkerIInv, WorkerTypeOK, MutexInv, WorkerEndsClean
<1>2. QED
  BY <1>1, WorkerIInvHolds, PTL
=============================================================================
