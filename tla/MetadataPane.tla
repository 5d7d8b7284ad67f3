---------------------------- MODULE MetadataPane ----------------------------
(***************************************************************************)
(* The metadata pane: a widget for each property of the file displayed.    *)
(* What the library has of the file comes as a bag of properties, which    *)
(* fills the widgets; a widget that can be edited sets the property of the *)
(* file selected, in the library, whenever it loses the focus, whether or  *)
(* not anything was typed.  The library answers later, through a queue of  *)
(* operations and a channel of notifications.                              *)
(*                                                                         *)
(* A text is the sequence of the words between its commas, so that a list  *)
(* of keywords shown in one text view and split again can come back as     *)
(* another list.  Undo is in Niepce, the queue itself in ClientImpl.       *)
(***************************************************************************)
EXTENDS Naturals, Sequences, SequencesExt

CONSTANTS File,         \* ids of the files in the list
          Prop,         \* the properties watched
          Word,         \* what is between commas
          None,         \* no value, no file, no widget, no bag
          Known,        \* the metadata that files can have at first
          MaxWords, MaxStarRating, MaxPending     \* bounds

\* One property of each kind of widget.
Format ==
  [headline |-> [type |-> "STRING",       readonly |-> FALSE],
   caption  |-> [type |-> "TEXT",         readonly |-> FALSE],
   rating   |-> [type |-> "STAR_RATING",  readonly |-> FALSE],
   keywords |-> [type |-> "STRING_ARRAY", readonly |-> FALSE],
   make     |-> [type |-> "STRING",       readonly |-> TRUE],
   speed    |-> [type |-> "FRAC",         readonly |-> TRUE],
   aperture |-> [type |-> "FRAC_DEC",     readonly |-> TRUE]]

Text == BoundedSeq(Word, MaxWords)
StarRating == 0..MaxStarRating

Kind(p) == Format[p].type

\* A widget with a focus-out handler, and one with stars to click on.
Enterable == {p \in Prop : ~Format[p].readonly /\ Kind(p) # "STAR_RATING"}
Starred == {p \in Prop : ~Format[p].readonly /\ Kind(p) = "STAR_RATING"}

\* A fraction is the pair of its numerator and denominator, as is what is
\* shown of it.
Fraction == Nat \X Nat

Values(p) == CASE Kind(p) = "STAR_RATING" -> StarRating
               [] Kind(p) = "STRING_ARRAY" -> Seq(Seq(Word))
               [] Kind(p) \in {"FRAC", "FRAC_DEC"} -> Fraction
               [] OTHER -> Seq(Word) \ {<<>>}

\* What the library has of a file: a value, or none, for each property.
IsBag(b) == /\ b = [p \in Prop |-> b[p]]
            /\ \A p \in Prop : b[p] \in Values(p) \cup {None}

ASSUME PaneAssumption ==
  /\ Prop \subseteq DOMAIN Format
  /\ None \notin File
  /\ \A b \in Known : IsBag(b)
  /\ MaxWords \in Nat

VARIABLES library,       \* file -> property -> value: the metadata in the database
          ops,           \* queued operations
          notifs,        \* notifications on their way
          selection,     \* the file selected in the list
          m_fileid,      \* the file displayed
          m_current_data,    \* its bag of properties
          m_data_map,    \* property -> what its widget shows
          focus,         \* the widget that has the keyboard focus
          typed,         \* something was typed there since it was filled or entered
          astray         \* history: the widgets hold an edit made to another file

channels == <<ops, notifs>>
pane == <<m_fileid, m_current_data, m_data_map>>
pane_vars == <<library, channels, selection, pane, focus, typed, astray>>

-----------------------------------------------------------------------------
(* From a value to its widget and back.                                    *)

\* A widget that clear_widget() has emptied.
Cleared(p) == IF Kind(p) = "STAR_RATING" THEN 0 ELSE <<>>

\* TokenTextView::set_tokens and get_tokens.  An empty text is one token.
set_tokens(tokens) == FlattenSeq(tokens)
get_tokens(text) == IF text = <<>> THEN <<<<>>>> ELSE [i \in DOMAIN text |-> <<text[i]>>]

\* A fraction in its lowest terms; one that is none leaves the widget cleared.
set_fraction_data(v) ==
  LET g == Max({k \in 1..v[2] : v[1] % k = 0 /\ v[2] % k = 0} \cup {1})
  IN  IF v[2] = 0 THEN <<>> ELSE <<v[1] \div g, v[2] \div g>>

\* The tenths of a fraction, rounded; one that is none is shown as "nan".
set_fraction_dec_data(v) ==
  IF v[2] = 0 THEN <<0, 0>> ELSE <<(20 * v[1] + v[2]) \div (2 * v[2]), 10>>

\* Mutant: the view is filled with the first keyword alone.
add_data_first(p, v) ==
  CASE Kind(p) = "FRAC" -> set_fraction_data(v)
    [] Kind(p) = "FRAC_DEC" -> set_fraction_dec_data(v)
    [] Kind(p) = "STRING_ARRAY" -> IF v = <<>> THEN <<>> ELSE v[1]
    [] OTHER -> v

add_data(p, v) ==
  CASE Kind(p) = "FRAC" -> set_fraction_data(v)
    [] Kind(p) = "FRAC_DEC" -> set_fraction_dec_data(v)
    [] Kind(p) = "STRING_ARRAY" -> set_tokens(v)
    [] OTHER -> v

\* What a widget shows for a value that get_value_for_property() gave; one
\* without a value stays cleared.
Shown(p, v) == IF v = None THEN Cleared(p) ELSE add_data(p, v)

\* The value that a widget hands over.
Entered(p, content) == IF Kind(p) = "STRING_ARRAY" THEN get_tokens(content) ELSE content

\* Setting an empty text deletes the property.
Stored(p, v) == IF Kind(p) \in {"STRING", "TEXT"} /\ v = <<>> THEN None ELSE v

PaneInit ==
  /\ library \in [File -> Known]
  /\ ops = <<>> /\ notifs = <<>>
  /\ selection = None
  /\ m_fileid = None /\ m_current_data = None /\ m_data_map = [p \in Prop |-> Cleared(p)]
  /\ focus = None /\ typed = FALSE /\ astray = FALSE
-----------------------------------------------------------------------------
(* The pane.                                                               *)

\* Every widget is cleared, then those in the bag are filled.
set_data_source(bag) ==
  /\ m_current_data' = bag
  /\ m_data_map' = [p \in Prop |-> Shown(p, bag[p])]

display(f, bag) ==
  /\ m_fileid' = f
  /\ set_data_source(bag)
  /\ typed' = FALSE /\ astray' = FALSE

\* SelectionController::_set_metadata, up to the operation.
set_metadata(f, p, v) ==
  ops' = Append(ops, [op |-> "set_metadata", file |-> f, prop |-> p, value |-> v])

\* The property is set for the file that is selected.
set_properties(p, v) == set_metadata(selection, p, v)

emit_metadata_changed(p, v) ==
  /\ set_properties(p, v)
  /\ astray' = (astray \/ selection # m_fileid)

\* The pane of no file.
display_none ==
  /\ m_fileid' = None /\ m_current_data' = None /\ m_data_map' = [p \in Prop |-> Cleared(p)]
  /\ selection' = None /\ typed' = FALSE /\ astray' = FALSE

Restart == ops' = <<>> /\ notifs' = <<>> /\ focus' = None /\ display_none

\* The pane is told that nothing is selected.  The toolkit takes the focus
\* away from a widget that is made insensitive; without a bag, on_focus_out()
\* then follows a null pointer, and the program ends and is started again.
deselect ==
  \/ focus # None /\ Restart
  \/ focus = None /\ display_none /\ UNCHANGED <<channels, focus>>
-----------------------------------------------------------------------------
(* The user.                                                               *)

UserActs == Len(ops) + Len(notifs) < MaxPending

\* An image is selected, by a shortcut or, after the focus has moved, a click.
select_image(f) ==
  /\ UserActs
  /\ f # selection
  /\ selection' = f
  /\ ops' = Append(ops, [op |-> "request_metadata", file |-> f])
  /\ UNCHANGED <<library, notifs, pane, focus, typed, astray>>

\* The list is emptied for another folder.
content_will_change ==
  /\ selection # None
  /\ deselect
  /\ UNCHANGED library

focus_in(p) ==
  /\ m_current_data # None /\ focus = None
  /\ focus' = p /\ typed' = FALSE
  /\ UNCHANGED <<library, channels, selection, pane, astray>>

type_in(text) ==
  /\ focus # None
  /\ m_data_map' = [m_data_map EXCEPT ![focus] = text]
  /\ typed' = TRUE
  /\ UNCHANGED <<library, channels, selection, m_fileid, m_current_data, focus, astray>>

\* The focus goes to another widget, another window (and then comes back) or
\* elsewhere.
on_focus_out(p) ==
  /\ UserActs
  /\ focus # None
  /\ emit_metadata_changed(focus, Entered(focus, m_data_map[focus]))
  /\ focus' = p /\ typed' = FALSE
  /\ UNCHANGED <<library, notifs, selection, pane>>

\* The stars are clicked on.
on_int_changed(p, r) ==
  /\ UserActs
  /\ m_current_data # None
  /\ m_data_map[p] # r
  /\ m_data_map' = [m_data_map EXCEPT ![p] = r]
  /\ emit_metadata_changed(p, r)
  /\ UNCHANGED <<library, notifs, selection, m_fileid, m_current_data, focus, typed>>
-----------------------------------------------------------------------------
(* The library and its notifications.                                      *)

Execute(name) == ops # <<>> /\ Head(ops).op = name /\ ops' = Tail(ops)

cmd_request_metadata ==
  /\ Execute("request_metadata")
  /\ notifs' = Append(notifs, [n |-> "MetadataQueried", file |-> Head(ops).file,
                               bag |-> library[Head(ops).file]])
  /\ UNCHANGED <<library, selection, pane, focus, typed, astray>>

cmd_set_metadata ==
  /\ Execute("set_metadata")
  /\ LET o == Head(ops)
     IN  IF o.file = None THEN UNCHANGED <<library, notifs>>
         ELSE /\ library' = [library EXCEPT ![o.file][o.prop] = Stored(o.prop, o.value)]
              /\ notifs' = Append(notifs, [n |-> "MetadataChanged", file |-> o.file])
  /\ UNCHANGED <<selection, pane, focus, typed, astray>>

Deliver(name) == notifs # <<>> /\ Head(notifs).n = name /\ notifs' = Tail(notifs)

on_metadata_queried ==
  /\ Deliver("MetadataQueried")
  /\ display(Head(notifs).file, Head(notifs).bag)
  /\ UNCHANGED <<library, ops, selection, focus>>

\* Mutant: the pane believes its widgets.
on_metadata_changed_trust ==
  /\ Deliver("MetadataChanged")
  /\ UNCHANGED <<library, ops, selection, pane, focus, typed, astray>>

on_metadata_changed ==
  /\ Deliver("MetadataChanged")
  /\ ops' = IF Head(notifs).file = m_fileid
            THEN Append(ops, [op |-> "request_metadata", file |-> m_fileid]) ELSE ops
  /\ UNCHANGED <<library, selection, pane, focus, typed, astray>>

PaneNext ==
  \/ \E f \in File : select_image(f)
  \/ content_will_change
  \/ \E p \in Enterable : focus_in(p)
  \/ \E t \in Text : type_in(t)
  \/ \E p \in Enterable \cup {None} : on_focus_out(p)
  \/ \E p \in Starred, r \in StarRating : on_int_changed(p, r)
  \/ cmd_request_metadata \/ cmd_set_metadata
  \/ on_metadata_queried \/ on_metadata_changed

PaneSpec == PaneInit /\ [][PaneNext]_pane_vars
-----------------------------------------------------------------------------
Quiet == ops = <<>> /\ notifs = <<>>

\* Once the library has answered everything, each widget shows what the
\* library has of the file displayed, whatever was typed, displayed before
\* or answered out of turn meanwhile.  Left out are the widget being typed
\* in, and edits made while another file was already selected: they went
\* there.
PaneShowsLibrary == Quiet /\ m_fileid # None /\ ~astray =>
  \A p \in Prop : p # focus \/ ~typed => m_data_map[p] = Shown(p, library[m_fileid][p])

\* A list of keywords that survives being shown: there are some, and none
\* has a comma.
Splits(p, v) ==
  Kind(p) = "STRING_ARRAY" => v \notin {None, <<>>} /\ \A i \in DOMAIN v : Len(v[i]) = 1

\* A widget entered and left without typing sets its property, but to the
\* value that the library already has.  (Lists of keywords that are empty,
\* or in which one has a comma, do become other lists.)
LookingChangesNothing ==
  Quiet /\ focus # None /\ ~typed /\ ~astray /\ Splits(focus, library[m_fileid][focus]) =>
    Stored(focus, Entered(focus, m_data_map[focus])) = library[m_fileid][focus]
=============================================================================
