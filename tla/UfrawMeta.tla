----------------------------- MODULE UfrawMeta -----------------------------
(***************************************************************************)
(* Reading the settings of UFRaw, an XML file beside a picture, into XMP:  *)
(* a pull reader gives the nodes of the file one by one, and the handler   *)
(* of an element takes the next node itself to have its text.  An element  *)
(* that is empty has no text to take, and what is taken instead is the     *)
(* blank before the next element, if the file is laid out in lines, or the *)
(* next element.  (The file is not in the makefile; its test is.)          *)
(*                                                                         *)
(* A value is well formed or not, which stands for the tables of names and *)
(* the conversion of numbers.                                              *)
(***************************************************************************)
EXTENDS Naturals, Sequences, SequencesExt

CONSTANT MaxElements    \* bound on the elements of the file

ASSUME UfrawMetaAssumption == MaxElements \in Nat

\* s_elements, but for the root; "other" is an element without a handler.
\* InputFilename and OutputPath are treated as OutputFilename is.
Text == {"OutputFilename"}
Setting == {"WB", "Temperature", "Exposure"}
Tags == Text \cup Setting \cup {"Crop", "other"}
Taken == Tags \ {"other"}

\* An element of the file: its text, or "empty"; within the root or deeper.
XmlElement == {e \in [tag : Tags, text : {"good", "bad", "empty"}, nested : BOOLEAN] :
                 e.tag = "other" => e.text = "good" /\ ~e.nested}

\* The nodes of an element, in a file laid out in lines or not.
Nodes(e, lines) ==
  <<[node |-> "element", tag |-> e.tag, deep |-> e.nested, value |-> "empty"]>>
  \o (IF e.text = "empty" THEN <<>>
      ELSE <<[node |-> "text", tag |-> e.tag, deep |-> TRUE, value |-> e.text],
             [node |-> "end", tag |-> e.tag, deep |-> e.nested, value |-> "empty"]>>)
  \o (IF lines THEN <<[node |-> "blank", tag |-> e.tag, deep |-> TRUE, value |-> "bad"]>> ELSE <<>>)

VARIABLES xml,          \* the elements of the file
          in_lines,     \* it is laid out in lines
          version,      \* "7", another, or no attribute
          reader,       \* the nodes the reader has not given
          parsing,      \* "root", "reading", "stopped" by another version, or "ended"
          m_settings,   \* tag -> what was read of it, or "none"
          m_hasSettings

ufraw == <<xml, in_lines, version, reader, parsing, m_settings, m_hasSettings>>

\* Any file of up to MaxElements elements in the root.
UfrawInit ==
  /\ \E n \in 0..MaxElements : xml \in [1..n -> XmlElement]
  /\ in_lines \in BOOLEAN
  /\ version \in {"7", "5", "none"}
  /\ reader = FlattenSeq([i \in DOMAIN xml |-> Nodes(xml[i], in_lines)])
  /\ parsing = "root"
  /\ m_settings = [t \in Taken |-> "none"] /\ m_hasSettings = FALSE

\* The root sets the depth at which elements count; another version ends it.
read_root ==
  /\ parsing = "root"
  /\ parsing' = IF version = "5" THEN "stopped" ELSE "reading"
  /\ UNCHANGED <<xml, in_lines, version, reader, m_settings, m_hasSettings>>

\* Mutant: the text is that of the next node but one.
getPropContent_skip == IF Len(reader) > 2 THEN reader[3].value ELSE "empty"

\* The value of the next node, which the reader has then given.
getPropContent == IF Len(reader) > 1 THEN reader[2].value ELSE "empty"

\* What a value of the tag becomes: a name or number that is not well
\* formed sets nothing, the names of files are what they are.
Keeps(tag, value) == tag \in Text \/ value = "good"

\* ufraw_process_xml_node, for an element of the root that is known.
process_setting ==
  /\ parsing = "reading" /\ reader # <<>>
  /\ LET n == Head(reader)
     IN  /\ n.node = "element" /\ ~n.deep /\ n.tag \in Taken
         /\ m_settings' = IF Keeps(n.tag, getPropContent) THEN [m_settings EXCEPT ![n.tag] = getPropContent]
                          ELSE m_settings
         /\ m_hasSettings' = (m_hasSettings \/ (n.tag \in Setting /\ getPropContent = "good"))
  /\ reader' = IF Len(reader) > 1 THEN Tail(Tail(reader)) ELSE <<>>
  /\ UNCHANGED <<xml, in_lines, version, parsing>>

\* Any other node.
process_other ==
  /\ parsing = "reading" /\ reader # <<>>
  /\ LET n == Head(reader) IN n.node # "element" \/ n.deep \/ n.tag \notin Taken
  /\ reader' = Tail(reader)
  /\ UNCHANGED <<xml, in_lines, version, parsing, m_settings, m_hasSettings>>

ufraw_to_xmp_ends ==
  /\ parsing = "reading" /\ reader = <<>>
  /\ parsing' = "ended"
  /\ UNCHANGED <<xml, in_lines, version, reader, m_settings, m_hasSettings>>

UfrawNext == read_root \/ process_setting \/ process_other \/ ufraw_to_xmp_ends

UfrawSpec == UfrawInit /\ [][UfrawNext]_ufraw
-----------------------------------------------------------------------------
\* Of a file that is laid out in lines, or has no empty element, the last
\* well formed value of each element of the root is what is set, whatever
\* the order of the elements and whatever is nested in them; an empty
\* element counts as one without text.  Of another version nothing is set.
LastValueIsSet ==
  LET LastOf(t) == SelectLastInSeq(xml, LAMBDA e : e.tag = t /\ ~e.nested /\ Keeps(t, e.text))
      Seen(e) == IF e.text = "empty" /\ in_lines THEN "bad" ELSE e.text
  IN  /\ parsing = "ended" /\ (in_lines \/ \A i \in DOMAIN xml : xml[i].text # "empty") =>
           \A t \in Taken : m_settings[t] = IF LastOf(t) = 0 THEN "none" ELSE Seen(xml[LastOf(t)])
      /\ parsing = "ended" => m_hasSettings = (\E t \in Setting : m_settings[t] # "none")
      /\ parsing = "stopped" => ~m_hasSettings
=============================================================================
