------------------------------- MODULE Window -------------------------------
(***************************************************************************)
(* The application around the catalog: what it keeps in its configuration  *)
(* and in that of the catalog, and when.  A preference is kept when the    *)
(* dialog is closed (the theme when it is switched), the catalog chosen at *)
(* once, the layout when the window goes, and the program may be killed    *)
(* between any two of these.  Configuration::setValue() writes the file    *)
(* each time, so one variable is both the values and the file.  (The file  *)
(* is replaced as a whole; a save that fails throws where nothing catches, *)
(* and the program ends as if killed before it.)                           *)
(*                                                                         *)
(* Everything runs on the main loop; the dialogs are modal.  What goes on  *)
(* in a catalog once it is open is in Catalog and Niepce.                  *)
(***************************************************************************)
EXTENDS Naturals

CONSTANTS Moniker,      \* the catalogs that can be chosen
          Place,        \* the positions of the window and of its splitter
          Initial,      \* the position of both without a configuration
          Node,         \* the nodes of the workspace tree whose state is kept
          NotKept,
          MaxUndo       \* bound: transactions in the undo history

ASSUME WindowAssumption ==
  Initial \in Place /\ NotKept \notin Moniker \cup Place \cup {"0", "1"} /\ MaxUndo \in Nat

VARIABLES config,       \* the application's configuration: key -> value, or NotKept
          library_cfg,  \* the configuration of each catalog
          phase,        \* "off", "prompt", "up" or "closing"
          dark,         \* the theme in use is the dark one
          m_libClient,  \* NiepceWindow: the catalog that is open, or NotKept
          frame,        \* the place of the window
          splitter,     \* the place of the splitter
          m_value,      \* ConfigDataBinder: the place of the splitter to be kept
          dialog,       \* PreferencesDialog: what the boxes show, or NotKept
          pool,         \* DataBinderPool of the hidden dialog: binders not yet destroyed
          node_rows,         \* the nodes of the tree: "empty", "collapsed" or "expanded"
          m_undos, m_redos,             \* UndoHistory: how many transactions
          m_undo_action, m_redo_action, \* Frame: the actions that are enabled
          wished,       \* history: the preferences as the user left them
          chosen,       \* history: the catalog chosen last
          left          \* history: the layout as the user left it

settings == <<config, library_cfg>>
window == <<m_libClient, splitter, m_value, node_rows>>
undo_history == <<m_undos, m_redos>>
actions == <<m_undo_action, m_redo_action>>
Frame == <<frame, actions>>
history == <<wished, chosen, left>>
preferences == <<dialog, pool>>
program == <<settings, phase, dark, window, Frame, preferences, undo_history, history>>

Pref == {"ui_dark_theme", "reopen_last_catalog", "write_xmp_automatically"}
Bound == Pref \ {"ui_dark_theme"}   \* those that a ConfigDataBinder keeps
Key == Pref \cup {"last_open_catalog", "mainWindow-frame", "workspace_splitter"}

getValue(key, def) == IF config[key] = NotKept THEN def ELSE config[key]

\* std::stoi of the value; "0" without one.
Wish(key) == getValue(key, "0") = "1"
to_string(b) == IF b THEN "1" ELSE "0"

\* What ImageListStore does about an XMP file that is out of date.
write_xmp == Wish("write_xmp_automatically")

WindowTypeOK ==
  /\ config \in [Key -> {NotKept, "0", "1"} \cup Moniker \cup Place]
  /\ library_cfg \in [Moniker -> [Node -> {NotKept, "0", "1"}]]
  /\ phase \in {"off", "prompt", "up", "closing"}
  /\ dark \in BOOLEAN
  /\ m_libClient \in Moniker \cup {NotKept}
  /\ {frame, splitter, m_value} \subseteq Place
  /\ dialog \in [Pref -> BOOLEAN] \cup {NotKept} /\ pool \subseteq Bound
  /\ node_rows \in [Node -> {"empty", "collapsed", "expanded"}]
  /\ m_undos \in 0..MaxUndo /\ m_redos \in 0..MaxUndo
  /\ m_undo_action \in BOOLEAN /\ m_redo_action \in BOOLEAN
  /\ wished \in [Pref -> BOOLEAN] /\ chosen \in Moniker \cup {NotKept}
  /\ left \in [frame : Place, splitter : Place, expanded : [Moniker -> [Node -> BOOLEAN]]]

Gone ==
  /\ phase = "off" /\ dark = FALSE
  /\ m_libClient = NotKept /\ frame = Initial /\ splitter = Initial /\ m_value = Initial
  /\ node_rows = [n \in Node |-> "empty"]
  /\ dialog = NotKept /\ pool = {}
  /\ m_undos = 0 /\ m_redos = 0 /\ m_undo_action = FALSE /\ m_redo_action = FALSE

WindowInit ==
  /\ config = [k \in Key |-> NotKept]
  /\ library_cfg = [c \in Moniker |-> [n \in Node |-> NotKept]]
  /\ Gone
  /\ wished = [k \in Pref |-> FALSE]
  /\ chosen = NotKept
  /\ left = [frame |-> Initial, splitter |-> Initial,
             expanded |-> [c \in Moniker |-> [n \in Node |-> TRUE]]]

End ==
  /\ phase' = "off" /\ dark' = FALSE
  /\ m_libClient' = NotKept /\ frame' = Initial /\ splitter' = Initial /\ m_value' = Initial
  /\ node_rows' = [n \in Node |-> "empty"]
  /\ dialog' = NotKept /\ pool' = {}
  /\ m_undos' = 0 /\ m_redos' = 0 /\ m_undo_action' = FALSE /\ m_redo_action' = FALSE
-----------------------------------------------------------------------------
(* Start.                                                                  *)

\* A ConfigDataBinder is made: the property gets the value that was kept.
bind_splitter ==
  /\ splitter' = getValue("workspace_splitter", Initial)
  /\ m_value' = splitter'

\* The catalog is opened, whether it can be or not, and the shell is built.
open_library(c) ==
  /\ phase' = "up"
  /\ m_libClient' = c
  /\ bind_splitter

on_open_library ==
  IF Wish("reopen_last_catalog") /\ config["last_open_catalog"] # NotKept
  THEN open_library(config["last_open_catalog"])
  ELSE phase' = "prompt" /\ UNCHANGED <<m_libClient, splitter, m_value>>

frameRectFromConfig == frame' = getValue("mainWindow-frame", Initial)

\* The main frame is added to the application, which builds its widget,
\* which opens the catalog.
add_frame == frameRectFromConfig /\ on_open_library

main ==
  /\ phase = "off"
  /\ dark' = Wish("ui_dark_theme")
  /\ add_frame
  /\ UNCHANGED <<settings, node_rows, preferences, undo_history, actions, history>>

prompt_open_library(c) ==
  /\ phase = "prompt"
  /\ config' = [config EXCEPT !["last_open_catalog"] = c]
  /\ chosen' = c
  /\ open_library(c)
  /\ UNCHANGED <<library_cfg, dark, frame, node_rows, preferences, undo_history, actions, wished, left>>

\* The prompt is cancelled: a window without a catalog.
prompt_cancelled ==
  /\ phase = "prompt"
  /\ phase' = "up"
  /\ UNCHANGED <<settings, dark, window, Frame, preferences, undo_history, history>>
-----------------------------------------------------------------------------
(* The user at work.                                                       *)

\* The main loop runs, and no dialog is in the way.
LoopRuns == phase = "up" /\ pool = {}
AtEase == LoopRuns /\ dialog = NotKept

move_window(p) ==
  /\ AtEase
  /\ frame' = p
  /\ UNCHANGED <<settings, phase, dark, m_libClient, splitter, m_value, node_rows, preferences,
                 undo_history, actions, history>>

\* Mutant: the binder keeps the value that it has read.
on_changed_never(p) ==
  /\ AtEase /\ m_libClient # NotKept
  /\ splitter' = p
  /\ UNCHANGED <<settings, phase, dark, m_libClient, frame, m_value, node_rows, preferences,
                 undo_history, actions, history>>

\* The binder follows the property.
on_changed(p) ==
  /\ AtEase /\ m_libClient # NotKept
  /\ splitter' = p /\ m_value' = p
  /\ UNCHANGED <<settings, phase, dark, m_libClient, frame, node_rows, preferences,
                 undo_history, actions, history>>

expand_from_cfg(n) == library_cfg[m_libClient][n] \in {NotKept, "1"}

\* The first child of a node comes: GTK does not expand what is empty, so
\* it is expanded now, which is told, and kept, like an expansion by hand.
add_first_item(n) ==
  /\ LoopRuns /\ m_libClient # NotKept /\ node_rows[n] = "empty"
  /\ LET expanded == expand_from_cfg(n)
     IN  /\ node_rows' = [node_rows EXCEPT ![n] = IF expanded THEN "expanded" ELSE "collapsed"]
         /\ library_cfg' = IF expanded THEN [library_cfg EXCEPT ![m_libClient][n] = "1"]
                           ELSE library_cfg
  /\ UNCHANGED <<config, phase, dark, m_libClient, frame, splitter, m_value, preferences,
                 undo_history, actions, history>>

\* The last child goes, and nothing is told.
remove_last_item(n) ==
  /\ LoopRuns /\ node_rows[n] # "empty"
  /\ node_rows' = [node_rows EXCEPT ![n] = "empty"]
  /\ UNCHANGED <<settings, phase, dark, m_libClient, frame, splitter, m_value, preferences,
                 undo_history, actions, history>>

on_row_expanded_collapsed(n) ==
  /\ AtEase /\ node_rows[n] # "empty"
  /\ LET expanded == node_rows[n] = "collapsed"
     IN  /\ node_rows' = [node_rows EXCEPT ![n] = IF expanded THEN "expanded" ELSE "collapsed"]
         /\ library_cfg' = [library_cfg EXCEPT ![m_libClient][n] = to_string(expanded)]
         /\ left' = [left EXCEPT !.expanded[m_libClient][n] = expanded]
  /\ UNCHANGED <<config, phase, dark, m_libClient, frame, splitter, m_value, preferences,
                 undo_history, actions, wished, chosen>>

\* Commands on a window without a catalog use what is not there.
on_action_edit ==
  /\ AtEase /\ m_libClient = NotKept
  /\ End
  /\ UNCHANGED <<settings, history>>
-----------------------------------------------------------------------------
(* The preferences.                                                        *)

\* A box without a value that was kept is not ticked.
setup_widget == [k \in Pref |-> Wish(k)]

on_action_preferences ==
  /\ AtEase
  /\ dialog' = setup_widget
  /\ UNCHANGED <<settings, phase, dark, window, Frame, pool, undo_history, history>>

set_use_dark_theme(value) ==
  /\ config' = [config EXCEPT !["ui_dark_theme"] = to_string(value)]
  /\ wished' = [wished EXCEPT !["ui_dark_theme"] = value]

\* The theme is kept at once.
toggle(k) ==
  /\ dialog # NotKept /\ pool = {}
  /\ dialog' = [dialog EXCEPT ![k] = ~@]
  /\ IF k = "ui_dark_theme" THEN set_use_dark_theme(dialog'[k]) ELSE UNCHANGED <<config, wished>>
  /\ UNCHANGED <<library_cfg, phase, dark, window, Frame, pool, undo_history, chosen, left>>

\* The dialog is hidden, at which its pool of binders is destroyed.
close_preferences ==
  /\ dialog # NotKept /\ pool = {}
  /\ pool' = Bound
  /\ UNCHANGED <<settings, phase, dark, window, Frame, dialog, undo_history, history>>

\* One binder after the other, in the order in which they were added, keeps
\* its value, changed or not.
destroy_binder(k) ==
  /\ k \in pool /\ (k = "write_xmp_automatically" => "reopen_last_catalog" \notin pool)
  /\ config' = [config EXCEPT ![k] = to_string(dialog[k])]
  /\ wished' = [wished EXCEPT ![k] = dialog[k]]
  /\ pool' = pool \ {k}
  /\ dialog' = IF pool' = {} THEN NotKept ELSE dialog
  /\ UNCHANGED <<library_cfg, phase, dark, window, Frame, undo_history, chosen, left>>
-----------------------------------------------------------------------------
(* The undo history and its actions.                                       *)

\* signal_changed: Frame::undo_state and redo_state.
changed ==
  /\ m_undo_action' = (m_undos' > 0)
  /\ m_redo_action' = (m_redos' > 0)

\* The transaction is in the history before it has a command.
begin_undo ==
  /\ AtEase /\ m_libClient # NotKept /\ m_undos < MaxUndo
  /\ m_undos' = m_undos + 1 /\ m_redos' = 0
  /\ changed
  /\ UNCHANGED <<settings, phase, dark, window, frame, preferences, history>>

undo ==
  /\ AtEase /\ m_undo_action /\ m_undos > 0
  /\ m_undos' = m_undos - 1 /\ m_redos' = m_redos + 1
  /\ changed
  /\ UNCHANGED <<settings, phase, dark, window, frame, preferences, history>>

redo ==
  /\ AtEase /\ m_redo_action /\ m_redos > 0
  /\ m_redos' = m_redos - 1 /\ m_undos' = m_undos + 1
  /\ changed
  /\ UNCHANGED <<settings, phase, dark, window, frame, preferences, history>>
-----------------------------------------------------------------------------
(* End.                                                                    *)

frameRectToConfig ==
  /\ config' = [config EXCEPT !["mainWindow-frame"] = frame]
  /\ left' = [left EXCEPT !.frame = frame]

\* The program is told to quit, or the window closed: the last owner of the
\* window lets it go, and its destructor keeps its place.
close ==
  /\ AtEase
  /\ frameRectToConfig
  /\ phase' = "closing"
  /\ UNCHANGED <<library_cfg, dark, window, Frame, preferences, undo_history, wished, chosen>>

\* The base class's destructor destroys the binders, if there are any.
destroy_binders ==
  /\ phase = "closing"
  /\ IF m_libClient = NotKept THEN UNCHANGED <<config, left>>
     ELSE /\ config' = [config EXCEPT !["workspace_splitter"] = m_value]
          /\ left' = [left EXCEPT !.splitter = splitter]
  /\ End
  /\ UNCHANGED <<library_cfg, wished, chosen>>

kill ==
  /\ phase # "off"
  /\ End
  /\ UNCHANGED <<settings, history>>

\* The buttons of the header bar, the actions of the application and those
\* of the window's menu.
HeaderBar == undo \/ redo
AppActions == on_action_preferences \/ close
User == on_action_edit \/ HeaderBar

WindowNext ==
  \/ User \/ AppActions \/ main \/ prompt_cancelled
  \/ \E c \in Moniker : prompt_open_library(c)
  \/ \E p \in Place : move_window(p) \/ on_changed(p)
  \/ \E n \in Node : add_first_item(n) \/ remove_last_item(n) \/ on_row_expanded_collapsed(n)
  \/ close_preferences
  \/ \E k \in Pref : toggle(k) \/ destroy_binder(k)
  \/ begin_undo
  \/ destroy_binders \/ kill

WindowSpec == WindowInit /\ [][WindowNext]_program
-----------------------------------------------------------------------------
\* What an end keeps, the next start finds: the theme, the writing of XMP
\* files and the catalog are those of the preferences confirmed last and of
\* the catalog chosen last, whatever prompts were cancelled, dialogs cut
\* short and ends not orderly.  (The preferences of a dialog are confirmed
\* one by one: after a kill in between, reopening the catalog is as wished
\* in that dialog, and the XMP files are as in the one before.)  Window and
\* splitter are where they were when the program last ended in order, and a
\* node of the tree is as it was left in that catalog, expanded at first.
KeptForNextStart ==
  [][/\ phase = "off" /\ phase' # "off" =>
          /\ dark' = wished["ui_dark_theme"]
          /\ write_xmp = wished["write_xmp_automatically"]
          /\ m_libClient' = IF wished["reopen_last_catalog"] THEN chosen ELSE NotKept
          /\ frame' = left.frame
     /\ m_libClient = NotKept /\ m_libClient' # NotKept => splitter' = left.splitter
     /\ \A n \in Node : node_rows[n] = "empty" /\ node_rows'[n] # "empty" =>
          (node_rows'[n] = "expanded") = left.expanded[m_libClient][n]]_program

\* Undo and redo are offered exactly when there is something to undo, or to
\* redo, whatever the mix of commands begun, undone and done again.
UndoOffered == (m_undo_action <=> m_undos > 0) /\ (m_redo_action <=> m_redos > 0)
=============================================================================
