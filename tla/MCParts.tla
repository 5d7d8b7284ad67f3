------------------------------- MODULE MCParts -------------------------------
(***************************************************************************)
(* The parts that stand on their own, one at a time: a behaviour is one of *)
(* the part chosen at first and leaves the others at a first state, so     *)
(* that the state space is their sum, not their product.                   *)
(***************************************************************************)
EXTENDS FileBundle, Window, Commands, WorkspaceTree, Worker, UfrawMeta, Utilities, Importers

CONSTANTS c1, c2, p0, p1

\* The first camera has files of one name in two folders.
MCCard == [m \in {"A", "B"} |->
  IF m = "A" THEN [root |-> "dcim", folders |-> <<[name |-> "100", files |-> <<"1">>],
                                                [name |-> "101", files |-> <<"1", "2">>]>>]
  ELSE [root |-> "ptp", folders |-> <<[name |-> "100", files |-> <<"1">>]>>]]
MCDirectory == [d \in {"roll"} |-> <<"a.raw", "a.xmp">>]

VARIABLE part

PartsInit ==
  /\ part \in {"bundles", "window", "commands", "tree", "worker", "ufraw", "utilities",
             "importers"}
  /\ IF part = "tree" THEN TRUE ELSE db_folders = {} /\ db_tags = {}
  /\ IF part = "ufraw" THEN TRUE ELSE xml = <<>> /\ in_lines = TRUE /\ version = "7"
  /\ IF part = "utilities" THEN TRUE ELSE rect = [w |-> 1, h |-> 1] /\ dest = rect
  /\ IF part = "importers" THEN TRUE ELSE plugged = [p \in Port |-> NoModel]
  /\ Init /\ WindowInit /\ CommandsInit /\ TreeInit /\ WorkerInit /\ UfrawInit /\ UtilitiesInit
  /\ ImportersInit

All == <<vars, program, commands, workspace, worker, ufraw, utilities, importers>>

PartsNext ==
  /\ UNCHANGED part
  /\ \/ /\ part = "bundles" /\ Next
        /\ UNCHANGED <<program, commands, workspace, worker, ufraw, utilities, importers>>
     \/ /\ part = "window" /\ WindowNext
        /\ m_undos' + m_redos' > 0 =>      \* undo beside one wish and no dialog only
             wished' = [k \in Pref |-> FALSE] /\ dialog' = NotKept
        /\ UNCHANGED <<vars, commands, workspace, worker, ufraw, utilities, importers>>
     \/ /\ part = "commands" /\ CommandsNext
        /\ UNCHANGED <<vars, program, workspace, worker, ufraw, utilities, importers>>
     \/ /\ part = "tree" /\ TreeNext
        /\ UNCHANGED <<vars, program, commands, worker, ufraw, utilities, importers>>
     \/ /\ part = "worker" /\ WorkerNext
        /\ UNCHANGED <<vars, program, commands, workspace, ufraw, utilities, importers>>
     \/ /\ part = "ufraw" /\ UfrawNext
        /\ UNCHANGED <<vars, program, commands, workspace, worker, utilities, importers>>
     \/ /\ part = "utilities" /\ UtilitiesNext
        /\ rect = dest /\ rect.w = 1 /\ rect.h = 1      \* paths beside one pair only
        /\ UNCHANGED <<vars, program, commands, workspace, worker, ufraw, importers>>
     \/ /\ part = "importers" /\ ImportersNext
        /\ UNCHANGED <<vars, program, commands, workspace, worker, ufraw, utilities>>

PartsSpec == PartsInit /\ [][PartsNext]_<<part, All>>
=============================================================================
