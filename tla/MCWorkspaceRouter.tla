------------------------- MODULE MCWorkspaceRouter -------------------------
(* Instances of WorkspaceRouter for TLC: two windows that load the same       *)
(* project; in one of the two instances the first has a terminal of it, too.  *)
EXTENDS WorkspaceRouter

CONSTANTS first, terminal, otherTerminal, project, otherProject, item

Ask(resource, action, id, inProject, parent) ==
  [resource |-> resource, action |-> action, id |-> id, project |-> inProject,
   parent |-> parent, text |-> FALSE]

MCHome == [t \in Terminal |-> IF t = terminal THEN project ELSE otherProject]
MCItems == [resource \in ItemResources |->
              [p \in Project |-> IF p = project THEN {item} ELSE {}]]
FirstHasTerminal == [w \in Window |-> IF w = first THEN {project, terminal} ELSE {project}]

AllKnow == [w \in Window |-> {project}]

Create == {Ask("terminals", "create", None, project, None)}

CreateNextTo == {Ask("terminals", "create", None, project, terminal)}
=============================================================================
