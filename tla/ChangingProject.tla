--------------------------- MODULE ChangingProject ---------------------------
(***************************************************************************)
(* The Google Cloud project a manager lists (external).  A manager calls   *)
(* one list method after the other and joins what they returned; meanwhile *)
(* users and other services create and delete.  No listing is locked and   *)
(* none is repeated.                                                       *)
(*                                                                         *)
(* The project is a set of facts: that an object exists, that one refers   *)
(* to another.  A fact may need others: Google Cloud refuses to delete     *)
(* what something else refers to.                                          *)
(***************************************************************************)
EXTENDS Naturals

CONSTANTS
  Fact,
  Needs(_),    \* the facts a fact needs
  MaxChanges   \* bound on the changes while the project is being listed

VARIABLES
  project,   \* the facts that hold
  changes,   \* how many changes there have been
  lasting,   \* history: the facts that have held all the time
  ever       \* history: the facts that have held at some time

Consistent(facts) ==
  facts \subseteq Fact /\ \A f \in facts : Needs(f) \subseteq facts

ProjectInit ==
  /\ project \in SUBSET Fact /\ Consistent(project)
  /\ changes = 0
  /\ lasting = project /\ ever = project

\* A fact comes to hold or ceases to.
Change(f) ==
  /\ changes < MaxChanges
  /\ project' = IF f \in project THEN project \ {f} ELSE project \cup {f}
  /\ Consistent(project')
  /\ changes' = changes + 1
  /\ lasting' = lasting \cap project'
  /\ ever' = ever \cup project'

ProjectTypeOK ==
  /\ Consistent(project)
  /\ changes \in 0 .. MaxChanges
  /\ lasting \subseteq project /\ project \subseteq ever /\ ever \subseteq Fact

=============================================================================
