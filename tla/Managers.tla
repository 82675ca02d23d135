------------------------------ MODULE Managers ------------------------------
(***************************************************************************)
(* What is the same for all managers, composed as in NetworkingManagers:   *)
(* which class a name stands for (ManagerLocator), what its connector      *)
(* lists (ConnectorPaging) and the id its errors are reported under        *)
(* (ManagerLoops).                                                         *)
(***************************************************************************)
EXTENDS Naturals, Sequences, FiniteSets

CONSTANTS
  AtWork,                  \* the sets of the three that may be given work
  Item, Scope, ScopeOf,    \* ConnectorPaging
  MaxGroups,               \* ManagerLocator
  MaxItems                 \* ManagerLoops

VARIABLE working    \* those that are given work

VARIABLES listing, collection, unserved, request, result, outcome

pagingVars == <<listing, collection, unserved, request, result, outcome>>

VARIABLES managers, connectors, options, execute_managers, phase

locatorVars == <<managers, connectors, options, execute_managers, phase>>

VARIABLES manager, listed, at, id, collected, errors

loopVars == <<manager, listed, at, id, collected, errors>>

vars == <<working, pagingVars, locatorVars, loopVars>>

ASSUME BoundAssumption == MaxGroups \in Nat /\ MaxItems \in Nat

Paging == INSTANCE ConnectorPaging

Locator == INSTANCE ManagerLocator

Loops == INSTANCE ManagerLoops

ASSUME ScopeAssumption == Paging!ScopesTyped

-----------------------------------------------------------------------------
PagingUnused ==
  /\ listing = <<>> /\ collection = {} /\ unserved = {} /\ request = FALSE
  /\ result = <<>> /\ outcome = <<>>

LocatorUnused ==
  /\ managers = <<>> /\ connectors = <<>> /\ options = {}
  /\ execute_managers = <<>> /\ phase = <<>>

LoopsUnused ==
  /\ manager = <<>> /\ listed = 0 /\ at = 0 /\ id = 0
  /\ collected = {} /\ errors = {}

Init ==
  /\ working \in AtWork
  /\ IF "paging" \in working THEN Paging!Init ELSE PagingUnused
  /\ IF "locator" \in working THEN Locator!Init ELSE LocatorUnused
  /\ IF "loops" \in working THEN Loops!Init ELSE LoopsUnused

Next ==
  /\ UNCHANGED working
  /\ \/ /\ "paging" \in working /\ Paging!Next
        /\ UNCHANGED <<locatorVars, loopVars>>
     \/ /\ "locator" \in working /\ Locator!Next
        /\ UNCHANGED <<pagingVars, loopVars>>
     \/ /\ "loops" \in working /\ Loops!Next
        /\ UNCHANGED <<pagingVars, locatorVars>>

Spec == Init /\ [][Next]_vars

-----------------------------------------------------------------------------
\* The types of the three.  In particular no listing has a resource twice and
\* no look-up of a manager raises.
ManagersTypeOK ==
  /\ "paging" \in working => Paging!TypeOK
  /\ "locator" \in working => Locator!TypeOK
  /\ "loops" \in working => Loops!TypeOK

\* A listing that appends its pages returns every resource exactly once.
AppendedListingComplete ==
  "paging" \in working => Paging!AppendedListingComplete

\* The dictionary of policies has every region or zone that has a policy.
RegionsWithPoliciesListed ==
  "paging" \in working => Paging!RegionsWithPoliciesListed

\* A request runs every manager of the groups it names, and whichever class a
\* name stands for finds the connector of its own service.
NamesStandForServices ==
  "locator" \in working =>
    Locator!ConnectorOfOwnService /\ Locator!SelectedNamesRun

\* The id an error is reported under is the item's, or that of the nearest
\* item before it that got as far as setting the id.
ErrorIds ==
  "loops" \in working => Loops!ErrorNamesItem /\ Loops!StaleIdIsNearest

=============================================================================
