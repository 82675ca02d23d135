----------------------- MODULE MCGoogleCloudManager -----------------------
(***************************************************************************)
(* Values for a small instance: three threads, one of them of a manager    *)
(* that does not register regions, list two items that both count as       *)
(* "global", one of them because REGION_INFO does not know its region.     *)
(* The two threads that share a type map the same code, the third a code   *)
(* its type does not have.                                                 *)
(***************************************************************************)
EXTENDS GoogleCloudManager, TLC

CONSTANTS t1, t2, t3, dataset, topic, c1, c2, i1, i2, east, global, unknown

MCMapper ==
  [t \in Task |-> IF t = t3 THEN c2 :> c1 ELSE c1 :> c2]
MCInitialCode == [ty \in Type |-> c1]
MCFault ==
  {[status |-> 403, reasons |-> <<"accessNotConfigured">>],
   [status |-> 400, reasons |-> <<"invalid">>],
   [status |-> 500, reasons |-> <<>>]}

MCTypeOf == [t \in Task |-> IF t = t3 THEN topic ELSE dataset]
MCRegionOf == i1 :> global @@ i2 :> unknown

ThreadSymmetry == Permutations({t1, t2})

=============================================================================
