------------------------ MODULE MCCollectorService ------------------------
(***************************************************************************)
(* Values for small instances of CollectorService: one request that runs   *)
(* two managers, or two requests that run one manager each, the same.      *)
(***************************************************************************)
EXTENDS CollectorService, TLC

CONSTANTS r1, r2, t1, t2, disk, topic, c1, c2, i1, i2, east, global, unknown

MCSlot == t1 :> 1 @@ t2 :> 2
MCInitialCode == [ty \in Type |-> c1]
MCRegionOf == [i \in Item |-> IF i = i2 THEN unknown ELSE east]
MCFault ==
  {[status |-> 403, reasons |-> <<"x", "SERVICE_DISABLED">>],
   [status |-> 500, reasons |-> <<>>]}

\* r1 runs two different managers.
PairOwner == [t \in Task |-> r1]
PairTypeOf == t1 :> disk @@ t2 :> topic

\* r1 and r2 run one manager each, the same.
RivalsOwner == t1 :> r1 @@ t2 :> r2
RivalsTypeOf == [t \in Task |-> disk]

\* All requests rename c1, or only r1 does, or none.
SameMapper == [t \in Task |-> c1 :> c2]
OneMapper  == [t \in Task |-> IF Owner[t] = r1 THEN c1 :> c2 ELSE <<>>]
NoMapper   == [t \in Task |-> <<>>]

=============================================================================
