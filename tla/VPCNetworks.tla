----------------------------- MODULE VPCNetworks -----------------------------
(***************************************************************************)
(* VPCNetworkManager (manager/networking) lists the networks first, each   *)
(* with the links of its subnets, and then firewalls, subnets, routes and  *)
(* reserved addresses, one call after the other.  The loop joins them by   *)
(* link: a firewall, subnet or route by the network it names, an internal  *)
(* address by its subnet, which is looked up among the links that came     *)
(* with the network.                                                       *)
(*                                                                         *)
(* The project changes while it is being listed.                           *)
(***************************************************************************)
EXTENDS Naturals, Sequences

CONSTANTS
  Network, Firewall, Subnet, Route,
  Address,     \* internal addresses
  NetworkOf,   \* the network of a firewall, subnet or route
  SubnetOf,    \* the subnet of an address
  MaxChanges   \* bound on what happens to the project

\* Addresses are in subnets and are told from objects of other kinds.
AddressesApart ==
  /\ SubnetOf \in [Address -> Subnet]
  /\ Address \cap (Network \cup Firewall \cup Subnet \cup Route) = {}

VARIABLES
  project, changes, lasting, ever,   \* see ChangingProject
  listings,    \* the calls that returned, in their order
  vpcs         \* collected_cloud_services: network -> what it is shown with

-----------------------------------------------------------------------------
Object == Network \cup Firewall \cup Subnet \cup Route \cup Address

Parents(o) == IF o \in Network THEN {}
              ELSE IF o \in Address THEN {SubnetOf[o]} ELSE {NetworkOf[o]}

INSTANCE ChangingProject WITH Fact <- Object, Needs <- Parents

projectVars == <<project, changes, lasting, ever>>

vars == <<projectVars, listings, vpcs>>

\* The calls in the order of the code.
Calls == <<"networks", "firewalls", "subnets", "routes", "regional_address">>

Kind == [networks |-> Network, firewalls |-> Firewall, subnets |-> Subnet,
         routes |-> Route, regional_address |-> Address]

Init ==
  /\ ProjectInit
  /\ listings = <<>>
  /\ vpcs = <<>>

Listed(call) == listings[CHOOSE k \in DOMAIN Calls : Calls[k] = call]

Listing == Len(listings) < Len(Calls)

ProjectChanges ==
  /\ Listing
  /\ \E o \in Object : Change(o)
  /\ UNCHANGED <<listings, vpcs>>

\* The subnets of a network come with it ("subnetworks").
List ==
  /\ Listing
  /\ LET call == Calls[Len(listings) + 1]
         found == project \cap Kind[call]
     IN listings' = Append(listings,
          IF call = "networks"
          THEN [n \in found |-> {s \in project \cap Subnet : NetworkOf[s] = n}]
          ELSE found)
  /\ UNCHANGED <<projectVars, vpcs>>

networks == Listed("networks")

_get_matched_subnets(n) == {s \in Listed("subnets") : NetworkOf[s] = n}

_get_matched_firewalls(n) == {f \in Listed("firewalls") : NetworkOf[f] = n}

get_matched_route(n) == {r \in Listed("routes") : NetworkOf[r] = n}

\* Mutant of get_internal_ip_address_in_use: returns from within the loop.
first_internal_ip_address_in_use(n) ==
  LET inUse == {a \in Listed("regional_address") : SubnetOf[a] \in networks[n]}
  IN IF inUse = {} THEN {} ELSE {CHOOSE a \in inUse : TRUE}

get_internal_ip_address_in_use(n) ==
  {a \in Listed("regional_address") : SubnetOf[a] \in networks[n]}

\* One turn of the loop of collect_cloud_service.
BuildNetwork(n) ==
  /\ ~Listing
  /\ n \in DOMAIN networks \ DOMAIN vpcs
  /\ vpcs' = [k \in DOMAIN vpcs \cup {n} |->
                IF k # n THEN vpcs[k]
                ELSE [firewalls |-> _get_matched_firewalls(n),
                      routes |-> get_matched_route(n),
                      subnets |-> _get_matched_subnets(n),
                      addresses |-> get_internal_ip_address_in_use(n)]]
  /\ UNCHANGED <<projectVars, listings>>

Next ==
  \/ List
  \/ ProjectChanges
  \/ \E n \in Network : BuildNetwork(n)

Spec == Init /\ [][Next]_vars

-----------------------------------------------------------------------------
TypeOK ==
  /\ ProjectTypeOK
  /\ Len(listings) \in 0 .. Len(Calls)
  /\ vpcs # <<>> => ~Listing /\ DOMAIN vpcs \subseteq DOMAIN networks

Shown(n) == UNION {vpcs[n].firewalls, vpcs[n].routes, vpcs[n].subnets,
                   vpcs[n].addresses}

Built(n) == n \in DOMAIN vpcs

\* The network an object is part of.
Home(o) == IF o \in Address THEN NetworkOf[SubnetOf[o]] ELSE NetworkOf[o]

\* What exists all the time while the project is being listed is shown, and
\* under its own network, whatever is created and deleted next to it.
LastingShown ==
  \A n \in Network : Built(n) =>
    \A o \in lasting \ Network : o \in Shown(n) <=> Home(o) = n

=============================================================================
