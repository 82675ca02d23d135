-------------------------- MODULE ExternalIPAddress -------------------------
(***************************************************************************)
(* _get_external_ip_addresses of ExternalIPAddressManager merges the       *)
(* external addresses of a project from three listings: reserved           *)
(* addresses, forwarding rules of load balancers, and access               *)
(* configurations of instances.  An address in use is in several of them;  *)
(* all_ip_addr_only_check_dup keeps it from being listed twice.  The order *)
(* within a listing is left open.                                          *)
(***************************************************************************)
EXTENDS Naturals, Sequences, FiniteSets

CONSTANTS
  IP,       \* addresses
  Region,   \* regions, without "global"
  Rule,     \* forwarding rules
  VM        \* access configurations of instances

VARIABLES
  all_addresses,    \* reserved addresses: ip -> [addressType, region]
  forwarding_rule_address, \* rule -> [IPAddress, loadBalancingScheme, region]
  all_instances,    \* access configuration -> [natIP, region]
  todo,             \* what is left of the listing in work
  source,           \* "addresses", "rules", "instances" or "merged"
  check_dup,        \* all_ip_addr_only_check_dup
  vos               \* all_ip_addr_vos

inputs == <<all_addresses, forwarding_rule_address, all_instances>>
vars == <<inputs, todo, source, check_dup, vos>>

-----------------------------------------------------------------------------
\* An access configuration always has a region.
RegionsNamed == "" \notin Region

\* region "" is a resource without one
ListedAddress == [addressType : {"EXTERNAL", "INTERNAL"}, region : Region \cup {""}]
ListedRule == [IPAddress : IP, loadBalancingScheme : {"EXTERNAL", "INTERNAL"},
               region : Region \cup {""}]
AccessConfig == [natIP : IP, region : Region]

Entry(ip, kind, region) == [address |-> ip, kind |-> kind, region |-> region]

\* get_param_in_url(url_region, "regions") if url_region == "" else "global":
\* the parameter of an empty url is ""
StaticRegion(region) == IF region = "" THEN "" ELSE "global"

\* Mutant of RuleRegion: the test is that of a reserved address.
RuleRegionInverted(region) == IF region = "" THEN region ELSE "global"

\* the same for a forwarding rule, with the test the other way round
RuleRegion(region) == IF region # "" THEN region ELSE "global"

\* Reserved addresses of one project are distinct, a rule or an access
\* configuration may use one of them.
Init ==
  /\ all_addresses \in UNION {[S -> ListedAddress] : S \in SUBSET IP}
  /\ forwarding_rule_address \in UNION {[S -> ListedRule] : S \in SUBSET Rule}
  /\ all_instances \in UNION {[S -> AccessConfig] : S \in SUBSET VM}
  /\ source = "addresses" /\ todo = DOMAIN all_addresses
  /\ check_dup = <<>> /\ vos = <<>>

Collect(entry) ==
  /\ vos' = Append(vos, entry)
  /\ check_dup' = Append(check_dup, entry.address)

Seen(ip) == \E k \in DOMAIN check_dup : check_dup[k] = ip

\* Mutant of AddAddress: the address is not noted for the later listings.
AddAddressUnnoted ==
  /\ source = "addresses"
  /\ \E ip \in todo :
       /\ todo' = todo \ {ip}
       /\ IF all_addresses[ip].addressType = "EXTERNAL"
          THEN vos' = Append(vos, Entry(ip, "Static",
                                        StaticRegion(all_addresses[ip].region)))
          ELSE UNCHANGED vos
  /\ UNCHANGED <<inputs, source, check_dup>>

AddAddress ==
  /\ source = "addresses"
  /\ \E ip \in todo :
       /\ todo' = todo \ {ip}
       /\ IF all_addresses[ip].addressType = "EXTERNAL"
          THEN Collect(Entry(ip, "Static",
                             StaticRegion(all_addresses[ip].region)))
          ELSE UNCHANGED <<check_dup, vos>>
  /\ UNCHANGED <<inputs, source>>

\* Mutant of AddRule: rules of internal load balancers are taken in.
AddAnyRule ==
  /\ source = "rules"
  /\ \E r \in todo :
       LET rule == forwarding_rule_address[r] IN
       /\ todo' = todo \ {r}
       /\ IF ~Seen(rule.IPAddress)
          THEN Collect(Entry(rule.IPAddress, "Ephemeral",
                             RuleRegion(rule.region)))
          ELSE UNCHANGED <<check_dup, vos>>
  /\ UNCHANGED <<inputs, source>>

AddRule ==
  /\ source = "rules"
  /\ \E r \in todo :
       LET rule == forwarding_rule_address[r] IN
       /\ todo' = todo \ {r}
       /\ IF rule.loadBalancingScheme = "EXTERNAL" /\ ~Seen(rule.IPAddress)
          THEN Collect(Entry(rule.IPAddress, "Ephemeral",
                             RuleRegion(rule.region)))
          ELSE UNCHANGED <<check_dup, vos>>
  /\ UNCHANGED <<inputs, source>>

AddAccessConfig ==
  /\ source = "instances"
  /\ \E v \in todo :
       LET config == all_instances[v] IN
       /\ todo' = todo \ {v}
       /\ IF ~Seen(config.natIP)
          THEN Collect(Entry(config.natIP, "Ephemeral", config.region))
          ELSE UNCHANGED <<check_dup, vos>>
  /\ UNCHANGED <<inputs, source>>

NextSource ==
  /\ todo = {}
  /\ \/ /\ source = "addresses" /\ source' = "rules"
        /\ todo' = DOMAIN forwarding_rule_address
     \/ /\ source = "rules" /\ source' = "instances"
        /\ todo' = DOMAIN all_instances
     \/ /\ source = "instances" /\ source' = "merged"
        /\ UNCHANGED todo
  /\ UNCHANGED <<inputs, check_dup, vos>>

Next == AddAddress \/ AddRule \/ AddAccessConfig \/ NextSource

Spec == Init /\ [][Next]_vars

\* The region collect_cloud_service files an entry under.
RegionCode(entry) == IF entry.region # "" THEN entry.region ELSE "global"

-----------------------------------------------------------------------------
Reserved(ip) ==
  ip \in DOMAIN all_addresses /\ all_addresses[ip].addressType = "EXTERNAL"
RuleUses(ip) ==
  {forwarding_rule_address[r] : r \in
     {s \in DOMAIN forwarding_rule_address :
        /\ forwarding_rule_address[s].IPAddress = ip
        /\ forwarding_rule_address[s].loadBalancingScheme = "EXTERNAL"}}
VMUses(ip) ==
  {all_instances[v] : v \in {w \in DOMAIN all_instances :
                               all_instances[w].natIP = ip}}

TypeOK ==
  /\ source \in {"addresses", "rules", "instances", "merged"}
  /\ todo \subseteq DOMAIN all_addresses \cup DOMAIN forwarding_rule_address
                      \cup DOMAIN all_instances
  /\ check_dup = [k \in DOMAIN vos |-> vos[k].address]
  /\ vos \in Seq([address : IP, kind : {"Static", "Ephemeral"},
                  region : Region \cup {"", "global"}])

\* However reserved addresses, rules and instances share addresses, and in
\* whatever order they are listed, each external address is reported once.
EachAddressOnce ==
  source = "merged" =>
    \A ip \in IP :
      Cardinality({k \in DOMAIN vos : vos[k].address = ip}) =
        IF Reserved(ip) \/ RuleUses(ip) # {} \/ VMUses(ip) # {} THEN 1 ELSE 0

\* An address is reported as static exactly if it is reserved, whoever uses
\* it; an ephemeral one is filed under the region of a rule or, if no rule has
\* it, of an instance that uses it.
AddressKind ==
  source = "merged" =>
    \A k \in DOMAIN vos :
      LET ip == vos[k].address IN
      /\ vos[k].kind = "Static" <=> Reserved(ip)
      /\ vos[k].kind = "Ephemeral" =>
           RegionCode(vos[k]) \in
             IF RuleUses(ip) # {}
             THEN {IF use.region = "" THEN "global" ELSE use.region :
                     use \in RuleUses(ip)}
             ELSE {use.region : use \in VMUses(ip)}

=============================================================================
