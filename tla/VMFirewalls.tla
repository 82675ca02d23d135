----------------------------- MODULE VMFirewalls -----------------------------
(***************************************************************************)
(* Which firewall rules an instance is shown with, and how:                *)
(* FirewallManagerResourceHelper (manager/compute_engine/vm_instance).     *)
(* FirewallManager (InstanceMatching) answers the same question from the   *)
(* side of the firewall and by other means.                                *)
(***************************************************************************)
EXTENDS Naturals, Sequences, FiniteSets

CONSTANTS
  Account,   \* service accounts
  Protocol   \* [name, ports]: an entry of "allowed" or "denied"

-----------------------------------------------------------------------------
\* A rule has "allowed" or "denied"; its targets are tags or accounts or none.
ValidTargets(rule) == rule.tags = {} \/ rule.accounts = {}

_get_instance_network_info(instance) ==
  {instance.networkInterfaces[k] : k \in DOMAIN instance.networkInterfaces}

_chk_network_tag_is_matched(instance, rule) == instance.tags \cap rule.tags # {}

_chk_service_account_is_matched(instance, rule) ==
  instance.accounts \cap rule.accounts # {}

\* Mutant of Applies: the network is that of the first interface.
AppliesToFirst(instance, rule) ==
  /\ instance.networkInterfaces # <<>>
  /\ rule.network = instance.networkInterfaces[1]
  /\ \/ _chk_network_tag_is_matched(instance, rule)
     \/ _chk_service_account_is_matched(instance, rule)
     \/ rule.tags = {} /\ rule.accounts = {}

Applies(instance, rule) ==
  /\ rule.network \in _get_instance_network_info(instance)
  /\ \/ _chk_network_tag_is_matched(instance, rule)
     \/ _chk_service_account_is_matched(instance, rule)
     \/ rule.tags = {} /\ rule.accounts = {}

\* "80" and "70-200"; without a dash a port is both bounds.
_get_port_min_max(port) == [port_range_min |-> port[1],
                            port_range_max |-> port[Len(port)]]

\* One entry per port of a protocol.  The branch for all ports reads a key
\* sg_translated does not have and is never taken: a protocol without ports
\* has no entry.
list_firewall_rule_data(rule) ==
  UNION {{[security_group_name |-> rule.name, protocol |-> p.name,
           range |-> _get_port_min_max(port)] : port \in p.ports}
         : p \in rule.protocols}

list_firewall_rules_info(instance, rules) ==
  UNION {list_firewall_rule_data(r) : r \in {q \in rules : Applies(instance, q)}}

IsShown(instance, rule) == list_firewall_rules_info(instance, {rule}) # {}

=============================================================================
