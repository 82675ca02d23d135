---------------------------- MODULE FirewallSides ----------------------------
(***************************************************************************)
(* One question, two answers: FirewallManager lists the instances of a     *)
(* firewall (InstanceMatching), VMInstanceManager the rules of an instance *)
(* (VMFirewalls).  What a user sees on one page is related here to what is *)
(* on the other.                                                           *)
(***************************************************************************)
EXTENDS InstanceMatching, VMFirewalls

\* The instances and the rule in work, with all that the other side reads.
InstancesSeen(k) ==
  {[networkInterfaces |-> instances[k].networkInterfaces,
    tags |-> instances[k].tags, accounts |-> a] : a \in SUBSET Account}

RulesSeen ==
  {r \in [name : {"rule"}, network : {rule.network}, tags : {rule.tags},
          accounts : SUBSET Account, protocols : SUBSET Protocol] :
     r.protocols # {} /\ ValidTargets(r)}

HasNoTargets(r) == r.tags = {} /\ r.accounts = {}

HasPorts(r) == \E p \in r.protocols : p.ports # {}

FirewallMatched == outcome = "matched" /\ rule.manager = "Firewall"

\* An instance is shown with a rule only if the firewall is shown with the
\* instance.  The converse holds for rules without targets of which one
\* protocol has ports: the firewall's side looks at no target, and the
\* instance's side shows nothing of a protocol without ports.
FirewallSidesAgree ==
  FirewallMatched =>
    \A k \in DOMAIN instances : \A v \in InstancesSeen(k), r \in RulesSeen :
      /\ IsShown(v, r) => Found(k) # {}
      /\ Found(k) # {} /\ HasNoTargets(r) /\ HasPorts(r) => IsShown(v, r)

\* list_firewall_rule_data: "Check if applies to all ports" - a rule for the
\* protocol "all" is shown with the ports from 0 to 65535.
AllPortsShown ==
  FirewallMatched =>
    \A k \in DOMAIN instances : \A v \in InstancesSeen(k), r \in RulesSeen :
      \A p \in r.protocols :
        p.name = "all" /\ Applies(v, r) =>
          [security_group_name |-> r.name, protocol |-> "all",
           range |-> [port_range_min |-> 0, port_range_max |-> 65535]]
            \in list_firewall_rules_info(v, {r})

=============================================================================
