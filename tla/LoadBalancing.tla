--------------------------- MODULE LoadBalancing ---------------------------
(***************************************************************************)
(* LoadBalancingManager puts a load balancer together from what refers to  *)
(* it and what it refers to, since Google Cloud has no such object.  A     *)
(* load balancer is a target proxy, or a forwarding rule that goes to a    *)
(* target pool; forwarding rules, URL maps, backends and health checks are *)
(* listed on their own and joined through their links.  A resource that is *)
(* created or deleted between the listings is in some of them only, so any *)
(* link may lead to nothing that was listed.                               *)
(*                                                                         *)
(* A resource stands for its selfLink and "" for a key that is missing,    *)
(* which is what the code puts in its place.                               *)
(***************************************************************************)
EXTENDS Naturals, FiniteSets

CONSTANTS
  Proxy, ForwardingRule, TargetPool,     \* what a load balancer is made of
  UrlMap, BackendService, BackendBucket,
  HealthCheck,
  VpnGateway,     \* other targets of a forwarding rule
  PartOf          \* pairs of links of which the first is part of the second

VARIABLES
  proxies,          \* target proxies -> urlMap, "" for SSL and TCP proxies
  forwarding_rules, \* forwarding rules -> [target, loadBalancingScheme]
  url_maps,         \* URL maps -> defaultService, "" for one that redirects
  backend_services, \* backend services -> healthChecks
  backend_buckets, health_checks, target_pools,    \* those that were listed
  load_balancers,   \* load_balancers the loop has not reached
  collected         \* load balancers -> what they are shown with

inputs == <<proxies, forwarding_rules, url_maps, backend_services,
            backend_buckets, health_checks, target_pools>>
vars == <<inputs, load_balancers, collected>>

-----------------------------------------------------------------------------
\* Links to resources of different kinds differ and none is empty.  Only the
\* link of a bucket can be part of another link that a URL map has.
LinksApart ==
  /\ "" \notin UrlMap \cup BackendService \cup BackendBucket
  /\ BackendService \cap BackendBucket = {}
  /\ Proxy \cap (ForwardingRule \cup TargetPool) = {}
  /\ VpnGateway \cap (Proxy \cup ForwardingRule \cup TargetPool) = {}
  /\ ForwardingRule \cap TargetPool = {}
  /\ PartOf \subseteq BackendBucket \X BackendBucket

Partly(keys, values) == UNION {[S -> values] : S \in SUBSET keys}

ListedRule == [target : Proxy \cup TargetPool \cup VpnGateway,
               loadBalancingScheme : {"EXTERNAL", "INTERNAL"}]

\* Mutant of _check_forwarding_rule_is_loadbalancer: every forwarding rule is
\* taken for a load balancer.
any_forwarding_rule_is_loadbalancer(rule) == TRUE

_check_forwarding_rule_is_loadbalancer(rule) ==
  forwarding_rules[rule].target \in TargetPool

_get_loadbalancer_from_forwarding_rule ==
  {f \in DOMAIN forwarding_rules : _check_forwarding_rule_is_loadbalancer(f)}

IsRule(lb) == lb \in DOMAIN forwarding_rules

_get_forwarding_rules(lb) ==
  {f \in DOMAIN forwarding_rules : forwarding_rules[f].target = lb \/ f = lb}

\* load_balancer.get("urlMap", ""): a rule and an SSL or TCP proxy have none
UrlMapLink(lb) == IF IsRule(lb) THEN "" ELSE proxies[lb]

\* Mutant of _get_urlmap: a link that is missing matches every URL map.
any_urlmap(lb) == {m \in DOMAIN url_maps : UrlMapLink(lb) \in {m, ""}}

_get_urlmap(lb) == {m \in DOMAIN url_maps : m = UrlMapLink(lb)}

\* lb_urlmap.get("defaultService", "")
DefaultService(urlmap) == {url_maps[m] : m \in urlmap}

\* Mutant of _get_backend_services: the services of all URL maps.
every_backend_service(urlmap) ==
  {s \in DOMAIN backend_services : \E m \in DOMAIN url_maps : url_maps[m] = s}

_get_backend_services(urlmap) ==
  {s \in DOMAIN backend_services : s \in DefaultService(urlmap)}

\* The health checks and, in a list of their own, the legacy ones.
_get_health_checks(services) ==
  {h \in health_checks : \E s \in services : h \in backend_services[s]}

\* backend.get("selfLink") in lb_urlmap.get("defaultService", ""): both are
\* strings, so this asks for a part of the string.
_get_bucket_services(urlmap) ==
  {b \in backend_buckets :
     \E d \in DefaultService(urlmap) : b = d \/ <<b, d>> \in PartOf}

_get_target_pools(rules) ==
  {p \in target_pools : \E f \in rules : forwarding_rules[f].target = p}

\* The scheme of the first rule, in the order of the listing.
_get_external_internal(rules) ==
  IF rules = {} THEN {"UnKnown"}
  ELSE {forwarding_rules[f].loadBalancingScheme : f \in rules}

Init ==
  /\ proxies \in Partly(Proxy, UrlMap \cup {""})
  /\ forwarding_rules \in Partly(ForwardingRule, ListedRule)
  /\ url_maps \in Partly(UrlMap, BackendService \cup BackendBucket \cup {""})
  /\ backend_services \in Partly(BackendService, SUBSET HealthCheck)
  /\ backend_buckets \in SUBSET BackendBucket
  /\ health_checks \in SUBSET HealthCheck
  /\ target_pools \in SUBSET TargetPool
  /\ load_balancers = DOMAIN proxies \cup _get_loadbalancer_from_forwarding_rule
  /\ collected = <<>>

\* One turn of the loop of collect_cloud_service.
BuildLoadBalancer ==
  /\ \E lb \in load_balancers :
       LET rules == _get_forwarding_rules(lb)
           urlmap == _get_urlmap(lb)
           services == _get_backend_services(urlmap) IN
       /\ load_balancers' = load_balancers \ {lb}
       /\ \E scheme \in _get_external_internal(rules) :
            collected' =
              [l \in DOMAIN collected \cup {lb} |->
                 IF l # lb THEN collected[l]
                 ELSE [forwarding_rules |-> rules,
                       internal_or_external |-> scheme,
                       urlmap |-> urlmap,
                       backend_services |-> services,
                       health_checks |-> _get_health_checks(services),
                       backend_buckets |-> _get_bucket_services(urlmap),
                       target_pools |-> _get_target_pools(rules)]]
  /\ UNCHANGED inputs

Next == BuildLoadBalancer

Spec == Init /\ [][Next]_vars

-----------------------------------------------------------------------------
LoadBalancer == Proxy \cup ForwardingRule

TypeOK ==
  /\ load_balancers \subseteq LoadBalancer
  /\ DOMAIN collected \subseteq LoadBalancer \ load_balancers
  /\ \A lb \in DOMAIN collected :
       collected[lb] \in
         [forwarding_rules : SUBSET ForwardingRule,
          internal_or_external : {"EXTERNAL", "INTERNAL", "UnKnown"},
          urlmap : SUBSET UrlMap,
          backend_services : SUBSET BackendService,
          health_checks : SUBSET HealthCheck,
          backend_buckets : SUBSET BackendBucket,
          target_pools : SUBSET TargetPool]

\* Every forwarding rule that goes to a listed proxy, or to a target pool
\* whether or not this was listed, is shown with one load balancer, and no
\* other rule is shown: a load balancer may have several rules, several rules
\* may share a pool, and each of these is a load balancer of its own.
RuleShownOnce ==
  load_balancers = {} =>
    \A f \in DOMAIN forwarding_rules :
      Cardinality({lb \in DOMAIN collected :
                     f \in collected[lb].forwarding_rules}) =
        IF forwarding_rules[f].target \in DOMAIN proxies \cup TargetPool
        THEN 1 ELSE 0

\* A load balancer is shown with the health checks on the way proxy, URL map,
\* default backend service, and with none when the way ends before: at a
\* bucket, at a redirect, at anything that was not listed, or at once for a
\* proxy without a URL map or a target pool.
HealthChecksOnTheWay ==
  \A lb \in DOMAIN collected :
    collected[lb].health_checks =
      {h \in health_checks :
         \E m \in DOMAIN url_maps, s \in DOMAIN backend_services :
           /\ lb \in DOMAIN proxies /\ proxies[lb] = m
           /\ url_maps[m] = s
           /\ h \in backend_services[s]}

\* The default backend of the URL map of a proxy was listed, or else a bucket
\* whose link is part of that of the default backend.
BackendListed(proxy) ==
  \E m \in DOMAIN url_maps :
    /\ proxies[proxy] = m
    /\ \/ url_maps[m] \in DOMAIN backend_services \cup backend_buckets
       \/ \E b \in backend_buckets : <<b, url_maps[m]>> \in PartOf

\* Traffic goes one way.  A load balancer made from a forwarding rule is shown
\* with its own pool, or with nothing if this was deleted before the pools
\* were listed.  A proxy is shown with no pool, never with services and
\* buckets at once, and with neither just if its URL map redirects or the URL
\* map or its backend was not listed.
PoolOrBackend ==
  \A lb \in DOMAIN collected :
    LET shown == collected[lb]
        backends == shown.backend_services \cup shown.backend_buckets IN
    /\ lb \in ForwardingRule =>
         /\ shown.target_pools = {forwarding_rules[lb].target} \cap target_pools
         /\ backends = {}
    /\ lb \in Proxy =>
         /\ shown.target_pools = {}
         /\ shown.backend_services = {} \/ shown.backend_buckets = {}
         /\ backends # {} <=> BackendListed(lb)

=============================================================================
