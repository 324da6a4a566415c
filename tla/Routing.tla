------------------------------- MODULE Routing -------------------------------
(***************************************************************************)
(* Outbound routes: the rules of --rule (rule.rs) and Config::proxy_for    *)
(* (config.rs).  from_specs inserts the rules one by one; the trie it      *)
(* builds is compared, after every rule, with the rules as they were       *)
(* given.  Addresses have W bits, most significant first.                  *)
(***************************************************************************)
EXTENDS Naturals, Sequences, FiniteSets

CONSTANTS
  W,             \* bits of an address (32)
  Route,         \* parsed proxies, direct among them
  Direct,
  Hostname,        \* hosts recovered from FakeIPs
  LocalAddress,  \* 0.0.0.0 and the loopback addresses
  MaxRules,      \* bound: rules on the command line
  NoAction

Bit     == {0, 1}
Ipv4 == [1..W -> Bit]

(* A trie node is named by the path of bits that leads to it. *)
Path    == UNION {[1..n -> Bit] : n \in 0..W}

ASSUME RoutingAssumption ==
  /\ W \in Nat \ {0} /\ MaxRules \in Nat
  /\ LocalAddress \subseteq Ipv4
  /\ Direct \in Route /\ NoAction \notin Route

(* A rule as given: a network and its prefix length (W for "ip:"), or the  *)
(* set of hosts a "domain:" or "domain-regex:" pattern matches.            *)
IpRule     == [network : Ipv4, prefix : 0..W, route : Route]
DomainRule == [hosts : SUBSET Hostname, route : Route]

VARIABLES
  given,          \* the rules so far, in command line order
  children,       \* PrefixTrie: the nodes below the root
  action,         \* PrefixTrie: the action of each node
  domain_actions  \* patterns with their actions

ruleVars == <<given, children, action, domain_actions>>

RulesInit ==
  /\ given = <<>>
  /\ children = {}
  /\ action = [p \in Path |-> NoAction]
  /\ domain_actions = <<>>

Prefix(a, n) == [i \in 1..n |-> a[i]]

(* PrefixTrie::insert creates the nodes on the way and keeps an action     *)
(* that is already there.                                                  *)
insert(r) ==
  /\ children' = children \cup {Prefix(r.network, n) : n \in 1..r.prefix}
  /\ action' = [action EXCEPT ![Prefix(r.network, r.prefix)] = IF @ = NoAction THEN r.route ELSE @]

(* PrefixTrie::get walks down while there are children and remembers the   *)
(* last action met.                                                        *)
Reached(a) == {n \in 0..W : \A m \in 1..n : Prefix(a, m) \in children}
Met(a)     == {n \in Reached(a) : action[Prefix(a, n)] # NoAction}

Bug_FirstAction(a) ==
  IF Met(a) = {} THEN NoAction
  ELSE action[Prefix(a, CHOOSE n \in Met(a) : \A m \in Met(a) : n <= m)]
get(a) ==
  IF Met(a) = {} THEN NoAction
  ELSE action[Prefix(a, CHOOSE n \in Met(a) : \A m \in Met(a) : m <= n)]

match_ip(a) == get(a)

(* RegexSet::matches lists the patterns that match in increasing order. *)
Hits(h) == {i \in DOMAIN domain_actions : h \in domain_actions[i].hosts}

match_domain(h) ==
  IF Hits(h) = {} THEN NoAction
  ELSE domain_actions[CHOOSE i \in Hits(h) : \A j \in Hits(h) : i <= j].route

(* Config::proxy_for with x as the default proxy. *)
proxy_for_ip(a, x) ==
  IF match_ip(a) # NoAction THEN match_ip(a) ELSE IF a \in LocalAddress THEN Direct ELSE x

proxy_for_domain(h, x) == IF match_domain(h) # NoAction THEN match_domain(h) ELSE x

(* One iteration of from_specs. *)
AddIp ==
  /\ Len(given) < MaxRules
  /\ \E r \in IpRule : given' = Append(given, r) /\ insert(r)
  /\ UNCHANGED domain_actions

AddDomain ==
  /\ Len(given) < MaxRules
  /\ \E r \in DomainRule :
       /\ given' = Append(given, r)
       /\ domain_actions' = Append(domain_actions, r)
  /\ UNCHANGED <<children, action>>

RulesNext == AddIp \/ AddDomain

RulesSpec == RulesInit /\ [][RulesNext]_ruleVars

-----------------------------------------------------------------------------
(* What the rules mean, from the rules as given. *)

IsIp(i)       == "network" \in DOMAIN given[i]
Covers(i, a)  == IsIp(i) /\ Prefix(given[i].network, given[i].prefix) = Prefix(a, given[i].prefix)
Better(i, j)  == \/ given[i].prefix > given[j].prefix
                 \/ given[i].prefix = given[j].prefix /\ i <= j
Chosen(i, a)  == Covers(i, a) /\ \A j \in DOMAIN given : Covers(j, a) => Better(i, j)
Mentions(i, h) == ~IsIp(i) /\ h \in given[i].hosts

(* The route of an address is that of the longest prefix that covers it,   *)
(* and of the first such rule on a tie (rule.rs, the comment on            *)
(* PrefixTrie); the route of a domain is that of the first domain rule     *)
(* that matches it, IP rules in between notwithstanding (RuleMatcher).     *)
(* Without a rule it is direct for local addresses and -x for the others   *)
(* (config.rs, the comment on proxy_for).                                  *)
RoutesAsWritten ==
  \A x \in Route :
    /\ \A a \in Ipv4 :
         \/ \E i \in DOMAIN given : Chosen(i, a) /\ proxy_for_ip(a, x) = given[i].route
         \/ /\ \A i \in DOMAIN given : ~Covers(i, a)
            /\ proxy_for_ip(a, x) = IF a \in LocalAddress THEN Direct ELSE x
    /\ \A h \in Hostname :
         \/ \E i \in DOMAIN given :
              /\ Mentions(i, h) /\ \A j \in 1..(i - 1) : ~Mentions(j, h)
              /\ proxy_for_domain(h, x) = given[i].route
         \/ /\ \A i \in DOMAIN given : ~Mentions(i, h)
            /\ proxy_for_domain(h, x) = x

(* What makes it so: the trie has a node for every prefix of every IP      *)
(* rule, and at its end the action of the first rule that ends there; the  *)
(* domain actions are the domain rules in the order given.                 *)
EndsAt(i, p) == IsIp(i) /\ Prefix(given[i].network, given[i].prefix) = p

Places(e) ==
  /\ \A k \in DOMAIN domain_actions : ~IsIp(e[k]) /\ given[e[k]] = domain_actions[k]
  /\ \A k, l \in DOMAIN domain_actions : k < l => e[k] < e[l]
  /\ \A i \in DOMAIN given : IsIp(i) \/ \E k \in DOMAIN domain_actions : e[k] = i

RulesTyped ==
  /\ given \in Seq(IpRule \cup DomainRule)
  /\ domain_actions \in Seq(DomainRule)
  /\ action \in [Path -> Route \cup {NoAction}]

IpRulesKept ==
  \A i \in DOMAIN given : IsIp(i) =>
     /\ \A n \in 1..given[i].prefix : Prefix(given[i].network, n) \in children
     /\ action[Prefix(given[i].network, given[i].prefix)] # NoAction

ActionsGiven ==
  \A p \in Path : action[p] # NoAction =>
     \E i \in DOMAIN given : /\ EndsAt(i, p) /\ action[p] = given[i].route
                             /\ \A j \in 1..(i - 1) : ~EndsAt(j, p)

DomainsGiven == \E e \in [DOMAIN domain_actions -> DOMAIN given] : Places(e)

RulesIInv == RulesTyped /\ IpRulesKept /\ ActionsGiven /\ DomainsGiven
=============================================================================
