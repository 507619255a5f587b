----------------------------- MODULE Annotations -----------------------------
(***************************************************************************)
(* The annotations of an Ingress and the parsers that need nothing else of *)
(* it: proxy, redirect, rewrite, and the lists of addresses allowed and    *)
(* denied.  An annotation is absent (None) or has a value; a flag counts   *)
(* only when it parses as true.  Which class of error a parser returns     *)
(* makes no difference: Extract passes every one of them on.               *)
(***************************************************************************)
EXTENDS Integers, SequencesExt

CONSTANTS
  Paths,      \* paths of rules and annotations; the empty path is left out
  Regexps,    \* the ones IsRegexPatternRegex takes for a regular expression
  Svcs,       \* Service names
  Items,      \* items of allow and deny lists
  IpLike,     \* the ones PassIsIp accepts: digits and any three separators
  Addresses,  \* the addresses of clients
  Networks,   \* items "address/bits"
  None        \* no Service, no annotation

ASSUME ItemsAssumption == /\ Addresses \subseteq IpLike /\ IpLike \subseteq Items
                          /\ Networks \subseteq Items \ IpLike
ASSUME NamesAssumption == /\ None \notin Paths \cup Svcs \cup {"ip", "name", "bad", "empty"}
                          /\ Regexps \subseteq Paths

(* What IsTargetPathRegex says of rewrite-target and proxy-target. *)
Targets == {"good", "bad", None}
(* proxy-host: an address, a name that resolves, something else, or given  *)
(* without a value.                                                        *)
ProxyType == [path : Paths \cup {None}, host : {"ip", "name", "bad", "empty", None},
              target : Targets, regex : BOOLEAN, ssl : BOOLEAN]
(* redirect-host: whether IsValidHost accepts it. *)
RedirectType == [path : Paths \cup {None}, host : {"name", "bad"}]

(* An item of set-weight is "<svc>:weight=<n>"; share says what follows    *)
(* the name: a positive or a zero weight, something else, or nothing.      *)
WeightType == [svc : Svcs, share : {"some", "zero", "malformed", "missing"}]

(* target and regex are rewrite-target and enable-regex, cos is use-cos. *)
IsAnnotations(a) ==
  /\ DOMAIN a = {"useWeight", "weights", "target", "regex", "proxy", "redirect",
                 "allow", "deny", "cos"}
  /\ a.useWeight \in BOOLEAN
  /\ a.weights \in Seq(WeightType)
  /\ a.target \in Targets /\ a.regex \in BOOLEAN
  /\ a.proxy \in ProxyType /\ a.redirect \in RedirectType
  /\ a.allow \subseteq Items /\ a.deny \subseteq Items
  /\ a.cos \in BOOLEAN

Verdict(ok) == IF ok THEN "fine" ELSE "refused"

(* rewrite *)
Rewrites(a) == a.regex \/ a.target # None
RewriteCheck(a) == Verdict(a.target # "bad")

(* proxy: formatProxyPath makes a location with a target or enable-regex a *)
(* regular expression, which its path must then be.                        *)
ProxyIsRegex(p) == p.regex \/ p.target # None
ProxyCheck(p) ==
  Verdict(/\ p.target # "bad"
          /\ (p.path \in Regexps) = ProxyIsRegex(p)
          /\ ~(p.host = "ip" /\ p.ssl))

(* redirect: without a path nothing is rendered. *)
RedirectCheck(r) == Verdict(r.path # None => r.host = "name")

(* ipallowlist and ipdenylist *)
ListCheck(l) == Verdict(l \subseteq IpLike)

Checks(a) == {RewriteCheck(a), ProxyCheck(a.proxy), RedirectCheck(a.redirect),
              ListCheck(a.allow), ListCheck(a.deny)}

----------------------------------------------------------------------------
(* What server.tmpl makes of them. *)

(* Mutant: the allow list does not end in "deny all". *)
AccessRulesOpen(a) ==
  (IF a.allow = {} THEN <<>> ELSE <<[admit |-> TRUE, who |-> a.allow]>>)
  \o (IF a.deny = {} THEN <<>> ELSE <<[admit |-> FALSE, who |-> a.deny],
                                      [admit |-> TRUE, who |-> Addresses]>>)

(* allow ...; deny all;  then deny ...; allow all.  Networks do not get    *)
(* here, so an item names itself.                                          *)
AccessRules(a) ==
  (IF a.allow = {} THEN <<>> ELSE <<[admit |-> TRUE, who |-> a.allow],
                                    [admit |-> FALSE, who |-> Addresses]>>)
  \o (IF a.deny = {} THEN <<>> ELSE <<[admit |-> FALSE, who |-> a.deny],
                                      [admit |-> TRUE, who |-> Addresses]>>)

RedirectLocations(r) ==
  IF r.path = None THEN <<>>
  ELSE <<[path |-> r.path, regex |-> FALSE, kind |-> "redirect", port |-> 0, to |-> {}]>>

ProxyLocations(p) ==
  IF p.path = None THEN <<>>
  ELSE <<[path |-> p.path, regex |-> ProxyIsRegex(p), kind |-> "proxy", port |-> 0,
          to |-> {p.host}]>>
==============================================================================
