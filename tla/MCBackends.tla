----------------------------- MODULE MCBackends -----------------------------
(* Small instances of Backends for TLC. *)
EXTENDS Backends

CONSTANTS h1, h2, pa, pb, pr, pq, ra, rx, rb, rn, s1, s2, web, ip1, ip2, like, cidr

MCHosts == {h1, h2}
MCDnsHosts == {h1}
MCPaths == {pa, pb, pr, pq}
MCRegexps == {pr, pq}
MCSvcs == {s1, s2}
MCNumbers == {80, 81}
MCNames == {web}
MCItems == {ip1, ip2, like, cidr}
MCIpLike == {ip1, ip2, like}
MCAddresses == {ip1, ip2}
MCNetworks == {cidr}

(* Paths /a, /a/b, /a/.+ and /a/b.* ; requests /a, /a/x, /a/b and another. *)
MCRequests == {ra, rx, rb, rn}
MCPrefixed == ({pa} \X {ra, rx, rb}) \cup {<<pb, rb>>}
MCMatched == ({pr} \X {rx, rb}) \cup {<<pq, rb>>}
MCLength == [p \in MCPaths |-> CASE p = pa -> 2 [] p = pb -> 4 [] p = pr -> 5 [] p = pq -> 6]

(* Ports by number or by name, paths that are regular expressions or not;  *)
(* one rule with up to three paths, or two rules with up to two each.      *)
MCPort(n) == [number |-> n, name |-> Unnamed]
MCBy(name) == [number |-> 0, name |-> name]
MCBackends == [path : {pa, pb}, svc : {s1, s2}, port : {MCPort(80)}]
              \cup [path : {pa}, svc : {s1}, port : {MCPort(81), MCBy(web)}]
              \cup [path : {pr}, svc : {s1, s2}, port : {MCPort(80)}]
MCFew == [path : {pa, pr}, svc : {s1, s2}, port : {MCPort(80)}]
MCOdd == [path : {pa}, svc : {s1, None}, port : {MCPort(80)}]

MCLists(S, n) == UNION {[1..m -> S] : m \in 1..n}
MCOne(lists) == {<<[host |-> h, paths |-> ps]>> : h \in {h1, h2}, ps \in lists}
MCTwo(lists) == {<<[host |-> h1, paths |-> ps], [host |-> h, paths |-> qs]>> :
                   h \in {h1, h2}, ps \in lists, qs \in lists}
MCRules == MCOne(MCLists(MCBackends, 2) \cup [1..3 -> MCFew]) \cup MCTwo(MCLists(MCFew, 2))

(* Annotations: none, and each of them in turn. *)
MCNoProxy == [path |-> None, host |-> None, target |-> None, regex |-> FALSE, ssl |-> FALSE]
MCNoRedirect == [path |-> None, host |-> "bad"]
MCPlain == [useWeight |-> FALSE, weights |-> <<>>, target |-> None, regex |-> FALSE,
            proxy |-> MCNoProxy, redirect |-> MCNoRedirect, allow |-> {}, deny |-> {},
            cos |-> FALSE]
MCProxyTo(p) == [MCNoProxy EXCEPT !.path = p, !.host = "name"]
MCEmpty == [MCPlain EXCEPT !.proxy.host = "empty"]

MCBasic == {[MCPlain EXCEPT !.regex = x, !.proxy = p] :
              x \in BOOLEAN, p \in {MCNoProxy, MCProxyTo(pb)}}
MCWeights == {<<>>} \cup {<<[svc |-> s, share |-> x]>> :
                            s \in {s1, s2}, x \in {"some", "malformed", "missing"}}
             \cup {<<[svc |-> s1, share |-> "some"], [svc |-> s2, share |-> x]>> :
                            x \in {"zero", "missing"}}
MCWeighted == {[x EXCEPT !.useWeight = TRUE, !.weights = w] :
                 x \in MCBasic \cup {[MCPlain EXCEPT !.allow = {cidr}], MCEmpty}, w \in MCWeights}

MCProxies == [path : {None, pa, pr}, host : {"ip", "name", "bad", "empty", None}, target : Targets,
              regex : BOOLEAN, ssl : BOOLEAN]
MCRedirects == [path : {None, pa, pb}, host : {"name", "bad"}]
MCParsed == {[MCPlain EXCEPT !.target = t, !.regex = x, !.proxy = p, !.redirect = d] :
               t \in Targets, x \in BOOLEAN, p \in MCProxies, d \in {MCNoRedirect}}
            \cup {[MCPlain EXCEPT !.regex = x, !.proxy = p, !.redirect = d] :
               x \in BOOLEAN, p \in {MCNoProxy, MCProxyTo(pa)}, d \in MCRedirects}
MCAccess == {[MCPlain EXCEPT !.allow = x, !.deny = y, !.redirect = d, !.cos = c] :
               x, y \in SUBSET MCItems, c \in BOOLEAN,
               d \in {MCNoRedirect, [path |-> pb, host |-> "name"]}}

(* Paths that overlap, among themselves and with the annotations'.         *)
MCOverlaps == MCLists([path : MCPaths, svc : {s1, s2}, port : {MCPort(80)}], 2)
MCClaims == {[MCPlain EXCEPT !.regex = x, !.proxy = p, !.redirect = [path |-> d, host |-> "name"]] :
               x \in BOOLEAN, d \in {None, pa, pb},
               p \in {MCNoProxy, MCProxyTo(pb)}
                    \cup {[MCProxyTo(q) EXCEPT !.regex = TRUE] : q \in {pr, pq}}}

Object(rules, default, ann) == [rules |-> rules, default |-> default, ann |-> ann]
MCBare(p, s) == <<[path |-> p, svc |-> s, port |-> MCPort(80)]>>

(* Objects with a default backend, with resources as backends, and with    *)
(* rules without paths.                                                    *)
MCDefaults == {None} \cup [svc : {s1, s2, None}, port : {MCPort(80), MCPort(81), MCBy(web)}]
MCOddRules == MCOne(MCLists(MCOdd, 2) \cup {<<>>}) \cup MCTwo(MCLists(MCOdd, 1) \cup {<<>>})
MCOddAnns == {MCPlain, MCEmpty} \cup {[MCPlain EXCEPT !.useWeight = TRUE, !.weights = w] : w \in MCWeights}

MCObjects ==
  {Object(rules, None, x) : rules \in MCRules, x \in MCBasic}
  \cup {Object(rules, None, x) :
          rules \in MCOne(MCLists(MCBackends, 2)) \cup MCTwo(MCLists(MCFew, 1)), x \in MCWeighted}
  \cup {Object(<<[host |-> h1, paths |-> ps]>>, None, x) :
          ps \in {MCBare(pa, s1), MCBare(pr, s1), MCBare(pb, s1) \o MCBare(pa, s2)}, x \in MCParsed}
  \cup {Object(<<[host |-> h1, paths |-> MCBare(pa, s1)]>>, None, x) : x \in MCAccess}
  \cup {Object(<<[host |-> h1, paths |-> ps]>>, None, x) : ps \in MCOverlaps, x \in MCClaims}
  \cup {Object(rules, d, x) : rules \in MCOddRules, d \in MCDefaults, x \in MCOddAnns}
  \cup {Object(<<>>, d, x) : d \in MCDefaults \ {None}, x \in MCOddAnns}

(* s2 exists or not, and the ports have names or not. *)
MCNamed == {[number |-> 80, name |-> web], [number |-> 81, name |-> Unnamed]}
MCClusters == {[s \in MCSvcs |-> IF s = s1 THEN p ELSE q] :
                 p \in {{MCPort(80)}, MCNamed}, q \in {{MCPort(80)}, {}, None}}
==============================================================================
