------------------------------ MODULE Backends ------------------------------
(***************************************************************************)
(* From an Ingress object to its configuration file and the default        *)
(* backend of nginx.conf: the admission webhook, checkService, the         *)
(* annotations, getBackendConfigure and getDefaultBackendConfigure, nginx  *)
(* -t on what server.tmpl renders, and where nginx then takes a request.   *)
(* The Services stay as they are, since Reconcile models their changes.    *)
(***************************************************************************)
EXTENDS Annotations

CONSTANTS
  Hosts,      \* host names of rules
  DnsHosts,   \* the ones ValidHost accepts
  Numbers,    \* port numbers
  Names,      \* port names
  Unnamed,    \* the empty port name
  Requests,   \* the paths clients request
  Prefixed,   \* <<p, r>>: r begins with p
  Matched,    \* <<p, r>>: r matches the regular expression ^p
  Length,     \* of a path
  Objects,    \* the Ingresses users submit
  Clusters    \* the Services there are: from names to sets of ports

PortType == [number : Numbers \cup {0}, name : Names \cup {Unnamed}]

(* A backend is a Service, or a resource, which leaves the Service nil.    *)
BackendType == [svc : Svcs \cup {None}, port : PortType]
PathType == [path : Paths, svc : Svcs \cup {None}, port : PortType]
RuleType == [host : Hosts, paths : Seq(PathType)]

(* ValidSpec of the webhook: some backend is given. *)
IsObject(o) ==
  /\ DOMAIN o = {"rules", "default", "ann"}
  /\ o.rules \in Seq(RuleType)
  /\ o.default \in BackendType \cup {None}
  /\ o.rules # <<>> \/ o.default # None
  /\ IsAnnotations(o.ann)

ASSUME ObjectsAssumption == \A o \in Objects : IsObject(o)
ASSUME RequestsAssumption ==
  /\ Prefixed \subseteq Paths \X Requests /\ Matched \subseteq Paths \X Requests
  /\ Length \in [Paths -> Nat]
  /\ \A x, y \in Prefixed : x[2] = y[2] /\ Length[x[1]] = Length[y[1]] => x = y
ASSUME NumbersAssumption == Numbers \subseteq Nat \ {0}
ASSUME ClustersAssumption ==
  Clusters \subseteq [Svcs -> (SUBSET [number : Numbers, name : Names \cup {Unnamed}]) \cup {None}]

VARIABLES
  ing, ports, \* the object and the Services
  pc,
  upstream,   \* weight: the Services of the shared upstream
  servers,    \* the server blocks rendered, one for each rule
  file,       \* conf.d/<name>-<namespace>.conf
  main        \* the default backend of nginx.conf
vars == <<ing, ports, pc, upstream, servers, file, main>>

Goto(l) == pc' = l /\ UNCHANGED <<ing, ports>>

(* The places <<rule, position>> of the object's paths. *)
Listed == UNION {{k} \X DOMAIN ing.rules[k].paths : k \in DOMAIN ing.rules}
At(p) == ing.rules[p[1]].paths[p[2]]

----------------------------------------------------------------------------
(* The webhook. *)

(* The duplicate check compares a path with the one before it.  What a     *)
(* proxy appends to the paths is the value of proxy-host: never a path,    *)
(* but when it is empty, a repetition if there is no path before it.       *)
Repeats(ps) == \E j \in DOMAIN ps : j > 1 /\ ps[j].path = ps[j - 1].path

(* Mutant: the path compared with is kept from one rule to the next.       *)
ValidPathAndHostKept ==
  \/ ing.ann.useWeight /\ ing.ann.proxy.host = None
  \/ /\ ing.ann.useWeight /\ ing.ann.proxy.host = "empty"
     /\ ing.rules # <<>> /\ ing.rules[1].host \in DnsHosts
  \/ \A k \in DOMAIN ing.rules :
       /\ ing.ann.proxy.host # None => ing.rules[k].host \in DnsHosts
       /\ ~Repeats(IF k = 1 THEN ing.rules[k].paths
                   ELSE ing.rules[k - 1].paths \o ing.rules[k].paths)
       /\ ing.ann.proxy.host = "empty" => ing.rules[k].paths # <<>>

(* Under use-weight the first path ends the check, unless proxy-host has a *)
(* value; an empty proxy-host is such a path, and has the host checked.    *)
ValidPathAndHost ==
  \/ ing.ann.useWeight /\ ing.ann.proxy.host = None
  \/ /\ ing.ann.useWeight /\ ing.ann.proxy.host = "empty"
     /\ ing.rules # <<>> /\ ing.rules[1].host \in DnsHosts
  \/ \A k \in DOMAIN ing.rules :
       /\ ing.ann.proxy.host # None => ing.rules[k].host \in DnsHosts
       /\ ~Repeats(ing.rules[k].paths)
       /\ ing.ann.proxy.host = "empty" => ing.rules[k].paths # <<>>

Admit == /\ pc = "submitted"
         /\ Goto(IF ValidPathAndHost THEN "services" ELSE "denied")
         /\ UNCHANGED <<upstream, servers, file, main>>

(* checkService of the default backend returns; those of the paths are     *)
(* collected.  "down" is a panic: a nil Service is dereferenced.           *)
ServicesCheck ==
  IF ing.default # None /\ ing.default.svc = None THEN "down"
  ELSE IF ing.default # None /\ ports[ing.default.svc] = None THEN "refused"
  ELSE IF \E p \in Listed : At(p).svc = None THEN "down"
  ELSE Verdict(\A p \in Listed : ports[At(p).svc] # None)

CheckServices ==
  /\ pc = "services"
  /\ Goto(IF ServicesCheck = "fine" THEN "annotations" ELSE ServicesCheck)
  /\ UNCHANGED <<upstream, servers, file, main>>

----------------------------------------------------------------------------
(* Annotations. *)

(* A port matches by number or by name, and its number is returned: zero   *)
(* for a port given by name.                                               *)
GetSvcPort(b) ==
  IF ports[b.svc] # None /\ \E q \in ports[b.svc] : q.number = b.port.number \/ q.name = b.port.name
  THEN b.port.number ELSE 0

(* The first path naming the Service, in the last rule that has one.       *)
GetBackend(s) ==
  LET naming == {p \in Listed : At(p).svc = s}
      k == Max({p[1] : p \in naming})
  IN At(<<k, Min({p[2] : p \in {q \in naming : q[1] = k}})>>)

(* What the weight parser makes of one item; "down" is a panic: GetSvcPort *)
(* dereferences the backend GetBackend did not find, or the item has no    *)
(* second part.                                                            *)
Item(w) ==
  IF ports[w.svc] = None THEN "refused"
  ELSE IF \A p \in Listed : At(p).svc # w.svc THEN "down"
  ELSE IF GetSvcPort(GetBackend(w.svc)) = 0 THEN "refused"
  ELSE CASE w.share \in {"some", "zero"} -> "fine"
         [] w.share = "malformed" -> "refused"
         [] w.share = "missing" -> "down"

SamePaths == \A p, q \in Listed : p[1] = q[1] => At(p).path = At(q).path

WeightCheck ==
  LET wrong == {k \in DOMAIN ing.ann.weights : Item(ing.ann.weights[k]) # "fine"}
  IN IF ~ing.ann.useWeight THEN "fine"
     ELSE IF ~SamePaths THEN "refused"
     ELSE IF wrong = {} THEN "fine" ELSE Item(ing.ann.weights[Min(wrong)])

(* Mutant: the error of the rewrite parser is swallowed.                   *)
ExtractLax ==
  /\ pc = "annotations"
  /\ LET failed == ((Checks(ing.ann) \ {RewriteCheck(ing.ann)}) \cup {WeightCheck}) \ {"fine"} IN
       \/ /\ failed = {}
          /\ Goto("configure")
          /\ upstream' = {ing.ann.weights[k].svc : k \in DOMAIN ing.ann.weights}
       \/ /\ \E check \in failed : Goto(check)
          /\ UNCHANGED upstream
  /\ UNCHANGED <<servers, file, main>>

(* Extract runs the parsers in the order of a Go map, so any of those that *)
(* fail may be the one that decides.                                       *)
Extract ==
  /\ pc = "annotations"
  /\ LET failed == (Checks(ing.ann) \cup {WeightCheck}) \ {"fine"} IN
       \/ /\ failed = {}
          /\ Goto("configure")
          /\ upstream' = {ing.ann.weights[k].svc : k \in DOMAIN ing.ann.weights}
       \/ /\ \E check \in failed : Goto(check)
          /\ UNCHANGED upstream
  /\ UNCHANGED <<servers, file, main>>

----------------------------------------------------------------------------
(* The configuration file. *)

(* Under use-weight only the first path of a rule is looked at. *)
Used == {p \in Listed : ing.ann.useWeight => p[2] = 1}

(* Regular expressions and rewrite annotations need each other. *)
checkIngressContent(b) == (b.path \in Regexps) = Rewrites(ing.ann)

(* Mutant: a port that is not found is rendered all the same. *)
ConfigurableAnyPort ==
  LET bad(k) == \E p \in Used : p[1] = k /\ ~checkIngressContent(At(p))
      empty(k) == ing.ann.useWeight /\ ing.rules[k].paths = <<>>
      stops == {k \in DOMAIN ing.rules : bad(k) \/ empty(k)}
  IN IF stops = {} THEN "fine" ELSE IF empty(Min(stops)) THEN "down" ELSE "refused"

(* With weights a rule without paths is indexed past its end, unless an    *)
(* earlier rule is refused.                                                *)
Configurable ==
  LET bad(k) == \E p \in Used : p[1] = k /\ ~(checkIngressContent(At(p)) /\ GetSvcPort(At(p)) # 0)
      empty(k) == ing.ann.useWeight /\ ing.rules[k].paths = <<>>
      stops == {k \in DOMAIN ing.rules : bad(k) \/ empty(k)}
  IN IF stops = {} THEN "fine" ELSE IF empty(Min(stops)) THEN "down" ELSE "refused"

(* A location of server.tmpl: its path, as a regular expression or not,    *)
(* and the Services of the upstream it proxies to.                         *)
Location(b) ==
  [path |-> b.path, regex |-> Rewrites(ing.ann), kind |-> "backend", port |-> GetSvcPort(b),
   to |-> IF ing.ann.useWeight THEN upstream ELSE {b.svc}]

Server(k) ==
  LET ps == ing.rules[k].paths
      n == IF ing.ann.useWeight THEN 1 ELSE Len(ps)
  IN [host |-> ing.rules[k].host,
      cos |-> ing.ann.cos,
      access |-> AccessRules(ing.ann),
      locations |-> RedirectLocations(ing.ann.redirect) \o ProxyLocations(ing.ann.proxy)
                    \o [j \in 1..n |-> Location(ps[j])]]

(* Mutant: every rule is rendered with the paths of the first. *)
ConfigureFirst ==
  /\ pc = "configure" /\ ing.rules # <<>>
  /\ IF Configurable = "fine"
     THEN /\ servers' = [k \in DOMAIN ing.rules |-> [Server(1) EXCEPT !.host = ing.rules[k].host]]
          /\ Goto("test")
     ELSE /\ Goto(Configurable)
          /\ UNCHANGED servers
  /\ UNCHANGED <<upstream, file, main>>

Configure ==
  /\ pc = "configure" /\ ing.rules # <<>>
  /\ IF Configurable = "fine"
     THEN /\ servers' = [k \in DOMAIN ing.rules |-> Server(k)]
          /\ Goto("test")
     ELSE /\ Goto(Configurable)
          /\ UNCHANGED servers
  /\ UNCHANGED <<upstream, file, main>>

(* server.tmpl defines an upstream for every path, or one for every server *)
(* under use-weight.  nginx refuses an upstream defined twice or without a *)
(* server, a plain location given twice, a proxy to a host it cannot       *)
(* resolve and what is no address; a second server of a host it ignores.   *)
Rendered == UNION {{k} \X DOMAIN servers[k].locations : k \in DOMAIN servers}
To(x) == servers[x[1]].locations[x[2]]
Backed == {x \in Rendered : To(x).kind = "backend"}

NginxAccepts ==
  /\ \A x \in Backed : To(x).to # {}
  /\ \A x, y \in Backed : To(x).to = To(y).to => x = y
  /\ \A x, y \in Rendered :
       x[1] = y[1] /\ ~To(x).regex /\ ~To(y).regex /\ To(x).path = To(y).path => x = y
  /\ \A x \in Rendered : To(x).kind = "proxy" => To(x).to \subseteq {"ip", "name"}
  /\ \A k \in DOMAIN servers : \A r \in DOMAIN servers[k].access :
       servers[k].access[r].who \subseteq Addresses \cup Networks

Test == /\ pc = "test"
        /\ IF NginxAccepts THEN Goto("default") /\ file' = servers
                           ELSE Goto("refused") /\ UNCHANGED file
        /\ UNCHANGED <<upstream, servers, main>>

----------------------------------------------------------------------------
(* The default backend comes last: a failure leaves the servers in place.  *)
Default ==
  /\ pc = "default" \/ (pc = "configure" /\ ing.rules = <<>>)
  /\ \/ /\ ing.default = None
        /\ Goto("served")
        /\ UNCHANGED main
     \/ /\ ing.default # None
        /\ IF GetSvcPort(ing.default) = 0
           THEN Goto("refused") /\ UNCHANGED main
           ELSE Goto("served") /\ main' = ing.default
  /\ UNCHANGED <<upstream, servers, file>>

----------------------------------------------------------------------------
Init == /\ ing \in Objects
        /\ ports \in Clusters
        /\ pc = "submitted"
        /\ upstream = {}
        /\ servers = <<>> /\ file = <<>>
        /\ main = None

Next == Admit \/ CheckServices \/ Extract \/ Configure \/ Test \/ Default

Spec == Init /\ [][Next]_vars

----------------------------------------------------------------------------
Final == {"served", "denied", "refused", "down"}

(* Every rendered location of a Service has a port, and proxies to         *)
(* Services of the cluster.                                                *)
TypeOK ==
  /\ IsObject(ing) /\ ports \in Clusters
  /\ pc \in Final \cup {"submitted", "services", "annotations", "configure", "test", "default"}
  /\ upstream \subseteq Svcs
  /\ file \in {<<>>, servers}
  /\ main \in {None, ing.default}
  /\ \A x \in Backed : To(x).port \in Numbers /\ \A s \in To(x).to : ports[s] # None

----------------------------------------------------------------------------
(* Which objects are served.                                               *)

(* The plain paths the annotations take. *)
Taken == ({ing.ann.redirect.path} \cup ({ing.ann.proxy.path} \ Regexps)) \ {None}

Exposed(b) == /\ b.svc # None
              /\ ports[b.svc] # None
              /\ \E q \in ports[b.svc] : q.number = b.port.number

(* Annotations as their parsers document them: targets are paths, a proxy  *)
(* has a host, and a regular expression exactly when it rewrites, https    *)
(* needs a name, and lists are of addresses.  The networks ipallowlist     *)
(* gives as its example are no addresses here: PassIsIp refuses them.      *)
SoundProxy(p) ==
  \/ p.path = None /\ p.host = None /\ p.target = None /\ ~p.regex
  \/ /\ p.path # None /\ p.host \in {"ip", "name"} /\ p.target # "bad"
     /\ p.path \in Regexps <=> p.regex \/ p.target # None
     /\ p.host = "ip" => ~p.ssl
SoundAnnotations ==
  LET a == ing.ann IN
    /\ a.target # "bad"
    /\ SoundProxy(a.proxy)
    /\ a.redirect.path # None => a.redirect.host = "name" /\ a.redirect.path # a.proxy.path
    /\ a.allow \cup a.deny \subseteq Addresses

(* Two Services at least share the traffic, "svc:weight=n" each, and they  *)
(* are Services of the paths, which are all the same; next to a proxy this *)
(* would be a duplicate path.  One rule only: the upstream has one name.   *)
SoundWeights ==
  /\ Len(ing.rules) = 1
  /\ Len(ing.ann.weights) >= 2
  /\ \A k \in DOMAIN ing.ann.weights :
       /\ ing.ann.weights[k].share \in {"some", "zero"}
       /\ \E p \in Listed : At(p).svc = ing.ann.weights[k].svc
  /\ SamePaths
  /\ ing.ann.proxy.host = None

(* An object nobody has a reason to refuse: Services that exist and their  *)
(* ports, each Service at one place (an upstream is named after it), no    *)
(* path twice in a rule or also the annotations', regular expressions only *)
(* when they are enabled, and next to a proxy DNS names for hosts.         *)
SoundRules ==
  /\ SoundAnnotations
  /\ ing.ann.proxy.host # None => \A k \in DOMAIN ing.rules : ing.rules[k].host \in DnsHosts
  /\ \A p \in Listed : Exposed(At(p)) /\ (At(p).path \in Regexps <=> Rewrites(ing.ann))
  /\ \A p, q \in Listed : At(p).svc = At(q).svc => p = q
  /\ ~Rewrites(ing.ann) => \A p \in Listed : At(p).path \notin Taken
  /\ IF ing.ann.useWeight THEN SoundWeights
     ELSE \A p, q \in Listed : p[1] = q[1] /\ At(p).path = At(q).path => p = q

(* A sound object is not lost in the checks of webhook, controller,        *)
(* parsers and nginx: its servers get written and, unless its default      *)
(* backend is wrong, it ends served with the default backend in nginx.conf.*)
SoundIsServed ==
  pc \in Final /\ SoundRules =>
    /\ (ing.default # None => ing.default.svc # None /\ ports[ing.default.svc] # None) =>
         DOMAIN file = DOMAIN ing.rules
    /\ (ing.default # None => Exposed(ing.default)) => pc = "served" /\ main = ing.default

(* What gets through them is complete and without contradictions: every    *)
(* rule has its server and the default backend is in place, targets are    *)
(* paths and hosts exist, lists name addresses or networks, all Services   *)
(* exist and, without weights, each is the backend of one place; and no    *)
(* plain path of a rule is also another's or the annotations'.             *)
ServedIsSound ==
  /\ pc = "served" => DOMAIN file = DOMAIN ing.rules /\ main = ing.default
  /\ file # <<>> =>
       /\ ing.ann.target # "bad" /\ ing.ann.proxy.target # "bad"
       /\ ing.ann.redirect.path # None => ing.ann.redirect.host = "name"
       /\ ing.ann.proxy.path # None => ing.ann.proxy.host \in {"ip", "name"}
       /\ ing.ann.allow \cup ing.ann.deny \subseteq Addresses \cup Networks
       /\ \A p \in Listed : At(p).svc # None /\ ports[At(p).svc] # None
       /\ ing.ann.useWeight => ing.ann.weights # <<>>
       /\ ~ing.ann.useWeight => \A p, q \in Listed : At(p).svc = At(q).svc => p = q
       /\ ~Rewrites(ing.ann) => \A p \in Listed :
            /\ At(p).path \notin Taken
            /\ ~ing.ann.useWeight =>
                 \A q \in Listed : p[1] = q[1] /\ At(p).path = At(q).path => p = q

----------------------------------------------------------------------------
(* Where nginx takes a request.                                            *)

(* The server for a host is the first; in it, a request is for the first   *)
(* regular expression it matches, or else for the longest prefix.  The     *)
(* redirect of a prefix "/p/" for the request "/p" is left out.            *)
ServerOf(h) == file[Min({k \in DOMAIN file : file[k].host = h})]
Takes(loc, r) == <<loc.path, r>> \in IF loc.regex THEN Matched ELSE Prefixed
OnRequest(s, r) == {j \in DOMAIN s.locations : Takes(s.locations[j], r)}
LocationOf(s, r) ==
  LET on == OnRequest(s, r)
      regex == {j \in on : s.locations[j].regex}
      longer(i, j) == Length[s.locations[i].path] > Length[s.locations[j].path]
  IN s.locations[IF regex # {} THEN Min(regex)
                 ELSE CHOOSE j \in on : \A i \in on : ~longer(i, j)]

(* The places of a rule that ask for a request, and the best: the first of *)
(* the rule's regular expressions, or its longest path.                    *)
Asking(k, r) ==
  {p \in Listed : p[1] = k /\ <<At(p).path, r>> \in IF Rewrites(ing.ann) THEN Matched ELSE Prefixed}
Best(p, r) ==
  /\ p \in Asking(p[1], r)
  /\ \A q \in Asking(p[1], r) : IF Rewrites(ing.ann) THEN p[2] <= q[2]
                                ELSE Length[At(q).path] <= Length[At(p).path]

(* The annotations come before the place: a proxy with a regular           *)
(* expression always, the redirect and other proxies with a longer path    *)
(* unless the place has a regular expression.                              *)
ProxyClaims(r) == ing.ann.proxy.path \in Regexps /\ <<ing.ann.proxy.path, r>> \in Matched
Outdone(p, r) ==
  /\ ~Rewrites(ing.ann)
  /\ \E t \in Taken : <<t, r>> \in Prefixed /\ Length[t] > Length[At(p).path]

(* Where a rule is the first of its host, each request goes to the Service *)
(* of the rule's best place for it, or under weights to Services of the    *)
(* object only, unless the object's own proxy or redirect claims it; and a *)
(* request no place asks for goes to no Service at all.                    *)
Routed ==
  \A k \in DOMAIN file : \A r \in Requests :
    (\A i \in 1..k - 1 : ing.rules[i].host # ing.rules[k].host) =>
      LET server == ServerOf(ing.rules[k].host)
          loc == LocationOf(server, r)
      IN IF OnRequest(server, r) = {} THEN Asking(k, r) = {}
         ELSE /\ Asking(k, r) = {} => loc.kind # "backend"
              /\ \A p \in Asking(k, r) : Best(p, r) =>
                   IF ProxyClaims(r) THEN loc.kind = "proxy"
                   ELSE IF Outdone(p, r) THEN loc.kind \in {"redirect", "proxy"}
                   ELSE /\ loc.kind = "backend" /\ loc.port # 0
                        /\ IF ing.ann.useWeight THEN loc.to \subseteq {At(q).svc : q \in Listed}
                                                ELSE loc.to = {At(p).svc}

----------------------------------------------------------------------------
(* nginx takes the first access rule that names a client. *)
Admits(s, c) ==
  LET naming == {k \in DOMAIN s.access : c \in s.access[k].who}
  IN naming = {} \/ s.access[Min(naming)].admit

(* What becomes of a request of a client, by nginx's phases: the returns   *)
(* of server.tmpl, to any OPTIONS request under use-cos and in a redirect, *)
(* come before access is checked.                                          *)
Answer(s, c, options, r) ==
  LET found == OnRequest(s, r) # {} IN
    IF s.cos /\ options THEN "preflight"
    ELSE IF found /\ LocationOf(s, r).kind = "redirect" THEN "redirect"
    ELSE IF ~Admits(s, c) THEN "forbidden"
    ELSE IF found THEN LocationOf(s, r).kind ELSE "not found"

(* Nobody whom the lists keep out gets through to a Service or to the      *)
(* proxy, by whatever path, and nobody else is turned away.  Addresses in  *)
(* both lists are left aside: the deny list is documented to deny them,    *)
(* but the allow list, rendered first, admits them.                        *)
AccessAsAsked ==
  LET a == ing.ann
      welcome(c) == (a.allow # {} => c \in a.allow) /\ c \notin a.deny
  IN \A k \in DOMAIN file : \A c \in Addresses \ (a.allow \cap a.deny) :
       \A options \in BOOLEAN, r \in Requests :
         LET answer == Answer(file[k], c, options, r)
         IN /\ answer \in {"backend", "proxy"} => welcome(c)
            /\ answer = "forbidden" => ~welcome(c)

(* "svc port not exists" (getBackendConfigure): an object is served only   *)
(* when the port of its every backend is one its Service has.              *)
PortExposed ==
  pc = "served" /\ ~ing.ann.useWeight => \A p \in Listed :
    \E q \in ports[At(p).svc] : q.number = At(p).port.number
==============================================================================
