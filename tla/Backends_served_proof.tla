------------------------ MODULE Backends_served_proof ------------------------
(***************************************************************************)
(* What the chain of checks serves, for objects with any number of rules   *)
(* and paths, on any Services: exactly what is Servable, which is said of  *)
(* the object alone.  From that, sound objects are served and what is      *)
(* served is sound.                                                        *)
(***************************************************************************)
EXTENDS Backends_proof

----------------------------------------------------------------------------
(* Which objects the code serves, limits of its own included, such as the  *)
(* empty port name that matches any, or weights with one Service.          *)

Known(b) == /\ b.svc # None
            /\ ports[b.svc] # None
            /\ b.port.number # 0
            /\ \E q \in ports[b.svc] : q.number = b.port.number \/ q.name = b.port.name
Sound(b) == Known(b) /\ (b.path \in Regexps <=> Rewrites(ing.ann))

(* The annotations by themselves: targets are paths, a proxy has a host    *)
(* and a regular expression exactly when it rewrites, https needs a name;  *)
(* lists are of addresses.                                                 *)
ServableAnnotations ==
  LET a == ing.ann IN
    /\ a.target # "bad"
    /\ a.proxy.path \in Regexps <=> a.proxy.regex \/ a.proxy.target # None
    /\ a.proxy.target # "bad"
    /\ a.proxy.host = "ip" => ~a.proxy.ssl
    /\ a.redirect.path # None => a.redirect.host = "name"
    /\ a.allow \cup a.deny \subseteq IpLike

(* And in the servers of a rule. *)
RenderableAnnotations ==
  LET a == ing.ann IN
    /\ a.proxy.path # None => a.proxy.host \in {"ip", "name"}
    /\ a.redirect.path # None => a.redirect.path \notin {a.proxy.path} \ Regexps
    /\ a.allow \cup a.deny \subseteq Addresses \cup Networks

(* Without weights: no Service is used twice, in the whole object, and no  *)
(* path twice in a rule (regular expressions only not in a row); an empty  *)
(* proxy-host needs paths.                                                 *)
ServablePlain ==
  /\ \A p \in Listed : Sound(At(p))
  /\ \A p, q \in Listed : At(p).svc = At(q).svc => p = q
  /\ \A p, q \in Listed :
       p[1] = q[1] /\ p[2] < q[2] /\ At(p).path = At(q).path =>
         Rewrites(ing.ann) /\ q[2] # p[2] + 1
  /\ ~Rewrites(ing.ann) => \A p \in Listed : At(p).path \notin Taken
  /\ ing.ann.proxy.host = "empty" => \A k \in DOMAIN ing.rules : ing.rules[k].paths # <<>>

(* With weights: a single rule with a single path, shared among Services   *)
(* that its backends name; a proxy allows one backend only.                *)
Shared(w) == /\ w.share \in {"some", "zero"}
             /\ \E p \in Listed : /\ At(p).svc = w.svc
                                  /\ Known(At(p))
                                  /\ \A q \in Listed : At(q).svc = At(p).svc => q[2] >= p[2]
ServableWeighted ==
  /\ Len(ing.rules) = 1 /\ ing.rules[1].paths # <<>>
  /\ \A p \in Listed : /\ At(p).svc # None /\ ports[At(p).svc] # None
                       /\ At(p).path = ing.rules[1].paths[1].path
  /\ ing.ann.weights # <<>>
  /\ \A k \in DOMAIN ing.ann.weights : Shared(ing.ann.weights[k])
  /\ Sound(ing.rules[1].paths[1])
  /\ ing.ann.proxy.host \notin {None, "empty"} => Len(ing.rules[1].paths) = 1
  /\ ~Rewrites(ing.ann) => ing.rules[1].paths[1].path \notin Taken

(* The servers of the rules are served; a default backend only has to have *)
(* an existing Service.                                                    *)
ServableRules ==
  /\ ServableAnnotations
  /\ ing.ann.proxy.host # None => \A k \in DOMAIN ing.rules : ing.rules[k].host \in DnsHosts
  /\ ing.default # None => ing.default.svc # None /\ ports[ing.default.svc] # None
  /\ IF ing.rules = <<>> THEN ing.ann.useWeight => ing.ann.weights = <<>>
     ELSE /\ RenderableAnnotations
          /\ IF ing.ann.useWeight THEN ServableWeighted ELSE ServablePlain

Servable == ServableRules /\ (ing.default # None => Known(ing.default))

(* The file is written exactly when the rules are servable, whatever       *)
(* becomes of the default backend.                                         *)
Exactly ==
  pc \in Final => /\ pc = "served" <=> Servable
                  /\ file # <<>> <=> ServableRules /\ ing.rules # <<>>
                  /\ main # None <=> Servable /\ ing.default # None

----------------------------------------------------------------------------

(* What each check has to say, of the object and the Services alone. *)
ParsersFine == Checks(ing.ann) \subseteq {"fine"} /\ WeightCheck = "fine"

(* And nginx, of what is rendered. *)
Acceptable ==
  /\ RenderableAnnotations
  /\ IF ing.ann.useWeight
     THEN /\ Len(ing.rules) = 1 /\ ing.ann.weights # <<>>
          /\ ~Rewrites(ing.ann) => ing.rules[1].paths[1].path \notin Taken
     ELSE /\ \A p, q \in Listed : At(p).svc = At(q).svc => p = q
          /\ ~Rewrites(ing.ann) =>
               /\ \A p \in Listed : At(p).path \notin Taken
               /\ \A p, q \in Listed : p[1] = q[1] /\ At(p).path = At(q).path => p = q

RulesPass ==
  /\ ValidPathAndHost /\ ServicesCheck = "fine" /\ ParsersFine
  /\ ing.rules # <<>> => Configurable = "fine" /\ Acceptable

(* What is known at each step, and at the end. *)
Chain ==
  /\ pc \in {"services", "annotations", "configure", "test", "default"} => ValidPathAndHost
  /\ pc \in {"annotations", "configure", "test", "default"} => ServicesCheck = "fine"
  /\ pc \in {"configure", "test", "default"} =>
       /\ ParsersFine
       /\ upstream = {ing.ann.weights[k].svc : k \in DOMAIN ing.ann.weights}
  /\ pc \in {"test", "default"} => Configurable = "fine" /\ ing.rules # <<>> /\ servers # <<>>
  /\ pc = "default" => Acceptable /\ file # <<>>
  /\ pc \notin Final => main = None
  /\ pc \in Final =>
       /\ file # <<>> <=> RulesPass /\ ing.rules # <<>>
       /\ pc = "served" <=> RulesPass /\ (ing.default # None => GetSvcPort(ing.default) # 0)
       /\ main # None <=> pc = "served" /\ ing.default # None

----------------------------------------------------------------------------
(* What each check accepts.                                                *)

(* The port of a Service that exists is found when it is a number and the  *)
(* Service has it, or its name.                                            *)
LEMMA PortFound ==
  ASSUME NEW b, b.svc # None, ports[b.svc] # None
  PROVE  GetSvcPort(b) # 0 <=> Known(b)
BY DEF GetSvcPort, Known

LEMMA ServicesFine ==
  ServicesCheck = "fine" <=>
    /\ ing.default # None => ing.default.svc # None /\ ports[ing.default.svc] # None
    /\ \A p \in Listed : At(p).svc # None /\ ports[At(p).svc] # None
BY DEF ServicesCheck, Verdict

LEMMA AnnotationsFine == Checks(ing.ann) \subseteq {"fine"} <=> ServableAnnotations
<1> DEFINE a == ing.ann
<1>1. RewriteCheck(a) = "fine" <=> a.target # "bad"
  BY DEF RewriteCheck, Verdict
<1>2. ProxyCheck(a.proxy) = "fine" <=>
        /\ a.proxy.path \in Regexps <=> a.proxy.regex \/ a.proxy.target # None
        /\ a.proxy.target # "bad" /\ (a.proxy.host = "ip" => ~a.proxy.ssl)
  BY DEF ProxyCheck, ProxyIsRegex, Verdict
<1>3. RedirectCheck(a.redirect) = "fine" <=> (a.redirect.path # None => a.redirect.host = "name")
  BY DEF RedirectCheck, Verdict
<1>4. ListCheck(a.allow) = "fine" /\ ListCheck(a.deny) = "fine" <=> a.allow \cup a.deny \subseteq IpLike
  BY DEF ListCheck, Verdict
<1>5. Checks(a) \subseteq {"fine"} <=>
        /\ RewriteCheck(a) = "fine" /\ ProxyCheck(a.proxy) = "fine"
        /\ RedirectCheck(a.redirect) = "fine"
        /\ ListCheck(a.allow) = "fine" /\ ListCheck(a.deny) = "fine"
  BY DEF Checks
<1> QED BY <1>1, <1>2, <1>3, <1>4, <1>5 DEF ServableAnnotations

LEMMA WeightsFineExactly ==
  ASSUME IsObject(ing)
  PROVE  WeightCheck = "fine" <=>
           (ing.ann.useWeight => /\ SamePaths
                                 /\ \A k \in DOMAIN ing.ann.weights :
                                      Item(ing.ann.weights[k]) = "fine")
<1> DEFINE wrong == {k \in DOMAIN ing.ann.weights : Item(ing.ann.weights[k]) # "fine"}
<1>1. wrong \subseteq Nat
  BY Typed
<1>2. wrong # {} => Min(wrong) \in wrong
  <2> HIDE DEF wrong
  <2> QED BY <1>1, MinIn
<1>3. wrong # {} => Item(ing.ann.weights[Min(wrong)]) # "fine"
  BY <1>2
<1> QED BY <1>3 DEF WeightCheck

LEMMA ConfigureFine ==
  Configurable = "fine" <=>
    /\ \A p \in Used : checkIngressContent(At(p)) /\ GetSvcPort(At(p)) # 0
    /\ ing.ann.useWeight => \A k \in DOMAIN ing.rules : ing.rules[k].paths # <<>>
<1> DEFINE bad(k) == \E p \in Used : p[1] = k /\ ~(checkIngressContent(At(p)) /\ GetSvcPort(At(p)) # 0)
           empty(k) == ing.ann.useWeight /\ ing.rules[k].paths = <<>>
           stops == {k \in DOMAIN ing.rules : bad(k) \/ empty(k)}
<1>1. Configurable = "fine" <=> stops = {}
  BY DEF Configurable
<1>2. \A p \in Used : p[1] \in DOMAIN ing.rules
  BY Places DEF Used
<1> QED BY <1>1, <1>2

(* With a single rule, GetBackend is the first of its paths that names the *)
(* Service.                                                                *)
LEMMA FirstNaming ==
  ASSUME IsObject(ing), Len(ing.rules) = 1, NEW s, \E p \in Listed : At(p).svc = s
  PROVE  \E p \in Listed : /\ At(p).svc = s /\ GetBackend(s) = At(p)
                           /\ \A q \in Listed : At(q).svc = s => q[2] >= p[2]
<1> DEFINE naming == {p \in Listed : At(p).svc = s}
           first == {p[1] : p \in naming}
           second == {p[2] : p \in {q \in naming : q[1] = 1}}
<1>1. DOMAIN ing.rules = {1}
  <2>1. ing.rules \in Seq(RuleType)
    BY Typed
  <2> HIDE DEF RuleType
  <2> QED BY <2>1
<1>2. \A p \in naming : p = <<1, p[2]>> /\ p[1] = 1 /\ p[2] \in Nat
  <2> TAKE p \in naming
  <2>1. p = <<p[1], p[2]>> /\ p[1] \in DOMAIN ing.rules /\ p[2] \in DOMAIN ing.rules[p[1]].paths
    BY Places
  <2>2. ing.rules[1].paths \in Seq(PathType)
    BY <1>1, Typed
  <2>3. p[2] \in Nat
    <3> HIDE DEF PathType
    <3> QED BY <1>1, <2>1, <2>2
  <2> QED BY <1>1, <2>1, <2>3
<1>3. first = {1} /\ Max(first) = 1
  <2>1. first = {1}
    BY <1>2
  <2> QED BY <2>1 DEF Max
<1>4. second \subseteq Nat /\ second # {}
  BY <1>2
<1>5. Min(second) \in second /\ \A y \in second : Min(second) <= y
  <2> HIDE DEF second
  <2> QED BY <1>4, MinIn
<1>6. GetBackend(s) = At(<<1, Min(second)>>)
  BY <1>3 DEF GetBackend
<1>7. PICK p \in naming : p[2] = Min(second)
  BY <1>5
<1>8. p \in Listed /\ At(p).svc = s /\ GetBackend(s) = At(p)
  BY <1>2, <1>6, <1>7
<1>9. \A q \in naming : q[2] >= p[2]
  BY <1>2, <1>5, <1>7
<1> QED BY <1>8, <1>9

----------------------------------------------------------------------------
(* The checks pass exactly the servable rules.                             *)

(* The items the weight parser accepts are the ones that share: for the    *)
(* single rule of an object whose paths all have existing Services.        *)
LEMMA ItemFine ==
  ASSUME IsObject(ing), Len(ing.rules) = 1, NEW w \in WeightType,
         \A p \in Listed : At(p).svc # None /\ ports[At(p).svc] # None
  PROVE  Item(w) = "fine" <=> Shared(w)
<1>1. w.svc \in Svcs /\ w.share \in {"some", "zero", "malformed", "missing"}
  BY DEF WeightType
<1>2. CASE \A p \in Listed : At(p).svc # w.svc
  BY <1>2 DEF Item, Shared
<1>3. CASE \E p \in Listed : At(p).svc = w.svc
  <2>1. PICK p \in Listed : /\ At(p).svc = w.svc /\ GetBackend(w.svc) = At(p)
                            /\ \A q \in Listed : At(q).svc = w.svc => q[2] >= p[2]
    BY <1>3, FirstNaming
  <2>2. GetSvcPort(GetBackend(w.svc)) # 0 <=> Known(At(p))
    BY <2>1, PortFound
  <2>3. ports[w.svc] # None
    BY <2>1
  <2>4. Item(w) = "fine" <=> Known(At(p)) /\ w.share \in {"some", "zero"}
    BY <1>1, <1>3, <2>2, <2>3 DEF Item
  <2>5. ASSUME NEW r \in Listed, At(r).svc = w.svc, Known(At(r)),
               \A q \in Listed : At(q).svc = At(r).svc => q[2] >= r[2]
        PROVE  Known(At(p))
    <3>1. r[2] >= p[2] /\ p[2] >= r[2]
      BY <2>1, <2>5
    <3>2. /\ r = <<r[1], r[2]>> /\ p = <<p[1], p[2]>>
          /\ r[1] = 1 /\ p[1] = 1 /\ r[2] \in Nat /\ p[2] \in Nat
      <4>1. DOMAIN ing.rules = {1} /\ ing.rules[1].paths \in Seq(PathType)
        <5>1. ing.rules \in Seq(RuleType)
          BY Typed
        <5>2. DOMAIN ing.rules = {1}
          <6> HIDE DEF RuleType
          <6> QED BY <5>1
        <5> QED BY <5>2, Typed
      <4>2. DOMAIN ing.rules[1].paths \subseteq Nat
        <5> HIDE DEF PathType
        <5> QED BY <4>1
      <4> QED BY <4>1, <4>2, Places
    <3>3. r = p
      BY <3>1, <3>2
    <3> QED BY <2>5, <3>3
  <2> QED BY <2>1, <2>4, <2>5 DEF Shared
<1> QED BY <1>2, <1>3

(* The paths of an object without weights. *)
LEMMA PlainPass ==
  ASSUME IsObject(ing), ~ing.ann.useWeight, ing.rules # <<>>
  PROVE  RulesPass <=> ServableRules
<1>1. /\ \A k \in DOMAIN ing.rules : \A j \in DOMAIN ing.rules[k].paths :
           <<k, j>> \in Listed /\ At(<<k, j>>) = ing.rules[k].paths[j]
      /\ \A p \in Listed : /\ p = <<p[1], p[2]>> /\ p[1] \in DOMAIN ing.rules
                           /\ p[2] \in DOMAIN ing.rules[p[1]].paths
                           /\ At(p) = ing.rules[p[1]].paths[p[2]]
  BY Places DEF At
<1>2. \A k \in DOMAIN ing.rules : \A j \in DOMAIN ing.rules[k].paths : j \in Nat
  <2> TAKE k \in DOMAIN ing.rules
  <2>1. ing.rules[k].paths \in Seq(PathType)
    BY Typed
  <2> HIDE DEF PathType
  <2> QED BY <2>1
<1>3. \A k \in DOMAIN ing.rules : \A j \in DOMAIN ing.rules[k].paths :
        j > 1 => j - 1 \in DOMAIN ing.rules[k].paths
  <2> TAKE k \in DOMAIN ing.rules
  <2>1. ing.rules[k].paths \in Seq(PathType)
    BY Typed
  <2> HIDE DEF PathType
  <2> QED BY <2>1
<1>4. (\A k \in DOMAIN ing.rules : ~Repeats(ing.rules[k].paths)) <=>
        \A p, q \in Listed : p[1] = q[1] /\ q[2] = p[2] + 1 => At(p).path # At(q).path
  <2>1. ASSUME \A k \in DOMAIN ing.rules : ~Repeats(ing.rules[k].paths),
               NEW p \in Listed, NEW q \in Listed, p[1] = q[1], q[2] = p[2] + 1
        PROVE  At(p).path # At(q).path
    <3>1. /\ q[2] \in DOMAIN ing.rules[q[1]].paths /\ q[2] > 1 /\ p[2] = q[2] - 1
          /\ At(p) = ing.rules[q[1]].paths[q[2] - 1] /\ At(q) = ing.rules[q[1]].paths[q[2]]
          /\ q[1] \in DOMAIN ing.rules
      <4>1. /\ p[1] \in DOMAIN ing.rules /\ p[2] \in DOMAIN ing.rules[p[1]].paths
            /\ q[2] \in DOMAIN ing.rules[q[1]].paths
        BY <1>1
      <4>2. p[2] \in Nat /\ q[2] \in Nat /\ p[2] > 0
        <5>1. ing.rules[p[1]].paths \in Seq(PathType)
          BY <4>1, Typed
        <5>2. p[2] \in 1..Len(ing.rules[p[1]].paths) /\ Len(ing.rules[p[1]].paths) \in Nat
          <6> HIDE DEF PathType
          <6> QED BY <4>1, <5>1
        <5> QED BY <2>1, <5>2
      <4>3. q[2] > 1 /\ p[2] = q[2] - 1
        BY <2>1, <4>2
      <4> QED BY <1>1, <2>1, <4>1, <4>3
    <3> QED BY <2>1, <3>1 DEF Repeats
  <2>2. ASSUME \A p, q \in Listed : p[1] = q[1] /\ q[2] = p[2] + 1 => At(p).path # At(q).path,
               NEW k \in DOMAIN ing.rules, Repeats(ing.rules[k].paths)
        PROVE  FALSE
    <3>1. PICK j \in DOMAIN ing.rules[k].paths :
            j > 1 /\ ing.rules[k].paths[j].path = ing.rules[k].paths[j - 1].path
      BY <2>2 DEF Repeats
    <3>2. /\ <<k, j>> \in Listed /\ <<k, j - 1>> \in Listed /\ j = (j - 1) + 1
          /\ At(<<k, j>>) = ing.rules[k].paths[j] /\ At(<<k, j - 1>>) = ing.rules[k].paths[j - 1]
      BY <1>1, <1>2, <1>3, <3>1
    <3> QED BY <2>2, <3>1, <3>2
  <2> QED BY <2>1, <2>2
<1>5. ValidPathAndHost <=>
        /\ ing.ann.proxy.host # None => \A k \in DOMAIN ing.rules : ing.rules[k].host \in DnsHosts
        /\ \A k \in DOMAIN ing.rules : ~Repeats(ing.rules[k].paths)
        /\ ing.ann.proxy.host = "empty" => \A k \in DOMAIN ing.rules : ing.rules[k].paths # <<>>
  BY DEF ValidPathAndHost
<1>6. Used = Listed
  BY DEF Used
<1>7. ParsersFine <=> ServableAnnotations
  BY AnnotationsFine, WeightsFineExactly DEF ParsersFine
<1>8. Configurable = "fine" <=> \A p \in Listed : checkIngressContent(At(p)) /\ GetSvcPort(At(p)) # 0
  BY <1>6, ConfigureFine
<1>9. (\A p \in Listed : At(p).svc # None /\ ports[At(p).svc] # None) /\ Configurable = "fine"
        <=> \A p \in Listed : Sound(At(p))
  <2>1. \A p \in Listed : At(p).svc # None /\ ports[At(p).svc] # None =>
          (GetSvcPort(At(p)) # 0 <=> Known(At(p)))
    BY PortFound
  <2>2. \A p \in Listed : checkIngressContent(At(p)) <=> (At(p).path \in Regexps <=> Rewrites(ing.ann))
    BY DEF checkIngressContent, Rewrites
  <2>3. \A p \in Listed : Sound(At(p)) <=>
          /\ At(p).svc # None /\ ports[At(p).svc] # None
          /\ checkIngressContent(At(p)) /\ GetSvcPort(At(p)) # 0
    BY <2>1, <2>2 DEF Sound, Known
  <2> QED BY <1>8, <2>3
<1>10. (\A p, q \in Listed : p[1] = q[1] /\ q[2] = p[2] + 1 => At(p).path # At(q).path)
       /\ (~Rewrites(ing.ann) => \A p, q \in Listed : p[1] = q[1] /\ At(p).path = At(q).path => p = q)
       <=> \A p, q \in Listed : p[1] = q[1] /\ p[2] < q[2] /\ At(p).path = At(q).path =>
             Rewrites(ing.ann) /\ q[2] # p[2] + 1
  <2>1. \A p \in Listed : p[2] \in Nat /\ p = <<p[1], p[2]>>
    BY <1>1, <1>2
  <2>2. \A p, q \in Listed : p[1] = q[1] => p = q \/ p[2] < q[2] \/ q[2] < p[2]
    BY <2>1
  <2> QED BY <2>1, <2>2
<1>11. RulesPass <=>
         /\ ServableAnnotations
         /\ ing.ann.proxy.host # None => \A k \in DOMAIN ing.rules : ing.rules[k].host \in DnsHosts
         /\ ing.default # None => ing.default.svc # None /\ ports[ing.default.svc] # None
         /\ RenderableAnnotations
         /\ ServablePlain
  BY <1>4, <1>5, <1>7, <1>9, <1>10, ServicesFine DEF RulesPass, Acceptable, ServablePlain
<1> QED BY <1>11 DEF ServableRules

(* The paths of an object with weights. *)
LEMMA WeightedPass ==
  ASSUME IsObject(ing), ing.ann.useWeight, ing.rules # <<>>
  PROVE  RulesPass <=> ServableRules
<1>1. CASE Len(ing.rules) # 1
  BY <1>1 DEF RulesPass, Acceptable, ServableRules, ServableWeighted
<1>2. CASE Len(ing.rules) = 1
  <2> DEFINE ps == ing.rules[1].paths
             b == ps[1]
  <2>1. DOMAIN ing.rules = {1} /\ ps \in Seq(PathType) /\ ing.ann.weights \in Seq(WeightType)
    <3>1. ing.rules \in Seq(RuleType)
      BY Typed
    <3>2. DOMAIN ing.rules = {1}
      <4> HIDE DEF RuleType
      <4> QED BY <1>2, <3>1
    <3> QED BY <3>2, Typed
  <2>2. DOMAIN ps = 1..Len(ps) /\ Len(ps) \in Nat /\ (ps # <<>> => 1 \in DOMAIN ps)
    <3> HIDE DEF PathType, ps
    <3> QED BY <2>1, EmptySeq
  <2>3. /\ \A j \in DOMAIN ps : <<1, j>> \in Listed /\ At(<<1, j>>) = ps[j]
        /\ \A p \in Listed : p = <<1, p[2]>> /\ p[1] = 1 /\ p[2] \in DOMAIN ps /\ At(p) = ps[p[2]]
    BY <2>1, Places DEF At
  <2>4. Configurable = "fine" <=> ps # <<>> /\ checkIngressContent(b) /\ GetSvcPort(b) # 0
    <3>1. ps # <<>> => Used = {<<1, 1>>} /\ At(<<1, 1>>) = b
      BY <2>2, <2>3 DEF Used
    <3> QED BY <2>1, <3>1, ConfigureFine
  <2>5. CASE ps = <<>>
    BY <2>4, <2>5 DEF RulesPass, ServableRules, ServableWeighted
  <2>6. CASE ps # <<>>
    <3>1. 1 \in DOMAIN ps /\ <<1, 1>> \in Listed /\ At(<<1, 1>>) = b
      BY <2>2, <2>3, <2>6
    <3>2. SamePaths <=> \A p \in Listed : At(p).path = b.path
      BY <2>3, <3>1 DEF SamePaths
    <3>3. SamePaths => (Repeats(ps) <=> Len(ps) # 1)
      <4>1. ASSUME SamePaths, Len(ps) # 1 PROVE Repeats(ps)
        <5>1. 2 \in DOMAIN ps
          <6>1. 1 \in 1..Len(ps) /\ Len(ps) \in Nat /\ DOMAIN ps = 1..Len(ps)
            BY <2>2, <3>1
          <6> HIDE DEF ps
          <6> QED BY <4>1, <6>1
        <5>2. ps[2].path = ps[2 - 1].path
          <6>1. ps[2].path = b.path
            BY <2>3, <3>2, <4>1, <5>1
          <6> QED BY <6>1
        <5>3. 2 > 1
          OBVIOUS
        <5> HIDE DEF ps
        <5> QED BY <5>1, <5>2, <5>3 DEF Repeats
      <4>2. ASSUME Len(ps) = 1 PROVE ~Repeats(ps)
        BY <2>2, <4>2 DEF Repeats
      <4> QED BY <4>1, <4>2
    <3>4. SamePaths =>
            (ValidPathAndHost <=>
               /\ ing.ann.proxy.host # None => ing.rules[1].host \in DnsHosts
               /\ ing.ann.proxy.host \notin {None, "empty"} => Len(ps) = 1)
      BY <2>1, <2>6, <3>3 DEF ValidPathAndHost
    <3>5. ASSUME \A p \in Listed : At(p).svc # None /\ ports[At(p).svc] # None
          PROVE  /\ \A k \in DOMAIN ing.ann.weights :
                      Item(ing.ann.weights[k]) = "fine" <=> Shared(ing.ann.weights[k])
                 /\ Configurable = "fine" <=> Sound(b)
      <4>1. \A k \in DOMAIN ing.ann.weights : ing.ann.weights[k] \in WeightType
        <5> HIDE DEF WeightType
        <5> QED BY <2>1
      <4>2. GetSvcPort(b) # 0 <=> Known(b)
        BY <3>1, <3>5, PortFound
      <4>3. \A k \in DOMAIN ing.ann.weights :
              Item(ing.ann.weights[k]) = "fine" <=> Shared(ing.ann.weights[k])
        BY <1>2, <3>5, <4>1, ItemFine
      <4>4. checkIngressContent(b) <=> (b.path \in Regexps <=> Rewrites(ing.ann))
        BY DEF checkIngressContent, Rewrites
      <4>5. Configurable = "fine" <=> Sound(b)
        BY <2>4, <2>6, <4>2, <4>4 DEF Sound
      <4> QED BY <4>3, <4>5
    <3>6. ParsersFine <=> /\ ServableAnnotations /\ SamePaths
                          /\ \A k \in DOMAIN ing.ann.weights : Item(ing.ann.weights[k]) = "fine"
      BY AnnotationsFine, WeightsFineExactly DEF ParsersFine
    <3>7. RulesPass <=>
            /\ ServableAnnotations
            /\ ing.ann.proxy.host # None => \A k \in DOMAIN ing.rules : ing.rules[k].host \in DnsHosts
            /\ ing.default # None => ing.default.svc # None /\ ports[ing.default.svc] # None
            /\ RenderableAnnotations
            /\ ServableWeighted
      <4>1. RulesPass =>
              /\ SamePaths /\ \A p \in Listed : At(p).svc # None /\ ports[At(p).svc] # None
        BY <3>6, ServicesFine DEF RulesPass
      <4>2. ServableWeighted =>
              /\ SamePaths /\ \A p \in Listed : At(p).svc # None /\ ports[At(p).svc] # None
        BY <3>2 DEF ServableWeighted
      <4>3. ASSUME SamePaths, \A p \in Listed : At(p).svc # None /\ ports[At(p).svc] # None
            PROVE  RulesPass <=>
                     /\ ServableAnnotations
                     /\ ing.ann.proxy.host # None => \A k \in DOMAIN ing.rules : ing.rules[k].host \in DnsHosts
                     /\ ing.default # None => ing.default.svc # None /\ ports[ing.default.svc] # None
                     /\ RenderableAnnotations
                     /\ ServableWeighted
        BY <1>2, <2>1, <2>6, <3>2, <3>4, <3>5, <3>6, <4>3, ServicesFine
        DEF RulesPass, Acceptable, ServableWeighted
      <4> QED BY <4>1, <4>2, <4>3
    <3> QED BY <2>6, <3>7 DEF ServableRules
  <2> QED BY <2>5, <2>6
<1> QED BY <1>1, <1>2

(* Without rules a weight can share nothing. *)
LEMMA DefaultPass ==
  ASSUME IsObject(ing), ing.rules = <<>>
  PROVE  RulesPass <=> ServableRules
<1>1. Listed = {} /\ DOMAIN ing.rules = {}
  BY DEF Listed
<1>2. ValidPathAndHost
  BY <1>1 DEF ValidPathAndHost
<1>3. \A w : Item(w) # "fine"
  BY <1>1 DEF Item
<1>4. ing.ann.weights = <<>> <=> DOMAIN ing.ann.weights = {}
  <2>1. ing.ann.weights \in Seq(WeightType)
    BY Typed
  <2>2. DOMAIN ing.ann.weights = 1..Len(ing.ann.weights) /\ Len(ing.ann.weights) \in Nat
    <3> HIDE DEF WeightType
    <3> QED BY <2>1
  <2>3. ing.ann.weights = <<>> <=> Len(ing.ann.weights) = 0
    <3> HIDE DEF WeightType
    <3> QED BY <2>1, EmptySeq
  <2>4. \A n \in Nat : n = 0 <=> 1..n = {}
    <3>1. \A n \in Nat : n # 0 => 1 \in 1..n
      OBVIOUS
    <3> QED BY <3>1
  <2> QED BY <2>2, <2>3, <2>4
<1>5. ParsersFine <=> ServableAnnotations /\ (ing.ann.useWeight => ing.ann.weights = <<>>)
  BY <1>1, <1>3, <1>4, AnnotationsFine, WeightsFineExactly DEF ParsersFine, SamePaths
<1> QED BY <1>1, <1>2, <1>5, ServicesFine DEF RulesPass, ServableRules

LEMMA ChecksAreServable ==
  ASSUME IsObject(ing)
  PROVE  RulesPass <=> ServableRules
BY PlainPass, WeightedPass, DefaultPass
----------------------------------------------------------------------------
(* What nginx -t accepts of the servers rendered.                          *)

(* Which locations come before those of the paths. *)
LEMMA BeforeExactly ==
  LET r == ing.ann.redirect.path # None
      p == ing.ann.proxy.path # None
  IN /\ r => 1 \in 1..Len(Before) /\ Before[1] = RedirectRow
     /\ p => Len(Before) \in 1..Len(Before) /\ Before[Len(Before)] = ProxyRow
     /\ r /\ p => Len(Before) # 1
     /\ \A i \in 1..Len(Before) : \/ r /\ i = 1 /\ Before[i] = RedirectRow
                                  \/ p /\ i = Len(Before) /\ Before[i] = ProxyRow
     /\ Len(Before) \in Nat
<1> DEFINE R == RedirectRow
           P == ProxyRow
<1>1. Before = (IF ing.ann.redirect.path = None THEN <<>> ELSE <<R>>)
               \o (IF ing.ann.proxy.path = None THEN <<>> ELSE <<P>>)
  BY DEF Before, RedirectLocations, ProxyLocations, RedirectRow, ProxyRow
<1> HIDE DEF R, P
<1>2. /\ <<>> \o <<>> = <<>> /\ <<R>> \o <<>> = <<R>> /\ <<>> \o <<P>> = <<P>>
      /\ Len(<<R>> \o <<P>>) = 2 /\ (<<R>> \o <<P>>)[1] = R /\ (<<R>> \o <<P>>)[2] = P
  <2> DEFINE S == {R, P}
             r == <<R>>
             p == <<P>>
  <2>1. /\ <<>> \in Seq(S) /\ r \in Seq(S) /\ Len(r) = 1 /\ r[1] = R
        /\ p \in Seq(S) /\ Len(p) = 1 /\ p[1] = P
    OBVIOUS
  <2> HIDE DEF S, r, p
  <2>2. /\ <<>> \o <<>> = <<>> /\ r \o <<>> = r /\ <<>> \o p = p
    BY <2>1, ConcatEmptySeq
  <2>3. /\ Len(r \o p) = Len(r) + Len(p)
        /\ \A i \in 1..Len(r) + Len(p) : (r \o p)[i] = IF i <= Len(r) THEN r[i] ELSE p[i - Len(r)]
    BY <2>1, ConcatProperties
  <2>4. Len(r \o p) = 2 /\ (r \o p)[1] = R /\ (r \o p)[2] = P
    BY <2>1, <2>3
  <2> QED BY <2>2, <2>4 DEF r, p
<1>3. CASE ing.ann.redirect.path = None /\ ing.ann.proxy.path = None
  BY <1>1, <1>2, <1>3
<1>4. CASE ing.ann.redirect.path # None /\ ing.ann.proxy.path = None
  <2>1. Before = <<R>> /\ Len(Before) = 1 /\ Before[1] = R
    BY <1>1, <1>2, <1>4
  <2> QED BY <1>4, <2>1 DEF R
<1>5. CASE ing.ann.redirect.path = None /\ ing.ann.proxy.path # None
  <2>1. Before = <<P>> /\ Len(Before) = 1 /\ Before[1] = P
    BY <1>1, <1>2, <1>5
  <2> QED BY <1>5, <2>1 DEF P
<1>6. CASE ing.ann.redirect.path # None /\ ing.ann.proxy.path # None
  <2>1. Len(Before) = 2 /\ Before[1] = R /\ Before[2] = P
    BY <1>1, <1>2, <1>6
  <2> QED BY <1>6, <2>1 DEF R, P
<1> QED BY <1>3, <1>4, <1>5, <1>6

(* The place of a path's location among those of its server. *)
Place(p) == <<p[1], Len(Before) + p[2]>>

(* A rendered location is one of those, or the location of a used path.    *)
LEMMA Rendering ==
  ASSUME Inv, servers # <<>>
  PROVE  /\ \A k \in DOMAIN servers : \A i \in 1..Len(Before) :
              <<k, i>> \in Rendered /\ To(<<k, i>>) = Before[i]
         /\ \A p \in Used : /\ Place(p) \in Rendered /\ To(Place(p)) = Location(At(p))
                            /\ p \in Listed /\ Place(p)[1] = p[1]
         /\ \A p, q \in Used : Place(p) = Place(q) => p = q
         /\ \A p \in Used : \A k : \A i \in 1..Len(Before) : Place(p) # <<k, i>>
         /\ \A x \in Rendered :
              \/ \E k \in DOMAIN servers : \E i \in 1..Len(Before) : x = <<k, i>>
              \/ \E p \in Used : x = Place(p)
<1> DEFINE off == Len(Before)
<1>1. off \in Nat /\ DOMAIN servers = DOMAIN ing.rules /\ IsObject(ing)
  BY BeforeExactly DEF Inv, Configured, Given
<1>2. \A k \in DOMAIN servers :
        /\ Width(k) \in Nat
        /\ DOMAIN servers[k].locations = 1..off + Width(k)
        /\ \A i \in 1..off : servers[k].locations[i] = Before[i]
        /\ \A j \in 1..Width(k) : /\ servers[k].locations[off + j] = Location(PathsOf(k)[j])
                                  /\ <<k, j>> \in Used /\ At(<<k, j>>) = PathsOf(k)[j]
  BY Locations
<1>3. \A k \in DOMAIN servers : \A i \in DOMAIN servers[k].locations :
        <<k, i>> \in Rendered /\ To(<<k, i>>) = servers[k].locations[i]
  BY DEF Rendered, To
<1>4. \A x \in Rendered : \E k \in DOMAIN servers : \E i \in DOMAIN servers[k].locations : x = <<k, i>>
  BY DEF Rendered
<1>5. \A p \in Used : /\ p \in Listed /\ p = <<p[1], p[2]>> /\ p[1] \in DOMAIN servers
                      /\ p[2] \in 1..Width(p[1])
  <2> TAKE p \in Used
  <2>1. /\ p \in Listed /\ p = <<p[1], p[2]>> /\ p[1] \in DOMAIN ing.rules
        /\ p[2] \in DOMAIN ing.rules[p[1]].paths
    BY Places DEF Used
  <2>2. ing.rules[p[1]].paths \in Seq(PathType)
    BY <1>1, <2>1, Typed
  <2>3. p[2] \in 1..Len(PathsOf(p[1]))
    <3> HIDE DEF PathType
    <3> QED BY <2>1, <2>2 DEF PathsOf
  <2>4. p[2] \in 1..Width(p[1])
    BY <2>3 DEF Width, Used
  <2> QED BY <1>1, <2>1, <2>4
<1>6. \A k \in DOMAIN servers : \A i \in 1..off : i \in DOMAIN servers[k].locations
  BY <1>1, <1>2
<1>7. \A k \in DOMAIN servers : \A j \in 1..Width(k) :
        off + j \in DOMAIN servers[k].locations /\ off + j \notin 1..off
  BY <1>1, <1>2
<1>8. \A k \in DOMAIN servers : \A i \in DOMAIN servers[k].locations :
        i \in 1..off \/ (i - off \in 1..Width(k) /\ off + (i - off) = i)
  BY <1>1, <1>2
<1>9. \A p \in Used : Place(p) \in Rendered /\ To(Place(p)) = Location(At(p)) /\ Place(p)[1] = p[1]
  BY <1>2, <1>3, <1>5, <1>7 DEF Place
<1>10. \A p, q \in Used : Place(p) = Place(q) => p = q
  <2> TAKE p, q \in Used
  <2> HAVE Place(p) = Place(q)
  <2>1. p[1] = q[1] /\ off + p[2] = off + q[2]
    BY DEF Place
  <2>2. p[2] \in Nat /\ q[2] \in Nat
    BY <1>2, <1>5
  <2>3. p[2] = q[2]
    BY <1>1, <2>1, <2>2
  <2> QED BY <1>5, <2>1, <2>3
<1>11. \A p \in Used : \A k : \A i \in 1..off : Place(p) # <<k, i>>
  BY <1>5, <1>7 DEF Place
<1>12. ASSUME NEW k \in DOMAIN servers, NEW i \in DOMAIN servers[k].locations
       PROVE  i \in 1..off \/ \E p \in Used : <<k, i>> = Place(p)
  <2>1. CASE i - off \in 1..Width(k) /\ off + (i - off) = i
    <3>1. <<k, i - off>> \in Used /\ Place(<<k, i - off>>) = <<k, i>>
      BY <1>2, <2>1 DEF Place
    <3> QED BY <3>1
  <2> QED BY <1>8, <2>1
<1>13. \A k \in DOMAIN servers : \A i \in 1..off : <<k, i>> \in Rendered /\ To(<<k, i>>) = Before[i]
  BY <1>2, <1>3, <1>6
<1>14. \A x \in Rendered :
         \/ \E k \in DOMAIN servers : \E i \in 1..off : x = <<k, i>>
         \/ \E p \in Used : x = Place(p)
  <2> TAKE x \in Rendered
  <2>1. PICK k \in DOMAIN servers : \E i \in DOMAIN servers[k].locations : x = <<k, i>>
    BY <1>4
  <2>2. PICK i \in DOMAIN servers[k].locations : x = <<k, i>>
    BY <2>1
  <2> QED BY <1>12, <2>2
<1> QED BY <1>5, <1>9, <1>10, <1>11, <1>13, <1>14
(* Every upstream has a server and is defined once. *)
LEMMA UpstreamsAccepted ==
  ASSUME Inv, servers # <<>>, ing.rules # <<>>,
         upstream = {ing.ann.weights[k].svc : k \in DOMAIN ing.ann.weights}
  PROVE  (/\ \A x \in Backed : To(x).to # {}
          /\ \A x, y \in Backed : To(x).to = To(y).to => x = y)
           <=> IF ing.ann.useWeight THEN Len(ing.rules) = 1 /\ ing.ann.weights # <<>>
               ELSE \A p, q \in Listed : At(p).svc = At(q).svc => p = q
<1> DEFINE Each(p) == IF ing.ann.useWeight THEN upstream ELSE {At(p).svc}
<1>0. IsObject(ing) /\ DOMAIN servers = DOMAIN ing.rules
  BY DEF Inv, Given, Configured
<1>1. Backed = {Place(p) : p \in Used} /\ \A p \in Used : To(Place(p)).to = Each(p)
  <2>1. \A p \in Used : Place(p) \in Backed /\ To(Place(p)).to = Each(p)
    <3>1. \A b : Location(b).kind = "backend"
                 /\ Location(b).to = IF ing.ann.useWeight THEN upstream ELSE {b.svc}
      BY DEF Location
    <3>2. \A p \in Used : Place(p) \in Rendered /\ To(Place(p)) = Location(At(p))
      BY Rendering
    <3> QED BY <3>1, <3>2 DEF Backed
  <2>2. \A i \in 1..Len(Before) : Before[i].kind # "backend"
    <3>1. \A i \in 1..Len(Before) : Before[i] \in {RedirectRow, ProxyRow}
      BY BeforeExactly
    <3>2. RedirectRow.kind = "redirect" /\ ProxyRow.kind = "proxy"
      BY DEF RedirectRow, ProxyRow
    <3> QED BY <3>1, <3>2
  <2>3. \A x \in Backed : \E p \in Used : x = Place(p)
    BY <2>2, Rendering DEF Backed
  <2> QED BY <2>1, <2>3
<1>2. (\A x \in Backed : To(x).to # {}) <=> \A p \in Used : Each(p) # {}
  BY <1>1
<1>3. (\A x, y \in Backed : To(x).to = To(y).to => x = y)
        <=> \A p, q \in Used : Each(p) = Each(q) => p = q
  <2>1. \A p, q \in Used : Place(p) = Place(q) => p = q
    BY Rendering
  <2> HIDE DEF Each
  <2> QED BY <1>1, <2>1
<1>4. CASE ~ing.ann.useWeight
  <2>1. Used = Listed
    BY <1>4 DEF Used
  <2> QED BY <1>2, <1>3, <1>4, <2>1
<1>5. CASE ing.ann.useWeight
  <2>1. \A k \in DOMAIN ing.rules : <<k, 1>> \in Used
    <3> TAKE k \in DOMAIN ing.rules
    <3>1. Width(k) = 1
      BY <1>5 DEF Width
    <3> QED BY <1>0, <3>1, Locations
  <2>2. \A p \in Used : p = <<p[1], 1>> /\ p[1] \in DOMAIN ing.rules
    BY <1>5, Places DEF Used
  <2>3. DOMAIN ing.rules = 1..Len(ing.rules) /\ Len(ing.rules) \in Nat /\ Len(ing.rules) # 0
    <3>1. ing.rules \in Seq(RuleType)
      BY <1>0, Typed
    <3> HIDE DEF RuleType
    <3> QED BY <3>1, EmptySeq
  <2>4. upstream # {} <=> ing.ann.weights # <<>>
    <3>1. ing.ann.weights \in Seq(WeightType)
      BY <1>0, Typed
    <3>2. ing.ann.weights # <<>> <=> DOMAIN ing.ann.weights # {}
      <4>1. ing.ann.weights # <<>> => 1 \in DOMAIN ing.ann.weights
        <5> HIDE DEF WeightType
        <5> QED BY <3>1, EmptySeq
      <4>2. DOMAIN <<>> = {}
        OBVIOUS
      <4> QED BY <4>1, <4>2
    <3> QED BY <3>2
  <2>5. (\A p \in Used : Each(p) # {}) <=> ing.ann.weights # <<>>
    <3>1. \A p \in Used : Each(p) = upstream
      BY <1>5
    <3>2. 1 \in DOMAIN ing.rules
      BY <2>3
    <3>3. <<1, 1>> \in Used
      BY <2>1, <3>2
    <3> HIDE DEF Each
    <3> QED BY <2>4, <3>1, <3>3
  <2>6. (\A p, q \in Used : p = q) <=> Len(ing.rules) = 1
    <3>1. ASSUME \A p, q \in Used : p = q PROVE Len(ing.rules) = 1
      <4>1. 1 \in DOMAIN ing.rules /\ (Len(ing.rules) # 1 => 2 \in DOMAIN ing.rules)
        <5>1. \A n \in Nat \ {0} : 1 \in 1..n /\ (n # 1 => 2 \in 1..n)
          OBVIOUS
        <5> QED BY <2>3, <5>1
      <4>2. <<1, 1>> # <<2, 1>>
        OBVIOUS
      <4>3. 2 \notin DOMAIN ing.rules
        BY <2>1, <3>1, <4>1, <4>2
      <4> QED BY <4>1, <4>3
    <3>2. ASSUME Len(ing.rules) = 1 PROVE \A p, q \in Used : p = q
      <4>1. DOMAIN ing.rules = {1}
        BY <2>3, <3>2
      <4> QED BY <2>2, <4>1
    <3> QED BY <3>1, <3>2
  <2> QED BY <1>2, <1>3, <1>5, <2>5, <2>6
<1> QED BY <1>4, <1>5

(* A plain location is given once in its server. *)
LEMMA PathsAccepted ==
  ASSUME Inv, servers # <<>>, ing.rules # <<>>
  PROVE  (\A x, y \in Rendered :
            x[1] = y[1] /\ ~To(x).regex /\ ~To(y).regex /\ To(x).path = To(y).path => x = y)
           <=> /\ ing.ann.redirect.path # None =>
                    ing.ann.redirect.path \notin {ing.ann.proxy.path} \ Regexps
               /\ ~Rewrites(ing.ann) =>
                    /\ \A p \in Used : At(p).path \notin Taken
                    /\ \A p, q \in Used : p[1] = q[1] /\ At(p).path = At(q).path => p = q
<1> DEFINE once == \A x, y \in Rendered :
                     x[1] = y[1] /\ ~To(x).regex /\ ~To(y).regex /\ To(x).path = To(y).path => x = y
           rpath == ing.ann.redirect.path
           ppath == ing.ann.proxy.path
           off == Len(Before)
<1>1. /\ DOMAIN servers = DOMAIN ing.rules /\ IsObject(ing)
      /\ (ppath \in Regexps) = ProxyIsRegex(ing.ann.proxy)
      /\ \A p \in Used : At(p).path # None
  <2>1. IsObject(ing) /\ DOMAIN servers = DOMAIN ing.rules /\ Parsed
    BY DEF Inv, Given, Configured
  <2>2. \A p \in Used : At(p).path # None
    BY <2>1, Typed, NamesAssumption DEF Used
  <2> QED BY <2>1, <2>2 DEF Parsed
<1>2. 1 \in DOMAIN servers
  <2>1. ing.rules \in Seq(RuleType)
    BY <1>1, Typed
  <2>2. 1 \in DOMAIN ing.rules
    <3> HIDE DEF RuleType
    <3> QED BY <2>1, EmptySeq
  <2> QED BY <1>1, <2>2
(* The redirect and the proxy of a server. *)
<1>3. /\ \A k \in DOMAIN servers : \A i \in 1..off :
           /\ <<k, i>> \in Rendered /\ To(<<k, i>>) = Before[i]
           /\ \/ rpath # None /\ i = 1 /\ Before[i].path = rpath /\ ~Before[i].regex
              \/ /\ ppath # None /\ i = off /\ Before[i].path = ppath
                 /\ Before[i].regex <=> ppath \in Regexps
      /\ rpath # None => 1 \in 1..off /\ Before[1].path = rpath /\ ~Before[1].regex
      /\ ppath # None => /\ off \in 1..off /\ Before[off].path = ppath
                         /\ Before[off].regex <=> ppath \in Regexps
      /\ rpath # None /\ ppath # None => off # 1
  <2>1. /\ RedirectRow.path = rpath /\ ~RedirectRow.regex /\ ProxyRow.path = ppath
        /\ ProxyRow.regex <=> ppath \in Regexps
    BY <1>1 DEF RedirectRow, ProxyRow
  <2> QED BY <2>1, BeforeExactly, Rendering
(* The locations of paths. *)
<1>4. /\ \A p \in Used : /\ Place(p) \in Rendered /\ Place(p)[1] = p[1]
                         /\ To(Place(p)).path = At(p).path
                         /\ To(Place(p)).regex = Rewrites(ing.ann)
                         /\ p[1] \in DOMAIN servers
      /\ \A p, q \in Used : Place(p) = Place(q) => p = q
      /\ \A p \in Used : \A k : \A i \in 1..off : Place(p) # <<k, i>>
  <2>1. \A p \in Used : p[1] \in DOMAIN servers
    BY <1>1, Places DEF Used
  <2> QED BY <2>1, Rendering DEF Location
<1>5. \A x \in Rendered : \/ \E k \in DOMAIN servers : \E i \in 1..off : x = <<k, i>>
                          \/ \E p \in Used : x = Place(p)
  BY Rendering
<1>6. ASSUME once, rpath # None PROVE rpath \notin {ppath} \ Regexps
  <2> SUFFICES ASSUME rpath = ppath, ppath \notin Regexps PROVE FALSE
    OBVIOUS
  <2>1. /\ <<1, 1>> \in Rendered /\ <<1, off>> \in Rendered
        /\ To(<<1, 1>>) = Before[1] /\ To(<<1, off>>) = Before[off]
    BY <1>2, <1>3, <1>6
  <2>2. <<1, 1>> = <<1, off>>
    BY <1>3, <1>6, <2>1
  <2> QED BY <1>3, <1>6, <2>2
<1>7. ASSUME once, ~Rewrites(ing.ann), NEW p \in Used PROVE At(p).path \notin Taken
  <2> SUFFICES ASSUME At(p).path \in Taken PROVE FALSE
    OBVIOUS
  <2>1. PICK i \in 1..off : Before[i].path = At(p).path /\ ~Before[i].regex
    BY <1>3 DEF Taken
  <2>2. /\ <<p[1], i>> \in Rendered /\ To(<<p[1], i>>) = Before[i]
        /\ Place(p) \in Rendered /\ Place(p)[1] = p[1] /\ ~To(Place(p)).regex
        /\ To(Place(p)).path = At(p).path /\ Place(p) # <<p[1], i>>
    BY <1>3, <1>4, <1>7
  <2> QED BY <1>7, <2>1, <2>2
<1>8. ASSUME once, ~Rewrites(ing.ann), NEW p \in Used, NEW q \in Used,
             p[1] = q[1], At(p).path = At(q).path
      PROVE  p = q
  BY <1>4, <1>8
<1>9. ASSUME rpath # None => rpath \notin {ppath} \ Regexps,
             ~Rewrites(ing.ann) =>
               /\ \A p \in Used : At(p).path \notin Taken
               /\ \A p, q \in Used : p[1] = q[1] /\ At(p).path = At(q).path => p = q
      PROVE  once
  <2> SUFFICES ASSUME NEW x \in Rendered, NEW y \in Rendered, x[1] = y[1],
                      ~To(x).regex, ~To(y).regex, To(x).path = To(y).path
               PROVE  x = y
    OBVIOUS
  (* A plain location that is not a path's has a path that is taken. *)
  <2>1. \A k \in DOMAIN servers : \A i \in 1..off :
          ~Before[i].regex => Before[i].path \in Taken
    BY <1>3 DEF Taken
  <2>2. CASE \E p \in Used : x = Place(p)
    <3>1. PICK p \in Used : x = Place(p)
      BY <2>2
    <3>2. ~Rewrites(ing.ann) /\ At(p).path \notin Taken /\ To(x).path = At(p).path /\ x[1] = p[1]
      BY <1>4, <1>9, <3>1
    <3>3. CASE \E q \in Used : y = Place(q)
      BY <1>4, <1>9, <3>1, <3>2, <3>3
    <3>4. CASE \E k \in DOMAIN servers : \E i \in 1..off : y = <<k, i>>
      <4>1. PICK k \in DOMAIN servers, i \in 1..off : y = <<k, i>>
        BY <3>4
      <4>2. To(y) = Before[i]
        BY <1>3, <4>1
      <4> QED BY <2>1, <3>2, <4>2
    <3> QED BY <1>5, <3>3, <3>4
  <2>3. CASE \E k \in DOMAIN servers : \E i \in 1..off : x = <<k, i>>
    <3>1. PICK k \in DOMAIN servers, i \in 1..off : x = <<k, i>>
      BY <2>3
    <3>2. To(x) = Before[i] /\ Before[i].path \in Taken
      BY <1>3, <2>1, <3>1
    <3>3. CASE \E q \in Used : y = Place(q)
      BY <1>4, <1>9, <3>2, <3>3
    <3>4. CASE \E l \in DOMAIN servers : \E j \in 1..off : y = <<l, j>>
      <4>1. PICK l \in DOMAIN servers, j \in 1..off : y = <<l, j>>
        BY <3>4
      <4>2. k = l /\ To(y) = Before[j]
        BY <1>3, <3>1, <4>1
      <4>3. Before[i].path = Before[j].path
        BY <3>2, <4>2
      <4>4. i = j
        <5> DEFINE Redirects(n) == rpath # None /\ n = 1 /\ Before[n].path = rpath
                   Proxies(n) == ppath \notin Regexps /\ n = off /\ Before[n].path = ppath
        <5>1. Redirects(i) \/ Proxies(i)
          <6>1. ~Before[i].regex
            BY <3>2
          <6> QED BY <1>3, <3>1, <6>1
        <5>2. Redirects(j) \/ Proxies(j)
          <6>1. ~Before[j].regex
            BY <4>2
          <6> QED BY <1>3, <4>1, <6>1
        <5>3. rpath # None /\ ppath \notin Regexps => rpath # ppath
          BY <1>9
        <5> QED BY <4>3, <5>1, <5>2, <5>3
      <4> QED BY <3>1, <4>1, <4>2, <4>4
    <3> QED BY <1>5, <3>3, <3>4
  <2> QED BY <1>5, <2>2, <2>3
<1> QED BY <1>6, <1>7, <1>8, <1>9
(* The proxy has a host that resolves. *)
LEMMA ProxyAccepted ==
  ASSUME Inv, servers # <<>>, ing.rules # <<>>
  PROVE  (\A x \in Rendered : To(x).kind = "proxy" => To(x).to \subseteq {"ip", "name"})
           <=> (ing.ann.proxy.path # None => ing.ann.proxy.host \in {"ip", "name"})
<1> DEFINE off == Len(Before)
<1>1. 1 \in DOMAIN servers
  <2>1. ing.rules \in Seq(RuleType) /\ DOMAIN servers = DOMAIN ing.rules
    BY Typed DEF Inv, Given, Configured
  <2>2. 1 \in DOMAIN ing.rules
    <3> HIDE DEF RuleType
    <3> QED BY <2>1, EmptySeq
  <2> QED BY <2>1, <2>2
<1>2. /\ RedirectRow.kind = "redirect" /\ ProxyRow.kind = "proxy"
      /\ ProxyRow.to = {ing.ann.proxy.host} /\ \A b : Location(b).kind = "backend"
  BY DEF RedirectRow, ProxyRow, Location
<1>3. ASSUME NEW x \in Rendered, To(x).kind = "proxy"
      PROVE  ing.ann.proxy.path # None /\ To(x).to = {ing.ann.proxy.host}
  <2>1. \A p \in Used : x # Place(p)
    BY <1>2, <1>3, Rendering
  <2>2. PICK k \in DOMAIN servers, i \in 1..off : x = <<k, i>>
    BY <2>1, Rendering
  <2>3. To(x) = Before[i]
    BY <2>2, Rendering
  <2>4. \/ Before[i] = RedirectRow
        \/ Before[i] = ProxyRow /\ ing.ann.proxy.path # None
    BY BeforeExactly
  <2> QED BY <1>2, <1>3, <2>3, <2>4
<1>4. ASSUME ing.ann.proxy.path # None
      PROVE  \E x \in Rendered : To(x).kind = "proxy" /\ To(x).to = {ing.ann.proxy.host}
  <2>1. off \in 1..off /\ Before[off] = ProxyRow
    BY <1>4, BeforeExactly
  <2>2. <<1, off>> \in Rendered /\ To(<<1, off>>) = ProxyRow
    BY <1>1, <2>1, Rendering
  <2> QED BY <1>2, <2>2
<1> QED BY <1>3, <1>4

(* The lists are of addresses and networks. *)
LEMMA AddressesAccepted ==
  ASSUME Inv, servers # <<>>, ing.rules # <<>>
  PROVE  (\A k \in DOMAIN servers : \A r \in DOMAIN servers[k].access :
            servers[k].access[r].who \subseteq Addresses \cup Networks)
           <=> ing.ann.allow \cup ing.ann.deny \subseteq Addresses \cup Networks
<1> DEFINE allow == ing.ann.allow
           deny == ing.ann.deny
           rules == AccessRules(ing.ann)
<1>1. 1 \in DOMAIN servers /\ \A k \in DOMAIN servers : servers[k].access = rules
  <2>1. ing.rules \in Seq(RuleType) /\ DOMAIN servers = DOMAIN ing.rules
    BY Typed DEF Inv, Given, Configured
  <2>2. 1 \in DOMAIN ing.rules
    <3> HIDE DEF RuleType
    <3> QED BY <2>1, EmptySeq
  <2>3. \A k \in DOMAIN servers : servers[k].access = rules
    BY DEF Inv, Configured
  <2> QED BY <2>1, <2>2, <2>3
<1>2. (\A r \in DOMAIN rules : rules[r].who \subseteq Addresses \cup Networks)
        <=> allow \cup deny \subseteq Addresses \cup Networks
  <2>0. /\ allow = {} /\ deny = {} => DOMAIN rules = {}
        /\ allow # {} => /\ DOMAIN rules = IF deny = {} THEN 1..2 ELSE 1..4
                         /\ rules[1].who = allow /\ rules[2].who = Addresses
        /\ allow = {} /\ deny # {} => /\ DOMAIN rules = 1..2
                                       /\ rules[1].who = deny /\ rules[2].who = Addresses
        /\ allow # {} /\ deny # {} => rules[3].who = deny /\ rules[4].who = Addresses
    <3>1. \A who : Rule(TRUE, who).who = who /\ Rule(FALSE, who).who = who
      BY DEF Rule
    <3> QED BY <3>1, AccessForm
  <2> HIDE DEF rules
  <2>1. CASE allow = {} /\ deny = {}
    BY <2>0, <2>1
  <2>2. CASE allow = {} /\ deny # {}
    <3>1. DOMAIN rules = {1, 2} /\ rules[1].who = deny /\ rules[2].who = Addresses
      BY <2>0, <2>2
    <3> QED BY <2>2, <3>1
  <2>3. CASE allow # {} /\ deny = {}
    <3>1. DOMAIN rules = {1, 2} /\ rules[1].who = allow /\ rules[2].who = Addresses
      BY <2>0, <2>3
    <3> QED BY <2>3, <3>1
  <2>4. CASE allow # {} /\ deny # {}
    <3>1. /\ DOMAIN rules = {1, 2, 3, 4} /\ rules[1].who = allow /\ rules[2].who = Addresses
          /\ rules[3].who = deny /\ rules[4].who = Addresses
      BY <2>0, <2>4
    <3> QED BY <3>1
  <2> QED BY <2>1, <2>2, <2>3, <2>4
<1> HIDE DEF rules
<1> QED BY <1>1, <1>2

LEMMA NginxExactly ==
  ASSUME Inv, servers # <<>>, ing.rules # <<>>,
         upstream = {ing.ann.weights[k].svc : k \in DOMAIN ing.ann.weights}
  PROVE  NginxAccepts <=> Acceptable
<1> DEFINE taken == ~Rewrites(ing.ann) =>
                      /\ \A p \in Used : At(p).path \notin Taken
                      /\ \A p, q \in Used : p[1] = q[1] /\ At(p).path = At(q).path => p = q
           shared == IF ing.ann.useWeight THEN Len(ing.rules) = 1 /\ ing.ann.weights # <<>>
                     ELSE \A p, q \in Listed : At(p).svc = At(q).svc => p = q
<1>1. NginxAccepts <=> RenderableAnnotations /\ shared /\ taken
  BY UpstreamsAccepted, PathsAccepted, ProxyAccepted, AddressesAccepted
  DEF NginxAccepts, RenderableAnnotations
<1>2. CASE ~ing.ann.useWeight
  <2>1. Used = Listed
    BY <1>2 DEF Used
  <2> QED BY <1>1, <1>2, <2>1 DEF Acceptable
<1>3. CASE ing.ann.useWeight /\ Len(ing.rules) = 1
  <2>1. DOMAIN ing.rules = {1}
    <3>1. ing.rules \in Seq(RuleType)
      BY Typed DEF Inv, Given
    <3> HIDE DEF RuleType
    <3> QED BY <1>3, <3>1
  <2>2. Used = {<<1, 1>>} /\ At(<<1, 1>>) = ing.rules[1].paths[1]
    <3>1. 1 \in DOMAIN servers /\ Width(1) = 1
      BY <1>3, <2>1 DEF Inv, Configured, Width
    <3>2. <<1, 1>> \in Used /\ At(<<1, 1>>) = ing.rules[1].paths[1]
      BY <3>1, Locations DEF PathsOf
    <3>3. \A p \in Used : p = <<1, 1>>
      BY <1>3, <2>1, Places DEF Used
    <3> QED BY <3>2, <3>3
  <2>3. taken <=> (~Rewrites(ing.ann) => ing.rules[1].paths[1].path \notin Taken)
    BY <2>2
  <2> QED BY <1>1, <1>3, <2>3 DEF Acceptable
<1>4. CASE ing.ann.useWeight /\ Len(ing.rules) # 1
  BY <1>1, <1>4 DEF Acceptable
<1> QED BY <1>2, <1>3, <1>4
----------------------------------------------------------------------------
(* The steps.                                                              *)

(* The checks read the object and the Services only. *)
LEMMA ChecksStay ==
  ASSUME UNCHANGED <<ing, ports>>
  PROVE  /\ ValidPathAndHost' = ValidPathAndHost /\ ServicesCheck' = ServicesCheck
         /\ ParsersFine' = ParsersFine /\ Configurable' = Configurable
         /\ Acceptable' = Acceptable /\ RulesPass' = RulesPass
         /\ GetSvcPort(ing.default)' = GetSvcPort(ing.default)
<1>1. Listed' = Listed /\ \A p : At(p)' = At(p)
  BY DEF Listed, At
<1>2. \A b : GetSvcPort(b)' = GetSvcPort(b)
  BY DEF GetSvcPort
<1>3. ValidPathAndHost' = ValidPathAndHost
  BY DEF ValidPathAndHost
<1>4. ServicesCheck' = ServicesCheck
  BY <1>1 DEF ServicesCheck
<1>5. \A s : GetBackend(s)' = GetBackend(s)
  BY <1>1 DEF GetBackend
<1>6. \A w : Item(w)' = Item(w)
  <2> TAKE w
  <2> DEFINE shares == CASE w.share \in {"some", "zero"} -> "fine"
                         [] w.share = "malformed" -> "refused"
                         [] w.share = "missing" -> "down"
             named == \A p \in Listed : At(p).svc # w.svc
             port == GetSvcPort(GetBackend(w.svc))
  <2>0. Item(w) = IF ports[w.svc] = None THEN "refused" ELSE IF named THEN "down"
                  ELSE IF port = 0 THEN "refused" ELSE shares
    BY Zenon DEF Item
  <2>3. Item(w)' = IF (ports[w.svc])' = None THEN "refused" ELSE IF named' THEN "down"
                   ELSE IF port' = 0 THEN "refused" ELSE shares
    BY Zenon DEF Item
  <2>1. GetSvcPort(GetBackend(w.svc))' = GetSvcPort(GetBackend(w.svc))
    BY <1>2, <1>5
  <2>2. (\A p \in Listed : At(p).svc # w.svc)' <=> \A p \in Listed : At(p).svc # w.svc
    BY <1>1
  <2> HIDE DEF shares
  <2> QED BY <2>0, <2>1, <2>2, <2>3
<1>7. WeightCheck' = WeightCheck
  BY <1>1, <1>6 DEF WeightCheck, SamePaths
<1>8. ParsersFine' = ParsersFine
  BY <1>7 DEF ParsersFine
<1>9. Configurable' = Configurable
  <2> DEFINE bad(k) == \E p \in Used : /\ p[1] = k
                                       /\ ~(checkIngressContent(At(p)) /\ GetSvcPort(At(p)) # 0)
             empty(k) == ing.ann.useWeight /\ ing.rules[k].paths = <<>>
             stops == {k \in DOMAIN ing.rules : bad(k) \/ empty(k)}
  <2>1. stops' = stops
    <3>1. Used' = Used /\ \A p : (At(p))' = At(p)
      BY <1>1 DEF Used
    <3>2. \A b : checkIngressContent(b)' = checkIngressContent(b)
      BY <1>1 DEF checkIngressContent
    <3> QED BY <1>1, <1>2, <3>1, <3>2
  <2>2. \A k : empty(k)' = empty(k)
    BY <1>1
  <2>3. Configurable = IF stops = {} THEN "fine" ELSE IF empty(Min(stops)) THEN "down" ELSE "refused"
    BY Zenon DEF Configurable
  <2>4. Configurable' = IF stops' = {} THEN "fine"
                        ELSE IF empty(Min(stops))' THEN "down" ELSE "refused"
    BY Zenon DEF Configurable
  <2>5. empty(Min(stops))' = empty(Min(stops))
    BY <1>1, <2>1
  <2> HIDE DEF stops, empty
  <2> QED BY <2>1, <2>3, <2>4, <2>5
<1>10. Acceptable' = Acceptable
  BY <1>1 DEF Acceptable, RenderableAnnotations, Taken
<1>11. RulesPass' = RulesPass
  BY <1>3, <1>4, <1>8, <1>9, <1>10 DEF RulesPass
<1> QED BY <1>2, <1>3, <1>4, <1>8, <1>9, <1>10, <1>11

(* A check that fails ends the chain, and nothing of it is served. *)
LEMMA ChainEnds ==
  ASSUME UNCHANGED <<ing, ports, main>>, file' = <<>>, main = None,
         pc' \in {"denied", "refused", "down"},
         ~RulesPass
  PROVE  Chain'
<1>1. ~RulesPass'
  BY ChecksStay
<1> QED BY <1>1 DEF Chain, Final

LEMMA ChainStep ==
  ASSUME Inv, Chain, [Next]_vars
  PROVE  Chain'
<1>1. UNCHANGED <<ing, ports>>
  BY DEF Next, vars, Admit, CheckServices, Extract, Configure, Test, Default, Goto
<1>2. /\ ValidPathAndHost' = ValidPathAndHost /\ ServicesCheck' = ServicesCheck
      /\ ParsersFine' = ParsersFine /\ Configurable' = Configurable
      /\ Acceptable' = Acceptable /\ RulesPass' = RulesPass
      /\ GetSvcPort(ing.default)' = GetSvcPort(ing.default)
  BY <1>1, ChecksStay
<1>3. IsObject(ing) /\ (pc \in Early \cup {"configure", "test"} => file = <<>>)
  BY DEF Inv, Given, Tested
<1>4. CASE Admit
  <2>1. pc = "submitted" /\ UNCHANGED <<upstream, servers, file, main>>
        /\ pc' = IF ValidPathAndHost THEN "services" ELSE "denied"
    BY <1>4 DEF Admit, Goto
  <2>2. file = <<>> /\ main = None
    BY <1>3, <2>1 DEF Chain, Early, Final
  <2>3. CASE ~ValidPathAndHost
    BY <1>1, <2>1, <2>2, <2>3, ChainEnds DEF RulesPass
  <2>4. CASE ValidPathAndHost
    BY <1>2, <2>1, <2>2, <2>4 DEF Chain, Final
  <2> QED BY <2>3, <2>4
<1>5. CASE CheckServices
  <2>1. pc = "services" /\ UNCHANGED <<upstream, servers, file, main>>
        /\ pc' = IF ServicesCheck = "fine" THEN "annotations" ELSE ServicesCheck
    BY <1>5 DEF CheckServices, Goto
  <2>2. file = <<>> /\ main = None /\ ValidPathAndHost
    BY <1>3, <2>1 DEF Chain, Early, Final
  <2>3. CASE ServicesCheck # "fine"
    <3>1. ServicesCheck \in {"fine", "refused", "down"}
      BY DEF ServicesCheck, Verdict
    <3> QED BY <1>1, <2>1, <2>2, <2>3, <3>1, ChainEnds DEF RulesPass
  <2>4. CASE ServicesCheck = "fine"
    BY <1>2, <2>1, <2>2, <2>4 DEF Chain, Final
  <2> QED BY <2>3, <2>4
<1>6. CASE Extract
  <2> DEFINE failed == (Checks(ing.ann) \cup {WeightCheck}) \ {"fine"}
  <2>1. pc = "annotations" /\ UNCHANGED <<servers, file, main>>
    BY <1>6 DEF Extract
  <2>2. file = <<>> /\ main = None /\ ValidPathAndHost /\ ServicesCheck = "fine"
    BY <1>3, <2>1 DEF Chain, Early, Final
  <2>3. failed = {} <=> ParsersFine
    BY DEF ParsersFine
  <2>4. CASE /\ failed = {} /\ pc' = "configure"
             /\ upstream' = {ing.ann.weights[k].svc : k \in DOMAIN ing.ann.weights}
    <3>1. upstream' = {ing.ann.weights[k].svc : k \in DOMAIN ing.ann.weights}'
      BY <1>1, <2>4
    <3> QED BY <1>2, <2>1, <2>2, <2>3, <2>4, <3>1 DEF Chain, Final
  <2>5. CASE \E check \in failed : pc' = check
    <3>1. Checks(ing.ann) \subseteq {"fine", "refused"}
      BY DEF Checks, RewriteCheck, ProxyCheck, RedirectCheck, ListCheck, Verdict
    <3>2. WeightCheck \in {"fine", "refused", "down"}
      BY <1>3, WeightsJudged
    <3>3. pc' \in {"refused", "down"} /\ failed # {}
      BY <2>5, <3>1, <3>2
    <3>4. ~RulesPass
      BY <2>3, <3>3 DEF RulesPass
    <3> QED BY <1>1, <2>1, <2>2, <3>3, <3>4, ChainEnds
  <2> QED BY <1>6, <2>4, <2>5 DEF Extract, Goto
<1>7. CASE Configure
  <2>1. pc = "configure" /\ ing.rules # <<>> /\ UNCHANGED <<upstream, file, main>>
    BY <1>7 DEF Configure
  <2>2. /\ file = <<>> /\ main = None /\ ValidPathAndHost /\ ServicesCheck = "fine" /\ ParsersFine
        /\ upstream = {ing.ann.weights[k].svc : k \in DOMAIN ing.ann.weights}
    BY <1>3, <2>1 DEF Chain, Final
  <2>3. CASE Configurable # "fine"
    <3>1. Configurable \in {"fine", "refused", "down"}
      BY DEF Configurable
    <3>2. pc' \in {"refused", "down"}
      BY <1>7, <2>3, <3>1 DEF Configure, Goto
    <3> QED BY <1>1, <2>1, <2>2, <2>3, <3>2, ChainEnds DEF RulesPass
  <2>4. CASE Configurable = "fine"
    <3>1. pc' = "test" /\ servers' = [k \in DOMAIN ing.rules |-> Server(k)]
      BY <1>7, <2>4 DEF Configure, Goto
    <3>2. servers' # <<>>
      <4>1. ing.rules \in Seq(RuleType)
        BY <1>3, Typed
      <4>2. 1 \in DOMAIN ing.rules
        <5> HIDE DEF RuleType
        <5> QED BY <2>1, <4>1, EmptySeq
      <4>3. DOMAIN servers' # {} /\ DOMAIN <<>> = {}
        BY <3>1, <4>2
      <4> QED BY <4>3
    <3>3. upstream' = {ing.ann.weights[k].svc : k \in DOMAIN ing.ann.weights}'
      BY <1>1, <2>1, <2>2
    <3> QED BY <1>1, <1>2, <2>1, <2>2, <2>4, <3>1, <3>2, <3>3 DEF Chain, Final
  <2> QED BY <2>3, <2>4
<1>8. CASE Test
  <2>1. pc = "test" /\ UNCHANGED <<upstream, servers, main>>
    BY <1>8 DEF Test
  <2>2. /\ file = <<>> /\ main = None /\ ValidPathAndHost /\ ServicesCheck = "fine" /\ ParsersFine
        /\ upstream = {ing.ann.weights[k].svc : k \in DOMAIN ing.ann.weights}
        /\ Configurable = "fine" /\ ing.rules # <<>> /\ servers # <<>>
    BY <1>3, <2>1 DEF Chain, Final
  <2>3. NginxAccepts <=> Acceptable
    BY <2>2, NginxExactly
  <2>4. CASE ~NginxAccepts
    <3>1. pc' = "refused" /\ file' = <<>>
      BY <1>8, <2>2, <2>4 DEF Test, Goto
    <3> QED BY <1>1, <2>1, <2>2, <2>3, <2>4, <3>1, ChainEnds DEF RulesPass
  <2>5. CASE NginxAccepts
    <3>1. pc' = "default" /\ file' = servers
      BY <1>8, <2>5 DEF Test, Goto
    <3>2. upstream' = {ing.ann.weights[k].svc : k \in DOMAIN ing.ann.weights}'
      BY <1>1, <2>1, <2>2
    <3> QED BY <1>1, <1>2, <2>1, <2>2, <2>3, <2>5, <3>1, <3>2 DEF Chain, Final
  <2> QED BY <2>4, <2>5
<1>9. CASE Default
  <2>1. /\ pc = "default" \/ (pc = "configure" /\ ing.rules = <<>>)
        /\ UNCHANGED <<upstream, servers, file>>
    BY <1>9 DEF Default
  <2>2. main = None /\ RulesPass /\ (file # <<>> <=> ing.rules # <<>>)
    BY <1>3, <2>1 DEF Chain, Final, RulesPass
  <2>3. \/ ing.default = None /\ pc' = "served" /\ main' = main
        \/ ing.default # None /\ GetSvcPort(ing.default) = 0 /\ pc' = "refused" /\ main' = main
        \/ ing.default # None /\ GetSvcPort(ing.default) # 0 /\ pc' = "served" /\ main' = ing.default
    BY <1>9 DEF Default, Goto
  <2> QED BY <1>1, <1>2, <2>1, <2>2, <2>3 DEF Chain, Final
<1>10. CASE UNCHANGED vars
  BY <1>2, <1>10 DEF Chain, vars
<1> QED BY <1>4, <1>5, <1>6, <1>7, <1>8, <1>9, <1>10 DEF Next

LEMMA ChainHolds == Spec => []Chain
<1>1. Init => Chain
  BY DEF Init, Chain, Final
<1>2. Inv /\ Chain /\ [Next]_vars => Chain'
  BY ChainStep
<1> QED BY <1>1, <1>2, InvHolds, PTL DEF Spec

(* The webhook, checkService, the parsers, getBackendConfigure and nginx   *)
(* -t together serve exactly the servable objects: every other one ends    *)
(* denied, refused or in a panic.                                          *)
THEOREM ExactlyAlways == Spec => []Exactly
<1>1. Inv /\ Chain => Exactly
  <2> SUFFICES ASSUME Inv, Chain, pc \in Final PROVE Exactly
    BY DEF Exactly
  <2>1. RulesPass <=> ServableRules
    BY ChecksAreServable DEF Inv, Given
  <2>2. ServableRules /\ ing.default # None => (GetSvcPort(ing.default) # 0 <=> Known(ing.default))
    BY PortFound DEF ServableRules
  <2>3. pc = "served" <=> Servable
    BY <2>1, <2>2 DEF Chain, Servable
  <2> QED BY <2>1, <2>3 DEF Chain, Exactly
<1> QED BY <1>1, ChainHolds, InvHolds, PTL

----------------------------------------------------------------------------
(* Sound objects are servable.                                             *)

LEMMA ExposedIsKnown ==
  ASSUME ports \in Clusters, NEW b, b.svc \in Svcs \cup {None}, Exposed(b)
  PROVE  Known(b)
<1>1. PICK q \in ports[b.svc] : q.number = b.port.number
  BY DEF Exposed
<1>2. ports[b.svc] \subseteq [number : Numbers, name : Names \cup {Unnamed}]
  <2> DEFINE P == [number : Numbers, name : Names \cup {Unnamed}]
  <2>1. ports \in [Svcs -> (SUBSET P) \cup {None}]
    BY ClustersAssumption
  <2>2. b.svc \in Svcs /\ ports[b.svc] # None
    BY DEF Exposed
  <2> HIDE DEF P
  <2>3. ports[b.svc] \subseteq P
    BY <2>1, <2>2
  <2> QED BY <2>3 DEF P
<1>3. b.port.number # 0
  BY <1>1, <1>2, NumbersAssumption
<1> QED BY <1>1, <1>3 DEF Exposed, Known

LEMMA SoundIsServable ==
  ASSUME IsObject(ing), ports \in Clusters, SoundRules,
         ing.default # None => ing.default.svc # None /\ ports[ing.default.svc] # None
  PROVE  ServableRules
<1> DEFINE a == ing.ann
           p == ing.ann.proxy
<1>1. /\ a.target # "bad" /\ SoundProxy(p)
      /\ a.redirect.path # None => a.redirect.host = "name" /\ a.redirect.path # p.path
      /\ a.allow \cup a.deny \subseteq Addresses
  BY DEF SoundRules, SoundAnnotations
<1>2. /\ p.target # "bad" /\ (p.host = "ip" => ~p.ssl)
      /\ p.path # None => p.host \in {"ip", "name"}
      /\ p.host \in {"ip", "name", None}
  BY <1>1, Typed, NamesAssumption DEF SoundProxy
<1>3. p.path \in Regexps <=> p.regex \/ p.target # None
  BY <1>1, NamesAssumption DEF SoundProxy
<1>4. ServableAnnotations
  BY <1>1, <1>2, <1>3, ItemsAssumption DEF ServableAnnotations
<1>5. RenderableAnnotations
  BY <1>1, <1>2 DEF RenderableAnnotations
<1>6. \A b \in Listed : Sound(At(b))
  <2> TAKE b \in Listed
  <2>1. At(b).svc \in Svcs \cup {None}
    BY Typed
  <2>2. Exposed(At(b)) /\ (At(b).path \in Regexps <=> Rewrites(ing.ann))
    BY DEF SoundRules
  <2> QED BY <2>1, <2>2, ExposedIsKnown DEF Sound
<1>7. CASE ~a.useWeight
  <2>1. ServablePlain
    <3>1. \A b, c \in Listed : At(b).svc = At(c).svc => b = c
      BY DEF SoundRules
    <3>2. \A b, c \in Listed : b[1] = c[1] /\ At(b).path = At(c).path => b = c
      BY <1>7 DEF SoundRules
    <3>3. \A b, c \in Listed : ~(b[1] = c[1] /\ b[2] < c[2] /\ At(b).path = At(c).path)
      <4> TAKE b, c \in Listed
      <4>1. \A k \in DOMAIN ing.rules : \A j \in DOMAIN ing.rules[k].paths : j \in Nat
        <5> TAKE k \in DOMAIN ing.rules
        <5>1. ing.rules[k].paths \in Seq(PathType)
          BY Typed
        <5> HIDE DEF PathType
        <5> QED BY <5>1
      <4>2. b[2] \in Nat
        BY <4>1, Places
      <4>3. b = c => ~(b[2] < c[2])
        BY <4>2
      <4> QED BY <3>2, <4>3
    <3>4. ~Rewrites(ing.ann) => \A b \in Listed : At(b).path \notin Taken
      BY DEF SoundRules
    <3>5. p.host # "empty"
      BY <1>2, NamesAssumption
    <3> QED BY <1>6, <3>1, <3>3, <3>4, <3>5 DEF ServablePlain
  <2> QED BY <1>4, <1>5, <1>7, <2>1 DEF ServableRules, SoundRules
<1>8. CASE a.useWeight
  <2>1. /\ Len(ing.rules) = 1 /\ Len(ing.ann.weights) >= 2
        /\ \A k \in DOMAIN ing.ann.weights :
             /\ ing.ann.weights[k].share \in {"some", "zero"}
             /\ \E b \in Listed : At(b).svc = ing.ann.weights[k].svc
        /\ SamePaths /\ p.host = None
    BY <1>8 DEF SoundRules, SoundWeights
  <2>2. ing.ann.weights # <<>> /\ 1 \in DOMAIN ing.ann.weights
    <3>1. ing.ann.weights \in Seq(WeightType)
      BY Typed
    <3> HIDE DEF WeightType
    <3> QED BY <2>1, <3>1
  <2>3. DOMAIN ing.rules = {1} /\ ing.rules # <<>>
    <3>1. ing.rules \in Seq(RuleType)
      BY Typed
    <3> HIDE DEF RuleType
    <3> QED BY <2>1, <3>1
  <2>4. \A b \in Listed : b[1] = 1 /\ b = <<1, b[2]>> /\ b[2] \in DOMAIN ing.rules[1].paths
    BY <2>3, Places
  <2>5. ing.rules[1].paths # <<>> /\ 1 \in DOMAIN ing.rules[1].paths
    <3>1. PICK b \in Listed : At(b).svc = ing.ann.weights[1].svc
      BY <2>1, <2>2
    <3>2. ing.rules[1].paths \in Seq(PathType) /\ b[2] \in DOMAIN ing.rules[1].paths
      BY <2>3, <2>4, Typed
    <3> HIDE DEF PathType
    <3> QED BY <3>2
  <2>6. <<1, 1>> \in Listed /\ At(<<1, 1>>) = ing.rules[1].paths[1]
    BY <2>3, <2>5, Places
  <2>7. \A b \in Listed : At(b).path = ing.rules[1].paths[1].path
    BY <2>1, <2>4, <2>6 DEF SamePaths
  <2>8. \A k \in DOMAIN ing.ann.weights : Shared(ing.ann.weights[k])
    <3> TAKE k \in DOMAIN ing.ann.weights
    <3>1. PICK b \in Listed : At(b).svc = ing.ann.weights[k].svc
      BY <2>1
    <3>2. Known(At(b))
      BY <1>6 DEF Sound
    <3>3. \A c \in Listed : At(c).svc = At(b).svc => c[2] >= b[2]
      <4> TAKE c \in Listed
      <4> HAVE At(c).svc = At(b).svc
      <4>1. c = b
        BY DEF SoundRules
      <4>2. b[2] \in Nat
        <5>1. ing.rules[1].paths \in Seq(PathType) /\ b[2] \in DOMAIN ing.rules[1].paths
          BY <2>3, <2>4, Typed
        <5> HIDE DEF PathType
        <5> QED BY <5>1
      <4> QED BY <4>1, <4>2
    <3> QED BY <2>1, <3>1, <3>2, <3>3 DEF Shared
  <2>9. \A b \in Listed : At(b).svc # None /\ ports[At(b).svc] # None
    BY <1>6 DEF Sound, Known
  <2>10. ~Rewrites(ing.ann) => ing.rules[1].paths[1].path \notin Taken
    BY <2>6 DEF SoundRules
  <2>11. Sound(ing.rules[1].paths[1])
    BY <1>6, <2>6
  <2>12. ServableWeighted
    BY <2>1, <2>2, <2>5, <2>7, <2>8, <2>9, <2>10, <2>11 DEF ServableWeighted
  <2> QED BY <1>4, <1>5, <1>8, <2>3, <2>12 DEF ServableRules, SoundRules
<1> QED BY <1>7, <1>8

(* A sound object is not lost in the checks: its servers are written and,  *)
(* unless its default backend is wrong, it ends served.                    *)
THEOREM SoundIsServedAlways == Spec => []SoundIsServed
<1>1. Inv /\ Chain => SoundIsServed
  <2> SUFFICES ASSUME Inv, Chain, pc \in Final, SoundRules,
                      ing.default # None => ing.default.svc # None /\ ports[ing.default.svc] # None
               PROVE  /\ DOMAIN file = DOMAIN ing.rules
                      /\ (ing.default # None => Exposed(ing.default)) =>
                           pc = "served" /\ main = ing.default
    BY DEF SoundIsServed, Exposed
  <2>1. IsObject(ing) /\ ports \in Clusters /\ main \in {None, ing.default}
    BY DEF Inv, Given
  <2>2. RulesPass
    BY <2>1, SoundIsServable, ChecksAreServable
  <2>3. DOMAIN file = DOMAIN ing.rules
    <3>1. CASE ing.rules = <<>>
      BY <2>2, <3>1 DEF Chain
    <3>2. CASE ing.rules # <<>>
      BY <2>2, <3>2 DEF Chain, Inv, Tested, Configured
    <3> QED BY <3>1, <3>2
  <2>4. ASSUME ing.default # None => Exposed(ing.default)
        PROVE  pc = "served" /\ main = ing.default
    <3>1. ing.default # None => ing.default.svc \in Svcs \cup {None}
      BY <2>1 DEF IsObject, BackendType
    <3>2. ing.default # None => GetSvcPort(ing.default) # 0
      BY <2>1, <2>4, <3>1, ExposedIsKnown, PortFound DEF Exposed
    <3> QED BY <2>1, <2>2, <3>2 DEF Chain
  <2> QED BY <2>3, <2>4
<1> QED BY <1>1, ChainHolds, InvHolds, PTL

(* What gets through the checks is complete and free of contradictions, in *)
(* the servers as soon as they are written.                                *)
THEOREM ServedIsSoundAlways == Spec => []ServedIsSound
<1>1. Inv /\ Chain => ServedIsSound
  <2> SUFFICES ASSUME Inv, Chain PROVE ServedIsSound
    OBVIOUS
  <2>1. IsObject(ing) /\ main \in {None, ing.default} /\ pc \in Final \cup Early \cup {"configure", "test", "default"}
    BY DEF Inv, Given
  <2>2. ASSUME pc = "served"
        PROVE  DOMAIN file = DOMAIN ing.rules /\ main = ing.default
    <3>1. RulesPass /\ (file # <<>> <=> ing.rules # <<>>) /\ (main # None <=> ing.default # None)
      BY <2>2 DEF Chain, Final
    <3>2. CASE ing.rules = <<>>
      BY <2>1, <3>1, <3>2
    <3>3. CASE ing.rules # <<>>
      BY <2>1, <3>1, <3>3 DEF Inv, Tested, Configured
    <3> QED BY <3>2, <3>3
  <2>3. ASSUME file # <<>>
        PROVE  RulesPass /\ ing.rules # <<>>
    <3>1. CASE pc \in Final
      BY <2>3, <3>1 DEF Chain
    <3>2. CASE pc = "default"
      BY <3>2 DEF Chain, RulesPass
    <3> QED BY <2>1, <2>3, <3>1, <3>2 DEF Inv, Tested
  <2>4. ASSUME file # <<>>
        PROVE  /\ ing.ann.target # "bad" /\ ing.ann.proxy.target # "bad"
               /\ ing.ann.redirect.path # None => ing.ann.redirect.host = "name"
               /\ ing.ann.proxy.path # None => ing.ann.proxy.host \in {"ip", "name"}
               /\ ing.ann.allow \cup ing.ann.deny \subseteq Addresses \cup Networks
               /\ \A p \in Listed : At(p).svc # None /\ ports[At(p).svc] # None
               /\ ing.ann.useWeight => ing.ann.weights # <<>>
               /\ ~ing.ann.useWeight => \A p, q \in Listed : At(p).svc = At(q).svc => p = q
               /\ ~Rewrites(ing.ann) => \A p \in Listed :
                    /\ At(p).path \notin Taken
                    /\ ~ing.ann.useWeight =>
                         \A q \in Listed : p[1] = q[1] /\ At(p).path = At(q).path => p = q
    <3>1. RulesPass /\ ing.rules # <<>> /\ ServableRules
      BY <2>1, <2>3, <2>4, ChecksAreServable
    <3>2. ServableAnnotations /\ RenderableAnnotations
      BY <3>1 DEF ServableRules
    <3>3. Acceptable
      BY <3>1 DEF RulesPass
    <3>4. \A p \in Listed : At(p).svc # None /\ ports[At(p).svc] # None
      BY <3>1, ServicesFine DEF RulesPass
    <3>5. ing.ann.useWeight => ServableWeighted
      BY <3>1 DEF ServableRules
    <3>6. ~Rewrites(ing.ann) => \A p \in Listed : At(p).path \notin Taken
      <4>1. CASE ing.ann.useWeight
        BY <3>5, <4>1 DEF ServableWeighted
      <4>2. CASE ~ing.ann.useWeight
        BY <3>3, <4>2 DEF Acceptable
      <4> QED BY <4>1, <4>2
    <3>7. ~ing.ann.useWeight =>
            /\ \A p, q \in Listed : At(p).svc = At(q).svc => p = q
            /\ ~Rewrites(ing.ann) =>
                 \A p, q \in Listed : p[1] = q[1] /\ At(p).path = At(q).path => p = q
      BY <3>3 DEF Acceptable
    <3>8. ing.ann.useWeight => ing.ann.weights # <<>>
      BY <3>5 DEF ServableWeighted
    <3> QED BY <3>2, <3>4, <3>6, <3>7, <3>8 DEF ServableAnnotations, RenderableAnnotations
  <2> QED BY <2>2, <2>4 DEF ServedIsSound
<1> QED BY <1>1, ChainHolds, InvHolds, PTL

----------------------------------------------------------------------------
(* Ports without a name are all that is wrong with GetSvcPort.             *)

(* A backend gives its port by number or by name, as the API server asks.  *)
ByEither(o) == \A k \in DOMAIN o.rules : \A j \in DOMAIN o.rules[k].paths :
  LET port == o.rules[k].paths[j].port IN port.number # 0 => port.name = Unnamed

AllNamed(c) == \A s \in Svcs : c[s] # None => \A q \in c[s] : q.name # Unnamed

(* Where every port of a Service has a name, getBackendConfigure serves an *)
(* object only when the port of its every backend is one its Service has.  *)
THEOREM PortExposedWhenNamed ==
  ASSUME \A o \in Objects : ByEither(o), \A c \in Clusters : AllNamed(c)
  PROVE  Spec => []PortExposed
<1> DEFINE Same == ing \in Objects
<1>1. Init => Chain /\ Same
  BY DEF Init, Chain, Final
<1>2. Inv /\ Chain /\ Same /\ [Next]_vars => Chain' /\ Same'
  <2>1. [Next]_vars => ing' = ing
    BY DEF Next, vars, Admit, CheckServices, Extract, Configure, Test, Default, Goto
  <2> QED BY <2>1, ChainStep
<1>3. Inv /\ Chain /\ Same => PortExposed
  <2> SUFFICES ASSUME Inv, Chain, Same, pc = "served", ~ing.ann.useWeight, NEW p \in Listed
               PROVE  \E q \in ports[At(p).svc] : q.number = At(p).port.number
    BY DEF PortExposed
  <2>1. IsObject(ing) /\ ports \in Clusters
    BY DEF Inv, Given
  <2>2. /\ p = <<p[1], p[2]>> /\ p[1] \in DOMAIN ing.rules
        /\ p[2] \in DOMAIN ing.rules[p[1]].paths /\ At(p) = ing.rules[p[1]].paths[p[2]]
    BY Places DEF At
  <2>3. ServablePlain
    <3>1. RulesPass
      BY DEF Chain, Final
    <3>2. ing.rules # <<>>
      BY <2>2
    <3> QED BY <2>1, <3>1, <3>2, ChecksAreServable DEF ServableRules
  <2>4. Known(At(p))
    BY <2>3 DEF ServablePlain, Sound
  <2>5. At(p).port.name = Unnamed
    BY <2>2, <2>4 DEF Known, ByEither
  <2>6. \A q \in ports[At(p).svc] : q.name # Unnamed
    <3>1. At(p).svc \in Svcs
      BY <2>1, <2>4, Typed DEF Known
    <3> QED BY <2>1, <2>4, <3>1 DEF AllNamed, Known
  <2> QED BY <2>4, <2>5, <2>6 DEF Known
<1> QED BY <1>1, <1>2, <1>3, InvHolds, PTL DEF Spec
==============================================================================
