--------------------------- MODULE Backends_proof ---------------------------
(***************************************************************************)
(* Proofs about Backends for every set of hosts, paths, Services, ports    *)
(* and addresses, and for objects with any number of rules and paths: a    *)
(* rendered location has a port and existing Services, a request reaches   *)
(* the Service of its rule's best place, and the access lists are kept.    *)
(***************************************************************************)
EXTENDS Backends, SequenceTheorems, WellFoundedInduction, TLAPS

(* Min is determined by the element that is one. *)
LEMMA MinIs ==
  ASSUME NEW T, T \subseteq Int, NEW m \in T, \A y \in T : m <= y
  PROVE  Min(T) = m
<1>1. Min(T) \in T /\ \A y \in T : Min(T) <= y
  BY DEF Min
<1>2. m \in Int /\ Min(T) \in Int /\ m <= Min(T) /\ Min(T) <= m
  BY <1>1
<1> QED BY <1>2

(* A set of naturals that is not empty has one. *)
LEMMA MinIn ==
  ASSUME NEW T, T \subseteq Nat, T # {}
  PROVE  Min(T) \in T /\ \A y \in T : Min(T) <= y
<1>1. PICK m \in T : \A y \in T : ~(<<y, m>> \in OpToRel(<, Nat))
  BY NatLessThanWellFounded, WFMin
<1>2. \A y \in T : m <= y
  <2> TAKE y \in T
  <2>1. y \in Nat /\ m \in Nat
    OBVIOUS
  <2>2. ~(y < m)
    BY <1>1, <2>1 DEF OpToRel
  <2> QED BY <2>1, <2>2
<1>3. T \subseteq Int
  OBVIOUS
<1> QED BY <1>2, <1>3, MinIs

----------------------------------------------------------------------------
(* What is rendered, row by row. *)

PathsOf(k) == ing.rules[k].paths
Rows(k) == [j \in 1..(IF ing.ann.useWeight THEN 1 ELSE Len(PathsOf(k))) |-> Location(PathsOf(k)[j])]
Before == RedirectLocations(ing.ann.redirect) \o ProxyLocations(ing.ann.proxy)

Early == {"submitted", "services", "annotations"}

(* The object never changes. *)
Given == /\ IsObject(ing) /\ ports \in Clusters
         /\ pc \in Final \cup Early \cup {"configure", "test", "default"}
         /\ main \in {None, ing.default}

(* What Extract leaves behind. *)
Parsed == /\ (ing.ann.proxy.path \in Regexps) = ProxyIsRegex(ing.ann.proxy)
          /\ ing.ann.useWeight => SamePaths
Extracted ==
  /\ upstream \subseteq Svcs
  /\ pc \in Early => upstream = {}
  /\ pc = "configure" => Parsed
  /\ ing.ann.useWeight => \A s \in upstream :
       ports[s] # None /\ \E q \in Listed : At(q).svc = s

(* What Configure leaves behind. *)
Sane == /\ \A p \in Used : checkIngressContent(At(p)) /\ GetSvcPort(At(p)) # 0
        /\ ing.ann.useWeight => \A k \in DOMAIN ing.rules : ing.rules[k].paths # <<>>
Configured ==
  /\ pc \in Early \cup {"configure"} => servers = <<>>
  /\ servers # <<>> =>
       /\ Parsed /\ Sane
       /\ DOMAIN servers = DOMAIN ing.rules
       /\ \A k \in DOMAIN servers : /\ servers[k].host = ing.rules[k].host
                                     /\ servers[k].access = AccessRules(ing.ann)
                                     /\ servers[k].locations = Before \o Rows(k)

(* What Test leaves behind. *)
Tested == /\ file \in {<<>>, servers}
          /\ pc \in Early \cup {"configure", "test"} => file = <<>>
          /\ file # <<>> => NginxAccepts

Inv == Given /\ Extracted /\ Configured /\ Tested

----------------------------------------------------------------------------
(* Places. *)
LEMMA Places ==
  /\ \A k \in DOMAIN ing.rules : \A j \in DOMAIN ing.rules[k].paths :
       <<k, j>> \in Listed /\ At(<<k, j>>) = ing.rules[k].paths[j]
  /\ \A p \in Listed : /\ p = <<p[1], p[2]>> /\ p[1] \in DOMAIN ing.rules
                       /\ p[2] \in DOMAIN ing.rules[p[1]].paths
BY DEF Listed, At

(* An object's parts have their types. *)
LEMMA Typed ==
  ASSUME IsObject(ing)
  PROVE  /\ ing.rules \in Seq(RuleType)
         /\ \A k \in DOMAIN ing.rules : /\ ing.rules[k].host \in Hosts
                                        /\ ing.rules[k].paths \in Seq(PathType)
         /\ \A k \in DOMAIN ing.rules : \A j \in DOMAIN ing.rules[k].paths :
              ing.rules[k].paths[j] \in PathType
         /\ \A p \in Listed : At(p) \in PathType
         /\ \A b \in PathType : /\ b.path \in Paths /\ b.svc \in Svcs \cup {None}
                               /\ b.port.number \in Numbers \cup {0}
         /\ ing.ann.useWeight \in BOOLEAN /\ ing.ann.weights \in Seq(WeightType)
         /\ ing.ann.proxy \in ProxyType /\ ing.ann.redirect \in RedirectType
<1>1. ing.rules \in Seq(RuleType)
  BY DEF IsObject
<1>2. \A k \in DOMAIN ing.rules : ing.rules[k] \in RuleType
  <2> HIDE DEF RuleType
  <2> QED BY <1>1
<1>3. \A k \in DOMAIN ing.rules : ing.rules[k].host \in Hosts /\ ing.rules[k].paths \in Seq(PathType)
  BY <1>2 DEF RuleType
<1>4. \A k \in DOMAIN ing.rules : \A j \in DOMAIN ing.rules[k].paths : ing.rules[k].paths[j] \in PathType
  BY <1>3
<1>5. \A p \in Listed : At(p) \in PathType
  BY <1>4, Places DEF At
<1>6. \A b \in PathType : /\ b.path \in Paths /\ b.svc \in Svcs \cup {None}
                        /\ b.port.number \in Numbers \cup {0}
  BY DEF PathType, PortType
<1>7. /\ ing.ann.useWeight \in BOOLEAN /\ ing.ann.weights \in Seq(WeightType)
      /\ ing.ann.proxy \in ProxyType /\ ing.ann.redirect \in RedirectType
  BY DEF IsObject, IsAnnotations
<1> QED BY <1>1, <1>3, <1>4, <1>5, <1>6, <1>7

(* While the object and what was made of it stay, so does what is said of  *)
(* them.                                                                   *)
LEMMA Steady ==
  ASSUME UNCHANGED <<ing, ports, upstream>>
  PROVE  /\ Parsed' = Parsed /\ Sane' = Sane
         /\ Before' = Before
         /\ \A k : Rows(k)' = Rows(k)
         /\ Listed' = Listed /\ \A p : At(p)' = At(p)
         /\ \A b : GetSvcPort(b)' = GetSvcPort(b)
<1>1. Listed' = Listed /\ \A p : At(p)' = At(p)
  BY DEF Listed, At
<1>2. \A b : GetSvcPort(b)' = GetSvcPort(b)
  BY DEF GetSvcPort
<1>3. Before' = Before
  BY DEF Before
<1>4. \A b : Location(b)' = Location(b)
  BY <1>2 DEF Location
<1>5. \A k : Rows(k)' = Rows(k)
  BY <1>4 DEF Rows, PathsOf
<1>6. Parsed' = Parsed
  BY <1>1 DEF Parsed, SamePaths
<1>7. Sane' = Sane
  BY <1>1, <1>2 DEF Sane, Used, checkIngressContent
<1> QED BY <1>1, <1>2, <1>3, <1>5, <1>6, <1>7

(* What the weight parser accepts.                                         *)
LEMMA WeightsFine ==
  ASSUME IsObject(ing), ing.ann.useWeight, WeightCheck = "fine"
  PROVE  /\ SamePaths
         /\ \A k \in DOMAIN ing.ann.weights :
              LET s == ing.ann.weights[k].svc
              IN ports[s] # None /\ \E q \in Listed : At(q).svc = s
<1> DEFINE wrong == {k \in DOMAIN ing.ann.weights : Item(ing.ann.weights[k]) # "fine"}
<1>1. SamePaths
  BY DEF WeightCheck, Verdict
<1>2. wrong = {}
  <2> SUFFICES ASSUME wrong # {} PROVE FALSE
    OBVIOUS
  <2>1. wrong \subseteq Nat
    BY Typed
  <2>2. Min(wrong) \in wrong
    <3> HIDE DEF wrong
    <3> QED BY <2>1, MinIn
  <2>3. Item(ing.ann.weights[Min(wrong)]) = "fine"
    BY <1>1 DEF WeightCheck
  <2> QED BY <2>2, <2>3
<1>3. \A k \in DOMAIN ing.ann.weights : Item(ing.ann.weights[k]) = "fine"
  BY <1>2
<1>4. ASSUME NEW w, Item(w) = "fine"
      PROVE  ports[w.svc] # None /\ \E q \in Listed : At(q).svc = w.svc
  BY <1>4 DEF Item
<1> QED BY <1>1, <1>3, <1>4

(* The weight parser has a verdict on every list. *)
LEMMA WeightsJudged ==
  ASSUME IsObject(ing)
  PROVE  WeightCheck \in {"fine", "refused", "down"}
<1> DEFINE wrong == {k \in DOMAIN ing.ann.weights : Item(ing.ann.weights[k]) # "fine"}
<1>1. CASE wrong = {}
  BY <1>1 DEF WeightCheck
<1>2. CASE wrong # {}
  <2>1. wrong \subseteq Nat
    BY Typed
  <2>2. Min(wrong) \in wrong
    <3> HIDE DEF wrong
    <3> QED BY <1>2, <2>1, MinIn
  <2> DEFINE w == ing.ann.weights[Min(wrong)]
  <2>3. w \in WeightType
    <3>1. ing.ann.weights \in Seq(WeightType) /\ Min(wrong) \in DOMAIN ing.ann.weights
      BY <2>2, Typed
    <3> HIDE DEF WeightType, wrong
    <3> QED BY <3>1
  <2>4. w.share \in {"some", "zero", "malformed", "missing"}
    BY <2>3 DEF WeightType
  <2>5. Item(w) \in {"fine", "refused", "down"}
    <3> HIDE DEF w
    <3> QED BY <2>4 DEF Item
  <2>6. WeightCheck \in {"fine", "refused", Item(w)}
    BY DEF WeightCheck
  <2> QED BY <2>5, <2>6
<1> QED BY <1>1, <1>2

LEMMA ExtractKeeps ==
  ASSUME Inv, Extract
  PROVE  Inv'
<1> DEFINE failed == (Checks(ing.ann) \cup {WeightCheck}) \ {"fine"}
<1>1. pc = "annotations" /\ UNCHANGED <<ing, ports, servers, file, main>>
  BY DEF Extract, Goto
<1>2. servers = <<>> /\ file = <<>> /\ upstream = {}
  BY <1>1 DEF Inv, Configured, Tested, Extracted, Early
<1>3. Configured' /\ Tested'
  BY <1>1, <1>2 DEF Configured, Tested
<1>4. CASE failed = {} /\ pc' = "configure"
           /\ upstream' = {ing.ann.weights[k].svc : k \in DOMAIN ing.ann.weights}
  <2>1. ProxyCheck(ing.ann.proxy) = "fine" /\ WeightCheck = "fine"
    BY <1>4 DEF Checks
  <2>2. (ing.ann.proxy.path \in Regexps) = ProxyIsRegex(ing.ann.proxy)
    BY <2>1 DEF ProxyCheck, Verdict
  <2>3. IsObject(ing)
    BY DEF Inv, Given
  <2>4. \A k \in DOMAIN ing.ann.weights : ing.ann.weights[k].svc \in Svcs
    <3>1. \A k \in DOMAIN ing.ann.weights : ing.ann.weights[k] \in WeightType
      <4>1. ing.ann.weights \in Seq(WeightType)
        BY <2>3, Typed
      <4> HIDE DEF WeightType
      <4> QED BY <4>1
    <3> QED BY <3>1 DEF WeightType
  <2>5. Given'
    BY <1>1, <1>4 DEF Inv, Given
  <2>6. Parsed'
    <3>1. ing.ann.useWeight => SamePaths
      BY <2>1, <2>3, WeightsFine
    <3>2. Parsed
      BY <2>2, <3>1 DEF Parsed
    <3>3. Parsed' = Parsed
      BY <1>1 DEF Parsed, SamePaths, Listed, At
    <3> QED BY <3>2, <3>3
  <2>7. ing.ann.useWeight => \A k \in DOMAIN ing.ann.weights :
          LET s == ing.ann.weights[k].svc
          IN ports[s] # None /\ \E q \in Listed : At(q).svc = s
    BY <2>1, <2>3, WeightsFine
  <2>8. Listed' = Listed /\ \A p : At(p)' = At(p)
    BY <1>1 DEF Listed, At
  <2>9. Extracted'
    BY <1>1, <1>4, <2>4, <2>6, <2>7, <2>8 DEF Extracted, Early
  <2> QED BY <1>3, <2>5, <2>9 DEF Inv
<1>5. CASE (\E check \in failed : pc' = check) /\ UNCHANGED upstream
  <2>1. failed \subseteq {"refused", "down"}
    <3>1. Checks(ing.ann) \subseteq {"fine", "refused"}
      BY DEF Checks, RewriteCheck, ProxyCheck, RedirectCheck, ListCheck, Verdict
    <3>2. WeightCheck \in {"fine", "refused", "down"}
      BY WeightsJudged DEF Inv, Given
    <3> QED BY <3>1, <3>2
  <2>2. pc' \in {"refused", "down"}
    BY <1>5, <2>1
  <2>3. Given' /\ Extracted'
    BY <1>1, <1>2, <1>5, <2>2 DEF Inv, Given, Extracted, Early, Final
  <2> QED BY <1>3, <2>3 DEF Inv
<1> QED BY <1>4, <1>5 DEF Extract, Goto

(* Configure renders every rule from what the parsers accepted. *)
LEMMA ConfigureKeeps ==
  ASSUME Inv, Configure
  PROVE  Inv'
<1>1. pc = "configure" /\ UNCHANGED <<ing, ports, upstream, file, main>>
  BY DEF Configure, Goto
<1>2. servers = <<>> /\ file = <<>> /\ Parsed
  BY <1>1 DEF Inv, Configured, Tested, Extracted
<1>3. Listed' = Listed /\ \A p : At(p)' = At(p)
  BY <1>1, Steady
<1>4. pc' \in {"test", "refused", "down"}
  BY DEF Configure, Goto, Configurable
<1>5. Given' /\ Extracted'
  BY <1>1, <1>3, <1>4 DEF Inv, Given, Extracted, Early, Final
<1>6. Tested'
  BY <1>1, <1>2, <1>4 DEF Tested, Early
<1>7. CASE UNCHANGED servers
  BY <1>2, <1>4, <1>5, <1>6, <1>7 DEF Inv, Configured, Early
<1>8. CASE Configurable = "fine" /\ servers' = [k \in DOMAIN ing.rules |-> Server(k)]
  <2>1. Sane
    <3> DEFINE bad(k) == \E p \in Used : p[1] = k /\ ~(checkIngressContent(At(p)) /\ GetSvcPort(At(p)) # 0)
               empty(k) == ing.ann.useWeight /\ ing.rules[k].paths = <<>>
               stops == {k \in DOMAIN ing.rules : bad(k) \/ empty(k)}
    <3>1. stops = {}
      BY <1>8 DEF Configurable
    <3>2. \A p \in Used : p[1] \in DOMAIN ing.rules
      BY Places DEF Used
    <3> QED BY <3>1, <3>2 DEF Sane
  <2>2. Parsed' /\ Sane' /\ Before' = Before /\ \A k : Rows(k)' = Rows(k)
    BY <1>1, <1>2, <2>1, Steady
  <2>3. \A k \in DOMAIN ing.rules : /\ Server(k).host = ing.rules[k].host
                                   /\ Server(k).access = AccessRules(ing.ann)
                                   /\ Server(k).locations = Before \o Rows(k)
    BY DEF Server, Before, Rows, PathsOf
  <2>4. Configured'
    BY <1>1, <1>4, <1>8, <2>2, <2>3 DEF Configured, Early
  <2> QED BY <1>5, <1>6, <2>4 DEF Inv
<1> QED BY <1>7, <1>8 DEF Configure

LEMMA TestKeeps ==
  ASSUME Inv, Test
  PROVE  Inv'
<1>1. pc = "test" /\ UNCHANGED <<ing, ports, upstream, servers, main>>
  BY DEF Test, Goto
<1>2. pc' \in {"default", "refused"}
  BY DEF Test, Goto
<1>3. Listed' = Listed /\ \A p : At(p)' = At(p)
  BY <1>1, Steady
<1>4. Given' /\ Extracted'
  BY <1>1, <1>2, <1>3 DEF Inv, Given, Extracted, Early, Final
<1>5. Configured'
  BY <1>1, <1>2, Steady DEF Inv, Configured, Early
<1>6. NginxAccepts' = NginxAccepts
  BY <1>1 DEF NginxAccepts, Backed, Rendered, To
<1>7. Tested'
  <2>1. file = <<>>
    BY <1>1 DEF Inv, Tested
  <2>2. file' # <<>> => NginxAccepts /\ file' = servers
    BY <2>1 DEF Test
  <2> QED BY <1>1, <1>2, <1>6, <2>2 DEF Tested, Early
<1> QED BY <1>4, <1>5, <1>7 DEF Inv

(* The steps that neither parse, render nor test. *)
LEMMA OthersKeep ==
  ASSUME Inv, Admit \/ CheckServices \/ Default \/ UNCHANGED vars
  PROVE  Inv'
<1>1. UNCHANGED <<ing, ports, upstream, servers, file>>
  BY DEF Admit, CheckServices, Default, Goto, vars
<1>2. /\ pc' \in Final \cup Early \cup {"configure", "test", "default"}
      /\ pc' \in Early => pc \in Early
      /\ pc' = "configure" => pc = "configure"
      /\ pc' = "test" => pc = "test"
      /\ main' \in {None, ing.default}
  BY DEF Inv, Given, Admit, CheckServices, ServicesCheck, Verdict, Default, Goto, vars, Early, Final
<1>3. Listed' = Listed /\ (\A p : At(p)' = At(p)) /\ Parsed' = Parsed
  BY <1>1, Steady
<1>4. NginxAccepts' = NginxAccepts
  BY <1>1 DEF NginxAccepts, Backed, Rendered, To
<1>5. Given' /\ Extracted'
  BY <1>1, <1>2, <1>3 DEF Inv, Given, Extracted
<1>6. Configured'
  BY <1>1, <1>2, Steady DEF Inv, Configured
<1>7. Tested'
  BY <1>1, <1>2, <1>4 DEF Inv, Tested
<1> QED BY <1>5, <1>6, <1>7 DEF Inv

LEMMA InvHolds == Spec => []Inv
<1>1. Init => Inv
  BY ObjectsAssumption DEF Init, Inv, Given, Extracted, Configured, Tested, Early, Final
<1>2. Inv /\ [Next]_vars => Inv'
  BY ExtractKeeps, ConfigureKeeps, TestKeeps, OthersKeep DEF Next
<1> QED BY <1>1, <1>2, PTL DEF Spec

----------------------------------------------------------------------------
(* Access. *)
Rule(admit, who) == [admit |-> admit, who |-> who]

(* The rules of a server are the allow list's, then the deny list's.       *)
LEMMA AccessForm ==
  ASSUME NEW a
  PROVE  /\ a.allow = {} /\ a.deny = {} => DOMAIN AccessRules(a) = {}
         /\ a.allow # {} =>
              /\ DOMAIN AccessRules(a) = IF a.deny = {} THEN 1..2 ELSE 1..4
              /\ AccessRules(a)[1] = Rule(TRUE, a.allow)
              /\ AccessRules(a)[2] = Rule(FALSE, Addresses)
         /\ a.allow = {} /\ a.deny # {} =>
              /\ DOMAIN AccessRules(a) = 1..2
              /\ AccessRules(a)[1] = Rule(FALSE, a.deny)
              /\ AccessRules(a)[2] = Rule(TRUE, Addresses)
         /\ a.allow # {} /\ a.deny # {} =>
              /\ AccessRules(a)[3] = Rule(FALSE, a.deny)
              /\ AccessRules(a)[4] = Rule(TRUE, Addresses)
<1> DEFINE s == <<Rule(TRUE, a.allow), Rule(FALSE, Addresses)>>
           t == <<Rule(FALSE, a.deny), Rule(TRUE, Addresses)>>
           S == {Rule(TRUE, a.allow), Rule(FALSE, Addresses), Rule(FALSE, a.deny), Rule(TRUE, Addresses)}
           rules == AccessRules(a)
<1>1. rules = (IF a.allow = {} THEN <<>> ELSE s) \o (IF a.deny = {} THEN <<>> ELSE t)
  BY DEF AccessRules, Rule
<1>2. /\ s \in Seq(S) /\ Len(s) = 2 /\ s[1] = Rule(TRUE, a.allow) /\ s[2] = Rule(FALSE, Addresses)
      /\ t \in Seq(S) /\ Len(t) = 2 /\ t[1] = Rule(FALSE, a.deny) /\ t[2] = Rule(TRUE, Addresses)
  OBVIOUS
<1>3. <<>> \in Seq(S) /\ DOMAIN <<>> = {}
  OBVIOUS
<1> HIDE DEF s, t, S, rules
<1>4. DOMAIN s = 1..2 /\ DOMAIN t = 1..2
  BY <1>2
<1> SUFFICES /\ a.allow = {} /\ a.deny = {} => DOMAIN rules = {}
             /\ a.allow # {} =>
                  /\ DOMAIN rules = IF a.deny = {} THEN 1..2 ELSE 1..4
                  /\ rules[1] = Rule(TRUE, a.allow) /\ rules[2] = Rule(FALSE, Addresses)
             /\ a.allow = {} /\ a.deny # {} =>
                  /\ DOMAIN rules = 1..2
                  /\ rules[1] = Rule(FALSE, a.deny) /\ rules[2] = Rule(TRUE, Addresses)
             /\ a.allow # {} /\ a.deny # {} =>
                  /\ rules[3] = Rule(FALSE, a.deny) /\ rules[4] = Rule(TRUE, Addresses)
  BY DEF rules
<1>5. CASE a.allow = {} /\ a.deny = {}
  <2>1. rules = <<>>
    BY <1>1, <1>3, <1>5, ConcatEmptySeq
  <2> QED BY <1>3, <1>5, <2>1
<1>6. CASE a.allow # {} /\ a.deny = {}
  <2>1. rules = s
    BY <1>1, <1>2, <1>6, ConcatEmptySeq
  <2> QED BY <1>2, <1>4, <1>6, <2>1
<1>7. CASE a.allow = {} /\ a.deny # {}
  <2>1. rules = t
    BY <1>1, <1>2, <1>7, ConcatEmptySeq
  <2> QED BY <1>2, <1>4, <1>7, <2>1
<1>8. CASE a.allow # {} /\ a.deny # {}
  <2>1. rules = s \o t
    BY <1>1, <1>8
  <2>2. /\ rules \in Seq(S) /\ Len(rules) = 4
        /\ \A i \in 1..4 : rules[i] = IF i <= 2 THEN s[i] ELSE t[i - 2]
    <3>1. /\ rules \in Seq(S) /\ Len(rules) = Len(s) + Len(t)
          /\ \A i \in 1..Len(s) + Len(t) : rules[i] = IF i <= Len(s) THEN s[i] ELSE t[i - Len(s)]
      BY <1>2, <2>1, ConcatProperties
    <3>2. Len(s) + Len(t) = 4
      BY <1>2
    <3> QED BY <1>2, <3>1, <3>2
  <2>3. rules[1] = s[1] /\ rules[2] = s[2] /\ rules[3] = t[1] /\ rules[4] = t[2]
    <3>1. 1 \in 1..4 /\ 2 \in 1..4 /\ 3 \in 1..4 /\ 4 \in 1..4 /\ 3 - 2 = 1 /\ 4 - 2 = 2
          /\ 1 <= 2 /\ ~(3 <= 2) /\ ~(4 <= 2)
      OBVIOUS
    <3> QED BY <2>2, <3>1
  <2>4. DOMAIN rules = 1..4
    BY <2>2
  <2> QED BY <1>2, <1>8, <2>3, <2>4
<1> QED BY <1>5, <1>6, <1>7, <1>8

(* The first rule that names a client decides as the lists say. *)
LEMMA RulesDecide ==
  ASSUME NEW a, NEW c \in Addresses, NEW s, s.access = AccessRules(a)
  PROVE  Admits(s, c) <=> IF a.allow # {} THEN c \in a.allow ELSE c \notin a.deny
<1> DEFINE naming == {k \in DOMAIN s.access : c \in s.access[k].who}
           list == IF a.allow # {} THEN a.allow ELSE a.deny
<1>1. CASE a.allow = {} /\ a.deny = {}
  <2>1. DOMAIN s.access = {}
    BY <1>1, AccessForm
  <2> QED BY <1>1, <2>1 DEF Admits
<1>2. CASE ~(a.allow = {} /\ a.deny = {})
  <2>1. /\ DOMAIN s.access \in {1..2, 1..4}
        /\ s.access[1] = Rule(a.allow # {}, list)
        /\ s.access[2] = Rule(a.allow = {}, Addresses)
    BY <1>2, AccessForm
  <2>2. s.access[1].who = list /\ s.access[2].who = Addresses
        /\ s.access[1].admit = (a.allow # {}) /\ s.access[2].admit = (a.allow = {})
    BY <2>1 DEF Rule
  <2>3. naming \subseteq 1..4 /\ 2 \in naming /\ (1 \in naming <=> c \in list)
    BY <2>1, <2>2
  <2>4. Min(naming) = IF c \in list THEN 1 ELSE 2
    <3> HIDE DEF naming, list
    <3>1. naming \subseteq Int /\ \A k \in naming : k = 1 \/ 2 <= k
      BY <2>3
    <3>2. CASE c \in list
      <4>1. 1 \in naming /\ \A k \in naming : 1 <= k
        BY <2>3, <3>1, <3>2
      <4> QED BY <3>1, <3>2, <4>1, MinIs
    <3>3. CASE c \notin list
      <4>1. 2 \in naming /\ \A k \in naming : 2 <= k
        BY <2>3, <3>1, <3>3
      <4> QED BY <3>1, <3>3, <4>1, MinIs
    <3> QED BY <3>2, <3>3
  <2>5. Admits(s, c) <=> s.access[Min(naming)].admit
    BY <2>3 DEF Admits
  <2> HIDE DEF naming
  <2> QED BY <2>2, <2>4, <2>5
<1> QED BY <1>1, <1>2

----------------------------------------------------------------------------
(* Locations.  The redirect comes first, then the proxy, then the paths.   *)
RedirectRow == [path |-> ing.ann.redirect.path, regex |-> FALSE, kind |-> "redirect",
                port |-> 0, to |-> {}]
ProxyRow == [path |-> ing.ann.proxy.path, regex |-> ProxyIsRegex(ing.ann.proxy),
             kind |-> "proxy", port |-> 0, to |-> {ing.ann.proxy.host}]

LEMMA BeforeForm ==
  /\ Before \in Seq({RedirectRow, ProxyRow})
  /\ \A i \in 1..Len(Before) : Before[i] = RedirectRow \/ (i = Len(Before) /\ Before[i] = ProxyRow
                                                        /\ ing.ann.proxy.path # None)
  /\ ing.ann.proxy.path # None => Len(Before) > 0 /\ Before[Len(Before)] = ProxyRow
  /\ ing.ann.redirect.path # None => Len(Before) > 0 /\ Before[1] = RedirectRow
<1> DEFINE R == RedirectLocations(ing.ann.redirect)
           P == ProxyLocations(ing.ann.proxy)
           S == {RedirectRow, ProxyRow}
<1>1. /\ R = <<>> \/ R = <<RedirectRow>>
      /\ ing.ann.redirect.path # None => R = <<RedirectRow>>
  BY DEF RedirectLocations, RedirectRow
<1>2. \/ ing.ann.proxy.path = None /\ P = <<>>
      \/ ing.ann.proxy.path # None /\ P = <<ProxyRow>>
  BY DEF ProxyLocations, ProxyRow
<1> HIDE DEF R, P
<1>0. /\ <<>> \in Seq(S) /\ Len(<<>>) = 0
      /\ \A r \in S : <<r>> \in Seq(S) /\ Len(<<r>>) = 1 /\ <<r>>[1] = r
  <2> HIDE DEF S
  <2> QED OBVIOUS
<1>3. R \in Seq(S) /\ Len(R) \in 0..1 /\ \A i \in 1..Len(R) : R[i] = RedirectRow
  <2>1. CASE R = <<>>
    BY <1>0, <2>1
  <2>2. CASE R = <<RedirectRow>>
    BY <1>0, <2>2
  <2> QED BY <1>1, <2>1, <2>2
<1>4. /\ P \in Seq(S) /\ Len(P) \in 0..1
      /\ ing.ann.proxy.path # None <=> Len(P) = 1
      /\ \A i \in 1..Len(P) : P[i] = ProxyRow
  <2>1. CASE ing.ann.proxy.path = None /\ P = <<>>
    BY <1>0, <2>1
  <2>2. CASE ing.ann.proxy.path # None /\ P = <<ProxyRow>>
    <3>1. ProxyRow \in S
      OBVIOUS
    <3>2. P \in Seq(S) /\ Len(P) = 1 /\ P[1] = ProxyRow
      BY <1>0, <2>2, <3>1
    <3> QED BY <2>2, <3>2
  <2> QED BY <1>2, <2>1, <2>2
<1>5. Before = R \o P
  BY DEF Before, R, P
<1>6. /\ R \o P \in Seq(S) /\ Len(R \o P) = Len(R) + Len(P)
      /\ \A i \in 1..Len(R) + Len(P) : (R \o P)[i] = IF i <= Len(R) THEN R[i] ELSE P[i - Len(R)]
  <2> HIDE DEF S
  <2> QED BY <1>3, <1>4, ConcatProperties
<1> HIDE DEF S
<1>7. ASSUME NEW i \in 1..Len(Before)
      PROVE  Before[i] = RedirectRow \/ (i = Len(Before) /\ Before[i] = ProxyRow
                                         /\ ing.ann.proxy.path # None)
  <2>1. CASE i <= Len(R)
    BY <1>3, <1>4, <1>5, <1>6, <2>1
  <2>2. CASE ~(i <= Len(R))
    <3>1. Len(P) = 1 /\ i - Len(R) = 1 /\ i = Len(Before)
      BY <1>3, <1>4, <1>5, <1>6, <2>2
    <3>2. Before[i] = P[1]
      BY <1>3, <1>4, <1>5, <1>6, <2>2, <3>1
    <3> QED BY <1>4, <3>1, <3>2
  <2> QED BY <2>1, <2>2
<1>8. ASSUME ing.ann.proxy.path # None
      PROVE  Len(Before) > 0 /\ Before[Len(Before)] = ProxyRow
  <2>0. Len(P) = 1 /\ Len(R) \in Nat
    BY <1>3, <1>4, <1>8
  <2>1. /\ Len(P) = 1 /\ Len(Before) = Len(R) + 1 /\ Len(R) \in Nat
        /\ P[1] = ProxyRow
    BY <1>4, <1>5, <1>6, <2>0
  <2>2. Before[Len(R) + 1] = P[(Len(R) + 1) - Len(R)]
    BY <1>5, <1>6, <2>1
  <2>3. (Len(R) + 1) - Len(R) = 1
    BY <2>1
  <2> QED BY <2>1, <2>2, <2>3
<1>9. ASSUME ing.ann.redirect.path # None
      PROVE  Len(Before) > 0 /\ Before[1] = RedirectRow
  <2>1. Len(R) = 1 /\ R[1] = RedirectRow
    BY <1>0, <1>1, <1>9 DEF S
  <2>2. 1 \in 1..Len(R) + Len(P) /\ 1 <= Len(R) /\ Len(R) + Len(P) > 0
    BY <1>4, <2>1
  <2> QED BY <1>5, <1>6, <2>1, <2>2
<1> QED BY <1>5, <1>6, <1>7, <1>8, <1>9 DEF S

Width(k) == IF ing.ann.useWeight THEN 1 ELSE Len(PathsOf(k))

LEMMA Locations ==
  ASSUME Inv, NEW k \in DOMAIN servers
  PROVE  LET ls == servers[k].locations
             off == Len(Before)
         IN /\ k \in DOMAIN ing.rules /\ servers # <<>>
            /\ off \in Nat /\ Width(k) \in Nat /\ Width(k) <= Len(PathsOf(k))
            /\ DOMAIN ls = 1..off + Width(k)
            /\ \A i \in 1..off : ls[i] = Before[i]
            /\ \A j \in 1..Width(k) : /\ ls[off + j] = Location(PathsOf(k)[j])
                                      /\ <<k, j>> \in Used /\ At(<<k, j>>) = PathsOf(k)[j]
<1> DEFINE L == {Location(b) : b \in PathType}
           S == {RedirectRow, ProxyRow} \cup L
           ls == servers[k].locations
           off == Len(Before)
<1>1. /\ servers # <<>> /\ k \in DOMAIN ing.rules /\ Sane
      /\ ls = Before \o Rows(k)
  BY DEF Inv, Configured
<1>2. PathsOf(k) \in Seq(PathType)
  BY <1>1, Typed DEF Inv, Given, PathsOf
<1>3. Width(k) \in Nat /\ Width(k) <= Len(PathsOf(k))
  <2>1. CASE ing.ann.useWeight
    <3>1. PathsOf(k) # <<>>
      BY <1>1, <2>1 DEF Sane, PathsOf
    <3>2. Len(PathsOf(k)) \in Nat /\ Len(PathsOf(k)) # 0
      BY <1>2, <3>1, EmptySeq
    <3> QED BY <2>1, <3>2 DEF Width
  <2>2. CASE ~ing.ann.useWeight
    BY <1>2, <2>2 DEF Width
  <2> QED BY <2>1, <2>2
<1>4. \A j \in 1..Width(k) : PathsOf(k)[j] \in PathType
  <2> HIDE DEF PathType
  <2> QED BY <1>2, <1>3
<1>5. /\ Rows(k) \in Seq(S) /\ Len(Rows(k)) = Width(k)
      /\ \A j \in 1..Width(k) : Rows(k)[j] = Location(PathsOf(k)[j])
  <2>1. Rows(k) = [j \in 1..Width(k) |-> Location(PathsOf(k)[j])]
    BY DEF Rows, Width
  <2>2. \A j \in 1..Width(k) : Location(PathsOf(k)[j]) \in S
    BY <1>4
  <2> HIDE DEF S
  <2> QED BY <1>3, <2>1, <2>2
<1>6. Before \in Seq(S)
  <2>1. \A i \in 1..Len(Before) : Before[i] \in S
    BY BeforeForm
  <2>2. Before \in [1..Len(Before) -> S] /\ Len(Before) \in Nat
    <3> HIDE DEF S
    <3> QED BY <2>1, BeforeForm
  <2> HIDE DEF S
  <2> QED BY <2>2
<1>7. /\ ls \in Seq(S) /\ Len(ls) = off + Width(k)
      /\ \A i \in 1..off + Width(k) : ls[i] = IF i <= off THEN Before[i] ELSE Rows(k)[i - off]
  <2> DEFINE B == Before
             T == Rows(k)
  <2> HIDE DEF S, B, T
  <2>1. B \in Seq(S) /\ T \in Seq(S) /\ ls = B \o T /\ off = Len(B) /\ Width(k) = Len(T)
    BY <1>1, <1>5, <1>6 DEF B, T
  <2>2. /\ B \o T \in Seq(S) /\ Len(B \o T) = Len(B) + Len(T)
        /\ \A i \in 1..Len(B) + Len(T) : (B \o T)[i] = IF i <= Len(B) THEN B[i] ELSE T[i - Len(B)]
    BY <2>1, ConcatProperties
  <2>3. /\ ls \in Seq(S) /\ Len(ls) = Len(B) + Len(T)
        /\ \A i \in 1..Len(B) + Len(T) : ls[i] = IF i <= Len(B) THEN B[i] ELSE T[i - Len(B)]
    BY <2>1, <2>2
  <2> QED BY <2>1, <2>3 DEF B, T
<1>8. off \in Nat
  BY BeforeForm
<1>9. \A i \in 1..off : ls[i] = Before[i]
  <2> HIDE DEF S, ls
  <2> QED BY <1>3, <1>7, <1>8
<1>10. \A j \in 1..Width(k) : ls[off + j] = Location(PathsOf(k)[j])
  <2> TAKE j \in 1..Width(k)
  <2>1. off + j \in 1..off + Width(k) /\ ~(off + j <= off) /\ (off + j) - off = j
    BY <1>3, <1>8
  <2>2. ls[off + j] = Rows(k)[(off + j) - off]
    BY <1>7, <2>1
  <2> QED BY <1>5, <2>1, <2>2
<1>11. \A j \in 1..Width(k) : <<k, j>> \in Used /\ At(<<k, j>>) = PathsOf(k)[j]
  <2> TAKE j \in 1..Width(k)
  <2>1. j \in DOMAIN ing.rules[k].paths
    BY <1>2, <1>3 DEF PathsOf
  <2>2. <<k, j>> \in Listed /\ At(<<k, j>>) = ing.rules[k].paths[j]
    BY <1>1, <2>1, Places
  <2>3. ing.ann.useWeight => j = 1
    BY DEF Width
  <2> QED BY <2>2, <2>3 DEF Used, PathsOf
<1>12. DOMAIN ls = 1..off + Width(k)
  <2> HIDE DEF S, ls
  <2> QED BY <1>7
<1> QED BY <1>1, <1>3, <1>8, <1>9, <1>10, <1>11, <1>12

(* Where a location of a Service comes from. *)
LEMMA BackedRows ==
  ASSUME Inv, NEW x \in Backed
  PROVE  \E b \in PathType : /\ To(x) = Location(b) /\ GetSvcPort(b) # 0
<1> DEFINE k == x[1]
           ls == servers[k].locations
           off == Len(Before)
           j == x[2] - off
<1>1. /\ k \in DOMAIN servers /\ x[2] \in DOMAIN ls /\ To(x) = ls[x[2]]
      /\ To(x).kind = "backend"
  BY DEF Backed, Rendered, To
<1>2. /\ k \in DOMAIN ing.rules /\ servers # <<>>
      /\ off \in Nat /\ Width(k) \in Nat
      /\ DOMAIN ls = 1..off + Width(k)
      /\ \A i \in 1..off : ls[i] = Before[i]
      /\ \A n \in 1..Width(k) : /\ ls[off + n] = Location(PathsOf(k)[n])
                                /\ <<k, n>> \in Used /\ At(<<k, n>>) = PathsOf(k)[n]
  BY <1>1, Locations
<1>3. ~(x[2] <= off)
  <2> SUFFICES ASSUME x[2] <= off PROVE FALSE
    OBVIOUS
  <2>1. x[2] \in 1..off
    BY <1>1, <1>2
  <2>2. To(x) = Before[x[2]]
    BY <1>1, <1>2, <2>1
  <2>3. To(x) \in {RedirectRow, ProxyRow}
    BY <2>1, <2>2, BeforeForm
  <2> QED BY <1>1, <2>3 DEF RedirectRow, ProxyRow
<1>4. j \in 1..Width(k) /\ off + j = x[2]
  BY <1>1, <1>2, <1>3
<1> DEFINE b == PathsOf(k)[j]
<1>5. To(x) = Location(b) /\ <<k, j>> \in Used /\ At(<<k, j>>) = b
  BY <1>1, <1>2, <1>4
<1>6. GetSvcPort(b) # 0
  BY <1>2, <1>5 DEF Inv, Configured, Sane
<1>7. b \in PathType
  BY <1>5, Typed DEF Inv, Given, Used
<1> QED BY <1>5, <1>6, <1>7

(* The state keeps its types: every location of a Service has a port and   *)
(* proxies to Services of the cluster.                                     *)
THEOREM TypeCorrect == Spec => []TypeOK
<1>1. Inv => TypeOK
  <2> SUFFICES ASSUME Inv PROVE TypeOK
    OBVIOUS
  <2>1. ASSUME NEW x \in Backed
        PROVE  To(x).port \in Numbers /\ \A s \in To(x).to : ports[s] # None
    <3>1. PICK b \in PathType : To(x) = Location(b) /\ GetSvcPort(b) # 0
      BY BackedRows
    <3>2. ports[b.svc] # None /\ GetSvcPort(b) = b.port.number
      BY <3>1 DEF GetSvcPort
    <3>3. To(x).port \in Numbers
      BY <3>1, <3>2, Typed DEF Location, Inv, Given
    <3>4. To(x).to = IF ing.ann.useWeight THEN upstream ELSE {b.svc}
      BY <3>1 DEF Location
    <3> QED BY <3>2, <3>3, <3>4 DEF Inv, Extracted
  <2>2. pc \in Final \cup {"submitted", "services", "annotations", "configure", "test", "default"}
    BY DEF Inv, Given, Early
  <2> QED BY <2>1, <2>2 DEF TypeOK, Inv, Given, Extracted, Tested
<1> QED BY <1>1, InvHolds, PTL

----------------------------------------------------------------------------
(* Where nginx takes a request.                                            *)

(* Finitely many naturals have a bound. *)
LEMMA Bounded ==
  ASSUME NEW f, NEW N \in Nat, \A i \in 1..N : f[i] \in Nat
  PROVE  \E B \in Nat : \A i \in 1..N : f[i] <= B
<1> DEFINE bounded(n) == \E B \in Nat : \A i \in 1..n : f[i] <= B
           T == {n \in 0..N : ~bounded(n)}
<1>1. T = {}
  <2> SUFFICES ASSUME T # {} PROVE FALSE
    OBVIOUS
  <2>1. T \subseteq Nat
    OBVIOUS
  <2> DEFINE m == Min(T)
  <2>2. m \in T /\ \A y \in T : m <= y
    <3> HIDE DEF T
    <3> QED BY <2>1, MinIn
  <2>3. m # 0
    <3>1. bounded(0)
      <4>1. 0 \in Nat /\ \A i \in 1..0 : f[i] <= 0
        OBVIOUS
      <4> QED BY <4>1
    <3> QED BY <2>2, <3>1
  <2> HIDE DEF m
  <2>4. m \in 1..N /\ m - 1 \in 0..N /\ m - 1 < m
    <3>1. m \in 0..N
      BY <2>2
    <3> QED BY <2>3, <3>1
  <2>5. m - 1 \notin T
    <3> SUFFICES ASSUME m - 1 \in T PROVE FALSE
      OBVIOUS
    <3>1. m <= m - 1
      <4> HIDE DEF T
      <4> QED BY <2>2
    <3> QED BY <2>4, <3>1
  <2>6. PICK B \in Nat : \A i \in 1..m - 1 : f[i] <= B
    BY <2>4, <2>5
  <2>7. f[m] \in Nat
    BY <2>4
  <2>8. \A i \in 1..m : f[i] <= B + f[m]
    <3> TAKE i \in 1..m
    <3>1. f[i] \in Nat
      BY <2>4
    <3>2. CASE i = m
      BY <2>6, <2>7, <3>2
    <3>3. CASE i # m
      <4>1. i \in 1..m - 1
        BY <2>4, <3>3
      <4> QED BY <2>6, <2>7, <3>1, <4>1
    <3> QED BY <3>2, <3>3
  <2>9. bounded(m)
    <3>1. B + f[m] \in Nat
      BY <2>6, <2>7
    <3> QED BY <2>8, <3>1
  <2> QED BY <2>2, <2>9
<1>2. N \notin T
  BY <1>1
<1> QED BY <1>2

(* So there is a greatest among some of them. *)
LEMMA Greatest ==
  ASSUME NEW f, NEW N \in Nat, NEW T, T \subseteq 1..N, T # {}, \A i \in T : f[i] \in Nat
  PROVE  \E x \in T : \A y \in T : f[y] <= f[x]
<1> DEFINE g == [i \in 1..N |-> IF i \in T THEN f[i] ELSE 0]
<1>1. PICK B \in Nat : \A i \in 1..N : g[i] <= B
  <2>1. \A i \in 1..N : g[i] \in Nat
    OBVIOUS
  <2> HIDE DEF g
  <2> QED BY <2>1, Bounded
<1>2. \A i \in T : f[i] <= B
  BY <1>1
<1> DEFINE gaps == {B - f[i] : i \in T}
<1>3. gaps \subseteq Nat /\ gaps # {}
  BY <1>2
<1>4. Min(gaps) \in gaps /\ \A y \in gaps : Min(gaps) <= y
  <2> HIDE DEF gaps
  <2> QED BY <1>3, MinIn
<1>5. PICK x \in T : Min(gaps) = B - f[x]
  BY <1>4
<1>6. \A y \in T : B - f[x] <= B - f[y]
  BY <1>4, <1>5
<1> QED BY <1>6

(* nginx takes the first regular expression, or the longest prefix. *)
LEMMA LocationFound ==
  ASSUME Inv, NEW k \in DOMAIN servers, NEW r, OnRequest(servers[k], r) # {}
  PROVE  LET ls == servers[k].locations
             on == OnRequest(servers[k], r)
         IN \E i \in on :
              /\ LocationOf(servers[k], r) = ls[i]
              /\ (\E j \in on : ls[j].regex) => ls[i].regex /\ \A j \in on : ls[j].regex => i <= j
              /\ (\A j \in on : ~ls[j].regex) =>
                   \A j \in on : Length[ls[j].path] <= Length[ls[i].path]
<1> DEFINE s == servers[k]
           ls == s.locations
           on == OnRequest(s, r)
           regex == {j \in on : ls[j].regex}
           N == Len(Before) + Width(k)
           f == [j \in on |-> Length[ls[j].path]]
           longest(j) == \A i \in on : ~(Length[ls[i].path] > Length[ls[j].path])
<1>1. DOMAIN ls = 1..N /\ N \in Nat
  BY Locations
<1>2. on \subseteq 1..N /\ on # {}
  BY <1>1 DEF OnRequest
<1>3. \A j \in on : Length[ls[j].path] \in Nat
  <2> TAKE j \in on
  <2>1. <<ls[j].path, r>> \in Prefixed \cup Matched
    BY DEF OnRequest, Takes
  <2>2. ls[j].path \in Paths
    BY <2>1, RequestsAssumption
  <2> QED BY <2>2, RequestsAssumption
<1>4. LocationOf(s, r) = ls[IF regex # {} THEN Min(regex) ELSE CHOOSE j \in on : longest(j)]
  BY DEF LocationOf
<1>5. CASE regex # {}
  <2>1. Min(regex) \in regex /\ \A j \in regex : Min(regex) <= j
    <3>1. regex \subseteq Nat
      BY <1>2
    <3> HIDE DEF regex
    <3> QED BY <1>5, <3>1, MinIn
  <2>2. LocationOf(s, r) = ls[Min(regex)]
    BY <1>4, <1>5
  <2> QED BY <1>5, <2>1, <2>2
<1>6. CASE regex = {}
  <2>1. PICK x \in on : \A y \in on : f[y] <= f[x]
    <3>1. \A i \in on : f[i] \in Nat
      BY <1>3
    <3> HIDE DEF f, on
    <3> QED BY <1>1, <1>2, <3>1, Greatest
  <2>2. longest(x)
    BY <1>3, <2>1
  <2> DEFINE c == CHOOSE j \in on : longest(j)
  <2>3. c \in on /\ longest(c)
    <3> HIDE DEF longest, on
    <3> QED BY <2>2
  <2>4. LocationOf(s, r) = ls[c]
    BY <1>4, <1>6
  <2>5. \A j \in on : Length[ls[j].path] <= Length[ls[c].path]
    <3> HIDE DEF c
    <3> QED BY <1>3, <2>3
  <2> HIDE DEF c
  <2> QED BY <1>6, <2>3, <2>4, <2>5
<1> QED BY <1>5, <1>6

(* Which row a location is, and of which place it is. *)
LEMMA RowsOf ==
  ASSUME Inv, NEW k \in DOMAIN servers, NEW i \in DOMAIN servers[k].locations
  PROVE  LET loc == servers[k].locations[i]
             off == Len(Before)
         IN \/ i <= off /\ loc = RedirectRow
            \/ i = off /\ loc = ProxyRow /\ ing.ann.proxy.path # None
            \/ \E m \in 1..Width(k) :
                 /\ i = off + m /\ loc = Location(PathsOf(k)[m])
                 /\ <<k, m>> \in Listed /\ At(<<k, m>>) = PathsOf(k)[m]
                 /\ GetSvcPort(PathsOf(k)[m]) # 0
<1> DEFINE off == Len(Before)
           loc == servers[k].locations[i]
<1>1. /\ off \in Nat /\ Width(k) \in Nat /\ servers # <<>>
      /\ i \in 1..off + Width(k)
      /\ \A j \in 1..off : servers[k].locations[j] = Before[j]
      /\ \A m \in 1..Width(k) : /\ servers[k].locations[off + m] = Location(PathsOf(k)[m])
                                /\ <<k, m>> \in Used /\ At(<<k, m>>) = PathsOf(k)[m]
  BY Locations
<1>2. CASE i <= off
  <2>1. i \in 1..off
    BY <1>1, <1>2
  <2>2. loc = Before[i]
    BY <1>1, <2>1
  <2> QED BY <1>2, <2>1, <2>2, BeforeForm
<1>3. CASE ~(i <= off)
  <2> DEFINE m == i - off
  <2>1. m \in 1..Width(k) /\ i = off + m
    BY <1>1, <1>3
  <2>2. GetSvcPort(PathsOf(k)[m]) # 0
    BY <1>1, <2>1 DEF Inv, Configured, Sane
  <2>3. <<k, m>> \in Listed
    BY <1>1, <2>1 DEF Used
  <2> HIDE DEF m
  <2> QED BY <1>1, <2>1, <2>2, <2>3
<1> QED BY <1>2, <1>3

(* A place asks for the requests its location takes.                       *)
LEMMA TakesAsks ==
  ASSUME NEW k, NEW m, NEW r, <<k, m>> \in Listed, Takes(Location(At(<<k, m>>)), r)
  PROVE  <<k, m>> \in Asking(k, r)
BY DEF Takes, Location, Asking

(* And each of these requests meets a location of the place's path, under  *)
(* weights that of the first place.                                        *)
LEMMA AskedRow ==
  ASSUME Inv, NEW k \in DOMAIN servers, NEW r, NEW p \in Asking(k, r)
  PROVE  \E n \in 1..Width(k) :
           /\ n <= p[2] /\ PathsOf(k)[n].path = At(p).path
           /\ ~ing.ann.useWeight => PathsOf(k)[n] = At(p)
           /\ Len(Before) + n \in OnRequest(servers[k], r)
           /\ servers[k].locations[Len(Before) + n] = Location(PathsOf(k)[n])
<1> DEFINE j == p[2]
           off == Len(Before)
<1>1. /\ servers # <<>> /\ k \in DOMAIN ing.rules
      /\ off \in Nat /\ Width(k) \in Nat /\ Width(k) <= Len(PathsOf(k))
      /\ DOMAIN servers[k].locations = 1..off + Width(k)
      /\ \A m \in 1..Width(k) : /\ servers[k].locations[off + m] = Location(PathsOf(k)[m])
                                /\ <<k, m>> \in Used /\ At(<<k, m>>) = PathsOf(k)[m]
  BY Locations
<1>2. /\ p \in Listed /\ p = <<k, j>> /\ j \in DOMAIN ing.rules[k].paths /\ At(p) = PathsOf(k)[j]
  BY Places DEF Asking, PathsOf, At
<1>3. Parsed /\ IsObject(ing)
  BY <1>1 DEF Inv, Configured, Given
<1>4. DOMAIN ing.rules[k].paths = 1..Len(PathsOf(k)) /\ Len(PathsOf(k)) \in Nat
  <2>1. ing.rules[k].paths \in Seq(PathType)
    BY <1>1, <1>3, Typed
  <2> HIDE DEF PathType
  <2> QED BY <2>1 DEF PathsOf
<1> DEFINE n == IF ing.ann.useWeight THEN 1 ELSE j
<1>5. n \in 1..Width(k) /\ n <= j
  <2>1. j \in Nat /\ 1 <= j /\ j <= Len(PathsOf(k))
    BY <1>2, <1>4
  <2> QED BY <1>1, <2>1 DEF Width
<1>6. PathsOf(k)[n].path = At(p).path
  <2>1. CASE ~ing.ann.useWeight
    BY <1>2, <2>1
  <2>2. CASE ing.ann.useWeight
    <3>1. <<k, n>> \in Listed /\ At(<<k, n>>) = PathsOf(k)[n]
      BY <1>1, <1>5 DEF Used
    <3> QED BY <1>2, <1>3, <2>2, <3>1 DEF Parsed, SamePaths
  <2> QED BY <2>1, <2>2
<1>7. off + n \in DOMAIN servers[k].locations
  BY <1>1, <1>5
<1>8. servers[k].locations[off + n] = Location(PathsOf(k)[n])
  BY <1>1, <1>5
<1>9. Takes(Location(PathsOf(k)[n]), r)
  BY <1>6 DEF Takes, Location, Asking
<1>10. off + n \in OnRequest(servers[k], r)
  BY <1>7, <1>8, <1>9 DEF OnRequest
<1>11. ~ing.ann.useWeight => PathsOf(k)[n] = At(p)
  BY <1>2
<1> HIDE DEF n
<1> QED BY <1>5, <1>6, <1>8, <1>10, <1>11

(* The first rule of a host has the server nginx uses for it.              *)
LEMMA FirstServer ==
  ASSUME Inv, NEW k \in DOMAIN file,
         \A i \in 1..k - 1 : ing.rules[i].host # ing.rules[k].host
  PROVE  file = servers /\ k \in DOMAIN servers /\ ServerOf(ing.rules[k].host) = servers[k]
<1> DEFINE same == {i \in DOMAIN file : file[i].host = ing.rules[k].host}
<1>1. /\ file = servers /\ servers # <<>> /\ DOMAIN servers = DOMAIN ing.rules
      /\ \A i \in DOMAIN servers : servers[i].host = ing.rules[i].host
      /\ IsObject(ing)
  BY DEF Inv, Tested, Configured, Given
<1>2. DOMAIN ing.rules = 1..Len(ing.rules) /\ Len(ing.rules) \in Nat
  <2>1. ing.rules \in Seq(RuleType)
    BY <1>1, Typed
  <2> HIDE DEF RuleType
  <2> QED BY <2>1
<1>3. same \subseteq Int /\ k \in same
  BY <1>1, <1>2
<1>4. \A i \in same : k <= i
  <2> TAKE i \in same
  <2>1. i \in 1..Len(ing.rules) /\ k \in 1..Len(ing.rules) /\ ing.rules[i].host = ing.rules[k].host
    BY <1>1, <1>2
  <2>2. i \notin 1..k - 1
    BY <2>1
  <2> QED BY <1>2, <2>1, <2>2
<1>5. Min(same) = k
  <2> HIDE DEF same
  <2> QED BY <1>3, <1>4, MinIs
<1> QED BY <1>1, <1>5 DEF ServerOf

(* What nginx takes a place's request to, when the place is the best.      *)
LEMMA BestTaken ==
  ASSUME Inv, file # <<>>, NEW k \in DOMAIN servers, NEW r, NEW p \in Asking(k, r), Best(p, r)
  PROVE  LET loc == LocationOf(servers[k], r)
         IN IF ProxyClaims(r) THEN loc = ProxyRow
            ELSE IF Outdone(p, r) THEN loc \in {RedirectRow, ProxyRow}
            ELSE \E b \in {PathsOf(k)[m] : m \in 1..Width(k)} :
                   /\ loc = Location(b) /\ GetSvcPort(b) # 0
                   /\ ~ing.ann.useWeight => b = At(p)
<1> DEFINE ls == servers[k].locations
           on == OnRequest(servers[k], r)
           off == Len(Before)
           w == At(p).path
<1>0. /\ ~RedirectRow.regex /\ RedirectRow.path = ing.ann.redirect.path
      /\ ProxyRow.regex = ProxyIsRegex(ing.ann.proxy) /\ ProxyRow.path = ing.ann.proxy.path
  BY DEF RedirectRow, ProxyRow
<1>1. PICK n \in 1..Width(k) :
        /\ n <= p[2] /\ PathsOf(k)[n].path = w
        /\ ~ing.ann.useWeight => PathsOf(k)[n] = At(p)
        /\ off + n \in on
        /\ ls[off + n] = Location(PathsOf(k)[n])
  BY AskedRow
<1> DEFINE row == off + n
<1>2. /\ off \in Nat /\ Width(k) \in Nat /\ servers # <<>>
      /\ k \in DOMAIN ing.rules /\ DOMAIN ls = 1..off + Width(k)
  BY Locations
<1>3. on \subseteq DOMAIN ls /\ on \subseteq Nat /\ row \in Nat /\ ~(row <= off)
  BY <1>1, <1>2 DEF OnRequest
<1>4. PICK c \in on :
        /\ LocationOf(servers[k], r) = ls[c]
        /\ (\E j \in on : ls[j].regex) => ls[c].regex /\ \A j \in on : ls[j].regex => c <= j
        /\ (\A j \in on : ~ls[j].regex) =>
             \A j \in on : Length[ls[j].path] <= Length[ls[c].path]
  BY <1>1, LocationFound
<1>5. ls[row].path = w /\ ls[row].regex = Rewrites(ing.ann)
  BY <1>1 DEF Location
<1>6. GetSvcPort(PathsOf(k)[n]) # 0
  <2>1. <<k, n>> \in Used /\ At(<<k, n>>) = PathsOf(k)[n]
    BY <1>1, Locations
  <2> QED BY <1>2, <2>1 DEF Inv, Configured, Sane
<1>7. (ing.ann.proxy.path \in Regexps) = ProxyIsRegex(ing.ann.proxy)
  BY <1>2 DEF Inv, Configured, Parsed
(* Where a location that takes the request comes from. *)
<1>8. ASSUME NEW i \in on
      PROVE  \/ i <= off /\ ls[i] = RedirectRow
             \/ i = off /\ ls[i] = ProxyRow /\ ing.ann.proxy.path # None
             \/ \E m \in 1..Width(k) : /\ i = off + m /\ <<k, m>> \in Asking(k, r)
                                       /\ ls[i] = Location(PathsOf(k)[m])
                                       /\ At(<<k, m>>) = PathsOf(k)[m]
  <2>1. i \in DOMAIN ls /\ Takes(ls[i], r)
    BY DEF OnRequest
  <2>2. \/ i <= off /\ ls[i] = RedirectRow
        \/ i = off /\ ls[i] = ProxyRow /\ ing.ann.proxy.path # None
        \/ \E m \in 1..Width(k) : /\ i = off + m /\ ls[i] = Location(PathsOf(k)[m])
                                  /\ <<k, m>> \in Listed /\ At(<<k, m>>) = PathsOf(k)[m]
    BY <2>1, RowsOf
  <2>3. CASE \E m \in 1..Width(k) : /\ i = off + m /\ ls[i] = Location(PathsOf(k)[m])
                                    /\ <<k, m>> \in Listed /\ At(<<k, m>>) = PathsOf(k)[m]
    <3>1. PICK m \in 1..Width(k) : /\ i = off + m /\ ls[i] = Location(PathsOf(k)[m])
                                   /\ <<k, m>> \in Listed /\ At(<<k, m>>) = PathsOf(k)[m]
      BY <2>3
    <3>2. <<k, m>> \in Asking(k, r)
      BY <2>1, <3>1, TakesAsks
    <3> QED BY <3>1, <3>2
  <2> QED BY <2>2, <2>3
(* A regular expression among the annotations is the proxy's. *)
<1>9. ASSUME NEW i \in on, i <= off, ls[i].regex
      PROVE  i = off /\ ls[i] = ProxyRow /\ ProxyClaims(r)
  <2>1. i = off /\ ls[i] = ProxyRow
    <3>1. \A m \in 1..Width(k) : i # off + m
      BY <1>2, <1>3, <1>9
    <3>2. ls[i] = RedirectRow \/ (i = off /\ ls[i] = ProxyRow)
      BY <1>8, <3>1
    <3> HIDE DEF ls, off
    <3> QED BY <1>0, <1>9, <3>2
  <2>2. Takes(ls[i], r)
    BY DEF OnRequest
  <2>3. Takes(ProxyRow, r) /\ ProxyRow.regex
    BY <1>9, <2>1, <2>2
  <2>4. <<ing.ann.proxy.path, r>> \in Matched
    BY <1>0, <2>3 DEF Takes
  <2> QED BY <1>0, <1>7, <2>1, <2>3, <2>4 DEF ProxyClaims
(* The others come after the place's, and are no longer.                   *)
<1>10. ASSUME NEW i \in on, ~(i <= off)
       PROVE  /\ ls[i].regex = Rewrites(ing.ann)
              /\ Rewrites(ing.ann) => row <= i
              /\ ~Rewrites(ing.ann) => Length[ls[i].path] <= Length[w]
  <2>1. ~(i = off)
    BY <1>2, <1>10
  <2>2. PICK m \in 1..Width(k) : /\ i = off + m /\ <<k, m>> \in Asking(k, r)
                                 /\ ls[i] = Location(PathsOf(k)[m])
                                 /\ At(<<k, m>>) = PathsOf(k)[m]
    BY <1>8, <1>10, <2>1
  <2>3. ls[i].regex = Rewrites(ing.ann) /\ ls[i].path = PathsOf(k)[m].path
    BY <2>2 DEF Location
  <2>4. p[1] = k
    BY DEF Asking
  <2>5. CASE Rewrites(ing.ann)
    <3>1. p[2] <= m
      BY <2>2, <2>4, <2>5 DEF Best
    <3>2. p[2] \in Nat
      <4>1. p \in Listed /\ IsObject(ing)
        BY DEF Asking, Inv, Given
      <4>2. p[1] \in DOMAIN ing.rules /\ p[2] \in DOMAIN ing.rules[p[1]].paths
        BY <4>1, Places
      <4>3. ing.rules[p[1]].paths \in Seq(PathType)
        BY <4>1, <4>2, Typed
      <4> HIDE DEF PathType
      <4> QED BY <4>2, <4>3
    <3>3. row <= i
      BY <1>1, <1>2, <2>2, <3>1, <3>2
    <3> QED BY <2>3, <2>5, <3>3
  <2>6. CASE ~Rewrites(ing.ann)
    <3>1. Length[At(<<k, m>>).path] <= Length[w]
      BY <2>2, <2>4, <2>6 DEF Best
    <3> QED BY <2>2, <2>3, <2>6, <3>1
  <2> QED BY <2>5, <2>6
<1>11. CASE ProxyClaims(r)
  <2>1. ing.ann.proxy.path # None
    BY <1>11, RequestsAssumption, NamesAssumption DEF ProxyClaims
  <2>2. off > 0 /\ Before[off] = ProxyRow
    BY <2>1, BeforeForm
  <2>3. off \in DOMAIN ls /\ ls[off] = ProxyRow
    BY <1>2, <2>2, Locations
  <2>4. ProxyRow.regex /\ Takes(ProxyRow, r)
    BY <1>7, <1>11 DEF ProxyClaims, ProxyRow, Takes
  <2>5. off \in on /\ ls[off].regex
    BY <2>3, <2>4 DEF OnRequest
  <2>6. ls[c].regex /\ c <= off
    BY <1>4, <2>5
  <2>7. ls[c] = ProxyRow
    BY <1>9, <2>6
  <2> QED BY <1>4, <1>11, <2>7
<1>12. CASE ~ProxyClaims(r) /\ Rewrites(ing.ann)
  <2>1. ls[row].regex /\ ls[c].regex /\ c <= row
    BY <1>1, <1>4, <1>5, <1>12
  <2>2. ~(c <= off)
    BY <1>9, <1>12, <2>1
  <2>3. c = row
    <3>1. row <= c /\ c \in Nat /\ row \in Nat
      BY <1>3, <1>10, <1>12, <2>2
    <3> QED BY <2>1, <3>1
  <2>4. ~Outdone(p, r)
    BY <1>12 DEF Outdone
  <2> QED BY <1>1, <1>4, <1>6, <1>12, <2>3, <2>4
<1>13. CASE ~ProxyClaims(r) /\ ~Rewrites(ing.ann)
  <2>1. \A j \in on : ~ls[j].regex
    BY <1>9, <1>10, <1>13
  <2>2. \A j \in on : Length[ls[j].path] <= Length[ls[c].path]
    BY <1>4, <2>1
  <2>3. \A j \in on : <<ls[j].path, r>> \in Prefixed /\ Length[ls[j].path] \in Nat
    <3> TAKE j \in on
    <3>1. <<ls[j].path, r>> \in Prefixed
      BY <2>1 DEF OnRequest, Takes
    <3> QED BY <3>1, RequestsAssumption
  <2>4. Length[w] \in Nat /\ Length[w] <= Length[ls[c].path]
    BY <1>1, <1>5, <2>2, <2>3
  <2>5. CASE Outdone(p, r)
    <3>1. PICK t \in Taken : <<t, r>> \in Prefixed /\ Length[t] > Length[w]
      BY <2>5 DEF Outdone
    <3>2. \E j \in on : ls[j].path = t
      <4>1. t # None /\ (t = ing.ann.redirect.path \/ (t = ing.ann.proxy.path /\ t \notin Regexps))
        <5>1. t \in ({ing.ann.redirect.path} \cup ({ing.ann.proxy.path} \ Regexps)) \ {None}
          BY DEF Taken
        <5> QED BY <5>1
      <4>2. CASE t = ing.ann.redirect.path
        <5>1. off > 0 /\ Before[1] = RedirectRow
          BY <4>1, <4>2, BeforeForm
        <5>2. 1 \in 1..off /\ 1 \in DOMAIN ls
          BY <1>2, <5>1
        <5>3. ls[1] = RedirectRow
          BY <5>1, <5>2, Locations
        <5>4. 1 \in on /\ ls[1].path = t
          BY <3>1, <4>2, <5>2, <5>3 DEF OnRequest, Takes, RedirectRow
        <5> QED BY <5>4
      <4>3. CASE t = ing.ann.proxy.path /\ t \notin Regexps
        <5>1. off > 0 /\ Before[off] = ProxyRow
          BY <4>1, <4>3, BeforeForm
        <5>2. off \in DOMAIN ls /\ ls[off] = ProxyRow
          BY <1>2, <5>1, Locations
        <5>3. off \in on /\ ls[off].path = t
          <6>1. ~ls[off].regex /\ ls[off].path = t
            BY <1>0, <1>7, <4>3, <5>2
          <6>2. Takes(ls[off], r)
            BY <3>1, <6>1 DEF Takes
          <6> QED BY <5>2, <6>1, <6>2 DEF OnRequest
        <5> QED BY <5>3
      <4> QED BY <4>1, <4>2, <4>3
    <3>3. Length[ls[c].path] > Length[w]
      <4>1. PICK j \in on : ls[j].path = t
        BY <3>2
      <4>2. Length[t] <= Length[ls[c].path] /\ Length[t] \in Nat /\ Length[ls[c].path] \in Nat
        BY <2>2, <2>3, <4>1
      <4> QED BY <2>4, <3>1, <4>2
    <3>4. c <= off
      <4> SUFFICES ASSUME ~(c <= off) PROVE FALSE
        OBVIOUS
      <4>1. Length[ls[c].path] <= Length[w] /\ Length[ls[c].path] \in Nat
        BY <1>10, <1>13, <2>3
      <4> QED BY <2>4, <3>3, <4>1
    <3>5. ls[c] \in {RedirectRow, ProxyRow}
      <4>1. \A m \in 1..Width(k) : c # off + m
        BY <1>2, <1>3, <3>4
      <4> QED BY <1>8, <4>1
    <3> QED BY <1>4, <1>13, <2>5, <3>5
  <2>6. CASE ~Outdone(p, r)
    <3>1. Length[ls[c].path] <= Length[w]
      <4>1. CASE c <= off
        <5>1. \A m \in 1..Width(k) : c # off + m
          BY <1>2, <1>3, <4>1
        <5>2. ls[c] = RedirectRow \/ (ls[c] = ProxyRow /\ ing.ann.proxy.path # None)
          BY <1>8, <5>1
        <5>3. ls[c].path \in Paths
          BY <2>3, RequestsAssumption
        <5>4. ls[c].path \in Taken
          <6>1. CASE ls[c] = RedirectRow
            BY <5>3, <6>1, NamesAssumption DEF Taken, RedirectRow
          <6>2. CASE ls[c] = ProxyRow
            <7>1. ls[c].path = ing.ann.proxy.path /\ ing.ann.proxy.path \notin Regexps
              BY <1>0, <1>7, <2>1, <6>2
            <7> QED BY <5>3, <7>1, NamesAssumption DEF Taken
          <6> QED BY <5>2, <6>1, <6>2
        <5>5. ~(Length[ls[c].path] > Length[w])
          BY <1>13, <2>3, <2>6, <5>4 DEF Outdone
        <5>6. Length[ls[c].path] \in Nat
          BY <2>3
        <5> QED BY <2>4, <5>5, <5>6
      <4>2. CASE ~(c <= off)
        BY <1>10, <1>13, <4>2
      <4> QED BY <4>1, <4>2
    <3>2. Length[ls[c].path] = Length[w]
      <4>1. Length[ls[c].path] \in Nat
        BY <2>3
      <4> QED BY <2>4, <3>1, <4>1
    <3>3. ls[c].path = ls[row].path
      <4> DEFINE x == <<ls[c].path, r>>
                 y == <<ls[row].path, r>>
      <4>1. x \in Prefixed /\ y \in Prefixed
        BY <1>1, <2>3
      <4>2. Length[x[1]] = Length[y[1]] /\ x[2] = y[2]
        BY <1>5, <3>2
      <4>3. x = y
        BY <4>1, <4>2, RequestsAssumption
      <4> QED BY <4>3
    <3>4. c = row
      <4>1. NginxAccepts /\ file = servers
        BY DEF Inv, Tested
      <4>2. <<k, c>> \in Rendered /\ <<k, row>> \in Rendered
        BY <1>1, <1>3 DEF Rendered
      <4>3. To(<<k, c>>) = ls[c] /\ To(<<k, row>>) = ls[row]
        BY DEF To
      <4>4. <<k, c>> = <<k, row>>
        BY <1>1, <2>1, <3>3, <4>1, <4>2, <4>3 DEF NginxAccepts
      <4> QED BY <4>4
    <3> QED BY <1>1, <1>4, <1>6, <1>13, <2>6, <3>4
  <2> QED BY <2>5, <2>6
<1> QED BY <1>11, <1>12, <1>13

(* In a served file of any number of rules and paths, whatever requests    *)
(* there are and however the paths overlap, a request for the first rule   *)
(* of its host reaches the Service of the rule's best place, unless the    *)
(* object's own proxy or redirect claims it; no other reaches a Service.   *)
THEOREM RoutedAlways == Spec => []Routed
<1>1. Inv => Routed
  <2> SUFFICES ASSUME Inv, NEW k \in DOMAIN file, NEW r \in Requests,
                      \A i \in 1..k - 1 : ing.rules[i].host # ing.rules[k].host
               PROVE  LET server == ServerOf(ing.rules[k].host)
                          loc == LocationOf(server, r)
                      IN IF OnRequest(server, r) = {} THEN Asking(k, r) = {}
                         ELSE /\ Asking(k, r) = {} => loc.kind # "backend"
                              /\ \A p \in Asking(k, r) : Best(p, r) =>
                                   IF ProxyClaims(r) THEN loc.kind = "proxy"
                                   ELSE IF Outdone(p, r) THEN loc.kind \in {"redirect", "proxy"}
                                   ELSE /\ loc.kind = "backend" /\ loc.port # 0
                                        /\ IF ing.ann.useWeight
                                           THEN loc.to \subseteq {At(q).svc : q \in Listed}
                                           ELSE loc.to = {At(p).svc}
    BY DEF Routed
  <2> DEFINE server == ServerOf(ing.rules[k].host)
             loc == LocationOf(server, r)
  <2>1. file = servers /\ k \in DOMAIN servers /\ server = servers[k] /\ file # <<>>
    BY FirstServer
  <2>2. ASSUME OnRequest(server, r) = {} PROVE Asking(k, r) = {}
    BY <2>1, <2>2, AskedRow
  <2>3. ASSUME OnRequest(server, r) # {}, Asking(k, r) = {} PROVE loc.kind # "backend"
    <3>1. PICK i \in OnRequest(servers[k], r) : loc = servers[k].locations[i]
      BY <2>1, <2>3, LocationFound
    <3>2. i \in DOMAIN servers[k].locations /\ Takes(servers[k].locations[i], r)
      BY DEF OnRequest
    <3>3. ~\E m \in 1..Width(k) : /\ servers[k].locations[i] = Location(PathsOf(k)[m])
                                  /\ <<k, m>> \in Listed /\ At(<<k, m>>) = PathsOf(k)[m]
      BY <2>3, <3>2, TakesAsks
    <3>4. loc = RedirectRow \/ loc = ProxyRow
      BY <2>1, <3>1, <3>2, <3>3, RowsOf
    <3> QED BY <3>4 DEF RedirectRow, ProxyRow
  <2>4. ASSUME NEW p \in Asking(k, r), Best(p, r)
        PROVE  IF ProxyClaims(r) THEN loc.kind = "proxy"
               ELSE IF Outdone(p, r) THEN loc.kind \in {"redirect", "proxy"}
               ELSE /\ loc.kind = "backend" /\ loc.port # 0
                    /\ IF ing.ann.useWeight THEN loc.to \subseteq {At(q).svc : q \in Listed}
                                            ELSE loc.to = {At(p).svc}
    <3>1. IF ProxyClaims(r) THEN loc = ProxyRow
          ELSE IF Outdone(p, r) THEN loc \in {RedirectRow, ProxyRow}
          ELSE \E b \in {PathsOf(k)[m] : m \in 1..Width(k)} :
                 /\ loc = Location(b) /\ GetSvcPort(b) # 0
                 /\ ~ing.ann.useWeight => b = At(p)
      BY <2>1, <2>4, BestTaken
    <3>2. ProxyRow.kind = "proxy" /\ RedirectRow.kind = "redirect"
      BY DEF ProxyRow, RedirectRow
    <3>3. CASE ProxyClaims(r)
      BY <3>1, <3>2, <3>3
    <3>4. CASE ~ProxyClaims(r) /\ Outdone(p, r)
      BY <3>1, <3>2, <3>4
    <3>5. CASE ~ProxyClaims(r) /\ ~Outdone(p, r)
      <4>1. PICK b : /\ loc = Location(b) /\ GetSvcPort(b) # 0
                     /\ ~ing.ann.useWeight => b = At(p)
        BY <3>1, <3>5
      <4>2. /\ loc.kind = "backend" /\ loc.port = GetSvcPort(b)
            /\ loc.to = IF ing.ann.useWeight THEN upstream ELSE {b.svc}
        BY <4>1 DEF Location
      <4>3. ing.ann.useWeight => upstream \subseteq {At(q).svc : q \in Listed}
        BY DEF Inv, Extracted
      <4> QED BY <3>5, <4>1, <4>2, <4>3
    <3> QED BY <3>3, <3>4, <3>5
  <2> QED BY <2>2, <2>3, <2>4
<1> QED BY <1>1, InvHolds, PTL

----------------------------------------------------------------------------
(* Nobody whom the lists keep out reaches a Service or the proxy, by any   *)
(* request to any server of the object, and nobody else is turned away,    *)
(* for every pair of lists; addresses in both lists are left aside.        *)
THEOREM AccessAlways == Spec => []AccessAsAsked
<1> DEFINE a == ing.ann
           welcome(c) == (a.allow # {} => c \in a.allow) /\ c \notin a.deny
<1>1. Inv => AccessAsAsked
  <2> SUFFICES ASSUME Inv, NEW k \in DOMAIN file, NEW c \in Addresses \ (a.allow \cap a.deny),
                      NEW options \in BOOLEAN, NEW r \in Requests
               PROVE  LET answer == Answer(file[k], c, options, r)
                      IN /\ answer \in {"backend", "proxy"} => welcome(c)
                         /\ answer = "forbidden" => ~welcome(c)
    BY DEF AccessAsAsked
  <2>1. file = servers /\ servers # <<>>
    BY DEF Inv, Tested
  <2>2. file[k].access = AccessRules(a)
    BY <2>1 DEF Inv, Configured
  <2>3. Admits(file[k], c) <=> IF a.allow # {} THEN c \in a.allow ELSE c \notin a.deny
    BY <2>2, RulesDecide
  <2>4. Admits(file[k], c) <=> welcome(c)
    BY <2>3
  <2>5. OnRequest(file[k], r) # {} => LocationOf(file[k], r).kind \in {"redirect", "proxy", "backend"}
    <3> SUFFICES ASSUME OnRequest(servers[k], r) # {}
                 PROVE  LocationOf(servers[k], r).kind \in {"redirect", "proxy", "backend"}
      BY <2>1
    <3>1. PICK i \in OnRequest(servers[k], r) : LocationOf(servers[k], r) = servers[k].locations[i]
      BY <2>1, LocationFound
    <3>2. i \in DOMAIN servers[k].locations
      BY DEF OnRequest
    <3>3. \/ LocationOf(servers[k], r) \in {RedirectRow, ProxyRow}
          \/ \E m \in 1..Width(k) : LocationOf(servers[k], r) = Location(PathsOf(k)[m])
      <4>1. PICK loc : loc = servers[k].locations[i]
        OBVIOUS
      <4>2. \/ loc = RedirectRow \/ loc = ProxyRow
            \/ \E m \in 1..Width(k) : loc = Location(PathsOf(k)[m])
        BY <2>1, <3>2, <4>1, RowsOf
      <4> QED BY <3>1, <4>1, <4>2
    <3>4. /\ RedirectRow.kind = "redirect" /\ ProxyRow.kind = "proxy"
          /\ \A b : Location(b).kind = "backend"
      BY DEF RedirectRow, ProxyRow, Location
    <3> QED BY <3>3, <3>4
  <2> HIDE DEF welcome
  <2> QED BY <2>4, <2>5 DEF Answer
<1> QED BY <1>1, InvHolds, PTL
==============================================================================
