------------------------------ MODULE Reconcile ------------------------------
(***************************************************************************)
(* The reconcile loop of internal/controller: one worker takes keys from   *)
(* the workqueue and turns Ingress objects into nginx configurations,      *)
(* while users change Ingresses and Services and cert-manager issues       *)
(* certificates.  nginx.Reload, whose steps are ConfReload's, is one step  *)
(* here: nginx -t accepts the whole directory with the new configuration,  *)
(* or the old one stays.                                                   *)
(***************************************************************************)
EXTENDS Integers

CONSTANTS
  Ings,       \* Ingresses: a name and a namespace
  FileOf,     \* <name>-<namespace>, which their files are named after
  Svcs,       \* Service names
  UpstreamOf, \* <Service>-<name>-<namespace>, for a Service and a file name
  Hosts,      \* sets of host names an Ingress can be for
  Specs,      \* the specifications users write
  Listed,     \* the Ingresses there are when the container starts
  None,       \* no object, no file, no backend
  Image, Blank, \* nginx.conf of the image, and rendered without a backend
  MaxChanges, \* bound: changes the users make
  MaxFaults   \* bound: failures of the API server and restarts

(* ours: class or annotation select this controller; sound: annotations    *)
(* parse.  spec.tls is empty: certificates come from cert-manager.         *)
SpecType == [ours : BOOLEAN, sound : BOOLEAN, rules : SUBSET Svcs, hosts : Hosts,
             default : Svcs \cup {None}]
Files == {FileOf[i] : i \in Ings}
ConfType == [svcs : SUBSET Svcs, hosts : Hosts, https : BOOLEAN]

(* ValidSpec of the webhook: some backend is given. *)
ASSUME SpecsAssumption ==
  Specs \subseteq {s \in SpecType : s.rules # {} \/ s.default # None}
ASSUME FilesAssumption == DOMAIN FileOf = Ings /\ DOMAIN UpstreamOf = Svcs \X Files
ASSUME ListedAssumption == Listed \in [Ings -> Specs \cup {None}]
ASSUME NamesAssumption == /\ None \notin Svcs \cup Hosts \cup Specs \cup ConfType \cup (Ings \X Specs)
                          /\ {Image, Blank} \cap (Svcs \cup {None}) = {}
                          /\ Image # Blank
ASSUME BoundsAssumption == MaxChanges \in Nat /\ MaxFaults \in Nat

VARIABLES
  ing,     \* the Ingress objects
  svc,     \* the Services that exist
  cert,    \* Certificate objects: the hosts they are for
  secret,  \* <name>-secret: the hosts its certificate covers
  conf,    \* conf.d/<name>-<namespace>.conf, per file name
  ssl,     \* the certificate file in /etc/nginx/ssl: the hosts it covers
  main,    \* nginx.conf: the Service of its default backend, Image or Blank
  queue, later, \* workqueue keys: ready (taken in any order, where the
                \* workqueue keeps theirs), and waiting for RequeueAfter
  pc, key, ic,  \* the worker: its next step, its key, the object it read
  changes, faults

cluster == <<ing, svc, cert, secret>>
nginxDir == <<conf, ssl, main>>
workqueue == <<queue, later>>
worker == <<pc, key, ic>>
counters == <<changes, faults>>
vars == <<cluster, nginxDir, workqueue, worker, counters>>

----------------------------------------------------------------------------
(* The upstreams a file defines for the Services rules; two of a file are  *)
(* never the same, those of two files may be: api-v1 of web, api of v1-web.*)
Upstreams(f, rules) == {UpstreamOf[s, f] : s \in rules}

(* The upstreams a file f would define for rules are in no other file.     *)
Free(c, f, rules) ==
  \A g \in Files \ {f} : c[g] # None =>
    Upstreams(f, rules) \cap Upstreams(g, c[g].svcs) = {}

(* nginx -t resolves every upstream and default backend of the directory,  *)
(* and lets an upstream be defined once.                                   *)
NginxAccepts(c, m) == /\ \A f \in Files : c[f] # None => /\ c[f].svcs \subseteq svc
                                                        /\ Free(c, f, c[f].svcs)
                      /\ m \in Svcs => m \in svc

Fault == faults < MaxFaults /\ faults' = faults + 1

(* Reconcile returns. *)
Return == pc' = "idle" /\ key' = None /\ ic' = None /\ UNCHANGED queue

(* Mutant: a failed reconcile returns no delay. *)
FailForgets == Return /\ UNCHANGED later

(* An error, once the object is read, is turned into RequeueAfter. *)
Fail == Return /\ later' = later \cup {key}

Done == Return /\ UNCHANGED later

Goto(l) == /\ pc' = l
           /\ UNCHANGED <<queue, later, key, ic>>

----------------------------------------------------------------------------
(* Users, and cert-manager. *)

UserApply(i, s) ==
  /\ changes < MaxChanges
  /\ ing[i] # s
  /\ ing' = [ing EXCEPT ![i] = s]
  /\ queue' = queue \cup {i}
  /\ changes' = changes + 1
  /\ UNCHANGED <<svc, cert, secret, nginxDir, later, worker, faults>>

UserDelete(i) ==
  /\ changes < MaxChanges
  /\ ing[i] # None
  /\ ing' = [ing EXCEPT ![i] = None]
  /\ queue' = queue \cup {i}
  /\ changes' = changes + 1
  /\ UNCHANGED <<svc, cert, secret, nginxDir, later, worker, faults>>

(* Services are not watched: their changes enqueue nothing. *)
SvcToggle(s) ==
  /\ changes < MaxChanges
  /\ svc' = IF s \in svc THEN svc \ {s} ELSE svc \cup {s}
  /\ changes' = changes + 1
  /\ UNCHANGED <<ing, cert, secret, nginxDir, workqueue, worker, faults>>

(* Secrets are not watched either. *)
IssueCert(i) ==
  /\ cert[i] # None /\ secret[i] # cert[i]
  /\ secret' = [secret EXCEPT ![i] = cert[i]]
  /\ UNCHANGED <<ing, svc, cert, nginxDir, workqueue, worker, counters>>

Requeue(i) ==
  /\ i \in later
  /\ later' = later \ {i}
  /\ queue' = queue \cup {i}
  /\ UNCHANGED <<cluster, nginxDir, worker, counters>>

(* The informer hands out every object again, each ten hours; bounded like *)
(* a change.                                                               *)
Resync ==
  /\ changes < MaxChanges
  /\ queue' = queue \cup {i \in Ings : ing[i] # None}
  /\ changes' = changes + 1
  /\ UNCHANGED <<cluster, nginxDir, later, worker, faults>>

----------------------------------------------------------------------------
(* The worker. *)

(* clearConf.  No error of it is reported. *)
ClearConf(i) ==
  /\ \/ /\ conf[FileOf[i]] # None
        /\ conf' = [conf EXCEPT ![FileOf[i]] = None]
        /\ UNCHANGED main
     \/ /\ conf[FileOf[i]] = None
        /\ main' = IF NginxAccepts(conf, Blank) THEN Blank ELSE main
        /\ UNCHANGED conf
  /\ UNCHANGED ssl

(* Mutant: an object that is not found is reconciled like any other. *)
BeginUnchecked(i) ==
  /\ pc = "idle" /\ i \in queue
  /\ queue' = queue \ {i}
  /\ key' = i
  /\ ic' = ing[i]
  /\ pc' = "services"
  /\ UNCHANGED <<later, nginxDir, cluster, counters>>

(* The object is read once, and an error of Get, whatever it is, counts as *)
(* a deletion; the informer's cache, which answers, has no other.  With    *)
(* the object checkController needs nothing else.                          *)
Begin(i) ==
  /\ pc = "idle" /\ i \in queue
  /\ queue' = queue \ {i}
  /\ \/ /\ ing[i] = None
        /\ ClearConf(i)
        /\ UNCHANGED <<later, worker>>
     \/ /\ ing[i] # None
        /\ \/ /\ ing[i].ours
              /\ pc' = "services" /\ key' = i /\ ic' = ing[i]
              /\ UNCHANGED later
           \/ /\ ~ing[i].ours
              /\ later' = later \cup {i}
              /\ UNCHANGED worker
        /\ UNCHANGED nginxDir
  /\ UNCHANGED <<cluster, counters>>

(* The Services an object refers to: its default backend's, its paths'.    *)
Referred(o) == o.rules \cup ({o.default} \ {None})

CheckServices ==
  /\ pc = "services"
  /\ IF Referred(ic) \subseteq svc
     THEN Goto("resources") ELSE Fail
  /\ UNCHANGED <<cluster, nginxDir, counters>>

(* ReconcileResource: the certificate is created, or its names brought up  *)
(* to date, and the secret is looked up only then.                         *)
Resources ==
  /\ pc = "resources"
  /\ \/ /\ ic.rules = {} \/ cert[key] = ic.hosts
        /\ Goto("annotations")
        /\ UNCHANGED <<cert, faults>>
     \/ /\ ic.rules # {} /\ cert[key] # ic.hosts
        /\ cert' = [cert EXCEPT ![key] = ic.hosts]
        /\ IF secret[key] = None THEN Fail ELSE Goto("annotations")
        /\ UNCHANGED faults
     \/ /\ ic.rules # {}
        /\ Fault
        /\ Fail
        /\ UNCHANGED cert
  /\ UNCHANGED <<ing, svc, secret, nginxDir, changes>>

(* Mutant: the error of the annotations is dropped. *)
ExtractUnchecked ==
  /\ pc = "annotations"
  /\ Goto("rules")
  /\ UNCHANGED <<cluster, nginxDir, counters>>

Extract ==
  /\ pc = "annotations"
  /\ IF ic.sound THEN Goto("rules") ELSE Fail
  /\ UNCHANGED <<cluster, nginxDir, counters>>

(* generateTlsFile: without a secret no file is written, and the error is  *)
(* only logged.                                                            *)
WriteTls == ssl' = [ssl EXCEPT ![FileOf[key]] = IF secret[key] = None THEN @ ELSE secret[key]]

(* getBackendConfigure: without a secret the servers are rendered without  *)
(* https.                                                                  *)
Rendered == [svcs |-> ic.rules, hosts |-> ic.hosts, https |-> secret[key] # None]

(* Mutant: the error of Reload is dropped. *)
RulesDropped ==
  /\ pc = "rules"
  /\ LET new == [conf EXCEPT ![FileOf[key]] = Rendered] IN
       conf' = IF ic.rules # {} /\ (new = conf \/ NginxAccepts(new, main))
               THEN new ELSE conf
  /\ Goto("default")
  /\ UNCHANGED <<cluster, ssl, main, counters>>

Rules ==
  /\ pc = "rules"
  /\ \/ /\ ic.rules = {}
        /\ Goto("default")
        /\ UNCHANGED nginxDir
     \/ /\ ic.rules # {}
        /\ WriteTls
        /\ LET new == [conf EXCEPT ![FileOf[key]] = Rendered] IN
           \/ /\ ic.rules \subseteq svc
              /\ new = conf \/ NginxAccepts(new, main)
              /\ conf' = new
              /\ Goto("default")
           \/ /\ ~(ic.rules \subseteq svc /\ (new = conf \/ NginxAccepts(new, main)))
              /\ UNCHANGED conf
              /\ Fail
        /\ UNCHANGED main
  /\ UNCHANGED <<cluster, counters>>

(* generateDefaultBackendTemplate *)
Default ==
  /\ pc = "default"
  /\ \/ /\ ic.default = None
        /\ Done
        /\ UNCHANGED main
     \/ /\ ic.default \in svc
        /\ main = ic.default \/ NginxAccepts(conf, ic.default)
        /\ main' = ic.default
        /\ Done
     \/ /\ ic.default # None
        /\ ~(ic.default \in svc /\ (main = ic.default \/ NginxAccepts(conf, ic.default)))
        /\ UNCHANGED main
        /\ Fail
  /\ UNCHANGED <<cluster, conf, ssl, counters>>

(* The container restarts from its image and lists the objects again. *)
Restart ==
  /\ Fault
  /\ conf' = [f \in Files |-> None]
  /\ ssl' = [f \in Files |-> None]
  /\ main' = Image
  /\ queue' = {i \in Ings : ing[i] # None}
  /\ later' = {}
  /\ pc' = "idle" /\ key' = None /\ ic' = None
  /\ UNCHANGED <<cluster, changes>>

----------------------------------------------------------------------------
Init ==
  /\ ing = Listed
  /\ svc = Svcs
  /\ cert = [i \in Ings |-> None] /\ secret = [i \in Ings |-> None]
  /\ conf = [f \in Files |-> None] /\ ssl = [f \in Files |-> None]
  /\ main = Image
  /\ queue = {i \in Ings : Listed[i] # None} /\ later = {}
  /\ pc = "idle" /\ key = None /\ ic = None
  /\ changes = 0 /\ faults = 0

Users == \/ \E i \in Ings : UserDelete(i) \/ \E s \in Specs : UserApply(i, s)
         \/ \E s \in Svcs : SvcToggle(s)
Reconciling == CheckServices \/ Resources \/ Extract \/ Rules \/ Default

Next == \/ Users
        \/ \E i \in Ings : IssueCert(i) \/ Requeue(i) \/ Begin(i)
        \/ Resync
        \/ Reconciling
        \/ Restart

Spec == Init /\ [][Next]_vars

(* The workqueue is first in, first out, so no key is passed over for      *)
(* ever; cert-manager answers; nothing is assumed of users and faults.     *)
Fairness == /\ WF_vars(Reconciling)
            /\ \A i \in Ings : /\ WF_vars(IssueCert(i))
                               /\ WF_vars(Requeue(i))
                               /\ SF_vars(Begin(i))

FairSpec == Spec /\ Fairness

----------------------------------------------------------------------------
TypeOK ==
  /\ ing \in [Ings -> Specs \cup {None}]
  /\ svc \subseteq Svcs
  /\ cert \in [Ings -> Hosts \cup {None}] /\ secret \in [Ings -> Hosts \cup {None}]
  /\ conf \in [Files -> ConfType \cup {None}] /\ ssl \in [Files -> Hosts \cup {None}]
  /\ main \in Svcs \cup {Image, Blank}
  /\ queue \subseteq Ings /\ later \subseteq Ings
  /\ pc \in {"idle", "services", "resources", "annotations", "rules", "default"}
  /\ IF pc = "idle" THEN key = None /\ ic = None ELSE key \in Ings /\ ic \in Specs
  /\ changes \in 0..MaxChanges /\ faults \in 0..MaxFaults

Busy(i) == pc # "idle" /\ key = i

(* The controller has nothing left to do for i, now or after a delay. *)
Settled(i) == i \notin queue \cup later /\ ~Busy(i)

(* The file of i holds the servers its object s asks for. *)
Applied(i, s) ==
  LET c == conf[FileOf[i]]
  IN s.rules # {} => c # None /\ c.svcs = s.rules /\ c.hosts = s.hosts

(* No two Ingresses share a file: a-b in c and a in b-c would.             *)
DistinctFiles == \A i, j \in Ings : FileOf[i] = FileOf[j] => i = j

(* An Ingress the controller is done with is applied, whatever changed     *)
(* while it was being reconciled; a deleted one has no file left.          *)
SettledMeansApplied ==
  \A i \in Ings : Settled(i) =>
    IF ing[i] = None THEN conf[FileOf[i]] = None
    ELSE ing[i].ours /\ ing[i].sound /\ Applied(i, ing[i])

(* What the worker holds: the object it read is current, or its key is     *)
(* queued again; and every check behind the worker has been passed.        *)
WorkerInv ==
  pc # "idle" =>
    /\ ing[key] # ic => key \in queue
    /\ ic.ours
    /\ pc \in {"rules", "default"} => ic.sound
    /\ pc = "default" => Applied(key, ic)

(* Every Service some configuration depends on exists, and every object    *)
(* can be applied: no other Ingress's file has an upstream it asks for.    *)
LiveHealthy == \A i \in Ings : ing[i] # None =>
  /\ ing[i].ours /\ ing[i].sound
  /\ Referred(ing[i]) \subseteq svc
  /\ Free(conf, FileOf[i], ing[i].rules)
Healthy == LiveHealthy /\ NginxAccepts(conf, main)

AllApplied == \A i \in Ings : ing[i] # None => Applied(i, ing[i])

(* A configuration refused because of another one's missing Service, or of *)
(* an upstream another file defines, is retried until it is applied, once  *)
(* every Service is back and the upstream is no longer there.              *)
Converges == <>[]Healthy => <>[]AllApplied

(* The same, though only what the existing objects ask for is healthy.     *)
ConvergesForLive == <>[]LiveHealthy => <>[]AllApplied

(* When all keys are settled and a single object gives a default backend,  *)
(* nginx.conf proxies to it.                                               *)
Defaulting == {i \in Ings : ing[i] # None /\ ing[i].default # None}
DefaultServed ==
  \A i \in Ings : Defaulting = {i} /\ (\A j \in Ings : Settled(j)) =>
    main = ing[i].default

(* Once settled and its certificate issued, an Ingress is served over      *)
(* https with that certificate.                                            *)
HttpsServed ==
  \A i \in Ings :
    /\ Settled(i) /\ ing[i] # None /\ ing[i].rules # {}
    /\ secret[i] = ing[i].hosts
    => conf[FileOf[i]].https /\ ssl[FileOf[i]] = secret[i]

(* What Settlement calls the file: the servers without their certificates. *)
FileContent(c) == IF c = None THEN None ELSE [svcs |-> c.svcs, hosts |-> c.hosts]

Abstract == INSTANCE Settlement WITH
  wanted <- ing,
  file <- [i \in Ings |-> FileContent(conf[FileOf[i]])],
  pending <- queue \cup later \cup {i \in Ings : Busy(i)},
  hand <- IF pc = "idle" THEN None ELSE <<key, ic>>

(* The loop keeps the promises of Settlement: a file is written only with  *)
(* the version in hand, of the Ingress in hand, and an Ingress is let go   *)
(* only when it is applied or will be reconciled again.                    *)
ImplementsSettlement == Abstract!Spec
==============================================================================
