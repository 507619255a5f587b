---------------------------- MODULE Certificates ----------------------------
(***************************************************************************)
(* The certificate files of /etc/nginx/ssl: the reconcile worker copies    *)
(* each Secret an Ingress names to a pair of files, one file after the     *)
(* other and without a trial, then reloads nginx with the servers that     *)
(* refer to them.  The watchers and nginx read the files at any moment,    *)
(* and Secrets change without the worker being told.  nginx.Reload, whose  *)
(* steps are ConfReload's, is one step here.                               *)
(***************************************************************************)
EXTENDS Integers, Sequences

CONSTANTS
  Ings,       \* Ingress names
  Hosts,      \* host names of rules and of spec.tls
  DnsHosts,   \* the ones GetDnsRegex accepts
  Secrets,    \* Secret names
  Own,        \* the Secret cert-manager issues for an Ingress: <name>-secret
  Gens,       \* generations of a certificate or a key
  Specs,      \* the specifications users write, per Ingress
  Issued,     \* the data a Secret can have, per Secret; None: it is deleted
  Listed,     \* the Ingresses there are when the container starts
  First,      \* the data of each Secret then: a matching pair, or None
  None,       \* no object, no file, no certificate
  Empty,      \* a file os.WriteFile has truncated
  MaxChanges, \* bound: changes of Ingresses and Secrets
  MaxFaults,  \* bound: writes that fail
  SlowTimers  \* TRUE: all is settled before a requeue (15 s) or a resync (10 h)

Parts == {"crt", "key"}
Labels == Ings \cup Hosts   \* a pair of files is named after an Ingress or a host

(* A Secret's data: the parts it has. *)
DataType == UNION {[P -> Gens] : P \in SUBSET Parts}
Whole(d) == d # None /\ DOMAIN d = Parts /\ d["crt"] = d["key"]

(* ca: spec.tls has items; tls: an entry for each host of each of them,    *)
(* none for an item without hosts.  The worker loops over both.            *)
SpecType == [rules : SUBSET Hosts \ {{}}, ca : BOOLEAN,
             tls : Seq([secret : Secrets, host : Hosts])]
Content == Secrets \X Gens
TlsType == [Parts -> Labels \cup {None}]
ServersType == UNION {[D -> TlsType \cup {None}] : D \in SUBSET Hosts}
ServedType == UNION {[D -> Content \cup {None}] : D \in SUBSET Hosts}

ASSUME NamesAssumption ==
  /\ Ings \cap Hosts = {} /\ DnsHosts \subseteq Hosts
  /\ Own \in [Ings -> Secrets]
  /\ None \notin DataType \cup Content \cup TlsType \cup Labels \cup SpecType
  /\ None \notin ServersType \cup ServedType \cup Parts
  /\ Empty # None /\ Empty \notin Content
ASSUME SpecsAssumption ==
  /\ \A i \in Ings : Specs[i] \subseteq SpecType
  /\ \A i \in Ings : \A o \in Specs[i] : o.tls # <<>> => o.ca
  /\ Listed \in [Ings -> SpecType \cup {None}]
  /\ \A s \in Secrets : Issued[s] \subseteq DataType \cup {None}
  /\ First \in [Secrets -> DataType \cup {None}]
  /\ \A s \in Secrets : First[s] = None \/ Whole(First[s])
ASSUME BoundsAssumption ==
  MaxChanges \in Nat /\ MaxFaults \in Nat /\ SlowTimers \in BOOLEAN

VARIABLES
  ing,     \* the Ingress objects
  secret,  \* the data of each Secret
  named,   \* history: the Secrets ever named for a host in a spec.tls
  flawed,  \* history: the Secrets that ever were no matching pair
  lacking, \* history: the ones that ever lacked a part
  queue, later, \* workqueue keys: ready, and waiting for RequeueAfter
  pc, cur, obj, \* the worker: its step, its key, the object it read
  at,      \* the entry of the object it is at
  data,    \* the data of that entry's Secret, as it was read
  todo,    \* the parts still to be written
  open,    \* the part whose file is truncated
  ssl,     \* the variable of generateCaTlsFile: the labels of both files
  ht,      \* its result: from hosts to ssl
  file,    \* the files, per label and part
  conf,    \* the servers of conf.d: from hosts to ssl, None without TLS
  served,  \* the certificates nginx serves, per Ingress and host
  event,   \* an unhandled event of the watched directories
  hup,     \* a SIGHUP nginx has not handled
  changes, faults

cluster == <<ing, secret, named, flawed, lacking>>
workqueue == <<queue, later>>
worker == <<pc, cur, obj, at, data, todo, open, ssl, ht>>
nginx == <<served, hup>>
counters == <<changes, faults>>
vars == <<cluster, workqueue, worker, file, conf, nginx, event, counters>>

----------------------------------------------------------------------------
(* Mutant: the pair is named after the Ingress, whatever the host. *)
EntriesOneLabel(i, o) ==
  IF ~o.ca THEN <<[secret |-> Own[i], label |-> i, hosts |-> o.rules]>>
  ELSE [k \in DOMAIN o.tls |->
          [secret |-> o.tls[k].secret, label |-> i, hosts |-> {o.tls[k].host}]]

(* What the worker loops over: the hosts of spec.tls, if it has items, or  *)
(* the Ingress's own Secret for all its hosts.                             *)
Entries(i, o) ==
  IF ~o.ca THEN <<[secret |-> Own[i], label |-> i, hosts |-> o.rules]>>
  ELSE [k \in DOMAIN o.tls |->
          [secret |-> o.tls[k].secret, label |-> o.tls[k].host, hosts |-> {o.tls[k].host}]]

Entry == Entries(cur, obj)[at]

(* The hosts of a conf.d file served with a certificate. *)
Secured(c) == {h \in DOMAIN c : c[h] # None}

(* Mutant: a truncated file counts as a certificate. *)
LoadableEmptyToo(t) ==
  /\ \A p \in Parts : t[p] # None /\ file[t[p]][p] # None
  /\ file[t["crt"]]["crt"] = file[t["key"]]["key"]

(* Both directives have a file, and certificate and key belong together.   *)
Loadable(t) ==
  /\ \A p \in Parts : t[p] # None /\ file[t[p]][p] \in Content
  /\ file[t["crt"]]["crt"] = file[t["key"]]["key"]

(* nginx -t of the whole directory. *)
NginxAccepts(c) ==
  \A i \in Ings : c[i] # None => \A h \in Secured(c[i]) : Loadable(c[i][h])

Drained == queue = {} /\ pc = "idle" /\ ~event /\ ~hup
Fault == faults < MaxFaults /\ faults' = faults + 1

----------------------------------------------------------------------------
(* Users, cert-manager and timers. *)

(* The Secrets an object names for a host. *)
NamedFor(o, h) ==
  IF o = None THEN {} ELSE {o.tls[k].secret : k \in {j \in DOMAIN o.tls : o.tls[j].host = h}}

UserApply(i, o) ==
  /\ changes < MaxChanges /\ ing[i] # o
  /\ ing' = [ing EXCEPT ![i] = o]
  /\ named' = [h \in Hosts |-> named[h] \cup NamedFor(o, h)]
  /\ queue' = queue \cup {i}
  /\ changes' = changes + 1
  /\ UNCHANGED <<secret, flawed, lacking, later, worker, file, conf, nginx, event, faults>>

UserDelete(i) ==
  /\ changes < MaxChanges /\ ing[i] # None
  /\ ing' = [ing EXCEPT ![i] = None]
  /\ queue' = queue \cup {i}
  /\ changes' = changes + 1
  /\ UNCHANGED <<secret, named, flawed, lacking, later, worker, file, conf, nginx, event,
                 faults>>

(* A Secret is issued, renewed, edited or deleted; none is watched. *)
SecretSet(s, d) ==
  /\ changes < MaxChanges /\ secret[s] # d
  /\ secret' = [secret EXCEPT ![s] = d]
  /\ flawed' = IF d = None \/ Whole(d) THEN flawed ELSE flawed \cup {s}
  /\ lacking' = IF d = None \/ DOMAIN d = Parts THEN lacking ELSE lacking \cup {s}
  /\ changes' = changes + 1
  /\ UNCHANGED <<ing, named, workqueue, worker, file, conf, nginx, event, faults>>

Requeue(i) ==
  /\ i \in later
  /\ SlowTimers => Drained
  /\ later' = later \ {i}
  /\ queue' = queue \cup {i}
  /\ UNCHANGED <<cluster, worker, file, conf, nginx, event, counters>>

(* The informer hands out every object again, which enqueues it. *)
Resync ==
  /\ SlowTimers => Drained
  /\ queue' = queue \cup {i \in Ings : ing[i] # None}
  /\ UNCHANGED <<cluster, later, worker, file, conf, nginx, event, counters>>

----------------------------------------------------------------------------
(* The worker. *)

NoSsl == [p \in Parts |-> None]
NoHt == [h \in Hosts |-> None]

(* A deleted object's file is removed, which the conf.d watcher sees; its  *)
(* certificate files stay.                                                 *)
Begin(i) ==
  /\ pc = "idle" /\ i \in queue
  /\ queue' = queue \ {i}
  /\ \/ /\ ing[i] = None
        /\ conf' = [conf EXCEPT ![i] = None]
        /\ event' = (event \/ conf[i] # None)
        /\ UNCHANGED worker
     \/ /\ ing[i] # None
        /\ pc' = "read" /\ cur' = i /\ obj' = ing[i]
        /\ UNCHANGED <<at, data, todo, open, ssl, ht, conf, event>>
  /\ UNCHANGED <<cluster, later, file, nginx, counters>>

(* GetTlsData.  A Secret that is missing, or a host that is no DNS name,   *)
(* ends the loop: the entries after it get no certificate either.          *)
ReadSecret ==
  /\ pc = "read" /\ at \in DOMAIN Entries(cur, obj)
  /\ LET d == secret[Entry.secret] IN
       IF d = None \/ (DOMAIN d # {} /\ Entry.label \in Hosts \ DnsHosts)
       THEN pc' = "reload" /\ UNCHANGED <<data, todo>>
       ELSE pc' = "write" /\ data' = d /\ todo' = DOMAIN d
  /\ UNCHANGED <<cluster, workqueue, cur, obj, at, open, ssl, ht, file, conf, nginx, event,
                 counters>>

(* os.WriteFile truncates a file, then fills it; the parts come in the     *)
(* order of a Go map.                                                      *)
Truncate(p) ==
  /\ pc = "write" /\ open = None /\ p \in todo
  /\ file' = [file EXCEPT ![Entry.label][p] = Empty]
  /\ open' = p
  /\ event' = TRUE
  /\ UNCHANGED <<cluster, workqueue, pc, cur, obj, at, data, todo, ssl, ht, conf, nginx, counters>>

(* Mutant: each part is taken from the Secret as it is then. *)
FillLatest ==
  /\ pc = "write" /\ open # None
  /\ LET d == secret[Entry.secret]
         now == IF d # None /\ open \in DOMAIN d THEN d[open] ELSE data[open]
     IN file' = [file EXCEPT ![Entry.label][open] = <<Entry.secret, now>>]
  /\ ssl' = [ssl EXCEPT ![open] = Entry.label]
  /\ todo' = todo \ {open}
  /\ open' = None
  /\ event' = TRUE
  /\ UNCHANGED <<cluster, workqueue, pc, cur, obj, at, data, ht, conf, nginx, counters>>

Fill ==
  /\ pc = "write" /\ open # None
  /\ file' = [file EXCEPT ![Entry.label][open] = <<Entry.secret, data[open]>>]
  /\ ssl' = [ssl EXCEPT ![open] = Entry.label]
  /\ todo' = todo \ {open}
  /\ open' = None
  /\ event' = TRUE
  /\ UNCHANGED <<cluster, workqueue, pc, cur, obj, at, data, ht, conf, nginx, counters>>

(* The write fails before or after the truncation. *)
WriteFails ==
  /\ pc = "write" /\ todo # {}
  /\ Fault
  /\ pc' = "reload"
  /\ data' = None /\ todo' = {} /\ open' = None
  /\ UNCHANGED <<cluster, workqueue, cur, obj, at, ssl, ht, file, conf, nginx, event,
                 changes>>

(* ht[host] = ssl, a variable that keeps the file names of the entries     *)
(* before for the parts this Secret does not have.                         *)
Pair ==
  /\ pc = "write" /\ todo = {}
  /\ ht' = [h \in Hosts |-> IF h \in Entry.hosts THEN ssl ELSE ht[h]]
  /\ at' = at + 1
  /\ pc' = "read"
  /\ data' = None
  /\ UNCHANGED <<cluster, workqueue, cur, obj, todo, open, ssl, file, conf, nginx, event,
                 counters>>

Servers == [h \in obj.rules |-> ht[h]]

(* The error of generateTlsFile is only logged.  Equal servers reload      *)
(* nothing; refused ones are rolled back and tried again.  Either way the  *)
(* test file is removed, which the conf.d watcher sees.                    *)
Reload ==
  /\ pc = "reload" \/ (pc = "read" /\ at \notin DOMAIN Entries(cur, obj))
  /\ LET new == [conf EXCEPT ![cur] = Servers] IN
       \/ /\ new = conf
          /\ UNCHANGED <<conf, hup, later>>
       \/ /\ new # conf /\ NginxAccepts(new)
          /\ conf' = new /\ hup' = TRUE
          /\ UNCHANGED later
       \/ /\ new # conf /\ ~NginxAccepts(new)
          /\ later' = later \cup {cur}
          /\ UNCHANGED <<conf, hup>>
  /\ pc' = "idle" /\ cur' = None /\ obj' = None /\ at' = 1
  /\ ssl' = NoSsl /\ ht' = NoHt
  /\ event' = TRUE
  /\ UNCHANGED <<cluster, queue, data, todo, open, file, served, counters>>

----------------------------------------------------------------------------
(* The watchers and nginx. *)

(* Mutant: an event is taken without testing or signalling. *)
WatcherIdle ==
  /\ event
  /\ event' = FALSE
  /\ UNCHANGED <<cluster, workqueue, worker, file, conf, nginx, counters>>

(* reloadIfWatchFileCurd: a refused event is dropped. *)
Watcher ==
  /\ event
  /\ event' = FALSE
  /\ hup' = (hup \/ NginxAccepts(conf))
  /\ UNCHANGED <<cluster, workqueue, worker, file, conf, served, counters>>

Certificate(t) == file[t["crt"]]["crt"]

(* The certificate of each host of the directory. *)
Loaded == [i \in Ings |-> IF conf[i] = None THEN None
             ELSE [h \in DOMAIN conf[i] |->
                     IF conf[i][h] = None THEN None ELSE Certificate(conf[i][h])]]

NginxLoad ==
  /\ hup
  /\ hup' = FALSE
  /\ served' = IF NginxAccepts(conf) THEN Loaded ELSE served
  /\ UNCHANGED <<cluster, workqueue, worker, file, conf, event, counters>>

----------------------------------------------------------------------------
(* A container starts from its image, whatever was there before. *)
Init ==
  /\ ing = Listed /\ secret = First
  /\ named = [h \in Hosts |-> UNION {NamedFor(Listed[i], h) : i \in Ings}]
  /\ flawed = {} /\ lacking = {}
  /\ queue = {i \in Ings : Listed[i] # None} /\ later = {}
  /\ pc = "idle" /\ cur = None /\ obj = None /\ at = 1
  /\ data = None /\ todo = {} /\ open = None
  /\ ssl = NoSsl /\ ht = NoHt
  /\ file = [l \in Labels |-> [p \in Parts |-> None]]
  /\ conf = [i \in Ings |-> None] /\ served = [i \in Ings |-> None]
  /\ event = FALSE /\ hup = FALSE
  /\ changes = 0 /\ faults = 0

Worker == \/ \E i \in Ings : Begin(i)
          \/ ReadSecret \/ \E p \in Parts : Truncate(p)
          \/ Fill \/ Pair \/ Reload

Next == \/ \E i \in Ings : UserDelete(i) \/ \E o \in Specs[i] : UserApply(i, o)
        \/ \E s \in Secrets : \E d \in Issued[s] : SecretSet(s, d)
        \/ Resync \/ \E i \in Ings : Requeue(i)
        \/ Worker \/ WriteFails
        \/ Watcher \/ NginxLoad

Spec == Init /\ [][Next]_vars

(* Goroutines and nginx run, and the informer resyncs again and again;     *)
(* nothing is assumed of users, Secrets, faults and retries.               *)
Fairness == /\ WF_vars(Worker) /\ WF_vars(Watcher) /\ WF_vars(NginxLoad)
            /\ SF_vars(Resync)

FairSpec == Spec /\ Fairness

----------------------------------------------------------------------------
TypeOK ==
  /\ ing \in [Ings -> SpecType \cup {None}]
  /\ secret \in [Secrets -> DataType \cup {None}]
  /\ named \in [Hosts -> SUBSET Secrets]
  /\ flawed \subseteq Secrets /\ lacking \subseteq Secrets
  /\ queue \subseteq Ings /\ later \subseteq Ings
  /\ pc \in {"idle", "read", "write", "reload"}
  /\ pc # "idle" => cur \in Ings /\ obj \in SpecType
  /\ at \in Nat
  /\ IF pc = "write" THEN /\ at \in DOMAIN Entries(cur, obj) /\ data \in DataType
                          /\ todo \subseteq DOMAIN data /\ open \in todo \cup {None}
     ELSE data = None /\ todo = {} /\ open = None
  /\ ssl \in TlsType /\ ht \in [Hosts -> TlsType \cup {None}]
  /\ file \in [Labels -> [Parts -> Content \cup {Empty, None}]]
  /\ conf \in [Ings -> ServersType \cup {None}]
  /\ served \in [Ings -> ServedType \cup {None}]
  /\ event \in BOOLEAN /\ hup \in BOOLEAN
  /\ changes \in 0..MaxChanges /\ faults \in 0..MaxFaults

(* nginx serves a host with a certificate of a Secret some Ingress named   *)
(* for it, or of the Ingress's own; unless such a Secret once had a part   *)
(* missing, for which ssl keeps another host's file.  A pair two Ingresses *)
(* share, and a Secret whose certificate and key do not match, are no      *)
(* exception.                                                              *)
OwnPair ==
  \A i \in Ings : served[i] # None => \A h \in Secured(served[i]) :
    \/ served[i][h][1] \in named[h] \cup {Own[i]}
    \/ (named[h] \cup {Own[i]}) \cap lacking # {}

(* As long as every Secret is a matching pair, or missing, and every write *)
(* succeeds, nginx accepts the directory whenever no pair is being         *)
(* written: Secrets renewed between two reads, Ingresses sharing a pair    *)
(* and updates that drop one never mix two certificates.                   *)
GoodSecretsAccepted ==
  flawed = {} /\ faults = 0 /\ pc # "write" => NginxAccepts(conf)

(* A change of the files is never missed: with no event and no signal on   *)
(* the way, nginx serves the certificates that are in the files, unless it *)
(* would refuse them; though an event is dropped whenever nginx -t finds a *)
(* pair half written, and a SIGHUP whenever nginx does.                    *)
FilesServed == ~event /\ ~hup /\ NginxAccepts(conf) => served = Loaded

(* Every Secret in use is a matching pair, every host a DNS name, and no   *)
(* two Secrets are for one pair of files.                                  *)
EntrySet(i) == IF ing[i] = None THEN {}
               ELSE {Entries(i, ing[i])[k] : k \in DOMAIN Entries(i, ing[i])}
AllEntries == UNION {EntrySet(i) : i \in Ings}
AllGood ==
  /\ \A e \in AllEntries : Whole(secret[e.secret]) /\ e.label \notin Hosts \ DnsHosts
  /\ \A e, f \in AllEntries : e.label = f.label => e.secret = f.secret

(* What nginx should serve of a host: None without a certificate for it.   *)
Wanted(i, h) ==
  LET for == {e \in EntrySet(i) : h \in e.hosts /\ Whole(secret[e.secret])}
      s == (CHOOSE e \in for : TRUE).secret
  IN IF for = {} THEN None ELSE <<s, secret[s]["crt"]>>

UpToDate == \A i \in Ings :
  IF ing[i] = None THEN served[i] = None
  ELSE served[i] = [h \in ing[i].rules |-> Wanted(i, h)]

(* What the files in place refer to beyond the present objects' entries    *)
(* can be loaded.                                                          *)
NoBrokenLeftover ==
  \A i \in Ings : conf[i] # None => \A h \in Secured(conf[i]) :
    \/ \A p \in Parts : conf[i][h][p] \in {e.label : e \in EntrySet(i)}
    \/ Loadable(conf[i][h])

(* A renewed Secret, a new host and a repaired pair all reach nginx in the *)
(* end, and a host whose certificate nobody names any more loses it, when  *)
(* no broken pair is left behind.                                          *)
Converges == <>[](AllGood /\ NoBrokenLeftover) => <>[]UpToDate

(* "make the cluster state reflect the state specified by the user"        *)
(* (Reconcile): the same, whatever was left behind.                        *)
ConvergesForGood == <>[]AllGood => <>[]UpToDate
==============================================================================
