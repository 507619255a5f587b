-------------------------- MODULE Certificates_proof --------------------------
(***************************************************************************)
(* Proofs about Certificates for every set of Ingresses, hosts, Secrets    *)
(* and specifications: types, that a host is only ever served with a       *)
(* certificate named for it, and that nginx accepts the directory as long  *)
(* as every Secret is a matching pair.                                     *)
(***************************************************************************)
EXTENDS Certificates, TLAPS

USE DEF Fault

(* What a worker holds when it is at an entry of its object. *)
AtEntry == pc # "idle" /\ at \in DOMAIN Entries(cur, obj)

(* The items of spec.tls have their types. *)
LEMMA TlsForm ==
  ASSUME NEW o \in SpecType, NEW k \in DOMAIN o.tls
  PROVE  o.tls[k].secret \in Secrets /\ o.tls[k].host \in Hosts
<1> DEFINE Item == [secret : Secrets, host : Hosts]
<1>1. o.tls \in Seq(Item)
  BY DEF SpecType
<1>2. o.tls[k] \in Item
  <2> HIDE DEF Item
  <2> QED BY <1>1
<1> QED BY <1>2

(* An entry is one host's, with a Secret named for it, or the Ingress's    *)
(* own.                                                                    *)
LEMMA EntryForms ==
  ASSUME TypeOK, AtEntry
  PROVE  /\ Entry.secret \in Secrets /\ Entry.hosts \subseteq Hosts /\ Entry.label \in Labels
         /\ \/ Entry.label = cur /\ Entry.secret = Own[cur]
            \/ /\ Entry.label \in Hosts /\ Entry.hosts = {Entry.label}
               /\ \E k \in DOMAIN obj.tls : /\ obj.tls[k].secret = Entry.secret
                                            /\ obj.tls[k].host = Entry.label
<1>1. cur \in Ings /\ obj \in SpecType /\ at \in DOMAIN Entries(cur, obj)
  BY DEF TypeOK, AtEntry
<1>2. obj.rules \subseteq Hosts
  BY <1>1 DEF SpecType
<1>3. \A k \in DOMAIN obj.tls : obj.tls[k].secret \in Secrets /\ obj.tls[k].host \in Hosts
  BY <1>1, TlsForm
<1>4. CASE ~obj.ca
  <2>1. Entries(cur, obj) = <<[secret |-> Own[cur], label |-> cur, hosts |-> obj.rules]>>
    BY <1>4 DEF Entries
  <2>2. at = 1
    BY <1>1, <2>1
  <2>3. Entry = [secret |-> Own[cur], label |-> cur, hosts |-> obj.rules]
    BY <2>1, <2>2 DEF Entry
  <2>4. Own[cur] \in Secrets
    BY <1>1, NamesAssumption
  <2> QED BY <1>1, <1>2, <2>3, <2>4 DEF Labels
<1>5. CASE obj.ca
  <2>1. Entries(cur, obj) =
          [k \in DOMAIN obj.tls |-> [secret |-> obj.tls[k].secret, label |-> obj.tls[k].host,
                                     hosts |-> {obj.tls[k].host}]]
    BY <1>5 DEF Entries
  <2>2. /\ at \in DOMAIN obj.tls
        /\ Entry = [secret |-> obj.tls[at].secret, label |-> obj.tls[at].host,
                    hosts |-> {obj.tls[at].host}]
    BY <1>1, <2>1 DEF Entry
  <2> QED BY <1>3, <2>2 DEF Labels
<1> QED BY <1>4, <1>5

(* The data of a Secret is a function of the parts it has. *)
LEMMA DataForm ==
  ASSUME NEW d \in DataType
  PROVE  DOMAIN d \subseteq Parts /\ \A p \in DOMAIN d : d[p] \in Gens
BY DEF DataType

(* A file of servers is for hosts and gives each None or a pair of labels. *)
LEMMA ConfForm ==
  ASSUME TypeOK, NEW i \in Ings, conf[i] # None
  PROVE  /\ DOMAIN conf[i] \subseteq Hosts
         /\ \A h \in DOMAIN conf[i] : conf[i][h] \in TlsType \cup {None}
<1>1. conf[i] \in ServersType
  BY DEF TypeOK
<1>2. PICK D \in SUBSET Hosts : conf[i] \in [D -> TlsType \cup {None}]
  BY <1>1 DEF ServersType
<1> QED BY <1>2

(* So is what nginx serves. *)
LEMMA ServedForm ==
  ASSUME TypeOK, NEW i \in Ings, served[i] # None
  PROVE  DOMAIN served[i] \subseteq Hosts
<1>1. served[i] \in ServedType
  BY DEF TypeOK
<1>2. PICK D \in SUBSET Hosts : served[i] \in [D -> Content \cup {None}]
  BY <1>1 DEF ServedType
<1> QED BY <1>2

(* All nginx loads from a directory it accepts is certificates. *)
LEMMA LoadedType ==
  ASSUME TypeOK, NginxAccepts(conf)
  PROVE  Loaded \in [Ings -> ServedType \cup {None}]
<1>1. ASSUME NEW i \in Ings, conf[i] # None
      PROVE  [h \in DOMAIN conf[i] |->
                IF conf[i][h] = None THEN None ELSE Certificate(conf[i][h])] \in ServedType
  <2>1. \A h \in Secured(conf[i]) : Certificate(conf[i][h]) \in Content
    BY <1>1 DEF NginxAccepts, Loadable, Certificate, Parts
  <2>2. DOMAIN conf[i] \in SUBSET Hosts
    BY <1>1, ConfForm
  <2> QED BY <2>1, <2>2 DEF ServedType, Secured
<1> QED BY <1>1 DEF Loaded

----------------------------------------------------------------------------
(* Every step keeps the types. *)
LEMMA TypeStep ==
  ASSUME TypeOK, [Next]_vars
  PROVE  TypeOK'
<1> USE BoundsAssumption
<1>1. ASSUME NEW i \in Ings, UserDelete(i) PROVE TypeOK'
  BY <1>1 DEF TypeOK, UserDelete, worker, nginx, Entry
<1>2. ASSUME NEW i \in Ings, NEW o \in Specs[i], UserApply(i, o) PROVE TypeOK'
  <2>1. o \in SpecType
    BY SpecsAssumption
  <2>2. named' \in [Hosts -> SUBSET Secrets]
    <3>1. \A h \in Hosts : NamedFor(o, h) \subseteq Secrets
      BY <2>1, TlsForm DEF NamedFor
    <3> QED BY <1>2, <3>1 DEF TypeOK, UserApply
  <2> QED BY <1>2, <2>1, <2>2 DEF TypeOK, UserApply, worker, nginx
<1>3. ASSUME NEW s \in Secrets, NEW d \in Issued[s], SecretSet(s, d) PROVE TypeOK'
  <2>1. d \in DataType \cup {None}
    BY SpecsAssumption
  <2> QED BY <1>3, <2>1 DEF TypeOK, SecretSet, workqueue, worker, nginx
<1>4. CASE Resync
  BY <1>4 DEF TypeOK, Resync, cluster, worker, nginx, counters
<1>5. ASSUME NEW i \in Ings, Requeue(i) PROVE TypeOK'
  BY <1>5 DEF TypeOK, Requeue, cluster, worker, nginx, counters
<1>6. ASSUME NEW i \in Ings, Begin(i) PROVE TypeOK'
  BY <1>6 DEF TypeOK, Begin, cluster, worker, nginx, counters
<1>7. CASE ReadSecret
  <2>1. /\ pc = "read" /\ AtEntry
    BY <1>7 DEF ReadSecret, AtEntry
  <2>2. secret[Entry.secret] \in DataType \cup {None}
    BY <2>1, EntryForms DEF TypeOK
  <2> QED BY <1>7, <2>1, <2>2 DEF TypeOK, ReadSecret, cluster, workqueue, nginx, counters
<1>8. ASSUME NEW p \in Parts, Truncate(p) PROVE TypeOK'
  BY <1>8 DEF TypeOK, Truncate, cluster, workqueue, nginx, counters
<1>9. CASE Fill
  <2>1. pc = "write" /\ AtEntry /\ open \in DOMAIN data /\ data \in DataType
    BY <1>9 DEF TypeOK, Fill, AtEntry
  <2>2. open \in Parts /\ <<Entry.secret, data[open]>> \in Content /\ Entry.label \in Labels
    BY <2>1, DataForm, EntryForms DEF Content
  <2>3. /\ file' \in [Labels -> [Parts -> Content \cup {Empty, None}]]
        /\ ssl' \in TlsType
    BY <1>9, <2>2 DEF TypeOK, Fill, TlsType
  <2>4. todo' \subseteq DOMAIN data /\ open' = None /\ pc' = "write"
    BY <1>9 DEF TypeOK, Fill
  <2> QED BY <1>9, <2>3, <2>4 DEF TypeOK, Fill, cluster, workqueue, nginx, counters
<1>10. CASE WriteFails
  BY <1>10 DEF TypeOK, WriteFails, cluster, workqueue, nginx
<1>11. CASE Pair
  BY <1>11 DEF TypeOK, Pair, cluster, workqueue, nginx, counters
<1>12. CASE Reload
  <2>1. pc \in {"read", "reload"} /\ cur \in Ings /\ obj \in SpecType
    BY <1>12 DEF TypeOK, Reload
  <2>2. Servers \in ServersType
    <3>1. obj.rules \in SUBSET Hosts /\ Servers \in [obj.rules -> TlsType \cup {None}]
      BY <2>1 DEF TypeOK, Servers, SpecType
    <3> QED BY <3>1 DEF ServersType
  <2>3. /\ conf' \in [Ings -> ServersType \cup {None}] /\ hup' \in BOOLEAN
        /\ later' \subseteq Ings
    BY <1>12, <2>1, <2>2 DEF TypeOK, Reload
  <2>4. /\ ssl' \in TlsType /\ ht' \in [Hosts -> TlsType \cup {None}]
        /\ pc' = "idle" /\ at' \in Nat /\ event' = TRUE
    BY <1>12 DEF Reload, NoSsl, NoHt, TlsType
  <2>5. UNCHANGED <<ing, secret, named, flawed, lacking, queue, data, todo, open, file, served,
                    changes, faults>>
    BY <1>12 DEF Reload, cluster, counters
  <2> QED BY <2>1, <2>3, <2>4, <2>5 DEF TypeOK
<1>13. CASE Watcher
  BY <1>13 DEF TypeOK, Watcher, cluster, workqueue, worker, counters
<1>14. CASE NginxLoad
  <2>1. served' \in [Ings -> ServedType \cup {None}]
    <3>1. CASE NginxAccepts(conf)
      BY <1>14, <3>1, LoadedType DEF NginxLoad, Loaded
    <3>2. CASE ~NginxAccepts(conf)
      BY <1>14, <3>2 DEF TypeOK, NginxLoad
    <3> QED BY <3>1, <3>2
  <2> QED BY <1>14, <2>1 DEF TypeOK, NginxLoad, cluster, workqueue, worker, counters
<1>15. CASE UNCHANGED vars
  BY <1>15 DEF TypeOK, vars, cluster, workqueue, worker, nginx, counters
<1> QED
  BY <1>1, <1>2, <1>3, <1>4, <1>5, <1>6, <1>7, <1>8, <1>9, <1>10, <1>11, <1>12, <1>13, <1>14,
     <1>15 DEF Next, Worker
(* The first state has the types. *)
LEMMA TypeInit ==
  ASSUME Init
  PROVE  TypeOK
<1>1. \A h \in Hosts : named[h] \subseteq Secrets
  BY SpecsAssumption, TlsForm DEF Init, NamedFor
<1>2. named \in [Hosts -> SUBSET Secrets]
  BY <1>1 DEF Init
<1>3. /\ ssl \in TlsType /\ ht \in [Hosts -> TlsType \cup {None}]
      /\ file \in [Labels -> [Parts -> Content \cup {Empty, None}]]
  BY DEF Init, NoSsl, NoHt, TlsType
<1>4. /\ conf \in [Ings -> ServersType \cup {None}]
      /\ served \in [Ings -> ServedType \cup {None}]
  BY DEF Init
<1>5. /\ ing \in [Ings -> SpecType \cup {None}]
      /\ secret \in [Secrets -> DataType \cup {None}]
  BY SpecsAssumption DEF Init
<1>6. changes \in 0..MaxChanges /\ faults \in 0..MaxFaults
  BY BoundsAssumption DEF Init
<1> QED BY <1>2, <1>3, <1>4, <1>5, <1>6 DEF Init, TypeOK

(* The types hold in every state, for every value of the constants.        *)
THEOREM TypeCorrect == Spec => []TypeOK
<1>1. Init => TypeOK
  BY TypeInit
<1>2. TypeOK /\ [Next]_vars => TypeOK'
  BY TypeStep
<1> QED BY <1>1, <1>2, PTL DEF Spec

----------------------------------------------------------------------------
(* Whose certificate a pair of files holds. *)

(* The Secrets whose certificate nginx may serve of h for i. *)
Allowed(i, h) == named[h] \cup {Own[i]}
Same(l) == [p \in Parts |-> l]

(* What an object names for its hosts is on record. *)
NamedInv ==
  /\ \A i \in Ings : ing[i] # None => \A k \in DOMAIN ing[i].tls :
       ing[i].tls[k].secret \in named[ing[i].tls[k].host]
  /\ pc # "idle" => \A k \in DOMAIN obj.tls : obj.tls[k].secret \in named[obj.tls[k].host]

(* A host's files come from Secrets named for it, an Ingress's from its own. *)
FileInv ==
  /\ \A h \in Hosts : \A p \in Parts : file[h][p] \in Content => file[h][p][1] \in named[h]
  /\ \A i \in Ings : \A p \in Parts : file[i][p] \in Content => file[i][p][1] = Own[i]

(* What is no matching pair, or lacks a part, is on record; the parts      *)
(* written are ssl's.                                                      *)
FlawInv ==
  /\ lacking \subseteq flawed
  /\ \A s \in Secrets : secret[s] = None \/ Whole(secret[s]) \/ s \in flawed
  /\ \A s \in Secrets : secret[s] = None \/ DOMAIN secret[s] = Parts \/ s \in lacking
  /\ pc = "write" => /\ Whole(data) \/ Entry.secret \in flawed
                     /\ DOMAIN data = Parts \/ Entry.secret \in lacking
                     /\ \A p \in DOMAIN data \ todo : ssl[p] = Entry.label

(* A host of i refers to its own pair of files, or to i's.                 *)
Proper(t, i, h) == t \in {Same(h), Same(i)} \/ Allowed(i, h) \cap lacking # {}

RefInv ==
  /\ \A i \in Ings : conf[i] # None =>
       \A h \in Secured(conf[i]) : Proper(conf[i][h], i, h)
  /\ pc # "idle" => \A h \in Hosts : ht[h] # None => Proper(ht[h], cur, h)
  /\ pc = "idle" => ht = NoHt

Inv == NamedInv /\ FileInv /\ FlawInv /\ RefInv /\ OwnPair

(* An entry's Secret is on record for each of its hosts. *)
LEMMA EntryAllowed ==
  ASSUME TypeOK, NamedInv, AtEntry
  PROVE  /\ \/ Entry.label = cur /\ Entry.secret = Own[cur]
            \/ /\ Entry.label \in Hosts /\ Entry.hosts = {Entry.label}
               /\ Entry.secret \in named[Entry.label]
         /\ \A h \in Entry.hosts : /\ Entry.secret \in Allowed(cur, h)
                                   /\ Entry.label \in {h, cur}
<1>1. \/ Entry.label = cur /\ Entry.secret = Own[cur]
      \/ /\ Entry.label \in Hosts /\ Entry.hosts = {Entry.label}
         /\ Entry.secret \in named[Entry.label]
  BY EntryForms DEF NamedInv, AtEntry
<1> QED BY <1>1 DEF Allowed

(* The histories only grow, and what depends on them is kept. *)
LEMMA GrowStep ==
  ASSUME TypeOK, Inv, TypeOK',
         \A h \in Hosts : named[h] \subseteq named'[h], flawed \subseteq flawed', lacking \subseteq lacking', lacking' \subseteq flawed',
         UNCHANGED <<pc, cur, obj, at, data, todo, ssl, ht, file, conf, served>>
  PROVE  /\ FileInv' /\ RefInv' /\ OwnPair'
         /\ pc = "write" => /\ Whole(data) \/ Entry.secret \in flawed'
                            /\ DOMAIN data = Parts \/ Entry.secret \in lacking'
                            /\ \A p \in DOMAIN data \ todo : ssl[p] = Entry.label
<1>1. FileInv'
  BY DEF Inv, FileInv
<1>2. \A i \in Ings : \A h \in Hosts : \A t : Proper(t, i, h) => Proper(t, i, h)'
  BY DEF Proper, Allowed, Same
<1>3. RefInv'
  <2>1. \A i \in Ings : conf[i] # None =>
          \A h \in Secured(conf[i]) : Proper(conf[i][h], i, h)'
    BY <1>2, ConfForm DEF Inv, RefInv, Secured
  <2>2. pc # "idle" => \A h \in Hosts : ht[h] # None => Proper(ht[h], cur, h)'
    BY <1>2 DEF Inv, RefInv, TypeOK
  <2> QED BY <2>1, <2>2 DEF Inv, RefInv, Secured, Proper, Allowed, Same, NoHt
<1>4. OwnPair'
  <2>1. \A i \in Ings : served[i] # None => Secured(served[i]) \subseteq Hosts
    BY ServedForm DEF Secured
  <2> QED BY <2>1 DEF Inv, OwnPair, Secured
<1>5. pc = "write" => /\ Whole(data) \/ Entry.secret \in flawed'
                      /\ DOMAIN data = Parts \/ Entry.secret \in lacking'
                      /\ \A p \in DOMAIN data \ todo : ssl[p] = Entry.label
  BY DEF Inv, FlawInv
<1> QED BY <1>1, <1>3, <1>4, <1>5

(* A step of the users, the timers or the watchers keeps the invariant.    *)
LEMMA OutsideStep ==
  ASSUME TypeOK, Inv, TypeOK',
         \A h \in Hosts : named[h] \subseteq named'[h], flawed \subseteq flawed', lacking \subseteq lacking', lacking' \subseteq flawed',
         \A i \in Ings : ing'[i] \in {ing[i], None} \/
           \A k \in DOMAIN ing'[i].tls : ing'[i].tls[k].secret \in named'[ing'[i].tls[k].host],
         \A s \in Secrets : secret'[s] = secret[s] \/ secret'[s] = None
                            \/ Whole(secret'[s]) \/ s \in flawed',
         \A s \in Secrets : secret'[s] = secret[s] \/ secret'[s] = None
                            \/ DOMAIN secret'[s] = Parts \/ s \in lacking',
         UNCHANGED <<pc, cur, obj, at, data, todo, ssl, ht, file, conf, served>>
  PROVE  Inv'
<1>1. /\ FileInv' /\ RefInv' /\ OwnPair'
      /\ pc = "write" => /\ Whole(data) \/ Entry.secret \in flawed'
                         /\ DOMAIN data = Parts \/ Entry.secret \in lacking'
                         /\ \A p \in DOMAIN data \ todo : ssl[p] = Entry.label
  BY GrowStep
<1>2. NamedInv'
  <2>1. \A i \in Ings : ing[i] # None => \A k \in DOMAIN ing[i].tls :
          ing[i].tls[k].secret \in named'[ing[i].tls[k].host]
    BY TlsForm DEF Inv, NamedInv, TypeOK
  <2>2. pc # "idle" => \A k \in DOMAIN obj.tls : obj.tls[k].secret \in named'[obj.tls[k].host]
    BY TlsForm DEF Inv, NamedInv, TypeOK
  <2> QED BY <2>1, <2>2 DEF NamedInv
<1>3. FlawInv'
  BY <1>1 DEF Inv, FlawInv, Whole, Entry
<1> QED BY <1>1, <1>2, <1>3 DEF Inv

(* An object is taken in hand, or a deleted one's servers go. *)
LEMMA BeginStep ==
  ASSUME TypeOK, Inv, NEW i \in Ings, Begin(i)
  PROVE  Inv'
<1>1. /\ pc = "idle" /\ pc' # "write"
      /\ UNCHANGED <<ing, secret, named, flawed, lacking, file, served, ht>>
  BY DEF Begin, cluster, nginx, worker
<1>2. NamedInv'
  BY <1>1 DEF Begin, worker, Inv, NamedInv
<1>3. FileInv' /\ FlawInv' /\ OwnPair'
  BY <1>1 DEF Inv, FileInv, FlawInv, OwnPair, Secured, Whole
<1>4. RefInv'
  <2>1. \A j \in Ings : conf'[j] # None => conf'[j] = conf[j]
    BY DEF Begin, TypeOK
  <2>2. ht' = NoHt /\ \A h \in Hosts : ht'[h] = None
    BY <1>1 DEF Inv, RefInv, NoHt
  <2> QED BY <1>1, <2>1, <2>2 DEF Inv, RefInv, Secured, Proper, Allowed, Same, NoHt
<1> QED BY <1>2, <1>3, <1>4 DEF Inv

(* The data read is a pair, or its Secret on record. *)
LEMMA ReadStep ==
  ASSUME TypeOK, Inv, ReadSecret
  PROVE  Inv'
<1>1. /\ pc = "read" /\ AtEntry /\ pc' # "idle" /\ Entry' = Entry
      /\ UNCHANGED <<ing, secret, named, flawed, lacking, cur, obj, at, ht, file, conf, served>>
  BY DEF ReadSecret, AtEntry, cluster, nginx, Entry
<1>2. NamedInv' /\ FileInv' /\ OwnPair'
  BY <1>1 DEF Inv, NamedInv, FileInv, OwnPair, Secured
<1>3. RefInv'
  BY <1>1 DEF Inv, RefInv, Secured, Proper, Allowed, Same
<1>4. FlawInv'
  <2>1. ASSUME pc' = "write"
        PROVE  /\ data' = secret[Entry.secret] /\ data' # None /\ todo' = DOMAIN data'
    BY <2>1 DEF ReadSecret
  <2>2. Entry.secret \in Secrets
    BY <1>1, EntryForms
  <2> QED BY <1>1, <2>1, <2>2 DEF Inv, FlawInv, Whole
<1> QED BY <1>2, <1>3, <1>4 DEF Inv

(* A file is truncated. *)
LEMMA TruncateStep ==
  ASSUME TypeOK, Inv, NEW p \in Parts, Truncate(p)
  PROVE  Inv'
<1>1. UNCHANGED <<ing, secret, named, flawed, lacking, pc, cur, obj, at, data, todo, ssl, ht, conf, served>>
  BY DEF Truncate, cluster, nginx
<1>2. \A l \in Labels : \A q \in Parts : file'[l][q] \in Content => file'[l][q] = file[l][q]
  BY NamesAssumption DEF Truncate, TypeOK
<1>3. FileInv'
  BY <1>1, <1>2 DEF Inv, FileInv, Labels
<1>4. NamedInv' /\ FlawInv' /\ OwnPair' /\ RefInv'
  BY <1>1 DEF Inv, NamedInv, FlawInv, OwnPair, RefInv, Secured, Proper, Allowed, Same, Whole, Entry,
    NoHt
<1> QED BY <1>3, <1>4 DEF Inv

(* A file gets the part read from the entry's Secret. *)
LEMMA FillStep ==
  ASSUME TypeOK, Inv, Fill
  PROVE  Inv'
<1>1. /\ pc = "write" /\ AtEntry /\ open \in DOMAIN data /\ data \in DataType
      /\ UNCHANGED <<ing, secret, named, flawed, lacking, pc, cur, obj, at, data, ht, conf, served>>
  BY DEF Fill, AtEntry, TypeOK, cluster, nginx
<1>2. /\ open \in Parts /\ Entry.label \in Labels
  BY <1>1, DataForm, EntryForms
<1>3. FileInv'
  <2>1. \A l \in Labels : \A p \in Parts :
          file'[l][p] = IF l = Entry.label /\ p = open THEN <<Entry.secret, data[open]>>
                        ELSE file[l][p]
    BY <1>2 DEF Fill, TypeOK
  <2>2. \/ Entry.label = cur /\ cur \in Ings /\ Entry.secret = Own[cur]
        \/ Entry.label \in Hosts /\ Entry.secret \in named[Entry.label]
    BY <1>1, EntryAllowed DEF Inv, TypeOK
  <2>3. <<Entry.secret, data[open]>>[1] = Entry.secret
    OBVIOUS
  <2>4. \A h \in Hosts : \A p \in Parts :
          file'[h][p] \in Content => file'[h][p][1] \in named[h]
    BY <2>1, <2>2, <2>3, NamesAssumption DEF Inv, FileInv, Labels
  <2>5. \A i \in Ings : \A p \in Parts : file'[i][p] \in Content => file'[i][p][1] = Own[i]
    BY <2>1, <2>2, <2>3, NamesAssumption DEF Inv, FileInv, Labels
  <2> QED BY <1>1, <2>4, <2>5 DEF FileInv
<1>4. FlawInv'
  <2>1. todo' = todo \ {open} /\ ssl' = [ssl EXCEPT ![open] = Entry.label] /\ Entry' = Entry
    BY <1>1 DEF Fill, Entry
  <2>2. \A p \in DOMAIN data \ todo' : ssl'[p] = Entry.label
    BY <1>1, <1>2, <2>1, DataForm DEF Inv, FlawInv, TypeOK, TlsType
  <2> QED BY <1>1, <2>1, <2>2 DEF Inv, FlawInv, Whole
<1>5. NamedInv' /\ OwnPair' /\ RefInv'
  BY <1>1 DEF Inv, NamedInv, OwnPair, RefInv, Secured, Proper, Allowed, Same, NoHt
<1> QED BY <1>3, <1>4, <1>5 DEF Inv

(* The loop ends early. *)
LEMMA FailsStep ==
  ASSUME TypeOK, Inv, WriteFails
  PROVE  Inv'
<1>1. /\ pc = "write" /\ pc' = "reload"
      /\ UNCHANGED <<ing, secret, named, flawed, lacking, cur, obj, ht, file, conf, served>>
  BY DEF WriteFails, cluster, nginx
<1> QED
  BY <1>1 DEF Inv, NamedInv, FileInv, FlawInv, RefInv, OwnPair, Secured, Proper, Allowed, Same, Whole

(* The hosts of an entry get ssl: the pair just written, or with a Secret  *)
(* on record, whatever ssl holds.                                          *)
LEMMA PairStep ==
  ASSUME TypeOK, Inv, Pair
  PROVE  Inv'
<1>1. /\ pc = "write" /\ pc' = "read" /\ AtEntry /\ todo = {}
      /\ UNCHANGED <<ing, secret, named, flawed, lacking, cur, obj, ssl, file, conf, served>>
      /\ cur \in Ings
  BY DEF Pair, AtEntry, TypeOK, cluster, nginx
<1>2. \A h \in Hosts : ht'[h] = IF h \in Entry.hosts THEN ssl ELSE ht[h]
  BY DEF Pair
<1>3. \A h \in Entry.hosts : Entry.secret \in Allowed(cur, h) /\ Entry.label \in {h, cur}
  BY <1>1, EntryAllowed DEF Inv
<1>4. \A h \in Entry.hosts : Proper(ssl, cur, h)
  <2>1. CASE DOMAIN data = Parts
    <3>1. \A p \in Parts : ssl[p] = Entry.label
      BY <1>1, <2>1 DEF Inv, FlawInv
    <3>2. ssl = Same(Entry.label)
      BY <3>1 DEF TypeOK, TlsType, Same
    <3> QED BY <1>3, <3>2 DEF Proper
  <2>2. CASE Entry.secret \in lacking
    BY <1>3, <2>2 DEF Proper
  <2> QED BY <1>1, <2>1, <2>2 DEF Inv, FlawInv
<1>5. RefInv'
  <2>1. \A h \in Hosts : ht'[h] # None => Proper(ht'[h], cur, h)
    BY <1>1, <1>2, <1>4 DEF Inv, RefInv
  <2> QED BY <1>1, <2>1 DEF Inv, RefInv, Secured, Proper, Allowed, Same
<1>6. NamedInv' /\ FileInv' /\ FlawInv' /\ OwnPair'
  BY <1>1 DEF Inv, NamedInv, FileInv, FlawInv, OwnPair, Secured, Whole
<1> QED BY <1>5, <1>6 DEF Inv

(* The servers of the worker's object may become conf's. *)
LEMMA ReloadStep ==
  ASSUME TypeOK, Inv, Reload
  PROVE  Inv'
<1>1. /\ pc \in {"read", "reload"} /\ pc' = "idle" /\ ht' = NoHt
      /\ cur \in Ings /\ obj \in SpecType
      /\ UNCHANGED <<ing, secret, named, flawed, lacking, file, served>>
  BY DEF Reload, TypeOK, cluster
<1>2. obj.rules \subseteq Hosts
  BY <1>1 DEF SpecType
<1>3. \A h \in Secured(Servers) : Proper(Servers[h], cur, h)
  BY <1>1, <1>2 DEF Inv, RefInv, Servers, Secured
<1>4. \A i \in Ings : conf'[i] = conf[i] \/ (i = cur /\ conf'[i] = Servers)
  <2>1. conf' = conf \/ conf' = [conf EXCEPT ![cur] = Servers]
    BY DEF Reload
  <2> QED BY <2>1 DEF TypeOK
<1>5. \A i \in Ings : conf'[i] # None => \A h \in Secured(conf'[i]) : Proper(conf'[i][h], i, h)
  BY <1>3, <1>4 DEF Inv, RefInv
<1>6. RefInv'
  BY <1>1, <1>5 DEF RefInv, Secured, Proper, Allowed, Same, NoHt
<1>7. NamedInv' /\ FileInv' /\ FlawInv' /\ OwnPair'
  BY <1>1 DEF Inv, NamedInv, FileInv, FlawInv, OwnPair, Secured, Whole
<1> QED BY <1>6, <1>7 DEF Inv

(* nginx loads the files the servers refer to. *)
LEMMA LoadStep ==
  ASSUME TypeOK, Inv, NginxLoad
  PROVE  Inv'
<1>1. UNCHANGED <<ing, secret, named, flawed, lacking, pc, cur, obj, at, data, todo, ssl, ht, file, conf>>
  BY DEF NginxLoad, cluster, worker
<1>2. CASE NginxAccepts(conf)
  <2>1. served' = Loaded
    BY <1>2 DEF NginxLoad, Loaded
  <2>2. ASSUME NEW i \in Ings, served'[i] # None, NEW h \in Secured(served'[i])
        PROVE  \/ served'[i][h][1] \in Allowed(i, h)
               \/ Allowed(i, h) \cap lacking # {}
    <3>1. /\ conf[i] # None /\ h \in Secured(conf[i]) /\ h \in Hosts
          /\ served'[i][h] = Certificate(conf[i][h])
      BY <2>1, <2>2, ConfForm DEF Loaded, Secured
    <3>2. Certificate(conf[i][h]) \in Content
      BY <1>2, <3>1 DEF NginxAccepts, Loadable, Certificate, Parts
    <3>3. Proper(conf[i][h], i, h)
      BY <3>1 DEF Inv, RefInv
    <3>4. CASE conf[i][h] = Same(h)
      BY <3>1, <3>2, <3>4 DEF Inv, FileInv, Certificate, Same, Parts, Allowed
    <3>5. CASE conf[i][h] = Same(i)
      BY <3>1, <3>2, <3>5 DEF Inv, FileInv, Certificate, Same, Parts, Allowed
    <3> QED BY <3>3, <3>4, <3>5 DEF Proper
  <2>3. OwnPair'
    BY <1>1, <2>2 DEF OwnPair, Allowed, Secured
  <2>4. NamedInv' /\ FileInv' /\ FlawInv' /\ RefInv'
    BY <1>1 DEF Inv, NamedInv, FileInv, FlawInv, RefInv, Secured, Proper, Allowed, Same, Whole, Entry,
      NoHt
  <2> QED BY <2>3, <2>4 DEF Inv
<1>3. CASE ~NginxAccepts(conf)
  <2>1. served' = served
    BY <1>3 DEF NginxLoad
  <2> QED BY <1>1, <2>1 DEF Inv, NamedInv, FileInv, FlawInv, RefInv, OwnPair, Secured, Proper,
      Allowed, Same, Whole, Entry, NoHt
<1> QED BY <1>2, <1>3

(* Every step keeps the invariant. *)
LEMMA InvStep ==
  ASSUME TypeOK, Inv, [Next]_vars
  PROVE  Inv'
<1> USE TypeStep
<1>0. lacking \subseteq flawed
  BY DEF Inv, FlawInv
<1>1. ASSUME NEW i \in Ings, UserDelete(i) PROVE Inv'
  <2>1. \A j \in Ings : ing'[j] \in {ing[j], None}
    BY <1>1 DEF UserDelete, TypeOK
  <2> QED BY <1>1, <2>1, <1>0, OutsideStep DEF UserDelete, worker, nginx
<1>2. ASSUME NEW i \in Ings, NEW o \in Specs[i], UserApply(i, o) PROVE Inv'
  <2>1. o \in SpecType /\ o # None
    BY SpecsAssumption, NamesAssumption
  <2>2. \A h \in Hosts : named'[h] = named[h] \cup NamedFor(o, h)
    BY <1>2 DEF UserApply
  <2>3. \A k \in DOMAIN o.tls : o.tls[k].secret \in named'[o.tls[k].host]
    BY <2>1, <2>2, TlsForm DEF NamedFor
  <2>4. \A j \in Ings : ing'[j] = ing[j] \/ ing'[j] = o
    BY <1>2 DEF UserApply, TypeOK
  <2> QED BY <1>2, <2>2, <2>3, <2>4, <1>0, OutsideStep DEF UserApply, worker, nginx
<1>3. ASSUME NEW s \in Secrets, NEW d \in Issued[s], SecretSet(s, d) PROVE Inv'
  <2>1. \A r \in Secrets : secret'[r] = secret[r] \/ secret'[r] = None
                           \/ Whole(secret'[r]) \/ r \in flawed'
    BY <1>3 DEF SecretSet, TypeOK
  <2>2. flawed \subseteq flawed' /\ lacking \subseteq lacking'
    BY <1>3 DEF SecretSet
  <2>3. \A r \in Secrets : secret'[r] = secret[r] \/ secret'[r] = None
                           \/ DOMAIN secret'[r] = Parts \/ r \in lacking'
    BY <1>3 DEF SecretSet, TypeOK
  <2>4. lacking' \subseteq flawed'
    BY <1>3 DEF SecretSet, Inv, FlawInv, Whole
  <2> QED BY <1>3, <2>1, <2>2, <2>3, <2>4, OutsideStep DEF SecretSet, worker, nginx
<1>4. CASE Resync
  BY <1>4, <1>0, OutsideStep DEF Resync, cluster, worker, nginx
<1>5. ASSUME NEW i \in Ings, Requeue(i) PROVE Inv'
  BY <1>5, <1>0, OutsideStep DEF Requeue, cluster, worker, nginx
<1>6. ASSUME NEW i \in Ings, Begin(i) PROVE Inv'
  BY <1>6, BeginStep
<1>7. CASE ReadSecret
  BY <1>7, ReadStep
<1>8. ASSUME NEW p \in Parts, Truncate(p) PROVE Inv'
  BY <1>8, TruncateStep
<1>9. CASE Fill
  BY <1>9, FillStep
<1>10. CASE WriteFails
  BY <1>10, FailsStep
<1>11. CASE Pair
  BY <1>11, PairStep
<1>12. CASE Reload
  BY <1>12, ReloadStep
<1>13. CASE Watcher
  BY <1>13, <1>0, OutsideStep DEF Watcher, cluster, worker
<1>14. CASE NginxLoad
  BY <1>14, LoadStep
<1>15. CASE UNCHANGED vars
  BY <1>15, <1>0, OutsideStep DEF vars, cluster, worker, nginx
<1> QED
  BY <1>1, <1>2, <1>3, <1>4, <1>5, <1>6, <1>7, <1>8, <1>9, <1>10, <1>11, <1>12, <1>13, <1>14,
     <1>15 DEF Next, Worker

(* The invariant holds from the first state on. *)
LEMMA InvAlways == Spec => []Inv
<1>1. ASSUME Init PROVE Inv
  <2>1. NamedInv
    <3>1. ASSUME NEW i \in Ings, ing[i] # None, NEW k \in DOMAIN ing[i].tls
          PROVE  ing[i].tls[k].secret \in named[ing[i].tls[k].host]
      <4>1. Listed[i] \in SpecType /\ ing[i] = Listed[i]
        BY <1>1, <3>1, SpecsAssumption DEF Init
      <4>2. ing[i].tls[k].host \in Hosts
        BY <4>1, TlsForm
      <4>3. named[ing[i].tls[k].host] = UNION {NamedFor(Listed[j], ing[i].tls[k].host) : j \in Ings}
        BY <1>1, <4>2 DEF Init
      <4>4. ing[i].tls[k].secret \in NamedFor(Listed[i], ing[i].tls[k].host)
        BY <3>1, <4>1 DEF NamedFor
      <4> QED BY <4>3, <4>4
    <3> QED BY <1>1, <3>1 DEF Init, NamedInv
  <2>2. FileInv /\ OwnPair /\ RefInv
    BY <1>1, NamesAssumption DEF Init, FileInv, OwnPair, RefInv, Labels, Content
  <2>3. FlawInv
    BY <1>1, SpecsAssumption DEF Init, FlawInv, Whole
  <2> QED BY <2>1, <2>2, <2>3 DEF Inv
<1>2. TypeOK /\ Inv /\ [Next]_vars => Inv'
  BY InvStep
<1> QED BY <1>1, <1>2, TypeCorrect, PTL DEF Spec

(* nginx never serves a host with a certificate nobody named for it, as    *)
(* long as no Secret named for it lacked a part: other Ingresses sharing   *)
(* its pair of files, Secrets whose certificate and key do not match,      *)
(* Secrets renewed between two reads and broken loops included.            *)
THEOREM OwnPairAlways == Spec => []OwnPair
<1>1. Inv => OwnPair
  BY DEF Inv
<1> QED BY <1>1, InvAlways, PTL
----------------------------------------------------------------------------
(* Without flawed Secrets and failing writes, every pair of files in use   *)
(* is complete, or the one being written.                                  *)
Good == flawed = {} /\ faults = 0

Complete(l) == /\ \A p \in Parts : file[l][p] \in Content
               /\ file[l]["crt"] = file[l]["key"]
Ready(t) == Complete(t["crt"]) \/ (pc = "write" /\ t["crt"] = Entry.label)

PairsInv ==
  Good =>
    /\ \A i \in Ings : conf[i] # None => \A h \in Secured(conf[i]) : Ready(conf[i][h])
    /\ pc # "idle" => \A h \in Hosts : ht[h] # None => Ready(ht[h])
    /\ pc = "write" => \A p \in DOMAIN data \ todo :
         file[Entry.label][p] = <<Entry.secret, data[p]>>

(* A step that writes no certificate file, keeps the worker at its entry   *)
(* and adds no servers.                                                    *)
LEMMA PairsFrame ==
  ASSUME PairsInv, Good' => Good,
         \A i \in Ings : conf'[i] \in {conf[i], None},
         UNCHANGED <<pc, cur, obj, at, data, todo, ht, file>>
  PROVE  PairsInv'
BY DEF PairsInv, Ready, Complete, Secured, Entry

(* Only the pair of the worker's entry is written. *)
LEMMA PairsWrite ==
  ASSUME TypeOK, Inv, PairsInv, pc = "write",
         UNCHANGED <<pc, cur, obj, at, data, ht, conf>>, Good' => Good,
         \A l \in Labels : l # Entry.label => file'[l] = file[l],
         \A p \in DOMAIN data \ todo' : file'[Entry.label][p] = <<Entry.secret, data[p]>>
  PROVE  PairsInv'
<1> SUFFICES ASSUME Good' PROVE PairsInv'
  BY DEF PairsInv
<1>1. Entry' = Entry /\ cur \in Ings /\ Good
  BY DEF Entry, TypeOK
<1>2. ASSUME NEW t \in TlsType, NEW l \in Labels, t = Same(l), Ready(t)
      PROVE  Ready(t)'
  BY <1>1, <1>2 DEF Ready, Complete, Same, Parts
<1>3. ASSUME NEW i \in Ings, conf[i] # None, NEW h \in Secured(conf[i])
      PROVE  Ready(conf[i][h])'
  <2>1. h \in Hosts /\ conf[i][h] \in TlsType
    BY <1>3, ConfForm DEF Secured
  <2>2. conf[i][h] \in {Same(h), Same(i)}
    BY <1>1, <1>3 DEF Inv, RefInv, FlawInv, Proper, Good
  <2> QED BY <1>1, <1>2, <1>3, <2>1, <2>2 DEF PairsInv, Labels
<1>4. ASSUME NEW h \in Hosts, ht[h] # None
      PROVE  Ready(ht[h])'
  <2>1. ht[h] \in TlsType
    BY <1>4 DEF TypeOK
  <2>2. ht[h] \in {Same(h), Same(cur)}
    BY <1>1, <1>4 DEF Inv, RefInv, FlawInv, Proper, Good
  <2> QED BY <1>1, <1>2, <1>4, <2>1, <2>2 DEF PairsInv, Labels
<1> QED BY <1>1, <1>3, <1>4 DEF PairsInv, Secured

(* The pair just written is complete. *)
LEMMA PairsPair ==
  ASSUME TypeOK, Inv, PairsInv, Pair
  PROVE  PairsInv'
<1> SUFFICES ASSUME Good' PROVE PairsInv'
  BY DEF PairsInv
<1>1. /\ pc = "write" /\ pc' = "read" /\ AtEntry /\ todo = {} /\ Good
      /\ UNCHANGED <<cur, ssl, file, conf>>
      /\ \A h \in Hosts : ht'[h] = IF h \in Entry.hosts THEN ssl ELSE ht[h]
  BY DEF Pair, AtEntry, Good, TypeOK, cluster, counters
<1>2. Whole(data)
  BY <1>1 DEF Inv, FlawInv, Good
<1>3. Complete(Entry.label)
  <2>1. \A p \in Parts : file[Entry.label][p] = <<Entry.secret, data[p]>>
    BY <1>1, <1>2 DEF PairsInv, Whole
  <2>2. Entry.secret \in Secrets /\ \A p \in Parts : data[p] \in Gens
    BY <1>1, <1>2, EntryForms, DataForm DEF TypeOK, Whole
  <2>3. ASSUME NEW p \in Parts PROVE file[Entry.label][p] \in Content
    <3>1. <<Entry.secret, data[p]>> \in Content
      BY <2>2 DEF Content
    <3> QED BY <2>1, <3>1
  <2>4. data["crt"] = data["key"] /\ "crt" \in Parts /\ "key" \in Parts
    BY <1>2 DEF Whole, Parts
  <2> QED BY <2>1, <2>3, <2>4 DEF Complete
<1>4. ssl["crt"] = Entry.label
  BY <1>1, <1>2 DEF Inv, FlawInv, Whole, Parts
<1>5. \A t : Ready(t) => Ready(t)'
  BY <1>1, <1>3 DEF Ready, Complete
<1>6. Ready(ssl)'
  BY <1>1, <1>3, <1>4 DEF Ready, Complete
<1> QED BY <1>1, <1>5, <1>6 DEF PairsInv, Secured

(* Every step keeps the pairs in use. *)
LEMMA PairsStep ==
  ASSUME TypeOK, Inv, PairsInv, [Next]_vars
  PROVE  PairsInv'
<1>1. ASSUME NEW i \in Ings, UserDelete(i) PROVE PairsInv'
  BY <1>1, PairsFrame DEF UserDelete, worker, Good
<1>2. ASSUME NEW i \in Ings, NEW o \in Specs[i], UserApply(i, o) PROVE PairsInv'
  BY <1>2, PairsFrame DEF UserApply, worker, Good
<1>3. ASSUME NEW s \in Secrets, NEW d \in Issued[s], SecretSet(s, d) PROVE PairsInv'
  <2>1. Good' => Good
    BY <1>3 DEF SecretSet, Good
  <2> QED BY <1>3, <2>1, PairsFrame DEF SecretSet, worker
<1>4. CASE Resync
  BY <1>4, PairsFrame DEF Resync, cluster, worker, counters, Good
<1>5. ASSUME NEW i \in Ings, Requeue(i) PROVE PairsInv'
  BY <1>5, PairsFrame DEF Requeue, cluster, worker, counters, Good
<1>6. ASSUME NEW i \in Ings, Begin(i) PROVE PairsInv'
  <2>1. /\ pc = "idle" /\ pc' # "write" /\ UNCHANGED <<file, ht>> /\ (Good' => Good)
    BY <1>6 DEF Begin, worker, cluster, counters, Good
  <2>2. \A j \in Ings : conf'[j] \in {conf[j], None}
    BY <1>6 DEF Begin, TypeOK
  <2>3. \A h \in Hosts : ht'[h] = None
    BY <2>1 DEF Inv, RefInv, NoHt
  <2> QED BY <2>1, <2>2, <2>3 DEF PairsInv, Ready, Complete, Secured
<1>7. CASE ReadSecret
  <2>1. /\ pc = "read" /\ pc' # "idle" /\ UNCHANGED <<file, ht, conf>> /\ (Good' => Good)
        /\ pc' = "write" => todo' = DOMAIN data'
    BY <1>7 DEF ReadSecret, cluster, counters, Good
  <2> QED BY <2>1 DEF PairsInv, Ready, Complete, Secured
<1>8. ASSUME NEW p \in Parts, Truncate(p) PROVE PairsInv'
  <2>1. /\ pc = "write" /\ p \in todo /\ (Good' => Good) /\ AtEntry
        /\ UNCHANGED <<pc, cur, obj, at, data, todo, ht, conf>>
    BY <1>8 DEF Truncate, cluster, counters, Good, AtEntry, TypeOK
  <2>2. Entry.label \in Labels
    BY <2>1, EntryForms
  <2>3. /\ \A l \in Labels : l # Entry.label => file'[l] = file[l]
        /\ \A q \in Parts \ {p} : file'[Entry.label][q] = file[Entry.label][q]
    BY <1>8, <2>2 DEF Truncate, TypeOK
  <2>4. CASE ~Good'
    BY <2>4 DEF PairsInv
  <2>5. CASE Good'
    <3>1. \A q \in DOMAIN data \ todo : file'[Entry.label][q] = <<Entry.secret, data[q]>>
      BY <2>1, <2>3, <2>5, DataForm DEF PairsInv, TypeOK
    <3> QED BY <2>1, <2>3, <3>1, PairsWrite
  <2> QED BY <2>4, <2>5
<1>9. CASE Fill
  <2>1. /\ pc = "write" /\ open \in DOMAIN data /\ data \in DataType /\ AtEntry
        /\ (Good' => Good) /\ todo' = todo \ {open}
        /\ UNCHANGED <<pc, cur, obj, at, data, ht, conf>>
    BY <1>9 DEF Fill, cluster, counters, Good, AtEntry, TypeOK
  <2>2. Entry.label \in Labels /\ open \in Parts
    BY <2>1, EntryForms, DataForm
  <2>3. /\ \A l \in Labels : l # Entry.label => file'[l] = file[l]
        /\ \A q \in Parts \ {open} : file'[Entry.label][q] = file[Entry.label][q]
        /\ file'[Entry.label][open] = <<Entry.secret, data[open]>>
    BY <1>9, <2>2 DEF Fill, TypeOK
  <2>4. CASE ~Good'
    BY <2>4 DEF PairsInv
  <2>5. CASE Good'
    <3>1. \A q \in DOMAIN data \ todo' : file'[Entry.label][q] = <<Entry.secret, data[q]>>
      BY <2>1, <2>3, <2>5, DataForm DEF PairsInv
    <3> QED BY <2>1, <2>3, <3>1, PairsWrite
  <2> QED BY <2>4, <2>5
<1>10. CASE WriteFails
  <2>1. ~Good'
    BY <1>10, BoundsAssumption DEF WriteFails, Good, TypeOK
  <2> QED BY <2>1 DEF PairsInv
<1>11. CASE Pair
  BY <1>11, PairsPair
<1>12. CASE Reload
  <2>1. /\ pc \in {"read", "reload"} /\ pc' = "idle" /\ file' = file /\ (Good' => Good)
        /\ cur \in Ings /\ obj \in SpecType
    BY <1>12 DEF Reload, cluster, counters, Good, TypeOK
  <2>2. obj.rules \subseteq Hosts
    BY <2>1 DEF SpecType
  <2>3. \A i \in Ings : conf'[i] = conf[i] \/ (i = cur /\ conf'[i] = Servers)
    <3>1. conf' = conf \/ conf' = [conf EXCEPT ![cur] = Servers]
      BY <1>12 DEF Reload
    <3> QED BY <3>1 DEF TypeOK
  <2>4. Good => \A h \in Secured(Servers) : Ready(Servers[h])
    BY <2>1, <2>2 DEF PairsInv, Servers, Secured
  <2>5. \A t : Ready(t) => Ready(t)'
    BY <2>1 DEF Ready, Complete
  <2> QED BY <2>1, <2>3, <2>4, <2>5 DEF PairsInv, Secured
<1>13. CASE Watcher
  BY <1>13, PairsFrame DEF Watcher, cluster, worker, counters, Good
<1>14. CASE NginxLoad
  BY <1>14, PairsFrame DEF NginxLoad, cluster, worker, counters, Good
<1>15. CASE UNCHANGED vars
  BY <1>15, PairsFrame DEF vars, cluster, worker, counters, Good
<1> QED
  BY <1>1, <1>2, <1>3, <1>4, <1>5, <1>6, <1>7, <1>8, <1>9, <1>10, <1>11, <1>12, <1>13, <1>14,
     <1>15 DEF Next, Worker

(* While every Secret is a matching pair or missing and every write        *)
(* succeeds, nginx accepts the directory between any two writes of a pair. *)
THEOREM GoodSecretsAlways == Spec => []GoodSecretsAccepted
<1>1. Init => PairsInv
  BY DEF Init, PairsInv
<1>2. TypeOK /\ Inv /\ PairsInv /\ [Next]_vars => PairsInv'
  BY PairsStep
<1>3. ASSUME TypeOK, Inv, PairsInv PROVE GoodSecretsAccepted
  <2> SUFFICES ASSUME Good, pc # "write", NEW i \in Ings, conf[i] # None,
                      NEW h \in Secured(conf[i])
               PROVE  Loadable(conf[i][h])
    BY DEF GoodSecretsAccepted, NginxAccepts, Good
  <2>1. h \in Hosts
    BY <1>3, ConfForm DEF Secured
  <2>2. Complete(conf[i][h]["crt"])
    BY <1>3 DEF PairsInv, Ready
  <2>3. conf[i][h] \in {Same(h), Same(i)}
    BY <1>3 DEF Inv, RefInv, FlawInv, Proper, Good
  <2> QED BY <1>3, <2>1, <2>2, <2>3, NamesAssumption DEF Loadable, Complete, Same, Parts, Labels
<1> QED BY <1>1, <1>2, <1>3, TypeCorrect, InvAlways, PTL DEF Spec
----------------------------------------------------------------------------
(* No change of the files is missed.                                       *)

(* What nginx reads has not changed, nor who is to be told. *)
LEMMA ServedFrame ==
  ASSUME FilesServed, UNCHANGED <<file, conf, served, event, hup>>
  PROVE  FilesServed'
BY DEF FilesServed, NginxAccepts, Loaded, Loadable, Certificate, Secured

(* Every step that writes raises an event; the watcher turns it into a     *)
(* signal unless the files are refused, and then the next write counts.    *)
LEMMA ServedStep ==
  ASSUME TypeOK, FilesServed, [Next]_vars
  PROVE  FilesServed'
<1> USE DEF cluster, workqueue, worker, nginx, counters
<1> DEFINE Reads == UNCHANGED <<file, conf, served, event, hup>>
<1>1. ASSUME NEW i \in Ings, Begin(i) PROVE FilesServed'
  <2>1. CASE conf[i] = None
    <3>1. conf' = conf
      BY <1>1, <2>1 DEF Begin, TypeOK
    <3> QED BY <1>1, <2>1, <3>1, ServedFrame DEF Begin, TypeOK
  <2>2. CASE conf[i] # None /\ ing[i] = None
    BY <1>1, <2>2 DEF Begin, FilesServed
  <2>3. CASE ing[i] # None
    BY <1>1, <2>3, ServedFrame DEF Begin
  <2> QED BY <2>1, <2>2, <2>3
<1>2. ASSUME Worker, \A i \in Ings : ~Begin(i), ~ReadSecret, ~Pair PROVE event'
  BY <1>2 DEF Worker, Truncate, Fill, Reload
<1>3. ASSUME ReadSecret \/ Pair PROVE Reads
  BY <1>3 DEF ReadSecret, Pair
<1>4. CASE Watcher
  <2>1. UNCHANGED <<file, conf, served>> /\ hup' = (hup \/ NginxAccepts(conf))
    BY <1>4 DEF Watcher
  <2>2. NginxAccepts(conf)' = NginxAccepts(conf)
    BY <2>1 DEF NginxAccepts, Loadable, Secured
  <2> QED BY <2>1, <2>2 DEF FilesServed
<1>5. CASE NginxLoad
  <2>1. UNCHANGED <<file, conf>>
    BY <1>5 DEF NginxLoad
  <2>2. NginxAccepts(conf)' = NginxAccepts(conf) /\ Loaded' = Loaded
    BY <2>1 DEF NginxAccepts, Loadable, Secured, Loaded, Certificate
  <2> QED BY <1>5, <2>2 DEF NginxLoad, FilesServed
<1>6. ASSUME NEW i \in Ings, UserDelete(i) \/ Requeue(i) PROVE Reads
  BY <1>6 DEF UserDelete, Requeue
<1>7. ASSUME NEW i \in Ings, NEW o \in Specs[i], UserApply(i, o) PROVE Reads
  BY <1>7 DEF UserApply
<1>8. ASSUME NEW s \in Secrets, NEW d \in Issued[s], SecretSet(s, d) PROVE Reads
  BY <1>8 DEF SecretSet
<1>9. ASSUME Resync \/ WriteFails \/ UNCHANGED vars PROVE Reads
  BY <1>9 DEF Resync, WriteFails, vars
<1>10. ASSUME event' PROVE FilesServed'
  BY <1>10 DEF FilesServed
<1> QED
  BY ServedFrame, <1>1, <1>2, <1>3, <1>4, <1>5, <1>6, <1>7, <1>8, <1>9, <1>10 DEF Next

(* nginx serves the certificates in the files, whatever was renewed, half  *)
(* written, refused or reloaded on the way, once every event and signal is *)
(* handled.                                                                *)
THEOREM FilesServedAlways == Spec => []FilesServed
<1>1. Init => FilesServed
  BY DEF Init, FilesServed, Loaded
<1>2. TypeOK /\ FilesServed /\ [Next]_vars => FilesServed'
  BY ServedStep
<1> QED BY <1>1, <1>2, TypeCorrect, PTL DEF Spec
==============================================================================
