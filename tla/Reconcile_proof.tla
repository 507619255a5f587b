--------------------------- MODULE Reconcile_proof ---------------------------
(***************************************************************************)
(* Proofs about Reconcile for every set of Ingresses, Services and         *)
(* specifications: types and what the worker holds; and, when no two       *)
(* Ingresses share a file, that an Ingress the controller is done with is  *)
(* applied and that the loop implements Settlement.                        *)
(***************************************************************************)
EXTENDS Reconcile, TLAPS

USE DEF Goto, Return, Done, Fail, Fault, WriteTls

(* The fields of a specification have their types. *)
LEMMA SpecsAreTyped ==
  ASSUME NEW s \in Specs
  PROVE  /\ s.ours \in BOOLEAN /\ s.sound \in BOOLEAN /\ s.rules \subseteq Svcs
         /\ s.hosts \in Hosts /\ s.default \in Svcs \cup {None}
BY SpecsAssumption DEF SpecType

(* What is rendered for the worker's object is a configuration. *)
LEMMA RenderedType ==
  ASSUME TypeOK, pc = "rules"
  PROVE  Rendered \in ConfType
<1>1. ic \in Specs
  BY DEF TypeOK
<1>2. ic.rules \in SUBSET Svcs /\ ic.hosts \in Hosts
  BY <1>1, SpecsAreTyped
<1> QED BY <1>2 DEF Rendered, ConfType

(* Every step keeps the types. *)
LEMMA TypeStep ==
  ASSUME TypeOK, [Next]_vars
  PROVE  TypeOK'
<1> USE BoundsAssumption
<1>1. ASSUME NEW i \in Ings, NEW s \in Specs, UserApply(i, s) PROVE TypeOK'
  BY <1>1 DEF TypeOK, UserApply, nginxDir, worker
<1>2. ASSUME NEW i \in Ings, UserDelete(i) PROVE TypeOK'
  BY <1>2 DEF TypeOK, UserDelete, nginxDir, worker
<1>3. ASSUME NEW s \in Svcs, SvcToggle(s) PROVE TypeOK'
  BY <1>3 DEF TypeOK, SvcToggle, nginxDir, workqueue, worker
<1>4. ASSUME NEW i \in Ings, IssueCert(i) PROVE TypeOK'
  BY <1>4 DEF TypeOK, IssueCert, nginxDir, workqueue, worker, counters
<1>5. ASSUME NEW i \in Ings, Requeue(i) PROVE TypeOK'
  BY <1>5 DEF TypeOK, Requeue, cluster, nginxDir, worker, counters
<1>6. ASSUME NEW i \in Ings, Begin(i) PROVE TypeOK'
  <2>1. /\ conf' \in [Files -> ConfType \cup {None}]
        /\ ssl' = ssl /\ main' \in Svcs \cup {Image, Blank}
    BY <1>6 DEF TypeOK, Begin, ClearConf, nginxDir, Files
  <2>2. /\ queue' \subseteq Ings /\ later' \subseteq Ings
        /\ pc' \in {"idle", "services"}
        /\ IF pc' = "idle" THEN key' = None /\ ic' = None
           ELSE key' \in Ings /\ ic' \in Specs
    BY <1>6 DEF TypeOK, Begin, worker
  <2> QED BY <1>6, <2>1, <2>2 DEF TypeOK, Begin, cluster, counters
<1>7. CASE CheckServices
  BY <1>7 DEF TypeOK, CheckServices, cluster, nginxDir, counters
<1>8. CASE Resources
  <2>1. ic \in Specs /\ key \in Ings
    BY <1>8 DEF TypeOK, Resources
  <2>2. cert' \in [Ings -> Hosts \cup {None}] /\ faults' \in 0..MaxFaults
    BY <1>8, <2>1, SpecsAreTyped DEF TypeOK, Resources
  <2>3. /\ pc' \in {"idle", "annotations"} /\ later' \subseteq Ings /\ queue' = queue
        /\ IF pc' = "idle" THEN key' = None /\ ic' = None ELSE key' = key /\ ic' = ic
    BY <1>8, <2>1 DEF TypeOK, Resources
  <2> QED BY <1>8, <2>1, <2>2, <2>3 DEF TypeOK, Resources, nginxDir
<1>9. CASE Extract
  BY <1>9 DEF TypeOK, Extract, cluster, nginxDir, counters
<1>10. CASE Rules
  <2>1. ic \in Specs /\ key \in Ings /\ Rendered \in ConfType
    BY <1>10, RenderedType DEF TypeOK, Rules
  <2>2. /\ conf' \in [Files -> ConfType \cup {None}]
        /\ ssl' \in [Files -> Hosts \cup {None}]
    BY <1>10, <2>1 DEF TypeOK, Rules, nginxDir, Files
  <2>3. /\ pc' \in {"idle", "default"} /\ later' \subseteq Ings /\ queue' = queue
        /\ main' = main
        /\ IF pc' = "idle" THEN key' = None /\ ic' = None ELSE key' = key /\ ic' = ic
    BY <1>10, <2>1 DEF TypeOK, Rules, nginxDir
  <2> QED BY <1>10, <2>1, <2>2, <2>3 DEF TypeOK, Rules, cluster, counters
<1>11. CASE Default
  BY <1>11 DEF TypeOK, Default, cluster, counters
<1>12. CASE Restart
  BY <1>12 DEF TypeOK, Restart, cluster
<1>13. CASE Resync
  BY <1>13 DEF TypeOK, Resync, cluster, nginxDir, worker
<1>14. CASE UNCHANGED vars
  <2>1. UNCHANGED <<cluster, nginxDir, workqueue, worker, counters>>
    BY <1>14 DEF vars
  <2> QED BY <2>1 DEF TypeOK, cluster, nginxDir, workqueue, worker, counters
<1> QED
  BY <1>1, <1>2, <1>3, <1>4, <1>5, <1>6, <1>7, <1>8, <1>9, <1>10, <1>11, <1>12, <1>13, <1>14
  DEF Next, Users, Reconciling

(* The types hold in every state, for every value of the constants.        *)
THEOREM TypeCorrect == Spec => []TypeOK
<1>1. Init => TypeOK
  BY BoundsAssumption, ListedAssumption DEF Init, TypeOK
<1>2. TypeOK /\ [Next]_vars => TypeOK'
  BY TypeStep
<1> QED BY <1>1, <1>2, PTL DEF Spec

----------------------------------------------------------------------------
(* An Ingress with a file of its own is not forgotten. *)
NoneForgotten == DistinctFiles => SettledMeansApplied
Inv == NoneForgotten /\ WorkerInv

(* A file of an Ingress' own is one. *)
LEMMA OwnFile ==
  ASSUME NEW i \in Ings
  PROVE  /\ FileOf[i] \in Files
         /\ DistinctFiles => \A j \in Ings \ {i} : FileOf[j] \in Files \ {FileOf[i]}
BY DEF Files, DistinctFiles

(* A change of an object enqueues its key. *)
LEMMA ObjectStep ==
  ASSUME TypeOK, Inv, NEW i \in Ings, queue' = queue \cup {i},
         \A j \in Ings \ {i} : ing'[j] = ing[j],
         UNCHANGED <<later, conf, pc, key, ic>>
  PROVE  Inv'
<1>1. NoneForgotten'
  BY DEF Inv, NoneForgotten, SettledMeansApplied, Settled, Busy, Applied
<1>2. ASSUME pc # "idle", ing'[key] # ic PROVE key \in queue'
  <2>1. key \in Ings
    BY <1>2 DEF TypeOK
  <2>2. CASE key = i
    BY <2>2
  <2>3. CASE key # i
    BY <1>2, <2>1, <2>3 DEF Inv, WorkerInv
  <2> QED BY <2>2, <2>3
<1>3. WorkerInv'
  BY <1>2 DEF Inv, WorkerInv, Applied
<1> QED BY <1>1, <1>3 DEF Inv

(* Neither the objects, the files nor the worker change, and no key stops  *)
(* being queued or waiting.                                                *)
LEMMA FrameStep ==
  ASSUME Inv, queue \cup later \subseteq queue' \cup later', queue \subseteq queue',
         UNCHANGED <<ing, conf, pc, key, ic>>
  PROVE  Inv'
<1>1. NoneForgotten'
  BY DEF Inv, NoneForgotten, SettledMeansApplied, Settled, Busy, Applied
<1>2. WorkerInv'
  BY DEF Inv, WorkerInv, Applied
<1> QED BY <1>1, <1>2 DEF Inv

(* The worker's key fails and waits: it is not settled. *)
LEMMA FailStep ==
  ASSUME TypeOK, Inv, pc # "idle", Fail, UNCHANGED <<ing, conf>>
  PROVE  Inv'
<1>1. NoneForgotten'
  BY DEF Inv, NoneForgotten, SettledMeansApplied, Settled, Busy, Applied
<1>2. WorkerInv'
  BY DEF WorkerInv
<1> QED BY <1>1, <1>2 DEF Inv

(* The worker passes a check and keeps its key. *)
LEMMA GotoStep ==
  ASSUME Inv, pc # "idle", NEW l \in {"resources", "annotations", "rules"}, Goto(l),
         l = "rules" => ic.sound, UNCHANGED <<ing, conf>>
  PROVE  Inv'
<1>1. NoneForgotten'
  BY DEF Inv, NoneForgotten, SettledMeansApplied, Settled, Busy, Applied
<1>2. WorkerInv'
  BY DEF Inv, WorkerInv, Applied
<1> QED BY <1>1, <1>2 DEF Inv

(* The worker takes a key: of a deleted object, whose file is then gone;   *)
(* of another class's object, which waits; or of an object to reconcile.   *)
LEMMA BeginStep ==
  ASSUME TypeOK, Inv, NEW i \in Ings, Begin(i)
  PROVE  Inv'
<1>1. pc = "idle" /\ ing' = ing /\ queue' = queue \ {i}
  BY DEF Begin, cluster
<1>2. CASE ing[i] = None
  <2>1. conf'[FileOf[i]] = None
    BY <1>2, OwnFile DEF Begin, ClearConf, TypeOK
  <2>2. DistinctFiles => \A j \in Ings \ {i} : conf'[FileOf[j]] = conf[FileOf[j]]
    BY <1>2, OwnFile DEF Begin, ClearConf, TypeOK
  <2>3. later' = later /\ pc' = "idle"
    BY <1>1, <1>2 DEF Begin, worker
  <2>4. NoneForgotten'
    BY <1>1, <1>2, <2>1, <2>2, <2>3 DEF Inv, NoneForgotten, SettledMeansApplied, Settled, Busy, Applied
  <2> QED BY <2>3, <2>4 DEF Inv, WorkerInv
<1>3. CASE ing[i] # None
  <2>1. conf' = conf
    BY <1>3 DEF Begin, nginxDir
  <2>2. \/ /\ ing[i].ours /\ pc' = "services" /\ later' = later
           /\ key' = i /\ ic' = ing[i]
        \/ pc' = "idle" /\ later' = later \cup {i}
    BY <1>1, <1>3 DEF Begin, worker
  <2>3. NoneForgotten'
    BY <1>1, <2>1, <2>2 DEF Inv, NoneForgotten, SettledMeansApplied, Settled, Busy, Applied
  <2>4. WorkerInv'
    BY <1>1, <2>1, <2>2 DEF WorkerInv
  <2> QED BY <2>3, <2>4 DEF Inv
<1> QED BY <1>2, <1>3

(* The file of the worker's key is written, or the key waits. *)
LEMMA RulesStep ==
  ASSUME TypeOK, Inv, Rules
  PROVE  Inv'
<1>1. pc = "rules" /\ ing' = ing /\ key \in Ings /\ ic \in Specs
  BY DEF Rules, TypeOK, cluster
<1>2. CASE ic.rules = {}
  <2>1. conf' = conf /\ pc' = "default" /\ UNCHANGED <<queue, later, key, ic>>
    BY <1>2 DEF Rules, nginxDir
  <2>2. NoneForgotten'
    BY <1>1, <2>1 DEF Inv, NoneForgotten, SettledMeansApplied, Settled, Busy, Applied
  <2>3. WorkerInv'
    BY <1>1, <1>2, <2>1 DEF Inv, WorkerInv, Applied
  <2> QED BY <2>2, <2>3 DEF Inv
<1>3. CASE ic.rules # {} /\ conf' = [conf EXCEPT ![FileOf[key]] = Rendered] /\ Goto("default")
  <2>1. Rendered \in ConfType /\ Rendered # None
    BY <1>1, RenderedType, NamesAssumption
  <2>2. /\ conf'[FileOf[key]] = Rendered
        /\ DistinctFiles => \A j \in Ings \ {key} : conf'[FileOf[j]] = conf[FileOf[j]]
    BY <1>1, <1>3, OwnFile DEF TypeOK
  <2>3. Applied(key, ic)'
    BY <1>3, <2>1, <2>2 DEF Applied, Rendered
  <2>4. NoneForgotten'
    BY <1>1, <1>3, <2>2 DEF Inv, NoneForgotten, SettledMeansApplied, Settled, Busy, Applied
  <2>5. WorkerInv'
    <3>1. pc' = "default" /\ UNCHANGED <<queue, key, ic, ing>>
      BY <1>1, <1>3
    <3>2. (ing[key] # ic => key \in queue) /\ ic.ours /\ ic.sound
      BY <1>1 DEF Inv, WorkerInv
    <3> QED BY <2>3, <3>1, <3>2 DEF WorkerInv
  <2> QED BY <2>4, <2>5 DEF Inv
<1>4. CASE ic.rules # {} /\ conf' = conf /\ Fail
  BY <1>1, <1>4, FailStep
<1> QED BY <1>2, <1>3, <1>4 DEF Rules

(* The last step: with its default backend in place the key is done. *)
LEMMA DefaultStep ==
  ASSUME TypeOK, Inv, Default
  PROVE  Inv'
<1>1. pc = "default" /\ ing' = ing /\ conf' = conf /\ key \in Ings
  BY DEF Default, TypeOK, cluster
<1>2. CASE Fail
  BY <1>1, <1>2, FailStep
<1>3. CASE Done
  <2>1. /\ ing[key] # ic => key \in queue
        /\ ic.ours /\ ic.sound /\ Applied(key, ic) /\ ic # None
    BY <1>1, NamesAssumption DEF Inv, WorkerInv, TypeOK
  <2>2. NoneForgotten'
    BY <1>1, <1>3, <2>1 DEF Inv, NoneForgotten, SettledMeansApplied, Settled, Busy, Applied
  <2> QED BY <1>3, <2>2 DEF Inv, WorkerInv
<1> QED BY <1>2, <1>3 DEF Default

(* Every step keeps the invariant. *)
LEMMA InvStep ==
  ASSUME TypeOK, Inv, [Next]_vars
  PROVE  Inv'
<1>1. ASSUME NEW i \in Ings, NEW s \in Specs, UserApply(i, s) PROVE Inv'
  <2>1. /\ \A j \in Ings \ {i} : ing'[j] = ing[j]
        /\ queue' = queue \cup {i} /\ UNCHANGED <<later, conf, pc, key, ic>>
    BY <1>1 DEF UserApply, TypeOK, nginxDir, worker
  <2> QED BY <2>1, ObjectStep
<1>2. ASSUME NEW i \in Ings, UserDelete(i) PROVE Inv'
  <2>1. /\ \A j \in Ings \ {i} : ing'[j] = ing[j]
        /\ queue' = queue \cup {i} /\ UNCHANGED <<later, conf, pc, key, ic>>
    BY <1>2 DEF UserDelete, TypeOK, nginxDir, worker
  <2> QED BY <2>1, ObjectStep
<1>3. ASSUME NEW s \in Svcs, SvcToggle(s) PROVE Inv'
  BY <1>3, FrameStep DEF SvcToggle, nginxDir, workqueue, worker
<1>4. ASSUME NEW i \in Ings, IssueCert(i) PROVE Inv'
  BY <1>4, FrameStep DEF IssueCert, nginxDir, workqueue, worker
<1>5. ASSUME NEW i \in Ings, Requeue(i) PROVE Inv'
  <2>1. UNCHANGED <<ing, conf, pc, key, ic>>
    BY <1>5 DEF Requeue, cluster, nginxDir, worker
  <2>2. queue' \cup later' = queue \cup later /\ queue \subseteq queue'
    BY <1>5 DEF Requeue
  <2> QED BY <2>1, <2>2, FrameStep
<1>6. ASSUME NEW i \in Ings, Begin(i) PROVE Inv'
  BY <1>6, BeginStep
<1>7. CASE CheckServices
  <2>1. pc = "services" /\ UNCHANGED <<ing, conf>> /\ (Goto("resources") \/ Fail)
    BY <1>7 DEF CheckServices, cluster, nginxDir
  <2> QED BY <2>1, FailStep, GotoStep
<1>8. CASE Resources
  <2>1. pc = "resources" /\ UNCHANGED <<ing, conf>> /\ (Goto("annotations") \/ Fail)
    BY <1>8 DEF Resources, nginxDir
  <2> QED BY <2>1, FailStep, GotoStep
<1>9. CASE Extract
  <2>1. /\ pc = "annotations" /\ UNCHANGED <<ing, conf>>
        /\ (ic.sound /\ Goto("rules")) \/ Fail
    BY <1>9 DEF Extract, cluster, nginxDir
  <2> QED BY <2>1, FailStep, GotoStep
<1>10. CASE Rules
  BY <1>10, RulesStep
<1>11. CASE Default
  BY <1>11, DefaultStep
<1>12. CASE Restart
  <2>1. /\ ing' = ing /\ pc' = "idle" /\ queue' = {i \in Ings : ing[i] # None}
        /\ \A i \in Ings : conf'[FileOf[i]] = None
    BY <1>12, OwnFile DEF Restart, cluster
  <2>2. NoneForgotten'
    BY <2>1 DEF NoneForgotten, SettledMeansApplied, Settled
  <2> QED BY <2>1, <2>2 DEF Inv, WorkerInv
<1>13. CASE Resync
  <2>1. UNCHANGED <<ing, conf, later, pc, key, ic>> /\ queue \subseteq queue'
    BY <1>13 DEF Resync, cluster, nginxDir, worker
  <2> QED BY <2>1, FrameStep
<1>14. CASE UNCHANGED vars
  <2>1. UNCHANGED <<cluster, nginxDir, workqueue, worker, counters>>
    BY <1>14 DEF vars
  <2> QED BY <2>1, FrameStep DEF cluster, nginxDir, workqueue, worker
<1> QED
  BY <1>1, <1>2, <1>3, <1>4, <1>5, <1>6, <1>7, <1>8, <1>9, <1>10, <1>11, <1>12, <1>13, <1>14
  DEF Next, Users, Reconciling

(* The two invariants hold together, from the first state on. *)
LEMMA InvAlways == Spec => []Inv
<1>1. Init => Inv
  BY OwnFile DEF Init, Inv, NoneForgotten, SettledMeansApplied, Settled, Busy, WorkerInv
<1>2. TypeOK /\ Inv /\ [Next]_vars => Inv'
  BY InvStep
<1> QED BY <1>1, <1>2, TypeCorrect, PTL DEF Spec

(* What the worker holds is current or queued again, and it has passed the *)
(* checks behind it.                                                       *)
THEOREM WorkerInvAlways == Spec => []WorkerInv
<1>1. Inv => WorkerInv
  BY DEF Inv
<1> QED BY <1>1, InvAlways, PTL

(* No interleaving of users, retries, certificates and restarts leaves an  *)
(* Ingress with a file of its own forgotten: one neither queued, waiting   *)
(* nor in hand is applied.                                                 *)
THEOREM SettledAlways == ASSUME DistinctFiles PROVE Spec => []SettledMeansApplied
<1>1. Inv => SettledMeansApplied
  BY DEF Inv, NoneForgotten
<1> QED BY <1>1, InvAlways, PTL
----------------------------------------------------------------------------
(* The refinement of Settlement. *)
File == [i \in Ings |-> FileContent(conf[FileOf[i]])]
Pending == queue \cup later \cup {i \in Ings : Busy(i)}
Hand == IF pc = "idle" THEN None ELSE <<key, ic>>

(* No pair is the value that says there is none in hand. *)
LEMMA HandIsSome ==
  ASSUME TypeOK, pc # "idle"
  PROVE  Hand = <<key, ic>> /\ Hand # None
<1>1. Hand = <<key, ic>>
  BY DEF Hand
<1>2. key \in Ings /\ ic \in Specs
  BY DEF TypeOK
<1> QED BY <1>1, <1>2, NamesAssumption

(* A step that changes neither objects, files, keys nor hand is a stutter. *)
LEMMA Stutter ==
  ASSUME UNCHANGED <<ing, conf, Pending, Hand>>
  PROVE  [Abstract!Next]_(Abstract!vars)
BY DEF Abstract!vars, File, Pending, Hand

(* The worker gives up and its key waits. *)
LEMMA FailImplements ==
  ASSUME TypeOK, pc # "idle", Fail, UNCHANGED <<ing, conf>>
  PROVE  Abstract!LetGo
<1>1. Hand # None /\ Hand' = None
  BY HandIsSome DEF Hand
<1>2. Pending' = Pending
  BY DEF Pending, Busy, TypeOK
<1> QED BY <1>1, <1>2 DEF Abstract!LetGo, Hand, Pending

(* The worker goes on with the object in hand. *)
LEMMA GotoImplements ==
  ASSUME pc # "idle", NEW l \in {"resources", "annotations", "rules", "default"}, Goto(l),
         UNCHANGED <<ing, conf>>
  PROVE  [Abstract!Next]_(Abstract!vars)
<1>1. UNCHANGED <<Pending, Hand>>
  BY DEF Pending, Hand, Busy
<1> QED BY <1>1, Stutter

(* The object of one Ingress changes. *)
LEMMA ChangeImplements ==
  ASSUME TypeOK, NEW i \in Ings, NEW o \in Specs \cup {None},
         ing' = [ing EXCEPT ![i] = o], queue' = queue \cup {i},
         UNCHANGED <<later, conf, pc, key, ic>>
  PROVE  Abstract!Change(i, o)
<1>1. Pending' = Pending \cup {i} /\ UNCHANGED <<File, Hand>>
  BY DEF Pending, Busy, File, Hand
<1> QED BY <1>1 DEF Abstract!Change, Pending, File, Hand

(* Taking a key is cleaning up after a deleted object, taking an object in *)
(* hand, or leaving an object of another class waiting.                    *)
LEMMA BeginImplements ==
  ASSUME DistinctFiles, TypeOK, NEW i \in Ings, Begin(i)
  PROVE  [Abstract!Next]_(Abstract!vars)
<1>1. pc = "idle" /\ ing' = ing /\ i \in queue /\ queue' = queue \ {i} /\ Hand = None
  BY DEF Begin, cluster, Hand
<1>2. CASE ing[i] = None
  <2>1. later' = later /\ UNCHANGED <<pc, key, ic>>
    BY <1>1, <1>2 DEF Begin, worker
  <2>2. /\ conf'[FileOf[i]] = None
        /\ \A j \in Ings \ {i} : conf'[FileOf[j]] = conf[FileOf[j]]
    BY <1>2, OwnFile DEF Begin, ClearConf, TypeOK
  <2>3. File' = [File EXCEPT ![i] = None]
    BY <2>2 DEF File, FileContent
  <2>4. Pending' \in {Pending, Pending \ {i}} /\ Hand' = Hand /\ i \in Pending
    BY <1>1, <2>1 DEF Pending, Busy, Hand
  <2>5. Abstract!Clean(i)
    BY <1>1, <1>2, <2>3, <2>4 DEF Abstract!Clean, File, Pending, Hand
  <2> QED BY <2>5 DEF Abstract!Next
<1>3. CASE ing[i] # None /\ pc' = "services" /\ key' = i /\ ic' = ing[i] /\ later' = later
  <2>1. conf' = conf
    BY <1>3 DEF Begin, nginxDir
  <2>2. Pending' = Pending /\ File' = File /\ Hand' = <<i, ing[i]>> /\ i \in Pending
    BY <1>1, <1>3, <2>1 DEF Pending, Busy, File, Hand
  <2>3. Abstract!Take(i)
    BY <1>1, <1>3, <2>2 DEF Abstract!Take, File, Pending, Hand
  <2> QED BY <2>3 DEF Abstract!Next
<1>4. CASE ing[i] # None /\ later' = later \cup {i} /\ UNCHANGED <<pc, key, ic>>
  <2>1. conf' = conf
    BY <1>4 DEF Begin, nginxDir
  <2>2. UNCHANGED <<ing, conf, Pending, Hand>>
    BY <1>1, <1>4, <2>1 DEF Pending, Busy, Hand
  <2> QED BY <2>2, Stutter
<1> QED BY <1>1, <1>2, <1>3, <1>4 DEF Begin, worker

(* Writing the file of the worker's key is the Write of the object in hand. *)
LEMMA RulesImplements ==
  ASSUME DistinctFiles, TypeOK, Rules
  PROVE  [Abstract!Next]_(Abstract!vars)
<1>1. pc = "rules" /\ ing' = ing /\ key \in Ings /\ ic \in Specs
  BY DEF Rules, TypeOK, cluster
<1>2. Hand = <<key, ic>> /\ Hand # None
  BY <1>1, HandIsSome
<1>3. CASE ic.rules # {} /\ conf' = [conf EXCEPT ![FileOf[key]] = Rendered] /\ Goto("default")
  <2>1. Rendered # None
    BY <1>1, RenderedType, NamesAssumption
  <2>2. FileContent(Rendered) = Abstract!AskedBy(ic)
    BY <2>1 DEF FileContent, Rendered, Abstract!AskedBy
  <2>3. File' = [File EXCEPT ![key] = Abstract!AskedBy(ic)]
    <3>1. /\ conf'[FileOf[key]] = Rendered
          /\ \A j \in Ings \ {key} : conf'[FileOf[j]] = conf[FileOf[j]]
      BY <1>1, <1>3, OwnFile DEF TypeOK
    <3> QED BY <2>2, <3>1 DEF File
  <2>4. UNCHANGED <<Pending, Hand>>
    BY <1>1, <1>3 DEF Pending, Hand, Busy
  <2>5. Hand[1] = key /\ Hand[2] = ic
    BY <1>2
  <2>6. Abstract!Write
    BY <1>1, <1>2, <1>3, <2>3, <2>4, <2>5 DEF Abstract!Write, Pending, File, Hand
  <2> QED BY <2>6 DEF Abstract!Next
<1>4. CASE Fail /\ conf' = conf
  <2>1. Abstract!LetGo
    BY <1>1, <1>4, FailImplements
  <2> QED BY <2>1 DEF Abstract!Next
<1>5. CASE Goto("default") /\ conf' = conf
  BY <1>1, <1>5, GotoImplements
<1> QED BY <1>3, <1>4, <1>5 DEF Rules, nginxDir

(* The worker is done: its key is queued again, or its object is current   *)
(* and applied.                                                            *)
LEMMA DefaultImplements ==
  ASSUME TypeOK, WorkerInv, Default
  PROVE  [Abstract!Next]_(Abstract!vars)
<1>1. pc = "default" /\ ing' = ing /\ conf' = conf /\ key \in Ings /\ ic \in Specs
  BY DEF Default, TypeOK, cluster
<1>2. Hand = <<key, ic>> /\ Hand # None
  BY <1>1, HandIsSome
<1>3. CASE Fail
  <2>1. Abstract!LetGo
    BY <1>1, <1>3, FailImplements
  <2> QED BY <2>1 DEF Abstract!Next
<1>4. CASE Done
  <2>1. UNCHANGED <<ing, File>> /\ Hand' = None
    BY <1>1, <1>4 DEF File, Hand
  <2>2. Hand[1] = key /\ Hand[2] = ic
    BY <1>2
  <2>3. CASE key \in queue \cup later
    <3>1. Pending' = Pending
      BY <1>1, <1>4, <2>3 DEF Pending, Busy
    <3>2. Abstract!LetGo
      BY <1>2, <2>1, <3>1 DEF Abstract!LetGo, File, Pending, Hand
    <3> QED BY <3>2 DEF Abstract!Next
  <2>4. CASE key \notin queue \cup later
    <3>1. Pending' = Pending \ {key}
      BY <1>1, <1>4, <2>4 DEF Pending, Busy
    <3>2. ing[key] = ic /\ Applied(key, ic)
      BY <1>1, <2>4 DEF WorkerInv
    <3>3. ic.rules # {} => File[key] = Abstract!AskedBy(ic)
      BY <1>1, <3>2 DEF Applied, File, FileContent, Abstract!AskedBy
    <3>4. Abstract!Finish
      BY <1>2, <2>1, <2>2, <3>1, <3>2, <3>3 DEF Abstract!Finish, File, Pending, Hand
    <3> QED BY <3>4 DEF Abstract!Next
  <2> QED BY <2>3, <2>4
<1> QED BY <1>3, <1>4 DEF Default

(* Every step is a step of Settlement, or none. *)
LEMMA StepImplements ==
  ASSUME DistinctFiles, TypeOK, Inv, [Next]_vars
  PROVE  [Abstract!Next]_(Abstract!vars)
<1>1. ASSUME NEW i \in Ings, NEW s \in Specs, UserApply(i, s)
      PROVE [Abstract!Next]_(Abstract!vars)
  <2>1. Abstract!Change(i, s)
    BY <1>1, ChangeImplements DEF UserApply, nginxDir, worker
  <2> QED BY <2>1 DEF Abstract!Next
<1>2. ASSUME NEW i \in Ings, UserDelete(i) PROVE [Abstract!Next]_(Abstract!vars)
  <2>1. Abstract!Change(i, None)
    BY <1>2, ChangeImplements DEF UserDelete, nginxDir, worker
  <2> QED BY <2>1 DEF Abstract!Next
<1>3. ASSUME NEW s \in Svcs, SvcToggle(s) PROVE [Abstract!Next]_(Abstract!vars)
  <2>1. UNCHANGED <<ing, conf, Pending, Hand>>
    BY <1>3 DEF SvcToggle, nginxDir, workqueue, worker, Pending, Hand, Busy
  <2> QED BY <2>1, Stutter
<1>4. ASSUME NEW i \in Ings, IssueCert(i) PROVE [Abstract!Next]_(Abstract!vars)
  <2>1. UNCHANGED <<ing, conf, Pending, Hand>>
    BY <1>4 DEF IssueCert, nginxDir, workqueue, worker, Pending, Hand, Busy
  <2> QED BY <2>1, Stutter
<1>5. ASSUME NEW i \in Ings, Requeue(i) PROVE [Abstract!Next]_(Abstract!vars)
  <2>1. UNCHANGED <<ing, conf, pc, key, ic>>
    BY <1>5 DEF Requeue, cluster, nginxDir, worker
  <2>2. UNCHANGED <<ing, conf, Pending, Hand>>
    BY <1>5, <2>1 DEF Requeue, Pending, Hand, Busy
  <2> QED BY <2>2, Stutter
<1>6. ASSUME NEW i \in Ings, Begin(i) PROVE [Abstract!Next]_(Abstract!vars)
  BY <1>6, BeginImplements
<1>7. CASE CheckServices
  <2>1. pc = "services" /\ UNCHANGED <<ing, conf>> /\ (Goto("resources") \/ Fail)
    BY <1>7 DEF CheckServices, cluster, nginxDir
  <2> QED BY <2>1, FailImplements, GotoImplements DEF Abstract!Next
<1>8. CASE Resources
  <2>1. pc = "resources" /\ UNCHANGED <<ing, conf>> /\ (Goto("annotations") \/ Fail)
    BY <1>8 DEF Resources, nginxDir
  <2> QED BY <2>1, FailImplements, GotoImplements DEF Abstract!Next
<1>9. CASE Extract
  <2>1. pc = "annotations" /\ UNCHANGED <<ing, conf>> /\ (Goto("rules") \/ Fail)
    BY <1>9 DEF Extract, cluster, nginxDir
  <2> QED BY <2>1, FailImplements, GotoImplements DEF Abstract!Next
<1>10. CASE Rules
  BY <1>10, RulesImplements
<1>11. CASE Default
  BY <1>11, DefaultImplements DEF Inv
<1>12. CASE Restart
  <2>1. /\ File' = [i \in Ings |-> None] /\ ing' = ing /\ Hand' = None
        /\ Pending' = {i \in Ings : ing[i] # None}
    BY <1>12, OwnFile DEF Restart, cluster, File, FileContent, Hand, Pending, Busy
  <2>2. Abstract!Restart
    BY <2>1 DEF Abstract!Restart, File, Pending, Hand
  <2> QED BY <2>2 DEF Abstract!Next
<1>13. CASE Resync
  <2>1. UNCHANGED <<ing, conf, later, pc, key, ic>>
    BY <1>13 DEF Resync, cluster, nginxDir, worker
  <2>2. /\ Pending' = Pending \cup {i \in Ings : ing[i] # None}
        /\ UNCHANGED <<File, Hand>>
    BY <1>13, <2>1 DEF Resync, Pending, Busy, File, Hand
  <2>3. Abstract!Resync
    BY <2>1, <2>2 DEF Abstract!Resync, File, Pending, Hand
  <2> QED BY <2>3 DEF Abstract!Next
<1>14. CASE UNCHANGED vars
  <2>1. UNCHANGED <<ing, conf, Pending, Hand>>
    BY <1>14 DEF vars, cluster, nginxDir, workqueue, worker, Pending, Hand, Busy
  <2> QED BY <2>1, Stutter
<1> QED
  BY <1>1, <1>2, <1>3, <1>4, <1>5, <1>6, <1>7, <1>8, <1>9, <1>10, <1>11, <1>12, <1>13, <1>14
  DEF Next, Users, Reconciling

(* The reconcile loop implements Settlement: a file only ever takes what   *)
(* the version in hand asks for, and an Ingress is let go applied or to be *)
(* reconciled again, as long as no two share a file.                       *)
THEOREM SettlementImplemented == ASSUME DistinctFiles PROVE Spec => ImplementsSettlement
<1>1. Init => Abstract!Init
  BY ListedAssumption, OwnFile DEF Init, Abstract!Init, Busy, FileContent
<1>2. TypeOK /\ Inv /\ [Next]_vars => [Abstract!Next]_(Abstract!vars)
  BY StepImplements
<1> QED
  BY <1>1, <1>2, TypeCorrect, InvAlways, PTL DEF Spec, ImplementsSettlement, Abstract!Spec

----------------------------------------------------------------------------
(* A healthy Ingress is not refused. *)

(* The worker's step finds what it needs: everything asked for and served  *)
(* exists, the object in hand is current, and its certificate was created  *)
(* by an earlier attempt.                                                  *)
InGoodHands == /\ Healthy
               /\ ic = ing[key]
               /\ pc = "resources" => ic.rules = {} \/ cert[key] = ic.hosts

(* The safety half of Converges: in a healthy cluster a current object is  *)
(* put back into the queue only for the certificate that its own attempt   *)
(* has just created, or by a fault; no check of the worker and no nginx -t *)
(* refuses it, whatever the other files hold besides: healthy is that they *)
(* name no missing Service and no upstream it asks for.                    *)
THEOREM HealthyIsNotRefused ==
  Spec => [][Reconciling /\ InGoodHands /\ faults' = faults => later' = later]_vars
<1>1. ASSUME TypeOK, Inv, Reconciling, InGoodHands, faults' = faults
      PROVE  later' = later
  <2>1. /\ pc # "idle" /\ key \in Ings /\ ic \in Specs /\ ic # None
        /\ faults \in Nat
    BY <1>1, NamesAssumption DEF TypeOK, Reconciling, CheckServices, Resources, Extract, Rules, Default
  <2>2. ic.sound /\ Referred(ic) \subseteq svc
    BY <1>1, <2>1 DEF InGoodHands, Healthy, LiveHealthy
  <2>3. CASE CheckServices
    BY <2>2, <2>3 DEF CheckServices
  <2>4. CASE Resources
    BY <1>1, <2>1, <2>4 DEF Resources, InGoodHands
  <2>5. CASE Extract
    BY <2>2, <2>5 DEF Extract
  <2>6. CASE Rules
    <3>1. ic.rules \subseteq svc
      BY <2>2 DEF Referred
    <3>2. NginxAccepts([conf EXCEPT ![FileOf[key]] = Rendered], main)
      <4>1. FileOf[key] \in Files /\ conf \in [Files -> ConfType \cup {None}]
        BY <1>1, <2>1, OwnFile DEF TypeOK
      <4>2. Rendered.svcs = ic.rules
        BY DEF Rendered
      <4>3. NginxAccepts(conf, main)
        BY <1>1 DEF InGoodHands, Healthy
      <4>4. Free(conf, FileOf[key], ic.rules)
        BY <1>1, <2>1 DEF InGoodHands, Healthy, LiveHealthy
      <4> DEFINE new == [conf EXCEPT ![FileOf[key]] = Rendered]
      <4>5. new[FileOf[key]] = Rendered /\ \A f \in Files \ {FileOf[key]} : new[f] = conf[f]
        BY <4>1
      <4>6. ASSUME NEW f \in Files, new[f] # None
            PROVE  new[f].svcs \subseteq svc /\ Free(new, f, new[f].svcs)
        <5>1. CASE f = FileOf[key]
          BY <3>1, <4>2, <4>4, <4>5, <5>1 DEF Free
        <5>2. CASE f # FileOf[key]
          <6>1. conf[f].svcs \subseteq svc /\ Free(conf, f, conf[f].svcs)
            BY <4>3, <4>5, <4>6, <5>2 DEF NginxAccepts
          <6>2. Upstreams(FileOf[key], ic.rules) \cap Upstreams(f, conf[f].svcs) = {}
            BY <4>4, <4>5, <4>6, <5>2 DEF Free
          <6>3. ASSUME NEW g \in Files \ {f}, new[g] # None
                PROVE  Upstreams(f, new[f].svcs) \cap Upstreams(g, new[g].svcs) = {}
            <7>1. CASE g = FileOf[key]
              BY <4>2, <4>5, <5>2, <6>2, <7>1
            <7>2. CASE g # FileOf[key]
              BY <4>5, <5>2, <6>1, <6>3, <7>2 DEF Free
            <7> QED BY <7>1, <7>2
          <6> QED BY <4>5, <5>2, <6>1, <6>3 DEF Free
        <5> QED BY <5>1, <5>2
      <4> QED BY <4>3, <4>6 DEF NginxAccepts
    <3> QED BY <2>6, <3>1, <3>2 DEF Rules
  <2>7. CASE Default
    <3>1. ic.default # None => ic.default \in svc /\ NginxAccepts(conf, ic.default)
      BY <1>1, <2>2 DEF Referred, InGoodHands, Healthy, NginxAccepts
    <3> QED BY <2>7, <3>1 DEF Default
  <2> QED BY <1>1, <2>3, <2>4, <2>5, <2>6, <2>7 DEF Reconciling
<1> QED BY <1>1, InvAlways, TypeCorrect, PTL DEF Spec

----------------------------------------------------------------------------
(* When a default backend is served. *)

(* No Ingress is deleted, and none gives up its default backend. *)
NoneDropped == \A i \in Ings : ing[i] # None =>
  ing'[i] # None /\ (ing[i].default # None => ing'[i].default # None)

(* The worker has no key of a missing object, so it never clears nginx.conf;*)
(* what it holds asks for a default backend only if the current object does.*)
KeysExist == \A i \in Ings : ing[i] = None => i \notin queue \cup later
HeldDefault == pc # "idle" => /\ ing[key] # None
                              /\ ic.default # None => ing[key].default # None
OwnDefault == \A i \in Ings : Defaulting = {i} /\ Settled(i) => main = ing[i].default
KeptInv == KeysExist /\ HeldDefault /\ OwnDefault

(* The objects, nginx.conf and the worker stay, and every key stays. *)
LEMMA KeptFrame ==
  ASSUME KeptInv, UNCHANGED <<ing, main, pc, key, ic>>,
         queue \cup later \subseteq queue' \cup later',
         \A i \in queue' \cup later' : i \in Ings => ing[i] # None
  PROVE  KeptInv'
<1>1. KeysExist' /\ HeldDefault'
  BY DEF KeptInv, KeysExist, HeldDefault
<1>2. OwnDefault'
  BY DEF KeptInv, OwnDefault, Defaulting, Settled, Busy
<1> QED BY <1>1, <1>2 DEF KeptInv

Steps == {"resources", "annotations", "rules", "default"}

(* The worker gives up, or goes on: its key is not settled. *)
LEMMA KeptByWorker ==
  ASSUME TypeOK, KeptInv, pc # "idle", Fail \/ \E l \in Steps : Goto(l),
         UNCHANGED <<ing, main>>
  PROVE  KeptInv'
<1>1. /\ key \in Ings /\ queue' = queue
      /\ \/ later' = later \cup {key} /\ pc' = "idle"
         \/ later' = later /\ pc' # "idle" /\ key' = key /\ ic' = ic
  BY DEF TypeOK, Steps
<1>2. KeysExist' /\ HeldDefault'
  BY <1>1 DEF KeptInv, KeysExist, HeldDefault
<1>3. \A i \in Ings : Settled(i)' => Settled(i)
  BY <1>1 DEF Settled, Busy
<1>4. OwnDefault'
  BY <1>3 DEF KeptInv, OwnDefault, Defaulting
<1> QED BY <1>2, <1>4 DEF KeptInv

(* An object is changed, and its key queued: whoever still asks for a      *)
(* default backend asked before.                                           *)
LEMMA KeptByUsers ==
  ASSUME TypeOK, KeptInv, NoneDropped, NEW i \in Ings, NEW s \in Specs, UserApply(i, s)
  PROVE  KeptInv'
<1>1. /\ ing' = [ing EXCEPT ![i] = s] /\ queue' = queue \cup {i} /\ s # None
      /\ ing'[i] = s /\ \A j \in Ings \ {i} : ing'[j] = ing[j]
      /\ UNCHANGED <<later, main, pc, key, ic>>
  BY NamesAssumption DEF UserApply, TypeOK, nginxDir, worker
<1>2. KeysExist'
  BY <1>1 DEF KeptInv, KeysExist
<1>3. HeldDefault'
  BY <1>1 DEF KeptInv, HeldDefault, NoneDropped, TypeOK
<1>4. OwnDefault'
  <2> SUFFICES ASSUME NEW j \in Ings, Defaulting' = {j}, Settled(j)'
               PROVE  main' = ing'[j].default
    BY DEF OwnDefault
  <2>1. j # i /\ ing'[j] = ing[j] /\ Settled(j)
    BY <1>1 DEF Settled, Busy
  <2>2. Defaulting \subseteq Defaulting'
    BY DEF Defaulting, NoneDropped
  <2>3. j \in Defaulting
    BY <2>1 DEF Defaulting
  <2>4. Defaulting = {j}
    BY <2>2, <2>3
  <2> QED BY <1>1, <2>1, <2>4 DEF KeptInv, OwnDefault
<1> QED BY <1>2, <1>3, <1>4 DEF KeptInv

(* The default backend of the object in hand enters nginx.conf. *)
LEMMA KeptByDefault ==
  ASSUME TypeOK, WorkerInv, KeptInv, Default
  PROVE  KeptInv'
<1>1. pc = "default" /\ key \in Ings /\ UNCHANGED <<ing, queue>>
  BY DEF Default, TypeOK, cluster
<1>2. CASE Fail /\ main' = main
  BY <1>1, <1>2, KeptByWorker
<1>3. CASE Done /\ main' = IF ic.default = None THEN main ELSE ic.default
  <2>1. pc' = "idle" /\ later' = later
    BY <1>3
  <2>2. KeysExist' /\ HeldDefault'
    BY <1>1, <2>1 DEF KeptInv, KeysExist, HeldDefault
  <2>3. ASSUME NEW i \in Ings, Defaulting = {i}, Settled(i)'
        PROVE  main' = ing[i].default
    <3>1. CASE i = key
      <4>1. i \notin queue
        BY <1>1, <2>3 DEF Settled
      <4>2. ing[i] = ic /\ ing[i].default # None
        BY <1>1, <2>3, <3>1, <4>1 DEF WorkerInv, Defaulting
      <4> QED BY <1>3, <4>2
    <3>2. CASE i # key
      <4>1. Settled(i)
        BY <1>1, <2>1, <2>3, <3>2 DEF Settled, Busy
      <4>2. ic.default = None
        BY <1>1, <2>3, <3>2 DEF Defaulting, KeptInv, HeldDefault
      <4> QED BY <1>3, <2>3, <4>1, <4>2 DEF KeptInv, OwnDefault
    <3> QED BY <3>1, <3>2
  <2> QED BY <1>1, <2>2, <2>3 DEF KeptInv, OwnDefault, Defaulting
<1>4. None \notin svc
  BY NamesAssumption DEF TypeOK
<1> QED BY <1>2, <1>3, <1>4 DEF Default

(* Every step that drops nothing keeps the invariant. *)
LEMMA KeptStep ==
  ASSUME TypeOK, WorkerInv, KeptInv, [Next]_vars, [NoneDropped]_vars
  PROVE  KeptInv'
<1>1. ASSUME NEW i \in Ings, NEW s \in Specs, UserApply(i, s) PROVE KeptInv'
  <2>1. UNCHANGED vars => KeptInv'
    BY KeptFrame DEF KeptInv, KeysExist, vars, cluster, nginxDir, workqueue, worker
  <2> QED BY <1>1, <2>1, KeptByUsers
<1>2. ASSUME NEW i \in Ings, UserDelete(i) PROVE KeptInv'
  <2>1. ing[i] # None /\ ing' = [ing EXCEPT ![i] = None]
    BY <1>2 DEF UserDelete
  <2>2. ing'[i] = None /\ vars' # vars
    BY <2>1 DEF TypeOK, vars, cluster
  <2> QED BY <2>1, <2>2 DEF NoneDropped
<1>3. ASSUME NEW s \in Svcs, SvcToggle(s) PROVE KeptInv'
  BY <1>3, KeptFrame DEF SvcToggle, nginxDir, workqueue, worker, KeptInv, KeysExist
<1>4. ASSUME NEW i \in Ings, IssueCert(i) PROVE KeptInv'
  BY <1>4, KeptFrame DEF IssueCert, nginxDir, workqueue, worker, KeptInv, KeysExist
<1>5. ASSUME NEW i \in Ings, Requeue(i) PROVE KeptInv'
  <2>1. queue' \cup later' = queue \cup later
    BY <1>5 DEF Requeue
  <2> QED BY <1>5, <2>1, KeptFrame DEF Requeue, cluster, nginxDir, worker, KeptInv, KeysExist
<1>6. ASSUME NEW i \in Ings, Begin(i) PROVE KeptInv'
  <2>1. /\ pc = "idle" /\ i \in queue /\ ing[i] # None
        /\ UNCHANGED <<ing, main>> /\ queue' = queue \ {i}
        /\ \/ pc' = "services" /\ key' = i /\ ic' = ing[i] /\ later' = later
           \/ pc' = "idle" /\ later' = later \cup {i}
    BY <1>6 DEF Begin, KeptInv, KeysExist, cluster, nginxDir, worker
  <2>2. KeysExist' /\ HeldDefault'
    BY <2>1 DEF KeptInv, KeysExist, HeldDefault
  <2>3. \A j \in Ings : Settled(j)' => Settled(j)
    BY <2>1 DEF Settled, Busy
  <2> QED BY <2>1, <2>2, <2>3 DEF KeptInv, OwnDefault, Defaulting
<1>7. CASE CheckServices \/ Resources \/ Extract \/ Rules
  <2>1. /\ pc # "idle" /\ UNCHANGED <<ing, main>>
        /\ Fail \/ \E l \in Steps : Goto(l)
    BY <1>7 DEF CheckServices, Resources, Extract, Rules, cluster, nginxDir, Steps
  <2> QED BY <2>1, KeptByWorker
<1>8. CASE Default
  BY <1>8, KeptByDefault
<1>9. CASE Restart
  <2>1. /\ ing' = ing /\ pc' = "idle" /\ queue' = {i \in Ings : ing[i] # None} /\ later' = {}
    BY <1>9 DEF Restart, cluster
  <2> QED BY <2>1 DEF KeptInv, KeysExist, HeldDefault, OwnDefault, Defaulting, Settled
<1>10. CASE Resync
  <2>1. queue' = queue \cup {i \in Ings : ing[i] # None}
    BY <1>10 DEF Resync
  <2> QED BY <1>10, <2>1, KeptFrame DEF Resync, cluster, nginxDir, worker, KeptInv, KeysExist
<1>11. CASE UNCHANGED vars
  BY <1>11, KeptFrame DEF KeptInv, KeysExist, vars, cluster, nginxDir, workqueue, worker
<1> QED
  BY <1>1, <1>2, <1>3, <1>4, <1>5, <1>6, <1>7, <1>8, <1>9, <1>10, <1>11
  DEF Next, Users, Reconciling

(* As long as nobody deletes an Ingress or gives up a default backend,     *)
(* nginx.conf proxies to the only default backend there is, once its       *)
(* Ingress is settled: what reconcile_default_lost finds takes a deletion  *)
(* or a dropped default backend.                                           *)
THEOREM DefaultServedWhenKept == Spec /\ [][NoneDropped]_vars => []DefaultServed
<1>1. Init => KeptInv
  BY DEF Init, KeptInv, KeysExist, HeldDefault, OwnDefault, Defaulting, Settled
<1>2. TypeOK /\ WorkerInv /\ KeptInv /\ [Next]_vars /\ [NoneDropped]_vars => KeptInv'
  BY KeptStep
<1>3. KeptInv => DefaultServed
  BY DEF KeptInv, OwnDefault, DefaultServed
<1> QED BY <1>1, <1>2, <1>3, TypeCorrect, WorkerInvAlways, PTL DEF Spec

----------------------------------------------------------------------------
(* When the certificate is served. *)

(* The servers of an object are rendered once its certificate is issued. *)
IssuedFirst == Rules /\ ic.rules # {} => secret[key] = ic.hosts

(* The file of s has https servers, with the certificate for its hosts. *)
Secured(i, s) == s.rules # {} => conf[FileOf[i]].https /\ ssl[FileOf[i]] = s.hosts

(* As SettledMeansApplied and WorkerInv do for the servers themselves. *)
SecuredInv ==
  /\ \A i \in Ings : Settled(i) /\ ing[i] # None => Secured(i, ing[i])
  /\ pc = "default" => Secured(key, ic)

(* Neither the files nor the worker change, and a changed object is queued. *)
LEMMA SecuredFrame ==
  ASSUME SecuredInv, UNCHANGED <<conf, ssl, pc, key, ic>>,
         queue \cup later \subseteq queue' \cup later',
         \A i \in Ings : ing'[i] = ing[i] \/ i \in queue'
  PROVE  SecuredInv'
BY DEF SecuredInv, Secured, Settled, Busy

(* The worker gives up, or goes on to a step before the last. *)
LEMMA SecuredByWorker ==
  ASSUME TypeOK, SecuredInv, pc # "idle",
         Fail \/ \E l \in Steps \ {"default"} : Goto(l),
         UNCHANGED ing,
         \A i \in Ings \ {key} : UNCHANGED <<conf[FileOf[i]], ssl[FileOf[i]]>>
  PROVE  SecuredInv'
<1>1. /\ key \in Ings /\ queue' = queue /\ pc' # "default"
      /\ \/ later' = later \cup {key} /\ pc' = "idle"
         \/ later' = later /\ pc' # "idle" /\ key' = key
  BY DEF TypeOK, Steps
<1>2. \A i \in Ings : Settled(i)' => Settled(i) /\ i # key
  BY <1>1 DEF Settled, Busy
<1> QED BY <1>1, <1>2 DEF SecuredInv, Secured

(* The file of the key in hand is written, with its certificate. *)
LEMMA SecuredByRules ==
  ASSUME DistinctFiles, TypeOK, SecuredInv, Rules, IssuedFirst
  PROVE  SecuredInv'
<1>1. pc = "rules" /\ ing' = ing /\ key \in Ings /\ ic \in Specs
  BY DEF Rules, TypeOK, cluster
<1>2. CASE ic.rules = {}
  <2>1. UNCHANGED <<conf, ssl, queue, later, key, ic>> /\ pc' = "default"
    BY <1>2 DEF Rules, nginxDir
  <2> QED BY <1>1, <1>2, <2>1 DEF SecuredInv, Secured, Settled, Busy
<1>3. CASE ic.rules # {}
  <2>1. ssl' = [ssl EXCEPT ![FileOf[key]] = ic.hosts] /\ secret[key] # None
    <3>1. secret[key] = ic.hosts /\ ic.hosts \in Hosts
      BY <1>1, <1>3, SpecsAreTyped DEF IssuedFirst
    <3>2. ic.hosts # None
      BY <3>1, NamesAssumption
    <3> QED BY <1>3, <3>1, <3>2 DEF Rules
  <2>2. ssl'[FileOf[key]] = ic.hosts /\ \A j \in Ings \ {key} : ssl'[FileOf[j]] = ssl[FileOf[j]]
    BY <1>1, <2>1, OwnFile DEF TypeOK
  <2>3. CASE conf' = conf /\ Fail
    BY <1>1, <2>2, <2>3, SecuredByWorker
  <2>4. CASE conf' = [conf EXCEPT ![FileOf[key]] = Rendered] /\ Goto("default")
    <3>1. /\ conf'[FileOf[key]] = Rendered
          /\ \A j \in Ings \ {key} : conf'[FileOf[j]] = conf[FileOf[j]]
      BY <1>1, <2>4, OwnFile DEF TypeOK
    <3>2. Rendered.https
      BY <2>1 DEF Rendered
    <3>3. Secured(key, ic)'
      BY <2>2, <2>4, <3>1, <3>2 DEF Secured
    <3>4. \A i \in Ings : Settled(i)' => Settled(i) /\ i # key
      BY <1>1, <2>4 DEF Settled, Busy
    <3> QED BY <1>1, <2>2, <2>4, <3>1, <3>3, <3>4 DEF SecuredInv, Secured
  <2> QED BY <1>3, <2>3, <2>4 DEF Rules
<1> QED BY <1>2, <1>3
(* The last step leaves the files alone, and what it lets go is secured. *)
LEMMA SecuredByDefault ==
  ASSUME TypeOK, WorkerInv, SecuredInv, Default
  PROVE  SecuredInv'
<1>1. pc = "default" /\ key \in Ings /\ UNCHANGED <<ing, conf, ssl, queue>> /\ pc' = "idle"
  BY DEF Default, TypeOK, cluster
<1>2. CASE Fail
  BY <1>1, <1>2, SecuredByWorker
<1>3. CASE Done
  <2>1. \A i \in Ings \ {key} : Settled(i)' => Settled(i)
    BY <1>1, <1>3 DEF Settled, Busy
  <2>2. \A i \in Ings : Settled(i)' => i \notin queue
    BY <1>1 DEF Settled
  <2>3. (ing[key] # ic => key \in queue) /\ Secured(key, ic)
    BY <1>1 DEF WorkerInv, SecuredInv
  <2> QED BY <1>1, <2>1, <2>2, <2>3 DEF SecuredInv, Secured
<1> QED BY <1>2, <1>3 DEF Default

(* The worker takes a key.  Only the file of a deleted object changes. *)
LEMMA SecuredByBegin ==
  ASSUME DistinctFiles, TypeOK, SecuredInv, NEW i \in Ings, Begin(i)
  PROVE  SecuredInv'
<1>1. /\ pc = "idle" /\ pc' # "default" /\ ing' = ing /\ ssl' = ssl /\ queue' = queue \ {i}
      /\ ing[i] # None => conf' = conf
      /\ ing[i] = None => pc' = "idle" /\ later' = later
  BY DEF Begin, ClearConf, cluster, nginxDir, worker
<1>2. \A j \in Ings \ {i} : conf'[FileOf[j]] = conf[FileOf[j]]
  BY <1>1, OwnFile DEF Begin, ClearConf, TypeOK
<1>3. \A j \in Ings \ {i} : Settled(j)' => Settled(j)
  BY DEF Begin, worker, Settled, Busy
<1>4. ing[i] # None => ~Settled(i)'
  BY DEF Begin, worker, Settled, Busy
<1> QED BY <1>1, <1>2, <1>3, <1>4 DEF SecuredInv, Secured

(* Every step that renders no server before its certificate is issued      *)
(* keeps the invariant.                                                    *)
LEMMA SecuredStep ==
  ASSUME DistinctFiles, TypeOK, WorkerInv, SecuredInv, [Next]_vars, [IssuedFirst]_vars
  PROVE  SecuredInv'
<1>1. CASE UNCHANGED vars
  BY <1>1, SecuredFrame DEF vars, cluster, nginxDir, workqueue, worker
<1>2. ASSUME NEW i \in Ings, (\E s \in Specs : UserApply(i, s)) \/ UserDelete(i) PROVE SecuredInv'
  <2>1. /\ queue' = queue \cup {i} /\ UNCHANGED <<conf, ssl, later, pc, key, ic>>
        /\ \A j \in Ings : ing'[j] = ing[j] \/ j = i
    BY <1>2 DEF UserApply, UserDelete, TypeOK, nginxDir, worker
  <2> QED BY <2>1, SecuredFrame
<1>3. ASSUME NEW s \in Svcs, SvcToggle(s) PROVE SecuredInv'
  BY <1>3, SecuredFrame DEF SvcToggle, nginxDir, workqueue, worker
<1>4. ASSUME NEW i \in Ings, IssueCert(i) PROVE SecuredInv'
  BY <1>4, SecuredFrame DEF IssueCert, nginxDir, workqueue, worker
<1>5. ASSUME NEW i \in Ings, Requeue(i) PROVE SecuredInv'
  <2>1. queue' \cup later' = queue \cup later
    BY <1>5 DEF Requeue
  <2> QED BY <1>5, <2>1, SecuredFrame DEF Requeue, cluster, nginxDir, worker
<1>6. ASSUME NEW i \in Ings, Begin(i) PROVE SecuredInv'
  BY <1>6, SecuredByBegin
<1>7. CASE CheckServices \/ Resources \/ Extract
  <2>1. /\ pc # "idle" /\ UNCHANGED <<ing, conf, ssl>>
        /\ Fail \/ \E l \in Steps \ {"default"} : Goto(l)
    BY <1>7 DEF CheckServices, Resources, Extract, cluster, nginxDir, Steps
  <2> QED BY <2>1, SecuredByWorker
<1>8. CASE Rules
  BY <1>1, <1>8, SecuredByRules
<1>9. CASE Default
  BY <1>9, SecuredByDefault
<1>10. CASE Restart
  <2>1. ing' = ing /\ pc' = "idle" /\ queue' = {i \in Ings : ing[i] # None}
    BY <1>10 DEF Restart, cluster
  <2> QED BY <2>1 DEF SecuredInv, Settled
<1>11. CASE Resync
  <2>1. queue \subseteq queue' /\ UNCHANGED <<ing, conf, ssl, later, pc, key, ic>>
    BY <1>11 DEF Resync, cluster, nginxDir, worker
  <2> QED BY <2>1, SecuredFrame
<1> QED
  BY <1>1, <1>2, <1>3, <1>4, <1>5, <1>6, <1>7, <1>8, <1>9, <1>10, <1>11
  DEF Next, Users, Reconciling

(* Where cert-manager issues a certificate before the worker renders the   *)
(* servers of its Ingress, a settled Ingress with a file of its own is     *)
(* served over https with its certificate: what reconcile_https finds      *)
(* takes a certificate that is late.                                       *)
THEOREM HttpsServedWhenIssued ==
  ASSUME DistinctFiles
  PROVE  Spec /\ [][IssuedFirst]_vars => []HttpsServed
<1>1. Init => SecuredInv
  BY DEF Init, SecuredInv, Settled
<1>2. TypeOK /\ WorkerInv /\ SecuredInv /\ [Next]_vars /\ [IssuedFirst]_vars => SecuredInv'
  BY SecuredStep
<1>3. SecuredInv => HttpsServed
  BY DEF SecuredInv, Secured, HttpsServed
<1> QED BY <1>1, <1>2, <1>3, TypeCorrect, WorkerInvAlways, PTL DEF Spec
==============================================================================
