------------------------ MODULE ConfReload_started_proof ------------------------
(***************************************************************************)
(* A controller that has started, whose operating system fails nothing and *)
(* whose nginx.conf is never refused, misses no change: NothingMissed, for *)
(* every set of Ingresses, every set of versions and every bound.          *)
(***************************************************************************)
EXTENDS ConfReload_proof

(* The worker is in the middle of a change that ends by telling nginx: the *)
(* clean-up of an Ingress notifies the conf.d watcher, the reload of       *)
(* nginx.conf signals.                                                     *)
Midway == \/ pc # "idle" /\ cur \in Ings
          \/ pc \in {"overwrite", "drop", "test", "commit", "signal"} /\ cur = Main

(* The version that becomes the production file if the reload succeeds.    *)
Candidate == CASE pc \in {"stat", "backup", "truncate", "overwrite"} -> test[cur]
               [] pc \in {"test", "commit"} -> Tried
               [] OTHER -> prod[cur]

(* nginx and both watchers are there, and nothing is damaged. *)
Up == nginx = "up" /\ watching = Watchers /\ starter = "gone" /\ ~tainted

(* A reload of nginx.conf is never refused. *)
MainAccepted ==
  /\ desired[Main] \in Valid \cup {Absent}
  /\ cur = Main /\ pc # "idle" =>
       /\ Candidate \in Valid
       /\ pc \notin {"rollback", "restore", "fail"}

(* What the clean-up will remove. *)
Leftover == pc # "idle" => test[cur] # Absent \/ bak[cur] # Absent

(* nginx serves what the files hold, or will be told to load them. *)
Told == Midway \/ ~Drained \/ running = Loaded

(* An Ingress that waits for nothing has its file, or is about to. *)
UpToDate ==
  /\ pc # "idle" /\ cur \in Ings => retry = {cur}
  /\ \A c \in Ings \ (queue \cup later) :
       IF pc = "idle" \/ cur # c THEN prod[c] = desired[c]
       ELSE pc \in {"rollback", "restore", "fail"} \/ Candidate = desired[c]

Started == Up /\ MainAccepted /\ Leftover /\ Told /\ UpToDate
StartedInv == faults = 0 => Started

USE DEF Confs, Watchers, FileState, Goto, FaultFree, Fault, RenderDefault

(* The types and ReloadInv hold from here too. *)
LEMMA StartedReloadInv == StartedSpec => [](TypeOK /\ ReloadInv)
<1>1. ASSUME StartedInit PROVE TypeOK
  <2>1. /\ prod \in [Confs -> FileState] /\ test \in [Confs -> FileState]
        /\ bak \in [Confs -> FileState] /\ desired \in [Confs -> Versions \cup {Absent}]
    BY <1>1, ContentAssumption DEF StartedInit
  <2>2. /\ events \in [Watchers -> 0..EventCap]
        /\ changes \in 0..MaxChanges /\ faults \in 0..MaxFaults
    BY <1>1, BoundsAssumption DEF StartedInit
  <2>3. running \subseteq Confs \X Valid
    BY <1>1, ContentAssumption DEF StartedInit
  <2> QED BY <1>1, <2>1, <2>2, <2>3 DEF StartedInit, TypeOK
<1>2. ASSUME StartedInit PROVE ReloadInv
  <2>1. OnTrack
    BY <1>2, NamesAssumption, ContentAssumption DEF StartedInit, OnTrack, Phase, AtRest
  <2>2. \A c \in Ings : stored[c] = Absent
    BY <1>2, NamesAssumption DEF StartedInit, stored, Swapping
  <2> QED BY <2>1, <2>2, NoClash DEF ReloadInv, InstalledApart
<1>3. TypeOK /\ ReloadInv /\ [Next]_vars => TypeOK' /\ ReloadInv'
  BY TypeStep, ReloadInvStep
<1> QED BY <1>1, <1>2, <1>3, PTL DEF StartedSpec

----------------------------------------------------------------------------
(* What the steps have in common. *)

(* A started controller that is not midway has a directory nginx accepts,  *)
(* though the test file of nginx.conf, which nginx never reads, may exist. *)
LEMMA AcceptedUnlessMidway ==
  ASSUME TypeOK, ReloadInv, Up, MainAccepted, ~Midway
  PROVE  ConfigOK
<1> USE NamesAssumption, ContentAssumption
<1>1. ~tainted /\ cur \in Confs /\ prod[Main] # Absent
  BY DEF Up, ReloadInv, OnTrack, TypeOK
<1>2. CASE pc = "idle"
  BY <1>1, <1>2, Corollaries DEF IdleClean
<1>3. CASE pc # "idle"
  <2>1. cur = Main /\ pc \in {"stat", "backup", "truncate", "clean"}
    BY <1>1, <1>3 DEF Midway, MainAccepted, TypeOK
  <2>2. \A c \in Ings : AtRest(c)
    BY <1>1, <2>1 DEF ReloadInv, OnTrack
  <2>3. prod[Main] \in Valid
    BY <1>1, <2>1 DEF ReloadInv, OnTrack, Phase
  <2>4. \A f \in Included : f[2] \in Valid \cup {Absent, Empty}
    BY <2>2, <2>3 DEF Included, AtRest
  <2>5. ASSUME NEW c \in Ings, NEW d \in Ings PROVE Together(c, d)
    <3>1. stored[c] = prod[c] /\ stored[d] = prod[d]
      BY <2>1 DEF stored
    <3>2. c # d => Apart(<<c, prod[c]>>, <<d, prod[d]>>)
      BY <1>1, <3>1 DEF ReloadInv, InstalledApart
    <3>3. test[c] = Absent /\ test[d] = Absent
      BY <2>2 DEF AtRest
    <3> QED BY <3>2, <3>3, NoClash DEF Together
  <2> QED BY <2>3, <2>4, <2>5 DEF ConfigOK
<1> QED BY <1>2, <1>3

(* nginx does not read the test file of nginx.conf. *)
LEMMA LoadedKept ==
  ASSUME UNCHANGED prod, \A c \in Ings : test'[c] = test[c]
  PROVE  Loaded' = Loaded
BY DEF Loaded, Included

(* A step that changes nothing nginx reads, and nobody's pending work.     *)
LEMMA ToldKept ==
  ASSUME Told, Loaded' = Loaded, UNCHANGED <<running, hup, events, wpc>>, Midway => Midway'
  PROVE  Told'
BY DEF Told, Drained

(* A notified watcher has an event to handle. *)
LEMMA NotifiedIsPending ==
  ASSUME TypeOK, NEW w \in Watchers, w \in watching, Notify(w)
  PROVE  ~Drained'
<1>1. events' = [events EXCEPT ![w] = IF events[w] < EventCap THEN events[w] + 1
                                      ELSE events[w]]
  BY DEF Notify
<1>2. events[w] \in 0..EventCap /\ events'[w] > 0
  BY <1>1, BoundsAssumption DEF TypeOK
<1> QED BY <1>2 DEF Drained
(* Without a fault, every action of the worker is one assignment. *)
NoFault == faults = 0 /\ faults' = 0
Steady == TypeOK /\ TypeOK' /\ ReloadInv /\ ReloadInv' /\ Started /\ NoFault

LEMMA UserStep ==
  ASSUME Steady, MainVersions \subseteq Valid, Users \/ \E c \in Confs : Requeue(c)
  PROVE  Started'
<1> USE NamesAssumption, ContentAssumption
<1>1. UNCHANGED <<prod, test, bak, pc, cur, first, retry, nginx, running, hup, starter,
                  watching, events, wpc, tainted>>
  BY DEF Users, UserApply, UserDelete, Requeue, files, worker, process, watchers, counters
<1>2. \A c \in Ings \ (queue' \cup later') :
         c \notin queue \cup later /\ desired'[c] = desired[c]
  BY DEF Users, UserApply, UserDelete, Requeue, Steady, TypeOK
<1>3. desired'[Main] \in Valid \cup {Absent}
  <2>1. CASE Users
    BY <2>1 DEF Users, UserApply, UserDelete, Offered, Steady, Started, MainAccepted, TypeOK
  <2>2. CASE \E c \in Confs : Requeue(c)
    BY <2>2 DEF Requeue, Steady, Started, MainAccepted
  <2> QED BY <2>1, <2>2
<1>4. Up' /\ Leftover'
  BY <1>1 DEF Steady, Started, Up, Leftover
<1>5. MainAccepted'
  BY <1>1, <1>3 DEF Steady, Started, MainAccepted, Candidate, Tried
<1>6. Told'
  BY <1>1, LoadedKept, ToldKept DEF Steady, Started, Midway
<1>7. UpToDate'
  BY <1>1, <1>2 DEF Steady, Started, UpToDate, Candidate, Tried
<1> QED BY <1>4, <1>5, <1>6, <1>7 DEF Started

LEMMA BeginStep ==
  ASSUME Steady, NEW c \in Confs, Begin(c)
  PROVE  Started'
<1> USE NamesAssumption, ContentAssumption
<1>1. /\ pc = "idle" /\ pc' = "stat" /\ cur' = c /\ retry' = {c} /\ first' = FALSE
      /\ queue' = queue \ {c} /\ c \in queue /\ desired[c] # Absent
      /\ test' = [test EXCEPT ![c] = desired[c]]
      /\ c = Main => events' = events
      /\ UNCHANGED <<later, desired, prod, bak, nginx, running, hup, starter, watching,
                     wpc, tainted>>
  BY DEF Begin, Render, Steady, NoFault, process
<1>2. test'[c] = desired[c] /\ \A d \in Confs \ {c} : test'[d] = test[d]
  BY <1>1 DEF Steady, TypeOK
<1>3. Candidate' = desired[c]
  BY <1>1, <1>2 DEF Candidate
<1>4. Up' /\ Leftover'
  BY <1>1, <1>2 DEF Steady, Started, Up, Leftover
<1>5. MainAccepted'
  BY <1>1, <1>3 DEF Steady, Started, MainAccepted
<1>6. Told'
  <2>1. CASE c \in Ings
    BY <1>1, <2>1 DEF Told, Midway
  <2>2. CASE c = Main
    <3>1. Loaded' = Loaded
      BY <1>1, <1>2, <2>2, LoadedKept
    <3>2. events' = events
      BY <2>2 DEF Begin
    <3> QED BY <1>1, <3>1, <3>2, ToldKept DEF Midway, Steady, Started
  <2> QED BY <2>1, <2>2
<1>7. UpToDate'
  BY <1>1, <1>3 DEF Steady, Started, UpToDate
<1> QED BY <1>4, <1>5, <1>6, <1>7 DEF Started

LEMMA ClearStep ==
  ASSUME Steady, NEW c \in Confs, Clear(c)
  PROVE  Started'
<1> USE NamesAssumption, ContentAssumption
<1>1. /\ pc = "idle" /\ desired[c] = Absent /\ queue' = queue \ {c}
      /\ UNCHANGED <<desired, later, bak, nginx, running, hup, starter, watching, wpc,
                     tainted>>
  <2>1. ~Fault
    BY DEF Steady, NoFault
  <2>2. UNCHANGED tainted
    BY <2>1 DEF Clear, Fault
  <2> QED BY <2>2 DEF Clear, process
<1>2. Up'
  BY <1>1 DEF Steady, Started, Up
<1>3. CASE c \in Ings /\ prod[c] # Absent
  <2>1. /\ prod' = [prod EXCEPT ![c] = Absent] /\ Notify("conf")
        /\ UNCHANGED <<test, pc, cur, first, retry>>
    BY <1>3 DEF Clear, NotifyRemoved, worker
  <2>2. prod'[c] = Absent /\ \A d \in Confs \ {c} : prod'[d] = prod[d]
    BY <2>1 DEF Steady, TypeOK
  <2>3. Leftover' /\ MainAccepted'
    BY <1>1, <2>1 DEF Steady, Started, Leftover, MainAccepted
  <2>4. Told'
    BY <2>1, NotifiedIsPending DEF Told, Steady, Started, Up
  <2>5. UpToDate'
    BY <1>1, <2>1, <2>2 DEF Steady, Started, UpToDate
  <2> QED BY <1>2, <2>3, <2>4, <2>5 DEF Started
<1>4. CASE ~(c \in Ings /\ prod[c] # Absent)
  <2>1. /\ test' = [test EXCEPT ![Main] = DefaultConf] /\ pc' = "stat" /\ cur' = Main
        /\ UNCHANGED <<prod, events>>
    <3>1. ~Fault
      BY DEF Steady, NoFault
    <3> QED BY <1>4, <3>1 DEF Clear, Render
  <2>2. test'[Main] = DefaultConf /\ \A d \in Ings : test'[d] = test[d]
    BY <2>1 DEF Steady, TypeOK
  <2>3. Candidate' = DefaultConf
    BY <2>1, <2>2 DEF Candidate
  <2>4. Leftover' /\ MainAccepted'
    BY <1>1, <2>1, <2>2, <2>3 DEF Steady, Started, Leftover, MainAccepted
  <2>5. Told'
    BY <1>1, <2>1, <2>2, LoadedKept, ToldKept DEF Midway, Steady, Started
  <2>6. UpToDate'
    BY <1>1, <1>4, <2>1 DEF Steady, Started, UpToDate
  <2> QED BY <1>2, <2>4, <2>5, <2>6 DEF Started
<1> QED BY <1>3, <1>4
(* The steps of reload up to the verdict of nginx -t. *)
LEMMA SwapStep ==
  ASSUME Steady, Stat \/ Backup \/ Truncate \/ Overwrite \/ DropTest
  PROVE  Started'
<1> USE NamesAssumption, ContentAssumption
<1>a. /\ pc # "idle" /\ pc' # "idle" /\ cur \in Confs /\ ~tainted
      /\ UNCHANGED <<desired, queue, later, cur, retry, nginx, running, hup, starter,
                     watching, wpc, tainted>>
  <2>1. cur \in Confs /\ ~tainted /\ NoFault
    BY DEF Steady, Started, Up, TypeOK
  <2>2. Stat \/ DropTest => UNCHANGED tainted
    BY DEF Stat, DropTest, counters
  <2>3. Overwrite => UNCHANGED tainted
    BY <2>1 DEF Overwrite, NoFault
  <2> QED
    BY <2>1, <2>2, <2>3
    DEF Stat, Backup, Truncate, Overwrite, DropTest, objects, process, watchers
<1>b. Up'
  BY <1>a DEF Steady, Started, Up
<1>c. \A c \in Confs \ {cur} : prod'[c] = prod[c] /\ test'[c] = test[c]
  BY <1>a DEF Stat, Backup, Truncate, Overwrite, DropTest, Steady, NoFault, TypeOK, files
<1>d. ASSUME Candidate' = Candidate,
             cur = Main => pc' \notin {"rollback", "restore", "fail"},
             cur = Main => Told',
             Leftover'
      PROVE  Started'
  <2>1. MainAccepted'
    BY <1>a, <1>d DEF Steady, Started, MainAccepted
  <2>2. Told'
    BY <1>a, <1>d DEF Told, Midway
  <2>3. UpToDate'
    <3>1. pc \notin {"rollback", "restore", "fail"}
      BY DEF Stat, Backup, Truncate, Overwrite, DropTest
    <3> QED BY <1>a, <1>c, <1>d, <3>1 DEF Steady, Started, UpToDate
  <2> QED BY <1>b, <1>d, <2>1, <2>2, <2>3 DEF Started
<1>1. CASE Stat
  <2>1. pc = "stat" /\ UNCHANGED <<prod, test, bak, events>>
    BY <1>1 DEF Stat, files, watchers
  <2>2. /\ ~first /\ prod[Main] # Absent
        /\ \/ pc' = "test" /\ first' /\ prod[cur] = Absent
           \/ pc' = "clean" /\ prod[cur] = test[cur]
           \/ pc' = "backup"
    BY <1>1, <2>1, <1>a DEF Stat, Steady, ReloadInv, OnTrack, Phase
  <2>3. Candidate' = Candidate
    BY <1>a, <2>1, <2>2 DEF Candidate, Tried
  <2>4. cur = Main => Told'
    BY <1>a, <2>1, <2>2, LoadedKept, ToldKept DEF Midway, Steady, Started
  <2>5. Leftover'
    BY <1>a, <2>1 DEF Steady, Started, Leftover
  <2> QED BY <1>d, <2>2, <2>3, <2>4, <2>5
<1>2. CASE Backup
  <2>1. /\ pc = "backup" /\ pc' = "truncate" /\ bak' = [bak EXCEPT ![cur] = prod[cur]]
        /\ UNCHANGED <<prod, test, events>>
    BY <1>2, <1>a DEF Backup, Steady, NoFault, ReloadInv, OnTrack, Phase, watchers
  <2>2. test[cur] # Absent
    BY <1>a, <2>1 DEF Steady, ReloadInv, OnTrack, Phase
  <2>3. cur = Main => Told'
    BY <1>a, <2>1, LoadedKept, ToldKept DEF Midway, Steady, Started
  <2> QED BY <1>a, <1>d, <2>1, <2>2, <2>3 DEF Candidate, Leftover
<1>3. CASE Truncate
  <2>1. /\ pc = "truncate" /\ pc' = "overwrite" /\ UNCHANGED <<test, bak>>
    BY <1>3 DEF Truncate, Steady, NoFault
  <2>2. Candidate' = Candidate /\ Leftover'
    BY <1>a, <2>1 DEF Candidate, Steady, Started, Leftover
  <2> QED BY <1>a, <1>d, <2>1, <2>2 DEF Told, Midway
<1>4. CASE Overwrite
  <2>1. /\ pc = "overwrite" /\ pc' = "drop" /\ prod' = [prod EXCEPT ![cur] = test[cur]]
        /\ UNCHANGED <<test, bak>>
    BY <1>4 DEF Overwrite, Steady, NoFault
  <2>2. Candidate' = Candidate /\ Leftover'
    BY <1>a, <2>1 DEF Candidate, Steady, Started, Leftover, TypeOK
  <2> QED BY <1>a, <1>d, <2>1, <2>2 DEF Told, Midway
<1>5. CASE DropTest
  <2>1. pc = "drop" /\ pc' = "test" /\ UNCHANGED <<prod, bak, first>>
    BY <1>5 DEF DropTest
  <2>2. ~first /\ bak[cur] # Absent
    BY <1>a, <2>1 DEF Steady, ReloadInv, OnTrack, Phase
  <2>3. Candidate' = Candidate /\ Leftover'
    BY <1>a, <2>1, <2>2 DEF Candidate, Tried, Leftover
  <2> QED BY <1>a, <1>d, <2>1, <2>3 DEF Told, Midway
<1> QED BY <1>1, <1>2, <1>3, <1>4, <1>5

(* The verdict, and what follows it.  nginx.conf is never refused.         *)
LEMMA VerdictStep ==
  ASSUME Steady, NginxTest \/ Rollback \/ Restore \/ Commit \/ Signal
  PROVE  Started'
<1> USE NamesAssumption, ContentAssumption
<1>a. /\ pc # "idle" /\ pc' # "idle" /\ cur \in Confs /\ ~tainted
      /\ UNCHANGED <<desired, queue, later, test, bak, cur, retry, nginx, running, starter,
                     watching, events, wpc, tainted>>
  BY DEF NginxTest, Rollback, Restore, Commit, Signal, Steady, NoFault, Started, Up,
         TypeOK, objects, files, process, watchers, counters
<1>b. Up' /\ Leftover'
  BY <1>a DEF Steady, Started, Up, Leftover
<1>c. \A c \in Confs \ {cur} : prod'[c] = prod[c]
  BY <1>a DEF NginxTest, Rollback, Restore, Commit, Signal, Steady, NoFault, TypeOK, files
<1>d. ASSUME pc' \in {"rollback", "restore", "fail"} => cur # Main
                     /\ (pc \in {"rollback", "restore", "fail"} \/ cur \in Ings),
             pc' \notin {"rollback", "restore", "fail"} => Candidate' = Candidate
                     /\ pc \notin {"rollback", "restore", "fail"},
             cur = Main => Told'
      PROVE  Started'
  <2>1. MainAccepted'
    BY <1>a, <1>d DEF Steady, Started, MainAccepted
  <2>2. Told'
    BY <1>a, <1>d DEF Told, Midway
  <2>3. UpToDate'
    BY <1>a, <1>c, <1>d DEF Steady, Started, UpToDate
  <2> QED BY <1>b, <2>1, <2>2, <2>3 DEF Started
<1>1. CASE NginxTest
  <2>1. pc = "test" /\ UNCHANGED <<prod, first>>
    BY <1>1 DEF NginxTest, files
  <2>2. pc' = IF ConfigOK THEN "commit" ELSE IF first THEN "fail" ELSE "rollback"
    BY <1>1 DEF NginxTest, Steady, NoFault
  <2>3. cur = Main => ConfigOK
    <3>1. \A c \in Ings : cur = Main => Apart(<<cur, Tried>>, <<c, prod[c]>>)
      BY NoClash
    <3> QED
      BY <1>a, <2>1, <3>1, Corollaries
      DEF NoFalseReject, Candidate, Steady, Started, MainAccepted
  <2>4. pc' = "commit" => Candidate' = Candidate
    BY <1>a, <2>1 DEF Candidate, Tried
  <2> QED BY <1>a, <1>d, <2>1, <2>2, <2>3, <2>4 DEF Told, Midway
<1>2. CASE Rollback \/ Restore
  <2>1. pc \in {"rollback", "restore"} /\ pc' \in {"restore", "fail"}
    BY <1>2 DEF Rollback, Restore
  <2>2. cur # Main
    BY <1>a, <2>1 DEF Steady, Started, MainAccepted
  <2> QED BY <1>d, <2>1, <2>2
<1>3. CASE Commit
  <2>1. /\ pc = "commit" /\ pc' = "signal"
        /\ prod' = [prod EXCEPT ![cur] = IF test[cur] = Absent THEN @ ELSE test[cur]]
    BY <1>3 DEF Commit, Steady, NoFault
  <2>2. first => test[cur] # Absent
    BY <1>a, <2>1 DEF Steady, ReloadInv, OnTrack, Phase
  <2>3. ~first => test[cur] = Absent
    BY <1>a, <2>1 DEF Steady, ReloadInv, OnTrack, Phase
  <2>4. prod'[cur] = IF test[cur] = Absent THEN prod[cur] ELSE test[cur]
    BY <1>a, <2>1 DEF Steady, TypeOK
  <2>5. Candidate' = Candidate
    BY <1>a, <2>1, <2>2, <2>3, <2>4 DEF Candidate, Tried
  <2> QED BY <1>a, <1>d, <2>1, <2>5 DEF Told, Midway
<1>4. CASE Signal
  <2>1. /\ pc = "signal" /\ pc' = "clean" /\ hup' = TRUE /\ UNCHANGED prod
    BY <1>4 DEF Signal, Steady, Started, Up, files
  <2>2. Candidate' = Candidate /\ Told'
    BY <1>a, <2>1 DEF Candidate, Told, Drained
  <2> QED BY <1>d, <2>1, <2>2
<1> QED BY <1>1, <1>2, <1>3, <1>4

(* The clean-up always removes a file, so for an Ingress it always tells   *)
(* the conf.d watcher; that of nginx.conf follows a signal.                *)
LEMMA FinishStep ==
  ASSUME Steady, Finish
  PROVE  Started'
<1> USE NamesAssumption, ContentAssumption
<1>1. /\ pc \in {"clean", "fail"} /\ pc' = "idle" /\ cur \in Confs /\ ~tainted
      /\ test' = [test EXCEPT ![cur] = Absent]
      /\ NotifyRemoved(cur, bak[cur] # Absent \/ test[cur] # Absent)
      /\ later' = IF pc = "fail" THEN later \cup retry ELSE later
      /\ UNCHANGED <<desired, queue, prod, cur, nginx, running, hup, starter, watching, wpc,
                     tainted>>
  <2>1. /\ pc \in {"clean", "fail"} /\ pc' = "idle" /\ cur \in Confs /\ ~tainted
        /\ test' = [test EXCEPT ![cur] = Absent]
        /\ bak' = [bak EXCEPT ![cur] = Absent]
        /\ later' = IF pc = "fail" THEN later \cup retry ELSE later
        /\ UNCHANGED <<desired, queue, prod, cur, nginx, running, hup, starter, watching,
                       wpc, tainted>>
    BY DEF Finish, Steady, NoFault, Started, Up, TypeOK, process
  <2>2. (bak' # bak \/ test' # test) <=> (bak[cur] # Absent \/ test[cur] # Absent)
    BY <2>1 DEF Steady, TypeOK
  <2>3. NotifyRemoved(cur, bak[cur] # Absent \/ test[cur] # Absent)
    BY <2>2 DEF Finish, NotifyRemoved
  <2> QED BY <2>1, <2>3
<1>2. Up' /\ Leftover' /\ MainAccepted'
  BY <1>1 DEF Steady, Started, Up, Leftover, MainAccepted
<1>3. Told'
  <2>1. CASE cur \in Ings
    <3>1. Notify("conf")
      BY <1>1, <2>1 DEF NotifyRemoved, Steady, Started, Leftover
    <3> QED BY <3>1, NotifiedIsPending DEF Told, Steady, Started, Up
  <2>2. CASE cur = Main
    <3>1. UNCHANGED events /\ ~Midway
      BY <1>1, <2>2 DEF NotifyRemoved, Midway
    <3>2. Loaded' = Loaded
      BY <1>1, <2>2, LoadedKept DEF Steady, TypeOK
    <3> QED BY <1>1, <3>1, <3>2, ToldKept DEF Steady, Started
  <2> QED BY <1>1, <2>1, <2>2
<1>4. UpToDate'
  <2>1. cur \in Ings \ (queue' \cup later') => prod[cur] = desired[cur]
    BY <1>1 DEF Steady, Started, UpToDate, Candidate
  <2> QED BY <1>1, <2>1 DEF Steady, Started, UpToDate
<1> QED BY <1>2, <1>3, <1>4 DEF Started
(* nginx and the watchers.  Midway they may find the directory refused and *)
(* drop what they were told; otherwise it is accepted and the word is      *)
(* passed on, the last of it to nginx.                                     *)
FilesKept ==
  UNCHANGED <<desired, queue, later, prod, test, bak, pc, cur, first, retry, nginx, starter,
              watching, tainted>>

LEMMA FilesKeptStep ==
  ASSUME Started, FilesKept, Told'
  PROVE  Started'
<1>1. Candidate' = Candidate /\ Up' /\ Leftover'
  BY DEF FilesKept, Candidate, Tried, Started, Up, Leftover
<1>2. MainAccepted' /\ UpToDate'
  BY <1>1 DEF FilesKept, Started, MainAccepted, UpToDate
<1> QED BY <1>1, <1>2 DEF Started

LEMMA NginxStep ==
  ASSUME Steady, Nginx
  PROVE  Started'
<1>1. NginxLoad
  BY DEF Nginx, NginxExec, NginxRead, NginxPid, Steady, Started, Up
<1>2. FilesKept
  BY <1>1 DEF NginxLoad, FilesKept, objects, files, worker, watchers, counters
<1>3. Told'
  <2>1. CASE Midway
    BY <1>2, <2>1 DEF Told, Midway, FilesKept
  <2>2. CASE ~Midway
    <3>1. ConfigOK
      BY <2>2, AcceptedUnlessMidway DEF Steady, Started
    <3>2. running' = Loaded'
      BY <1>1, <1>2, <3>1, LoadedKept DEF NginxLoad, FilesKept
    <3> QED BY <3>2 DEF Told
  <2> QED BY <2>1, <2>2
<1> QED BY <1>2, <1>3, FilesKeptStep DEF Steady

LEMMA WatcherStep ==
  ASSUME Steady, NEW w \in Watchers, Watcher(w)
  PROVE  Started'
<1>1. FilesKept
  BY DEF Watcher, WatcherTest, WatcherSignal, FilesKept, objects, files, worker, process,
         counters
<1>2. Told'
  <2>1. CASE Midway
    BY <1>1, <2>1 DEF Told, Midway, FilesKept
  <2>2. CASE ~Midway /\ WatcherTest(w)
    <3>1. ConfigOK
      BY <2>2, AcceptedUnlessMidway DEF Steady, Started
    <3>2. wpc'[w] = "signal"
      BY <2>2, <3>1 DEF WatcherTest, Steady, TypeOK
    <3> QED BY <3>2 DEF Told, Drained
  <2>3. CASE ~Midway /\ WatcherSignal(w)
    <3>1. hup'
      BY <2>3 DEF WatcherSignal, Steady, Started, Up
    <3> QED BY <3>1 DEF Told, Drained
  <2> QED BY <2>1, <2>2, <2>3 DEF Watcher
<1> QED BY <1>1, <1>2, FilesKeptStep DEF Steady

(* A fault is remembered, so a state without one follows from one without. *)
LEMMA FaultsRemembered ==
  ASSUME TypeOK, [Next]_vars, faults' = 0
  PROVE  faults = 0
<1> USE DEF objects, files, worker, process, watchers, counters
<1>0. faults \in Nat
  BY BoundsAssumption DEF TypeOK
<1>1. ASSUME Users \/ \E c \in Confs : Requeue(c) PROVE faults = 0
  BY <1>1 DEF Users, UserApply, UserDelete, Requeue
<1>2. ASSUME NEW c \in Confs, Begin(c) \/ Clear(c) PROVE faults = 0
  <2>1. faults' = faults \/ faults' = faults + 1
    BY <1>2 DEF Begin, Clear
  <2> QED BY <1>0, <2>1
<1>3. ASSUME Reload PROVE faults = 0
  <2>1. Stat \/ DropTest \/ Signal => faults' = faults
    BY DEF Stat, DropTest, Signal
  <2>4. Rollback \/ Finish => faults' = faults \/ faults' = faults + 1
    BY DEF Rollback, Finish
  <2>2. Backup \/ Truncate \/ Overwrite => faults' = faults \/ faults' = faults + 1
    BY DEF Backup, Truncate, Overwrite
  <2>3. NginxTest \/ Restore \/ Commit => faults' = faults \/ faults' = faults + 1
    BY DEF NginxTest, Restore, Commit
  <2> QED BY <1>0, <1>3, <2>1, <2>2, <2>3, <2>4 DEF Reload
<1>4. ASSUME Nginx PROVE faults = 0
  BY <1>4 DEF Nginx, NginxExec, NginxRead, NginxPid, NginxLoad
<1>5. ASSUME Crash \/ Poll \/ StartTimeout \/ AddWatch PROVE faults = 0
  BY <1>0, <1>5 DEF Crash, Poll, StartTimeout, AddWatch
<1>6. ASSUME NEW w \in Watchers, Watcher(w) PROVE faults = 0
  BY <1>0, <1>6 DEF Watcher, WatcherTest, WatcherSignal
<1>7. ASSUME UNCHANGED vars PROVE faults = 0
  BY <1>7 DEF vars
<1> QED BY <1>1, <1>2, <1>3, <1>4, <1>5, <1>6, <1>7 DEF Next, Worker

LEMMA StartedStep ==
  ASSUME MainVersions \subseteq Valid, TypeOK, TypeOK', ReloadInv, ReloadInv', StartedInv,
         [Next]_vars
  PROVE  StartedInv'
<1> SUFFICES ASSUME faults' = 0 PROVE Started'
  BY DEF StartedInv
<1>1. Steady
  BY FaultsRemembered DEF Steady, NoFault, StartedInv
<1>2. ASSUME Users \/ \E c \in Confs : Requeue(c) PROVE Started'
  BY <1>1, <1>2, UserStep
<1>3. ASSUME Worker PROVE Started'
  BY <1>1, <1>3, BeginStep, ClearStep, SwapStep, VerdictStep, FinishStep DEF Worker, Reload
<1>4. ASSUME Nginx PROVE Started'
  BY <1>1, <1>4, NginxStep
<1>5. ~Crash /\ ~Poll /\ ~StartTimeout /\ ~AddWatch
  BY <1>1 DEF Steady, NoFault, Started, Up, Crash, Poll, StartTimeout, AddWatch
<1>6. ASSUME NEW w \in Watchers, Watcher(w) PROVE Started'
  BY <1>1, <1>6, WatcherStep
<1>7. ASSUME UNCHANGED vars PROVE Started'
  <2>1. FilesKept /\ UNCHANGED <<running, hup, events, wpc>>
    BY <1>7 DEF FilesKept, vars, objects, files, worker, process, watchers, counters
  <2>2. Told'
    BY <1>1, <2>1, LoadedKept, ToldKept DEF FilesKept, Midway, Steady, Started
  <2> QED BY <1>1, <2>1, <2>2, FilesKeptStep DEF Steady
<1> QED BY <1>2, <1>3, <1>4, <1>5, <1>6, <1>7 DEF Next

(* With nothing pending between two reloads, the files are what the        *)
(* objects ask for and nginx serves them.                                  *)
LEMMA StartedMissesNothing ==
  ASSUME TypeOK, ReloadInv, StartedInv
  PROVE  NothingMissed
<1> USE NamesAssumption, ContentAssumption
<1> SUFFICES ASSUME faults = 0, pc = "idle", Drained
             PROVE  /\ running = Loaded
                    /\ \A c \in Ings \ (queue \cup later) : Serves(c) = {desired[c]} \ {Absent}
  BY DEF NothingMissed
<1>1. running = Loaded
  BY DEF StartedInv, Started, Told, Midway
<1>2. \A c \in Ings : AtRest(c)
  BY DEF StartedInv, Started, Up, ReloadInv, OnTrack, Phase
<1>3. ASSUME NEW c \in Ings \ (queue \cup later)
      PROVE  Serves(c) = {desired[c]} \ {Absent}
  <2>1. prod[c] = desired[c] /\ prod[c] \in Valid \cup {Absent} /\ test[c] = Absent
    BY <1>2 DEF StartedInv, Started, UpToDate, AtRest
  <2>2. c # Main /\ c \in Confs
    OBVIOUS
  <2>3. ASSUME NEW g \in running, g[1] = c PROVE g[2] = prod[c] /\ prod[c] # Absent
    <3>1. g \in Included /\ g[2] \in Valid
      BY <1>1, <2>3 DEF Loaded
    <3>2. g[2] = prod[c] \/ g[2] = test[c]
      BY <2>3, <3>1 DEF Included
    <3> QED BY <2>1, <3>1, <3>2
  <2>4. prod[c] # Absent => <<c, prod[c]>> \in running
    BY <1>1, <2>1 DEF Loaded, Included
  <2> QED BY <2>1, <2>3, <2>4 DEF Serves
<1> QED BY <1>1, <1>3

(* A started controller stays one. *)
LEMMA StartedAlways ==
  ASSUME MainVersions \subseteq Valid
  PROVE  StartedSpec => []StartedInv
<1>1. StartedInit => StartedInv
  <2> SUFFICES ASSUME StartedInit PROVE Started
    BY DEF StartedInv
  <2>1. running = Loaded
    <3>1. \A c \in Ings : prod[c] = Absent /\ test[c] = Absent
      BY NamesAssumption DEF StartedInit
    <3>2. prod[Main] = ImageConf /\ ImageConf \in Valid /\ Absent \notin Valid
      BY ContentAssumption DEF StartedInit
    <3>3. running = {<<Main, ImageConf>>}
      BY DEF StartedInit
    <3>4. <<Main, ImageConf>> \in Included
      BY <3>2 DEF Included
    <3>5. ASSUME NEW f \in Included, f[2] \in Valid PROVE f = <<Main, ImageConf>>
      BY <3>1, <3>2, <3>5 DEF Included
    <3> QED BY <3>2, <3>3, <3>4, <3>5 DEF Loaded
  <2> QED
    BY <2>1, NamesAssumption
    DEF StartedInit, Started, Up, MainAccepted, Leftover, Told, UpToDate
<1>2. TypeOK /\ TypeOK' /\ ReloadInv /\ ReloadInv' /\ StartedInv /\ [Next]_vars
        => StartedInv'
  BY StartedStep
<1> QED BY <1>1, <1>2, StartedReloadInv, PTL DEF StartedSpec

(* A started controller misses no event: without faults, and as long as    *)
(* nobody asks for an nginx.conf that nginx refuses, nginx ends up with    *)
(* exactly the files of the objects whenever nothing is left to do.        *)
THEOREM NothingMissedWhenStarted ==
  ASSUME MainVersions \subseteq Valid
  PROVE  StartedSpec => []NothingMissed
<1>1. TypeOK /\ ReloadInv /\ StartedInv => NothingMissed
  BY StartedMissesNothing
<1> QED BY <1>1, StartedAlways, StartedReloadInv, PTL

(* What "no need to reload nginx" (reload) counts on: nginx runs the       *)
(* unchanged nginx.conf, or an event or a signal that will make it load    *)
(* the files is still to be handled.                                       *)
UnchangedIsTold ==
  faults = 0 /\ pc = "stat" /\ cur = Main /\ prod[Main] = test[Main] =>
    <<Main, prod[Main]>> \in running \/ ~Drained

(* Under the same conditions reload is right to skip an nginx.conf that    *)
(* has not changed: what reload_unchanged finds takes a start-up, a fault  *)
(* or a refused nginx.conf.                                                *)
THEOREM UnchangedIsToldWhenStarted ==
  ASSUME MainVersions \subseteq Valid
  PROVE  StartedSpec => []UnchangedIsTold
<1>1. ASSUME TypeOK, ReloadInv, StartedInv PROVE UnchangedIsTold
  <2> SUFFICES ASSUME faults = 0, pc = "stat", cur = Main, Drained
               PROVE  <<Main, prod[Main]>> \in running
    BY DEF UnchangedIsTold
  <2>1. running = Loaded
    BY <1>1, NamesAssumption DEF StartedInv, Started, Told, Midway
  <2>2. prod[Main] \in Valid
    BY <1>1 DEF StartedInv, Started, Up, ReloadInv, OnTrack, Phase
  <2> QED BY <2>1, <2>2 DEF Loaded, Included
<1> QED BY <1>1, StartedAlways, StartedReloadInv, PTL
==============================================================================
