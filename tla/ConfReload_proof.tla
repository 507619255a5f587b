--------------------------- MODULE ConfReload_proof ---------------------------
(***************************************************************************)
(* Proofs about ConfReload for every set of Ingresses, every set of        *)
(* versions, every way they clash and every bound: types, the inductive    *)
(* invariant ReloadInv, the step simulation of ConfStore, which keeps what *)
(* is installed apart, and the corollaries.                                *)
(***************************************************************************)
EXTENDS ConfReload, TLAPS

USE DEF Confs, Watchers, FileState, Goto, FaultFree, Fault, RenderDefault

(* Events stay within their bound. *)
LEMMA NotifyType ==
  ASSUME TypeOK, NEW w \in Watchers, Notify(w)
  PROVE  events' \in [Watchers -> 0..EventCap]
BY BoundsAssumption DEF TypeOK, Notify

LEMMA NotifyRemovedType ==
  ASSUME TypeOK, NEW c, NEW removed, NotifyRemoved(c, removed)
  PROVE  events' \in [Watchers -> 0..EventCap]
<1>1. CASE c \in Ings /\ removed
  BY <1>1, NotifyType DEF NotifyRemoved
<1>2. CASE ~(c \in Ings /\ removed)
  BY <1>2 DEF NotifyRemoved, TypeOK
<1> QED BY <1>1, <1>2

(* nginx only ever loads accepted versions. *)
LEMMA LoadedType ==
  ASSUME TypeOK
  PROVE  Loaded \subseteq Confs \X Valid
BY DEF Loaded, Included, TypeOK

LEMMA RestartType ==
  ASSUME TypeOK, Restart, UNCHANGED faults \/ Fault
  PROVE  TypeOK'
<1>1. faults' \in 0..MaxFaults
  BY BoundsAssumption DEF TypeOK
<1>2. /\ prod' \in [Confs -> FileState] /\ test' \in [Confs -> FileState]
      /\ bak' \in [Confs -> FileState]
  BY ContentAssumption DEF Restart
<1>3. events' \in [Watchers -> 0..EventCap]
  BY BoundsAssumption DEF Restart
<1> QED BY <1>1, <1>2, <1>3 DEF TypeOK, Restart


(* Every step keeps the types. *)
LEMMA TypeStep ==
  ASSUME TypeOK, [Next]_vars
  PROVE  TypeOK'
<1> USE ContentAssumption, BoundsAssumption
<1>1. ASSUME NEW c \in Confs, NEW v \in Offered(c), UserApply(c, v) PROVE TypeOK'
  BY <1>1 DEF TypeOK, UserApply, Offered, files, worker, process, watchers
<1>2. ASSUME NEW c \in Confs, UserDelete(c) PROVE TypeOK'
  BY <1>2 DEF TypeOK, UserDelete, files, worker, process, watchers
<1>3. ASSUME NEW c \in Confs, Requeue(c) PROVE TypeOK'
  BY <1>3 DEF TypeOK, Requeue, files, worker, process, watchers, counters
<1>4. ASSUME NEW c \in Confs, Begin(c) PROVE TypeOK'
  <2>1. events' \in [Watchers -> 0..EventCap]
    BY <1>4, NotifyType DEF Begin, TypeOK
  <2>2. faults' \in 0..MaxFaults
    BY <1>4 DEF Begin, TypeOK
  <2>3. test' \in [Confs -> FileState]
    BY <1>4 DEF Begin, Render, TypeOK
  <2> QED BY <1>4, <2>1, <2>2, <2>3 DEF TypeOK, Begin, Render, worker, process
<1>5. ASSUME NEW c \in Confs, Clear(c) PROVE TypeOK'
  <2>1. events' \in [Watchers -> 0..EventCap]
    BY <1>5, NotifyRemovedType DEF Clear, TypeOK
  <2>2. prod' \in [Confs -> FileState] /\ test' \in [Confs -> FileState]
    <3>1. prod' \in {prod, [prod EXCEPT ![c] = Absent]}
      BY <1>5 DEF Clear
    <3>2. \E t \in {DefaultConf, Empty, Torn} : test' \in {test, [test EXCEPT ![Main] = t]}
      BY <1>5 DEF Clear, Render, worker
    <3>3. {Absent, Empty, Torn, DefaultConf} \subseteq FileState
      BY DEF FileState
    <3>4. prod \in [Confs -> FileState] /\ test \in [Confs -> FileState]
      BY DEF TypeOK
    <3> QED BY <3>1, <3>2, <3>3, <3>4
  <2>3. queue' \subseteq Confs /\ later' \subseteq Confs /\ UNCHANGED <<desired, bak>>
    BY <1>5 DEF TypeOK, Clear
  <2>4. /\ pc' \in {"idle", "stat"} /\ cur' \in Confs /\ first' \in BOOLEAN
        /\ retry' \subseteq Confs
    BY <1>5 DEF TypeOK, Clear, Render, worker
  <2>5. UNCHANGED <<process, starter, watching, wpc, changes>>
    BY <1>5 DEF Clear
  <2>6. faults' \in 0..MaxFaults
    <3>1. faults' = faults \/ Fault
      BY <1>5 DEF Clear
    <3> QED BY <3>1 DEF TypeOK
  <2>7. tainted' \in BOOLEAN
    <3>1. tainted' \in {tainted, TRUE}
      BY <1>5 DEF Clear
    <3> QED BY <3>1 DEF TypeOK
  <2> QED BY <2>1, <2>2, <2>3, <2>4, <2>5, <2>6, <2>7 DEF TypeOK, process
<1>6. CASE Stat
  <2>1. /\ UNCHANGED <<objects, files, cur, retry, process, watchers, counters>>
        /\ pc' \in {"test", "clean", "backup"} /\ first' \in BOOLEAN
    BY <1>6 DEF Stat, Goto, TypeOK
  <2> QED BY <2>1 DEF TypeOK, objects, files, process, watchers, counters
<1>7. CASE Backup
  <2>1. bak' \in [Confs -> FileState] /\ faults' \in 0..MaxFaults
    BY <1>7 DEF TypeOK, Backup
  <2> QED BY <1>7, <2>1 DEF TypeOK, Backup, objects, process, watchers
<1>8. CASE Truncate
  BY <1>8 DEF TypeOK, Truncate, objects, process, watchers
<1>9. CASE Overwrite
  <2>1. prod' \in [Confs -> FileState] /\ faults' \in 0..MaxFaults
    BY <1>9 DEF TypeOK, Overwrite
  <2> QED BY <1>9, <2>1 DEF TypeOK, Overwrite, objects, process, watchers
<1>10. CASE DropTest
  <2>1. events' \in [Watchers -> 0..EventCap]
    BY <1>10, NotifyRemovedType DEF DropTest
  <2> QED BY <1>10, <2>1 DEF TypeOK, DropTest, objects, process, counters
<1>11. CASE NginxTest
  <2>1. pc' \in {"commit", "fail", "rollback"}
    BY <1>11 DEF NginxTest
  <2>2. faults' \in 0..MaxFaults
    BY <1>11 DEF TypeOK, NginxTest
  <2>3. tainted' \in BOOLEAN
    BY <1>11 DEF TypeOK, NginxTest
  <2> QED BY <1>11, <2>1, <2>2, <2>3 DEF TypeOK, NginxTest, objects, files, process, watchers
<1>12. CASE Rollback
  <2>1. prod' \in [Confs -> FileState] /\ faults' \in 0..MaxFaults /\ tainted' \in BOOLEAN
    <3>1. prod' \in {prod, [prod EXCEPT ![cur] = Empty]}
      BY <1>12 DEF Rollback
    <3>2. prod' \in [Confs -> FileState]
      BY <3>1 DEF TypeOK
    <3>3. faults' \in 0..MaxFaults
      BY <1>12 DEF TypeOK, Rollback
    <3>4. tainted' \in BOOLEAN
      BY <1>12 DEF TypeOK, Rollback
    <3> QED BY <3>2, <3>3, <3>4
  <2>2. /\ UNCHANGED <<objects, test, bak, cur, first, retry, process, watchers, changes>>
        /\ pc' \in {"restore", "fail"}
    BY <1>12 DEF Rollback
  <2> QED BY <2>1, <2>2 DEF TypeOK, objects, process, watchers
<1>13. CASE Restore
  <2>1. prod' \in [Confs -> FileState] /\ faults' \in 0..MaxFaults
    BY <1>13 DEF TypeOK, Restore
  <2> QED BY <1>13, <2>1 DEF TypeOK, Restore, objects, process, watchers
<1>14. CASE Commit
  <2>1. prod' \in [Confs -> FileState] /\ faults' \in 0..MaxFaults
    BY <1>14 DEF TypeOK, Commit
  <2> QED BY <1>14, <2>1 DEF TypeOK, Commit, objects, process, watchers
<1>15. CASE Signal
  BY <1>15 DEF TypeOK, Signal, objects, files, watchers, counters
<1>16. CASE Finish
  <2>1. events' \in [Watchers -> 0..EventCap]
    BY <1>16, NotifyRemovedType DEF Finish
  <2>2. bak' \in [Confs -> FileState] /\ test' \in [Confs -> FileState]
    <3>1. /\ bak' \in {bak, [bak EXCEPT ![cur] = Absent]}
          /\ test' \in {test, [test EXCEPT ![cur] = Absent]}
      BY <1>16 DEF Finish
    <3> QED BY <3>1 DEF TypeOK
  <2>3. faults' \in 0..MaxFaults /\ tainted' \in BOOLEAN
    <3>1. faults' \in 0..MaxFaults
      BY <1>16 DEF TypeOK, Finish
    <3>2. tainted' \in {tainted, TRUE}
      BY <1>16 DEF Finish
    <3> QED BY <3>1, <3>2 DEF TypeOK
  <2>4. UNCHANGED <<desired, queue, prod, cur, process, starter, watching, wpc, changes>>
    BY <1>16 DEF Finish
  <2>5. /\ pc' = "idle" /\ first' = FALSE /\ retry' = {}
        /\ later' \subseteq Confs
    BY <1>16 DEF TypeOK, Finish
  <2> QED BY <2>1, <2>2, <2>3, <2>4, <2>5 DEF TypeOK, process
<1>17. CASE NginxExec
  BY <1>17 DEF TypeOK, NginxExec, objects, files, worker, watchers, counters
<1>18. CASE NginxRead
  <2>1. CASE ConfigOK
    <3>1. /\ UNCHANGED <<objects, files, worker, hup, watchers, counters>>
          /\ nginx' = "read" /\ running' \subseteq Confs \X Valid
      BY <1>18, <2>1, LoadedType DEF NginxRead
    <3> QED BY <3>1 DEF TypeOK, objects, files, worker, watchers, counters
  <2>2. CASE ~ConfigOK
    BY <1>18, <2>2, RestartType DEF NginxRead
  <2> QED BY <2>1, <2>2
<1>19. CASE NginxPid
  BY <1>19 DEF TypeOK, NginxPid, objects, files, worker, watchers, counters
<1>20. CASE NginxLoad
  <2>1. /\ UNCHANGED <<objects, files, worker, nginx, watchers, counters>>
        /\ hup' = FALSE /\ running' \in {Loaded, running}
    BY <1>20 DEF NginxLoad
  <2>2. running' \subseteq Confs \X Valid
    BY <2>1, LoadedType DEF TypeOK
  <2>3. /\ desired' = desired /\ queue' = queue /\ later' = later
        /\ prod' = prod /\ test' = test /\ bak' = bak
        /\ pc' = pc /\ cur' = cur /\ first' = first /\ retry' = retry /\ nginx' = nginx
        /\ starter' = starter /\ watching' = watching /\ events' = events /\ wpc' = wpc
        /\ tainted' = tainted /\ changes' = changes /\ faults' = faults
    BY <2>1 DEF objects, files, worker, watchers, counters
  <2>4. hup' \in BOOLEAN
    BY <2>1
  <2>5. /\ (desired \in [Confs -> Versions \cup {Absent}])'
        /\ (queue \subseteq Confs /\ later \subseteq Confs)'
        /\ (prod \in [Confs -> FileState])' /\ (test \in [Confs -> FileState])'
        /\ (bak \in [Confs -> FileState])'
    BY <2>3 DEF TypeOK
  <2>6. /\ (pc \in {"idle", "stat", "backup", "truncate", "overwrite", "drop", "test",
                    "rollback", "restore", "commit", "signal", "clean", "fail"})'
        /\ (cur \in Confs /\ first \in BOOLEAN /\ retry \subseteq Confs)'
        /\ (nginx \in {"down", "exec", "read", "up"})'
    BY <2>3 DEF TypeOK
  <2>7. /\ (starter \in {"poll", "ssl", "conf", "gone"})'
        /\ (watching \subseteq Watchers)' /\ (events \in [Watchers -> 0..EventCap])'
        /\ (wpc \in [Watchers -> {"idle", "signal"}])' /\ (tainted \in BOOLEAN)'
        /\ (changes \in 0..MaxChanges /\ faults \in 0..MaxFaults)'
    BY <2>3 DEF TypeOK
  <2> QED BY Zenon, <2>2, <2>4, <2>5, <2>6, <2>7 DEF TypeOK
<1>21. CASE Crash
  BY <1>21, RestartType DEF Crash
<1>22. CASE Poll
  BY <1>22 DEF TypeOK, Poll, objects, files, worker, process, counters
<1>23. CASE StartTimeout
  BY <1>23 DEF TypeOK, StartTimeout, objects, files, worker, process
<1>24. CASE AddWatch
  BY <1>24 DEF TypeOK, AddWatch, objects, files, worker, process, counters
<1>25. ASSUME NEW w \in Watchers, WatcherTest(w) PROVE TypeOK'
  BY <1>25 DEF TypeOK, WatcherTest, objects, files, worker, process
<1>26. ASSUME NEW w \in Watchers, WatcherSignal(w) PROVE TypeOK'
  BY <1>26 DEF TypeOK, WatcherSignal, objects, files, worker, counters
<1>27. CASE UNCHANGED vars
  <2>1. UNCHANGED <<objects, files, worker, process, watchers, counters>>
    BY <1>27 DEF vars
  <2> QED BY <2>1 DEF TypeOK, objects, files, worker, process, watchers, counters
<1> QED
  BY <1>1, <1>2, <1>3, <1>4, <1>5, <1>6, <1>7, <1>8, <1>9, <1>10, <1>11, <1>12,
     <1>13, <1>14, <1>15, <1>16, <1>17, <1>18, <1>19, <1>20, <1>21, <1>22, <1>23,
     <1>24, <1>25, <1>26, <1>27
  DEF Next, Users, Worker, Reload, Nginx, Watcher

(* The types hold in every state, for every value of the constants.        *)
THEOREM TypeCorrect == Spec => []TypeOK
<1>1. ASSUME Init PROVE TypeOK
  <2>1. /\ prod \in [Confs -> FileState] /\ test \in [Confs -> FileState]
        /\ bak \in [Confs -> FileState] /\ desired \in [Confs -> Versions \cup {Absent}]
    BY <1>1, ContentAssumption DEF Init
  <2>2. /\ events \in [Watchers -> 0..EventCap]
        /\ changes \in 0..MaxChanges /\ faults \in 0..MaxFaults
    BY <1>1, BoundsAssumption DEF Init
  <2> QED BY <1>1, <2>1, <2>2 DEF Init, TypeOK
<1>2. TypeOK /\ [Next]_vars => TypeOK'
  BY TypeStep
<1> QED BY <1>1, <1>2, PTL DEF Spec

----------------------------------------------------------------------------
(* OnTrack is inductive: steps that touch neither the files nor the        *)
(* worker, the restart, and one step per action of the worker.             *)

Frame == UNCHANGED <<prod, test, bak, pc, cur, first, tainted>>

LEMMA FrameStep ==
  ASSUME OnTrack, Frame
  PROVE  OnTrack'
BY DEF OnTrack, Phase, AtRest, Frame

LEMMA RestartStep ==
  ASSUME Restart
  PROVE  OnTrack'
BY NamesAssumption, ContentAssumption DEF Restart, OnTrack, Phase, AtRest

(* A version is accepted only if every file nginx includes is valid. *)
LEMMA Accepted ==
  ASSUME TypeOK, OnTrack, ~tainted, pc = "test", ConfigOK
  PROVE  Tried \in Valid
<1>1. CASE first
  <2>1. cur \in Ings /\ test[cur] \in Versions
    BY <1>1 DEF OnTrack, Phase
  <2>2. <<cur, test[cur]>> \in Included
    BY <2>1 DEF Included
  <2>3. <<cur, test[cur]>>[2] \in Valid \cup {Absent, Empty}
    BY <2>2 DEF ConfigOK
  <2> QED BY <1>1, <2>1, <2>3, ContentAssumption DEF Tried
<1>2. CASE ~first
  <2>1. prod[cur] \in Versions /\ cur \in Confs
    BY <1>2 DEF OnTrack, Phase, TypeOK
  <2>2. <<cur, prod[cur]>> \in Included
    BY <2>1 DEF Included
  <2>3. <<cur, prod[cur]>>[2] \in Valid \cup {Absent, Empty}
    BY <2>2 DEF ConfigOK
  <2> QED BY <1>2, <2>1, <2>3, ContentAssumption DEF Tried
<1> QED BY <1>1, <1>2

(* Clashes are mutual, and only between two files that are there. *)
LEMMA ClashBothWays ==
  ASSUME NEW f, NEW g, Apart(f, g)
  PROVE  Apart(g, f)
BY ClashingAssumption DEF Apart

LEMMA NoClash ==
  ASSUME NEW c, NEW d, NEW v, NEW w,
         c \notin Ings \/ d \notin Ings \/ v = Absent \/ w = Absent
  PROVE  Apart(<<c, v>>, <<d, w>>)
<1>1. <<<<c, v>>, <<d, w>>>> \in Clashing => c \in Ings /\ v \in Versions /\ d \in Ings /\ w \in Versions
  BY ClashingAssumption
<1> QED BY <1>1, ContentAssumption DEF Apart

LEMMA OnTrackStep ==
  ASSUME TypeOK, OnTrack, [Next]_vars
  PROVE  OnTrack'
<1> USE NamesAssumption, ContentAssumption
<1>1. ASSUME NEW c \in Confs, NEW v \in Offered(c), UserApply(c, v) PROVE Frame
  BY <1>1 DEF UserApply, files, worker, Frame
<1>2. ASSUME NEW c \in Confs, UserDelete(c) PROVE Frame
  BY <1>2 DEF UserDelete, files, worker, Frame
<1>3. ASSUME NEW c \in Confs, Requeue(c) PROVE Frame
  BY <1>3 DEF Requeue, files, worker, counters, Frame
<1>4. ASSUME NEW c \in Confs, Begin(c) PROVE OnTrack'
  <2>1. CASE tainted'
    BY <2>1 DEF OnTrack
  <2>2. ASSUME ~tainted' PROVE Render(c, desired[c], {c}) /\ pc = "idle" /\ ~tainted
    BY <1>4, <2>2 DEF Begin
  <2>3. desired[c] \in Versions /\ UNCHANGED <<prod, bak>>
    BY <1>4 DEF Begin, TypeOK
  <2> QED BY <2>1, <2>2, <2>3 DEF Render, OnTrack, Phase, AtRest, TypeOK
<1>5. ASSUME NEW c \in Confs, Clear(c) PROVE OnTrack'
  <2>0. CASE tainted'
    BY <2>0 DEF OnTrack
  <2> SUFFICES ASSUME ~tainted' PROVE OnTrack'
    BY <2>0
  <2>1. pc = "idle" /\ UNCHANGED <<bak, tainted>>
    BY <1>5 DEF Clear
  <2>2. CASE c \in Ings /\ prod[c] # Absent
    <3>1. prod' = [prod EXCEPT ![c] = Absent] /\ UNCHANGED <<test, pc, cur, first>>
      BY <1>5, <2>2 DEF Clear, worker
    <3> QED BY <2>1, <2>2, <3>1 DEF OnTrack, Phase, AtRest, TypeOK
  <2>3. CASE ~(c \in Ings /\ prod[c] # Absent)
    <3>1. Render(Main, DefaultConf, {}) /\ UNCHANGED prod
      BY <1>5, <2>3 DEF Clear
    <3> QED BY <2>1, <3>1 DEF Render, OnTrack, Phase, AtRest, TypeOK
  <2> QED BY <2>2, <2>3
<1>6. CASE Stat
  <2>1. pc = "stat" /\ UNCHANGED <<prod, test, bak, cur, tainted>>
    BY <1>6 DEF Stat, files, counters
  <2>2. CASE prod[cur] = Absent
    <3>1. pc' = "test" /\ first'
      BY <1>6, <2>2 DEF Stat
    <3> QED BY <2>1, <2>2, <3>1 DEF OnTrack, Phase, AtRest, TypeOK
  <2>3. CASE prod[cur] # Absent /\ prod[cur] = test[cur]
    <3>1. pc' = "clean" /\ first' = first
      BY <1>6, <2>3 DEF Stat
    <3> QED BY <2>1, <2>3, <3>1 DEF OnTrack, Phase, AtRest
  <2>4. CASE prod[cur] # Absent /\ prod[cur] # test[cur]
    <3>1. pc' = "backup" /\ first' = first
      BY <1>6, <2>4 DEF Stat
    <3> QED BY <2>1, <2>4, <3>1 DEF OnTrack, Phase, AtRest
  <2> QED BY <2>2, <2>3, <2>4
<1>7. CASE Backup
  BY <1>7 DEF Backup, OnTrack, Phase, AtRest, TypeOK
<1>8. CASE Truncate
  BY <1>8 DEF Truncate, OnTrack, Phase, AtRest, TypeOK
<1>9. CASE Overwrite
  BY <1>9 DEF Overwrite, OnTrack, Phase, AtRest, TypeOK
<1>10. CASE DropTest
  <2>1. /\ pc = "drop" /\ pc' = "test" /\ test' = [test EXCEPT ![cur] = Absent]
        /\ UNCHANGED <<prod, bak, cur, first, tainted>>
    BY <1>10 DEF DropTest, counters
  <2> QED BY <2>1 DEF OnTrack, Phase, AtRest, TypeOK
<1>11. CASE NginxTest
  <2>1. pc = "test" /\ UNCHANGED <<prod, test, bak, cur, first>>
    BY <1>11 DEF NginxTest, files
  <2>2. CASE tainted'
    BY <2>2 DEF OnTrack
  <2>3. CASE ~tainted' /\ ConfigOK
    <3>1. pc' = "commit" /\ ~tainted /\ Tried \in Valid
      BY <1>11, <2>1, <2>3, Accepted DEF NginxTest
    <3> QED BY <2>1, <3>1 DEF OnTrack, Phase, AtRest, Tried
  <2>4. CASE ~tainted' /\ ~ConfigOK
    <3>1. ~tainted /\ pc' = IF first THEN "fail" ELSE "rollback"
      BY <1>11, <2>4 DEF NginxTest
    <3> QED BY <2>1, <3>1 DEF OnTrack, Phase, AtRest, TypeOK
  <2> QED BY <2>2, <2>3, <2>4
<1>12. CASE Rollback
  BY <1>12 DEF Rollback, OnTrack, Phase, AtRest, TypeOK
<1>13. CASE Restore
  BY <1>13 DEF Restore, OnTrack, Phase, AtRest, TypeOK
<1>14. CASE Commit
  BY <1>14 DEF Commit, OnTrack, Phase, AtRest, TypeOK
<1>15. CASE Signal
  BY <1>15 DEF Signal, files, counters, OnTrack, Phase, AtRest, TypeOK
<1>16. CASE Finish
  <2>1. CASE tainted'
    BY <2>1 DEF OnTrack
  <2>2. CASE ~tainted'
    <3>1. /\ pc \in {"clean", "fail"} /\ pc' = "idle" /\ first' = FALSE
          /\ bak' = [bak EXCEPT ![cur] = Absent]
          /\ test' = [test EXCEPT ![cur] = Absent]
          /\ UNCHANGED <<prod, cur, tainted>>
      BY <1>16, <2>2 DEF Finish
    <3> QED BY <3>1 DEF OnTrack, Phase, AtRest, TypeOK
  <2> QED BY <2>1, <2>2
<1>17. ASSUME NginxExec PROVE Frame
  BY <1>17 DEF NginxExec, files, worker, counters, Frame
<1>18. CASE NginxRead
  BY <1>18, RestartStep, FrameStep DEF NginxRead, files, worker, counters, Frame
<1>19. ASSUME NginxPid PROVE Frame
  BY <1>19 DEF NginxPid, files, worker, counters, Frame
<1>20. ASSUME NginxLoad PROVE Frame
  BY <1>20 DEF NginxLoad, files, worker, counters, Frame
<1>21. CASE Crash
  BY <1>21, RestartStep DEF Crash
<1>22. ASSUME Poll PROVE Frame
  BY <1>22 DEF Poll, files, worker, counters, Frame
<1>23. ASSUME StartTimeout PROVE Frame
  BY <1>23 DEF StartTimeout, files, worker, Frame
<1>24. ASSUME AddWatch PROVE Frame
  BY <1>24 DEF AddWatch, files, worker, counters, Frame
<1>25. ASSUME NEW w \in Watchers, WatcherTest(w) PROVE Frame
  BY <1>25 DEF WatcherTest, files, worker, Frame
<1>26. ASSUME NEW w \in Watchers, WatcherSignal(w) PROVE Frame
  BY <1>26 DEF WatcherSignal, files, worker, counters, Frame
<1>27. ASSUME UNCHANGED vars PROVE Frame
  BY <1>27 DEF vars, files, worker, counters, Frame
<1> QED
  BY FrameStep, <1>1, <1>2, <1>3, <1>4, <1>5, <1>6, <1>7, <1>8, <1>9, <1>10, <1>11,
     <1>12, <1>13, <1>14, <1>15, <1>16, <1>17, <1>18, <1>19, <1>20, <1>21, <1>22,
     <1>23, <1>24, <1>25, <1>26, <1>27
  DEF Next, Users, Worker, Reload, Nginx, Watcher

----------------------------------------------------------------------------
(* The pipeline implements ConfStore.                                      *)

(* Loading a directory nginx accepts is the store's Load: the one          *)
(* configuration that may differ is the worker's.                          *)
LEMMA LoadStep ==
  ASSUME TypeOK, OnTrack, ~tainted, ConfigOK, running' = Loaded,
         stored' = stored, tainted' = tainted
  PROVE  Store!Load
<1> DEFINE V == {v \in Valid : <<cur, v>> \in Included}
           rest == {<<d, stored[d]>> : d \in {e \in Confs \ {cur} : stored[e] # Absent}}
<1>1. cur \in Confs /\ V \in SUBSET Valid
  BY DEF TypeOK
<1>2. cur = Main => V # {}
  BY NamesAssumption DEF ConfigOK, Included
<1>3. \A d \in Confs \ {cur} : AtRest(d) /\ stored[d] = prod[d]
  BY DEF OnTrack, stored
<1>4. ASSUME NEW f \in Loaded PROVE f \in rest \cup {<<cur, v>> : v \in V}
  <2>1. PICK d \in Confs : f = <<d, prod[d]>> \/ (f = <<d, test[d]>> /\ d \in Ings)
    BY <1>4 DEF Loaded, Included
  <2>2. f[2] \in Valid /\ f \in Included /\ f[2] # Absent
    BY <1>4, ContentAssumption DEF Loaded
  <2>3. CASE d = cur
    BY <2>1, <2>2, <2>3
  <2>4. CASE d # cur
    <3>1. f = <<d, prod[d]>>
      BY <1>3, <2>1, <2>2, <2>4 DEF AtRest
    <3> QED BY <1>3, <2>2, <2>4, <3>1
  <2> QED BY <2>3, <2>4
<1>5. ASSUME NEW f \in rest PROVE f \in Loaded
  <2>1. PICK d \in Confs \ {cur} : f = <<d, prod[d]>> /\ prod[d] # Absent
    BY <1>3, <1>5
  <2>2. prod[d] \in Valid
    BY <1>3, <2>1 DEF AtRest
  <2> QED BY <2>1, <2>2 DEF Loaded, Included
<1>6. ASSUME NEW v \in V PROVE <<cur, v>> \in Loaded
  BY <1>6 DEF Loaded
<1>7. running' = rest \cup {<<cur, v>> : v \in V}
  BY <1>4, <1>5, <1>6
<1> QED BY <1>1, <1>2, <1>7 DEF Store!Load

(* nginx -t accepts a version only next to what the others have installed. *)
LEMMA AcceptedApart ==
  ASSUME TypeOK, OnTrack, ~tainted, pc = "test", ConfigOK, NEW d \in Confs \ {cur}
  PROVE  <<<<cur, Tried>>, <<d, stored[d]>>>> \notin Clashing
<1>1. stored[d] = prod[d]
  BY DEF stored
<1>2. CASE cur \notin Ings \/ d \notin Ings
  BY <1>2, NoClash DEF Apart
<1>3. CASE cur \in Ings /\ d \in Ings /\ first
  <2>1. Together(d, cur)
    BY <1>3 DEF ConfigOK
  <2>2. Apart(<<d, prod[d]>>, <<cur, test[cur]>>)
    BY <2>1 DEF Together
  <2> QED BY <1>1, <1>3, <2>2, ClashBothWays DEF Apart, Tried
<1>4. CASE cur \in Ings /\ d \in Ings /\ ~first
  <2>1. Together(cur, d) /\ cur # d
    BY <1>4 DEF ConfigOK
  <2> QED BY <1>1, <1>4, <2>1 DEF Together, Apart, Tried
<1> QED BY <1>2, <1>3, <1>4

LEMMA RestartIsReset ==
  ASSUME Restart
  PROVE  Store!Reset
BY DEF Restart, Store!Reset, Store!ImageStore, stored, Swapping

StoreFrame == UNCHANGED <<prod, test, bak, pc, cur, first, tainted, running>>

LEMMA StoreFrameStep ==
  ASSUME StoreFrame
  PROVE  UNCHANGED Store!vars
BY DEF StoreFrame, Store!vars, stored, Swapping

(* A step of the worker that accepts or removes nothing leaves the store.  *)
Still == UNCHANGED <<stored, running, tainted>>

LEMMA StoreStep ==
  ASSUME TypeOK, OnTrack, [Next]_vars
  PROVE  [Store!Next]_Store!vars
<1> USE NamesAssumption, ContentAssumption
<1> DEFINE Goal == [Store!Next]_Store!vars
<1>d. CASE tainted'
  BY <1>d DEF Store!Next, Store!Damaged
<1>r. ASSUME Restart PROVE Goal
  BY <1>r, RestartIsReset DEF Store!Next
<1>f. ASSUME StoreFrame PROVE Goal
  BY <1>f, StoreFrameStep
<1>s. ASSUME Still PROVE Goal
  BY <1>s DEF Still, Store!vars
<1>1. ASSUME NEW c \in Confs, NEW v \in Offered(c), UserApply(c, v) PROVE StoreFrame
  BY <1>1 DEF UserApply, files, worker, process, StoreFrame
<1>2. ASSUME NEW c \in Confs, UserDelete(c) PROVE StoreFrame
  BY <1>2 DEF UserDelete, files, worker, process, StoreFrame
<1>3. ASSUME NEW c \in Confs, Requeue(c) PROVE StoreFrame
  BY <1>3 DEF Requeue, files, worker, process, counters, StoreFrame
<1>4. ASSUME NEW c \in Confs, Begin(c), ~tainted' PROVE Still
  <2>1. /\ Render(c, desired[c], {c}) /\ pc = "idle"
        /\ UNCHANGED <<prod, bak, tainted, running>>
    BY <1>4 DEF Begin, process
  <2> QED BY <2>1 DEF Render, Still, stored, Swapping
<1>5. ASSUME NEW c \in Confs, Clear(c), ~tainted' PROVE Goal
  <2>1. pc = "idle" /\ UNCHANGED <<bak, tainted, running>>
    BY <1>5 DEF Clear, process
  <2>2. CASE c \in Ings /\ prod[c] # Absent
    <3>1. prod' = [prod EXCEPT ![c] = Absent] /\ UNCHANGED <<pc, cur, first>>
      BY <1>5, <2>2 DEF Clear, worker
    <3>2. stored' = [stored EXCEPT ![c] = Absent]
      BY <2>1, <2>2, <3>1 DEF stored, Swapping, TypeOK
    <3>3. Store!Discard(c)
      BY <2>1, <2>2, <3>2 DEF Store!Discard
    <3> QED BY <3>3 DEF Store!Next
  <2>3. CASE ~(c \in Ings /\ prod[c] # Absent)
    <3>1. Render(Main, DefaultConf, {}) /\ UNCHANGED prod
      BY <1>5, <2>3 DEF Clear
    <3>2. Still
      BY <2>1, <3>1 DEF Render, Still, stored, Swapping
    <3> QED BY <3>2, <1>s
  <2> QED BY <2>2, <2>3
<1>6. ASSUME Stat PROVE Still
  <2>1. pc = "stat" /\ UNCHANGED <<prod, test, bak, cur, tainted, running>>
    BY <1>6 DEF Stat, files, counters, process
  <2>2. \/ pc' = "test" /\ first'
        \/ pc' \in {"clean", "backup"}
    BY <1>6 DEF Stat
  <2> QED BY <2>1, <2>2 DEF Still, stored, Swapping
<1>7. ASSUME Backup, ~tainted' PROVE Still
  <2>1. ~tainted /\ prod[cur] \in Valid /\ bak \in [Confs -> FileState] /\ cur \in Confs
    BY <1>7 DEF Backup, OnTrack, Phase, TypeOK
  <2>2. /\ pc = "backup" /\ UNCHANGED <<prod, test, cur, first, tainted, running>>
        /\ \/ pc' = "truncate" /\ bak' = [bak EXCEPT ![cur] = prod[cur]]
           \/ pc' = "fail"
    BY <1>7, <2>1 DEF Backup, process
  <2> QED BY <2>1, <2>2 DEF Still, stored, Swapping
<1>8. ASSUME Truncate, ~tainted' PROVE Still
  <2>1. ~tainted /\ prod[cur] = bak[cur] /\ ~first /\ cur \in Confs
    BY <1>8 DEF Truncate, OnTrack, Phase, TypeOK
  <2>2. /\ pc = "truncate" /\ UNCHANGED <<test, bak, cur, first, tainted, running>>
        /\ \/ pc' = "overwrite" /\ prod' = [prod EXCEPT ![cur] = Empty]
           \/ pc' = "fail" /\ prod' = prod
    BY <1>8 DEF Truncate, process
  <2> QED BY <2>1, <2>2 DEF Still, stored, Swapping, TypeOK
<1>9. ASSUME Overwrite, ~tainted' PROVE Still
  <2>1. ~tainted /\ ~first /\ cur \in Confs
    BY <1>9 DEF Overwrite, OnTrack, Phase, TypeOK
  <2>2. /\ pc = "overwrite" /\ UNCHANGED <<test, bak, cur, first, tainted, running>>
        /\ pc' = "drop" /\ prod' = [prod EXCEPT ![cur] = test[cur]]
    BY <1>9 DEF Overwrite, process
  <2> QED BY <2>1, <2>2 DEF Still, stored, Swapping, TypeOK
<1>10. ASSUME DropTest, ~tainted' PROVE Still
  <2>1. ~tainted /\ ~first
    BY <1>10 DEF DropTest, OnTrack, Phase, counters
  <2>2. /\ pc = "drop" /\ pc' = "test"
        /\ UNCHANGED <<prod, bak, cur, first, tainted, running>>
    BY <1>10 DEF DropTest, process, counters
  <2> QED BY <2>1, <2>2 DEF Still, stored, Swapping
<1>11. ASSUME NginxTest, ~tainted' PROVE Goal
  <2>1. pc = "test" /\ UNCHANGED <<prod, test, bak, cur, first, tainted, running>>
    BY <1>11 DEF NginxTest, files, process
  <2>2. ~tainted /\ cur \in Confs
    BY <1>11, <2>1 DEF TypeOK
  <2>3. CASE ConfigOK
    <3>1. pc' = "commit" /\ Tried \in Valid
      BY <1>11, <2>1, <2>2, <2>3, Accepted DEF NginxTest
    <3>2. stored' = [stored EXCEPT ![cur] = Tried]
      BY <2>1, <2>2, <3>1 DEF stored, Swapping, Tried, TypeOK
    <3>3. Store!Install(cur, Tried)
      BY <2>1, <2>2, <2>3, <3>1, <3>2, AcceptedApart DEF Store!Install
    <3> QED BY <2>2, <3>1, <3>3 DEF Store!Next
  <2>4. CASE ~ConfigOK
    <3>1. pc' = IF first THEN "fail" ELSE "rollback"
      BY <1>11, <2>4 DEF NginxTest
    <3>2. Still
      BY <2>1, <3>1 DEF Still, stored, Swapping
    <3> QED BY <3>2, <1>s
  <2> QED BY <2>3, <2>4
<1>12. ASSUME Rollback, ~tainted' PROVE Still
  <2>1. ~tainted /\ ~first /\ cur \in Confs
    BY <1>12 DEF Rollback, OnTrack, Phase, TypeOK
  <2>2. /\ pc = "rollback" /\ UNCHANGED <<test, bak, cur, first, tainted, running>>
        /\ pc' = "restore" /\ prod' = [prod EXCEPT ![cur] = Empty]
    BY <1>12 DEF Rollback, process
  <2> QED BY <2>1, <2>2 DEF Still, stored, Swapping, TypeOK
<1>13. ASSUME Restore, ~tainted' PROVE Still
  <2>1. ~tainted /\ ~first /\ cur \in Confs
    BY <1>13 DEF Restore, OnTrack, Phase, TypeOK
  <2>2. /\ pc = "restore" /\ UNCHANGED <<test, bak, cur, first, tainted, running>>
        /\ pc' = "fail" /\ prod' = [prod EXCEPT ![cur] = bak[cur]]
    BY <1>13 DEF Restore, process
  <2> QED BY <2>1, <2>2 DEF Still, stored, Swapping, TypeOK
<1>14. ASSUME Commit, ~tainted' PROVE Still
  <2>1. /\ ~tainted /\ cur \in Confs
        /\ ~first => test[cur] = Absent
        /\ first => test[cur] # Absent
    BY <1>14 DEF Commit, OnTrack, Phase, TypeOK
  <2>2. /\ pc = "commit" /\ UNCHANGED <<test, bak, cur, first, tainted, running>>
        /\ pc' = "signal"
        /\ prod' = [prod EXCEPT ![cur] = IF test[cur] = Absent THEN @ ELSE test[cur]]
    BY <1>14 DEF Commit, process
  <2> QED BY <2>1, <2>2 DEF Still, stored, Swapping, TypeOK
<1>15. ASSUME Signal PROVE Still
  <2>1. /\ pc = "signal" /\ pc' \in {"clean", "fail"}
        /\ UNCHANGED <<prod, test, bak, cur, tainted, running>>
    BY <1>15 DEF Signal, files, counters
  <2> QED BY <2>1 DEF Still, stored, Swapping
<1>16. ASSUME Finish, ~tainted' PROVE Still
  <2>1. /\ pc \in {"clean", "fail"} /\ pc' = "idle"
        /\ UNCHANGED <<prod, cur, tainted, running>>
    BY <1>16 DEF Finish, process
  <2> QED BY <2>1 DEF Still, stored, Swapping
<1>17. ASSUME NginxExec PROVE StoreFrame
  BY <1>17 DEF NginxExec, files, worker, counters, StoreFrame
<1>18. ASSUME NginxRead, ~tainted' PROVE Goal
  <2>1. CASE ConfigOK
    <3>1. /\ UNCHANGED <<prod, test, bak, pc, cur, first, tainted>>
          /\ running' = Loaded
      BY <1>18, <2>1 DEF NginxRead, files, worker, counters
    <3>2. stored' = stored
      BY <3>1 DEF stored, Swapping
    <3>3. Store!Load
      BY <1>18, <2>1, <3>1, <3>2, LoadStep
    <3> QED BY <3>3 DEF Store!Next
  <2>2. CASE ~ConfigOK
    BY <1>18, <2>2, <1>r DEF NginxRead
  <2> QED BY <2>1, <2>2
<1>19. ASSUME NginxPid PROVE StoreFrame
  BY <1>19 DEF NginxPid, files, worker, counters, StoreFrame
<1>20. ASSUME NginxLoad, ~tainted' PROVE Goal
  <2>1. UNCHANGED <<prod, test, bak, pc, cur, first, tainted>>
    BY <1>20 DEF NginxLoad, files, worker, counters
  <2>2. stored' = stored
    BY <2>1 DEF stored, Swapping
  <2>3. CASE ConfigOK
    <3>1. running' = Loaded
      BY <1>20, <2>3 DEF NginxLoad
    <3>2. Store!Load
      BY <1>20, <2>1, <2>2, <2>3, <3>1, LoadStep
    <3> QED BY <3>2 DEF Store!Next
  <2>4. CASE ~ConfigOK
    BY <1>20, <2>1, <2>4, <1>f DEF NginxLoad, StoreFrame
  <2> QED BY <2>3, <2>4
<1>21. ASSUME Crash PROVE Goal
  BY <1>21, <1>r DEF Crash
<1>22. ASSUME Poll PROVE StoreFrame
  BY <1>22 DEF Poll, files, worker, process, counters, StoreFrame
<1>23. ASSUME StartTimeout PROVE StoreFrame
  BY <1>23 DEF StartTimeout, files, worker, process, StoreFrame
<1>24. ASSUME AddWatch PROVE StoreFrame
  BY <1>24 DEF AddWatch, files, worker, process, counters, StoreFrame
<1>25. ASSUME NEW w \in Watchers, WatcherTest(w) PROVE StoreFrame
  BY <1>25 DEF WatcherTest, files, worker, process, StoreFrame
<1>26. ASSUME NEW w \in Watchers, WatcherSignal(w) PROVE StoreFrame
  BY <1>26 DEF WatcherSignal, files, worker, counters, StoreFrame
<1>27. ASSUME UNCHANGED vars PROVE StoreFrame
  BY <1>27 DEF vars, files, worker, process, counters, StoreFrame
<1>28. ASSUME ~tainted', Worker PROVE Goal
  BY <1>28, <1>s, <1>4, <1>5, <1>6, <1>7, <1>8, <1>9, <1>10, <1>11, <1>12, <1>13,
     <1>14, <1>15, <1>16
  DEF Worker, Reload
<1>29. ASSUME ~tainted', Nginx PROVE Goal
  BY <1>29, <1>f, <1>17, <1>18, <1>19, <1>20 DEF Nginx
<1> QED
  BY <1>d, <1>f, <1>1, <1>2, <1>3, <1>21, <1>22, <1>23, <1>24, <1>25, <1>26, <1>27,
     <1>28, <1>29
  DEF Next, Users, Watcher

----------------------------------------------------------------------------
(* The store's steps keep what is installed apart, so the pipeline's do.   *)
LEMMA ApartStep ==
  ASSUME InstalledApart, [Store!Next]_Store!vars
  PROVE  InstalledApart'
<1> SUFFICES ASSUME ~tainted', NEW c \in Ings, NEW d \in Ings, c # d
             PROVE  Apart(<<c, stored'[c]>>, <<d, stored'[d]>>)
  BY DEF InstalledApart
<1>0. stored = [e \in Confs |-> stored[e]]
  BY DEF stored
<1>1. ASSUME NEW e \in Confs, NEW v \in Versions, Store!Install(e, v)
      PROVE  Apart(<<c, stored'[c]>>, <<d, stored'[d]>>)
  <2>1. /\ ~tainted /\ stored' = [stored EXCEPT ![e] = v]
        /\ \A k \in Confs \ {e} : Apart(<<e, v>>, <<k, stored[k]>>)
    BY <1>1 DEF Store!Install, Apart
  <2>2. Apart(<<c, stored[c]>>, <<d, stored[d]>>)
    BY <2>1 DEF InstalledApart
  <2>3. CASE c # e /\ d # e
    BY <1>0, <2>1, <2>2, <2>3
  <2>4. CASE c = e
    BY <1>0, <2>1, <2>4
  <2>5. CASE d = e
    <3>1. Apart(<<d, v>>, <<c, stored[c]>>)
      BY <2>1, <2>5
    <3>2. stored'[d] = v /\ stored'[c] = stored[c]
      BY <1>0, <2>1, <2>5
    <3> QED BY <3>1, <3>2, ClashBothWays
  <2> QED BY <2>3, <2>4, <2>5
<1>2. ASSUME NEW e \in Confs, Store!Discard(e)
      PROVE  Apart(<<c, stored'[c]>>, <<d, stored'[d]>>)
  <2>1. ~tainted /\ stored' = [stored EXCEPT ![e] = Absent]
    BY <1>2 DEF Store!Discard
  <2>2. CASE c # e /\ d # e
    BY <1>0, <2>1, <2>2 DEF InstalledApart
  <2>3. CASE c = e \/ d = e
    BY <1>0, <2>1, <2>3, NoClash
  <2> QED BY <2>2, <2>3
<1>3. ASSUME Store!Load \/ UNCHANGED Store!vars
      PROVE  Apart(<<c, stored'[c]>>, <<d, stored'[d]>>)
  BY <1>3 DEF Store!Load, Store!vars, InstalledApart
<1>4. ASSUME Store!Reset
      PROVE  Apart(<<c, stored'[c]>>, <<d, stored'[d]>>)
  BY <1>4, NamesAssumption, NoClash DEF Store!Reset, Store!ImageStore
<1> QED BY <1>1, <1>2, <1>3, <1>4 DEF Store!Next, Store!Damaged

LEMMA ReloadInvStep ==
  ASSUME TypeOK, ReloadInv, [Next]_vars
  PROVE  ReloadInv'
<1>1. OnTrack'
  BY OnTrackStep DEF ReloadInv
<1>2. [Store!Next]_Store!vars
  BY StoreStep DEF ReloadInv
<1>3. InstalledApart'
  BY <1>2, ApartStep DEF ReloadInv
<1> QED BY <1>1, <1>3 DEF ReloadInv

(* Every step of reload, its failures included, leaves the configuration   *)
(* it works on in a state from which the accepted version can be restored, *)
(* and what is installed defines no upstream twice.                        *)
THEOREM ReloadInvariant == Spec => []ReloadInv
<1>1. ASSUME Init PROVE ReloadInv
  <2>1. OnTrack
    BY <1>1, NamesAssumption, ContentAssumption DEF Init, OnTrack, Phase, AtRest
  <2>2. \A c \in Ings : stored[c] = Absent
    BY <1>1, NamesAssumption DEF Init, stored, Swapping
  <2> QED BY <2>1, <2>2, NoClash DEF ReloadInv, InstalledApart
<1>2. TypeOK /\ ReloadInv /\ [Next]_vars => ReloadInv'
  BY ReloadInvStep
<1> QED BY <1>1, <1>2, TypeCorrect, PTL DEF Spec

(* nginx serves only accepted versions, and all of the store but the one   *)
(* configuration being replaced, as long as the operating system fails no  *)
(* write of the pipeline.                                                  *)
THEOREM StoreImplemented == Spec => ImplementsStore
<1>1. Init => Store!Init
  BY DEF Init, Store!Init, Store!ImageStore, stored, Swapping
<1>2. TypeOK /\ ReloadInv /\ [Next]_vars => [Store!Next]_Store!vars
  BY StoreStep DEF ReloadInv
<1> QED
  BY <1>1, <1>2, TypeCorrect, ReloadInvariant, PTL DEF Spec, ImplementsStore, Store!Spec

----------------------------------------------------------------------------
(* A directory at rest, or whose only trial is of a valid version, is one  *)
(* nginx accepts, unless two of the files define one upstream.             *)
LEMMA RestIsAccepted ==
  ASSUME TypeOK, NEW k \in Confs,
         \A c \in Confs \ {k} : AtRest(c),
         prod[k] \in Valid \cup {Absent}, test[k] \in Valid \cup {Absent},
         prod[k] = Absent \/ test[k] = Absent,
         prod[Main] # Absent,
         \A c, d \in Ings : c # d => Apart(<<c, prod[c]>>, <<d, prod[d]>>),
         \A d \in Ings \ {k} : Apart(<<k, test[k]>>, <<d, prod[d]>>)
  PROVE  ConfigOK
<1>1. \A c \in Confs : /\ prod[c] \in Valid \cup {Absent}
                       /\ test[c] \in Valid \cup {Absent}
                       /\ prod[c] = Absent \/ test[c] = Absent
  BY DEF AtRest
<1>2. prod[Main] \in Valid
  BY <1>1
<1>3. \A f \in Included : f[2] \in Valid \cup {Absent, Empty}
  BY <1>1 DEF Included
<1>4. ASSUME NEW c \in Ings, NEW d \in Ings PROVE Together(c, d)
  <2>1. ASSUME NEW e \in Ings PROVE e = k \/ test[e] = Absent
    BY DEF AtRest
  <2>2. Apart(<<c, prod[c]>>, <<d, test[d]>>)
    <3>1. CASE c = d
      BY <1>1, <3>1, NoClash
    <3>2. CASE c # d /\ d = k
      BY <3>2, ClashBothWays
    <3>3. CASE d # k
      BY <2>1, <3>3, NoClash
    <3> QED BY <3>1, <3>2, <3>3
  <2>3. c # d => Apart(<<c, test[c]>>, <<d, test[d]>>)
    BY <2>1, NoClash
  <2> QED BY <2>2, <2>3 DEF Together
<1> QED BY <1>2, <1>3, <1>4 DEF ConfigOK

LEMMA Corollaries ==
  ASSUME TypeOK, ReloadInv
  PROVE  IdleClean /\ NoFalseReject /\ GoodCopyKept
<1> USE NamesAssumption, ContentAssumption
<1>1. IdleClean
  <2> SUFFICES ASSUME pc = "idle", ~tainted
               PROVE  ConfigOK /\ \A c \in Confs : AtRest(c)
    BY DEF IdleClean, AtRest
  <2>1. \A c \in Confs : AtRest(c)
    BY DEF ReloadInv, OnTrack, Phase
  <2>2. cur \in Confs /\ prod[Main] # Absent
    BY DEF TypeOK, ReloadInv, OnTrack
  <2>3. \A c \in Confs : stored[c] = prod[c]
    BY DEF stored, Swapping
  <2>4. \A c, d \in Ings : c # d => Apart(<<c, prod[c]>>, <<d, prod[d]>>)
    BY <2>3 DEF ReloadInv, InstalledApart
  <2>5. \A d \in Ings \ {cur} : Apart(<<cur, test[cur]>>, <<d, prod[d]>>)
    BY <2>1, <2>2, NoClash DEF AtRest
  <2>6. /\ prod[cur] \in Valid \cup {Absent} /\ test[cur] \in Valid \cup {Absent}
        /\ prod[cur] = Absent \/ test[cur] = Absent
    BY <2>1, <2>2 DEF AtRest
  <2>7. ConfigOK
    BY <2>1, <2>2, <2>4, <2>5, <2>6, RestIsAccepted
  <2> QED BY <2>1, <2>7
<1>2. NoFalseReject
  <2> SUFFICES ASSUME pc = "test", ~tainted, Tried \in Valid,
                      \A c \in Ings \ {cur} : Apart(<<cur, Tried>>, <<c, prod[c]>>)
               PROVE  ConfigOK
    BY DEF NoFalseReject
  <2>1. /\ cur \in Confs
        /\ \A c \in Confs \ {cur} : AtRest(c)
        /\ prod[Main] # Absent
    BY DEF TypeOK, ReloadInv, OnTrack
  <2>2. IF first THEN prod[cur] = Absent /\ test[cur] = Tried
                 ELSE prod[cur] = Tried /\ test[cur] = Absent
    BY DEF ReloadInv, OnTrack, Phase, Tried
  <2>3. ASSUME NEW c \in Ings, NEW d \in Ings, c # d
        PROVE  Apart(<<c, prod[c]>>, <<d, prod[d]>>)
    <3>1. CASE c # cur /\ d # cur
      <4>1. stored[c] = prod[c] /\ stored[d] = prod[d]
        BY <3>1 DEF stored
      <4> QED BY <2>3, <4>1 DEF ReloadInv, InstalledApart
    <3>2. CASE (c = cur \/ d = cur) /\ first
      BY <2>2, <3>2, NoClash
    <3>3. CASE c = cur /\ ~first
      BY <2>2, <2>3, <3>3
    <3>4. CASE d = cur /\ ~first
      <4>1. Apart(<<d, prod[d]>>, <<c, prod[c]>>)
        BY <2>2, <2>3, <3>4
      <4> QED BY <4>1, ClashBothWays
    <3> QED BY <3>1, <3>2, <3>3, <3>4
  <2>4. \A d \in Ings \ {cur} : Apart(<<cur, test[cur]>>, <<d, prod[d]>>)
    BY <2>2, NoClash
  <2>5. /\ prod[cur] \in Valid \cup {Absent} /\ test[cur] \in Valid \cup {Absent}
        /\ prod[cur] = Absent \/ test[cur] = Absent
    BY <2>2
  <2> QED BY <2>1, <2>3, <2>4, <2>5, RestIsAccepted
<1>3. GoodCopyKept
  BY DEF GoodCopyKept, ReloadInv, OnTrack, Phase, AtRest, TypeOK
<1> QED BY <1>1, <1>2, <1>3

(* Between two reloads the directory is clean and nginx would accept it.   *)
THEOREM IdleCleanAlways == Spec => []IdleClean
<1>1. TypeOK /\ ReloadInv => IdleClean
  BY Corollaries
<1> QED BY <1>1, TypeCorrect, ReloadInvariant, PTL

(* A valid version is refused for one reason only, an upstream it shares   *)
(* with what another Ingress has installed: never for a test file, a       *)
(* backup or a half-done swap that another reload left behind.             *)
THEOREM NoFalseRejectAlways == Spec => []NoFalseReject
<1>1. TypeOK /\ ReloadInv => NoFalseReject
  BY Corollaries
<1> QED BY <1>1, TypeCorrect, ReloadInvariant, PTL

(* A validated copy of every configuration survives the swap.              *)
THEOREM GoodCopyKeptAlways == Spec => []GoodCopyKept
<1>1. TypeOK /\ ReloadInv => GoodCopyKept
  BY Corollaries
<1> QED BY <1>1, TypeCorrect, ReloadInvariant, PTL
==============================================================================
