------------------------------ MODULE ConfReload ------------------------------
(***************************************************************************)
(* The configuration pipeline of internal/nginx: the reconcile worker      *)
(* renders a configuration beside the production file, backs up, swaps,    *)
(* validates with nginx -t, commits or rolls back, and signals nginx.  It  *)
(* runs concurrently with nginx itself, with the start-up goroutine and    *)
(* with two directory watchers that validate and signal on their own.      *)
(***************************************************************************)
EXTENDS Integers

CONSTANTS
  Ings,        \* Ingresses with rules: one file each in conf.d
  Main,        \* nginx.conf, rendered from an Ingress with a default backend
  Versions,    \* contents a rendered configuration can have
  MainVersions,\* the ones the users can ask of nginx.conf
  Valid,       \* the contents nginx -t accepts
  Clashing,    \* pairs of <<Ingress, content>> that define a common upstream
  ImageConf,   \* nginx.conf of the container image
  DefaultConf, \* nginx.conf rendered with no default backend
  Absent, Empty, Torn, \* no file, a truncated file, a partly written file
  EventCap,    \* bound: unhandled events remembered per watcher
  MaxChanges,  \* bound: changes the users make to the objects
  MaxFaults,   \* bound: failures of the operating system, crashes included
  SlowRetry    \* TRUE: all is settled within the 15 s before a requeue

Confs == Ings \cup {Main}
Watchers == {"ssl", "conf"}
Offered(c) == IF c = Main THEN MainVersions ELSE Versions
FileState == Versions \cup {Absent, Empty, Torn}

ASSUME NamesAssumption == Main \notin Ings
ASSUME ContentAssumption == /\ Valid \subseteq Versions
                            /\ MainVersions \subseteq Versions
                            /\ {Absent, Empty, Torn} \cap Versions = {}
                            /\ Absent # Empty /\ Absent # Torn /\ Empty # Torn
                            /\ ImageConf \in Valid
                            /\ DefaultConf \in Valid
ASSUME ClashingAssumption ==
  /\ Clashing \subseteq (Ings \X Versions) \X (Ings \X Versions)
  /\ \A f, g \in Ings \X Versions : <<f, g>> \in Clashing => <<g, f>> \in Clashing
  /\ \A f \in Ings \X Versions : <<f, f>> \in Clashing
ASSUME BoundsAssumption == /\ EventCap \in Nat \ {0}
                           /\ MaxChanges \in Nat
                           /\ MaxFaults \in Nat
                           /\ SlowRetry \in BOOLEAN

VARIABLES
  desired,  \* what each object asks for, Absent when it does not exist
  queue,    \* workqueue keys
  later,    \* keys waiting for RequeueAfter
  prod,     \* <name>.conf
  test,     \* <name>-test.conf
  bak,      \* <name>.tmp
  pc,       \* where the worker is in reload
  cur,      \* the configuration being reloaded
  first,    \* isFirstReload
  retry,    \* the key to requeue if the reload fails ({}: errors are ignored)
  nginx,    \* "down", "exec", "read" (no pid file yet) or "up"
  running,  \* <<configuration, version>> pairs nginx serves
  hup,      \* a SIGHUP nginx has not handled
  starter,  \* the goroutine of Start: "poll", "ssl", "conf" or "gone"
  watching, \* watchers attached to their directory
  events,   \* unhandled events per watcher
  wpc,      \* where each watcher is in reloadIfWatchFileCurd
  tainted,  \* a write or exec failure may have damaged the files
  changes, faults \* counters of the bounds

objects == <<desired, queue, later>>
files == <<prod, test, bak>>
worker == <<pc, cur, first, retry>>
process == <<nginx, running, hup>>
watchers == <<starter, watching, events, wpc>>
counters == <<tainted, changes, faults>>
vars == <<objects, files, worker, process, watchers, counters>>

----------------------------------------------------------------------------
(* What nginx reads: nginx.conf and every conf.d/*.conf, test files too.   *)

Included == {<<c, prod[c]>> : c \in Confs} \cup {<<c, test[c]>> : c \in Ings}

(* An upstream is named <Service>-<Ingress>-<namespace>, so the two files  *)
(* of an Ingress clash when they share a Service, and those of two Ingresses*)
(* may: api-v1 of web and api of v1-web.                                   *)
Apart(f, g) == <<f, g>> \notin Clashing
Together(c, d) == /\ Apart(<<c, prod[c]>>, <<d, test[d]>>)
                  /\ c # d => /\ Apart(<<c, prod[c]>>, <<d, prod[d]>>)
                             /\ Apart(<<c, test[c]>>, <<d, test[d]>>)

ConfigOK == /\ prod[Main] \in Valid
            /\ \A f \in Included : f[2] \in Valid \cup {Absent, Empty}
            /\ \A c, d \in Ings : Together(c, d)

(* Mutant: an empty file counts as a loaded configuration. *)
LoadedEmptyToo == {f \in Included : f[2] # Absent}

Loaded == {f \in Included : f[2] \in Valid}

(* A directory event reaches a watcher once it is attached. *)
Notify(w) == events' = [events EXCEPT ![w] =
                IF w \in watching /\ @ < EventCap THEN @ + 1 ELSE @]

(* Mutant: the conf.d watcher does not act on removals. *)
NotifyNothing(c, removed) == UNCHANGED events

(* The conf.d watcher acts on removals; nginx.conf is in another directory. *)
NotifyRemoved(c, removed) ==
  IF c \in Ings /\ removed THEN Notify("conf") ELSE UNCHANGED events

Fault == faults < MaxFaults /\ faults' = faults + 1
FaultFree == faults' = faults

Goto(l) == pc' = l

----------------------------------------------------------------------------
(* The users and the workqueue. *)

UserApply(c, v) ==
  /\ changes < MaxChanges
  /\ desired[c] # v
  /\ desired' = [desired EXCEPT ![c] = v]
  /\ queue' = queue \cup {c}
  /\ changes' = changes + 1
  /\ UNCHANGED <<later, files, worker, process, watchers, tainted, faults>>

UserDelete(c) ==
  /\ changes < MaxChanges
  /\ desired[c] # Absent
  /\ desired' = [desired EXCEPT ![c] = Absent]
  /\ queue' = queue \cup {c}
  /\ changes' = changes + 1
  /\ UNCHANGED <<later, files, worker, process, watchers, tainted, faults>>

(* Nothing is left for the watchers or nginx to do. *)
Drained == /\ ~hup
           /\ \A w \in Watchers : events[w] = 0 /\ wpc[w] = "idle"

Requeue(c) ==
  /\ c \in later
  /\ SlowRetry => Drained /\ pc = "idle"
  /\ later' = later \ {c}
  /\ queue' = queue \cup {c}
  /\ UNCHANGED <<desired, files, worker, process, watchers, counters>>

----------------------------------------------------------------------------
(* The reconcile worker. *)

(* Render v into the test file and enter reload. *)
Render(c, v, keys) ==
  /\ test' = [test EXCEPT ![c] = v]
  /\ cur' = c
  /\ retry' = keys
  /\ first' = FALSE
  /\ Goto("stat")

(* An Ingress may also write its certificate files, in the watched         *)
(* directory.  A failed write returns before reload and its cleanup.       *)
Begin(c) ==
  /\ pc = "idle" /\ c \in queue /\ desired[c] # Absent
  /\ queue' = queue \ {c}
  /\ UNCHANGED events \/ (c \in Ings /\ Notify("ssl"))
  /\ \/ /\ Render(c, desired[c], {c})
        /\ FaultFree
        /\ UNCHANGED <<later, tainted>>
     \/ /\ Fault
        /\ \E t \in {Empty, Torn} : test' = [test EXCEPT ![c] = t]
        /\ later' = later \cup {c}
        /\ tainted' = TRUE
        /\ UNCHANGED worker
  /\ UNCHANGED <<desired, prod, bak, process, starter, watching, wpc, changes>>

(* UpdateDefaultConf: its error, and reload's, are dropped. *)
RenderDefault == Render(Main, DefaultConf, {})

(* clearConf: the file of the deleted object is removed; without one,      *)
(* nginx.conf is rendered again with no default backend.                   *)
Clear(c) ==
  /\ pc = "idle" /\ c \in queue /\ desired[c] = Absent
  /\ queue' = queue \ {c}
  /\ \/ /\ c \in Ings /\ prod[c] # Absent
        /\ prod' = [prod EXCEPT ![c] = Absent]
        /\ NotifyRemoved(c, TRUE)
        /\ UNCHANGED <<test, worker>>
        /\ UNCHANGED <<tainted, faults>>
     \/ /\ ~(c \in Ings /\ prod[c] # Absent)
        /\ \/ RenderDefault /\ FaultFree /\ UNCHANGED tainted
           \/ /\ Fault
              /\ \E t \in {Empty, Torn} : test' = [test EXCEPT ![Main] = t]
              /\ tainted' = TRUE
              /\ UNCHANGED worker
        /\ UNCHANGED <<prod, events>>
  /\ UNCHANGED <<desired, later, bak, process, starter, watching, wpc, changes>>

(* reload: nothing to do when the production file already holds the version. *)
Stat ==
  /\ pc = "stat"
  /\ \/ prod[cur] = Absent /\ first' = TRUE /\ Goto("test")
     \/ prod[cur] # Absent /\ prod[cur] = test[cur] /\ Goto("clean") /\ UNCHANGED first
     \/ prod[cur] # Absent /\ prod[cur] # test[cur] /\ Goto("backup") /\ UNCHANGED first
  /\ UNCHANGED <<objects, files, cur, retry, process, watchers, counters>>

(* Mutant: the backup is not written before the swap. *)
SkipBackup ==
  /\ pc = "backup"
  /\ Goto("truncate")
  /\ UNCHANGED <<objects, files, cur, first, retry, process, watchers, counters>>

(* generateConf refuses to copy an empty file. *)
Backup ==
  /\ pc = "backup"
  /\ \/ /\ bak' = [bak EXCEPT ![cur] = prod[cur]]
        /\ Goto(IF prod[cur] = Empty THEN "fail" ELSE "truncate")
        /\ FaultFree
     \/ /\ Fault
        /\ \E b \in {Empty, Torn} : bak' = [bak EXCEPT ![cur] = b]
        /\ Goto("fail")
  /\ UNCHANGED <<objects, prod, test, cur, first, retry, process, watchers,
                 tainted, changes>>

(* os.WriteFile truncates the production file, then writes it. *)
Truncate ==
  /\ pc = "truncate"
  /\ \/ /\ prod' = [prod EXCEPT ![cur] = Empty]
        /\ Goto("overwrite")
        /\ FaultFree
     \/ /\ Fault
        /\ Goto("fail")
        /\ UNCHANGED prod
  /\ UNCHANGED <<objects, test, bak, cur, first, retry, process, watchers,
                 tainted, changes>>

(* A failed overwrite is not rolled back. *)
Overwrite ==
  /\ pc = "overwrite"
  /\ \/ /\ prod' = [prod EXCEPT ![cur] = test[cur]]
        /\ Goto("drop")
        /\ FaultFree
        /\ UNCHANGED tainted
     \/ /\ Fault
        /\ \E p \in {Empty, Torn} : prod' = [prod EXCEPT ![cur] = p]
        /\ Goto("fail")
        /\ tainted' = TRUE
  /\ UNCHANGED <<objects, test, bak, cur, first, retry, process, watchers, changes>>

(* backupConf removes the test file before nginx -t. *)
DropTest ==
  /\ pc = "drop"
  /\ test' = [test EXCEPT ![cur] = Absent]
  /\ NotifyRemoved(cur, TRUE)
  /\ Goto("test")
  /\ UNCHANGED <<objects, prod, bak, cur, first, retry, process, starter, watching,
                 wpc, counters>>

(* Mutant: a refused version is not rolled back. *)
TestWithoutRollback ==
  /\ pc = "test"
  /\ Goto(IF ConfigOK THEN "commit" ELSE "fail")
  /\ UNCHANGED <<objects, files, cur, first, retry, process, watchers, counters>>

(* Mutant: the exit status of nginx -t is ignored. *)
TestIgnored ==
  /\ pc = "test"
  /\ Goto("commit")
  /\ UNCHANGED <<objects, files, cur, first, retry, process, watchers, counters>>

(* nginx -t: only an exit status counts as a refusal, a failure to run it  *)
(* does not.                                                               *)
NginxTest ==
  /\ pc = "test"
  /\ \/ /\ \/ ConfigOK /\ Goto("commit")
           \/ ~ConfigOK /\ first /\ Goto("fail")
           \/ ~ConfigOK /\ ~first /\ Goto("rollback")
        /\ FaultFree
        /\ UNCHANGED tainted
     \/ /\ Fault
        /\ Goto("commit")
        /\ tainted' = TRUE
  /\ UNCHANGED <<objects, files, cur, first, retry, process, watchers, changes>>

(* rolloutConf: truncate, then copy the backup.  When that fails the       *)
(* refused version stays.                                                  *)
Rollback ==
  /\ pc = "rollback"
  /\ \/ /\ prod' = [prod EXCEPT ![cur] = Empty]
        /\ Goto("restore")
        /\ FaultFree
        /\ UNCHANGED tainted
     \/ /\ Fault
        /\ Goto("fail")
        /\ tainted' = TRUE
        /\ UNCHANGED prod
  /\ UNCHANGED <<objects, test, bak, cur, first, retry, process, watchers, changes>>

Restore ==
  /\ pc = "restore"
  /\ \/ /\ prod' = [prod EXCEPT ![cur] = bak[cur]]
        /\ FaultFree
        /\ UNCHANGED tainted
     \/ /\ Fault
        /\ \E p \in {Empty, Torn} : prod' = [prod EXCEPT ![cur] = p]
        /\ tainted' = TRUE
  /\ Goto("fail")
  /\ UNCHANGED <<objects, test, bak, cur, first, retry, process, watchers, changes>>

(* The accepted first version is copied; without a test file the copy is   *)
(* no operation.                                                           *)
Commit ==
  /\ pc = "commit"
  /\ \/ /\ prod' = [prod EXCEPT ![cur] = IF test[cur] = Absent THEN @ ELSE test[cur]]
        /\ Goto("signal")
        /\ FaultFree
        /\ UNCHANGED tainted
     \/ /\ Fault
        /\ test[cur] # Absent
        /\ \E p \in {Empty, Torn} : prod' = [prod EXCEPT ![cur] = p]
        /\ Goto("fail")
        /\ tainted' = TRUE
  /\ UNCHANGED <<objects, test, bak, cur, first, retry, process, watchers, changes>>

(* Mutant: the reload counts on the watchers to signal. *)
SignalSkipped ==
  /\ pc = "signal"
  /\ Goto("clean")
  /\ UNCHANGED <<objects, files, cur, first, retry, process, watchers, counters>>

(* gracefulRestart: without a pid file the reload fails. *)
Signal ==
  /\ pc = "signal"
  /\ hup' = (hup \/ nginx = "up")
  /\ Goto(IF nginx = "up" THEN "clean" ELSE "fail")
  /\ UNCHANGED <<objects, files, cur, first, retry, nginx, running, watchers, counters>>

(* Mutant: the deferred CleanConf forgets the test file. *)
FinishKeepsTest ==
  /\ pc \in {"clean", "fail"}
  /\ bak' = [bak EXCEPT ![cur] = Absent]
  /\ NotifyRemoved(cur, bak[cur] # Absent)
  /\ later' = IF pc = "fail" THEN later \cup retry ELSE later
  /\ Goto("idle")
  /\ first' = FALSE
  /\ retry' = {}
  /\ UNCHANGED <<desired, queue, prod, test, cur, process, starter, watching, wpc,
                 counters>>

(* The deferred CleanConf, on success and on failure; a failure requeues.  *)
(* A file that cannot be removed is only logged.                           *)
Finish ==
  /\ pc \in {"clean", "fail"}
  /\ \/ /\ bak' = [bak EXCEPT ![cur] = Absent]
        /\ test' = [test EXCEPT ![cur] = Absent]
        /\ FaultFree
        /\ UNCHANGED tainted
     \/ /\ Fault
        /\ bak' \in {bak, [bak EXCEPT ![cur] = Absent]}
        /\ test' \in {test, [test EXCEPT ![cur] = Absent]}
        /\ bak'[cur] # Absent \/ test'[cur] # Absent
        /\ tainted' = TRUE
  /\ NotifyRemoved(cur, bak' # bak \/ test' # test)
  /\ later' = IF pc = "fail" THEN later \cup retry ELSE later
  /\ Goto("idle")
  /\ first' = FALSE
  /\ retry' = {}
  /\ UNCHANGED <<desired, queue, prod, cur, process, starter, watching, wpc, changes>>

Reload == \/ Stat \/ Backup \/ Truncate \/ Overwrite \/ DropTest \/ NginxTest
          \/ Rollback \/ Restore \/ Commit \/ Signal \/ Finish

----------------------------------------------------------------------------
(* nginx, started by a goroutine of the manager. *)

(* The container restarts: its files come from the image, and the objects  *)
(* that exist are listed again.                                            *)
Restart ==
  /\ prod' = [c \in Confs |-> IF c = Main THEN ImageConf ELSE Absent]
  /\ test' = [c \in Confs |-> Absent]
  /\ bak' = [c \in Confs |-> Absent]
  /\ queue' = {c \in Confs : desired[c] # Absent}
  /\ later' = {}
  /\ pc' = "idle" /\ cur' = Main /\ first' = FALSE /\ retry' = {}
  /\ nginx' = "down" /\ running' = {} /\ hup' = FALSE
  /\ starter' = "poll" /\ watching' = {}
  /\ events' = [w \in Watchers |-> 0]
  /\ wpc' = [w \in Watchers |-> "idle"]
  /\ tainted' = FALSE
  /\ UNCHANGED <<desired, changes>>

NginxExec ==
  /\ nginx = "down"
  /\ nginx' = "exec"
  /\ UNCHANGED <<objects, files, worker, running, hup, watchers, counters>>

(* nginx exits on a configuration it refuses, and the manager with it. *)
NginxRead ==
  /\ nginx = "exec"
  /\ \/ /\ ConfigOK
        /\ nginx' = "read"
        /\ running' = Loaded
        /\ UNCHANGED <<objects, files, worker, hup, watchers, counters>>
     \/ /\ ~ConfigOK
        /\ Restart
        /\ UNCHANGED faults

NginxPid ==
  /\ nginx = "read"
  /\ nginx' = "up"
  /\ UNCHANGED <<objects, files, worker, running, hup, watchers, counters>>

(* SIGHUP: a configuration nginx refuses leaves the old one running. *)
NginxLoad ==
  /\ hup
  /\ hup' = FALSE
  /\ running' = IF ConfigOK THEN Loaded ELSE running
  /\ UNCHANGED <<objects, files, worker, nginx, watchers, counters>>

Crash ==
  /\ Fault
  /\ Restart

----------------------------------------------------------------------------
(* The goroutine of Start and the watchers. *)

(* Any process named nginx ends the wait, an nginx -t too. *)
Poll ==
  /\ starter = "poll"
  /\ nginx # "down" \/ pc = "test"
  /\ starter' = "ssl"
  /\ UNCHANGED <<objects, files, worker, process, watching, events, wpc, counters>>

(* After ten seconds the watchers are given up for good. *)
StartTimeout ==
  /\ starter = "poll"
  /\ Fault
  /\ starter' = "gone"
  /\ UNCHANGED <<objects, files, worker, process, watching, events, wpc, tainted,
                 changes>>

AddWatch ==
  /\ starter \in Watchers
  /\ watching' = watching \cup {starter}
  /\ starter' = IF starter = "ssl" THEN "conf" ELSE "gone"
  /\ UNCHANGED <<objects, files, worker, process, events, wpc, counters>>

(* reloadIfWatchFileCurd drops the event when nginx -t refuses. *)
WatcherTest(w) ==
  /\ wpc[w] = "idle" /\ events[w] > 0
  /\ events' = [events EXCEPT ![w] = @ - 1]
  /\ \/ /\ wpc' = [wpc EXCEPT ![w] = IF ConfigOK THEN "signal" ELSE "idle"]
        /\ FaultFree
     \/ /\ Fault
        /\ wpc' = [wpc EXCEPT ![w] = "signal"]
  /\ UNCHANGED <<objects, files, worker, process, starter, watching, tainted, changes>>

WatcherSignal(w) ==
  /\ wpc[w] = "signal"
  /\ wpc' = [wpc EXCEPT ![w] = "idle"]
  /\ hup' = (hup \/ nginx = "up")
  /\ UNCHANGED <<objects, files, worker, nginx, running, starter, watching, events,
                 counters>>

----------------------------------------------------------------------------
Init ==
  /\ desired = [c \in Confs |-> Absent]
  /\ queue = {} /\ later = {}
  /\ prod = [c \in Confs |-> IF c = Main THEN ImageConf ELSE Absent]
  /\ test = [c \in Confs |-> Absent]
  /\ bak = [c \in Confs |-> Absent]
  /\ pc = "idle" /\ cur = Main /\ first = FALSE /\ retry = {}
  /\ nginx = "down" /\ running = {} /\ hup = FALSE
  /\ starter = "poll" /\ watching = {}
  /\ events = [w \in Watchers |-> 0]
  /\ wpc = [w \in Watchers |-> "idle"]
  /\ tainted = FALSE
  /\ changes = 0 /\ faults = 0

(* A controller that has started: nginx up, the watchers attached. *)
StartedInit ==
  /\ desired = [c \in Confs |-> Absent]
  /\ queue = {} /\ later = {}
  /\ prod = [c \in Confs |-> IF c = Main THEN ImageConf ELSE Absent]
  /\ test = [c \in Confs |-> Absent]
  /\ bak = [c \in Confs |-> Absent]
  /\ pc = "idle" /\ cur = Main /\ first = FALSE /\ retry = {}
  /\ nginx = "up" /\ running = {<<Main, ImageConf>>} /\ hup = FALSE
  /\ starter = "gone" /\ watching = Watchers
  /\ events = [w \in Watchers |-> 0]
  /\ wpc = [w \in Watchers |-> "idle"]
  /\ tainted = FALSE
  /\ changes = 0 /\ faults = 0

Users == \E c \in Confs : UserDelete(c) \/ \E v \in Offered(c) : UserApply(c, v)
Worker == (\E c \in Confs : Begin(c) \/ Clear(c)) \/ Reload
Nginx == NginxExec \/ NginxRead \/ NginxPid \/ NginxLoad
Watcher(w) == WatcherTest(w) \/ WatcherSignal(w)

Next == \/ Users
        \/ \E c \in Confs : Requeue(c)
        \/ Worker
        \/ Nginx
        \/ Crash
        \/ Poll \/ StartTimeout \/ AddWatch
        \/ \E w \in Watchers : Watcher(w)

Spec == Init /\ [][Next]_vars

(* The processes make progress; the workqueue is first in, first out, so a *)
(* key that waits is taken though others keep coming back.  Nothing is     *)
(* assumed of the users, of faults, or of the start-up timeout.            *)
Fairness ==
  /\ WF_vars(Reload) /\ WF_vars(Nginx)
  /\ WF_vars(Poll \/ AddWatch)
  /\ \A w \in Watchers : WF_vars(Watcher(w))
  /\ \A c \in Confs : /\ SF_vars(Begin(c) \/ Clear(c))
                      /\ WF_vars(Requeue(c))

StartedSpec == StartedInit /\ [][Next]_vars
StartedFairSpec == StartedSpec /\ Fairness

----------------------------------------------------------------------------
(* The worker's place in reload and its files stay within their types; the *)
(* event queues and the counters stay within their bounds.                 *)
TypeOK ==
  /\ desired \in [Confs -> Versions \cup {Absent}]
  /\ queue \subseteq Confs /\ later \subseteq Confs
  /\ prod \in [Confs -> FileState]
  /\ test \in [Confs -> FileState]
  /\ bak \in [Confs -> FileState]
  /\ pc \in {"idle", "stat", "backup", "truncate", "overwrite", "drop", "test",
             "rollback", "restore", "commit", "signal", "clean", "fail"}
  /\ cur \in Confs /\ first \in BOOLEAN /\ retry \subseteq Confs
  /\ nginx \in {"down", "exec", "read", "up"}
  /\ running \subseteq Confs \X Valid
  /\ hup \in BOOLEAN
  /\ starter \in {"poll", "ssl", "conf", "gone"}
  /\ watching \subseteq Watchers
  /\ events \in [Watchers -> 0..EventCap]
  /\ wpc \in [Watchers -> {"idle", "signal"}]
  /\ tainted \in BOOLEAN
  /\ changes \in 0..MaxChanges /\ faults \in 0..MaxFaults

(* Between two reloads the directory is one nginx accepts: every           *)
(* production file holds a validated version, and nothing that was being   *)
(* tried is left behind (reload's deferred CleanConf, rolloutConf).        *)
IdleClean ==
  pc = "idle" /\ ~tainted =>
    /\ ConfigOK
    /\ \A c \in Confs : /\ prod[c] \in Valid \cup {Absent}
                        /\ test[c] = Absent
                        /\ bak[c] = Absent

(* What is installed: the production files, except that the one being      *)
(* replaced is not yet, or no longer, the accepted one while it is on trial.*)
Swapping == pc \in {"truncate", "overwrite", "drop", "test", "rollback", "restore"}
stored == [c \in Confs |->
             IF c = cur /\ Swapping /\ ~first THEN bak[c]
             ELSE IF c = cur /\ pc = "commit" /\ first THEN test[c]
             ELSE prod[c]]

(* What reload leaves of the configuration it works on, step by step, and  *)
(* that every other configuration is at rest; and that what is installed   *)
(* defines no upstream twice: the invariant the proofs need, of which      *)
(* IdleClean, NoFalseReject and GoodCopyKept are corollaries.              *)
AtRest(c) == prod[c] \in Valid \cup {Absent} /\ test[c] = Absent /\ bak[c] = Absent
Phase ==
  LET p == prod[cur]  t == test[cur]  b == bak[cur]
      accepted == IF pc = "test" THEN Versions ELSE Valid
  IN
  /\ pc = "idle" => AtRest(cur)
  /\ pc = "stat" => p \in Valid \cup {Absent} /\ t \in Versions /\ b = Absent /\ ~first
  /\ pc = "backup" => p \in Valid /\ t \in Versions /\ ~first
  /\ pc = "truncate" => p = b /\ b \in Valid /\ t \in Versions /\ ~first
  /\ pc = "overwrite" => p = Empty /\ b \in Valid /\ t \in Versions /\ ~first
  /\ pc = "drop" => p \in Versions /\ b \in Valid /\ ~first
  /\ pc \in {"test", "commit"} /\ first => p = Absent /\ t \in accepted
  /\ pc \in {"test", "commit"} /\ ~first => p \in accepted /\ b \in Valid /\ t = Absent
  /\ pc \in {"rollback", "restore"} => b \in Valid /\ t = Absent /\ ~first
  /\ pc \in {"signal", "clean"} => p \in Valid
  /\ pc = "fail" => p \in Valid \cup {Absent}
OnTrack ==
  ~tainted => /\ \A c \in Confs \ {cur} : AtRest(c)
              /\ prod[Main] # Absent
              /\ first => cur \in Ings
              /\ Phase
InstalledApart ==
  ~tainted => \A c, d \in Ings : c # d => Apart(<<c, stored[c]>>, <<d, stored[d]>>)
ReloadInv == OnTrack /\ InstalledApart

(* nginx -t tests the whole directory, so a valid version could be refused *)
(* for what another reload left there.  It is refused for one reason only: *)
(* the installed file of another Ingress defines an upstream of that name. *)
Tried == IF first THEN test[cur] ELSE prod[cur]
NoFalseReject ==
  pc = "test" /\ ~tainted /\ Tried \in Valid =>
    ConfigOK \/ \E c \in Ings \ {cur} : ~Apart(<<cur, Tried>>, <<c, prod[c]>>)

(* The configuration to fall back on survives, in the production file or   *)
(* in the backup, at every step of a reload until the new one is accepted. *)
GoodCopyKept ==
  ~tainted => \A c \in Confs :
    prod[c] \notin Valid \cup {Absent} => c = cur /\ bak[c] \in Valid

Store == INSTANCE ConfStore WITH served <- running, intact <- ~tainted

(* The pipeline implements ConfStore: only accepted versions are installed *)
(* and nginx never serves anything but the store, save for the one         *)
(* configuration being replaced.                                           *)
ImplementsStore == Store!Spec

----------------------------------------------------------------------------
(* With nginx up and the watchers attached, what nginx serves for an       *)
(* Ingress settles on what its object asks for: its valid version and no   *)
(* other, or nothing once its file is to be removed.  No event, signal or  *)
(* retry on the way is lost for good.  A refused version promises nothing, *)
(* nor does one that clashes with what another Ingress has installed; and  *)
(* a start-up that is not over may miss a change: see the README.          *)
Ready == nginx = "up" /\ watching = Watchers
Serves(c) == {f[2] : f \in {g \in running : g[1] = c}}
Asked(c, o) == /\ Ready /\ c \in queue /\ desired[c] = o
               /\ o = Absent => prod[c] # Absent
Settled(c, o) == \/ desired[c] # o
                 \/ Serves(c) = {o} \ {Absent}
                 \/ \E d \in Ings \ {c} : ~Apart(<<c, o>>, <<d, stored[d]>>)
                 \/ ~Ready
Converges == \A c \in Ings, o \in Valid \cup {Absent} : Asked(c, o) ~> []Settled(c, o)

(* A controller that has started misses nothing: when no watcher, signal   *)
(* or reload has anything left to do, nginx serves exactly what the files  *)
(* hold, and of an Ingress that waits for no retry exactly what its object *)
(* asks for.  Events are dropped on the way (a watcher whose nginx -t is   *)
(* refused, a SIGHUP that reads a swap half done), never the last one.     *)
NothingMissed ==
  faults = 0 /\ pc = "idle" /\ Drained =>
    /\ running = Loaded
    /\ \A c \in Ings \ (queue \cup later) : Serves(c) = {desired[c]} \ {Absent}

(* "has not changed, no need to reload nginx" (reload): when the rendered  *)
(* nginx.conf equals the production file, nginx runs it or has been told   *)
(* to load it.                                                             *)
UnchangedIsLoaded ==
  pc = "stat" /\ cur = Main /\ prod[Main] = test[Main] /\ nginx = "up" =>
    <<Main, prod[Main]>> \in running \/ hup
==============================================================================
