------------------------------ MODULE ConfStore ------------------------------
(***************************************************************************)
(* What the configuration pipeline of internal/nginx promises, without the *)
(* files, the watchers and the signals it is made of: a store of           *)
(* configurations accepted by nginx -t, and an nginx process that serves   *)
(* them.  ConfReload implements it.                                        *)
(***************************************************************************)
CONSTANTS
  Confs,      \* the configuration files: one per Ingress, and nginx.conf
  Main,       \* nginx.conf, which is always there
  Versions,   \* what a configuration file may hold
  Valid,      \* the versions nginx -t accepts, by themselves
  Clashing,   \* pairs of <<configuration, version>> it does not accept together
  ImageConf,  \* the nginx.conf of the container image
  Absent      \* no file

VARIABLES
  stored,     \* the accepted version of each configuration, or Absent
  served,     \* the <<configuration, version>> pairs nginx has loaded
  intact      \* FALSE once the operating system failed a write or an exec

vars == <<stored, served, intact>>

(* The container image: no Ingress is configured. *)
ImageStore == [c \in Confs |-> IF c = Main THEN ImageConf ELSE Absent]

Init == /\ stored = ImageStore
        /\ served = {}
        /\ intact = TRUE

(* A version enters the store only when nginx -t has accepted it, next to  *)
(* all that is there.                                                      *)
Install(c, v) == /\ v \in Valid
                 /\ \A d \in Confs \ {c} : <<<<c, v>>, <<d, stored[d]>>>> \notin Clashing
                 /\ stored' = [stored EXCEPT ![c] = v]
                 /\ UNCHANGED <<served, intact>>

(* nginx.conf is never removed. *)
Discard(c) == /\ c # Main
              /\ stored' = [stored EXCEPT ![c] = Absent]
              /\ UNCHANGED <<served, intact>>

(* nginx loads the whole store, except that the one configuration that is  *)
(* being replaced at that moment may be missing (never nginx.conf) or be a *)
(* valid version not accepted yet.                                         *)
Load == \E c \in Confs, V \in SUBSET Valid :
          /\ c = Main => V # {}
          /\ served' = {<<d, stored[d]>> : d \in {e \in Confs \ {c} : stored[e] # Absent}}
                       \cup {<<c, v>> : v \in V}
          /\ UNCHANGED <<stored, intact>>

(* The container restarts from its image. *)
Reset == /\ stored' = ImageStore
         /\ served' = {}
         /\ intact' = TRUE

(* Nothing is promised after a failed write or a failed exec of nginx -t.  *)
Damaged == ~intact'

Next == \/ \E c \in Confs, v \in Versions : Install(c, v)
        \/ \E c \in Confs : Discard(c)
        \/ Load
        \/ Reset
        \/ Damaged

Spec == Init /\ [][Next]_vars
==============================================================================
