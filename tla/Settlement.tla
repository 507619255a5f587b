----------------------------- MODULE Settlement -----------------------------
(***************************************************************************)
(* What Reconcile promises of each Ingress, without Services, certificates *)
(* and retries: one object at a time is taken in hand; its file is only    *)
(* ever written with what was asked for by the version in hand; and it is  *)
(* let go only when its file is the one its present version asks for, or   *)
(* stays pending.  An object without rules keeps whatever file an earlier  *)
(* version left.                                                           *)
(***************************************************************************)
CONSTANTS
  Ings,   \* Ingress names
  Specs,  \* the specifications users write
  None    \* no object, no file, nothing in hand

VARIABLES
  wanted,   \* the objects
  file,     \* the servers of each configuration file
  pending,  \* Ingresses queued, waiting to be retried or in hand
  hand      \* the Ingress and the version being reconciled
vars == <<wanted, file, pending, hand>>

(* What the file of an object with rules holds. *)
AskedBy(s) == [svcs |-> s.rules, hosts |-> s.hosts]

Init == /\ wanted \in [Ings -> Specs \cup {None}]
        /\ file = [i \in Ings |-> None]
        /\ pending = {i \in Ings : wanted[i] # None}
        /\ hand = None

Change(i, o) == /\ wanted' = [wanted EXCEPT ![i] = o]
                /\ pending' = pending \cup {i}
                /\ UNCHANGED <<file, hand>>

Resync == /\ pending' = pending \cup {i \in Ings : wanted[i] # None}
          /\ UNCHANGED <<wanted, file, hand>>

Take(i) == /\ hand = None /\ i \in pending /\ wanted[i] # None
           /\ hand' = <<i, wanted[i]>>
           /\ UNCHANGED <<wanted, file, pending>>

(* A deleted object's file goes first of all. *)
Clean(i) == /\ hand = None /\ i \in pending /\ wanted[i] = None
            /\ file' = [file EXCEPT ![i] = None]
            /\ pending' \in {pending, pending \ {i}}
            /\ UNCHANGED <<wanted, hand>>

Write == /\ hand # None /\ hand[2].rules # {}
         /\ file' = [file EXCEPT ![hand[1]] = AskedBy(hand[2])]
         /\ UNCHANGED <<wanted, pending, hand>>

(* The attempt failed, or the object changed meanwhile. *)
LetGo == /\ hand # None
         /\ hand' = None
         /\ UNCHANGED <<wanted, file, pending>>

Finish == /\ hand # None /\ wanted[hand[1]] = hand[2]
          /\ hand[2].rules # {} => file[hand[1]] = AskedBy(hand[2])
          /\ hand' = None
          /\ pending' = pending \ {hand[1]}
          /\ UNCHANGED <<wanted, file>>

(* The container restarts. *)
Restart == /\ file' = [i \in Ings |-> None]
           /\ pending' = {i \in Ings : wanted[i] # None}
           /\ hand' = None
           /\ UNCHANGED wanted

Next == \/ \E i \in Ings : Take(i) \/ Clean(i) \/ \E o \in Specs \cup {None} : Change(i, o)
        \/ Resync \/ Write \/ LetGo \/ Finish \/ Restart

Spec == Init /\ [][Next]_vars
==============================================================================
