----------------------------- MODULE MCReconcile -----------------------------
(* Small instances of Reconcile for TLC. *)
EXTENDS Reconcile

CONSTANTS i1, i2, f1, f2, s1, s2, h1, h2

MCIngs == {i1, i2}

(* A file for each Ingress. *)
MCFileOf == [i \in MCIngs |-> IF i = i1 THEN f1 ELSE f2]

MCSvcs == {s1, s2}
(* Each file's upstreams are its own; or that of s1 in the file of i2 and  *)
(* that of s2 in the file of i1 have one name, as api in v1-web and api-v1 *)
(* in web.                                                                 *)
MCOwn == [u \in MCSvcs \X {f1, f2} |-> u]
MCShared == [MCOwn EXCEPT ![<<s1, f2>>] = <<s2, f1>>]

MCOneHost == {h1}
MCHosts == {h1, h2}

Ours(rules, hosts, default) ==
  [ours |-> TRUE, sound |-> TRUE, rules |-> rules, hosts |-> hosts, default |-> default]

(* Rules, a default backend, both, an object of another class, and one     *)
(* whose annotations do not parse.                                         *)
MCSpecs == {Ours({s1}, h1, None), Ours({s2}, h1, None), Ours({s1}, h1, s2),
            Ours({}, h1, s1),
            [Ours({s1}, h1, None) EXCEPT !.ours = FALSE],
            [Ours({s1}, h1, None) EXCEPT !.sound = FALSE]}

MCLiveSpecs == {Ours({s1}, h1, None), Ours({s2}, h1, None), Ours({s1}, h1, s2)}
MCDefaultSpecs == {Ours({s1}, h1, None), Ours({}, h1, s1), Ours({}, h1, s2)}
MCHostSpecs == {Ours({s1}, h1, None), Ours({s1}, h2, None)}

(* Nothing at first; or one Ingress that is already there.                 *)
MCNoneListed == [i \in MCIngs |-> None]
MCOneListed == [i \in MCIngs |-> IF i = i1 THEN Ours({s1}, h1, None) ELSE None]
==============================================================================
