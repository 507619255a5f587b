--------------------------- MODULE MCCertificates ---------------------------
(* Small instances of Certificates for TLC. *)
EXTENDS Certificates, TLC

CONSTANTS i1, i2, h1, h2, h3, s1, s2, o1, o2

MCIngs == {i1, i2}
MCHosts == {h1, h2, h3}
MCDnsHosts == {h1, h2}
MCSecrets == {s1, s2, o1, o2}
MCOwn == (i1 :> o1) @@ (i2 :> o2)
MCGens == {1, 2}

Tls(s, h) == [secret |-> s, host |-> h]
Spec1(rules, tls) == [rules |-> rules, ca |-> tls # <<>>, tls |-> tls]

(* An item of spec.tls that names no host. *)
NoHost(rules) == [rules |-> rules, ca |-> TRUE, tls |-> <<>>]

(* i1 has a pair for each of two hosts, or its own or none for one; i2     *)
(* writes the second host's pair too, from the first host's Secret, or     *)
(* would if h3 were a DNS name.                                            *)
MCSpecs ==
  (i1 :> {Spec1({h1, h2}, <<Tls(s1, h1), Tls(s2, h2)>>), Spec1({h1}, <<>>), NoHost({h1})})
  @@ (i2 :> {Spec1({h2}, <<Tls(s1, h2)>>), Spec1({h2}, <<Tls(s1, h3), Tls(s1, h2)>>)})
MCListed == (i1 :> Spec1({h1, h2}, <<Tls(s1, h1), Tls(s2, h2)>>))
            @@ (i2 :> None)

MCPair(n) == [p \in Parts |-> n]
MCMixed == [p \in Parts |-> IF p = "crt" THEN 1 ELSE 2]
MCLacking == [p \in {} |-> 1]

MCFirst == [s \in MCSecrets |-> MCPair(1)]

(* s1 can be renewed, become a mismatch, lack both parts or be deleted.    *)
MCIssued == (s1 :> {MCPair(1), MCPair(2), MCMixed, MCLacking, None})
            @@ (s2 :> {MCPair(1)})
            @@ (o1 :> {MCPair(1)}) @@ (o2 :> {MCPair(1)})

(* Each Ingress has a Secret for its host, or drops it. *)
MCDropSpecs ==
  (i1 :> {Spec1({h1}, <<Tls(s1, h1)>>), Spec1({h1}, <<>>)})
  @@ (i2 :> {Spec1({h2}, <<Tls(s1, h2)>>), Spec1({h2}, <<>>)})
MCDropListed == (i1 :> Spec1({h1}, <<Tls(s1, h1)>>)) @@ (i2 :> Spec1({h2}, <<Tls(s1, h2)>>))
MCMismatch == (s1 :> {MCPair(1), MCMixed}) @@ (s2 :> {MCPair(1)})
              @@ (o1 :> {MCPair(1)}) @@ (o2 :> {MCPair(1)})
==============================================================================
