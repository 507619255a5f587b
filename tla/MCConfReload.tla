---------------------------- MODULE MCConfReload ----------------------------
(* Small instances of ConfReload for TLC. *)
EXTENDS ConfReload

CONSTANTS i1, i2, v1, v2, bad

MCIngs == {i1, i2}
MCOne == {i1}
MCVersions == {v1, v2, bad}
MCValid == {v1, v2}

(* Among the files of two Ingresses only v1 of i1 and v2 of i2 clash.      *)
MCForeign == IF {i1, i2} \subseteq Ings
             THEN {<<<<i1, v1>>, <<i2, v2>>>>, <<<<i2, v2>>, <<i1, v1>>>>} ELSE {}

(* Every version proxies to the same Service, so any two files of an       *)
(* Ingress clash.                                                          *)
MCClashing == {<<<<c, v>>, <<c, w>>>> : c \in Ings, v \in Versions, w \in Versions}
              \cup MCForeign

(* v1 and v2 proxy to different Services. *)
MCDisjoint == {<<<<c, v>>, <<c, v>>>> : c \in Ings, v \in Versions} \cup MCForeign

(* A deleted default backend renders v1, so v1 need not be asked for.      *)
MCMainVersions == {v2}
==============================================================================
