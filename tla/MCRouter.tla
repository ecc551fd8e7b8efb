------------------------------ MODULE MCRouter ------------------------------
(* Router on small instances. Router.cfg: three stacks on two hosts, two of  *)
(* which are given the same subnet. RouterStale.cfg: two with one each.       *)
EXTENDS Router, TLC

CONSTANTS s1, s2, s3, n1, n2, v1, v2, v3

MCSubnetOf == s1 :> n1 @@ s2 :> n2
MCHopOf    == s1 :> v1 @@ s2 :> v2

ClashSubnetOf == s3 :> n2 @@ s1 :> n1 @@ s2 :> n1
ClashHopOf    == s3 :> v3 @@ s1 :> v1 @@ s2 :> v2

\* Hosts may change places, and so may the two that claim one subnet.
Swap     == s1 :> s2 @@ s2 :> s1 @@ v1 :> v2 @@ v2 :> v1
Symmetry == Permutations(HostIP) \cup {Swap @@ h : h \in Permutations(HostIP)}
=============================================================================
