---------------------------- MODULE MCDiscovery ----------------------------
(* Discovery on a small instance: two stacks, which may start, stop and    *)
(* move to the other address at any time. One of them is the observer,     *)
(* which gets answers as well as announcements and whose writes may fail   *)
(* and overlap. What it knows of the other does not depend on what the     *)
(* other knows of it, so the network connects one direction only.          *)
EXTENDS Discovery, TLC

CONSTANTS s1, s2

ToObserver == {<<s2, s1>>}

Symmetry == Permutations(HostIP)
=============================================================================
