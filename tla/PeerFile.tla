------------------------------ MODULE PeerFile ------------------------------
(***************************************************************************)
(* What the discovery container promises the readers of discovery.json:    *)
(* whenever what they get changes, they get the peers the container knows  *)
(* at that moment, or a file they cannot parse, and no list they can parse *)
(* stays out of date for ever.                                             *)
(* This is the intent of src/discovery/pkg/storage/file.go, without its    *)
(* lock, its temporary file and its two writers; FileStorage implements it.*)
(***************************************************************************)
CONSTANTS
    Tables,       \* the sets of peers
    Empty,        \* no peer: a container that has just started
    Absent,       \* no file yet
    Broken        \* a file that does not parse

VARIABLES
    known,        \* the peers the container knows
    published     \* what a reader of the file gets

vars == <<known, published>>

Init == known = Empty /\ published = Absent

\* A peer is added or moved, stale peers are removed, the container restarts.
Change == known' \in Tables /\ UNCHANGED published

\* A call of WriteDiscoveryFile takes effect.
Publish == published' = known /\ UNCHANGED known

\* Two overlapping calls damage each other's file.
Tear == published' = Broken /\ UNCHANGED known

Next == Change \/ Publish \/ Tear

Spec == Init /\ [][Next]_vars

\* A list that parses does not stay behind for ever. One that is torn may:
\* nothing keeps calls from overlapping each time.
FairSpec == Spec /\ WF_vars(published # Broken /\ Publish)
=============================================================================
