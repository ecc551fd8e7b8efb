----------------------------- MODULE PeerReader -----------------------------
(***************************************************************************)
(* What the router promises about discovery.json, on top of what PeerFile  *)
(* says of its publication: it only ever applies a peer list that it gets  *)
(* whole, as it is published at that moment, and keeps it until it applies *)
(* another or ends.                                                        *)
(* This is the intent of src/router/pkg/discovery/watcher.go, without      *)
(* inodes, watches and events; FileWatch implements it.                    *)
(***************************************************************************)
EXTENDS PeerFile

CONSTANT
    Unread        \* the router has not read the file

VARIABLE
    applied       \* the peers it has applied last

readerVars == <<known, published, applied>>

ReaderInit == Init /\ applied = Unread

\* The discovery container goes on, whatever the router does.
Container == Next /\ UNCHANGED applied

\* The file is read and parses.
Load == published \in Tables /\ applied' = published /\ UNCHANGED vars

\* The router stops or is killed.
Forget == applied' = Unread /\ UNCHANGED vars

ReaderNext == Container \/ Load \/ Forget

ReaderSpec == ReaderInit /\ [][ReaderNext]_readerVars
=============================================================================
