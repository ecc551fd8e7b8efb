----------------------------- MODULE FileWatch -----------------------------
(***************************************************************************)
(* How a router learns of the changes of discovery.json: FileStorage,      *)
(* which writes the file, composed with the router's watcher               *)
(* (src/router/pkg/discovery/watcher.go), which reads it. The two          *)
(* containers share nothing but the volume.                                *)
(*                                                                         *)
(* fsnotify watches the inode that had the name when the watch was set. A  *)
(* write to that inode is a Write event; a rename that replaces the name   *)
(* is none (the inode's link count changes, and the watch goes with the    *)
(* inode), and the new inode is not watched.                               *)
(***************************************************************************)
EXTENDS FileStorage

VARIABLES
    router,       \* where the router process is
    watch,        \* the inode the watch is on
    event,        \* a Write event is in watcher.Events
    applied       \* the peers last given to the callback, NoTable if none

watchVars == <<router, watch, event, applied>>
allVars   == <<vars, watchVars>>

WatchInit ==
    /\ Init
    /\ router = "off" /\ watch = NoInode /\ event = FALSE /\ applied = NoTable

-----------------------------------------------------------------------------
\* An inode that has neither a name nor a descriptor is freed, and its watch
\* with it.
Kept(i) == i \in {pub', tmp'} \cup {fd'[g] : g \in Goroutine}

WritesTo(i) == \E g \in Goroutine : fd[g] = i /\ (Encode(g) \/ EncodeFails(g))

\* A step of the discovery container, as the kernel reports it.
StorageStep ==
    /\ Next
    /\ event' = (event \/ (watch # NoInode /\ WritesTo(watch)))
    /\ watch' = IF Kept(watch) THEN watch ELSE NoInode
    /\ UNCHANGED <<router, applied>>

\* Router.Start up to the watcher: it waits for the file, and exits, to be
\* started again, until the file lists a peer.
Setup ==
    /\ router = "off"
    /\ Published \notin {Absent, Broken, Empty}
    /\ router' = "watch"
    /\ UNCHANGED <<vars, watch, event, applied>>

\* watcher.Add, on the inode that has the name now.
AddWatch ==
    /\ router = "watch"
    /\ router' = "load" /\ watch' = pub
    /\ UNCHANGED <<vars, event, applied>>

\* Mutant of LoadAndNotify: the error of json.Unmarshal is not looked at.
LoadAnything ==
    /\ router' = "run"
    /\ applied' = Published
    /\ UNCHANGED <<vars, watch>>

\* loadAndNotify: a file that does not parse is logged and nothing else.
LoadAndNotify ==
    /\ router' = "run"
    /\ applied' = IF Published = Broken THEN applied ELSE Published
    /\ UNCHANGED <<vars, watch>>

\* Mutant of InitialLoad: the first load is left to the first event.
NoInitialLoad ==
    /\ router = "load" /\ router' = "run"
    /\ UNCHANGED <<vars, watch, event, applied>>

\* The load in Watcher.Start.
InitialLoad == router = "load" /\ LoadAndNotify /\ UNCHANGED event

\* watchLoop takes a Write event.
HandleEvent == router = "run" /\ event /\ event' = FALSE /\ LoadAndNotify

\* The router container stops or is killed.
RouterExit ==
    /\ router # "off"
    /\ router' = "off" /\ watch' = NoInode /\ event' = FALSE
    /\ applied' = NoTable
    /\ UNCHANGED vars

WatcherStep == Setup \/ AddWatch \/ InitialLoad \/ HandleEvent

WatchNext == StorageStep \/ WatcherStep \/ RouterExit

WatchSpec == WatchInit /\ [][WatchNext]_allVars

\* The fairness of FileStorage, and the router process runs.
WatchFairSpec ==
    /\ WatchSpec
    /\ \A g \in Goroutine : WF_allVars(WriteStep(g) /\ StorageStep)
    /\ SF_allVars(CleanupStale /\ StorageStep)
    /\ WF_allVars(WatcherStep)

-----------------------------------------------------------------------------
(* Properties.                                                             *)

WatchTypeOK ==
    /\ TypeOK
    /\ router \in {"off", "watch", "load", "run"}
    /\ watch \in Inode \cup {NoInode}
    /\ event \in BOOLEAN
    /\ applied \in Table \cup {NoTable}

\* As long as the router's watch is on the inode that has the name, and no
\* event waits, the router has applied what the file says, also when two
\* writers write the published inode under its eyes: the watch is set before
\* the first load (watcher.go:57-62), and an event is taken before the file is
\* read (watcher.go:81-88).
InSyncWhileWatched ==
    (router = "run" /\ watch = pub /\ ~event /\ Published # Broken)
        => applied = Published

\* Inodes, watches and events implement the reader that PeerReader describes:
\* every list the router applies is whole and the one that is published just
\* then, which was the container's when it was published, while the two writers
\* tear and replace the file and either container comes and goes
\* (watcher.go:57-115, file.go:80-117).
PR == INSTANCE PeerReader
        WITH Tables <- Table, Unread <- NoTable, known <- peers, published <- Published

ImplementsPeerReader == PR!ReaderSpec

\* DESIGN.md:386 and 440-443: the router watches the file and adds and removes
\* entries and routes as peers join and leave. The peers that stay in the map
\* reach a router that goes on running.
RouterFollows ==
    \A t \in Table :
        []((router = "run" /\ peers = t)
            => <>(router # "run" \/ peers # t \/ applied = t))

=============================================================================
