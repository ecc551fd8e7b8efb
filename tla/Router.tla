------------------------------- MODULE Router -------------------------------
(***************************************************************************)
(* One router container: how it starts, how it applies a peer list to the  *)
(* kernel's forwarding database and routing table, and what it believes it *)
(* has applied. Source: src/router/cmd/main.go, pkg/discovery/watcher.go,  *)
(* pkg/fdb/manager.go, pkg/routing/manager.go and pkg/vxlan/interface.go.  *)
(*                                                                         *)
(* The router runs in the host's network namespace (DESIGN.md:20), so the  *)
(* kernel's state outlives the process; each kernel change is one command  *)
(* (ip, bridge) and one step, between which the process may be killed.     *)
(* The file changes as it likes and an update is applied at any time: when *)
(* the watcher really gets an event is the subject of FileWatch.           *)
(***************************************************************************)
EXTENDS Integers, FiniteSets

CONSTANTS
    Stack,          \* the other stacks
    HostIP,         \* their host addresses
    NoHost,         \* "not listed"
    Absent, Broken, \* no file, a file that does not parse
    Configured,     \* the stacks that stack_mappings lists
    Subnet, Hop,    \* container subnets, VXLAN addresses
    NoHop,          \* "no route"
    SubnetOf,       \* container_subnet of a configured stack
    HopOf,          \* vxlan_ip of a configured stack
    MaxFailures,    \* bound: commands that fail
    MaxCrashes      \* bound: kills of the process

Table == [Stack -> HostIP \cup {NoHost}]
Empty == [s \in Stack |-> NoHost]

ASSUME TableAssumption == {Absent, Broken} \cap Table = {} /\ Absent # Broken
ASSUME HostAssumption == NoHost \notin HostIP
ASSUME AddressAssumption == HostIP \cap Subnet = {}
ASSUME ConfigAssumption ==
    /\ Configured \subseteq Stack
    /\ SubnetOf \in [Configured -> Subnet]
    /\ HopOf \in [Configured -> Hop]
    /\ NoHop \notin Hop
ASSUME BoundAssumption == MaxFailures \in Nat /\ MaxCrashes \in Nat

VARIABLES
    file,           \* what discovery.json says
    pc,             \* where the process is
    goal,           \* the peers of the last update
    plan,           \* newRoutes of the last update: the hop of each subnet
    tried,          \* hosts and subnets that the update has tried to add
    main,           \* main's goroutine: in Start, serving, or how far in Stop
    entries,        \* fdbManager.entries
    routes,         \* routeManager.routes: the hop of each subnet, or NoHop
    link,           \* what the vxlan interface has: it exists, an address, up
    kfdb,           \* the kernel's entries for the interface
    kroutes,        \* the kernel's routes over the interface
    failures, crashes,
    spoilt          \* history: what failed commands and kills may have left

memVars    == <<goal, plan, tried, main, entries, routes>>
kernelVars == <<link, kfdb, kroutes>>
faultVars  == <<failures, crashes, spoilt>>
vars       == <<file, pc, memVars, kernelVars, faultVars>>

-----------------------------------------------------------------------------
(* Data.                                                                   *)

Ready    == {"exists", "addr", "up"}
NoRoutes == [n \in Subnet |-> NoHop]

Listed(t) == {s \in Stack : t[s] # NoHost}
HostsOf(t) == {t[s] : s \in Listed(t)}

\* UpdateRoutes' newRoutes: an unconfigured stack is skipped; of two stacks
\* that claim one subnet the last in the file wins, and the file's order is
\* that of a Go map.
Claims(t, n) == {HopOf[s] : s \in {c \in Listed(t) \cap Configured : SubnetOf[c] = n}}
Plans(t) == {p \in [Subnet -> Hop \cup {NoHop}] :
                \A n \in Subnet : IF Claims(t, n) = {} THEN p[n] = NoHop
                                  ELSE p[n] \in Claims(t, n)}

Starting == {"wait", "forward", "setup", "create", "watch", "load"}
Applying == {"fdb", "routes"}
Main     == {"start", "serve", "closed", "deleted"}

\* The process has deleted its interface, and is about to end.
Deleted == main = "deleted" /\ link = {}

Failure == failures < MaxFailures /\ failures' = failures + 1

Kill    == crashes < MaxCrashes /\ crashes' = crashes + 1

\* An interface that is not complete, an update that is not wholly applied,
\* entries and routes of which the process does not know.
Damage == {"link", "update", "leftover"}

Spoils(what) == spoilt' = spoilt \cup {what}

Forget ==
    /\ goal' = Empty /\ plan' = NoRoutes /\ tried' = {} /\ main' = "start"
    /\ entries' = {} /\ routes' = NoRoutes

\* log.Fatalf, or a kill: the process is gone with all it remembers; the
\* restart policy starts it again.
Exit ==
    /\ pc' = "exited"
    /\ Forget

Goto(l) == pc' = l /\ UNCHANGED memVars

-----------------------------------------------------------------------------
Init ==
    /\ file = Absent
    /\ pc = "exited"
    /\ goal = Empty /\ plan = NoRoutes /\ tried = {} /\ main = "start"
    /\ entries = {} /\ routes = NoRoutes
    /\ link = {} /\ kfdb = {} /\ kroutes = NoRoutes
    /\ failures = 0 /\ crashes = 0 /\ spoilt = {}

\* The discovery container publishes something else; it never removes the file.
FileChanges ==
    /\ file' \in Table \cup {Broken}
    /\ file' # file
    /\ UNCHANGED <<pc, memVars, kernelVars, faultVars>>

\* The container is started: by the restart policy after an exit, by its
\* operator after a stop. It repairs the interface and applies anew; what it
\* does not know of it leaves alone.
Boot(from) ==
    /\ pc = from /\ Goto("wait")
    /\ spoilt' = spoilt \cap {"leftover"}
    /\ UNCHANGED <<file, kernelVars, failures, crashes>>

Restart == Boot("exited")
Reopen  == Boot("stopped")

WaitForDiscoveryFile ==
    /\ pc = "wait" /\ file # Absent /\ Goto("forward")
    /\ UNCHANGED <<file, kernelVars, faultVars>>

EnableIPForwarding ==
    /\ pc = "forward"
    /\ \/ Goto("setup") /\ UNCHANGED failures
       \/ Failure /\ Exit
    /\ UNCHANGED <<file, kernelVars, crashes, spoilt>>

\* setupVXLANInterface up to the creation: the file must parse and list an
\* active peer, and DetectHostIP must find the address towards it.
SetupInterface ==
    /\ pc = "setup"
    /\ \/ file \notin {Broken, Empty} /\ Goto("create") /\ UNCHANGED failures
       \/ file \in {Broken, Empty} /\ Exit /\ UNCHANGED failures
       \/ file \notin {Broken, Empty} /\ Failure /\ Exit
    /\ UNCHANGED <<file, kernelVars, crashes, spoilt>>

\* CreateInterface where there is none: link add, addr add, link up; the
\* first that fails ends the process, as a kill between two of them does, and
\* what the others did stays.
CreateNew ==
    /\ pc = "create" /\ link = {}
    /\ \/ link' = Ready /\ Goto("watch") /\ UNCHANGED <<failures, crashes>>
       \/ /\ link' \in {{}, {"exists"}, {"exists", "addr"}}
          /\ Exit
          /\ \/ Failure /\ UNCHANGED crashes
             \/ Kill /\ UNCHANGED failures
    /\ UNCHANGED <<file, kfdb, kroutes, spoilt>>

\* Mutant of CreateRepair: an interface that is there is taken as it is.
CreateTrusting ==
    /\ pc = "create" /\ link # {} /\ Goto("watch")
    /\ UNCHANGED <<file, kernelVars, faultVars>>

\* CreateInterface where there is one already: what is missing is added, and
\* a command that fails is only a warning.
CreateRepair ==
    /\ pc = "create" /\ link # {} /\ Goto("watch")
    /\ \/ link' = Ready /\ UNCHANGED <<failures, spoilt>>
       \/ /\ link' \in {l \in SUBSET Ready : link \subseteq l /\ l # Ready}
          /\ Failure /\ Spoils("link")
    /\ UNCHANGED <<file, kfdb, kroutes, crashes>>

\* Watcher.Start: the watch on the file is set, then the file is loaded.
AddWatch ==
    /\ pc = "watch"
    /\ \/ Goto("load") /\ UNCHANGED failures
       \/ Failure /\ Exit
    /\ UNCHANGED <<file, kernelVars, crashes, spoilt>>

\* The file is read once at the start and then whenever watchLoop gets an
\* event: at its select it gets none any more once the watcher is closed.
Reads == pc \in {"load", "event"} \/ (pc = "run" /\ main = "serve")

\* Start returns with the first update, and signals are caught from then on.
Served == IF main = "start" THEN "serve" ELSE main

\* Mutant of LoadAndNotify: the error of json.Unmarshal is not looked at.
LoadAnything ==
    /\ Reads
    /\ pc' = "fdb" /\ goal' = file /\ tried' = {}
    /\ plan' \in IF file = Broken THEN {NoRoutes} ELSE Plans(file)
    /\ UNCHANGED <<main, entries, routes>>
    /\ UNCHANGED <<file, kernelVars, faultVars>>

\* loadAndNotify, at the start or on an event, up to the callback: a file that
\* does not parse is logged and changes nothing.
LoadAndNotify ==
    /\ Reads
    /\ IF file = Broken
       THEN pc' = "run" /\ main' = Served /\ UNCHANGED <<goal, plan, tried>>
       ELSE /\ pc' = "fdb" /\ goal' = file /\ tried' = {}
            /\ plan' \in Plans(file)
            /\ UNCHANGED main
    /\ spoilt' = IF file = Broken THEN spoilt ELSE spoilt \ {"update"}
    /\ UNCHANGED <<entries, routes>>
    /\ UNCHANGED <<file, kernelVars, failures, crashes>>

-----------------------------------------------------------------------------
(* onPeersUpdated: fdbManager.UpdateEntries, then routeManager.UpdateRoutes *)

\* Mutant of StaleEntries: hosts are only ever added.
NoStaleEntries == {}

StaleEntries  == entries \ HostsOf(goal)
MissingHosts  == HostsOf(goal) \ (entries \cup tried)
StaleRoutes   == {n \in Subnet : routes[n] # NoHop /\ plan[n] = NoHop}
MissingRoutes == {n \in Subnet \ tried : plan[n] # NoHop /\ routes[n] # plan[n]}

\* removeEntryUnsafe: the entry is forgotten whether or not the command works,
\* which it does not on an interface that Stop has deleted.
RemoveEntry(h) ==
    /\ pc = "fdb" /\ h \in StaleEntries
    /\ entries' = entries \ {h}
    /\ \/ kfdb' = kfdb \ {h} /\ UNCHANGED <<failures, spoilt>>
       \/ Failure /\ Spoils("leftover") /\ UNCHANGED kfdb
    /\ UNCHANGED <<file, pc, main, goal, plan, tried, routes, link, kroutes, crashes>>

\* addEntryUnsafe: `bridge fdb append', which succeeds on an entry that is
\* there and fails without the interface; an entry whose command fails is not
\* tracked, and the next update tries again.
AddEntry(h) ==
    /\ pc = "fdb" /\ StaleEntries = {} /\ h \in MissingHosts
    /\ tried' = tried \cup {h}
    /\ \/ /\ link # {}
          /\ entries' = entries \cup {h} /\ kfdb' = kfdb \cup {h}
          /\ UNCHANGED <<failures, spoilt>>
       \/ link = {} /\ UNCHANGED <<entries, kfdb, failures, spoilt>>
       \/ Failure /\ Spoils("update") /\ UNCHANGED <<entries, kfdb>>
    /\ UNCHANGED <<file, pc, main, goal, plan, routes, link, kroutes, crashes>>

EntriesDone ==
    /\ pc = "fdb" /\ StaleEntries = {} /\ MissingHosts = {}
    /\ Goto("routes")
    /\ UNCHANGED <<file, kernelVars, faultVars>>

\* removeRouteUnsafe: as for an entry.
RemoveRoute(n) ==
    /\ pc = "routes" /\ n \in StaleRoutes
    /\ routes' = [routes EXCEPT ![n] = NoHop]
    /\ \/ kroutes' = [kroutes EXCEPT ![n] = NoHop] /\ UNCHANGED <<failures, spoilt>>
       \/ Failure /\ Spoils("leftover") /\ UNCHANGED kroutes
    /\ UNCHANGED <<file, pc, main, goal, plan, tried, entries, link, kfdb, crashes>>

\* Mutant of AddRoute: a route that is refused because the kernel has one is
\* tracked as if it had been added.
AddRouteOrKeep(n) ==
    /\ pc = "routes" /\ StaleRoutes = {} /\ n \in MissingRoutes
    /\ tried' = tried \cup {n}
    /\ routes' = [routes EXCEPT ![n] = IF kroutes[n] # NoHop \/ link = Ready THEN plan[n] ELSE @]
    /\ kroutes' = [kroutes EXCEPT ![n] = IF @ = NoHop /\ link = Ready THEN plan[n] ELSE @]
    /\ UNCHANGED <<file, pc, main, goal, plan, entries, link, kfdb, faultVars>>

\* addRouteUnsafe: `ip route add', which is refused where the kernel has a
\* route to the subnet, and where the interface has no address or is down.
AddRoute(n) ==
    /\ pc = "routes" /\ StaleRoutes = {} /\ n \in MissingRoutes
    /\ tried' = tried \cup {n}
    /\ \/ /\ kroutes[n] = NoHop /\ link = Ready
          /\ kroutes' = [kroutes EXCEPT ![n] = plan[n]]
          /\ routes' = [routes EXCEPT ![n] = plan[n]]
          /\ UNCHANGED <<failures, spoilt>>
       \/ /\ kroutes[n] # NoHop \/ link # Ready
          /\ UNCHANGED <<kroutes, routes, failures, spoilt>>
       \/ Failure /\ Spoils("update") /\ UNCHANGED <<kroutes, routes>>
    /\ UNCHANGED <<file, pc, main, goal, plan, entries, link, kfdb, crashes>>

RoutesDone ==
    /\ pc = "routes" /\ StaleRoutes = {} /\ MissingRoutes = {}
    /\ pc' = "run" /\ main' = Served
    /\ UNCHANGED <<file, goal, plan, tried, entries, routes, kernelVars, faultVars>>

-----------------------------------------------------------------------------
(* Stop: SIGTERM once Start has returned. It runs in main's goroutine, while *)
(* watchLoop's may be anywhere in an update and goes on with it, and what     *)
(* the managers track lives on, until main returns.                           *)

\* Watcher.Stop: watchLoop gets no event any more, and ends at its next select;
\* one that it has got, but for which it has not read the file, it goes on with.
CloseWatcher ==
    /\ main = "serve" /\ main' = "closed"
    /\ pc' = pc \/ (pc = "run" /\ pc' = "event")
    /\ UNCHANGED <<file, goal, plan, tried, entries, routes, kernelVars, faultVars>>

\* Mutant of DeleteInterface: the entries and routes are removed, and the
\* interface stays for the next start.
FlushInterface ==
    /\ main = "closed" /\ main' = "deleted"
    /\ kfdb' = {} /\ kroutes' = NoRoutes /\ spoilt' = {}
    /\ UNCHANGED <<file, pc, goal, plan, tried, entries, routes, link, failures, crashes>>

\* `ip link delete', which takes the entries and routes with it; it, or the
\* look before it, may fail, which is only logged.
DeleteInterface ==
    /\ main = "closed" /\ main' = "deleted"
    /\ \/ link' = {} /\ kfdb' = {} /\ kroutes' = NoRoutes /\ spoilt' = {} /\ UNCHANGED failures
       \/ Failure /\ Spoils("leftover") /\ UNCHANGED kernelVars
    /\ UNCHANGED <<file, pc, goal, plan, tried, entries, routes, crashes>>

\* main returns, and the process ends wherever watchLoop is.
Finish ==
    /\ main = "deleted"
    /\ pc' = "stopped" /\ Forget
    /\ UNCHANGED <<file, kernelVars, faultVars>>

Stop == CloseWatcher \/ DeleteInterface \/ Finish

Crash ==
    /\ pc \notin {"exited", "stopped"}
    /\ Kill /\ Exit /\ Spoils("leftover")
    /\ UNCHANGED <<file, kernelVars, failures>>

Start == \/ WaitForDiscoveryFile \/ EnableIPForwarding \/ SetupInterface
         \/ CreateNew \/ CreateRepair \/ AddWatch

Apply == \/ \E h \in HostIP : RemoveEntry(h) \/ AddEntry(h)
         \/ \E n \in Subnet : RemoveRoute(n) \/ AddRoute(n)
         \/ EntriesDone \/ RoutesDone

Next == \/ FileChanges \/ Restart \/ Reopen \/ Start \/ LoadAndNotify
        \/ Apply \/ Stop \/ Crash

Spec == Init /\ [][Next]_vars

-----------------------------------------------------------------------------
(* Properties.                                                             *)

TypeOK ==
    /\ file \in Table \cup {Absent, Broken}
    /\ pc \in Starting \cup Applying \cup {"exited", "stopped", "run", "event"}
    /\ goal \in Table
    /\ plan \in [Subnet -> Hop \cup {NoHop}]
    /\ tried \subseteq HostIP \cup Subnet
    /\ main \in Main
    /\ entries \subseteq HostIP
    /\ routes \in [Subnet -> Hop \cup {NoHop}]
    /\ link \subseteq Ready
    /\ kfdb \subseteq HostIP
    /\ kroutes \in [Subnet -> Hop \cup {NoHop}]
    /\ failures \in 0 .. MaxFailures
    /\ crashes \in 0 .. MaxCrashes
    /\ spoilt \subseteq Damage

\* Until it has deleted its interface, the router never believes in an entry or
\* a route that the kernel does not have, or has over another hop, whatever
\* commands fail, whenever it is killed, and also where two stacks claim one
\* subnet and take its hop from each other: what it tracks it need not add
\* again (fdb/manager.go:109-130, routing/manager.go:55, 99-121).
TrackedIsInKernel ==
    ~Deleted => /\ entries \subseteq kfdb
                /\ \A n \in Subnet : routes[n] # NoHop => kroutes[n] = routes[n]

\* A stop whose deletion has worked leaves no entry and no route, though
\* watchLoop goes on adding those of an update, or of a file that it reads once
\* more, before it and after it, and whatever failed before or a killed router
\* had left (main.go:101-120, watcher.go:72-84).
StopLeavesNothing ==
    (pc = "stopped" /\ "leftover" \notin spoilt) => kfdb = {} /\ kroutes = NoRoutes

\* The subnet is not claimed by two stacks (DESIGN.md:624 leaves that to the
\* operator).
Planned(n) ==
    \A s, t \in Configured : SubnetOf[s] = n /\ SubnetOf[t] = n => HopOf[s] = HopOf[t]

\* Once an update has been applied without a command failing, by a process that
\* has found or made a complete interface, every listed peer has its entry and
\* its route, or where two claim its subnet, one of them has: nothing that
\* failed in an earlier update, and nothing that an earlier process left half
\* done, of the interface or of an update, keeps the router from reaching a peer
\* (interface.go:39-61, fdb/manager.go:79-130, routing/manager.go:35-121).
EveryPeerReachable ==
    (pc = "run" /\ ~Deleted /\ spoilt \subseteq {"leftover"})
        => /\ link = Ready
           /\ HostsOf(goal) \subseteq kfdb
           /\ \A n \in Subnet : plan[n] # NoHop =>
                kroutes[n] # NoHop /\ (Planned(n) => kroutes[n] = plan[n])

\* With an update so applied, and no kill and no removal that failed since the
\* interface was last made, the kernel has the entries and routes of the listed
\* peers and no other, also for stacks that share a host, move between hosts or
\* come back, or claim one subnet (fdb/manager.go:89-103,
\* routing/manager.go:35-77).
KernelIsExact ==
    (pc = "run" /\ ~Deleted /\ spoilt = {})
        => /\ kfdb = HostsOf(goal)
           /\ \A n \in Subnet : /\ kroutes[n] = NoHop <=> plan[n] = NoHop
                                /\ Planned(n) => kroutes[n] = plan[n]

\* DESIGN.md:440-443: "Adds/removes FDB entries as peers join/leave",
\* "Installs/removes routes based on peer availability". With an update
\* applied and no command failed, the kernel has no route to the subnet of a
\* stack that is not listed.
NoStaleRoute ==
    (pc = "run" /\ goal # Empty /\ failures = 0)
        => \A n \in Subnet : kroutes[n] # NoHop => plan[n] # NoHop

=============================================================================
