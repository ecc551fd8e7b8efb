-------------------------- MODULE SharedInterface --------------------------
(***************************************************************************)
(* The processes of one host and one VNI over the one kernel interface     *)
(* vxlan<VNI>: how they create it together, keep its forwarding entries,   *)
(* and delete it when they stop. Routers are those of                      *)
(* src/router/cmd/main.go with pkg/vxlan and pkg/fdb; managers are those   *)
(* of the privilege-separation variant, src/discovery/cmd/vxlan-manager.go *)
(* with discovery/pkg/vxlan, which poll their file instead of watching it. *)
(*                                                                         *)
(* Every command (ip, bridge) is one step. Routes, which one process does  *)
(* not share with another, are in Router; so is a file that is absent or   *)
(* does not parse, which to Start is the same as one that lists nobody.    *)
(***************************************************************************)
EXTENDS Integers, FiniteSets

CONSTANTS
    Router, Manager,  \* the processes of either kind on the host
    HostIP,           \* the addresses of other hosts
    Address,          \* the VXLAN addresses
    AddressOf,        \* localIP of each process
    Within,           \* pairs <<a, b>>: the text of a occurs in that of b
    MaxFailures,      \* bound: commands that fail
    MaxKills,         \* bound: kills of a process
    MaxStops          \* bound: stops by an operator

Process == Router \cup Manager

ASSUME ProcessAssumption == Router \cap Manager = {} /\ Process # {}
ASSUME AddressAssumption ==
    /\ AddressOf \in [Process -> Address]
    /\ \A p, q \in Process : AddressOf[p] = AddressOf[q] => p = q
    /\ Within \subseteq Address \X Address
ASSUME BoundAssumption == MaxFailures \in Nat /\ MaxKills \in Nat /\ MaxStops \in Nat

VARIABLES
    file,     \* the peers' hosts in the process's discovery.json
    pc,       \* where the process is
    goal,     \* the hosts that its last update lists
    missed,   \* those of them that the update could not add
    stopping, \* it has deleted the interface, or tried to, and is about to end
    entries,  \* fdbManager.entries, activePeers
    link,     \* the interface: {}, it exists, it is up
    addrs,    \* its addresses
    fdb,      \* its forwarding entries
    lost,     \* history: it was deleted under a process that relied on it
    warned,   \* history: the process's repair of it has failed
    stray,    \* history: hosts whose removal failed, or whose owner ended
    failures, kills, stops

kernelVars == <<link, addrs, fdb>>
histVars   == <<lost, warned, stray>>
memVars    == <<pc, goal, missed, stopping, entries, histVars>>
faultVars  == <<failures, kills, stops>>
vars       == <<file, memVars, kernelVars, faultVars>>

-----------------------------------------------------------------------------
Creating  == {"create", "address", "up"}
Repairing == {"repair", "raise"}
Updating  == {"first", "update"}
Serving   == {"load", "run", "event"} \cup Updating

\* Past its look at the interface, a process takes it for granted.
Relies(p) == pc[p] \in {"address", "up"} \cup Repairing \cup Serving

Exists == "exists" \in link

\* strings.Contains(output, localIP): the address of a sibling will do if the
\* own one is a part of its text.
Shown(p) == \E a \in addrs : a = AddressOf[p] \/ <<AddressOf[p], a>> \in Within

Failure == failures < MaxFailures /\ failures' = failures + 1

Goto(p, l) ==
    pc' = [pc EXCEPT ![p] = l] /\ UNCHANGED <<goal, missed, stopping, entries, histVars>>

\* A command of the repair fails, which is only logged.
WarnAndGoto(p, l) ==
    /\ pc' = [pc EXCEPT ![p] = l]
    /\ warned' = [warned EXCEPT ![p] = TRUE]
    /\ UNCHANGED <<goal, missed, stopping, entries, lost, stray>>

\* The process ends, by log.Fatal or otherwise, with all it remembers.
End(p, l) ==
    /\ pc' = [pc EXCEPT ![p] = l]
    /\ goal' = [goal EXCEPT ![p] = {}] /\ missed' = [missed EXCEPT ![p] = {}]
    /\ stopping' = [stopping EXCEPT ![p] = FALSE]
    /\ entries' = [entries EXCEPT ![p] = {}]
    /\ warned' = [warned EXCEPT ![p] = FALSE]

\* The interface outlives it, with the entries it had.
Leave(p) ==
    /\ lost' = [lost EXCEPT ![p] = FALSE]
    /\ stray' = stray \cup entries[p]

Exit(p) == End(p, "exited") /\ Leave(p)

Init ==
    /\ file = [p \in Process |-> {}]
    /\ pc = [p \in Process |-> "exited"]
    /\ goal = [p \in Process |-> {}] /\ missed = [p \in Process |-> {}]
    /\ stopping = [p \in Process |-> FALSE]
    /\ entries = [p \in Process |-> {}]
    /\ link = {} /\ addrs = {} /\ fdb = {}
    /\ lost = [p \in Process |-> FALSE] /\ warned = [p \in Process |-> FALSE] /\ stray = {}
    /\ failures = 0 /\ kills = 0 /\ stops = 0

\* The stack's discovery container publishes another list.
FileChanges(p) ==
    /\ \E F \in SUBSET HostIP : F # file[p] /\ file' = [file EXCEPT ![p] = F]
    /\ UNCHANGED <<memVars, kernelVars, faultVars>>

\* The container is started by the restart policy, or by its operator.
Boot(p, from) ==
    /\ pc[p] = from /\ Goto(p, "setup")
    /\ UNCHANGED <<file, kernelVars, faultVars>>

Restart(p) == Boot(p, "exited")
Reopen(p)  == Boot(p, "stopped")

\* Start up to CreateInterface: some host must be listed, and DetectHostIP (in
\* the router also the enabling of forwarding) must work.
Setup(p) ==
    /\ pc[p] = "setup"
    /\ \/ file[p] # {} /\ Goto(p, "check") /\ UNCHANGED failures
       \/ file[p] = {} /\ Exit(p) /\ UNCHANGED failures
       \/ file[p] # {} /\ Failure /\ Exit(p)
    /\ UNCHANGED <<file, kernelVars, kills, stops>>

-----------------------------------------------------------------------------
(* CreateInterface, which is the same in both packages.                    *)

\* Mutant of CheckInterface: nobody looks for an interface that is there.
CheckNothing(p) ==
    /\ pc[p] = "check" /\ Goto(p, "create")
    /\ UNCHANGED <<file, kernelVars, faultVars>>

\* InterfaceExists, which takes a command that fails for "no".
CheckInterface(p) ==
    /\ pc[p] = "check"
    /\ \/ Exists /\ Goto(p, "repair") /\ UNCHANGED failures
       \/ ~Exists /\ Goto(p, "create") /\ UNCHANGED failures
       \/ Exists /\ Failure /\ Goto(p, "create")
    /\ UNCHANGED <<file, kernelVars, kills, stops>>

\* `ip link add', refused when a sibling has been faster.
AddLink(p) ==
    /\ pc[p] = "create"
    /\ \/ ~Exists /\ link' = {"exists"} /\ Goto(p, "address") /\ UNCHANGED failures
       \/ Exists /\ UNCHANGED link /\ Exit(p) /\ UNCHANGED failures
       \/ Failure /\ UNCHANGED link /\ Exit(p)
    /\ UNCHANGED <<file, addrs, fdb, kills, stops>>

\* `ip addr add' and `ip link set up' on the new interface; either ends the
\* process when it fails, as it does when a sibling has deleted the interface.
AddAddress(p) ==
    /\ pc[p] = "address"
    /\ \/ Exists /\ addrs' = addrs \cup {AddressOf[p]} /\ Goto(p, "up") /\ UNCHANGED failures
       \/ ~Exists /\ UNCHANGED addrs /\ Exit(p) /\ UNCHANGED failures
       \/ Failure /\ UNCHANGED addrs /\ Exit(p)
    /\ UNCHANGED <<file, link, fdb, kills, stops>>

\* The router loads its file before Start returns, the manager when its ticker
\* first fires.
Started(p) == IF p \in Router THEN "load" ELSE "run"

SetUp(p) ==
    /\ pc[p] = "up"
    /\ \/ Exists /\ link' = link \cup {"up"} /\ Goto(p, Started(p)) /\ UNCHANGED failures
       \/ ~Exists /\ UNCHANGED link /\ Exit(p) /\ UNCHANGED failures
       \/ Failure /\ UNCHANGED link /\ Exit(p)
    /\ UNCHANGED <<file, addrs, fdb, kills, stops>>

\* Mutant of RepairAddress: an interface that exists has its addresses.
RepairNothing(p) ==
    /\ pc[p] = "repair" /\ Goto(p, "raise")
    /\ UNCHANGED <<file, kernelVars, faultVars>>

\* The interface is there: its address is added unless it is shown. What fails
\* is a warning only, here and in RepairLink.
RepairAddress(p) ==
    /\ pc[p] = "repair"
    /\ \/ /\ addrs' = IF Exists /\ ~Shown(p) THEN addrs \cup {AddressOf[p]} ELSE addrs
          /\ Goto(p, "raise") /\ UNCHANGED failures
       \/ Failure /\ UNCHANGED addrs /\ WarnAndGoto(p, "raise")
       \/ /\ Failure /\ Exists  \* `addr show' failed, `addr add' did not
          /\ addrs' = addrs \cup {AddressOf[p]} /\ Goto(p, "raise")
    /\ UNCHANGED <<file, link, fdb, kills, stops>>

RepairLink(p) ==
    /\ pc[p] = "raise"
    /\ \/ /\ link' = (IF Exists THEN link \cup {"up"} ELSE link)
          /\ Goto(p, Started(p)) /\ UNCHANGED failures
       \/ Failure /\ UNCHANGED link /\ WarnAndGoto(p, Started(p))
    /\ UNCHANGED <<file, addrs, fdb, kills, stops>>

-----------------------------------------------------------------------------
(* The peers: Router.onPeersUpdated with UpdateEntries, VXLANManager's      *)
(* updatePeers.                                                            *)

\* loadAndNotify at the end of Start or on an event, or a tick of the poller.
\* The watch that the router sets first may fail. A router that stops has closed
\* its watcher, the poller goes on.
Load(p) ==
    /\ \/ /\ \/ pc[p] = "load" /\ pc' = [pc EXCEPT ![p] = "first"]
             \/ pc[p] = "event" /\ pc' = [pc EXCEPT ![p] = "update"]
             \/ /\ pc[p] = "run" /\ (p \in Router => ~stopping[p])
                /\ pc' = [pc EXCEPT ![p] = "update"]
          /\ goal' = [goal EXCEPT ![p] = file[p]] /\ missed' = [missed EXCEPT ![p] = {}]
          /\ UNCHANGED <<stopping, entries, histVars, failures>>
       \/ pc[p] = "load" /\ Failure /\ Exit(p)
    /\ UNCHANGED <<file, kernelVars, kills, stops>>

\* Mutant of Stale: entries are only ever added.
NothingStale(p) == {}

Stale(p)   == entries[p] \ goal[p]
Missing(p) == goal[p] \ (entries[p] \cup missed[p])

\* The router removes first and adds then, the manager the other way round.
RemovesNow(p) == pc[p] \in Updating /\ (p \in Manager => Missing(p) = {})
AddsNow(p)    == pc[p] \in Updating /\ (p \in Router => Stale(p) = {})

\* Mutant of RemoveEntry: an entry is forgotten only when its removal works,
\* which it does not when a sibling has removed it; the update goes on without.
RemoveEntryStrictly(p, h) ==
    /\ RemovesNow(p) /\ h \in Stale(p)
    /\ \/ /\ h \in fdb /\ fdb' = fdb \ {h} /\ entries' = [entries EXCEPT ![p] = @ \ {h}]
          /\ stray' = stray \ {h} /\ UNCHANGED <<pc, failures>>
       \/ /\ h \notin fdb /\ pc' = [pc EXCEPT ![p] = "run"]
          /\ UNCHANGED <<fdb, entries, stray, failures>>
       \/ /\ Failure /\ pc' = [pc EXCEPT ![p] = "run"]
          /\ UNCHANGED <<fdb, entries, stray>>
    /\ UNCHANGED <<file, goal, missed, stopping, lost, warned, link, addrs, kills, stops>>

\* removeEntryUnsafe, RemovePeer: the entry is forgotten whether or not the
\* command works, and the kernel's goes though a sibling may still track it.
RemoveEntry(p, h) ==
    /\ RemovesNow(p) /\ h \in Stale(p)
    /\ entries' = [entries EXCEPT ![p] = @ \ {h}]
    /\ \/ fdb' = fdb \ {h} /\ stray' = stray \ {h} /\ UNCHANGED failures
       \/ Failure /\ stray' = stray \cup {h} /\ UNCHANGED fdb
    /\ UNCHANGED <<file, pc, goal, missed, stopping, lost, warned, link, addrs, kills, stops>>

\* addEntryUnsafe, AddPeer: `bridge fdb append', which succeeds on an entry
\* that is there; what fails is neither tracked nor tried again before the next
\* update.
AddEntry(p, h) ==
    /\ AddsNow(p) /\ h \in Missing(p)
    /\ \/ /\ Exists
          /\ fdb' = fdb \cup {h} /\ entries' = [entries EXCEPT ![p] = @ \cup {h}]
          /\ stray' = stray \ {h}
          /\ UNCHANGED <<missed, failures>>
       \/ /\ (~Exists /\ UNCHANGED failures) \/ Failure
          /\ missed' = [missed EXCEPT ![p] = @ \cup {h}] /\ UNCHANGED <<fdb, entries, stray>>
    /\ UNCHANGED <<file, pc, goal, stopping, lost, warned, link, addrs, kills, stops>>

UpdateDone(p) ==
    /\ pc[p] \in Updating /\ Stale(p) = {} /\ Missing(p) = {}
    /\ Goto(p, "run")
    /\ UNCHANGED <<file, kernelVars, faultVars>>

-----------------------------------------------------------------------------
\* Mutant of Stoppable: a signal is handled while Start is under way.
StoppableEarly(p) == pc[p] \notin {"exited", "stopped"}

\* main waits for a signal once Start has returned.
Stoppable(p) == pc[p] \in {"run", "update"}

\* SIGTERM once Start has returned: the interface is deleted, whoever else
\* relies on it; the deletion, or the look before it, may fail. A router has
\* closed its watcher before, but goes on with an update, or with an event for
\* which it has not read the file; a poller goes on altogether.
Stop(p) ==
    /\ Stoppable(p) /\ ~stopping[p] /\ stops < MaxStops /\ stops' = stops + 1
    /\ stopping' = [stopping EXCEPT ![p] = TRUE]
    /\ \/ UNCHANGED pc
       \/ p \in Router /\ pc[p] = "run" /\ pc' = [pc EXCEPT ![p] = "event"]
    /\ \/ /\ link' = {} /\ addrs' = {} /\ fdb' = {}
          /\ lost' = [q \in Process |-> lost[q] \/ (Exists /\ Relies(q))]
          /\ stray' = {}
          /\ UNCHANGED failures
       \/ Failure /\ UNCHANGED <<kernelVars, lost, stray>>
    /\ UNCHANGED <<file, goal, missed, entries, warned, kills>>

\* main returns. What a sibling's interface, made in the meantime, has got of
\* the process's entries stays.
Finish(p) ==
    /\ stopping[p]
    /\ End(p, "stopped") /\ Leave(p)
    /\ UNCHANGED <<file, kernelVars, faultVars>>

\* SIGKILL at any time, or SIGTERM before a router's Start has returned.
Kill(p) ==
    /\ pc[p] \notin {"exited", "stopped"}
    /\ kills < MaxKills /\ kills' = kills + 1
    /\ Exit(p)
    /\ UNCHANGED <<file, kernelVars, failures, stops>>

Create(p) ==
    \/ Setup(p) \/ CheckInterface(p)
    \/ AddLink(p) \/ AddAddress(p) \/ SetUp(p)
    \/ RepairAddress(p) \/ RepairLink(p)

Update(p) == UpdateDone(p) \/ \E h \in HostIP : RemoveEntry(p, h) \/ AddEntry(p, h)

Next == \E p \in Process :
    \/ FileChanges(p) \/ Restart(p) \/ Reopen(p) \/ Create(p) \/ Load(p) \/ Update(p)
    \/ Stop(p) \/ Finish(p) \/ Kill(p)

Spec == Init /\ [][Next]_vars

\* A process goes on, docker restarts it, and the poller's ticker fires. Files,
\* a router's events, operators and failures are not fair.
Fairness ==
    /\ \A p \in Process : WF_vars(Restart(p) \/ Create(p) \/ Update(p) \/ Finish(p)
                                    \/ (pc[p] = "load" /\ Load(p)))
    /\ \A p \in Manager : WF_vars(Load(p))

FairSpec == Spec /\ Fairness

-----------------------------------------------------------------------------
(* Properties.                                                             *)

TypeOK ==
    /\ file \in [Process -> SUBSET HostIP]
    /\ pc \in [Process -> {"exited", "stopped", "setup", "check"}
                             \cup Creating \cup Repairing \cup Serving]
    /\ \A p \in Process :
        /\ p \in Manager => pc[p] \notin {"load", "first", "event"}
        /\ pc[p] \notin Serving => entries[p] = {} /\ goal[p] = {} /\ ~stopping[p]
        /\ missed[p] \subseteq goal[p] \ entries[p]
        /\ lost[p] => Relies(p)
    /\ goal \in [Process -> SUBSET HostIP] /\ missed \in [Process -> SUBSET HostIP]
    /\ stopping \in [Process -> BOOLEAN]
    /\ entries \in [Process -> SUBSET HostIP]
    /\ link \in {{}, {"exists"}, {"exists", "up"}}
    /\ addrs \subseteq {AddressOf[p] : p \in Process} /\ fdb \subseteq HostIP
    /\ ~Exists => addrs = {} /\ fdb = {}
    /\ lost \in [Process -> BOOLEAN] /\ warned \in [Process -> BOOLEAN]
    /\ stray \subseteq HostIP
    /\ failures \in 0 .. MaxFailures /\ kills \in 0 .. MaxKills /\ stops \in 0 .. MaxStops

Complete(p) == link = {"exists", "up"} /\ Shown(p)

\* However the processes of a host meet in CreateInterface, whatever a killed
\* one has left half done and whatever has failed in others: a process that
\* serves has the interface, up, with its address or one that the sub-string
\* test takes for it, unless a sibling has deleted it or its own repair has
\* failed (interface.go:32-87).
InterfaceReady ==
    \A p \in Process : pc[p] \in Serving /\ ~lost[p] /\ ~warned[p] => Complete(p)

\* The forwarding entries are shared and each process removes them under the
\* others, but once all serve and rest, whatever has failed and been deleted
\* before: a host that all list has its entry, unless the addition has failed in
\* the last update of one of them; and one that nobody lists has none, unless
\* its removal failed or an owner of it ended without deleting the interface,
\* and nobody has added or removed it since (fdb/manager.go:79-130,
\* vxlan-manager.go:96-130).
AgreedEntries ==
    (\A p \in Process : pc[p] = "run" /\ ~stopping[p]) =>
        \A h \in HostIP :
            /\ (\A p \in Process : h \in goal[p] \ missed[p]) => h \in fdb
            /\ (h \notin stray /\ \A p \in Process : h \notin goal[p]) => h \notin fdb

\* A process that is neither serving nor stopped, at its first start or after a
\* service that failed or was killed, serves once its file goes on listing a
\* host: the races of CreateInterface, the exits and the restart policy do not
\* cycle for ever (interface.go:36-70, main.go:73-98, vxlan-manager.go:47-78).
StartsEventually ==
    \A p \in Process :
        <>[](pc[p] \notin Serving \cup {"stopped"}) => []<>(file[p] = {})

\* A manager that keeps its interface comes to track what its file goes on
\* saying, whatever failed before and whatever its siblings removed from the
\* kernel (vxlan-manager.go:81-130).
ManagerFollows ==
    \A p \in Manager : \A F \in SUBSET HostIP :
        <>[](pc[p] \in Serving /\ ~lost[p] /\ file[p] = F) => <>[](entries[p] = F)

\* TESTING.md:22: "Both stacks successfully share same VXLAN interface". With
\* no command failed and nobody killed, a process that serves has the
\* interface and is shown its address.
KeepsInterface ==
    (failures = 0 /\ kills = 0) =>
        \A p \in Process : pc[p] \in Serving /\ ~stopping[p] => Complete(p)

=============================================================================
