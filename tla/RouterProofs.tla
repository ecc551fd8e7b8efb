---------------------------- MODULE RouterProofs ----------------------------
(***************************************************************************)
(* Proofs about Router, for every set of stacks, hosts, subnets and any    *)
(* number of failures and kills.                                           *)
(*                                                                         *)
(* None of the invariants is inductive by itself. That an update never     *)
(* takes `no file' for a peer list rests on the wait at the start and on a *)
(* file that, once there, is replaced and never removed (FilePresent);     *)
(* that every peer is reachable, on what an update in progress has done so *)
(* far and on an interface that is complete before the first update.       *)
(***************************************************************************)
EXTENDS Router, TLAPS

\* Past the wait the file is there.
FilePresent == pc \notin {"exited", "stopped", "wait"} => file # Absent

\* The hops that the configuration gives for a subnet.
HopsFor(n) == {HopOf[s] : s \in {c \in Configured : SubnetOf[c] = n}}

\* A process that has not loaded the file has applied nothing.
Idle ==
    pc \in Starting \cup {"exited", "stopped"} =>
        goal = Empty /\ plan = NoRoutes /\ entries = {} /\ routes = NoRoutes /\ main = "start"

\* Past the creation and until its deletion the interface is there, and
\* complete if its repair has not failed.
LinkReady ==
    (~Deleted /\ pc \in {"watch", "load", "run", "event", "fdb", "routes"})
        => link # {} /\ ("link" \notin spoilt => link = Ready)

\* Every hop, planned, tracked or in the kernel, comes from the configuration.
HopsPlanned ==
    \A n \in Subnet : {plan[n], routes[n], kroutes[n]} \subseteq HopsFor(n) \cup {NoHop}

\* In an update without a failing command the hosts that were tried are
\* tracked, and past the entries exactly the listed hosts are.
EntriesApplied ==
    ("update" \notin spoilt /\ ~Deleted) =>
        /\ pc = "fdb" => tried \subseteq HostsOf(goal) \cap entries
        /\ pc \in {"routes", "run", "event"} => entries = HostsOf(goal)

\* In such an update, over a complete interface, the kernel has a route to the
\* subnets that were tried, and in the end to all that are asked for, and to no
\* other is one tracked. That it is the right one follows from HopsPlanned.
RoutesApplied ==
    (~Deleted /\ {"link", "update"} \cap spoilt = {}) =>
        /\ pc = "routes" => \A n \in Subnet \cap tried :
                                plan[n] # NoHop => kroutes[n] # NoHop
        /\ pc \in {"run", "event"} => \A n \in Subnet :
                IF plan[n] = NoHop THEN routes[n] = NoHop ELSE kroutes[n] # NoHop

\* Without a kill or a failed removal the kernel has only what is tracked, and
\* nothing once the interface is deleted.
NoLeftovers ==
    "leftover" \notin spoilt =>
        IF Deleted THEN kfdb = {} /\ kroutes = NoRoutes ELSE kfdb = entries /\ kroutes = routes

\* A deletion that has worked has taken the interface.
LinkGone == (main = "deleted" /\ "leftover" \notin spoilt) => link = {}

RInv ==
    /\ TypeOK /\ FilePresent /\ TrackedIsInKernel
    /\ Idle /\ LinkReady /\ HopsPlanned
    /\ EntriesApplied /\ RoutesApplied /\ NoLeftovers /\ LinkGone

-----------------------------------------------------------------------------
\* The values that an exit and a start give the memory are well typed.
LEMMA EmptyTypes == Empty \in Table /\ NoRoutes \in [Subnet -> Hop \cup {NoHop}]
BY DEF Empty, Table, NoRoutes

\* The initial state: nothing runs, nothing is tracked.
LEMMA RInvInit == Init => RInv
<1> SUFFICES ASSUME Init PROVE RInv
  OBVIOUS
<1>1. TypeOK
  <2>1. file \in Table \cup {Absent, Broken} /\ goal \in Table
    BY EmptyTypes DEF Init
  <2>2. pc \in Starting \cup Applying \cup {"exited", "stopped", "run", "event"}
    BY DEF Init
  <2>3. /\ plan \in [Subnet -> Hop \cup {NoHop}]
        /\ routes \in [Subnet -> Hop \cup {NoHop}]
        /\ kroutes \in [Subnet -> Hop \cup {NoHop}]
    BY EmptyTypes DEF Init
  <2>4. /\ tried \subseteq HostIP \cup Subnet /\ main \in Main
        /\ entries \subseteq HostIP /\ kfdb \subseteq HostIP /\ link \subseteq Ready
    BY DEF Init, Main
  <2>5. failures \in 0 .. MaxFailures /\ crashes \in 0 .. MaxCrashes /\ spoilt \subseteq Damage
    BY BoundAssumption DEF Init
  <2> QED BY <2>1, <2>2, <2>3, <2>4, <2>5 DEF TypeOK
<1>2. FilePresent
  BY DEF Init, FilePresent
<1>3. TrackedIsInKernel
  BY DEF Init, TrackedIsInKernel, NoRoutes
<1>4. Idle /\ LinkReady
  BY DEF Init, Idle, LinkReady
<1>5. HopsPlanned
  BY DEF Init, HopsPlanned, NoRoutes
<1>6. EntriesApplied /\ RoutesApplied /\ NoLeftovers /\ LinkGone
  BY DEF Init, EntriesApplied, RoutesApplied, NoLeftovers, LinkGone, Deleted
<1> QED BY <1>1, <1>2, <1>3, <1>4, <1>5, <1>6 DEF RInv

\* What the small helpers change is well typed.
LEMMA HelperTypes ==
    ASSUME TypeOK
    PROVE  /\ Failure => failures' \in 0 .. MaxFailures
           /\ Kill => crashes' \in 0 .. MaxCrashes
           /\ Forget => /\ goal' \in Table /\ plan' \in [Subnet -> Hop \cup {NoHop}]
                        /\ tried' \subseteq HostIP \cup Subnet
                        /\ main' \in Main
                        /\ entries' \subseteq HostIP
                        /\ routes' \in [Subnet -> Hop \cup {NoHop}]
<1>1. Failure => failures' \in 0 .. MaxFailures
  BY BoundAssumption DEF TypeOK, Failure
<1>2. Kill => crashes' \in 0 .. MaxCrashes
  BY BoundAssumption DEF TypeOK, Kill
<1> QED BY <1>1, <1>2, EmptyTypes DEF Forget, Main

-----------------------------------------------------------------------------
\* Every step of Start keeps the types: it touches the interface, never the
\* entries or routes, and leaves the memory alone or gives it up.
LEMMA StartTypes ==
    ASSUME RInv, Restart \/ Reopen \/ Start
    PROVE  TypeOK'
<1> USE DEF RInv, Spoils, Damage
<1>1. CASE Restart
  BY <1>1 DEF Restart, Boot, Goto, TypeOK, memVars, kernelVars, faultVars, Starting
<1>2. CASE Reopen
  BY <1>2 DEF Reopen, Boot, Goto, TypeOK, memVars, kernelVars, faultVars, Starting
<1>3. CASE WaitForDiscoveryFile
  BY <1>3 DEF WaitForDiscoveryFile, Goto, TypeOK, memVars, kernelVars, faultVars, Starting
<1>4. CASE EnableIPForwarding
  BY <1>4, HelperTypes DEF EnableIPForwarding, Goto, Exit, TypeOK, memVars, kernelVars, Starting
<1>5. CASE SetupInterface
  BY <1>5, HelperTypes DEF SetupInterface, Goto, Exit, TypeOK, memVars, kernelVars, Starting
<1>6. CASE CreateNew
  BY <1>6, HelperTypes DEF CreateNew, Goto, Exit, TypeOK, memVars, faultVars, Starting, Ready
<1>7. CASE CreateRepair
  BY <1>7, HelperTypes DEF CreateRepair, Goto, TypeOK, memVars, Starting, Ready
<1>8. CASE AddWatch
  BY <1>8, HelperTypes DEF AddWatch, Goto, Exit, TypeOK, memVars, kernelVars, Starting
<1> QED BY <1>1, <1>2, <1>3, <1>4, <1>5, <1>6, <1>7, <1>8 DEF Start

\* Every command of an update, and its end, keeps the types.
LEMMA ApplyTypes ==
    ASSUME RInv, Apply
    PROVE  TypeOK'
<1> USE DEF RInv, Spoils, Damage
<1>1. ASSUME NEW h \in HostIP, RemoveEntry(h) PROVE TypeOK'
  BY <1>1, HelperTypes DEF RemoveEntry, TypeOK
<1>2. ASSUME NEW h \in HostIP, AddEntry(h) PROVE TypeOK'
  BY <1>2, HelperTypes DEF AddEntry, TypeOK
<1>3. ASSUME NEW n \in Subnet, RemoveRoute(n) PROVE TypeOK'
  BY <1>3, HelperTypes DEF RemoveRoute, TypeOK
<1>4. ASSUME NEW n \in Subnet, AddRoute(n) PROVE TypeOK'
  BY <1>4, HelperTypes DEF AddRoute, TypeOK
<1>5. CASE EntriesDone
  BY <1>5 DEF EntriesDone, Goto, TypeOK, memVars, kernelVars, faultVars, Applying
<1>6. CASE RoutesDone
  BY <1>6 DEF RoutesDone, Served, Main, TypeOK, kernelVars, faultVars
<1> QED BY <1>1, <1>2, <1>3, <1>4, <1>5, <1>6 DEF Apply

\* A peer list that is loaded is a table, because the file is there.
LEMMA LoadTypes ==
    ASSUME RInv, LoadAndNotify
    PROVE  TypeOK'
<1> USE DEF RInv, Spoils, Damage
<1>1. CASE file = Broken
  BY <1>1 DEF LoadAndNotify, Served, Main, TypeOK, kernelVars, faultVars
<1>2. CASE file # Broken
  <2>1. file \in Table
    BY <1>2 DEF LoadAndNotify, Reads, TypeOK, FilePresent
  <2>2. goal' \in Table /\ plan' \in [Subnet -> Hop \cup {NoHop}]
    BY <1>2, <2>1 DEF LoadAndNotify, Plans
  <2> QED BY <1>2, <2>2 DEF LoadAndNotify, TypeOK, kernelVars, faultVars, Applying
<1> QED BY <1>1, <1>2

\* Type correctness is preserved.
LEMMA TypeStep == RInv /\ [Next]_vars => TypeOK'
<1> SUFFICES ASSUME RInv, [Next]_vars PROVE TypeOK'
  OBVIOUS
<1> USE DEF RInv, Spoils, Damage
<1>1. CASE FileChanges
  BY <1>1 DEF FileChanges, TypeOK, memVars, kernelVars, faultVars
<1>2. CASE Stop
  <2>1. CASE CloseWatcher
    BY <2>1 DEF CloseWatcher, Main, TypeOK, kernelVars, faultVars
  <2>2. CASE DeleteInterface
    BY <2>2, HelperTypes, EmptyTypes DEF DeleteInterface, Main, TypeOK, kernelVars
  <2>3. CASE Finish
    BY <2>3, HelperTypes DEF Finish, TypeOK, kernelVars, faultVars
  <2> QED BY <1>2, <2>1, <2>2, <2>3 DEF Stop
<1>3. CASE Crash
  BY <1>3, HelperTypes DEF Crash, Exit, TypeOK, kernelVars
<1>4. CASE UNCHANGED vars
  BY <1>4 DEF vars, TypeOK, memVars, kernelVars, faultVars
<1> QED
  BY <1>1, <1>2, <1>3, <1>4, StartTypes, ApplyTypes, LoadTypes DEF Next

-----------------------------------------------------------------------------
\* Only the wait leads past the wait, and the file does not go away.
LEMMA FileStep == RInv /\ [Next]_vars => FilePresent'
<1> SUFFICES ASSUME RInv, [Next]_vars PROVE FilePresent'
  OBVIOUS
<1> USE DEF RInv, FilePresent
<1>1. CASE FileChanges
  BY <1>1, TableAssumption DEF FileChanges
<1>2. CASE Restart \/ Reopen
  BY <1>2 DEF Restart, Reopen, Boot, Goto
<1>3. CASE Start
  BY <1>3 DEF Start, WaitForDiscoveryFile, EnableIPForwarding, SetupInterface,
              CreateNew, CreateRepair, AddWatch, Goto, Exit
<1>4. CASE LoadAndNotify
  BY <1>4 DEF LoadAndNotify, Reads
<1>5. CASE Apply
  BY <1>5 DEF Apply, RemoveEntry, AddEntry, RemoveRoute, AddRoute, EntriesDone,
              RoutesDone, Goto
<1>6. CASE Stop \/ Crash
  BY <1>6 DEF Stop, CloseWatcher, DeleteInterface, Finish, Crash, Exit, Idle, Starting
<1>7. CASE UNCHANGED vars
  BY <1>7 DEF vars
<1> QED BY <1>1, <1>2, <1>3, <1>4, <1>5, <1>6, <1>7 DEF Next

-----------------------------------------------------------------------------
\* A process that has forgotten everything tracks nothing.
LEMMA ForgetTracked == Forget => TrackedIsInKernel'
BY DEF Forget, NoRoutes, TrackedIsInKernel

\* A step that changes neither the tracked nor the kernel's entries and routes,
\* of a process that has not deleted its interface or has even so.
LEMMA SameTracked ==
    ASSUME TrackedIsInKernel, UNCHANGED <<entries, routes, kfdb, kroutes>>, Deleted => Deleted'
    PROVE  TrackedIsInKernel'
BY DEF TrackedIsInKernel

\* Each command of an update keeps what is tracked within what the kernel has.
LEMMA ApplyTracked ==
    ASSUME RInv, Apply
    PROVE  TrackedIsInKernel'
<1> USE DEF RInv, Deleted
<1>1. ASSUME NEW h \in HostIP, RemoveEntry(h) PROVE TrackedIsInKernel'
  BY <1>1 DEF RemoveEntry, TrackedIsInKernel
<1>2. ASSUME NEW h \in HostIP, AddEntry(h) PROVE TrackedIsInKernel'
  BY <1>2 DEF AddEntry, TrackedIsInKernel
<1>3. ASSUME NEW n \in Subnet, RemoveRoute(n) PROVE TrackedIsInKernel'
  BY <1>3 DEF RemoveRoute, TrackedIsInKernel, TypeOK
<1>4. ASSUME NEW n \in Subnet, AddRoute(n) PROVE TrackedIsInKernel'
  BY <1>4 DEF AddRoute, TrackedIsInKernel, TypeOK
<1>5. CASE EntriesDone \/ RoutesDone
  BY <1>5, SameTracked DEF EntriesDone, RoutesDone, Served, Goto, memVars, kernelVars
<1> QED BY <1>1, <1>2, <1>3, <1>4, <1>5 DEF Apply

\* The belief in the kernel's state is preserved.
LEMMA TrackedStep == RInv /\ [Next]_vars => TrackedIsInKernel'
<1> SUFFICES ASSUME RInv, [Next]_vars PROVE TrackedIsInKernel'
  OBVIOUS
<1> USE DEF RInv, Deleted
<1>1. CASE FileChanges \/ LoadAndNotify \/ Restart \/ Reopen
  BY <1>1, SameTracked DEF FileChanges, LoadAndNotify, Served, Restart, Reopen, Boot,
                           Goto, memVars, kernelVars
<1>2. CASE Start
  BY <1>2, SameTracked, ForgetTracked
     DEF Start, WaitForDiscoveryFile, EnableIPForwarding, SetupInterface,
         CreateNew, CreateRepair, AddWatch, Goto, Exit, Idle, Starting, memVars, kernelVars
<1>3. CASE Stop
  <2>1. CASE CloseWatcher
    BY <2>1, SameTracked DEF CloseWatcher, kernelVars
  <2>2. CASE DeleteInterface
    BY <2>2, SameTracked DEF DeleteInterface, TrackedIsInKernel, kernelVars
  <2> QED BY <1>3, <2>1, <2>2, ForgetTracked DEF Stop, Finish
<1>4. CASE Crash
  BY <1>4, ForgetTracked DEF Crash, Exit
<1>5. CASE UNCHANGED vars
  BY <1>5, SameTracked DEF vars, memVars, kernelVars
<1> QED BY <1>1, <1>2, <1>3, <1>4, <1>5, ApplyTracked DEF Next

-----------------------------------------------------------------------------
\* Lemmas about the data.

LEMMA EmptyHosts == HostsOf(Empty) = {}
BY DEF HostsOf, Listed, Empty

LEMMA HostsAreHosts == ASSUME NEW t \in Table PROVE HostsOf(t) \subseteq HostIP
BY DEF HostsOf, Listed, Table

\* A plan takes its hops from the configuration.
LEMMA PlanHops ==
    ASSUME NEW t, NEW p \in Plans(t), NEW n \in Subnet
    PROVE  p[n] \in HopsFor(n) \cup {NoHop}
BY DEF Plans, Claims, HopsFor

\* With one hop for each subnet, two hops for it are the same.
LEMMA OneHop ==
    ASSUME NEW n \in Subnet, Planned(n), NEW a \in HopsFor(n), NEW b \in HopsFor(n)
    PROVE  a = b
BY DEF Planned, HopsFor

\* So a planned subnet that has a route has the planned one.
LEMMA RightHop ==
    ASSUME HopsPlanned, NEW n \in Subnet, Planned(n), plan[n] # NoHop, kroutes[n] # NoHop
    PROVE  kroutes[n] = plan[n]
<1>1. kroutes[n] \in HopsFor(n) /\ plan[n] \in HopsFor(n)
  BY DEF HopsPlanned
<1> QED BY <1>1, OneHop

-----------------------------------------------------------------------------
\* What is idle stays idle until the file is loaded, and after an exit again.
LEMMA IdleStep == RInv /\ [Next]_vars => Idle'
<1> SUFFICES ASSUME RInv, [Next]_vars PROVE Idle'
  OBVIOUS
<1> USE DEF RInv, Idle
<1>1. CASE FileChanges \/ Restart \/ Reopen
  BY <1>1 DEF FileChanges, Restart, Reopen, Boot, Goto, memVars, Starting
<1>2. CASE Start
  BY <1>2 DEF Start, WaitForDiscoveryFile, EnableIPForwarding, SetupInterface,
              CreateNew, CreateRepair, AddWatch, Goto, Exit, Forget, memVars, Starting
<1>3. CASE LoadAndNotify
  BY <1>3 DEF LoadAndNotify, Starting
<1>4. CASE Apply
  BY <1>4 DEF Apply, RemoveEntry, AddEntry, RemoveRoute, AddRoute, EntriesDone,
              RoutesDone, Goto, Starting
<1>5. CASE Stop \/ Crash
  BY <1>5 DEF Stop, CloseWatcher, DeleteInterface, Finish, Crash, Exit, Forget, Starting
<1>6. CASE UNCHANGED vars
  BY <1>6 DEF vars, memVars
<1> QED BY <1>1, <1>2, <1>3, <1>4, <1>5, <1>6 DEF Next

\* Both branches of CreateInterface complete the interface, and only Stop, at
\* the end of the process, takes it away.
LEMMA LinkStep == RInv /\ [Next]_vars => LinkReady'
<1> SUFFICES ASSUME RInv, [Next]_vars PROVE LinkReady'
  OBVIOUS
<1> USE DEF RInv, Spoils, LinkReady, Deleted
<1>1. CASE FileChanges \/ Restart \/ Reopen
  BY <1>1 DEF FileChanges, Restart, Reopen, Boot, Goto, memVars, kernelVars, faultVars
<1>2. CASE CreateNew
  BY <1>2 DEF CreateNew, Goto, Exit, Ready
<1>3. CASE CreateRepair
  BY <1>3 DEF CreateRepair, Ready
<1>4. CASE WaitForDiscoveryFile \/ EnableIPForwarding \/ SetupInterface \/ AddWatch
  BY <1>4 DEF WaitForDiscoveryFile, EnableIPForwarding, SetupInterface, AddWatch,
              Goto, Exit, memVars, kernelVars, faultVars
<1>5. CASE LoadAndNotify
  BY <1>5 DEF LoadAndNotify, Reads, Served, kernelVars, faultVars
<1>6. CASE Apply
  BY <1>6 DEF Apply, RemoveEntry, AddEntry, RemoveRoute, AddRoute, EntriesDone,
              RoutesDone, Served, Goto, memVars, kernelVars, faultVars
<1>7. CASE Stop \/ Crash
  BY <1>7 DEF Stop, CloseWatcher, DeleteInterface, Finish, Crash, Exit, kernelVars, faultVars
<1>8. CASE UNCHANGED vars
  BY <1>8 DEF vars, memVars, kernelVars, faultVars
<1> QED BY <1>1, <1>2, <1>3, <1>4, <1>5, <1>6, <1>7, <1>8 DEF Next, Start

\* Hops are copied from the plan to the kernel and the tracked routes.
LEMMA HopsStep == RInv /\ [Next]_vars => HopsPlanned'
<1> SUFFICES ASSUME RInv, [Next]_vars, NEW n \in Subnet
             PROVE  {plan[n], routes[n], kroutes[n]}' \subseteq HopsFor(n) \cup {NoHop}
  BY DEF HopsPlanned, HopsFor
<1>0. {plan[n], routes[n], kroutes[n]} \subseteq HopsFor(n) \cup {NoHop}
  BY DEF RInv, HopsPlanned
<1>1. CASE UNCHANGED <<plan, routes, kroutes>>
  BY <1>0, <1>1
<1>2. CASE Forget /\ (UNCHANGED kroutes \/ kroutes' = NoRoutes)
  BY <1>0, <1>2 DEF Forget, NoRoutes
<1>3. CASE LoadAndNotify
  BY <1>0, <1>3, PlanHops DEF LoadAndNotify, kernelVars
<1>4. ASSUME NEW m \in Subnet, RemoveRoute(m)
      PROVE  {plan[n], routes[n], kroutes[n]}' \subseteq HopsFor(n) \cup {NoHop}
  BY <1>0, <1>4 DEF RemoveRoute, RInv, TypeOK
<1>5. ASSUME NEW m \in Subnet, AddRoute(m)
      PROVE  {plan[n], routes[n], kroutes[n]}' \subseteq HopsFor(n) \cup {NoHop}
  BY <1>0, <1>5 DEF AddRoute, RInv, TypeOK
<1>6. CASE FileChanges \/ Restart \/ Reopen
  BY <1>1, <1>6 DEF FileChanges, Restart, Reopen, Boot, Goto, memVars, kernelVars
<1>7. CASE Start
  BY <1>1, <1>2, <1>7
     DEF Start, WaitForDiscoveryFile, EnableIPForwarding, SetupInterface,
         CreateNew, CreateRepair, AddWatch, Goto, Exit, memVars, kernelVars
<1>8. CASE Apply
  BY <1>1, <1>4, <1>5, <1>8
     DEF Apply, RemoveEntry, AddEntry, EntriesDone, RoutesDone, Goto, memVars, kernelVars
<1>9. CASE Stop \/ Crash
  BY <1>0, <1>1, <1>2, <1>9
     DEF Stop, CloseWatcher, DeleteInterface, Finish, Crash, Exit, NoRoutes, kernelVars
<1>10. CASE UNCHANGED vars
  BY <1>1, <1>10 DEF vars, memVars, kernelVars
<1> QED BY <1>3, <1>6, <1>7, <1>8, <1>9, <1>10 DEF Next

\* A process that has just exited, or is starting, applies nothing.
LEMMA NotApplying ==
    ASSUME pc' \in Starting \cup {"exited", "stopped"}
    PROVE  EntriesApplied' /\ RoutesApplied'
BY DEF EntriesApplied, RoutesApplied, Starting

\* Where the steps that apply nothing lead.
LEMMA StartIsStarting ==
    ASSUME Restart \/ Reopen \/ Start \/ Finish \/ Crash
    PROVE  pc' \in Starting \cup {"exited", "stopped"}
BY DEF Restart, Reopen, Boot, Start, WaitForDiscoveryFile, EnableIPForwarding,
       SetupInterface, CreateNew, CreateRepair, AddWatch, Goto, Exit, Finish, Crash,
       Starting

\* UpdateEntries leaves exactly the listed hosts tracked.
LEMMA EntriesStep == RInv /\ [Next]_vars => EntriesApplied'
<1> SUFFICES ASSUME RInv, [Next]_vars PROVE EntriesApplied'
  OBVIOUS
<1> USE DEF RInv, Spoils, EntriesApplied, Deleted
<1>1. CASE FileChanges
  BY <1>1 DEF FileChanges, memVars, kernelVars, faultVars
<1>2. CASE Restart \/ Reopen \/ Start \/ Finish \/ Crash
  BY <1>2, StartIsStarting, NotApplying
<1>3. CASE LoadAndNotify
  <2>1. CASE file = Broken
    BY <1>3, <2>1, EmptyHosts DEF LoadAndNotify, Reads, Served, Idle, Starting, kernelVars, faultVars
  <2>2. CASE file # Broken
    BY <1>3, <2>2 DEF LoadAndNotify
  <2> QED BY <2>1, <2>2
<1>4. ASSUME NEW h \in HostIP, RemoveEntry(h) PROVE EntriesApplied'
  BY <1>4 DEF RemoveEntry, StaleEntries
<1>5. ASSUME NEW h \in HostIP, AddEntry(h) PROVE EntriesApplied'
  BY <1>5 DEF AddEntry, MissingHosts, LinkReady
<1>6. CASE EntriesDone
  BY <1>6 DEF EntriesDone, Goto, StaleEntries, MissingHosts, memVars, kernelVars, faultVars
<1>7. ASSUME NEW n \in Subnet, RemoveRoute(n) \/ AddRoute(n) PROVE EntriesApplied'
  BY <1>7 DEF RemoveRoute, AddRoute
<1>8. CASE RoutesDone
  BY <1>8 DEF RoutesDone, Served, kernelVars, faultVars
<1>9. CASE CloseWatcher \/ DeleteInterface
  BY <1>9 DEF CloseWatcher, DeleteInterface, kernelVars, faultVars
<1>10. CASE UNCHANGED vars
  BY <1>10 DEF vars, memVars, kernelVars, faultVars
<1> QED
  BY <1>1, <1>2, <1>3, <1>4, <1>5, <1>6, <1>7, <1>8, <1>9, <1>10 DEF Next, Apply, Stop

\* UpdateRoutes leaves every planned route in the kernel, added or found there.
LEMMA RoutesStep == RInv /\ [Next]_vars => RoutesApplied'
<1> SUFFICES ASSUME RInv, [Next]_vars PROVE RoutesApplied'
  OBVIOUS
<1> USE DEF RInv, Spoils, RoutesApplied, Deleted
<1>1. CASE FileChanges
  BY <1>1 DEF FileChanges, memVars, kernelVars, faultVars
<1>2. CASE Restart \/ Reopen \/ Start \/ Finish \/ Crash
  BY <1>2, StartIsStarting, NotApplying
<1>3. CASE LoadAndNotify
  <2>1. CASE file = Broken
    BY <1>3, <2>1 DEF LoadAndNotify, Reads, Served, Idle, NoRoutes, Starting, kernelVars, faultVars
  <2>2. CASE file # Broken
    BY <1>3, <2>2 DEF LoadAndNotify
  <2> QED BY <2>1, <2>2
<1>4. ASSUME NEW h \in HostIP, RemoveEntry(h) \/ AddEntry(h) PROVE RoutesApplied'
  BY <1>4 DEF RemoveEntry, AddEntry
<1>5. CASE EntriesDone
  <2>1. "update" \notin spoilt /\ ~Deleted => Subnet \cap tried = {}
    BY <1>5, HostsAreHosts, AddressAssumption DEF EntriesDone, EntriesApplied, TypeOK
  <2> QED BY <1>5, <2>1 DEF EntriesDone, Goto, memVars, kernelVars, faultVars
<1>6. ASSUME NEW m \in Subnet, RemoveRoute(m) PROVE RoutesApplied'
  BY <1>6 DEF RemoveRoute, StaleRoutes, TypeOK
<1>7. ASSUME NEW m \in Subnet, AddRoute(m) PROVE RoutesApplied'
  <2> SUFFICES ASSUME ~Deleted', {"link", "update"} \cap spoilt' = {},
                      NEW n \in Subnet \cap tried', plan'[n] # NoHop
               PROVE  kroutes'[n] # NoHop
    BY <1>7 DEF AddRoute
  <2>1. {"link", "update"} \cap spoilt = {} /\ plan' = plan /\ pc = "routes" /\ link = Ready /\ ~Deleted
    BY <1>7 DEF AddRoute, LinkReady
  <2>2. CASE n # m
    BY <1>7, <2>1, <2>2 DEF AddRoute, TypeOK
  <2>3. CASE n = m /\ kroutes[n] = NoHop
    BY <1>7, <2>1, <2>3 DEF AddRoute, TypeOK
  <2>4. CASE n = m /\ kroutes[n] # NoHop
    BY <1>7, <2>1, <2>4 DEF AddRoute
  <2> QED BY <2>2, <2>3, <2>4
<1>8. CASE RoutesDone
  BY <1>8 DEF RoutesDone, Served, StaleRoutes, MissingRoutes, TrackedIsInKernel, kernelVars,
              faultVars
<1>9. CASE CloseWatcher \/ DeleteInterface
  BY <1>9 DEF CloseWatcher, DeleteInterface, kernelVars, faultVars
<1>10. CASE UNCHANGED vars
  BY <1>10 DEF vars, memVars, kernelVars, faultVars
<1> QED
  BY <1>1, <1>2, <1>3, <1>4, <1>5, <1>6, <1>7, <1>8, <1>9, <1>10 DEF Next, Apply, Stop

\* Without a leftover, tracking and kernel go hand in hand until the interface
\* is deleted; an exit leaves nothing because it comes before anything is
\* applied, and on a deleted interface nothing can be added.
LEMMA LeftoverStep == RInv /\ [Next]_vars => NoLeftovers'
<1> SUFFICES ASSUME RInv, [Next]_vars, "leftover" \notin spoilt'
             PROVE  NoLeftovers'
  BY DEF NoLeftovers
<1> USE DEF RInv, Spoils, NoLeftovers, Deleted
<1>1. CASE FileChanges \/ LoadAndNotify \/ Restart \/ Reopen
  BY <1>1 DEF FileChanges, LoadAndNotify, Served, Restart, Reopen, Boot, Goto, memVars,
              kernelVars, faultVars
<1>2. CASE Start
  BY <1>2 DEF Start, WaitForDiscoveryFile, EnableIPForwarding, SetupInterface,
              CreateNew, CreateRepair, AddWatch, Goto, Exit, Forget, Idle, Starting,
              memVars, kernelVars, faultVars
<1>3. ASSUME NEW h \in HostIP, RemoveEntry(h) \/ AddEntry(h)
      PROVE  NoLeftovers'
  BY <1>3 DEF RemoveEntry, AddEntry
<1>4. ASSUME NEW n \in Subnet, RemoveRoute(n) \/ AddRoute(n)
      PROVE  NoLeftovers'
  <2>1. CASE Deleted
    BY <1>4, <2>1 DEF RemoveRoute, AddRoute, Ready, NoRoutes, TypeOK
  <2>2. CASE ~Deleted
    BY <1>4, <2>2 DEF RemoveRoute, AddRoute
  <2> QED BY <2>1, <2>2
<1>5. CASE EntriesDone \/ RoutesDone
  BY <1>5 DEF EntriesDone, RoutesDone, Served, Goto, memVars, kernelVars, faultVars
<1>6. CASE CloseWatcher \/ DeleteInterface
  BY <1>6 DEF CloseWatcher, DeleteInterface, kernelVars, faultVars
<1>7. CASE Finish
  <2>1. Deleted
    BY <1>7 DEF Finish, LinkGone, faultVars
  <2> QED BY <1>7, <2>1 DEF Finish, Forget, kernelVars, faultVars
<1>8. CASE Crash
  BY <1>8 DEF Crash
<1>9. CASE UNCHANGED vars
  BY <1>9 DEF vars, memVars, kernelVars, faultVars
<1> QED
  BY <1>1, <1>2, <1>3, <1>4, <1>5, <1>6, <1>7, <1>8, <1>9 DEF Next, Apply, Stop

\* A deletion that fails leaves something over, and what is left over stays so
\* until a deletion works.
LEMMA GoneStep == RInv /\ [Next]_vars => LinkGone'
<1> SUFFICES ASSUME RInv, [Next]_vars PROVE LinkGone'
  OBVIOUS
<1> USE DEF RInv, Spoils, LinkGone
<1>1. CASE FileChanges \/ LoadAndNotify \/ Restart \/ Reopen
  BY <1>1 DEF FileChanges, LoadAndNotify, Served, Restart, Reopen, Boot, Goto, Idle, Starting,
              memVars, kernelVars, faultVars
<1>2. CASE Start
  BY <1>2 DEF Start, WaitForDiscoveryFile, EnableIPForwarding, SetupInterface,
              CreateNew, CreateRepair, AddWatch, Goto, Exit, Forget, Idle, Starting,
              memVars, kernelVars, faultVars
<1>3. CASE Apply
  BY <1>3 DEF Apply, RemoveEntry, AddEntry, RemoveRoute, AddRoute, EntriesDone, RoutesDone,
              Served, Goto, memVars, kernelVars, faultVars
<1>4. CASE Stop \/ Crash
  BY <1>4 DEF Stop, CloseWatcher, DeleteInterface, Finish, Crash, Exit, Forget, kernelVars,
              faultVars, Idle
<1>5. CASE UNCHANGED vars
  BY <1>5 DEF vars, memVars, kernelVars, faultVars
<1> QED BY <1>1, <1>2, <1>3, <1>4, <1>5 DEF Next

-----------------------------------------------------------------------------
\* The invariant holds in every reachable state.
LEMMA RInvAlways == Spec => []RInv
<1>1. RInv /\ [Next]_vars => RInv'
  BY TypeStep, FileStep, TrackedStep, IdleStep, LinkStep, HopsStep, EntriesStep,
     RoutesStep, LeftoverStep, GoneStep DEF RInv
<1> QED BY RInvInit, <1>1, PTL DEF Spec

\* The router stays in its types: in particular an update never applies a file
\* that is missing or does not parse (watcher.go:114-134).
THEOREM TypeCorrect == Spec => []TypeOK
<1>1. RInv => TypeOK
  BY DEF RInv
<1> QED BY RInvAlways, <1>1, PTL

\* Whatever commands fail, whatever another process left behind, whenever the
\* router is killed and whatever stacks claim one subnet: until it deletes its
\* interface, what it tracks is in the kernel (fdb/manager.go:109-130,
\* routing/manager.go:55, 99-121).
THEOREM TrackedCorrect == Spec => []TrackedIsInKernel
<1>1. RInv => TrackedIsInKernel
  BY DEF RInv
<1> QED BY RInvAlways, <1>1, PTL

\* Whatever an update adds while the router stops, and after it has deleted its
\* interface, a stop whose deletion has worked leaves no entry and no route
\* (main.go:101-120, watcher.go:72-84).
THEOREM StopCorrect == Spec => []StopLeavesNothing
<1>1. RInv => StopLeavesNothing
  BY DEF RInv, Idle, NoLeftovers, Deleted, StopLeavesNothing
<1> QED BY RInvAlways, <1>1, PTL

\* Once an update is applied without a failing command over an interface whose
\* repair has not failed, every listed peer has its entry and its route,
\* whatever failed before and however often the router was killed
\* (interface.go:39-61, fdb/manager.go:79-130).
THEOREM ReachableCorrect == Spec => []EveryPeerReachable
<1>1. RInv => EveryPeerReachable
  <2> SUFFICES ASSUME RInv, pc = "run", ~Deleted, spoilt \subseteq {"leftover"}
               PROVE  /\ link = Ready /\ HostsOf(goal) \subseteq kfdb
                      /\ \A n \in Subnet : plan[n] # NoHop =>
                            kroutes[n] # NoHop /\ (Planned(n) => kroutes[n] = plan[n])
    BY DEF EveryPeerReachable
  <2>1. link = Ready /\ HostsOf(goal) \subseteq kfdb
    BY DEF RInv, LinkReady, EntriesApplied, TrackedIsInKernel
  <2>2. \A n \in Subnet : plan[n] # NoHop => kroutes[n] # NoHop
    BY DEF RInv, RoutesApplied
  <2> QED BY <2>1, <2>2, RightHop DEF RInv
<1> QED BY RInvAlways, <1>1, PTL

\* With no kill and no failed removal since the interface was made, the kernel
\* then has what is listed and nothing else
\* (fdb/manager.go:89-103, routing/manager.go:60-77).
THEOREM ExactCorrect == Spec => []KernelIsExact
<1>1. RInv => KernelIsExact
  <2> SUFFICES ASSUME RInv, pc = "run", ~Deleted, spoilt = {}
               PROVE  /\ kfdb = HostsOf(goal)
                      /\ \A n \in Subnet : /\ kroutes[n] = NoHop <=> plan[n] = NoHop
                                           /\ Planned(n) => kroutes[n] = plan[n]
    BY DEF KernelIsExact
  <2>1. kfdb = HostsOf(goal) /\ kroutes = routes
    BY DEF RInv, NoLeftovers, EntriesApplied
  <2>2. \A n \in Subnet : kroutes[n] = NoHop <=> plan[n] = NoHop
    BY <2>1 DEF RInv, RoutesApplied
  <2> QED BY <2>1, <2>2, RightHop DEF RInv
<1> QED BY RInvAlways, <1>1, PTL

=============================================================================
