------------------------ MODULE SharedInterfaceProofs ------------------------
(***************************************************************************)
(* Proofs about SharedInterface, for any routers and managers of a host,   *)
(* any hosts, addresses and sub-strings among them, and any number of      *)
(* failures, kills and stops.                                              *)
(*                                                                         *)
(* InterfaceReady is not inductive: a process serves because of what it    *)
(* did, or found, some steps before, while its siblings were at work       *)
(* (ReadyOnTheWay). AgreedEntries speaks of processes at rest; what holds  *)
(* on the way is that an entry which all track is in the kernel, and that  *)
(* one which nobody tracks is not, unless it strays (SharedTracked).       *)
(***************************************************************************)
EXTENDS SharedInterface, TLAPS

\* What each step of a process stands for: what it has done, or found, before it.
ReadyFor(p) ==
    /\ Relies(p) => Exists
    /\ pc[p] = "up" => AddressOf[p] \in addrs
    /\ pc[p] \in {"raise"} \cup Serving => Shown(p)
    /\ pc[p] \in Serving => "up" \in link

\* A process under which nobody has deleted the interface, and whose repair of
\* it has not failed, has what it relies on, whatever else has failed.
ReadyOnTheWay == \A p \in Process : ~lost[p] /\ ~warned[p] => ReadyFor(p)

\* A process at rest tracks what it was to add and could.
AtRest == \A p \in Process : pc[p] = "run" => entries[p] = goal[p] \ missed[p]

\* An entry that every process tracks is in the kernel, whatever has failed,
\* while none is stopping.
TrackedByAll ==
    \A h \in HostIP : (\A p \in Process : h \in entries[p] /\ ~stopping[p]) => h \in fdb

\* An entry in the kernel is tracked by somebody, or strays.
TrackedBySome == \A h \in fdb : h \in stray \/ \E p \in Process : h \in entries[p]

SharedTracked == AtRest /\ TrackedByAll /\ TrackedBySome

IInv == TypeOK /\ ReadyOnTheWay /\ SharedTracked

Bounded == failures \in 0 .. MaxFailures /\ kills \in 0 .. MaxKills /\ stops \in 0 .. MaxStops

-----------------------------------------------------------------------------
(* Types.                                                                  *)

LEMMA FailureBounded ==
    ASSUME TypeOK, Failure, UNCHANGED <<kills, stops>> PROVE Bounded'
BY BoundAssumption DEF Bounded, Failure, TypeOK

LEMMA SameBounded ==
    ASSUME TypeOK, UNCHANGED faultVars PROVE Bounded'
BY DEF Bounded, faultVars, TypeOK

\* A process that exits forgets everything and leaves the kernel as it is.
LEMMA ExitTypes ==
    ASSUME TypeOK, NEW p \in Process, Exit(p), UNCHANGED <<file, kernelVars>>, Bounded'
    PROVE  TypeOK'
BY DEF Exit, End, Leave, Bounded, kernelVars,
       TypeOK, Exists, Relies, Creating, Repairing, Updating, Serving, Process

\* A process that goes on keeps its lists, and the interface its types.
LEMMA GotoTypes ==
    ASSUME TypeOK, NEW p \in Process, Bounded', UNCHANGED <<file, fdb>>,
           NEW l \in {"setup", "check"} \cup Creating \cup Repairing \cup Serving,
           Goto(p, l) \/ WarnAndGoto(p, l),
           l \in {"load", "first", "event"} => p \in Router,
           pc[p] \in Serving => l \in Serving, Relies(p) => l \notin {"setup", "check", "create"},
           link' \in {{}, {"exists"}, {"exists", "up"}}, addrs' \subseteq addrs \cup {AddressOf[p]},
           "exists" \notin link' => addrs' = {} /\ fdb' = {}
    PROVE  TypeOK'
<1>1. /\ pc' = [pc EXCEPT ![p] = l]
      /\ UNCHANGED <<goal, missed, stopping, entries, lost, stray>>
      /\ warned' = warned \/ warned' = [warned EXCEPT ![p] = TRUE]
  BY DEF Goto, WarnAndGoto, histVars
<1>2. \A q \in Process : (lost'[q] => Relies(q)') /\ pc'[q] = (IF q = p THEN l ELSE pc[q])
  BY <1>1 DEF TypeOK, Relies, Creating, Repairing, Updating, Serving
<1>3. ASSUME NEW q \in Process
      PROVE  /\ q \in Manager => pc'[q] \notin {"load", "first", "event"}
             /\ pc'[q] \notin Serving => entries'[q] = {} /\ goal'[q] = {} /\ ~stopping'[q]
             /\ missed'[q] \subseteq goal'[q] \ entries'[q]
  BY <1>1, <1>2, ProcessAssumption DEF TypeOK
<1>4. pc' \in [Process -> {"exited", "stopped", "setup", "check"}
                              \cup Creating \cup Repairing \cup Serving]
  BY <1>1 DEF TypeOK
<1>5. addrs' \subseteq {AddressOf[q] : q \in Process} /\ warned' \in [Process -> BOOLEAN]
  BY <1>1 DEF TypeOK
<1> QED
  BY <1>1, <1>2, <1>3, <1>4, <1>5 DEF Bounded, TypeOK, Exists

\* Every step keeps the types.
LEMMA TypeStep ==
    ASSUME TypeOK, [Next]_vars PROVE TypeOK'
<1> USE DEF Creating, Repairing, Updating, Serving, Relies
<1>1. link \in {{}, {"exists"}, {"exists", "up"}} /\ (~Exists => addrs = {} /\ fdb = {})
  BY DEF TypeOK
<1>2. ASSUME NEW p \in Process, FileChanges(p) PROVE TypeOK'
  BY <1>2 DEF FileChanges, memVars, histVars, kernelVars, faultVars, TypeOK, Exists
<1>3. ASSUME NEW p \in Process, Restart(p) \/ Reopen(p) PROVE TypeOK'
  BY <1>1, <1>3, SameBounded, GotoTypes DEF Restart, Reopen, Boot, kernelVars, Exists
<1>4. ASSUME NEW p \in Process, Setup(p) PROVE TypeOK'
  <2>1. Bounded' /\ UNCHANGED <<file, kernelVars>>
    BY <1>4, SameBounded, FailureBounded DEF Setup, faultVars
  <2> QED
    BY <1>1, <1>4, <2>1, ExitTypes, GotoTypes DEF Setup, kernelVars, Exists
<1>5. ASSUME NEW p \in Process, CheckInterface(p) PROVE TypeOK'
  <2>1. Bounded' /\ UNCHANGED <<file, kernelVars>>
    BY <1>5, SameBounded, FailureBounded DEF CheckInterface, faultVars
  <2> QED
    BY <1>1, <1>5, <2>1, GotoTypes DEF CheckInterface, kernelVars, Exists
<1>6. ASSUME NEW p \in Process, AddLink(p) PROVE TypeOK'
  <2>1. Bounded' /\ UNCHANGED <<file, addrs, fdb>>
    BY <1>6, SameBounded, FailureBounded DEF AddLink, faultVars
  <2> QED
    BY <1>1, <1>6, <2>1, ExitTypes, GotoTypes DEF AddLink, kernelVars, Exists
<1>7. ASSUME NEW p \in Process, AddAddress(p) PROVE TypeOK'
  <2>1. Bounded' /\ UNCHANGED <<file, link, fdb>>
    BY <1>7, SameBounded, FailureBounded DEF AddAddress, faultVars
  <2> QED
    BY <1>1, <1>7, <2>1, ExitTypes, GotoTypes DEF AddAddress, kernelVars, Exists
<1>8. ASSUME NEW p \in Process, Goto(p, Started(p)) \/ WarnAndGoto(p, Started(p)),
             pc[p] \in {"up", "raise"}, Bounded', UNCHANGED <<file, addrs, fdb>>,
             link' = link \/ (Exists /\ link' = link \cup {"up"})
      PROVE  TypeOK'
  <2>1. Started(p) \in Serving /\ (Started(p) = "load" => p \in Router)
        /\ Started(p) \notin {"first", "event"}
    BY DEF Started
  <2>2. link' \in {{}, {"exists"}, {"exists", "up"}} /\ ("exists" \in link' <=> Exists)
    BY <1>1, <1>8 DEF Exists
  <2> QED
    BY <1>1, <1>8, <2>1, <2>2, GotoTypes DEF Exists
<1>9. ASSUME NEW p \in Process, SetUp(p) PROVE TypeOK'
  <2>1. Bounded' /\ UNCHANGED <<file, addrs, fdb>>
    BY <1>9, SameBounded, FailureBounded DEF SetUp, faultVars
  <2> QED
    BY <1>8, <1>9, <2>1, ExitTypes DEF SetUp, kernelVars
<1>10. ASSUME NEW p \in Process, RepairAddress(p) PROVE TypeOK'
  <2>1. Bounded' /\ UNCHANGED <<file, link, fdb>>
    BY <1>10, SameBounded, FailureBounded DEF RepairAddress, faultVars
  <2> QED
    BY <1>1, <1>10, <2>1, GotoTypes DEF RepairAddress, Exists
<1>11. ASSUME NEW p \in Process, RepairLink(p) PROVE TypeOK'
  <2>1. Bounded' /\ UNCHANGED <<file, addrs, fdb>>
    BY <1>11, SameBounded, FailureBounded DEF RepairLink, faultVars
  <2> QED
    BY <1>8, <1>11, <2>1 DEF RepairLink
<1>12. ASSUME NEW p \in Process, Load(p) PROVE TypeOK'
  <2>1. CASE pc[p] = "load" /\ Failure /\ Exit(p)
    BY <1>12, <2>1, FailureBounded, ExitTypes DEF Load
  <2>2. CASE UNCHANGED failures
    <3>1. PICK l \in {"first", "event", "update"} :
              /\ pc' = [pc EXCEPT ![p] = l] /\ (l \in {"first", "event"} => p \in Router)
      BY <1>12, <2>2, ProcessAssumption DEF Load, Failure, TypeOK, Process
    <3>2. /\ goal' = [goal EXCEPT ![p] = file[p]] /\ missed' = [missed EXCEPT ![p] = {}]
          /\ pc[p] \in Serving
          /\ UNCHANGED <<file, stopping, entries, histVars, kernelVars, faultVars>>
      BY <1>12, <2>2 DEF Load, Failure, TypeOK, faultVars
    <3> QED
      BY <3>1, <3>2, ProcessAssumption DEF kernelVars, histVars, faultVars, TypeOK, Exists, Process
  <2> QED
    BY <1>12, <2>1, <2>2 DEF Load
<1>13. ASSUME NEW p \in Process, NEW h \in HostIP, RemoveEntry(p, h) \/ AddEntry(p, h)
       PROVE  TypeOK'
  <2>1. CASE RemoveEntry(p, h)
    BY <2>1, BoundAssumption
       DEF RemoveEntry, RemovesNow, Stale, Failure, TypeOK, Exists, Process
  <2>2. CASE AddEntry(p, h)
    <3>1. pc[p] \in Serving /\ h \in goal[p] \ (entries[p] \cup missed[p])
      BY <2>2 DEF AddEntry, AddsNow, Missing
    <3>2. /\ UNCHANGED <<file, pc, goal, stopping, lost, warned, link, addrs, kills, stops>>
          /\ failures' \in 0 .. MaxFailures
          /\ \/ /\ fdb' = fdb \cup {h} /\ entries' = [entries EXCEPT ![p] = @ \cup {h}]
                /\ stray' = stray \ {h} /\ UNCHANGED missed /\ Exists
             \/ missed' = [missed EXCEPT ![p] = @ \cup {h}] /\ UNCHANGED <<fdb, entries, stray>>
      BY <2>2, BoundAssumption DEF AddEntry, Failure, TypeOK
    <3> QED
      BY <3>1, <3>2 DEF TypeOK, Exists, Process
  <2> QED
    BY <1>13, <2>1, <2>2
<1>14. ASSUME NEW p \in Process, UpdateDone(p) PROVE TypeOK'
  BY <1>1, <1>14, SameBounded, GotoTypes DEF UpdateDone, kernelVars, Exists
<1>15. ASSUME NEW p \in Process, Stop(p) PROVE TypeOK'
  <2>1. Bounded'
    BY <1>15, BoundAssumption DEF Stop, Failure, TypeOK, Bounded
  <2>2. lost' \in [Process -> BOOLEAN] /\ stray' \subseteq HostIP
    BY <1>15 DEF Stop, TypeOK
  <2>3. PICK l \in {pc[p], "event"} :
            pc' = [pc EXCEPT ![p] = l] /\ (l # pc[p] => p \in Router)
    BY <1>15 DEF Stop, TypeOK
  <2>4. \A q \in Process : lost'[q] => Relies(q)'
    BY <1>15, <2>3 DEF Stop, Stoppable, TypeOK
  <2>5. pc[p] \in {"run", "update"} /\ stopping' = [stopping EXCEPT ![p] = TRUE]
    BY <1>15 DEF Stop, Stoppable
  <2>6. /\ link' \in {{}, {"exists"}, {"exists", "up"}} /\ ("exists" \notin link' => addrs' = {} /\ fdb' = {})
        /\ addrs' \subseteq addrs /\ fdb' \subseteq fdb
    BY <1>1, <1>15 DEF Stop, Exists, kernelVars
  <2>7. UNCHANGED <<file, goal, missed, entries, warned>>
    BY <1>15 DEF Stop
  <2> QED
    BY <2>1, <2>2, <2>3, <2>4, <2>5, <2>6, <2>7, ProcessAssumption
       DEF Bounded, TypeOK, Exists, Process
<1>16. ASSUME NEW p \in Process, Kill(p) PROVE TypeOK'
  <2>1. Bounded'
    BY <1>16, BoundAssumption DEF Kill, TypeOK, Bounded
  <2> QED
    BY <1>16, <2>1, ExitTypes DEF Kill
<1>17. ASSUME NEW p \in Process, Finish(p) PROVE TypeOK'
  BY <1>17, SameBounded
     DEF Finish, End, Leave, Bounded, faultVars, kernelVars, TypeOK, Exists, Process
<1>18. CASE UNCHANGED vars
  BY <1>18 DEF vars, memVars, histVars, kernelVars, faultVars, TypeOK, Exists
<1> QED
  BY <1>2, <1>3, <1>4, <1>5, <1>6, <1>7, <1>9, <1>10, <1>11, <1>12, <1>13, <1>14, <1>15,
     <1>16, <1>17, <1>18 DEF Next, Create, Update

-----------------------------------------------------------------------------
(* The interface.                                                          *)

\* The siblings of a process that moves keep what they have while the interface
\* only gains.
LEMMA GainsReady ==
    ASSUME ReadyOnTheWay, NEW p \in Process, link \subseteq link', addrs \subseteq addrs',
           \A q \in Process \ {p} :
               pc'[q] = pc[q] /\ lost'[q] = lost[q] /\ warned'[q] = warned[q],
           ~lost'[p] /\ ~warned'[p] => ReadyFor(p)'
    PROVE  ReadyOnTheWay'
<1> SUFFICES ASSUME NEW q \in Process \ {p}, ~lost[q], ~warned[q] PROVE ReadyFor(q)'
  BY DEF ReadyOnTheWay, ReadyFor
<1>1. ReadyFor(q)
  BY DEF ReadyOnTheWay, ReadyFor
<1> QED
  BY <1>1 DEF ReadyFor, Relies, Exists, Shown

LEMMA ExitReady ==
    ASSUME TypeOK, ReadyOnTheWay, NEW p \in Process, Exit(p), UNCHANGED kernelVars
    PROVE  ReadyOnTheWay'
<1>1. ReadyFor(p)'
  BY DEF Exit, End, TypeOK, ReadyFor, Relies, Creating, Repairing, Updating, Serving
<1>2. \A q \in Process \ {p} :
          pc'[q] = pc[q] /\ lost'[q] = lost[q] /\ warned'[q] = warned[q]
  BY DEF Exit, End, Leave, TypeOK
<1> QED
  BY <1>1, <1>2, GainsReady DEF kernelVars

LEMMA GotoReady ==
    ASSUME TypeOK, ReadyOnTheWay, NEW p \in Process, NEW l, Goto(p, l),
           link \subseteq link', addrs \subseteq addrs',
           pc'[p] = l /\ ~lost[p] /\ ~warned[p] => ReadyFor(p)'
    PROVE  ReadyOnTheWay'
<1>1. pc'[p] = l /\ \A q \in Process \ {p} : pc'[q] = pc[q]
  BY DEF Goto, TypeOK
<1> QED
  BY <1>1, GainsReady DEF Goto, histVars

\* Of a process whose repair fails nothing is claimed any more.
LEMMA WarnReady ==
    ASSUME TypeOK, ReadyOnTheWay, NEW p \in Process, NEW l, WarnAndGoto(p, l), UNCHANGED kernelVars
    PROVE  ReadyOnTheWay'
<1>1. warned'[p] /\ \A q \in Process \ {p} :
          pc'[q] = pc[q] /\ lost'[q] = lost[q] /\ warned'[q] = warned[q]
  BY DEF WarnAndGoto, TypeOK
<1> QED
  BY <1>1, GainsReady DEF kernelVars

\* Every step keeps the interface ready for who relies on it.
LEMMA ReadyStep ==
    ASSUME TypeOK, ReadyOnTheWay, [Next]_vars PROVE ReadyOnTheWay'
<1> USE DEF Creating, Repairing, Updating, Serving, Relies
<1>0. ASSUME NEW p \in Process, ~lost[p], ~warned[p] PROVE ReadyFor(p)
  BY <1>0 DEF ReadyOnTheWay, ReadyFor
<1>1. ASSUME NEW p \in Process, Exit(p), UNCHANGED kernelVars PROVE ReadyOnTheWay'
  BY <1>1, ExitReady
<1>2. ASSUME NEW p \in Process, FileChanges(p) PROVE ReadyOnTheWay'
  BY <1>2 DEF FileChanges, memVars, histVars, kernelVars, ReadyOnTheWay, ReadyFor, Exists, Shown
<1>3. ASSUME NEW p \in Process, Restart(p) \/ Reopen(p) PROVE ReadyOnTheWay'
  BY <1>3, GotoReady DEF Restart, Reopen, Boot, kernelVars, ReadyFor
<1>4. ASSUME NEW p \in Process, Setup(p) PROVE ReadyOnTheWay'
  BY <1>1, <1>4, GotoReady DEF Setup, kernelVars, ReadyFor
<1>5. ASSUME NEW p \in Process, CheckInterface(p) PROVE ReadyOnTheWay'
  BY <1>5, GotoReady DEF CheckInterface, kernelVars, ReadyFor, Exists
<1>6. ASSUME NEW p \in Process, AddLink(p) PROVE ReadyOnTheWay'
  <2>1. CASE ~Exists /\ link' = {"exists"} /\ Goto(p, "address")
    <3>1. link \subseteq link'
      BY <2>1 DEF Exists, TypeOK
    <3> QED
      BY <1>6, <2>1, <3>1, GotoReady DEF AddLink, ReadyFor, Exists
  <2> QED
    BY <1>1, <1>6, <2>1 DEF AddLink, kernelVars
<1>7. ASSUME NEW p \in Process, AddAddress(p) PROVE ReadyOnTheWay'
  <2>1. CASE Exists /\ addrs' = addrs \cup {AddressOf[p]} /\ Goto(p, "up")
    BY <1>7, <2>1, GotoReady DEF AddAddress, ReadyFor, Exists
  <2> QED
    BY <1>1, <1>7, <2>1 DEF AddAddress, kernelVars
<1>8. ASSUME NEW p \in Process, SetUp(p) PROVE ReadyOnTheWay'
  <2>1. CASE Exists /\ link' = link \cup {"up"} /\ Goto(p, Started(p))
    <3>1. ~lost[p] /\ ~warned[p] => Shown(p)'
      BY <1>8, <1>0 DEF SetUp, ReadyFor, Shown
    <3>2. Started(p) \in {"load", "run"}
      BY DEF Started
    <3> QED
      BY <1>8, <2>1, <3>1, <3>2, GotoReady DEF SetUp, ReadyFor, Exists
  <2> QED
    BY <1>1, <1>8, <2>1 DEF SetUp, kernelVars
<1>9. ASSUME NEW p \in Process, RepairAddress(p) PROVE ReadyOnTheWay'
  <2>1. CASE Goto(p, "raise") /\ (Exists => addrs' = addrs \cup {AddressOf[p]} \/ Shown(p))
    <3>1. addrs \subseteq addrs' /\ UNCHANGED link
      BY <1>9 DEF RepairAddress
    <3>2. ~lost[p] /\ ~warned[p] => Exists /\ Shown(p)'
      BY <1>9, <1>0, <2>1, <3>1 DEF RepairAddress, ReadyFor, Shown
    <3> QED
      BY <2>1, <3>1, <3>2, GotoReady DEF ReadyFor, Exists
  <2> QED
    BY <1>9, <2>1, WarnReady DEF RepairAddress, kernelVars
<1>10. ASSUME NEW p \in Process, RepairLink(p) PROVE ReadyOnTheWay'
  <2>1. CASE Goto(p, Started(p)) /\ (Exists => link' = link \cup {"up"})
    <3>1. link \subseteq link' /\ UNCHANGED addrs
      BY <1>10 DEF RepairLink
    <3>2. ~lost[p] /\ ~warned[p] => "exists" \in link' /\ "up" \in link' /\ Shown(p)'
      BY <1>10, <1>0, <2>1, <3>1 DEF RepairLink, ReadyFor, Shown, Exists
    <3>3. Started(p) \in {"load", "run"}
      BY DEF Started
    <3> QED
      BY <2>1, <3>1, <3>2, <3>3, GotoReady DEF ReadyFor, Exists
  <2> QED
    BY <1>10, <2>1, WarnReady DEF RepairLink, kernelVars
<1>11. ASSUME NEW p \in Process, Load(p) PROVE ReadyOnTheWay'
  <2>1. CASE /\ UNCHANGED histVars /\ \E l \in Updating : pc' = [pc EXCEPT ![p] = l]
             /\ pc[p] \in {"load", "run", "event"}
    <3>1. \A q \in Process \ {p} :
              pc'[q] = pc[q] /\ lost'[q] = lost[q] /\ warned'[q] = warned[q]
      BY <2>1 DEF histVars, TypeOK
    <3>2. ~lost'[p] /\ ~warned'[p] => ReadyFor(p)'
      BY <1>11, <1>0, <2>1 DEF Load, kernelVars, histVars, ReadyFor, Exists, Shown, TypeOK
    <3> QED
      BY <1>11, <3>1, <3>2, GainsReady DEF Load, kernelVars
  <2> QED
    BY <1>1, <1>11, <2>1 DEF Load
<1>12. ASSUME NEW p \in Process, NEW h \in HostIP, RemoveEntry(p, h) \/ AddEntry(p, h)
       PROVE  ReadyOnTheWay'
  BY <1>12 DEF RemoveEntry, AddEntry, ReadyOnTheWay, ReadyFor, Exists, Shown
<1>13. ASSUME NEW p \in Process, UpdateDone(p) PROVE ReadyOnTheWay'
  <2>1. ~lost[p] /\ ~warned[p] => ReadyFor(p)'
    BY <1>13, <1>0 DEF UpdateDone, Goto, kernelVars, ReadyFor, Exists, Shown, TypeOK
  <2> QED
    BY <1>13, <2>1, GotoReady DEF UpdateDone, kernelVars
<1>14. ASSUME NEW p \in Process, Stop(p) PROVE ReadyOnTheWay'
  <2>1. \A q \in Process : (Relies(q)' <=> Relies(q)) /\ (q # p => pc'[q] = pc[q])
    BY <1>14 DEF Stop, Stoppable, TypeOK
  <2>2. CASE lost' = [q \in Process |-> lost[q] \/ (Exists /\ Relies(q))]
    <3>1. ASSUME NEW q \in Process, ~lost'[q], ~warned'[q] PROVE ~Relies(q)'
      <4>1. ~lost[q] /\ ~warned[q] /\ ~(Exists /\ Relies(q))
        BY <1>14, <2>2, <3>1 DEF Stop
      <4> QED
        BY <1>0, <2>1, <4>1 DEF ReadyFor
    <3> QED
      BY <3>1 DEF ReadyOnTheWay, ReadyFor
  <2>3. CASE UNCHANGED <<kernelVars, lost>>
    <3>1. ~lost'[p] /\ ~warned'[p] => ReadyFor(p)'
      BY <1>0, <1>14, <2>3
         DEF Stop, Stoppable, kernelVars, ReadyFor, Exists, Shown, TypeOK
    <3> QED
      BY <1>14, <2>1, <2>3, <3>1, GainsReady DEF Stop, kernelVars
  <2> QED
    BY <1>14, <2>2, <2>3 DEF Stop
<1>15. ASSUME NEW p \in Process, Kill(p) PROVE ReadyOnTheWay'
  BY <1>1, <1>15 DEF Kill
<1>16. ASSUME NEW p \in Process, Finish(p) PROVE ReadyOnTheWay'
  <2>1. ReadyFor(p)'
    BY <1>16 DEF Finish, End, TypeOK, ReadyFor
  <2>2. \A q \in Process \ {p} :
            pc'[q] = pc[q] /\ lost'[q] = lost[q] /\ warned'[q] = warned[q]
    BY <1>16 DEF Finish, End, Leave, TypeOK
  <2> QED
    BY <1>16, <2>1, <2>2, GainsReady DEF Finish, kernelVars
<1>17. CASE UNCHANGED vars
  BY <1>17 DEF vars, memVars, histVars, kernelVars, ReadyOnTheWay, ReadyFor, Exists, Shown
<1> QED
  BY <1>2, <1>3, <1>4, <1>5, <1>6, <1>7, <1>8, <1>9, <1>10, <1>11, <1>12, <1>13, <1>14,
     <1>15, <1>16, <1>17 DEF Next, Create, Update

-----------------------------------------------------------------------------
(* The entries.                                                            *)

\* Steps that leave the lists and the kernel's entries alone.
LEMMA QuietTracked ==
    ASSUME TypeOK, SharedTracked, UNCHANGED <<goal, missed, stopping, entries, stray, fdb>>,
           \A q \in Process :
               pc'[q] = "run" => pc[q] = "run" \/ entries[q] = goal[q] \ missed[q]
    PROVE  SharedTracked'
BY DEF SharedTracked, AtRest, TrackedByAll, TrackedBySome

\* What a process forgets when it ends strays from then on.
LEMMA EndTracked ==
    ASSUME TypeOK, SharedTracked, NEW p \in Process, NEW l \in {"exited", "stopped"}, End(p, l),
           Leave(p), UNCHANGED fdb
    PROVE  SharedTracked'
<1>1. entries'[p] = {} /\ pc'[p] # "run"
  BY DEF End, TypeOK
<1>2. \A q \in Process \ {p} : 
          /\ pc'[q] = pc[q] /\ goal'[q] = goal[q] /\ missed'[q] = missed[q]
          /\ entries'[q] = entries[q]
  BY DEF End, TypeOK
<1>3. AtRest'
  BY <1>1, <1>2 DEF SharedTracked, AtRest
<1>4. TrackedByAll'
  BY <1>1 DEF TrackedByAll
<1>5. TrackedBySome'
  BY <1>2 DEF Leave, SharedTracked, TrackedBySome
<1> QED
  BY <1>3, <1>4, <1>5 DEF SharedTracked

\* Every step keeps the entries as they are shared.
LEMMA TrackedStep ==
    ASSUME TypeOK, TypeOK', SharedTracked, [Next]_vars PROVE SharedTracked'
<1>1. ASSUME NEW p \in Process, FileChanges(p) PROVE SharedTracked'
  BY <1>1, QuietTracked DEF FileChanges, memVars, histVars, kernelVars
<1>2. ASSUME NEW p \in Process, NEW l, Goto(p, l) \/ WarnAndGoto(p, l), UNCHANGED fdb,
             l = "run" => entries[p] = goal[p] \ missed[p]
      PROVE  SharedTracked'
  <2>1. \A q \in Process :
            pc'[q] = "run" => pc[q] = "run" \/ entries[q] = goal[q] \ missed[q]
    BY <1>2 DEF Goto, WarnAndGoto, TypeOK
  <2> QED
    BY <1>2, <2>1, QuietTracked DEF Goto, WarnAndGoto, histVars
<1>3. ASSUME NEW p \in Process, Exit(p), UNCHANGED fdb PROVE SharedTracked'
  BY <1>3, EndTracked DEF Exit
<1>4. ASSUME NEW p \in Process, Restart(p) \/ Reopen(p) PROVE SharedTracked'
  BY <1>2, <1>4 DEF Restart, Reopen, Boot, kernelVars
<1>5. ASSUME NEW p \in Process, Setup(p) \/ CheckInterface(p) \/ AddLink(p) \/ AddAddress(p)
      PROVE  SharedTracked'
  BY <1>2, <1>3, <1>5 DEF Setup, CheckInterface, AddLink, AddAddress, kernelVars
<1>6. ASSUME NEW p \in Process, SetUp(p) \/ RepairAddress(p) \/ RepairLink(p)
      PROVE  SharedTracked'
  <2>1. pc[p] \notin Serving
    BY <1>6 DEF SetUp, RepairAddress, RepairLink, Serving, Updating
  <2>2. entries[p] = goal[p] \ missed[p]
    BY <2>1 DEF TypeOK
  <2> QED
    BY <1>2, <1>3, <1>6, <2>2 DEF SetUp, RepairAddress, RepairLink
<1>7. ASSUME NEW p \in Process, Load(p) PROVE SharedTracked'
  <2>1. CASE /\ UNCHANGED <<stopping, entries, histVars>>
             /\ \E l \in Updating : pc' = [pc EXCEPT ![p] = l]
    <3>1. AtRest'
      BY <1>7, <2>1 DEF Load, Exit, End, Updating, SharedTracked, AtRest, TypeOK
    <3> QED
      BY <1>7, <2>1, <3>1
         DEF Load, kernelVars, histVars, SharedTracked, TrackedByAll, TrackedBySome
  <2> QED
    BY <1>3, <1>7, <2>1 DEF Load, Updating, kernelVars
<1>8. ASSUME NEW p \in Process, NEW h \in HostIP, RemoveEntry(p, h) PROVE SharedTracked'
  <2>1. /\ pc[p] # "run" /\ h \in entries[p] /\ UNCHANGED <<pc, goal, missed, stopping>>
        /\ entries' = [entries EXCEPT ![p] = @ \ {h}]
        /\ \/ fdb' = fdb \ {h} /\ stray' = stray \ {h}
           \/ UNCHANGED fdb /\ stray' = stray \cup {h}
    BY <1>8 DEF RemoveEntry, RemovesNow, Updating, Stale
  <2>2. AtRest'
    BY <2>1 DEF SharedTracked, AtRest, TypeOK
  <2>3. TrackedByAll'
    BY <2>1 DEF SharedTracked, TrackedByAll, TypeOK
  <2>4. TrackedBySome'
    BY <2>1 DEF SharedTracked, TrackedBySome, TypeOK
  <2> QED
    BY <2>2, <2>3, <2>4 DEF SharedTracked
<1>9. ASSUME NEW p \in Process, NEW h \in HostIP, AddEntry(p, h) PROVE SharedTracked'
  <2>1. /\ pc[p] # "run" /\ UNCHANGED <<pc, goal, stopping>>
        /\ \/ /\ fdb' = fdb \cup {h} /\ entries' = [entries EXCEPT ![p] = @ \cup {h}]
              /\ stray' = stray \ {h} /\ UNCHANGED missed
           \/ missed' = [missed EXCEPT ![p] = @ \cup {h}] /\ UNCHANGED <<fdb, entries, stray>>
    BY <1>9 DEF AddEntry, AddsNow, Updating
  <2>2. AtRest'
    BY <2>1 DEF SharedTracked, AtRest, TypeOK
  <2>3. TrackedByAll'
    BY <2>1 DEF SharedTracked, TrackedByAll, TypeOK
  <2>4. TrackedBySome'
    BY <2>1 DEF SharedTracked, TrackedBySome, TypeOK
  <2> QED
    BY <2>2, <2>3, <2>4 DEF SharedTracked
<1>10. ASSUME NEW p \in Process, UpdateDone(p) PROVE SharedTracked'
  <2>1. entries[p] = goal[p] \ missed[p]
    BY <1>10 DEF UpdateDone, Stale, Missing, TypeOK
  <2> QED
    BY <1>2, <1>10, <2>1 DEF UpdateDone, kernelVars
<1>11. ASSUME NEW p \in Process, Stop(p) PROVE SharedTracked'
  <2>1. /\ stopping' = [stopping EXCEPT ![p] = TRUE] /\ UNCHANGED <<goal, missed, entries>>
        /\ \A q \in Process : pc'[q] = "run" => pc[q] = "run"
        /\ fdb' = {} \/ UNCHANGED <<fdb, stray>>
    BY <1>11 DEF Stop, Stoppable, kernelVars, TypeOK
  <2>2. AtRest'
    BY <2>1 DEF SharedTracked, AtRest
  <2>3. TrackedByAll'
    BY <2>1 DEF TrackedByAll, TypeOK
  <2>4. TrackedBySome'
    BY <2>1 DEF SharedTracked, TrackedBySome
  <2> QED
    BY <2>2, <2>3, <2>4 DEF SharedTracked
<1>12. ASSUME NEW p \in Process, Kill(p) PROVE SharedTracked'
  BY <1>3, <1>12 DEF Kill, kernelVars
<1>13. ASSUME NEW p \in Process, Finish(p) PROVE SharedTracked'
  BY <1>13, EndTracked DEF Finish, kernelVars
<1>14. CASE UNCHANGED vars
  BY <1>14, QuietTracked DEF vars, memVars, histVars, kernelVars
<1> QED
  BY <1>1, <1>4, <1>5, <1>6, <1>7, <1>8, <1>9, <1>10, <1>11, <1>12, <1>13,
     <1>14 DEF Next, Create, Update

-----------------------------------------------------------------------------
\* Nothing runs at first, and there is no interface.
LEMMA IInvInit == Init => IInv
<1> SUFFICES ASSUME Init PROVE IInv
  OBVIOUS
<1> USE DEF Init, Creating, Repairing, Updating, Serving, Relies
<1>1. TypeOK
  BY BoundAssumption DEF TypeOK, Exists
<1>2. ReadyOnTheWay
  BY DEF ReadyOnTheWay, ReadyFor
<1>3. SharedTracked
  BY ProcessAssumption DEF SharedTracked, AtRest, TrackedByAll, TrackedBySome
<1> QED
  BY <1>1, <1>2, <1>3 DEF IInv

\* Every state of every behaviour satisfies the invariant.
THEOREM IInvAlways == Spec => []IInv
<1>1. IInv /\ [Next]_vars => IInv'
  BY TypeStep, ReadyStep, TrackedStep DEF IInv
<1> QED
  BY <1>1, IInvInit, PTL DEF Spec

\* Types, and that addresses and entries exist only with the interface.
THEOREM TypeCorrect == Spec => []TypeOK
<1>1. IInv => TypeOK
  BY DEF IInv
<1> QED
  BY <1>1, IInvAlways, PTL

\* Of any number of processes on the host, one that serves has its interface,
\* whatever its siblings did, and whichever of their commands failed, while it
\* looked for it, made it or repaired it.
THEOREM ServesWithInterface == Spec => []InterfaceReady
<1>1. IInv => InterfaceReady
  <2> SUFFICES ASSUME IInv, NEW p \in Process, pc[p] \in Serving, ~lost[p], ~warned[p]
               PROVE  Complete(p)
    BY DEF InterfaceReady
  <2>1. Exists /\ Shown(p) /\ "up" \in link
    BY DEF IInv, ReadyOnTheWay, ReadyFor, Relies
  <2> QED
    BY <2>1 DEF IInv, TypeOK, Complete, Exists
<1> QED
  BY <1>1, IInvAlways, PTL

\* At rest any number of processes that track the shared entries apart agree
\* with the kernel, after any failures, stops and kills: a host that all of them
\* list is in it, if the addition has not failed in the last update of one of
\* them, and one that none of them lists is not, if it does not stray.
THEOREM RestsInAgreement == Spec => []AgreedEntries
<1>1. IInv => AgreedEntries
  BY DEF IInv, SharedTracked, AtRest, TrackedByAll, TrackedBySome, AgreedEntries
<1> QED
  BY <1>1, IInvAlways, PTL
=============================================================================
