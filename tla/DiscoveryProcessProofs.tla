----------------------- MODULE DiscoveryProcessProofs -----------------------
(***************************************************************************)
(* Proofs about DiscoveryProcess, for any number of discovery containers   *)
(* on the host, failures, kills and stops, and whether or not the kernel   *)
(* grants SO_REUSEPORT.                                                    *)
(*                                                                         *)
(* TypeOK says that a process which runs has a bound socket. That is not   *)
(* inductive: the socket is bound three calls earlier, and the fall-back   *)
(* closes it on the way (SetUpSoFar). That a bind never finds the port     *)
(* taken follows from what every bound socket has (PortIsShared).          *)
(***************************************************************************)
EXTENDS DiscoveryProcess, TLAPS

\* From each call on the socket has what the calls before it gave it; only the
\* fall-back reaches a call, SO_REUSEADDR, with a closed one.
SetUpSoFar ==
    \A p \in Process :
        /\ pc[p] \in {"reuseport", "bind", "convert", "join", "run"} => "open" \in sock[p]
        /\ pc[p] \in {"convert", "join"} => "bound" \in sock[p]

\* Nobody comes to its bind, or keeps the port, without SO_REUSEADDR: the
\* fall-back that goes without SO_REUSEPORT does not get as far.
PortIsShared ==
    \A p \in Process : pc[p] = "bind" \/ "bound" \in sock[p] => "addr" \in sock[p]

SInv == TypeOK /\ SetUpSoFar /\ PortIsShared

-----------------------------------------------------------------------------
\* Nothing runs at first.
LEMMA SInvInit == Init => SInv
BY BoundAssumption DEF Init, SInv, TypeOK, SetUpSoFar, PortIsShared, SettingUp, Ended, Off, Loop

\* The counters stay within their bounds.
Bounded == failures \in 0 .. MaxFailures /\ kills \in 0 .. MaxKills /\ stops \in 0 .. MaxStops

\* A failed call is one of the bounded number of failures.
LEMMA FailureBounded ==
    ASSUME Bounded, Failure, UNCHANGED <<kills, stops>> PROVE Bounded'
BY BoundAssumption DEF Bounded, Failure

\* A process that ends, for whatever reason, leaves nothing behind.
LEMMA EndKeeps ==
    ASSUME SInv, NEW p \in Process, NEW l \in Ended, End(p, l), Bounded'
    PROVE  SInv'
BY DEF End, Goto, Bounded, SInv, TypeOK, SetUpSoFar, PortIsShared, SettingUp, Ended, Off, Loop

\* A call that succeeds moves main on and changes what the socket has become.
LEMMA CallKeeps ==
    ASSUME SInv, NEW p \in Process, NEW l \in SettingUp, Goto(p, l), UNCHANGED loop,
           pc[p] \in SettingUp, Bounded',
           NEW S \in SUBSET {"open", "port", "addr", "bound", "joined"},
           sock' = [sock EXCEPT ![p] = S], S # {} => "open" \in S,
           l \in {"reuseport", "bind", "convert", "join"} => "open" \in S,
           l \in {"convert", "join"} => "bound" \in S,
           l = "bind" \/ "bound" \in S => "addr" \in S
    PROVE  SInv'
BY DEF Goto, Bounded, SInv, TypeOK, SetUpSoFar, PortIsShared, SettingUp, Ended, Off, Loop

\* The set-up: a call succeeds, or it fails and the process ends.
LEMMA StartKeeps ==
    ASSUME SInv, NEW p \in Process, Start(p)
    PROVE  SInv'
<1> USE DEF SettingUp
<1>1. Bounded /\ sock[p] \in SUBSET {"open", "port", "addr", "bound", "joined"}
  BY DEF SInv, TypeOK, Bounded
<1>2. ASSUME Fails(p), UNCHANGED <<kills, stops>> PROVE SInv'
  BY <1>1, <1>2, FailureBounded, EndKeeps DEF Fails, Exit, Ended
<1>3. ASSUME UNCHANGED faultVars PROVE Bounded'
  BY <1>1, <1>3 DEF Bounded, faultVars
<1>4. CASE DetectHostIP(p)
  <2>1. CASE Goto(p, "socket") /\ UNCHANGED <<sock, loop, failures>>
    <3>1. sock' = [sock EXCEPT ![p] = sock[p]]
      BY <2>1 DEF SInv, TypeOK
    <3>2. /\ pc[p] \in SettingUp /\ Bounded'
          /\ sock[p] # {} => "open" \in sock[p]
          /\ pc[p] = "convert" => {"open", "bound"} \subseteq sock[p]
          /\ "bound" \in sock[p] => "addr" \in sock[p]
      BY <1>4, <1>3, <2>1 DEF DetectHostIP, SInv, SetUpSoFar, PortIsShared, TypeOK, faultVars
    <3> QED
      BY <1>4, <1>1, <2>1, <3>1, <3>2, CallKeeps DEF DetectHostIP
  <2> QED
    BY <1>4, <1>2, <2>1 DEF DetectHostIP
<1>5. CASE CreateSocket(p)
  <2>1. CASE Gains(p, "open") /\ Goto(p, "reuseport") /\ UNCHANGED <<loop, failures>>
    <3>1. sock' = [sock EXCEPT ![p] = sock[p] \cup {"open"}]
      BY <2>1 DEF Gains
    <3> QED
      BY <1>5, <1>1, <1>3, <2>1, <3>1, CallKeeps DEF CreateSocket, SInv, SetUpSoFar, PortIsShared, TypeOK, faultVars
  <2> QED
    BY <1>5, <1>2, <2>1 DEF CreateSocket
<1>6. CASE EnableReusePort(p)
  BY <1>6, <1>1, FailureBounded
     DEF EnableReusePort, Gains, Failure, Goto, Bounded, SInv, TypeOK, SetUpSoFar, PortIsShared, SettingUp, Ended, Off, Loop
<1>7. CASE EnableReuseAddr(p)
  <2>1. CASE "open" \in sock[p] /\ Gains(p, "addr") /\ Goto(p, "bind") /\ UNCHANGED <<loop, failures>>
    <3>1. sock' = [sock EXCEPT ![p] = sock[p] \cup {"addr"}]
      BY <2>1 DEF Gains
    <3> QED
      BY <1>7, <1>1, <1>3, <2>1, <3>1, CallKeeps DEF EnableReuseAddr, SInv, SetUpSoFar, PortIsShared, TypeOK, faultVars
  <2>2. CASE Exit(p) /\ UNCHANGED failures
    BY <1>7, <1>3, <2>2, EndKeeps DEF EnableReuseAddr, Exit, Ended, faultVars
  <2> QED
    BY <1>7, <1>2, <2>1, <2>2 DEF EnableReuseAddr
<1>8. CASE Bind(p)
  <2>1. CASE Gains(p, "bound") /\ Goto(p, "convert") /\ UNCHANGED <<loop, failures>>
    <3>1. sock' = [sock EXCEPT ![p] = sock[p] \cup {"bound"}]
      BY <2>1 DEF Gains
    <3> QED
      BY <1>8, <1>1, <1>3, <2>1, <3>1, CallKeeps DEF Bind, SInv, SetUpSoFar, PortIsShared, TypeOK, faultVars
  <2>2. CASE Exit(p) /\ UNCHANGED failures
    BY <1>8, <1>3, <2>2, EndKeeps DEF Bind, Exit, Ended, faultVars
  <2> QED
    BY <1>8, <1>2, <2>1, <2>2 DEF Bind
<1>9. CASE Convert(p)
  <2>1. CASE Goto(p, "join") /\ UNCHANGED <<sock, loop, failures>>
    <3>1. sock' = [sock EXCEPT ![p] = sock[p]]
      BY <2>1 DEF SInv, TypeOK
    <3>2. /\ pc[p] \in SettingUp /\ Bounded'
          /\ sock[p] # {} => "open" \in sock[p]
          /\ pc[p] = "convert" => {"open", "bound"} \subseteq sock[p]
          /\ "bound" \in sock[p] => "addr" \in sock[p]
      BY <1>9, <1>3, <2>1 DEF Convert, SInv, SetUpSoFar, PortIsShared, TypeOK, faultVars
    <3> QED
      BY <1>9, <1>1, <2>1, <3>1, <3>2, CallKeeps DEF Convert
  <2> QED
    BY <1>9, <1>2, <2>1 DEF Convert
<1>10. CASE JoinAndStart(p)
  <2>1. CASE ~Fails(p)
    <3>1. /\ {"open", "bound"} \subseteq sock[p]
          /\ sock' = sock \/ sock' = [sock EXCEPT ![p] = sock[p] \cup {"joined"}]
          /\ pc' = [pc EXCEPT ![p] = "run"]
          /\ loop' = [loop EXCEPT ![p] = [l \in Loop |->
                                                IF l = "announce" THEN "busy" ELSE "select"]]
      BY <1>10, <2>1 DEF JoinAndStart, Gains, Goto, SInv, SetUpSoFar
    <3>2. Bounded'
      BY <1>10, <1>1, <1>3, <2>1, FailureBounded DEF JoinAndStart, faultVars
    <3> QED
      BY <3>1, <3>2 DEF Bounded, SInv, TypeOK, SetUpSoFar, PortIsShared, Ended, Off, Loop
  <2> QED
    BY <1>10, <1>2, <2>1 DEF JoinAndStart
<1> QED
  BY <1>4, <1>5, <1>6, <1>7, <1>8, <1>9, <1>10 DEF Start

\* A step of a loop: it is done only after the cancellation, and only the
\* listener reads.
LEMMA LoopKeeps ==
    ASSUME SInv, NEW p \in Process, NEW l \in Loop,
           NEW from \in {"select", "read", "busy"},
           NEW to \in {"select", "read", "busy", "done"},
           Moves(p, l, from, to), to = "read" => l = "listen",
           to = "done" => Cancelled(p)
    PROVE  SInv'
<1>1. pc[p] \notin SettingUp \cup Ended
  BY DEF Moves, SInv, TypeOK, Off
<1>2. loop' = [loop EXCEPT ![p] = [loop[p] EXCEPT ![l] = to]]
  BY DEF Moves
<1> QED
  BY <1>1, <1>2 DEF Moves, faultVars, Cancelled, SInv, TypeOK, SetUpSoFar, PortIsShared, SettingUp, Ended, Off, Loop

\* The other steps of main, the operator and the restart policy.
LEMMA MainKeeps ==
    ASSUME SInv, NEW p \in Process,
           Restart(p) \/ Reopen(p) \/ Signal(p) \/ Stop(p) \/ Kill(p)
    PROVE  SInv'
<1> Bounded
  BY DEF SInv, TypeOK, Bounded
<1>1. CASE Restart(p) \/ Reopen(p)
  BY <1>1 DEF Restart, Reopen, Boot, Goto, faultVars, SInv, TypeOK, SetUpSoFar, PortIsShared, SettingUp, Ended, Off, Loop
<1>2. CASE Signal(p)
  BY <1>2, BoundAssumption DEF Signal, Goto, SInv, TypeOK, SetUpSoFar, PortIsShared, SettingUp, Ended, Off, Loop
<1>3. CASE CloseConn(p)
  BY <1>3 DEF CloseConn, Goto, faultVars, SInv, TypeOK, SetUpSoFar, PortIsShared, SettingUp, Ended, Off, Loop
<1>4. CASE WaitForLoops(p)
  BY <1>4, EndKeeps DEF WaitForLoops, faultVars, Bounded, Ended
<1>5. CASE Kill(p)
  BY <1>5, EndKeeps, BoundAssumption DEF Kill, Exit, Bounded, Ended
<1> QED
  BY <1>1, <1>2, <1>3, <1>4, <1>5 DEF Stop

\* Every step keeps the invariant.
LEMMA SInvStep == SInv /\ [Next]_vars => SInv'
<1> SUFFICES ASSUME SInv, [Next]_vars PROVE SInv'
  OBVIOUS
<1>1. ASSUME NEW p \in Process, TickerFires(p) PROVE SInv'
  BY <1>1, LoopKeeps DEF TickerFires, Loop
<1>2. ASSUME NEW p \in Process, ListenerReads(p) \/ MessageArrives(p) \/ ReadFails(p)
      PROVE  SInv'
  BY <1>2, LoopKeeps DEF ListenerReads, MessageArrives, ReadFails, Loop
<1>3. ASSUME NEW p \in Process, NEW l \in Loop, LoopEnds(p, l) \/ WorkDone(p, l)
      PROVE  SInv'
  BY <1>3, LoopKeeps DEF LoopEnds, WorkDone
<1>4. CASE UNCHANGED vars
  BY <1>4 DEF vars, faultVars, SInv, TypeOK, SetUpSoFar, PortIsShared
<1> QED
  BY <1>1, <1>2, <1>3, <1>4, StartKeeps, MainKeeps DEF Next

-----------------------------------------------------------------------------
\* Every state of every behaviour satisfies the invariant.
THEOREM SInvAlways == Spec => []SInv
BY SInvInit, SInvStep, PTL DEF Spec

\* Types, and with them that a process which runs has a bound socket and all
\* three loops, for any number of processes and faults.
THEOREM TypeCorrect == Spec => []TypeOK
<1>1. SInv => TypeOK
  BY DEF SInv
<1> QED
  BY <1>1, SInvAlways, PTL

\* On its way to the loops no stack is kept out of the port by another, for any
\* number of stacks on the host, and with SO_REUSEPORT or without.
THEOREM PortCorrect == Spec => []NobodyShutOut
<1>1. SInv => NobodyShutOut
  BY DEF SInv, PortIsShared, NobodyShutOut, PortIsFree, Compatible
<1> QED
  BY <1>1, SInvAlways, PTL

\* A loop that is in the middle of its work is off in the next state only if
\* the process has been killed.
LEMMA CutByKillOnly ==
    ASSUME SInv, Next, NEW p \in Process, NEW l \in Loop,
           loop[p][l] = "busy", loop'[p][l] = "off"
    PROVE  kills' > kills
<1>1. PICK q \in Process :
        \/ Restart(q) \/ Reopen(q) \/ Start(q) \/ Signal(q) \/ Stop(q) \/ Kill(q)
        \/ TickerFires(q) \/ ListenerReads(q) \/ MessageArrives(q) \/ ReadFails(q)
        \/ \E k \in Loop : LoopEnds(q, k) \/ WorkDone(q, k)
  BY DEF Next
<1>2. loop \in [Process -> [Loop -> {"off", "select", "read", "busy", "done"}]]
  BY DEF SInv, TypeOK
<1>3. CASE Start(q)
  <2>1. pc[q] \in SettingUp
    BY <1>3 DEF Start, DetectHostIP, CreateSocket, EnableReusePort, EnableReuseAddr,
                Bind, Convert, JoinAndStart, SettingUp
  <2>2. loop[q] = Off /\ q # p
    BY <2>1 DEF SInv, TypeOK, Off
  <2>3. loop'[p] = loop[p]
    BY <1>2, <1>3, <2>2 DEF Start, DetectHostIP, CreateSocket, EnableReusePort,
         EnableReuseAddr, Bind, Convert, JoinAndStart, Fails, Exit, End
  <2> QED
    BY <2>3
<1>4. ASSUME NEW k \in Loop, NEW from, NEW to \in {"select", "read", "busy", "done"},
             Moves(q, k, from, to)
      PROVE  FALSE
  BY <1>2, <1>4 DEF Moves
<1>5. CASE TickerFires(q) \/ ListenerReads(q) \/ MessageArrives(q) \/ ReadFails(q)
  BY <1>4, <1>5 DEF TickerFires, ListenerReads, MessageArrives, ReadFails, Loop
<1>6. CASE \E k \in Loop : LoopEnds(q, k) \/ WorkDone(q, k)
  BY <1>4, <1>6 DEF LoopEnds, WorkDone
<1>7. CASE Restart(q) \/ Reopen(q) \/ Signal(q) \/ CloseConn(q)
  BY <1>7 DEF Restart, Reopen, Boot, Signal, CloseConn
<1>8. CASE WaitForLoops(q)
  BY <1>2, <1>8 DEF WaitForLoops, End
<1>9. CASE Kill(q)
  BY <1>9, BoundAssumption DEF Kill, SInv, TypeOK
<1> QED
  BY <1>1, <1>3, <1>5, <1>6, <1>7, <1>8, <1>9 DEF Stop

\* A stop that main catches never cuts a message or a publication short, whatever
\* the number of processes and wherever each of their loops is.
THEOREM StopsCutNothing == Spec => OnlyKillsCutWork
<1>1. SInv /\ [Next]_vars =>
        [\A p \in Process : \A l \in Loop :
            loop[p][l] = "busy" /\ loop'[p][l] = "off" => kills' > kills]_vars
  BY CutByKillOnly
<1> QED
  BY <1>1, SInvAlways, PTL DEF Spec, OnlyKillsCutWork
=============================================================================
