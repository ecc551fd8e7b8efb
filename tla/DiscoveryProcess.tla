-------------------------- MODULE DiscoveryProcess --------------------------
(***************************************************************************)
(* The discovery processes of one host, from main to the end: the set-up   *)
(* of the socket, whose port they share, the three loops, and the stop     *)
(* that waits for them. What the loops send and store is in Discovery and  *)
(* FileStorage. Source: src/discovery/cmd/main.go and                      *)
(* src/discovery/pkg/multicast/discovery.go.                               *)
(***************************************************************************)
EXTENDS Integers, FiniteSets

CONSTANTS
    Process,      \* the discovery containers of the host
    Supported,    \* does the host's kernel grant SO_REUSEPORT
    MaxFailures,  \* bound: system calls that fail
    MaxKills,     \* bound: kills of a process
    MaxStops      \* bound: signals by an operator

ASSUME SupportAssumption == Supported \in BOOLEAN
ASSUME BoundAssumption == MaxFailures \in Nat /\ MaxKills \in Nat /\ MaxStops \in Nat

VARIABLES
    pc,           \* where main is
    sock,         \* what the socket has become; empty if it is closed
    loop,         \* where each loop is
    failures, kills, stops

faultVars == <<failures, kills, stops>>
vars      == <<pc, sock, loop, faultVars>>

Loop == {"announce", "listen", "cleanup"}

SettingUp == {"detect", "socket", "reuseport", "reuseaddr", "bind", "convert", "join"}
Ended     == {"exited", "stopped"}

\* d.ctx is done: Stop has called d.cancel.
Cancelled(p) == pc[p] \in {"close", "wait"}

Off == [l \in Loop |-> "off"]

Failure == failures < MaxFailures /\ failures' = failures + 1

Goto(p, l) == pc' = [pc EXCEPT ![p] = l]

\* The process ends, and the kernel closes what it has open.
End(p, l) ==
    /\ Goto(p, l)
    /\ sock' = [sock EXCEPT ![p] = {}]
    /\ loop' = [loop EXCEPT ![p] = Off]

\* log.Fatalf: whatever of the set-up fails.
Exit(p) == End(p, "exited")

Fails(p) == Failure /\ Exit(p)

Gains(p, what) == sock' = [sock EXCEPT ![p] = @ \cup {what}]

Init ==
    /\ pc = [p \in Process |-> "exited"]
    /\ sock = [p \in Process |-> {}]
    /\ loop = [p \in Process |-> Off]
    /\ failures = 0 /\ kills = 0 /\ stops = 0

-----------------------------------------------------------------------------
(* main up to the loops.                                                   *)

\* The container is started by the restart policy, or by its operator.
Boot(p, from) ==
    /\ pc[p] = from /\ Goto(p, "detect")
    /\ UNCHANGED <<sock, loop, faultVars>>

Restart(p) == Boot(p, "exited")
Reopen(p)  == Boot(p, "stopped")

\* storage.Initialize, then detectHostIP: without a route there is no address.
DetectHostIP(p) ==
    /\ pc[p] = "detect"
    /\ \/ Goto(p, "socket") /\ UNCHANGED <<sock, loop, failures>>
       \/ Fails(p)
    /\ UNCHANGED <<kills, stops>>

\* Mutant of CreateSocket: the socket is bound as it is, as net.ListenUDP does.
CreateSocketPlainly(p) ==
    /\ pc[p] = "socket"
    /\ \/ Gains(p, "open") /\ Goto(p, "bind") /\ UNCHANGED <<loop, failures>>
       \/ Fails(p)
    /\ UNCHANGED <<kills, stops>>

CreateSocket(p) ==
    /\ pc[p] = "socket"
    /\ \/ Gains(p, "open") /\ Goto(p, "reuseport") /\ UNCHANGED <<loop, failures>>
       \/ Fails(p)
    /\ UNCHANGED <<kills, stops>>

\* SO_REUSEPORT: when it is refused the descriptor is closed, and the set-up
\* goes on with its number.
EnableReusePort(p) ==
    /\ pc[p] = "reuseport" /\ Goto(p, "reuseaddr")
    /\ \/ Supported /\ Gains(p, "port") /\ UNCHANGED failures
       \/ ~Supported /\ sock' = [sock EXCEPT ![p] = {}] /\ UNCHANGED failures
       \/ Failure /\ sock' = [sock EXCEPT ![p] = {}]
    /\ UNCHANGED <<loop, kills, stops>>

\* SO_REUSEADDR: a number that is no descriptor is refused (nothing else of the
\* process opens one in between).
EnableReuseAddr(p) ==
    /\ pc[p] = "reuseaddr"
    /\ \/ "open" \in sock[p] /\ Gains(p, "addr") /\ Goto(p, "bind") /\ UNCHANGED <<loop, failures>>
       \/ "open" \notin sock[p] /\ Exit(p) /\ UNCHANGED failures
       \/ Fails(p)
    /\ UNCHANGED <<kills, stops>>

\* The kernel lets two UDP sockets have one port if both have the one option
\* or both the other.
Compatible(p, q) == sock[p] \cap sock[q] \cap {"port", "addr"} # {}

PortIsFree(p) == \A q \in Process \ {p} : "bound" \in sock[q] => Compatible(p, q)

\* Mutant of Bind: its failure is only logged, as that of SO_REUSEPORT is.
BindLeniently(p) ==
    /\ pc[p] = "bind" /\ Goto(p, "convert")
    /\ \/ PortIsFree(p) /\ Gains(p, "bound") /\ UNCHANGED failures
       \/ ~PortIsFree(p) /\ UNCHANGED <<sock, failures>>
       \/ Failure /\ UNCHANGED sock
    /\ UNCHANGED <<loop, kills, stops>>

Bind(p) ==
    /\ pc[p] = "bind"
    /\ \/ PortIsFree(p) /\ Gains(p, "bound") /\ Goto(p, "convert") /\ UNCHANGED <<loop, failures>>
       \/ ~PortIsFree(p) /\ Exit(p) /\ UNCHANGED failures
       \/ Fails(p)
    /\ UNCHANGED <<kills, stops>>

\* net.FileConn, which duplicates the descriptor; the first one is closed.
Convert(p) ==
    /\ pc[p] = "convert"
    /\ \/ Goto(p, "join") /\ UNCHANGED <<sock, loop, failures>>
       \/ Fails(p)
    /\ UNCHANGED <<kills, stops>>

\* setupMulticast joins the group on each interface: net.Interfaces may fail, a
\* join that fails is only logged. Then the loops are started, the announcer
\* with its first announcement, and main waits for a signal.
JoinAndStart(p) ==
    /\ pc[p] = "join"
    /\ \/ /\ Goto(p, "run")
          /\ loop' = [loop EXCEPT ![p] = [l \in Loop |->
                            IF l = "announce" THEN "busy" ELSE "select"]]
          /\ \/ Gains(p, "joined") /\ UNCHANGED failures
             \/ Failure /\ UNCHANGED sock
       \/ Fails(p)
    /\ UNCHANGED <<kills, stops>>

-----------------------------------------------------------------------------
(* The loops. Each is at its select, in a read, or busy with a message.    *)

Moves(p, l, from, to) ==
    /\ loop[p][l] = from
    /\ loop' = [loop EXCEPT ![p][l] = to]
    /\ UNCHANGED <<pc, sock, faultVars>>

\* A ticker fires: select takes either of two cases that are ready, also after
\* the cancellation.
TickerFires(p) == \E l \in {"announce", "cleanup"} : Moves(p, l, "select", "busy")

\* Mutant of LoopEnds: the listener does not look at the context.
TickerLoopEnds(p, l) ==
    l # "listen" /\ Cancelled(p) /\ Moves(p, l, "select", "done")

\* case <-d.ctx.Done()
LoopEnds(p, l) == Cancelled(p) /\ Moves(p, l, "select", "done")

\* The listener's default case, taken only if the context is not done.
ListenerReads(p) == ~Cancelled(p) /\ Moves(p, "listen", "select", "read")

\* ReadFromUDP ends with a message, by the deadline, or because the connection
\* has been closed; every error leads back to the select.
MessageArrives(p) == "bound" \in sock[p] /\ Moves(p, "listen", "read", "busy")
ReadFails(p)      == Moves(p, "listen", "read", "select")

\* The announcement is sent, the message handled, the peers cleaned up and the
\* file written; a closed connection or a failing write is only logged.
WorkDone(p, l) == Moves(p, l, "busy", "select")

-----------------------------------------------------------------------------
(* The end.                                                                *)

\* SIGINT or SIGTERM once main has asked for them: Stop cancels the context.
Signal(p) ==
    /\ pc[p] = "run" /\ Goto(p, "close")
    /\ stops < MaxStops /\ stops' = stops + 1
    /\ UNCHANGED <<sock, loop, failures, kills>>

CloseConn(p) ==
    /\ pc[p] = "close" /\ Goto(p, "wait")
    /\ sock' = [sock EXCEPT ![p] = {}]
    /\ UNCHANGED <<loop, faultVars>>

\* Mutant of WaitForLoops: main returns without waiting for the cleaner.
WaitForTwoLoops(p) ==
    /\ pc[p] = "wait" /\ \A l \in Loop \ {"cleanup"} : loop[p][l] = "done"
    /\ End(p, "stopped")
    /\ UNCHANGED faultVars

\* d.wg.Wait, after which main returns.
WaitForLoops(p) ==
    /\ pc[p] = "wait" /\ \A l \in Loop : loop[p][l] = "done"
    /\ End(p, "stopped")
    /\ UNCHANGED faultVars

\* SIGKILL at any time, or SIGTERM before main has asked for it.
Kill(p) ==
    /\ pc[p] \notin Ended
    /\ kills < MaxKills /\ kills' = kills + 1
    /\ Exit(p)
    /\ UNCHANGED <<failures, stops>>

Start(p) ==
    \/ DetectHostIP(p) \/ CreateSocket(p) \/ EnableReusePort(p) \/ EnableReuseAddr(p)
    \/ Bind(p) \/ Convert(p) \/ JoinAndStart(p)

Stop(p) == CloseConn(p) \/ WaitForLoops(p)

Next == \E p \in Process :
    \/ Restart(p) \/ Reopen(p) \/ Start(p) \/ Signal(p) \/ Stop(p) \/ Kill(p)
    \/ TickerFires(p) \/ ListenerReads(p) \/ MessageArrives(p) \/ ReadFails(p)
    \/ \E l \in Loop : LoopEnds(p, l) \/ WorkDone(p, l)

Spec == Init /\ [][Next]_vars

\* Docker restarts, main and the loops go on, a read ends by its deadline. The
\* end of a loop is strongly fair: a select that finds both of its cases ready
\* takes each with the same chance, again and again. Tickers, messages, signals
\* and faults are not fair.
Fairness == \A p \in Process :
    /\ WF_vars(Restart(p) \/ Start(p) \/ Stop(p))
    /\ WF_vars(ListenerReads(p) \/ ReadFails(p))
    /\ \A l \in Loop : SF_vars(LoopEnds(p, l)) /\ WF_vars(WorkDone(p, l))

FairSpec == Spec /\ Fairness

-----------------------------------------------------------------------------
(* Properties.                                                             *)

Listening(p) ==
    pc[p] = "run" /\ "bound" \in sock[p] /\ loop[p]["listen"] \in {"select", "read", "busy"}

TypeOK ==
    /\ pc \in [Process -> SettingUp \cup Ended \cup {"run", "close", "wait"}]
    /\ sock \in [Process -> SUBSET {"open", "port", "addr", "bound", "joined"}]
    /\ \A p \in Process :
        /\ sock[p] # {} => "open" \in sock[p]
        /\ pc[p] = "run" => "bound" \in sock[p] /\ \A l \in Loop : loop[p][l] \notin {"off", "done"}
        /\ pc[p] \in SettingUp \cup Ended => loop[p] = Off
    /\ loop \in [Process -> [Loop -> {"off", "select", "read", "busy", "done"}]]
    /\ \A p \in Process : \A l \in Loop : loop[p][l] = "read" => l = "listen"
    /\ failures \in 0 .. MaxFailures /\ kills \in 0 .. MaxKills /\ stops \in 0 .. MaxStops

\* A stack that comes to its bind finds the port free for it: no stack of the
\* host, in whatever order they come and go and whatever failed on the way, has
\* the port with a socket that does not let it in (discovery.go:174-202).
NobodyShutOut == \A p \in Process : pc[p] = "bind" => PortIsFree(p)

\* A stop is clean: only a kill ends a process while a loop is in the middle of
\* a message or of a publication (discovery.go:110-120, 226-290). A stop is one
\* that main catches: a SIGTERM between the start of the loops and signal.Notify
\* (main.go:48-54) ends the process at once and is a kill here.
OnlyKillsCutWork ==
    [][\A p \in Process : \A l \in Loop :
         loop[p][l] = "busy" /\ loop'[p][l] = "off" => kills' > kills]_vars

\* Where SO_REUSEPORT is granted, every stack of the host that is not stopped
\* comes to listen on the one port for good, whatever failed at first and in
\* whatever order they come and go (discovery.go:135-224, main.go:47-57).
EveryStackListens ==
    \A p \in Process :
        <>[](pc[p] # "stopped" /\ ~Cancelled(p)) => <>[]Listening(p)

\* A stop comes to its end: no loop, and no read, outlasts the cancellation
\* (discovery.go:110-120, 236-288).
StopReturns == \A p \in Process : Cancelled(p) ~> pc[p] \in Ended

\* discovery.go:186: "Continue without SO_REUSEPORT - will work for single
\* stack per host".
SingleStackListens == Cardinality(Process) = 1 => EveryStackListens

=============================================================================
