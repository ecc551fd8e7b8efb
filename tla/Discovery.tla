----------------------------- MODULE Discovery -----------------------------
(***************************************************************************)
(* The multicast discovery protocol among the stacks of one multicast      *)
(* group. Each stack announces itself when it starts and on every tick of  *)
(* its announce ticker, remembers the others it hears, forgets those it    *)
(* has not heard for longer than the timeout, and publishes what it knows  *)
(* in its discovery.json.                                                  *)
(* Source: src/discovery/pkg/multicast/discovery.go, with the peer map of  *)
(* src/discovery/pkg/storage/file.go.                                      *)
(*                                                                         *)
(* The listener and the cleaner change the map in one step and write the   *)
(* file in a later one, which may fail. A write that overlaps no other and *)
(* does not fail publishes the map; two that overlap leave the map, a torn *)
(* file or, with an error, what was there: that is what FileStorage, which *)
(* has the steps of a write, shows of them.                                *)
(*                                                                         *)
(* Time is discrete. A ticker or a write that is due, and a datagram that  *)
(* is as late as the network allows, are handled before time goes on.      *)
(***************************************************************************)
EXTENDS Integers, FiniteSets

CONSTANTS
    Stack,        \* the stacks (STACK_ID) of the multicast group
    HostIP,       \* the addresses detectHostIP may find
    NoHost,       \* "not in the map"
    Unread,       \* "in a file that does not parse"
    Interval,     \* announceInterval, in ticks
    Timeout,      \* peerTimeout, in ticks
    MaxDelay,     \* network assumption: ticks until a datagram arrives
    MaxLost,      \* announcements lost in a row that Converged allows for
    Reach,        \* the network: from which stack to which datagrams arrive
    Queries,      \* bound: the pairs of a queried stack and the one it answers
    Faulty        \* bound: the stacks whose writes may fail or overlap

CleanupPeriod == Timeout \div 3

\* How long a stack may be listed where it no longer is, and how long two that
\* run may take to list each other (see Departed and Converged).
DepartTime   == Timeout + CleanupPeriod + MaxDelay
ConvergeTime == (MaxLost + 1) * Interval + 2 * MaxDelay

ASSUME HostAssumption == NoHost \notin HostIP /\ Unread \notin HostIP \cup {NoHost}
ASSUME QueriesAssumption == Queries \subseteq Reach
ASSUME ReachAssumption == Reach \subseteq Stack \X Stack /\ Faulty \subseteq Stack
ASSUME TimeAssumption ==
    /\ Interval \in Nat \ {0} /\ Timeout \in Nat \ {0}
    /\ MaxDelay \in Nat /\ MaxLost \in Nat
    /\ CleanupPeriod > 0

VARIABLES
    up,           \* is the discovery container of the stack running
    since,        \* ticks since it was last started or stopped (saturates)
    hostIP,       \* d.hostIP, or NoHost when it is not running
    announce,     \* ticks since the announce ticker last fired
    cleanup,      \* ticks since the cleanup ticker last fired
    peers,        \* fs.peers: the host of each known stack, or NoHost
    age,          \* ticks since the peer's LastSeen
    due,          \* the goroutines that have a write of the file before them
    file,         \* what a reader of discovery.json gets, for each stack
    owed,         \* history: the last write failed, or two overlapped
    net,          \* the datagrams under way
    lost          \* announcements lost in a row while both are up, by sender
                  \* and receiver; stays at MaxLost + 1 once it gets there

timeVars  == <<since, announce, cleanup>>
fileVars  == <<due, file, owed>>
storeVars == <<peers, age, fileVars>>
netVars   == <<net, lost>>
vars      == <<up, hostIP, timeVars, storeVars, netVars>>

-----------------------------------------------------------------------------
(* Data.                                                                   *)

Others(s) == Stack \ {s}

\* Those that the network does not connect s to lose all it sends.
Unreached(s) == {r \in Others(s) : <<s, r>> \notin Reach}

Table == [Stack -> HostIP \cup {NoHost}]
Empty == [s \in Stack |-> NoHost]
Torn  == [s \in Stack |-> Unread]

\* The goroutines that write the file.
Goroutine == {"listen", "cleanup"}

\* An ANNOUNCE or a RESPONSE, one record for each receiver; `late' counts the
\* ticks since it was sent.
Message == [from : Stack, to : Stack, host : HostIP, late : 0 .. MaxDelay]

MessageOf(s, r) == [from |-> s, to |-> r, host |-> hostIP[s], late |-> 0]

\* Bound: `since' stops one tick past every bound that a property compares it
\* with (DepartTime is longer than CleanupPeriod).
UpHorizon   == 1 + IF ConvergeTime > DepartTime THEN ConvergeTime ELSE DepartTime
DownHorizon == 1 + DepartTime
Horizon(s)  == IF up[s] THEN UpHorizon ELSE DownHorizon

-----------------------------------------------------------------------------
Init ==
    /\ up = [s \in Stack |-> FALSE]
    /\ since = [s \in Stack |-> DownHorizon]
    /\ hostIP = Empty
    /\ announce = [s \in Stack |-> 0]
    /\ cleanup = [s \in Stack |-> 0]
    /\ peers = [s \in Stack |-> Empty]
    /\ age = [s \in Stack |-> [p \in Stack |-> 0]]
    /\ due = [s \in Stack |-> {}]
    /\ file = [s \in Stack |-> Empty]
    /\ owed = [s \in Stack |-> FALSE]
    /\ net = {}
    /\ lost = [s \in Stack |-> [r \in Stack |-> 0]]

\* Start: detect the address, join the group, start the three loops. The map
\* of a new process is empty (Init, Stop), discovery.json is what the last run
\* left; the first announcement is due at once.
Start(s) ==
    /\ ~up[s]
    /\ up' = [up EXCEPT ![s] = TRUE]
    /\ since' = [since EXCEPT ![s] = 0]
    /\ \E h \in HostIP : hostIP' = [hostIP EXCEPT ![s] = h]
    /\ announce' = [announce EXCEPT ![s] = Interval]
    /\ UNCHANGED <<cleanup, storeVars, netVars>>

\* Stop, or a crash: the memory is gone, the file stays, nobody is told. Two
\* writes that are cut off while they overlap may leave a torn file. The
\* losses are counted anew for the next process.
Stop(s) ==
    /\ up[s]
    /\ up' = [up EXCEPT ![s] = FALSE]
    /\ since' = [since EXCEPT ![s] = 0]
    /\ announce' = [announce EXCEPT ![s] = 0]
    /\ cleanup' = [cleanup EXCEPT ![s] = 0]
    /\ peers' = [peers EXCEPT ![s] = Empty]
    /\ age' = [age EXCEPT ![s] = [p \in Stack |-> 0]]
    /\ hostIP' = [hostIP EXCEPT ![s] = NoHost]
    /\ due' = [due EXCEPT ![s] = {}]
    /\ owed' = [owed EXCEPT ![s] = FALSE]
    /\ \/ UNCHANGED file
       \/ s \in Faulty /\ due[s] = Goroutine /\ file' = [file EXCEPT ![s] = Torn]
    /\ lost' = [p \in Stack |-> [r \in Stack |-> IF s \in {p, r} THEN 0 ELSE lost[p][r]]]
    /\ UNCHANGED net

\* How many in a row, after one that is lost or is not.
LostInARow(n, isLost) ==
    IF n > MaxLost THEN n ELSE IF isLost THEN n + 1 ELSE 0

\* Mutant of SendAnnouncement: the ticker is not served, only the first
\* announcement is sent.
SendInitialAnnouncement(s) ==
    /\ up[s] /\ announce[s] = Interval
    /\ announce' = [announce EXCEPT ![s] = 0]
    /\ \E Lose \in SUBSET Others(s) :
        /\ Unreached(s) \subseteq Lose
        /\ net' = net \cup {MessageOf(s, r) : r \in IF since[s] = 0 THEN Others(s) \ Lose ELSE {}}
        /\ lost' = [lost EXCEPT ![s] =
                        [r \in Stack |-> LostInARow(@[r], up[r] /\ r \in Lose)]]
    /\ UNCHANGED <<up, since, hostIP, cleanup, storeVars>>

\* announceLoop: one datagram to the group; each receiver gets it, or loses
\* it, as all do when WriteToUDP fails. There is no bound on the losses.
SendAnnouncement(s) ==
    /\ up[s] /\ announce[s] = Interval
    /\ announce' = [announce EXCEPT ![s] = 0]
    /\ \E Lose \in SUBSET Others(s) :
        /\ Unreached(s) \subseteq Lose
        /\ net' = net \cup {MessageOf(s, r) : r \in Others(s) \ Lose}
        /\ lost' = [lost EXCEPT ![s] =
                        [r \in Stack |-> LostInARow(@[r], up[r] /\ r \in Lose)]]
    /\ UNCHANGED <<up, since, hostIP, cleanup, storeVars>>

\* handleQuery: a QUERY in the name of r makes s answer r alone. No program
\* of the repository sends one, so it may come at any time.
HandleQuery(s, r) ==
    /\ up[s] /\ r # s /\ <<s, r>> \in Queries
    /\ net' = net \cup {MessageOf(s, r)}
    /\ UNCHANGED <<up, hostIP, timeVars, storeVars, lost>>

\* handleMessage for an ANNOUNCE or a RESPONSE, up to AddPeer: the write of the
\* file comes next. The time stamp of the message is not looked at. The
\* datagram may come again: setupMulticast joins the group on every interface.
HandleAnnouncement(m) ==
    /\ m \in net /\ up[m.to] /\ "listen" \notin due[m.to]
    /\ peers' = [peers EXCEPT ![m.to][m.from] = m.host]
    /\ age' = [age EXCEPT ![m.to][m.from] = 0]
    /\ due' = [due EXCEPT ![m.to] = @ \cup {"listen"}]
    /\ net' \in {net, net \ {m}}
    /\ UNCHANGED <<up, hostIP, timeVars, file, owed, lost>>

\* Mutant of Stale: the cleaner waits one more period.
StaleLater(s, p) ==
    peers[s][p] # NoHost /\ age[s][p] > Timeout + CleanupPeriod

Stale(s, p) == peers[s][p] # NoHost /\ age[s][p] > Timeout

\* Mutants of CleanupStale: the file is not written; a peer that has reached
\* the timeout is removed.
CleanupWithoutWrite(s) ==
    /\ up[s] /\ cleanup[s] = CleanupPeriod /\ "cleanup" \notin due[s]
    /\ cleanup' = [cleanup EXCEPT ![s] = 0]
    /\ peers' = [peers EXCEPT ![s] =
                    [p \in Stack |-> IF Stale(s, p) THEN NoHost ELSE @[p]]]
    /\ UNCHANGED <<up, since, hostIP, announce, age, fileVars, netVars>>

CleanupAtTimeout(s) ==
    LET Old(p) == peers[s][p] # NoHost /\ age[s][p] >= Timeout
    IN  /\ up[s] /\ cleanup[s] = CleanupPeriod /\ "cleanup" \notin due[s]
        /\ cleanup' = [cleanup EXCEPT ![s] = 0]
        /\ peers' = [peers EXCEPT ![s] =
                        [p \in Stack |-> IF Old(p) THEN NoHost ELSE @[p]]]
        /\ due' = [due EXCEPT ![s] = @ \cup {"cleanup"}]
        /\ UNCHANGED <<up, since, hostIP, announce, age, file, owed, netVars>>

\* cleanupLoop, up to CleanupStale. The age of a peer that is removed stays
\* until time goes on.
CleanupStale(s) ==
    /\ up[s] /\ cleanup[s] = CleanupPeriod /\ "cleanup" \notin due[s]
    /\ cleanup' = [cleanup EXCEPT ![s] = 0]
    /\ peers' = [peers EXCEPT ![s] =
                    [p \in Stack |-> IF Stale(s, p) THEN NoHost ELSE @[p]]]
    /\ due' = [due EXCEPT ![s] = @ \cup {"cleanup"}]
    /\ UNCHANGED <<up, since, hostIP, announce, age, file, owed, netVars>>

\* WriteDiscoveryFile, alone: it publishes the map, or fails, and the error is
\* only logged.
WriteDiscoveryFile(s, g) ==
    /\ g \in due[s]
    /\ due' = [due EXCEPT ![s] = @ \ {g}]
    /\ \/ /\ file' = [file EXCEPT ![s] = peers[s]]
          /\ owed' = [owed EXCEPT ![s] = FALSE]
       \/ s \in Faulty /\ UNCHANGED file /\ owed' = [owed EXCEPT ![s] = TRUE]
    /\ UNCHANGED <<up, hostIP, timeVars, peers, age, netVars>>

\* WriteDiscoveryFile, by both at once: the read lock lets them overlap.
OverlappingWrites(s) ==
    /\ s \in Faulty /\ due[s] = Goroutine
    /\ due' = [due EXCEPT ![s] = {}]
    /\ \E f \in {peers[s], Torn, file[s]} : file' = [file EXCEPT ![s] = f]
    /\ owed' = [owed EXCEPT ![s] = TRUE]
    /\ UNCHANGED <<up, hostIP, timeVars, peers, age, netVars>>

\* Time goes on when nothing is due.
Tick ==
    /\ \A s \in Stack :
        up[s] => announce[s] < Interval /\ cleanup[s] < CleanupPeriod /\ due[s] = {}
    /\ \A m \in net : m.late = MaxDelay => ~up[m.to]
    /\ since' = [s \in Stack |-> IF since[s] < Horizon(s) THEN since[s] + 1 ELSE since[s]]
    /\ announce' = [s \in Stack |->
                        IF up[s] THEN announce[s] + 1 ELSE announce[s]]
    /\ cleanup' = [s \in Stack |->
                        IF up[s] THEN cleanup[s] + 1 ELSE cleanup[s]]
    /\ age' = [s \in Stack |-> [p \in Stack |->
                    IF peers[s][p] # NoHost THEN age[s][p] + 1 ELSE 0]]
    /\ net' = {[m EXCEPT !.late = @ + 1] : m \in {n \in net : n.late < MaxDelay}}
    /\ UNCHANGED <<up, hostIP, peers, fileVars, lost>>

Next ==
    \/ \E s \in Stack : Start(s) \/ Stop(s) \/ SendAnnouncement(s) \/ CleanupStale(s)
    \/ \E s, r \in Stack : HandleQuery(s, r)
    \/ \E m \in net : HandleAnnouncement(m)
    \/ \E s \in Stack, g \in Goroutine : WriteDiscoveryFile(s, g)
    \/ \E s \in Stack : OverlappingWrites(s)
    \/ Tick

Spec == Init /\ [][Next]_vars

-----------------------------------------------------------------------------
(* Properties.                                                             *)

TypeOK ==
    /\ up \in [Stack -> BOOLEAN]
    /\ since \in [Stack -> Nat] /\ \A s \in Stack : since[s] <= Horizon(s)
    /\ hostIP \in Table
    /\ announce \in [Stack -> 0 .. Interval]
    /\ cleanup \in [Stack -> 0 .. CleanupPeriod]
    /\ peers \in [Stack -> Table]
    /\ age \in [Stack -> [Stack -> 0 .. Timeout + CleanupPeriod]]
    /\ due \in [Stack -> SUBSET Goroutine]
    /\ file \in [Stack -> Table \cup {Torn}]
    /\ owed \in [Stack -> BOOLEAN]
    /\ net \subseteq Message
    /\ lost \in [Stack -> [Stack -> 0 .. MaxLost + 1]]

\* The file of s can be relied on: the cleaner has come round since the start,
\* and the last write neither failed nor overlapped another.
Written(s) == up[s] /\ since[s] > CleanupPeriod /\ ~owed[s]

\* Once the last datagram that a stack sent from an address has aged out and the
\* cleaner has come round, nobody knows it under that address: if it has gone it
\* is not known, and if it has come back it is not known under where it was,
\* however much the network loses. Nor does a file list it there, except the
\* first of a restarted container and one whose last write failed or overlapped
\* (DESIGN.md:15, discovery.go:272-290, 339-354).
Departed ==
    \A s \in Stack : \A p \in Others(s) :
        since[p] > DepartTime =>
            /\ peers[s][p] \in {NoHost, hostIP[p]}
            /\ Written(s) => file[s][p] \in {NoHost, hostIP[p]}

\* Two stacks that have run long enough know each other, under the address the
\* other has now, if at most MaxLost announcements in a row were lost between
\* them: none that was delayed past a restart and overtaken by the next, and no
\* run of the cleaner leaves a running stack out for longer. The file lists it
\* too, at every moment, if its last write neither failed nor overlapped
\* (discovery.go:227-244, 272-290, 339-354). This is what the interval and the
\* timeout have to be chosen for.
TimeoutSuffices == (MaxLost + 1) * Interval + MaxDelay <= Timeout

Converged ==
    TimeoutSuffices =>
    \A s \in Stack : \A p \in Others(s) :
        /\ up[s] /\ since[s] > ConvergeTime
        /\ up[p] /\ since[p] > ConvergeTime
        /\ lost[p][s] <= MaxLost
        => /\ peers[s][p] = hostIP[p]
           /\ Written(s) => file[s][p] = hostIP[p]

\* A peer leaves the file only when the stack has not heard it for longer than
\* the timeout; otherwise it is in the first write after a restart, which knows
\* nobody yet, or in one that makes good for a write that failed or overlapped.
\* No announcement, late or doubled, of one stack ever costs another its entry,
\* however much is lost (file.go:67-77, 80-117; the map is not read back from
\* the file).
DroppedOnlyWhenSilent ==
    [][\A s \in Stack : \A p \in Others(s) :
         file[s][p] \in HostIP /\ file'[s][p] = NoHost /\ Written(s)
            => age[s][p] > Timeout]_vars

=============================================================================
