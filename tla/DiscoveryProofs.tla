-------------------------- MODULE DiscoveryProofs --------------------------
(***************************************************************************)
(* Theorems about Discovery, for any number of stacks and addresses and    *)
(* any interval, timeout, delay, network, queries and failing writes.      *)
(*                                                                         *)
(* Everything is derived from how long ago things happened. What has left  *)
(* a stack before it stopped or moved is at least that old (OldDatagrams,  *)
(* OldEntries): with the bound on ages this gives Departed. For Converged, *)
(* Elapsed is how long ago an announcement to a receiver was last not      *)
(* lost; since then it has been heard or is under way (HeardLast), and so  *)
(* has the one before it (HeardBefore). That is about the map; when time   *)
(* goes on the file has followed it (FileFollows), and between two ticks   *)
(* it can only become the map (Publication), which gives the same of the   *)
(* file (FilesDeparted, FilesConverged, FilesKept).                        *)
(***************************************************************************)
EXTENDS Discovery, TLAPS

\* The longest time between two announcements of one stack that another gets.
Gap == (MaxLost + 1) * Interval

\* How long ago p has sent its last announcement that s does not lose; longer
\* than p is up if there is none.
Elapsed(p, s) == lost[p][s] * Interval + announce[p]

\* A stack that is down has no address, no peers and no ticker.
DownIsEmpty ==
    \A s \in Stack :
        /\ up[s] => hostIP[s] \in HostIP
        /\ ~up[s] => hostIP[s] = NoHost /\ cleanup[s] = 0 /\ peers[s] = Empty

\* The cleaner removes what is older than the timeout when it comes round.
AgesBounded ==
    \A s, p \in Stack : peers[s][p] # NoHost => age[s][p] <= Timeout + cleanup[s]

\* When no write is due the file is what the map says, but for a process that
\* has not written yet or whose last write failed or overlapped.
FileFollows ==
    \A s \in Stack :
        up[s] /\ due[s] = {} =>
            \/ file[s] = peers[s] \/ owed[s]
            \/ since[s] <= cleanup[s] /\ peers[s] = Empty

\* A datagram with another address than its sender has now was sent before the
\* sender's last start or stop.
OldDatagrams ==
    \A m \in net : m.host # hostIP[m.from] => since[m.from] <= m.late

\* An entry with such an address was received before the sender's last start
\* or stop, or as late as a datagram may be.
OldEntries ==
    \A s, p \in Stack :
        peers[s][p] \notin {NoHost, hostIP[p]} => since[p] <= age[s][p] + MaxDelay

\* p is in the map of s, and was heard in the last x ticks.
HeardWithin(s, p, x) == peers[s][p] # NoHost /\ age[s][p] <= x

\* A datagram from p to s is under way that was sent between x and y ticks ago.
UnderWay(s, p, x, y) ==
    \E m \in net : m.from = p /\ m.to = s /\ x <= m.late /\ m.late <= y

\* Both run, and s has not lost more in a row of p than Converged allows for.
Linked(s, p) == up[s] /\ up[p] /\ lost[p][s] <= MaxLost

\* The last announcement of p that s has not lost, if s was up by then, is heard
\* or under way.
HeardLast(s, p) ==
    (Linked(s, p) /\ Elapsed(p, s) <= since[p] /\ Elapsed(p, s) < since[s]) =>
        \/ HeardWithin(s, p, Elapsed(p, s))
        \/ UnderWay(s, p, Elapsed(p, s), Elapsed(p, s))

\* And so is, looking back from x ticks ago, one within the longest gap.
HeardBefore(s, p) ==
    \A x \in 0 .. MaxDelay :
        (Linked(s, p) /\ Elapsed(p, s) <= x /\ x + Gap <= since[p] /\ x + Gap < since[s]) =>
            HeardWithin(s, p, x + Gap) \/ UnderWay(s, p, x + 1, x + Gap)

Heard == \A s \in Stack : \A p \in Others(s) : HeardLast(s, p) /\ HeardBefore(s, p)

SafeInv ==
    /\ TypeOK /\ DownIsEmpty /\ AgesBounded /\ FileFollows /\ OldDatagrams /\ OldEntries

\* What Departed, Converged and DroppedOnlyWhenSilent say of the file.
FilesDeparted ==
    \A s \in Stack : \A p \in Others(s) :
        Written(s) /\ since[p] > DepartTime => file[s][p] \in {NoHost, hostIP[p]}

FilesConverged ==
    \A s \in Stack : \A p \in Others(s) :
        /\ Written(s) /\ since[s] > ConvergeTime
        /\ Linked(s, p) /\ since[p] > ConvergeTime
        => file[s][p] = hostIP[p]

FilesKept ==
    \A s \in Stack : \A p \in Others(s) :
        Written(s) /\ file[s][p] \in HostIP /\ peers[s][p] = NoHost => age[s][p] > Timeout

DInv ==
    /\ SafeInv /\ FilesDeparted /\ FilesKept
    /\ TimeoutSuffices => Heard /\ FilesConverged

\* A write of the file of s, alone or not.
Writes(s) == OverlappingWrites(s) \/ \E g \in Goroutine : WriteDiscoveryFile(s, g)

-----------------------------------------------------------------------------
(* Arithmetic.                                                             *)

LEMMA Periods ==
    /\ CleanupPeriod \in Nat \ {0} /\ Gap \in Nat
    /\ UpHorizon \in Nat /\ DownHorizon \in Nat
    /\ ConvergeTime = Gap + 2 * MaxDelay /\ DepartTime = Timeout + CleanupPeriod + MaxDelay
    /\ ConvergeTime < UpHorizon /\ CleanupPeriod < UpHorizon
    /\ DepartTime < UpHorizon /\ DepartTime < DownHorizon
<1>1. CleanupPeriod \in Nat \ {0}
  BY TimeAssumption DEF CleanupPeriod
<1>2. (MaxLost + 1) * Interval \in Nat
  BY TimeAssumption
<1> QED
  BY <1>1, <1>2, TimeAssumption DEF Gap, UpHorizon, DownHorizon, ConvergeTime, DepartTime

\* An announcement after at most MaxLost losses closes the gap.
LEMMA GapClosed ==
    ASSUME NEW k \in 0 .. MaxLost, NEW a \in 0 .. Interval
    PROVE  k * Interval + a \in Nat /\ k * Interval + a <= Gap
<1>1. k * Interval \in Nat /\ (MaxLost - k) * Interval \in Nat
  BY TimeAssumption
<1>2. (MaxLost + 1) * Interval = k * Interval + (MaxLost - k) * Interval + Interval
  BY TimeAssumption
<1> QED
  BY <1>1, <1>2, TimeAssumption DEF Gap

LEMMA ElapsedType ==
    ASSUME TypeOK, NEW p \in Stack, NEW s \in Stack
    PROVE  Elapsed(p, s) \in Nat /\ (lost[p][s] <= MaxLost => Elapsed(p, s) <= Gap)
<1>1. /\ announce[p] \in 0 .. Interval /\ lost[p][s] \in Nat
      /\ lost[p][s] <= MaxLost => lost[p][s] \in 0 .. MaxLost
  BY TimeAssumption DEF TypeOK
<1>2. lost[p][s] * Interval \in Nat
  BY <1>1, TimeAssumption
<1> QED
  BY <1>1, <1>2, GapClosed DEF Elapsed

-----------------------------------------------------------------------------
(* Types.                                                                  *)

\* A process that starts or stops counts anew, under either horizon.
LEMMA SinceAnew ==
    ASSUME TypeOK, NEW s \in Stack, since' = [since EXCEPT ![s] = 0],
           \A r \in Stack \ {s} : up'[r] = up[r]
    PROVE  since' \in [Stack -> Nat] /\ \A r \in Stack : since'[r] <= Horizon(r)'
BY Periods DEF TypeOK, Horizon

LEMMA MessageType ==
    ASSUME TypeOK, DownIsEmpty, NEW s \in Stack, up[s], NEW r \in Stack
    PROVE  MessageOf(s, r) \in Message
BY TimeAssumption DEF DownIsEmpty, MessageOf, Message

LEMMA LostInARowType ==
    ASSUME NEW n \in 0 .. MaxLost + 1, NEW b \in BOOLEAN
    PROVE  LostInARow(n, b) \in 0 .. MaxLost + 1
BY TimeAssumption DEF LostInARow

LEMMA LostType ==
    ASSUME TypeOK, NEW s \in Stack, NEW Lose \in SUBSET Others(s),
           lost' = [lost EXCEPT ![s] =
                        [r \in Stack |-> LostInARow(@[r], up[r] /\ r \in Lose)]]
    PROVE  lost' \in [Stack -> [Stack -> 0 .. MaxLost + 1]]
<1>1. [r \in Stack |-> LostInARow(lost[s][r], up[r] /\ r \in Lose)]
        \in [Stack -> 0 .. MaxLost + 1]
  BY LostInARowType DEF TypeOK
<1> QED
  BY <1>1 DEF TypeOK

LEMMA CleanupTypes ==
    ASSUME TypeOK, NEW s \in Stack, CleanupStale(s)
    PROVE  peers' \in [Stack -> Table] /\ due' \in [Stack -> SUBSET Goroutine]
<1>1. [p \in Stack |-> IF Stale(s, p) THEN NoHost ELSE peers[s][p]] \in Table
  BY DEF TypeOK, Table
<1> QED
  BY <1>1 DEF CleanupStale, TypeOK, Goroutine

\* What a write leaves is a set of peers or a torn file.
LEMMA WriteTypes ==
    ASSUME TypeOK, NEW s \in Stack,
           Writes(s)
    PROVE  /\ due' \in [Stack -> SUBSET Goroutine] /\ owed' \in [Stack -> BOOLEAN]
           /\ file' \in [Stack -> Table \cup {Torn}]
<1>1. CASE OverlappingWrites(s)
  <2>1. PICK f \in {peers[s], Torn, file[s]} : file' = [file EXCEPT ![s] = f]
    BY <1>1 DEF OverlappingWrites
  <2>2. f \in Table \cup {Torn}
    BY DEF TypeOK
  <2> QED
    BY <1>1, <2>1, <2>2 DEF OverlappingWrites, TypeOK
<1>2. ASSUME NEW g \in Goroutine, WriteDiscoveryFile(s, g)
      PROVE  /\ due' \in [Stack -> SUBSET Goroutine] /\ owed' \in [Stack -> BOOLEAN]
             /\ file' \in [Stack -> Table \cup {Torn}]
  BY <1>2 DEF WriteDiscoveryFile, TypeOK
<1> QED
  BY <1>1, <1>2 DEF Writes

\* Time does not take an age past the next run of the cleaner.
LEMMA TickTypes ==
    ASSUME TypeOK, DownIsEmpty, AgesBounded, Tick
    PROVE  TypeOK'
<1>1. since' \in [Stack -> Nat] /\ \A s \in Stack : since'[s] <= Horizon(s)'
  <2>1. \A s \in Stack : Horizon(s)' = Horizon(s) /\ Horizon(s) \in Nat
    BY Periods DEF Tick, Horizon
  <2> QED
    BY <2>1 DEF Tick, TypeOK
<1>2. announce' \in [Stack -> 0 .. Interval] /\ cleanup' \in [Stack -> 0 .. CleanupPeriod]
  BY Periods, TimeAssumption DEF Tick, TypeOK
<1>3. age' \in [Stack -> [Stack -> 0 .. Timeout + CleanupPeriod]]
  <2>1. ASSUME NEW s \in Stack, NEW p \in Stack
        PROVE  (IF peers[s][p] # NoHost THEN age[s][p] + 1 ELSE 0)
                    \in 0 .. Timeout + CleanupPeriod
    <3>1. age[s][p] \in Nat /\ cleanup[s] \in 0 .. CleanupPeriod
      BY DEF TypeOK
    <3>2. peers[s][p] # NoHost => up[s] /\ cleanup[s] < CleanupPeriod
      BY DEF Tick, DownIsEmpty, Empty
    <3>3. peers[s][p] # NoHost => age[s][p] <= Timeout + cleanup[s]
      BY DEF AgesBounded
    <3> QED
      BY <3>1, <3>2, <3>3, Periods, TimeAssumption
  <2>2. ASSUME NEW s \in Stack
        PROVE  [p \in Stack |-> IF peers[s][p] # NoHost THEN age[s][p] + 1 ELSE 0]
                    \in [Stack -> 0 .. Timeout + CleanupPeriod]
    BY <2>1
  <2> QED
    BY <2>2 DEF Tick
<1>4. net' \subseteq Message
  <2>1. ASSUME NEW m \in net, m.late < MaxDelay PROVE [m EXCEPT !.late = @ + 1] \in Message
    <3>1. m \in Message
      BY DEF TypeOK
    <3> QED
      BY <2>1, <3>1, TimeAssumption DEF Message
  <2> QED
    BY <2>1 DEF Tick
<1> QED
  BY <1>1, <1>2, <1>3, <1>4 DEF Tick, TypeOK, fileVars

LEMMA TypeStep ==
    ASSUME TypeOK, DownIsEmpty, AgesBounded, [Next]_vars PROVE TypeOK'
<1> USE Periods, TimeAssumption
<1>1. ASSUME NEW s \in Stack, Start(s) PROVE TypeOK'
  <2>1. since' \in [Stack -> Nat] /\ \A r \in Stack : since'[r] <= Horizon(r)'
    BY <1>1, SinceAnew DEF Start, TypeOK
  <2> QED
    BY <1>1, <2>1 DEF Start, TypeOK, Table, storeVars, fileVars, netVars
<1>2. ASSUME NEW s \in Stack, Stop(s) PROVE TypeOK'
  <2>1. since' \in [Stack -> Nat] /\ \A r \in Stack : since'[r] <= Horizon(r)'
    BY <1>2, SinceAnew DEF Stop, TypeOK
  <2>2. /\ Empty \in Table /\ [p \in Stack |-> 0] \in [Stack -> 0 .. Timeout + CleanupPeriod]
    BY DEF Empty, Table
  <2>3. hostIP' \in Table
    BY <1>2 DEF Stop, TypeOK, Table
  <2>4. lost' \in [Stack -> [Stack -> 0 .. MaxLost + 1]]
    <3>1. \A p \in Stack : [r \in Stack |-> IF s \in {p, r} THEN 0 ELSE lost[p][r]]
                              \in [Stack -> 0 .. MaxLost + 1]
      BY DEF TypeOK
    <3> QED
      BY <1>2, <3>1 DEF Stop
  <2>5. file' \in [Stack -> Table \cup {Torn}]
    BY <1>2 DEF Stop, TypeOK
  <2>6. due' \in [Stack -> SUBSET Goroutine] /\ owed' \in [Stack -> BOOLEAN]
    BY <1>2 DEF Stop, TypeOK
  <2> QED
    BY <1>2, <2>1, <2>2, <2>3, <2>4, <2>5, <2>6 DEF Stop, TypeOK
<1>3. ASSUME NEW s \in Stack, SendAnnouncement(s) PROVE TypeOK'
  <2>1. lost' \in [Stack -> [Stack -> 0 .. MaxLost + 1]]
    BY <1>3, LostType DEF SendAnnouncement
  <2>2. net' \subseteq Message
    BY <1>3, MessageType DEF SendAnnouncement, Others, TypeOK
  <2>3. \A r \in Stack : Horizon(r)' = Horizon(r)
    BY <1>3 DEF SendAnnouncement, Horizon
  <2> QED
    BY <1>3, <2>1, <2>2, <2>3 DEF SendAnnouncement, TypeOK, storeVars, fileVars
<1>4. ASSUME NEW s \in Stack, CleanupStale(s) PROVE TypeOK'
  <2>1. \A r \in Stack : Horizon(r)' = Horizon(r)
    BY <1>4 DEF CleanupStale, Horizon
  <2>2. /\ UNCHANGED <<up, since, hostIP, announce, age, file, owed, net, lost>>
        /\ cleanup' \in [Stack -> 0 .. CleanupPeriod]
    BY <1>4 DEF CleanupStale, TypeOK, netVars
  <2> QED
    BY <2>1, <2>2, CleanupTypes, <1>4 DEF TypeOK
<1>5. ASSUME NEW s \in Stack, NEW r \in Stack, HandleQuery(s, r) PROVE TypeOK'
  <2>1. \A q \in Stack : Horizon(q)' = Horizon(q)
    BY <1>5 DEF HandleQuery, Horizon
  <2> QED
    BY <1>5, <2>1, MessageType DEF HandleQuery, TypeOK, storeVars, fileVars, timeVars
<1>6. ASSUME NEW m \in net, HandleAnnouncement(m) PROVE TypeOK'
  <2>1. m.to \in Stack /\ m.from \in Stack /\ m.host \in HostIP
    BY DEF TypeOK, Message
  <2>2. peers' \in [Stack -> Table]
    BY <1>6, <2>1 DEF HandleAnnouncement, TypeOK, Table
  <2>3. age' \in [Stack -> [Stack -> 0 .. Timeout + CleanupPeriod]]
    BY <1>6, <2>1 DEF HandleAnnouncement, TypeOK
  <2>4. \A r \in Stack : Horizon(r)' = Horizon(r)
    BY <1>6 DEF HandleAnnouncement, Horizon
  <2>5. due' \in [Stack -> SUBSET Goroutine]
    BY <1>6, <2>1 DEF HandleAnnouncement, TypeOK, Goroutine
  <2>6. /\ net' \subseteq net
        /\ UNCHANGED <<up, since, hostIP, announce, cleanup, file, owed, lost>>
    BY <1>6 DEF HandleAnnouncement, timeVars
  <2> QED
    BY <2>2, <2>3, <2>4, <2>5, <2>6 DEF TypeOK
<1>7. ASSUME NEW s \in Stack,
             Writes(s)
      PROVE  TypeOK'
  <2>1. UNCHANGED <<up, since, hostIP, announce, cleanup, peers, age, net, lost>>
    BY <1>7 DEF Writes, OverlappingWrites, WriteDiscoveryFile, timeVars, netVars
  <2>2. \A r \in Stack : Horizon(r)' = Horizon(r)
    BY <2>1 DEF Horizon
  <2> QED
    BY <1>7, <2>1, <2>2, WriteTypes DEF TypeOK
<1>8. CASE UNCHANGED vars
  BY <1>8 DEF vars, timeVars, storeVars, fileVars, netVars, TypeOK, Horizon
<1> QED
  BY <1>1, <1>2, <1>3, <1>4, <1>5, <1>6, <1>7, <1>8, TickTypes DEF Next, Writes

-----------------------------------------------------------------------------
(* What the steps do, pointwise.                                           *)

LEMMA TickMap ==
    ASSUME TypeOK, Tick
    PROVE  /\ \A s \in Stack : since'[s] \in {since[s], since[s] + 1}
           /\ \A s \in Stack : up[s] => /\ cleanup'[s] = cleanup[s] + 1
                                        /\ announce'[s] = announce[s] + 1
                                        /\ announce[s] < Interval
           /\ \A s \in Stack : ~up[s] => cleanup'[s] = cleanup[s]
           /\ \A s, p \in Stack :
                age'[s][p] = IF peers[s][p] # NoHost THEN age[s][p] + 1 ELSE 0
           /\ \A s \in Stack : up[s] => due[s] = {}
           /\ UNCHANGED <<up, hostIP, peers, due, file, owed, lost>>
BY DEF Tick, TypeOK, fileVars

\* The datagrams get older; only those to a stack that is down get lost by it.
LEMMA TickNet ==
    ASSUME TypeOK, Tick
    PROVE  /\ \A n \in net' : \E m \in net :
                /\ n.from = m.from /\ n.to = m.to /\ n.host = m.host
                /\ n.late = m.late + 1
           /\ \A m \in net : up[m.to] => \E n \in net' :
                /\ n.from = m.from /\ n.to = m.to /\ n.late = m.late + 1
<1>1. ASSUME NEW m \in net
      PROVE  /\ [m EXCEPT !.late = @ + 1].from = m.from
             /\ [m EXCEPT !.late = @ + 1].to = m.to
             /\ [m EXCEPT !.late = @ + 1].host = m.host
             /\ [m EXCEPT !.late = @ + 1].late = m.late + 1
  BY DEF TypeOK, Message
<1>2. ASSUME NEW n \in net' PROVE \E m \in net : n = [m EXCEPT !.late = @ + 1]
  BY DEF Tick
<1>3. ASSUME NEW m \in net, up[m.to] PROVE [m EXCEPT !.late = @ + 1] \in net'
  <2>1. m \in Message /\ m.late # MaxDelay
    BY <1>3 DEF Tick, TypeOK
  <2>2. m.late < MaxDelay
    BY <2>1, TimeAssumption DEF Message
  <2> QED
    BY <2>2 DEF Tick
<1> QED
  BY <1>1, <1>2, <1>3

LEMMA HandleMap ==
    ASSUME TypeOK, NEW m \in net, HandleAnnouncement(m)
    PROVE  /\ m.to \in Stack /\ m.from \in Stack /\ m.host \in HostIP /\ up[m.to]
           /\ \A s, p \in Stack :
                IF s = m.to /\ p = m.from THEN peers'[s][p] = m.host /\ age'[s][p] = 0
                ELSE peers'[s][p] = peers[s][p] /\ age'[s][p] = age[s][p]
           /\ \A s \in Stack \ {m.to} : peers'[s] = peers[s] /\ due'[s] = due[s]
           /\ due'[m.to] # {}
           /\ net' \subseteq net /\ net \ {m} \subseteq net'
           /\ UNCHANGED <<up, since, hostIP, announce, cleanup, file, owed, lost>>
<1>1. m.to \in Stack /\ m.from \in Stack /\ m.host \in HostIP
  BY DEF TypeOK, Message
<1> QED
  BY <1>1 DEF HandleAnnouncement, TypeOK, Table, timeVars

LEMMA CleanupMap ==
    ASSUME TypeOK, NEW s \in Stack, CleanupStale(s)
    PROVE  /\ up[s] /\ cleanup[s] = CleanupPeriod /\ cleanup'[s] = 0
           /\ \A p \in Stack :
                peers'[s][p] = IF Stale(s, p) THEN NoHost ELSE peers[s][p]
           /\ \A r \in Stack \ {s} :
                peers'[r] = peers[r] /\ due'[r] = due[r] /\ cleanup'[r] = cleanup[r]
           /\ due'[s] # {}
           /\ UNCHANGED <<up, since, hostIP, announce, age, file, owed, net, lost>>
BY DEF CleanupStale, TypeOK, netVars

\* A write, alone or not.
LEMMA WriteMap ==
    ASSUME TypeOK, NEW s \in Stack,
           Writes(s)
    PROVE  /\ file'[s] \in {peers[s], Torn, file[s]}
           /\ owed'[s] \/ file'[s] = peers[s]
           /\ \A r \in Stack \ {s} :
                file'[r] = file[r] /\ owed'[r] = owed[r] /\ due'[r] = due[r]
           /\ UNCHANGED <<up, since, hostIP, announce, cleanup, peers, age, net, lost>>
BY DEF Writes, OverlappingWrites, WriteDiscoveryFile, TypeOK, timeVars, netVars

\* An announcement or an answer changes nothing but the network.
LEMMA SendMap ==
    ASSUME TypeOK, NEW s \in Stack,
           SendAnnouncement(s) \/ \E r \in Stack : HandleQuery(s, r)
    PROVE  /\ up[s] /\ net \subseteq net'
           /\ \A m \in net' \ net : m.from = s /\ m.host = hostIP[s] /\ m.late = 0
           /\ UNCHANGED <<up, since, hostIP, cleanup, peers, age, due, file, owed>>
<1>1. CASE SendAnnouncement(s)
  <2>1. PICK Lose \in SUBSET Others(s) :
            net' = net \cup {MessageOf(s, r) : r \in Others(s) \ Lose}
    BY <1>1 DEF SendAnnouncement
  <2>2. \A m \in net' \ net : m.from = s /\ m.host = hostIP[s] /\ m.late = 0
    BY <2>1 DEF MessageOf
  <2> QED
    BY <1>1, <2>1, <2>2 DEF SendAnnouncement, storeVars, fileVars
<1>2. ASSUME NEW r \in Stack, HandleQuery(s, r)
      PROVE  /\ up[s] /\ net' = net \cup {MessageOf(s, r)}
             /\ UNCHANGED <<up, since, hostIP, cleanup, peers, age, due, file, owed>>
  BY <1>2 DEF HandleQuery, storeVars, fileVars, timeVars
<1> QED
  BY <1>1, <1>2 DEF MessageOf

LEMMA StartMap ==
    ASSUME TypeOK, NEW s \in Stack, Start(s)
    PROVE  /\ ~up[s] /\ up'[s] /\ since'[s] = 0 /\ hostIP'[s] \in HostIP
           /\ \A r \in Stack \ {s} : /\ up'[r] = up[r] /\ since'[r] = since[r]
                                     /\ hostIP'[r] = hostIP[r] /\ announce'[r] = announce[r]
           /\ UNCHANGED <<cleanup, peers, age, due, file, owed, net, lost>>
BY DEF Start, TypeOK, Table, storeVars, fileVars, netVars

LEMMA StopMap ==
    ASSUME TypeOK, NEW s \in Stack, Stop(s)
    PROVE  /\ ~up'[s] /\ since'[s] = 0 /\ hostIP'[s] = NoHost /\ cleanup'[s] = 0
           /\ peers'[s] = Empty /\ \A p \in Stack : age'[s][p] = 0
           /\ \A r \in Stack \ {s} :
                /\ up'[r] = up[r] /\ since'[r] = since[r] /\ hostIP'[r] = hostIP[r]
                /\ announce'[r] = announce[r] /\ cleanup'[r] = cleanup[r]
                /\ peers'[r] = peers[r] /\ age'[r] = age[r]
                /\ due'[r] = due[r] /\ owed'[r] = owed[r] /\ file'[r] = file[r]
                /\ \A q \in Stack \ {s} : lost'[r][q] = lost[r][q]
           /\ file'[s] \in {file[s], Torn}
           /\ net' = net
BY DEF Stop, TypeOK, Table

-----------------------------------------------------------------------------
(* Departure.                                                              *)

\* The conjuncts of SafeInv step by step; each action disturbs a few.
LEMMA DownStep ==
    ASSUME SafeInv, [Next]_vars PROVE DownIsEmpty'
<1> USE DEF SafeInv
<1>1. ASSUME NEW s \in Stack, Start(s) PROVE DownIsEmpty'
  BY <1>1, StartMap DEF DownIsEmpty
<1>2. ASSUME NEW s \in Stack, Stop(s) PROVE DownIsEmpty'
  BY <1>2, StopMap DEF DownIsEmpty
<1>3. ASSUME NEW s \in Stack, SendAnnouncement(s) \/ \E r \in Stack : HandleQuery(s, r)
      PROVE  DownIsEmpty'
  BY <1>3, SendMap DEF DownIsEmpty
<1>4. ASSUME NEW s \in Stack, CleanupStale(s) PROVE DownIsEmpty'
  BY <1>4, CleanupMap DEF DownIsEmpty
<1>5. ASSUME NEW m \in net, HandleAnnouncement(m) PROVE DownIsEmpty'
  BY <1>5, HandleMap DEF DownIsEmpty
<1>6. CASE Tick
  BY <1>6, TickMap DEF DownIsEmpty
<1>7. ASSUME NEW s \in Stack, Writes(s) PROVE DownIsEmpty'
  BY <1>7, WriteMap DEF DownIsEmpty
<1>8. CASE UNCHANGED vars
  BY <1>8 DEF vars, timeVars, storeVars, fileVars, netVars, DownIsEmpty
<1> QED
  BY <1>1, <1>2, <1>3, <1>4, <1>5, <1>6, <1>7, <1>8 DEF Next, Writes

LEMMA AgesStep ==
    ASSUME SafeInv, [Next]_vars PROVE AgesBounded'
<1> USE Periods, TimeAssumption DEF SafeInv
<1>1. ASSUME NEW s \in Stack, Start(s) PROVE AgesBounded'
  BY <1>1, StartMap DEF AgesBounded
<1>2. ASSUME NEW s \in Stack, Stop(s) PROVE AgesBounded'
  BY <1>2, StopMap DEF AgesBounded, Empty
<1>3. ASSUME NEW s \in Stack, SendAnnouncement(s) \/ \E r \in Stack : HandleQuery(s, r)
      PROVE  AgesBounded'
  BY <1>3, SendMap DEF AgesBounded
<1>4. ASSUME NEW s \in Stack, CleanupStale(s) PROVE AgesBounded'
  <2>1. ASSUME NEW p \in Stack, peers'[s][p] # NoHost
        PROVE  age'[s][p] <= Timeout + cleanup'[s]
    <3>1. cleanup'[s] = 0 /\ age' = age /\ ~Stale(s, p) /\ peers[s][p] # NoHost
      BY <1>4, <2>1, CleanupMap
    <3>2. age[s][p] \in Nat
      BY DEF TypeOK
    <3> QED
      BY <3>1, <3>2 DEF Stale
  <2> QED
    BY <1>4, <2>1, CleanupMap DEF AgesBounded
<1>5. ASSUME NEW m \in net, HandleAnnouncement(m) PROVE AgesBounded'
  <2>1. \A s \in Stack : cleanup[s] \in Nat
    BY DEF TypeOK
  <2>2. ASSUME NEW s \in Stack, NEW p \in Stack, peers'[s][p] # NoHost
        PROVE  age'[s][p] = 0 \/ age'[s][p] <= Timeout + cleanup[s]
    BY <1>5, <2>2, HandleMap DEF AgesBounded
  <2>3. cleanup' = cleanup
    BY <1>5, HandleMap
  <2> QED
    BY <2>1, <2>2, <2>3 DEF AgesBounded
<1>6. CASE Tick
  <2>1. \A s \in Stack : ~up[s] => peers[s] = Empty
    BY DEF DownIsEmpty
  <2> QED
    BY <1>6, <2>1, TickMap DEF AgesBounded, TypeOK, Empty
<1>7. ASSUME NEW s \in Stack, Writes(s) PROVE AgesBounded'
  BY <1>7, WriteMap DEF AgesBounded
<1>8. CASE UNCHANGED vars
  BY <1>8 DEF vars, timeVars, storeVars, fileVars, netVars, AgesBounded
<1> QED
  BY <1>1, <1>2, <1>3, <1>4, <1>5, <1>6, <1>7, <1>8 DEF Next, Writes

LEMMA FileStep ==
    ASSUME SafeInv, [Next]_vars PROVE FileFollows'
<1> USE DEF SafeInv
<1>1. ASSUME NEW s \in Stack, Start(s) PROVE FileFollows'
  BY <1>1, StartMap DEF FileFollows, DownIsEmpty
<1>2. ASSUME NEW s \in Stack, Stop(s) PROVE FileFollows'
  BY <1>2, StopMap DEF FileFollows
<1>3. ASSUME NEW s \in Stack, SendAnnouncement(s) \/ \E r \in Stack : HandleQuery(s, r)
      PROVE  FileFollows'
  BY <1>3, SendMap DEF FileFollows
<1>4. ASSUME NEW s \in Stack, CleanupStale(s) PROVE FileFollows'
  BY <1>4, CleanupMap DEF FileFollows
<1>5. ASSUME NEW m \in net, HandleAnnouncement(m) PROVE FileFollows'
  BY <1>5, HandleMap DEF FileFollows
<1>6. CASE Tick
  <2> SUFFICES ASSUME NEW s \in Stack, up[s], file[s] # peers[s], ~owed[s]
               PROVE  since'[s] <= cleanup'[s] /\ peers[s] = Empty
    BY <1>6, TickMap DEF FileFollows
  <2>1. since[s] <= cleanup[s] /\ peers[s] = Empty
    BY <1>6, TickMap DEF FileFollows
  <2>2. since'[s] \in {since[s], since[s] + 1} /\ cleanup'[s] = cleanup[s] + 1
    BY <1>6, TickMap
  <2>3. since[s] \in Nat /\ cleanup[s] \in Nat
    BY DEF TypeOK
  <2> QED
    BY <2>1, <2>2, <2>3
<1>7. ASSUME NEW s \in Stack, Writes(s) PROVE FileFollows'
  BY <1>7, WriteMap DEF FileFollows
<1>8. CASE UNCHANGED vars
  BY <1>8 DEF vars, timeVars, storeVars, fileVars, netVars, FileFollows
<1> QED
  BY <1>1, <1>2, <1>3, <1>4, <1>5, <1>6, <1>7, <1>8 DEF Next, Writes

LEMMA DatagramStep ==
    ASSUME SafeInv, [Next]_vars PROVE OldDatagrams'
<1> USE DEF SafeInv
<1>0. \A m \in net : m.from \in Stack /\ m.late \in Nat /\ m.host \in HostIP
  BY TimeAssumption DEF TypeOK, Message
<1>1. ASSUME NEW s \in Stack, Start(s) PROVE OldDatagrams'
  BY <1>0, <1>1, StartMap DEF OldDatagrams
<1>2. ASSUME NEW s \in Stack, Stop(s) PROVE OldDatagrams'
  BY <1>0, <1>2, StopMap DEF OldDatagrams
<1>3. ASSUME NEW s \in Stack, SendAnnouncement(s) \/ \E r \in Stack : HandleQuery(s, r)
      PROVE  OldDatagrams'
  BY <1>3, SendMap DEF OldDatagrams
<1>4. ASSUME NEW s \in Stack, CleanupStale(s) PROVE OldDatagrams'
  BY <1>4, CleanupMap DEF OldDatagrams
<1>5. ASSUME NEW m \in net, HandleAnnouncement(m) PROVE OldDatagrams'
  BY <1>5, HandleMap DEF OldDatagrams
<1>6. CASE Tick
  <2> SUFFICES ASSUME NEW n \in net', n.host # hostIP'[n.from]
               PROVE  since'[n.from] <= n.late
    BY DEF OldDatagrams
  <2>1. PICK m \in net : n.from = m.from /\ n.host = m.host /\ n.late = m.late + 1
    BY <1>6, TickNet
  <2>2. since[m.from] <= m.late /\ m.from \in Stack /\ m.late \in Nat
    BY <1>0, <1>6, <2>1, TickMap DEF OldDatagrams
  <2>3. since[m.from] \in Nat /\ since'[m.from] \in {since[m.from], since[m.from] + 1}
    BY <1>6, <2>2, TickMap DEF TypeOK
  <2> QED
    BY <2>1, <2>2, <2>3
<1>7. ASSUME NEW s \in Stack, Writes(s) PROVE OldDatagrams'
  BY <1>7, WriteMap DEF OldDatagrams
<1>8. CASE UNCHANGED vars
  BY <1>8 DEF vars, timeVars, storeVars, fileVars, netVars, OldDatagrams
<1> QED
  BY <1>1, <1>2, <1>3, <1>4, <1>5, <1>6, <1>7, <1>8 DEF Next, Writes

LEMMA EntryStep ==
    ASSUME SafeInv, [Next]_vars PROVE OldEntries'
<1> USE TimeAssumption DEF SafeInv
<1>0. \A s, p \in Stack : since[p] \in Nat /\ age[s][p] \in Nat
  BY DEF TypeOK
<1>1. ASSUME NEW s \in Stack, Start(s) PROVE OldEntries'
  BY <1>0, <1>1, StartMap DEF OldEntries
<1>2. ASSUME NEW s \in Stack, Stop(s) PROVE OldEntries'
  <2>1. \A p \in Stack : peers'[s][p] = NoHost
    BY <1>2, StopMap DEF Empty
  <2> QED
    BY <1>0, <1>2, <2>1, StopMap DEF OldEntries
<1>3. ASSUME NEW s \in Stack, SendAnnouncement(s) \/ \E r \in Stack : HandleQuery(s, r)
      PROVE  OldEntries'
  BY <1>3, SendMap DEF OldEntries
<1>4. ASSUME NEW s \in Stack, CleanupStale(s) PROVE OldEntries'
  BY <1>4, CleanupMap DEF OldEntries
<1>5. ASSUME NEW m \in net, HandleAnnouncement(m) PROVE OldEntries'
  <2>1. m.host # hostIP[m.from] => since[m.from] <= MaxDelay
    BY DEF OldDatagrams, TypeOK, Message
  <2> QED
    BY <1>5, <2>1, HandleMap DEF OldEntries
<1>6. CASE Tick
  <2>1. \A s \in Stack : ~up[s] => peers[s] = Empty
    BY DEF DownIsEmpty
  <2> QED
    <3> SUFFICES ASSUME NEW s \in Stack, NEW p \in Stack,
                        peers'[s][p] \notin {NoHost, hostIP'[p]}
                 PROVE  since'[p] <= age'[s][p] + MaxDelay
      BY DEF OldEntries
    <3>1. peers[s][p] \notin {NoHost, hostIP[p]} /\ up[s]
      BY <1>6, <2>1, TickMap DEF Empty
    <3>2. age'[s][p] = age[s][p] + 1 /\ since'[p] \in {since[p], since[p] + 1}
      BY <1>6, <3>1, TickMap
    <3> QED
      BY <1>0, <3>1, <3>2 DEF OldEntries
<1>7. ASSUME NEW s \in Stack, Writes(s) PROVE OldEntries'
  BY <1>7, WriteMap DEF OldEntries
<1>8. CASE UNCHANGED vars
  BY <1>8 DEF vars, timeVars, storeVars, fileVars, netVars, OldEntries
<1> QED
  BY <1>1, <1>2, <1>3, <1>4, <1>5, <1>6, <1>7, <1>8 DEF Next, Writes

LEMMA SafeInit == Init => SafeInv
<1> SUFFICES ASSUME Init PROVE SafeInv
  OBVIOUS
<1>1. Empty \in Table /\ [p \in Stack |-> 0] \in [Stack -> 0 .. Timeout + CleanupPeriod]
      /\ [r \in Stack |-> 0] \in [Stack -> 0 .. MaxLost + 1]
  BY Periods, TimeAssumption DEF Empty, Table
<1>2. since \in [Stack -> Nat] /\ \A s \in Stack : since[s] <= Horizon(s)
  BY Periods DEF Init, Horizon
<1>3. TypeOK
  BY <1>1, <1>2, Periods, TimeAssumption DEF Init, TypeOK
<1>4. DownIsEmpty /\ FileFollows /\ OldDatagrams
  BY DEF Init, DownIsEmpty, FileFollows, OldDatagrams, Empty
<1>5. AgesBounded /\ OldEntries
  BY DEF Init, AgesBounded, OldEntries, Empty
<1> QED
  BY <1>3, <1>4, <1>5 DEF SafeInv

LEMMA SafeStep == SafeInv /\ [Next]_vars => SafeInv'
BY TypeStep, DownStep, AgesStep, FileStep, DatagramStep, EntryStep DEF SafeInv

LEMMA SafeAlways == Spec => []SafeInv
BY SafeInit, SafeStep, PTL DEF Spec

-----------------------------------------------------------------------------
\* Types; in particular no age passes the timeout by more than one period of
\* the cleaner, and what the map, the file and the network hold are addresses.
THEOREM TypeCorrect == Spec => []TypeOK
<1>1. SafeInv => TypeOK
  BY DEF SafeInv
<1> QED
  BY <1>1, SafeAlways, PTL

LEMMA MapDeparted ==
    ASSUME SafeInv, NEW s \in Stack, NEW p \in Others(s), since[p] > DepartTime
    PROVE  peers[s][p] \in {NoHost, hostIP[p]}
<1> SUFFICES ASSUME peers[s][p] \notin {NoHost, hostIP[p]} PROVE FALSE
  OBVIOUS
<1>1. /\ p \in Stack /\ since[p] \in Nat /\ age[s][p] \in Nat
      /\ cleanup[s] \in 0 .. CleanupPeriod
  BY DEF SafeInv, TypeOK, Others
<1>2. age[s][p] <= Timeout + CleanupPeriod
  BY <1>1, Periods, TimeAssumption DEF SafeInv, AgesBounded
<1>3. since[p] <= age[s][p] + MaxDelay
  BY <1>1 DEF SafeInv, OldEntries
<1> QED
  BY <1>1, <1>2, <1>3, Periods, TimeAssumption

\* Once too many announcements in a row are lost, that stays so until one of
\* the two stops.
LEMMA LostStays ==
    ASSUME TypeOK, NEW r \in Stack, SendAnnouncement(r), NEW p \in Stack, NEW s \in Stack,
           lost'[p][s] <= MaxLost
    PROVE  /\ lost[p][s] <= MaxLost
           /\ p = r /\ up[s] => \E Lose \in SUBSET Others(p) :
                /\ net' = net \cup {MessageOf(p, q) : q \in Others(p) \ Lose}
                /\ lost'[p][s] = IF s \in Lose THEN lost[p][s] + 1 ELSE 0
<1>1. PICK Lose \in SUBSET Others(r) :
        /\ net' = net \cup {MessageOf(r, q) : q \in Others(r) \ Lose}
        /\ lost' = [lost EXCEPT ![r] =
                        [q \in Stack |-> LostInARow(@[q], up[q] /\ q \in Lose)]]
  BY DEF SendAnnouncement
<1>2. CASE p # r
  BY <1>1, <1>2 DEF TypeOK
<1>3. CASE p = r
  <2>1. lost'[p][s] = LostInARow(lost[p][s], up[s] /\ s \in Lose) /\ lost[p][s] \in Nat
    BY <1>1, <1>3 DEF TypeOK
  <2>2. lost[p][s] <= MaxLost /\ lost'[p][s] = IF up[s] /\ s \in Lose THEN lost[p][s] + 1 ELSE 0
    BY <2>1, TimeAssumption DEF LostInARow
  <2> QED
    BY <1>1, <1>3, <2>2
<1> QED
  BY <1>2, <1>3

\* What a step does to a file that can be relied on after it: the file becomes
\* the map; or it could be relied on before, and stays, a stack that is removed
\* from the map has been silent, and only a stack that starts or stops changes.
LEMMA Publication ==
    ASSUME SafeInv, SafeInv', [Next]_vars, NEW s \in Stack, Written(s)'
    PROVE  \/ file'[s] = peers'[s]
           \/ /\ Written(s) /\ UNCHANGED <<file[s], since[s]>>
              /\ \A p \in Others(s) :
                    \/ since'[p] = 0
                    \/ /\ UNCHANGED <<up[p], since[p], hostIP[p]>>
                       /\ lost'[p][s] <= MaxLost => lost[p][s] <= MaxLost
              /\ \A p \in Others(s) : peers'[s][p] = NoHost =>
                    UNCHANGED age[s][p] /\ (peers[s][p] = NoHost \/ age[s][p] > Timeout)
<1> DEFINE Kept ==
        /\ Written(s) /\ UNCHANGED <<file[s], since[s]>>
        /\ \A p \in Others(s) :
              \/ since'[p] = 0
              \/ /\ UNCHANGED <<up[p], since[p], hostIP[p]>>
                 /\ lost'[p][s] <= MaxLost => lost[p][s] <= MaxLost
        /\ \A p \in Others(s) : peers'[s][p] = NoHost =>
              UNCHANGED age[s][p] /\ (peers[s][p] = NoHost \/ age[s][p] > Timeout)
<1>0. /\ TypeOK /\ TypeOK' /\ \A p \in Others(s) : p \in Stack /\ p # s
      /\ up'[s] /\ since'[s] > CleanupPeriod /\ ~owed'[s]
      /\ since'[s] \in Nat /\ since'[s] # 0
  BY Periods DEF SafeInv, Others, Written, TypeOK
<1>1. ASSUME NEW r \in Stack, Start(r) PROVE Kept
  <2>1. r # s
    BY <1>0, <1>1, StartMap
  <2> QED
    BY <1>0, <1>1, <2>1, StartMap DEF Written
<1>2. ASSUME NEW r \in Stack, Stop(r) PROVE Kept
  <2>1. r # s
    BY <1>0, <1>2, StopMap
  <2> QED
    BY <1>0, <1>2, <2>1, StopMap DEF Written
<1>3. ASSUME NEW r \in Stack, SendAnnouncement(r) PROVE Kept
  <2>1. UNCHANGED <<up, since, hostIP, peers, age, file, owed>>
    BY <1>0, <1>3, SendMap
  <2>2. \A p \in Stack : lost'[p][s] <= MaxLost => lost[p][s] <= MaxLost
    BY <1>0, <1>3, LostStays
  <2> QED
    BY <1>0, <2>1, <2>2 DEF Written
<1>4. ASSUME NEW r \in Stack, NEW q \in Stack, HandleQuery(r, q) PROVE Kept
  BY <1>0, <1>4 DEF HandleQuery, storeVars, fileVars, timeVars, Written
<1>5. ASSUME NEW r \in Stack, CleanupStale(r) PROVE Kept
  <2>1. /\ UNCHANGED <<up, since, hostIP, age, file, owed, lost>>
        /\ \A p \in Stack : peers'[s][p] = NoHost => peers[s][p] = NoHost \/ Stale(s, p)
    BY <1>0, <1>5, CleanupMap
  <2> QED
    BY <1>0, <2>1 DEF Written, Stale
<1>6. ASSUME NEW m \in net, HandleAnnouncement(m) PROVE Kept
  <2>1. /\ UNCHANGED <<up, since, hostIP, file, owed, lost>>
        /\ \A p \in Stack : peers'[s][p] = NoHost =>
                peers[s][p] = NoHost /\ age'[s][p] = age[s][p]
    BY <1>0, <1>6, HandleMap, HostAssumption
  <2> QED
    BY <1>0, <2>1 DEF Written
<1>7. ASSUME NEW r \in Stack, Writes(r) PROVE file'[s] = peers'[s] \/ Kept
  <2>1. CASE r = s
    BY <1>0, <1>7, <2>1, WriteMap
  <2>2. CASE r # s
    BY <1>0, <1>7, <2>2, WriteMap DEF Written
  <2> QED
    BY <2>1, <2>2
<1>8. CASE Tick
  <2>1. due'[s] = {} /\ cleanup'[s] \in 0 .. CleanupPeriod
    BY <1>0, <1>8, TickMap DEF TypeOK
  <2> QED
    BY <1>0, <2>1, Periods DEF SafeInv, FileFollows
<1>9. CASE UNCHANGED vars
  BY <1>0, <1>9 DEF vars, timeVars, storeVars, fileVars, netVars, Written
<1> QED
  BY <1>1, <1>2, <1>3, <1>4, <1>5, <1>6, <1>7, <1>8, <1>9 DEF Next, Writes

LEMMA FilesDepartedStep ==
    ASSUME SafeInv, SafeInv', FilesDeparted, [Next]_vars PROVE FilesDeparted'
<1> SUFFICES ASSUME NEW s \in Stack, NEW p \in Others(s), Written(s)', since'[p] > DepartTime'
             PROVE  file'[s][p] \in {NoHost, hostIP'[p]}
  BY DEF FilesDeparted, Others
<1>1. p \in Stack /\ DepartTime' = DepartTime /\ DepartTime \in Nat /\ since'[p] # 0
  BY Periods, TimeAssumption DEF Others, DepartTime
<1>2. peers'[s][p] \in {NoHost, hostIP'[p]}
  <2>1. since'[p] <= age'[s][p] + MaxDelay \/ peers'[s][p] \in {NoHost, hostIP'[p]}
    BY <1>1 DEF SafeInv, OldEntries
  <2>2. peers'[s][p] # NoHost => age'[s][p] <= Timeout + cleanup'[s]
    BY <1>1 DEF SafeInv, AgesBounded
  <2>3. /\ age'[s][p] \in Nat /\ cleanup'[s] \in 0 .. CleanupPeriod /\ since'[p] \in Nat
    BY <1>1 DEF SafeInv, TypeOK, CleanupPeriod
  <2> QED
    BY <1>1, <2>1, <2>2, <2>3, Periods, TimeAssumption
<1> QED
  BY <1>1, <1>2, Publication DEF FilesDeparted

LEMMA FilesKeptStep ==
    ASSUME SafeInv, SafeInv', FilesKept, [Next]_vars PROVE FilesKept'
<1> SUFFICES ASSUME NEW s \in Stack, NEW p \in Others(s), Written(s)',
                    file'[s][p] \in HostIP, peers'[s][p] = NoHost
             PROVE  age'[s][p] > Timeout
  BY DEF FilesKept, Others
<1>1. file'[s] # peers'[s]
  BY HostAssumption
<1> QED
  BY <1>1, Publication DEF FilesKept

LEMMA FilesAlways == Spec => [](SafeInv /\ FilesDeparted /\ FilesKept)
<1>1. Init => FilesDeparted /\ FilesKept
  BY DEF Init, FilesDeparted, FilesKept, Written
<1> QED
  BY <1>1, SafeInit, SafeStep, FilesDepartedStep, FilesKeptStep, PTL DEF Spec

\* Among any number of stacks, one that has gone or moved is in nobody's map
\* under its old address after the timeout, one period of the cleaner and the
\* longest delay, whatever is lost; and in nobody's file whose last write neither
\* failed nor overlapped another.
THEOREM DepartedCorrect == Spec => []Departed
<1>1. SafeInv /\ FilesDeparted => Departed
  BY MapDeparted DEF Departed, FilesDeparted
<1> QED
  BY <1>1, FilesAlways, PTL

\* A step that takes a peer out of a file that can be relied on has a reason.
LEMMA DroppedForAReason ==
    ASSUME SafeInv, FilesKept, Next, NEW s \in Stack, NEW p \in Others(s),
           file[s][p] \in HostIP, file'[s][p] = NoHost, Written(s)
    PROVE  age[s][p] > Timeout
<1>1. /\ TypeOK /\ p \in Stack /\ file'[s] # file[s]
      /\ Torn[p] # NoHost
  BY HostAssumption DEF SafeInv, Others, Torn
<1>2. ASSUME NEW r \in Stack, Writes(r) PROVE peers[s][p] = NoHost
  BY <1>1, <1>2, WriteMap
<1>3. ASSUME NEW r \in Stack,
             \/ Start(r) \/ Stop(r) \/ SendAnnouncement(r) \/ CleanupStale(r)
             \/ \E q \in Stack : HandleQuery(r, q)
      PROVE  FALSE
  BY <1>1, <1>3, StartMap, StopMap, SendMap, CleanupMap
<1>4. ASSUME NEW m \in net, HandleAnnouncement(m) PROVE FALSE
  BY <1>1, <1>4, HandleMap
<1>5. Tick => FALSE
  BY <1>1, TickMap
<1> QED
  BY <1>2, <1>3, <1>4, <1>5 DEF Next, Writes, FilesKept

\* No announcement, late or doubled, of any stack costs another its entry in the
\* file, whatever is lost; a peer leaves it after the timeout, or in a write that
\* makes good for one that failed, overlapped or was never made.
THEOREM DroppedCorrect == Spec => DroppedOnlyWhenSilent
<1>1. SafeInv /\ FilesKept /\ [Next]_vars =>
        [\A s \in Stack : \A p \in Others(s) :
            file[s][p] \in HostIP /\ file'[s][p] = NoHost /\ Written(s)
                => age[s][p] > Timeout]_vars
  BY DroppedForAReason
<1> QED
  BY <1>1, FilesAlways, PTL DEF Spec, DroppedOnlyWhenSilent

-----------------------------------------------------------------------------
(* Convergence.                                                            *)

\* A step that does not touch the pair keeps what is heard or under way.
LEMMA QuietPair ==
    ASSUME NEW s \in Stack, NEW p \in Others(s), HeardLast(s, p), HeardBefore(s, p), TypeOK,
           Linked(s, p)' => /\ Linked(s, p) /\ Elapsed(p, s)' = Elapsed(p, s)
                            /\ since'[s] = since[s] /\ since'[p] = since[p],
           \A x \in 0 .. Gap + MaxDelay : HeardWithin(s, p, x) => HeardWithin(s, p, x)',
           \A m \in net : m.from = p /\ m.to = s => m \in net'
    PROVE  HeardLast(s, p)' /\ HeardBefore(s, p)'
<1>1. p \in Stack
  BY DEF Others
<1>2. \A x, y : UnderWay(s, p, x, y) => UnderWay(s, p, x, y)'
  BY DEF UnderWay
<1>3. HeardLast(s, p)'
  <2>1. Linked(s, p) => Elapsed(p, s) \in 0 .. Gap + MaxDelay
    BY <1>1, ElapsedType, Periods, TimeAssumption DEF Linked
  <2> QED
    BY <1>2, <2>1 DEF HeardLast
<1>4. HeardBefore(s, p)'
  <2>1. \A x \in 0 .. MaxDelay : x + Gap \in 0 .. Gap + MaxDelay
    BY Periods, TimeAssumption
  <2> QED
    BY <1>2, <2>1 DEF HeardBefore
<1> QED
  BY <1>3, <1>4

\* A pair of which one has just started claims nothing yet.
LEMMA NewPair ==
    ASSUME NEW s \in Stack, NEW p \in Others(s), TypeOK',
           since'[s] = 0 \/ (since'[p] = 0 /\ announce'[p] = Interval)
    PROVE  HeardLast(s, p)' /\ HeardBefore(s, p)'
<1>1. p \in Stack /\ lost'[p][s] * Interval \in Nat /\ announce'[p] \in Nat
  BY TimeAssumption DEF TypeOK, Others
<1>2. Elapsed(p, s)' \in Nat /\ (announce'[p] = Interval => Elapsed(p, s)' > 0)
  BY <1>1, TimeAssumption DEF Elapsed
<1>3. Gap \in Nat /\ Gap > 0
  <2>1. MaxLost * Interval \in Nat /\ Gap = MaxLost * Interval + Interval
    BY TimeAssumption DEF Gap
  <2> QED
    BY <2>1, TimeAssumption
<1>4. HeardLast(s, p)'
  BY <1>2 DEF HeardLast
<1>5. HeardBefore(s, p)'
  BY <1>3 DEF HeardBefore
<1> QED
  BY <1>4, <1>5

\* A tick makes everything one older, and loses nothing on the way to a stack
\* that is up.
LEMMA TickPair ==
    ASSUME SafeInv, Tick, NEW s \in Stack, NEW p \in Others(s), HeardLast(s, p), HeardBefore(s, p)
    PROVE  HeardLast(s, p)' /\ HeardBefore(s, p)'
<1>0. Linked(s, p)' = Linked(s, p)
  BY TickMap DEF SafeInv, Linked
<1> SUFFICES ASSUME Linked(s, p), up[s], up[p] PROVE HeardLast(s, p)' /\ HeardBefore(s, p)'
  BY <1>0 DEF Linked, HeardLast, HeardBefore
<1>1. /\ TypeOK /\ p \in Stack /\ Elapsed(p, s) \in Nat /\ Gap \in Nat
      /\ since[s] \in Nat /\ since[p] \in Nat /\ age[s][p] \in Nat
      /\ \A m \in net : m.late \in Nat
  BY ElapsedType, Periods, TimeAssumption DEF SafeInv, TypeOK, Others, Message
<1>2. Elapsed(p, s)' = Elapsed(p, s) + 1
  <2>1. lost[p][s] * Interval \in Nat /\ announce[p] \in Nat
    BY <1>1, TimeAssumption DEF TypeOK
  <2>2. lost' = lost /\ announce'[p] = announce[p] + 1
    BY <1>1, TickMap
  <2> QED
    BY <2>1, <2>2 DEF Elapsed
<1>3. since'[s] <= since[s] + 1 /\ since'[p] <= since[p] + 1 /\ since'[s] \in Nat /\ since'[p] \in Nat
  BY <1>1, TickMap
<1>4. \A x \in Nat : HeardWithin(s, p, x) => HeardWithin(s, p, x + 1)'
  BY <1>1, TickMap DEF HeardWithin
<1>5. \A x, y \in Nat : UnderWay(s, p, x, y) => UnderWay(s, p, x + 1, y + 1)'
  BY <1>1, TickNet DEF UnderWay
<1>6. HeardLast(s, p)'
  BY <1>1, <1>2, <1>3, <1>4, <1>5, TickMap DEF HeardLast
<1>7. HeardBefore(s, p)'
  <2> SUFFICES ASSUME NEW x \in 0 .. MaxDelay, Elapsed(p, s)' <= x,
                      x + Gap <= since'[p], x + Gap < since'[s]
               PROVE  HeardWithin(s, p, x + Gap)' \/ UnderWay(s, p, x + 1, x + Gap)'
    BY DEF HeardBefore
  <2>1. x - 1 \in 0 .. MaxDelay /\ Elapsed(p, s) <= x - 1
    BY <1>1, <1>2, TimeAssumption
  <2>2. HeardWithin(s, p, (x - 1) + Gap) \/ UnderWay(s, p, (x - 1) + 1, (x - 1) + Gap)
    BY <1>1, <1>3, <2>1 DEF HeardBefore
  <2>3. /\ (x - 1) + Gap \in Nat /\ (x - 1) + 1 \in Nat
        /\ ((x - 1) + Gap) + 1 = x + Gap /\ ((x - 1) + 1) + 1 = x + 1
    BY <1>1, <2>1
  <2> QED
    BY <1>4, <1>5, <2>2, <2>3
<1> QED
  BY <1>6, <1>7

\* A datagram that is sent: the ticker's either starts the count anew or, if it
\* is lost, leaves it where it is.
LEMMA AnnouncePair ==
    ASSUME SafeInv, NEW s \in Stack, NEW p \in Others(s), SendAnnouncement(p),
           HeardLast(s, p), HeardBefore(s, p)
    PROVE  HeardLast(s, p)' /\ HeardBefore(s, p)'
<1> SUFFICES ASSUME Linked(s, p)' PROVE HeardLast(s, p)' /\ HeardBefore(s, p)'
  BY DEF HeardLast, HeardBefore
<1>0. up' = up /\ up[s] /\ up[p] /\ p \in Stack /\ TypeOK
  BY DEF Linked, SendAnnouncement, SafeInv, Others
<1>1. /\ TypeOK /\ p \in Stack /\ s \in Others(p) /\ Elapsed(p, s) \in Nat /\ Elapsed(p, s) <= Gap
      /\ Linked(s, p)
      /\ since[s] \in Nat /\ since[p] \in Nat /\ age[s][p] \in Nat
      /\ Gap \in Nat /\ lost[p][s] \in Nat /\ MaxDelay \in Nat
  <2>1. lost[p][s] <= MaxLost
    BY <1>0, LostStays DEF Linked
  <2> QED
    BY <1>0, <2>1, ElapsedType, Periods, TimeAssumption DEF TypeOK, Others, Linked
<1>2. net \subseteq net' /\ UNCHANGED <<up, since, peers, age>>
  BY <1>1, SendMap
<1>3. \A x : HeardWithin(s, p, x)' = HeardWithin(s, p, x)
  BY <1>2 DEF HeardWithin
<1>4. \A x, y : UnderWay(s, p, x, y) => UnderWay(s, p, x, y)'
  BY <1>2 DEF UnderWay
<1>5. announce[p] = Interval /\ announce'[p] = 0
  BY <1>1 DEF SendAnnouncement, TypeOK
<1>6. PICK Lose \in SUBSET Others(p) :
        /\ net' = net \cup {MessageOf(p, r) : r \in Others(p) \ Lose}
        /\ lost'[p][s] = IF s \in Lose THEN lost[p][s] + 1 ELSE 0
  BY <1>0, LostStays DEF Linked
<1>7. CASE s \in Lose
  <2>1. lost'[p][s] = lost[p][s] + 1
    BY <1>6, <1>7
  <2>2. Elapsed(p, s)' = Elapsed(p, s)
    <3>1. (lost[p][s] + 1) * Interval = lost[p][s] * Interval + Interval
      BY <1>1, TimeAssumption
    <3>2. lost[p][s] * Interval \in Nat /\ (lost[p][s] + 1) * Interval \in Nat
      BY <1>1, TimeAssumption
    <3> QED
      BY <1>5, <2>1, <3>1, <3>2, TimeAssumption DEF Elapsed
  <2>3. /\ Linked(s, p) /\ Elapsed(p, s)' = Elapsed(p, s)
        /\ since'[s] = since[s] /\ since'[p] = since[p]
    BY <1>1, <1>2, <2>2
  <2> QED
    BY <1>1, <1>2, <1>3, <2>3, QuietPair
<1>8. CASE s \notin Lose
  <2>1. Elapsed(p, s)' = 0
    <3>1. lost'[p][s] = 0
      BY <1>6, <1>8
    <3> QED
      BY <1>5, <3>1, TimeAssumption DEF Elapsed
  <2>2. UnderWay(s, p, 0, 0)'
    <3>1. MessageOf(p, s) \in net'
      BY <1>1, <1>6, <1>8
    <3> QED
      BY <3>1 DEF UnderWay, MessageOf
  <2>3. HeardLast(s, p)'
    BY <2>1, <2>2 DEF HeardLast
  <2>4. HeardBefore(s, p)'
    <3> SUFFICES ASSUME NEW x \in 0 .. MaxDelay,
                        x + Gap <= since[p], x + Gap < since[s]
                 PROVE  HeardWithin(s, p, x + Gap) \/ UnderWay(s, p, x + 1, x + Gap)
      BY <1>2, <1>3, <1>4 DEF HeardBefore
    <3>1. CASE Elapsed(p, s) <= x
      BY <1>1, <3>1 DEF HeardBefore
    <3>2. CASE x < Elapsed(p, s)
      <4>1. /\ Elapsed(p, s) <= x + Gap /\ x + 1 <= Elapsed(p, s)
            /\ Elapsed(p, s) <= since[p] /\ Elapsed(p, s) < since[s]
        BY <1>1, <3>2
      <4>2. HeardWithin(s, p, Elapsed(p, s)) \/ UnderWay(s, p, Elapsed(p, s), Elapsed(p, s))
        BY <1>1, <4>1 DEF HeardLast
      <4>3. HeardWithin(s, p, Elapsed(p, s)) => HeardWithin(s, p, x + Gap)
        BY <1>1, <4>1 DEF HeardWithin
      <4>4. UnderWay(s, p, Elapsed(p, s), Elapsed(p, s)) => UnderWay(s, p, x + 1, x + Gap)
        <5>1. \A m \in net : m.late \in Nat
          BY <1>1, TimeAssumption DEF TypeOK, Message
        <5> QED
          BY <1>1, <4>1, <5>1 DEF UnderWay
      <4> QED
        BY <4>2, <4>3, <4>4
    <3> QED
      BY <1>1, <3>1, <3>2
  <2> QED
    BY <2>3, <2>4
<1> QED
  BY <1>7, <1>8

\* A datagram that arrives is heard at once.
LEMMA HandlePair ==
    ASSUME SafeInv, NEW m \in net, HandleAnnouncement(m), NEW s \in Stack, NEW p \in Others(s),
           HeardLast(s, p), HeardBefore(s, p)
    PROVE  HeardLast(s, p)' /\ HeardBefore(s, p)'
<1>1. /\ TypeOK /\ p \in Stack /\ age[s][p] \in Nat /\ Gap \in Nat /\ MaxDelay \in Nat
      /\ UNCHANGED <<up, since, announce, lost>>
  BY HandleMap, Periods, TimeAssumption DEF SafeInv, TypeOK, Others
<1>2. Elapsed(p, s)' = Elapsed(p, s) /\ Elapsed(p, s) \in Nat
  BY <1>1, ElapsedType DEF Elapsed
<1>3. CASE m.to = s /\ m.from = p
  <2>1. peers'[s][p] # NoHost /\ age'[s][p] = 0
    BY <1>1, <1>3, HandleMap, HostAssumption
  <2>2. \A x \in Nat : HeardWithin(s, p, x)'
    BY <2>1 DEF HeardWithin
  <2>3. \A x \in 0 .. MaxDelay : x + Gap \in Nat
    BY <1>1
  <2> QED
    BY <1>2, <2>2, <2>3 DEF HeardLast, HeardBefore
<1>4. CASE ~(m.to = s /\ m.from = p)
  <2>1. peers'[s][p] = peers[s][p] /\ age'[s][p] = age[s][p]
    BY <1>1, <1>4, HandleMap
  <2>2. \A n \in net : n.from = p /\ n.to = s => n \in net'
    BY <1>1, <1>4, HandleMap
  <2>3. \A x \in 0 .. Gap + MaxDelay : HeardWithin(s, p, x) => HeardWithin(s, p, x)'
    BY <2>1 DEF HeardWithin
  <2>4. Linked(s, p)' => /\ Linked(s, p) /\ Elapsed(p, s)' = Elapsed(p, s)
                         /\ since'[s] = since[s] /\ since'[p] = since[p]
    BY <1>1, <1>2 DEF Linked
  <2> QED
    BY <1>1, <2>2, <2>3, <2>4, QuietPair
<1> QED
  BY <1>3, <1>4

\* With a timeout that suffices the cleaner spares what was heard recently.
LEMMA CleanupPair ==
    ASSUME SafeInv, TimeoutSuffices, NEW r \in Stack, CleanupStale(r),
           NEW s \in Stack, NEW p \in Others(s), HeardLast(s, p), HeardBefore(s, p)
    PROVE  HeardLast(s, p)' /\ HeardBefore(s, p)'
<1>1. /\ TypeOK /\ p \in Stack /\ age[s][p] \in Nat
      /\ UNCHANGED <<up, since, announce, net, lost>>
  BY CleanupMap DEF SafeInv, TypeOK, Others
<1>2. Gap + MaxDelay <= Timeout /\ Gap \in Nat
  BY Periods DEF TimeoutSuffices, Gap
<1>3. ASSUME NEW x \in 0 .. Gap + MaxDelay, HeardWithin(s, p, x)
      PROVE  HeardWithin(s, p, x)'
  <2>1. ~Stale(s, p)
    BY <1>1, <1>2, <1>3, TimeAssumption DEF HeardWithin, Stale
  <2>2. peers'[s][p] = peers[s][p] /\ age'[s][p] = age[s][p]
    BY <1>1, <2>1, CleanupMap
  <2> QED
    BY <1>3, <2>2 DEF HeardWithin
<1>4. Linked(s, p)' => /\ Linked(s, p) /\ Elapsed(p, s)' = Elapsed(p, s)
                       /\ since'[s] = since[s] /\ since'[p] = since[p]
  BY <1>1 DEF Elapsed, Linked
<1>5. \A m \in net : m.from = p /\ m.to = s => m \in net'
  BY <1>1
<1> QED
  BY <1>1, <1>3, <1>4, <1>5, QuietPair

\* The steps that leave the memory and the datagrams of a pair alone.
LEMMA AsidePair ==
    ASSUME TypeOK, NEW s \in Stack, NEW p \in Others(s), HeardLast(s, p), HeardBefore(s, p),
           UNCHANGED <<up[s], up[p], since[s], since[p], announce[p], lost[p][s],
                       peers[s], age[s]>>,
           net \subseteq net'
    PROVE  HeardLast(s, p)' /\ HeardBefore(s, p)'
<1>1. \A x \in 0 .. Gap + MaxDelay : HeardWithin(s, p, x) => HeardWithin(s, p, x)'
  BY DEF HeardWithin
<1>2. Linked(s, p)' => /\ Linked(s, p) /\ Elapsed(p, s)' = Elapsed(p, s)
                       /\ since'[s] = since[s] /\ since'[p] = since[p]
  BY DEF Elapsed, Linked
<1>3. \A m \in net : m.from = p /\ m.to = s => m \in net'
  OBVIOUS
<1> QED
  BY <1>1, <1>2, <1>3, QuietPair

LEMMA HeardStep ==
    ASSUME SafeInv, TimeoutSuffices, Heard, [Next]_vars PROVE Heard'
<1> SUFFICES ASSUME NEW s \in Stack, NEW p \in Others(s)
             PROVE  HeardLast(s, p)' /\ HeardBefore(s, p)'
  BY DEF Heard, Others
<1>0. /\ TypeOK /\ TypeOK' /\ p \in Stack /\ s # p
      /\ HeardLast(s, p) /\ HeardBefore(s, p)
  BY TypeStep DEF SafeInv, Heard, Others
<1>1. ASSUME NEW r \in Stack, Start(r) PROVE HeardLast(s, p)' /\ HeardBefore(s, p)'
  <2>1. CASE r = s \/ r = p
    <3>1. since'[s] = 0 \/ (since'[p] = 0 /\ announce'[p] = Interval)
      BY <1>0, <1>1, <2>1 DEF Start, TypeOK
    <3> QED
      BY <1>0, <3>1, NewPair
  <2>2. CASE r # s /\ r # p
    <3>1. /\ UNCHANGED <<up[s], up[p], since[s], since[p], announce[p], lost[p][s],
                         peers[s], age[s]>>
          /\ net \subseteq net'
      BY <1>0, <1>1, <2>2 DEF Start, TypeOK, storeVars, fileVars, netVars
    <3> QED
      BY <1>0, <3>1, AsidePair
  <2> QED
    BY <2>1, <2>2
<1>2. ASSUME NEW r \in Stack, Stop(r) PROVE HeardLast(s, p)' /\ HeardBefore(s, p)'
  <2>1. CASE r = s \/ r = p
    <3>1. ~(up'[s] /\ up'[p])
      BY <1>0, <1>2, <2>1 DEF Stop, TypeOK
    <3> QED
      BY <3>1 DEF Linked, HeardLast, HeardBefore
  <2>2. CASE r # s /\ r # p
    <3>1. /\ UNCHANGED <<up[s], up[p], since[s], since[p], announce[p], lost[p][s],
                         peers[s], age[s]>>
          /\ net \subseteq net'
      BY <1>0, <1>2, <2>2 DEF Stop, TypeOK
    <3> QED
      BY <1>0, <3>1, AsidePair
  <2> QED
    BY <2>1, <2>2
<1>3. ASSUME NEW r \in Stack, SendAnnouncement(r) PROVE HeardLast(s, p)' /\ HeardBefore(s, p)'
  <2>1. CASE r = p
    BY <1>0, <1>3, <2>1, AnnouncePair
  <2>2. CASE r # p
    <3>1. /\ UNCHANGED <<up[s], up[p], since[s], since[p], peers[s], age[s]>>
          /\ net \subseteq net'
      BY <1>0, <1>3, SendMap
    <3>2. UNCHANGED <<announce[p], lost[p][s]>>
      BY <1>0, <1>3, <2>2 DEF SendAnnouncement, TypeOK
    <3> QED
      BY <1>0, <3>1, <3>2, AsidePair
  <2> QED
    BY <2>1, <2>2
<1>4. ASSUME NEW r \in Stack, NEW q \in Stack, HandleQuery(r, q)
      PROVE  HeardLast(s, p)' /\ HeardBefore(s, p)'
  <2>1. /\ UNCHANGED <<up[s], up[p], since[s], since[p], announce[p], lost[p][s],
                       peers[s], age[s]>>
        /\ net \subseteq net'
    BY <1>4 DEF HandleQuery, timeVars, storeVars, fileVars
  <2> QED
    BY <1>0, <2>1, AsidePair
<1>5. ASSUME NEW r \in Stack, CleanupStale(r) PROVE HeardLast(s, p)' /\ HeardBefore(s, p)'
  BY <1>0, <1>5, CleanupPair
<1>6. ASSUME NEW m \in net, HandleAnnouncement(m) PROVE HeardLast(s, p)' /\ HeardBefore(s, p)'
  BY <1>0, <1>6, HandlePair
<1>7. CASE Tick
  BY <1>0, <1>7, TickPair
<1>8. ASSUME NEW r \in Stack, Writes(r) PROVE HeardLast(s, p)' /\ HeardBefore(s, p)'
  <2>1. UNCHANGED <<up, since, peers, age, net, lost, announce>>
    BY <1>0, <1>8, WriteMap
  <2> QED
    BY <1>0, <2>1, AsidePair
<1>9. CASE UNCHANGED vars
  <2>1. /\ UNCHANGED <<up[s], up[p], since[s], since[p], announce[p], lost[p][s],
                       peers[s], age[s]>>
        /\ net \subseteq net'
    BY <1>9 DEF vars, timeVars, storeVars, fileVars, netVars
  <2> QED
    BY <1>0, <2>1, AsidePair
<1> QED
  BY <1>1, <1>2, <1>3, <1>4, <1>5, <1>6, <1>7, <1>8, <1>9 DEF Next, Writes

\* What two stacks that have run for the time of convergence know of each other.
LEMMA HeardInTime ==
    ASSUME SafeInv, Heard, NEW s \in Stack, NEW p \in Others(s), Linked(s, p),
           since[s] > ConvergeTime, since[p] > ConvergeTime
    PROVE  HeardWithin(s, p, Gap + MaxDelay)
<1>1. /\ TypeOK /\ p \in Stack /\ Elapsed(p, s) \in Nat /\ Elapsed(p, s) <= Gap
      /\ since[s] \in Nat /\ since[p] \in Nat /\ age[s][p] \in Nat
      /\ Gap \in Nat /\ MaxDelay \in Nat
      /\ ConvergeTime = Gap + 2 * MaxDelay
      /\ \A m \in net : m.late \in Nat /\ m.late <= MaxDelay
  BY ElapsedType, Periods, TimeAssumption DEF SafeInv, TypeOK, Others, Message, Linked
<1>2. HeardLast(s, p) /\ HeardBefore(s, p)
  BY DEF Heard
<1>3. CASE Elapsed(p, s) <= MaxDelay
  <2>1. MaxDelay \in 0 .. MaxDelay /\ MaxDelay + Gap <= since[p] /\ MaxDelay + Gap < since[s]
    BY <1>1
  <2>2. HeardWithin(s, p, MaxDelay + Gap) \/ UnderWay(s, p, MaxDelay + 1, MaxDelay + Gap)
    BY <1>2, <1>3, <2>1 DEF HeardBefore
  <2>3. ~UnderWay(s, p, MaxDelay + 1, MaxDelay + Gap)
    BY <1>1 DEF UnderWay
  <2> QED
    BY <1>1, <2>2, <2>3
<1>4. CASE Elapsed(p, s) > MaxDelay
  <2>1. HeardWithin(s, p, Elapsed(p, s)) \/ UnderWay(s, p, Elapsed(p, s), Elapsed(p, s))
    BY <1>1, <1>2 DEF HeardLast
  <2>2. ~UnderWay(s, p, Elapsed(p, s), Elapsed(p, s))
    BY <1>1, <1>4 DEF UnderWay
  <2> QED
    BY <1>1, <2>1, <2>2 DEF HeardWithin
<1> QED
  BY <1>1, <1>3, <1>4

\* And under which address.
MapsConverged ==
    \A s \in Stack : \A p \in Others(s) :
        /\ Linked(s, p) /\ since[s] > ConvergeTime /\ since[p] > ConvergeTime
        => peers[s][p] = hostIP[p]

LEMMA MapConverged == SafeInv /\ Heard => MapsConverged
<1> SUFFICES ASSUME SafeInv, Heard, NEW s \in Stack, NEW p \in Others(s), Linked(s, p),
                    since[s] > ConvergeTime, since[p] > ConvergeTime
             PROVE  peers[s][p] = hostIP[p]
  BY DEF MapsConverged
<1>1. /\ p \in Stack /\ since[p] \in Nat /\ age[s][p] \in Nat
      /\ Gap \in Nat /\ MaxDelay \in Nat /\ ConvergeTime = Gap + 2 * MaxDelay
  BY Periods, TimeAssumption DEF SafeInv, TypeOK, Others
<1>2. peers[s][p] # NoHost /\ age[s][p] <= Gap + MaxDelay
  BY HeardInTime DEF HeardWithin
<1>3. peers[s][p] \notin {NoHost, hostIP[p]} => since[p] <= age[s][p] + MaxDelay
  BY <1>1 DEF SafeInv, OldEntries
<1> QED
  BY <1>1, <1>2, <1>3

LEMMA FilesConvergedStep ==
    ASSUME SafeInv, SafeInv', Heard', FilesConverged, [Next]_vars PROVE FilesConverged'
<1> SUFFICES ASSUME NEW s \in Stack, NEW p \in Others(s), Written(s)', Linked(s, p)',
                    since'[s] > ConvergeTime, since'[p] > ConvergeTime
             PROVE  file'[s][p] = hostIP'[p]
  BY DEF FilesConverged, Others, ConvergeTime
<1>1. /\ p \in Stack /\ ConvergeTime \in Nat /\ since'[p] # 0
  <2>1. ConvergeTime \in Nat
    BY Periods, TimeAssumption
  <2> QED
    BY <2>1 DEF Others
<1>2. peers'[s][p] = hostIP'[p]
  <2>1. MapsConverged'
    BY MapConverged, PTL
  <2> QED
    BY <2>1 DEF MapsConverged, Others, ConvergeTime
<1>3. CASE file'[s] = peers'[s]
  BY <1>2, <1>3
<1>4. CASE /\ Written(s) /\ UNCHANGED <<file[s], since[s], up[p], since[p], hostIP[p]>>
           /\ lost[p][s] <= MaxLost
  <2>1. Linked(s, p)
    BY <1>4 DEF Linked, Written
  <2> QED
    BY <1>4, <2>1 DEF FilesConverged
<1> QED
  BY <1>1, <1>3, <1>4, Publication DEF Linked

LEMMA DInvAlways == Spec => []DInv
<1>1. Init => DInv
  <2>1. Init => Heard /\ FilesConverged /\ FilesDeparted /\ FilesKept
    BY DEF Init, Heard, HeardLast, HeardBefore, Linked, FilesConverged, FilesDeparted,
           FilesKept, Written
  <2> QED
    BY <2>1, SafeInit DEF DInv
<1>2. DInv /\ [Next]_vars => DInv'
  <2>1. TimeoutSuffices' = TimeoutSuffices
    BY DEF TimeoutSuffices
  <2>2. DInv /\ [Next]_vars => SafeInv' /\ FilesDeparted' /\ FilesKept'
    BY SafeStep, FilesDepartedStep, FilesKeptStep DEF DInv
  <2>3. DInv /\ TimeoutSuffices /\ [Next]_vars => Heard'
    BY HeardStep DEF DInv
  <2>4. DInv /\ TimeoutSuffices /\ [Next]_vars => FilesConverged'
    BY <2>2, <2>3, FilesConvergedStep DEF DInv
  <2> QED
    BY <2>1, <2>2, <2>3, <2>4 DEF DInv
<1> QED
  BY <1>1, <1>2, PTL DEF Spec

\* Any number of stacks that have run long enough know each other under their
\* present addresses, whatever was late, doubled or sent before a restart, if the
\* timeout is no shorter than the longest gap and delay and no more were lost in
\* a row; and a file whose last write neither failed nor overlapped says so,
\* at every moment and not only when no write is due.
THEOREM ConvergedCorrect == Spec => []Converged
<1>1. DInv => Converged
  <2> SUFFICES ASSUME DInv, TimeoutSuffices PROVE Converged
    BY DEF Converged
  <2>1. MapsConverged /\ FilesConverged
    BY MapConverged DEF DInv
  <2> QED
    BY <2>1 DEF Converged, MapsConverged, FilesConverged, Linked
<1> QED
  BY <1>1, DInvAlways, PTL
=============================================================================
