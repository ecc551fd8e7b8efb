# A verification project for docker-vrouter

docker-vrouter joins Docker Compose stacks on different hosts by VXLAN tunnels.
Each stack has a *discovery* container, which finds the other stacks by
multicast and writes them to `discovery.json` on a volume, and a *router*
container, which watches that file and programs the host's kernel: a VXLAN
interface, forwarding (FDB) entries and routes. This directory holds TLA+
models of that system, the TLC runs that check them, and TLAPS proofs.

Paths below are relative to the repository.

## 1. Inventory

| Component | State | Operations | Talks to |
|---|---|---|---|
| Peer store, `discovery/pkg/storage/file.go` | `peers` map, RWMutex, `discovery.json(.tmp)` | `AddPeer`, `CleanupStale`, `WriteDiscoveryFile` | called by two goroutines; the file is read by routers |
| Discovery protocol, `discovery/pkg/multicast/discovery.go` | address, group, tickers | `Start`, `Stop`, `announceLoop`, `listenLoop`, `cleanupLoop`, the handlers of ANNOUNCE, QUERY, RESPONSE | datagrams to the group; the store |
| Socket set-up, same file, 135-224 | descriptor, memberships | `createUDPConnection`, `setupMulticast` | the host's other discovery containers (one port) |
| Discovery process, `discovery/cmd/main.go` | configuration | start, signal, stop | the above |
| Router process, `router/cmd/main.go` | the managers | `Start`, `Stop`, `onPeersUpdated`, `waitForDiscoveryFile`, `setupVXLANInterface` | docker's restart policy, signals |
| Watcher, `router/pkg/discovery/watcher.go` | fsnotify watch | `Start`, `Stop`, `watchLoop`, `loadAndNotify` | the file; calls `onPeersUpdated` |
| FDB manager, `router/pkg/fdb/manager.go` | `entries` | `UpdateEntries` | `bridge fdb` |
| Routing manager, `router/pkg/routing/manager.go` | `routes` | `UpdateRoutes` | `ip route` |
| VXLAN interface, `router/pkg/vxlan/interface.go` | none; the kernel's interface | `CreateInterface`, `DeleteInterface`, `EnableIPForwarding`, `Detect*` | `ip`, `sysctl` |
| Router configuration, `router/pkg/config/config.go` | stack mappings | `GetStackConfig` | routing manager |
| Privileged VXLAN manager, `discovery/cmd/vxlan-manager.go`, `discovery/pkg/vxlan/manager.go` | `activePeers` | `Start`, `Stop`, `monitorPeers`, `updatePeers` | `ip`, `bridge`; polls the file |
| Unprivileged router, `router/cmd/unprivileged-router.go` | - | routes only | the file, `ip route` |

What is hard, and what has to hold:

* **Peer store.** The listener and the cleaner both call `WriteDiscoveryFile`,
  which holds the *read* lock only: two calls overlap on one temporary name.
  Readers must get the current peers or notice that they got nothing usable;
  no change of the map may stay unpublished; faults and kills between the steps
  must not publish a half-written file.
* **Protocol.** Datagrams are lost, delayed, reordered and doubled; stacks stop
  without a word, restart with an empty map and perhaps a new address.
  Departed stacks must leave the files, running ones must be listed under
  their current address, and nobody may be dropped who is heard in time.
* **Watcher.** inotify watches an inode, the writer replaces it by a rename.
  What is applied should follow what is written.
* **Discovery process.** The set-up is a chain of system calls, each of which
  may fail; one of them falls back. The stacks of one host share the UDP port.
  A stop meets three goroutines that read, write or wait, and must neither hang
  on one nor cut its work short.
* **Shared interface.** All routers (or VXLAN managers) of one host and VNI use
  one kernel interface that nobody owns: each looks first and acts later, may be
  killed in between, finds its address by a sub-string test, removes forwarding
  entries that a sibling tracks, and deletes the interface when it stops.
* **Router.** Each kernel change is one command that may fail, between any two
  of which the process may be killed, and the kernel's state survives it. The
  tracked entries and routes must be the kernel's; listed peers must become
  reachable; absent ones should not stay.

`PROJECT.json` lists the hazards line by line with the properties aimed at them.

## 2. Modules

| Module | Models |
|---|---|
| `FileStorage` | the store and the publication of the file, step by step |
| `PeerFile` | what the store promises a reader: an abstract register |
| `FileStorageProofs` | the TLAPS proofs about `FileStorage` |
| `Discovery` | the protocol among several stacks, in discrete time |
| `Router` | one router, its start, its updates, the kernel it programs |
| `RouterProofs` | the TLAPS proofs about `Router` |
| `FileWatch` | `FileStorage` composed with the router's watcher |
| `PeerReader` | what the watcher promises on top of `PeerFile`: an abstract reader |
| `SharedInterface` | the routers and VXLAN managers of one host over one interface |
| `DiscoveryProofs`, `FileWatchProofs` | the TLAPS proofs about `Discovery` and `FileWatch` |
| `DiscoveryProcess` | the discovery containers of one host: set-up, port, loops, stop |
| `DiscoveryProcessProofs` | the TLAPS proofs about `DiscoveryProcess` |
| `SharedInterfaceProofs` | the TLAPS proofs about `SharedInterface` |
| `MC*` | the instances TLC checks |

How they fit: in `Discovery` a publication is a step that comes after the change of
the map and may fail or overlap the other goroutine's. What comes of it is what
`FileStorage` shows: alone it publishes the map, in a file that parses
(`LoneWriterPublishes`); overlapping, the map, a torn file or, with an error, no
change (`PublishesTheMap`, `OnlyOverlapTears`). `FileWatch` says when a router learns of
a new file, and implements `PeerReader`, which says what a router is ever given;
`Router` applies whatever file it is given, at any time. What it assumes of the
file, that once there it is replaced by peer lists or by something that does not
parse but never removed, is what `PeerFile` promises.
`DiscoveryProcess` takes the work of a loop as one step, what the loops do is in
`Discovery` and `FileStorage`. `SharedInterface` has the interface and the entries
of `Router` again, coarser in the file and the routes, for several processes.

### FileStorage

`peers` and `age` are the map and each entry's time since `LastSeen`; `pc` is
where the two goroutines ("listen", "cleanup") are: `idle`, `changed` (the map
has been changed, the write is to come), `created`, `encoded`. `AddPeer` and
`CleanupStale` take the write lock, so they wait for `Unlocked`; a goroutine in
`created` or `encoded` is `Writing` and holds the read lock. A file is an
*inode*: `tmp` and `pub` are the inodes under the two names, `fd` the one each
call has open, `data` the contents. `os.Create` truncates the inode it finds
under the name, `Encode` is one `write` at offset 0 (`json.Encoder` writes the
document at once), `os.Rename` moves the name and fails when the other call has
moved it. A content is what a parser makes of it: the document its first bytes
spell, its length and the file's length; two documents written over each other
parse if at most the shorter one's white space follows. The length of a document
varies even for the same peers (`time.Time` is printed without trailing zeros),
hence `Widths`. Faults are a failing create, write (after any part of the
document) or rename, and a kill with restart. Two history variables serve the
properties: `overlapped` says of a call that another was under way with it,
`owed` that a fault has struck and no call has published alone since.

### Discovery

Per stack: running or not, the address, the phases of the two tickers, the map,
the ages and the file. `net` holds the datagrams under way, one record per
receiver, up to `MaxDelay` ticks old. `SendAnnouncement` lets any receivers lose
the datagram, as often as it likes; `lost` counts the losses in a row of each pair,
up to `MaxLost + 1`, for `Converged` to look at. Who never hears whom is `Reach`.
`HandleAnnouncement` and `CleanupStale` change the map and leave a write to be
done (`due`); `HandleAnnouncement` may leave the datagram in the net (it comes
again). `WriteDiscoveryFile` publishes the map or fails, `OverlappingWrites` is both
goroutines at it at once, and `owed` remembers, until a write has gone well, that
the last did not; `Faulty` says of which stacks TLC lets them. `Tick` waits for
tickers, writes and datagrams that are due: the scheduler is faster than the clock.
`Stop` is a stop or a kill, which may cut two overlapping writes off and leave a
torn file; `Start` may find another address. A stack's file survives it; while it is
down it has no address, and its losses are counted anew afterwards.
`since` is a history variable: the time since a stack last started or stopped. It
counts up to `Horizon(s)`, one more than every bound that a property compares it
with (`ConvergeTime` and `DepartTime` when `s` is up, `DepartTime` when it is
down), so the cap hides nothing.

### Router

`pc` walks through `Start` (`wait`, `forward`, `setup`, `create`, `watch`,
`load`), then `run`, and `fdb`/`routes` while an update is applied; `exited`
is what the restart policy restarts, `stopped` is not. Once `Start` has returned
that is where the watcher's goroutine is, and `main` is where main's is: `serve`,
and then through `Stop`, `closed` (the watcher is) and `deleted` (the interface is,
or the deletion failed), until main returns and ends the process (`Finish`). In
between the watcher's goroutine goes on with an update, or reads the file for an event
that it has already got (`event`), and what the managers track lives on; on a
deleted interface additions fail and removals have nothing to remove. `link`, `kfdb`, `kroutes`
are the kernel's, `entries` and `routes` what the managers track, `goal` and
`plan` what the update in progress asks for. The maps that Go ranges over
give any order: the actions take any element. `tried` keeps a failing add from
being repeated within one update. `file` changes freely. The history variable
`spoilt` says what failed commands and kills may have left: an interface whose
repair failed (until the next start), an update with an addition that failed
(until the next update), entries and routes that nobody tracks (until the
interface is deleted).

### FileWatch

`watch` is the inode the watch is on, `event` a pending Write event, `applied`
the peers last handed to the callback. Every step of `FileStorage` is a
`StorageStep`, which raises an event if it writes the watched inode and drops the
watch when that inode has neither a name nor an open descriptor.

### SharedInterface

`pc` is where each process is: `setup` (the file is waited for, the host address
detected), `check` (`InterfaceExists`), `create`/`address`/`up` for the branch
that makes the interface, `repair`/`raise` for the one that finds it, `load` and
`first` for the router's first update, then `run` and `update`. `link`, `addrs`
and `fdb` are the kernel's, and go together when the interface is deleted; `Stop`
deletes it whoever else uses it. Of the history variables, `lost` remembers
under whom it was deleted, `warned` whose own repair of it has failed, and
`stray` the hosts whose entry nobody may track: its removal failed, or a process
that tracked it ended, and nobody has added or removed it since. `Within` is the
relation "the text of one address is a part of the text of the other", which is
what `strings.Contains` tests. `goal` is what a process's last list asks for,
`entries` what it tracks, `missed` what the last update could not add. `Stop`
deletes the interface, `stopping` holds until main returns (`Finish`), and
meanwhile an update goes on, as in `Router`; a poller even starts new ones.
Routers and managers differ in three
places: `Started` (the router loads before it serves, the manager when its ticker
fires), `RemovesNow`/`AddsNow` (removals first, or additions first), and
fairness (an event may never come, a tick does).

### DiscoveryProcess

`pc` walks through `main` and `createUDPConnection`, one system call a step, to
`run`, and through `Stop` (`close`, `wait`); `loop` is where each of the three
goroutines is: at its `select`, in the read, `busy` with a message or a tick,
`done`. `sock` is what the socket has become (`open`, `port` and `addr` for the
two options, `bound`, `joined`), empty once it is closed. `PortIsFree` is
the kernel's rule for sharing a port.

## 3. Runs

| Run | Question | Bounds | Result |
|---|---|---|---|
| `FileStorage` | safety of the publication | 2 stacks, 1 host, timeout 1, widths {1,3}, 3 inodes, 2 faults | 1.10M states, holds |
| `FileStorageLive` | publication happens; refinement of `PeerFile` with fairness | 1 stack, timeout 0, widths {1,3}, 1 fault | 322k states, holds |
| `FileStorageTorn` | are updates atomic? | 1 stack, no fault | violated |
| `Discovery` | departure and convergence, under arbitrary losses, answers, and writes that fail | 2 stacks, one of which hears the other, 2 addresses, interval 2, timeout 6, delay 1, 1 loss in a row to converge | 1.82M states, holds |
| `Router` | entries, routes and the kernel, and a stop during an update | 3 stacks on 2 hosts, 2 of them with one subnet, 1 failure, 1 kill | 1.69M states, holds |
| `RouterStale` | do absent stacks' routes go? | no failure, 1 kill | violated |
| `FileWatch` | in sync while watched; refinement of `PeerReader` | 1 stack, widths {1,3}, 1 fault | 811k states, holds |
| `FileWatchFollows` | does the router follow? | 1 stack, no fault | violated |
| `SharedInterface` | do processes share it well, do starts end, does the poller follow? | 1 router, 1 manager, 1 host, 1 failure, 1 kill, 2 stops | 371k states, holds |
| `SharedInterfaceStop` | does a sibling keep it? | 2 routers, no fault, 1 stop | violated |
| `DiscoveryProcess` | do all stacks listen, does a stop end cleanly? | 2 processes, 1 failure, 1 kill, 1 stop | 24k states, holds |
| `DiscoveryProcessRefused` | does the fall-back work? | 1 process, no SO_REUSEPORT, no fault | violated |

Why the bounds are enough to be interesting. Three inodes are all that can be
referred to at once when a new one is made (the published one and the other
call's descriptor), so no behaviour is lost by them. Two widths that differ by
more than one byte let overlapping calls leave a file that does not parse, under
the safety properties as under those of liveness, and with equal or the shorter
last, one that does. Two faults allow a failed write followed by a kill. In
`Discovery`, timeout 6 gives a cleanup period of 2 and is the least multiple of
three that outlasts a lost announcement and the delay. What a stack knows of
another depends on that other's datagrams and on itself alone, so the run connects
one direction (`Reach`) and lets the observer's writes fail; the sender's file and
map say nothing. The two addresses may change places (symmetry). Three stacks on
two hosts in `Router` include two that share a host, one that moves, and two that
claim one subnet beside one that has its own; hosts, and the two that clash with
their hops, may change places (symmetry). A stack without configuration, whose
entry is made and whose route is not, is left to the theorems. A failure and a
kill, in any order, at any point, cover the recovery from each, and one from a
kill that fails; the proofs of section 4 have no such bound. The configuration is
taken to be the same when a process is started again.
In `SharedInterface` one host address is enough, as the entries of different
hosts do not touch each other; the two stops are one of each process, or two of
one, and the manager's address is the one that contains the router's. In
`DiscoveryProcess`, two processes are enough for every conflict about the port,
which is between two sockets.

What the checked properties say:

* `SnapshotIsCurrent`, `PublishesTheMap`, `OnlyOverlapTears`, `FreshAtRest`,
  `LoneWriterPublishes`: a reader's view only ever changes to the current peers
  or to a file that does not parse; the latter needs two overlapping calls; and
  after both have returned the document at the front of the file is the map's, although
  one of them may have returned an error. That is no promise that the file parses:
  two overlapping calls may leave the tail of the longer document behind the
  shorter one, and then the file stays unreadable until the next call that overlaps
  no other. Such a call repairs whatever earlier
  faults and overlaps have left (`LoneWriterPublishes`), which is why `FreshAtRest`
  holds again after any number of faults as soon as one call has run alone. The read
  lock is what makes this work: it lets the writers damage each other's file, but
  both encode the same map.
* `EventuallyPublished`, `ImplementsFairPeerFile`: one write of the cleaner that no
  write of the listener overlaps repairs everything, so what stays in the map
  reaches the file unless the two go on overlapping for ever. The exception is
  needed: a fair scheduler may let a longer and a shorter document meet on one inode
  at every tick, and then no reader ever gets the list. What readers are not left with
  for ever, even then, is an older list that parses (the fairness of `PeerFile`).
* `Departed`: a stack silent for longer than timeout + cleanup period + delay
  is in nobody's map, and one that has come back is in none under an address it had
  before, whatever is lost. `Converged`: two stacks that have run for
  `(MaxLost+1)*Interval + 2*MaxDelay` know each other under the right address,
  if the timeout outlasts `(MaxLost+1)*Interval + MaxDelay` and no more than `MaxLost`
  announcements in a row were lost between them. Both say the same of the file
  (`Written`), unless its last write failed or overlapped the other goroutine's, in
  which case it is behind or torn until one goes well, or the container was
  restarted within the last cleanup period and may still show its predecessor's.
  DESIGN.md:216 and 640 say that SO_REUSEPORT balances messages between the
  listeners of one host. Linux delivers a multicast datagram to every socket that
  has joined; where a kernel did balance them, each listener would lose
  announcements without bound, which the model allows: `Departed` and
  `DroppedOnlyWhenSilent` hold regardless, `Converged` promises nothing to a pair that
  loses more than `MaxLost` in a row, and the retransmissions that the document
  asks for are the interval and the timeout that `TimeoutSuffices` weighs. The second
  `MaxDelay` is needed: a datagram sent before a restart may overtake the first
  announcement of the new address, since the time stamp is not looked at.
  `DroppedOnlyWhenSilent`: apart from the first write after a restart, which
  does drop everybody not heard again, and from one that makes good for a write that
  failed or overlapped, a peer leaves only by the timeout.
* `TrackedIsInKernel`, `EveryPeerReachable`, `KernelIsExact`: until the interface is
  deleted, what is tracked is in the kernel whatever fails, also where two stacks
  claim one subnet, take it from each other in the order of a Go map, and the kernel
  refuses the second; an update in which no command fails brings every
  listed peer within reach, whatever failed or was killed before it; and the
  kernel has nothing else unless a removal failed or a process was killed since
  the interface was last made. Of two stacks that claim one subnet, one has the
  route. `EveryPeerReachable` rests on the repair branch of `CreateInterface`.
  `StopLeavesNothing`: between the deletion of the interface and the end of the
  process the watcher's goroutine goes on with its update, and tracks entries that the
  kernel no longer has; but nothing it still runs puts anything back, so a stop
  whose deletion worked leaves the kernel clean.
* `InSyncWhileWatched`: setting the watch before the first load loses nothing.
  `ImplementsPeerReader`: from the map to the callback, over inodes, renames,
  overlapping writers, faults and restarts of either container, a router only
  applies whole lists, as they are published at that moment, and what was
  published was what the discovery container knew then. (When the router gets to
  load is another matter: `RouterFollows`.)
* `InterfaceReady`: however two processes meet in `CreateInterface`, whatever a
  killed one left half done and whichever commands of others fail, one that serves has the interface, up, with its
  address, or with one that the sub-string test takes for it. Without the second
  half the property is false, and that is all the damage the test does: the
  repair branch is skipped only then. What is left out is an interface deleted
  under the process, and a repair of its own that failed, which it only logs:
  the creating branch ends the process instead. `AgreedEntries`: siblings remove the
  entries under each other, but at rest a host that all list has its entry, unless an
  addition of it failed in the last update of one of them, and what nobody
  lists has none, unless a removal failed or an owner ended and left it, and nobody
  has added or removed it since. The first exception is needed: two processes track
  an entry, one list drops it and takes it back, the addition fails, and the other
  process, which tracks it still, never adds it again.
* `StartsEventually`: two that both create the interface, one of which exits, do
  not do so for ever, nor does one that was killed or failed after it had served:
  a process that in the end neither serves nor is stopped is one whose file keeps
  running empty. `ManagerFollows`: a poller catches up with its file,
  the contrast to `RouterFollows`, which fails.
* `NobodyShutOut`, `EveryStackListens`: the set-up order (options before the bind) lets all stacks
  of a host have the port, whatever comes first. `StopReturns` rests on the
  deadline of the read and on every loop looking at the context.
  `OnlyKillsCutWork`: `wg.Wait` is what keeps a stop from cutting a write short. A stop
  is one that `main` catches; a SIGTERM between the start of the loops and
  `signal.Notify` (discovery/cmd/main.go:48-54) ends the process at once and counts as
  a kill.

The five violated properties are things the repository's documents say and the
code does not do (`findings` in `PROJECT.json`): a torn `discovery.json`, a
router that never hears of a new list, a route that outlives its stack, an
interface deleted under a sibling, and a fall-back that uses a closed descriptor.
In the first, the torn file is repaired by the next write that overlaps no other,
and may stay for as long as all of them overlap; in the second, an update reaches the router only when it is restarted, or
in the rare case that an overlapping writer writes the watched inode.

For every property of a passing run, `PROJECT.json` names a mutant of the model
(an operator next to the definition it replaces, such as `NeverLocked` or
`CreateTrusting`) under which TLC finds that property violated.

**Deadlock** is checked in every run: no process of the system ever stops for good.

**Fairness.** `FileStorage`: a goroutine in `WriteDiscoveryFile` goes on (weak),
and the cleaner gets the lock again and again (strong: its ticker fires for ever
and Go's RWMutex stops admitting readers once a writer waits, so it is not
starved). Messages and faults are not fair, faults are finite. `FileWatch`: that
of `FileStorage` and a router process that runs. `SharedInterface`: each process
goes on and docker restarts it (`restart: unless-stopped` in the examples), and
the manager's ticker fires; a main that stops returns; file changes, events, failures and operators are not
fair. `DiscoveryProcess`: docker, `main` and each loop go on, and a read ends by
its deadline (all weak); the end of a cancelled loop is strongly fair, since
Go's `select` chooses at random among the cases that are ready, so that ticks
cannot win for ever. `Discovery` and `Router` have only safety properties (the
bounds of `Discovery` are in time, which makes them safety) and no fairness.

## 4. Proofs

`FileStorageProofs` proves, for all values of the constants that satisfy the
named assumptions (any number of stacks, hosts, inodes, any document lengths),
`TypeOK`, `SnapshotIsCurrent`, `FreshAtRest`, `PublishesTheMap`,
`OnlyOverlapTears`, `LoneWriterPublishes` and the refinement `Spec => PF!Spec`.

The argument: while somebody holds the read lock, the map does not change, so
every open document is the current one (`SnapshotIsCurrent`). This is not
inductive: a rename moves whatever inode is under the temporary name. The
invariant `IInv` adds that names and descriptors are related the way the file
system relates them (`Names`), that an inode a call in progress can still
write or rename holds no document or one of the current map
(`OpenFilesAreCurrent`), that a writer alone works on an inode no one
else refers to and that holds exactly its document after `Encode` (`LoneWriter`),
and that, once no fault is left to be made good (`owed`), a call under way leads
to a file that lists the map (`CallsPublish`). Each is a
named conjunct with one lemma per group of actions; `IInv` was first checked by
TLC. The action properties and the refinement follow from `IInv` step by step.

`RouterProofs` proves, for any stacks, hosts, subnets and configuration and any
number of failures and kills, `TypeOK`, `TrackedIsInKernel`,
`EveryPeerReachable`, `KernelIsExact` and `StopLeavesNothing` of `Router`. None is inductive by
itself; `RInv` adds that past the wait the file exists (`FilePresent`), that a
process that has not loaded the file has applied nothing (`Idle`), that the
interface is complete from its creation to its deletion unless its repair failed (`LinkReady`), that every hop comes from
the configuration (`HopsPlanned`, which makes a leftover route the right one
where one stack alone claims the subnet), what an update in progress has achieved so far
(`EntriesApplied`, `RoutesApplied`), that the kernel holds only what is
tracked, and after the deletion nothing, unless something was left over
(`NoLeftovers`), and that a deletion leaves something over or has taken the interface
(`LinkGone`). `spoilt` says which of
these a failure has put off, and until when, so nothing is assumed about how
many commands fail. Each conjunct has a lemma over
the actions. The proof needs that no host address is a subnet
(`AddressAssumption`), because `tried` holds both. `RInv`, too, was first checked
by TLC, on the instance of run `Router`.

`DiscoveryProofs` proves, for any number of stacks and addresses, any interval,
timeout, delay and number of losses in a row, and any queries, `TypeOK`,
`Departed`, `Converged` and `DroppedOnlyWhenSilent`. All of it is about how long
ago things happened. `SafeInv` says that the cleaner keeps ages down
(`AgesBounded`), that the file is the map when no write is due, but for a process
that has not written yet and one whose last write failed or overlapped
(`FileFollows`), and that a datagram or an entry with another address than
its sender has now is at least as old as the sender's last start or stop
(`OldDatagrams`, `OldEntries`). `Departed` follows from the bounds on ages: first of the map, then of
the file, which a write takes from a map of which it is true and which stays true
as time goes on (`FilesDeparted`, with `FilesKept` and `FilesConverged` for the
other two; the lemma `Publication` is what a step does to a file). For
`Converged` one looks at a sender and a receiver and at `Elapsed`, the time since
the last announcement that the receiver does not lose, which stays within the
longest gap for a pair that has lost no more than `MaxLost` in a row (`ElapsedType`).
That announcement
is heard or under way (`HeardLast`), and, looking back from any time up to the
delay, so is one within the gap before it (`HeardBefore`): the second is needed
when the last one has just been sent and the one before it is still what the
receiver relies on. The cleaner spares all of them because the timeout suffices.

`FileWatchProofs` proves `WatchTypeOK`, `InSyncWhileWatched` and
`WatchSpec => PR!ReaderSpec` on top of `IInv`.
What is added is that the router past its wait has seen the file
(`FileIsThere`) and that a watched inode has been published and never gets back
under the temporary name (`WatchIsOld`), so that what is published changes under a
watch only by a write, which is an event. The refinement takes the steps of the
discovery container from the lemma about what they publish (`PublishedStep`) and
those of the router from the file being there, and parsing, when it is applied.

`SharedInterfaceProofs` proves, for any routers and managers of a host, any
hosts, addresses and sub-strings among them, `TypeOK`, `InterfaceReady` and
`AgreedEntries`. `ReadyOnTheWay` gives, for each step of a process, what it has
done or found before it and what no sibling can have undone since; `SharedTracked`
says that a process at rest tracks what its list asks for less what it has missed
(`AtRest`), that an entry which all track is in the kernel while none is stopping
(`TrackedByAll`), and that one in the kernel is tracked by somebody or is a stray
(`TrackedBySome`). Neither assumes anything about what failed;
the history variables say which process or host a failure has cost. The proof needs that there is at
least one process (`ProcessAssumption`).

`DiscoveryProcessProofs` proves, for any number of processes of a host and whether
or not the kernel has SO_REUSEPORT, `TypeOK`, which says that a process that runs
has a bound socket, `NobodyShutOut` and `OnlyKillsCutWork`. `SetUpSoFar` says what
the socket is at each call of the set-up, the fall-back included, and
`PortIsShared` that nobody comes to its bind, or keeps the port, without
SO_REUSEADDR.

Each of these invariants was also checked by TLC, on the instance of its run.

Only model-checked: liveness (`EventuallyPublished`, `StartsEventually`,
`ManagerFollows`, `EveryStackListens`, `StopReturns`), including the fairness half
of `ImplementsFairPeerFile`: the prover does not do fairness or ENABLED. Every
invariant and every action property of a passing run, and the refinement of
`PeerReader`, is proved.

Trusted: the models of the kernel and the libraries, marked external in the map
(inodes, rename, inotify, `write`, `json.Unmarshal`, `ip`, `bridge`).

## 5. Not modelled

* Configuration (`readConfig`, `LoadConfig`): read once, before anything runs; a
  bad value ends the process or is replaced by a default. A negative interval,
  which makes the ticker panic, is excluded by an assumption.
* `GetPeers`, the single-entry and single-route operations and getters of the FDB
  and routing managers: nothing calls them.
* The unprivileged router: it does not compile at this commit (the types of
  `NewWatcher` and of `routing.NewManager`, and a `StackID` that mappings do not
  have). What it calls is modelled in `Router`; it never removes a route. The
  VXLAN manager does not compile either (`storage.Load` is not defined), but the
  only thing missing is a read of the file, and it is modelled with that.
* The local address and the device of the interface, detected once and not looked
  at again; multicast joins that fail are modelled, without a property, because
  neither code nor documents say what should follow.
* Logging, the examples, the scripts, the images. (That routers run in the host's
  network namespace is DESIGN.md:20, 28 and
  `examples/multi-stack/docker-compose.stack-a.yml:52`; the `-with-router` examples
  put them on a bridge, where the kernel's state goes with the container.) The VNI of a message is carried
  but never compared by the code; it is left out. Messages that do not parse, and
  the stack's own, are ignored by the code and by the model.
* A composition of `Discovery` and `Router` from an announcement to a route: its
  only interesting property is that the route follows the announcement, and
  `FileWatchFollows` already shows that it does not, at the file between them.

## 6. Plan

Done: every component above that is not listed as left out, and proofs of every
safety property of a passing run. What could still be added:

1. A fair variant of `PeerReader`: which loads are promised to a router whose
   watch is alive, when writers overlap and write the watched inode.
2. `SharedInterface` with routes, so that the entries of siblings and their
   routes can be seen together; today the routes are in `Router` alone.
3. `Router` with the unused single-entry operations, once something calls them.
