---------------------------- MODULE FileStorage ----------------------------
(***************************************************************************)
(* The peer store of one discovery container: the in-memory peer map, the  *)
(* read-write mutex that guards it, and the steps by which the map is      *)
(* published as discovery.json on the shared volume.                       *)
(* Source: src/discovery/pkg/storage/file.go, and the two goroutines of    *)
(* src/discovery/pkg/multicast/discovery.go that call it.                  *)
(*                                                                         *)
(* The listener adds a peer and then writes the file; the cleaner removes  *)
(* the stale peers and then writes the file. WriteDiscoveryFile holds only *)
(* the READ lock, so the two may be inside it together, on one temporary   *)
(* file. A file is therefore modelled as an inode that paths and open      *)
(* descriptors refer to: os.Create truncates the inode it finds under the  *)
(* name, os.Rename moves a name, and a descriptor goes on referring to its *)
(* inode whatever its name has become.                                     *)
(***************************************************************************)
EXTENDS Integers, FiniteSets

CONSTANTS
    StackID,      \* the other stacks (the key of the peer map)
    HostIP,       \* the host addresses they announce
    NoHost,       \* "this stack is not in the map"
    Timeout,      \* peerTimeout, in clock ticks
    Widths,       \* lengths the encoded document may have: LastUpdate is
                  \* printed without its trailing zeros
    Inode,        \* the inodes of the shared volume
    NoInode,      \* "no such file", "closed descriptor"
    NoTable,      \* the content does not start with a whole document
    Absent,       \* a reader finds no file
    Broken,       \* a reader gets a file that does not parse
    MaxFaults     \* bound: I/O errors and crashes in one behaviour

ASSUME NoHostAssumption  == NoHost \notin HostIP
ASSUME TimeoutAssumption == Timeout \in Nat
ASSUME WidthsAssumption  == Widths \subseteq Nat \ {0}
ASSUME NoInodeAssumption == NoInode \notin Inode
ASSUME NoTableAssumption ==
    {NoTable, Absent, Broken} \cap [StackID -> HostIP \cup {NoHost}] = {}
ASSUME OutcomeAssumption == Absent # Broken
ASSUME FaultsAssumption  == MaxFaults \in Nat

VARIABLES
    peers,        \* fs.peers: the host of each known stack, or NoHost
    age,          \* ticks since LastSeen, up to Timeout + 1
    pc,           \* where each goroutine is
    doc,          \* data: the document each WriteDiscoveryFile encodes
    fd,           \* file: the inode each WriteDiscoveryFile has open
    overlapped,   \* history: the call shared its time with the other's
    tmp,          \* the inode under the name discovery.json.tmp
    pub,          \* the inode under the name discovery.json
    data,         \* the content of every inode
    faults,       \* faults so far, up to MaxFaults
    owed          \* history: no call has published alone since the last fault

storeVars == <<peers, age>>
fileVars  == <<tmp, pub, data>>
callVars  == <<pc, doc, fd, overlapped>>
faultVars == <<faults, owed>>
vars      == <<storeVars, fileVars, callVars, faultVars>>

-----------------------------------------------------------------------------
(* Data.                                                                   *)

Goroutine == {"listen", "cleanup"}

\* What a document says: the host of every stack, NoHost for one not listed.
Table == [StackID -> HostIP \cup {NoHost}]
Empty == [s \in StackID |-> NoHost]

Doc   == [table : Table, width : Widths]
NoDoc == [table |-> NoTable, width |-> 0]

\* A file's content: the document its first bytes spell, if any, the length
\* of that document and the length of the file.
Content == [table : Table \cup {NoTable}, width : Nat, len : Nat]

Blank      == [table |-> NoTable, width |-> 0, len |-> 0]
Partial(n) == [table |-> NoTable, width |-> 0, len |-> n]

\* A write at offset 0 of an inode that may already hold another's bytes: the
\* tail of a longer content stays behind.
Overwrite(c, d) ==
    [table |-> d.table, width |-> d.width,
     len   |-> IF c.len > d.width THEN c.len ELSE d.width]

\* json.Unmarshal takes the whole file: one byte left of a longer document is
\* its final newline, which is white space; two or more are not.
Parses(c) == c.table # NoTable /\ c.len <= c.width + 1

\* What a reader that opens discovery.json gets.
Published ==
    IF pub = NoInode THEN Absent
    ELSE IF Parses(data[pub]) THEN data[pub].table ELSE Broken

-----------------------------------------------------------------------------
(* The mutex: WriteDiscoveryFile holds the read lock from its first line   *)
(* to its return, AddPeer and CleanupStale take the write lock.            *)

\* Mutant of Writing: the lock is given up before the rename.
WritingUntilEncoded(g) == pc[g] = "created"

Writing(g) == pc[g] \in {"created", "encoded"}
Writers    == {g \in Goroutine : Writing(g)}
\* Mutant of Unlocked: the map is changed under the read lock.
NeverLocked == TRUE
Unlocked   == Writers = {}

\* Mutant of Return: the temporary file is not closed.
ReturnWithoutClose(g) ==
    /\ pc' = [pc EXCEPT ![g] = "idle"]
    /\ fd' = fd
    /\ doc' = [doc EXCEPT ![g] = NoDoc]
    /\ overlapped' = [overlapped EXCEPT ![g] = FALSE]

\* The deferred calls of WriteDiscoveryFile: close the file, if it is open,
\* and give up the read lock.
Return(g) ==
    /\ pc' = [pc EXCEPT ![g] = "idle"]
    /\ fd' = [fd EXCEPT ![g] = NoInode]
    /\ doc' = [doc EXCEPT ![g] = NoDoc]
    /\ overlapped' = [overlapped EXCEPT ![g] = FALSE]

Fault == faults < MaxFaults /\ faults' = faults + 1 /\ owed' = TRUE

-----------------------------------------------------------------------------
Init ==
    /\ peers = Empty
    /\ age = [s \in StackID |-> 0]
    /\ pc = [g \in Goroutine |-> "idle"]
    /\ doc = [g \in Goroutine |-> NoDoc]
    /\ fd = [g \in Goroutine |-> NoInode]
    /\ overlapped = [g \in Goroutine |-> FALSE]
    /\ tmp = NoInode /\ pub = NoInode
    /\ data = [i \in Inode |-> Blank]
    /\ faults = 0 /\ owed = FALSE

\* The listener handles an announcement or a response of s.
AddPeer(s, h) ==
    /\ pc["listen"] = "idle" /\ Unlocked
    /\ peers' = [peers EXCEPT ![s] = h]
    /\ age' = [age EXCEPT ![s] = 0]
    /\ pc' = [pc EXCEPT !["listen"] = "changed"]
    /\ UNCHANGED <<doc, fd, overlapped, fileVars, faultVars>>

Stale(s) == peers[s] # NoHost /\ age[s] > Timeout

\* Mutant of CleanupStale: the cleaner does not write the file.
CleanupStaleQuietly ==
    /\ pc["cleanup"] = "idle" /\ Unlocked
    /\ peers' = [s \in StackID |-> IF Stale(s) THEN NoHost ELSE peers[s]]
    /\ age' = [s \in StackID |-> IF Stale(s) THEN 0 ELSE age[s]]
    /\ UNCHANGED <<callVars, fileVars, faultVars>>

\* The cleaner's ticker fires.
CleanupStale ==
    /\ pc["cleanup"] = "idle" /\ Unlocked
    /\ peers' = [s \in StackID |-> IF Stale(s) THEN NoHost ELSE peers[s]]
    /\ age' = [s \in StackID |-> IF Stale(s) THEN 0 ELSE age[s]]
    /\ pc' = [pc EXCEPT !["cleanup"] = "changed"]
    /\ UNCHANGED <<doc, fd, overlapped, fileVars, faultVars>>

\* os.Create: open the inode under the temporary name, or make one that
\* neither a name nor a descriptor refers to, and truncate it.
OpenTemp(i) ==
    IF tmp # NoInode THEN i = tmp
    ELSE i \notin {pub} \cup {fd[g] : g \in Goroutine}

\* Mutant of CreateTemp: a file that is there is opened without truncation.
CreateTempInPlace(g) ==
    /\ pc[g] = "changed"
    /\ \E i \in Inode, w \in Widths :
        /\ OpenTemp(i)
        /\ data' = [data EXCEPT ![i] = IF tmp = NoInode THEN Blank ELSE @]
        /\ tmp' = i
        /\ fd' = [fd EXCEPT ![g] = i]
        /\ doc' = [doc EXCEPT ![g] = [table |-> peers, width |-> w]]
    /\ pc' = [pc EXCEPT ![g] = "created"]
    /\ overlapped' = [h \in Goroutine |->
                        IF h = g THEN Writers # {}
                        ELSE overlapped[h] \/ Writing(h)]
    /\ UNCHANGED <<storeVars, pub, faultVars>>

\* WriteDiscoveryFile up to os.Create: take the read lock, copy the map.
CreateTemp(g) ==
    /\ pc[g] = "changed"
    /\ \E i \in Inode, w \in Widths :
        /\ OpenTemp(i)
        /\ tmp' = i
        /\ data' = [data EXCEPT ![i] = Blank]
        /\ fd' = [fd EXCEPT ![g] = i]
        /\ doc' = [doc EXCEPT ![g] = [table |-> peers, width |-> w]]
    /\ pc' = [pc EXCEPT ![g] = "created"]
    /\ overlapped' = [h \in Goroutine |->
                        IF h = g THEN Writers # {}
                        ELSE overlapped[h] \/ Writing(h)]
    /\ UNCHANGED <<storeVars, pub, faultVars>>

CreateTempFails(g) ==
    /\ pc[g] = "changed" /\ Fault
    /\ Return(g)
    /\ UNCHANGED <<storeVars, fileVars>>

\* encoder.Encode: one write of the whole document.
Encode(g) ==
    /\ pc[g] = "created"
    /\ data' = [data EXCEPT ![fd[g]] = Overwrite(@, doc[g])]
    /\ pc' = [pc EXCEPT ![g] = "encoded"]
    /\ UNCHANGED <<doc, fd, overlapped, storeVars, tmp, pub, faultVars>>

\* The write fails with nothing written, or where the file would have to
\* grow, after a part of it; the call returns and leaves the file behind.
EncodeFails(g) ==
    /\ pc[g] = "created" /\ Fault
    /\ \E c \in {data[fd[g]]} \cup
                {Partial(n) : n \in data[fd[g]].len .. (doc[g].width - 1)} :
            data' = [data EXCEPT ![fd[g]] = c]
    /\ Return(g)
    /\ UNCHANGED <<storeVars, tmp, pub>>

\* os.Rename moves whatever is under the temporary name by now; it fails when
\* the other writer has moved it already.
Rename(g) ==
    /\ pc[g] = "encoded"
    /\ pub' = IF tmp = NoInode THEN pub ELSE tmp
    /\ tmp' = NoInode
    /\ owed' = (owed /\ overlapped[g])
    /\ Return(g)
    /\ UNCHANGED <<storeVars, data, faults>>

RenameFails(g) ==
    /\ pc[g] = "encoded" /\ Fault
    /\ Return(g)
    /\ UNCHANGED <<storeVars, fileVars>>

\* The container is killed and started again: the map is memory only, the
\* files stay on the volume.
Crash ==
    /\ Fault
    /\ peers' = Empty
    /\ age' = [s \in StackID |-> 0]
    /\ pc' = [g \in Goroutine |-> "idle"]
    /\ fd' = [g \in Goroutine |-> NoInode]
    /\ doc' = [g \in Goroutine |-> NoDoc]
    /\ overlapped' = [g \in Goroutine |-> FALSE]
    /\ UNCHANGED fileVars

Tick ==
    /\ age' = [s \in StackID |->
                IF peers[s] # NoHost /\ age[s] <= Timeout
                THEN age[s] + 1 ELSE age[s]]
    /\ UNCHANGED <<peers, fileVars, callVars, faultVars>>

WriteStep(g) == CreateTemp(g) \/ Encode(g) \/ Rename(g)
WriteFault(g) == CreateTempFails(g) \/ EncodeFails(g) \/ RenameFails(g)

Next ==
    \/ \E s \in StackID, h \in HostIP : AddPeer(s, h)
    \/ CleanupStale
    \/ \E g \in Goroutine : WriteStep(g) \/ WriteFault(g)
    \/ Crash
    \/ Tick

Spec == Init /\ [][Next]_vars

\* A goroutine that may run does run; the ticker fires for ever, and RWMutex
\* lets a blocked Lock shut out new readers, so the cleaner's Lock cannot be
\* starved by a listener that keeps writing. Messages and faults are not fair.
Fairness ==
    /\ \A g \in Goroutine : WF_vars(WriteStep(g))
    /\ SF_vars(CleanupStale)

FairSpec == Spec /\ Fairness

-----------------------------------------------------------------------------
(* Properties.                                                             *)

\* A goroutine has a descriptor open exactly while it is inside
\* WriteDiscoveryFile past os.Create: none is left behind by any of its
\* returns (file.go:98-116).
OpenWhileWriting == \A g \in Goroutine : fd[g] # NoInode <=> Writing(g)

\* The variables have their types, and no descriptor is left open.
TypeOK ==
    /\ peers \in Table
    /\ age \in [StackID -> 0 .. Timeout + 1]
    /\ pc \in [Goroutine -> {"idle", "changed", "created", "encoded"}]
    /\ doc \in [Goroutine -> Doc \cup {NoDoc}]
    /\ fd \in [Goroutine -> Inode \cup {NoInode}]
    /\ overlapped \in [Goroutine -> BOOLEAN]
    /\ tmp \in Inode \cup {NoInode}
    /\ pub \in Inode \cup {NoInode}
    /\ data \in [Inode -> Content]
    /\ faults \in 0 .. MaxFaults
    /\ owed \in BOOLEAN
    /\ OpenWhileWriting

\* Two overlapping calls encode the same peers, and those are the peers the
\* map holds when they rename: the read lock keeps the map still from the copy
\* to the rename (file.go:81-112).
SnapshotIsCurrent == \A g \in Writers : doc[g].table = peers

\* Whatever changes what a reader of discovery.json gets, the reader gets the
\* peers the map holds at that moment or a file that does not parse: never a
\* mixture, never an older set of peers, whatever the two writers, the I/O
\* errors and the crashes do (file.go:80-117).
PublishesTheMap ==
    [][Published' # Published => Published' \in {peers, Broken}]_vars

\* A file that parses is broken only while a call is under way that overlapped
\* another: a lone writer, with its failures and crashes, never tears the
\* published file, because it works on a fresh inode and renames it whole.
OnlyOverlapTears ==
    [][Published # Broken /\ Published' = Broken
          => \E g \in Writers : overlapped[g]]_vars

\* When both goroutines have returned, the document at the front of
\* discovery.json lists the peers of the map, unless a fault has struck since a
\* call last ran alone: no change of the map is left unpublished, not even by
\* the call that lost the race for the temporary file and returned an error
\* (file.go:112-114), and what a fault left behind is forgotten.
FreshAtRest ==
    (~owed /\ \A g \in Goroutine : pc[g] = "idle")
        => IF pub = NoInode THEN peers = Empty
           ELSE data[pub].table = peers

\* A call that has shared its time with no other and returns without an error
\* has published the map, in a file that parses, whatever earlier errors,
\* crashes and overlapping calls have left under both names (file.go:96-114).
LoneWriterPublishes ==
    [][\A g \in Goroutine :
         Rename(g) /\ ~overlapped[g] => Published' = peers]_vars

\* DESIGN.md:393 promises updates of the file that are free of races, and
\* file.go:110 calls the rename an atomic move: a reader never gets a file
\* that does not parse.
ReaderNeverTorn == Published # Broken

\* The peers that stay in the map reach the readers, unless the two goroutines
\* go on overlapping for ever: faults are finite, the cleaner writes the file on
\* every tick of its ticker (discovery.go:283-287), and one such write that the
\* listener does not overlap is enough, whatever earlier ones have left.
EventuallyPublished ==
    \A t \in Table :
        [](peers = t
            => <>(peers # t \/ Published = t
                    \/ \E g \in Goroutine : overlapped[g]))

\* The steps above implement the register that PeerFile describes: the map is
\* what is known, what a reader gets is what is published (file.go:80-117).
PF == INSTANCE PeerFile
        WITH Tables <- Table, known <- peers, published <- Published

ImplementsPeerFile == PF!Spec

\* They implement its fairness too: a reader is not left for ever with a list
\* that parses and is out of date, not even by calls that always overlap, which
\* may leave it a file that does not parse (discovery.go:283-287).
ImplementsFairPeerFile == PF!FairSpec

=============================================================================
