-------------------------- MODULE FileWatchProofs --------------------------
(***************************************************************************)
(* Theorems about FileWatch, on top of those about FileStorage: any number *)
(* of stacks, hosts, inodes and faults, any lengths of the document.       *)
(*                                                                         *)
(* That the router is in sync while it watches the published inode rests   *)
(* on which inodes a watch can be on: one that has lost its name never     *)
(* gets a name again, since os.Create takes no inode that is still open    *)
(* (WatchIsOld). So the published inode changes under a watch only by a    *)
(* write, which is an event.                                               *)
(***************************************************************************)
EXTENDS FileWatch, FileStorageProofs

\* A router that is past its wait has seen the file, which is never removed.
FileIsThere == router # "off" => pub # NoInode

\* A watch is on an inode that has been published: it is published still, or a
\* call has it open, but it is not under the temporary name.
WatchIsOld ==
    watch # NoInode =>
        /\ watch # tmp
        /\ watch \in {pub} \cup {fd[g] : g \in Goroutine}

WInv == IInv /\ WatchTypeOK /\ FileIsThere /\ WatchIsOld /\ InSyncWhileWatched

-----------------------------------------------------------------------------
\* Nothing runs at first, and nothing is watched.
LEMMA WInvInit == WatchInit => WInv
<1> SUFFICES ASSUME WatchInit PROVE WInv
  OBVIOUS
<1>1. IInv /\ TypeOK
  BY InitInv DEF WatchInit, IInv
<1> QED
  BY <1>1 DEF WatchInit, WInv, WatchTypeOK, FileIsThere, WatchIsOld, InSyncWhileWatched

\* What a reader gets once the file is there.
LEMMA PublishedType ==
    ASSUME TypeOK, pub # NoInode PROVE Published \in Table \cup {Broken}
BY DEF TypeOK, Published, Parses, Content

\* The temporary name never gets an inode that is published or open, and the
\* published name gets only the one under the temporary name.
LEMMA NamesMove ==
    ASSUME IInv, Next
    PROVE  /\ tmp' \in {tmp, NoInode} \/ tmp' \notin {pub} \cup {fd[g] : g \in Goroutine}
           /\ pub' = pub \/ (tmp # NoInode /\ pub' = tmp /\ tmp' = NoInode)
<1>1. ASSUME NEW g \in Goroutine, CreateTemp(g) PROVE
        /\ tmp' \in {tmp, NoInode} \/ tmp' \notin {pub} \cup {fd[h] : h \in Goroutine}
        /\ pub' = pub
  BY <1>1 DEF CreateTemp, OpenTemp
<1>2. ASSUME NEW g \in Goroutine, Rename(g) PROVE
        /\ tmp' = NoInode
        /\ pub' = pub \/ (tmp # NoInode /\ pub' = tmp)
  BY <1>2 DEF Rename
<1>3. ASSUME NEW g \in Goroutine, Encode(g) \/ WriteFault(g) PROVE tmp' = tmp /\ pub' = pub
  BY <1>3 DEF Encode, WriteFault, CreateTempFails, EncodeFails, RenameFails, fileVars
<1>4. CASE (\E s \in StackID, h \in HostIP : AddPeer(s, h)) \/ CleanupStale \/ Crash \/ Tick
  BY <1>4 DEF AddPeer, CleanupStale, Crash, Tick, fileVars
<1> QED
  BY <1>1, <1>2, <1>3, <1>4 DEF Next, WriteStep

\* What a reader gets changes only with the name, or by a write to the inode.
LEMMA PublishedMoves ==
    ASSUME IInv, Next, pub' = pub, pub # NoInode, ~WritesTo(pub)
    PROVE  Published' = Published
<1> SUFFICES data'[pub] = data[pub]
  BY DEF Published
<1>1. ASSUME NEW g \in Goroutine, CreateTemp(g) PROVE data'[pub] = data[pub]
  BY <1>1 DEF CreateTemp, OpenTemp, IInv, TypeOK, Names
<1>2. ASSUME NEW g \in Goroutine, Encode(g) \/ EncodeFails(g) PROVE data'[pub] = data[pub]
  <2>1. fd[g] # pub
    BY <1>2 DEF WritesTo
  <2> QED
    BY <1>2, <2>1 DEF Encode, EncodeFails, IInv, TypeOK
<1>3. ASSUME NEW g \in Goroutine, Rename(g) \/ CreateTempFails(g) \/ RenameFails(g)
      PROVE  data'[pub] = data[pub]
  BY <1>3 DEF Rename, CreateTempFails, RenameFails, fileVars
<1>4. CASE (\E s \in StackID, h \in HostIP : AddPeer(s, h)) \/ CleanupStale \/ Crash \/ Tick
  BY <1>4 DEF AddPeer, CleanupStale, Crash, Tick, fileVars
<1> QED
  BY <1>1, <1>2, <1>3, <1>4 DEF Next, WriteStep, WriteFault

\* A step of the discovery container.
LEMMA StorageStepKeeps ==
    ASSUME WInv, StorageStep PROVE WInv'
<1>1. IInv /\ Next /\ IInv'
  BY NextInv DEF WInv, StorageStep
<1>2. WatchTypeOK'
  BY <1>1 DEF WInv, StorageStep, WatchTypeOK, IInv
<1>3. FileIsThere'
  BY <1>1, NamesMove DEF WInv, StorageStep, FileIsThere
<1>4. watch' # NoInode => watch' = watch /\ Kept(watch)
  BY DEF StorageStep
<1>5. WatchIsOld'
  <2> SUFFICES ASSUME watch' # NoInode
               PROVE  watch' # tmp' /\ watch' \in {pub'} \cup {fd'[g] : g \in Goroutine}
    BY DEF WatchIsOld
  <2>1. watch # tmp /\ watch \in {pub} \cup {fd[g] : g \in Goroutine} /\ watch # NoInode
    BY <1>4 DEF WInv, WatchIsOld
  <2>2. watch # tmp'
    BY <1>1, <2>1, NamesMove
  <2> QED
    BY <1>4, <2>2 DEF Kept
<1>6. InSyncWhileWatched'
  <2> SUFFICES ASSUME router' = "run", watch' = pub', ~event', Published' # Broken
               PROVE  applied' = Published'
    BY DEF InSyncWhileWatched
  <2>1. pub # NoInode /\ router = "run" /\ applied' = applied
    BY DEF WInv, FileIsThere, StorageStep
  <2>2. watch' # NoInode
    BY <1>3 DEF FileIsThere
  <2>3. watch = pub /\ pub' = pub
    BY <1>1, <1>4, <2>2, NamesMove DEF WInv, WatchIsOld
  <2>4. ~event /\ ~WritesTo(pub)
    BY <2>1, <2>3 DEF StorageStep, WInv, WatchTypeOK
  <2>5. Published' = Published
    BY <1>1, <2>1, <2>3, <2>4, PublishedMoves
  <2> QED
    BY <2>1, <2>3, <2>4, <2>5 DEF WInv, InSyncWhileWatched
<1> QED
  BY <1>1, <1>2, <1>3, <1>5, <1>6 DEF WInv

\* A step of the router.
LEMMA RouterStepKeeps ==
    ASSUME WInv, WatcherStep \/ RouterExit PROVE WInv'
<1>1. UNCHANGED vars /\ IInv'
  BY NextInv DEF WInv, WatcherStep, Setup, AddWatch, InitialLoad, HandleEvent, LoadAndNotify,
                 RouterExit
<1>2. UNCHANGED <<pub, tmp, fd, Published>> /\ TypeOK /\ TypeOK'
  BY <1>1 DEF vars, fileVars, callVars, Published, Parses, WInv, IInv
<1>3. CASE Setup
  BY <1>1, <1>2, <1>3 DEF Setup, Published, WInv, WatchTypeOK, FileIsThere, WatchIsOld,
                          InSyncWhileWatched
<1>4. CASE AddWatch
  <2>1. pub # NoInode /\ pub # tmp
    BY <1>4 DEF AddWatch, WInv, FileIsThere, IInv, Names
  <2> QED
    BY <1>1, <1>2, <1>4, <2>1 DEF AddWatch, WInv, WatchTypeOK, FileIsThere, WatchIsOld,
                                  InSyncWhileWatched, TypeOK
<1>5. CASE InitialLoad \/ HandleEvent
  <2>1. /\ router # "off" /\ router' = "run" /\ watch' = watch /\ event' \in {event, FALSE}
        /\ applied' = IF Published = Broken THEN applied ELSE Published
    BY <1>5 DEF InitialLoad, HandleEvent, LoadAndNotify
  <2>2. Published \in Table \cup {Broken}
    BY <1>2, <2>1, PublishedType DEF WInv, FileIsThere
  <2> QED
    BY <1>1, <1>2, <2>1, <2>2 DEF WInv, WatchTypeOK, FileIsThere, WatchIsOld, InSyncWhileWatched
<1>6. CASE RouterExit
  BY <1>1, <1>2, <1>6 DEF RouterExit, WInv, WatchTypeOK, FileIsThere, WatchIsOld,
                          InSyncWhileWatched
<1> QED
  BY <1>3, <1>4, <1>5, <1>6 DEF WatcherStep

\* Every state of every behaviour satisfies the invariant.
LEMMA WInvAlways == WatchSpec => []WInv
<1>1. WInv /\ [WatchNext]_allVars => WInv'
  <2>1. ASSUME WInv, UNCHANGED allVars PROVE WInv'
    <3>1. IInv'
      BY <2>1, NextInv DEF WInv, allVars
    <3> QED
      BY <2>1, <3>1 DEF allVars, vars, watchVars, fileVars, callVars, WInv, IInv, WatchTypeOK,
           FileIsThere, WatchIsOld, InSyncWhileWatched, Published, Parses
  <2> QED
    BY <2>1, StorageStepKeeps, RouterStepKeeps DEF WatchNext
<1> QED
  BY <1>1, WInvInit, PTL DEF WatchSpec

-----------------------------------------------------------------------------
\* Types: in particular the router is never handed anything but a peer list,
\* also when it reads the file while two writers are at it.
THEOREM WatchTypeCorrect == WatchSpec => []WatchTypeOK
<1>1. WInv => WatchTypeOK
  BY DEF WInv
<1> QED
  BY <1>1, WInvAlways, PTL

\* A router whose watch is on the published inode, no event waiting, has
\* applied what the file says.
THEOREM WatchedIsInSync == WatchSpec => []InSyncWhileWatched
<1>1. WInv => InSyncWhileWatched
  BY DEF WInv
<1> QED
  BY <1>1, WInvAlways, PTL

-----------------------------------------------------------------------------
(* The reader.                                                             *)

\* A step of the discovery container is one of the register, as for FileStorage.
LEMMA ContainerRefines ==
    ASSUME WInv, StorageStep PROVE [PR!ReaderNext]_(PR!readerVars)
<1>1. IInv /\ Next /\ TypeOK' /\ UNCHANGED applied
  BY NextInv DEF WInv, StorageStep, IInv
<1>2. CASE Published' = Published
  BY <1>1, <1>2 DEF TypeOK, PR!ReaderNext, PR!Container, PR!Next, PR!Change, PR!readerVars
<1>3. CASE Published' # Published
  BY <1>1, <1>3, PublishedStep
     DEF PR!ReaderNext, PR!Container, PR!Next, PR!Publish, PR!Tear, PR!readerVars
<1> QED
  BY <1>2, <1>3

\* The router reads a file that is there, and takes only what parses.
LEMMA WatcherRefines ==
    ASSUME WInv, WatcherStep \/ RouterExit PROVE [PR!ReaderNext]_(PR!readerVars)
<1>1. UNCHANGED <<peers, Published>>
  BY DEF WatcherStep, Setup, AddWatch, InitialLoad, HandleEvent, LoadAndNotify, RouterExit,
         vars, storeVars, fileVars, Published, Parses
<1>2. CASE Setup \/ AddWatch
  BY <1>1, <1>2 DEF Setup, AddWatch, PR!readerVars
<1>3. CASE InitialLoad \/ HandleEvent
  <2>1. Published \in Table \cup {Broken}
    BY <1>3, PublishedType DEF InitialLoad, HandleEvent, WInv, IInv, FileIsThere
  <2> QED
    BY <1>1, <1>3, <2>1 DEF InitialLoad, HandleEvent, LoadAndNotify,
                            PR!ReaderNext, PR!Load, PR!vars, PR!readerVars
<1>4. CASE RouterExit
  BY <1>1, <1>4 DEF RouterExit, PR!ReaderNext, PR!Forget, PR!vars, PR!readerVars
<1> QED
  BY <1>2, <1>3, <1>4 DEF WatcherStep

\* The watcher, over the writers' inodes and renames, is the reader of the
\* register: what it applies is whole, published, and was known.
THEOREM ReaderRefinement == WatchSpec => ImplementsPeerReader
<1>1. WatchInit => PR!ReaderInit
  BY DEF WatchInit, Init, PR!ReaderInit, PR!Init, Published
<1>2. WInv /\ [WatchNext]_allVars => [PR!ReaderNext]_(PR!readerVars)
  <2>1. CASE UNCHANGED allVars
    BY <2>1 DEF allVars, vars, storeVars, fileVars, watchVars, Published, Parses, PR!readerVars
  <2> QED
    BY <2>1, ContainerRefines, WatcherRefines DEF WatchNext
<1> QED
  BY <1>1, <1>2, WInvAlways, PTL DEF WatchSpec, ImplementsPeerReader, PR!ReaderSpec
=============================================================================
