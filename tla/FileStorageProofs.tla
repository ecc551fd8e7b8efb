------------------------- MODULE FileStorageProofs -------------------------
(***************************************************************************)
(* Theorems about FileStorage, for any number of stacks, hosts and inodes, *)
(* any timeout, any lengths of the document and any number of faults.      *)
(***************************************************************************)
EXTENDS FileStorage, TLAPS

-----------------------------------------------------------------------------
(* The inductive invariant.                                                *)

\* An inode has one name, and a call in progress has an inode open.
Names ==
    /\ tmp # NoInode => tmp # pub
    /\ \A g \in Writers : fd[g] \in Inode /\ doc[g] \in Doc

\* What a call in progress can still write to or rename spells nothing yet,
\* or the peers of the map.
OpenFilesAreCurrent ==
    \A g \in Writers :
        /\ data[fd[g]].table \in {NoTable, peers}
        /\ tmp # NoInode => data[tmp].table \in {NoTable, peers}

\* A call that no other overlapped works alone on the inode under the
\* temporary name, which holds its whole document once it has encoded it.
LoneWriter ==
    \A g \in Writers : ~overlapped[g] =>
        /\ Writers = {g}
        /\ tmp = fd[g]
        /\ data[tmp] = IF pc[g] = "created" THEN Blank
                       ELSE [table |-> peers, width |-> doc[g].width,
                             len |-> doc[g].width]

\* Inode i holds the peers of the map, or a call in progress will put them in.
Settled(i) ==
    \/ data[i].table = peers
    \/ \E g \in Writers : fd[g] = i /\ pc[g] = "created"

\* Unless a fault is to be made good, the file a call in progress leads to will
\* be settled: it is under the temporary name, or another call has renamed it
\* already.
CallsPublish ==
    ~owed /\ Writers # {}
        => IF tmp # NoInode THEN Settled(tmp)
           ELSE pub # NoInode /\ Settled(pub)

IInv ==
    /\ TypeOK
    /\ SnapshotIsCurrent
    /\ Names
    /\ OpenFilesAreCurrent
    /\ LoneWriter
    /\ CallsPublish
    /\ FreshAtRest

-----------------------------------------------------------------------------
(* Lemmas about the data.                                                  *)

LEMMA BlankIsContent == Blank \in Content
BY DEF Blank, Content

\* A write of a whole document gives a file that starts with it.
LEMMA OverwriteResult ==
    ASSUME NEW c \in Content, NEW d \in Doc
    PROVE  /\ Overwrite(c, d) \in Content
           /\ Overwrite(c, d).table = d.table
BY WidthsAssumption DEF Overwrite, Content, Doc

\* Into a blank file it gives exactly the document, and that parses.
LEMMA OverwriteBlank ==
    ASSUME NEW d \in Doc
    PROVE  /\ Overwrite(Blank, d)
                = [table |-> d.table, width |-> d.width, len |-> d.width]
           /\ Parses(Overwrite(Blank, d))
<1>1. d.width \in Nat \ {0} /\ d.table # NoTable
  BY WidthsAssumption, NoTableAssumption DEF Doc, Table
<1> QED  BY <1>1 DEF Overwrite, Blank, Parses

\* What a failed write leaves is content, and spells a document only if it
\* did before.
LEMMA FailedWrite ==
    ASSUME NEW c \in Content, NEW d \in Doc,
           NEW e \in {c} \cup {Partial(n) : n \in c.len .. (d.width - 1)}
    PROVE  e \in Content /\ (e = c \/ e.table = NoTable)
BY WidthsAssumption DEF Partial, Content, Doc

LEMMA NoDocIsNoDoc == NoDoc \notin Doc
BY NoTableAssumption DEF NoDoc, Doc, Table

-----------------------------------------------------------------------------
(* Type correctness.                                                       *)

LEMMA InitType == Init => TypeOK
<1> SUFFICES ASSUME Init PROVE TypeOK
  OBVIOUS
<1>1. peers \in Table /\ age \in [StackID -> 0 .. Timeout + 1]
  BY TimeoutAssumption DEF Init, Table, Empty
<1>2. data \in [Inode -> Content] /\ faults \in 0 .. MaxFaults
  BY FaultsAssumption, BlankIsContent DEF Init
<1>3. OpenWhileWriting
  BY DEF Init, OpenWhileWriting, Writing
<1> QED  BY <1>1, <1>2, <1>3 DEF Init, TypeOK

LEMMA FaultType ==
    ASSUME TypeOK, Fault
    PROVE  faults' \in 0 .. MaxFaults /\ owed' = TRUE
BY FaultsAssumption DEF TypeOK, Fault

LEMMA ReturnType ==
    ASSUME TypeOK, NEW g \in Goroutine, Return(g)
    PROVE  /\ pc' \in [Goroutine -> {"idle", "changed", "created", "encoded"}]
           /\ fd' \in [Goroutine -> Inode \cup {NoInode}]
           /\ doc' \in [Goroutine -> Doc \cup {NoDoc}]
           /\ overlapped' \in [Goroutine -> BOOLEAN]
           /\ OpenWhileWriting'
BY DEF TypeOK, Return, OpenWhileWriting, Writing

LEMMA WriteStepType ==
    ASSUME TypeOK, Names, NEW g \in Goroutine, WriteStep(g)
    PROVE  TypeOK'
<1>1. CASE CreateTemp(g)
  <2>1. PICK i \in Inode, w \in Widths :
            /\ tmp' = i
            /\ data' = [data EXCEPT ![i] = Blank]
            /\ fd' = [fd EXCEPT ![g] = i]
            /\ doc' = [doc EXCEPT ![g] = [table |-> peers, width |-> w]]
    BY <1>1 DEF CreateTemp
  <2>2. [table |-> peers, width |-> w] \in Doc
    BY DEF TypeOK, Doc
  <2>3. overlapped' \in [Goroutine -> BOOLEAN]
    BY <1>1 DEF CreateTemp, TypeOK, Writing
  <2>4. OpenWhileWriting'
    BY <1>1, <2>1, NoInodeAssumption DEF CreateTemp, TypeOK, OpenWhileWriting, Writing
  <2> QED  BY <1>1, <2>1, <2>2, <2>3, <2>4, BlankIsContent
           DEF CreateTemp, TypeOK, storeVars, faultVars
<1>2. CASE Encode(g)
  <2>1. g \in Writers
    BY <1>2 DEF Encode, Writers, Writing
  <2>2. Overwrite(data[fd[g]], doc[g]) \in Content
    BY <2>1, OverwriteResult DEF Names, TypeOK
  <2>3. OpenWhileWriting'
    BY <1>2 DEF Encode, TypeOK, OpenWhileWriting, Writing
  <2> QED  BY <1>2, <2>2, <2>3 DEF Encode, TypeOK, storeVars, faultVars
<1>3. CASE Rename(g)
  BY <1>3, ReturnType DEF Rename, TypeOK, storeVars, faultVars
<1> QED  BY <1>1, <1>2, <1>3 DEF WriteStep

LEMMA WriteFaultType ==
    ASSUME TypeOK, Names, NEW g \in Goroutine, WriteFault(g)
    PROVE  TypeOK'
<1>1. CASE CreateTempFails(g)
  BY <1>1, ReturnType, FaultType DEF CreateTempFails, TypeOK, storeVars, fileVars, faultVars
<1>2. CASE EncodeFails(g)
  <2>1. g \in Writers
    BY <1>2 DEF EncodeFails, Writers, Writing
  <2>2. PICK c \in {data[fd[g]]} \cup
                    {Partial(n) : n \in data[fd[g]].len .. (doc[g].width - 1)} :
            data' = [data EXCEPT ![fd[g]] = c]
    BY <1>2 DEF EncodeFails
  <2>3. c \in Content
    BY <2>1, <2>2, FailedWrite DEF Names, TypeOK
  <2> QED  BY <1>2, <2>2, <2>3, ReturnType, FaultType
           DEF EncodeFails, TypeOK, storeVars, faultVars
<1>3. CASE RenameFails(g)
  BY <1>3, ReturnType, FaultType DEF RenameFails, TypeOK, storeVars, fileVars, faultVars
<1> QED  BY <1>1, <1>2, <1>3 DEF WriteFault

LEMMA OtherType ==
    ASSUME TypeOK,
           \/ \E s \in StackID, h \in HostIP : AddPeer(s, h)
           \/ CleanupStale
           \/ Crash
           \/ Tick
           \/ UNCHANGED vars
    PROVE  TypeOK'
<1>1. ASSUME NEW s \in StackID, NEW h \in HostIP, AddPeer(s, h)
      PROVE  TypeOK'
  <2>1. peers' \in Table
    BY <1>1 DEF AddPeer, TypeOK, Table
  <2>2. age' \in [StackID -> 0 .. Timeout + 1]
    BY <1>1, TimeoutAssumption DEF AddPeer, TypeOK
  <2>3. pc' \in [Goroutine -> {"idle", "changed", "created", "encoded"}]
    BY <1>1 DEF AddPeer, TypeOK
  <2>4. OpenWhileWriting'
    BY <1>1 DEF AddPeer, TypeOK, OpenWhileWriting, Writing
  <2> QED  BY <1>1, <2>1, <2>2, <2>3, <2>4 DEF AddPeer, TypeOK, fileVars, faultVars
<1>2. CASE CleanupStale
  <2>1. peers' \in Table
    BY <1>2 DEF CleanupStale, TypeOK, Table
  <2>2. age' \in [StackID -> 0 .. Timeout + 1]
    BY <1>2, TimeoutAssumption DEF CleanupStale, TypeOK
  <2>3. pc' \in [Goroutine -> {"idle", "changed", "created", "encoded"}]
    BY <1>2 DEF CleanupStale, TypeOK
  <2>4. OpenWhileWriting'
    BY <1>2 DEF CleanupStale, TypeOK, OpenWhileWriting, Writing
  <2> QED  BY <1>2, <2>1, <2>2, <2>3, <2>4 DEF CleanupStale, TypeOK, fileVars, faultVars
<1>3. CASE Crash
  <2>1. peers' \in Table /\ age' \in [StackID -> 0 .. Timeout + 1]
    BY <1>3, TimeoutAssumption DEF Crash, Table, Empty
  <2>2. faults' \in 0 .. MaxFaults /\ owed' \in BOOLEAN
    BY <1>3, FaultType DEF Crash
  <2>3. OpenWhileWriting'
    BY <1>3 DEF Crash, OpenWhileWriting, Writing
  <2> QED  BY <1>3, <2>1, <2>2, <2>3 DEF Crash, TypeOK, fileVars
<1>4. CASE Tick
  BY <1>4, TimeoutAssumption DEF Tick, TypeOK, OpenWhileWriting, Writing,
                                 fileVars, callVars, faultVars
<1>5. CASE UNCHANGED vars
  BY <1>5 DEF vars, storeVars, fileVars, callVars, faultVars, TypeOK, OpenWhileWriting, Writing
<1> QED  BY <1>1, <1>2, <1>3, <1>4, <1>5

-----------------------------------------------------------------------------
(* The inductive invariant is preserved: one lemma per action.             *)

\* How the set of calls that hold the read lock changes.
LEMMA WritersAfterReturn ==
    ASSUME TypeOK, NEW g \in Goroutine, Return(g)
    PROVE  /\ Writers' = Writers \ {g}
           /\ \A h \in Writers' : /\ fd'[h] = fd[h] /\ doc'[h] = doc[h]
                                 /\ pc'[h] = pc[h]
                                 /\ overlapped'[h] = overlapped[h]
BY DEF Return, Writers, Writing, TypeOK

LEMMA CreateTempInv ==
    ASSUME IInv, NEW g \in Goroutine, CreateTemp(g)
    PROVE  IInv'
<1>1. PICK i \in Inode, w \in Widths :
        /\ OpenTemp(i)
        /\ tmp' = i
        /\ data' = [data EXCEPT ![i] = Blank]
        /\ fd' = [fd EXCEPT ![g] = i]
        /\ doc' = [doc EXCEPT ![g] = [table |-> peers, width |-> w]]
  BY DEF CreateTemp
<1>2. /\ TypeOK /\ pc[g] = "changed"
      /\ pc' = [pc EXCEPT ![g] = "created"]
      /\ peers' = peers /\ pub' = pub /\ owed' = owed
      /\ overlapped' = [h \in Goroutine |->
                            IF h = g THEN Writers # {}
                            ELSE overlapped[h] \/ Writing(h)]
  BY DEF CreateTemp, IInv, storeVars, faultVars
<1>3. Writers' = Writers \cup {g} /\ g \notin Writers
  BY <1>2 DEF Writers, Writing, TypeOK
<1>4. \A h \in Writers : /\ fd'[h] = fd[h] /\ doc'[h] = doc[h]
                         /\ pc'[h] = pc[h] /\ overlapped'[h]
  BY <1>1, <1>2, <1>3 DEF Writers, TypeOK
<1>5. /\ fd'[g] = i /\ doc'[g] = [table |-> peers, width |-> w]
      /\ pc'[g] = "created" /\ data'[i] = Blank
      /\ \A j \in Inode \ {i} : data'[j] = data[j]
  BY <1>1, <1>2 DEF TypeOK
<1>6. i # pub /\ i \in Inode
  BY <1>1, NoInodeAssumption DEF OpenTemp, IInv, Names
<1>7. TypeOK'
  BY WriteStepType DEF WriteStep, IInv
<1>8. SnapshotIsCurrent'
  BY <1>2, <1>3, <1>4, <1>5 DEF SnapshotIsCurrent, IInv
<1>9. Names'
  BY <1>1, <1>2, <1>3, <1>4, <1>5, <1>6 DEF Names, IInv, Doc, TypeOK
<1>10. OpenFilesAreCurrent'
  <2>1. \A h \in Writers : data'[fd[h]].table \in {NoTable, peers}
    BY <1>5, <1>6 DEF OpenFilesAreCurrent, Names, IInv, Blank
  <2> QED  BY <2>1, <1>1, <1>2, <1>3, <1>4, <1>5, <1>6
           DEF OpenFilesAreCurrent, Blank
<1>11. LoneWriter'
  BY <1>1, <1>2, <1>3, <1>4, <1>5 DEF LoneWriter, TypeOK
<1>12. CallsPublish'
  BY <1>1, <1>3, <1>5, <1>6, NoInodeAssumption DEF CallsPublish, Settled
<1>13. FreshAtRest'
  BY <1>5 DEF FreshAtRest
<1> QED  BY <1>7, <1>8, <1>9, <1>10, <1>11, <1>12, <1>13 DEF IInv

LEMMA EncodeInv ==
    ASSUME IInv, NEW g \in Goroutine, Encode(g)
    PROVE  IInv'
<1>1. /\ TypeOK /\ g \in Writers /\ pc[g] = "created"
      /\ data' = [data EXCEPT ![fd[g]] = Overwrite(@, doc[g])]
      /\ pc' = [pc EXCEPT ![g] = "encoded"]
      /\ UNCHANGED <<peers, doc, fd, overlapped, tmp, pub, owed>>
  BY DEF Encode, IInv, storeVars, faultVars, Writers, Writing
<1>2. Writers' = Writers /\ \A h \in Writers \ {g} : pc'[h] = pc[h]
  BY <1>1 DEF Writers, Writing, TypeOK
<1>3. fd[g] \in Inode /\ doc[g] \in Doc /\ doc[g].table = peers
  BY <1>1 DEF IInv, Names, SnapshotIsCurrent
<1>4. /\ data'[fd[g]] = Overwrite(data[fd[g]], doc[g])
      /\ data'[fd[g]].table = peers
      /\ \A j \in Inode \ {fd[g]} : data'[j] = data[j]
  BY <1>1, <1>3, OverwriteResult DEF TypeOK
<1>5. TypeOK'
  BY WriteStepType DEF WriteStep, IInv
<1>6. SnapshotIsCurrent' /\ Names'
  BY <1>1, <1>2 DEF SnapshotIsCurrent, Names, IInv
<1>7. OpenFilesAreCurrent'
  <2>1. \A h \in Writers : fd[h] \in Inode
    BY DEF IInv, Names
  <2>2. \A h \in Writers : data'[fd[h]].table \in {NoTable, peers}
    BY <1>4, <2>1 DEF IInv, OpenFilesAreCurrent
  <2>3. tmp # NoInode => data'[tmp].table \in {NoTable, peers}
    BY <1>1, <1>4 DEF IInv, OpenFilesAreCurrent, TypeOK
  <2> QED  BY <1>1, <1>2, <2>2, <2>3 DEF OpenFilesAreCurrent
<1>8. LoneWriter'
  <2> SUFFICES ASSUME NEW h \in Writers, ~overlapped[h]
               PROVE  /\ Writers = {h}
                      /\ tmp = fd[h]
                      /\ data'[tmp] = IF pc'[h] = "created" THEN Blank
                            ELSE [table |-> peers, width |-> doc[h].width,
                                  len |-> doc[h].width]
    BY <1>1, <1>2 DEF LoneWriter
  <2>1. Writers = {h} /\ tmp = fd[h] /\ h = g
    BY <1>1 DEF IInv, LoneWriter
  <2>2. data[fd[g]] = Blank
    BY <1>1, <2>1 DEF IInv, LoneWriter
  <2>3. pc'[g] = "encoded"
    BY <1>1 DEF TypeOK
  <2> QED  BY <2>1, <2>2, <2>3, <1>3, <1>4, OverwriteBlank
<1>9. CallsPublish'
  <2>1. \A j \in Inode : Settled(j) => Settled(j)'
    BY <1>1, <1>2, <1>3, <1>4 DEF Settled
  <2> QED  BY <1>1, <1>2, <2>1 DEF CallsPublish, IInv, TypeOK
<1>10. FreshAtRest'
  BY <1>1 DEF FreshAtRest, TypeOK
<1> QED  BY <1>5, <1>6, <1>7, <1>8, <1>9, <1>10 DEF IInv

LEMMA RenameInv ==
    ASSUME IInv, NEW g \in Goroutine, Rename(g)
    PROVE  IInv'
<1>1. /\ TypeOK /\ g \in Writers /\ pc[g] = "encoded" /\ Return(g)
      /\ pub' = IF tmp = NoInode THEN pub ELSE tmp
      /\ tmp' = NoInode
      /\ UNCHANGED <<peers, data>>
  BY DEF Rename, IInv, storeVars, faultVars, Writers, Writing
<1>2. /\ Writers' = Writers \ {g}
      /\ \A h \in Writers' : /\ fd'[h] = fd[h] /\ doc'[h] = doc[h]
                            /\ pc'[h] = pc[h] /\ overlapped'[h] = overlapped[h]
  BY <1>1, WritersAfterReturn
<1>3. TypeOK'
  BY WriteStepType DEF WriteStep, IInv
<1>4. SnapshotIsCurrent' /\ Names' /\ OpenFilesAreCurrent'
  BY <1>1, <1>2 DEF SnapshotIsCurrent, Names, OpenFilesAreCurrent, IInv
<1>5. LoneWriter'
  BY <1>1, <1>2 DEF LoneWriter, IInv
<1>6. ~owed' => pub' # NoInode /\ Settled(pub')
  <2>1. CASE ~owed
    BY <1>1, <2>1 DEF CallsPublish, IInv
  <2>2. CASE ~overlapped[g]
    <3>1. /\ tmp = fd[g] /\ fd[g] \in Inode
          /\ data[tmp] = [table |-> peers, width |-> doc[g].width,
                           len |-> doc[g].width]
      BY <1>1, <2>2 DEF LoneWriter, Names, IInv
    <3> QED  BY <1>1, <3>1, NoInodeAssumption DEF Settled
  <2>3. owed' = (owed /\ overlapped[g])
    BY DEF Rename
  <2> QED  BY <2>1, <2>2, <2>3
<1>7. \A j \in Inode : Settled(j) =>
            \/ data'[j].table = peers'
            \/ \E h \in Writers' : fd'[h] = j /\ pc'[h] = "created"
  BY <1>1, <1>2 DEF Settled
<1>8. CallsPublish'
  BY <1>1, <1>3, <1>6, <1>7 DEF CallsPublish, Settled, TypeOK
<1>9. FreshAtRest'
  <2> SUFFICES ASSUME ~owed', \A h \in Goroutine : pc'[h] = "idle"
               PROVE  pub' # NoInode /\ data'[pub'].table = peers'
    BY <1>1 DEF FreshAtRest
  <2>1. Writers' = {}
    BY DEF Writers, Writing
  <2> QED  BY <1>3, <1>6, <1>7, <2>1 DEF TypeOK
<1> QED  BY <1>3, <1>4, <1>5, <1>8, <1>9 DEF IInv

LEMMA WriteFaultInv ==
    ASSUME IInv, NEW g \in Goroutine, WriteFault(g)
    PROVE  IInv'
<1>1. /\ TypeOK /\ TypeOK' /\ owed' /\ Return(g)
      /\ UNCHANGED <<peers, tmp, pub>>
  BY WriteFaultType, FaultType
     DEF WriteFault, CreateTempFails, EncodeFails, RenameFails, IInv,
         storeVars, fileVars, faultVars
<1>2. /\ Writers' = Writers \ {g}
      /\ \A h \in Writers' : /\ fd'[h] = fd[h] /\ doc'[h] = doc[h]
                            /\ pc'[h] = pc[h] /\ overlapped'[h] = overlapped[h]
  BY <1>1, WritersAfterReturn
<1>3. SnapshotIsCurrent' /\ Names'
  BY <1>1, <1>2 DEF SnapshotIsCurrent, Names, IInv
<1>4. data' = data \/ g \in Writers
  BY DEF WriteFault, CreateTempFails, EncodeFails, RenameFails, fileVars, faultVars,
         Writers, Writing
<1>5. \A j \in Inode : data'[j] = data[j] \/ data'[j].table = NoTable
  <2>1. CASE EncodeFails(g)
    <3>1. g \in Writers
      BY <2>1 DEF EncodeFails, Writers, Writing
    <3>2. PICK c \in {data[fd[g]]} \cup
                      {Partial(n) : n \in data[fd[g]].len .. (doc[g].width - 1)} :
              data' = [data EXCEPT ![fd[g]] = c]
      BY <2>1 DEF EncodeFails
    <3>3. c = data[fd[g]] \/ c.table = NoTable
      BY <1>1, <3>1, <3>2, FailedWrite DEF IInv, Names, TypeOK
    <3> QED  BY <1>1, <3>2, <3>3 DEF TypeOK
  <2> QED  BY <2>1 DEF WriteFault, CreateTempFails, RenameFails, fileVars, faultVars
<1>6. OpenFilesAreCurrent'
  BY <1>1, <1>2, <1>5 DEF OpenFilesAreCurrent, Names, IInv, TypeOK
<1>7. LoneWriter'
  BY <1>1, <1>2, <1>4, <1>3 DEF LoneWriter, SnapshotIsCurrent, IInv
<1>8. CallsPublish' /\ FreshAtRest'
  BY <1>1 DEF CallsPublish, FreshAtRest
<1> QED  BY <1>1, <1>3, <1>6, <1>7, <1>8 DEF IInv

\* The map changes only while no call is in progress.
LEMMA MapChangeInv ==
    ASSUME IInv,
           \/ \E s \in StackID, h \in HostIP : AddPeer(s, h)
           \/ CleanupStale
    PROVE  IInv'
<1>1. /\ TypeOK /\ TypeOK' /\ Writers = {}
      /\ UNCHANGED <<doc, fd, overlapped, tmp, pub, data, owed>>
  BY OtherType DEF AddPeer, CleanupStale, Unlocked, fileVars, faultVars, IInv
<1>2. \E g \in Goroutine : pc' = [pc EXCEPT ![g] = "changed"]
  BY DEF AddPeer, CleanupStale, Goroutine
<1>3. Writers' = {} /\ \E g \in Goroutine : pc'[g] = "changed"
  BY <1>1, <1>2 DEF Writers, Writing, TypeOK
<1>4. Names'
  BY <1>1, <1>3 DEF Names, IInv
<1> QED
  BY <1>1, <1>3, <1>4
     DEF IInv, SnapshotIsCurrent, OpenFilesAreCurrent, LoneWriter,
         CallsPublish, FreshAtRest

LEMMA CrashInv ==
    ASSUME IInv, Crash
    PROVE  IInv'
<1>1. TypeOK' /\ owed' /\ UNCHANGED <<tmp, pub, data>>
  BY OtherType, FaultType DEF Crash, fileVars, faultVars, IInv
<1>2. Writers' = {}
  BY DEF Crash, Writers, Writing
<1> QED
  BY <1>1, <1>2
     DEF IInv, SnapshotIsCurrent, Names, OpenFilesAreCurrent, LoneWriter,
         CallsPublish, FreshAtRest

LEMMA QuietInv ==
    ASSUME IInv, Tick \/ UNCHANGED vars
    PROVE  IInv'
<1>1. TypeOK'
  BY OtherType DEF IInv
<1>2. UNCHANGED <<peers, pc, doc, fd, overlapped, tmp, pub, data, owed>>
  BY DEF Tick, vars, storeVars, fileVars, callVars, faultVars
<1>3. Writers' = Writers
  BY <1>2 DEF Writers, Writing
<1> QED
  BY <1>1, <1>2, <1>3
     DEF IInv, SnapshotIsCurrent, Names, OpenFilesAreCurrent, LoneWriter,
         CallsPublish, Settled, FreshAtRest

LEMMA InitInv == Init => IInv
<1> SUFFICES ASSUME Init PROVE IInv
  OBVIOUS
<1>1. TypeOK
  BY InitType
<1>2. Writers = {}
  BY DEF Init, Writers, Writing
<1> QED
  BY <1>1, <1>2
     DEF Init, IInv, SnapshotIsCurrent, Names, OpenFilesAreCurrent,
         LoneWriter, CallsPublish, FreshAtRest

LEMMA NextInv == IInv /\ [Next]_vars => IInv'
<1> SUFFICES ASSUME IInv, [Next]_vars PROVE IInv'
  OBVIOUS
<1>1. ASSUME NEW s \in StackID, NEW h \in HostIP, AddPeer(s, h) PROVE IInv'
  BY <1>1, MapChangeInv
<1>2. CASE CleanupStale
  BY <1>2, MapChangeInv
<1>3. ASSUME NEW g \in Goroutine, WriteStep(g) PROVE IInv'
  BY <1>3, CreateTempInv, EncodeInv, RenameInv DEF WriteStep
<1>4. ASSUME NEW g \in Goroutine, WriteFault(g) PROVE IInv'
  BY <1>4, WriteFaultInv
<1>5. CASE Crash
  BY <1>5, CrashInv
<1>6. CASE Tick \/ UNCHANGED vars
  BY <1>6, QuietInv
<1> QED  BY <1>1, <1>2, <1>3, <1>4, <1>5, <1>6 DEF Next

LEMMA Invariance == Spec => []IInv
BY InitInv, NextInv, PTL DEF Spec

-----------------------------------------------------------------------------
(* The theorems.                                                           *)

\* Every variable keeps its type in every behaviour (file.go:21-25).
THEOREM TypeCorrect == Spec => []TypeOK
<1>1. IInv => TypeOK
  BY DEF IInv
<1> QED  BY <1>1, Invariance, PTL

\* The copy of the map that a call encodes is the map until it renames,
\* for both calls when they overlap (file.go:81-112).
THEOREM SnapshotCorrect == Spec => []SnapshotIsCurrent
<1>1. IInv => SnapshotIsCurrent
  BY DEF IInv
<1> QED  BY <1>1, Invariance, PTL

\* No change of the map stays unpublished once both goroutines have returned,
\* without a fault or after a call that made it good (file.go:112-114).
THEOREM RestCorrect == Spec => []FreshAtRest
<1>1. IInv => FreshAtRest
  BY DEF IInv
<1> QED  BY <1>1, Invariance, PTL

\* The steps that do not touch the files under discovery.json.
LEMMA PublishedUnchanged ==
    ASSUME UNCHANGED pub, pub # NoInode => data'[pub] = data[pub]
    PROVE  Published' = Published
BY DEF Published, Parses

\* How each step may change what a reader of discovery.json gets.
LEMMA PublishedStep ==
    ASSUME IInv, [Next]_vars, Published' # Published
    PROVE  /\ UNCHANGED peers
           /\ Published' \in {peers, Broken}
           /\ Published' = Broken => \E g \in Writers : overlapped[g]
<1>1. ASSUME NEW g \in Goroutine, CreateTemp(g) PROVE FALSE
  <2>1. PICK i \in Inode : data' = [data EXCEPT ![i] = Blank] /\ OpenTemp(i)
    BY <1>1 DEF CreateTemp
  <2>2. i # pub
    BY <2>1, NoInodeAssumption DEF OpenTemp, IInv, Names
  <2> QED  BY <1>1, <2>1, <2>2, PublishedUnchanged
           DEF CreateTemp, IInv, TypeOK
<1>2. ASSUME NEW g \in Writers, UNCHANGED <<peers, pub>>,
             NEW c \in Content, data' = [data EXCEPT ![fd[g]] = c],
             c.table \in {NoTable, peers}
      PROVE  /\ UNCHANGED peers
             /\ Published' \in {peers, Broken}
             /\ \E h \in Writers : overlapped[h]
  <2>1. fd[g] \in Inode /\ pub \in Inode \cup {NoInode} /\ data \in [Inode -> Content]
    BY DEF IInv, Names, TypeOK
  <2>2. pub = fd[g]
    BY <1>2, <2>1, PublishedUnchanged
  <2>3. data'[pub] = c /\ pub # NoInode
    BY <1>2, <2>1, <2>2, NoInodeAssumption
  <2>4. Published' \in {peers, Broken}
    BY <1>2, <2>3 DEF Published, Parses
  <2>5. overlapped[g]
    BY <2>2, <2>3 DEF IInv, LoneWriter, Names
  <2> QED  BY <1>2, <2>4, <2>5
<1>3. ASSUME NEW g \in Goroutine, Encode(g)
      PROVE  /\ UNCHANGED peers
             /\ Published' \in {peers, Broken}
             /\ \E h \in Writers : overlapped[h]
  <2>1. g \in Writers
    BY <1>3 DEF Encode, Writers, Writing
  <2>2. fd[g] \in Inode /\ doc[g] \in Doc /\ doc[g].table = peers
    BY <2>1 DEF IInv, Names, SnapshotIsCurrent
  <2>3. /\ Overwrite(data[fd[g]], doc[g]) \in Content
        /\ Overwrite(data[fd[g]], doc[g]).table = peers
    BY <2>2, OverwriteResult DEF IInv, TypeOK
  <2> QED  BY <1>2, <1>3, <2>1, <2>3 DEF Encode, storeVars, faultVars
<1>4. ASSUME NEW g \in Goroutine, EncodeFails(g)
      PROVE  /\ UNCHANGED peers
             /\ Published' \in {peers, Broken}
             /\ \E h \in Writers : overlapped[h]
  <2>1. g \in Writers
    BY <1>4 DEF EncodeFails, Writers, Writing
  <2>2. PICK c \in {data[fd[g]]} \cup
                    {Partial(n) : n \in data[fd[g]].len .. (doc[g].width - 1)} :
            data' = [data EXCEPT ![fd[g]] = c]
    BY <1>4 DEF EncodeFails
  <2>3. c \in Content /\ (c = data[fd[g]] \/ c.table = NoTable)
    BY <2>1, <2>2, FailedWrite DEF IInv, Names, TypeOK
  <2>4. c.table \in {NoTable, peers}
    BY <2>1, <2>3 DEF IInv, OpenFilesAreCurrent
  <2> QED  BY <1>2, <1>4, <2>1, <2>2, <2>3, <2>4 DEF EncodeFails, storeVars, faultVars
<1>5. ASSUME NEW g \in Goroutine, Rename(g)
      PROVE  /\ UNCHANGED peers
             /\ Published' \in {peers, Broken}
             /\ Published' = Broken => \E h \in Writers : overlapped[h]
  <2>1. /\ g \in Writers /\ pc[g] = "encoded"
        /\ UNCHANGED <<peers, data>>
        /\ tmp # NoInode => pub' = tmp
        /\ tmp = NoInode => pub' = pub
    BY <1>5 DEF Rename, storeVars, faultVars, Writers, Writing
  <2>2. tmp # NoInode /\ pub' = tmp
    BY <2>1, PublishedUnchanged
  <2>3. Published' \in {peers, Broken}
    BY <2>1, <2>2 DEF Published, Parses, IInv, OpenFilesAreCurrent
  <2>4. ASSUME ~overlapped[g] PROVE Published' # Broken
    <3>1. /\ doc[g] \in Doc /\ doc[g].table = peers
          /\ data[tmp] = [table |-> peers, width |-> doc[g].width,
                           len |-> doc[g].width]
      BY <2>1, <2>4 DEF IInv, Names, LoneWriter, SnapshotIsCurrent
    <3>2. data[tmp] = Overwrite(Blank, doc[g]) /\ Parses(data[tmp])
      BY <3>1, OverwriteBlank
    <3>3. Published' = peers
      BY <2>1, <2>2, <3>1, <3>2 DEF Published, Parses
    <3>4. peers # Broken
      BY NoTableAssumption DEF IInv, TypeOK, Table
    <3> QED  BY <3>3, <3>4
  <2> QED  BY <2>1, <2>3, <2>4
<1>6. ASSUME \/ \E s \in StackID, h \in HostIP : AddPeer(s, h)
             \/ CleanupStale \/ Crash \/ Tick \/ UNCHANGED vars
             \/ \E g \in Goroutine : CreateTempFails(g) \/ RenameFails(g)
      PROVE  FALSE
  <2>1. UNCHANGED <<pub, data>>
    BY <1>6 DEF AddPeer, CleanupStale, Crash, Tick, vars, CreateTempFails,
                RenameFails, fileVars, faultVars
  <2> QED  BY <2>1, PublishedUnchanged
<1> QED
  BY <1>1, <1>3, <1>4, <1>5, <1>6 DEF Next, WriteStep, WriteFault

\* A reader never gets a mixture of two sets of peers, nor peers older than
\* those the map holds at the moment of the change (file.go:80-117).
THEOREM PublishCorrect == Spec => PublishesTheMap
<1>1. IInv /\ [Next]_vars
        => [Published' # Published => Published' \in {peers, Broken}]_vars
  BY PublishedStep
<1> QED  BY <1>1, Invariance, PTL DEF Spec, PublishesTheMap

\* Only a call that overlapped another can leave a file that does not parse:
\* with one writer the rename is atomic, crashes included (file.go:96-114).
THEOREM TearCorrect == Spec => OnlyOverlapTears
<1>1. IInv /\ [Next]_vars
        => [Published # Broken /\ Published' = Broken
              => \E g \in Writers : overlapped[g]]_vars
  BY PublishedStep
<1> QED  BY <1>1, Invariance, PTL DEF Spec, OnlyOverlapTears

\* A call that ran alone has published the map when it returns without an
\* error, whatever faults have left behind (file.go:96-114).
THEOREM LoneCorrect == Spec => LoneWriterPublishes
<1>1. ASSUME IInv, NEW g \in Goroutine, Rename(g), ~overlapped[g]
      PROVE  Published' = peers
  <2>1. g \in Writers /\ pc[g] = "encoded"
    BY <1>1 DEF Rename, Writers, Writing
  <2>2. /\ tmp = fd[g] /\ fd[g] \in Inode
        /\ doc[g] \in Doc /\ doc[g].table = peers
        /\ data[tmp] = [table |-> peers, width |-> doc[g].width,
                         len |-> doc[g].width]
    BY <1>1, <2>1 DEF IInv, Names, LoneWriter, SnapshotIsCurrent
  <2>3. data[tmp] = Overwrite(Blank, doc[g]) /\ Parses(data[tmp])
    BY <2>2, OverwriteBlank
  <2>4. pub' = tmp /\ data' = data /\ tmp # NoInode
    BY <1>1, <2>2, NoInodeAssumption DEF Rename
  <2> QED  BY <2>2, <2>3, <2>4 DEF Published, Parses
<1>2. IInv /\ [Next]_vars
        => [\A g \in Goroutine :
              Rename(g) /\ ~overlapped[g] => Published' = peers]_vars
  BY <1>1
<1> QED  BY <1>2, Invariance, PTL DEF Spec, LoneWriterPublishes

\* The lock, the temporary file and the two writers implement the register
\* that PeerFile describes.
THEOREM Refinement == Spec => ImplementsPeerFile
<1>1. Init => PF!Init
  BY DEF Init, PF!Init, Published
<1>2. IInv /\ TypeOK' /\ [Next]_vars => [PF!Next]_(PF!vars)
  <2> SUFFICES ASSUME IInv, TypeOK', [Next]_vars, UNCHANGED PF!vars => FALSE
               PROVE  PF!Next
    OBVIOUS
  <2>1. CASE Published' = Published
    BY <2>1 DEF TypeOK, PF!Next, PF!Change, PF!vars
  <2>2. CASE Published' # Published
    BY <2>2, PublishedStep DEF PF!Next, PF!Publish, PF!Tear
  <2> QED  BY <2>1, <2>2
<1>3. IInv => TypeOK
  BY DEF IInv
<1> QED  BY <1>1, <1>2, <1>3, Invariance, PTL DEF Spec, ImplementsPeerFile, PF!Spec

=============================================================================
