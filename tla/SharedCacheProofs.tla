------------------------- MODULE SharedCacheProofs -------------------------
(***************************************************************************)
(* Proofs about SharedCache, for any set of processes, any set of keys and *)
(* paths and any TTL: the type invariant, the discipline of the file lock, *)
(* that a save never loses what the process holds (also without the lock   *)
(* and with an unreadable file), that with the lock no interleaving of     *)
(* saves and prunes loses an entry, and that the cache then implements     *)
(* KeptEntries.                                                            *)
(***************************************************************************)
EXTENDS SharedCache, TLAPS

(* What a process about to write owes its own memory.                      *)
SaveCoversMemory ==
    \A p \in Procs : pc[p] = "saving" => Held(mem[p]) \subseteq Held(buf[p])

(* What a process about to write owes the file: a save covers it; a prune  *)
(* has it in memory, and leaves out of the image only what it may remove.  *)
SaveCoversFile(p) ==
    pc[p] = "saving" => Held(file) \subseteq Held(buf[p])

PruneCoversFile(p) ==
    pc[p] = "pruning" =>
        /\ Held(file) \subseteq Held(mem[p])
        /\ \A k \in Held(mem[p]) : buf[p][k] = Absent => Removable(p, k)

WritersCoverFile ==
    Locked /\ ~ReadsFail =>
        \A p \in Procs : SaveCoversFile(p) /\ PruneCoversFile(p)

(* What a prune is about to write it has in memory: it only leaves out.    *)
PruneWithinMemory ==
    \A p \in Procs : pc[p] = "pruning" => Held(buf[p]) \subseteq Held(mem[p])

IInv ==
    /\ TypeOK
    /\ LockHeldByWriter
    /\ SaveCoversMemory
    /\ PruneWithinMemory
    /\ WritersCoverFile

----------------------------------------------------------------------------
(* The merge is an image that has every entry of either side.              *)
LEMMA OverlayCovers ==
    ASSUME NEW mine \in Image, NEW disk \in Image
    PROVE  /\ Overlay(mine, disk) \in Image
           /\ Held(mine) \subseteq Held(Overlay(mine, disk))
           /\ Held(disk) \subseteq Held(Overlay(mine, disk))
  BY ConstantsOK DEF Overlay, Image, Entry, Held

(* Whatever is read is an image, and the file itself if reads succeed.     *)
LEMMA DiskImagesOK ==
    ASSUME TypeOK
    PROVE  /\ DiskImages \subseteq Image
           /\ ~ReadsFail => DiskImages = {file}
           /\ NoEntries \in Image
  BY DEF TypeOK, DiskImages, NoEntries, Image, Entry

(* The initial states satisfy the type invariant.                          *)
LEMMA InitTypeOK == Init => TypeOK
  BY ConstantsOK DEF Init, TypeOK, Image, Entry, NoEntries

(* Every step preserves the type invariant.                                *)
LEMMA NextTypeOK == TypeOK /\ [Next]_vars => TypeOK'
<1> SUFFICES ASSUME TypeOK, [Next]_vars PROVE TypeOK'
  OBVIOUS
<1> USE DEF TypeOK
<1>0. NoEntries \in Image /\ DiskImages \subseteq Image
  BY DiskImagesOK
<1>1. CASE Tick
  BY <1>1 DEF Tick
<1>2. ASSUME NEW path \in Paths, RepoChange(path) PROVE TypeOK'
  BY <1>2 DEF RepoChange
<1>3. ASSUME NEW p \in Procs, Open(p) PROVE TypeOK'
  BY <1>3, <1>0 DEF Open
<1>4. ASSUME NEW p \in Procs, Exit(p) PROVE TypeOK'
  BY <1>4, <1>0 DEF Exit, Release
<1>5. ASSUME NEW p \in Procs, Clear(p) PROVE TypeOK'
  BY <1>5, <1>0 DEF Clear
<1>6. ASSUME NEW p \in Procs, SaveMerge(p) PROVE TypeOK'
  <2>1. PICK disk \in DiskImages :
          buf' = [buf EXCEPT ![p] = Overlay(mem[p], disk)]
    BY <1>6 DEF SaveMerge
  <2>2. Overlay(mem[p], disk) \in Image
    BY <1>0, OverlayCovers
  <2>. QED BY <1>6, <2>1, <2>2 DEF SaveMerge, Acquire
<1>7. ASSUME NEW p \in Procs, SaveWrite(p) PROVE TypeOK'
  BY <1>7, <1>0 DEF SaveWrite, Release
<1>8. ASSUME NEW p \in Procs, SaveFail(p) PROVE TypeOK'
  BY <1>8, <1>0 DEF SaveFail, Release
<1>9. ASSUME NEW p \in Procs, PruneScan(p) PROVE TypeOK'
  BY <1>9 DEF PruneScan
<1>10. ASSUME NEW p \in Procs, NEW dryRun \in BOOLEAN, PruneMerge(p, dryRun)
       PROVE  TypeOK'
  <2>1. PICK disk \in DiskImages :
          \/ PruneNothing(p, Overlay(mem[p], disk))
          \/ PruneDecide(p, Overlay(mem[p], disk))
    BY <1>10 DEF PruneMerge
  <2>2. Overlay(mem[p], disk) \in Image
    BY <1>0, OverlayCovers
  <2>3. CASE PruneNothing(p, Overlay(mem[p], disk))
    BY <1>10, <2>2, <2>3 DEF PruneMerge, PruneNothing
  <2>4. CASE PruneDecide(p, Overlay(mem[p], disk))
    <3>1. buf' \in [Procs -> Image]
      BY <2>2, <2>4 DEF PruneDecide, Image, Entry
    <3>. QED BY <1>10, <2>2, <2>4, <3>1 DEF PruneMerge, PruneDecide, Acquire
  <2>. QED BY <2>1, <2>3, <2>4
<1>11. ASSUME NEW p \in Procs, PruneWrite(p) PROVE TypeOK'
  BY <1>11, <1>0 DEF PruneWrite, Release
<1>12. ASSUME NEW p \in Procs, NEW k \in Keys, Put(p, k) PROVE TypeOK'
  BY <1>12 DEF Put, Image, Entry
<1>13. ASSUME NEW p \in Procs, NEW k \in Keys, Invalidate(p, k) PROVE TypeOK'
  BY <1>13 DEF Invalidate, Image, Entry
<1>14. CASE UNCHANGED vars
  BY <1>14 DEF vars
<1>. QED
  BY <1>1, <1>2, <1>3, <1>4, <1>5, <1>6, <1>7, <1>8, <1>9, <1>10, <1>11,
     <1>12, <1>13, <1>14 DEF Next

(* SharedCache is well typed: in every reachable state the file, every     *)
(* process's memory and every image about to be written map keys to        *)
(* entries.                                                                *)
THEOREM TypeCorrect == Spec => []TypeOK
<1>1. Init => TypeOK
  BY InitTypeOK
<1>2. TypeOK /\ [Next]_vars => TypeOK'
  BY NextTypeOK
<1>. QED BY <1>1, <1>2, PTL DEF Spec

----------------------------------------------------------------------------
(* Every step preserves the discipline of the lock.                        *)
LEMMA NextLockHeld ==
    TypeOK /\ LockHeldByWriter /\ [Next]_vars => LockHeldByWriter'
<1> SUFFICES ASSUME TypeOK, LockHeldByWriter, [Next]_vars, Locked,
                    NEW q \in Procs
             PROVE  (lock = q <=> pc[q] \in {"saving", "pruning"})'
  BY DEF LockHeldByWriter
<1> DEFINE HeldBy(r) == lock = r <=> pc[r] \in {"saving", "pruning"}
<1> USE ConstantsOK DEF TypeOK, LockHeldByWriter
<1>1. CASE Tick
  BY <1>1 DEF Tick
<1>2. CASE \E path \in Paths : RepoChange(path)
  BY <1>2 DEF RepoChange
<1>3. ASSUME NEW p \in Procs, Open(p) PROVE HeldBy(q)'
  BY <1>3 DEF Open
<1>4. ASSUME NEW p \in Procs, Exit(p) PROVE HeldBy(q)'
  BY <1>4 DEF Exit, Release
<1>5. ASSUME NEW p \in Procs, Clear(p) PROVE HeldBy(q)'
  BY <1>5 DEF Clear
<1>6. ASSUME NEW p \in Procs, SaveMerge(p) PROVE HeldBy(q)'
  BY <1>6 DEF SaveMerge, Acquire, LockFree
<1>7. ASSUME NEW p \in Procs, SaveWrite(p) PROVE HeldBy(q)'
  BY <1>7 DEF SaveWrite, Release
<1>8. ASSUME NEW p \in Procs, SaveFail(p) PROVE HeldBy(q)'
  BY <1>8 DEF SaveFail, Release
<1>9. ASSUME NEW p \in Procs, PruneScan(p) PROVE HeldBy(q)'
  BY <1>9 DEF PruneScan
<1>10. ASSUME NEW p \in Procs, NEW dryRun \in BOOLEAN, PruneMerge(p, dryRun)
       PROVE  HeldBy(q)'
  BY <1>10 DEF PruneMerge, PruneNothing, PruneDecide, Acquire, LockFree
<1>11. ASSUME NEW p \in Procs, PruneWrite(p) PROVE HeldBy(q)'
  BY <1>11 DEF PruneWrite, Release
<1>12. ASSUME NEW p \in Procs, NEW k \in Keys, Put(p, k) \/ Invalidate(p, k)
       PROVE  HeldBy(q)'
  BY <1>12 DEF Put, Invalidate
<1>13. CASE UNCHANGED vars
  BY <1>13 DEF vars
<1>. QED
  BY <1>1, <1>2, <1>3, <1>4, <1>5, <1>6, <1>7, <1>8, <1>9, <1>10, <1>11,
     <1>12, <1>13 DEF Next

(* Every step preserves that a save covers the memory of its process: only *)
(* the merge fills the image, and memory does not change until the write.  *)
LEMMA NextSaveCoversMemory ==
    TypeOK /\ SaveCoversMemory /\ [Next]_vars => SaveCoversMemory'
<1> SUFFICES ASSUME TypeOK, SaveCoversMemory, [Next]_vars,
                    NEW q \in Procs, pc'[q] = "saving"
             PROVE  Held(mem[q])' \subseteq Held(buf[q])'
  BY DEF SaveCoversMemory
<1> USE DEF TypeOK
<1>1. CASE UNCHANGED <<pc[q], mem[q], buf[q]>>
  BY <1>1 DEF SaveCoversMemory, Held
<1>2. CASE SaveMerge(q)
  <2>1. PICK disk \in DiskImages :
          buf' = [buf EXCEPT ![q] = Overlay(mem[q], disk)]
    BY <1>2 DEF SaveMerge
  <2>2. Held(mem[q]) \subseteq Held(Overlay(mem[q], disk))
    BY DiskImagesOK, OverlayCovers
  <2>3. mem' = mem /\ buf'[q] = Overlay(mem[q], disk)
    BY <1>2, <2>1 DEF SaveMerge
  <2>. QED BY <2>2, <2>3 DEF Held
<1>3. ASSUME NEW p \in Procs, p # q \/ ~SaveMerge(q),
             \/ Open(p) \/ Exit(p) \/ Clear(p) \/ SaveMerge(p) \/ SaveWrite(p)
             \/ SaveFail(p) \/ PruneScan(p) \/ PruneWrite(p)
      PROVE  UNCHANGED <<pc[q], mem[q], buf[q]>>
  BY <1>3 DEF Open, Exit, Clear, SaveMerge, SaveWrite, SaveFail, PruneScan,
              PruneWrite
<1>4. ASSUME NEW p \in Procs, NEW dryRun \in BOOLEAN, PruneMerge(p, dryRun)
      PROVE  UNCHANGED <<pc[q], mem[q], buf[q]>>
  BY <1>4 DEF PruneMerge, PruneNothing, PruneDecide
<1>5. ASSUME NEW p \in Procs, NEW k \in Keys, Put(p, k) \/ Invalidate(p, k)
      PROVE  UNCHANGED <<pc[q], mem[q], buf[q]>>
  BY <1>5 DEF Put, Invalidate
<1>6. Tick \/ (\E path \in Paths : RepoChange(path)) \/ UNCHANGED vars
        => UNCHANGED <<pc[q], mem[q], buf[q]>>
  BY DEF Tick, RepoChange, vars
<1>. QED BY <1>1, <1>2, <1>3, <1>4, <1>5, <1>6 DEF Next

(* Every step preserves that a prune only leaves out: its image is made of *)
(* the memory of its process, which does not change until the write.       *)
LEMMA NextPruneWithinMemory ==
    TypeOK /\ PruneWithinMemory /\ [Next]_vars => PruneWithinMemory'
<1> SUFFICES ASSUME TypeOK, PruneWithinMemory, [Next]_vars,
                    NEW q \in Procs, pc'[q] = "pruning"
             PROVE  Held(buf[q])' \subseteq Held(mem[q])'
  BY DEF PruneWithinMemory
<1> USE DEF TypeOK
<1>1. CASE UNCHANGED <<pc[q], mem[q], buf[q]>>
  BY <1>1 DEF PruneWithinMemory, Held
<1>2. ASSUME NEW dryRun \in BOOLEAN, PruneMerge(q, dryRun)
      PROVE  Held(buf[q])' \subseteq Held(mem[q])'
  <2>1. PICK merged : PruneNothing(q, merged) \/ PruneDecide(q, merged)
    BY <1>2 DEF PruneMerge
  <2>2. PruneDecide(q, merged)
    BY <2>1 DEF PruneNothing
  <2>3. /\ mem'[q] = merged
        /\ \A k \in Keys : buf'[q][k] \in {Absent, merged[k]}
    BY <2>2 DEF PruneDecide
  <2>. QED BY <2>3 DEF Held
<1>3. ASSUME NEW p \in Procs,
             \/ Open(p) \/ Exit(p) \/ Clear(p) \/ SaveMerge(p) \/ SaveWrite(p)
             \/ SaveFail(p) \/ PruneScan(p) \/ PruneWrite(p)
      PROVE  UNCHANGED <<pc[q], mem[q], buf[q]>>
  BY <1>3 DEF Open, Exit, Clear, SaveMerge, SaveWrite, SaveFail, PruneScan,
              PruneWrite
<1>4. ASSUME NEW p \in Procs \ {q}, NEW dryRun \in BOOLEAN, PruneMerge(p, dryRun)
      PROVE  UNCHANGED <<pc[q], mem[q], buf[q]>>
  BY <1>4 DEF PruneMerge, PruneNothing, PruneDecide
<1>5. ASSUME NEW p \in Procs, NEW k \in Keys, Put(p, k) \/ Invalidate(p, k)
      PROVE  UNCHANGED <<pc[q], mem[q], buf[q]>>
  BY <1>5 DEF Put, Invalidate
<1>6. Tick \/ (\E path \in Paths : RepoChange(path)) \/ UNCHANGED vars
        => UNCHANGED <<pc[q], mem[q], buf[q]>>
  BY DEF Tick, RepoChange, vars
<1>. QED BY <1>1, <1>2, <1>3, <1>4, <1>5, <1>6 DEF Next

(* Time only makes more entries removable, and nothing else changes what a *)
(* process between its merge and its write may remove.                     *)
LEMMA RemovableStays ==
    ASSUME TypeOK, NEW q \in Procs, NEW k \in Keys, Removable(q, k),
           now' \in Nat, now' >= now, UNCHANGED <<mem[q], scan[q]>>
    PROVE  Removable(q, k)'
  BY ConstantsOK DEF Removable, TypeOK, Image, Entry

(* A step that leaves the file and what q holds alone keeps q's duties.    *)
LEMMA DutiesKept ==
    ASSUME TypeOK, NEW q \in Procs, SaveCoversFile(q), PruneCoversFile(q),
           now' \in Nat, now' >= now,
           UNCHANGED <<file, pc[q], mem[q], buf[q], scan[q]>>
    PROVE  SaveCoversFile(q)' /\ PruneCoversFile(q)'
<1>1. SaveCoversFile(q)'
  BY DEF SaveCoversFile, Held
<1>2. \A k \in Held(mem[q]) : Removable(q, k) => Removable(q, k)'
  BY RemovableStays DEF Held
<1>. QED BY <1>1, <1>2 DEF PruneCoversFile, Held

(* With a working lock and a readable file, every step preserves that the  *)
(* process about to write covers the file: nobody else changes the file    *)
(* between its merge and its write.                                        *)
LEMMA NextWritersCoverFile ==
    TypeOK /\ LockHeldByWriter /\ WritersCoverFile /\ [Next]_vars
        => WritersCoverFile'
<1> SUFFICES ASSUME TypeOK, LockHeldByWriter, WritersCoverFile, [Next]_vars,
                    Locked, ~ReadsFail, NEW q \in Procs
             PROVE  SaveCoversFile(q)' /\ PruneCoversFile(q)'
  BY DEF WritersCoverFile
<1> USE DEF TypeOK
<1>0. SaveCoversFile(q) /\ PruneCoversFile(q) /\ DiskImages = {file}
  BY DiskImagesOK DEF WritersCoverFile
<1>1. CASE /\ UNCHANGED <<file, pc[q], mem[q], buf[q], scan[q]>>
           /\ now' \in Nat /\ now' >= now
  BY <1>0, <1>1, DutiesKept
<1>2. CASE pc'[q] \notin {"saving", "pruning"}
  BY <1>2 DEF SaveCoversFile, PruneCoversFile
<1>3. CASE SaveMerge(q)
  <2>1. Held(file) \subseteq Held(Overlay(mem[q], file))
    BY OverlayCovers
  <2>2. pc'[q] = "saving" /\ file' = file /\ buf'[q] = Overlay(mem[q], file)
    BY <1>0, <1>3 DEF SaveMerge
  <2>. QED BY <2>1, <2>2 DEF SaveCoversFile, PruneCoversFile, Held
<1>4. ASSUME NEW dryRun \in BOOLEAN, PruneMerge(q, dryRun)
      PROVE  SaveCoversFile(q)' /\ PruneCoversFile(q)'
  <2> DEFINE merged == Overlay(mem[q], file)
  <2>1. CASE PruneNothing(q, merged)
    BY <1>2, <2>1 DEF PruneNothing
  <2>2. CASE PruneDecide(q, merged)
    <3>1. Held(file) \subseteq Held(merged) /\ merged \in Image
      BY OverlayCovers
    <3>2. /\ pc'[q] = "pruning" /\ mem'[q] = merged
          /\ UNCHANGED <<file, scan, now>>
          /\ \A k \in Keys : buf'[q][k] =
               IF k \in Prunable(merged, scan[q]) THEN Absent ELSE merged[k]
      BY <1>4, <2>2 DEF PruneMerge, PruneDecide
    <3>3. ASSUME NEW k \in Held(merged), buf'[q][k] = Absent
          PROVE  Removable(q, k)'
      BY <3>2, <3>3 DEF Prunable, Held, Expired, Orphaned, Removable
    <3>. QED BY <3>1, <3>2, <3>3 DEF SaveCoversFile, PruneCoversFile, Held
  <2>. QED BY <1>0, <1>4, <2>1, <2>2 DEF PruneMerge
<1>5. ASSUME NEW p \in Procs, SaveWrite(p) \/ PruneWrite(p)
      PROVE  pc'[q] \notin {"saving", "pruning"}
  <2>1. lock = p /\ (lock = q <=> pc[q] \in {"saving", "pruning"})
    BY <1>5 DEF LockHeldByWriter, SaveWrite, PruneWrite
  <2>2. pc' = [pc EXCEPT ![p] = "open"]
    BY <1>5 DEF SaveWrite, PruneWrite
  <2>. QED BY <2>1, <2>2
<1>6. ASSUME NEW p \in Procs,
             Open(p) \/ Exit(p) \/ Clear(p) \/ SaveFail(p) \/ PruneScan(p)
      PROVE  \/ pc'[q] \notin {"saving", "pruning"}
             \/ UNCHANGED <<now, file, pc[q], mem[q], buf[q], scan[q]>>
  BY <1>6 DEF Open, Exit, Clear, SaveFail, PruneScan
<1>7. ASSUME NEW p \in Procs \ {q},
             \/ SaveMerge(p)
             \/ \E dryRun \in BOOLEAN : PruneMerge(p, dryRun)
      PROVE  UNCHANGED <<now, file, pc[q], mem[q], buf[q], scan[q]>>
  BY <1>7 DEF SaveMerge, PruneMerge, PruneNothing, PruneDecide
<1>8. ASSUME NEW p \in Procs, NEW k \in Keys, Put(p, k) \/ Invalidate(p, k)
      PROVE  \/ pc'[q] \notin {"saving", "pruning"}
             \/ UNCHANGED <<now, file, pc[q], mem[q], buf[q], scan[q]>>
  BY <1>8 DEF Put, Invalidate
<1>9. Tick \/ (\E path \in Paths : RepoChange(path)) \/ UNCHANGED vars
        => /\ UNCHANGED <<file, pc[q], mem[q], buf[q], scan[q]>>
           /\ now' \in Nat /\ now' >= now
  BY DEF Tick, RepoChange, vars
<1>. QED
  BY <1>1, <1>2, <1>3, <1>4, <1>5, <1>6, <1>7, <1>8, <1>9 DEF Next

----------------------------------------------------------------------------
(* The inductive invariant holds in every reachable state.                 *)
THEOREM Invariance == Spec => []IInv
<1>1. Init => IInv
  <2>1. Init => LockHeldByWriter /\ SaveCoversMemory /\ PruneWithinMemory
                  /\ WritersCoverFile
    BY ConstantsOK DEF Init, LockHeldByWriter, SaveCoversMemory,
       PruneWithinMemory, WritersCoverFile, SaveCoversFile, PruneCoversFile
  <2>. QED BY <2>1, InitTypeOK DEF IInv
<1>2. IInv /\ [Next]_vars => IInv'
  BY NextTypeOK, NextLockHeld, NextSaveCoversMemory, NextPruneWithinMemory,
     NextWritersCoverFile DEF IInv
<1>. QED BY <1>1, <1>2, PTL DEF Spec

(* The flock is held exactly by the process between its merge and its      *)
(* write; in particular by one process at most.                            *)
THEOREM LockDiscipline == Spec => []LockHeldByWriter
<1>1. IInv => LockHeldByWriter
  BY DEF IInv
<1>. QED BY <1>1, Invariance, PTL

(* A save writes everything its process holds, with or without the lock    *)
(* and whatever it read.                                                   *)
THEOREM OwnWorkIsSaved == Spec => OwnWorkSaved
<1> DEFINE Saved == \A p \in Procs : pc[p] = "saving" /\ pc'[p] = "open"
                          /\ <<file, mem>>' # <<file, mem>> =>
          Held(mem[p]) \subseteq Held(file')
<1>1. IInv /\ [Next]_vars => [Saved]_vars
  <2> SUFFICES ASSUME IInv, Next, NEW p \in Procs,
                      pc[p] = "saving", pc'[p] = "open",
                      <<file, mem>>' # <<file, mem>>
               PROVE  Held(mem[p]) \subseteq Held(file')
    OBVIOUS
  <2>1. file' # file \/ mem' # mem
    OBVIOUS
  <2>2. SaveWrite(p) \/ SaveFail(p)
    BY DEF Next, IInv, TypeOK, Tick, RepoChange, Open, Exit, Clear, SaveMerge,
           SaveWrite, SaveFail, PruneScan, PruneMerge, PruneNothing,
           PruneDecide, PruneWrite, Put, Invalidate
  <2>3. ~SaveFail(p)
    BY <2>1 DEF SaveFail
  <2>4. file' = buf[p]
    BY <2>2, <2>3 DEF SaveWrite
  <2>. QED BY <2>4 DEF IInv, SaveCoversMemory
<1>. QED BY <1>1, Invariance, PTL DEF Spec, OwnWorkSaved

(* With a working lock and a readable file, no interleaving of saves and   *)
(* prunes loses an entry: it takes a prune that found it removable.        *)
THEOREM NoEntryLost == Spec => NothingLost
<1> DEFINE Kept == Locked /\ ~ReadsFail =>
      \A k \in Keys : file[k] # Absent /\ file'[k] = Absent =>
         \E p \in Procs : /\ pc[p] = "pruning"
                          /\ pc'[p] = "open"
                          /\ Removable(p, k)
<1>1. IInv /\ [Next]_vars => [Kept]_vars
  <2> SUFFICES ASSUME IInv, Next, Locked, ~ReadsFail,
                      NEW k \in Keys, file[k] # Absent, file'[k] = Absent
               PROVE  \E p \in Procs :
                        pc[p] = "pruning" /\ pc'[p] = "open" /\ Removable(p, k)
    OBVIOUS
  <2>1. PICK p \in Procs : SaveWrite(p) \/ (PruneWrite(p) /\ file' = buf[p])
    BY DEF Next, Tick, RepoChange, Open, Exit, Clear, SaveMerge, SaveFail,
           PruneScan, PruneMerge, PruneWrite, Put, Invalidate
  <2>2. SaveCoversFile(p) /\ PruneCoversFile(p) /\ k \in Held(file)
    BY DEF IInv, WritersCoverFile, Held
  <2>3. ~SaveWrite(p)
    BY <2>2 DEF SaveWrite, SaveCoversFile, Held
  <2>4. Removable(p, k)
    BY <2>1, <2>2, <2>3 DEF PruneWrite, PruneCoversFile
  <2>. QED BY <2>1, <2>3, <2>4 DEF PruneWrite, IInv, TypeOK
<1>. QED BY <1>1, Invariance, PTL DEF Spec, NothingLost

----------------------------------------------------------------------------
(* With the lock, the process between its merge and its write is the only  *)
(* one there, so no removal but its own is pending.                        *)
LEMMA OneWriter ==
    ASSUME TypeOK, LockHeldByWriter, Locked,
           NEW p \in Procs, pc[p] \in {"saving", "pruning"},
           NEW q \in Procs, q # p
    PROVE  pc[q] \notin {"saving", "pruning"}
  BY DEF LockHeldByWriter

(* A step that changes neither the file nor what a pruning process is      *)
(* about to do is a stutter of KeptEntries.                                *)
LEMMA StutterOfPromise ==
    ASSUME UNCHANGED file,
           \A q \in Procs : Doomed(q)' = Doomed(q)
    PROVE  UNCHANGED Promise!vars
  BY DEF Promise!vars, Held

(* The steps of a process that is not writing, and time, remove nothing.   *)
LEMMA QuietStep ==
    ASSUME TypeOK, NEW p \in Procs, UNCHANGED file,
           pc[p] # "pruning", pc'[p] # "pruning",
           \A q \in Procs \ {p} : UNCHANGED <<pc[q], mem[q], buf[q]>>
    PROVE  UNCHANGED Promise!vars
<1>1. ASSUME NEW q \in Procs PROVE Doomed(q)' = Doomed(q)
  <2>1. CASE q = p
    BY <2>1 DEF Doomed
  <2>2. CASE q # p
    BY <2>2 DEF Doomed
  <2>. QED BY <2>1, <2>2
<1>. QED BY <1>1, StutterOfPromise

(* No removal is pending while nobody prunes.                              *)
LEMMA NothingPending ==
    ASSUME \A q \in Procs : pc[q] # "pruning"
    PROVE  [q \in Procs |-> Doomed(q)] = Promise!NoRequest
  BY DEF Doomed, Promise!NoRequest

(* The write of a save adds what the process brought.                      *)
LEMMA SaveWriteAdds ==
    ASSUME IInv, Locked, ~ReadsFail, NEW p \in Procs, SaveWrite(p)
    PROVE  Promise!Add
<1> USE DEF IInv, TypeOK
<1>1. \A q \in Procs : pc[q] # "pruning"
  BY OneWriter DEF SaveWrite
<1>2. \A q \in Procs : pc'[q] # "pruning"
  BY <1>1 DEF SaveWrite
<1>3. Held(file) \subseteq Held(buf[p]) /\ Held(file)' = Held(buf[p])
  BY DEF SaveWrite, WritersCoverFile, SaveCoversFile, Held
<1>4. Held(file)' \in {Held(file) \cup new : new \in SUBSET Keys}
  BY <1>3 DEF Held
<1>5. [q \in Procs |-> Doomed(q)] = Promise!NoRequest
  BY <1>1, NothingPending
<1>6. [q \in Procs |-> Doomed(q)]' = Promise!NoRequest
  BY <1>2 DEF Doomed, Promise!NoRequest
<1>. QED BY <1>4, <1>5, <1>6 DEF Promise!Add

(* The merge of a prune decides, of the whole file, what will be removed.  *)
LEMMA PruneMergeDecides ==
    ASSUME IInv, Locked, NEW p \in Procs, NEW dryRun \in BOOLEAN,
           PruneMerge(p, dryRun)
    PROVE  Promise!Decide(p) \/ UNCHANGED Promise!vars
<1> USE DEF IInv, TypeOK
<1>1. pc[p] = "scanned" /\ file' = file
  BY DEF PruneMerge
<1>2. PICK merged :
        PruneNothing(p, merged) \/ PruneDecide(p, merged)
  BY DEF PruneMerge
<1>3. CASE PruneNothing(p, merged)
  <2>1. pc'[p] # "pruning"
    BY <1>3 DEF PruneNothing
  <2>2. \A q \in Procs \ {p} : UNCHANGED <<pc[q], mem[q], buf[q]>>
    BY <1>3 DEF PruneNothing
  <2>. QED BY <1>1, <2>1, <2>2, QuietStep
<1>4. CASE PruneDecide(p, merged)
  <2>1. \A q \in Procs : pc[q] # "pruning"
    BY ConstantsOK DEF PruneMerge, LockFree, LockHeldByWriter
  <2>2. [q \in Procs |-> Doomed(q)] = Promise!NoRequest
    BY <2>1, NothingPending
  <2>3. \A q \in Procs \ {p} : Doomed(q)' = {}
    BY <1>4, <2>1 DEF PruneDecide, Doomed
  <2>4. Doomed(p)' \in SUBSET Keys
    BY DEF Doomed
  <2>5. [q \in Procs |-> Doomed(q)]'
          = [Promise!NoRequest EXCEPT ![p] = Doomed(p)']
    BY <2>3 DEF Promise!NoRequest
  <2>6. Held(file)' = Held(file)
    BY <1>1 DEF Held
  <2>. QED BY <2>2, <2>4, <2>5, <2>6 DEF Promise!Decide
<1>. QED BY <1>2, <1>3, <1>4

(* The write of a prune executes its decision, or drops it.                *)
LEMMA PruneWriteExecutes ==
    ASSUME IInv, Locked, ~ReadsFail, NEW p \in Procs, PruneWrite(p)
    PROVE  Promise!Execute(p) \/ Promise!Drop(p) \/ Promise!Add
<1> USE DEF IInv, TypeOK
<1>1. \A q \in Procs \ {p} : pc[q] # "pruning"
  BY OneWriter DEF PruneWrite
<1>2. [q \in Procs |-> Doomed(q)]' = Promise!NoRequest
  BY <1>1 DEF PruneWrite, Doomed, Promise!NoRequest
<1>3. /\ Held(file) \subseteq Held(mem[p])
      /\ Held(buf[p]) = Held(mem[p]) \ Doomed(p)
  BY DEF PruneWrite, WritersCoverFile, PruneCoversFile, PruneWithinMemory,
         Doomed, Held
<1>4. Held(file)' \in {Held(buf[p]), Held(file)}
  BY DEF PruneWrite, Held
<1>5. Held(mem[p]) \in SUBSET Keys /\ {} \in SUBSET Keys
  BY DEF Held
<1>6. CASE Doomed(p) = {}
  <2>1. [q \in Procs |-> Doomed(q)] = Promise!NoRequest
    BY <1>1, <1>6 DEF Doomed, Promise!NoRequest
  <2>2. \E new \in SUBSET Keys : Held(file)' = Held(file) \cup new
    BY <1>3, <1>4, <1>5, <1>6
  <2>. QED BY <1>2, <2>1, <2>2 DEF Promise!Add
<1>7. CASE Doomed(p) # {} /\ Held(file)' = Held(file)
  BY <1>2, <1>7 DEF Promise!Drop
<1>8. CASE Doomed(p) # {} /\ Held(file)' = Held(buf[p])
  <2>1. Held(file)' = (Held(file) \cup Held(mem[p])) \ Doomed(p)
    BY <1>3, <1>8
  <2>2. \E new \in SUBSET Keys : Held(file)' = (Held(file) \cup new) \ Doomed(p)
    BY <2>1, <1>5
  <2>. QED BY <1>2, <1>8, <2>2 DEF Promise!Execute
<1>. QED BY <1>4, <1>6, <1>7, <1>8

(* A process that ends while it prunes drops its decision.                 *)
LEMMA ExitDrops ==
    ASSUME IInv, Locked, NEW p \in Procs, Exit(p)
    PROVE  Promise!Drop(p) \/ UNCHANGED Promise!vars
<1> USE DEF IInv, TypeOK
<1>1. CASE pc[p] # "pruning"
  <2>1. pc'[p] # "pruning" /\ file' = file
    BY DEF Exit
  <2>2. \A q \in Procs \ {p} : UNCHANGED <<pc[q], mem[q], buf[q]>>
    BY DEF Exit
  <2>. QED BY <1>1, <2>1, <2>2, QuietStep
<1>2. CASE pc[p] = "pruning"
  <2>1. \A q \in Procs \ {p} : pc[q] # "pruning"
    BY <1>2, OneWriter
  <2>2. [q \in Procs |-> Doomed(q)]' = Promise!NoRequest
    BY <2>1 DEF Exit, Doomed, Promise!NoRequest
  <2>3. Held(file)' = Held(file)
    BY DEF Exit, Held
  <2>4. CASE Doomed(p) # {}
    BY <2>2, <2>3, <2>4 DEF Promise!Drop
  <2>5. CASE Doomed(p) = {}
    <3>1. [q \in Procs |-> Doomed(q)] = Promise!NoRequest
      BY <2>1, <2>5 DEF Doomed, Promise!NoRequest
    <3>. QED BY <2>2, <2>3, <3>1 DEF Promise!vars
  <2>. QED BY <2>4, <2>5
<1>. QED BY <1>1, <1>2

(* With a working lock and a readable file, the cache implements           *)
(* KeptEntries: whatever processes do at once, entries are kept until a    *)
(* prune removes them, by one decision that nobody comes between (_save,   *)
(* prune, _cache_file_lock).                                               *)
THEOREM CacheKeepsEntries ==
    ASSUME Locked, ~ReadsFail
    PROVE  Spec => KeepsEntries
<1>1. Init => Promise!Init
  <2> SUFFICES ASSUME Init PROVE Promise!Init
    OBVIOUS
  <2>1. \A q \in Procs : pc[q] # "pruning"
    BY DEF Init
  <2>. QED BY <2>1, NothingPending DEF Promise!Init, Held
<1>2. IInv /\ [Next]_vars => [Promise!Next]_(Promise!vars)
  <2> SUFFICES ASSUME IInv, [Next]_vars
               PROVE  Promise!Next \/ UNCHANGED Promise!vars
    OBVIOUS
  <2> USE DEF IInv, TypeOK
  <2>1. CASE Tick \/ (\E path \in Paths : RepoChange(path)) \/ UNCHANGED vars
    <3>1. UNCHANGED <<file, pc, mem, buf>>
      BY <2>1 DEF Tick, RepoChange, vars
    <3>2. \A q \in Procs : Doomed(q)' = Doomed(q)
      BY <3>1 DEF Doomed
    <3>. QED BY <3>1, <3>2, StutterOfPromise
  <2>2. ASSUME NEW p \in Procs,
               \/ Open(p) \/ Clear(p) \/ SaveMerge(p) \/ SaveFail(p) \/ PruneScan(p)
               \/ \E k \in Keys : Put(p, k) \/ Invalidate(p, k)
        PROVE  UNCHANGED Promise!vars
    <3>1. file' = file /\ pc[p] # "pruning" /\ pc'[p] # "pruning"
      BY <2>2 DEF Open, Clear, SaveMerge, SaveFail, PruneScan, Put, Invalidate
    <3>2. \A q \in Procs \ {p} : UNCHANGED <<pc[q], mem[q], buf[q]>>
      BY <2>2 DEF Open, Clear, SaveMerge, SaveFail, PruneScan, Put, Invalidate
    <3>. QED BY <3>1, <3>2, QuietStep
  <2>3. ASSUME NEW p \in Procs, Exit(p)
        PROVE  Promise!Next \/ UNCHANGED Promise!vars
    BY <2>3, ExitDrops DEF Promise!Next
  <2>4. ASSUME NEW p \in Procs, SaveWrite(p) PROVE Promise!Next
    BY <2>4, SaveWriteAdds DEF Promise!Next
  <2>5. ASSUME NEW p \in Procs, NEW dryRun \in BOOLEAN, PruneMerge(p, dryRun)
        PROVE  Promise!Next \/ UNCHANGED Promise!vars
    BY <2>5, PruneMergeDecides DEF Promise!Next
  <2>6. ASSUME NEW p \in Procs, PruneWrite(p) PROVE Promise!Next
    BY <2>6, PruneWriteExecutes DEF Promise!Next
  <2>. QED BY <2>1, <2>2, <2>3, <2>4, <2>5, <2>6 DEF Next
<1>. QED BY <1>1, <1>2, Invariance, PTL DEF Spec, KeepsEntries, Promise!Spec

============================================================================
