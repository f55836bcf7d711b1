---------------------------- MODULE SharedCache ----------------------------
(***************************************************************************)
(* The JSON summary cache that several redcon processes packing the same   *)
(* repository share (redcon/cache/backends.py, class                       *)
(* LocalFileSummaryCacheBackend).                                          *)
(*                                                                         *)
(* A process loads the whole file when it builds the backend, looks up and *)
(* puts entries in memory, and at the end of its run saves: under a file   *)
(* lock it reads the file again, lays its own entries over it, and         *)
(* replaces the file.  `redcon cache prune' scans the repository and,      *)
(* under the same lock, removes expired and orphaned entries.              *)
(*                                                                         *)
(* The value stored under a key is a function of the key (the stores are   *)
(* content-addressed), so an entry is described by what the merge and the  *)
(* expiry look at: whether it is there, and its timestamp.  One element of *)
(* Keys stands for a key of one store together with the repository path    *)
(* the key names; Paths has further files, for which nothing is cached.    *)
(***************************************************************************)
EXTENDS Integers

CONSTANTS
    Procs,      \* processes that share the cache file
    Keys,       \* cache keys, each naming one repository path
    Paths,      \* repository paths
    TTL,        \* ttl_seconds; zero or negative disables expiry
    MaxTime,    \* bound on the clock
    Locked,     \* the lock file can be created and fcntl exists
    ReadsFail,  \* reading the file under the lock may raise or be malformed
    None,       \* the free lock
    Absent,     \* the image of a key that has no entry
    Untimed     \* an entry without a timestamp, written before TTL existed

ASSUME ConstantsOK ==
    /\ Keys \subseteq Paths
    /\ TTL \in Int
    /\ MaxTime \in Nat
    /\ Locked \in BOOLEAN
    /\ ReadsFail \in BOOLEAN
    /\ None \notin Procs
    /\ Absent \notin Nat
    /\ Untimed \notin Nat
    /\ Absent # Untimed

VARIABLES
    now,        \* wall clock, in units of ttl_seconds
    repo,       \* paths that exist in the working tree
    file,       \* the cache file: an image
    lock,       \* holder of the flock, or None
    pc,         \* pc[p]: what process p is doing
    mem,        \* mem[p]: the image p holds in self._data
    buf,        \* buf[p]: the image p is about to write
    scan        \* scan[p]: live_paths, as the prune command collected them

vars == <<now, repo, file, lock, pc, mem, buf, scan>>

Entry == Nat \cup {Absent, Untimed}
Image == [Keys -> Entry]
NoEntries == [k \in Keys |-> Absent]
Held(image) == {k \in Keys : image[k] # Absent}

TypeOK ==
    /\ now \in Nat
    /\ repo \in SUBSET Paths
    /\ file \in Image
    /\ lock \in Procs \cup {None}
    /\ pc \in [Procs -> {"down", "open", "scanned", "saving", "pruning"}]
    /\ mem \in [Procs -> Image]
    /\ buf \in [Procs -> Image]
    /\ scan \in [Procs -> SUBSET Paths]

----------------------------------------------------------------------------
(* Mutants of Overlay: the process writes only what it holds; it keeps     *)
(* only what it finds on disk; it visits only the keys it holds.           *)
OverlayMineOnly(mine, disk) == mine
OverlayDiskOnly(mine, disk) == disk
OverlayHeldKeys(mine, disk) == [k \in Held(mine) |-> mine[k]]

(* _merge_with_disk: entries and timestamps of this process win per key;   *)
(* an entry it holds without a timestamp keeps the one found on disk.      *)
Overlay(mine, disk) ==
    [k \in Keys |-> IF mine[k] \in Nat \/ disk[k] = Absent
                      THEN mine[k]
                      ELSE disk[k]]

Expired(e) == TTL > 0 /\ e \in Nat /\ now - e > TTL

Orphaned(live, k) == live # {} /\ k \notin live

(* _collect_prunable                                                       *)
Prunable(image, live) ==
    {k \in Held(image) : Expired(image[k]) \/ Orphaned(live, k)}

(* What a lookup answers: the entry is there and not expired.              *)
Hit(p, k) == mem[p][k] # Absent /\ ~Expired(mem[p][k])

(* The file as a reader finds it: whole, because it is replaced            *)
(* atomically, or empty when it cannot be read or parsed.                  *)
DiskImages == {file} \cup (IF ReadsFail THEN {NoEntries} ELSE {})

(* Mutant of LockFree: flock does not wait for its holder.                 *)
LockIgnored == TRUE

LockFree == ~Locked \/ lock = None

Acquire(p) == lock' = IF Locked THEN p ELSE lock

(* Mutant of Release: no finally clause.                                   *)
ReleaseForgotten(p) == UNCHANGED lock

Release(p) == lock' = IF lock = p THEN None ELSE lock

----------------------------------------------------------------------------
Init ==
    /\ now = 0
    /\ repo \in SUBSET Paths
    /\ file \in [Keys -> {Absent, Untimed}]
    /\ lock = None
    /\ pc = [p \in Procs |-> "down"]
    /\ mem = [p \in Procs |-> NoEntries]
    /\ buf = [p \in Procs |-> NoEntries]
    /\ scan = [p \in Procs |-> {}]

Tick ==
    /\ now < MaxTime
    /\ now' = now + 1
    /\ UNCHANGED <<repo, file, lock, pc, mem, buf, scan>>

(* A source file appears in or disappears from the working tree.           *)
RepoChange(path) ==
    /\ repo' = IF path \in repo THEN repo \ {path} ELSE repo \cup {path}
    /\ UNCHANGED <<now, file, lock, pc, mem, buf, scan>>

(* __init__ and _load, which takes no lock.                                *)
Open(p) ==
    /\ pc[p] = "down"
    /\ pc' = [pc EXCEPT ![p] = "open"]
    /\ \E disk \in DiskImages : mem' = [mem EXCEPT ![p] = disk]
    /\ UNCHANGED <<now, repo, file, lock, buf, scan>>

(* The process ends or is killed; the system drops its flock.              *)
Exit(p) ==
    /\ pc[p] # "down"
    /\ pc' = [pc EXCEPT ![p] = "down"]
    /\ mem' = [mem EXCEPT ![p] = NoEntries]
    /\ buf' = [buf EXCEPT ![p] = NoEntries]
    /\ scan' = [scan EXCEPT ![p] = {}]
    /\ Release(p)
    /\ UNCHANGED <<now, repo, file>>

(* put_summary, put_fragment, put_slice; every caller looks the key up     *)
(* first and puts only on a miss.                                          *)
Put(p, k) ==
    /\ pc[p] = "open"
    /\ ~Hit(p, k)
    /\ mem' = [mem EXCEPT ![p][k] = now]
    /\ UNCHANGED <<now, repo, file, lock, pc, buf, scan>>

Invalidate(p, k) ==
    /\ pc[p] = "open"
    /\ mem' = [mem EXCEPT ![p][k] = Absent]
    /\ UNCHANGED <<now, repo, file, lock, pc, buf, scan>>

Clear(p) ==
    /\ pc[p] = "open"
    /\ mem' = [mem EXCEPT ![p] = NoEntries]
    /\ UNCHANGED <<now, repo, file, lock, pc, buf, scan>>

(* _save, up to the write: take the lock and merge with the file.  Nobody  *)
(* can tell the two apart, for only lock holders write.                    *)
SaveMerge(p) ==
    /\ pc[p] = "open"
    /\ LockFree
    /\ Acquire(p)
    /\ pc' = [pc EXCEPT ![p] = "saving"]
    /\ \E disk \in DiskImages :
         buf' = [buf EXCEPT ![p] = Overlay(mem[p], disk)]
    /\ UNCHANGED <<now, repo, file, mem, scan>>

(* _save: the file is replaced, self._data becomes the merged image.       *)
SaveWrite(p) ==
    /\ pc[p] = "saving"
    /\ file' = buf[p]
    /\ mem' = [mem EXCEPT ![p] = buf[p]]
    /\ buf' = [buf EXCEPT ![p] = NoEntries]
    /\ pc' = [pc EXCEPT ![p] = "open"]
    /\ Release(p)
    /\ UNCHANGED <<now, repo, scan>>

(* _save: the write raises OSError; file and memory stay as they are.      *)
SaveFail(p) ==
    /\ pc[p] = "saving"
    /\ buf' = [buf EXCEPT ![p] = NoEntries]
    /\ pc' = [pc EXCEPT ![p] = "open"]
    /\ Release(p)
    /\ UNCHANGED <<now, repo, file, mem, scan>>

(* cmd_cache: live_paths is collected before prune takes the lock.         *)
PruneScan(p) ==
    /\ pc[p] = "open"
    /\ pc' = [pc EXCEPT ![p] = "scanned"]
    /\ scan' = [scan EXCEPT ![p] = repo]
    /\ UNCHANGED <<now, repo, file, lock, mem, buf>>

(* prune, when there is nothing to remove or the run is dry: the merged    *)
(* image stays in memory, nothing is written.                              *)
PruneNothing(p, merged) ==
    /\ mem' = [mem EXCEPT ![p] = merged]
    /\ pc' = [pc EXCEPT ![p] = "open"]
    /\ scan' = [scan EXCEPT ![p] = {}]
    /\ UNCHANGED <<lock, buf>>

(* prune, up to the write: the removals are decided on the merged image.   *)
PruneDecide(p, merged) ==
    LET removed == Prunable(merged, scan[p])
    IN  /\ removed # {}
        /\ mem' = [mem EXCEPT ![p] = merged]
        /\ buf' = [buf EXCEPT ![p] = [k \in Keys |->
                      IF k \in removed THEN Absent ELSE merged[k]]]
        /\ pc' = [pc EXCEPT ![p] = "pruning"]
        /\ Acquire(p)
        /\ UNCHANGED scan

PruneMerge(p, dryRun) ==
    /\ pc[p] = "scanned"
    /\ LockFree
    /\ \E disk \in DiskImages :
         LET merged == Overlay(mem[p], disk)
         IN  \/ /\ dryRun \/ Prunable(merged, scan[p]) = {}
                /\ PruneNothing(p, merged)
             \/ /\ ~dryRun
                /\ PruneDecide(p, merged)
    /\ UNCHANGED <<now, repo, file>>

(* prune: memory is pruned before the write; an OSError of the write is    *)
(* suppressed and leaves the file as it was.                               *)
PruneWrite(p) ==
    /\ pc[p] = "pruning"
    /\ file' \in {buf[p], file}
    /\ mem' = [mem EXCEPT ![p] = buf[p]]
    /\ buf' = [buf EXCEPT ![p] = NoEntries]
    /\ pc' = [pc EXCEPT ![p] = "open"]
    /\ scan' = [scan EXCEPT ![p] = {}]
    /\ Release(p)
    /\ UNCHANGED <<now, repo>>

Next ==
    \/ Tick
    \/ \E path \in Paths : RepoChange(path)
    \/ \E p \in Procs :
         \/ Open(p)
         \/ Exit(p)
         \/ Clear(p)
         \/ SaveMerge(p)
         \/ SaveWrite(p)
         \/ SaveFail(p)
         \/ PruneScan(p)
         \/ PruneWrite(p)
         \/ \E dryRun \in BOOLEAN : PruneMerge(p, dryRun)
         \/ \E k \in Keys : Put(p, k) \/ Invalidate(p, k)

Spec == Init /\ [][Next]_vars

----------------------------------------------------------------------------
(* What a prune may take out of the file: an entry older than the TTL, or  *)
(* one whose path the scan did not find while it did find others.          *)
Removable(p, k) ==
    \/ TTL > 0 /\ mem[p][k] \in Nat /\ now - mem[p][k] > TTL
    \/ scan[p] # {} /\ k \notin scan[p]

(* No entry a process saved is lost: with a working lock and a readable    *)
(* file, an entry leaves the file only when a prune writes, and only an    *)
(* expired entry or one the scan of a nonempty repository did not find,    *)
(* however saves and prunes of several processes interleave (_save, prune).*)
NothingLost ==
    [][Locked /\ ~ReadsFail =>
         \A k \in Keys : file[k] # Absent /\ file'[k] = Absent =>
            \E p \in Procs : /\ pc[p] = "pruning"
                             /\ pc'[p] = "open"
                             /\ Removable(p, k)]_vars

(* What a process holds when it saves is in the file afterwards, whatever  *)
(* it read there and whether or not it holds the lock: the merge "protects *)
(* against total loss" and a corrupt file cannot "discard this process's   *)
(* work" (_cache_file_lock, _merge_with_disk).  A save that fails changes  *)
(* neither the file nor the memory.                                        *)
OwnWorkSaved ==
    [][\A p \in Procs : pc[p] = "saving" /\ pc'[p] = "open"
                          /\ <<file, mem>>' # <<file, mem>> =>
          Held(mem[p]) \subseteq Held(file')]_vars

(* The flock is held exactly by the process between its merge and its      *)
(* write, also after a failed write, a failed prune or a kill, and there   *)
(* is one such process at most (_cache_file_lock, its finally clause).     *)
LockHeldByWriter ==
    Locked => \A p \in Procs : lock = p <=> pc[p] \in {"saving", "pruning"}

(* The keys a process has decided to remove and has not removed yet.       *)
Doomed(p) ==
    IF pc[p] = "pruning"
      THEN {k \in Keys : mem[p][k] # Absent /\ buf[p][k] = Absent}
      ELSE {}

Promise == INSTANCE KeptEntries
             WITH kept <- Held(file), request <- [p \in Procs |-> Doomed(p)]

(* With a working lock and a readable file, load, save and prune implement *)
(* KeptEntries: a prune decides and removes as one, and saves only add.    *)
KeepsEntries == Promise!Spec

----------------------------------------------------------------------------
(* "so a concurrent writer's fresh timestamps are not discarded"           *)
(* (_merge_with_disk): a save does not put an older timestamp over a newer *)
(* one.  The code overlays its own timestamps without comparing.           *)
FreshTimestampsKept ==
    [][\A k \in Keys : file[k] \in Nat /\ file'[k] \in Nat =>
          file'[k] >= file[k]]_file

============================================================================
