----------------------------- MODULE ScanIndex -----------------------------
(***************************************************************************)
(* refresh_scan_index of src/redcon/scanners/incremental.py: processes     *)
(* that scan one working tree while it is edited, reuse what an earlier    *)
(* scan recorded of files whose size and mtime did not change, and save    *)
(* the index twice, as JSON and in SQLite, without a lock around a scan.   *)
(*                                                                         *)
(* A record of a file is the content it was made from; the settings of a   *)
(* scan are the set of files its globs include; an index is the settings   *)
(* it was made under (the fingerprint) with the entries by file.           *)
(***************************************************************************)
EXTENDS PackProcesses, Sequences, Functions

CONSTANTS
    Walk,       \* the files of the tree, in the order of the walk
    Contents,
    Size,       \* Size[c]: st_size of a file with content c
    MaxTime     \* bound on the clock

Files == Range(Walk)

ASSUME ScanConstants ==
    /\ Walk \in Seq(Files)
    /\ Size \in [Contents -> Nat]
    /\ {"excluded", "unreadable"} \cap Contents = {}
    /\ MaxTime \in Nat
    /\ Nothing \notin [content : Contents, mtime : Nat]

VARIABLES
    now,        \* the clock, in the ticks that mtimes can tell apart
    disk,       \* disk[f]: content and mtime, or Nothing
    readable,   \* the files this user may open
    json,       \* scan-index.json: an index, or Nothing
    db,         \* scan-index.db, in the same form
    scan,       \* scan[p]: the scan p is in
    shown,      \* observer: <<file, stat, what reading it gives>>, so far
    stayed,     \* observer: stayed[p]: files there since p listed the tree
    torn        \* observer: the database was replaced by an index under
                \* other settings between the two reads of a scan

scanVars == <<json, db, scan, stayed, torn>>
treeVars == <<now, disk, readable, shown>>

NoIndex == [rules |-> Nothing, entries |-> <<>>]

(* A scan that is not running; what it found remains.                      *)
NoScan == [at |-> "idle", rules |-> {}, prev |-> <<>>, cur |-> <<>>,
           todo |-> <<>>, stat |-> Nothing, count |-> 0, capped |-> FALSE]

Stat(file) == <<Size[file.content], file.mtime>>

Reading(file, open) == IF open THEN file.content ELSE "unreadable"

Shows(files, open) ==
    {<<f, Stat(files[f]), Reading(files[f], f \in open)>> :
        f \in {g \in Files : files[g] # Nothing}}

ScanInit(contents) ==
    /\ now = 0
    /\ disk \in [Files -> {[content |-> c, mtime |-> 0] : c \in contents}]
    /\ readable = Files
    /\ json = Nothing
    /\ db = Nothing
    /\ scan = [p \in Procs |-> NoScan]
    /\ shown = Shows(disk, readable)
    /\ stayed = [p \in Procs |-> {}]
    /\ torn = FALSE

----------------------------------------------------------------------------
(* The tree, between any two steps of a scan                               *)

Tick == now < MaxTime /\ now' = now + 1 /\ UNCHANGED <<disk, readable, shown>>

(* A write makes the file; the mtime is the clock's.                       *)
Edit(f) ==
    /\ \E c \in Contents : disk' = [disk EXCEPT ![f] = [content |-> c, mtime |-> now]]
    /\ shown' = shown \cup Shows(disk', readable)
    /\ UNCHANGED <<now, readable>>

(* A deleted file reads as an unreadable one to a scan that has its stat.  *)
Delete(f) ==
    /\ disk[f] # Nothing
    /\ disk' = [disk EXCEPT ![f] = Nothing]
    /\ shown' = shown \cup {<<f, Stat(disk[f]), "unreadable">>}
    /\ UNCHANGED <<now, readable>>

(* Permissions change neither size nor mtime.                              *)
Chmod(f) ==
    /\ readable' = IF f \in readable THEN readable \ {f} ELSE readable \cup {f}
    /\ shown' = shown \cup Shows(disk, readable')
    /\ UNCHANGED <<now, disk>>

----------------------------------------------------------------------------
(* Mutant of Usable: the fingerprint is not compared.                      *)
UsableAny(index, rules) == IF index = Nothing THEN <<>> ELSE index.entries

(* What a stored index gives a scan under these settings.                  *)
Usable(index, rules) ==
    IF index # Nothing /\ index.rules = rules THEN index.entries ELSE <<>>

(* _migrate_scan_index_json_to_sqlite looks whether there is a database.   *)
ScanBegin(p, rules) ==
    /\ scan[p].at = "idle"
    /\ scan' = [scan EXCEPT ![p] =
         IF json # Nothing /\ db = Nothing
           THEN [NoScan EXCEPT !.at = "migrate", !.rules = rules,
                               !.prev = Usable(json, rules)]
           ELSE [NoScan EXCEPT !.at = "load", !.rules = rules]]
    /\ UNCHANGED <<json, db, stayed, torn>>

(* _save_scan_index_sqlite: one transaction, or a failure before it, which *)
(* may leave a database without rows where there was none.                 *)
Saved(index, fails) ==
    {index} \cup (IF fails THEN {db, IF db = Nothing THEN NoIndex ELSE db} ELSE {})

(* A scan that has seen its own fingerprint will read these entries.       *)
Tears == \E p \in Procs : scan[p].at = "rows" /\ scan[p].rules # db'.rules

ScanMigrate(p, fails) ==
    /\ scan[p].at = "migrate"
    /\ db' \in Saved([rules |-> scan[p].rules, entries |-> scan[p].prev], fails)
    /\ torn' = (torn \/ Tears)
    /\ scan' = [scan EXCEPT ![p].at = "load", ![p].prev = <<>>]
    /\ UNCHANGED <<json, stayed>>

(* What the walk lists.                                                    *)
Listed ==
    LET there == Ascending({n \in DOMAIN Walk : disk[Walk[n]] # Nothing})
    IN  [k \in DOMAIN there |-> Walk[there[k]]]

(* The walk lists the tree, with these entries of an earlier scan.         *)
Walks(p, entries) ==
    /\ scan' = [scan EXCEPT ![p].at = "walk", ![p].prev = entries, ![p].todo = Listed]
    /\ stayed' = [stayed EXCEPT ![p] = {f \in Files : disk[f] # Nothing}]

(* The first read of _load_scan_index_sqlite, the fingerprint.  The JSON   *)
(* file is used only when the database is not there or cannot be read, not *)
(* when it holds other settings.                                           *)
ScanLoad(p, fails) ==
    /\ scan[p].at = "load"
    /\ \/ /\ db = Nothing \/ fails
          /\ scan' = [scan EXCEPT ![p].at = "json"]
          /\ UNCHANGED stayed
       \/ /\ db # Nothing /\ db.rules = scan[p].rules
          /\ scan' = [scan EXCEPT ![p].at = "rows"]
          /\ UNCHANGED stayed
       \/ /\ db # Nothing /\ db.rules # scan[p].rules
          /\ Walks(p, <<>>)
    /\ UNCHANGED <<json, db, torn>>

(* The second read, the entries as they are by then: no transaction holds  *)
(* the two together.                                                       *)
ScanRows(p, fails) ==
    /\ scan[p].at = "rows"
    /\ \/ Walks(p, db.entries)
       \/ /\ fails
          /\ scan' = [scan EXCEPT ![p].at = "json"]
          /\ UNCHANGED stayed
    /\ UNCHANGED <<json, db, torn>>

ScanJson(p) ==
    /\ scan[p].at = "json"
    /\ Walks(p, Usable(json, scan[p].rules))
    /\ UNCHANGED <<json, db, torn>>

(* The walk reaches a file that is there: the cap, a stat, and an earlier  *)
(* entry with the same stat, whatever it says.  A file the globs leave out *)
(* is recorded without being read.                                         *)
ScanStat(p, limit) ==
    LET s == scan[p]
        f == Head(s.todo)
        entered(record) == Put(s.cur, f, [stat |-> Stat(disk[f]), record |-> record])
        next == [s EXCEPT !.todo = Tail(@), !.count = @ + 1]
    IN  /\ s.at = "walk" /\ s.todo # <<>>
        /\ disk[f] # Nothing
        /\ scan' = [scan EXCEPT ![p] =
             IF s.count >= limit
               THEN [next EXCEPT !.todo = <<>>, !.capped = TRUE]
             ELSE IF f \in DOMAIN s.prev /\ s.prev[f].stat = Stat(disk[f])
               THEN [next EXCEPT !.cur = entered(s.prev[f].record)]
             ELSE IF f \notin s.rules
               THEN [next EXCEPT !.cur = entered("excluded")]
             ELSE [s EXCEPT !.at = "read", !.stat = Stat(disk[f]), !.count = @ + 1]]
        /\ UNCHANGED <<json, db, stayed, torn>>

(* Mutant of ScanSkip: a file that has gone ends the walk.                 *)
ScanSkipStops(p, limit) ==
    /\ scan[p].at = "walk" /\ scan[p].todo # <<>>
    /\ disk[Head(scan[p].todo)] = Nothing
    /\ scan' = [scan EXCEPT ![p].todo = <<>>]
    /\ UNCHANGED <<json, db, stayed, torn>>

(* The file has gone since the tree was listed.  It counts towards the cap *)
(* if it went between is_file and stat, and the scan has room for it.      *)
ScanSkip(p, limit) ==
    /\ scan[p].at = "walk" /\ scan[p].todo # <<>>
    /\ disk[Head(scan[p].todo)] = Nothing
    /\ \E n \in {0} \cup (IF scan[p].count < limit THEN {1} ELSE {}) :
         scan' = [scan EXCEPT ![p].todo = Tail(@), ![p].count = @ + n]
    /\ UNCHANGED <<json, db, stayed, torn>>

(* Mutant of Recorded: the entry gets the time of the read for its mtime.  *)
RecordedLate(s, f) ==
    [stat |-> <<s.stat[1], now>>,
     record |-> IF disk[f] = Nothing THEN "unreadable"
                ELSE Reading(disk[f], f \in readable)]

(* _classify_file: the content of now under the stat of before.            *)
Recorded(s, f) ==
    [stat |-> s.stat,
     record |-> IF disk[f] = Nothing THEN "unreadable"
                ELSE Reading(disk[f], f \in readable)]

ScanRead(p) ==
    LET s == scan[p]
        f == Head(s.todo)
    IN  /\ s.at = "read"
        /\ scan' = [scan EXCEPT ![p] =
             [s EXCEPT !.at = "walk", !.todo = Tail(@), !.stat = Nothing,
                       !.cur = Put(@, f, Recorded(s, f))]]
        /\ UNCHANGED <<json, db, stayed, torn>>

Index(s) == [rules |-> s.rules, entries |-> s.cur]

ScanSaveJson(p) ==
    /\ scan[p].at = "walk" /\ scan[p].todo = <<>>
    /\ json' = Index(scan[p])
    /\ scan' = [scan EXCEPT ![p].at = "save", ![p].prev = <<>>]
    /\ UNCHANGED <<db, stayed, torn>>

ScanSaveDb(p, fails) ==
    /\ scan[p].at = "save"
    /\ db' \in Saved(Index(scan[p]), fails)
    /\ torn' = (torn \/ Tears)
    /\ scan' = [scan EXCEPT ![p].at = "scanned"]
    /\ UNCHANGED <<json, stayed>>

ScanStep(p, limit, fails) ==
    \/ ScanMigrate(p, fails)
    \/ ScanLoad(p, fails)
    \/ ScanRows(p, fails)
    \/ ScanJson(p)
    \/ ScanStat(p, limit)
    \/ ScanSkip(p, limit)
    \/ ScanRead(p)
    \/ ScanSaveJson(p)
    \/ ScanSaveDb(p, fails)

ScanForgotten(p) ==
    /\ scan' = [scan EXCEPT ![p] = NoScan]
    /\ stayed' = [stayed EXCEPT ![p] = {}]

(* Observers of stayed, for the steps that change the tree.                *)
Deleted(f) == stayed' = [p \in Procs |-> stayed[p] \ {f}]

----------------------------------------------------------------------------
(* Indexes that a later scan may load, or the pack of p uses.              *)
StoredIndexes == {json, db} \ {Nothing}
FoundIndexes == {Index(scan[p]) : p \in {q \in Procs : scan[q].at # "idle"}}

(* What an index says of a file whose size and mtime still match is what   *)
(* the file holds, or that the globs leave the file out, although the stat *)
(* and the read of a scan are apart, entries wander between scans, both    *)
(* stores and the migration, and a scan may take the entries that others   *)
(* saved since it compared the fingerprint.  Whether a file may be left    *)
(* out is the matter of SettingsNeverMix.  Excepted are mtimes at which    *)
(* the file has also read otherwise: written twice within one tick of      *)
(* mtime, unreadable for a while, or deleted and made again                *)
(* (incremental.py:771-810 trusts size and mtime alone).  Two writes of    *)
(* one tick may mix even when their sizes differ: a scan can read the one  *)
(* between the stats of the other.                                         *)
IndexTrue ==
    \A index \in StoredIndexes \cup FoundIndexes : \A f \in DOMAIN index.entries :
        LET entry == index.entries[f]
            readings == {s[3] : s \in {t \in shown : t[1] = f /\ t[2][2] = entry.stat[2]}}
        IN  /\ disk[f] # Nothing
            /\ entry.stat = Stat(disk[f])
            /\ entry.record # "excluded"
            /\ Cardinality(readings) = 1
            => entry.record = Reading(disk[f], f \in readable)

(* What _fingerprint_settings says of the fingerprint                      *)
(* (incremental.py:246-248): scans under different settings share both     *)
(* stores and never reuse each other's records.  A file is left out of an  *)
(* index exactly when the settings it is stored under leave it out.        *)
SettingsNeverMix ==
    \A index \in StoredIndexes : \A f \in DOMAIN index.entries :
        (index.entries[f].record = "excluded") <=> (f \notin index.rules)

(* The fingerprint, both stores and the migration keep that, through       *)
(* failed reads and writes and crashes, and the deletion of unseen paths   *)
(* in _save_scan_index_sqlite, as long as no save of other settings lands  *)
(* between the two reads of a scan (incremental.py:359 and 363).           *)
SettingsApart == ~torn => SettingsNeverMix

(* A file that was there from the listing of the tree to the end of the    *)
(* scan and is not in its result was left out because of the cap, and the  *)
(* summary says so (file_count_capped).                                    *)
CapHonest ==
    \A p \in Procs : scan[p].at \in {"save", "scanned"} =>
        scan[p].capped \/ stayed[p] \subseteq DOMAIN scan[p].cur

ScanTypeOK ==
    LET IsEntries(entries) ==
            /\ DOMAIN entries \subseteq Files
            /\ \A f \in DOMAIN entries :
                 /\ entries[f].stat \in Nat \X Nat
                 /\ entries[f].record \in Contents \cup {"excluded", "unreadable"}
        IsIndex(index) == index # Nothing => IsEntries(index.entries)
    IN  /\ now \in 0..MaxTime
        /\ \A f \in Files : disk[f] # Nothing => disk[f].mtime \in 0..now
        /\ readable \subseteq Files
        /\ IsIndex(json) /\ IsIndex(db)
        /\ \A p \in Procs :
             /\ scan[p].at \in {"idle", "migrate", "load", "rows", "json",
                                "walk", "read", "save", "scanned"}
             /\ scan[p].rules \subseteq Files
             /\ IsEntries(scan[p].prev) /\ IsEntries(scan[p].cur)
             /\ scan[p].count \in 0..Len(Walk)
             /\ stayed[p] \subseteq Files
        /\ torn \in BOOLEAN
=============================================================================
