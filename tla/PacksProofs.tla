---------------------------- MODULE PacksProofs ----------------------------
(***************************************************************************)
(* Packs of one repository, proved for any number of processes, files,     *)
(* packs and edits.                                                        *)
(***************************************************************************)
EXTENDS Packs, SequenceTheorems, SumTheorems

----------------------------------------------------------------------------
(* Sets of numbers in ascending order                                      *)

(* Ascending(S) has every member of S, once.                               *)
LEMMA AscendingNames ==
    ASSUME NEW S \in SUBSET Int, IsFiniteSet(S)
    PROVE  /\ Cardinality(S) \in Nat
           /\ Renames(Ascending(S), 1..Cardinality(S), S)
<1> DEFINE m == Cardinality(S)
           R == {p \in S \X S : p[1] <= p[2]}
           rank == RankIn(R, S)
           at == Ascending(S)
<1>1. m \in Nat
  BY FS_CardinalityType
<1>2. \A j, k \in S : <<j, k>> \in R <=> j <= k
  OBVIOUS
<1>3. TotalOrder(R, S)
  <2> HIDE DEF R
  <2>. QED BY <1>2 DEF TotalOrder
<1>4. \A t \in S : rank[t] = Cardinality({a \in S : a <= t})
  <2>1. ASSUME NEW t \in S
        PROVE  {a \in S : <<a, t>> \in R} = {a \in S : a <= t}
    BY <1>2
  <2>2. \A t \in S : rank[t] = Cardinality({a \in S : <<a, t>> \in R})
    BY Zenon DEF RankIn
  <2>. QED BY <2>1, <2>2
<1>5. Renames(rank, S, 1..m)
  <2> HIDE DEF R
  <2>. QED BY <1>3, RanksCover
<1> HIDE DEF R, rank, m
<1>6. \A k \in 1..m : at[k] \in S /\ rank[at[k]] = k
  <2>1. at = [k \in 1..m |-> CHOOSE n \in S : Cardinality({a \in S : a <= n}) = k]
    BY DEF Ascending, m
  <2> HIDE DEF at
  <2>2. \A k \in 1..m : \E t \in S : Cardinality({a \in S : a <= t}) = k
    BY <1>4, <1>5 DEF Renames
  <2>3. \A k \in 1..m : at[k] \in S /\ Cardinality({a \in S : a <= at[k]}) = k
    BY <2>1, <2>2
  <2>. QED BY <1>4, <2>3
<1>7. at \in [1..m -> S]
  <2>1. at = [k \in 1..m |-> CHOOSE n \in S : Cardinality({a \in S : a <= n}) = k]
    BY DEF Ascending, m
  <2> DEFINE c(k) == CHOOSE n \in S : Cardinality({a \in S : a <= n}) = k
  <2>2. at = [k \in 1..m |-> c(k)]
    BY <2>1
  <2> HIDE DEF at, c
  <2>. QED BY <1>6, <2>2
<1> HIDE DEF at
<1>8. \A j, k \in 1..m : at[j] = at[k] => j = k
  BY <1>6
<1>9. \A t \in S : rank[t] \in 1..m /\ at[rank[t]] = t
  BY <1>5, <1>6 DEF Renames
<1>. QED BY <1>1, <1>7, <1>8, <1>9 DEF Renames, at, m

(* What a function makes of a finite set is finite.                        *)
LEMMA ImageFinite ==
    ASSUME NEW S, IsFiniteSet(S), NEW f, DOMAIN f = S
    PROVE  IsFiniteSet({f[x] : x \in S})
<1> DEFINE T == {f[x] : x \in S}
           g == [x \in S |-> f[x]]
<1>1. g \in Surjection(S, T)
  BY DEF Surjection
<1>. QED BY <1>1, FS_Surjection

----------------------------------------------------------------------------
(* The tree                                                                *)

FileState == [content : Contents, mtime : Nat]

(* The files that are there.                                               *)
Present == {f \in Files : disk[f] # Nothing}

(* The tree is what edits leave, and whatever reads now was shown.         *)
TreeOK ==
    /\ now \in 0..MaxTime
    /\ disk \in [Files -> FileState \cup {Nothing}]
    /\ \A f \in Present : disk[f].mtime <= now
    /\ readable \subseteq Files
    /\ IsFiniteSet(shown)
    /\ Shows(disk, readable) \subseteq shown

(* The predicates below take the clock n, the files d and what was shown sh*)
(* as parameters, to be applied to the state and to the next one.          *)

(* No file that matches this stat comes any more: the file is younger.     *)
Past(n, d, f, stat) == stat[2] < IF d[f] = Nothing THEN n ELSE d[f].mtime

(* The file read like this when it had this mtime.                         *)
WasRead(sh, f, stat, record) ==
    \E t \in sh : t[1] = f /\ t[2][2] = stat[2] /\ t[3] = record

(* What reading f now gives would be right for this stat.                  *)
Pending(n, d, sh, f, stat) ==
    /\ stat \in Nat \X Nat
    /\ stat[2] <= n
    /\ \/ Past(n, d, f, stat)
       \/ d[f] # Nothing /\ d[f].mtime = stat[2]
       \/ d[f] = Nothing /\ WasRead(sh, f, stat, "unreadable")

(* What an entry says of f.                                                *)
Record == [stat : Nat \X Nat, record : Contents \cup {"excluded", "unreadable"}]

EntryOK(n, d, sh, f, e) ==
    e.record # "excluded" => Past(n, d, f, e.stat) \/ WasRead(sh, f, e.stat, e.record)

Entries == UNION {[D -> Record] : D \in SUBSET Files}

EntriesOK(n, d, sh, entries) ==
    /\ entries \in Entries
    /\ \A f \in DOMAIN entries : EntryOK(n, d, sh, f, entries[f])

IndexOK(n, d, sh, index) ==
    index # Nothing => EntriesOK(n, d, sh, index.entries)

(* Any step does this to the tree.                                         *)
TreeMoves ==
    /\ now' \in 0..MaxTime /\ now <= now'
    /\ \/ UNCHANGED <<disk, readable, shown>>
       \/ \E f \in Files : (Edit(f) \/ Chmod(f) \/ Delete(f)) /\ now' = now

(* What is shown of the files is finite.                                   *)
LEMMA ShowsFinite ==
    ASSUME NEW files, NEW open
    PROVE  IsFiniteSet(Shows(files, open))
<1> DEFINE there == {g \in Files : files[g] # Nothing}
           s == [f \in there |-> <<f, Stat(files[f]), Reading(files[f], f \in open)>>]
<1>1. IsFiniteSet(Files)
  <2>1. Walk \in Seq(Files)
    BY ScanConstants
  <2>2. IsFiniteSet(DOMAIN Walk)
    BY <2>1, FS_Interval
  <2>3. IsFiniteSet({Walk[n] : n \in DOMAIN Walk})
    BY <2>2, ImageFinite
  <2>. QED BY <2>3 DEF Files, Range
<1>2. IsFiniteSet(there)
  BY <1>1, FS_Subset
<1>3. IsFiniteSet({s[f] : f \in there})
  BY <1>2, ImageFinite
<1>. QED BY <1>3 DEF Shows

(* The tree stays what it is, and shows what it showed.                    *)
LEMMA TreeKept ==
    ASSUME TreeOK, TreeMoves
    PROVE  /\ TreeOK'
           /\ shown \subseteq shown'
<1>1. CASE UNCHANGED <<disk, readable, shown>>
  <2>1. Shows(disk, readable)' = Shows(disk, readable) /\ Present' = Present
    BY <1>1 DEF Shows, Present
  <2>2. now' \in 0..MaxTime /\ \A f \in Present' : disk'[f].mtime <= now'
    BY <1>1, <2>1, ScanConstants DEF TreeOK, TreeMoves, Present, FileState
  <2>3. Shows(disk, readable)' \subseteq shown'
    BY <1>1, <2>1 DEF TreeOK
  <2>. QED BY <1>1, <2>2, <2>3 DEF TreeOK
<1>2. ASSUME NEW f \in Files, Edit(f), now' = now
      PROVE  TreeOK' /\ shown \subseteq shown'
  <2>1. PICK c \in Contents : disk' = [disk EXCEPT ![f] = [content |-> c, mtime |-> now]]
    BY <1>2 DEF Edit
  <2>2. shown' = shown \cup Shows(disk', readable) /\ readable' = readable
    BY <1>2 DEF Edit
  <2>3. [content |-> c, mtime |-> now] \in FileState /\ now \in Nat
    BY ScanConstants DEF TreeOK, FileState
  <2>4. disk' \in [Files -> FileState \cup {Nothing}] /\ \A g \in Present' : disk'[g].mtime <= now
    BY <2>1, <2>3 DEF TreeOK, Present
  <2>5. IsFiniteSet(shown')
    BY <2>2, ShowsFinite, FS_Union DEF TreeOK
  <2>6. Shows(disk, readable)' \subseteq shown'
    BY <2>2 DEF Shows
  <2>. QED BY <1>2, <2>2, <2>4, <2>5, <2>6 DEF TreeOK
<1>3. ASSUME NEW f \in Files, Chmod(f), now' = now
      PROVE  TreeOK' /\ shown \subseteq shown'
  <2>1. /\ disk' = disk /\ shown' = shown \cup Shows(disk, readable')
        /\ readable' \subseteq Files
    BY <1>3 DEF Chmod, TreeOK
  <2>2. IsFiniteSet(shown')
    BY <2>1, ShowsFinite, FS_Union DEF TreeOK
  <2>3. Shows(disk, readable)' \subseteq shown' /\ Present' = Present
    BY <2>1 DEF Shows, Present
  <2>. QED BY <1>3, <2>1, <2>2, <2>3 DEF TreeOK
<1>4. ASSUME NEW f \in Files, Delete(f), now' = now
      PROVE  TreeOK' /\ shown \subseteq shown'
  <2>1. /\ disk' = [disk EXCEPT ![f] = Nothing] /\ readable' = readable
        /\ shown' = shown \cup {<<f, Stat(disk[f]), "unreadable">>}
    BY <1>4 DEF Delete
  <2>2. IsFiniteSet(shown')
    BY <2>1, FS_AddElement DEF TreeOK
  <2>3. disk' \in [Files -> FileState \cup {Nothing}] /\ \A g \in Present' : g # f /\ disk'[g] = disk[g] /\ g \in Present
    BY <2>1 DEF TreeOK, Present
  <2>4. Shows(disk, readable)' \subseteq Shows(disk, readable)
    BY <2>1, <2>3 DEF Shows, Present
  <2>. QED BY <1>4, <2>1, <2>2, <2>3, <2>4 DEF TreeOK
<1>. QED BY <1>1, <1>2, <1>3, <1>4 DEF TreeMoves

(* Unchanged files stay as they were, and a changed one gets younger.      *)
LEMMA FileMoves ==
    ASSUME TreeOK, TreeMoves, NEW f \in Files
    PROVE  /\ now \in Nat /\ now' \in Nat /\ now <= now'
           /\ \/ disk'[f] = disk[f]
              \/ disk'[f] # Nothing /\ disk'[f].mtime = now
              \/ /\ disk[f] # Nothing /\ disk'[f] = Nothing
                 /\ <<f, Stat(disk[f]), "unreadable">> \in shown'
           /\ disk[f] # Nothing => disk[f].mtime \in Nat /\ disk[f].mtime <= now
<1>1. now \in Nat /\ now' \in Nat /\ now <= now'
  BY ScanConstants DEF TreeOK, TreeMoves
<1>2. disk[f] # Nothing => disk[f].mtime \in Nat /\ disk[f].mtime <= now
  BY DEF TreeOK, Present, FileState
<1>3. CASE UNCHANGED <<disk, readable, shown>>
  BY <1>1, <1>2, <1>3
<1>4. ASSUME NEW g \in Files, Edit(g)
      PROVE  disk'[f] = disk[f] \/ (disk'[f] # Nothing /\ disk'[f].mtime = now)
  <2>1. PICK c \in Contents : disk' = [disk EXCEPT ![g] = [content |-> c, mtime |-> now]]
    BY <1>4 DEF Edit
  <2>2. Nothing # [content |-> c, mtime |-> now]
    BY <1>1, ScanConstants
  <2>3. DOMAIN disk = Files
    BY DEF TreeOK
  <2> DEFINE new == [content |-> c, mtime |-> now]
  <2>4. new.mtime = now
    OBVIOUS
  <2> HIDE DEF new
  <2>5. disk' = [disk EXCEPT ![g] = new] /\ new # Nothing
    BY <2>1, <2>2 DEF new
  <2>. QED BY <2>3, <2>4, <2>5
<1>5. ASSUME NEW g \in Files, Chmod(g)
      PROVE  disk'[f] = disk[f]
  BY <1>5 DEF Chmod
<1>6. ASSUME NEW g \in Files, Delete(g)
      PROVE  \/ disk'[f] = disk[f]
             \/ /\ disk[f] # Nothing /\ disk'[f] = Nothing
                /\ <<f, Stat(disk[f]), "unreadable">> \in shown'
  BY <1>6 DEF Delete, TreeOK
<1>. QED BY <1>1, <1>2, <1>3, <1>4, <1>5, <1>6 DEF TreeMoves

(* What is past stays past.                                                *)
LEMMA PastKept ==
    ASSUME TreeOK, TreeMoves, NEW f \in Files, NEW stat \in Nat \X Nat,
           Past(now, disk, f, stat)
    PROVE  Past(now', disk', f, stat)
<1>1. /\ now \in Nat /\ now' \in Nat /\ now <= now'
      /\ disk[f] # Nothing => disk[f].mtime \in Nat /\ disk[f].mtime <= now
  BY FileMoves
<1>2. \/ disk'[f] = disk[f]
      \/ disk'[f] # Nothing /\ disk'[f].mtime = now
      \/ disk[f] # Nothing /\ disk'[f] = Nothing
  BY FileMoves
<1>. QED BY <1>1, <1>2 DEF Past

LEMMA WasReadKept ==
    ASSUME TreeOK, TreeMoves, NEW f, NEW stat, NEW record,
           WasRead(shown, f, stat, record)
    PROVE  WasRead(shown', f, stat, record)
BY TreeKept DEF WasRead

LEMMA PendingKept ==
    ASSUME TreeOK, TreeMoves, NEW f \in Files, NEW stat,
           Pending(now, disk, shown, f, stat)
    PROVE  Pending(now', disk', shown', f, stat)
<1>1. stat \in Nat \X Nat /\ stat[2] \in Nat /\ stat[2] <= now
  BY DEF Pending
<1>2. now \in Nat /\ now' \in Nat /\ now <= now'
  BY FileMoves
<1>3. CASE Past(now, disk, f, stat)
  BY <1>1, <1>2, <1>3, PastKept DEF Pending
<1>4. CASE disk[f] # Nothing /\ disk[f].mtime = stat[2]
  <2>1. CASE disk'[f] = disk[f]
    BY <1>1, <1>2, <1>4, <2>1 DEF Pending
  <2>2. CASE disk'[f] # Nothing /\ disk'[f].mtime = now
    BY <1>1, <1>2, <2>2 DEF Pending, Past
  <2>3. CASE disk'[f] = Nothing /\ <<f, Stat(disk[f]), "unreadable">> \in shown'
    <3>1. Stat(disk[f])[2] = stat[2]
      BY <1>4 DEF Stat
    <3>2. WasRead(shown', f, stat, "unreadable")
      BY <2>3, <3>1 DEF WasRead
    <3>. QED BY <1>1, <1>2, <2>3, <3>2 DEF Pending
  <2>. QED BY <2>1, <2>2, <2>3, FileMoves
<1>5. CASE disk[f] = Nothing /\ WasRead(shown, f, stat, "unreadable")
  <2>1. CASE disk'[f] = disk[f]
    BY <1>1, <1>2, <1>5, <2>1, WasReadKept DEF Pending
  <2>2. CASE disk'[f] # Nothing /\ disk'[f].mtime = now
    BY <1>1, <1>2, <2>2 DEF Pending, Past
  <2>. QED BY <1>5, <2>1, <2>2, FileMoves
<1>. QED BY <1>3, <1>4, <1>5 DEF Pending

LEMMA EntriesKept ==
    ASSUME TreeOK, TreeMoves, NEW entries,
           EntriesOK(now, disk, shown, entries)
    PROVE  EntriesOK(now', disk', shown', entries)
<1>1. SUFFICES ASSUME NEW f \in DOMAIN entries
               PROVE  EntryOK(now', disk', shown', f, entries[f])
  BY DEF EntriesOK
<1>2. f \in Files /\ entries[f].stat \in Nat \X Nat
  BY DEF EntriesOK, Entries, Record
<1>3. EntryOK(now, disk, shown, f, entries[f])
  BY DEF EntriesOK
<1>. QED BY <1>2, <1>3, PastKept, WasReadKept DEF EntryOK

LEMMA IndexKept ==
    ASSUME TreeOK, TreeMoves, NEW index, IndexOK(now, disk, shown, index)
    PROVE  IndexOK(now', disk', shown', index)
BY EntriesKept DEF IndexOK

----------------------------------------------------------------------------
(* A scan                                                                  *)

Scan == [at : {"idle", "migrate", "load", "rows", "json", "walk", "read", "save", "scanned"},
         rules : SUBSET Files, prev : Entries, cur : Entries, todo : Seq(Files),
         stat : (Nat \X Nat) \cup {Nothing}, count : Nat, capped : BOOLEAN]

(* The files counted and those still to come are no more than the walk.    *)
CountOK(s) ==
    /\ s.count \in 0..Len(Walk)
    /\ s.at \in {"idle", "migrate", "load", "rows", "json"} => s.count = 0
    /\ s.at = "walk" => s.count + Len(s.todo) <= Len(Walk)
    /\ s.at = "read" => s.count + Len(s.todo) <= Len(Walk) + 1

(* The files that have been there since the listing are entered, or still  *)
(* to come.                                                                *)
StayedOK(s, there) ==
    /\ s.at \in {"walk", "read"} => s.capped \/ there \subseteq DOMAIN s.cur \cup Range(s.todo)
    /\ s.at \in {"save", "scanned"} => s.capped \/ there \subseteq DOMAIN s.cur

ProcOK(n, d, sh, s, there) ==
    /\ s \in Scan
    /\ EntriesOK(n, d, sh, s.prev)
    /\ EntriesOK(n, d, sh, s.cur)
    /\ CountOK(s)
    /\ s.at = "read" => /\ s.todo # <<>>
                        /\ Head(s.todo) \in s.rules
                        /\ Pending(n, d, sh, Head(s.todo), s.stat)
    /\ there \subseteq {f \in Files : d[f] # Nothing}
    /\ StayedOK(s, there)

(* What the scans keep to.                                                 *)
ScanInv ==
    /\ TreeOK
    /\ scan \in [Procs -> Scan]
    /\ stayed \in [Procs -> SUBSET Files]
    /\ \A p \in Procs : ProcOK(now, disk, shown, scan[p], stayed[p])
    /\ IndexOK(now, disk, shown, json)
    /\ IndexOK(now, disk, shown, db)
    /\ \A p \in Procs : scan[p].at = "rows" => EntriesOK(now, disk, shown, db.entries)
    /\ torn \in BOOLEAN

(* A step of p on the tree as it is.                                       *)
ScanMoves(p) ==
    /\ scan' = [scan EXCEPT ![p] = scan'[p]]
    /\ stayed' = [stayed EXCEPT ![p] = stayed'[p]]
    /\ ProcOK(now, disk, shown, scan'[p], stayed'[p])
    /\ IndexOK(now, disk, shown, json')
    /\ IndexOK(now, disk, shown, db')

(* What a step of p leaves those who read the entries of the database.     *)
DbMove(p) ==
    /\ \/ EntriesOK(now, disk, shown, db'.entries)
       \/ db' = db /\ (scan'[p].at = "rows" => scan[p].at = "rows")
    /\ torn' \in BOOLEAN

LEMMA NoEntriesOK ==
    ASSUME NEW n, NEW d, NEW sh
    PROVE  EntriesOK(n, d, sh, <<>>)
<1>1. DOMAIN <<>> = {} /\ <<>> \in [{} -> Record]
  OBVIOUS
<1>. QED BY <1>1 DEF EntriesOK, Entries

LEMMA EnteredOK ==
    ASSUME NEW n, NEW d, NEW sh, NEW entries,
           EntriesOK(n, d, sh, entries),
           NEW f \in Files, NEW e \in Record, EntryOK(n, d, sh, f, e)
    PROVE  EntriesOK(n, d, sh, Put(entries, f, e))
<1> DEFINE new == Put(entries, f, e)
           D == DOMAIN entries \cup {f}
<1>1. new = [g \in D |-> IF g = f THEN e ELSE entries[g]]
  BY DEF Put
<1>2. /\ DOMAIN entries \in SUBSET Files
      /\ \A g \in DOMAIN entries : entries[g] \in Record
  BY DEF EntriesOK, Entries
<1>3. D \in SUBSET Files /\ new \in [D -> Record]
  BY <1>1, <1>2
<1>4. DOMAIN new = D /\ \A g \in D : new[g] = IF g = f THEN e ELSE entries[g]
  BY <1>1
<1> HIDE DEF new
<1>5. \A g \in DOMAIN new : EntryOK(n, d, sh, g, new[g])
  BY <1>4 DEF EntriesOK
<1>. QED BY <1>3, <1>4, <1>5 DEF EntriesOK, Entries, new

LEMMA UsableOK ==
    ASSUME NEW n, NEW d, NEW sh, NEW index, NEW rules, IndexOK(n, d, sh, index)
    PROVE  EntriesOK(n, d, sh, Usable(index, rules))
BY NoEntriesOK DEF IndexOK, Usable

(* The walk lists what is there.                                           *)
LEMMA ListedAll ==
    /\ Listed \in Seq(Files)
    /\ Len(Listed) <= Len(Walk)
    /\ {f \in Files : disk[f] # Nothing} \subseteq Range(Listed)
<1> DEFINE S == {n \in DOMAIN Walk : disk[Walk[n]] # Nothing}
           m == Cardinality(S)
           there == Ascending(S)
<1>1. Walk \in [1..Len(Walk) -> Files] /\ Len(Walk) \in Nat /\ DOMAIN Walk = 1..Len(Walk)
  BY ScanConstants
<1>2. IsFiniteSet(1..Len(Walk)) /\ Cardinality(1..Len(Walk)) = Len(Walk)
  <2> DEFINE l == Len(Walk)
  <2>1. l \in Nat
    BY <1>1
  <2> HIDE DEF l
  <2>2. /\ IsFiniteSet(1..l)
        /\ Cardinality(1..l) = IF 1 > l THEN 0 ELSE l - 1 + 1
    BY <2>1, FS_Interval
  <2>3. IsFiniteSet(1..l) /\ Cardinality(1..l) = l
    BY <2>1, <2>2
  <2>. QED BY <2>3 DEF l
<1>3. S \in SUBSET Int /\ IsFiniteSet(S) /\ m <= Len(Walk)
  BY <1>1, <1>2, FS_Subset
<1>4. m \in Nat /\ Renames(there, 1..m, S)
  BY <1>3, AscendingNames
<1>5. Listed = [k \in DOMAIN there |-> Walk[there[k]]]
  BY DEF Listed
<1>6. there \in [1..m -> S] /\ \A n \in S : \E k \in 1..m : there[k] = n
  BY <1>4 DEF Renames
<1> HIDE DEF there, m
<1>7. Listed \in [1..m -> Files]
  BY <1>1, <1>5, <1>6
<1>8. Listed \in Seq(Files) /\ Len(Listed) = m
  BY <1>4, <1>7
<1>9. ASSUME NEW f \in Files, disk[f] # Nothing
      PROVE  f \in Range(Listed)
  <2>1. PICK n \in DOMAIN Walk : Walk[n] = f
    BY DEF Files, Range
  <2>2. n \in S
    BY <1>9, <2>1
  <2>3. PICK k \in 1..m : there[k] = n
    BY <1>6, <2>2
  <2>4. k \in DOMAIN Listed /\ Listed[k] = f
    BY <1>5, <1>6, <2>1, <2>3
  <2>. QED BY <2>4 DEF Range
<1>. QED BY <1>3, <1>8, <1>9 DEF m

LEMMA RangeTail ==
    ASSUME NEW S, NEW s \in Seq(S), s # <<>>
    PROVE  /\ Head(s) \in S
           /\ Tail(s) \in Seq(S)
           /\ Len(Tail(s)) = Len(s) - 1
           /\ Len(s) \in Nat \ {0}
           /\ Range(s) = {Head(s)} \cup Range(Tail(s))
<1>1. Len(s) \in Nat \ {0} /\ DOMAIN s = 1..Len(s) /\ Head(s) = s[1]
  OBVIOUS
<1>2. /\ Tail(s) \in Seq(S) /\ Len(Tail(s)) = Len(s) - 1
      /\ DOMAIN Tail(s) = 1..(Len(s) - 1)
      /\ \A i \in 1..(Len(s) - 1) : Tail(s)[i] = s[i + 1]
  OBVIOUS
<1>3. Head(s) \in S
  BY <1>1
<1> DEFINE t == Tail(s)
<1> HIDE DEF t
<1>4. DOMAIN t = 1..(Len(s) - 1) /\ \A i \in 1..(Len(s) - 1) : t[i] = s[i + 1]
  BY <1>2 DEF t
<1>5. ASSUME NEW i \in 1..Len(s) PROVE i = 1 \/ \E j \in DOMAIN t : t[j] = s[i]
  <2>1. CASE i # 1
    <3>1. i - 1 \in DOMAIN t /\ (i - 1) + 1 = i
      BY <1>1, <1>4, <2>1
    <3>. QED BY <1>4, <3>1
  <2>. QED BY <2>1
<1>6. \A j \in DOMAIN t : \E i \in 1..Len(s) : s[i] = t[j]
  <2>1. ASSUME NEW j \in DOMAIN t PROVE j + 1 \in 1..Len(s) /\ s[j + 1] = t[j]
    BY <1>1, <1>4
  <2>. QED BY <2>1
<1>7. 1 \in 1..Len(s)
  BY <1>1
<1>8. Range(s) = {Head(s)} \cup Range(t)
  BY <1>1, <1>5, <1>6, <1>7 DEF Range
<1>. QED BY <1>1, <1>2, <1>3, <1>8 DEF t

(* Each step of a scan on the tree as it is                                *)

LEMMA ScanBeginOK ==
    ASSUME ScanInv, NEW p \in Procs, NEW rules \in SUBSET Files, ScanBegin(p, rules)
    PROVE  ScanMoves(p)
<1> DEFINE s == [NoScan EXCEPT !.at = "migrate", !.rules = rules, !.prev = Usable(json, rules)]
           t == [NoScan EXCEPT !.at = "load", !.rules = rules]
<1>1. /\ scan' = [scan EXCEPT ![p] = scan'[p]] /\ stayed' = stayed
      /\ scan'[p] = s \/ scan'[p] = t
      /\ json' = json /\ db' = db
  BY DEF ScanBegin, ScanInv
<1>2. EntriesOK(now, disk, shown, Usable(json, rules))
  BY UsableOK DEF ScanInv
<1>3. EntriesOK(now, disk, shown, <<>>)
  BY NoEntriesOK
<1>4. <<>> \in Entries /\ Usable(json, rules) \in Entries /\ <<>> \in Seq(Files)
  BY <1>2, <1>3 DEF EntriesOK
<1>5. Len(Walk) \in Nat
  BY ScanConstants
<1>6. s \in Scan /\ t \in Scan /\ CountOK(s) /\ CountOK(t)
  <2>1. s \in Scan /\ t \in Scan
    BY <1>4 DEF Scan, NoScan
  <2>2. s.at = "migrate" /\ s.count = 0 /\ t.at = "load" /\ t.count = 0
    BY DEF NoScan
  <2> HIDE DEF s, t
  <2>. QED BY <1>5, <2>1, <2>2 DEF CountOK
<1>7. ProcOK(now, disk, shown, scan[p], stayed[p])
  BY DEF ScanInv
<1>8. ProcOK(now, disk, shown, s, stayed[p]) /\ ProcOK(now, disk, shown, t, stayed[p])
  BY <1>2, <1>3, <1>6, <1>7 DEF ProcOK, NoScan, StayedOK
<1> HIDE DEF s, t
<1>. QED BY <1>1, <1>8 DEF ScanMoves, ScanInv

LEMMA SavedOK ==
    ASSUME NEW n, NEW d, NEW sh, IndexOK(n, d, sh, db), NEW index, IndexOK(n, d, sh, index),
           NEW fails, NEW new \in Saved(index, fails)
    PROVE  IndexOK(n, d, sh, new)
<1>1. IndexOK(n, d, sh, NoIndex)
  BY NoEntriesOK DEF IndexOK, NoIndex
<1>. QED BY <1>1 DEF Saved

LEMMA ScanMigrateOK ==
    ASSUME ScanInv, NEW p \in Procs, NEW fails, ScanMigrate(p, fails)
    PROVE  ScanMoves(p)
<1> DEFINE s == scan[p]
           t == [s EXCEPT !.at = "load", !.prev = <<>>]
<1>1. s \in Scan /\ scan \in [Procs -> Scan] /\ s.at = "migrate"
  BY DEF ScanInv, ScanMigrate
<1>2. /\ scan' = [scan EXCEPT ![p] = t] /\ stayed' = stayed
      /\ json' = json
      /\ db' \in Saved([rules |-> s.rules, entries |-> s.prev], fails)
  BY <1>1 DEF ScanMigrate, Scan
<1>3. ProcOK(now, disk, shown, s, stayed[p])
  BY DEF ScanInv
<1>4. EntriesOK(now, disk, shown, <<>>)
  BY NoEntriesOK
<1>5. <<>> \in Entries
  BY <1>4 DEF EntriesOK
<1>6. t \in Scan
  BY <1>1, <1>5 DEF Scan
<1>7. /\ t.at = "load" /\ t.prev = <<>> /\ t.rules = s.rules /\ t.cur = s.cur
      /\ t.count = s.count
  BY <1>1 DEF Scan
<1> HIDE DEF t
<1>8. CountOK(t) /\ StayedOK(t, stayed[p])
  BY <1>1, <1>3, <1>7 DEF ProcOK, CountOK, StayedOK
<1>9. ProcOK(now, disk, shown, t, stayed[p])
  BY <1>3, <1>4, <1>6, <1>7, <1>8 DEF ProcOK
<1>10. IndexOK(now, disk, shown, [rules |-> s.rules, entries |-> s.prev])
  BY <1>3 DEF ProcOK, IndexOK
<1>11. IndexOK(now, disk, shown, db')
  BY <1>2, <1>10, SavedOK DEF ScanInv
<1>12. scan'[p] = t
  BY <1>1, <1>2
<1>. QED BY <1>2, <1>9, <1>11, <1>12 DEF ScanMoves, ScanInv

LEMMA WalksOK ==
    ASSUME ScanInv, NEW p \in Procs, scan[p].at \in {"load", "rows", "json"},
           NEW entries, EntriesOK(now, disk, shown, entries),
           Walks(p, entries), UNCHANGED <<json, db>>
    PROVE  ScanMoves(p)
<1> DEFINE s == scan[p]
           there == {f \in Files : disk[f] # Nothing}
           t == [s EXCEPT !.at = "walk", !.prev = entries, !.todo = Listed]
<1>1. s \in Scan /\ scan \in [Procs -> Scan] /\ s.at \in {"load", "rows", "json"}
  BY DEF ScanInv
<1>2. scan' = [scan EXCEPT ![p].at = "walk", ![p].prev = entries, ![p].todo = Listed]
  BY DEF Walks
<1>3. scan' = [scan EXCEPT ![p] = t] /\ scan'[p] = t
  BY <1>1, <1>2
<1>4. stayed' = [stayed EXCEPT ![p] = there] /\ stayed'[p] = there /\ json' = json /\ db' = db
  BY DEF Walks, ScanInv
<1>5. ProcOK(now, disk, shown, s, stayed[p])
  BY DEF ScanInv
<1>6. entries \in Entries
  BY DEF EntriesOK
<1>7. /\ Listed \in Seq(Files) /\ Len(Listed) \in Nat /\ Len(Listed) <= Len(Walk)
      /\ there \subseteq Range(Listed)
  BY ListedAll
<1>8. t \in Scan
  BY <1>1, <1>6, <1>7 DEF Scan
<1>9. /\ t.at = "walk" /\ t.prev = entries /\ t.rules = s.rules
      /\ t.cur = s.cur /\ t.count = s.count /\ t.todo = Listed
  BY <1>1 DEF Scan
<1> HIDE DEF t
<1>10. CountOK(t) /\ StayedOK(t, there)
  BY <1>1, <1>5, <1>7, <1>9 DEF ProcOK, CountOK, StayedOK
<1>11. ProcOK(now, disk, shown, t, there)
  BY <1>5, <1>8, <1>9, <1>10 DEF ProcOK
<1>. QED BY <1>3, <1>4, <1>11 DEF ScanMoves, ScanInv

(* To the other read, or to the JSON file.                                 *)
LEMMA ScanTurnsOK ==
    ASSUME ScanInv, NEW p \in Procs, scan[p].at \in {"load", "rows"},
           NEW at \in {"rows", "json"}, scan' = [scan EXCEPT ![p].at = at],
           UNCHANGED <<json, db, stayed>>
    PROVE  ScanMoves(p)
<1> DEFINE s == scan[p]
           t == [s EXCEPT !.at = at]
<1>1. s \in Scan /\ scan \in [Procs -> Scan]
  BY DEF ScanInv
<1>2. scan' = [scan EXCEPT ![p] = t] /\ scan'[p] = t
  BY <1>1
<1>3. ProcOK(now, disk, shown, s, stayed[p])
  BY DEF ScanInv
<1>4. /\ t \in Scan /\ t.at = at /\ t.prev = s.prev /\ t.cur = s.cur /\ t.rules = s.rules
      /\ t.count = s.count
  BY <1>1 DEF Scan
<1> HIDE DEF t
<1>5. CountOK(t) /\ StayedOK(t, stayed[p])
  BY <1>3, <1>4 DEF ProcOK, CountOK, StayedOK
<1>6. ProcOK(now, disk, shown, t, stayed[p])
  BY <1>3, <1>4, <1>5 DEF ProcOK
<1>. QED BY <1>2, <1>6 DEF ScanMoves, ScanInv

LEMMA ScanLoadOK ==
    ASSUME ScanInv, NEW p \in Procs, NEW fails, ScanLoad(p, fails)
    PROVE  ScanMoves(p)
BY WalksOK, ScanTurnsOK, NoEntriesOK DEF ScanLoad

LEMMA ScanRowsOK ==
    ASSUME ScanInv, NEW p \in Procs, NEW fails, ScanRows(p, fails)
    PROVE  ScanMoves(p)
<1>1. scan[p].at = "rows" /\ EntriesOK(now, disk, shown, db.entries)
  BY DEF ScanInv, ScanRows
<1>. QED BY <1>1, WalksOK, ScanTurnsOK DEF ScanRows

LEMMA ScanJsonOK ==
    ASSUME ScanInv, NEW p \in Procs, ScanJson(p)
    PROVE  ScanMoves(p)
<1>1. EntriesOK(now, disk, shown, Usable(json, scan[p].rules))
  BY UsableOK DEF ScanInv
<1>. QED BY <1>1, WalksOK DEF ScanJson

(* What ScanStat makes of the scan s whose next file is f.                 *)
Passed(s) == [s EXCEPT !.todo = Tail(@), !.count = @ + 1]

LEMMA ScanStatOK ==
    ASSUME ScanInv, NEW p \in Procs, NEW limit, ScanStat(p, limit)
    PROVE  ScanMoves(p)
<1> DEFINE s == scan[p]
           f == Head(s.todo)
           rest == Tail(s.todo)
           there == stayed[p]
           stat == Stat(disk[f])
           old == [stat |-> stat, record |-> s.prev[f].record]
           out == [stat |-> stat, record |-> "excluded"]
           capped == [Passed(s) EXCEPT !.todo = <<>>, !.capped = TRUE]
           again == [Passed(s) EXCEPT !.cur = Put(s.cur, f, old)]
           left == [Passed(s) EXCEPT !.cur = Put(s.cur, f, out)]
           read == [s EXCEPT !.at = "read", !.stat = stat, !.count = @ + 1]
<1>1. s \in Scan /\ scan \in [Procs -> Scan] /\ s.at = "walk" /\ s.todo # <<>>
  BY DEF ScanInv, ScanStat
<1>2. ProcOK(now, disk, shown, s, there)
  BY DEF ScanInv
<1>3. s.todo \in Seq(Files) /\ s.count \in Nat /\ s.rules \in SUBSET Files
  BY <1>1 DEF Scan
<1>4. /\ f \in Files /\ rest \in Seq(Files) /\ Len(s.todo) \in Nat \ {0}
      /\ Len(rest) = Len(s.todo) - 1
      /\ Range(s.todo) = {f} \cup Range(rest)
  BY <1>1, <1>3, RangeTail
<1>5. disk[f] \in FileState /\ disk[f].mtime \in Nat /\ disk[f].mtime <= now /\ now \in Nat
  BY <1>4, ScanConstants DEF ScanInv, ScanStat, TreeOK, Present, FileState
<1>6. stat \in Nat \X Nat /\ stat[2] = disk[f].mtime
  BY <1>5, ScanConstants DEF Stat, FileState
<1>7. /\ stayed' = stayed /\ json' = json /\ db' = db
      /\ \/ scan' = [scan EXCEPT ![p] = capped]
         \/ f \in DOMAIN s.prev /\ s.prev[f].stat = stat /\ scan' = [scan EXCEPT ![p] = again]
         \/ f \notin s.rules /\ scan' = [scan EXCEPT ![p] = left]
         \/ f \in s.rules /\ scan' = [scan EXCEPT ![p] = read]
  BY <1>1 DEF ScanStat, Scan, Passed
<1>8. /\ s.count + Len(s.todo) <= Len(Walk)
      /\ s.capped \/ there \subseteq DOMAIN s.cur \cup Range(s.todo)
      /\ there \subseteq {g \in Files : disk[g] # Nothing}
      /\ EntriesOK(now, disk, shown, s.prev)
      /\ EntriesOK(now, disk, shown, s.cur)
  BY <1>1, <1>2 DEF ProcOK, CountOK, StayedOK
<1>9. Len(Walk) \in Nat
  BY ScanConstants
<1>10. s.count + 1 \in Nat /\ s.count + 1 <= Len(Walk) /\ s.count + 1 + Len(rest) <= Len(Walk)
  BY <1>3, <1>4, <1>8, <1>9
<1>11. s.prev \in Entries /\ s.cur \in Entries
  BY <1>1 DEF Scan
<1> HIDE DEF f, rest, stat, there
<1>12. <<>> \in Seq(Files)
  OBVIOUS
<1>13. CASE scan' = [scan EXCEPT ![p] = capped]
  <2>1. capped \in Scan
    BY <1>1, <1>10, <1>12, <1>4 DEF Scan, Passed, rest
  <2>2. /\ capped.at = "walk" /\ capped.prev = s.prev /\ capped.cur = s.cur
        /\ capped.rules = s.rules /\ capped.count = s.count + 1
        /\ capped.todo = <<>> /\ capped.capped
    BY <1>1 DEF Scan, Passed
  <2> HIDE DEF capped
  <2>3. CountOK(capped) /\ StayedOK(capped, there)
    BY <1>9, <1>10, <2>2 DEF CountOK, StayedOK
  <2>4. ProcOK(now, disk, shown, capped, there)
    BY <1>8, <2>1, <2>2, <2>3 DEF ProcOK
  <2>5. scan'[p] = capped
    BY <1>1, <1>13
  <2>. QED BY <1>7, <1>13, <2>4, <2>5 DEF ScanMoves, ScanInv, there
<1>14. ASSUME NEW e \in Record, EntryOK(now, disk, shown, f, e),
              scan' = [scan EXCEPT ![p] = [Passed(s) EXCEPT !.cur = Put(s.cur, f, e)]]
       PROVE  ScanMoves(p)
  <2> DEFINE t == [Passed(s) EXCEPT !.cur = Put(s.cur, f, e)]
             new == Put(s.cur, f, e)
  <2>1. EntriesOK(now, disk, shown, new) /\ DOMAIN new = DOMAIN s.cur \cup {f}
    <3>1. f \in Files /\ EntriesOK(now, disk, shown, s.cur)
      BY <1>4, <1>8
    <3>2. DOMAIN new = DOMAIN s.cur \cup {f}
      BY DEF Put
    <3>. QED BY <1>14, <3>1, <3>2, EnteredOK
  <2>2. new \in Entries
    BY <2>1 DEF EntriesOK
  <2> HIDE DEF new
  <2>3. [Passed(s) EXCEPT !.cur = new] \in Scan
    BY <1>1, <1>4, <1>10, <2>2 DEF Scan, Passed, rest
  <2>4. t = [Passed(s) EXCEPT !.cur = new]
    BY DEF new
  <2>5. /\ t.at = "walk" /\ t.prev = s.prev /\ t.cur = new /\ t.rules = s.rules
        /\ t.count = s.count + 1 /\ t.todo = rest /\ t.capped = s.capped
    BY <1>1, <2>4 DEF Scan, Passed, rest
  <2>6. scan' = [scan EXCEPT ![p] = t] /\ scan'[p] = t
    BY <1>1, <1>14
  <2> HIDE DEF t
  <2>7. CountOK(t) /\ StayedOK(t, there)
    BY <1>4, <1>8, <1>9, <1>10, <2>1, <2>5 DEF CountOK, StayedOK
  <2>8. ProcOK(now, disk, shown, t, there)
    BY <1>8, <2>1, <2>3, <2>4, <2>5, <2>7 DEF ProcOK
  <2>. QED BY <1>7, <2>6, <2>8 DEF ScanMoves, ScanInv, there
<1>15. CASE f \in DOMAIN s.prev /\ s.prev[f].stat = stat /\ scan' = [scan EXCEPT ![p] = again]
  <2>1. s.prev[f] \in Record /\ EntryOK(now, disk, shown, f, s.prev[f])
    BY <1>8, <1>11, <1>15 DEF EntriesOK, Entries
  <2>2. old \in Record /\ old.stat = s.prev[f].stat /\ old.record = s.prev[f].record
    BY <1>15, <2>1 DEF Record
  <2>3. EntryOK(now, disk, shown, f, old)
    BY <2>1, <2>2 DEF EntryOK
  <2>. QED BY <1>14, <1>15, <2>2, <2>3
<1>16. CASE f \notin s.rules /\ scan' = [scan EXCEPT ![p] = left]
  <2>1. out \in Record /\ EntryOK(now, disk, shown, f, out)
    BY <1>6, <1>16 DEF Record, EntryOK
  <2>. QED BY <1>14, <1>16, <2>1
<1>17. CASE f \in s.rules /\ scan' = [scan EXCEPT ![p] = read]
  <2>1. read \in Scan
    BY <1>1, <1>6, <1>10 DEF Scan
  <2>2. /\ read.at = "read" /\ read.prev = s.prev /\ read.cur = s.cur
        /\ read.rules = s.rules /\ read.count = s.count + 1
        /\ read.todo = s.todo /\ read.capped = s.capped /\ read.stat = stat
    BY <1>1 DEF Scan
  <2>3. scan' = [scan EXCEPT ![p] = read] /\ scan'[p] = read
    BY <1>1, <1>17
  <2> HIDE DEF read
  <2>4. CountOK(read) /\ StayedOK(read, there)
    BY <1>3, <1>4, <1>8, <1>9, <1>10, <2>2 DEF CountOK, StayedOK
  <2>5. Pending(now, disk, shown, f, stat)
    BY <1>5, <1>6, ScanConstants DEF Pending, FileState
  <2>6. read.todo # <<>> /\ Head(read.todo) = f
    BY <1>1, <2>2 DEF f
  <2>7. ProcOK(now, disk, shown, read, there)
    BY <1>8, <1>17, <2>1, <2>2, <2>4, <2>5, <2>6 DEF ProcOK
  <2>. QED BY <1>7, <2>3, <2>7 DEF ScanMoves, ScanInv, there
<1>. QED BY <1>7, <1>13, <1>15, <1>16, <1>17

LEMMA ScanSkipOK ==
    ASSUME ScanInv, NEW p \in Procs, NEW limit, ScanSkip(p, limit)
    PROVE  ScanMoves(p)
<1> DEFINE s == scan[p]
           f == Head(s.todo)
           rest == Tail(s.todo)
           there == stayed[p]
<1>1. s \in Scan /\ scan \in [Procs -> Scan] /\ s.at = "walk" /\ s.todo # <<>>
  BY DEF ScanInv, ScanSkip
<1>2. ProcOK(now, disk, shown, s, there)
  BY DEF ScanInv
<1>3. s.todo \in Seq(Files) /\ s.count \in Nat
  BY <1>1 DEF Scan
<1>4. /\ f \in Files /\ rest \in Seq(Files) /\ Len(s.todo) \in Nat \ {0}
      /\ Len(rest) = Len(s.todo) - 1
      /\ Range(s.todo) = {f} \cup Range(rest)
  BY <1>1, <1>3, RangeTail
<1>5. PICK n \in {0, 1} : scan' = [scan EXCEPT ![p].todo = Tail(@), ![p].count = @ + n]
  BY DEF ScanSkip
<1> DEFINE t == [s EXCEPT !.todo = rest, !.count = @ + n]
<1>6. /\ scan' = [scan EXCEPT ![p] = t] /\ scan'[p] = t
      /\ stayed' = stayed /\ json' = json /\ db' = db
  BY <1>1, <1>5 DEF ScanSkip
<1>7. /\ s.count + Len(s.todo) <= Len(Walk)
      /\ s.capped \/ there \subseteq DOMAIN s.cur \cup Range(s.todo)
      /\ f \notin there
      /\ EntriesOK(now, disk, shown, s.prev)
      /\ EntriesOK(now, disk, shown, s.cur)
      /\ there \subseteq {g \in Files : disk[g] # Nothing}
  BY <1>1, <1>2 DEF ProcOK, CountOK, StayedOK, ScanSkip
<1>8. Len(Walk) \in Nat
  BY ScanConstants
<1> HIDE DEF f, rest, there
<1>9. t \in Scan
  <2>1. s.count + n \in Nat
    BY <1>3
  <2>. QED BY <1>1, <1>4, <2>1 DEF Scan
<1>10. /\ t.at = "walk" /\ t.prev = s.prev /\ t.cur = s.cur /\ t.rules = s.rules
       /\ t.count = s.count + n /\ t.todo = rest /\ t.capped = s.capped
  BY <1>1 DEF Scan
<1> HIDE DEF t
<1>11. CountOK(t) /\ StayedOK(t, there)
  BY <1>3, <1>4, <1>7, <1>8, <1>10 DEF CountOK, StayedOK
<1>12. ProcOK(now, disk, shown, t, there)
  BY <1>7, <1>9, <1>10, <1>11 DEF ProcOK
<1>. QED BY <1>6, <1>12 DEF ScanMoves, ScanInv, there

(* What is read under a stat that is pending is right for it.              *)
LEMMA RecordedOK ==
    ASSUME TreeOK, NEW s, NEW f \in s.rules, s.rules \subseteq Files,
           Pending(now, disk, shown, f, s.stat)
    PROVE  /\ Recorded(s, f) \in Record
           /\ Recorded(s, f).record # "excluded"
           /\ EntryOK(now, disk, shown, f, Recorded(s, f))
<1> DEFINE e == Recorded(s, f)
           reads == IF disk[f] = Nothing THEN "unreadable"
                    ELSE Reading(disk[f], f \in readable)
<1>1. e = [stat |-> s.stat, record |-> reads] /\ e.stat = s.stat /\ e.record = reads
  BY DEF Recorded
<1>2. f \in Files /\ s.stat \in Nat \X Nat
  BY DEF Pending
<1>3. disk[f] # Nothing => disk[f] \in FileState
  BY <1>2 DEF TreeOK
<1>4. reads \in Contents \cup {"unreadable"}
  BY <1>3 DEF Reading, FileState
<1>5. reads # "excluded"
  BY <1>4, ScanConstants
<1>6. Past(now, disk, f, s.stat) \/ WasRead(shown, f, s.stat, reads)
  <2>1. CASE disk[f] # Nothing /\ disk[f].mtime = s.stat[2]
    <3>1. <<f, Stat(disk[f]), reads>> \in shown
      BY <1>2, <2>1 DEF TreeOK, Shows
    <3>2. Stat(disk[f])[2] = s.stat[2]
      BY <2>1 DEF Stat
    <3>. QED BY <3>1, <3>2 DEF WasRead
  <2>. QED BY <2>1 DEF Pending
<1> HIDE DEF e, reads
<1>. QED BY <1>1, <1>2, <1>4, <1>5, <1>6 DEF EntryOK, Record, e

LEMMA ScanReadOK ==
    ASSUME ScanInv, NEW p \in Procs, ScanRead(p)
    PROVE  ScanMoves(p)
<1> DEFINE s == scan[p]
           f == Head(s.todo)
           rest == Tail(s.todo)
           there == stayed[p]
           found == Recorded(s, f)
           new == Put(s.cur, f, found)
           t == [s EXCEPT !.at = "walk", !.todo = rest, !.stat = Nothing, !.cur = new]
<1>1. s \in Scan /\ scan \in [Procs -> Scan] /\ s.at = "read"
  BY DEF ScanInv, ScanRead
<1>2. ProcOK(now, disk, shown, s, there)
  BY DEF ScanInv
<1>3. /\ s.todo \in Seq(Files) /\ s.count \in Nat /\ s.rules \subseteq Files
      /\ s.todo # <<>> /\ f \in s.rules /\ Pending(now, disk, shown, f, s.stat)
  BY <1>1, <1>2 DEF Scan, ProcOK
<1>4. /\ f \in Files /\ rest \in Seq(Files) /\ Len(s.todo) \in Nat \ {0}
      /\ Len(rest) = Len(s.todo) - 1
      /\ Range(s.todo) = {f} \cup Range(rest)
  BY <1>3, RangeTail
<1>5. found \in Record /\ EntryOK(now, disk, shown, f, found)
  BY <1>3, RecordedOK DEF ScanInv
<1>6. /\ s.count + Len(s.todo) <= Len(Walk) + 1
      /\ s.capped \/ there \subseteq DOMAIN s.cur \cup Range(s.todo)
      /\ EntriesOK(now, disk, shown, s.prev)
      /\ EntriesOK(now, disk, shown, s.cur)
      /\ there \subseteq {g \in Files : disk[g] # Nothing}
      /\ s.count <= Len(Walk)
  BY <1>1, <1>2 DEF ProcOK, CountOK, StayedOK
<1>7. /\ scan' = [scan EXCEPT ![p] = t] /\ scan'[p] = t
      /\ stayed' = stayed /\ json' = json /\ db' = db
  BY <1>1 DEF ScanRead
<1>8. Len(Walk) \in Nat
  BY ScanConstants
<1> HIDE DEF f, rest, there, found
<1>9. EntriesOK(now, disk, shown, new) /\ DOMAIN new = DOMAIN s.cur \cup {f}
  <2>1. DOMAIN new = DOMAIN s.cur \cup {f}
    BY DEF Put
  <2>. QED BY <1>4, <1>5, <1>6, <2>1, EnteredOK
<1> HIDE DEF new
<1>10. new \in Entries
  BY <1>9 DEF EntriesOK
<1>11. t \in Scan
  BY <1>1, <1>4, <1>10 DEF Scan
<1>12. /\ t.at = "walk" /\ t.prev = s.prev /\ t.cur = new /\ t.rules = s.rules
       /\ t.count = s.count /\ t.todo = rest /\ t.capped = s.capped
  BY <1>1 DEF Scan
<1> HIDE DEF t
<1>13. CountOK(t) /\ StayedOK(t, there)
  BY <1>3, <1>4, <1>6, <1>8, <1>9, <1>12 DEF CountOK, StayedOK
<1>14. ProcOK(now, disk, shown, t, there)
  BY <1>6, <1>9, <1>11, <1>12, <1>13 DEF ProcOK
<1>. QED BY <1>7, <1>14 DEF ScanMoves, ScanInv, there

(* The index of a scan is true.                                            *)
LEMMA IndexOfScan ==
    ASSUME NEW n, NEW d, NEW sh, NEW s, NEW there, ProcOK(n, d, sh, s, there)
    PROVE  IndexOK(n, d, sh, Index(s))
BY DEF ProcOK, IndexOK, Index

LEMMA ScanSaveJsonOK ==
    ASSUME ScanInv, NEW p \in Procs, ScanSaveJson(p)
    PROVE  ScanMoves(p)
<1> DEFINE s == scan[p]
           there == stayed[p]
           t == [s EXCEPT !.at = "save", !.prev = <<>>]
<1>1. s \in Scan /\ scan \in [Procs -> Scan] /\ s.at = "walk" /\ s.todo = <<>>
  BY DEF ScanInv, ScanSaveJson
<1>2. ProcOK(now, disk, shown, s, there)
  BY DEF ScanInv
<1>3. /\ scan' = [scan EXCEPT ![p] = t] /\ scan'[p] = t
      /\ stayed' = stayed /\ json' = Index(s) /\ db' = db
  BY <1>1 DEF ScanSaveJson
<1>4. EntriesOK(now, disk, shown, <<>>)
  BY NoEntriesOK
<1>5. <<>> \in Entries
  BY <1>4 DEF EntriesOK
<1>6. t \in Scan
  BY <1>1, <1>5 DEF Scan
<1>7. /\ t.at = "save" /\ t.prev = <<>> /\ t.cur = s.cur /\ t.rules = s.rules
      /\ t.count = s.count /\ t.todo = <<>> /\ t.capped = s.capped
  BY <1>1 DEF Scan
<1>8. Range(s.todo) = {}
  BY <1>1 DEF Range
<1> HIDE DEF t
<1>9. CountOK(t) /\ StayedOK(t, there)
  BY <1>1, <1>2, <1>7, <1>8 DEF ProcOK, CountOK, StayedOK
<1>10. ProcOK(now, disk, shown, t, there)
  BY <1>2, <1>4, <1>6, <1>7, <1>9 DEF ProcOK
<1>11. IndexOK(now, disk, shown, json')
  BY <1>2, <1>3, IndexOfScan
<1>. QED BY <1>3, <1>10, <1>11 DEF ScanMoves, ScanInv

LEMMA ScanSaveDbOK ==
    ASSUME ScanInv, NEW p \in Procs, NEW fails, ScanSaveDb(p, fails)
    PROVE  ScanMoves(p)
<1> DEFINE s == scan[p]
           there == stayed[p]
           t == [s EXCEPT !.at = "scanned"]
<1>1. s \in Scan /\ scan \in [Procs -> Scan] /\ s.at = "save"
  BY DEF ScanInv, ScanSaveDb
<1>2. ProcOK(now, disk, shown, s, there)
  BY DEF ScanInv
<1>3. /\ scan' = [scan EXCEPT ![p] = t] /\ scan'[p] = t
      /\ stayed' = stayed /\ json' = json /\ db' \in Saved(Index(s), fails)
  BY <1>1 DEF ScanSaveDb
<1>4. t \in Scan
  BY <1>1 DEF Scan
<1>5. /\ t.at = "scanned" /\ t.prev = s.prev /\ t.cur = s.cur /\ t.rules = s.rules
      /\ t.count = s.count /\ t.todo = s.todo /\ t.capped = s.capped
  BY <1>1 DEF Scan
<1> HIDE DEF t
<1>6. CountOK(t) /\ StayedOK(t, there)
  BY <1>1, <1>2, <1>5 DEF ProcOK, CountOK, StayedOK
<1>7. ProcOK(now, disk, shown, t, there)
  BY <1>2, <1>4, <1>5, <1>6 DEF ProcOK
<1>8. IndexOK(now, disk, shown, Index(s))
  BY <1>2, IndexOfScan
<1>9. IndexOK(now, disk, shown, db')
  BY <1>3, <1>8, SavedOK DEF ScanInv
<1>. QED BY <1>3, <1>7, <1>9 DEF ScanMoves, ScanInv

LEMMA ScanStepOK ==
    ASSUME ScanInv, NEW p \in Procs, NEW limit, NEW fails, ScanStep(p, limit, fails)
    PROVE  ScanMoves(p)
BY ScanMigrateOK, ScanLoadOK, ScanRowsOK, ScanJsonOK, ScanStatOK, ScanSkipOK, ScanReadOK, ScanSaveJsonOK,
   ScanSaveDbOK DEF ScanStep

LEMMA ScanForgottenOK ==
    ASSUME ScanInv, NEW p \in Procs, ScanForgotten(p), UNCHANGED <<json, db>>
    PROVE  ScanMoves(p)
<1>1. /\ scan' = [scan EXCEPT ![p] = NoScan] /\ scan'[p] = NoScan
      /\ stayed' = [stayed EXCEPT ![p] = {}] /\ stayed'[p] = {}
  BY DEF ScanForgotten, ScanInv
<1>2. EntriesOK(now, disk, shown, <<>>)
  BY NoEntriesOK
<1>3. <<>> \in Entries /\ <<>> \in Seq(Files) /\ Len(Walk) \in Nat
  BY <1>2, ScanConstants DEF EntriesOK
<1>4. NoScan \in Scan /\ CountOK(NoScan) /\ StayedOK(NoScan, {})
  <2>1. NoScan \in Scan
    BY <1>3 DEF NoScan, Scan
  <2>2. NoScan.at = "idle" /\ NoScan.count = 0
    BY DEF NoScan
  <2> HIDE DEF NoScan
  <2>. QED BY <1>3, <2>1, <2>2 DEF CountOK, StayedOK
<1>5. ProcOK(now, disk, shown, NoScan, {})
  BY <1>2, <1>4 DEF ProcOK, NoScan
<1> HIDE DEF NoScan
<1>. QED BY <1>1, <1>5 DEF ScanMoves, ScanInv

LEMMA ScanDbMove ==
    ASSUME ScanInv, NEW p \in Procs, NEW rules, NEW limit, NEW fails,
           \/ ScanBegin(p, rules)
           \/ ScanStep(p, limit, fails)
           \/ ScanForgotten(p) /\ UNCHANGED <<json, db, torn>>
    PROVE  DbMove(p)
<1> DEFINE s == scan[p]
<1>1. scan \in [Procs -> Scan] /\ s \in Scan /\ torn \in BOOLEAN
  BY DEF ScanInv
<1>2. CASE ScanBegin(p, rules)
  <2>1. db' = db /\ torn' = torn /\ scan'[p].at \in {"migrate", "load"}
    BY <1>1, <1>2 DEF ScanBegin, NoScan
  <2>. QED BY <1>1, <2>1 DEF DbMove
<1>3. ASSUME NEW index, EntriesOK(now, disk, shown, index.entries),
             db' \in Saved(index, fails), torn' = (torn \/ Tears),
             NEW at \in {"load", "scanned"}, scan'[p].at = at
      PROVE  DbMove(p)
  <2>1. EntriesOK(now, disk, shown, NoIndex.entries)
    BY NoEntriesOK DEF NoIndex
  <2>2. torn' \in BOOLEAN
    BY <1>3
  <2>3. db' = index \/ db' = db \/ db' = NoIndex
    BY <1>3 DEF Saved
  <2>. QED BY <1>3, <2>1, <2>2, <2>3 DEF DbMove
<1>4. CASE ScanMigrate(p, fails)
  <2>1. EntriesOK(now, disk, shown, s.prev)
    BY DEF ScanInv, ProcOK
  <2>2. scan'[p].at = "load"
    BY <1>1, <1>4 DEF ScanMigrate, Scan
  <2>. QED BY <1>3, <1>4, <2>1, <2>2 DEF ScanMigrate
<1>5. CASE ScanSaveDb(p, fails)
  <2>1. EntriesOK(now, disk, shown, Index(s).entries)
    BY DEF ScanInv, ProcOK, Index
  <2>2. scan'[p].at = "scanned"
    BY <1>1, <1>5 DEF ScanSaveDb, Scan
  <2>. QED BY <1>3, <1>5, <2>1, <2>2 DEF ScanSaveDb
<1>6. ASSUME NEW entries, Walks(p, entries)
      PROVE  scan'[p].at = "walk"
  BY <1>1, <1>6 DEF Walks, Scan
<1>7. CASE ScanLoad(p, fails)
  <2>1. db' = db /\ torn' = torn
    BY <1>7 DEF ScanLoad
  <2>2. CASE db # Nothing
    <3>1. EntriesOK(now, disk, shown, db.entries)
      BY <2>2 DEF ScanInv, IndexOK
    <3>. QED BY <1>1, <2>1, <3>1 DEF DbMove
  <2>3. CASE db = Nothing
    <3>1. scan'[p].at = "json"
      BY <1>1, <1>7, <2>3 DEF ScanLoad, Scan
    <3>. QED BY <1>1, <2>1, <3>1 DEF DbMove
  <2>. QED BY <2>2, <2>3
<1>8. CASE ScanRows(p, fails) \/ ScanJson(p)
  <2>1. db' = db /\ torn' = torn /\ scan'[p].at \in {"walk", "json"}
    BY <1>1, <1>6, <1>8 DEF ScanRows, ScanJson, Scan
  <2>. QED BY <1>1, <2>1 DEF DbMove
<1>9. CASE ScanStat(p, limit)
  <2>1. db' = db /\ torn' = torn /\ scan'[p].at \in {"walk", "read"}
    BY <1>1, <1>9 DEF ScanStat, Scan
  <2>. QED BY <1>1, <2>1 DEF DbMove
<1>10. CASE ScanSkip(p, limit) \/ ScanRead(p) \/ ScanSaveJson(p)
  <2>1. db' = db /\ torn' = torn
    BY <1>10 DEF ScanSkip, ScanRead, ScanSaveJson
  <2>2. scan'[p].at \in {"walk", "save"}
    <3>1. CASE ScanSkip(p, limit)
      BY <1>1, <3>1 DEF ScanSkip, Scan
    <3>2. CASE ScanRead(p)
      BY <1>1, <3>2 DEF ScanRead, Scan
    <3>3. CASE ScanSaveJson(p)
      BY <1>1, <3>3 DEF ScanSaveJson, Scan
    <3>. QED BY <1>10, <3>1, <3>2, <3>3
  <2>. QED BY <1>1, <2>1, <2>2 DEF DbMove
<1>11. CASE ScanForgotten(p) /\ UNCHANGED <<json, db, torn>>
  <2>1. scan'[p].at = "idle"
    BY <1>1, <1>11 DEF ScanForgotten, NoScan
  <2>. QED BY <1>1, <1>11, <2>1 DEF DbMove
<1>. QED BY <1>2, <1>4, <1>5, <1>7, <1>8, <1>9, <1>10, <1>11 DEF ScanStep

(* A step of a scan, on the tree as it is, keeps the invariant.            *)
LEMMA ScanMovesKept ==
    ASSUME ScanInv, NEW p \in Procs, ScanMoves(p), DbMove(p), UNCHANGED treeVars
    PROVE  ScanInv'
<1>1. now' = now /\ disk' = disk /\ readable' = readable /\ shown' = shown
  BY DEF treeVars
<1>2. TreeOK'
  BY <1>1, TreeKept DEF ScanInv, TreeMoves, TreeOK
<1>3. scan'[p] \in Scan /\ stayed'[p] \in SUBSET Files
  BY DEF ScanMoves, ProcOK
<1>4. scan' \in [Procs -> Scan] /\ stayed' \in [Procs -> SUBSET Files]
  BY <1>3 DEF ScanMoves, ScanInv
<1>5. ASSUME NEW q \in Procs
      PROVE  ProcOK(now', disk', shown', scan'[q], stayed'[q])
  <2>1. CASE q = p
    BY <1>1, <2>1 DEF ScanMoves
  <2>2. CASE q # p
    <3>1. scan'[q] = scan[q] /\ stayed'[q] = stayed[q]
      BY <2>2 DEF ScanMoves, ScanInv
    <3>. QED BY <1>1, <3>1 DEF ScanInv
  <2>. QED BY <2>1, <2>2
<1>6. IndexOK(now', disk', shown', json') /\ IndexOK(now', disk', shown', db')
  BY <1>1 DEF ScanMoves
<1>7. ASSUME NEW q \in Procs, scan'[q].at = "rows"
      PROVE  EntriesOK(now', disk', shown', db'.entries)
  <2>1. CASE EntriesOK(now, disk, shown, db'.entries)
    BY <1>1, <2>1
  <2>2. CASE db' = db /\ (scan'[p].at = "rows" => scan[p].at = "rows")
    <3>1. scan[q].at = "rows"
      BY <1>7, <2>2 DEF ScanMoves, ScanInv
    <3>. QED BY <1>1, <2>2, <3>1 DEF ScanInv
  <2>. QED BY <2>1, <2>2 DEF DbMove
<1>8. torn' \in BOOLEAN
  BY DEF DbMove
<1>. QED BY <1>2, <1>4, <1>5, <1>6, <1>7, <1>8 DEF ScanInv

(* So does a change of the tree between two steps.                         *)
LEMMA TreeMovesKept ==
    ASSUME ScanInv, TreeMoves, UNCHANGED <<scan, json, db, torn>>,
           \/ /\ UNCHANGED stayed
              /\ \A f \in Files : disk'[f] = Nothing => disk[f] = Nothing
           \/ \E f \in Files : Delete(f) /\ Deleted(f)
    PROVE  ScanInv'
<1>1. TreeOK /\ TreeOK'
  BY TreeKept DEF ScanInv
<1>2. /\ scan' = scan /\ json' = json /\ db' = db
      /\ IndexOK(now', disk', shown', json') /\ IndexOK(now', disk', shown', db')
  BY <1>1, IndexKept DEF ScanInv
<1>3. stayed' \in [Procs -> SUBSET Files]
  BY DEF ScanInv, Deleted
<1>4. ASSUME NEW p \in Procs
      PROVE  ProcOK(now', disk', shown', scan[p], stayed'[p])
  <2> DEFINE s == scan[p]
  <2>1. ProcOK(now, disk, shown, s, stayed[p])
    BY DEF ScanInv
  <2>2. stayed'[p] \subseteq stayed[p]
    BY DEF ScanInv, Deleted
  <2>3. stayed'[p] \subseteq {f \in Files : disk'[f] # Nothing}
    <3>1. stayed[p] \subseteq {f \in Files : disk[f] # Nothing}
      BY <2>1 DEF ProcOK
    <3>2. CASE /\ UNCHANGED stayed
               /\ \A f \in Files : disk'[f] = Nothing => disk[f] = Nothing
      BY <3>1, <3>2
    <3>3. ASSUME NEW f \in Files, Delete(f), Deleted(f)
          PROVE  stayed'[p] \subseteq {g \in Files : disk'[g] # Nothing}
      <4>1. stayed'[p] = stayed[p] \ {f} /\ disk' = [disk EXCEPT ![f] = Nothing]
        BY <3>3 DEF Deleted, Delete
      <4>. QED BY <3>1, <4>1, <1>1 DEF TreeOK
    <3>. QED BY <3>2, <3>3
  <2>4. StayedOK(s, stayed'[p])
    BY <2>1, <2>2 DEF ProcOK, StayedOK
  <2>5. /\ EntriesOK(now', disk', shown', s.prev)
        /\ EntriesOK(now', disk', shown', s.cur)
    BY <1>1, <2>1, EntriesKept DEF ProcOK
  <2>6. s.at = "read" => Head(s.todo) \in s.rules /\ Pending(now', disk', shown', Head(s.todo), s.stat)
    <3>1. s.rules \subseteq Files
      BY <2>1 DEF ProcOK, Scan
    <3>. QED BY <1>1, <2>1, <3>1, PendingKept DEF ProcOK
  <2>. QED BY <2>1, <2>3, <2>4, <2>5, <2>6 DEF ProcOK
<1>5. \A p \in Procs : scan[p].at = "rows" => EntriesOK(now', disk', shown', db.entries)
  BY <1>1, EntriesKept DEF ScanInv
<1>. QED BY <1>1, <1>2, <1>3, <1>4, <1>5 DEF ScanInv

LEMMA ScanStarts ==
    ASSUME NEW contents \in SUBSET Contents, ScanInit(contents)
    PROVE  ScanInv
<1>1. /\ now = 0 /\ readable = Files /\ json = Nothing /\ db = Nothing
      /\ scan = [p \in Procs |-> NoScan] /\ shown = Shows(disk, readable)
      /\ stayed = [p \in Procs |-> {}] /\ torn = FALSE
      /\ disk \in [Files -> {[content |-> c, mtime |-> 0] : c \in contents}]
  BY DEF ScanInit
<1>2. \A f \in Files : disk[f] \in FileState /\ disk[f].mtime = 0
  BY <1>1 DEF FileState
<1>3. IsFiniteSet(shown)
  BY <1>1, ShowsFinite
<1>4. disk \in [Files -> FileState \cup {Nothing}] /\ \A f \in Present : disk[f].mtime <= now
  BY <1>1, <1>2 DEF Present
<1>5. TreeOK
  BY <1>1, <1>3, <1>4, ScanConstants DEF TreeOK
<1>6. EntriesOK(now, disk, shown, <<>>)
  BY NoEntriesOK
<1>7. <<>> \in Entries /\ <<>> \in Seq(Files) /\ Len(Walk) \in Nat
  BY <1>6, ScanConstants DEF EntriesOK
<1>8. NoScan \in Scan /\ CountOK(NoScan) /\ StayedOK(NoScan, {})
  <2>1. NoScan \in Scan
    BY <1>7 DEF NoScan, Scan
  <2>2. NoScan.at = "idle" /\ NoScan.count = 0
    BY DEF NoScan
  <2> HIDE DEF NoScan
  <2>. QED BY <1>7, <2>1, <2>2 DEF CountOK, StayedOK
<1> NoScan.at = "idle"
  BY DEF NoScan
<1>9. ProcOK(now, disk, shown, NoScan, {})
  BY <1>6, <1>8 DEF ProcOK, NoScan
<1> HIDE DEF NoScan
<1>10. IndexOK(now, disk, shown, Nothing)
  BY DEF IndexOK
<1>. QED BY <1>1, <1>5, <1>8, <1>9, <1>10 DEF ScanInv

(* Every index that a later scan may load, or a pack uses, is true.        *)
LEMMA IndexesOK ==
    ASSUME ScanInv, NEW index \in StoredIndexes \cup FoundIndexes
    PROVE  EntriesOK(now, disk, shown, index.entries)
<1>1. CASE index \in StoredIndexes
  BY <1>1 DEF StoredIndexes, ScanInv, IndexOK
<1>2. CASE index \in FoundIndexes
  <2>1. PICK p \in Procs : index = Index(scan[p])
    BY <1>2 DEF FoundIndexes
  <2>2. index.rules = scan[p].rules /\ index.entries = scan[p].cur
    BY <2>1 DEF Index
  <2>. QED BY <2>2 DEF ScanInv, ProcOK
<1>. QED BY <1>1, <1>2

(* All readings under an mtime are one if their set has one member.        *)
LEMMA ScanIndexTrue == ScanInv => IndexTrue
<1> SUFFICES ASSUME ScanInv,
                    NEW index \in StoredIndexes \cup FoundIndexes,
                    NEW f \in DOMAIN index.entries
             PROVE  LET entry == index.entries[f]
                        readings == {s[3] : s \in {t \in shown :
                                                     t[1] = f /\ t[2][2] = entry.stat[2]}}
                    IN  /\ disk[f] # Nothing
                        /\ entry.stat = Stat(disk[f])
                        /\ entry.record # "excluded"
                        /\ Cardinality(readings) = 1
                        => entry.record = Reading(disk[f], f \in readable)
  BY DEF IndexTrue
<1> DEFINE entry == index.entries[f]
           at == {t \in shown : t[1] = f /\ t[2][2] = entry.stat[2]}
           readings == {s[3] : s \in at}
           reads == Reading(disk[f], f \in readable)
<1> SUFFICES ASSUME disk[f] # Nothing, entry.stat = Stat(disk[f]), entry.record # "excluded",
                    Cardinality(readings) = 1
             PROVE  entry.record = reads
  OBVIOUS
<1>1. /\ f \in Files
      /\ EntryOK(now, disk, shown, f, entry)
  BY IndexesOK DEF EntriesOK, Entries
<1>2. entry.stat[2] = disk[f].mtime /\ disk[f] \in FileState
  BY <1>1 DEF Stat, ScanInv, TreeOK
<1>3. ~Past(now, disk, f, entry.stat)
  BY <1>2 DEF Past, FileState
<1>4. WasRead(shown, f, entry.stat, entry.record)
  BY <1>1, <1>3 DEF EntryOK
<1>5. entry.record \in readings
  BY <1>4 DEF WasRead
<1>6. <<f, Stat(disk[f]), reads>> \in shown
  BY <1>1 DEF ScanInv, TreeOK, Shows
<1>7. reads \in readings
  <2>1. <<f, Stat(disk[f]), reads>> \in at
    BY <1>6
  <2>. QED BY <2>1
<1>8. IsFiniteSet(readings)
  <2>1. IsFiniteSet(at)
    BY FS_Subset DEF ScanInv, TreeOK
  <2> DEFINE third == [s \in at |-> s[3]]
  <2>2. readings = {third[s] : s \in at} /\ DOMAIN third = at
    OBVIOUS
  <2> HIDE DEF third, at
  <2>3. IsFiniteSet({third[s] : s \in at})
    BY <2>1, <2>2, ImageFinite
  <2>. QED BY <2>2, <2>3
<1> HIDE DEF readings, reads, entry
<1>9. PICK x : readings = {x}
  BY <1>8, FS_Singleton
<1>. QED BY <1>5, <1>7, <1>9

LEMMA ScanCapHonest == ScanInv => CapHonest
BY DEF ScanInv, CapHonest, ProcOK, StayedOK

LEMMA ScanTyped == ScanInv => ScanTypeOK
<1> SUFFICES ASSUME ScanInv PROVE ScanTypeOK
  OBVIOUS
<1> DEFINE IsEntries(entries) ==
             /\ DOMAIN entries \subseteq Files
             /\ \A f \in DOMAIN entries :
                  /\ entries[f].stat \in Nat \X Nat
                  /\ entries[f].record \in Contents \cup {"excluded", "unreadable"}
<1>1. \A entries \in Entries : IsEntries(entries)
  BY DEF Entries, Record
<1>2. \A index \in {json, db} : index # Nothing => IsEntries(index.entries)
  BY <1>1 DEF ScanInv, IndexOK, EntriesOK
<1>3. ASSUME NEW p \in Procs
      PROVE  /\ scan[p].at \in {"idle", "migrate", "load", "rows", "json",
                                "walk", "read", "save", "scanned"}
             /\ scan[p].rules \subseteq Files
             /\ scan[p].prev \in Entries /\ scan[p].cur \in Entries
             /\ scan[p].count \in 0..Len(Walk)
             /\ stayed[p] \subseteq Files
  BY DEF ScanInv, ProcOK, Scan, CountOK
<1>4. \A f \in Files : disk[f] # Nothing => disk[f].mtime \in 0..now
  BY ScanConstants DEF ScanInv, TreeOK, Present, FileState
<1>5. now \in 0..MaxTime /\ readable \subseteq Files /\ torn \in BOOLEAN
  BY DEF ScanInv, TreeOK
<1>. QED BY <1>1, <1>2, <1>3, <1>4, <1>5 DEF ScanTypeOK

----------------------------------------------------------------------------
(* The feed                                                                *)

Mirror == [at : {"idle", "open", "write", "glob", "prune", "done"},
           name : (Int \X Nat) \cup {Nothing}, run : Int \cup {Nothing},
           linked : BOOLEAN, stale : SUBSET (Int \X Nat)]

(* Only a write has its file open, and only a prune has files to delete.   *)
MirrorOK(names, m) ==
    /\ m.linked => m.at = "write" /\ m.name \in names
    /\ m.at \in {"open", "write"} => m.name \in Int \X Nat
    /\ m.at # "prune" => m.stale = {}

Doomed(m) == UNION {m[p].stale : p \in Procs}

(* Reports are made at names of the feed, at some time.                    *)
MadeOK == DOMAIN made \subseteq Int \X Nat /\ \A name \in DOMAIN made : made[name] \in Nat

(* What the mirrored reports keep to.                                      *)
FeedInv ==
    /\ Names \subseteq Int \X Nat
    /\ IsFiniteSet(Names)
    /\ \A name \in Names : feed[name].mtime \in Nat
    /\ mirror \in [Procs -> Mirror]
    /\ \A p \in Procs : MirrorOK(Names, mirror[p])
    /\ unpruned \subseteq Int \X Nat
    /\ MadeOK
    /\ reused \subseteq Int \X Nat
    /\ overtaken \in BOOLEAN
    /\ FeedBounded

(* The files that count against Keep do not become more.                   *)
LEMMA BoundKept ==
    ASSUME FeedInv, Names' \ (Doomed(mirror') \cup unpruned') \subseteq
                    Names \ (Doomed(mirror) \cup unpruned)
    PROVE  FeedBounded'
<1> DEFINE old == Names \ (Doomed(mirror) \cup unpruned)
           new == Names' \ (Doomed(mirror') \cup unpruned')
<1>1. IsFiniteSet(old)
  BY FS_Subset DEF FeedInv
<1>2. Cardinality(old) <= Keep
  BY DEF FeedInv, FeedBounded, Condemned, Doomed
<1>3. new \in SUBSET old
  OBVIOUS
<1> HIDE DEF old, new
<1>4. IsFiniteSet(new) /\ Cardinality(new) <= Cardinality(old)
  BY <1>1, <1>3, FS_Subset
<1>5. Cardinality(new) \in Nat /\ Cardinality(old) \in Nat
  BY <1>1, <1>4, FS_CardinalityType
<1>6. Cardinality(new) <= Keep
  BY <1>2, <1>4, <1>5, FeedConstants
<1>. QED BY <1>6 DEF new, FeedBounded, Condemned, Doomed

(* There is a name left, and no lower one.                                 *)
LEMMA FreeNameFree ==
    ASSUME FeedInv, NEW second \in Int
    PROVE  FreeName(second) \in (Int \X Nat) \ Names
<1> DEFINE most == Cardinality(Names)
           Taken == {n \in Nat : n <= most => \A k \in 0..n : <<second, k>> \in Names}
           Free(n) == /\ <<second, n>> \notin Names
                      /\ \A m \in 0..(n - 1) : <<second, m>> \in Names
<1>1. IsFiniteSet(Names) /\ most \in Nat
  BY FS_CardinalityType DEF FeedInv
<1>2. \E n \in 0..most : Free(n)
  <2>1. SUFFICES ASSUME \A n \in 0..most : ~Free(n) PROVE FALSE
    OBVIOUS
  <2>2. 0 \in Taken
    <3>1. <<second, 0>> \in Names
      BY <1>1, <2>1
    <3>. QED BY <3>1
  <2>3. ASSUME NEW n \in Nat, n \in Taken PROVE n + 1 \in Taken
    <3>1. SUFFICES ASSUME n + 1 <= most
                   PROVE  \A k \in 0..(n + 1) : <<second, k>> \in Names
      OBVIOUS
    <3>2. n <= most /\ n + 1 \in 0..most /\ (n + 1) - 1 = n
      BY <1>1, <3>1
    <3>3. \A k \in 0..n : <<second, k>> \in Names
      BY <2>3, <3>2
    <3>4. <<second, n + 1>> \in Names
      BY <2>1, <3>2, <3>3
    <3>5. \A k \in 0..(n + 1) : k \in 0..n \/ k = n + 1
      OBVIOUS
    <3>. QED BY <3>3, <3>4, <3>5
  <2>4. Nat \subseteq Taken
    <3> HIDE DEF Taken
    <3>. QED BY <2>2, <2>3, NatSetInduction
  <2>5. \A k \in 0..most : <<second, k>> \in Names
    BY <1>1, <2>4
  <2> DEFINE f == [k \in 0..most |-> <<second, k>>]
  <2>6. f \in [0..most -> Names]
    BY <2>5
  <2>7. IsFiniteSet(0..most) /\ Cardinality(0..most) = most + 1
    <3> HIDE DEF most
    <3>1. /\ IsFiniteSet(0..most)
          /\ Cardinality(0..most) = IF 0 > most THEN 0 ELSE most - 0 + 1
      BY <1>1, FS_Interval
    <3>. QED BY <1>1, <3>1
  <2>8. \E x, y \in 0..most : x # y /\ f[x] = f[y]
    <3> HIDE DEF f
    <3>1. most < Cardinality(0..most)
      BY <1>1, <2>7
    <3>. QED BY <1>1, <2>6, <2>7, <3>1, FS_PigeonHole
  <2>. QED BY <2>8
<1> DEFINE least == CHOOSE n \in 0..most : Free(n)
<1>3. FreeName(second) = <<second, least>>
  BY DEF FreeName
<1>4. least \in 0..most /\ Free(least)
  <2> HIDE DEF Free
  <2>. QED BY <1>2
<1> HIDE DEF least, most
<1>5. least \in Nat /\ <<second, least>> \notin Names
  BY <1>1, <1>4
<1> DEFINE name == FreeName(second)
<1>6. name = <<second, least>>
  BY <1>3
<1>7. name \in Int \X Nat /\ name \notin Names
  BY <1>5, <1>6
<1>. QED BY <1>7

(* Ranks number the files, the newer ones lower.                           *)
LEMMA NamesRanked ==
    ASSUME FeedInv
    PROVE  \E rank : /\ Renames(rank, Names, 1..Cardinality(Names))
                     /\ \A name \in Names : Rank(name) = rank[name] - 1
                     /\ \A a, b \in Names : rank[a] < rank[b] => Newer(a, b)
<1> DEFINE R == {pair \in Names \X Names : pair[1] = pair[2] \/ Newer(pair[1], pair[2])}
           n == Cardinality(Names)
           rank == RankIn(R, Names)
<1>1. IsFiniteSet(Names) /\ n \in Nat
  BY FS_CardinalityType DEF FeedInv
<1>2. \A a, b \in Names : <<a, b>> \in R <=> (a = b \/ Newer(a, b))
  OBVIOUS
<1>3. \A a \in Names : /\ a = <<a[1], a[2]>> /\ a[1] \in Int /\ a[2] \in Nat
                       /\ feed[a].mtime \in Nat
  BY DEF FeedInv
<1>4. /\ \A a, b \in Names : a = b \/ Newer(a, b) \/ Newer(b, a)
      /\ \A a, b \in Names : ~(Newer(a, b) /\ Newer(b, a))
      /\ \A a, b, c \in Names : Newer(a, b) /\ Newer(b, c) => Newer(a, c)
  <2>1. ASSUME NEW a \in Names, NEW b \in Names
        PROVE  (a = b \/ Newer(a, b) \/ Newer(b, a)) /\ ~(Newer(a, b) /\ Newer(b, a))
    <3>1. a[1] = b[1] /\ a[2] = b[2] => a = b
      BY <1>3
    <3>2. /\ a[1] \in Int /\ a[2] \in Nat /\ feed[a].mtime \in Nat
          /\ b[1] \in Int /\ b[2] \in Nat /\ feed[b].mtime \in Nat
      BY <1>3
    <3>. QED BY <3>1, <3>2 DEF Newer
  <2>2. ASSUME NEW a \in Names, NEW b \in Names, NEW c \in Names, Newer(a, b), Newer(b, c)
        PROVE  Newer(a, c)
    <3>1. /\ a[1] \in Int /\ a[2] \in Nat /\ feed[a].mtime \in Nat
          /\ b[1] \in Int /\ b[2] \in Nat /\ feed[b].mtime \in Nat
          /\ c[1] \in Int /\ c[2] \in Nat /\ feed[c].mtime \in Nat
      BY <1>3
    <3>. QED BY <2>2, <3>1 DEF Newer
  <2>. QED BY <2>1, <2>2
<1>5. TotalOrder(R, Names)
  <2> HIDE DEF R
  <2>. QED BY <1>2, <1>4 DEF TotalOrder
<1>6. /\ Renames(rank, Names, 1..n)
      /\ \A a, b \in Names : rank[a] < rank[b] => <<a, b>> \in R
  <2> HIDE DEF R
  <2>. QED BY <1>1, <1>5, RanksCover
<1>7. \A name \in Names : Rank(name) = rank[name] - 1
  <2>1. SUFFICES ASSUME NEW name \in Names PROVE Rank(name) = rank[name] - 1
    OBVIOUS
  <2> DEFINE above == {other \in Names : Newer(other, name)}
  <2>2. rank[name] = Cardinality({a \in Names : <<a, name>> \in R})
    BY Zenon DEF RankIn
  <2>3. {a \in Names : <<a, name>> \in R} = above \cup {name}
    BY <1>2
  <2>4. name \notin above
    BY <1>4
  <2>5. IsFiniteSet(above)
    BY <1>1, FS_Subset
  <2>6. Cardinality(above \cup {name}) = Cardinality(above) + 1 /\ Cardinality(above) \in Nat
    <3> HIDE DEF above
    <3>. QED BY <2>4, <2>5, FS_AddElement, FS_CardinalityType
  <2>7. rank[name] = Cardinality(above \cup {name})
    BY Zenon, <2>2, <2>3
  <2>8. Rank(name) = Cardinality(above)
    BY DEF Rank
  <2> HIDE DEF above, rank
  <2>. QED BY <2>6, <2>7, <2>8
<1>8. \A a, b \in Names : rank[a] < rank[b] => Newer(a, b)
  <2>1. SUFFICES ASSUME NEW a \in Names, NEW b \in Names, rank[a] < rank[b]
                 PROVE  Newer(a, b)
    OBVIOUS
  <2>2. rank \in [Names -> 1..n]
    BY <1>6 DEF Renames
  <2>3. <<a, b>> \in R /\ a # b
    <3> HIDE DEF R, rank, n
    <3>. QED BY <1>1, <1>6, <2>1, <2>2
  <2>. QED BY <1>2, <2>3
<1> HIDE DEF R, rank
<1>. QED BY <1>6, <1>7, <1>8

(* No more than Keep files are not stale: they have different ranks.       *)
LEMMA FreshBounded ==
    ASSUME FeedInv
    PROVE  Stale \subseteq Names /\ Cardinality(Names \ Stale) <= Keep
<1> DEFINE n == Cardinality(Names)
           fresh == Names \ Stale
<1>1. n \in Nat
  BY FS_CardinalityType DEF FeedInv
<1> HIDE DEF n
<1>6. PICK rank : /\ Renames(rank, Names, 1..n)
                  /\ \A name \in Names : Rank(name) = rank[name] - 1
  BY NamesRanked DEF n
<1>7. \A name \in Names : Rank(name) = rank[name] - 1
  BY <1>6
<1>8. rank \in [Names -> 1..n] /\ \A a, b \in Names : rank[a] = rank[b] => a = b
  BY <1>6 DEF Renames
<1>9. Stale \subseteq Names
  BY DEF Stale
<1>10. \A name \in fresh : rank[name] \in 1..Keep
  BY <1>1, <1>7, <1>8, FeedConstants DEF Stale
<1> DEFINE g == [name \in fresh |-> rank[name]]
<1>11. g \in Injection(fresh, 1..Keep)
  BY <1>8, <1>10 DEF Injection, IsInjective
<1>12. IsFiniteSet(1..Keep) /\ Cardinality(1..Keep) = Keep
  <2>1. /\ IsFiniteSet(1..Keep)
        /\ Cardinality(1..Keep) = IF 1 > Keep THEN 0 ELSE Keep - 1 + 1
    BY FeedConstants, FS_Interval
  <2>. QED BY FeedConstants, <2>1
<1>13. Cardinality(fresh) <= Cardinality(1..Keep)
  <2> HIDE DEF g, fresh
  <2>. QED BY <1>11, <1>12, FS_Injection
<1>. QED BY <1>9, <1>12, <1>13

(* Each stale file has Keep newer ones that are not: the ranks below Keep.  *)
LEMMA FreshAbove ==
    ASSUME FeedInv, NEW name \in Stale
    PROVE  Cardinality({m \in Names \ Stale : Newer(m, name)}) >= Keep
<1> DEFINE n == Cardinality(Names)
           above == {m \in Names \ Stale : Newer(m, name)}
<1>1. IsFiniteSet(Names) /\ n \in Nat
  BY FS_CardinalityType DEF FeedInv
<1>2. IsFiniteSet(above)
  BY <1>1, FS_Subset
<1> HIDE DEF n
<1>3. PICK rank : /\ Renames(rank, Names, 1..n)
                  /\ \A a \in Names : Rank(a) = rank[a] - 1
                  /\ \A a, b \in Names : rank[a] < rank[b] => Newer(a, b)
  BY NamesRanked DEF n
<1>4. /\ rank \in [Names -> 1..n]
      /\ \A k \in 1..n : \E a \in Names : rank[a] = k
  BY <1>3 DEF Renames
<1>5. name \in Names /\ rank[name] > Keep
  BY <1>1, <1>3, <1>4, FeedConstants DEF Stale
<1>6. \A k \in 1..Keep : \E a \in above : rank[a] = k
  <2>1. SUFFICES ASSUME NEW k \in 1..Keep PROVE \E a \in above : rank[a] = k
    OBVIOUS
  <2>2. k \in 1..n /\ k < rank[name]
    BY <1>1, <1>4, <1>5, FeedConstants
  <2>3. PICK a \in Names : rank[a] = k
    BY <1>4, <2>2
  <2>4. a \notin Stale
    BY <1>3, <2>3, FeedConstants DEF Stale
  <2>. QED BY <1>3, <1>5, <2>2, <2>3, <2>4
<1> DEFINE h == [a \in above |-> IF rank[a] <= Keep THEN rank[a] ELSE 1]
<1>7. CASE Keep = 0
  <2>1. Cardinality(above) \in Nat
    BY <1>2, FS_CardinalityType
  <2>. QED BY <1>7, <2>1
<1>8. CASE Keep # 0
  <2>1. above \subseteq Names
    OBVIOUS
  <2> HIDE DEF above
  <2>2. h \in [above -> 1..Keep]
    BY <1>1, <1>4, <1>8, <2>1, FeedConstants
  <2>3. \A k \in 1..Keep : \E a \in above : h[a] = k
    BY <1>6, FeedConstants
  <2>4. h \in Surjection(above, 1..Keep)
    BY <2>2, <2>3 DEF Surjection
  <2> HIDE DEF h
  <2>5. Cardinality(1..Keep) <= Cardinality(above)
    BY <1>2, <2>4, FS_Surjection
  <2>6. Cardinality(1..Keep) = Keep
    <3>1. Cardinality(1..Keep) = IF 1 > Keep THEN 0 ELSE Keep - 1 + 1
      BY FeedConstants, FS_Interval
    <3>. QED BY <3>1, FeedConstants
  <2>7. Cardinality(above) \in Nat
    BY <1>2, FS_CardinalityType
  <2>. QED BY <2>5, <2>6, <2>7, FeedConstants DEF above
<1>. QED BY <1>7, <1>8

(* What is left to show of a step that concerns the mirror of p.           *)
LEMMA MirrorMoves ==
    ASSUME FeedInv, NEW p \in Procs, NEW m \in Mirror, mirror' = [mirror EXCEPT ![p] = m],
           Names \subseteq Names', Names' \subseteq Int \X Nat, IsFiniteSet(Names'),
           \A name \in Names' : feed'[name].mtime \in Nat,
           MirrorOK(Names', m),
           unpruned' \subseteq Int \X Nat, MadeOK',
           reused' \subseteq Int \X Nat, overtaken' \in BOOLEAN, FeedBounded'
    PROVE  FeedInv'
<1>1. mirror' \in [Procs -> Mirror]
  BY DEF FeedInv
<1>2. ASSUME NEW q \in Procs PROVE MirrorOK(Names', mirror'[q])
  <2>1. mirror'[q] = IF q = p THEN m ELSE mirror[q]
    BY DEF FeedInv
  <2>2. MirrorOK(Names, mirror[q])
    BY DEF FeedInv
  <2>. QED BY <2>1, <2>2 DEF MirrorOK
<1>. QED BY <1>1, <1>2 DEF FeedInv

(* Only the files that p is about to delete matter.                        *)
LEMMA DoomedWith ==
    ASSUME NEW M \in [Procs -> Mirror], NEW p \in Procs, NEW m
    PROVE  Doomed(M) \subseteq Doomed([M EXCEPT ![p] = m]) \cup M[p].stale
<1> DEFINE N == [M EXCEPT ![p] = m]
<1>1. SUFFICES ASSUME NEW q \in Procs, NEW name \in M[q].stale, q # p
               PROVE  name \in Doomed(N)
  BY DEF Doomed
<1>2. N[q] = M[q]
  BY <1>1
<1>. QED BY <1>1, <1>2 DEF Doomed

LEMMA FeedPickOK ==
    ASSUME FeedInv, NEW p \in Procs, NEW run \in Int, NEW second \in Int,
           FeedPick(p, run, second)
    PROVE  FeedInv'
<1> DEFINE m == [NoMirror EXCEPT !.at = "open", !.run = run, !.name = FreeName(second)]
<1>1. FreeName(second) \in Int \X Nat
  BY FreeNameFree
<1>2. m \in Mirror /\ m.at = "open" /\ m.name = FreeName(second) /\ m.stale = {} /\ ~m.linked
  BY <1>1 DEF Mirror, NoMirror
<1>3. /\ mirror' = [mirror EXCEPT ![p] = m] /\ feed' = feed /\ unpruned' = unpruned
      /\ reused' \subseteq reused \cup {FreeName(second)} /\ mirror[p].at = "idle"
      /\ made' = made /\ overtaken' = overtaken
  BY DEF FeedPick
<1> HIDE DEF m
<1>4. MirrorOK(Names', m)
  BY <1>1, <1>2 DEF MirrorOK
<1>5. Names' = Names
  BY <1>3 DEF Names
<1>6. mirror[p].stale = {}
  BY <1>3 DEF FeedInv, MirrorOK
<1>7. Doomed(mirror) \subseteq Doomed(mirror')
  BY <1>3, <1>6, DoomedWith DEF FeedInv
<1>8. FeedBounded'
  BY <1>3, <1>5, <1>7, BoundKept
<1>. QED BY <1>1, <1>2, <1>3, <1>4, <1>5, <1>8, MirrorMoves DEF FeedInv, MadeOK

LEMMA FeedOpenOK ==
    ASSUME FeedInv, NEW p \in Procs, NEW time \in Nat, FeedOpen(p, time)
    PROVE  FeedInv'
<1> DEFINE m == [mirror[p] EXCEPT !.at = "write", !.linked = TRUE]
           name == mirror[p].name
           file == [holds |-> {}, mtime |-> time]
<1>1. /\ mirror[p] \in Mirror /\ mirror[p].at = "open" /\ mirror[p].stale = {}
      /\ name \in Int \X Nat
  BY DEF FeedInv, FeedOpen, MirrorOK
<1>2. /\ m \in Mirror /\ m.at = "write" /\ m.name = name /\ m.stale = {}
  BY <1>1 DEF Mirror
<1>3. /\ mirror' = [mirror EXCEPT ![p] = m]
      /\ feed' = Put(feed, name, file)
      /\ unpruned' = unpruned \cup {name} /\ reused' = reused
      /\ made' = Put(made, name, time) /\ overtaken' \in BOOLEAN
  BY DEF FeedOpen, FeedInv
<1> HIDE DEF m, name
<1>4. Names' = Names \cup {name} /\ \A other \in Names : other # name => feed'[other] = feed[other]
  BY <1>3 DEF Put, Names
<1>5. feed'[name].mtime = time
  BY <1>3 DEF Put
<1>6. IsFiniteSet(Names') /\ Names' \subseteq Int \X Nat
  <2>1. IsFiniteSet(Names \cup {name})
    BY FS_AddElement DEF FeedInv
  <2>. QED BY <1>1, <1>4, <2>1 DEF FeedInv
<1>7. \A other \in Names' : feed'[other].mtime \in Nat
  BY <1>4, <1>5 DEF FeedInv
<1>8. MirrorOK(Names', m)
  BY <1>1, <1>2, <1>4 DEF MirrorOK
<1>9. Doomed(mirror) \subseteq Doomed(mirror')
  BY <1>1, <1>3, DoomedWith DEF FeedInv
<1>10. FeedBounded'
  BY <1>3, <1>4, <1>9, BoundKept
<1>11. /\ Names \subseteq Names' /\ unpruned' \subseteq Int \X Nat /\ reused' \subseteq Int \X Nat
       /\ MadeOK'
  BY <1>1, <1>3, <1>4 DEF FeedInv, MadeOK, Put
<1>. QED BY <1>2, <1>3, <1>6, <1>7, <1>8, <1>10, <1>11, MirrorMoves

LEMMA FeedWriteOK ==
    ASSUME FeedInv, NEW p \in Procs, NEW time \in Nat, FeedWrite(p, time)
    PROVE  FeedInv'
<1> DEFINE m == [mirror[p] EXCEPT !.at = "glob", !.linked = FALSE]
           name == mirror[p].name
<1>1. /\ mirror[p] \in Mirror /\ mirror[p].at = "write" /\ mirror[p].stale = {}
  BY DEF FeedInv, FeedWrite, MirrorOK
<1>2. /\ m \in Mirror /\ m.at = "glob" /\ m.stale = {} /\ ~m.linked
  BY <1>1 DEF Mirror
<1>3. /\ mirror' = [mirror EXCEPT ![p] = m] /\ unpruned' = unpruned /\ reused' = reused
      /\ overtaken' \in BOOLEAN
      /\ made' = made \/ made' = [made EXCEPT ![name] = time]
      /\ \/ feed' = feed
         \/ \E holds : feed' = [feed EXCEPT ![name] = [holds |-> holds, mtime |-> time]]
  <2>1. CASE mirror[p].linked
    BY <2>1 DEF FeedWrite, FeedInv
  <2>2. CASE ~mirror[p].linked
    BY <2>2 DEF FeedWrite, FeedInv
  <2>. QED BY <2>1, <2>2
<1> HIDE DEF m, name
<1>4. Names' = Names /\ \A other \in Names' : feed'[other].mtime \in Nat
  <2>1. CASE feed' = feed
    BY <2>1 DEF FeedInv, Names
  <2>2. ASSUME NEW holds, feed' = [feed EXCEPT ![name] = [holds |-> holds, mtime |-> time]]
        PROVE  Names' = Names /\ \A other \in Names' : feed'[other].mtime \in Nat
    BY <2>2 DEF FeedInv, Names
  <2>. QED BY <1>3, <2>1, <2>2
<1>5. MirrorOK(Names', m)
  BY <1>2 DEF MirrorOK
<1>6. Doomed(mirror) \subseteq Doomed(mirror')
  BY <1>1, <1>3, DoomedWith DEF FeedInv
<1>7. FeedBounded'
  BY <1>3, <1>4, <1>6, BoundKept
<1>8. IsFiniteSet(Names') /\ Names' \subseteq Int \X Nat /\ Names \subseteq Names'
  BY <1>4 DEF FeedInv
<1>9. MadeOK'
  BY <1>3 DEF FeedInv, MadeOK
<1>. QED BY <1>2, <1>3, <1>4, <1>5, <1>7, <1>8, <1>9, MirrorMoves DEF FeedInv

LEMMA FeedGlobOK ==
    ASSUME FeedInv, NEW p \in Procs, FeedGlob(p)
    PROVE  FeedInv'
<1> DEFINE m == [mirror[p] EXCEPT !.at = Pruning(Stale), !.stale = Stale]
<1>1. mirror[p] \in Mirror /\ mirror[p].at = "glob"
  BY DEF FeedInv, FeedGlob
<1>2. Stale \subseteq Names /\ Cardinality(Names \ Stale) <= Keep
  BY FreshBounded
<1>3. Stale \in SUBSET (Int \X Nat)
  BY <1>2 DEF FeedInv
<1>4. /\ m \in Mirror /\ m.at = Pruning(Stale) /\ m.stale = Stale /\ m.at \in {"prune", "done"}
      /\ m.linked = mirror[p].linked /\ m.name = mirror[p].name
  BY <1>1, <1>3 DEF Mirror, Pruning
<1>5. /\ mirror' = [mirror EXCEPT ![p] = m]
      /\ unpruned' = {} /\ reused' = reused /\ feed' = feed
      /\ made' = made /\ overtaken' = overtaken
  BY DEF FeedGlob, FeedInv
<1> HIDE DEF m
<1>6. Names' = Names
  BY <1>5 DEF Names
<1>7. MirrorOK(Names', m)
  BY <1>1, <1>4, <1>6 DEF MirrorOK, FeedInv, Pruning
<1>8. FeedBounded'
  <2> DEFINE old == Names \ Stale
             new == Names' \ (Doomed(mirror') \cup unpruned')
  <2>1. mirror'[p] = m
    BY <1>5 DEF FeedInv
  <2>2. Stale \subseteq Doomed(mirror')
    BY <1>4, <2>1 DEF Doomed
  <2>3. new \in SUBSET old /\ IsFiniteSet(old)
    BY <1>6, <2>2, FS_Subset DEF FeedInv
  <2>4. Cardinality(old) <= Keep
    BY <1>2
  <2> HIDE DEF old, new
  <2>5. IsFiniteSet(new) /\ Cardinality(new) <= Cardinality(old)
    BY <2>3, FS_Subset
  <2>6. Cardinality(new) \in Nat /\ Cardinality(old) \in Nat
    BY <2>3, <2>5, FS_CardinalityType
  <2>7. Cardinality(new) <= Keep
    BY <2>4, <2>5, <2>6, FeedConstants
  <2>. QED BY <2>7 DEF new, FeedBounded, Condemned, Doomed
<1>9. IsFiniteSet(Names') /\ Names' \subseteq Int \X Nat /\ Names \subseteq Names'
      /\ \A name \in Names' : feed'[name].mtime \in Nat
  BY <1>5, <1>6 DEF FeedInv
<1>. QED BY <1>4, <1>5, <1>7, <1>8, <1>9, MirrorMoves DEF FeedInv, MadeOK

(* Steps that end a call with nothing to delete, and change no file.       *)
LEMMA FeedLeavesOK ==
    ASSUME FeedInv, NEW p \in Procs, NEW m \in Mirror, mirror' = [mirror EXCEPT ![p] = m],
           m.at \in {"idle", "done"}, m.stale = {},
           ~m.linked, feed' = feed, UNCHANGED <<made, reused, overtaken>>,
           unpruned' = unpruned \cup (mirror[p].stale \cap Names)
    PROVE  FeedInv'
<1>1. Names' = Names
  BY DEF Names
<1>2. MirrorOK(Names', m)
  BY <1>1 DEF MirrorOK, FeedInv
<1>3. Doomed(mirror) \subseteq Doomed(mirror') \cup mirror[p].stale
  BY DoomedWith DEF FeedInv
<1>4. FeedBounded'
  BY <1>1, <1>3, BoundKept
<1>5. unpruned' \subseteq Int \X Nat
  BY DEF FeedInv
<1>6. IsFiniteSet(Names') /\ Names' \subseteq Int \X Nat /\ Names \subseteq Names'
      /\ \A name \in Names' : feed'[name].mtime \in Nat /\ reused' \subseteq Int \X Nat
  BY <1>1 DEF FeedInv
<1>7. MadeOK' /\ reused' \subseteq Int \X Nat /\ overtaken' \in BOOLEAN
  BY DEF FeedInv, MadeOK
<1>. QED BY <1>2, <1>4, <1>5, <1>6, <1>7, MirrorMoves

LEMMA FeedGlobRaisesOK ==
    ASSUME FeedInv, NEW p \in Procs, FeedGlobRaises(p)
    PROVE  FeedInv'
<1> DEFINE m == [mirror[p] EXCEPT !.at = "done"]
<1>1. mirror[p] \in Mirror /\ mirror[p].at = "glob" /\ mirror[p].stale = {}
      /\ ~mirror[p].linked
  BY DEF FeedInv, FeedGlobRaises, MirrorOK
<1>2. /\ m \in Mirror /\ m.at = "done" /\ m.stale = {} /\ ~m.linked
  BY <1>1 DEF Mirror
<1>3. /\ mirror' = [mirror EXCEPT ![p] = m]
      /\ unpruned' = unpruned /\ feed' = feed
      /\ UNCHANGED <<made, reused, overtaken>>
  BY DEF FeedGlobRaises, FeedInv
<1> HIDE DEF m
<1>. QED BY <1>1, <1>2, <1>3, FeedLeavesOK

LEMMA FeedFailsOK ==
    ASSUME FeedInv, NEW p \in Procs, FeedFails(p)
    PROVE  FeedInv'
<1> DEFINE m == [NoMirror EXCEPT !.at = "done", !.run = mirror[p].run]
<1>1. mirror[p] \in Mirror /\ mirror[p].stale = {}
  BY DEF FeedInv, FeedFails, MirrorOK
<1>2. m \in Mirror /\ m.at = "done" /\ m.stale = {} /\ ~m.linked
  BY <1>1 DEF Mirror, NoMirror
<1>3. /\ mirror' = [mirror EXCEPT ![p] = m]
      /\ unpruned' = unpruned /\ feed' = feed
      /\ UNCHANGED <<made, reused, overtaken>>
  BY DEF FeedFails
<1> HIDE DEF m
<1>. QED BY <1>1, <1>2, <1>3, FeedLeavesOK

LEMMA FeedForgottenOK ==
    ASSUME FeedInv, NEW p \in Procs, FeedForgotten(p)
    PROVE  FeedInv'
<1>1. NoMirror \in Mirror /\ NoMirror.at = "idle" /\ NoMirror.stale = {} /\ ~NoMirror.linked
  BY DEF Mirror, NoMirror
<1>2. /\ mirror' = [mirror EXCEPT ![p] = NoMirror] /\ feed' = feed
      /\ UNCHANGED <<made, reused, overtaken>>
      /\ unpruned' = unpruned \cup (mirror[p].stale \cap Names)
  BY DEF FeedForgotten
<1> HIDE DEF NoMirror
<1>. QED BY <1>1, <1>2, FeedLeavesOK

(* The mirrored report is handed over.                                     *)
LEMMA FeedEndsOK ==
    ASSUME FeedInv, NEW p \in Procs, mirror[p].at = "done",
           mirror' = [mirror EXCEPT ![p] = NoMirror],
           UNCHANGED <<feed, unpruned, made, reused, overtaken>>
    PROVE  FeedInv'
<1>1. NoMirror \in Mirror /\ NoMirror.at = "idle" /\ NoMirror.stale = {} /\ ~NoMirror.linked
  BY DEF Mirror, NoMirror
<1>2. mirror[p].stale = {}
  BY DEF FeedInv, MirrorOK
<1> HIDE DEF NoMirror
<1>. QED BY <1>1, <1>2, FeedLeavesOK

(* A step of the prune of p takes name off its list, and what is gone from *)
(* the feed: the file at the name, or none.                                *)
Prunes(p, name, gone) ==
    /\ name \in mirror[p].stale /\ gone \in SUBSET {name}
    /\ mirror[p].at = "prune"
    /\ Names' = Names \ gone
    /\ \A other \in Names' : feed'[other] = feed[other]
    /\ unpruned \ gone \subseteq unpruned' /\ unpruned' \subseteq unpruned \cup {name}
    /\ name \in Names' => name \in unpruned'
    /\ UNCHANGED <<made, reused, overtaken>>
    /\ mirror' \in [Procs -> Mirror]
    /\ \A q \in Procs :
         /\ mirror'[q].name = mirror[q].name /\ mirror'[q].run = mirror[q].run
         /\ mirror'[q].stale = IF q = p THEN mirror[p].stale \ {name} ELSE mirror[q].stale
         /\ mirror'[q].at = IF q = p THEN Pruning(mirror[p].stale \ {name}) ELSE mirror[q].at
         /\ mirror'[q].linked <=> mirror[q].linked /\ mirror[q].name \notin gone

LEMMA FeedPruneDoes ==
    ASSUME FeedInv, NEW p \in Procs, NEW fails, FeedPrune(p, fails)
    PROVE  \E name, gone : Prunes(p, name, gone)
<1>1. \A q \in Procs : mirror[q] \in Mirror /\ MirrorOK(Names, mirror[q])
  BY DEF FeedInv
<1>2. mirror[p].at = "prune" /\ ~mirror[p].linked /\ UNCHANGED <<made, reused, overtaken>>
  BY <1>1 DEF FeedPrune, MirrorOK
<1>3. PICK name \in mirror[p].stale :
        LET rest == mirror[p].stale \ {name}
        IN  \/ /\ feed' = Restrict(feed, Names \ {name})
               /\ mirror' = [q \in Procs |->
                    IF q = p THEN [mirror[p] EXCEPT !.at = Pruning(rest), !.stale = rest]
                    ELSE [mirror[q] EXCEPT !.linked = @ /\ mirror[q].name # name]]
               /\ unpruned' = unpruned \ {name}
            \/ /\ mirror' = [mirror EXCEPT ![p].at = Pruning(rest), ![p].stale = rest]
               /\ unpruned' = unpruned \cup ({name} \cap Names)
               /\ UNCHANGED feed
  BY DEF FeedPrune
<1> DEFINE rest == mirror[p].stale \ {name}
           m == [mirror[p] EXCEPT !.at = Pruning(rest), !.stale = rest]
<1>4. /\ m \in Mirror /\ m.at = Pruning(rest) /\ m.stale = rest
      /\ m.name = mirror[p].name /\ m.run = mirror[p].run /\ ~m.linked
  BY <1>1, <1>2 DEF Mirror, Pruning
<1>5. CASE /\ feed' = Restrict(feed, Names \ {name})
           /\ mirror' = [q \in Procs |->
                IF q = p THEN m ELSE [mirror[q] EXCEPT !.linked = @ /\ mirror[q].name # name]]
           /\ unpruned' = unpruned \ {name}
  <2>1. Names' = Names \ {name} /\ \A other \in Names' : feed'[other] = feed[other]
    BY <1>5 DEF Restrict, Names
  <2> HIDE DEF m, rest
  <2>2. ASSUME NEW q \in Procs, q # p
        PROVE  /\ mirror'[q] \in Mirror
               /\ mirror'[q].name = mirror[q].name /\ mirror'[q].run = mirror[q].run
               /\ mirror'[q].stale = mirror[q].stale /\ mirror'[q].at = mirror[q].at
               /\ mirror'[q].linked <=> mirror[q].linked /\ mirror[q].name \notin {name}
    <3> DEFINE still == mirror[q].linked /\ mirror[q].name # name
    <3>1. still \in BOOLEAN
      BY <1>1 DEF Mirror
    <3>2. mirror'[q] = [mirror[q] EXCEPT !.linked = still]
      BY <1>5, <2>2
    <3> HIDE DEF still
    <3>3. /\ mirror'[q] \in Mirror /\ mirror'[q].linked = still
          /\ mirror'[q].name = mirror[q].name /\ mirror'[q].run = mirror[q].run
          /\ mirror'[q].stale = mirror[q].stale /\ mirror'[q].at = mirror[q].at
      BY <1>1, <3>1, <3>2 DEF Mirror
    <3>. QED BY <3>3 DEF still
  <2>3. mirror'[p] = m
    BY <1>5
  <2>4. mirror' \in [Procs -> Mirror]
    <3>1. \A q \in Procs : mirror'[q] \in Mirror
      BY <1>4, <2>2, <2>3
    <3>2. mirror' = [q \in Procs |-> mirror'[q]]
      BY <1>5
    <3>. QED BY <3>1, <3>2
  <2>5. \A q \in Procs :
          /\ mirror'[q].name = mirror[q].name /\ mirror'[q].run = mirror[q].run
          /\ mirror'[q].stale = IF q = p THEN rest ELSE mirror[q].stale
          /\ mirror'[q].at = IF q = p THEN Pruning(rest) ELSE mirror[q].at
          /\ mirror'[q].linked <=> mirror[q].linked /\ mirror[q].name \notin {name}
    BY <1>2, <1>4, <2>2, <2>3
  <2>6. Prunes(p, name, {name})
    BY <1>2, <1>5, <2>1, <2>4, <2>5 DEF Prunes, rest
  <2>. QED BY <2>6
<1>6. CASE /\ mirror' = [mirror EXCEPT ![p].at = Pruning(rest), ![p].stale = rest]
           /\ unpruned' = unpruned \cup ({name} \cap Names)
           /\ UNCHANGED feed
  <2>1. mirror' = [mirror EXCEPT ![p] = m]
    BY <1>6 DEF FeedInv
  <2> HIDE DEF m, rest
  <2>2. mirror' \in [Procs -> Mirror] /\ \A q \in Procs : mirror'[q] = IF q = p THEN m ELSE mirror[q]
    BY <1>4, <2>1 DEF FeedInv
  <2>3. \A q \in Procs :
          /\ mirror'[q].name = mirror[q].name /\ mirror'[q].run = mirror[q].run
          /\ mirror'[q].stale = IF q = p THEN rest ELSE mirror[q].stale
          /\ mirror'[q].at = IF q = p THEN Pruning(rest) ELSE mirror[q].at
          /\ mirror'[q].linked <=> mirror[q].linked /\ mirror[q].name \notin {}
    BY <1>2, <1>4, <2>2
  <2>4. Names' = Names
    BY <1>6 DEF Names
  <2>5. Prunes(p, name, {})
    BY <1>2, <1>6, <2>2, <2>3, <2>4 DEF Prunes, rest
  <2>. QED BY <2>5
<1>. QED BY <1>3, <1>5, <1>6

LEMMA FeedPruneOK ==
    ASSUME FeedInv, NEW p \in Procs, NEW fails, FeedPrune(p, fails)
    PROVE  FeedInv'
<1>1. PICK name, gone : Prunes(p, name, gone)
  BY FeedPruneDoes
<1>2. \A q \in Procs : MirrorOK(Names', mirror'[q])
  <2>1. ASSUME NEW q \in Procs PROVE MirrorOK(Names', mirror'[q])
    <3>1. MirrorOK(Names, mirror[q])
      BY DEF FeedInv
    <3>2. CASE q = p
      BY <1>1, <3>1, <3>2 DEF Prunes, MirrorOK, Pruning
    <3>3. CASE q # p
      BY <1>1, <3>1, <3>3 DEF Prunes, MirrorOK
    <3>. QED BY <3>2, <3>3
  <2>. QED BY <2>1
<1>3. Doomed(mirror) \subseteq Doomed(mirror') \cup {name}
  <2>1. \A q \in Procs : mirror[q].stale \subseteq mirror'[q].stale \cup {name}
    BY <1>1 DEF Prunes
  <2>. QED BY <2>1 DEF Doomed
<1>4. FeedBounded'
  BY <1>1, <1>3, BoundKept DEF Prunes
<1>5. IsFiniteSet(Names') /\ Names' \subseteq Int \X Nat
  <2>1. IsFiniteSet(Names \ gone)
    BY FS_Subset DEF FeedInv
  <2>. QED BY <1>1, <2>1 DEF FeedInv, Prunes
<1>6. \A other \in Names' : feed'[other].mtime \in Nat
  BY <1>1 DEF FeedInv, Prunes
<1>7. unpruned' \subseteq Int \X Nat
  <2>1. name \in Int \X Nat
    BY <1>1 DEF FeedInv, Mirror, Prunes
  <2>. QED BY <1>1, <2>1 DEF FeedInv, Prunes
<1>8. mirror' \in [Procs -> Mirror] /\ UNCHANGED <<made, reused, overtaken>>
  BY <1>1 DEF Prunes
<1>. QED BY <1>2, <1>4, <1>5, <1>6, <1>7, <1>8 DEF FeedInv, MadeOK

LEMMA FeedStepOK ==
    ASSUME FeedInv, NEW p \in Procs, NEW time \in Nat, NEW fails, FeedStep(p, time, fails)
    PROVE  FeedInv'
BY FeedOpenOK, FeedWriteOK, FeedGlobOK, FeedGlobRaisesOK, FeedPruneOK, FeedFailsOK
   DEF FeedStep

LEMMA FeedStays ==
    ASSUME FeedInv, UNCHANGED feedVars
    PROVE  FeedInv'
<1>1. /\ feed' = feed /\ mirror' = mirror /\ unpruned' = unpruned
      /\ UNCHANGED <<made, reused, overtaken>>
  BY DEF feedVars
<1>2. FeedBounded'
  BY <1>1, BoundKept DEF Names
<1>. QED BY <1>1, <1>2 DEF FeedInv, MadeOK, Names

LEMMA FeedStarts ==
    ASSUME NEW old \in 0..Keep, FeedInit(old)
    PROVE  FeedInv
<1>1. /\ Names = {-1} \X (1..old) /\ unpruned = {} /\ made = <<>> /\ reused = {}
      /\ overtaken = FALSE
      /\ mirror = [p \in Procs |-> NoMirror]
      /\ \A name \in Names : feed[name].mtime = 0
  BY DEF FeedInit, Names
<1>2. old \in Nat /\ old <= Keep
  BY FeedConstants
<1>3. IsFiniteSet(1..old) /\ Cardinality(1..old) = old
  <2>1. /\ IsFiniteSet(1..old)
        /\ Cardinality(1..old) = IF 1 > old THEN 0 ELSE old - 1 + 1
    BY <1>2, FS_Interval
  <2>. QED BY <1>2, <2>1
<1> DEFINE f == [n \in 1..old |-> <<-1, n>>]
<1>4. f \in Surjection(1..old, Names)
  <2>1. f \in [1..old -> Names]
    BY <1>1
  <2>2. \A name \in Names : \E n \in 1..old : f[n] = name
    BY <1>1
  <2>. QED BY <2>1, <2>2 DEF Surjection
<1>5. IsFiniteSet(Names) /\ Cardinality(Names) <= Keep
  <2> HIDE DEF f
  <2>1. IsFiniteSet(Names) /\ Cardinality(Names) <= Cardinality(1..old)
    BY <1>3, <1>4, FS_Surjection
  <2>2. Cardinality(Names) \in Nat
    BY <2>1, FS_CardinalityType
  <2>. QED BY <1>2, <1>3, <2>1, <2>2, FeedConstants
<1>6. NoMirror \in Mirror /\ MirrorOK(Names, NoMirror) /\ NoMirror.stale = {}
  BY DEF Mirror, NoMirror, MirrorOK
<1>7. FeedBounded
  <2>1. Doomed(mirror) = {}
    BY <1>1, <1>6 DEF Doomed
  <2>2. Names \ (Doomed(mirror) \cup unpruned) = Names
    BY <1>1, <2>1
  <2>. QED BY <1>5, <2>2 DEF FeedBounded, Condemned, Doomed
<1>8. Names \subseteq Int \X Nat
  BY <1>1, <1>2
<1>9. /\ mirror \in [Procs -> Mirror]
      /\ \A p \in Procs : MirrorOK(Names, mirror[p])
  <2> HIDE DEF NoMirror
  <2>. QED BY <1>1, <1>6
<1>10. \A name \in Names : feed[name].mtime \in Nat
  BY <1>1
<1>11. MadeOK
  BY <1>1 DEF MadeOK
<1>. QED BY <1>1, <1>5, <1>7, <1>8, <1>9, <1>10, <1>11 DEF FeedInv

LEMMA FeedTyped == FeedInv => FeedTypeOK
BY DEF FeedInv, MadeOK, FeedTypeOK, Mirror, MirrorOK

----------------------------------------------------------------------------
(* Rows of the history                                                     *)

Row == [run : Int, artifact : {Nothing, RunJson} \cup (Int \X Nat)]

Rows(h) == IF h = Nothing THEN <<>> ELSE h

HasRun(rows, run) == \E i \in DOMAIN rows : rows[i].run = run

Above(rows, run) == {i \in DOMAIN rows : rows[i].run > run}

(* The run is in the rows, or MaxRows newer ones are.                      *)
HeldIn(rows, run) == HasRun(rows, run) \/ Cardinality(Above(rows, run)) >= MaxRows

(* No run of R has two rows.                                               *)
Once(rows, R) ==
    \A i, j \in DOMAIN rows : i # j /\ rows[i].run = rows[j].run => rows[i].run \notin R

(* The rows of new are rows of old, each taken once.                       *)
TakenFrom(at, new, old) ==
    /\ DOMAIN at = DOMAIN new
    /\ \A i \in DOMAIN new : at[i] \in DOMAIN old /\ new[i] = old[at[i]]
    /\ \A i, j \in DOMAIN new : at[i] = at[j] => i = j

(* The runs of the JSON file: each once.                                   *)
LEMMA LegacyRuns ==
    /\ Ascending(Legacy) \in Seq(Int)
    /\ Ascending(Legacy) # Nothing
    /\ \A i \in DOMAIN Ascending(Legacy) : Ascending(Legacy)[i] \in Legacy
    /\ \A i, j \in DOMAIN Ascending(Legacy) :
          Ascending(Legacy)[i] = Ascending(Legacy)[j] => i = j
    /\ \A run \in Legacy : \E i \in DOMAIN Ascending(Legacy) : Ascending(Legacy)[i] = run
<1> DEFINE s == Ascending(Legacy)
           m == Cardinality(Legacy)
<1>1. Legacy \in SUBSET Int /\ IsFiniteSet(Legacy)
  BY HistoryConstants
<1>2. m \in Nat /\ Renames(s, 1..m, Legacy)
  BY <1>1, AscendingNames
<1> HIDE DEF s, m
<1>3. /\ s \in [1..m -> Legacy]
      /\ \A i, j \in 1..m : s[i] = s[j] => i = j
      /\ \A run \in Legacy : \E i \in 1..m : s[i] = run
  BY <1>2 DEF Renames
<1>4. s \in Seq(Int) /\ DOMAIN s = 1..m
  <2>1. s \in [1..m -> Int]
    BY <1>1, <1>3
  <2>. QED BY <1>2, <2>1
<1>5. s # Nothing
  BY <1>4, HistoryConstants
<1>. QED BY <1>3, <1>4, <1>5 DEF s

LEMMA AboveFinite ==
    ASSUME NEW rows \in Seq(Row), NEW run
    PROVE  IsFiniteSet(Above(rows, run)) /\ Cardinality(Above(rows, run)) \in Nat
<1>1. IsFiniteSet(DOMAIN rows)
  <2>1. Len(rows) \in Int /\ DOMAIN rows = 1..Len(rows)
    OBVIOUS
  <2>. QED BY <2>1, FS_Interval
<1>2. Above(rows, run) \in SUBSET DOMAIN rows
  BY DEF Above
<1>. QED BY <1>1, <1>2, FS_Subset, FS_CardinalityType

(* What is held stays held when rows are added.                            *)
LEMMA HeldInLonger ==
    ASSUME NEW rows \in Seq(Row), NEW longer \in Seq(Row), NEW run,
           DOMAIN rows \subseteq DOMAIN longer,
           \A i \in DOMAIN rows : longer[i].run = rows[i].run,
           HeldIn(rows, run)
    PROVE  HeldIn(longer, run)
<1>1. CASE HasRun(rows, run)
  BY <1>1 DEF HeldIn, HasRun
<1>2. CASE Cardinality(Above(rows, run)) >= MaxRows
  <2>1. Above(rows, run) \in SUBSET Above(longer, run)
    BY DEF Above
  <2>2. /\ IsFiniteSet(Above(longer, run))
        /\ Cardinality(Above(longer, run)) \in Nat
        /\ Cardinality(Above(rows, run)) \in Nat
    BY AboveFinite
  <2>3. Cardinality(Above(rows, run)) <= Cardinality(Above(longer, run))
    BY <2>1, <2>2, FS_Subset
  <2>. QED BY <1>2, <2>2, <2>3, HistoryConstants DEF HeldIn
<1>. QED BY <1>1, <1>2 DEF HeldIn

(* Positions of a renaming that lead into a part are as many as the part.  *)
LEMMA RenamedPart ==
    ASSUME NEW at, NEW m \in Nat, NEW S, Renames(at, 1..m, S), NEW A \in SUBSET S,
           IsFiniteSet(A), NEW B, B = {k \in 1..m : at[k] \in A}
    PROVE  Cardinality(B) = Cardinality(A)
<1> DEFINE f == [k \in B |-> at[k]]
<1>1. /\ at \in [1..m -> S]
      /\ \A i, j \in 1..m : at[i] = at[j] => i = j
      /\ \A x \in S : \E i \in 1..m : at[i] = x
  BY DEF Renames
<1>2. f \in Injection(B, A)
  BY <1>1 DEF Injection, IsInjective
<1>3. f \in Surjection(B, A)
  BY <1>1 DEF Surjection
<1> HIDE DEF f
<1>. QED BY <1>2, <1>3, FS_Injection

LEMMA TakeRows ==
    ASSUME NEW rows \in Seq(Row), NEW S \in SUBSET DOMAIN rows
    PROVE  /\ IsFiniteSet(S) /\ Cardinality(S) \in Nat
           /\ Renames(Ascending(S), 1..Cardinality(S), S)
           /\ Take(rows, S) \in Seq(Row)
           /\ DOMAIN Take(rows, S) = 1..Cardinality(S)
           /\ \A k \in 1..Cardinality(S) : Take(rows, S)[k] = rows[Ascending(S)[k]]
<1> DEFINE m == Cardinality(S)
           at == Ascending(S)
<1>1. DOMAIN rows = 1..Len(rows) /\ Len(rows) \in Nat
  OBVIOUS
<1>2. IsFiniteSet(DOMAIN rows)
  BY <1>1, FS_Interval
<1>3. S \in SUBSET Int /\ IsFiniteSet(S)
  BY <1>1, <1>2, FS_Subset
<1>4. m \in Nat /\ Renames(at, 1..m, S)
  BY <1>3, AscendingNames
<1>5. Take(rows, S) = [i \in 1..m |-> rows[at[i]]]
  BY DEF Take
<1> HIDE DEF m, at
<1>6. \A k \in 1..m : at[k] \in DOMAIN rows
  BY <1>4 DEF Renames
<1>7. \A k \in 1..m : rows[at[k]] \in Row
  BY <1>1, <1>6
<1>8. Take(rows, S) \in Seq(Row)
  BY <1>4, <1>5, <1>7
<1>. QED BY <1>3, <1>4, <1>5, <1>8 DEF m, at

LEMMA MinOfTwo ==
    ASSUME NEW a \in Nat, NEW b \in Nat
    PROVE  Min({a, b}) = IF a <= b THEN a ELSE b
BY DEF Min

(* The newest rows hold the runs that the rows hold.                       *)
LEMMA NewestHeld ==
    ASSUME NEW rows \in Seq(Row), NEW new \in Newest(rows)
    PROVE  /\ new \in Seq(Row)
           /\ \E at : TakenFrom(at, new, rows)
           /\ \A run \in Int : HeldIn(rows, run) => HeldIn(new, run)
<1>1. PICK S \in Selections(rows) :
        /\ new = Take(rows, S)
        /\ \A i \in S, j \in DOMAIN rows \ S : rows[i].run >= rows[j].run
  BY DEF Newest
<1> DEFINE m == Cardinality(S)
           at == Ascending(S)
<1>2. S \in SUBSET DOMAIN rows /\ m = Min({Len(rows), MaxRows})
  BY DEF Selections
<1>3. /\ IsFiniteSet(S) /\ m \in Nat
      /\ Renames(at, 1..m, S)
      /\ new \in Seq(Row) /\ DOMAIN new = 1..m
      /\ \A k \in 1..m : new[k] = rows[at[k]]
  BY <1>1, <1>2, TakeRows
<1>4. /\ at \in [1..m -> S]
      /\ \A i, j \in 1..m : at[i] = at[j] => i = j
      /\ \A i \in S : \E k \in 1..m : at[k] = i
  BY <1>3 DEF Renames
<1>5. TakenFrom(at, new, rows)
  BY <1>2, <1>3, <1>4 DEF TakenFrom
<1>6. /\ DOMAIN rows = 1..Len(rows) /\ Len(rows) \in Nat
      /\ IsFiniteSet(DOMAIN rows) /\ Cardinality(DOMAIN rows) = Len(rows)
  <2> DEFINE l == Len(rows)
  <2>1. DOMAIN rows = 1..l /\ l \in Nat
    OBVIOUS
  <2> HIDE DEF l
  <2>2. IsFiniteSet(1..l) /\ Cardinality(1..l) = IF 1 > l THEN 0 ELSE l - 1 + 1
    BY <2>1, FS_Interval
  <2>3. Cardinality(1..l) = l
    BY <2>1, <2>2
  <2>. QED BY <2>1, <2>2, <2>3 DEF l
<1>7. \A i \in DOMAIN rows : rows[i].run \in Int
  <2>1. \A i \in DOMAIN rows : rows[i] \in Row
    BY <1>6
  <2>. QED BY <2>1 DEF Row
<1>8. (Len(rows) <= MaxRows /\ S = DOMAIN rows) \/ (m = MaxRows)
  <2>1. m = IF Len(rows) <= MaxRows THEN Len(rows) ELSE MaxRows
    BY <1>2, <1>6, MinOfTwo, HistoryConstants
  <2>2. m = Len(rows) => S = DOMAIN rows
    BY <1>2, <1>6, FS_Subset
  <2>. QED BY <2>1, <2>2
<1> HIDE DEF m, at
<1>9. ASSUME NEW run \in Int, HeldIn(rows, run)
      PROVE  HeldIn(new, run)
  <2> DEFINE G == Above(rows, run)
             H == G \cap S
  <2>1. \A j \in S : rows[j].run = run => HasRun(new, run)
    BY <1>3, <1>4 DEF HasRun
  <2>2. IsFiniteSet(G) /\ Cardinality(G) \in Nat /\ G \subseteq DOMAIN rows
    BY AboveFinite DEF Above
  <2>3. Above(new, run) = {k \in 1..m : at[k] \in H}
    BY <1>2, <1>3, <1>4 DEF Above
  <2>4. IsFiniteSet(H) /\ H \in SUBSET S
    BY <2>2, FS_Intersection
  <2>5. Cardinality(Above(new, run)) = Cardinality(H)
    <3> HIDE DEF H
    <3>. QED BY <1>3, <2>3, <2>4, RenamedPart
  <2>6. \A i \in DOMAIN rows : i \in G <=> rows[i].run > run
    BY DEF Above
  <2> HIDE DEF G
  <2>7. CASE Len(rows) <= MaxRows /\ S = DOMAIN rows
    <3>1. H = G
      BY <2>2, <2>7
    <3>2. CASE HasRun(rows, run)
      BY <2>1, <2>7, <3>2 DEF HasRun, HeldIn
    <3>3. CASE Cardinality(G) >= MaxRows
      BY <2>5, <3>1, <3>3 DEF HeldIn
    <3>. QED BY <1>9, <3>2, <3>3 DEF HeldIn, G
  <2>8. CASE m = MaxRows /\ S \subseteq G
    <3>1. H = S
      BY <2>8
    <3>2. Cardinality(Above(new, run)) = MaxRows
      BY <2>5, <2>8, <3>1 DEF m
    <3>. QED BY <3>2, HistoryConstants DEF HeldIn
  <2>9. ASSUME m = MaxRows, NEW i \in S, i \notin G
        PROVE  HeldIn(new, run)
    <3>1. i \in DOMAIN rows /\ rows[i].run <= run
      BY <1>2, <1>7, <2>6, <2>9
    <3>2. \A j \in DOMAIN rows \ S : rows[j].run <= rows[i].run
      BY <1>1, <1>2, <1>7
    <3>3. \A j \in DOMAIN rows \ S : rows[j].run <= run
      BY <1>7, <3>1, <3>2
    <3>4. G \in SUBSET S /\ G # S
      BY <1>7, <2>2, <2>6, <2>9, <3>3
    <3>5. Cardinality(G) < MaxRows
      <4>1. Cardinality(G) <= Cardinality(S) /\ Cardinality(G) # Cardinality(S)
        BY <1>3, <3>4, FS_Subset
      <4>. QED BY <1>3, <2>2, <2>9, <4>1, HistoryConstants DEF m
    <3>6. PICK j \in DOMAIN rows : rows[j].run = run
      BY <1>9, <2>2, <3>5, HistoryConstants DEF HeldIn, HasRun, G
    <3>7. CASE j \in S
      BY <2>1, <3>6, <3>7 DEF HeldIn
    <3>8. CASE j \notin S
      <4>1. rows[i].run = run
        BY <1>7, <3>1, <3>2, <3>6, <3>8
      <4>. QED BY <2>1, <4>1 DEF HeldIn
    <3>. QED BY <3>7, <3>8
  <2>. QED BY <1>8, <2>7, <2>8, <2>9
<1>. QED BY <1>3, <1>5, <1>9

----------------------------------------------------------------------------
(* The history                                                             *)

Hist == [at : {"idle", "read", "schema", "commit", "rename", "body", "done"},
         goal : {"load", "append", Nothing}, items : Seq(Int), linked : BOOLEAN]

Moving(h) == h.at \in {"read", "schema", "commit", "rename"}

(* Not in this migration is a row imported yet.                            *)
Importing(h) == h.at \in {"read", "schema", "commit"}

HistoryTyped ==
    /\ legacy \in {Nothing, Ascending(Legacy)}
    /\ history \in Seq(Row) \cup {Nothing}
    /\ hist \in [Procs -> Hist]
    /\ recorded \subseteq Int
    /\ spoiled \in BOOLEAN
    /\ overlapped \in BOOLEAN

MigrationsOK ==
    \A p \in Procs :
      /\ hist[p].at \in {"schema", "commit", "rename"} => hist[p].items = Ascending(Legacy)
      /\ hist[p].linked => history # Nothing

(* A run of this model has one row; so has an imported one, unless two     *)
(* migrations overlapped, and until it is imported it has none.            *)
RowsOnce ==
    /\ stamped \subseteq Nat
    /\ \A i \in DOMAIN Rows(history) : Rows(history)[i].run \in Legacy \cup stamped
    /\ Once(Rows(history), Nat)
    /\ ~overlapped =>
         /\ Once(Rows(history), Legacy)
         /\ \A p, q \in Procs : Moving(hist[p]) /\ Moving(hist[q]) => p = q
         /\ \A p \in Procs : Importing(hist[p]) =>
              \A i \in DOMAIN Rows(history) : Rows(history)[i].run \notin Legacy

AllHeld(runs) == \A run \in runs : HeldIn(Rows(history), run)

(* Unless spoiled, what was recorded is held, the runs of the JSON file    *)
(* from when it is renamed, or when somebody has a database and nobody is  *)
(* about to import into it; and nobody uses a database while there is none *)
(* and a JSON file to import.                                              *)
RecordedHeld ==
    ~spoiled =>
      /\ AllHeld(recorded \ Legacy)
      /\ \/ legacy = Nothing
         \/ \E p \in Procs : hist[p].at = "rename"
         \/ history # Nothing /\ \A p \in Procs : hist[p].at # "commit"
         => AllHeld(recorded \cap Legacy)
      /\ \A p \in Procs : hist[p].at \in {"commit", "rename"} => hist[p].linked
      /\ legacy # Nothing /\ history = Nothing => \A p \in Procs : hist[p].at # "body"

HistoryInv == HistoryTyped /\ MigrationsOK /\ RowsOnce /\ RecordedHeld

LEMMA NoRows ==
    /\ <<>> \in Seq(Row) /\ <<>> # Nothing /\ DOMAIN <<>> = {}
    /\ Rows(Nothing) = <<>>
    /\ \A rows \in Seq(Row) : rows # Nothing /\ Rows(rows) = rows
<1>1. Nothing \notin Seq(Row)
  BY PacksConstants DEF Row
<1>2. <<>> \in Seq(Row) /\ DOMAIN <<>> = {}
  OBVIOUS
<1>. QED BY <1>1, <1>2 DEF Rows

(* The steps that leave the rows as they are.                              *)
LEMMA QuietKept ==
    ASSUME HistoryInv, NEW p \in Procs, NEW h \in Hist, hist' = [hist EXCEPT ![p] = h],
           history' = history \/ (history = Nothing /\ history' = <<>>),
           legacy' = legacy \/ legacy' = Nothing,
           recorded' = recorded, stamped \subseteq stamped', stamped' \subseteq Nat,
           spoiled' \in BOOLEAN, spoiled => spoiled',
           overlapped' \in BOOLEAN, overlapped => overlapped',
           h.at \in {"schema", "commit", "rename"} => h.items = Ascending(Legacy),
           h.linked => history' # Nothing,
           Moving(h) /\ ~overlapped' =>
              \/ Moving(hist[p]) /\ (Importing(h) => Importing(hist[p]))
              \/ history = Nothing /\ \A q \in Procs : ~Moving(hist[q]),
           ~spoiled' =>
              /\ h.at \in {"commit", "rename"} => h.linked
              /\ h.at = "rename" => hist[p].at = "rename"
              /\ hist[p].at = "commit" => h.at = "commit"
              /\ legacy' = Nothing => legacy = Nothing \/ hist[p].at = "rename"
              /\ history' = history \/ legacy = Nothing \/ h.at = "commit"
              /\ h.at = "body" => \/ hist[p].at = "body" /\ history' # Nothing
                                  \/ legacy' = Nothing
                                  \/ history' # Nothing
    PROVE  HistoryInv'
<1>1. Rows(history') = Rows(history)
  BY NoRows
<1>2. \A q \in Procs : hist'[q] = IF q = p THEN h ELSE hist[q]
  BY DEF HistoryInv, HistoryTyped
<1>3. HistoryTyped'
  BY NoRows DEF HistoryInv, HistoryTyped
<1>4. MigrationsOK'
  BY <1>2, NoRows DEF HistoryInv, MigrationsOK
<1>5. RowsOnce'
  <2>1. /\ stamped' \subseteq Nat
        /\ \A i \in DOMAIN Rows(history') : Rows(history')[i].run \in Legacy \cup stamped'
        /\ Once(Rows(history'), Nat)
    BY <1>1 DEF HistoryInv, RowsOnce
  <2>2. ASSUME ~overlapped'
        PROVE  Once(Rows(history'), Legacy)
    BY <1>1, <2>2 DEF HistoryInv, RowsOnce
  <2>3. ASSUME ~overlapped', NEW q \in Procs, NEW r \in Procs, Moving(hist'[q]), Moving(hist'[r])
        PROVE  q = r
    <3>1. \A a, b \in Procs : Moving(hist[a]) /\ Moving(hist[b]) => a = b
      BY <2>3 DEF HistoryInv, RowsOnce
    <3>. QED BY <1>2, <2>3, <3>1
  <2>4. ASSUME ~overlapped', NEW q \in Procs, Importing(hist'[q]), NEW i \in DOMAIN Rows(history')
        PROVE  Rows(history')[i].run \notin Legacy
    <3>1. Importing(hist[q]) => Rows(history)[i].run \notin Legacy
      BY <1>1, <2>4 DEF HistoryInv, RowsOnce
    <3>2. CASE history = Nothing
      BY <1>1, <2>4, <3>2, NoRows
    <3>3. CASE q # p
      BY <1>1, <1>2, <2>4, <3>1, <3>3
    <3>4. CASE q = p /\ history # Nothing
      <4>1. Importing(h) /\ Moving(h)
        BY <1>2, <2>4, <3>4 DEF Importing, Moving
      <4>2. Importing(hist[p])
        BY <2>4, <3>4, <4>1
      <4>. QED BY <1>1, <3>1, <3>4, <4>2
    <3>. QED BY <3>2, <3>3, <3>4
  <2>. QED BY <2>1, <2>2, <2>3, <2>4 DEF RowsOnce
<1>6. RecordedHeld'
  <2>1. SUFFICES ASSUME ~spoiled' PROVE RecordedHeld'
    BY DEF RecordedHeld
  <2>2. ~spoiled
    BY <2>1
  <2>3. /\ AllHeld(recorded \ Legacy)'
        /\ AllHeld(recorded \cap Legacy) => AllHeld(recorded \cap Legacy)'
    BY <1>1, <2>2 DEF HistoryInv, RecordedHeld, AllHeld
  <2>4. \A q \in Procs : hist'[q].at \in {"commit", "rename"} => hist'[q].linked
    BY <1>2, <2>1, <2>2 DEF HistoryInv, RecordedHeld
  <2>5. legacy' # Nothing /\ history' = Nothing => \A q \in Procs : hist'[q].at # "body"
    BY <1>2, <2>1, <2>2 DEF HistoryInv, RecordedHeld
  <2>6. ASSUME \/ legacy' = Nothing
               \/ \E q \in Procs : hist'[q].at = "rename"
               \/ history' # Nothing /\ \A q \in Procs : hist'[q].at # "commit"
        PROVE  AllHeld(recorded \cap Legacy)
    <3>1. \/ legacy = Nothing
          \/ \E q \in Procs : hist[q].at = "rename"
          \/ history # Nothing /\ \A q \in Procs : hist[q].at # "commit"
          => AllHeld(recorded \cap Legacy)
      BY <2>2 DEF HistoryInv, RecordedHeld
    <3>2. CASE legacy' = Nothing
      BY <2>1, <3>1, <3>2
    <3>3. CASE \E q \in Procs : hist'[q].at = "rename"
      BY <1>2, <2>1, <3>1, <3>3
    <3>4. CASE history' # Nothing /\ \A q \in Procs : hist'[q].at # "commit"
      <4>1. h.at # "commit"
        BY <1>2, <3>4
      <4>2. hist[p].at # "commit"
        BY <2>1, <4>1
      <4>3. \A q \in Procs : hist[q].at # "commit"
        BY <1>2, <3>4, <4>2
      <4>4. history' = history \/ legacy = Nothing
        BY <2>1, <4>1
      <4>. QED BY <3>1, <3>4, <4>3, <4>4
    <3>. QED BY <2>6, <3>2, <3>3, <3>4
  <2>. QED BY <2>3, <2>4, <2>5, <2>6 DEF RecordedHeld
<1>. QED BY <1>3, <1>4, <1>5, <1>6 DEF HistoryInv

(* The steps that leave who is in the rows, and who uses them.             *)
LEMMA SettledKept ==
    ASSUME HistoryInv, UNCHANGED <<legacy, hist, recorded, overlapped, stamped>>,
           history' \in Seq(Row) \cup {Nothing},
           history # Nothing => history' # Nothing,
           spoiled' \in BOOLEAN, spoiled => spoiled',
           history = Nothing /\ history' # Nothing /\ ~spoiled' => legacy = Nothing,
           DOMAIN Rows(history') = DOMAIN Rows(history),
           \A i \in DOMAIN Rows(history) : Rows(history')[i].run = Rows(history)[i].run
    PROVE  HistoryInv'
<1>1. Rows(history) \in Seq(Row) /\ Rows(history') \in Seq(Row)
  BY NoRows DEF HistoryInv, HistoryTyped
<1>2. \A run : HeldIn(Rows(history), run) => HeldIn(Rows(history'), run)
  BY <1>1, HeldInLonger
<1>3. HistoryTyped' /\ MigrationsOK'
  BY DEF HistoryInv, HistoryTyped, MigrationsOK
<1>4. RowsOnce'
  <2>1. /\ \A i \in DOMAIN Rows(history') : Rows(history')[i].run \in Legacy \cup stamped
        /\ Once(Rows(history'), Nat)
        /\ Once(Rows(history), Legacy) => Once(Rows(history'), Legacy)
    BY DEF HistoryInv, RowsOnce, Once
  <2>. QED BY <2>1 DEF HistoryInv, RowsOnce
<1>5. RecordedHeld'
  <2>1. SUFFICES ASSUME ~spoiled' PROVE RecordedHeld'
    BY DEF RecordedHeld
  <2>2. ~spoiled
    BY <2>1
  <2>3. /\ AllHeld(recorded \ Legacy)'
        /\ AllHeld(recorded \cap Legacy) => AllHeld(recorded \cap Legacy)'
    BY <1>2, <2>2 DEF HistoryInv, RecordedHeld, AllHeld
  <2>4. \/ legacy' = Nothing
        \/ \E q \in Procs : hist'[q].at = "rename"
        \/ history' # Nothing /\ \A q \in Procs : hist'[q].at # "commit"
        => \/ legacy = Nothing
           \/ \E q \in Procs : hist[q].at = "rename"
           \/ history # Nothing /\ \A q \in Procs : hist[q].at # "commit"
    BY <2>1
  <2>5. \/ legacy = Nothing
        \/ \E q \in Procs : hist[q].at = "rename"
        \/ history # Nothing /\ \A q \in Procs : hist[q].at # "commit"
        => AllHeld(recorded \cap Legacy)
    BY <2>2 DEF HistoryInv, RecordedHeld
  <2>6. /\ \A q \in Procs : hist'[q].at \in {"commit", "rename"} => hist'[q].linked
        /\ legacy' # Nothing /\ history' = Nothing => \A q \in Procs : hist'[q].at # "body"
    BY <2>2 DEF HistoryInv, RecordedHeld
  <2>. QED BY <2>3, <2>4, <2>5, <2>6 DEF RecordedHeld
<1>. QED BY <1>3, <1>4, <1>5 DEF HistoryInv

LEMMA HistoryStays ==
    ASSUME HistoryInv, UNCHANGED historyVars, UNCHANGED stamped
    PROVE  HistoryInv'
<1>1. /\ legacy' = legacy /\ history' = history /\ hist' = hist /\ recorded' = recorded
      /\ spoiled' = spoiled /\ overlapped' = overlapped
  BY DEF historyVars
<1>. QED BY <1>1, SettledKept DEF HistoryInv, HistoryTyped

LEMMA CommandRecordedOK ==
    ASSUME HistoryInv, CommandRecorded, UNCHANGED stamped
    PROVE  HistoryInv'
<1>1. /\ history = Nothing /\ history' = <<>> /\ spoiled' = (spoiled \/ legacy # Nothing)
      /\ UNCHANGED <<legacy, hist, recorded, overlapped>>
  BY DEF CommandRecorded, Connected
<1>2. Rows(history) = <<>> /\ Rows(history') = <<>> /\ history' \in Seq(Row)
  BY <1>1, NoRows
<1>3. spoiled' \in BOOLEAN
  BY <1>1
<1>. QED BY <1>1, <1>2, <1>3, SettledKept

LEMMA UpdateRowOK ==
    ASSUME HistoryInv, NEW run, UpdateRow(run, RunJson), UNCHANGED stamped
    PROVE  HistoryInv' /\ \A r : HasRun(Rows(history'), r) => HasRun(Rows(history), r)
<1>1. UNCHANGED <<legacy, hist, recorded, spoiled, overlapped>>
  BY DEF UpdateRow
<1>2. CASE history' = history
  BY <1>1, <1>2, SettledKept DEF HistoryInv, HistoryTyped
<1>3. ASSUME history # Nothing, NEW id, history' = [history EXCEPT ![id].artifact = RunJson]
      PROVE  HistoryInv' /\ \A r : HasRun(Rows(history'), r) => HasRun(Rows(history), r)
  <2>1. history \in Seq(Row)
    BY <1>3 DEF HistoryInv, HistoryTyped
  <2>2. DOMAIN history' = 1..Len(history) /\ DOMAIN history = 1..Len(history)
    BY <1>3, <2>1
  <2>3. ASSUME NEW i \in 1..Len(history)
        PROVE  history'[i] \in Row /\ history'[i].run = history[i].run
    <3>1. history[i] \in Row
      BY <2>1
    <3>2. [history[i] EXCEPT !.artifact = RunJson] \in Row
      BY <3>1 DEF Row
    <3>3. [history[i] EXCEPT !.artifact = RunJson].run = history[i].run
      BY <3>1 DEF Row
    <3>4. history'[i] = history[i] \/ history'[i] = [history[i] EXCEPT !.artifact = RunJson]
      BY <1>3, <2>2
    <3>. QED BY <3>1, <3>2, <3>3, <3>4
  <2>4. history' \in Seq(Row)
    <3>1. Len(history) \in Nat
      BY <2>1
    <3>2. history' = [i \in 1..Len(history) |-> history'[i]]
      BY <1>3, <2>2
    <3>3. history' \in [1..Len(history) -> Row]
      BY <2>3, <3>2
    <3>. QED BY <3>1, <3>3
  <2>5. Rows(history) = history /\ Rows(history') = history' /\ history' # Nothing
    BY <2>1, <2>4, NoRows
  <2>6. DOMAIN Rows(history') = DOMAIN Rows(history)
    BY <2>2, <2>5
  <2>7. HistoryInv'
    BY <1>1, <1>3, <2>2, <2>3, <2>4, <2>5, <2>6, SettledKept DEF HistoryInv, HistoryTyped
  <2>8. \A r : HasRun(Rows(history'), r) => HasRun(Rows(history), r)
    BY <2>2, <2>3, <2>5 DEF HasRun
  <2>. QED BY <2>7, <2>8
<1>4. \/ history' = history
      \/ history # Nothing /\ \E id : history' = [history EXCEPT ![id].artifact = RunJson]
  BY DEF UpdateRow
<1>. QED BY <1>2, <1>3, <1>4

LEMMA NoHistoryTyped ==
    /\ NoHistory \in Hist /\ NoHistory.at = "idle" /\ NoHistory.items = <<>>
    /\ ~NoHistory.linked /\ ~Moving(NoHistory)
<1>1. <<>> \in Seq(Int)
  OBVIOUS
<1>. QED BY <1>1 DEF NoHistory, Hist, Moving

LEMMA HistoryCheckOK ==
    ASSUME HistoryInv, NEW p \in Procs, NEW goal \in {"load", "append"},
           HistoryCheck(p, goal), UNCHANGED stamped
    PROVE  HistoryInv' /\ hist'[p].goal = goal
<1> DEFINE at == IF history # Nothing THEN "body"
                 ELSE IF legacy # Nothing THEN "read"
                 ELSE IF goal = "load" THEN "done" ELSE "body"
           h == [NoHistory EXCEPT !.goal = goal, !.at = at]
<1>1. /\ hist' = [hist EXCEPT ![p] = h] /\ hist[p].at = "idle"
      /\ UNCHANGED <<legacy, history, recorded, spoiled>>
      /\ overlapped' = (overlapped \/ (hist'[p].at = "read" /\ Migrating # {}))
  BY DEF HistoryCheck, Overlaps
<1>2. /\ h \in Hist /\ h.goal = goal /\ ~h.linked /\ h.at = at
  BY NoHistoryTyped DEF Hist, NoHistory
<1> HIDE DEF h
<1>3. hist'[p] = h
  BY <1>1 DEF HistoryInv, HistoryTyped
<1>4. h.at \in {"read", "body", "done"}
  BY <1>2
<1>5. Moving(h) /\ ~overlapped' => history = Nothing /\ \A q \in Procs : ~Moving(hist[q])
  BY <1>1, <1>2, <1>3, <1>4 DEF Moving, Migrating
<1>6. h.at = "body" => history # Nothing \/ legacy = Nothing
  BY <1>2
<1>7. overlapped' \in BOOLEAN /\ spoiled' \in BOOLEAN /\ stamped' \subseteq Nat
  BY <1>1 DEF HistoryInv, HistoryTyped, RowsOnce
<1>8. HistoryInv'
  BY <1>1, <1>2, <1>4, <1>5, <1>6, <1>7, QuietKept
<1>. QED BY <1>2, <1>3, <1>8

LEMMA MigrateReadOK ==
    ASSUME HistoryInv, NEW p \in Procs, MigrateRead(p), UNCHANGED stamped
    PROVE  HistoryInv'
<1> DEFINE h == [hist[p] EXCEPT !.at = IF legacy = Nothing THEN "body" ELSE "schema",
                                !.items = IF legacy = Nothing THEN <<>> ELSE legacy]
<1>1. /\ hist' = [hist EXCEPT ![p] = h] /\ hist[p].at = "read" /\ hist[p] \in Hist
      /\ UNCHANGED <<legacy, history, recorded, spoiled, overlapped>>
  BY DEF HistoryInv, HistoryTyped, MigrateRead
<1>2. legacy = Nothing \/ legacy = Ascending(Legacy)
  BY DEF HistoryInv, HistoryTyped
<1>3. /\ h \in Hist /\ h.linked = hist[p].linked
      /\ h.at = IF legacy = Nothing THEN "body" ELSE "schema"
      /\ h.items = IF legacy = Nothing THEN <<>> ELSE legacy
  BY <1>1, <1>2, LegacyRuns, NoHistoryTyped DEF Hist
<1> HIDE DEF h
<1>4. h.linked => history # Nothing
  BY <1>3 DEF HistoryInv, MigrationsOK
<1>5. Moving(hist[p]) /\ Importing(hist[p])
  BY <1>1 DEF Moving, Importing
<1>6. overlapped' \in BOOLEAN /\ spoiled' \in BOOLEAN /\ stamped' \subseteq Nat
  BY <1>1 DEF HistoryInv, HistoryTyped, RowsOnce
<1>. QED BY <1>1, <1>2, <1>3, <1>4, <1>5, <1>6, QuietKept

LEMMA MigrateSchemaOK ==
    ASSUME HistoryInv, NEW p \in Procs, MigrateSchema(p), UNCHANGED stamped
    PROVE  HistoryInv'
<1> DEFINE h == [hist[p] EXCEPT !.at = "commit", !.linked = TRUE]
<1>1. /\ hist' = [hist EXCEPT ![p] = h] /\ hist[p].at = "schema" /\ hist[p] \in Hist
      /\ UNCHANGED <<legacy, recorded, spoiled, overlapped>>
      /\ history' = IF history = Nothing THEN <<>> ELSE history
  BY DEF HistoryInv, HistoryTyped, MigrateSchema, Connected
<1>2. h \in Hist /\ h.linked /\ h.at = "commit" /\ h.items = hist[p].items
  BY <1>1 DEF Hist
<1> HIDE DEF h
<1>3. h.items = Ascending(Legacy) /\ history' # Nothing
  BY <1>1, <1>2, NoRows DEF HistoryInv, MigrationsOK
<1>4. Moving(hist[p]) /\ Importing(hist[p])
  BY <1>1 DEF Moving, Importing
<1>5. overlapped' \in BOOLEAN /\ spoiled' \in BOOLEAN /\ stamped' \subseteq Nat
  BY <1>1 DEF HistoryInv, HistoryTyped, RowsOnce
<1>. QED BY <1>1, <1>2, <1>3, <1>4, <1>5, QuietKept

LEMMA MigrateUnreadOK ==
    ASSUME HistoryInv, NEW p \in Procs, MigrateUnread(p), UNCHANGED stamped
    PROVE  HistoryInv'
<1> DEFINE h == [hist[p] EXCEPT !.at = "body"]
<1>1. /\ hist' = [hist EXCEPT ![p] = h] /\ hist[p].at = "read" /\ hist[p] \in Hist
      /\ UNCHANGED <<legacy, history, recorded, overlapped>> /\ spoiled' = TRUE
  BY DEF HistoryInv, HistoryTyped, MigrateUnread
<1>2. h \in Hist /\ h.linked = hist[p].linked /\ h.at = "body"
  BY <1>1 DEF Hist
<1> HIDE DEF h
<1>3. ~Moving(h) /\ (h.linked => history # Nothing)
  BY <1>2 DEF Moving, HistoryInv, MigrationsOK
<1>4. overlapped' \in BOOLEAN /\ stamped' \subseteq Nat
  BY <1>1 DEF HistoryInv, HistoryTyped, RowsOnce
<1>. QED BY <1>1, <1>2, <1>3, <1>4, QuietKept

LEMMA MigrateRenameOK ==
    ASSUME HistoryInv, NEW p \in Procs, NEW fails, MigrateRename(p, fails), UNCHANGED stamped
    PROVE  HistoryInv'
<1> DEFINE h == [hist[p] EXCEPT !.at = "body", !.items = <<>>, !.linked = FALSE]
<1>1. /\ hist' = [hist EXCEPT ![p] = h] /\ hist[p].at = "rename" /\ hist[p] \in Hist
      /\ UNCHANGED <<history, recorded, spoiled, overlapped>>
      /\ legacy' = legacy \/ legacy' = Nothing
  BY DEF HistoryInv, HistoryTyped, MigrateRename
<1>2. h \in Hist /\ ~h.linked /\ h.at = "body"
  BY <1>1, NoHistoryTyped DEF Hist
<1> HIDE DEF h
<1>3. ~Moving(h)
  BY <1>2 DEF Moving
<1>4. overlapped' \in BOOLEAN /\ spoiled' \in BOOLEAN /\ stamped' \subseteq Nat
  BY <1>1 DEF HistoryInv, HistoryTyped, RowsOnce
<1>5. ~spoiled => history # Nothing
  BY <1>1 DEF HistoryInv, RecordedHeld, MigrationsOK
<1>. QED BY <1>1, <1>2, <1>3, <1>4, <1>5, QuietKept

LEMMA BodyFailsOK ==
    ASSUME HistoryInv, NEW p \in Procs, BodyFails(p), UNCHANGED stamped
    PROVE  HistoryInv'
<1> DEFINE h == [hist[p] EXCEPT !.at = "done"]
<1>1. /\ hist' = [hist EXCEPT ![p] = h] /\ hist[p].at = "body" /\ hist[p] \in Hist
      /\ UNCHANGED <<legacy, history, recorded, spoiled, overlapped>>
  BY DEF HistoryInv, HistoryTyped, BodyFails
<1>2. h \in Hist /\ h.linked = hist[p].linked /\ h.at = "done"
  BY <1>1 DEF Hist
<1> HIDE DEF h
<1>3. ~Moving(h) /\ (h.linked => history # Nothing)
  BY <1>2 DEF Moving, HistoryInv, MigrationsOK
<1>4. overlapped' \in BOOLEAN /\ spoiled' \in BOOLEAN /\ stamped' \subseteq Nat
  BY <1>1 DEF HistoryInv, HistoryTyped, RowsOnce
<1>. QED BY <1>1, <1>2, <1>3, <1>4, QuietKept

LEMMA HistoryForgottenOK ==
    ASSUME HistoryInv, NEW p \in Procs, HistoryForgotten(p), UNCHANGED stamped
    PROVE  HistoryInv'
<1>1. /\ hist' = [hist EXCEPT ![p] = NoHistory]
      /\ spoiled' = (spoiled \/ hist[p].at = "commit")
      /\ UNCHANGED <<legacy, history, recorded, overlapped>>
  BY DEF HistoryForgotten
<1>2. overlapped' \in BOOLEAN /\ spoiled' \in BOOLEAN /\ stamped' \subseteq Nat
  BY <1>1 DEF HistoryInv, HistoryTyped, RowsOnce
<1>. QED BY <1>1, <1>2, NoHistoryTyped, QuietKept

(* A load or an append is over, and a report may have been stamped.        *)
LEMMA HistoryEndsOK ==
    ASSUME HistoryInv, NEW p \in Procs, hist[p].at = "done",
           hist' = [hist EXCEPT ![p] = NoHistory],
           stamped \subseteq stamped', stamped' \subseteq Nat,
           UNCHANGED <<legacy, history, recorded, spoiled, overlapped>>
    PROVE  HistoryInv'
<1>1. overlapped' \in BOOLEAN /\ spoiled' \in BOOLEAN
  BY DEF HistoryInv, HistoryTyped
<1>. QED BY <1>1, NoHistoryTyped, QuietKept

----------------------------------------------------------------------------
(* Loading, importing and appending                                        *)

LEMMA OldestFirstTyped ==
    ASSUME NEW rows \in Seq(Row)
    PROVE  OldestFirst(rows) \in Seq(Int)
<1> DEFINE D == DOMAIN rows
           before(a, b) == rows[a].run < rows[b].run \/ (rows[a].run = rows[b].run /\ a <= b)
           R == {p \in D \X D : before(p[1], p[2])}
           rank == RankIn(R, D)
           turn(b) == Cardinality({a \in D : before(a, b)})
           n == Len(rows)
<1>1. D = 1..n /\ n \in Nat
  OBVIOUS
<1>2. IsFiniteSet(D) /\ Cardinality(D) = n
  <2> HIDE DEF D, n
  <2>1. IsFiniteSet(1..n) /\ Cardinality(1..n) = IF 1 > n THEN 0 ELSE n - 1 + 1
    BY <1>1, FS_Interval
  <2>. QED BY <1>1, <2>1
<1>3. \A i \in D : rows[i].run \in Int /\ i \in Int
  <2>1. \A i \in D : rows[i] \in Row
    BY <1>1
  <2>. QED BY <1>1, <2>1 DEF Row
<1>4. \A a, b \in D : <<a, b>> \in R <=> before(a, b)
  <2> HIDE DEF before
  <2>. QED OBVIOUS
<1> HIDE DEF D, n
<1>5. TotalOrder(R, D)
  <2> HIDE DEF R
  <2>. QED BY <1>3, <1>4 DEF TotalOrder
<1> HIDE DEF before, R
<1>6. \A b \in D : rank[b] = turn(b)
  <2>1. ASSUME NEW b \in D
        PROVE  {a \in D : <<a, b>> \in R} = {a \in D : before(a, b)}
    BY <1>4
  <2>2. \A b \in D : rank[b] = Cardinality({a \in D : <<a, b>> \in R})
    BY Zenon DEF RankIn
  <2>. QED BY <2>1, <2>2
<1>7. Renames(rank, D, 1..n)
  BY <1>2, <1>5, RanksCover
<1> HIDE DEF rank, turn
<1>8. \A k \in D : \E b \in D : turn(b) = k
  BY <1>1, <1>6, <1>7 DEF Renames
<1> DEFINE c(k) == CHOOSE b \in D : turn(b) = k
<1>9. \A k \in D : c(k) \in D
  BY <1>8
<1>10. OldestFirst(rows) = [k \in D |-> rows[c(k)].run]
  BY DEF OldestFirst, D, c, turn, before
<1> HIDE DEF c
<1>11. OldestFirst(rows) \in [1..n -> Int]
  BY <1>1, <1>3, <1>9, <1>10
<1>. QED BY <1>1, <1>11

LEMMA LoadRowsOK ==
    ASSUME HistoryInv, NEW p \in Procs, LoadRows(p), UNCHANGED stamped
    PROVE  HistoryInv'
<1>1. PICK rows \in Newest(Connected) :
        hist' = [hist EXCEPT ![p].at = "done", ![p].items = OldestFirst(rows)]
  BY DEF LoadRows
<1> DEFINE h == [hist[p] EXCEPT !.at = "done", !.items = OldestFirst(rows)]
<1>2. /\ hist' = [hist EXCEPT ![p] = h] /\ hist[p].at = "body" /\ hist[p] \in Hist
      /\ UNCHANGED <<legacy, recorded, spoiled, overlapped>>
      /\ history' = IF history = Nothing THEN <<>> ELSE history
  BY <1>1 DEF HistoryInv, HistoryTyped, LoadRows, Connected
<1>3. Connected \in Seq(Row)
  BY NoRows DEF Connected, HistoryInv, HistoryTyped
<1>4. OldestFirst(rows) \in Seq(Int)
  BY <1>3, NewestHeld, OldestFirstTyped
<1>5. h \in Hist /\ h.linked = hist[p].linked /\ h.at = "done"
  BY <1>2, <1>4 DEF Hist
<1> HIDE DEF h
<1>6. ~Moving(h) /\ (h.linked => history # Nothing)
  BY <1>5 DEF Moving, HistoryInv, MigrationsOK
<1>7. ~spoiled => history' = history \/ legacy = Nothing
  BY <1>2 DEF HistoryInv, RecordedHeld
<1>8. overlapped' \in BOOLEAN /\ spoiled' \in BOOLEAN /\ stamped' \subseteq Nat
  BY <1>2 DEF HistoryInv, HistoryTyped, RowsOnce
<1>. QED BY <1>2, <1>5, <1>6, <1>7, <1>8, NoRows, QuietKept

LEMMA MigrateFailOK ==
    ASSUME HistoryInv, NEW p \in Procs, MigrateFail(p), UNCHANGED stamped
    PROVE  HistoryInv'
<1> DEFINE h(q) == IF q = p THEN [hist[p] EXCEPT !.at = "body", !.items = <<>>, !.linked = FALSE]
                   ELSE [hist[q] EXCEPT !.linked = FALSE]
<1>1. /\ hist' = [q \in Procs |-> h(q)] /\ history' = Nothing /\ spoiled' = TRUE
      /\ UNCHANGED <<legacy, recorded, overlapped>>
  BY DEF MigrateFail
<1>2. ASSUME NEW q \in Procs
      PROVE  /\ h(q) \in Hist /\ ~h(q).linked
             /\ h(q).at = IF q = p THEN "body" ELSE hist[q].at
             /\ q # p => h(q).items = hist[q].items
  <2>1. hist[q] \in Hist
    BY DEF HistoryInv, HistoryTyped
  <2>. QED BY <2>1, NoHistoryTyped DEF Hist
<1> HIDE DEF h
<1>3. \A q \in Procs : hist'[q] = h(q)
  BY <1>1
<1>4. HistoryTyped'
  BY <1>1, <1>2 DEF HistoryInv, HistoryTyped
<1>5. MigrationsOK'
  BY <1>2, <1>3 DEF HistoryInv, MigrationsOK
<1>6. Rows(history') = <<>> /\ DOMAIN Rows(history') = {}
  BY <1>1, NoRows
<1>7. \A q \in Procs : Moving(hist'[q]) => Moving(hist[q])
  BY <1>2, <1>3 DEF Moving
<1>8. RowsOnce'
  BY <1>1, <1>6, <1>7 DEF HistoryInv, RowsOnce, Once
<1>9. RecordedHeld'
  BY <1>1 DEF RecordedHeld
<1>. QED BY <1>4, <1>5, <1>8, <1>9 DEF HistoryInv

(* In longer, each run of the JSON file has a row behind those of rows,    *)
(* which points to nothing.                                                *)
ImportsInto(longer, rows) ==
    /\ DOMAIN rows \subseteq DOMAIN longer
    /\ \A i \in DOMAIN rows : longer[i] = rows[i]
    /\ \A i \in DOMAIN longer \ DOMAIN rows :
         longer[i].run \in Legacy /\ longer[i].artifact = Nothing
    /\ \A i, j \in DOMAIN longer \ DOMAIN rows : longer[i].run = longer[j].run => i = j
    /\ \A run \in Legacy : HasRun(longer, run)

LEMMA ImportedRows ==
    ASSUME NEW rows \in Seq(Row), NEW longer, longer = rows \o Imported(Ascending(Legacy))
    PROVE  longer \in Seq(Row) /\ ImportsInto(longer, rows)
<1> DEFINE s == Ascending(Legacy)
           new == Imported(s)
           n == Len(rows)
           m == Len(s)
<1>1. /\ s \in Seq(Int) /\ m \in Nat /\ DOMAIN s = 1..m
      /\ \A i \in 1..m : s[i] \in Legacy
      /\ \A i, j \in 1..m : s[i] = s[j] => i = j
      /\ \A run \in Legacy : \E i \in 1..m : s[i] = run
  <2> HIDE DEF s
  <2>1. s \in Seq(Int)
    BY LegacyRuns DEF s
  <2>2. m \in Nat /\ DOMAIN s = 1..m
    BY <2>1
  <2>. QED BY <2>1, <2>2, LegacyRuns DEF s
<1> HIDE DEF s, m
<1>2. new = [i \in 1..m |-> [run |-> s[i], artifact |-> Nothing]]
  BY <1>1 DEF Imported
<1>3. \A i \in 1..m : new[i].run = s[i] /\ new[i].artifact = Nothing /\ new[i] \in Row
  <2>1. \A i \in 1..m : s[i] \in Int
    BY <1>1
  <2>. QED BY <1>2, <2>1 DEF Row
<1> HIDE DEF new
<1>4. new \in Seq(Row) /\ Len(new) = m
  <2>1. new \in [1..m -> Row]
    BY <1>2, <1>3
  <2>. QED BY <1>1, <2>1
<1>5. n \in Nat /\ DOMAIN rows = 1..n
  OBVIOUS
<1> HIDE DEF n
<1>6. longer = rows \o new
  BY DEF new, s
<1>7. /\ longer \in Seq(Row) /\ DOMAIN longer = 1..(n + m)
      /\ \A i \in 1..n : longer[i] = rows[i]
      /\ \A i \in (n + 1)..(n + m) : longer[i] = new[i - n]
  <2>1. longer \in Seq(Row) /\ Len(longer) = n + m
    BY <1>4, <1>6, ConcatProperties DEF n
  <2>2. \A i \in 1..(n + m) : longer[i] = IF i <= n THEN rows[i] ELSE new[i - n]
    BY <1>4, <1>6 DEF n
  <2>3. DOMAIN longer = 1..(n + m)
    BY <2>1
  <2>. QED BY <1>1, <1>5, <2>1, <2>2, <2>3
<1>8. \A i \in DOMAIN longer \ DOMAIN rows :
         /\ i - n \in 1..m /\ longer[i].run = s[i - n] /\ i \in Int /\ s[i - n] \in Legacy
         /\ longer[i].artifact = Nothing
  <2>1. \A i \in DOMAIN longer \ DOMAIN rows : i \in (n + 1)..(n + m) /\ i - n \in 1..m
    BY <1>1, <1>5, <1>7
  <2>2. ASSUME NEW i \in DOMAIN longer \ DOMAIN rows
        PROVE  i \in Int /\ longer[i].run = s[i - n] /\ longer[i].artifact = Nothing
    <3>1. longer[i] = new[i - n]
      BY <1>7, <2>1
    <3>. QED BY <1>3, <2>1, <3>1
  <2>. QED BY <1>1, <2>1, <2>2
<1>9. \A i, j \in DOMAIN longer \ DOMAIN rows : longer[i].run = longer[j].run => i = j
  BY <1>1, <1>5, <1>8
<1>10. ASSUME NEW run \in Legacy
       PROVE  HasRun(longer, run)
  <2>1. PICK i \in 1..m : s[i] = run
    BY <1>1
  <2>2. n + i \in DOMAIN longer /\ longer[n + i] = new[i]
    BY <1>1, <1>5, <1>7
  <2>. QED BY <1>3, <2>1, <2>2 DEF HasRun
<1>11. DOMAIN rows \subseteq DOMAIN longer
  BY <1>1, <1>5, <1>7
<1>12. \A i \in DOMAIN rows : longer[i] = rows[i]
  BY <1>5, <1>7
<1>13. \A i \in DOMAIN longer \ DOMAIN rows :
          longer[i].run \in Legacy /\ longer[i].artifact = Nothing
  BY <1>8
<1>. QED BY <1>7, <1>9, <1>10, <1>11, <1>12, <1>13 DEF ImportsInto

LEMMA MigrateCommitOK ==
    ASSUME HistoryInv, NEW p \in Procs, MigrateCommit(p), UNCHANGED stamped
    PROVE  HistoryInv'
<1> DEFINE h == [hist[p] EXCEPT !.at = "rename"]
<1>1. /\ hist' = [hist EXCEPT ![p] = h] /\ hist[p].at = "commit" /\ hist[p] \in Hist
      /\ UNCHANGED <<legacy, recorded, spoiled, overlapped>>
      /\ history' = IF hist[p].linked THEN history \o Imported(hist[p].items) ELSE history
  BY DEF HistoryInv, HistoryTyped, MigrateCommit
<1>2. h \in Hist /\ h.linked = hist[p].linked /\ h.at = "rename" /\ h.items = hist[p].items
  BY <1>1 DEF Hist
<1> HIDE DEF h
<1>3. h.items = Ascending(Legacy) /\ (h.linked => history # Nothing)
  BY <1>1, <1>2 DEF HistoryInv, MigrationsOK
<1>4. Moving(hist[p]) /\ Importing(hist[p]) /\ ~Importing(h)
  BY <1>1, <1>2 DEF Moving, Importing
<1>5. overlapped' \in BOOLEAN /\ spoiled' \in BOOLEAN /\ stamped' \subseteq Nat
  BY <1>1 DEF HistoryInv, HistoryTyped, RowsOnce
<1>6. CASE ~hist[p].linked
  <2>1. spoiled
    BY <1>1, <1>6 DEF HistoryInv, RecordedHeld
  <2>. QED BY <1>1, <1>2, <1>3, <1>4, <1>5, <1>6, <2>1, QuietKept
<1>7. CASE hist[p].linked
  <2> DEFINE rows == history
             longer == history'
  <2>1. rows \in Seq(Row) /\ Rows(history) = rows
    BY <1>2, <1>3, <1>7, NoRows DEF HistoryInv, HistoryTyped
  <2>2. longer = rows \o Imported(Ascending(Legacy))
    BY <1>1, <1>2, <1>3, <1>7
  <2>3. /\ longer \in Seq(Row)
        /\ DOMAIN rows \subseteq DOMAIN longer
        /\ \A i \in DOMAIN rows : longer[i] = rows[i]
        /\ \A i \in DOMAIN longer \ DOMAIN rows : longer[i].run \in Legacy
        /\ \A i, j \in DOMAIN longer \ DOMAIN rows : longer[i].run = longer[j].run => i = j
        /\ \A run \in Legacy : HasRun(longer, run)
    <3>1. longer \in Seq(Row) /\ ImportsInto(longer, rows)
      BY <2>1, <2>2, ImportedRows
    <3>. QED BY <3>1 DEF ImportsInto
  <2>4. Rows(history') = longer /\ history' # Nothing
    BY <2>3, NoRows
  <2>5. \A q \in Procs : hist'[q] = IF q = p THEN h ELSE hist[q]
    BY <1>1 DEF HistoryInv, HistoryTyped
  <2>6. HistoryTyped'
    BY <1>1, <1>2, <2>3 DEF HistoryInv, HistoryTyped
  <2>7. MigrationsOK'
    BY <1>3, <2>4, <2>5 DEF HistoryInv, MigrationsOK
  <2>8. RowsOnce'
    <3>1. \A i \in DOMAIN longer : longer[i].run \in Legacy \cup stamped
      BY <2>1, <2>3 DEF HistoryInv, RowsOnce
    <3>2. ASSUME NEW i \in DOMAIN longer, NEW j \in DOMAIN longer, i # j,
                 longer[i].run = longer[j].run, longer[i].run \in Nat
          PROVE  FALSE
      <4>1. i \in DOMAIN rows /\ j \in DOMAIN rows
        BY <2>3, <3>2, HistoryConstants
      <4>. QED BY <2>1, <2>3, <3>2, <4>1 DEF HistoryInv, RowsOnce, Once
    <3>3. ASSUME ~overlapped, NEW i \in DOMAIN longer, NEW j \in DOMAIN longer, i # j,
                 longer[i].run = longer[j].run, longer[i].run \in Legacy
          PROVE  FALSE
      <4>1. \A k \in DOMAIN rows : rows[k].run \notin Legacy
        BY <1>4, <2>1, <3>3 DEF HistoryInv, RowsOnce
      <4>. QED BY <2>3, <3>3, <4>1
    <3>4. ASSUME ~overlapped, NEW q \in Procs, NEW r \in Procs, Moving(hist'[q]), Moving(hist'[r])
          PROVE  q = r
      <4>1. Moving(hist[q]) /\ Moving(hist[r])
        BY <1>4, <2>5, <3>4
      <4>. QED BY <3>4, <4>1 DEF HistoryInv, RowsOnce
    <3>5. ASSUME ~overlapped, NEW q \in Procs, Importing(hist'[q])
          PROVE  FALSE
      <4>1. q # p /\ Moving(hist[q])
        BY <1>4, <2>5, <3>5 DEF Moving, Importing
      <4>. QED BY <1>4, <3>5, <4>1 DEF HistoryInv, RowsOnce
    <3>6. Once(Rows(history'), Nat) /\ (~overlapped => Once(Rows(history'), Legacy))
      BY <2>4, <3>2, <3>3 DEF Once
    <3>. QED BY <1>1, <1>5, <2>4, <3>1, <3>4, <3>5, <3>6 DEF RowsOnce
  <2>9. RecordedHeld'
    <3>1. ASSUME ~spoiled, NEW run \in recorded \ Legacy
          PROVE  HeldIn(longer, run)
      <4>1. HeldIn(rows, run)
        BY <2>1, <3>1 DEF HistoryInv, RecordedHeld, AllHeld
      <4>2. \A i \in DOMAIN rows : longer[i].run = rows[i].run
        BY <2>3
      <4>. QED BY <2>1, <2>3, <4>1, <4>2, HeldInLonger
    <3>2. \A run \in Legacy : HeldIn(longer, run)
      BY <2>3 DEF HeldIn
    <3>3. ASSUME ~spoiled, NEW q \in Procs, hist'[q].at \in {"commit", "rename"}
          PROVE  hist'[q].linked
      BY <1>2, <1>7, <2>5, <3>3 DEF HistoryInv, RecordedHeld
    <3>. QED BY <1>1, <2>4, <3>1, <3>2, <3>3 DEF RecordedHeld, AllHeld
  <2>. QED BY <2>6, <2>7, <2>8, <2>9 DEF HistoryInv
<1>. QED BY <1>6, <1>7

(* No run has two rows in a choice of rows, if it has not in all.          *)
LEMMA OnceTaken ==
    ASSUME NEW rows, NEW new, NEW at, TakenFrom(at, new, rows), NEW R, Once(rows, R)
    PROVE  Once(new, R)
BY DEF TakenFrom, Once

LEMMA AppendRowOK ==
    ASSUME HistoryInv, NEW p \in Procs, NEW run \in stamped,
           NEW artifact \in {Nothing} \cup (Int \X Nat), AppendRow(p, run, artifact),
           ~HasRun(Rows(history), run), UNCHANGED stamped
    PROVE  HistoryInv'
<1> DEFINE h == [hist[p] EXCEPT !.at = "done"]
           row == [run |-> run, artifact |-> artifact]
           rows == Rows(history)
           longer == Append(rows, row)
           new == history'
           n == Len(rows)
<1>1. /\ hist' = [hist EXCEPT ![p] = h] /\ hist[p].at = "body" /\ hist[p] \in Hist
      /\ UNCHANGED <<legacy, spoiled, overlapped>>
      /\ recorded' = recorded \cup {run}
      /\ new \in Newest(longer)
  BY DEF HistoryInv, HistoryTyped, AppendRow, Connected, Rows
<1>2. h \in Hist /\ h.linked = hist[p].linked /\ h.at = "done"
  BY <1>1 DEF Hist
<1> HIDE DEF h
<1>3. run \in Int /\ run \in Nat /\ run \notin Legacy
  BY HistoryConstants DEF HistoryInv, RowsOnce
<1>4. row \in Row /\ row.run = run
  BY <1>3 DEF Row
<1> HIDE DEF row
<1>5. rows \in Seq(Row)
  BY NoRows DEF HistoryInv, HistoryTyped
<1>6. \A i \in DOMAIN rows : rows[i].run # run
  BY DEF HasRun
<1>7. /\ \A i \in DOMAIN rows : rows[i].run \in Legacy \cup stamped
      /\ Once(rows, Nat)
      /\ ~overlapped =>
           /\ Once(rows, Legacy)
           /\ \A r, q \in Procs : Moving(hist[r]) /\ Moving(hist[q]) => r = q
           /\ \A q \in Procs : Importing(hist[q]) =>
                \A i \in DOMAIN rows : rows[i].run \notin Legacy
  BY DEF HistoryInv, RowsOnce
<1> HIDE DEF rows
<1>8. n \in Nat /\ DOMAIN rows = 1..n
  BY <1>5
<1>9. /\ longer \in Seq(Row) /\ DOMAIN longer = 1..(n + 1)
      /\ \A i \in 1..n : longer[i] = rows[i]
      /\ longer[n + 1] = row
  <2>1. longer \in Seq(Row) /\ Len(longer) = n + 1
    BY <1>4, <1>5
  <2>2. \A i \in 1..(n + 1) : longer[i] = IF i <= n THEN rows[i] ELSE row
    BY <1>4, <1>5
  <2>. QED BY <1>8, <2>1, <2>2
<1> HIDE DEF longer, n, new
<1>10. \A i \in DOMAIN longer : i \in 1..n \/ i = n + 1
  BY <1>8, <1>9
<1>11. /\ \A i \in DOMAIN longer : longer[i].run \in Legacy \cup stamped
       /\ \A i \in DOMAIN longer : longer[i].run \in Legacy => i \in DOMAIN rows
  BY <1>3, <1>4, <1>7, <1>8, <1>9, <1>10
<1>12. Once(longer, Nat) /\ (Once(rows, Legacy) => Once(longer, Legacy))
  BY <1>3, <1>4, <1>6, <1>7, <1>8, <1>9, <1>10 DEF Once
<1>13. /\ new \in Seq(Row)
       /\ \E at : TakenFrom(at, new, longer)
       /\ \A r \in Int : HeldIn(longer, r) => HeldIn(new, r)
  BY <1>1, <1>9, NewestHeld
<1>14. PICK at : TakenFrom(at, new, longer)
  BY <1>13
<1>15. Once(new, Nat) /\ (Once(rows, Legacy) => Once(new, Legacy))
  BY <1>12, <1>14, OnceTaken
<1>16. /\ \A i \in DOMAIN new : new[i].run \in Legacy \cup stamped
       /\ (\A i \in DOMAIN rows : rows[i].run \notin Legacy) =>
            \A i \in DOMAIN new : new[i].run \notin Legacy
  <2>1. \A i \in DOMAIN new : at[i] \in DOMAIN longer /\ new[i] = longer[at[i]]
    BY <1>14 DEF TakenFrom
  <2>. QED BY <1>8, <1>9, <1>11, <2>1
<1>17. Rows(history') = new /\ history' = new /\ history' # Nothing
  BY <1>13, NoRows DEF new
<1>18. \A q \in Procs : hist'[q] = IF q = p THEN h ELSE hist[q]
  BY <1>1 DEF HistoryInv, HistoryTyped
<1>19. HistoryTyped'
  BY <1>1, <1>2, <1>3, <1>13, <1>17 DEF HistoryInv, HistoryTyped
<1>20. MigrationsOK'
  BY <1>2, <1>17, <1>18 DEF HistoryInv, MigrationsOK
<1>21. RowsOnce'
  <2>1. ~Moving(h) /\ ~Importing(h)
    BY <1>2 DEF Moving, Importing
  <2>2. \A q \in Procs : /\ Moving(hist'[q]) => Moving(hist[q])
                         /\ Importing(hist'[q]) => Importing(hist[q])
    BY <1>18, <2>1
  <2>3. stamped' \subseteq Nat
    BY DEF HistoryInv, RowsOnce
  <2>. QED BY <1>1, <1>7, <1>15, <1>16, <1>17, <2>2, <2>3 DEF RowsOnce
<1>22. RecordedHeld'
  <2>1. SUFFICES ASSUME ~spoiled' PROVE RecordedHeld'
    BY DEF RecordedHeld
  <2>2. ~spoiled
    BY <1>1, <2>1
  <2>3. ASSUME NEW r \in Int, HeldIn(rows, r)
        PROVE  HeldIn(new, r)
    <3>1. /\ DOMAIN rows \subseteq DOMAIN longer
          /\ \A i \in DOMAIN rows : longer[i].run = rows[i].run
      BY <1>8, <1>9
    <3>2. HeldIn(longer, r)
      BY <1>5, <1>9, <2>3, <3>1, HeldInLonger
    <3>. QED BY <1>13, <3>2
  <2>4. HeldIn(new, run)
    <3>1. HasRun(longer, run)
      BY <1>4, <1>8, <1>9 DEF HasRun
    <3>. QED BY <1>3, <1>13, <3>1 DEF HeldIn
  <2>5. recorded \subseteq Int
    BY DEF HistoryInv, HistoryTyped
  <2>6. \A r \in recorded' \ Legacy : HeldIn(new, r)
    <3>1. \A r \in recorded \ Legacy : HeldIn(rows, r)
      BY <2>2 DEF HistoryInv, RecordedHeld, AllHeld, rows
    <3>. QED BY <1>1, <2>3, <2>4, <2>5, <3>1
  <2>7. \/ legacy' = Nothing
        \/ \E q \in Procs : hist'[q].at = "rename"
        \/ history' # Nothing /\ \A q \in Procs : hist'[q].at # "commit"
        => \/ legacy = Nothing
           \/ \E q \in Procs : hist[q].at = "rename"
           \/ history # Nothing /\ \A q \in Procs : hist[q].at # "commit"
    <3>1. history = Nothing => legacy = Nothing
      BY <1>1, <2>2 DEF HistoryInv, RecordedHeld
    <3>. QED BY <1>1, <1>2, <1>18, <3>1
  <2>8. \/ legacy = Nothing
        \/ \E q \in Procs : hist[q].at = "rename"
        \/ history # Nothing /\ \A q \in Procs : hist[q].at # "commit"
        => \A r \in recorded \cap Legacy : HeldIn(new, r)
    <3>1. \/ legacy = Nothing
          \/ \E q \in Procs : hist[q].at = "rename"
          \/ history # Nothing /\ \A q \in Procs : hist[q].at # "commit"
          => \A r \in recorded \cap Legacy : HeldIn(rows, r)
      BY <2>2 DEF HistoryInv, RecordedHeld, AllHeld, rows
    <3>. QED BY <2>3, <2>5, <3>1
  <2>9. recorded' \cap Legacy = recorded \cap Legacy
    BY <1>1, <1>3
  <2>10. \A q \in Procs : hist'[q].at \in {"commit", "rename"} => hist'[q].linked
    BY <1>2, <1>18, <2>2 DEF HistoryInv, RecordedHeld
  <2>. QED BY <1>17, <2>6, <2>7, <2>8, <2>9, <2>10 DEF RecordedHeld, AllHeld
<1>. QED BY <1>19, <1>20, <1>21, <1>22 DEF HistoryInv

LEMMA HistoryStarts ==
    ASSUME NEW imports, HistoryInit(imports), stamped = {}
    PROVE  HistoryInv
<1>1. /\ legacy \in {Nothing, Ascending(Legacy)} /\ history = Nothing
      /\ hist = [p \in Procs |-> NoHistory] /\ spoiled = FALSE /\ overlapped = FALSE
      /\ recorded \subseteq Legacy /\ (legacy = Nothing => recorded = {})
  BY LegacyRuns DEF HistoryInit
<1>2. Rows(history) = <<>> /\ DOMAIN Rows(history) = {}
  BY <1>1, NoRows
<1>3. \A p \in Procs : hist[p] = NoHistory
  BY <1>1
<1>4. HistoryTyped
  BY <1>1, NoHistoryTyped, HistoryConstants DEF HistoryTyped
<1> HIDE DEF NoHistory
<1>5. MigrationsOK
  BY <1>3, NoHistoryTyped DEF MigrationsOK
<1>6. RowsOnce
  BY <1>1, <1>2, <1>3, NoHistoryTyped DEF RowsOnce, Once, Moving, Importing
<1>7. RecordedHeld
  BY <1>1, <1>2, <1>3, NoHistoryTyped DEF RecordedHeld, AllHeld
<1>. QED BY <1>4, <1>5, <1>6, <1>7 DEF HistoryInv

----------------------------------------------------------------------------
(* What the history's invariant says of the properties                     *)

LEMMA HistoryIsTyped == HistoryInv => HistoryTypeOK
<1> SUFFICES ASSUME HistoryInv PROVE HistoryTypeOK
  OBVIOUS
<1>1. ASSUME NEW i \in DOMAIN Connected
      PROVE  Connected[i].run \in Int
  <2>1. Connected \in Seq(Row)
    BY NoRows DEF HistoryInv, HistoryTyped, Connected
  <2>2. Connected[i] \in Row
    BY <2>1
  <2>. QED BY <2>2 DEF Row
<1>2. \A p \in Procs : hist[p] \in Hist
  BY DEF HistoryInv, HistoryTyped
<1>3. \A p \in Procs :
         /\ hist[p].linked \in BOOLEAN
         /\ hist[p].at \in {"idle", "read", "schema", "commit", "rename", "body", "done"}
         /\ hist[p].goal \in {"load", "append", Nothing}
         /\ hist[p].items \in Seq(Int)
  BY <1>2 DEF Hist
<1>. QED BY <1>1, <1>3 DEF HistoryInv, HistoryTyped, HistoryTypeOK

LEMMA HistoryNoRunTwice == HistoryInv => NoRunTwice
<1> SUFFICES ASSUME HistoryInv, NEW i \in DOMAIN Connected, NEW j \in DOMAIN Connected,
                    i # j, Connected[i].run = Connected[j].run
             PROVE  overlapped /\ Connected[i].run \in Legacy
  BY DEF NoRunTwice
<1>1. Rows(history) = Connected
  BY DEF Rows, Connected
<1>2. Connected[i].run \in Legacy \cup Nat /\ Connected[i].run \notin Nat
  BY <1>1 DEF HistoryInv, RowsOnce, Once
<1>3. ~overlapped => Connected[i].run \notin Legacy
  BY <1>1 DEF HistoryInv, RowsOnce, Once
<1>4. overlapped \in BOOLEAN
  BY DEF HistoryInv, HistoryTyped
<1>. QED BY <1>2, <1>3

LEMMA HistoryRunsKept == HistoryInv => RunsKept
<1> SUFFICES ASSUME HistoryInv, NEW run \in recorded, ~spoiled,
                    ~(run \in Legacy /\ legacy # Nothing /\ (history = Nothing \/ Migrating # {}))
             PROVE  \/ \E i \in DOMAIN Connected : Connected[i].run = run
                    \/ Cardinality({i \in DOMAIN Connected : Connected[i].run > run}) >= MaxRows
  BY DEF RunsKept
<1>1. Rows(history) = Connected
  BY DEF Rows, Connected
<1>2. HeldIn(Rows(history), run)
  <2>1. CASE run \notin Legacy
    BY <2>1 DEF HistoryInv, RecordedHeld, AllHeld
  <2>2. CASE run \in Legacy
    <3>1. \/ legacy = Nothing
          \/ history # Nothing /\ \A p \in Procs : hist[p].at # "commit"
      BY <2>2 DEF Migrating
    <3>. QED BY <2>2, <3>1 DEF HistoryInv, RecordedHeld, AllHeld
  <2>. QED BY <2>1, <2>2
<1>. QED BY <1>1, <1>2 DEF HeldIn, HasRun, Above

----------------------------------------------------------------------------
(* Steps of a history, together                                            *)

(* What a step of p may do to the rows and to how far processes are, when  *)
(* p is at the run `run'.                                                  *)
RowsMove(p, run) ==
    /\ \A q \in Procs : hist'[q].goal = hist[q].goal /\ (q # p => hist'[q].at = hist[q].at)
    /\ \A r \in Nat : HasRun(Rows(history'), r) =>
         \/ HasRun(Rows(history), r)
         \/ r = run /\ hist[p].goal = "append" /\ hist'[p].at = "done"

LEMMA RowsOfQuiet ==
    ASSUME HistoryInv, NEW p \in Procs, NEW h, h.goal = hist[p].goal,
           hist' = [hist EXCEPT ![p] = h],
           history' = history \/ history' = Connected, NEW run
    PROVE  RowsMove(p, run)
<1>1. \A q \in Procs : hist'[q] = IF q = p THEN h ELSE hist[q]
  BY DEF HistoryInv, HistoryTyped
<1>2. Rows(history') = Rows(history)
  BY NoRows DEF Connected, Rows
<1>. QED BY <1>1, <1>2 DEF RowsMove

LEMMA RowsOfCommit ==
    ASSUME HistoryInv, NEW p \in Procs, MigrateCommit(p), NEW run
    PROVE  RowsMove(p, run)
<1> DEFINE h == [hist[p] EXCEPT !.at = "rename"]
<1>1. /\ hist' = [hist EXCEPT ![p] = h] /\ hist[p].at = "commit"
      /\ history' = IF hist[p].linked THEN history \o Imported(hist[p].items) ELSE history
  BY DEF MigrateCommit
<1>2. h.goal = hist[p].goal
  BY DEF HistoryInv, HistoryTyped, Hist
<1> HIDE DEF h
<1>3. CASE ~hist[p].linked
  BY <1>1, <1>2, <1>3, RowsOfQuiet
<1>4. CASE hist[p].linked
  <2>1. history \in Seq(Row) /\ hist[p].items = Ascending(Legacy)
    BY <1>1, <1>4 DEF HistoryInv, HistoryTyped, MigrationsOK
  <2>2. history' \in Seq(Row) /\ ImportsInto(history', history)
    BY <1>1, <1>4, <2>1, ImportedRows
  <2>3. Rows(history') = history' /\ Rows(history) = history
    BY <2>1, <2>2, NoRows
  <2>4. \A r \in Nat : HasRun(Rows(history'), r) => HasRun(Rows(history), r)
    BY <2>2, <2>3, HistoryConstants DEF ImportsInto, HasRun
  <2>5. \A q \in Procs : hist'[q] = IF q = p THEN h ELSE hist[q]
    BY <1>1 DEF HistoryInv, HistoryTyped
  <2>. QED BY <1>2, <2>4, <2>5 DEF RowsMove
<1>. QED BY <1>3, <1>4

LEMMA RowsOfFail ==
    ASSUME HistoryInv, NEW p \in Procs, MigrateFail(p), NEW run
    PROVE  RowsMove(p, run)
<1> DEFINE h(q) == IF q = p THEN [hist[p] EXCEPT !.at = "body", !.items = <<>>, !.linked = FALSE]
                   ELSE [hist[q] EXCEPT !.linked = FALSE]
<1>1. hist' = [q \in Procs |-> h(q)] /\ history' = Nothing
  BY DEF MigrateFail
<1>2. ASSUME NEW q \in Procs
      PROVE  h(q).goal = hist[q].goal /\ (q # p => h(q).at = hist[q].at)
  <2>1. hist[q] \in Hist
    BY DEF HistoryInv, HistoryTyped
  <2>. QED BY <2>1 DEF Hist
<1> HIDE DEF h
<1>3. \A r : ~HasRun(Rows(history'), r)
  BY <1>1, NoRows DEF HasRun
<1>. QED BY <1>1, <1>2, <1>3 DEF RowsMove

LEMMA RowsOfAppend ==
    ASSUME HistoryInv, NEW p \in Procs, NEW run, NEW artifact,
           run \in Int, artifact \in {Nothing} \cup (Int \X Nat),
           AppendRow(p, run, artifact)
    PROVE  RowsMove(p, run)
<1> DEFINE h == [hist[p] EXCEPT !.at = "done"]
           row == [run |-> run, artifact |-> artifact]
           rows == Rows(history)
           longer == Append(rows, row)
           new == history'
<1>1. /\ hist' = [hist EXCEPT ![p] = h] /\ hist[p].goal = "append"
      /\ new \in Newest(longer)
  BY DEF AppendRow, Connected, Rows
<1>2. h.goal = hist[p].goal /\ h.at = "done"
  BY DEF HistoryInv, HistoryTyped, Hist
<1> HIDE DEF h
<1>3. row \in Row /\ row.run = run
  BY DEF Row
<1> HIDE DEF row
<1>4. rows \in Seq(Row)
  BY NoRows DEF HistoryInv, HistoryTyped
<1> HIDE DEF rows
<1>5. longer \in Seq(Row) /\ Len(rows) \in Nat /\ DOMAIN rows = 1..Len(rows)
  BY <1>3, <1>4
<1>6. \A i \in DOMAIN longer : longer[i] = row \/ (i \in DOMAIN rows /\ longer[i] = rows[i])
  BY <1>3, <1>4
<1> HIDE DEF longer, new
<1>7. new \in Seq(Row) /\ \E at : TakenFrom(at, new, longer)
  BY <1>1, <1>5, NewestHeld
<1>8. \A r : HasRun(new, r) => r = run \/ HasRun(rows, r)
  BY <1>3, <1>6, <1>7 DEF HasRun, TakenFrom
<1>9. Rows(history') = new
  BY <1>7, NoRows DEF new
<1>10. \A q \in Procs : hist'[q] = IF q = p THEN h ELSE hist[q]
  BY <1>1 DEF HistoryInv, HistoryTyped
<1>. QED BY <1>1, <1>2, <1>8, <1>9, <1>10 DEF RowsMove, rows

LEMMA HistoryStepMoves ==
    ASSUME HistoryInv, NEW p \in Procs, NEW run, NEW artifact, NEW fails,
           run \in Int \/ hist[p].goal # "append",
           artifact \in {Nothing} \cup (Int \X Nat),
           HistoryStep(p, run, artifact, fails)
    PROVE  RowsMove(p, run) /\ hist[p].at # "done"
<1>0. hist[p] \in Hist
  BY DEF HistoryInv, HistoryTyped
<1>1. CASE MigrateRead(p)
  <2> DEFINE h == [hist[p] EXCEPT !.at = IF legacy = Nothing THEN "body" ELSE "schema",
                                  !.items = IF legacy = Nothing THEN <<>> ELSE legacy]
  <2>1. h.goal = hist[p].goal
    BY <1>0 DEF Hist
  <2>2. hist' = [hist EXCEPT ![p] = h] /\ history' = history /\ hist[p].at = "read"
    BY <1>1 DEF MigrateRead
  <2> HIDE DEF h
  <2>. QED BY <2>1, <2>2, RowsOfQuiet
<1>2. CASE MigrateSchema(p)
  <2> DEFINE h == [hist[p] EXCEPT !.at = "commit", !.linked = TRUE]
  <2>1. h.goal = hist[p].goal
    BY <1>0 DEF Hist
  <2>2. hist' = [hist EXCEPT ![p] = h] /\ history' = Connected /\ hist[p].at = "schema"
    BY <1>2 DEF MigrateSchema
  <2> HIDE DEF h
  <2>. QED BY <2>1, <2>2, RowsOfQuiet
<1>3. CASE MigrateCommit(p)
  <2>1. hist[p].at = "commit"
    BY <1>3 DEF MigrateCommit
  <2>. QED BY <1>3, <2>1, RowsOfCommit
<1>4. CASE MigrateRename(p, fails)
  <2> DEFINE h == [hist[p] EXCEPT !.at = "body", !.items = <<>>, !.linked = FALSE]
  <2>1. h.goal = hist[p].goal
    BY <1>0 DEF Hist
  <2>2. hist' = [hist EXCEPT ![p] = h] /\ history' = history /\ hist[p].at = "rename"
    BY <1>4 DEF MigrateRename
  <2> HIDE DEF h
  <2>. QED BY <2>1, <2>2, RowsOfQuiet
<1>5. CASE LoadRows(p)
  <2>1. PICK rows \in Newest(Connected) :
          hist' = [hist EXCEPT ![p].at = "done", ![p].items = OldestFirst(rows)]
    BY <1>5 DEF LoadRows
  <2> DEFINE h == [hist[p] EXCEPT !.at = "done", !.items = OldestFirst(rows)]
  <2>2. h.goal = hist[p].goal
    BY <1>0 DEF Hist
  <2>3. hist' = [hist EXCEPT ![p] = h] /\ history' = Connected /\ hist[p].at = "body"
    BY <1>5, <2>1 DEF LoadRows
  <2> HIDE DEF h
  <2>. QED BY <2>2, <2>3, RowsOfQuiet
<1>6. CASE AppendRow(p, run, artifact)
  <2>1. hist[p].at = "body" /\ hist[p].goal = "append"
    BY <1>6 DEF AppendRow
  <2>. QED BY <1>6, <2>1, RowsOfAppend
<1>7. CASE MigrateFail(p)
  <2>1. hist[p].at \in {"schema", "commit"}
    BY <1>7 DEF MigrateFail
  <2>. QED BY <1>7, <2>1, RowsOfFail
<1>8. CASE BodyFails(p)
  <2> DEFINE h == [hist[p] EXCEPT !.at = "done"]
  <2>1. h.goal = hist[p].goal
    BY <1>0 DEF Hist
  <2>2. hist' = [hist EXCEPT ![p] = h] /\ history' = history /\ hist[p].at = "body"
    BY <1>8 DEF BodyFails
  <2> HIDE DEF h
  <2>. QED BY <2>1, <2>2, RowsOfQuiet
<1>9. CASE MigrateUnread(p)
  <2> DEFINE h == [hist[p] EXCEPT !.at = "body"]
  <2>1. h.goal = hist[p].goal
    BY <1>0 DEF Hist
  <2>2. hist' = [hist EXCEPT ![p] = h] /\ history' = history /\ hist[p].at = "read"
    BY <1>9 DEF MigrateUnread
  <2> HIDE DEF h
  <2>. QED BY <2>1, <2>2, RowsOfQuiet
<1>. QED BY <1>1, <1>2, <1>3, <1>4, <1>5, <1>6, <1>7, <1>8, <1>9 DEF HistoryStep

LEMMA HistoryStepOK ==
    ASSUME HistoryInv, NEW p \in Procs, NEW run, NEW artifact, NEW fails,
           hist[p].goal = "append" /\ hist[p].at # "done" =>
             run \in stamped /\ ~HasRun(Rows(history), run),
           artifact \in {Nothing} \cup (Int \X Nat),
           HistoryStep(p, run, artifact, fails), UNCHANGED stamped
    PROVE  HistoryInv'
<1>1. CASE AppendRow(p, run, artifact)
  <2>1. hist[p].at = "body" /\ hist[p].goal = "append"
    BY <1>1 DEF AppendRow
  <2>. QED BY <1>1, <2>1, AppendRowOK
<1>. QED BY <1>1, MigrateReadOK, MigrateUnreadOK, MigrateSchemaOK, MigrateCommitOK, MigrateRenameOK,
            LoadRowsOK, MigrateFailOK, BodyFailsOK DEF HistoryStep

----------------------------------------------------------------------------
(* Packs                                                                   *)

Pack == [at : {"idle", "scan", "score", "mirror", "append", "attach"},
         run : Int \cup {Nothing}, artifact : {Nothing} \cup (Int \X Nat)]

Reported(k) == k.at \in {"mirror", "append", "attach"}

(* The run of the pack k has no row yet.                                   *)
Waits(k, h) == k.at = "mirror" \/ (k.at = "append" /\ h.at # "done")

PackTyped ==
    /\ config \in Deployments
    /\ pack \in [Procs -> Pack]
    /\ \A p \in Procs : pack[p].run \in stamped \cup {Nothing}
    /\ stamped \subseteq 0..now /\ now \notin stamped
    /\ packs \in 0..config.packs
    /\ edits \in 0..config.edits
    /\ crashes \in 0..config.crashes

(* The packs that made a report made it at different times.                *)
RunsApart ==
    \A p, q \in Procs :
      /\ Reported(pack[p]) => pack[p].run \in stamped
      /\ Reported(pack[p]) /\ Reported(pack[q]) /\ pack[p].run = pack[q].run => p = q

(* Only a pack that made a report appends, and it appends it once.         *)
AppendsOnce ==
    \A p \in Procs :
      /\ pack[p].at = "score" => hist[p].goal # "append"
      /\ Waits(pack[p], hist[p]) => ~HasRun(Rows(history), pack[p].run)

PackInv == PackTyped /\ RunsApart /\ AppendsOnce

(* What a pack does between reports.                                       *)
LEMMA PackMoves ==
    ASSUME PackInv, HistoryInv, NEW p \in Procs, NEW k \in Pack,
           pack' = [pack EXCEPT ![p] = k],
           UNCHANGED <<config, stamped, now>>,
           packs' \in 0..config.packs, edits' = edits, crashes' \in 0..config.crashes,
           Reported(k) => Reported(pack[p]) /\ k.run = pack[p].run,
           k.run \in {pack[p].run, Nothing},
           RowsMove(p, pack[p].run) \/ history' = history,
           \A q \in Procs : q # p => /\ hist'[q].goal = hist[q].goal
                                     /\ hist'[q].at = hist[q].at,
           hist[p].goal = "append" /\ hist'[p].at = "done" /\ history' # history =>
              Reported(pack[p]) /\ ~Waits(k, hist'[p]),
           Waits(k, hist'[p]) => Waits(pack[p], hist[p]),
           k.at = "score" => hist'[p].goal # "append"
    PROVE  PackInv'
<1>1. \A q \in Procs : pack'[q] = IF q = p THEN k ELSE pack[q]
  BY DEF PackInv, PackTyped
<1>2. PackTyped'
  BY <1>1 DEF PackInv, PackTyped
<1>3. RunsApart'
  BY <1>1 DEF PackInv, RunsApart
<1>4. ASSUME NEW q \in Procs, Waits(pack'[q], hist'[q])
      PROVE  ~HasRun(Rows(history'), pack'[q].run)
  <2>1. Waits(pack[q], hist[q])
    BY <1>1, <1>4 DEF Waits
  <2>2. Reported(pack'[q]) /\ Reported(pack[q])
    BY <1>4, <2>1 DEF Waits, Reported
  <2>3. pack'[q].run = pack[q].run
    BY <1>1, <2>2
  <2>4. ~HasRun(Rows(history), pack[q].run) /\ pack[q].run \in stamped
    BY <2>1, <2>2 DEF PackInv, AppendsOnce, RunsApart
  <2>5. pack[q].run \in Nat
    BY <2>4 DEF HistoryInv, RowsOnce
  <2>6. CASE history' = history
    BY <2>3, <2>4, <2>6
  <2>7. CASE RowsMove(p, pack[p].run) /\ history' # history
    <3>1. SUFFICES ASSUME HasRun(Rows(history'), pack[q].run) PROVE FALSE
      BY <2>3
    <3>2. pack[q].run = pack[p].run /\ hist[p].goal = "append" /\ hist'[p].at = "done"
      BY <2>4, <2>5, <2>7, <3>1 DEF RowsMove
    <3>3. Reported(pack[p]) /\ ~Waits(k, hist'[p])
      BY <2>7, <3>2
    <3>4. q = p
      BY <2>2, <3>2, <3>3 DEF PackInv, RunsApart
    <3>. QED BY <1>1, <1>4, <3>3, <3>4
  <2>. QED BY <2>6, <2>7
<1>5. \A q \in Procs : pack'[q].at = "score" => hist'[q].goal # "append"
  BY <1>1 DEF PackInv, AppendsOnce
<1>. QED BY <1>2, <1>3, <1>4, <1>5 DEF PackInv, AppendsOnce

(* What others do between the steps of packs.                              *)
LEMMA PackStays ==
    ASSUME PackInv, UNCHANGED <<config, pack, stamped, packs, crashes, hist>>,
           edits' \in 0..config.edits, Rows(history') = Rows(history),
           now' \in Nat, now <= now', now \in Nat
    PROVE  PackInv'
<1>1. PackTyped'
  BY DEF PackInv, PackTyped
<1>2. RunsApart' /\ AppendsOnce'
  BY DEF PackInv, RunsApart, AppendsOnce
<1>. QED BY <1>1, <1>2 DEF PackInv

(* A new report has a generated_at that no other has.                      *)
LEMMA PackReports ==
    ASSUME PackInv, HistoryInv, now \in Nat, NEW p \in Procs, Stamp(p), history' = history,
           hist' = [hist EXCEPT ![p] = NoHistory],
           UNCHANGED <<config, packs, edits, crashes>>
    PROVE  PackInv'
<1> DEFINE k == [pack[p] EXCEPT !.run = now, !.at = "mirror"]
<1>1. /\ pack' = [pack EXCEPT ![p] = k] /\ now' = now + 1 /\ stamped' = stamped \cup {now}
      /\ pack[p] \in Pack
  BY DEF Stamp, PackInv, PackTyped
<1>2. k \in Pack /\ k.run = now /\ k.at = "mirror"
  <2>1. now \in Int \cup {Nothing}
    OBVIOUS
  <2>. QED BY <1>1, <2>1 DEF Pack
<1> HIDE DEF k
<1>3. \A q \in Procs : pack'[q] = IF q = p THEN k ELSE pack[q]
  BY <1>1 DEF PackInv, PackTyped
<1>4. \A q \in Procs : q # p => hist'[q] = hist[q]
  BY DEF HistoryInv, HistoryTyped
<1>5. PackTyped'
  BY <1>1, <1>2, <1>3 DEF PackInv, PackTyped
<1>6. RunsApart'
  BY <1>1, <1>2, <1>3 DEF PackInv, PackTyped, RunsApart
<1>7. ~HasRun(Rows(history), now)
  BY HistoryConstants DEF PackInv, PackTyped, HistoryInv, RowsOnce, HasRun
<1>8. AppendsOnce'
  BY <1>2, <1>3, <1>4, <1>7 DEF PackInv, AppendsOnce
<1>. QED BY <1>5, <1>6, <1>8 DEF PackInv

----------------------------------------------------------------------------
(* All together: one step for each disjunct of Next                        *)

PacksInv == ScanInv /\ FeedInv /\ HistoryInv /\ PackInv

(* Steps that look at other files than the scan's.                         *)
LEMMA ScanStays ==
    ASSUME ScanInv, UNCHANGED <<disk, readable, shown, scanVars>>,
           now' \in 0..MaxTime, now <= now'
    PROVE  ScanInv'
<1>1. TreeMoves
  BY DEF TreeMoves
<1>2. /\ UNCHANGED <<scan, json, db, torn, stayed>>
      /\ \A f \in Files : disk'[f] = Nothing => disk[f] = Nothing
  BY DEF scanVars
<1>. QED BY <1>1, <1>2, TreeMovesKept

LEMMA ClockTyped ==
    ASSUME ScanInv
    PROVE  now \in Nat /\ now \in 0..MaxTime /\ MaxTime \in Nat /\ now <= now
BY ScanConstants DEF ScanInv, TreeOK

(* The settings are those of a deployment.                                 *)
LEMMA Deployed ==
    ASSUME PackInv
    PROVE  /\ config.scans => config.rules \in [Procs -> SUBSET Files]
           /\ config.edited \subseteq Files
           /\ config.packs \in Nat /\ config.edits \in Nat /\ config.crashes \in Nat
BY PacksConstants DEF PackInv, PackTyped

LEMMA PacksStart == Init => PacksInv
<1> SUFFICES ASSUME Init PROVE PacksInv
  OBVIOUS
<1>1. /\ config \in Deployments /\ ScanInit(config.contents) /\ HistoryInit(config.imports)
      /\ FeedInit(config.feed) /\ pack = [p \in Procs |-> NoPack] /\ stamped = {}
      /\ packs = 0 /\ edits = 0 /\ crashes = 0
  BY DEF Init
<1>2. /\ config.feed \in 0..Keep /\ config.contents \in SUBSET Contents
      /\ config.packs \in Nat /\ config.edits \in Nat /\ config.crashes \in Nat
  BY <1>1, PacksConstants
<1>3. ScanInv
  BY <1>1, <1>2, ScanStarts
<1>4. FeedInv
  BY <1>1, <1>2, FeedStarts
<1>5. HistoryInv
  BY <1>1, HistoryStarts
<1>6. NoPack \in Pack /\ NoPack.at = "idle" /\ NoPack.run = Nothing
  BY DEF NoPack, Pack
<1>7. \A p \in Procs : pack[p] = NoPack
  BY <1>1
<1>8. PackTyped
  BY <1>1, <1>2, <1>6 DEF PackTyped
<1> HIDE DEF NoPack
<1>9. RunsApart /\ AppendsOnce
  BY <1>6, <1>7 DEF RunsApart, AppendsOnce, Reported, Waits
<1>. QED BY <1>3, <1>4, <1>5, <1>8, <1>9 DEF PacksInv, PackInv

LEMMA PackBeginsOK ==
    ASSUME PacksInv, NEW p \in Procs, PackBegins(p)
    PROVE  PacksInv'
<1>1. /\ ScanInv /\ FeedInv /\ HistoryInv /\ PackInv /\ pack[p] \in Pack
      /\ pack[p].run \in Int \cup {Nothing}
  BY DEF PacksInv, PackInv, PackTyped, Pack
<1>2. /\ packs' \in 0..config.packs /\ edits' = edits /\ crashes' \in 0..config.crashes
      /\ UNCHANGED <<config, stamped>>
  BY <1>1, Deployed DEF PackBegins, PackInv, PackTyped
<1>3. CASE config.scans
  <2> DEFINE k == [pack[p] EXCEPT !.at = "scan"]
  <2>1. k \in Pack /\ k.run = pack[p].run /\ k.at = "scan"
    BY <1>1 DEF Pack
  <2>2. /\ pack' = [pack EXCEPT ![p] = k]
        /\ ScanBegin(p, config.rules[p]) /\ UNCHANGED <<treeVars, historyVars, feedVars>>
    BY <1>3 DEF PackBegins
  <2> HIDE DEF k
  <2>3. history' = history /\ hist' = hist /\ now' = now
    BY <2>2 DEF historyVars, treeVars
  <2>4. config.rules[p] \in SUBSET Files
    BY <1>1, <1>3, Deployed
  <2>5. ScanInv'
    BY <1>1, <2>2, <2>4, ScanBeginOK, ScanDbMove, ScanMovesKept
  <2>6. FeedInv' /\ HistoryInv'
    BY <1>1, <1>2, <2>2, FeedStays, HistoryStays
  <2>7. ~Reported(k) /\ ~Waits(k, hist'[p]) /\ k.at # "score"
    BY <2>1 DEF Reported, Waits
  <2>8. PackInv'
    BY <1>1, <1>2, <2>1, <2>2, <2>3, <2>7, PackMoves
  <2>. QED BY <2>5, <2>6, <2>8 DEF PacksInv
<1>4. CASE ~config.scans
  <2> DEFINE k == [pack[p] EXCEPT !.at = "score"]
  <2>1. k \in Pack /\ k.run = pack[p].run /\ k.at = "score"
    BY <1>1 DEF Pack
  <2>2. /\ pack' = [pack EXCEPT ![p] = k]
        /\ HistoryCheck(p, "load") /\ UNCHANGED <<treeVars, scanVars, feedVars>>
    BY <1>4 DEF PackBegins
  <2> HIDE DEF k
  <2>3. /\ history' = history /\ now' = now
        /\ \A q \in Procs : q # p => hist'[q] = hist[q]
    BY <1>1, <2>2 DEF HistoryCheck, treeVars, HistoryInv, HistoryTyped
  <2>4. HistoryInv' /\ hist'[p].goal = "load"
    BY <1>1, <1>2, <2>2, HistoryCheckOK
  <2>5. ScanInv'
    BY <1>1, <2>2, <2>3, ScanStays, ClockTyped DEF treeVars
  <2>6. FeedInv'
    BY <1>1, <2>2, FeedStays
  <2>7. ~Reported(k) /\ ~Waits(k, hist'[p])
    BY <2>1 DEF Reported, Waits
  <2>8. PackInv'
    BY <1>1, <1>2, <2>1, <2>2, <2>3, <2>4, <2>7, PackMoves
  <2>. QED BY <2>4, <2>5, <2>6, <2>8 DEF PacksInv
<1>. QED BY <1>3, <1>4

LEMMA ScansOK ==
    ASSUME PacksInv, NEW p \in Procs, Scans(p)
    PROVE  PacksInv'
<1>1. ScanInv /\ FeedInv /\ HistoryInv /\ PackInv
  BY DEF PacksInv
<1>2. /\ ScanStep(p, config.limit, config.fails)
      /\ UNCHANGED treeVars /\ UNCHANGED historyVars /\ UNCHANGED feedVars
      /\ UNCHANGED wiring
  BY DEF Scans
<1>3. /\ UNCHANGED <<config, pack, stamped, packs, edits, crashes>>
      /\ now' = now /\ hist' = hist /\ history' = history
  BY <1>2 DEF wiring, treeVars, historyVars
<1>4. ScanInv'
  BY <1>1, <1>2, ScanStepOK, ScanDbMove, ScanMovesKept
<1>5. FeedInv' /\ HistoryInv'
  BY <1>1, <1>2, <1>3, FeedStays, HistoryStays
<1>6. PackInv'
  BY <1>1, <1>3, PackStays, ClockTyped DEF PackInv, PackTyped
<1>. QED BY <1>4, <1>5, <1>6 DEF PacksInv

LEMMA ScanEndsOK ==
    ASSUME PacksInv, NEW p \in Procs, ScanEnds(p)
    PROVE  PacksInv'
<1> DEFINE k == [pack[p] EXCEPT !.at = "idle"]
<1>1. /\ ScanInv /\ FeedInv /\ HistoryInv /\ PackInv /\ pack[p] \in Pack
  BY DEF PacksInv, PackInv, PackTyped
<1>2. k \in Pack /\ k.run = pack[p].run /\ k.at = "idle"
  BY <1>1 DEF Pack
<1>3. /\ pack' = [pack EXCEPT ![p] = k]
      /\ ScanForgotten(p) /\ UNCHANGED <<json, db, torn>>
      /\ UNCHANGED treeVars /\ UNCHANGED historyVars /\ UNCHANGED feedVars
      /\ UNCHANGED <<config, stamped, packs, edits, crashes>>
  BY DEF ScanEnds, Stage
<1> HIDE DEF k
<1>4. now' = now /\ hist' = hist /\ history' = history
  BY <1>3 DEF treeVars, historyVars
<1>5. ScanInv'
  BY <1>1, <1>3, ScanForgottenOK, ScanDbMove, ScanMovesKept
<1>6. FeedInv' /\ HistoryInv'
  BY <1>1, <1>3, FeedStays, HistoryStays
<1>7. ~Reported(k) /\ ~Waits(k, hist'[p]) /\ k.at # "score"
  BY <1>2 DEF Reported, Waits
<1>8. packs' \in 0..config.packs /\ crashes' \in 0..config.crashes
  BY <1>1, <1>3 DEF PackInv, PackTyped
<1>9. PackInv'
  BY <1>1, <1>2, <1>3, <1>4, <1>7, <1>8, PackMoves
<1>. QED BY <1>5, <1>6, <1>9 DEF PacksInv

LEMMA UsesHistoryOK ==
    ASSUME PacksInv, NEW p \in Procs, UsesHistory(p)
    PROVE  PacksInv'
<1> DEFINE k == pack[p]
<1>1. /\ ScanInv /\ FeedInv /\ HistoryInv /\ PackInv /\ k \in Pack
      /\ pack \in [Procs -> Pack]
  BY DEF PacksInv, PackInv, PackTyped
<1>2. /\ k.at \in {"score", "append"}
      /\ HistoryStep(p, k.run, k.artifact, config.fails)
      /\ UNCHANGED treeVars /\ UNCHANGED scanVars /\ UNCHANGED feedVars /\ UNCHANGED wiring
  BY DEF UsesHistory
<1>3. UNCHANGED <<config, pack, stamped, packs, edits, crashes>> /\ now' = now
  BY <1>2 DEF wiring, treeVars
<1>4. hist[p].goal = "append" => k.at = "append" /\ Reported(k)
  BY <1>1, <1>2 DEF PackInv, AppendsOnce, Reported
<1>5. hist[p].goal = "append" /\ hist[p].at # "done" =>
        k.run \in stamped /\ ~HasRun(Rows(history), k.run)
  BY <1>1, <1>4 DEF PackInv, AppendsOnce, RunsApart, Waits
<1>6. k.artifact \in {Nothing} \cup (Int \X Nat) /\ (k.run \in stamped => k.run \in Int)
  <2>1. stamped \subseteq Nat
    BY <1>1 DEF HistoryInv, RowsOnce
  <2>2. k.artifact \in {Nothing} \cup (Int \X Nat)
    BY <1>1 DEF Pack
  <2>3. \A run \in stamped : run \in Int
    BY <2>1
  <2>. QED BY ONLY <2>2, <2>3
<1>7. HistoryInv'
  BY <1>1, <1>2, <1>3, <1>5, <1>6, HistoryStepOK
<1>8. k.run \in Int \/ hist[p].goal # "append"
  BY <1>1, <1>4, <1>6 DEF PackInv, RunsApart
<1>9. RowsMove(p, k.run) /\ hist[p].at # "done"
  BY <1>1, <1>2, <1>6, <1>8, HistoryStepMoves
<1>10. ScanInv' /\ FeedInv'
  BY <1>1, <1>2, <1>3, ScanStays, ClockTyped, FeedStays DEF treeVars
<1>11. pack' = [pack EXCEPT ![p] = k]
  BY <1>1, <1>3
<1>12. /\ packs' \in 0..config.packs /\ crashes' \in 0..config.crashes
       /\ \A q \in Procs : hist'[q].goal = hist[q].goal /\ (q # p => hist'[q].at = hist[q].at)
  BY <1>1, <1>3, <1>9 DEF PackInv, PackTyped, RowsMove
<1>13. hist[p].goal = "append" /\ hist'[p].at = "done" => ~Waits(k, hist'[p])
  BY <1>4 DEF Waits
<1>14. Waits(k, hist'[p]) => Waits(k, hist[p])
  BY <1>9 DEF Waits
<1>15. k.at = "score" => hist'[p].goal # "append"
  BY <1>1, <1>12 DEF PackInv, AppendsOnce
<1>16. PackInv'
  <2> HIDE DEF k
  <2>1. k = pack[p]
    BY DEF k
  <2>. QED BY <1>1, <1>3, <1>4, <1>9, <1>11, <1>12, <1>13, <1>14, <1>15, <2>1, PackMoves
<1>. QED BY <1>7, <1>10, <1>16 DEF PacksInv

LEMMA ReportsOK ==
    ASSUME PacksInv, NEW p \in Procs, Reports(p)
    PROVE  PacksInv'
<1>1. ScanInv /\ FeedInv /\ HistoryInv /\ PackInv
  BY DEF PacksInv
<1>2. /\ hist[p].at = "done" /\ Stamp(p) /\ hist' = [hist EXCEPT ![p] = NoHistory]
      /\ UNCHANGED <<disk, readable, shown, scanVars, legacy, history, recorded, spoiled,
                     overlapped, feedVars, config, packs, edits, crashes>>
  BY DEF Reports
<1>3. now < MaxTime /\ now' = now + 1 /\ stamped' = stamped \cup {now}
  BY <1>2 DEF Stamp
<1>4. ScanInv'
  <2>1. now' \in 0..MaxTime /\ now <= now'
    BY <1>1, <1>3, ClockTyped
  <2>2. UNCHANGED <<disk, readable, shown, scanVars>>
    BY <1>2
  <2>. QED BY <1>1, <2>1, <2>2, ScanStays
<1>5. FeedInv'
  BY <1>1, <1>2, FeedStays
<1>6. stamped \subseteq stamped' /\ stamped' \subseteq Nat
  BY <1>1, <1>3, ClockTyped DEF HistoryInv, RowsOnce
<1>7. HistoryInv'
  BY <1>1, <1>2, <1>6, HistoryEndsOK
<1>8. PackInv'
  BY <1>1, <1>2, ClockTyped, PackReports
<1>. QED BY <1>4, <1>5, <1>7, <1>8 DEF PacksInv

LEMMA MirrorsOK ==
    ASSUME PacksInv, NEW p \in Procs, Mirrors(p)
    PROVE  PacksInv'
<1>1. ScanInv /\ FeedInv /\ HistoryInv /\ PackInv
  BY DEF PacksInv
<1>2. /\ pack[p].at = "mirror"
      /\ \/ FeedPick(p, pack[p].run, Second(pack[p].run))
         \/ FeedStep(p, now, config.fails)
      /\ UNCHANGED treeVars /\ UNCHANGED scanVars /\ UNCHANGED historyVars /\ UNCHANGED wiring
  BY DEF Mirrors
<1>3. /\ UNCHANGED <<config, pack, stamped, packs, edits, crashes>>
      /\ now' = now /\ hist' = hist /\ history' = history
  BY <1>2 DEF wiring, treeVars, historyVars
<1>4. pack[p].run \in Int /\ Second(pack[p].run) \in Int
  <2>1. pack[p].run \in stamped /\ stamped \subseteq Nat
    BY <1>1, <1>2 DEF PackInv, RunsApart, Reported, HistoryInv, RowsOnce
  <2>2. PerSecond \in Int /\ PerSecond > 0
    BY PacksConstants
  <2>3. pack[p].run \in Int
    <3>1. \A run \in stamped : run \in Int
      BY ONLY <2>1
    <3>. QED BY ONLY <2>1, <3>1
  <2>4. pack[p].run \div PerSecond \in Int
    BY ONLY <2>2, <2>3
  <2>. QED BY <2>3, <2>4 DEF Second
<1>5. FeedInv'
  BY <1>1, <1>2, <1>4, FeedPickOK, FeedStepOK, ClockTyped
<1>6. ScanInv' /\ HistoryInv'
  BY <1>1, <1>2, <1>3, ScanStays, ClockTyped, HistoryStays DEF treeVars
<1>7. PackInv'
  BY <1>1, <1>3, PackStays, ClockTyped DEF PackInv, PackTyped
<1>. QED BY <1>5, <1>6, <1>7 DEF PacksInv

LEMMA MirroredOK ==
    ASSUME PacksInv, NEW p \in Procs, Mirrored(p)
    PROVE  PacksInv'
<1> DEFINE k == [pack[p] EXCEPT !.at = "append", !.artifact = mirror[p].name]
<1>1. ScanInv /\ FeedInv /\ HistoryInv /\ PackInv /\ pack[p] \in Pack
  BY DEF PacksInv, PackInv, PackTyped
<1>2. mirror[p].name \in {Nothing} \cup (Int \X Nat)
  <2>1. mirror[p] \in Mirror
    BY <1>1 DEF FeedInv
  <2>. QED BY <2>1 DEF Mirror
<1>3. k \in Pack /\ k.run = pack[p].run /\ k.at = "append"
  BY <1>1, <1>2 DEF Pack
<1>4. /\ pack[p].at = "mirror" /\ mirror[p].at = "done"
      /\ pack' = [pack EXCEPT ![p] = k]
      /\ mirror' = [mirror EXCEPT ![p] = NoMirror]
      /\ HistoryCheck(p, "append")
      /\ UNCHANGED treeVars /\ UNCHANGED scanVars
      /\ UNCHANGED <<feed, unpruned, made, reused, overtaken>>
      /\ UNCHANGED <<config, stamped, packs, edits, crashes>>
  BY DEF Mirrored
<1> HIDE DEF k
<1>5. /\ history' = history /\ now' = now
      /\ \A q \in Procs : q # p => hist'[q] = hist[q]
  BY <1>1, <1>4 DEF HistoryCheck, treeVars, HistoryInv, HistoryTyped
<1>6. HistoryInv'
  BY <1>1, <1>4, HistoryCheckOK
<1>7. ScanInv'
  BY <1>1, <1>4, <1>5, ScanStays, ClockTyped DEF treeVars
<1>8. FeedInv'
  BY <1>1, <1>4, FeedEndsOK
<1>9. Reported(pack[p]) /\ Waits(pack[p], hist[p])
  BY <1>4 DEF Reported, Waits
<1>10. packs' \in 0..config.packs /\ crashes' \in 0..config.crashes
  BY <1>1, <1>4 DEF PackInv, PackTyped
<1>11. PackInv'
  BY <1>1, <1>3, <1>4, <1>5, <1>9, <1>10, PackMoves
<1>. QED BY <1>6, <1>7, <1>8, <1>11 DEF PacksInv

LEMMA PackEndsOK ==
    ASSUME PacksInv, NEW p \in Procs, PackEnds(p)
    PROVE  PacksInv'
<1> DEFINE k == [pack[p] EXCEPT !.at = IF config.attaches THEN "attach" ELSE "idle"]
<1>1. ScanInv /\ FeedInv /\ HistoryInv /\ PackInv /\ pack[p] \in Pack
  BY DEF PacksInv, PackInv, PackTyped
<1>2. k \in Pack /\ k.run = pack[p].run /\ k.at \in {"attach", "idle"}
  BY <1>1 DEF Pack
<1>3. /\ pack[p].at = "append" /\ hist[p].at = "done"
      /\ pack' = [pack EXCEPT ![p] = k]
      /\ hist' = [hist EXCEPT ![p] = NoHistory]
      /\ UNCHANGED treeVars /\ UNCHANGED scanVars /\ UNCHANGED feedVars
      /\ UNCHANGED <<legacy, history, recorded, spoiled, overlapped,
                     config, stamped, packs, edits, crashes>>
  BY DEF PackEnds, Stage
<1> HIDE DEF k
<1>4. now' = now /\ \A q \in Procs : q # p => hist'[q] = hist[q]
  BY <1>1, <1>3 DEF treeVars, HistoryInv, HistoryTyped
<1>5. stamped \subseteq stamped' /\ stamped' \subseteq Nat
  BY <1>1, <1>3 DEF HistoryInv, RowsOnce
<1>6. HistoryInv'
  BY <1>1, <1>3, <1>5, HistoryEndsOK
<1>7. ScanInv' /\ FeedInv'
  BY <1>1, <1>3, <1>4, ScanStays, ClockTyped, FeedStays DEF treeVars
<1>8. Reported(pack[p]) /\ ~Waits(k, hist'[p]) /\ k.at # "score"
  BY <1>2, <1>3 DEF Reported, Waits
<1>9. packs' \in 0..config.packs /\ crashes' \in 0..config.crashes
  BY <1>1, <1>3 DEF PackInv, PackTyped
<1>10. PackInv'
  BY <1>1, <1>2, <1>3, <1>4, <1>8, <1>9, PackMoves
<1>. QED BY <1>6, <1>7, <1>10 DEF PacksInv

LEMMA AttachesOK ==
    ASSUME PacksInv, NEW p \in Procs, Attaches(p)
    PROVE  PacksInv'
<1> DEFINE k == [pack[p] EXCEPT !.at = "idle"]
<1>1. ScanInv /\ FeedInv /\ HistoryInv /\ PackInv /\ pack[p] \in Pack
  BY DEF PacksInv, PackInv, PackTyped
<1>2. k \in Pack /\ k.run = pack[p].run /\ k.at = "idle"
  BY <1>1 DEF Pack
<1>3. /\ pack' = [pack EXCEPT ![p] = k]
      /\ UpdateRow(pack[p].run, RunJson)
      /\ UNCHANGED treeVars /\ UNCHANGED scanVars /\ UNCHANGED feedVars
      /\ UNCHANGED <<config, stamped, packs, edits, crashes>>
  BY DEF Attaches, Stage
<1> HIDE DEF k
<1>4. now' = now /\ hist' = hist
  BY <1>3 DEF treeVars, UpdateRow
<1>5. HistoryInv' /\ \A r : HasRun(Rows(history'), r) => HasRun(Rows(history), r)
  BY <1>1, <1>3, UpdateRowOK
<1>6. ScanInv' /\ FeedInv'
  BY <1>1, <1>3, <1>4, ScanStays, ClockTyped, FeedStays DEF treeVars
<1>7. ~Reported(k) /\ ~Waits(k, hist'[p]) /\ k.at # "score"
  BY <1>2 DEF Reported, Waits
<1>8. packs' \in 0..config.packs /\ crashes' \in 0..config.crashes
  BY <1>1, <1>3 DEF PackInv, PackTyped
<1>9. RowsMove(p, pack[p].run)
  BY <1>4, <1>5 DEF RowsMove
<1>10. hist[p].goal = "append" /\ hist'[p].at = "done" /\ history' # history =>
         Reported(pack[p]) /\ ~Waits(k, hist'[p])
  BY <1>3, <1>7 DEF Attaches, Stage, Reported
<1>11. PackInv'
  BY <1>1, <1>2, <1>3, <1>4, <1>7, <1>8, <1>9, <1>10, PackMoves
<1>. QED BY <1>5, <1>6, <1>11 DEF PacksInv

LEMMA CrashOK ==
    ASSUME PacksInv, NEW p \in Procs, Crash(p)
    PROVE  PacksInv'
<1>1. ScanInv /\ FeedInv /\ HistoryInv /\ PackInv
  BY DEF PacksInv
<1>2. NoPack \in Pack /\ NoPack.run = Nothing /\ NoPack.at = "idle"
  BY DEF NoPack, Pack
<1>3. /\ pack' = [pack EXCEPT ![p] = NoPack]
      /\ crashes < config.crashes /\ crashes' = crashes + 1
      /\ ScanForgotten(p) /\ HistoryForgotten(p) /\ FeedForgotten(p)
      /\ UNCHANGED treeVars /\ UNCHANGED <<json, db, torn>>
      /\ UNCHANGED <<config, stamped, packs, edits>>
  BY DEF Crash
<1> HIDE DEF NoPack
<1>4. /\ now' = now /\ history' = history
      /\ \A q \in Procs : q # p => hist'[q] = hist[q]
  BY <1>1, <1>3 DEF treeVars, HistoryForgotten, HistoryInv, HistoryTyped
<1>5. ScanInv'
  BY <1>1, <1>3, ScanForgottenOK, ScanDbMove, ScanMovesKept
<1>6. FeedInv' /\ HistoryInv'
  BY <1>1, <1>3, FeedForgottenOK, HistoryForgottenOK
<1>7. ~Reported(NoPack) /\ ~Waits(NoPack, hist'[p]) /\ NoPack.at # "score"
  BY <1>2 DEF Reported, Waits
<1>8. packs' \in 0..config.packs /\ crashes' \in 0..config.crashes
  BY <1>1, <1>3, Deployed DEF PackInv, PackTyped
<1>9. PackInv'
  BY <1>1, <1>2, <1>3, <1>4, <1>7, <1>8, PackMoves
<1>. QED BY <1>5, <1>6, <1>9 DEF PacksInv

LEMMA TimePassesOK ==
    ASSUME PacksInv, TimePasses
    PROVE  PacksInv'
<1>1. ScanInv /\ FeedInv /\ HistoryInv /\ PackInv
  BY DEF PacksInv
<1>2. /\ now < MaxTime /\ now' = now + 1 /\ UNCHANGED <<disk, readable, shown>>
      /\ UNCHANGED scanVars /\ UNCHANGED historyVars /\ UNCHANGED feedVars /\ UNCHANGED wiring
  BY DEF TimePasses, Tick
<1>3. /\ UNCHANGED <<config, pack, stamped, packs, edits, crashes>>
      /\ hist' = hist /\ history' = history
  BY <1>2 DEF wiring, historyVars
<1>4. now' \in 0..MaxTime /\ now' \in Nat /\ now <= now' /\ now \in Nat
  BY <1>1, <1>2, ClockTyped
<1>5. ScanInv' /\ FeedInv' /\ HistoryInv'
  BY <1>1, <1>2, <1>3, <1>4, ScanStays, FeedStays, HistoryStays
<1>6. PackInv'
  BY <1>1, <1>3, <1>4, PackStays DEF PackInv, PackTyped
<1>. QED BY <1>5, <1>6 DEF PacksInv

LEMMA TreeChangesOK ==
    ASSUME PacksInv, TreeChanges
    PROVE  PacksInv'
<1>1. ScanInv /\ FeedInv /\ HistoryInv /\ PackInv
  BY DEF PacksInv
<1>2. /\ edits < config.edits /\ edits' = edits + 1
      /\ UNCHANGED <<json, db, scan, torn>> /\ UNCHANGED historyVars /\ UNCHANGED feedVars
      /\ UNCHANGED <<config, pack, stamped, packs, crashes>>
  BY DEF TreeChanges
<1>3. PICK f \in config.edited :
        \/ (Edit(f) \/ Chmod(f)) /\ UNCHANGED stayed
        \/ Delete(f) /\ Deleted(f)
  BY DEF TreeChanges
<1>4. f \in Files /\ now' = now /\ hist' = hist /\ history' = history
  BY <1>1, <1>2, <1>3, Deployed DEF Edit, Chmod, Delete, historyVars
<1>5. TreeMoves
  BY <1>1, <1>3, <1>4, ClockTyped DEF TreeMoves
<1>6. (Edit(f) \/ Chmod(f)) => \A g \in Files : disk'[g] = Nothing => disk[g] = Nothing
  <2>1. disk \in [Files -> FileState \cup {Nothing}] /\ now \in Nat
    BY <1>1, ClockTyped DEF ScanInv, TreeOK
  <2>2. CASE Chmod(f)
    BY <2>2 DEF Chmod
  <2>3. ASSUME NEW c \in Contents, disk' = [disk EXCEPT ![f] = [content |-> c, mtime |-> now]]
        PROVE  \A g \in Files : disk'[g] = Nothing => disk[g] = Nothing
    <3>1. [content |-> c, mtime |-> now] # Nothing
      BY <2>1, ScanConstants
    <3>. QED BY <2>1, <2>3, <3>1
  <2>. QED BY <2>2, <2>3 DEF Edit
<1>7. ScanInv'
  BY <1>1, <1>2, <1>3, <1>4, <1>5, <1>6, TreeMovesKept
<1>8. FeedInv' /\ HistoryInv'
  BY <1>1, <1>2, FeedStays, HistoryStays
<1>9. edits' \in 0..config.edits
  BY <1>1, <1>2, Deployed DEF PackInv, PackTyped
<1>10. PackInv'
  BY <1>1, <1>2, <1>4, <1>9, ClockTyped, PackStays
<1>. QED BY <1>7, <1>8, <1>10 DEF PacksInv

LEMMA CommandRunsOK ==
    ASSUME PacksInv, CommandRuns
    PROVE  PacksInv'
<1>1. ScanInv /\ FeedInv /\ HistoryInv /\ PackInv
  BY DEF PacksInv
<1>2. /\ CommandRecorded
      /\ UNCHANGED treeVars /\ UNCHANGED scanVars /\ UNCHANGED feedVars /\ UNCHANGED wiring
  BY DEF CommandRuns
<1>3. /\ UNCHANGED <<config, pack, stamped, packs, edits, crashes>>
      /\ now' = now /\ hist' = hist
  BY <1>2 DEF wiring, treeVars, CommandRecorded
<1>4. Rows(history') = Rows(history)
  BY <1>2, NoRows DEF CommandRecorded, Connected
<1>5. ScanInv' /\ FeedInv' /\ HistoryInv'
  BY <1>1, <1>2, <1>3, ScanStays, ClockTyped, FeedStays, CommandRecordedOK DEF treeVars
<1>6. PackInv'
  BY <1>1, <1>3, <1>4, ClockTyped, PackStays DEF PackInv, PackTyped
<1>. QED BY <1>5, <1>6 DEF PacksInv

LEMMA PacksStutter ==
    ASSUME PacksInv, UNCHANGED vars
    PROVE  PacksInv'
<1>1. ScanInv /\ FeedInv /\ HistoryInv /\ PackInv
  BY DEF PacksInv
<1>2. /\ UNCHANGED treeVars /\ UNCHANGED scanVars /\ UNCHANGED historyVars
      /\ UNCHANGED feedVars /\ UNCHANGED wiring
  BY DEF vars
<1>3. /\ UNCHANGED <<config, pack, stamped, packs, edits, crashes>>
      /\ now' = now /\ hist' = hist /\ history' = history
  BY <1>2 DEF wiring, treeVars, historyVars
<1>4. ScanInv' /\ FeedInv' /\ HistoryInv'
  BY <1>1, <1>2, <1>3, ScanStays, ClockTyped, FeedStays, HistoryStays DEF treeVars
<1>5. PackInv'
  BY <1>1, <1>3, ClockTyped, PackStays DEF PackInv, PackTyped
<1>. QED BY <1>4, <1>5 DEF PacksInv

LEMMA PacksKept == PacksInv /\ [Next]_vars => PacksInv'
<1> SUFFICES ASSUME PacksInv, [Next]_vars PROVE PacksInv'
  OBVIOUS
<1>1. CASE \E p \in Procs : PackBegins(p) \/ Scans(p) \/ ScanEnds(p) \/ UsesHistory(p)
  BY <1>1, PackBeginsOK, ScansOK, ScanEndsOK, UsesHistoryOK
<1>2. CASE \E p \in Procs : Reports(p) \/ Mirrors(p) \/ Mirrored(p)
  BY <1>2, ReportsOK, MirrorsOK, MirroredOK
<1>3. CASE \E p \in Procs : PackEnds(p) \/ Attaches(p) \/ Crash(p)
  BY <1>3, PackEndsOK, AttachesOK, CrashOK
<1>4. CASE TimePasses \/ TreeChanges \/ CommandRuns
  BY <1>4, TimePassesOK, TreeChangesOK, CommandRunsOK
<1>5. CASE UNCHANGED vars
  BY <1>5, PacksStutter
<1>. QED BY <1>1, <1>2, <1>3, <1>4, <1>5 DEF Next

LEMMA PacksAlways == Spec => []PacksInv
<1>. QED BY PacksStart, PacksKept, PTL DEF Spec

----------------------------------------------------------------------------
(* The settings                                                            *)

(* These entries leave out what these settings leave out.                  *)
Apart(rules, entries) ==
    \A f \in DOMAIN entries : entries[f].record = "excluded" <=> f \notin rules

IndexApart(index) == index # Nothing => Apart(index.rules, index.entries)

(* Until a save tears a load, every index and every scan keeps to its      *)
(* settings, and a scan that is about to read the entries of the database  *)
(* will find those of its own.                                             *)
SettingsInv ==
    ~torn =>
      /\ IndexApart(json) /\ IndexApart(db)
      /\ \A p \in Procs : /\ Apart(scan[p].rules, scan[p].prev)
                          /\ Apart(scan[p].rules, scan[p].cur)
                          /\ scan[p].at = "rows" =>
                               db.rules = scan[p].rules /\ Apart(db.rules, db.entries)

LEMMA NoEntriesApart == \A rules : Apart(rules, <<>>)
BY DEF Apart

LEMMA UsableApart ==
    ASSUME NEW index, NEW rules, IndexApart(index)
    PROVE  Apart(rules, Usable(index, rules))
BY NoEntriesApart DEF IndexApart, Usable

(* A step that makes t of the scan of p.                                   *)
LEMMA SettingsMove ==
    ASSUME scan \in [Procs -> Scan], SettingsInv, ~torn, NEW p \in Procs, NEW t,
           scan' = [scan EXCEPT ![p] = t],
           Apart(t.rules, t.prev), Apart(t.rules, t.cur),
           t.at = "rows" => db'.rules = t.rules /\ Apart(db'.rules, db'.entries),
           IndexApart(json'), IndexApart(db'),
           db' = db \/ (Apart(db'.rules, db'.entries) /\ ~Tears)
    PROVE  SettingsInv'
<1>1. ASSUME NEW q \in Procs
      PROVE  /\ Apart(scan'[q].rules, scan'[q].prev)
             /\ Apart(scan'[q].rules, scan'[q].cur)
             /\ scan'[q].at = "rows" =>
                  db'.rules = scan'[q].rules /\ Apart(db'.rules, db'.entries)
  <2>1. CASE q = p
    BY <2>1
  <2>2. CASE q # p
    <3>1. scan'[q] = scan[q]
      BY <2>2
    <3>. QED BY <3>1 DEF SettingsInv, Tears
  <2>. QED BY <2>1, <2>2
<1>. QED BY <1>1 DEF SettingsInv

(* What a save leaves, if it does not tear a load.                         *)
LEMMA SavedApart ==
    ASSUME IndexApart(db), NEW index, Apart(index.rules, index.entries),
           NEW fails, db' \in Saved(index, fails)
    PROVE  IndexApart(db') /\ (db' = db \/ Apart(db'.rules, db'.entries))
<1>1. Apart(NoIndex.rules, NoIndex.entries)
  BY NoEntriesApart DEF NoIndex
<1>2. db' = index \/ db' = db \/ db' = NoIndex
  BY DEF Saved
<1>. QED BY <1>1, <1>2 DEF IndexApart

LEMMA ScanSettings ==
    ASSUME ScanInv, SettingsInv, NEW p \in Procs, NEW rules, NEW limit, NEW fails,
           \/ ScanBegin(p, rules)
           \/ ScanStep(p, limit, fails)
           \/ ScanForgotten(p) /\ UNCHANGED <<json, db, torn>>
    PROVE  SettingsInv'
<1> DEFINE s == scan[p]
           f == Head(s.todo)
<1>1. scan \in [Procs -> Scan] /\ s \in Scan
  BY DEF ScanInv
<1>2. torn => torn'
  BY DEF ScanBegin, ScanStep, ScanMigrate, ScanLoad, ScanRows, ScanJson, ScanStat, ScanSkip,
         ScanRead, ScanSaveJson, ScanSaveDb
<1>3. CASE torn'
  BY <1>3 DEF SettingsInv
<1> SUFFICES ASSUME ~torn' PROVE SettingsInv'
  BY <1>3
<1>4. /\ ~torn /\ IndexApart(json) /\ IndexApart(db)
      /\ Apart(s.rules, s.prev) /\ Apart(s.rules, s.cur) /\ Apart(s.rules, <<>>)
      /\ s.at = "rows" => db.rules = s.rules /\ Apart(db.rules, db.entries)
  BY <1>2, NoEntriesApart DEF SettingsInv
<1>5. CASE ScanBegin(p, rules)
  <2> DEFINE t == IF json # Nothing /\ db = Nothing
                    THEN [NoScan EXCEPT !.at = "migrate", !.rules = rules,
                                        !.prev = Usable(json, rules)]
                    ELSE [NoScan EXCEPT !.at = "load", !.rules = rules]
  <2>1. scan' = [scan EXCEPT ![p] = t] /\ json' = json /\ db' = db
    BY <1>5 DEF ScanBegin
  <2>2. /\ t.rules = rules /\ t.cur = <<>> /\ t.at \in {"migrate", "load"}
        /\ t.prev = Usable(json, rules) \/ t.prev = <<>>
    BY DEF NoScan
  <2> HIDE DEF t
  <2>3. Apart(t.rules, t.prev) /\ Apart(t.rules, t.cur)
    BY <1>4, <2>2, NoEntriesApart, UsableApart
  <2>. QED BY <1>1, <1>4, <2>1, <2>2, <2>3, SettingsMove
<1>6. CASE ScanForgotten(p) /\ UNCHANGED <<json, db, torn>>
  <2>1. NoScan.at = "idle" /\ NoScan.prev = <<>> /\ NoScan.cur = <<>>
    BY DEF NoScan
  <2>2. scan' = [scan EXCEPT ![p] = NoScan]
    BY <1>6 DEF ScanForgotten
  <2>. QED BY <1>1, <1>4, <1>6, <2>1, <2>2, NoEntriesApart, SettingsMove
<1>7. ASSUME NEW index, Apart(index.rules, index.entries), db' \in Saved(index, fails),
             torn' = (torn \/ Tears), json' = json,
             NEW t, scan' = [scan EXCEPT ![p] = t], t.rules = s.rules, t.cur = s.cur,
             t.prev = s.prev \/ t.prev = <<>>, t.at \in {"load", "scanned"}
      PROVE  SettingsInv'
  <2>1. ~Tears
    BY <1>7
  <2>2. IndexApart(db') /\ (db' = db \/ Apart(db'.rules, db'.entries))
    BY <1>4, <1>7, SavedApart
  <2>. QED BY <1>1, <1>4, <1>7, <2>1, <2>2, SettingsMove
<1>8. CASE ScanMigrate(p, fails)
  <2> DEFINE t == [s EXCEPT !.at = "load", !.prev = <<>>]
             index == [rules |-> s.rules, entries |-> s.prev]
  <2>1. scan' = [scan EXCEPT ![p] = t]
    BY <1>1, <1>8 DEF ScanMigrate
  <2>2. t.rules = s.rules /\ t.cur = s.cur /\ t.prev = <<>> /\ t.at = "load"
    BY <1>1 DEF Scan
  <2>3. Apart(index.rules, index.entries)
    BY <1>4
  <2> HIDE DEF t
  <2>. QED BY <1>7, <1>8, <2>1, <2>2, <2>3 DEF ScanMigrate
<1>9. CASE ScanSaveDb(p, fails)
  <2> DEFINE t == [s EXCEPT !.at = "scanned"]
  <2>1. scan' = [scan EXCEPT ![p] = t]
    BY <1>1, <1>9 DEF ScanSaveDb
  <2>2. t.rules = s.rules /\ t.cur = s.cur /\ t.prev = s.prev /\ t.at = "scanned"
    BY <1>1 DEF Scan
  <2>3. Apart(Index(s).rules, Index(s).entries)
    BY <1>4 DEF Index
  <2> HIDE DEF t
  <2>. QED BY <1>7, <1>9, <2>1, <2>2, <2>3 DEF ScanSaveDb
<1>10. ASSUME NEW entries, Apart(s.rules, entries), Walks(p, entries), json' = json, db' = db
       PROVE  SettingsInv'
  <2> DEFINE t == [s EXCEPT !.at = "walk", !.prev = entries, !.todo = Listed]
  <2>1. scan' = [scan EXCEPT ![p] = t]
    BY <1>1, <1>10 DEF Walks
  <2>2. t.rules = s.rules /\ t.cur = s.cur /\ t.prev = entries /\ t.at = "walk"
    BY <1>1 DEF Scan
  <2> HIDE DEF t
  <2>. QED BY <1>1, <1>4, <1>10, <2>1, <2>2, SettingsMove
<1>11. ASSUME NEW at, scan' = [scan EXCEPT ![p].at = at], json' = json, db' = db,
              at = "rows" => db.rules = s.rules /\ Apart(db.rules, db.entries)
       PROVE  SettingsInv'
  <2> DEFINE t == [s EXCEPT !.at = at]
  <2>1. scan' = [scan EXCEPT ![p] = t]
    BY <1>1, <1>11
  <2>2. t.rules = s.rules /\ t.cur = s.cur /\ t.prev = s.prev /\ t.at = at
    BY <1>1 DEF Scan
  <2> HIDE DEF t
  <2>. QED BY <1>1, <1>4, <1>11, <2>1, <2>2, SettingsMove
<1>12. CASE ScanLoad(p, fails)
  <2>1. CASE scan' = [scan EXCEPT ![p].at = "json"]
    BY <1>11, <1>12, <2>1 DEF ScanLoad
  <2>2. CASE db # Nothing /\ db.rules = s.rules /\ scan' = [scan EXCEPT ![p].at = "rows"]
    BY <1>4, <1>11, <1>12, <2>2 DEF ScanLoad, IndexApart
  <2>3. CASE Walks(p, <<>>)
    BY <1>4, <1>10, <1>12, <2>3 DEF ScanLoad
  <2>. QED BY <1>12, <2>1, <2>2, <2>3 DEF ScanLoad
<1>13. CASE ScanRows(p, fails)
  BY <1>4, <1>10, <1>11, <1>13 DEF ScanRows
<1>14. CASE ScanJson(p)
  BY <1>4, <1>10, <1>14, UsableApart DEF ScanJson
<1>15. ASSUME NEW t, scan' = [scan EXCEPT ![p] = t], t.rules = s.rules, t.at # "rows",
              t.prev = s.prev \/ t.prev = <<>>, Apart(s.rules, t.cur), db' = db, IndexApart(json')
       PROVE  SettingsInv'
  BY <1>1, <1>4, <1>15, SettingsMove
<1>16. ASSUME NEW e, (e.record = "excluded") <=> (f \notin s.rules)
       PROVE  Apart(s.rules, Put(s.cur, f, e))
  <2>1. Put(s.cur, f, e) = [g \in DOMAIN s.cur \cup {f} |-> IF g = f THEN e ELSE s.cur[g]]
    BY DEF Put
  <2> HIDE DEF f
  <2>. QED BY <1>4, <1>16, <2>1 DEF Apart
<1>17. CASE ScanStat(p, limit)
  <2> DEFINE stat == Stat(disk[f])
             old == [stat |-> stat, record |-> s.prev[f].record]
             out == [stat |-> stat, record |-> "excluded"]
             capped == [Passed(s) EXCEPT !.todo = <<>>, !.capped = TRUE]
             again == [Passed(s) EXCEPT !.cur = Put(s.cur, f, old)]
             left == [Passed(s) EXCEPT !.cur = Put(s.cur, f, out)]
             read == [s EXCEPT !.at = "read", !.stat = stat, !.count = @ + 1]
  <2>1. /\ s.at = "walk" /\ json' = json /\ db' = db
        /\ \/ scan' = [scan EXCEPT ![p] = capped]
           \/ f \in DOMAIN s.prev /\ scan' = [scan EXCEPT ![p] = again]
           \/ f \notin s.rules /\ scan' = [scan EXCEPT ![p] = left]
           \/ scan' = [scan EXCEPT ![p] = read]
    BY <1>1, <1>17 DEF ScanStat, Scan, Passed
  <2>2. /\ capped.rules = s.rules /\ capped.at = s.at /\ capped.prev = s.prev /\ capped.cur = s.cur
        /\ read.rules = s.rules /\ read.at = "read" /\ read.prev = s.prev /\ read.cur = s.cur
    BY <1>1 DEF Scan, Passed
  <2>3. /\ again.rules = s.rules /\ again.at = s.at /\ again.prev = s.prev
        /\ again.cur = Put(s.cur, f, old)
        /\ left.rules = s.rules /\ left.at = s.at /\ left.prev = s.prev
        /\ left.cur = Put(s.cur, f, out)
    BY <1>1 DEF Scan, Passed
  <2>4. f \in DOMAIN s.prev => Apart(s.rules, Put(s.cur, f, old))
    <3>1. f \in DOMAIN s.prev => ((old.record = "excluded") <=> (f \notin s.rules))
      BY <1>4 DEF Apart
    <3> HIDE DEF old
    <3>. QED BY <1>16, <3>1
  <2>5. f \notin s.rules => Apart(s.rules, Put(s.cur, f, out))
    <3>1. out.record = "excluded"
      OBVIOUS
    <3> HIDE DEF out
    <3>. QED BY <1>16, <3>1
  <2> HIDE DEF capped, again, left, read, old, out
  <2>. QED BY <1>4, <1>15, <2>1, <2>2, <2>3, <2>4, <2>5
<1>18. CASE ScanRead(p)
  <2> DEFINE new == Put(s.cur, f, Recorded(s, f))
             t == [s EXCEPT !.at = "walk", !.todo = Tail(@), !.stat = Nothing, !.cur = new]
  <2>1. scan' = [scan EXCEPT ![p] = t] /\ json' = json /\ db' = db /\ s.at = "read"
    BY <1>1, <1>18 DEF ScanRead
  <2>2. t.rules = s.rules /\ t.at = "walk" /\ t.prev = s.prev /\ t.cur = new
    BY <1>1 DEF Scan
  <2>3. f \in s.rules /\ s.rules \subseteq Files /\ Pending(now, disk, shown, f, s.stat) /\ TreeOK
    BY <1>1, <2>1 DEF ScanInv, ProcOK, Scan
  <2>4. Recorded(s, f).record # "excluded"
    BY <2>3, RecordedOK
  <2>5. Apart(s.rules, new)
    BY <1>16, <2>3, <2>4
  <2> HIDE DEF t, new
  <2>. QED BY <1>4, <1>15, <2>1, <2>2, <2>5
<1>19. CASE ScanSkip(p, limit)
  <2>1. PICK n : scan' = [scan EXCEPT ![p].todo = Tail(@), ![p].count = @ + n]
    BY <1>19 DEF ScanSkip
  <2> DEFINE t == [s EXCEPT !.todo = Tail(@), !.count = @ + n]
  <2>2. scan' = [scan EXCEPT ![p] = t] /\ json' = json /\ db' = db /\ s.at = "walk"
    BY <1>1, <1>19, <2>1 DEF ScanSkip
  <2>3. t.rules = s.rules /\ t.at = s.at /\ t.prev = s.prev /\ t.cur = s.cur
    BY <1>1 DEF Scan
  <2> HIDE DEF t
  <2>. QED BY <1>4, <1>15, <2>2, <2>3
<1>20. CASE ScanSaveJson(p)
  <2> DEFINE t == [s EXCEPT !.at = "save", !.prev = <<>>]
  <2>1. scan' = [scan EXCEPT ![p] = t] /\ json' = Index(s) /\ db' = db
    BY <1>1, <1>20 DEF ScanSaveJson
  <2>2. t.rules = s.rules /\ t.at = "save" /\ t.prev = <<>> /\ t.cur = s.cur
    BY <1>1 DEF Scan
  <2>3. IndexApart(json')
    BY <1>4, <2>1 DEF IndexApart, Index
  <2> HIDE DEF t
  <2>. QED BY <1>4, <1>15, <2>1, <2>2, <2>3
<1>. QED BY <1>5, <1>6, <1>8, <1>9, <1>12, <1>13, <1>14, <1>17, <1>18, <1>19, <1>20 DEF ScanStep

LEMMA SettingsStart == Init => SettingsInv
<1> SUFFICES ASSUME Init PROVE SettingsInv
  OBVIOUS
<1>1. json = Nothing /\ db = Nothing /\ scan = [p \in Procs |-> NoScan]
  BY DEF Init, ScanInit
<1>2. NoScan.at = "idle" /\ NoScan.prev = <<>> /\ NoScan.cur = <<>>
  BY DEF NoScan
<1>. QED BY <1>1, <1>2, NoEntriesApart DEF SettingsInv, IndexApart

LEMMA SettingsKept == PacksInv /\ SettingsInv /\ [Next]_vars => SettingsInv'
<1> SUFFICES ASSUME PacksInv, SettingsInv, [Next]_vars PROVE SettingsInv'
  OBVIOUS
<1>1. ScanInv
  BY DEF PacksInv
<1>2. CASE UNCHANGED <<json, db, scan, torn>>
  BY <1>2 DEF SettingsInv, IndexApart
<1>3. ASSUME NEW p \in Procs, PackBegins(p)
      PROVE  SettingsInv'
  <2>1. CASE ScanBegin(p, config.rules[p])
    BY <1>1, <2>1, ScanSettings
  <2>. QED BY <1>2, <1>3, <2>1 DEF PackBegins, scanVars
<1>4. ASSUME NEW p \in Procs, Scans(p)
      PROVE  SettingsInv'
  BY <1>1, <1>4, ScanSettings DEF Scans
<1>5. ASSUME NEW p \in Procs, ScanEnds(p) \/ Crash(p)
      PROVE  SettingsInv'
  <2>1. ScanForgotten(p) /\ UNCHANGED <<json, db, torn>>
    BY <1>5 DEF ScanEnds, Crash
  <2>. QED BY <1>1, <2>1, ScanSettings
<1>6. ASSUME NEW p \in Procs,
             \/ UsesHistory(p) \/ Reports(p) \/ Mirrors(p) \/ Mirrored(p)
             \/ PackEnds(p) \/ Attaches(p)
      PROVE  UNCHANGED scanVars
  BY <1>6 DEF UsesHistory, Reports, Mirrors, Mirrored, PackEnds, Attaches
<1>7. CASE TimePasses \/ TreeChanges \/ CommandRuns \/ UNCHANGED vars
  BY <1>2, <1>7 DEF TimePasses, TreeChanges, CommandRuns, vars, scanVars
<1>. QED BY <1>2, <1>3, <1>4, <1>5, <1>6, <1>7 DEF Next, scanVars

----------------------------------------------------------------------------
(* Whose report is at a name                                               *)

(* Once the name was opened the report there is the run's own, while it is *)
(* there and unless the name was picked twice.  The predicates take what   *)
(* was opened and reused, and the files, as parameters.                    *)
Told(o, r, files, run, name) ==
    name \in o /\ (name \in DOMAIN files \ r => files[name].holds = {run})

Home(o, r, files, m) ==
    /\ m.at \in {"glob", "prune", "done"} /\ m.name # Nothing =>
         Told(o, r, files, m.run, m.name)
    /\ m.at = "write" => m.name \in o
    /\ m.at = "write" /\ m.name \notin r =>
         /\ m.linked => files[m.name].holds = {}
         /\ ~m.linked => m.name \notin DOMAIN files
    /\ m.at = "open" /\ m.name \notin r => m.name \notin o

(* A name not reused has one pack at a time.                               *)
MirrorsApart ==
    \A p, q \in Procs :
      /\ mirror[p].at \in {"open", "write"} /\ mirror[q].at = mirror[p].at
      /\ mirror[q].name = mirror[p].name
      /\ p # q
      => mirror[p].name \in reused

FeedHome ==
    /\ \A p \in Procs : Home(DOMAIN made, reused, feed, mirror[p])
    /\ MirrorsApart

(* What was told stays so.                                                 *)
StaysTold ==
    \A run, name : Told(DOMAIN made, reused, feed, run, name) =>
                     Told(DOMAIN made', reused', feed', run, name)

(* Steps after which p writes nothing, and that leave the files.           *)
LEMMA HomeQuiet ==
    ASSUME FeedInv, FeedHome, NEW p \in Procs, NEW m, mirror' = [mirror EXCEPT ![p] = m],
           UNCHANGED <<feed, made, reused>>, m.at \notin {"open", "write"},
           Home(DOMAIN made, reused, feed, m)
    PROVE  FeedHome' /\ StaysTold
<1>1. \A q \in Procs : mirror'[q] = IF q = p THEN m ELSE mirror[q]
  BY DEF FeedInv
<1>2. \A q \in Procs : Home(DOMAIN made', reused', feed', mirror'[q])
  BY <1>1 DEF FeedHome
<1>3. MirrorsApart'
  BY <1>1 DEF FeedHome, MirrorsApart
<1>. QED BY <1>2, <1>3 DEF FeedHome, StaysTold

LEMMA FeedPickHome ==
    ASSUME FeedInv, FeedHome, NEW p \in Procs, NEW run \in Int, NEW second \in Int,
           FeedPick(p, run, second)
    PROVE  FeedHome' /\ StaysTold
<1> DEFINE m == [NoMirror EXCEPT !.at = "open", !.run = run, !.name = FreeName(second)]
           picked == {mirror[q].name : q \in {r \in Procs : mirror[r].at = "open"}}
<1>1. /\ mirror' = [mirror EXCEPT ![p] = m] /\ feed' = feed /\ made' = made
      /\ reused' = reused \cup ({FreeName(second)} \cap ((DOMAIN made \ Names) \cup picked))
      /\ mirror[p].at = "idle"
  BY DEF FeedPick
<1>2. m.at = "open" /\ m.name = FreeName(second)
  BY DEF NoMirror
<1> HIDE DEF m
<1>3. \A q \in Procs : mirror'[q] = IF q = p THEN m ELSE mirror[q]
  BY <1>1 DEF FeedInv
<1>4. StaysTold
  BY <1>1 DEF StaysTold, Told
<1>5. reused \subseteq reused'
  BY <1>1
<1>6. Home(DOMAIN made', reused', feed', m)
  <2>1. FreeName(second) \notin Names
    BY FreeNameFree
  <2>. QED BY <1>1, <1>2, <2>1 DEF Home
<1>7. ASSUME NEW q \in Procs, q # p
      PROVE  Home(DOMAIN made', reused', feed', mirror'[q])
  <2>1. Home(DOMAIN made, reused, feed, mirror[q]) /\ mirror'[q] = mirror[q]
    BY <1>3, <1>7 DEF FeedHome
  <2>. QED BY <1>1, <1>5, <2>1 DEF Home, Told
<1>8. ASSUME NEW q \in Procs, q # p, mirror[q].at = "open", mirror[q].name = m.name
      PROVE  m.name \in reused'
  <2>1. m.name \in picked
    BY <1>8
  <2>. QED BY <1>1, <1>2, <2>1
<1> HIDE DEF picked
<1>9. MirrorsApart'
  BY <1>2, <1>3, <1>5, <1>8 DEF FeedHome, MirrorsApart
<1>. QED BY <1>3, <1>4, <1>6, <1>7, <1>9 DEF FeedHome

LEMMA FeedOpenHome ==
    ASSUME FeedInv, FeedHome, NEW p \in Procs, NEW time \in Nat, FeedOpen(p, time)
    PROVE  FeedHome' /\ StaysTold
<1> DEFINE m == [mirror[p] EXCEPT !.at = "write", !.linked = TRUE]
           file == [holds |-> {}, mtime |-> time]
           new == mirror[p].name
<1>1. mirror[p] \in Mirror /\ mirror[p].at = "open"
  BY DEF FeedInv, FeedOpen
<1>2. m.at = "write" /\ m.linked /\ m.name = new
  BY <1>1 DEF Mirror
<1>3. /\ mirror' = [mirror EXCEPT ![p] = m] /\ feed' = Put(feed, new, file)
      /\ DOMAIN made' = DOMAIN made \cup {new} /\ reused' = reused
  BY DEF FeedOpen, FeedInv, Put
<1>4. file.holds = {}
  OBVIOUS
<1> HIDE DEF m, file
<1>5. /\ DOMAIN feed' = DOMAIN feed \cup {new} /\ feed'[new].holds = {}
      /\ \A name \in DOMAIN feed : name # new => feed'[name] = feed[name]
  BY <1>3, <1>4 DEF Put
<1>6. new \notin reused => new \notin DOMAIN made
  BY <1>1 DEF FeedHome, Home
<1>7. StaysTold
  BY <1>3, <1>5, <1>6 DEF StaysTold, Told
<1>8. \A q \in Procs : mirror'[q] = IF q = p THEN m ELSE mirror[q]
  BY <1>3 DEF FeedInv
<1>9. Home(DOMAIN made', reused', feed', m)
  BY <1>2, <1>3, <1>5 DEF Home
<1>10. ASSUME NEW q \in Procs, q # p
       PROVE  Home(DOMAIN made', reused', feed', mirror'[q])
  <2>1. Home(DOMAIN made, reused, feed, mirror[q]) /\ mirror'[q] = mirror[q]
    BY <1>8, <1>10 DEF FeedHome
  <2>2. mirror[q].at = "open" /\ mirror[q].name = new => new \in reused
    BY <1>1, <1>10 DEF FeedHome, MirrorsApart
  <2>3. MirrorOK(Names, mirror[q])
    BY DEF FeedInv
  <2>4. mirror[q].at = "open" /\ mirror[q].name \notin reused' => mirror[q].name \notin DOMAIN made'
    BY <1>3, <2>1, <2>2 DEF Home
  <2>5. mirror[q].at = "write" => mirror[q].name \in DOMAIN made'
    BY <1>3, <2>1 DEF Home
  <2>6. mirror[q].at = "write" /\ mirror[q].name \notin reused' => 
          /\ mirror[q].linked => feed'[mirror[q].name].holds = {}
          /\ ~mirror[q].linked => mirror[q].name \notin DOMAIN feed'
    BY <1>3, <1>5, <1>6, <2>1, <2>3 DEF Home, MirrorOK, Names
  <2>7. mirror[q].at \in {"glob", "prune", "done"} /\ mirror[q].name # Nothing =>
          Told(DOMAIN made', reused', feed', mirror[q].run, mirror[q].name)
    BY <1>7, <2>1 DEF Home, StaysTold
  <2>. QED BY <2>1, <2>4, <2>5, <2>6, <2>7 DEF Home
<1>11. \A q \in Procs : q # p /\ mirror[q].at = "write" /\ mirror[q].name = new => new \in reused
  BY <1>6 DEF FeedHome, Home
<1>12. MirrorsApart'
  BY <1>2, <1>3, <1>8, <1>11 DEF FeedHome, MirrorsApart
<1>. QED BY <1>7, <1>8, <1>9, <1>10, <1>12 DEF FeedHome

LEMMA FeedWriteHome ==
    ASSUME FeedInv, FeedHome, NEW p \in Procs, NEW time \in Nat, FeedWrite(p, time)
    PROVE  FeedHome' /\ StaysTold
<1> DEFINE m == [mirror[p] EXCEPT !.at = "glob", !.linked = FALSE]
           name == mirror[p].name
           run == mirror[p].run
<1>1. /\ mirror[p] \in Mirror /\ mirror[p].at = "write" /\ MirrorOK(Names, mirror[p])
      /\ Home(DOMAIN made, reused, feed, mirror[p])
  BY DEF FeedInv, FeedHome, FeedWrite
<1>2. m.at = "glob" /\ m.name = name /\ m.run = run
  BY <1>1 DEF Mirror
<1>3. /\ mirror' = [mirror EXCEPT ![p] = m] /\ reused' = reused
      /\ DOMAIN made' = DOMAIN made
  BY DEF FeedWrite, FeedInv
<1>4. \A q \in Procs : mirror'[q] = IF q = p THEN m ELSE mirror[q]
  BY <1>3 DEF FeedInv
<1> HIDE DEF m
<1>5. /\ DOMAIN feed' = DOMAIN feed
      /\ \A other \in DOMAIN feed : other # name => feed'[other] = feed[other]
      /\ name \in DOMAIN feed /\ name \notin reused =>
           feed'[name].holds = {run} /\ feed[name].holds = {}
  <2>1. CASE mirror[p].linked
    <3>1. PICK rest \in {{}, feed[name].holds} :
            feed' = [feed EXCEPT ![name] = [holds |-> {run} \cup rest, mtime |-> time]]
      BY <2>1 DEF FeedWrite
    <3>2. name \notin reused => feed[name].holds = {} /\ rest = {}
      BY <1>1, <2>1 DEF Home
    <3>3. DOMAIN feed' = DOMAIN feed
          /\ \A other \in DOMAIN feed : other # name => feed'[other] = feed[other]
      BY <3>1
    <3>4. name \in DOMAIN feed => feed'[name].holds = {run} \cup rest
      BY <3>1
    <3>. QED BY <3>2, <3>3, <3>4
  <2>2. CASE ~mirror[p].linked
    <3>1. feed' = feed
      BY <2>2 DEF FeedWrite
    <3>. QED BY <1>1, <2>2, <3>1 DEF Home
  <2>. QED BY <2>1, <2>2
<1>6. StaysTold
  <2>1. SUFFICES ASSUME NEW r, NEW n, Told(DOMAIN made, reused, feed, r, n)
                 PROVE  Told(DOMAIN made', reused', feed', r, n)
    BY DEF StaysTold
  <2>2. ~(n = name /\ name \in DOMAIN feed /\ name \notin reused)
    BY <1>5, <2>1 DEF Told
  <2>. QED BY <1>3, <1>5, <2>1, <2>2 DEF Told
<1>7. Home(DOMAIN made', reused', feed', m)
  <2>1. Told(DOMAIN made', reused', feed', run, name)
    BY <1>1, <1>3, <1>5 DEF Home, Told
  <2>. QED BY <1>2, <2>1 DEF Home
<1>8. ASSUME NEW q \in Procs, q # p
      PROVE  Home(DOMAIN made', reused', feed', mirror'[q])
  <2>1. Home(DOMAIN made, reused, feed, mirror[q]) /\ mirror'[q] = mirror[q]
    BY <1>4, <1>8 DEF FeedHome
  <2>2. mirror[q].at = "write" /\ mirror[q].name = name => name \in reused
    BY <1>1, <1>8 DEF FeedHome, MirrorsApart
  <2>3. MirrorOK(Names, mirror[q])
    BY DEF FeedInv
  <2>4. mirror[q].at = "write" /\ mirror[q].name \notin reused' => 
          /\ mirror[q].linked => feed'[mirror[q].name].holds = {}
          /\ ~mirror[q].linked => mirror[q].name \notin DOMAIN feed'
    BY <1>3, <1>5, <2>1, <2>2, <2>3 DEF Home, MirrorOK, Names
  <2>5. mirror[q].at \in {"glob", "prune", "done"} /\ mirror[q].name # Nothing =>
          Told(DOMAIN made', reused', feed', mirror[q].run, mirror[q].name)
    BY <1>6, <2>1 DEF Home, StaysTold
  <2>. QED BY <1>3, <2>1, <2>4, <2>5 DEF Home
<1>9. MirrorsApart'
  BY <1>2, <1>3, <1>4 DEF FeedHome, MirrorsApart
<1>. QED BY <1>4, <1>6, <1>7, <1>8, <1>9 DEF FeedHome

LEMMA FeedPruneHome ==
    ASSUME FeedInv, FeedHome, NEW p \in Procs, NEW fails, FeedPrune(p, fails)
    PROVE  FeedHome' /\ StaysTold
<1>1. PICK off, gone : Prunes(p, off, gone)
  BY FeedPruneDoes
<1>2. \A q \in Procs : mirror[q] \in Mirror /\ MirrorOK(Names, mirror[q])
                        /\ Home(DOMAIN made, reused, feed, mirror[q])
  BY DEF FeedInv, FeedHome
<1>3. /\ DOMAIN feed' = DOMAIN feed \ gone
      /\ \A name \in DOMAIN feed' : feed'[name] = feed[name]
      /\ UNCHANGED <<made, reused>> /\ mirror[p].at = "prune"
  BY <1>1 DEF Prunes, Names
<1>4. /\ mirror'[p].at \in {"prune", "done"}
      /\ mirror'[p].name = mirror[p].name /\ mirror'[p].run = mirror[p].run
  BY <1>1 DEF Prunes, Pruning
<1>5. ASSUME NEW q \in Procs, q # p
      PROVE  /\ mirror'[q].at = mirror[q].at /\ mirror'[q].name = mirror[q].name
             /\ mirror'[q].run = mirror[q].run
             /\ mirror'[q].linked <=> mirror[q].linked /\ mirror[q].name \notin gone
  BY <1>1, <1>5 DEF Prunes
<1>6. StaysTold
  BY <1>3 DEF StaysTold, Told
<1>7. Home(DOMAIN made', reused', feed', mirror'[p])
  <2>1. mirror[p].name # Nothing =>
          Told(DOMAIN made', reused', feed', mirror[p].run, mirror[p].name)
    BY <1>2, <1>3, <1>6 DEF Home, StaysTold
  <2>. QED BY <1>4, <2>1 DEF Home
<1>8. ASSUME NEW q \in Procs, q # p
      PROVE  Home(DOMAIN made', reused', feed', mirror'[q])
  <2> DEFINE name == mirror[q].name
  <2>1. /\ mirror'[q].at = mirror[q].at /\ mirror'[q].name = name
        /\ mirror'[q].run = mirror[q].run
        /\ mirror'[q].linked <=> mirror[q].linked /\ name \notin gone
    BY <1>5, <1>8
  <2>2. Home(DOMAIN made, reused, feed, mirror[q]) /\ MirrorOK(Names, mirror[q])
    BY <1>2
  <2>3. mirror[q].at = "write" /\ name \notin reused =>
          /\ mirror'[q].linked => feed'[name].holds = {}
          /\ ~mirror'[q].linked => name \notin DOMAIN feed'
    BY <1>3, <2>1, <2>2 DEF Home, MirrorOK, Names
  <2>4. mirror[q].at \in {"glob", "prune", "done"} /\ name # Nothing =>
          Told(DOMAIN made', reused', feed', mirror[q].run, name)
    BY <1>6, <2>2 DEF Home, StaysTold
  <2>. QED BY <1>3, <2>1, <2>2, <2>3, <2>4 DEF Home
<1>9. MirrorsApart'
  BY <1>3, <1>4, <1>5 DEF FeedHome, MirrorsApart
<1>. QED BY <1>6, <1>7, <1>8, <1>9 DEF FeedHome

(* The other steps leave the files, and p writes nothing after them.       *)
LEMMA FeedRestHome ==
    ASSUME FeedInv, FeedHome, NEW p \in Procs,
           \/ FeedGlob(p) \/ FeedGlobRaises(p) \/ FeedFails(p) \/ FeedForgotten(p)
    PROVE  FeedHome' /\ StaysTold
<1>1. mirror[p] \in Mirror /\ Home(DOMAIN made, reused, feed, mirror[p])
  BY DEF FeedInv, FeedHome
<1>2. UNCHANGED <<feed, made, reused>>
  BY DEF FeedGlob, FeedGlobRaises, FeedFails, FeedForgotten
<1>3. CASE FeedGlob(p)
  <2> DEFINE m == [mirror[p] EXCEPT !.at = Pruning(Stale), !.stale = Stale]
  <2>1. mirror' = [mirror EXCEPT ![p] = m] /\ mirror[p].at = "glob"
    BY <1>3 DEF FeedGlob, FeedInv
  <2>2. m.at \in {"prune", "done"} /\ m.name = mirror[p].name /\ m.run = mirror[p].run
    BY <1>1 DEF Mirror, Pruning
  <2> HIDE DEF m
  <2>3. Home(DOMAIN made, reused, feed, m)
    BY <1>1, <2>1, <2>2 DEF Home
  <2>. QED BY <1>2, <2>1, <2>2, <2>3, HomeQuiet
<1>4. CASE FeedGlobRaises(p)
  <2> DEFINE m == [mirror[p] EXCEPT !.at = "done"]
  <2>1. mirror' = [mirror EXCEPT ![p] = m] /\ mirror[p].at = "glob"
    BY <1>4 DEF FeedGlobRaises, FeedInv
  <2>2. m.at = "done" /\ m.name = mirror[p].name /\ m.run = mirror[p].run
    BY <1>1 DEF Mirror
  <2> HIDE DEF m
  <2>3. Home(DOMAIN made, reused, feed, m)
    BY <1>1, <2>1, <2>2 DEF Home
  <2>. QED BY <1>2, <2>1, <2>2, <2>3, HomeQuiet
<1>5. CASE FeedFails(p)
  <2> DEFINE m == [NoMirror EXCEPT !.at = "done", !.run = mirror[p].run]
  <2>1. mirror' = [mirror EXCEPT ![p] = m] 
    BY <1>5 DEF FeedFails
  <2>2. m.at = "done" /\ m.name = Nothing
    BY DEF NoMirror
  <2> HIDE DEF m
  <2>. QED BY <1>2, <2>1, <2>2, HomeQuiet DEF Home
<1>6. CASE FeedForgotten(p)
  <2>1. mirror' = [mirror EXCEPT ![p] = NoMirror] 
    BY <1>6 DEF FeedForgotten
  <2>2. NoMirror.at = "idle"
    BY DEF NoMirror
  <2> HIDE DEF NoMirror
  <2>. QED BY <1>2, <2>1, <2>2, HomeQuiet DEF Home
<1>. QED BY <1>3, <1>4, <1>5, <1>6

(* A row that points to a report.                                          *)
Points(row) == row.artifact \in Int \X Nat

(* After the step, rows that point to a report are rows there were, or     *)
(* point to this artifact for this run.                                    *)
PointsAsBefore(run, artifact) ==
    \A i \in DOMAIN Rows(history') : Points(Rows(history')[i]) =>
      \/ \E j \in DOMAIN Rows(history) : Rows(history)[j] = Rows(history')[i]
      \/ Rows(history')[i].run = run /\ Rows(history')[i].artifact = artifact

LEMMA PointsOfAppend ==
    ASSUME HistoryInv, NEW p \in Procs, NEW run \in Int,
           NEW artifact \in {Nothing} \cup (Int \X Nat), AppendRow(p, run, artifact)
    PROVE  PointsAsBefore(run, artifact)
<1> DEFINE row == [run |-> run, artifact |-> artifact]
           rows == Rows(history)
           longer == Append(rows, row)
<1>1. history' \in Newest(longer)
  BY DEF AppendRow, Connected, Rows
<1>2. row \in Row /\ row.run = run /\ row.artifact = artifact
  BY DEF Row
<1> HIDE DEF row
<1>3. rows \in Seq(Row)
  BY NoRows DEF HistoryInv, HistoryTyped
<1> HIDE DEF rows
<1>4. longer \in Seq(Row)
  BY <1>2, <1>3
<1>5. \A i \in DOMAIN longer : longer[i] = row \/ (i \in DOMAIN rows /\ longer[i] = rows[i])
  BY <1>2, <1>3
<1> HIDE DEF longer
<1>6. history' \in Seq(Row) /\ \E at : TakenFrom(at, history', longer)
  BY <1>1, <1>4, NewestHeld
<1>7. Rows(history') = history'
  BY <1>6, NoRows
<1>8. \A i \in DOMAIN history' : \E j \in DOMAIN longer : history'[i] = longer[j]
  BY <1>6 DEF TakenFrom
<1>9. \A i \in DOMAIN history' :
        history'[i] = row \/ \E j \in DOMAIN rows : rows[j] = history'[i]
  BY <1>5, <1>8
<1>. QED BY <1>2, <1>7, <1>9 DEF PointsAsBefore, rows

LEMMA PointsOfUpdate ==
    ASSUME HistoryInv, NEW run, NEW artifact, UpdateRow(run, RunJson)
    PROVE  PointsAsBefore(run, artifact)
<1>1. CASE history' = history
  BY <1>1 DEF PointsAsBefore
<1>2. ASSUME history # Nothing, NEW id, history' = [history EXCEPT ![id].artifact = RunJson]
      PROVE  PointsAsBefore(run, artifact)
  <2>1. history \in Seq(Row)
    BY <1>2 DEF HistoryInv, HistoryTyped
  <2>2. DOMAIN history' = DOMAIN history
    BY <1>2
  <2>3. history' \in Seq(Row) /\ history' # Nothing
    <3>1. \A i \in DOMAIN history : history'[i] \in Row
      <4>1. SUFFICES ASSUME NEW i \in DOMAIN history PROVE history'[i] \in Row
        OBVIOUS
      <4>2. history[i] \in Row
        BY <2>1
      <4>3. [history[i] EXCEPT !.artifact = RunJson] \in Row
        BY <4>2 DEF Row
      <4>4. history'[i] = history[i] \/ history'[i] = [history[i] EXCEPT !.artifact = RunJson]
        BY <1>2, <2>2
      <4>. QED BY <4>2, <4>3, <4>4
    <3>2. DOMAIN history = 1..Len(history) /\ Len(history) \in Nat
      BY <2>1
    <3>3. history' = [i \in 1..Len(history) |-> history'[i]]
      BY <1>2, <3>2
    <3>4. history' \in Seq(Row)
      BY <3>1, <3>2, <3>3
    <3>. QED BY <3>4, NoRows
  <2>4. Rows(history) = history /\ Rows(history') = history'
    BY <2>1, <2>3, NoRows
  <2>5. ASSUME NEW i \in DOMAIN history
        PROVE  history'[i] = history[i] \/ ~Points(history'[i])
    <3>1. history[i] \in Row
      BY <2>1
    <3>2. history'[i] = history[i] \/ history'[i] = [history[i] EXCEPT !.artifact = RunJson]
      BY <1>2, <2>2
    <3>3. [history[i] EXCEPT !.artifact = RunJson].artifact = RunJson
      BY <3>1 DEF Row
    <3>4. RunJson \notin Int \X Nat
      BY PacksConstants
    <3>. QED BY <3>2, <3>3, <3>4 DEF Points
  <2>. QED BY <2>2, <2>4, <2>5 DEF PointsAsBefore
<1>3. \/ history' = history
      \/ history # Nothing /\ \E id : history' = [history EXCEPT ![id].artifact = RunJson]
  BY DEF UpdateRow
<1>. QED BY <1>1, <1>2, <1>3

LEMMA PointsOfQuiet ==
    ASSUME history' = history \/ history' = Connected \/ history' = Nothing,
           NEW run, NEW artifact
    PROVE  PointsAsBefore(run, artifact)
<1>1. Rows(history') = Rows(history) \/ Rows(history') = <<>>
  BY NoRows DEF Connected, Rows
<1>. QED BY <1>1 DEF PointsAsBefore

LEMMA PointsOfCommit ==
    ASSUME HistoryInv, NEW p \in Procs, MigrateCommit(p), NEW run, NEW artifact
    PROVE  PointsAsBefore(run, artifact)
<1>1. /\ hist[p].at = "commit" 
      /\ history' = IF hist[p].linked THEN history \o Imported(hist[p].items) ELSE history
  BY DEF MigrateCommit
<1>2. CASE ~hist[p].linked
  BY <1>1, <1>2, PointsOfQuiet
<1>3. CASE hist[p].linked
  <2>1. history \in Seq(Row) /\ hist[p].items = Ascending(Legacy)
    BY <1>1, <1>3 DEF HistoryInv, HistoryTyped, MigrationsOK
  <2>2. history' \in Seq(Row) /\ ImportsInto(history', history)
    BY <1>1, <1>3, <2>1, ImportedRows
  <2>3. Rows(history') = history' /\ Rows(history) = history
    BY <2>1, <2>2, NoRows
  <2>4. Nothing \notin Int \X Nat
    BY PacksConstants
  <2>. QED BY <2>2, <2>3, <2>4 DEF ImportsInto, Points, PointsAsBefore
<1>. QED BY <1>2, <1>3

LEMMA PointsOfStep ==
    ASSUME HistoryInv, NEW p \in Procs, NEW run, NEW artifact, NEW fails,
           run \in Int \/ hist[p].goal # "append",
           artifact \in {Nothing} \cup (Int \X Nat),
           HistoryStep(p, run, artifact, fails)
    PROVE  \/ PointsAsBefore(run, artifact) /\ hist[p].goal = "append"
           \/ PointsAsBefore(run, Nothing)
<1>1. CASE \/ MigrateRead(p) \/ MigrateUnread(p) \/ MigrateRename(p, fails)
           \/ BodyFails(p)
  BY <1>1, PointsOfQuiet DEF MigrateRead, MigrateUnread, MigrateRename, BodyFails
<1>2. CASE MigrateSchema(p) \/ LoadRows(p) \/ MigrateFail(p)
  BY <1>2, PointsOfQuiet DEF MigrateSchema, LoadRows, MigrateFail
<1>3. CASE MigrateCommit(p)
  BY <1>3, PointsOfCommit
<1>4. CASE AppendRow(p, run, artifact)
  <2>1. hist[p].goal = "append"
    BY <1>4 DEF AppendRow
  <2>. QED BY <1>4, <2>1, PointsOfAppend
<1>. QED BY <1>1, <1>2, <1>3, <1>4 DEF HistoryStep

----------------------------------------------------------------------------
(* Which reports packs and rows point to                                   *)

(* A pack mirrors its own run, and while it does nothing else.             *)
MirrorsOwn ==
    \A p \in Procs :
      /\ pack[p].at # "mirror" => mirror[p].at = "idle"
      /\ mirror[p].at # "idle" => mirror[p].run = pack[p].run

PacksHome ==
    \A p \in Procs : pack[p].at = "append" /\ pack[p].artifact # Nothing =>
      Told(DOMAIN made, reused, feed, pack[p].run, pack[p].artifact)

RowsHome ==
    \A i \in DOMAIN Rows(history) : Points(Rows(history)[i]) =>
      Told(DOMAIN made, reused, feed, Rows(history)[i].run, Rows(history)[i].artifact)

HomeInv == FeedHome /\ MirrorsOwn /\ PacksHome /\ RowsHome

LEMMA RowsHomeKept ==
    ASSUME RowsHome, StaysTold, NEW run, NEW artifact, PointsAsBefore(run, artifact),
           artifact \in Int \X Nat => Told(DOMAIN made, reused, feed, run, artifact)
    PROVE  RowsHome'
<1>1. SUFFICES ASSUME NEW i \in DOMAIN Rows(history'), Points(Rows(history')[i])
               PROVE  Told(DOMAIN made', reused', feed', Rows(history')[i].run,
                           Rows(history')[i].artifact)
  BY DEF RowsHome
<1>2. CASE Rows(history')[i].run = run /\ Rows(history')[i].artifact = artifact
  BY <1>1, <1>2 DEF Points, StaysTold
<1>3. ASSUME NEW j \in DOMAIN Rows(history), Rows(history)[j] = Rows(history')[i]
      PROVE  Told(DOMAIN made', reused', feed', Rows(history')[i].run,
                  Rows(history')[i].artifact)
  BY <1>1, <1>3 DEF RowsHome, StaysTold
<1>. QED BY <1>1, <1>2, <1>3 DEF PointsAsBefore

(* A step that leaves the feed, and points to no other report.             *)
LEMMA HomeStays ==
    ASSUME HomeInv, UNCHANGED feedVars,
           \A q \in Procs : \/ pack'[q] = pack[q]
                            \/ mirror[q].at = "idle" /\ pack'[q].at # "append",
           NEW run, NEW artifact, PointsAsBefore(run, artifact),
           artifact \in Int \X Nat => Told(DOMAIN made, reused, feed, run, artifact)
    PROVE  HomeInv'
<1>1. UNCHANGED <<feed, mirror, made, reused>>
  BY DEF feedVars
<1>2. FeedHome' /\ StaysTold
  BY <1>1 DEF HomeInv, FeedHome, MirrorsApart, StaysTold
<1>3. MirrorsOwn'
  BY <1>1 DEF HomeInv, MirrorsOwn
<1>4. PacksHome'
  BY <1>1 DEF HomeInv, PacksHome
<1>5. RowsHome'
  BY <1>2, RowsHomeKept DEF HomeInv
<1>. QED BY <1>2, <1>3, <1>4, <1>5 DEF HomeInv

(* The feed steps of p change no other mirror's run or whether it is idle. *)
LEMMA FeedMirrorsOwn ==
    ASSUME FeedInv, NEW p \in Procs, NEW time, NEW fails, FeedStep(p, time, fails)
    PROVE  \A q \in Procs : /\ mirror'[q].run = mirror[q].run
                            /\ mirror[q].at = "idle" => mirror'[q].at = "idle"
<1> SUFFICES ASSUME NEW q \in Procs
             PROVE  /\ mirror'[q].run = mirror[q].run
                    /\ mirror[q].at = "idle" => mirror'[q].at = "idle"
  OBVIOUS
<1>1. mirror[q] \in Mirror /\ mirror[p] \in Mirror /\ DOMAIN mirror = Procs
  BY DEF FeedInv
<1>2. ASSUME NEW m, mirror' = [mirror EXCEPT ![p] = m], m.run = mirror[p].run,
             mirror[p].at # "idle"
      PROVE  /\ mirror'[q].run = mirror[q].run
             /\ mirror[q].at = "idle" => mirror'[q].at = "idle"
  BY <1>1, <1>2
<1>3. CASE FeedOpen(p, time)
  <2> DEFINE m == [mirror[p] EXCEPT !.at = "write", !.linked = TRUE]
  <2>1. m.run = mirror[p].run
    BY <1>1 DEF Mirror
  <2>2. mirror' = [mirror EXCEPT ![p] = m] /\ mirror[p].at # "idle"
    BY <1>1, <1>3 DEF FeedOpen
  <2> HIDE DEF m
  <2>. QED BY <1>2, <2>1, <2>2
<1>4. CASE FeedWrite(p, time)
  <2> DEFINE m == [mirror[p] EXCEPT !.at = "glob", !.linked = FALSE]
  <2>1. m.run = mirror[p].run
    BY <1>1 DEF Mirror
  <2>2. mirror' = [mirror EXCEPT ![p] = m] /\ mirror[p].at # "idle"
    BY <1>1, <1>4 DEF FeedWrite
  <2> HIDE DEF m
  <2>. QED BY <1>2, <2>1, <2>2
<1>5. CASE FeedGlob(p)
  <2> DEFINE m == [mirror[p] EXCEPT !.at = Pruning(Stale), !.stale = Stale]
  <2>1. m.run = mirror[p].run
    BY <1>1 DEF Mirror
  <2>2. mirror' = [mirror EXCEPT ![p] = m] /\ mirror[p].at # "idle"
    BY <1>1, <1>5 DEF FeedGlob
  <2> HIDE DEF m
  <2>. QED BY <1>2, <2>1, <2>2
<1>6. CASE FeedGlobRaises(p)
  <2> DEFINE m == [mirror[p] EXCEPT !.at = "done"]
  <2>1. m.run = mirror[p].run
    BY <1>1 DEF Mirror
  <2>2. mirror' = [mirror EXCEPT ![p] = m] /\ mirror[p].at # "idle"
    BY <1>1, <1>6 DEF FeedGlobRaises
  <2> HIDE DEF m
  <2>. QED BY <1>2, <2>1, <2>2
<1>7. CASE FeedPrune(p, fails)
  <2>1. PICK name, gone : Prunes(p, name, gone)
    BY <1>1, <1>7, FeedPruneDoes
  <2>. QED BY <2>1 DEF Prunes
<1>8. CASE FeedFails(p)
  <2> DEFINE m == [NoMirror EXCEPT !.at = "done", !.run = mirror[p].run]
  <2>1. m.run = mirror[p].run
    BY DEF NoMirror
  <2>2. mirror' = [mirror EXCEPT ![p] = m] /\ mirror[p].at # "idle"
    BY <1>1, <1>8 DEF FeedFails
  <2> HIDE DEF m
  <2>. QED BY <1>2, <2>1, <2>2
<1>. QED BY <1>3, <1>4, <1>5, <1>6, <1>7, <1>8 DEF FeedStep

(* Mirroring is a step of the feed: the clock and the runs are numbers.    *)
LEMMA MirrorsStep ==
    ASSUME PacksInv, NEW p \in Procs, Mirrors(p)
    PROVE  /\ FeedInv /\ now \in Nat /\ pack[p].run \in stamped
           /\ pack[p].run \in Nat /\ Second(pack[p].run) \in Nat
<1>1. pack[p].run \in stamped /\ stamped \subseteq Nat /\ pack[p].at = "mirror"
  BY DEF Mirrors, PacksInv, PackInv, RunsApart, Reported, HistoryInv, RowsOnce
<1>2. PerSecond \in Nat \ {0}
  BY PacksConstants
<1>3. \A run \in stamped : run \in Nat
  BY <1>1
<1>4. pack[p].run \in Nat
  BY <1>1, <1>3
<1>5. pack[p].run \div PerSecond \in Nat
  BY ONLY <1>2, <1>4
<1>. QED BY <1>1, <1>4, <1>5, ClockTyped DEF PacksInv, Second

LEMMA MirrorsHome ==
    ASSUME PacksInv, HomeInv, NEW p \in Procs, Mirrors(p)
    PROVE  HomeInv'
<1>1. /\ FeedInv /\ now \in Nat /\ pack[p].run \in Int /\ Second(pack[p].run) \in Int
  BY MirrorsStep
<1>2. /\ pack[p].at = "mirror" /\ history' = history /\ pack' = pack
      /\ \/ FeedPick(p, pack[p].run, Second(pack[p].run))
         \/ FeedStep(p, now, config.fails)
  BY DEF Mirrors, historyVars, wiring
<1>3. FeedHome' /\ StaysTold
  BY <1>1, <1>2, FeedPickHome, FeedOpenHome, FeedWriteHome, FeedPruneHome, FeedRestHome
     DEF HomeInv, FeedStep
<1>4. MirrorsOwn'
  <2>1. CASE FeedPick(p, pack[p].run, Second(pack[p].run))
    <3> DEFINE m == [NoMirror EXCEPT !.at = "open", !.run = pack[p].run,
                                     !.name = FreeName(Second(pack[p].run))]
    <3>1. m.run = pack[p].run
      BY DEF NoMirror
    <3>2. mirror' = [mirror EXCEPT ![p] = m]
      BY <2>1 DEF FeedPick
    <3> HIDE DEF m
    <3>3. \A q \in Procs : mirror'[q] = IF q = p THEN m ELSE mirror[q]
      BY <1>1, <3>2 DEF FeedInv
    <3>. QED BY <1>2, <3>1, <3>3 DEF HomeInv, MirrorsOwn
  <2>2. CASE FeedStep(p, now, config.fails)
    <3>1. \A q \in Procs : /\ mirror'[q].run = mirror[q].run
                           /\ mirror[q].at = "idle" => mirror'[q].at = "idle"
      BY <1>1, <2>2, FeedMirrorsOwn
    <3>. QED BY <1>2, <3>1 DEF HomeInv, MirrorsOwn
  <2>. QED BY <1>2, <2>1, <2>2
<1>5. PacksHome'
  BY <1>2, <1>3 DEF HomeInv, PacksHome, StaysTold
<1>6. RowsHome'
  <2>1. PointsAsBefore(Nothing, Nothing) /\ Nothing \notin Int \X Nat
    BY <1>2, PointsOfQuiet, PacksConstants
  <2>. QED BY <1>3, <2>1, RowsHomeKept DEF HomeInv
<1>. QED BY <1>3, <1>4, <1>5, <1>6 DEF HomeInv

LEMMA MirroredHome ==
    ASSUME PacksInv, HomeInv, NEW p \in Procs, Mirrored(p)
    PROVE  HomeInv'
<1> DEFINE k == [pack[p] EXCEPT !.at = "append", !.artifact = mirror[p].name]
<1>1. /\ mirror[p].at = "done" /\ pack' = [pack EXCEPT ![p] = k]
      /\ mirror' = [mirror EXCEPT ![p] = NoMirror]
      /\ UNCHANGED <<feed, made, reused>> /\ history' = history
  BY DEF Mirrored, HistoryCheck
<1>2. FeedInv /\ pack \in [Procs -> Pack] /\ pack[p] \in Pack
  BY DEF PacksInv, PackInv, PackTyped
<1>3. k.at = "append" /\ k.run = pack[p].run /\ k.artifact = mirror[p].name
  BY <1>2 DEF Pack
<1> HIDE DEF k
<1>4. NoMirror.at = "idle"
  BY DEF NoMirror
<1> HIDE DEF NoMirror
<1>5. FeedHome' /\ StaysTold
  BY <1>1, <1>2, <1>4, HomeQuiet DEF HomeInv, Home
<1>6. \A q \in Procs : /\ mirror'[q] = IF q = p THEN NoMirror ELSE mirror[q]
                       /\ pack'[q] = IF q = p THEN k ELSE pack[q]
  BY <1>1, <1>2 DEF FeedInv
<1>7. MirrorsOwn'
  BY <1>3, <1>4, <1>6 DEF HomeInv, MirrorsOwn
<1>8. PacksHome'
  <2>1. mirror[p].name # Nothing =>
          Told(DOMAIN made, reused, feed, pack[p].run, mirror[p].name)
    BY <1>1 DEF HomeInv, FeedHome, Home, MirrorsOwn
  <2>. QED BY <1>1, <1>3, <1>6, <2>1 DEF HomeInv, PacksHome
<1>9. RowsHome'
  BY <1>1 DEF HomeInv, RowsHome
<1>. QED BY <1>5, <1>7, <1>8, <1>9 DEF HomeInv

LEMMA CrashHome ==
    ASSUME PacksInv, HomeInv, NEW p \in Procs, Crash(p)
    PROVE  HomeInv'
<1>1. /\ pack' = [pack EXCEPT ![p] = NoPack] /\ FeedForgotten(p) /\ history' = history
      /\ mirror' = [mirror EXCEPT ![p] = NoMirror] /\ UNCHANGED <<feed, made, reused>>
  BY DEF Crash, FeedForgotten, HistoryForgotten
<1>2. FeedInv /\ pack \in [Procs -> Pack]
  BY DEF PacksInv, PackInv, PackTyped
<1>3. NoMirror.at = "idle" /\ NoPack.at = "idle"
  BY DEF NoMirror, NoPack
<1>4. FeedHome' /\ StaysTold
  BY <1>1, <1>2, FeedRestHome DEF HomeInv
<1> HIDE DEF NoMirror, NoPack
<1>5. \A q \in Procs : /\ mirror'[q] = IF q = p THEN NoMirror ELSE mirror[q]
                       /\ pack'[q] = IF q = p THEN NoPack ELSE pack[q]
  BY <1>1, <1>2 DEF FeedInv
<1>6. MirrorsOwn' /\ PacksHome'
  BY <1>1, <1>3, <1>5 DEF HomeInv, MirrorsOwn, PacksHome
<1>7. RowsHome'
  BY <1>1 DEF HomeInv, RowsHome
<1>. QED BY <1>4, <1>6, <1>7 DEF HomeInv

LEMMA UsesHistoryHome ==
    ASSUME PacksInv, HomeInv, NEW p \in Procs, UsesHistory(p)
    PROVE  HomeInv'
<1> DEFINE run == pack[p].run
           artifact == pack[p].artifact
<1>1. /\ pack[p].at \in {"score", "append"} /\ HistoryStep(p, run, artifact, config.fails)
      /\ UNCHANGED feedVars /\ pack' = pack
  BY DEF UsesHistory, wiring
<1>2. HistoryInv /\ pack[p] \in Pack
  BY DEF PacksInv, PackInv, PackTyped
<1>3. hist[p].goal = "append" => pack[p].at = "append" /\ run \in Int
  <2>1. hist[p].goal = "append" => pack[p].at = "append" /\ run \in stamped
    BY <1>1 DEF PacksInv, PackInv, AppendsOnce, RunsApart, Reported
  <2>2. RowsOnce
    BY <1>2 DEF HistoryInv
  <2>3. stamped \subseteq Nat
    BY ONLY <2>2 DEF RowsOnce
  <2>4. \A r \in stamped : r \in Int
    BY ONLY <2>3
  <2>. QED BY <2>1, <2>4
<1>4. artifact \in {Nothing} \cup (Int \X Nat) /\ Nothing \notin Int \X Nat
  BY <1>2, PacksConstants DEF Pack
<1>5. hist[p].goal = "append" /\ artifact \in Int \X Nat =>
        Told(DOMAIN made, reused, feed, run, artifact)
  BY <1>3, <1>4 DEF HomeInv, PacksHome
<1>6. \/ PointsAsBefore(run, artifact) /\ hist[p].goal = "append"
      \/ PointsAsBefore(run, Nothing)
  BY <1>1, <1>2, <1>3, <1>4, PointsOfStep
<1>7. \A q \in Procs : pack'[q] = pack[q]
  BY <1>1
<1> HIDE DEF run, artifact
<1>8. CASE PointsAsBefore(run, artifact) /\ hist[p].goal = "append"
  BY <1>1, <1>5, <1>7, <1>8, HomeStays
<1>9. CASE PointsAsBefore(run, Nothing)
  BY <1>1, <1>4, <1>7, <1>9, HomeStays
<1>. QED BY <1>6, <1>8, <1>9

(* Steps that leave the feed, and all but the ends of rows.                *)
LEMMA OtherStepsHome ==
    ASSUME PacksInv, HomeInv,
           \/ \E p \in Procs : PackBegins(p) \/ Scans(p) \/ ScanEnds(p) \/ Reports(p)
                               \/ PackEnds(p) \/ Attaches(p)
           \/ TimePasses \/ TreeChanges \/ CommandRuns \/ UNCHANGED vars
    PROVE  HomeInv'
<1>1. pack \in [Procs -> Pack] /\ Nothing \notin Int \X Nat
  BY PacksConstants DEF PacksInv, PackInv, PackTyped
<1>2. ASSUME NEW p \in Procs, NEW at, pack[p].at # "mirror",
             pack' = [pack EXCEPT ![p].at = at], at # "append"
      PROVE  \A q \in Procs : \/ pack'[q] = pack[q]
                              \/ mirror[q].at = "idle" /\ pack'[q].at # "append"
  <2>1. mirror[p].at = "idle"
    BY <1>2 DEF HomeInv, MirrorsOwn
  <2>2. pack'[p].at = at
    <3>1. pack'[p] = [pack[p] EXCEPT !.at = at] /\ pack[p] \in Pack
      BY <1>1, <1>2
    <3>. QED BY <3>1 DEF Pack
  <2>. QED BY <1>1, <1>2, <2>1, <2>2
<1>3. ASSUME NEW p \in Procs, PackBegins(p)
      PROVE  HomeInv'
  <2>1. /\ pack[p].at = "idle" /\ UNCHANGED feedVars /\ history' = history
        /\ \E at \in {"scan", "score"} : pack' = [pack EXCEPT ![p].at = at]
    BY <1>3 DEF PackBegins, HistoryCheck, historyVars
  <2>2. PointsAsBefore(Nothing, Nothing)
    BY <2>1, PointsOfQuiet
  <2>. QED BY <1>1, <1>2, <2>1, <2>2, HomeStays
<1>4. ASSUME NEW p \in Procs, Scans(p) \/ ScanEnds(p)
      PROVE  HomeInv'
  <2>1. /\ UNCHANGED feedVars /\ history' = history
        /\ \/ pack' = pack
           \/ pack[p].at = "scan" /\ pack' = [pack EXCEPT ![p].at = "idle"]
    BY <1>4 DEF Scans, ScanEnds, Stage, historyVars, wiring
  <2>2. PointsAsBefore(Nothing, Nothing)
    BY <2>1, PointsOfQuiet
  <2>. QED BY <1>1, <1>2, <1>4, <2>1, <2>2, HomeStays
<1>5. ASSUME NEW p \in Procs, Reports(p)
      PROVE  HomeInv'
  <2>1. /\ pack[p].at = "score" /\ UNCHANGED feedVars /\ history' = history
        /\ pack' = [pack EXCEPT ![p].run = now, ![p].at = "mirror"]
    BY <1>5 DEF Reports, Stamp
  <2>2. pack'[p].at = "mirror" /\ \A q \in Procs : q # p => pack'[q] = pack[q]
    <3>1. pack'[p] = [pack[p] EXCEPT !.run = now, !.at = "mirror"] /\ pack[p] \in Pack
      BY <1>1, <2>1
    <3>2. pack'[p].at = "mirror"
      BY <3>1 DEF Pack
    <3>. QED BY <1>1, <2>1, <3>2
  <2>3. mirror[p].at = "idle"
    BY <2>1 DEF HomeInv, MirrorsOwn
  <2>4. PointsAsBefore(Nothing, Nothing)
    BY <2>1, PointsOfQuiet
  <2>. QED BY <1>1, <2>1, <2>2, <2>3, <2>4, HomeStays
<1>6. ASSUME NEW p \in Procs, PackEnds(p)
      PROVE  HomeInv'
  <2>1. /\ pack[p].at = "append" /\ UNCHANGED feedVars /\ history' = history
        /\ \E at \in {"attach", "idle"} : pack' = [pack EXCEPT ![p].at = at]
    BY <1>6 DEF PackEnds, Stage
  <2>2. PointsAsBefore(Nothing, Nothing)
    BY <2>1, PointsOfQuiet
  <2>. QED BY <1>1, <1>2, <2>1, <2>2, HomeStays
<1>7. ASSUME NEW p \in Procs, Attaches(p)
      PROVE  HomeInv'
  <2>1. /\ pack[p].at = "attach" /\ UNCHANGED feedVars /\ UpdateRow(pack[p].run, RunJson)
        /\ pack' = [pack EXCEPT ![p].at = "idle"]
    BY <1>7 DEF Attaches, Stage
  <2>2. PointsAsBefore(pack[p].run, Nothing)
    BY <2>1, PointsOfUpdate DEF PacksInv
  <2>. QED BY <1>1, <1>2, <2>1, <2>2, HomeStays
<1>8. ASSUME TimePasses \/ TreeChanges \/ CommandRuns \/ UNCHANGED vars
      PROVE  HomeInv'
  <2>1. /\ UNCHANGED feedVars /\ pack' = pack
        /\ history' = history \/ history' = Connected
    BY <1>8 DEF TimePasses, TreeChanges, CommandRuns, CommandRecorded, vars, wiring,
                historyVars
  <2>2. PointsAsBefore(Nothing, Nothing)
    BY <2>1, PointsOfQuiet
  <2>. QED BY <1>1, <2>1, <2>2, HomeStays
<1>. QED BY <1>3, <1>4, <1>5, <1>6, <1>7, <1>8

LEMMA HomeStarts == Init => HomeInv
<1> SUFFICES ASSUME Init PROVE HomeInv
  OBVIOUS
<1>1. /\ mirror = [p \in Procs |-> NoMirror] /\ history = Nothing
      /\ pack = [p \in Procs |-> NoPack]
  BY DEF Init, FeedInit, HistoryInit
<1>2. NoMirror.at = "idle" /\ NoPack.at = "idle"
  BY DEF NoMirror, NoPack
<1> HIDE DEF NoMirror, NoPack
<1>3. FeedHome
  BY <1>1, <1>2 DEF FeedHome, Home, MirrorsApart
<1>4. MirrorsOwn /\ PacksHome
  BY <1>1, <1>2 DEF MirrorsOwn, PacksHome
<1>5. RowsHome
  BY <1>1, NoRows DEF RowsHome
<1>. QED BY <1>3, <1>4, <1>5 DEF HomeInv

LEMMA HomeKept == PacksInv /\ HomeInv /\ [Next]_vars => HomeInv'
<1> SUFFICES ASSUME PacksInv, HomeInv, [Next]_vars PROVE HomeInv'
  OBVIOUS
<1>1. CASE \E p \in Procs : UsesHistory(p) \/ Mirrors(p) \/ Mirrored(p) \/ Crash(p)
  BY <1>1, UsesHistoryHome, MirrorsHome, MirroredHome, CrashHome
<1>. QED BY <1>1, OtherStepsHome DEF Next

----------------------------------------------------------------------------
(* What stays of the feed                                                  *)

(* The newer files of which no prune is about to delete any.               *)
Shields(name) == {m \in Names \ Condemned : Newer(m, name)}

(* No file comes from the future, and those about to be deleted have Keep  *)
(* newer ones that stay.                                                   *)
KeptInv ==
    /\ \A name \in Names : feed[name].mtime <= now
    /\ ~overtaken =>
         \A name \in Condemned \cap Names : Cardinality(Shields(name)) >= Keep

(* A step that lists and deletes nothing: files come and get younger, and, *)
(* unless a prune was overtaken, none that is about to be deleted.         *)
FeedTouches ==
    /\ Names \subseteq Names' /\ Condemned' \subseteq Condemned
    /\ \A m \in Names : feed[m].mtime <= feed'[m].mtime
    /\ \A m \in Names' : feed'[m].mtime <= now'
    /\ ~overtaken' =>
         /\ ~overtaken
         /\ \A name \in Condemned \cap Names' : name \in Names /\ feed'[name] = feed[name]

LEMMA ShieldsKept ==
    ASSUME FeedInv', NEW name, Cardinality(Shields(name)) >= Keep,
           NEW S, Shields(name) \subseteq S, S \subseteq Names'
    PROVE  Cardinality(S) >= Keep
<1>1. IsFiniteSet(S)
  BY FS_Subset DEF FeedInv
<1>2. IsFiniteSet(Shields(name)) /\ Cardinality(Shields(name)) <= Cardinality(S)
  BY <1>1, FS_Subset
<1>3. Cardinality(Shields(name)) \in Nat /\ Cardinality(S) \in Nat
  BY <1>1, <1>2, FS_CardinalityType
<1>. QED BY <1>2, <1>3, FeedConstants

LEMMA TouchKept ==
    ASSUME FeedInv, FeedInv', KeptInv, FeedTouches
    PROVE  KeptInv'
<1>1. SUFFICES ASSUME ~overtaken', NEW name \in Condemned' \cap Names'
               PROVE  Cardinality(Shields(name)') >= Keep
  BY DEF KeptInv, FeedTouches
<1>2. name \in Condemned \cap Names /\ feed'[name] = feed[name] /\ ~overtaken
  BY <1>1 DEF FeedTouches
<1>3. ASSUME NEW m \in Shields(name)
      PROVE  m \in Shields(name)'
  <2>1. /\ m \in Names /\ m \notin Condemned /\ Newer(m, name)
        /\ m \in Names' /\ m \notin Condemned'
    BY <1>3 DEF Shields, FeedTouches
  <2>2. /\ feed[m].mtime \in Nat /\ feed'[m].mtime \in Nat /\ feed[name].mtime \in Nat
        /\ feed[m].mtime <= feed'[m].mtime
    BY <1>2, <2>1 DEF FeedInv, FeedTouches
  <2>3. Newer(m, name)'
    BY <1>2, <2>1, <2>2 DEF Newer
  <2>. QED BY <2>1, <2>3 DEF Shields
<1>4. Cardinality(Shields(name)) >= Keep
  BY <1>2 DEF KeptInv
<1>5. Shields(name)' \subseteq Names'
  BY DEF Shields
<1>. QED BY <1>3, <1>4, <1>5, ShieldsKept

(* A mirror that gets no files to delete adds none.                        *)
LEMMA CondemnedWith ==
    ASSUME FeedInv, NEW p \in Procs, NEW m, mirror' = [mirror EXCEPT ![p] = m]
    PROVE  /\ Condemned' \subseteq Condemned \cup m.stale
           /\ m.stale \subseteq Condemned'
           /\ mirror[p].stale \subseteq Condemned
           /\ Condemned \subseteq Condemned' \cup mirror[p].stale
<1>1. \A q \in Procs : mirror'[q] = IF q = p THEN m ELSE mirror[q]
  BY DEF FeedInv
<1>. QED BY <1>1 DEF Condemned

(* Steps that leave the files.                                             *)
LEMMA QuietTouches ==
    ASSUME FeedInv, KeptInv, UNCHANGED <<feed, overtaken>>, now \in Nat, now' \in Nat,
           now <= now', Condemned' \subseteq Condemned
    PROVE  FeedTouches
<1>1. \A m \in Names : feed[m].mtime \in Nat /\ feed[m].mtime <= now
  BY DEF FeedInv, KeptInv
<1>2. Names' = Names
  BY DEF Names
<1>. QED BY <1>1, <1>2 DEF FeedTouches

LEMMA FeedOpenTouches ==
    ASSUME FeedInv, KeptInv, NEW p \in Procs, now \in Nat, now' = now, FeedOpen(p, now)
    PROVE  FeedTouches
<1> DEFINE m == [mirror[p] EXCEPT !.at = "write", !.linked = TRUE]
           file == [holds |-> {}, mtime |-> now]
           new == mirror[p].name
<1>1. mirror[p] \in Mirror
  BY DEF FeedInv
<1>2. m.stale = mirror[p].stale /\ file.mtime = now
  BY <1>1 DEF Mirror
<1>3. /\ mirror' = [mirror EXCEPT ![p] = m] /\ feed' = Put(feed, new, file)
  BY DEF FeedOpen, FeedInv
<1> HIDE DEF m, file
<1>4. /\ Names' = Names \cup {new} /\ feed'[new].mtime = now
      /\ \A name \in Names : name # new => feed'[name] = feed[name]
  BY <1>2, <1>3 DEF Put, Names
<1>5. Condemned' \subseteq Condemned
  BY <1>2, <1>3, CondemnedWith
<1>6. \A name \in Names : feed[name].mtime \in Nat /\ feed[name].mtime <= now
  BY DEF FeedInv, KeptInv
<1>7. ~overtaken' => ~overtaken /\ new \notin Condemned
  BY DEF FeedOpen
<1>8. /\ \A name \in Names : feed[name].mtime <= feed'[name].mtime
      /\ \A name \in Names' : feed'[name].mtime <= now'
  BY <1>4, <1>6
<1>. QED BY <1>4, <1>5, <1>7, <1>8 DEF FeedTouches

LEMMA FeedWriteTouches ==
    ASSUME FeedInv, KeptInv, NEW p \in Procs, now \in Nat, now' = now, FeedWrite(p, now)
    PROVE  FeedTouches
<1> DEFINE m == [mirror[p] EXCEPT !.at = "glob", !.linked = FALSE]
           name == mirror[p].name
<1>1. mirror[p] \in Mirror /\ MirrorOK(Names, mirror[p])
  BY DEF FeedInv
<1>2. m.stale = mirror[p].stale
  BY <1>1 DEF Mirror
<1>3. /\ mirror' = [mirror EXCEPT ![p] = m]
  BY DEF FeedWrite, FeedInv
<1> HIDE DEF m
<1>4. Condemned' \subseteq Condemned
  BY <1>2, <1>3, CondemnedWith
<1>5. \A other \in Names : feed[other].mtime \in Nat /\ feed[other].mtime <= now
  BY DEF FeedInv, KeptInv
<1>6. CASE ~mirror[p].linked
  <2>1. feed' = feed /\ (overtaken' <=> overtaken)
    BY <1>6 DEF FeedWrite
  <2>. QED BY <1>4, <1>5, <2>1 DEF FeedTouches, Names
<1>7. CASE mirror[p].linked
  <2>1. PICK holds : feed' = [feed EXCEPT ![name] = [holds |-> holds, mtime |-> now]]
    BY <1>7 DEF FeedWrite
  <2>2. /\ Names' = Names /\ name \in Names
        /\ \A other \in Names : other # name => feed'[other] = feed[other]
    BY <1>1, <1>7, <2>1 DEF Names, MirrorOK
  <2>3. feed'[name].mtime = now
    BY <2>1, <2>2 DEF Names
  <2>4. ~overtaken' => ~overtaken /\ name \notin Condemned
    BY <1>7 DEF FeedWrite
  <2>5. /\ \A other \in Names : feed[other].mtime <= feed'[other].mtime
        /\ \A other \in Names' : feed'[other].mtime <= now'
    BY <1>5, <2>2, <2>3
  <2>. QED BY <1>4, <2>2, <2>4, <2>5 DEF FeedTouches
<1>. QED BY <1>6, <1>7

(* A listing condemns what was condemned already, and files with Keep newer*)
(* ones.                                                                   *)
LEMMA FeedGlobKept ==
    ASSUME FeedInv, FeedInv', KeptInv, NEW p \in Procs, now' = now, FeedGlob(p)
    PROVE  KeptInv' /\ Names \subseteq Names'
<1> DEFINE m == [mirror[p] EXCEPT !.at = Pruning(Stale), !.stale = Stale]
<1>1. mirror[p] \in Mirror /\ mirror[p].stale = {}
  BY DEF FeedInv, FeedGlob, MirrorOK
<1>2. m.stale = Stale
  BY <1>1 DEF Mirror
<1>3. mirror' = [mirror EXCEPT ![p] = m] /\ UNCHANGED <<feed, overtaken>>
  BY DEF FeedGlob, FeedInv
<1> HIDE DEF m
<1>4. Names' = Names
  BY <1>3 DEF Names
<1>5. Condemned' = Condemned \cup Stale
  BY <1>1, <1>2, <1>3, CondemnedWith
<1>6. SUFFICES ASSUME ~overtaken', NEW name \in Condemned' \cap Names'
               PROVE  Cardinality(Shields(name)') >= Keep
  BY <1>3, <1>4 DEF KeptInv
<1>7. ASSUME NEW other \in Condemned \cap Names
      PROVE  other \in Stale
  <2> DEFINE S == {o \in Names : Newer(o, other)}
  <2>1. Cardinality(Shields(other)) >= Keep
    BY <1>3, <1>6 DEF KeptInv
  <2>2. Shields(other) \subseteq S /\ S \subseteq Names'
    BY <1>4 DEF Shields
  <2>3. Cardinality(S) >= Keep
    <3> HIDE DEF S
    <3>. QED BY <2>1, <2>2, ShieldsKept
  <2>. QED BY <2>3 DEF Stale, Rank
<1>8. name \in Stale /\ Names' \ Condemned' = Names \ Stale
  <2>1. Names \ Condemned' = Names \ Stale
    BY <1>5, <1>7
  <2>. QED BY <1>4, <1>5, <1>6, <1>7, <2>1
<1>9. Shields(name)' = {o \in Names \ Stale : Newer(o, name)}
  <2>1. \A o : Newer(o, name)' <=> Newer(o, name)
    BY <1>3 DEF Newer
  <2>. QED BY <1>8, <2>1 DEF Shields
<1>. QED BY <1>8, <1>9, FreshAbove

(* A prune deletes none that shields, and what it deletes has Keep shields.*)
LEMMA FeedPruneKept ==
    ASSUME FeedInv, FeedInv', KeptInv, NEW p \in Procs, now' = now, NEW fails,
           FeedPrune(p, fails)
    PROVE  /\ KeptInv'
           /\ ~overtaken => \A name \in Names \ Names' :
                Cardinality({m \in Names' : feed'[m].mtime >= feed[name].mtime}) >= Keep
<1> PICK off, gone : Prunes(p, off, gone)
  BY FeedPruneDoes
<1>1. /\ Names' = Names \ gone /\ overtaken' = overtaken
      /\ \A name \in Names' : feed'[name] = feed[name]
  BY DEF Prunes
<1>2. gone \subseteq Condemned
  BY DEF Condemned, Prunes
<1>3. Condemned' \subseteq Condemned
  <2>1. \A q \in Procs : mirror'[q].stale \subseteq mirror[q].stale
    BY DEF Prunes
  <2>. QED BY <2>1 DEF Condemned
<1>4. ASSUME NEW name \in Names, NEW m \in Shields(name)
      PROVE  /\ m \in Names' \ Condemned' /\ Newer(m, name)
             /\ feed'[m].mtime >= feed[name].mtime
  <2>1. m \in Names' \ Condemned' /\ Newer(m, name) /\ feed'[m] = feed[m] /\ m \in Names
    BY <1>1, <1>2, <1>3, <1>4 DEF Shields
  <2>2. feed[m].mtime \in Nat /\ feed[name].mtime \in Nat
    BY <1>4, <2>1 DEF FeedInv
  <2>. QED BY <2>1, <2>2 DEF Newer
<1>5. ASSUME ~overtaken, NEW name \in Names \ Names'
      PROVE  Cardinality({m \in Names' : feed'[m].mtime >= feed[name].mtime}) >= Keep
  <2> DEFINE S == {m \in Names' : feed'[m].mtime >= feed[name].mtime}
  <2>1. Cardinality(Shields(name)) >= Keep
    BY <1>1, <1>2, <1>5 DEF KeptInv
  <2>2. Shields(name) \subseteq S /\ S \subseteq Names'
    BY <1>4, <1>5
  <2> HIDE DEF S
  <2>3. Cardinality(S) >= Keep
    BY <2>1, <2>2, ShieldsKept
  <2>. QED BY <2>3 DEF S
<1>6. ASSUME ~overtaken', NEW name \in Condemned' \cap Names'
      PROVE  Cardinality(Shields(name)') >= Keep
  <2>1. name \in Condemned \cap Names /\ feed'[name] = feed[name] /\ ~overtaken
    BY <1>1, <1>3, <1>6
  <2>2. Cardinality(Shields(name)) >= Keep
    BY <2>1 DEF KeptInv
  <2>3. ASSUME NEW m \in Shields(name)
        PROVE  m \in Shields(name)'
    <3>1. m \in Names' /\ m \notin Condemned' /\ Newer(m, name)
      BY <1>4, <2>1, <2>3
    <3>2. feed'[m] = feed[m]
      BY <1>1, <3>1
    <3>3. Newer(m, name)'
      BY <2>1, <3>1, <3>2 DEF Newer
    <3>. QED BY <3>1, <3>3 DEF Shields
  <2>4. Shields(name)' \subseteq Names'
    BY DEF Shields
  <2>. QED BY <2>2, <2>3, <2>4, ShieldsKept
<1>7. \A name \in Names' : feed'[name].mtime <= now'
  BY <1>1 DEF KeptInv
<1>. QED BY <1>5, <1>6, <1>7 DEF KeptInv

(* Who mirrors nothing leaves the feed, and the clock does not go back.    *)
LEMMA OthersLeaveFeed ==
    ASSUME PacksInv,
           \/ \E p \in Procs : PackBegins(p) \/ Scans(p) \/ ScanEnds(p) \/ UsesHistory(p)
                               \/ Reports(p) \/ PackEnds(p) \/ Attaches(p)
           \/ TimePasses \/ TreeChanges \/ CommandRuns \/ UNCHANGED vars
    PROVE  UNCHANGED feedVars /\ now \in Nat /\ now' \in Nat /\ now <= now'
<1>1. now \in Nat /\ (now' = now => now' \in Nat /\ now <= now')
  BY ClockTyped DEF PacksInv
<1>2. ASSUME NEW p \in Procs, PackBegins(p) \/ Scans(p) \/ ScanEnds(p) \/ UsesHistory(p)
      PROVE  UNCHANGED feedVars /\ now' = now
  BY <1>2 DEF PackBegins, Scans, ScanEnds, UsesHistory, treeVars
<1>3. ASSUME NEW p \in Procs, PackEnds(p) \/ Attaches(p)
      PROVE  UNCHANGED feedVars /\ now' = now
  BY <1>3 DEF PackEnds, Attaches, treeVars
<1>4. ASSUME (\E p \in Procs : Reports(p)) \/ TimePasses
      PROVE  UNCHANGED feedVars /\ now' = now + 1
  BY <1>4 DEF Reports, Stamp, TimePasses, Tick
<1>5. ASSUME TreeChanges \/ CommandRuns \/ UNCHANGED vars
      PROVE  UNCHANGED feedVars /\ now' = now
  BY <1>5 DEF TreeChanges, Edit, Chmod, Delete, CommandRuns, vars, treeVars
<1>. QED BY <1>1, <1>2, <1>3, <1>4, <1>5

LEMMA MirrorsKeeps ==
    ASSUME PacksInv, KeptInv, NEW p \in Procs, Mirrors(p)
    PROVE  /\ now' = now
           /\ FeedTouches \/ FeedGlob(p) \/ FeedPrune(p, config.fails)
<1>1. /\ FeedInv /\ now \in Nat /\ now' = now /\ now <= now'
      /\ \/ FeedPick(p, pack[p].run, Second(pack[p].run))
         \/ FeedStep(p, now, config.fails)
  BY MirrorsStep DEF Mirrors, treeVars
<1>2. mirror[p] \in Mirror
  BY <1>1 DEF FeedInv
<1>3. ASSUME NEW m, mirror' = [mirror EXCEPT ![p] = m], m.stale \subseteq mirror[p].stale,
             UNCHANGED <<feed, overtaken>>
      PROVE  FeedTouches
  <2>1. Condemned' \subseteq Condemned
    BY <1>1, <1>3, CondemnedWith
  <2>. QED BY <1>1, <1>3, <2>1, QuietTouches
<1>4. CASE FeedPick(p, pack[p].run, Second(pack[p].run))
  <2> DEFINE m == [NoMirror EXCEPT !.at = "open", !.run = pack[p].run,
                                   !.name = FreeName(Second(pack[p].run))]
  <2>1. m.stale = {}
    BY DEF NoMirror
  <2>2. mirror' = [mirror EXCEPT ![p] = m] /\ UNCHANGED <<feed, overtaken>>
    BY <1>4 DEF FeedPick
  <2> HIDE DEF m
  <2>. QED BY <1>1, <1>3, <2>1, <2>2
<1>5. CASE FeedGlobRaises(p)
  <2> DEFINE m == [mirror[p] EXCEPT !.at = "done"]
  <2>1. m.stale = mirror[p].stale
    BY <1>2 DEF Mirror
  <2>2. mirror' = [mirror EXCEPT ![p] = m] /\ UNCHANGED <<feed, overtaken>>
    BY <1>1, <1>5 DEF FeedGlobRaises, FeedInv
  <2> HIDE DEF m
  <2>. QED BY <1>1, <1>3, <2>1, <2>2
<1>6. CASE FeedFails(p)
  <2> DEFINE m == [NoMirror EXCEPT !.at = "done", !.run = mirror[p].run]
  <2>1. m.stale = {}
    BY DEF NoMirror
  <2>2. mirror' = [mirror EXCEPT ![p] = m] /\ UNCHANGED <<feed, overtaken>>
    BY <1>6 DEF FeedFails
  <2> HIDE DEF m
  <2>. QED BY <1>1, <1>3, <2>1, <2>2
<1>. QED BY <1>1, <1>4, <1>5, <1>6, FeedOpenTouches, FeedWriteTouches DEF FeedStep

(* What each step does to the feed.                                        *)
LEMMA StepsKeep ==
    ASSUME PacksInv, KeptInv, [Next]_vars
    PROVE  \/ FeedTouches
           \/ now' = now /\ \E p \in Procs : FeedGlob(p) \/ FeedPrune(p, config.fails)
<1>1. FeedInv /\ now \in Nat /\ now <= now
  BY ClockTyped DEF PacksInv
<1>2. ASSUME NEW p \in Procs, Mirrored(p) \/ Crash(p)
      PROVE  FeedTouches
  <2>1. /\ mirror' = [mirror EXCEPT ![p] = NoMirror] /\ UNCHANGED <<feed, overtaken>>
        /\ now' = now
    BY <1>2 DEF Mirrored, Crash, FeedForgotten, treeVars
  <2>2. NoMirror.stale = {}
    BY DEF NoMirror
  <2> HIDE DEF NoMirror
  <2>3. Condemned' \subseteq Condemned
    BY <1>1, <2>1, <2>2, CondemnedWith
  <2>. QED BY <1>1, <2>1, <2>3, QuietTouches
<1>3. CASE \E p \in Procs : Mirrors(p)
  BY <1>3, MirrorsKeeps
<1>4. ASSUME UNCHANGED feedVars, now' \in Nat, now <= now'
      PROVE  FeedTouches
  <2>1. UNCHANGED <<feed, mirror, overtaken>>
    BY <1>4 DEF feedVars
  <2>2. Condemned' \subseteq Condemned
    BY <2>1 DEF Condemned
  <2>. QED BY <1>1, <1>4, <2>1, <2>2, QuietTouches
<1>. QED BY <1>2, <1>3, <1>4, OthersLeaveFeed DEF Next

LEMMA KeptStarts == Init => KeptInv
<1> SUFFICES ASSUME Init PROVE KeptInv
  OBVIOUS
<1>1. /\ mirror = [p \in Procs |-> NoMirror] /\ now \in Nat
      /\ \A name \in Names : feed[name].mtime = 0
  BY PacksStart, ClockTyped DEF Init, FeedInit, PacksInv, Names
<1>2. Condemned = {}
  BY <1>1 DEF Condemned, NoMirror
<1>. QED BY <1>1, <1>2 DEF KeptInv

LEMMA KeptKept == PacksInv /\ KeptInv /\ [Next]_vars => KeptInv'
<1> SUFFICES ASSUME PacksInv, KeptInv, [Next]_vars PROVE KeptInv'
  OBVIOUS
<1>1. FeedInv /\ FeedInv'
  BY PacksKept DEF PacksInv
<1>. QED BY <1>1, StepsKeep, TouchKept, FeedGlobKept, FeedPruneKept

----------------------------------------------------------------------------
(* What prunes have listed                                                 *)

(* Seconds come in the order of time.                                      *)
LEMMA SecondGrows ==
    ASSUME NEW a \in Nat, NEW b \in Nat, a <= b
    PROVE  Second(a) \in Nat /\ Second(b) \in Nat /\ Second(a) <= Second(b)
<1> DEFINE P == PerSecond
           x == a \div P
           y == b \div P
<1>1. P \in Nat \ {0}
  BY PacksConstants
<1> HIDE DEF P
<1>2. x \in Nat /\ y \in Nat
  BY ONLY <1>1
<1>3. P * x <= a /\ b < P * (y + 1)
  <2>1. a = P * x + (a % P) /\ b = P * y + (b % P)
    BY ONLY <1>1
  <2>2. a % P \in 0..(P - 1) /\ b % P \in 0..(P - 1)
    BY ONLY <1>1
  <2> HIDE DEF x, y
  <2>3. P * x \in Nat /\ P * y \in Nat /\ P * (y + 1) = P * y + P
    BY ONLY <1>1, <1>2
  <2>. QED BY ONLY <1>1, <2>1, <2>2, <2>3
<1> HIDE DEF x, y
<1>4. ASSUME y < x PROVE FALSE
  <2>1. y + 1 <= x /\ y + 1 \in Nat
    BY <1>2, <1>4
  <2>2. P * (y + 1) <= P * x
    BY ONLY <1>1, <1>2, <2>1
  <2>3. P * (y + 1) \in Nat /\ P * x \in Nat
    BY ONLY <1>1, <1>2
  <2>. QED BY <1>3, <2>2, <2>3
<1>. QED BY <1>2, <1>4 DEF Second, x, y, P

(* The reports written last in or after the second of this one.            *)
Later(name) == {other \in DOMAIN made \ {name} : Second(made[other]) >= name[1]}

(* A report is written in or after its second, files of earlier runs are   *)
(* older than all of them.                                                 *)
NamesDated ==
    \A name \in Names : IF name[1] < 0 THEN feed[name].mtime = 0
                        ELSE /\ name \in DOMAIN made /\ made[name] = feed[name].mtime
                             /\ made[name] > 0 /\ Second(made[name]) >= name[1]

MadeDated ==
    IsFiniteSet(DOMAIN made) /\ \A name \in DOMAIN made : made[name] <= now

MirrorsDated ==
    \A p \in Procs : mirror[p].at \in {"open", "write"} =>
      mirror[p].name[1] \in 0..Second(now)

(* What a prune has listed had Keep reports before it, which were written  *)
(* no earlier than it was, so not before its second either.                *)
CondemnedLate ==
    \A name \in Condemned : name[1] >= 0 => Cardinality(Later(name)) >= Keep

LateInv == NamesDated /\ MadeDated /\ MirrorsDated /\ CondemnedLate

(* What was written late stays so, as reports are only written later.      *)
LEMMA LaterKept ==
    ASSUME MadeOK, MadeOK', DOMAIN made \subseteq DOMAIN made', IsFiniteSet(DOMAIN made'),
           \A other \in DOMAIN made : made[other] <= made'[other],
           NEW name \in Int \X Nat, Cardinality(Later(name)) >= Keep
    PROVE  Cardinality(Later(name)') >= Keep
<1> DEFINE old == Later(name)
           new == Later(name)'
<1>1. ASSUME NEW other \in old
      PROVE  other \in new
  <2>1. /\ other \in DOMAIN made /\ other # name /\ Second(made[other]) >= name[1]
        /\ made[other] \in Nat /\ made'[other] \in Nat /\ made[other] <= made'[other]
    BY <1>1 DEF Later, MadeOK
  <2>2. /\ Second(made[other]) \in Nat /\ Second(made'[other]) \in Nat
        /\ Second(made[other]) <= Second(made'[other])
    BY <2>1, SecondGrows
  <2>3. Second(made'[other]) >= name[1]
    BY <2>1, <2>2
  <2>. QED BY <2>1, <2>3 DEF Later
<1>2. IsFiniteSet(new)
  BY FS_Subset DEF Later
<1> HIDE DEF old, new
<1>3. IsFiniteSet(old) /\ Cardinality(old) <= Cardinality(new)
  BY <1>1, <1>2, FS_Subset
<1>4. Cardinality(old) \in Nat /\ Cardinality(new) \in Nat
  BY <1>2, <1>3, FS_CardinalityType
<1>. QED BY <1>3, <1>4, FeedConstants DEF old, new

(* Steps that condemn nothing more.                                        *)
LEMMA CondemnedKept ==
    ASSUME FeedInv, FeedInv', LateInv, DOMAIN made \subseteq DOMAIN made',
           IsFiniteSet(DOMAIN made'), \A other \in DOMAIN made : made[other] <= made'[other],
           Condemned' \subseteq Condemned
    PROVE  CondemnedLate'
<1>1. SUFFICES ASSUME NEW name \in Condemned', name[1] >= 0
               PROVE  Cardinality(Later(name)') >= Keep
  BY DEF CondemnedLate
<1>2. name \in Condemned /\ Cardinality(Later(name)) >= Keep
  BY <1>1 DEF LateInv, CondemnedLate
<1>3. name \in Int \X Nat
  BY <1>2 DEF Condemned, FeedInv, Mirror
<1>. QED BY <1>2, <1>3, LaterKept DEF FeedInv

(* Steps that leave the files, and start no report.                        *)
LEMMA LateQuiet ==
    ASSUME FeedInv, FeedInv', LateInv, UNCHANGED <<feed, made>>, now \in Nat, now' \in Nat,
           now <= now', Condemned' \subseteq Condemned, MirrorsDated'
    PROVE  LateInv'
<1>1. MadeDated'
  <2>1. SUFFICES ASSUME NEW name \in DOMAIN made PROVE made[name] <= now'
    BY DEF LateInv, MadeDated
  <2>2. made[name] \in Nat /\ made[name] <= now
    BY DEF LateInv, MadeDated, FeedInv, MadeOK
  <2>. QED BY <2>2
<1>2. NamesDated'
  BY DEF LateInv, NamesDated, Names
<1>3. \A other \in DOMAIN made : made[other] <= made'[other]
  BY DEF FeedInv, MadeOK
<1>4. CondemnedLate'
  BY <1>3, CondemnedKept DEF LateInv, MadeDated
<1>. QED BY <1>1, <1>2, <1>4 DEF LateInv

(* A write at a name, which makes the file or finds the pack's own.        *)
LEMMA WritesLate ==
    ASSUME FeedInv, FeedInv', LateInv, now \in Nat \ {0}, now' = now,
           Condemned' \subseteq Condemned,
           NEW new \in Int \X Nat, new[1] \in 0..Second(now),
           Names' = Names \cup {new}, feed'[new].mtime = now,
           \A name \in Names : name # new => feed'[name] = feed[name],
           made' = Put(made, new, now), MirrorsDated'
    PROVE  LateInv'
<1>1. /\ DOMAIN made' = DOMAIN made \cup {new} /\ made'[new] = now
      /\ \A name \in DOMAIN made : name # new => made'[name] = made[name]
  BY DEF Put
<1>2. MadeDated'
  <2>1. IsFiniteSet(DOMAIN made \cup {new})
    BY FS_AddElement DEF LateInv, MadeDated
  <2>2. \A name \in DOMAIN made' : made'[name] <= now
    BY <1>1 DEF LateInv, MadeDated
  <2>. QED BY <1>1, <2>1, <2>2 DEF MadeDated
<1>3. \A name \in DOMAIN made : made[name] <= made'[name]
  <2>1. SUFFICES ASSUME NEW name \in DOMAIN made PROVE made[name] <= made'[name]
    OBVIOUS
  <2>2. made[name] \in Nat /\ made[name] <= now
    BY DEF LateInv, MadeDated, FeedInv, MadeOK
  <2>. QED BY <1>1, <2>2
<1>4. NamesDated'
  <2>1. SUFFICES ASSUME NEW name \in Names'
                 PROVE  IF name[1] < 0 THEN feed'[name].mtime = 0
                        ELSE /\ name \in DOMAIN made' /\ made'[name] = feed'[name].mtime
                             /\ made'[name] > 0 /\ Second(made'[name]) >= name[1]
    BY DEF NamesDated
  <2>2. CASE name = new
    <3>1. Second(now) \in Nat
      BY SecondGrows
    <3>2. ~(new[1] < 0) /\ Second(now) >= new[1] /\ now > 0
      BY <3>1
    <3>. QED BY <1>1, <2>2, <3>2
  <2>3. CASE name # new
    <3>1. name \in Names /\ feed'[name] = feed[name]
      BY <2>1, <2>3
    <3>. QED BY <1>1, <2>3, <3>1 DEF LateInv, NamesDated
  <2>. QED BY <2>2, <2>3
<1>5. CondemnedLate'
  BY <1>1, <1>2, <1>3, CondemnedKept DEF MadeDated
<1>. QED BY <1>2, <1>4, <1>5 DEF LateInv

LEMMA FeedOpenLate ==
    ASSUME FeedInv, FeedInv', LateInv, NEW p \in Procs, now \in Nat \ {0}, now' = now,
           FeedOpen(p, now)
    PROVE  LateInv'
<1> DEFINE m == [mirror[p] EXCEPT !.at = "write", !.linked = TRUE]
           file == [holds |-> {}, mtime |-> now]
           new == mirror[p].name
<1>1. mirror[p] \in Mirror /\ mirror[p].at = "open" /\ new \in Int \X Nat
  BY DEF FeedInv, FeedOpen, MirrorOK
<1>2. m.stale = mirror[p].stale /\ file.mtime = now /\ m.at = "write" /\ m.name = new
  BY <1>1 DEF Mirror
<1>3. /\ mirror' = [mirror EXCEPT ![p] = m] /\ feed' = Put(feed, new, file)
      /\ made' = Put(made, new, now)
  BY DEF FeedOpen, FeedInv
<1> HIDE DEF m, file
<1>4. /\ Names' = Names \cup {new} /\ feed'[new].mtime = now
      /\ \A name \in Names : name # new => feed'[name] = feed[name]
  BY <1>2, <1>3 DEF Put, Names
<1>5. Condemned' \subseteq Condemned
  BY <1>2, <1>3, CondemnedWith
<1>6. new[1] \in 0..Second(now)
  BY <1>1 DEF LateInv, MirrorsDated
<1>7. MirrorsDated'
  <2>1. \A q \in Procs : mirror'[q] = IF q = p THEN m ELSE mirror[q]
    BY <1>3 DEF FeedInv
  <2>. QED BY <1>2, <1>6, <2>1 DEF LateInv, MirrorsDated
<1> HIDE DEF new
<1>. QED BY <1>1, <1>3, <1>4, <1>5, <1>6, <1>7, WritesLate

LEMMA FeedWriteLate ==
    ASSUME FeedInv, FeedInv', LateInv, NEW p \in Procs, now \in Nat \ {0}, now' = now,
           FeedWrite(p, now)
    PROVE  LateInv'
<1> DEFINE m == [mirror[p] EXCEPT !.at = "glob", !.linked = FALSE]
           name == mirror[p].name
<1>1. mirror[p] \in Mirror /\ MirrorOK(Names, mirror[p]) /\ mirror[p].at = "write"
      /\ name \in Int \X Nat
  BY DEF FeedInv, FeedWrite, MirrorOK
<1>2. m.stale = mirror[p].stale /\ m.at = "glob"
  BY <1>1 DEF Mirror
<1>3. mirror' = [mirror EXCEPT ![p] = m]
  BY DEF FeedWrite, FeedInv
<1> HIDE DEF m
<1>4. Condemned' \subseteq Condemned
  BY <1>2, <1>3, CondemnedWith
<1>5. name[1] \in 0..Second(now)
  BY <1>1 DEF LateInv, MirrorsDated
<1>6. MirrorsDated'
  <2>1. \A q \in Procs : mirror'[q] = IF q = p THEN m ELSE mirror[q]
    BY <1>3 DEF FeedInv
  <2>. QED BY <1>2, <2>1 DEF LateInv, MirrorsDated
<1>7. CASE ~mirror[p].linked
  <2>1. UNCHANGED <<feed, made>>
    BY <1>7 DEF FeedWrite
  <2>. QED BY <1>4, <1>6, <2>1, LateQuiet
<1>8. CASE mirror[p].linked
  <2>1. /\ \E holds : feed' = [feed EXCEPT ![name] = [holds |-> holds, mtime |-> now]]
        /\ made' = [made EXCEPT ![name] = now]
    BY <1>8 DEF FeedWrite
  <2>2. /\ Names' = Names \cup {name} /\ name \in Names
        /\ \A other \in Names : other # name => feed'[other] = feed[other]
    BY <1>1, <1>8, <2>1 DEF Names, MirrorOK
  <2>3. PICK holds : feed' = [feed EXCEPT ![name] = [holds |-> holds, mtime |-> now]]
    BY <2>1
  <2>4. feed'[name].mtime = now
    BY <2>2, <2>3 DEF Names
  <2>5. name \in DOMAIN made
    <3>1. Second(now) \in Nat
      BY SecondGrows
    <3>2. ~(name[1] < 0)
      BY <1>5, <3>1
    <3>. QED BY <2>2, <3>2 DEF LateInv, NamesDated
  <2>6. made' = Put(made, name, now)
    BY <2>1, <2>5 DEF Put
  <2> HIDE DEF name
  <2>. QED BY <1>1, <1>4, <1>5, <1>6, <2>2, <2>4, <2>6, WritesLate
<1>. QED BY <1>7, <1>8

(* Of a listing, what is beyond the Keep newest has Keep that are later.   *)
LEMMA StaleLate ==
    ASSUME FeedInv, LateInv, NEW name \in Stale, name[1] >= 0
    PROVE  Cardinality(Later(name)) >= Keep
<1> DEFINE newer == {other \in Names : Newer(other, name)}
           later == Later(name)
<1>1. name \in Names /\ Cardinality(newer) >= Keep
  BY DEF Stale, Rank
<1>2. name[1] \in Int /\ name[2] \in Nat /\ ~(name[1] < 0)
  BY <1>1 DEF FeedInv
<1>3. /\ feed[name].mtime \in Nat /\ feed[name].mtime > 0
      /\ Second(feed[name].mtime) >= name[1]
  BY <1>1, <1>2 DEF FeedInv, LateInv, NamesDated
<1>4. ASSUME NEW other \in newer
      PROVE  other \in later
  <2>1. other \in Names /\ Newer(other, name) /\ feed[other].mtime \in Nat
        /\ other[1] \in Int
    BY <1>4 DEF FeedInv
  <2>2. feed[other].mtime >= feed[name].mtime /\ other # name
    BY <1>2, <1>3, <2>1 DEF Newer
  <2>3. feed[other].mtime > 0
    BY <1>3, <2>1, <2>2
  <2>4. other \in DOMAIN made /\ made[other] = feed[other].mtime
    BY <2>1, <2>3 DEF LateInv, NamesDated
  <2>5. /\ Second(feed[name].mtime) <= Second(feed[other].mtime)
        /\ Second(feed[name].mtime) \in Nat /\ Second(feed[other].mtime) \in Nat
    BY <1>3, <2>1, <2>2, SecondGrows
  <2>6. Second(made[other]) >= name[1]
    BY <1>2, <1>3, <2>4, <2>5
  <2>. QED BY <2>2, <2>4, <2>6 DEF Later
<1>5. IsFiniteSet(later)
  BY FS_Subset DEF Later, LateInv, MadeDated
<1> HIDE DEF newer, later
<1>6. IsFiniteSet(newer) /\ Cardinality(newer) <= Cardinality(later)
  BY <1>4, <1>5, FS_Subset
<1>7. Cardinality(newer) \in Nat /\ Cardinality(later) \in Nat
  BY <1>5, <1>6, FS_CardinalityType
<1>. QED BY <1>1, <1>6, <1>7, FeedConstants DEF later

LEMMA FeedGlobLate ==
    ASSUME FeedInv, LateInv, NEW p \in Procs, FeedGlob(p), now' = now
    PROVE  LateInv'
<1> DEFINE m == [mirror[p] EXCEPT !.at = Pruning(Stale), !.stale = Stale]
<1>1. mirror[p] \in Mirror /\ mirror[p].at = "glob"
  BY DEF FeedInv, FeedGlob
<1>2. m.stale = Stale /\ m.at \in {"prune", "done"}
  BY <1>1 DEF Mirror, Pruning
<1>3. mirror' = [mirror EXCEPT ![p] = m] /\ UNCHANGED <<feed, made>>
  BY DEF FeedGlob, FeedInv
<1> HIDE DEF m
<1>4. Condemned' \subseteq Condemned \cup Stale
  BY <1>2, <1>3, CondemnedWith
<1>5. MirrorsDated'
  <2>1. \A q \in Procs : mirror'[q] = IF q = p THEN m ELSE mirror[q]
    BY <1>3 DEF FeedInv
  <2>. QED BY <1>2, <2>1 DEF LateInv, MirrorsDated
<1>6. NamesDated' /\ MadeDated'
  BY <1>3 DEF LateInv, NamesDated, MadeDated, Names
<1>7. CondemnedLate'
  <2>1. SUFFICES ASSUME NEW name \in Condemned', name[1] >= 0
                 PROVE  Cardinality(Later(name)') >= Keep
    BY DEF CondemnedLate
  <2>2. Later(name)' = Later(name)
    BY <1>3 DEF Later
  <2>. QED BY <1>4, <2>1, <2>2, StaleLate DEF LateInv, CondemnedLate
<1>. QED BY <1>5, <1>6, <1>7 DEF LateInv

LEMMA FeedPruneLate ==
    ASSUME FeedInv, FeedInv', LateInv, NEW p \in Procs, NEW fails, FeedPrune(p, fails),
           now \in Nat, now' = now
    PROVE  LateInv'
<1> PICK off, gone : Prunes(p, off, gone)
  BY FeedPruneDoes
<1>1. /\ Names' = Names \ gone /\ made' = made
      /\ \A name \in Names' : feed'[name] = feed[name] /\ mirror[p].at = "prune"
  BY DEF Prunes
<1>2. ASSUME NEW q \in Procs
      PROVE  /\ mirror'[q].stale \subseteq mirror[q].stale
             /\ mirror'[q].name = mirror[q].name
             /\ mirror'[q].at = mirror[q].at \/ mirror'[q].at = "done"
  BY DEF Prunes, Pruning
<1>3. Condemned' \subseteq Condemned
  BY <1>2 DEF Condemned
<1>4. NamesDated' /\ MadeDated' /\ MirrorsDated'
  BY <1>1, <1>2 DEF LateInv, NamesDated, MadeDated, MirrorsDated
<1>5. \A other \in DOMAIN made : made[other] <= made'[other]
  BY <1>1 DEF FeedInv, MadeOK
<1>6. CondemnedLate'
  BY <1>1, <1>3, <1>5, CondemnedKept DEF LateInv, MadeDated
<1>. QED BY <1>4, <1>6 DEF LateInv

LEMMA MirrorsLate ==
    ASSUME PacksInv, PacksInv', LateInv, NEW p \in Procs, Mirrors(p)
    PROVE  LateInv'
<1>1. /\ FeedInv /\ FeedInv' /\ now \in Nat /\ pack[p].run \in Nat
      /\ Second(pack[p].run) \in Nat /\ pack[p].run \in stamped
  BY MirrorsStep DEF PacksInv
<1>2. /\ now' = now
      /\ \/ FeedPick(p, pack[p].run, Second(pack[p].run))
         \/ FeedStep(p, now, config.fails)
  BY DEF Mirrors, treeVars
<1>3. now \in Nat \ {0} /\ Second(pack[p].run) \in 0..Second(now)
  <2>1. pack[p].run \in 0..now /\ pack[p].run # now
    BY <1>1 DEF PacksInv, PackInv, PackTyped
  <2>2. Second(now) \in Nat /\ Second(pack[p].run) <= Second(now)
    BY <1>1, <2>1, SecondGrows
  <2>. QED BY <1>1, <2>1, <2>2
<1>4. mirror[p] \in Mirror
  BY <1>1 DEF FeedInv
<1>5. ASSUME NEW m, mirror' = [mirror EXCEPT ![p] = m], m.stale \subseteq mirror[p].stale,
             m.at \in {"open", "write"} => m.name[1] \in 0..Second(now),
             UNCHANGED <<feed, made>>
      PROVE  LateInv'
  <2>1. Condemned' \subseteq Condemned
    BY <1>1, <1>5, CondemnedWith
  <2>2. MirrorsDated'
    <3>1. \A q \in Procs : mirror'[q] = IF q = p THEN m ELSE mirror[q]
      BY <1>1, <1>5 DEF FeedInv
    <3>. QED BY <1>2, <1>5, <3>1 DEF LateInv, MirrorsDated
  <2>. QED BY <1>1, <1>2, <1>5, <2>1, <2>2, LateQuiet
<1>6. CASE FeedPick(p, pack[p].run, Second(pack[p].run))
  <2> DEFINE m == [NoMirror EXCEPT !.at = "open", !.run = pack[p].run,
                                   !.name = FreeName(Second(pack[p].run))]
  <2>1. m.stale = {} /\ m.at = "open" /\ m.name = FreeName(Second(pack[p].run))
    BY DEF NoMirror
  <2>2. mirror' = [mirror EXCEPT ![p] = m] /\ UNCHANGED <<feed, made>>
    BY <1>6 DEF FeedPick
  <2>3. FreeName(Second(pack[p].run))[1] = Second(pack[p].run)
    BY DEF FreeName
  <2> HIDE DEF m
  <2>. QED BY <1>3, <1>5, <2>1, <2>2, <2>3
<1>7. CASE FeedGlobRaises(p)
  <2> DEFINE m == [mirror[p] EXCEPT !.at = "done"]
  <2>1. m.stale = mirror[p].stale /\ m.at = "done"
    BY <1>4 DEF Mirror
  <2>2. mirror' = [mirror EXCEPT ![p] = m] /\ UNCHANGED <<feed, made>>
    BY <1>1, <1>7 DEF FeedGlobRaises, FeedInv
  <2> HIDE DEF m
  <2>. QED BY <1>5, <2>1, <2>2
<1>8. CASE FeedFails(p)
  <2> DEFINE m == [NoMirror EXCEPT !.at = "done", !.run = mirror[p].run]
  <2>1. m.stale = {} /\ m.at = "done"
    BY DEF NoMirror
  <2>2. mirror' = [mirror EXCEPT ![p] = m] /\ UNCHANGED <<feed, made>>
    BY <1>8 DEF FeedFails
  <2> HIDE DEF m
  <2>. QED BY <1>5, <2>1, <2>2
<1>9. CASE FeedOpen(p, now) \/ FeedWrite(p, now)
  BY <1>1, <1>2, <1>3, <1>9, FeedOpenLate, FeedWriteLate
<1>10. CASE FeedGlob(p) \/ FeedPrune(p, config.fails)
  BY <1>1, <1>2, <1>10, FeedGlobLate, FeedPruneLate
<1>. QED BY <1>2, <1>6, <1>7, <1>8, <1>9, <1>10 DEF FeedStep

(* A pack that mirrors no more, or dies.                                   *)
LEMMA MirrorsEndLate ==
    ASSUME PacksInv, PacksInv', LateInv, NEW p \in Procs, Mirrored(p) \/ Crash(p)
    PROVE  LateInv'
<1>1. FeedInv /\ FeedInv' /\ now \in Nat /\ now <= now
  BY ClockTyped DEF PacksInv
<1>2. /\ mirror' = [mirror EXCEPT ![p] = NoMirror] /\ UNCHANGED <<feed, made>> /\ now' = now
  BY DEF Mirrored, Crash, FeedForgotten, treeVars
<1>3. NoMirror.stale = {} /\ NoMirror.at = "idle"
  BY DEF NoMirror
<1> HIDE DEF NoMirror
<1>4. Condemned' \subseteq Condemned
  BY <1>1, <1>2, <1>3, CondemnedWith
<1>5. MirrorsDated'
  <2>1. \A q \in Procs : mirror'[q] = IF q = p THEN NoMirror ELSE mirror[q]
    BY <1>1, <1>2 DEF FeedInv
  <2>. QED BY <1>2, <1>3, <2>1 DEF LateInv, MirrorsDated
<1>. QED BY <1>1, <1>2, <1>4, <1>5, LateQuiet

LEMMA LateStarts == Init => LateInv
<1> SUFFICES ASSUME Init PROVE LateInv
  OBVIOUS
<1>1. /\ mirror = [p \in Procs |-> NoMirror] /\ made = <<>>
      /\ \A name \in Names : name[1] = -1 /\ feed[name].mtime = 0
  BY DEF Init, FeedInit, Names
<1>2. NoMirror.at = "idle" /\ NoMirror.stale = {}
  BY DEF NoMirror
<1> HIDE DEF NoMirror
<1>3. Condemned = {}
  BY <1>1, <1>2 DEF Condemned
<1>4. MadeDated
  <2>1. DOMAIN made = {}
    BY <1>1
  <2>. QED BY <2>1, FS_EmptySet DEF MadeDated
<1>5. NamesDated /\ MirrorsDated /\ CondemnedLate
  BY <1>1, <1>2, <1>3 DEF NamesDated, MirrorsDated, CondemnedLate
<1>. QED BY <1>4, <1>5 DEF LateInv

LEMMA LateKept == PacksInv /\ LateInv /\ [Next]_vars => LateInv'
<1> SUFFICES ASSUME PacksInv, LateInv, [Next]_vars PROVE LateInv'
  OBVIOUS
<1>1. PacksInv'
  BY PacksKept
<1>2. CASE \E p \in Procs : Mirrors(p) \/ Mirrored(p) \/ Crash(p)
  BY <1>1, <1>2, MirrorsLate, MirrorsEndLate
<1>3. ASSUME UNCHANGED feedVars, now \in Nat, now' \in Nat, now <= now'
      PROVE  LateInv'
  <2>1. UNCHANGED <<feed, mirror, made>> /\ FeedInv /\ FeedInv'
    BY <1>1, <1>3 DEF feedVars, PacksInv
  <2>2. Condemned' \subseteq Condemned
    BY <2>1 DEF Condemned
  <2>3. MirrorsDated'
    <3>1. /\ Second(now) \in Nat /\ Second(now') \in Nat
          /\ Second(now) <= Second(now')
      BY <1>3, SecondGrows
    <3>. QED BY <2>1, <3>1 DEF LateInv, MirrorsDated
  <2>. QED BY <1>3, <2>1, <2>2, <2>3, LateQuiet
<1>. QED BY <1>2, <1>3, OthersLeaveFeed DEF Next

----------------------------------------------------------------------------
(* The theorems                                                            *)

(* The files, the indexes, the scans, the rows, the feed and the packs     *)
(* have their types, however many processes pack at once and die.          *)
THEOREM PacksTyped == Spec => []TypeOK
<1>1. PacksInv => TypeOK
  <2> SUFFICES ASSUME PacksInv PROVE TypeOK
    OBVIOUS
  <2>1. ScanTypeOK /\ FeedTypeOK /\ HistoryTypeOK
    BY ScanTyped, FeedTyped, HistoryIsTyped DEF PacksInv
  <2>2. PackTyped
    BY DEF PacksInv, PackInv
  <2>3. \A p \in Procs :
          /\ pack[p].at \in {"idle", "scan", "score", "mirror", "append", "attach"}
          /\ pack[p].run \in stamped \cup {Nothing}
    BY <2>2 DEF PackTyped, Pack
  <2>. QED BY <2>1, <2>2, <2>3 DEF TypeOK, PackTyped
<1>. QED BY <1>1, PacksAlways, PTL

(* A record that a scan reuses because size and mtime match is right       *)
(* whenever all readings under that mtime are one, whichever scans of      *)
(* whichever settings saved and migrated the index at the same time.       *)
THEOREM ScanReusesRight == Spec => []IndexTrue
<1>1. PacksInv => IndexTrue
  BY ScanIndexTrue DEF PacksInv
<1>. QED BY <1>1, PacksAlways, PTL

(* No index mixes the entries of different settings unless a save landed   *)
(* between the two reads of a scan with other settings.                    *)
THEOREM ScanSettingsKeptApart == Spec => []SettingsApart
<1>1. SettingsInv => SettingsApart
  BY DEF SettingsInv, SettingsApart, SettingsNeverMix, IndexApart, Apart, StoredIndexes
<1>. QED BY <1>1, PacksAlways, SettingsStart, SettingsKept, PTL DEF Spec

(* A scan that did not stop at the file limit has every included file that *)
(* was there all along.                                                    *)
THEOREM ScanCapKeptHonest == Spec => []CapHonest
<1>1. PacksInv => CapHonest
  BY ScanCapHonest DEF PacksInv
<1>. QED BY <1>1, PacksAlways, PTL

(* The feed holds no more than Keep reports besides those that a prune is  *)
(* deleting or a dead or failed one left, however many packs mirror at     *)
(* once.                                                                   *)
THEOREM FeedKeptBounded == Spec => []FeedBounded
<1>1. PacksInv => FeedBounded
  BY DEF PacksInv, FeedInv
<1>. QED BY <1>1, PacksAlways, PTL

(* No run counts twice, except imported ones when migrations overlapped.   *)
THEOREM HistoryCountsOnce == Spec => []NoRunTwice
<1>1. PacksInv => NoRunTwice
  BY HistoryNoRunTwice DEF PacksInv
<1>. QED BY <1>1, PacksAlways, PTL

(* A run that was recorded is found again, or MaxRows newer ones are, or   *)
(* it waits for a migration, unless one failed or died or a command made   *)
(* the database first.                                                     *)
THEOREM HistoryKeepsRuns == Spec => []RunsKept
<1>1. PacksInv => RunsKept
  BY HistoryRunsKept DEF PacksInv
<1>. QED BY <1>1, PacksAlways, PTL

(* A row of the history points to the whole report of its own run, if the  *)
(* file is still there and its name was not picked twice, however many     *)
(* packs mirror, prune, append and die at once.                            *)
THEOREM RowsFindTheirReports == Spec => []RowsPointHome
<1>1. PacksInv /\ HomeInv => RowsPointHome
  <2> SUFFICES ASSUME PacksInv, HomeInv, NEW i \in DOMAIN Connected,
                      Connected[i].artifact \in Names \ reused
               PROVE  feed[Connected[i].artifact].holds = {Connected[i].run}
    BY DEF RowsPointHome
  <2>1. Connected = Rows(history)
    BY DEF Connected, Rows
  <2>2. Connected[i].artifact \in Int \X Nat
    BY DEF PacksInv, FeedInv
  <2>. QED BY <2>1, <2>2 DEF HomeInv, RowsHome, Points, Told, Names
<1>. QED BY <1>1, HomeStarts, HomeKept, PacksAlways, PTL DEF Spec

(* A report is deleted only while Keep files at least as new remain, unless*)
(* a prune was overtaken, however many prunes use listings of their own at *)
(* once.                                                                   *)
THEOREM NewestReportsKept == Spec => NewestKept
<1> DEFINE A == ~overtaken => \A name \in Names \ DOMAIN feed' :
         Cardinality({m \in DOMAIN feed' : feed'[m].mtime >= feed[name].mtime}) >= Keep
<1>1. PacksInv /\ KeptInv /\ [Next]_vars => A
  <2> SUFFICES ASSUME PacksInv, KeptInv, [Next]_vars PROVE A
    OBVIOUS
  <2>1. FeedInv /\ FeedInv'
    BY PacksKept DEF PacksInv
  <2>2. Names' = DOMAIN feed'
    BY DEF Names
  <2>3. CASE Names \subseteq Names'
    BY <2>2, <2>3
  <2>4. ASSUME NEW p \in Procs, FeedPrune(p, config.fails), now' = now
        PROVE  A
    BY <2>1, <2>2, <2>4, FeedPruneKept
  <2>. QED BY <2>1, <2>3, <2>4, StepsKeep, FeedGlobKept DEF FeedTouches
<1>2. Spec => []KeptInv
  BY KeptStarts, KeptKept, PacksAlways, PTL DEF Spec
<1>. QED BY <1>1, <1>2, PacksAlways, PTL DEF Spec, NewestKept

(* A prune has the name of a report under way on its list only if Keep     *)
(* others were written since its second, however many packs pick the same  *)
(* names, list, delete, fail and die at once: what NewestReportsKept       *)
(* excepts takes Keep reports written between the second of a report and   *)
(* the writing of its file.                                                *)
THEOREM OvertakersAreKeep == Spec => []OvertakenByKeep
<1>1. PacksInv /\ LateInv => OvertakenByKeep
  <2> SUFFICES ASSUME PacksInv, LateInv, NEW p \in Procs,
                      mirror[p].at \in {"open", "write"}, mirror[p].name \in Condemned
               PROVE  Cardinality(Later(mirror[p].name)) >= Keep
    BY DEF OvertakenByKeep, Later
  <2>1. now \in Nat /\ mirror[p].name[1] \in 0..Second(now)
    BY ClockTyped DEF PacksInv, LateInv, MirrorsDated
  <2>2. Second(now) \in Nat
    BY <2>1, SecondGrows
  <2>. QED BY <2>1, <2>2 DEF LateInv, CondemnedLate
<1>. QED BY <1>1, PacksAlways, LateStarts, LateKept, PTL DEF Spec

=============================================================================
