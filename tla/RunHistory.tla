----------------------------- MODULE RunHistory ----------------------------
(***************************************************************************)
(* The run history of a repository (src/redcon/cache/run_history.py and    *)
(* run_history_sqlite.py): processes load it to score files and append to  *)
(* it, and the first that finds no database imports the JSON file of an    *)
(* earlier version.  `redcon run' keeps its own table in the same database *)
(* (cmd/history.py).                                                       *)
(*                                                                         *)
(* A run is named by its generated_at, which orders runs; a row is a run   *)
(* and the artifact it points to.  Every caller leaves use_sqlite TRUE, so *)
(* the JSON file is only ever imported.                                    *)
(***************************************************************************)
EXTENDS PackProcesses, Sequences, FiniteSetsExt

CONSTANTS
    Legacy,     \* the runs a JSON file of an earlier version may hold
    MaxRows     \* history_max_entries, and the 200 a load returns

(* The runs of an earlier version began before the clock of the model.     *)
ASSUME HistoryConstants ==
    /\ Legacy \subseteq Int \ Nat
    /\ IsFiniteSet(Legacy)
    /\ MaxRows \in Nat
    /\ Nothing \notin Seq(Int)

VARIABLES
    legacy,     \* history.json: runs in order, or Nothing
    history,    \* history.db: the rows in the order of their ids, or Nothing
    hist,       \* hist[p]: the load or append that p is in; while it imports,
                \* the runs, and whether its database is still at the path
    recorded,   \* observer: runs that an append has said it recorded, and
                \* those in the JSON file
    spoiled,    \* observer: a migration failed or died, or a command made
                \* the database before any pack did
    overlapped  \* observer: two migrations were under way at once

historyVars == <<legacy, history, hist, recorded, spoiled, overlapped>>

NoHistory == [at |-> "idle", goal |-> Nothing, items |-> <<>>, linked |-> FALSE]

(* Mutant of Imported: the columns of the INSERT swapped.                  *)
ImportedSwapped(runs) == [i \in DOMAIN runs |-> [run |-> Nothing, artifact |-> runs[i]]]

(* The imported rows; which reports they point to is left out.             *)
Imported(runs) == [i \in DOMAIN runs |-> [run |-> runs[i], artifact |-> Nothing]]

(* Oldest first, as the JSON file was written.                             *)
HistoryInit(imports) ==
    /\ legacy = IF imports THEN Ascending(Legacy) ELSE Nothing
    /\ history = Nothing
    /\ hist = [p \in Procs |-> NoHistory]
    /\ recorded = IF imports THEN Legacy ELSE {}
    /\ spoiled = FALSE
    /\ overlapped = FALSE

Migrating == {p \in Procs : hist[p].at \in {"read", "schema", "commit", "rename"}}

(* For HistoryCheck: p begins a migration while another is under way.      *)
Overlaps(p) == overlapped' = (overlapped \/ (hist'[p].at = "read" /\ Migrating # {}))

(* sqlite3.connect and _ensure_schema: the file is made if there is none.  *)
Connected == IF history = Nothing THEN <<>> ELSE history

----------------------------------------------------------------------------
(* Mutant of HistoryCheck: the database is not looked for.                 *)
HistoryCheckJson(p, goal) ==
    /\ hist[p].at = "idle"
    /\ hist' = [hist EXCEPT ![p] =
         [NoHistory EXCEPT !.goal = goal,
            !.at = IF legacy # Nothing THEN "read"
                   ELSE IF goal = "load" /\ history = Nothing THEN "done" ELSE "body"]]
    /\ Overlaps(p)
    /\ UNCHANGED <<legacy, history, recorded, spoiled>>

(* load_run_history_sqlite and append_run_history_entry_sqlite begin alike;*)
(* a load that finds neither file returns nothing and makes nothing.       *)
HistoryCheck(p, goal) ==
    /\ hist[p].at = "idle"
    /\ hist' = [hist EXCEPT ![p] =
         [NoHistory EXCEPT !.goal = goal,
            !.at = IF history # Nothing THEN "body"
                   ELSE IF legacy # Nothing THEN "read"
                   ELSE IF goal = "load" THEN "done" ELSE "body"]]
    /\ Overlaps(p)
    /\ UNCHANGED <<legacy, history, recorded, spoiled>>

(* _migrate_from_json: the file is read, unless another process has        *)
(* renamed it meanwhile.                                                   *)
MigrateRead(p) ==
    /\ hist[p].at = "read"
    /\ hist' = [hist EXCEPT
         ![p].at = IF legacy = Nothing THEN "body" ELSE "schema",
         ![p].items = IF legacy = Nothing THEN <<>> ELSE legacy]
    /\ UNCHANGED <<legacy, history, recorded, spoiled, overlapped>>

(* The JSON file cannot be read or parsed, and the caller goes on to make  *)
(* an empty database.                                                      *)
MigrateUnread(p) ==
    /\ hist[p].at = "read" /\ legacy # Nothing
    /\ hist' = [hist EXCEPT ![p].at = "body"]
    /\ spoiled' = TRUE
    /\ UNCHANGED <<legacy, history, recorded, overlapped>>

(* From here the database is there, empty, for everyone to see.            *)
MigrateSchema(p) ==
    /\ hist[p].at = "schema"
    /\ history' = Connected
    /\ hist' = [hist EXCEPT ![p].at = "commit", ![p].linked = TRUE]
    /\ UNCHANGED <<legacy, recorded, spoiled, overlapped>>

(* All entries in one transaction.  In a file that was unlinked meanwhile  *)
(* it is lost, or SQLite notices and raises.                               *)
MigrateCommit(p) ==
    /\ hist[p].at = "commit"
    /\ history' = IF hist[p].linked THEN history \o Imported(hist[p].items) ELSE history
    /\ hist' = [hist EXCEPT ![p].at = "rename"]
    /\ UNCHANGED <<legacy, recorded, spoiled, overlapped>>

(* Whatever raises, the path is unlinked, whoever made the file, and the   *)
(* caller goes on as if there had been nothing to import.                  *)
MigrateFail(p) ==
    /\ hist[p].at \in {"schema", "commit"}
    /\ history' = Nothing
    /\ hist' = [q \in Procs |->
         IF q = p THEN [hist[p] EXCEPT !.at = "body", !.items = <<>>, !.linked = FALSE]
         ELSE [hist[q] EXCEPT !.linked = FALSE]]
    /\ spoiled' = TRUE
    /\ UNCHANGED <<legacy, recorded, overlapped>>

(* Nobody hears of a rename that fails; the database is there by then.     *)
MigrateRename(p, fails) ==
    /\ hist[p].at = "rename"
    /\ legacy' \in {Nothing} \cup (IF fails THEN {legacy} ELSE {})
    /\ hist' = [hist EXCEPT ![p].at = "body", ![p].items = <<>>, ![p].linked = FALSE]
    /\ UNCHANGED <<history, recorded, spoiled, overlapped>>

----------------------------------------------------------------------------
(* The ways to take MaxRows of the rows, none of them older than one left  *)
(* out; rows of one run are interchangeable (ORDER BY generated_at DESC).  *)
Selections(rows) ==
    {S \in SUBSET DOMAIN rows : Cardinality(S) = Min({Len(rows), MaxRows})}

Take(rows, S) == [i \in 1..Cardinality(S) |-> rows[Ascending(S)[i]]]

(* Mutant of Newest: the oldest rows are kept.                             *)
NewestOldest(rows) ==
    {Take(rows, S) : S \in {T \in Selections(rows) :
        \A i \in T, j \in DOMAIN rows \ T : rows[i].run <= rows[j].run}}

Newest(rows) ==
    {Take(rows, S) : S \in {T \in Selections(rows) :
        \A i \in T, j \in DOMAIN rows \ T : rows[i].run >= rows[j].run}}

(* The runs of rows, oldest first.                                         *)
OldestFirst(rows) ==
    LET turn(b) == Cardinality({a \in DOMAIN rows :
                     \/ rows[a].run < rows[b].run
                     \/ rows[a].run = rows[b].run /\ a <= b})
    IN  [k \in DOMAIN rows |-> rows[CHOOSE b \in DOMAIN rows : turn(b) = k].run]

(* The rows a load returns: the newest, oldest first.                      *)
LoadRows(p) ==
    /\ hist[p].at = "body" /\ hist[p].goal = "load"
    /\ history' = Connected
    /\ \E rows \in Newest(Connected) :
         hist' = [hist EXCEPT ![p].at = "done", ![p].items = OldestFirst(rows)]
    /\ UNCHANGED <<legacy, recorded, spoiled, overlapped>>

(* One transaction: the new row, and the deletion of all but the newest.   *)
AppendRow(p, run, artifact) ==
    /\ hist[p].at = "body" /\ hist[p].goal = "append"
    /\ \E rows \in Newest(Append(Connected, [run |-> run, artifact |-> artifact])) :
         history' = rows
    /\ recorded' = recorded \cup {run}
    /\ hist' = [hist EXCEPT ![p].at = "done"]
    /\ UNCHANGED <<legacy, spoiled, overlapped>>

(* Any error, such as a database that stays locked for five seconds, is    *)
(* an empty history to a load and an entry less to an append: both return, *)
(* so the JSON code behind them is not reached.                            *)
BodyFails(p) ==
    /\ hist[p].at = "body"
    /\ hist' = [hist EXCEPT ![p].at = "done"]
    /\ UNCHANGED <<legacy, history, recorded, spoiled, overlapped>>

(* update_run_history_artifacts_sqlite: the last row of the run.           *)
UpdateRow(run, artifact) ==
    LET ids == IF history = Nothing THEN {}
               ELSE {i \in DOMAIN history : history[i].run = run}
    IN  /\ history' = IF ids = {} THEN history
                      ELSE [history EXCEPT ![Max(ids)].artifact = artifact]
        /\ UNCHANGED <<legacy, hist, recorded, spoiled, overlapped>>

(* cmd/history.py: `redcon run' makes the database for its own table.      *)
CommandRecorded ==
    /\ history = Nothing
    /\ history' = Connected
    /\ spoiled' = (spoiled \/ legacy # Nothing)
    /\ UNCHANGED <<legacy, hist, recorded, overlapped>>

HistoryStep(p, run, artifact, fails) ==
    \/ MigrateRead(p)
    \/ MigrateSchema(p)
    \/ MigrateCommit(p)
    \/ MigrateRename(p, fails)
    \/ LoadRows(p)
    \/ AppendRow(p, run, artifact)
    \/ fails /\ (MigrateUnread(p) \/ MigrateFail(p) \/ BodyFails(p))

HistoryForgotten(p) ==
    /\ hist' = [hist EXCEPT ![p] = NoHistory]
    /\ spoiled' = (spoiled \/ hist[p].at = "commit")
    /\ UNCHANGED <<legacy, history, recorded, overlapped>>

----------------------------------------------------------------------------
(* A run whose append returned True, or that an earlier version recorded,  *)
(* is in the database or was trimmed for MaxRows newer ones, or waits in   *)
(* the JSON file for the migration that the next call starts or a process  *)
(* is in: whatever processes do at the same time, unless a migration fails *)
(* or dies or `redcon run' comes first.  After those the JSON file is out  *)
(* of reach for good, against the comment at run_history_sqlite.py:140.    *)
RunsKept ==
    \A run \in recorded :
        \/ spoiled
        \/ \E i \in DOMAIN Connected : Connected[i].run = run
        \/ Cardinality({i \in DOMAIN Connected : Connected[i].run > run}) >= MaxRows
        \/ run \in Legacy /\ legacy # Nothing /\ (history = Nothing \/ Migrating # {})

(* No run counts twice in the scores: a run has one row, whoever crashed   *)
(* between the import and the rename of the JSON file, except imported     *)
(* runs when two processes found no database and migrated at once.         *)
NoRunTwice ==
    \A i, j \in DOMAIN Connected :
        (i # j /\ Connected[i].run = Connected[j].run) =>
            (overlapped /\ Connected[i].run \in Legacy)

HistoryTypeOK ==
    /\ legacy \in {Nothing, Ascending(Legacy)}
    /\ \A i \in DOMAIN Connected : Connected[i].run \in Int
    /\ recorded \subseteq Int
    /\ \A p \in Procs :
         /\ hist[p].linked \in BOOLEAN
         /\ hist[p].at \in {"idle", "read", "schema", "commit", "rename", "body", "done"}
         /\ hist[p].goal \in {"load", "append", Nothing}
         /\ hist[p].items \in Seq(Int)
    /\ spoiled \in BOOLEAN /\ overlapped \in BOOLEAN
=============================================================================
