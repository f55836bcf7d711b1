------------------------------- MODULE Packs -------------------------------
(***************************************************************************)
(* Packs of one repository by several processes: what run_pack of          *)
(* src/redcon/core/pipeline.py does to the files they share.  A pack scans *)
(* the tree, loads the history to score the files, and, unless it was told *)
(* not to, mirrors its report into the feed and appends a run to the       *)
(* history, to which the command line then attaches its own artifacts.     *)
(*                                                                         *)
(* The scan shares no file with the records, so a deployment looks at the  *)
(* one or at the other.                                                    *)
(***************************************************************************)
EXTENDS ScanIndex, RunHistory, RunFeed

CONSTANTS
    PerSecond,      \* clock ticks in a second
    RunJson,        \* the file a command writes its report to
    Deployments     \* what is looked at (scans or records), the settings of
                    \* processes (rules) and the file limit, whether there is
                    \* a JSON history (imports) and how large a feed,
                    \* what files hold at first (contents), the files that
                    \* change (edited), what may go wrong (fails, crashes,
                    \* commands), and how many packs, edits and crashes
                    \* there are

ASSUME PacksConstants ==
    /\ PerSecond \in Nat \ {0}
    /\ Nothing \notin Seq([run : Int, artifact : {Nothing, RunJson} \cup (Int \X Nat)])
    /\ {Nothing, RunJson} \cap (Int \X Nat) = {}
    /\ \A d \in Deployments :
         /\ d.scans => d.rules \in [Procs -> SUBSET Files]
         /\ d.feed \in 0..Keep
         /\ d.contents \subseteq Contents
         /\ d.edited \subseteq Files
         /\ d.packs \in Nat /\ d.edits \in Nat /\ d.crashes \in Nat

VARIABLES
    config,     \* the deployment
    pack,       \* pack[p]: the stage p is in, its run and its artifact
    stamped,    \* the generated_at of all reports so far
    packs, edits, crashes

wiring == <<config, pack, stamped, packs, edits, crashes>>
vars == <<treeVars, scanVars, historyVars, feedVars, wiring>>

NoPack == [at |-> "idle", run |-> Nothing, artifact |-> Nothing]

Init ==
    /\ config \in Deployments
    /\ ScanInit(config.contents)
    /\ HistoryInit(config.imports)
    /\ FeedInit(config.feed)
    /\ pack = [p \in Procs |-> NoPack]
    /\ stamped = {}
    /\ packs = 0
    /\ edits = 0
    /\ crashes = 0

Second(run) == run \div PerSecond

Stage(p, from, to) == pack[p].at = from /\ pack' = [pack EXCEPT ![p].at = to]

(* A generated_at of microseconds: no two reports have the same.           *)
Stamp(p) ==
    /\ now < MaxTime
    /\ now' = now + 1
    /\ stamped' = stamped \cup {now}
    /\ pack' = [pack EXCEPT ![p].run = now, ![p].at = "mirror"]

----------------------------------------------------------------------------
PackBegins(p) ==
    /\ pack[p].at = "idle"
    /\ packs < config.packs
    /\ packs' = packs + 1
    /\ IF config.scans
         THEN /\ ScanBegin(p, config.rules[p])
              /\ pack' = [pack EXCEPT ![p].at = "scan"]
              /\ UNCHANGED <<treeVars, historyVars, feedVars>>
         ELSE /\ HistoryCheck(p, "load")
              /\ pack' = [pack EXCEPT ![p].at = "score"]
              /\ UNCHANGED <<treeVars, scanVars, feedVars>>
    /\ UNCHANGED <<config, stamped, edits, crashes>>

Scans(p) ==
    /\ pack[p].at = "scan"
    /\ ScanStep(p, config.limit, config.fails)
    /\ UNCHANGED <<treeVars, historyVars, feedVars, wiring>>

(* The pack goes on with what the scan found, and nothing else is shared.  *)
ScanEnds(p) ==
    /\ Stage(p, "scan", "idle")
    /\ scan[p].at = "scanned"
    /\ ScanForgotten(p)
    /\ UNCHANGED <<treeVars, json, db, torn, historyVars, feedVars, config, stamped,
                   packs, edits, crashes>>

UsesHistory(p) ==
    /\ pack[p].at \in {"score", "append"}
    /\ HistoryStep(p, pack[p].run, pack[p].artifact, config.fails)
    /\ UNCHANGED <<treeVars, scanVars, feedVars, wiring>>

(* The files are scored and packed, and the report is made.                *)
Reports(p) ==
    /\ pack[p].at = "score" /\ hist[p].at = "done"
    /\ Stamp(p)
    /\ hist' = [hist EXCEPT ![p] = NoHistory]
    /\ UNCHANGED <<disk, readable, shown, scanVars, legacy, history, recorded, spoiled,
                   overlapped, feedVars, config, packs, edits, crashes>>

Mirrors(p) ==
    /\ pack[p].at = "mirror"
    /\ \/ FeedPick(p, pack[p].run, Second(pack[p].run))
       \/ FeedStep(p, now, config.fails)
    /\ UNCHANGED <<treeVars, scanVars, historyVars, wiring>>

(* The row will point to the report, if there is one.                      *)
Mirrored(p) ==
    /\ pack[p].at = "mirror" /\ mirror[p].at = "done"
    /\ pack' = [pack EXCEPT ![p].at = "append", ![p].artifact = mirror[p].name]
    /\ mirror' = [mirror EXCEPT ![p] = NoMirror]
    /\ HistoryCheck(p, "append")
    /\ UNCHANGED <<treeVars, scanVars, feed, unpruned, made, reused, overtaken, config,
                   stamped, packs, edits, crashes>>

(* What run_pack returns to; a command attaches the file it wrote.         *)
PackEnds(p) ==
    /\ Stage(p, "append", IF config.attaches THEN "attach" ELSE "idle")
    /\ hist[p].at = "done"
    /\ hist' = [hist EXCEPT ![p] = NoHistory]
    /\ UNCHANGED <<treeVars, scanVars, legacy, history, recorded, spoiled, overlapped,
                   feedVars, config, stamped, packs, edits, crashes>>

Attaches(p) ==
    /\ Stage(p, "attach", "idle")
    /\ UpdateRow(pack[p].run, RunJson)
    /\ UNCHANGED <<treeVars, scanVars, feedVars, config, stamped, packs, edits, crashes>>

(* The world                                                               *)

TimePasses == Tick /\ UNCHANGED <<scanVars, historyVars, feedVars, wiring>>

TreeChanges ==
    /\ edits < config.edits
    /\ edits' = edits + 1
    /\ \E f \in config.edited :
         \/ (Edit(f) \/ Chmod(f)) /\ UNCHANGED stayed
         \/ Delete(f) /\ Deleted(f)
    /\ UNCHANGED <<json, db, scan, torn, historyVars, feedVars, config, pack, stamped,
                   packs, crashes>>

CommandRuns ==
    /\ config.commands
    /\ CommandRecorded
    /\ UNCHANGED <<treeVars, scanVars, feedVars, wiring>>

(* A process is killed, or a write that nobody catches raises.             *)
Crash(p) ==
    /\ pack[p].at # "idle"
    /\ crashes < config.crashes
    /\ crashes' = crashes + 1
    /\ pack' = [pack EXCEPT ![p] = NoPack]
    /\ ScanForgotten(p)
    /\ HistoryForgotten(p)
    /\ FeedForgotten(p)
    /\ UNCHANGED <<treeVars, json, db, torn, config, stamped, packs, edits>>

Next ==
    \/ \E p \in Procs :
         \/ PackBegins(p)
         \/ Scans(p)
         \/ ScanEnds(p)
         \/ UsesHistory(p)
         \/ Reports(p)
         \/ Mirrors(p)
         \/ Mirrored(p)
         \/ PackEnds(p)
         \/ Attaches(p)
         \/ Crash(p)
    \/ TimePasses
    \/ TreeChanges
    \/ CommandRuns

Spec == Init /\ [][Next]_vars

----------------------------------------------------------------------------
(* A row of the history points to the whole report of its own run, if the  *)
(* file is still there, although the name is made of the second, chosen    *)
(* before it is taken, and the row is written after the file: unless the   *)
(* name was picked twice, by two packs at the same time                    *)
(* (pipeline.py:589-631, run_feed.py:49-71) or again within the second     *)
(* after its file was pruned.                                              *)
RowsPointHome ==
    \A i \in DOMAIN Connected :
        Connected[i].artifact \in Names \ reused =>
            feed[Connected[i].artifact].holds = {Connected[i].run}

(* What NewestKept excepts takes Keep packs: a prune has the name of a     *)
(* report under way on its list only if Keep others were written since the *)
(* second the report was generated in, although packs share names, pick    *)
(* those of pruned files again, and list the feed while others write       *)
(* (run_feed.py:49-54).                                                    *)
OvertakenByKeep ==
    \A p \in Procs :
        /\ mirror[p].at \in {"open", "write"}
        /\ mirror[p].name \in Condemned
        => Cardinality({name \in DOMAIN made \ {mirror[p].name} :
                          Second(made[name]) >= mirror[p].name[1]}) >= Keep

(* The types of the parts and of the wiring.                               *)
TypeOK ==
    /\ ScanTypeOK
    /\ HistoryTypeOK
    /\ FeedTypeOK
    /\ config \in Deployments
    /\ \A p \in Procs :
         /\ pack[p].at \in {"idle", "scan", "score", "mirror", "append", "attach"}
         /\ pack[p].run \in stamped \cup {Nothing}
    /\ stamped \subseteq 0..now
    /\ packs \in 0..config.packs
    /\ edits \in 0..config.edits
    /\ crashes \in 0..config.crashes
=============================================================================
