------------------------------ MODULE RunFeed ------------------------------
(***************************************************************************)
(* The run feed (src/redcon/core/run_feed.py): every pack mirrors its      *)
(* report into .redcon/runs, under a name made of the second it was        *)
(* generated in, and deletes all but the newest files.                     *)
(*                                                                         *)
(* A name is <<second, n>>, n being 0 or the counter of the name; a file   *)
(* is the set of runs whose text it holds (none when it was only opened,   *)
(* several when their writes mixed) and its mtime.                         *)
(***************************************************************************)
EXTENDS PackProcesses, Functions

CONSTANTS
    Keep        \* RUN_FEED_MAX_FILES

ASSUME FeedConstants == Keep \in Nat

VARIABLES
    feed,       \* the files, by name
    mirror,     \* mirror[p]: the call p is in; its name, the run it mirrors,
                \* whether the file it opened still is at the name, and the
                \* names it is about to delete
    unpruned,   \* observer: names opened, or left by a prune that died or
                \* could not delete them, since the last prune listed the feed
    made,       \* observer: when a pack last wrote at a name it made
    reused,     \* observer: names picked twice, by two packs before they were
                \* taken or again after the file was pruned
    overtaken   \* observer: a report was opened or written at a name that a
                \* prune under way had listed

feedVars == <<feed, mirror, unpruned, made, reused, overtaken>>

NoMirror == [at |-> "idle", name |-> Nothing, run |-> Nothing,
             linked |-> FALSE, stale |-> {}]

(* Files of earlier runs, of a second before the first that is modelled.   *)
FeedInit(old) ==
    /\ feed = [name \in {-1} \X (1..old) |-> [holds |-> {}, mtime |-> 0]]
    /\ mirror = [p \in Procs |-> NoMirror]
    /\ unpruned = {}
    /\ made = <<>>
    /\ reused = {}
    /\ overtaken = FALSE

Names == DOMAIN feed

(* The names that prunes under way are about to delete.                    *)
Condemned == UNION {mirror[p].stale : p \in Procs}

(* Mutant of FreeName: the counter is not tried.                           *)
FreeNameStamp(second) == <<second, 0>>

(* _next_artifact_path                                                     *)
FreeName(second) ==
    <<second, CHOOSE n \in 0..Cardinality(Names) :
                /\ <<second, n>> \notin Names
                /\ \A m \in 0..(n - 1) : <<second, m>> \in Names>>

FeedPick(p, run, second) ==
    /\ mirror[p].at = "idle"
    /\ mirror' = [mirror EXCEPT ![p] =
         [NoMirror EXCEPT !.at = "open", !.run = run, !.name = FreeName(second)]]
    /\ reused' = reused \cup ({FreeName(second)} \cap
         ((DOMAIN made \ Names) \cup
            {mirror[q].name : q \in {r \in Procs : mirror[r].at = "open"}}))
    /\ UNCHANGED <<feed, unpruned, made, overtaken>>

(* write_text opens the file: made, or emptied if another pack has taken   *)
(* the same name meanwhile.                                                *)
FeedOpen(p, time) ==
    /\ mirror[p].at = "open"
    /\ feed' = Put(feed, mirror[p].name, [holds |-> {}, mtime |-> time])
    /\ mirror' = [mirror EXCEPT ![p].at = "write", ![p].linked = TRUE]
    /\ unpruned' = unpruned \cup {mirror[p].name}
    /\ made' = Put(made, mirror[p].name, time)
    /\ overtaken' = (overtaken \/ mirror[p].name \in Condemned)
    /\ UNCHANGED reused

(* The text reaches the file, which a prune may have unlinked.  Over       *)
(* another report it may leave the end of that standing.                   *)
FeedWrite(p, time) ==
    LET m == mirror[p]
    IN  /\ m.at = "write"
        /\ IF m.linked
             THEN \E rest \in {{}, feed[m.name].holds} :
                    feed' = [feed EXCEPT ![m.name] =
                               [holds |-> {m.run} \cup rest, mtime |-> time]]
             ELSE feed' = feed
        /\ mirror' = [mirror EXCEPT ![p].at = "glob", ![p].linked = FALSE]
        /\ made' = IF m.linked THEN [made EXCEPT ![m.name] = time] ELSE made
        /\ overtaken' = (overtaken \/ (m.linked /\ m.name \in Condemned))
        /\ UNCHANGED <<unpruned, reused>>

(* Files of one mtime come in the order of the directory, the same for all *)
(* who list it; here the order of names.                                   *)
Newer(a, b) ==
    \/ feed[a].mtime > feed[b].mtime
    \/ feed[a].mtime = feed[b].mtime /\ (a[1] < b[1] \/ (a[1] = b[1] /\ a[2] < b[2]))

Rank(name) == Cardinality({other \in Names : Newer(other, name)})

(* Mutants of Stale: the oldest are kept; one file too many is kept; one   *)
(* too few.                                                                *)
StaleNewest == {name \in Names : Cardinality(Names) - 1 - Rank(name) >= Keep}
StaleLess == {name \in Names : Rank(name) > Keep}
StaleMore == {name \in Names : Rank(name) + 1 >= Keep}

(* The files beyond the newest Keep.                                       *)
Stale == {name \in Names : Rank(name) >= Keep}

(* Where a prune is that still has these names to delete.                  *)
Pruning(names) == IF names = {} THEN "done" ELSE "prune"

FeedGlob(p) ==
    /\ mirror[p].at = "glob"
    /\ mirror' = [mirror EXCEPT ![p].at = Pruning(Stale), ![p].stale = Stale]
    /\ unpruned' = {}
    /\ UNCHANGED <<feed, made, reused, overtaken>>

(* A file that another prune deletes between the listing and the stat of   *)
(* this one raises, and nothing is deleted.                                *)
FeedGlobRaises(p) ==
    /\ mirror[p].at = "glob"
    /\ \E q \in Procs \ {p} : mirror[q].stale \cap Names # {}
    /\ mirror' = [mirror EXCEPT ![p].at = "done"]
    /\ UNCHANGED <<feed, unpruned, made, reused, overtaken>>

(* One name after the other, whatever is there by now; an unlink that      *)
(* fails leaves its file to a later prune.                                 *)
FeedPrune(p, fails) ==
    /\ mirror[p].at = "prune"
    /\ \E name \in mirror[p].stale :
         LET rest == mirror[p].stale \ {name}
         IN  \/ /\ feed' = Restrict(feed, Names \ {name})
                /\ mirror' = [q \in Procs |->
                     IF q = p THEN [mirror[p] EXCEPT !.at = Pruning(rest), !.stale = rest]
                     ELSE [mirror[q] EXCEPT !.linked = @ /\ mirror[q].name # name]]
                /\ unpruned' = unpruned \ {name}
             \/ /\ fails
                /\ mirror' = [mirror EXCEPT ![p].at = Pruning(rest), ![p].stale = rest]
                /\ unpruned' = unpruned \cup ({name} \cap Names)
                /\ UNCHANGED feed
    /\ UNCHANGED <<made, reused, overtaken>>

(* The write fails: no path is returned and nothing is pruned.             *)
FeedFails(p) ==
    /\ mirror[p].at \in {"open", "write"}
    /\ mirror' = [mirror EXCEPT ![p] =
                    [NoMirror EXCEPT !.at = "done", !.run = mirror[p].run]]
    /\ UNCHANGED <<feed, unpruned, made, reused, overtaken>>

FeedStep(p, time, fails) ==
    \/ FeedOpen(p, time)
    \/ FeedWrite(p, time)
    \/ FeedGlob(p)
    \/ FeedGlobRaises(p)
    \/ FeedPrune(p, fails)
    \/ fails /\ FeedFails(p)

FeedForgotten(p) ==
    /\ mirror' = [mirror EXCEPT ![p] = NoMirror]
    /\ unpruned' = unpruned \cup (mirror[p].stale \cap Names)
    /\ UNCHANGED <<feed, made, reused, overtaken>>

----------------------------------------------------------------------------
(* Prunes of several packs at once, each by a listing of its own that gets *)
(* old before it is used, do not add up: a report is deleted only while    *)
(* Keep files at least as new remain (prune_run_feed).  Excepted are feeds *)
(* in which a report was written while a prune had its name.               *)
NewestKept ==
    [][~overtaken => \A name \in Names \ DOMAIN feed' :
         Cardinality({m \in DOMAIN feed' : feed'[m].mtime >= feed[name].mtime}) >= Keep]_feedVars

(* The feed does not grow: beyond Keep files there are only those that a   *)
(* prune under way is about to delete, and those opened, or left by a      *)
(* prune that died or failed on them, since the last prune listed them.    *)
FeedBounded ==
    Cardinality(Names \ (Condemned \cup unpruned)) <= Keep

FeedTypeOK ==
    /\ \A name \in Names :
         /\ name \in Int \X Nat
         /\ feed[name].mtime \in Nat
    /\ \A p \in Procs :
         /\ mirror[p].at \in {"idle", "open", "write", "glob", "prune", "done"}
         /\ mirror[p].linked => mirror[p].name \in Names
         /\ mirror[p].stale \subseteq Int \X Nat
    /\ unpruned \cup DOMAIN made \cup reused \subseteq Int \X Nat
    /\ \A name \in DOMAIN made : made[name] \in Nat
    /\ overtaken \in BOOLEAN
=============================================================================
