------------------------------ MODULE MCPacks ------------------------------
(***************************************************************************)
(* Two processes: scans of a tree of two files that is edited, under the   *)
(* same and under different settings, and the records of three packs, with *)
(* and without a history to import.                                        *)
(***************************************************************************)
EXTENDS Packs, TLC

CONSTANTS p1, p2, f1, f2, c1, c2

MCWalk == <<f1, f2>>

MCSize == [c \in {c1, c2} |-> 1]

MCLegacy == {-2, -1}

Scanning(second, limit, n, changes, deaths) ==
    [scans |-> TRUE, rules |-> (p1 :> {f1, f2} @@ p2 :> second), limit |-> limit,
     contents |-> {c1}, imports |-> FALSE, feed |-> 0, edited |-> {f1}, fails |-> TRUE, commands |-> FALSE,
     attaches |-> FALSE, packs |-> n, edits |-> changes, crashes |-> deaths]

Recording(imports, n, fails, commands, deaths) ==
    [scans |-> FALSE, rules |-> <<>>, limit |-> 0,
     contents |-> {c1}, imports |-> imports,
     feed |-> IF imports /\ fails THEN 0 ELSE Keep, edited |-> {}, fails |-> fails, commands |-> commands,
     attaches |-> ~imports, packs |-> n, edits |-> 0, crashes |-> deaths]

MCDeployments ==
    {Scanning({f1, f2}, 2, 2, 2, 0),
     Scanning({f1}, 2, 2, 2, 0),
     Scanning({f1, f2}, 1, 2, 1, 0),
     Scanning({f1}, 2, 3, 1, 0),
     Scanning({f1}, 2, 2, 1, 1),
     Recording(TRUE, 3, FALSE, FALSE, 0),
     Recording(TRUE, 2, FALSE, TRUE, 1),
     Recording(TRUE, 2, TRUE, FALSE, 0),
     Recording(FALSE, 2, TRUE, TRUE, 0),
     Recording(FALSE, 3, FALSE, FALSE, 1)}

(* Three scans of an unedited tree, where one process leaves out a file.   *)
MCTwoSettings == {Scanning({f1}, 2, 3, 0, 0)}

=============================================================================
