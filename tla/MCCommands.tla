----------------------------- MODULE MCCommands -----------------------------
(***************************************************************************)
(* Sessions of three calls of one or two commands that print the tree and  *)
(* end, under eight ways to call compress_command; and single calls of     *)
(* commands with every habit the runner has an answer to.                  *)
(***************************************************************************)
EXTENDS CmdSession

CONSTANTS status, diff, make

MCBytes == {"a", "b", "c"}
MCTokens == [l \in MCBytes |-> 4]

Roomy == [remaining |-> 100, max |-> 100, floor |-> "compact"]
Tight == [remaining |-> 10, max |-> 3, floor |-> "ultra"]
Spent == [remaining |-> 0, max |-> 1, floor |-> "ultra"]
Empty == [remaining |-> 0, max |-> 1, floor |-> "compact"]

Few == {<<"a">>, <<"a", "b">>, <<"a", "a">>}

Session(cached, deltas, aliases, hints, outputs, edits) ==
    [argvs |-> {status}, cache |-> cached, delta |-> deltas, ledger |-> aliases, hints |-> hints,
     outputs |-> outputs, faulty |-> {}, calls |-> 3, changes |-> edits]

Both(n, m) ==
    [s \in Streams |->
       [i \in 1..(IF s = "stdout" THEN n ELSE m) |-> <<"a", "b", "c">>[(i % 3) + 1]]]

Chatty == [Idle EXCEPT !.output = Both(5, 1)]

Faulty ==
    {Chatty,
     [Chatty EXCEPT !.starts = FALSE],
     [Chatty EXCEPT !.ends = FALSE],
     [Chatty EXCEPT !.ends = FALSE, !.stubborn = TRUE],
     [Idle EXCEPT !.output = Both(1, 1), !.ends = FALSE, !.unkillable = TRUE],
     [Idle EXCEPT !.output = Both(1, 1), !.detaches = TRUE],
     [Idle EXCEPT !.output = Both(1, 1), !.forks = TRUE]}

MCDeployments ==
    {Session(TRUE, FALSE, "none", {Roomy, Tight, Empty},
             {<<"a">>, <<"a", "b", "c", "a", "b">>}, 2),
     Session(TRUE, FALSE, "path", {Roomy}, Few, 2),
     Session(FALSE, TRUE, "none", {Roomy, Tight},
             Few \cup {<<"a", "b", "c">>, <<"a", "b", "c", "b">>}, 2),
     Session(FALSE, TRUE, "path", {Roomy}, Few, 2),
     Session(FALSE, FALSE, "block", {Roomy}, Few, 2),
     Session(TRUE, TRUE, "symbol", {Roomy}, Few, 2),
     [Session(TRUE, FALSE, "none", {Roomy, Tight}, Few, 1)
        EXCEPT !.argvs = {status, make}, !.calls = 2],
     [Session(TRUE, FALSE, "none", {Roomy, Spent}, {<<>>, <<"a">>}, 1)
        EXCEPT !.argvs = {diff}],
     [Session(FALSE, FALSE, "none", {Roomy}, {<<"a">>}, 0)
        EXCEPT !.faulty = Faulty, !.calls = 1]}

=============================================================================
