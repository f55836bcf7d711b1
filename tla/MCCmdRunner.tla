---------------------------- MODULE MCCmdRunner ----------------------------
EXTENDS CmdRunner
Out(n, m) == [s \in Streams |-> [i \in 1..(IF s = "stdout" THEN n ELSE m) |-> i]]

(* A command that leaves a child of its own on its pipes.                  *)
MCCommands == {[Idle EXCEPT !.output = Out(1, 0), !.forks = TRUE]}
=============================================================================
