------------------------------ MODULE MCPacker ------------------------------
(* Instance of Packer for TLC: three ranked files with the shapes of       *)
(* content that matter to the packers.                                     *)
EXTENDS Packer

Full(tokens) == [body |-> tokens, imports |-> {}, full |-> TRUE]
Part(tokens, imports) == [body |-> tokens, imports |-> imports, full |-> FALSE]

MCContents ==
    {   \* a small file: its full tier carries a header over the raw tokens
        [id |-> 1, raw |-> 4, imports |-> {"os"},
         tiers |-> <<Full(5), Part(2, {"os"}), Part(1, {})>>],
        \* a large file: slice, then summary
        [id |-> 2, raw |-> 6, imports |-> {"os"},
         tiers |-> <<Part(2, {"os"}), Part(1, {})>>],
        \* only a summary
        [id |-> 3, raw |-> 2, imports |-> {}, tiers |-> <<Part(2, {})>>],
        \* a summary longer than the snippet before it
        [id |-> 4, raw |-> 3, imports |-> {"os"},
         tiers |-> <<Part(1, {"os"}), Part(3, {})>>]}

(* Degrading the first shape frees more than placing the second takes.     *)
MCSteepContents ==
    {[id |-> 1, raw |-> 6, imports |-> {}, tiers |-> <<Full(6), Part(2, {})>>],
     [id |-> 2, raw |-> 3, imports |-> {}, tiers |-> <<Part(3, {})>>],
     [id |-> 3, raw |-> 2, imports |-> {}, tiers |-> <<Part(2, {})>>]}

============================================================================
