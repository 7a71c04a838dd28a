----------------------------- MODULE MCTransport ----------------------------
(* Instances of Transport for TLC.                                         *)
EXTENDS Transport

CONSTANTS a, b, c   \* relays

MCPriority == c :> 1 @@ a :> 2 @@ b :> 3

\* A second version with two contents, one of them empty, and a later directory
\* that is not valid.
MCDirectories ==
    {[version |-> 1, endpoints |-> {a, b}, valid |-> TRUE],
     [version |-> 2, endpoints |-> {a, b, c}, valid |-> TRUE],
     [version |-> 2, endpoints |-> {}, valid |-> TRUE],
     [version |-> 3, endpoints |-> {b}, valid |-> FALSE]}
=============================================================================
