------------------------- MODULE MCDeliveryService --------------------------
(***************************************************************************)
(* DeliveryService on small instances: one or two groups, their creator    *)
(* and a second device that is admitted, removed and admitted again.       *)
(***************************************************************************)
EXTENDS DeliveryService, TLC

CONSTANTS g1, g2, d1, d2, m1, m2, m3, i1, i2, i3, x1, x2, x3

MCOperation(g, corr, remove) ==
    [correlation |-> corr, group |-> g, author |-> d1, target |-> d2,
     role |-> 0, remove |-> remove]

MCUpload(g, author, message, id, kind, corr) ==
    [id |-> id, group |-> g, author |-> author, message |-> message,
     body |-> id, kind |-> kind, correlation |-> corr]

\* Two messages of one author in one group.
MCPair == {MCUpload(g1, d1, m1, i1, 1, None), MCUpload(g1, d1, m2, i2, 1, None)}

\* One client message uploaded under two event ids, another message that reuses
\* the second of these ids, the commit of the admission, and the removal of the
\* second author.
MCContended ==
    [creators |-> {<<g1, d1>>},
     uploads |-> {MCUpload(g1, d1, m1, i1, 1, None), MCUpload(g1, d1, m1, i2, 1, None),
                  MCUpload(g1, d2, m2, i2, 1, None),
                  MCUpload(g1, d1, m3, i3, MlsCommit, x1)},
     operations |-> {MCOperation(g1, x1, FALSE), MCOperation(g1, x2, TRUE)},
     scopes |-> {}, requested |-> {}, retention |-> TRUE, maxCursor |-> 3]

\* A reader pages while positions are moved.
MCPaging ==
    [creators |-> {<<g1, d1>>},
     uploads |-> MCPair, operations |-> {MCOperation(g1, x1, FALSE)},
     scopes |-> {g1}, requested |-> {0, 1, 3}, retention |-> TRUE, maxCursor |-> 2]

\* Two groups under one cursor; the reader's own, and one that it joins, leaves
\* and joins again.
MCRoaming ==
    [creators |-> {<<g1, d2>>, <<g2, d1>>},
     uploads |-> {MCUpload(g1, d2, m1, i1, 1, None), MCUpload(g2, d1, m2, i2, 1, None)},
     operations |-> {MCOperation(g2, x1, FALSE), MCOperation(g2, x2, TRUE),
                     MCOperation(g2, x3, FALSE)},
     scopes |-> {Global}, requested |-> {}, retention |-> FALSE, maxCursor |-> 2]

MCSymmetry == Permutations(Handlers)

MCScenarios == {MCContended, MCPaging, MCRoaming}

\* Two messages of one author and a page that holds both.
MCRacing ==
    {[MCPaging EXCEPT !.requested = {}, !.retention = FALSE]}
=============================================================================
