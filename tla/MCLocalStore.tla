---------------------------- MODULE MCLocalStore ----------------------------
(***************************************************************************)
(* LocalStore on small instances.  Pages hold up to two rows, so that a    *)
(* page can repeat an event id with another ciphertext, and one page is    *)
(* longer than BatchLimit.                                                 *)
(***************************************************************************)
EXTENDS LocalStore

MCBatches ==
    [1 .. 2 -> EventRows] \cup [1 .. BatchLimit + 1 -> EventRows]

MCNoBatches == {}
=============================================================================
