------------------------------ MODULE MCUpdater ------------------------------
(* Three releases: the second packs a file the others do not have.          *)
EXTENDS Updater

MCContent == [v \in Versions |-> IF v = 1 THEN {"a", "b"} ELSE {"a"}]
=============================================================================
