----------------------------- MODULE MCCluster ------------------------------
(***************************************************************************)
(* Values for the constants of Cluster in its runs.                        *)
(***************************************************************************)
EXTENDS Cluster

\* Blocks without transactions, with one, and with an odd number of them, whose
\* tree needs a leaf twice; the last are too long for the log's buffer.
NoneOneThree == {0, 1, 3}
OnlyThree    == {3}

\* Empty blocks, and blocks of one transaction that are too long already.
NoneOne == {0, 1}
OnlyOne == {1}
=============================================================================
