----------------------------- MODULE MCArchiver -----------------------------
(* Archiver with one node, a channel of one record, batches of two and a    *)
(* backlog of three.                                                        *)
EXTENDS Archiver
=============================================================================
