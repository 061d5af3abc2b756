----------------------------- MODULE MCInflight -----------------------------
(* Three indexes after a log of one entry, quorums of one, two and three   *)
(* servers: entries started under a larger peer set wait before entries    *)
(* started under a smaller one.                                            *)
EXTENDS Inflight

MCNeeded == {1, 2, 3}
=============================================================================
