-------------------------- MODULE MCLSPS2Requests ---------------------------
(* Instances of LSPS2Requests: which LSPs there are.                        *)
EXTENDS LSPS2Requests

\* With and without LSPS1; with LSPS0 and LSPS2, or with LSPS0 alone.
SomeConfigs == {[lsps1 |-> FALSE, serves |-> {0, 2}],
                [lsps1 |-> TRUE, serves |-> {0, 2}],
                [lsps1 |-> FALSE, serves |-> {0}]}
=============================================================================
