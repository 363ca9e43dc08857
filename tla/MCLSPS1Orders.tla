--------------------------- MODULE MCLSPS1Orders ---------------------------
(* An LSP that supports every order or the small ones only.                 *)
EXTENDS LSPS1Orders

AnyOrSmall == {Orders, {"small"}}
=============================================================================
