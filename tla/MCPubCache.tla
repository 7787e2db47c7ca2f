----------------------------- MODULE MCPubCache -----------------------------
(* One template in two versions, of which the second is sent in chunks; the *)
(* values of the constants are in the cfg.                                  *)
EXTENDS PubCache
=============================================================================
