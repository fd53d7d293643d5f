---------------------------- MODULE MCPersister ----------------------------
(* Persister on a small instance: the entry of one index may be replaced, by one *)
(* that differs from all others or by one that another index has as well.        *)
EXTENDS Persister

Log == <<{"x"}, {"x", "y"}, {"z"}>>
=============================================================================
