---------------------------- MODULE MC_ModBridge ----------------------------
(* Small instance of ModBridge: the second message of a connection is one    *)
(* that _parse_event ignores.                                                *)
EXTENDS ModBridge

MCMalformed == {2}
\* Only the second connection, the one that replaces and is replaced, sends two.
MCMaxEvents == <<1, 2, 1>>
\* A single connection that sends nothing.
MCSilent == <<0>>
=============================================================================
