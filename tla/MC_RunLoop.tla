----------------------------- MODULE MC_RunLoop -----------------------------
(* Small instances of RunLoop.                                               *)
EXTENDS RunLoop

\* Everything but !kill: its one send is what a query begins with.
AllTraffic == Queued \ {"kill"}
=============================================================================
