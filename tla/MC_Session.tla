----------------------------- MODULE MC_Session -----------------------------
(* Small instance of Session: one connection that sends one message, and two *)
(* watchers.                                                                 *)
EXTENDS Session

MCMaxEvents == <<1>>
=============================================================================
