----------------------------- MODULE ChatChannel -----------------------------
(***************************************************************************)
(* What ModBridge promises the callers of send_chat, with the connections, *)
(* the reader and the shutdown left out: messages are put in a queue, and  *)
(* leave it one at a time, in the order they were put in, with a rest      *)
(* between two of them.  A message that leaves reaches the wire when the   *)
(* mod is reachable; it is lost only when the mod is not.                  *)
(***************************************************************************)
EXTENDS Naturals, Sequences

CONSTANT Message

VARIABLES
    pending,    \* messages put and not yet taken
    wire,       \* messages handed to the mod, in order
    rested,     \* the pause after the last message is over
    up          \* the mod is reachable

vars == <<pending, wire, rested, up>>

Init ==
    /\ pending = <<>>
    /\ wire = <<>>
    /\ rested = TRUE
    /\ up = FALSE

Put(m) ==
    /\ pending' = Append(pending, m)
    /\ UNCHANGED <<wire, rested, up>>

Take ==
    /\ rested
    /\ pending # <<>>
    /\ pending' = Tail(pending)
    /\ rested' = FALSE
    /\ UNCHANGED up

Deliver == Take /\ up /\ wire' = Append(wire, Head(pending))

Lose == Take /\ ~up /\ UNCHANGED wire

Rest ==
    /\ ~rested
    /\ rested' = TRUE
    /\ UNCHANGED <<pending, wire, up>>

ReachabilityChanges ==
    /\ up' \in BOOLEAN
    /\ UNCHANGED <<pending, wire, rested>>

Next ==
    \/ \E m \in Message : Put(m)
    \/ Deliver
    \/ Lose
    \/ Rest
    \/ ReachabilityChanges

Spec == Init /\ [][Next]_vars
=============================================================================
