------------------------------- MODULE Durable ------------------------------
(***************************************************************************)
(* What a segment promises its store's callers: a power loss takes nothing *)
(* that a write was acknowledged for.                                      *)
(***************************************************************************)
CONSTANT Keys

VARIABLES
    held,   \* the keys whose records can be read
    safe,   \* those of them no power loss can take
    acked   \* the keys a syncing write was acknowledged for

vars == <<held, safe, acked>>

TypeOK == held \subseteq Keys /\ safe \subseteq Keys /\ acked \subseteq Keys

Init == held = {} /\ safe = {} /\ acked = {}

Write(k) == held' = held \cup {k} /\ UNCHANGED <<safe, acked>>

Sync ==
    /\ safe \subseteq safe' /\ safe' \subseteq held
    /\ UNCHANGED <<held, acked>>

Acknowledge ==
    /\ acked \subseteq acked' /\ acked' \subseteq acked \cup safe
    /\ UNCHANGED <<held, safe>>

Lose ==
    /\ safe \subseteq held' /\ held' \subseteq held
    /\ safe' = held'
    /\ UNCHANGED acked

Next == (\E k \in Keys : Write(k)) \/ Sync \/ Acknowledge \/ Lose

Spec == Init /\ [][Next]_vars

=============================================================================
