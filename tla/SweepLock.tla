----------------------------- MODULE SweepLock ------------------------------
(***************************************************************************)
(* What the gate promises its users (the module comment of                 *)
(* src/src/packstore/gate.rs): any number of stores write at the same      *)
(* time, or one store sweeps, its own writers with it; and a store that is *)
(* in has only existing segments mapped.  Gate implements this.            *)
(***************************************************************************)
CONSTANTS Stores, Segments

VARIABLES
    mode,   \* mode[s]: "out", "write" (a span is in flight) or "sweep"
    dir,    \* the segments in the directory
    view    \* view[s]: the segments s has mapped

vars == <<mode, dir, view>>

Init ==
    /\ mode = [s \in Stores |-> "out"]
    /\ dir \in SUBSET Segments
    /\ view = [s \in Stores |-> dir]

SetMode(s, m) == mode' = [mode EXCEPT ![s] = m]

(* Mapping what is there, or leaving the view as it is. *)
MayLook(s) == view' = view \/ view' = [view EXCEPT ![s] = dir]

BeginWrite(s) ==
    /\ mode[s] = "out"
    /\ \A o \in Stores \ {s} : mode[o] # "sweep"
    /\ SetMode(s, "write")
    /\ MayLook(s)
    /\ view'[s] \subseteq dir
    /\ UNCHANGED dir

BeginSweep(s) ==
    /\ \A o \in Stores : mode[o] = "out"
    /\ SetMode(s, "sweep")
    /\ view' = [view EXCEPT ![s] = dir]
    /\ UNCHANGED dir

(* The end of the last span or of the sweep, a close, or a crash followed  *)
(* by an open.                                                             *)
Leave(s) ==
    /\ SetMode(s, "out")
    /\ MayLook(s)
    /\ UNCHANGED dir

Look(s) ==
    /\ view' = [view EXCEPT ![s] = dir]
    /\ UNCHANGED <<mode, dir>>

Create(s, g) ==
    /\ mode[s] # "out"
    /\ g \notin dir /\ \A o \in Stores : g \notin view[o]
    /\ dir' = dir \cup {g}
    /\ view' = [view EXCEPT ![s] = @ \cup {g}]
    /\ UNCHANGED mode

(* What a sweep removes leaves its view first, all of it at once, and then *)
(* the directory, one file at a time; a file whose unlink fails stays.     *)
Detach(s, gs) ==
    /\ mode[s] = "sweep"
    /\ gs \subseteq view[s]
    /\ view' = [view EXCEPT ![s] = @ \ gs]
    /\ UNCHANGED <<mode, dir>>

Unlink(s, g) ==
    /\ mode[s] = "sweep"
    /\ g \notin view[s]
    /\ dir' = dir \ {g}
    /\ UNCHANGED <<mode, view>>

Next ==
    \E s \in Stores :
        \/ BeginWrite(s) \/ BeginSweep(s) \/ Leave(s) \/ Look(s)
        \/ \E g \in Segments : Create(s, g) \/ Unlink(s, g)
        \/ \E gs \in SUBSET Segments : Detach(s, gs)

Spec == Init /\ [][Next]_vars
=============================================================================
