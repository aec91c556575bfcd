------------------------------- MODULE RefMap -------------------------------
(***************************************************************************)
(* What a reference store promises its callers (refstore/mod.rs, cas.rs):  *)
(* a map from names to records on which every call, from any thread of any *)
(* process, acts at one moment between its start and its return, or not at *)
(* all and says so.  A volatile write may have acted and answer an error.  *)
(*                                                                         *)
(* A record is the key it points at and the rest of its bytes; a record    *)
(* whose key is NoKey does not decode.  A name without a record is absent. *)
(***************************************************************************)
EXTENDS Naturals

CONSTANTS Threads, Names, NoKey, Records, Absent, Ops, EmptyRefs

VARIABLES refs,   \* the map
          call    \* what each thread is doing

Waiting(op) == [st |-> "called", op |-> op]
Answered(res) == [st |-> "answered", res |-> res]
Acted(res) == [st |-> "acted", res |-> res]
Idle == [st |-> "idle"]

At(r, n, old) == r[n] # Absent /\ r[n].key = old
Junk(r, n) == r[n] # Absent /\ r[n].key = NoKey

Touched(op) == {op.names[i].name : i \in DOMAIN op.names} \cup
               {op.records[i].name : i \in DOMAIN op.records}

\* A batch: every withdrawn name is gone already or where the caller saw it,
\* and so is every name to be published.  Asked of some of the names only.
BatchHolds(r, op, names) ==
    /\ \A i \in DOMAIN op.names :
          LET w == op.names[i]
          IN  w.name \in names => r[w.name] = Absent \/ At(r, w.name, w.old)
    /\ \A i \in DOMAIN op.records :
          LET p == op.records[i]
          IN  p.name \in names =>
                 IF p.old = Absent THEN r[p.name] = Absent ELSE At(r, p.name, p.old)

\* The last record for a name counts, and a withdrawal where there is none.
BatchApplied(r, op) ==
    [n \in Names |->
        LET puts == {i \in DOMAIN op.records : op.records[i].name = n}
        IN  IF puts # {} THEN op.records[CHOOSE i \in puts : \A j \in puts : j <= i].rec
            ELSE IF \E i \in DOMAIN op.names : op.names[i].name = n THEN Absent
            ELSE r[n]]

\* What a batch that does not hold may be told: that a name is elsewhere, or
\* that the record of a name does not decode.
BatchErrors(r, op) ==
    LET bad == {n \in Names : Junk(r, n)}
    IN  (IF BatchHolds(r, op, Names \ bad) THEN {} ELSE {<<"Conflict">>}) \cup
        {<<"undecodable">> : n \in bad \cap Touched(op)}

\* The answers each call may get, and the map after it.
Answers(r, op) ==
    LET keep(res) == {[refs |-> r, res |-> <<res>>]}
        found(res) == {[refs |-> r, res |-> <<"found", res>>]}
        done(m) == {[refs |-> m, res |-> <<"ok">>]}
        set(v) == [r EXCEPT ![op.name] = v]
        if_at(m) == IF r[op.name] = Absent THEN keep("NotFound")
                    ELSE IF Junk(r, op.name) THEN keep("undecodable")
                    ELSE IF At(r, op.name, op.old) THEN done(m)
                    ELSE keep("Conflict")
    IN  CASE op.f \in {"put", "put_volatile"} -> done(set(op.rec))
          [] op.f \in {"delete", "delete_volatile"} ->
                IF r[op.name] = Absent THEN keep("NotFound") ELSE done(set(Absent))
          [] op.f = "create" -> IF r[op.name] = Absent THEN done(set(op.rec)) ELSE keep("Conflict")
          [] op.f = "compare_and_swap" -> if_at(set(op.rec))
          [] op.f = "compare_and_delete" -> if_at(set(Absent))
          [] op.f = "put_batch" -> done(BatchApplied(r, op))
          [] op.f = "update_batch" ->
                IF BatchHolds(r, op, Names) THEN done(BatchApplied(r, op))
                ELSE {[refs |-> r, res |-> e] : e \in BatchErrors(r, op)}
          [] op.f = "wipe" -> done(EmptyRefs)
          [] op.f = "get" -> IF r[op.name] = Absent THEN keep("NotFound") ELSE found(r[op.name])
          [] op.f = "all" -> found(r)

Init == refs = EmptyRefs /\ call = [t \in Threads |-> Idle]

Call(t, op) == /\ call[t] = Idle
               /\ call' = [call EXCEPT ![t] = Waiting(op)]
               /\ UNCHANGED refs

\* A volatile write has acted before its answer is settled.
Done(op, res) ==
    IF op.f \in {"put_volatile", "delete_volatile"} THEN Acted(res) ELSE Answered(res)

\* The moment a call acts.
Act(t) == /\ call[t].st = "called"
          /\ \E a \in Answers(refs, call[t].op) :
                refs' = a.refs /\ call' = [call EXCEPT ![t] = Done(call[t].op, a.res)]

\* It answers with what came of it, or with the error of what had to follow.
Settle(t) == /\ call[t].st = "acted"
             /\ \E res \in {call[t].res, <<"failed">>} : call' = [call EXCEPT ![t] = Answered(res)]
             /\ UNCHANGED refs

\* A call gives up without having acted.
GiveUp(t) == /\ call[t].st = "called"
             /\ call' = [call EXCEPT ![t] = Answered(<<"failed">>)]
             /\ UNCHANGED refs

\* The answer reaches the caller.
Return(t) == /\ call[t].st = "answered"
             /\ call' = [call EXCEPT ![t] = Idle]
             /\ UNCHANGED refs

\* The process of some threads dies; what they did stays.
Crash(ts) == /\ call' = [t \in Threads |-> IF t \in ts THEN Idle ELSE call[t]]
             /\ UNCHANGED refs

\* The machine goes down.  How much of the map is left is the
\* store's own promise.
PowerLoss == /\ refs' \in [Names -> Records \cup {Absent}]
             /\ call' = [t \in Threads |-> Idle]

Next ==
    \/ \E t \in Threads : Act(t) \/ Settle(t) \/ GiveUp(t) \/ Return(t) \/ \E op \in Ops : Call(t, op)
    \/ \E ts \in SUBSET Threads : Crash(ts)
    \/ PowerLoss

Spec == Init /\ [][Next]_<<refs, call>>
=============================================================================
