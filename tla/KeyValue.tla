------------------------------ MODULE KeyValue ------------------------------
(***************************************************************************)
(* What a persistent store of keys promises: a key holds what was put there *)
(* last, and a put is acknowledged only when its key holds it.  A mishap, a *)
(* flash operation that fails or a power cut, may lose keys, but never      *)
(* changes what one holds, and acknowledges nothing.                       *)
(***************************************************************************)
EXTENDS Naturals

CONSTANTS Key, Value, Nothing

VARIABLES
    kv,         \* what each key holds
    told,       \* the put acknowledged last, until the next call
    mishaps     \* how many mishaps there were

Nobody == [key |-> Nothing, value |-> Nothing]

Init == kv = [k \in Key |-> Nothing] /\ told = Nobody /\ mishaps = 0

Put == \E k \in Key, v \in Value : kv' = [kv EXCEPT ![k] = v]

Remove == \E k \in Key : kv' = [kv EXCEPT ![k] = Nothing]

Acknowledge ==
    /\ \E k \in Key : kv[k] # Nothing /\ told' = [key |-> k, value |-> kv[k]]
    /\ UNCHANGED <<kv, mishaps>>

Forget == told' = Nobody /\ UNCHANGED <<kv, mishaps>>

Mishap ==
    /\ mishaps' = mishaps + 1 /\ told' = Nobody
    /\ kv' \in [Key -> Value \cup {Nothing}]
    /\ \A k \in Key : kv'[k] \in {kv[k], Nothing}

\* (A put of what is there already is a stutter.)
Next ==
    \/ kv' # kv /\ told' = Nobody /\ UNCHANGED mishaps /\ (Put \/ Remove)
    \/ Acknowledge \/ Forget \/ Mishap

Spec == Init /\ [][Next]_<<kv, told, mishaps>>
===============================================================================
