--------------------------- MODULE EpochRegister ---------------------------
(***************************************************************************)
(* What the CIB cache promises a long-polling client, without the channel, *)
(* the mutex or the goroutines: the cached version only grows, and a poll  *)
(* is answered once, with a version that was current at some moment        *)
(* between the poll's arrival and its answer.                              *)
(***************************************************************************)
EXTENDS Naturals

CONSTANT Clients      \* HTTP clients of the monitor route

VARIABLES
    value,            \* the newest version the server has published
    pending,          \* the clients whose poll is not answered yet
    floor,            \* floor[c]: value when c's last poll arrived
    answer            \* answer[c]: the version c's last poll was answered

regVars == <<value, pending, floor, answer>>

Init ==
    /\ value = 0
    /\ pending = {}
    /\ floor = [c \in Clients |-> 0]
    /\ answer = [c \in Clients |-> 0]

Publish ==
    /\ value' \in Nat
    /\ value' > value
    /\ UNCHANGED <<pending, floor, answer>>

Ask(c) ==
    /\ c \notin pending
    /\ pending' = pending \union {c}
    /\ floor' = [floor EXCEPT ![c] = value]
    /\ UNCHANGED <<value, answer>>

Answer(c) ==
    /\ c \in pending
    /\ \E v \in floor[c] .. value : answer' = [answer EXCEPT ![c] = v]
    /\ pending' = pending \ {c}
    /\ UNCHANGED <<value, floor>>

Next ==
    \/ Publish
    \/ \E c \in Clients : Ask(c) \/ Answer(c)

Spec == Init /\ [][Next]_regVars
=============================================================================
