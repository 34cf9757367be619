------------------------------ MODULE RelayLedger ------------------------------
(***************************************************************************)
(* What the shielded relayer promises its clients, without its history,    *)
(* index, clock or awaits: a request is posted once, a transaction leaves  *)
(* for it only while it is unanswered, a request body is executed at most  *)
(* once, and an answer never claims more than the chain has seen.          *)
(***************************************************************************)
CONSTANTS Task, Body, NoBody, Answer

VARIABLES
    request,  \* the body each task posted
    answer,   \* "none" until the task is answered
    tx        \* what became of its transaction

vars == <<request, answer, tx>>

Init ==
    /\ request = [t \in Task |-> NoBody]
    /\ answer = [t \in Task |-> "none"]
    /\ tx = [t \in Task |-> "none"]

Executed(b) == \E t \in Task : request[t] = b /\ tx[t] = "success"
Sent(b)     == \E t \in Task : request[t] = b /\ tx[t] # "none"

\* the answers the chain backs for body b
Backed(b, a) ==
    /\ a = "finalized" => Executed(b)
    /\ a \in {"submitted", "accepted"} => Sent(b)

\* a request arrives, and may be answered at once
Post(t) ==
    /\ request[t] = NoBody
    /\ \E b \in Body, a \in Answer :
           /\ Backed(b, a)
           /\ request' = [request EXCEPT ![t] = b]
           /\ answer' = [answer EXCEPT ![t] = a]
    /\ UNCHANGED tx

Reply(t) ==
    /\ request[t] # NoBody
    /\ answer[t] = "none"
    /\ \E a \in Answer :
           /\ Backed(request[t], a)
           /\ answer' = [answer EXCEPT ![t] = a]
    /\ UNCHANGED <<request, tx>>

Send(t) ==
    /\ request[t] # NoBody
    /\ answer[t] = "none"
    /\ tx[t] = "none"
    /\ tx' = [tx EXCEPT ![t] = "mempool"]
    /\ UNCHANGED <<request, answer>>

Execute(t) ==
    /\ tx[t] = "mempool"
    /\ \/ tx' = [tx EXCEPT ![t] = "failure"]
       \/ ~Executed(request[t]) /\ tx' = [tx EXCEPT ![t] = "success"]
    /\ UNCHANGED <<request, answer>>

\* the service restarts: every open request is lost
Lose ==
    /\ answer' = [t \in Task |->
           IF request[t] # NoBody /\ answer[t] = "none" THEN "lost" ELSE answer[t]]
    /\ UNCHANGED <<request, tx>>

Next == Lose \/ \E t \in Task : Post(t) \/ Reply(t) \/ Send(t) \/ Execute(t)

Spec == Init /\ [][Next]_vars
================================================================================
