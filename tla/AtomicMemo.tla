----------------------------- MODULE AtomicMemo -----------------------------
(* What a memo table promises to concurrent callers: each call is answered *)
(* in one step, with the value of its key, which the first call makes and  *)
(* no later call changes.                                                  *)
CONSTANTS
    Callers,
    Keys,
    Values,
    NoKey,     \* a caller asks for nothing
    NoValue,   \* a key without a value, a call without an answer
    Failure,   \* the answer of a call that could make no value
    MadeFor    \* MadeFor[k]: the values that are right for k

VARIABLES table, request, answer

vars == <<table, request, answer>>

Init ==
    /\ table = [k \in Keys |-> NoValue]
    /\ request = [c \in Callers |-> NoKey]
    /\ answer = [c \in Callers |-> NoValue]

Call(c) ==
    /\ request[c] = NoKey
    /\ \E k \in Keys : request' = [request EXCEPT ![c] = k]
    /\ UNCHANGED <<table, answer>>

\* The key has a value: it is the answer.
Recall(c) ==
    /\ request[c] # NoKey /\ answer[c] = NoValue
    /\ table[request[c]] # NoValue
    /\ answer' = [answer EXCEPT ![c] = table[request[c]]]
    /\ UNCHANGED <<table, request>>

\* It has none: one is made, kept and answered.
Fill(c) ==
    /\ request[c] # NoKey /\ answer[c] = NoValue
    /\ table[request[c]] = NoValue
    /\ \E v \in MadeFor[request[c]] :
         /\ table' = [table EXCEPT ![request[c]] = v]
         /\ answer' = [answer EXCEPT ![c] = v]
    /\ UNCHANGED request

\* None can be made.
Fail(c) ==
    /\ request[c] # NoKey /\ answer[c] = NoValue
    /\ answer' = [answer EXCEPT ![c] = Failure]
    /\ UNCHANGED <<table, request>>

Return(c) ==
    /\ answer[c] # NoValue
    /\ request' = [request EXCEPT ![c] = NoKey]
    /\ answer' = [answer EXCEPT ![c] = NoValue]
    /\ UNCHANGED table

Next ==
    \E c \in Callers :
        Call(c) \/ Recall(c) \/ Fill(c) \/ Fail(c) \/ Return(c)

Spec == Init /\ [][Next]_vars
=============================================================================
