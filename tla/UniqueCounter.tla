--------------------------- MODULE UniqueCounter ---------------------------
(***************************************************************************)
(* What a monotonic counter allocator promises its callers: every grant is *)
(* the next number, whoever asks, and a number is granted again only when  *)
(* the counter was set back, which takes back one grant at a time.         *)
(***************************************************************************)
EXTENDS Naturals

CONSTANTS Callers, NoReply

VARIABLES
    next,     \* the number the next grant will give
    reply,    \* the grant each caller holds
    setbacks  \* how often a grant was taken back

counterVars == <<next, reply, setbacks>>

CounterInit ==
    /\ next = 0
    /\ reply = [c \in Callers |-> NoReply]
    /\ setbacks = 0

Grant(c) ==
    /\ reply[c] = NoReply
    /\ reply' = [reply EXCEPT ![c] = next]
    /\ next' = next + 1
    /\ UNCHANGED setbacks

\* Callers use, or lose, the grants they hold ...
Release(C) ==
    /\ reply' = [c \in Callers |-> IF c \in C THEN NoReply ELSE reply[c]]
    /\ UNCHANGED <<next, setbacks>>

\* ... and the last grant may be forgotten, with the callers that go down.
SetBack(C) ==
    /\ next > 0
    /\ next' = next - 1
    /\ setbacks' = setbacks + 1
    /\ reply' = [c \in Callers |-> IF c \in C THEN NoReply ELSE reply[c]]

CounterNext ==
    \/ \E c \in Callers : Grant(c)
    \/ \E C \in SUBSET Callers : Release(C) \/ SetBack(C)

CounterSpec == CounterInit /\ [][CounterNext]_counterVars
=============================================================================
