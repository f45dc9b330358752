---------------------------- MODULE LoopSimulator -----------------------------
(***************************************************************************)
(* The simulator of src/HW2 (simulator.h): five instructions moved through *)
(* fetch, decode, execute and store, one move in a clock cycle, again and  *)
(* again until x1 = x2.  A stage is an instruction or NO_OP.  The queue of *)
(* events is printed at the end and left out.                              *)
(***************************************************************************)
EXTENDS Integers, Sequences

CONSTANTS
    Start, End,     \* x1 and x2: 160 and 0
    Step,           \* 8
    MaxClock        \* a bound on the clock, beyond what the loop takes

ASSUME LoopAssumption ==
    /\ Start \in Nat /\ End \in Nat /\ Step \in Nat \ {0} /\ MaxClock \in Nat \ {0}
    /\ \E n \in 0..Start : Start = End + n * Step

VARIABLES
    queue,                          \* instructionQueue
    fetch, decode, execute, store,
    x1, f0, f4,
    clock                           \* clock_cycle

stages == <<fetch, decode, execute, store>>
vars == <<queue, stages, x1, f0, f4, clock>>

NO_OP == "NO_OP"
Loop == <<"ld", "add", "sd", "addi", "bne">>
Instructions == {Loop[i] : i \in DOMAIN Loop}

f2 == 0

TypeOK ==
    /\ \E i \in 1..6 : queue = SubSeq(Loop, i, 5)
    /\ \A s \in {fetch, decode, execute, store} : s \in Instructions \cup {NO_OP}
    /\ x1 \in End..Start /\ f0 \in 0..Start /\ f4 \in 0..Start
    /\ clock \in 1..MaxClock

Init ==
    /\ queue = Loop
    /\ fetch = NO_OP /\ decode = NO_OP /\ execute = NO_OP /\ store = NO_OP
    /\ x1 = Start /\ f0 = 0 /\ f4 = 0
    /\ clock = 1

\* Another clock cycle begins, with a queue that is not empty.
Runs == x1 # End /\ clock < MaxClock
\* (Mutation: the loop is loaded again while one instruction is left.)
RefilledEarly == IF Len(queue) <= 1 THEN Loop ELSE queue
Refilled == IF queue = << >> THEN Loop ELSE queue

\* (Mutations: the last stage is not waited for; the pointer moves by half as
\* much again.)
IdleButStore == decode = NO_OP /\ execute = NO_OP
Idle == decode = NO_OP /\ execute = NO_OP /\ store = NO_OP
DecrementedTooFar == x1 - Step - Step \div 2
Decremented == x1 - Step

\* The effect of the instruction that is now in the store stage.
Effect ==
    /\ f0' = IF store' = "ld" THEN x1 ELSE f0
    /\ f4' = IF store' = "add" THEN f0 + f2 ELSE f4
    /\ x1' = IF store' = "addi" THEN Decremented ELSE x1
    /\ clock' = clock + 1

FetchNext ==
    /\ Runs /\ Idle
    /\ decode' = fetch
    /\ fetch' = Head(Refilled) /\ queue' = Tail(Refilled)
    /\ UNCHANGED <<execute, store>>
    /\ Effect

DecodeToExecute ==
    /\ Runs /\ ~Idle /\ decode # NO_OP
    /\ execute' = decode /\ decode' = NO_OP
    /\ queue' = Refilled
    /\ UNCHANGED <<fetch, store>>
    /\ Effect

ExecuteToStore ==
    /\ Runs /\ ~Idle /\ decode = NO_OP /\ execute # NO_OP
    /\ store' = execute /\ execute' = NO_OP
    /\ queue' = Refilled
    /\ UNCHANGED <<fetch, decode>>
    /\ Effect

\* (Mutation: the instruction stays in the last stage.)
StoredKept == store
Stored == NO_OP
LeaveStore ==
    /\ Runs /\ ~Idle /\ decode = NO_OP /\ execute = NO_OP /\ store # NO_OP
    /\ store' = Stored
    /\ queue' = Refilled
    /\ UNCHANGED <<fetch, decode, execute>>
    /\ Effect

Next == FetchNext \/ DecodeToExecute \/ ExecuteToStore \/ LeaveStore

\* simulatePipeline is one loop of one thread: it goes on while it can.
Spec == Init /\ [][Next]_vars /\ WF_vars(Next)

-----------------------------------------------------------------------------
\* The oldest instruction that has not taken effect.
Oldest ==
    CASE execute # NO_OP -> execute
      [] execute = NO_OP /\ decode # NO_OP -> decode
      [] execute = NO_OP /\ decode = NO_OP /\ fetch # NO_OP -> fetch
      [] OTHER -> "ld"

\* The instructions take effect in the order of the loop, each once in an
\* iteration, on what its predecessors left: an instruction that is fetched
\* while its predecessor has not stored reads nothing before it stores itself.
Abstract == INSTANCE SequentialLoop WITH next <- Oldest
ImplementsLoop == Abstract!Spec

\* An instruction takes four cycles whatever it is: the pointer moves in the
\* 16th cycle and in every 20th after it (the refill of the queue, the first
\* fetch and the moves between the stages never cost or save one).
KeepsTime == x1 = Start - Step * ((clock + 3) \div 20)

\* Where the instructions are: fetch holds number f of the loop and the queue
\* what comes after it (or will, once refilled); while number i has moved p
\* stages beyond fetch, its successor is in fetch and nothing is elsewhere.
Succ(i) == IF i = Len(Loop) THEN 1 ELSE i + 1
Fetched(f) == fetch = Loop[f] /\ Refilled = SubSeq(Loop, Succ(f), Len(Loop))
Moved(i, p) ==
    /\ Fetched(IF p = 0 THEN i ELSE Succ(i))
    /\ decode = IF p = 1 THEN Loop[i] ELSE NO_OP
    /\ execute = IF p = 2 THEN Loop[i] ELSE NO_OP
    /\ store = IF p = 3 THEN Loop[i] ELSE NO_OP
Starting ==
    /\ queue = Loop /\ clock = 1
    /\ fetch = NO_OP /\ decode = NO_OP /\ execute = NO_OP /\ store = NO_OP

\* In iteration n, which began n times 20 cycles ago, number i has moved p
\* stages.
At(n, i, p) == Moved(i, p) /\ clock = 20 * n + 4 * i - 2 + p

IInv ==
    /\ x1 \in End..Start /\ f0 \in 0..Start /\ f4 \in 0..Start
    /\ clock \in 1..MaxClock
    /\ KeepsTime
    /\ \/ Starting
       \/ \E n \in 0..clock, i \in DOMAIN Loop, p \in 0..3 : At(n, i, p)

\* The loop, whose exit test is x1 != x2, ends: the pointer meets x2.
Terminates == <>[](x1 = End)

=============================================================================
