------------------------------ MODULE FifoLock ------------------------------
(***************************************************************************)
(* What mcs_lock.h promises: a lock that one thread holds at a time and    *)
(* that is granted in the order of the requests.  A thread requests the    *)
(* lock, is granted it at once or after all those before it released it,   *)
(* and releases it.  A try succeeds only if nobody holds or awaits it.     *)
(***************************************************************************)
EXTENDS Sequences

CONSTANT Threads

VARIABLES line,    \* the holder and, behind it, those that wait
          stage    \* "out", "waiting" or "holding", for each thread

fifoLockVars == <<line, stage>>

FifoLockInit ==
    /\ line = <<>>
    /\ stage = [t \in Threads |-> "out"]

Request(t) ==
    /\ stage[t] = "out"
    /\ line' = Append(line, t)
    /\ stage' = [stage EXCEPT ![t] = IF line = <<>> THEN "holding"
                                                    ELSE "waiting"]

Grant(t) ==
    /\ stage[t] = "waiting"
    /\ Head(line) = t
    /\ stage' = [stage EXCEPT ![t] = "holding"]
    /\ UNCHANGED line

Release(t) ==
    /\ stage[t] = "holding"
    /\ line' = Tail(line)
    /\ stage' = [stage EXCEPT ![t] = "out"]

FifoLockNext == \E t \in Threads : Request(t) \/ Grant(t) \/ Release(t)

FifoLockSpec == FifoLockInit /\ [][FifoLockNext]_fifoLockVars
=============================================================================
