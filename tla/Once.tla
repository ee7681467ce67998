-------------------------------- MODULE Once --------------------------------
(***************************************************************************)
(* ws/once.go: sync.Once, changed to release the mutex before it runs the  *)
(* function.  Reader and writer of a connection race for it when they      *)
(* close the connection (CloseOnError and CloseOnDone of client.go), so    *)
(* that only one of them closes it and Disconnected is posted once.        *)
(*                                                                         *)
(* An operator Mutant... is the definition after it with a plausible bug;  *)
(* no specification uses it (see "Mutants" in README.md).                  *)
(***************************************************************************)
EXTENDS Naturals, FiniteSets

CONSTANTS
    Callers,    \* goroutines that call Do, each with its own function
    Nobody      \* nobody holds the mutex

ASSUME NobodyIsNoCaller == Nobody \notin Callers

VARIABLES
    pc,     \* where each caller is
    done,   \* once.done
    m       \* the holder of once.m, or Nobody

onceVars == <<pc, done, m>>

\* "load" is the atomic fast path; "lock" to "unlock" are mayExecute with its
\* result false ("unlock") or true ("unlockrun"); "run" is f.
Places == {"load", "lock", "check", "store", "unlock", "unlockrun", "run",
           "returned", "ran"}

OnceTypeOK ==
    /\ pc \in [Callers -> Places]
    /\ done \in {0, 1}
    /\ m \in Callers \cup {Nobody}

OnceInit ==
    /\ pc = [p \in Callers |-> "load"]
    /\ done = 0
    /\ m = Nobody

Goto(p, from, to) == pc[p] = from /\ pc' = [pc EXCEPT ![p] = to]

MutantLoad(p) ==
    /\ Goto(p, "load", IF done = 0 THEN "returned" ELSE "lock")
    /\ UNCHANGED <<done, m>>
Load(p) ==
    /\ Goto(p, "load", IF done = 1 THEN "returned" ELSE "lock")
    /\ UNCHANGED <<done, m>>

Lock(p) ==
    /\ Goto(p, "lock", "check")
    /\ m = Nobody
    /\ m' = p
    /\ UNCHANGED done

MutantCheck(p) ==
    /\ Goto(p, "check", "store")
    /\ UNCHANGED <<done, m>>
Check(p) ==
    /\ Goto(p, "check", IF done = 0 THEN "store" ELSE "unlock")
    /\ UNCHANGED <<done, m>>

Store(p) ==
    /\ Goto(p, "store", "unlockrun")
    /\ done' = 1
    /\ UNCHANGED m

\* The deferred Unlock; Do then returns, or runs f.
MutantUnlock(p) ==
    /\ \/ Goto(p, "unlock", "returned") /\ m' = Nobody
       \/ Goto(p, "unlockrun", "run") /\ UNCHANGED m
    /\ UNCHANGED done
Unlock(p) ==
    /\ Goto(p, "unlock", "returned") \/ Goto(p, "unlockrun", "run")
    /\ m' = Nobody
    /\ UNCHANGED done

Run(p) == Goto(p, "run", "ran") /\ UNCHANGED <<done, m>>

Do(p) == Load(p) \/ Lock(p) \/ Check(p) \/ Store(p) \/ Unlock(p)

OnceNext == \E p \in Callers : Do(p) \/ Run(p)

\* Every caller goes on as long as it is not in its function; the function may
\* block (writing the close message waits for the peer).
OnceSpec == OnceInit /\ [][OnceNext]_onceVars /\ \A p \in Callers : WF_onceVars(Do(p))
-----------------------------------------------------------------------------
\* The functions of two callers never both start.
AtMostOnce ==
    \A p, q \in Callers :
        pc[p] \in {"run", "ran"} /\ pc[q] \in {"run", "ran"} => p = q

\* While one function runs, every other caller gets through.
OthersReturn == \A p \in Callers : <>(pc[p] \in {"run", "ran", "returned"})

\* The one that wins is not lost: when the callers are through, one has run.
SomebodyRuns ==
    (\A p \in Callers : pc[p] \in {"returned", "run", "ran"}) =>
        \/ Callers = {}
        \/ \E p \in Callers : pc[p] \in {"run", "ran"}
=============================================================================
