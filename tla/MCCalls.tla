------------------------------ MODULE MCCalls ------------------------------
(***************************************************************************)
(* The calls of tools that wait for the board, under fairness: commands    *)
(* and resets.  The two machines share no state and are explored side by   *)
(* side: a behaviour is one of either.                                     *)
(***************************************************************************)
EXTENDS CommandSession, ResetTask

VARIABLE part

callVars == <<part, vars, resetVars>>

CallsInit == Init /\ ResetInit /\ part \in {"commands", "resets"}

CallsNext ==
    \/ part = "commands" /\ Next /\ UNCHANGED <<part, resetVars>>
    \/ part = "resets" /\ ResetNext /\ UNCHANGED <<part, vars>>

\* The fairness of FairSpec and of ResetSpec.  Where no reset is called none
\* has a step to be fair to.
CallsSpec ==
    /\ CallsInit /\ [][CallsNext]_callVars
    /\ WF_vars(part = "commands" /\ CheckTimeouts)
    /\ WF_vars(part = "commands" /\ Tick)
    /\ \A c \in Commands : WF_vars(part = "commands" /\ CallerTimesOut(c))
    /\ ResetFairness
=============================================================================
