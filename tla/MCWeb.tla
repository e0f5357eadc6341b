-------------------------------- MODULE MCWeb --------------------------------
(* Parts of the web service for TLC, side by side: part says which runs.     *)
(* "kindle": two sends to the same or to different inboxes, the first can be *)
(* refused, crash or succeed, the second comes at any time beside or after.  *)
(* "breaker": three requests over a breaker that opens at three failures.    *)
(* "pipeline": one conversion from its upload to its download.               *)
(* "deploy": two pushed commits, one of them broken.  "contact": three       *)
(* submissions over two hours.                                               *)
EXTENDS WebParts, TLC

CONSTANTS Parts
VARIABLE part

-----------------------------------------------------------------------------
\* Where the others rest there is one state only.
WebInit ==
    /\ part \in Parts
    /\ Init /\ (part # "kindle" => recipient = [m \in Sends |-> CHOOSE r \in Recipients : TRUE])
    /\ BreakerInit /\ R!Init /\ DeployInit /\ W!Init

Kindle == part = "kindle" /\ Next /\ UNCHANGED <<part, breakerVars, runVars, deployVars, contactVars>>
Breaker == part = "breaker" /\ BreakerNext /\ UNCHANGED <<part, vars, runVars, deployVars, contactVars>>
Pipeline == part = "pipeline" /\ R!Next /\ UNCHANGED <<part, vars, breakerVars, deployVars, contactVars>>
Deploy == part = "deploy" /\ DeployNext /\ UNCHANGED <<part, vars, breakerVars, runVars, contactVars>>
Contact == part = "contact" /\ W!Next /\ UNCHANGED <<part, vars, breakerVars, runVars, deployVars>>
WebNext == Kindle \/ Breaker \/ Pipeline \/ Deploy \/ Contact

\* The fairness of the breaker's calls and clock; the others may stop.
WebSpec ==
    /\ WebInit /\ [][WebNext]_<<part, vars, breakerVars, runVars, deployVars, contactVars>>
    /\ part = "breaker" => Fairness

\* Only sends' and inboxes' names are interchangeable, which the part with a
\* liveness property never uses.
WebSymmetry == Permutations(Sends) \union Permutations(Recipients)
=============================================================================
