---------------------------- MODULE CreditLedger ----------------------------
(***************************************************************************)
(* What the token store promises a customer, without tables, clocks or     *)
(* packs.  A credit is issued once, is spent at most once at a time, may   *)
(* be given back after a failed conversion, and once it is void (expired,  *)
(* disputed or purged) it never comes back.                                *)
(***************************************************************************)
EXTENDS Naturals

CONSTANT Credits

VARIABLES
  credit,    \* the status of every credit
  uses,      \* how many conversions a credit has been accepted for
  returned   \* how many times it has been given back

vars == <<credit, uses, returned>>

Status == {"unissued", "available", "spent", "void"}

Init ==
  /\ credit   = [c \in Credits |-> "unissued"]
  /\ uses     = [c \in Credits |-> 0]
  /\ returned = [c \in Credits |-> 0]

Become(S, status) ==
  credit' = [c \in Credits |-> IF c \in S THEN status ELSE credit[c]]

\* A paid pack is handed out.
Issue(S) ==
  /\ \A c \in S : credit[c] = "unissued"
  /\ Become(S, "available")
  /\ UNCHANGED <<uses, returned>>

\* A conversion is accepted against one available credit.
Spend(c) ==
  /\ credit[c] = "available"
  /\ credit' = [credit EXCEPT ![c] = "spent"]
  /\ uses'   = [uses EXCEPT ![c] = @ + 1]
  /\ UNCHANGED returned

\* The conversion failed and the customer has the credit back.
Return(c) ==
  /\ credit[c] = "spent"
  /\ credit'   = [credit EXCEPT ![c] = "available"]
  /\ returned' = [returned EXCEPT ![c] = @ + 1]
  /\ UNCHANGED uses

\* Credits run out of time or their payment is disputed.
Void(S) ==
  /\ \A c \in S : credit[c] \in {"available", "spent"}
  /\ Become(S, "void")
  /\ UNCHANGED <<uses, returned>>

Next ==
  \/ \E S \in SUBSET Credits : Issue(S) \/ Void(S)
  \/ \E c \in Credits : Spend(c) \/ Return(c)

Spec == Init /\ [][Next]_vars
=============================================================================
