---------------------------- MODULE EscrowPromise ----------------------------
(***************************************************************************)
(* What the platform promises about the value of a deal, and no more: it   *)
(* is taken from one person, once; while the deal has it, all of it is in  *)
(* custody; and it leaves custody whole, in one step, to one person, after *)
(* which nothing of it is ever held or sent again.                         *)
(***************************************************************************)
EXTENDS Integers

CONSTANTS Users, Deals, Amounts, NoUser

VARIABLES
    stage,  \* stage[d]: "open" before, "held" while, "ended" after custody
    held,   \* held[d]: the value in custody for d
    party   \* party[d]: who it was taken from while held, who got it after

promiseVars == <<stage, held, party>>

Init ==
    /\ stage = [d \in Deals |-> "open"]
    /\ held  = [d \in Deals |-> 0]
    /\ party = [d \in Deals |-> NoUser]

Take(d, u, a) ==
    /\ stage[d] = "open"
    /\ stage' = [stage EXCEPT ![d] = "held"]
    /\ held'  = [held EXCEPT ![d] = a]
    /\ party' = [party EXCEPT ![d] = u]

End(d, b) ==
    /\ stage[d] = "held"
    /\ stage' = [stage EXCEPT ![d] = "ended"]
    /\ held'  = [held EXCEPT ![d] = 0]
    /\ party' = [party EXCEPT ![d] = b]

Next ==
    \E d \in Deals, u \in Users :
        \/ \E a \in Amounts : Take(d, u, a)
        \/ End(d, u)

Spec == Init /\ [][Next]_promiseVars
=============================================================================
