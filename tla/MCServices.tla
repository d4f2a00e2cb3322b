----------------------------- MODULE MCServices -----------------------------
(* The ledger and the services around it that share no state with it or    *)
(* with one another, checked side by side on small instances: a behaviour   *)
(* belongs to one of them from its first state on, and the variables of the *)
(* others keep their initial values.                                        *)
EXTENDS MCValueLedger, CommandBoundary, RiskLimits, FeePolicies, OpsDesk, Evidence,
        Pricing, SignIn

CONSTANTS v1, v2, t1, t2, i1, p1, p2, p3, k1, k2, h1, c1, x1, x2, f1, f2

VARIABLE turn   \* the service this behaviour is about

Services == {"ledger", "commands", "limits", "fees", "desk", "evidence", "pricing",
             "signIn"}

(* Both pages belong to v1; v2 may be the one who is signed in by the time  *)
(* the form is posted.                                                      *)
MCTabUser == [t \in {t1, t2} |-> v1]

(* Of the two tariffs one charges the payee, with a floor and a ceiling,    *)
(* and one the payer and may be discounted to nothing.                      *)
MCTariffs ==
  {[bps |-> 2, fixed |-> 1, min |-> 3, max |-> 4, cap |-> 5, bearer |-> "PAYEE"],
   [bps |-> 5, fixed |-> 0, min |-> 0, max |-> 20, cap |-> 10, bearer |-> "PAYER"]}
MCOwnerOf == h1 :> v1
MCBenefit == h1 :> [bps |-> 6, max |-> 2]

ServicesInit ==
  /\ turn \in Services
  /\ turn # "commands" => draft = [t \in Tabs |-> x1]
  /\ LedgerInit /\ CommandInit /\ LimitInit /\ FeeInit /\ DeskInit
  /\ EvidenceInit /\ PricingInit /\ SignInInit

Still(service, vars) == turn # service => UNCHANGED vars

ServicesNext ==
  /\ UNCHANGED turn
  /\ Still("ledger", ledgerVars) /\ Still("commands", commandVars)
  /\ Still("evidence", evidenceVars) /\ Still("pricing", pricingVars)
  /\ Still("limits", limitVars) /\ Still("fees", feeVars) /\ Still("desk", deskVars)
  /\ Still("signIn", signInVars)
  /\ \/ turn = "ledger" /\ LedgerNext
     \/ turn = "commands" /\ CommandNext
     \/ turn = "limits" /\ LimitNext
     \/ turn = "fees" /\ FeeNext
     \/ turn = "desk" /\ DeskNext
     \/ turn = "evidence" /\ EvidenceNext
     \/ turn = "pricing" /\ PricingNext
     \/ turn = "signIn" /\ SignInNext

servicesVars == <<turn, ledgerVars, commandVars, limitVars, feeVars, deskVars,
                  evidenceVars, pricingVars, signInVars>>

ServicesSpec == ServicesInit /\ [][ServicesNext]_servicesVars

ServicesSymmetry == UserSymmetry \cup Permutations({f1, f2}) \cup Permutations({k1, k2})

(* Types of every service.                                                  *)
ServicesTypeOK ==
  /\ LedgerTypeOK /\ CommandTypeOK /\ LimitTypeOK /\ FeeTypeOK /\ DeskTypeOK
  /\ EvidenceTypeOK /\ PricingTypeOK /\ SignInTypeOK
=============================================================================
