--------------------------- MODULE MCRailServices ---------------------------
(* The payment rails, the queue of provider calls and the services for the  *)
(* people behind a deal, side by side on small instances: a behaviour       *)
(* belongs to one of them from its first state on, and the variables of the *)
(* others keep their initial values.                                        *)
EXTENDS MCPaymentRails, RailRequests, Referrals, Sessions, Verification, Transcript

CONSTANTS p1, p2, p3, c1, c2

VARIABLE turn   \* the service this behaviour is about

RailServices == {"rails", "queue", "referrals", "sessions", "verification", "transcript"}

RailServicesInit ==
  /\ turn \in RailServices
  /\ RailsInit /\ RailQueueInit /\ ReferralInit /\ SessionInit /\ VerificationInit
  /\ TranscriptInit

Still(service, vars) == turn # service => UNCHANGED vars

RailServicesNext ==
  /\ UNCHANGED turn
  /\ Still("rails", railsVars) /\ Still("queue", railQueueVars)
  /\ Still("referrals", referralVars) /\ Still("sessions", sessionVars)
  /\ Still("verification", verificationVars) /\ Still("transcript", transcriptVars)
  /\ \/ turn = "rails" /\ RailsNext
     \/ turn = "queue" /\ RailQueueNext
     \/ turn = "referrals" /\ ReferralNext
     \/ turn = "sessions" /\ SessionNext
     \/ turn = "verification" /\ VerificationNext
     \/ turn = "transcript" /\ TranscriptNext

railServicesVars == <<turn, railsVars, railQueueVars, referralVars, sessionVars,
                      verificationVars, transcriptVars>>

RailServicesSpec == RailServicesInit /\ [][RailServicesNext]_railServicesVars

(* Types of every service.                                                  *)
RailServicesTypeOK ==
  /\ RailsTypeOK /\ RailQueueTypeOK /\ ReferralTypeOK /\ SessionTypeOK
  /\ VerificationTypeOK /\ TranscriptTypeOK

RailServicesSymmetry == RailSymmetry \cup Permutations({p1, p2, p3})
                                     \cup Permutations({c1, c2})
=============================================================================
