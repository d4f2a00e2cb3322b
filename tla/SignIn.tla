------------------------------- MODULE SignIn -------------------------------
(* How one address is signed in by e-mail: codes are asked for and          *)
(* presented against two counters of fixed windows, and a code stands for   *)
(* exactly the length of a window.  A presentation is counted in a          *)
(* statement of its own, and looked at in a transaction later, when the     *)
(* window, or the code, may be another.                                     *)
EXTENDS Naturals, FiniteSets

CONSTANTS Challenges,    \* a bounded pool of auth_challenge rows
          Presentations, \* calls of redeemEmailSignIn in progress
          RequestLimit,  \* RATE_RULES.SIGN_IN_REQUEST.limit
          VerifyLimit,   \* RATE_RULES.SIGN_IN_VERIFY.limit
          WindowTicks,   \* a window of either rule, and the life of a code
          MaxTick        \* bound on the clock

ASSUME SignInAssumption ==
  /\ {RequestLimit, VerifyLimit, WindowTicks, MaxTick} \subseteq Nat
  /\ WindowTicks > 0
  /\ IsFiniteSet(Presentations)

VARIABLES tick,        \* the clock of the database
          asked,       \* rate_bucket rows of SIGN_IN_REQUEST, by window
          shown,       \* rate_bucket rows of SIGN_IN_VERIFY, by window
          challenge,   \* the challenges of this address
          presenting,  \* what stood when a presentation in progress was counted
          guesses      \* ghost: presentations each challenge was tested against

signInVars == <<tick, asked, shown, challenge, presenting, guesses>>

Buckets == 0..(MaxTick \div WindowTicks)
NotPresenting == [busy |-> FALSE, against |-> {}]
NoChallenge == [state |-> "none", since |-> 0]

(* window_start, as an ordinal.                                             *)
Bucket == tick \div WindowTicks

(* The row is found whatever its age, and the age is not asked for.         *)
MutNeverExpires == {c \in Challenges : challenge[c].state = "open"}

(* Neither consumed nor expired: what a right answer would open.            *)
Standing == {c \in Challenges : /\ challenge[c].state = "open"
                                /\ tick < challenge[c].since + WindowTicks}

SignInInit ==
  /\ tick = 0
  /\ asked = [w \in Buckets |-> 0]
  /\ shown = [w \in Buckets |-> 0]
  /\ challenge = [c \in Challenges |-> NoChallenge]
  /\ presenting = [p \in Presentations |-> NotPresenting]
  /\ guesses = [c \in Challenges |-> 0]

-----------------------------------------------------------------------------
TimePasses ==
  /\ tick < MaxTick
  /\ tick' = tick + 1
  /\ UNCHANGED <<asked, shown, challenge, presenting, guesses>>

(* startEmailSignIn counts the request and then writes the challenge.       *)
StartEmailSignIn(c) ==
  /\ challenge[c].state = "none"
  /\ asked[Bucket] < RequestLimit
  /\ asked' = [asked EXCEPT ![Bucket] = @ + 1]
  /\ challenge' = [challenge EXCEPT ![c] = [state |-> "open", since |-> tick]]
  /\ UNCHANGED <<tick, shown, presenting, guesses>>

(* The same when there is no way to deliver a code: the request is spent.   *)
AskInVain ==
  /\ asked[Bucket] < RequestLimit
  /\ asked' = [asked EXCEPT ![Bucket] = @ + 1]
  /\ UNCHANGED <<tick, shown, challenge, presenting, guesses>>

(* consumeRate inside redeemEmailSignIn.  A refused presentation moves the  *)
(* counter further past the limit, which nothing reads.                     *)
CountPresentation(p) ==
  /\ ~presenting[p].busy
  /\ shown[Bucket] < VerifyLimit
  /\ shown' = [shown EXCEPT ![Bucket] = @ + 1]
  /\ presenting' = [presenting EXCEPT ![p] = [busy |-> TRUE, against |-> Standing]]
  /\ UNCHANGED <<tick, asked, challenge, guesses>>

(* The transaction of redeemEmailSignIn with a wrong secret: it was tested  *)
(* against every code the address has.                                      *)
RefuseSecret(p) ==
  /\ presenting[p].busy
  /\ guesses' = [c \in Challenges |->
                   IF c \in presenting[p].against \cap Standing THEN guesses[c] + 1
                   ELSE guesses[c]]
  /\ presenting' = [presenting EXCEPT ![p] = NotPresenting]
  /\ UNCHANGED <<tick, asked, shown, challenge>>

(* The same with the secret of one of them, which is consumed.              *)
RedeemSecret(p, c) ==
  /\ presenting[p].busy
  /\ c \in Standing
  /\ challenge' = [challenge EXCEPT ![c].state = "consumed"]
  /\ presenting' = [presenting EXCEPT ![p] = NotPresenting]
  /\ UNCHANGED <<tick, asked, shown, guesses>>

SignInNext ==
  \/ TimePasses
  \/ AskInVain
  \/ \E c \in Challenges : \/ StartEmailSignIn(c)
                           \/ \E p \in Presentations : RedeemSecret(p, c)
  \/ \E p \in Presentations : CountPresentation(p) \/ RefuseSecret(p)

SignInSpec == SignInInit /\ [][SignInNext]_signInVars

-----------------------------------------------------------------------------
(* Types of the counters, the challenges and the calls.                     *)
SignInTypeOK ==
  /\ tick \in 0..MaxTick
  /\ asked \in [Buckets -> 0..RequestLimit]
  /\ shown \in [Buckets -> 0..VerifyLimit]
  /\ challenge \in [Challenges -> [state : {"none", "open", "consumed"}, since : 0..MaxTick]]
  /\ presenting \in [Presentations -> [busy : BOOLEAN, against : SUBSET Challenges]]
  /\ guesses \in [Challenges -> Nat]

(* A code is guessed at no more than twice the limit, the burst at the edge *)
(* of a window included, however many calls are in progress, because it     *)
(* never outlives the second of its windows (consumeRate,                   *)
(* redeemEmailSignIn).  Calls that were counted before the code was written *)
(* are not among them.                                                      *)
GuessesAreBounded == \A c \in Challenges : guesses[c] <= 2 * VerifyLimit
=============================================================================
