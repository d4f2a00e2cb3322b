------------------------------ MODULE Sessions ------------------------------
(* How one account is signed in to: one-time credentials become sessions,   *)
(* a session carries the version of the account and whether it answered the *)
(* second factor, and a change of role or factor, or "sign out everywhere", *)
(* moves the account to a new version, which ends the sessions that stay    *)
(* behind.  A call resolves its session first and acts in transactions of   *)
(* its own later, when what it resolved may be out of date.                 *)
EXTENDS Naturals

CONSTANTS SessionRows,  \* a bounded pool of sessions
          Credentials,  \* sign-in codes and Telegram launches
          Visits,       \* calls in progress
          MaxFactor,    \* bound on the second factors ever enrolled
          MaxVersions,  \* bound on the version of the account
          Absent

ASSUME SessionAssumption ==
  /\ {MaxFactor, MaxVersions} \subseteq Nat
  /\ Absent \notin SessionRows \cup Credentials

VARIABLES version,     \* app_user.session_version
          session,     \* the session rows
          redeemed,    \* credentials consumed: auth_challenge, telegram_launch
          factor,      \* how many were begun, the confirmed and the pending one
          recovered,   \* factors whose recovery code is used
          visit,       \* calls in progress
          past         \* ghost: what became of each session

sessionVars == <<version, session, redeemed, factor, recovered, visit, past>>

Factors == 1..MaxFactor
NoSession == [state |-> "none", version |-> 0, mfa |-> FALSE, from |-> Absent]
NoPast == [proved |-> {}, behind |-> FALSE, overlapped |-> FALSE]

(* resolveSession: neither revoked nor expired nor of an older version.     *)
Resolves(s) == session[s].state = "live" /\ session[s].version >= version

SessionInit ==
  /\ version = 0
  /\ session = [s \in SessionRows |-> NoSession]
  /\ redeemed = {}
  /\ factor = [begun |-> 0, confirmed |-> 0, pending |-> 0]
  /\ recovered = {}
  /\ visit = [v \in Visits |-> Absent]
  /\ past = [s \in SessionRows |-> NoPast]

-----------------------------------------------------------------------------
(* redeemEmailSignIn takes a code once, signInWithTelegramLaunch a launch   *)
(* once; both issue a session of the version the account has now.           *)
SignIn(k, s) ==
  /\ k \notin redeemed
  /\ session[s] = NoSession
  /\ redeemed' = redeemed \cup {k}
  /\ session' = [session EXCEPT ![s] =
                   [state |-> "live", version |-> version, mfa |-> FALSE, from |-> k]]
  /\ UNCHANGED <<version, factor, recovered, visit, past>>

ExpireSession(s) ==
  /\ session[s].state = "live"
  /\ session' = [session EXCEPT ![s].state = "ended"]
  /\ UNCHANGED <<version, redeemed, factor, recovered, visit, past>>

(* requireCaller.                                                           *)
BeginVisit(v, s) ==
  /\ visit[v] = Absent
  /\ Resolves(s)
  /\ visit' = [visit EXCEPT ![v] = [session |-> s, late |-> FALSE, recovering |-> FALSE]]
  /\ UNCHANGED <<version, session, redeemed, factor, recovered, past>>

(* Refused, failed, or the process died between two transactions.           *)
EndVisit(v) ==
  /\ visit[v] # Absent
  /\ visit' = [visit EXCEPT ![v] = Absent]
  /\ UNCHANGED <<version, session, redeemed, factor, recovered, past>>

-----------------------------------------------------------------------------
(* What a change of authority leaves on the ghosts: every session but the   *)
(* one that made it is behind, and the calls in progress are late.          *)
PastAfter(keep, late) ==
  [s \in SessionRows |->
     IF s = keep THEN [past[s] EXCEPT !.overlapped = @ \/ late]
     ELSE [past[s] EXCEPT !.behind = session[s] # NoSession]]

VisitsAfter(done) ==
  [v \in Visits |-> IF v = done \/ visit[v] = Absent THEN Absent
                    ELSE [visit[v] EXCEPT !.late = TRUE]]

(* Marks the session that asked and forgets to move the account.            *)
MutBumpSessionOnly(keep, rows) ==
  /\ version < MaxVersions
  /\ version' = version
  /\ session' = [s \in SessionRows |-> IF s = keep THEN [rows[s] EXCEPT !.version = version]
                                       ELSE rows[s]]

(* The version that stands after the change, and the session kept by it.    *)
Bump(keep, rows) ==
  /\ version < MaxVersions
  /\ version' = version + 1
  /\ session' = [s \in SessionRows |-> IF s = keep THEN [rows[s] EXCEPT !.version = version + 1]
                                       ELSE rows[s]]

(* grantRole and revokeRole.                                                *)
ChangeRole ==
  /\ Bump(Absent, session)
  /\ past' = PastAfter(Absent, FALSE)
  /\ visit' = VisitsAfter(Absent)
  /\ UNCHANGED <<redeemed, factor, recovered>>

(* A pending enrolment is replaced, a confirmed factor stays.               *)
BeginEnrolment(v) ==
  /\ visit[v] # Absent
  /\ factor.begun < MaxFactor
  /\ factor' = [factor EXCEPT !.begun = @ + 1, !.pending = factor.begun + 1]
  /\ visit' = [visit EXCEPT ![v] = Absent]
  /\ UNCHANGED <<version, session, redeemed, recovered, past>>

Proves(s, f) == [past EXCEPT ![s].proved = @ \cup {f}]

(* confirmMfaEnrolment keeps the session that asked, whatever became of it. *)
ConfirmEnrolment(v) ==
  LET s == visit[v].session IN
  /\ visit[v] # Absent
  /\ factor.pending # 0
  /\ factor' = [factor EXCEPT !.confirmed = factor.pending, !.pending = 0]
  /\ Bump(s, session)
  /\ past' = [PastAfter(s, visit[v].late) EXCEPT ![s].proved = @ \cup {factor.pending}]
  /\ visit' = VisitsAfter(v)
  /\ UNCHANGED <<redeemed, recovered>>

VerifyFactor(v) ==
  LET s == visit[v].session IN
  /\ visit[v] # Absent
  /\ factor.confirmed # 0
  /\ session' = [session EXCEPT ![s].mfa = TRUE]
  /\ past' = Proves(s, factor.confirmed)
  /\ visit' = [visit EXCEPT ![v] = Absent]
  /\ UNCHANGED <<version, redeemed, factor, recovered>>

(* The codes are looked up without the factor they belong to.               *)
MutRedeemableAlways(f) == factor.confirmed # 0 /\ f \notin recovered

(* Codes are printed when the enrolment begins and serve once it is         *)
(* confirmed, until another takes its place; one of the eight is modelled.  *)
Redeemable(f) == f = factor.confirmed /\ f \notin recovered

RedeemRecoveryCode(v, f) ==
  LET s == visit[v].session IN
  /\ visit[v] # Absent
  /\ ~visit[v].recovering
  /\ f <= factor.begun
  /\ Redeemable(f)
  /\ recovered' = recovered \cup {f}
  /\ session' = [session EXCEPT ![s].mfa = TRUE]
  /\ past' = Proves(s, f)
  /\ visit' = [visit EXCEPT ![v].recovering = TRUE]
  /\ UNCHANGED <<version, redeemed, factor>>

(* revokeAllSessions: asked for, or the second half of a recovery.          *)
SignOutEverywhere(v) ==
  LET s == visit[v].session IN
  /\ visit[v] # Absent
  /\ Bump(s, [t \in SessionRows |->
                IF t # s /\ session[t].state = "live" THEN [session[t] EXCEPT !.state = "ended"]
                ELSE session[t]])
  /\ past' = PastAfter(s, visit[v].late)
  /\ visit' = VisitsAfter(v)
  /\ UNCHANGED <<redeemed, factor, recovered>>

(* Sign out here, or end one session of the list.                           *)
RevokeSession(v, t) ==
  /\ visit[v] # Absent
  /\ session[t].state = "live"
  /\ session' = [session EXCEPT ![t].state = "ended"]
  /\ visit' = [visit EXCEPT ![v] = Absent]
  /\ UNCHANGED <<version, redeemed, factor, recovered, past>>

(* The new row is issued before the old one is known to be live, and the    *)
(* old one is left to expire.                                               *)
MutRotateKeepsOld(v, t) ==
  LET s == visit[v].session IN
  /\ visit[v] # Absent
  /\ session[s].state = "live"
  /\ session[t] = NoSession
  /\ session' = [session EXCEPT ![t] = [session[s] EXCEPT !.version = version]]
  /\ past' = [past EXCEPT ![t] = [past[s] EXCEPT !.overlapped = @ \/ visit[v].late]]
  /\ visit' = [visit EXCEPT ![v] = Absent]
  /\ UNCHANGED <<version, redeemed, factor, recovered>>

(* rotateSession asks for a live row, not for its version.  Only            *)
(* rotateSessionIfDue calls it, which no page calls yet.                    *)
RotateSession(v, t) ==
  LET s == visit[v].session IN
  /\ visit[v] # Absent
  /\ session[s].state = "live"
  /\ session[t] = NoSession
  /\ session' = [session EXCEPT ![t] = [session[s] EXCEPT !.version = version],
                                ![s].state = "ended"]
  /\ past' = [past EXCEPT ![t] = [past[s] EXCEPT !.overlapped = @ \/ visit[v].late]]
  /\ visit' = [visit EXCEPT ![v] = Absent]
  /\ UNCHANGED <<version, redeemed, factor, recovered>>

SessionNext ==
  \/ \E s \in SessionRows : \/ \E k \in Credentials : SignIn(k, s)
                            \/ ExpireSession(s)
  \/ ChangeRole
  \/ \E v \in Visits :
       \/ EndVisit(v)
       \/ BeginEnrolment(v)
       \/ ConfirmEnrolment(v)
       \/ VerifyFactor(v)
       \/ SignOutEverywhere(v)
       \/ \E f \in Factors : RedeemRecoveryCode(v, f)
       \/ \E s \in SessionRows : \/ BeginVisit(v, s)
                                 \/ RevokeSession(v, s)
                                 \/ RotateSession(v, s)

SessionSpec == SessionInit /\ [][SessionNext]_sessionVars

-----------------------------------------------------------------------------
(* Types of the account, its sessions and its calls.                        *)
SessionTypeOK ==
  /\ version \in 0..MaxVersions
  /\ session \in [SessionRows -> [state : {"none", "live", "ended"}, version : 0..MaxVersions,
                                  mfa : BOOLEAN, from : Credentials \cup {Absent}]]
  /\ redeemed \subseteq Credentials
  /\ factor \in [begun : 0..MaxFactor, confirmed : 0..MaxFactor, pending : 0..MaxFactor]
  /\ recovered \subseteq Factors
  /\ visit \in [Visits -> [session : SessionRows, late : BOOLEAN, recovering : BOOLEAN]
                          \cup {Absent}]
  /\ past \in [SessionRows -> [proved : SUBSET Factors, behind : BOOLEAN, overlapped : BOOLEAN]]

(* After a change of role or factor, or a sign-out everywhere, no other     *)
(* session of the account is accepted: one comes across only when a call of *)
(* its own had passed resolveSession before the change and acted after it   *)
(* (bumpSessionVersionIn, revokeAllSessions, rotateSession).                *)
NobodyOutlivesAChange ==
  \A s \in SessionRows : Resolves(s) /\ past[s].behind => past[s].overlapped

(* A session that counts as having answered the second factor has proved    *)
(* the factor that is confirmed now, through every replacement, recovery    *)
(* and rotation, but for the same overlaps (verifyMfaForSession,            *)
(* redeemRecoveryCode, confirmMfaEnrolment).                                *)
AnsweredTheFactorInForce ==
  \A s \in SessionRows : Resolves(s) /\ session[s].mfa =>
    factor.confirmed \in past[s].proved \/ past[s].overlapped

(* A credential is good for one session at a time: the one it was redeemed  *)
(* for or the last of its rotations, also when two calls rotate it at once  *)
(* (redeemEmailSignIn, signInWithTelegramLaunch, rotateSession).            *)
OneSessionPerCredential ==
  \A s, t \in SessionRows :
    session[s].state = "live" /\ session[t].state = "live"
      /\ session[s].from = session[t].from => s = t
=============================================================================
