--------------------------- MODULE IdentityProofs ---------------------------
(***************************************************************************)
(* Proofs about Sessions, Verification and SignIn, for any pools of        *)
(* sessions, credentials, calls, cases and people, any windows and limits. *)
(***************************************************************************)
EXTENDS SignIn, Sessions, Verification, Integers, FiniteSetTheorems, TLAPS

SessionRow == [state : {"none", "live", "ended"}, version : 0..MaxVersions,
               mfa : BOOLEAN, from : Credentials \cup {Absent}]
VisitRow   == [session : SessionRows, late : BOOLEAN, recovering : BOOLEAN]
PastRow    == [proved : SUBSET Factors, behind : BOOLEAN, overlapped : BOOLEAN]

(* A session and its history agree: an unused row has none, one that a     *)
(* change left behind is of an older version, and one that answered the    *)
(* second factor proved the factor in force.                               *)
RowRight(s) ==
  /\ session[s].version <= version
  /\ session[s].state = "none" => session[s] = NoSession /\ past[s] = NoPast
  /\ session[s].state = "live" => session[s].from \in redeemed
  /\ past[s].behind => past[s].overlapped \/ session[s].version < version
  /\ Resolves(s) /\ session[s].mfa =>
       factor.confirmed \in past[s].proved \/ past[s].overlapped

(* A call that no change overtook still has a session of today's version.  *)
VisitRight(v) ==
  visit[v] # Absent =>
    /\ session[visit[v].session].state # "none"
    /\ ~visit[v].late => session[visit[v].session].version = version

SessionInv ==
  /\ SessionTypeOK
  /\ \A s \in SessionRows : RowRight(s)
  /\ \A v \in Visits : VisitRight(v)
  /\ OneSessionPerCredential

LEMMA SessionTypes ==
  ASSUME SessionTypeOK
  PROVE  /\ version \in Nat /\ version <= MaxVersions
         /\ session \in [SessionRows -> SessionRow]
         /\ past \in [SessionRows -> PastRow]
         /\ \A v \in Visits : visit[v] # Absent => visit[v] \in VisitRow
         /\ \A s \in SessionRows : session[s].version \in Nat
         /\ MaxVersions \in Nat /\ MaxFactor \in Nat
<1>1. MaxVersions \in Nat /\ MaxFactor \in Nat
  BY SessionAssumption
<1>2. session \in [SessionRows -> SessionRow] /\ past \in [SessionRows -> PastRow]
  BY DEF SessionTypeOK, SessionRow, PastRow
<1>3. \A s \in SessionRows : session[s].version \in Nat
  BY <1>1, <1>2 DEF SessionRow
<1> QED
  BY <1>1, <1>2, <1>3 DEF SessionTypeOK, VisitRow

LEMMA SessionInitInv == SessionInit => SessionInv
<1> SUFFICES ASSUME SessionInit PROVE SessionInv
  OBVIOUS
<1>1. SessionTypeOK
  BY SessionAssumption DEF SessionInit, SessionTypeOK, NoSession, NoPast, Factors
<1>2. ASSUME NEW s \in SessionRows PROVE RowRight(s)
  <2>1. session[s] = NoSession /\ past[s] = NoPast
    BY DEF SessionInit
  <2>2. session[s].state = "none" /\ session[s].version <= version /\ ~past[s].behind
    BY <2>1 DEF SessionInit, NoSession, NoPast
  <2>3. session[s].state # "live"
    BY <2>2
  <2> QED
    BY <2>1, <2>2, <2>3 DEF RowRight, Resolves
<1>3. \A v \in Visits : VisitRight(v)
  BY DEF SessionInit, VisitRight
<1>4. OneSessionPerCredential
  BY DEF SessionInit, OneSessionPerCredential, NoSession
<1> QED
  BY <1>1, <1>2, <1>3, <1>4 DEF SessionInv

(* A new row from a credential nobody had used.                            *)
LEMMA SignInInv ==
  ASSUME SessionInv, NEW s \in SessionRows, NEW k \in Credentials, SignIn(k, s)
  PROVE  SessionInv'
<1> DEFINE row == [state |-> "live", version |-> version, mfa |-> FALSE, from |-> k]
<1>1. session' = [session EXCEPT ![s] = row] /\ redeemed' = redeemed \cup {k}
      /\ UNCHANGED <<version, factor, recovered, visit, past>>
  BY DEF SignIn
<1>2. SessionTypeOK
  BY DEF SessionInv
<1>3. row \in SessionRow /\ row.state = "live" /\ row.version = version /\ ~row.mfa
      /\ row.from = k
  BY <1>2, SessionTypes DEF SessionTypeOK, SessionRow
<1>4. session \in [SessionRows -> SessionRow] /\ version \in Nat
      /\ past \in [SessionRows -> PastRow]
  BY <1>2, SessionTypes
<1>5. session[s] = NoSession /\ session[s].state = "none" /\ k \notin redeemed
  BY DEF SignIn, NoSession
<1> HIDE DEF row
<1>6. SessionTypeOK'
  <2>1. session' \in [SessionRows -> SessionRow]
    BY <1>1, <1>3, <1>4
  <2>2. redeemed' \subseteq Credentials
    BY <1>1, <1>2 DEF SessionTypeOK
  <2> QED
    BY <1>1, <1>2, <2>1, <2>2 DEF SessionTypeOK, SessionRow
<1>7. ASSUME NEW t \in SessionRows PROVE RowRight(t)'
  <2>1. CASE t = s
    <3>1. past[s] = NoPast
      BY <1>5 DEF SessionInv, RowRight
    <3> QED
      BY <1>1, <1>3, <1>4, <2>1, <3>1 DEF RowRight, Resolves, NoPast
  <2>2. CASE t # s
    BY <1>1, <1>4, <2>2 DEF SessionInv, RowRight, Resolves
  <2> QED
    BY <2>1, <2>2
<1>8. ASSUME NEW v \in Visits PROVE VisitRight(v)'
  <2>1. visit[v] # Absent => visit[v].session # s /\ visit[v].session \in SessionRows
    BY <1>2, <1>5, SessionTypes DEF SessionInv, VisitRight, VisitRow
  <2> QED
    BY <1>1, <1>4, <2>1 DEF SessionInv, VisitRight
<1>9. OneSessionPerCredential'
  BY <1>1, <1>3, <1>4, <1>5 DEF SessionInv, OneSessionPerCredential, RowRight
<1> QED
  BY <1>6, <1>7, <1>8, <1>9 DEF SessionInv

(* Calls that write no session row: one begins or ends, or a new factor is *)
(* begun.                                                                  *)
LEMMA CallInv ==
  ASSUME SessionInv, NEW v \in Visits,
         (\E s \in SessionRows : BeginVisit(v, s)) \/ EndVisit(v) \/ BeginEnrolment(v)
  PROVE  SessionInv'
<1>1. SessionTypeOK
  BY DEF SessionInv
<1>2. version \in Nat /\ session \in [SessionRows -> SessionRow]
  BY <1>1, SessionTypes
<1>3. UNCHANGED <<version, session, redeemed, recovered, past>>
      /\ factor'.confirmed = factor.confirmed
  BY <1>1 DEF BeginVisit, EndVisit, BeginEnrolment, SessionTypeOK
<1>4. factor' \in [begun : 0..MaxFactor, confirmed : 0..MaxFactor, pending : 0..MaxFactor]
  <2>1. factor.begun \in 0..MaxFactor /\ MaxFactor \in Nat
    BY <1>1, SessionTypes DEF SessionTypeOK
  <2>2. factor.begun < MaxFactor => factor.begun + 1 \in 0..MaxFactor
    BY <2>1
  <2> QED
    BY <1>1, <2>2 DEF BeginVisit, EndVisit, BeginEnrolment, SessionTypeOK
<1>5. \/ visit' = [visit EXCEPT ![v] = Absent]
      \/ \E s \in SessionRows :
           /\ Resolves(s)
           /\ visit' = [visit EXCEPT ![v] = [session |-> s, late |-> FALSE, recovering |-> FALSE]]
  BY DEF BeginVisit, EndVisit, BeginEnrolment
<1>6. SessionTypeOK'
  <2>1. visit \in [Visits -> VisitRow \cup {Absent}]
    BY <1>1 DEF SessionTypeOK, VisitRow
  <2>2. visit' \in [Visits -> VisitRow \cup {Absent}]
    <3>1. \A s \in SessionRows :
            [session |-> s, late |-> FALSE, recovering |-> FALSE] \in VisitRow
      BY DEF VisitRow
    <3> QED
      BY <1>5, <2>1, <3>1
  <2> QED
    BY <1>1, <1>3, <1>4, <2>2 DEF SessionTypeOK, VisitRow
<1>7. ASSUME NEW s \in SessionRows PROVE RowRight(s)'
  BY <1>3 DEF SessionInv, RowRight, Resolves
<1>8. ASSUME NEW u \in Visits PROVE VisitRight(u)'
  <2>1. visit \in [Visits -> VisitRow \cup {Absent}]
    BY <1>1 DEF SessionTypeOK, VisitRow
  <2>2. CASE u = v /\ visit'[v] # Absent
    <3>1. PICK s \in SessionRows :
            /\ Resolves(s)
            /\ visit' = [visit EXCEPT ![v] = [session |-> s, late |-> FALSE, recovering |-> FALSE]]
      BY <1>5, <2>1, <2>2
    <3>2. visit'[v].session = s
      BY <2>1, <3>1
    <3>3. session[s].state # "none" /\ session[s].version = version
      <4>1. session[s].state = "live" /\ session[s].version >= version
        BY <3>1 DEF Resolves
      <4>2. session[s].version <= version /\ session[s].version \in Nat
        BY <1>1, SessionTypes DEF SessionInv, RowRight
      <4> QED
        BY <1>2, <4>1, <4>2
    <3> QED
      BY <1>3, <2>2, <3>2, <3>3 DEF VisitRight
  <2>3. CASE u # v
    BY <1>3, <1>5, <2>1, <2>3 DEF SessionInv, VisitRight
  <2> QED
    BY <2>2, <2>3 DEF VisitRight
<1>9. OneSessionPerCredential'
  BY <1>3 DEF SessionInv, OneSessionPerCredential
<1> QED
  BY <1>6, <1>7, <1>8, <1>9 DEF SessionInv

(* One row changes and the account does not: the row may end, answer the   *)
(* factor in force, or neither.                                            *)
RowChange(s, row, was) ==
  /\ UNCHANGED <<version, redeemed, factor>>
  /\ session' = [session EXCEPT ![s] = row]
  /\ past' = [past EXCEPT ![s] = was]
  /\ row.version = session[s].version /\ row.from = session[s].from
  /\ row.state = session[s].state \/ row.state = "ended"
  /\ session[s].state # "none"
  /\ was.behind = past[s].behind /\ was.overlapped = past[s].overlapped
  /\ past[s].proved \subseteq was.proved
  /\ row.mfa = session[s].mfa \/ factor.confirmed \in was.proved
  /\ recovered' \subseteq Factors
  /\ visit' \in [Visits -> VisitRow \cup {Absent}]
  /\ \A v \in Visits : visit'[v] # Absent =>
       /\ visit[v] # Absent
       /\ visit'[v].session = visit[v].session /\ visit'[v].late = visit[v].late

LEMMA OneRowInv ==
  ASSUME SessionInv, NEW s \in SessionRows, NEW row \in SessionRow, NEW was \in PastRow,
         RowChange(s, row, was)
  PROVE  SessionInv'
<1>1. SessionTypeOK
  BY DEF SessionInv
<1>2. version \in Nat /\ session \in [SessionRows -> SessionRow] /\ past \in [SessionRows -> PastRow]
  BY <1>1, SessionTypes
<1>3. SessionTypeOK'
  <2>1. session' \in [SessionRows -> SessionRow] /\ past' \in [SessionRows -> PastRow]
    BY <1>2 DEF RowChange
  <2> QED
    BY <1>1, <2>1 DEF RowChange, SessionTypeOK, SessionRow, PastRow, VisitRow
<1>4. ASSUME NEW t \in SessionRows PROVE RowRight(t)'
  <2>1. CASE t = s
    <3>1. RowRight(s)
      BY DEF SessionInv
    <3>2. session'[s] = row /\ past'[s] = was
      BY <1>2 DEF RowChange
    <3>3. row.version <= version /\ row.state # "none"
      BY <3>1 DEF RowChange, RowRight
    <3>4. row.state = "live" => row.from \in redeemed
      BY <3>1 DEF RowChange, RowRight
    <3>5. was.behind => was.overlapped \/ row.version < version
      BY <3>1 DEF RowChange, RowRight
    <3>6. row.state = "live" /\ row.version >= version /\ row.mfa =>
            factor.confirmed \in was.proved \/ was.overlapped
      BY <3>1 DEF RowChange, RowRight, Resolves
    <3> QED
      BY <2>1, <3>2, <3>3, <3>4, <3>5, <3>6 DEF RowChange, RowRight, Resolves
  <2>2. CASE t # s
    BY <1>2, <2>2 DEF RowChange, SessionInv, RowRight, Resolves
  <2> QED
    BY <2>1, <2>2
<1>5. ASSUME NEW v \in Visits PROVE VisitRight(v)'
  <2>1. SUFFICES ASSUME visit'[v] # Absent
                 PROVE  /\ session'[visit'[v].session].state # "none"
                        /\ ~visit'[v].late => session'[visit'[v].session].version = version'
    BY DEF VisitRight
  <2>2. VisitRight(v) /\ visit[v] # Absent /\ visit[v].session \in SessionRows
    BY <1>1, <2>1, SessionTypes DEF RowChange, SessionInv, VisitRow
  <2> QED
    BY <1>2, <2>1, <2>2 DEF RowChange, VisitRight
<1>6. OneSessionPerCredential'
  <2> SUFFICES ASSUME NEW t \in SessionRows, NEW u \in SessionRows,
                      session'[t].state = "live", session'[u].state = "live",
                      session'[t].from = session'[u].from
               PROVE  t = u
    BY DEF OneSessionPerCredential
  <2>1. session[t].state = "live" /\ session[u].state = "live" /\ session[t].from = session[u].from
    BY <1>2 DEF RowChange
  <2> QED
    BY <2>1 DEF SessionInv, OneSessionPerCredential
<1> QED
  BY <1>3, <1>4, <1>5, <1>6 DEF SessionInv

FactorRow == [begun : 0..MaxFactor, confirmed : 0..MaxFactor, pending : 0..MaxFactor]

(* A change of authority: the account moves on, the session that asked     *)
(* (keep) moves with it, having proved the factors in fresh, others may    *)
(* end (rows), and every other call is late; ran says that keep's own call *)
(* was late already.                                                       *)
Change(keep, rows, ran, fresh, done) ==
  /\ keep \in SessionRows => /\ session[keep].state # "none"
                             /\ ran \/ session[keep].version = version
  /\ Bump(keep, rows)
  /\ rows \in [SessionRows -> SessionRow]
  /\ \A s \in SessionRows :
       /\ rows[s].version = session[s].version /\ rows[s].from = session[s].from
       /\ rows[s].mfa = session[s].mfa
       /\ \/ rows[s] = session[s]
          \/ rows[s].state = "ended" /\ session[s].state # "none"
  /\ past' = [s \in SessionRows |->
                IF s = keep THEN [PastAfter(keep, ran)[s] EXCEPT !.proved = @ \cup fresh]
                ELSE PastAfter(keep, ran)[s]]
  /\ visit' = VisitsAfter(done)
  /\ UNCHANGED <<redeemed, recovered>>
  /\ factor' \in FactorRow
  /\ factor'.confirmed = factor.confirmed \/ factor'.confirmed \in fresh

LEMMA ChangeInv ==
  ASSUME SessionInv, NEW keep, NEW rows, NEW ran \in BOOLEAN, NEW fresh \in SUBSET Factors,
         NEW done, Change(keep, rows, ran, fresh, done)
  PROVE  SessionInv'
<1>1. SessionTypeOK
  BY DEF SessionInv
<1>2. /\ version \in Nat /\ MaxVersions \in Nat /\ version < MaxVersions /\ version' = version + 1
      /\ past \in [SessionRows -> PastRow]
      /\ \A s \in SessionRows : session[s].version \in Nat /\ session[s].version <= version
  BY <1>1, SessionTypes DEF Change, Bump, SessionInv, RowRight
<1>3. \A s \in SessionRows :
        /\ session'[s] \in SessionRow
        /\ session'[s].state = rows[s].state /\ session'[s].from = rows[s].from
        /\ session'[s].mfa = rows[s].mfa
        /\ session'[s].version = IF s = keep THEN version + 1 ELSE session[s].version
  BY <1>2 DEF Change, Bump, SessionRow
<1>4. ASSUME NEW s \in SessionRows
      PROVE  /\ past'[s] \in PastRow
             /\ past'[s].behind /\ s = keep => past[s].behind
             /\ past[s].overlapped \/ (s = keep /\ ran) => past'[s].overlapped
             /\ past[s].proved \subseteq past'[s].proved
             /\ s = keep => fresh \subseteq past'[s].proved
  <2> DEFINE over == past[s].overlapped \/ ran
             used == session[s] # NoSession
  <2>1. past[s] \in PastRow /\ over \in BOOLEAN /\ used \in BOOLEAN
    BY <1>2
  <2>2. past[s].overlapped \/ ran => over
    OBVIOUS
  <2>3. past'[s] = IF s = keep
                   THEN [[past[s] EXCEPT !.overlapped = over] EXCEPT !.proved = @ \cup fresh]
                   ELSE [past[s] EXCEPT !.behind = used]
    BY DEF Change, PastAfter
  <2> HIDE DEF over, used
  <2>4. CASE s = keep
    <3>1. past'[s] = [proved |-> past[s].proved \cup fresh, behind |-> past[s].behind,
                      overlapped |-> over]
      BY <2>1, <2>3, <2>4 DEF PastRow
    <3> QED
      BY <2>1, <2>2, <2>4, <3>1 DEF PastRow
  <2>5. CASE s # keep
    <3>1. past'[s] = [proved |-> past[s].proved, behind |-> used,
                      overlapped |-> past[s].overlapped]
      BY <2>1, <2>3, <2>5 DEF PastRow
    <3> QED
      BY <2>1, <2>5, <3>1 DEF PastRow
  <2> QED
    BY <2>4, <2>5
<1>5. visit' \in [Visits -> VisitRow \cup {Absent}]
      /\ \A v \in Visits : visit'[v] # Absent =>
           visit'[v].late /\ visit[v] # Absent /\ visit'[v].session = visit[v].session
  BY <1>1, SessionTypes DEF Change, VisitsAfter, VisitRow
<1>6. SessionTypeOK'
  <2>1. session' \in [SessionRows -> SessionRow]
    BY <1>3 DEF Change, Bump
  <2>2. past' \in [SessionRows -> PastRow]
    BY <1>4 DEF Change
  <2>3. version' \in 0..MaxVersions
    BY <1>2
  <2> QED
    BY <1>1, <1>5, <2>1, <2>2, <2>3
       DEF Change, SessionTypeOK, SessionRow, PastRow, VisitRow, FactorRow
<1>7. ASSUME NEW s \in SessionRows PROVE RowRight(s)'
  <2>1. RowRight(s)
    BY DEF SessionInv
  <2>2. session'[s].version <= version'
    BY <1>2, <1>3
  <2>3. session'[s].state = "none" => session'[s] = NoSession /\ past'[s] = NoPast
    <3> SUFFICES ASSUME session'[s].state = "none"
                 PROVE  session'[s] = NoSession /\ past'[s] = NoPast
      OBVIOUS
    <3>1. rows[s] = session[s] /\ session[s].state = "none" /\ s # keep
      BY <1>3 DEF Change
    <3>2. session[s] = NoSession /\ past[s] = NoPast
      BY <2>1, <3>1 DEF RowRight
    <3>3. session'[s] = rows[s]
      BY <3>1 DEF Change, Bump
    <3>4. past'[s] = [past[s] EXCEPT !.behind = FALSE]
      BY <3>1, <3>2 DEF Change, PastAfter
    <3>5. past'[s] = NoPast
      <4>1. \A r \in PastRow : [r EXCEPT !.behind = r.behind] = r
        BY DEF PastRow
      <4>2. past[s] \in PastRow /\ past[s].behind \in BOOLEAN
        BY <1>2 DEF PastRow
      <4>3. ~past[s].behind
        BY <3>2 DEF NoPast
      <4>4. past[s].behind = FALSE
        BY <4>2, <4>3
      <4> QED
        BY <3>2, <3>4, <4>1, <4>2, <4>4
    <3> QED
      BY <3>1, <3>2, <3>3, <3>5
  <2>4. session'[s].state = "live" => session'[s].from \in redeemed'
    BY <1>3, <2>1 DEF Change, RowRight
  <2>5. ASSUME past'[s].behind
        PROVE  past'[s].overlapped \/ session'[s].version < version'
    <3>1. CASE s # keep
      BY <1>2, <1>3, <3>1
    <3>2. CASE s = keep /\ ran
      BY <1>4, <3>2
    <3>3. CASE s = keep /\ ~ran
      <4>1. past[s].behind /\ session[s].version = version
        BY <1>4, <2>5, <3>3 DEF Change
      <4>2. past[s].overlapped
        BY <1>2, <2>1, <4>1 DEF RowRight
      <4> QED
        BY <1>4, <4>2
    <3> QED
      BY <3>1, <3>2, <3>3
  <2>6. ASSUME Resolves(s)', session'[s].mfa
        PROVE  factor'.confirmed \in past'[s].proved \/ past'[s].overlapped
    <3>1. s = keep /\ session[s].state = "live"
      BY <1>2, <1>3, <2>6 DEF Change, Resolves
    <3>2. CASE ran
      BY <1>4, <3>1, <3>2
    <3>3. CASE ~ran
      <4>1. Resolves(s) /\ session[s].mfa
        BY <1>2, <1>3, <2>6, <3>1, <3>3 DEF Change, Resolves
      <4>2. factor.confirmed \in past[s].proved \/ past[s].overlapped
        BY <2>1, <4>1 DEF RowRight
      <4>3. factor'.confirmed = factor.confirmed \/ factor'.confirmed \in fresh
        BY DEF Change
      <4> QED
        BY <1>4, <3>1, <4>2, <4>3
    <3> QED
      BY <3>2, <3>3
  <2> QED
    BY <2>2, <2>3, <2>4, <2>5, <2>6 DEF RowRight
<1>8. ASSUME NEW v \in Visits PROVE VisitRight(v)'
  <2> SUFFICES ASSUME visit'[v] # Absent
               PROVE  session'[visit'[v].session].state # "none" /\ visit'[v].late
    BY DEF VisitRight
  <2>1. VisitRight(v) /\ visit[v] # Absent /\ visit[v].session \in SessionRows
    BY <1>1, <1>5, SessionTypes DEF SessionInv, VisitRow
  <2> QED
    BY <1>3, <1>5, <2>1 DEF Change, VisitRight
<1>9. OneSessionPerCredential'
  BY <1>3 DEF Change, SessionInv, OneSessionPerCredential
<1> QED
  BY <1>6, <1>7, <1>8, <1>9 DEF SessionInv

LEMMA PastAfterTypes ==
  ASSUME SessionTypeOK, NEW keep, NEW late \in BOOLEAN
  PROVE  PastAfter(keep, late) \in [SessionRows -> PastRow]
<1> SUFFICES ASSUME NEW s \in SessionRows PROVE PastAfter(keep, late)[s] \in PastRow
  BY DEF PastAfter
<1> DEFINE over == past[s].overlapped \/ late
           used == session[s] # NoSession
<1>1. past[s] \in PastRow
  BY SessionTypes
<1>2. over \in BOOLEAN /\ used \in BOOLEAN
  OBVIOUS
<1>3. PastAfter(keep, late)[s] =
        IF s = keep THEN [past[s] EXCEPT !.overlapped = over]
        ELSE [past[s] EXCEPT !.behind = used]
  BY DEF PastAfter
<1> HIDE DEF over, used
<1> QED
  BY <1>1, <1>2, <1>3 DEF PastRow

LEMMA ChangeRoleInv == SessionInv /\ ChangeRole => SessionInv'
<1> SUFFICES ASSUME SessionInv, ChangeRole PROVE SessionInv'
  OBVIOUS
<1>1. SessionTypeOK /\ Absent \notin SessionRows
  BY SessionAssumption DEF SessionInv
<1>2. session \in [SessionRows -> SessionRow]
  BY <1>1, SessionTypes
<1>3. Bump(Absent, session) /\ visit' = VisitsAfter(Absent)
      /\ UNCHANGED <<redeemed, factor, recovered>>
      /\ past' = [s \in SessionRows |-> PastAfter(Absent, FALSE)[s]]
  BY DEF ChangeRole, PastAfter
<1>4. past' = [s \in SessionRows |->
                 IF s = Absent THEN [PastAfter(Absent, FALSE)[s] EXCEPT !.proved = @ \cup {}]
                 ELSE PastAfter(Absent, FALSE)[s]]
  BY <1>1, <1>3
<1>5. Change(Absent, session, FALSE, {}, Absent)
  BY <1>1, <1>2, <1>3, <1>4 DEF Change, SessionTypeOK, FactorRow
<1> QED
  BY <1>5, ChangeInv

(* The session whose call makes a change is the one that call resolved.    *)
LEMMA ChangeByCallInv ==
  ASSUME SessionInv, NEW v \in Visits, ConfirmEnrolment(v) \/ SignOutEverywhere(v)
  PROVE  SessionInv'
<1> DEFINE s == visit[v].session
           ran == visit[v].late
<1>1. SessionTypeOK /\ VisitRight(v) /\ visit[v] # Absent
  BY DEF SessionInv, ConfirmEnrolment, SignOutEverywhere
<1>2. session \in [SessionRows -> SessionRow] /\ s \in SessionRows /\ ran \in BOOLEAN
  BY <1>1, SessionTypes DEF VisitRow
<1>3. session[s].state # "none" /\ (ran \/ session[s].version = version)
  BY <1>1 DEF VisitRight
<1>4. visit' = VisitsAfter(v) /\ UNCHANGED <<redeemed, recovered>>
  BY DEF ConfirmEnrolment, SignOutEverywhere
<1>5. PastAfter(s, ran) \in [SessionRows -> PastRow]
  BY <1>1, <1>2, PastAfterTypes
<1>6. CASE ConfirmEnrolment(v)
  <2>1. factor.pending \in Factors /\ Bump(s, session)
        /\ factor' = [factor EXCEPT !.confirmed = factor.pending, !.pending = 0]
        /\ past' = [PastAfter(s, ran) EXCEPT ![s].proved = @ \cup {factor.pending}]
    BY <1>1, <1>6, SessionAssumption DEF ConfirmEnrolment, SessionTypeOK, Factors
  <2>2. past' = [t \in SessionRows |->
                   IF t = s THEN [PastAfter(s, ran)[t] EXCEPT !.proved = @ \cup {factor.pending}]
                   ELSE PastAfter(s, ran)[t]]
    BY <1>5, <2>1
  <2>3. factor' \in FactorRow /\ factor'.confirmed = factor.pending
    <3>1. factor \in FactorRow /\ 0 \in 0..MaxFactor
      BY <1>1, SessionAssumption DEF SessionTypeOK, FactorRow
    <3> QED
      BY <2>1, <3>1 DEF FactorRow
  <2> HIDE DEF s, ran
  <2>4. Change(s, session, ran, {factor.pending}, v)
    BY <1>2, <1>3, <1>4, <2>1, <2>2, <2>3 DEF Change
  <2> QED
    BY <1>2, <2>1, <2>4, ChangeInv
<1>7. CASE SignOutEverywhere(v)
  <2> DEFINE rows == [t \in SessionRows |->
                        IF t # s /\ session[t].state = "live"
                        THEN [session[t] EXCEPT !.state = "ended"] ELSE session[t]]
  <2>1. Bump(s, rows) /\ past' = PastAfter(s, ran) /\ factor' = factor
    BY <1>7 DEF SignOutEverywhere
  <2>2. ASSUME NEW t \in SessionRows
        PROVE  /\ rows[t] \in SessionRow
               /\ rows[t].version = session[t].version /\ rows[t].from = session[t].from
               /\ rows[t].mfa = session[t].mfa
               /\ \/ rows[t] = session[t]
                  \/ rows[t].state = "ended" /\ session[t].state # "none"
    <3>1. session[t] \in SessionRow
      BY <1>2
    <3>2. CASE session[t].state = "live" /\ t # s
      <4>1. rows[t] = [session[t] EXCEPT !.state = "ended"]
        BY <3>2
      <4> HIDE DEF rows, s
      <4> QED
        BY <3>1, <3>2, <4>1 DEF SessionRow
    <3>3. CASE ~(session[t].state = "live" /\ t # s)
      <4>1. rows[t] = session[t]
        BY <3>3
      <4> HIDE DEF rows, s
      <4> QED
        BY <3>1, <4>1
    <3> QED
      BY <3>2, <3>3
  <2>3. rows \in [SessionRows -> SessionRow]
    BY <2>2
  <2>4. past' = [t \in SessionRows |->
                   IF t = s THEN [PastAfter(s, ran)[t] EXCEPT !.proved = @ \cup {}]
                   ELSE PastAfter(s, ran)[t]]
    <3>1. \A r \in PastRow : [r EXCEPT !.proved = @ \cup {}] = r
      BY DEF PastRow
    <3> HIDE DEF s, ran
    <3> QED
      BY <1>5, <2>1, <3>1
  <2> HIDE DEF s, ran, rows
  <2>5. Change(s, rows, ran, {}, v)
    BY <1>1, <1>3, <1>4, <2>1, <2>2, <2>3, <2>4 DEF Change, SessionTypeOK, FactorRow
  <2> QED
    BY <1>2, <2>5, ChangeInv
<1> QED
  BY <1>6, <1>7

(* Calls that write their own row, or end a row of the account.            *)
LEMMA OwnRowInv ==
  ASSUME SessionInv, NEW v \in Visits,
         VerifyFactor(v) \/ \E f \in Factors : RedeemRecoveryCode(v, f)
  PROVE  SessionInv'
<1> DEFINE s == visit[v].session
           row == [session[s] EXCEPT !.mfa = TRUE]
           was == [past[s] EXCEPT !.proved = @ \cup {factor.confirmed}]
<1>1. SessionTypeOK /\ VisitRight(v) /\ visit[v] # Absent
  BY DEF SessionInv, VerifyFactor, RedeemRecoveryCode
<1>2. session \in [SessionRows -> SessionRow] /\ past \in [SessionRows -> PastRow]
      /\ s \in SessionRows /\ visit[v] \in VisitRow
  BY <1>1, SessionTypes DEF VisitRow
<1>3. session[s].state # "none"
  BY <1>1 DEF VisitRight
<1>4. factor.confirmed \in Factors
  BY <1>1, SessionAssumption
     DEF VerifyFactor, RedeemRecoveryCode, Redeemable, SessionTypeOK, Factors
<1>5. row \in SessionRow /\ row.version = session[s].version /\ row.from = session[s].from
      /\ row.state = session[s].state
  BY <1>2 DEF SessionRow
<1>6. was \in PastRow /\ was.behind = past[s].behind /\ was.overlapped = past[s].overlapped
      /\ was.proved = past[s].proved \cup {factor.confirmed}
  BY <1>2, <1>4 DEF PastRow
<1>7. session' = [session EXCEPT ![s] = row] /\ UNCHANGED <<version, redeemed, factor>>
  BY <1>2 DEF VerifyFactor, RedeemRecoveryCode
<1>8. past' = [past EXCEPT ![s] = was]
  BY <1>2 DEF VerifyFactor, RedeemRecoveryCode, Redeemable, Proves
<1>9. recovered' \subseteq Factors
  BY <1>1 DEF VerifyFactor, RedeemRecoveryCode, SessionTypeOK
<1>10. \/ visit' = [visit EXCEPT ![v] = Absent]
       \/ visit' = [visit EXCEPT ![v] = [visit[v] EXCEPT !.recovering = TRUE]]
  BY <1>1 DEF VerifyFactor, RedeemRecoveryCode, SessionTypeOK
<1>11. /\ visit' \in [Visits -> VisitRow \cup {Absent}]
       /\ \A u \in Visits : visit'[u] # Absent =>
            /\ visit[u] # Absent
            /\ visit'[u].session = visit[u].session /\ visit'[u].late = visit[u].late
  <2> DEFINE on == [visit[v] EXCEPT !.recovering = TRUE]
  <2>1. visit \in [Visits -> VisitRow \cup {Absent}]
    BY <1>1 DEF SessionTypeOK, VisitRow
  <2>2. on \in VisitRow /\ on.session = visit[v].session /\ on.late = visit[v].late
    BY <1>2 DEF VisitRow
  <2>3. \/ visit' = [visit EXCEPT ![v] = Absent]
        \/ visit' = [visit EXCEPT ![v] = on]
    BY <1>10
  <2> HIDE DEF on, s, row, was
  <2> QED
    BY <1>1, <2>1, <2>2, <2>3
<1> HIDE DEF s, row, was
<1>12. RowChange(s, row, was)
  BY <1>3, <1>5, <1>6, <1>7, <1>8, <1>9, <1>11 DEF RowChange
<1> QED
  BY <1>2, <1>5, <1>6, <1>12, OneRowInv

LEMMA RowEndsInv ==
  ASSUME SessionInv, NEW s \in SessionRows,
         ExpireSession(s) \/ \E v \in Visits : RevokeSession(v, s)
  PROVE  SessionInv'
<1> DEFINE row == [session[s] EXCEPT !.state = "ended"]
<1>1. SessionTypeOK
  BY DEF SessionInv
<1>2. session \in [SessionRows -> SessionRow] /\ past \in [SessionRows -> PastRow]
  BY <1>1, SessionTypes
<1>3. row \in SessionRow /\ row.version = session[s].version /\ row.from = session[s].from
      /\ row.mfa = session[s].mfa /\ row.state = "ended"
  BY <1>2 DEF SessionRow
<1>4. session' = [session EXCEPT ![s] = row]
  BY <1>2 DEF ExpireSession, RevokeSession
<1>5. session[s].state = "live" /\ UNCHANGED <<version, redeemed, factor, recovered, past>>
  BY DEF ExpireSession, RevokeSession
<1>6. visit' = visit \/ \E v \in Visits : visit' = [visit EXCEPT ![v] = Absent]
  BY DEF ExpireSession, RevokeSession
<1>7. /\ visit' \in [Visits -> VisitRow \cup {Absent}]
      /\ \A v \in Visits : visit'[v] # Absent => visit'[v] = visit[v]
  BY <1>1, <1>6 DEF SessionTypeOK, VisitRow
<1>8. past' = [past EXCEPT ![s] = past[s]] /\ past[s] \in PastRow
  BY <1>2, <1>5
<1>9. recovered' \subseteq Factors
  BY <1>1, <1>5 DEF SessionTypeOK
<1> HIDE DEF row
<1>10. RowChange(s, row, past[s])
  BY <1>3, <1>4, <1>5, <1>7, <1>8, <1>9 DEF RowChange
<1> QED
  BY <1>3, <1>8, <1>10, OneRowInv

(* Both rows of a rotation: the old one ends, the new one is of today's    *)
(* version and inherits the history.                                       *)
LEMMA RotateInv ==
  ASSUME SessionInv, NEW v \in Visits, NEW t \in SessionRows, RotateSession(v, t)
  PROVE  SessionInv'
<1>1. SessionTypeOK /\ VisitRight(v) /\ visit[v] # Absent
  BY DEF SessionInv, RotateSession
<1>2. PICK s \in SessionRows : s = visit[v].session
  BY <1>1, SessionTypes DEF VisitRow
<1> DEFINE over == past[s].overlapped \/ visit[v].late
           new == [session[s] EXCEPT !.version = version]
           old == [session[s] EXCEPT !.state = "ended"]
           was == [past[s] EXCEPT !.overlapped = over]
<1>3. /\ session \in [SessionRows -> SessionRow] /\ past \in [SessionRows -> PastRow]
      /\ visit[v] \in VisitRow /\ version \in Nat
      /\ \A r \in SessionRows : session[r].version \in Nat
  BY <1>1, SessionTypes DEF VisitRow
<1>4. session[t] = NoSession /\ session[t].state = "none" /\ session[s].state = "live" /\ t # s
  BY <1>2 DEF RotateSession, NoSession
<1>5. visit[v].late \/ session[s].version = version
  BY <1>1, <1>2 DEF VisitRight
<1>6. RowRight(s) /\ RowRight(t)
  BY DEF SessionInv
<1>7. over \in BOOLEAN
  OBVIOUS
<1>8. ~over => ~past[s].overlapped /\ ~visit[v].late
  OBVIOUS
<1>9. /\ session' = [session EXCEPT ![t] = new, ![s] = old]
      /\ past' = [past EXCEPT ![t] = was]
      /\ visit' = [visit EXCEPT ![v] = Absent]
      /\ UNCHANGED <<version, redeemed, factor, recovered>>
  BY <1>2, <1>3, <1>4 DEF RotateSession
<1> HIDE DEF over
<1>10. /\ new \in SessionRow /\ new.version = version /\ new.from = session[s].from
      /\ new.mfa = session[s].mfa /\ new.state = "live"
      /\ old \in SessionRow /\ old.version = session[s].version /\ old.state = "ended"
  BY <1>1, <1>3, <1>4 DEF SessionTypeOK, SessionRow
<1>11. /\ was \in PastRow /\ was.behind = past[s].behind /\ was.proved = past[s].proved
       /\ was.overlapped = over
  BY <1>3, <1>7 DEF PastRow
<1> HIDE DEF new, old, was
<1>12. session'[t] = new /\ session'[s] = old /\ past'[t] = was
       /\ \A r \in SessionRows \ {s, t} : session'[r] = session[r]
       /\ \A p \in SessionRows \ {t} : past'[p] = past[p]
  BY <1>3, <1>4, <1>9
<1>13. SessionTypeOK'
  <2>1. session' \in [SessionRows -> SessionRow] /\ past' \in [SessionRows -> PastRow]
    BY <1>3, <1>9, <1>10, <1>11
  <2>2. visit' \in [Visits -> VisitRow \cup {Absent}]
    BY <1>1, <1>9 DEF SessionTypeOK, VisitRow
  <2> QED
    BY <1>1, <1>9, <2>1, <2>2 DEF SessionTypeOK, SessionRow, PastRow, VisitRow
<1>14. ASSUME NEW r \in SessionRows PROVE RowRight(r)'
  <2>1. CASE r = t
    <3>1. new.from \in redeemed
      BY <1>4, <1>6, <1>10 DEF RowRight
    <3>2. ASSUME was.behind PROVE was.overlapped
      <4>1. CASE over
        BY <1>11, <4>1
      <4>2. CASE ~over
        <5>1. session[s].version = version /\ past[s].behind /\ ~past[s].overlapped
          BY <1>5, <1>8, <1>11, <3>2, <4>2
        <5> QED
          BY <1>3, <1>6, <5>1 DEF RowRight
      <4> QED
        BY <4>1, <4>2
    <3>3. ASSUME new.mfa PROVE factor.confirmed \in was.proved \/ was.overlapped
      <4>1. CASE over
        BY <1>11, <4>1
      <4>2. CASE ~over
        <5>1. Resolves(s) /\ session[s].mfa
          BY <1>3, <1>4, <1>5, <1>8, <1>10, <3>3, <4>2 DEF Resolves
        <5>2. factor.confirmed \in past[s].proved
          BY <1>6, <1>8, <4>2, <5>1 DEF RowRight
        <5> QED
          BY <1>11, <5>2
      <4> QED
        BY <4>1, <4>2
    <3> QED
      BY <1>3, <1>9, <1>10, <1>12, <2>1, <3>1, <3>2, <3>3 DEF RowRight, Resolves
  <2>2. CASE r = s
    <3>1. past'[s] = past[s] /\ version' = version /\ session'[s] = old
      BY <1>3, <1>4, <1>9, <1>12
    <3>2. session'[s].version = session[s].version /\ session'[s].state = "ended"
      BY <1>10, <3>1
    <3>3. session'[s].version <= version'
      BY <1>6, <3>1, <3>2 DEF RowRight
    <3>4. past'[s].behind => past'[s].overlapped \/ session'[s].version < version'
      BY <1>6, <3>1, <3>2 DEF RowRight
    <3>5. session'[s].state # "none" /\ session'[s].state # "live" /\ ~Resolves(s)'
      BY <3>2 DEF Resolves
    <3>6. RowRight(s)'
      BY <3>3, <3>4, <3>5 DEF RowRight
    <3> QED
      BY <2>2, <3>6
  <2>3. CASE r \notin {s, t}
    <3>1. session'[r] = session[r] /\ past'[r] = past[r] /\ RowRight(r)
      BY <1>12, <2>3 DEF SessionInv
    <3>2. UNCHANGED <<version, redeemed, factor>>
      BY <1>9
    <3> QED
      BY <3>1, <3>2 DEF RowRight, Resolves
  <2> QED
    BY <2>1, <2>2, <2>3
<1>15. ASSUME NEW u \in Visits PROVE VisitRight(u)'
  <2> SUFFICES ASSUME visit'[u] # Absent
               PROVE  /\ session'[visit'[u].session].state # "none"
                      /\ ~visit'[u].late => session'[visit'[u].session].version = version'
    BY DEF VisitRight
  <2>1. visit'[u] = visit[u] /\ visit[u] # Absent
    BY <1>1, <1>9 DEF SessionTypeOK
  <2>2. VisitRight(u) /\ visit[u].session \in SessionRows
    BY <1>1, <2>1, SessionTypes DEF SessionInv, VisitRow
  <2>3. visit[u].session # t
    BY <1>4, <2>1, <2>2 DEF VisitRight
  <2>4. session'[visit[u].session].state # "none"
        /\ session'[visit[u].session].version = session[visit[u].session].version
    <3>1. CASE visit[u].session = s
      BY <1>10, <1>12, <3>1
    <3>2. CASE visit[u].session # s
      BY <1>12, <2>1, <2>2, <2>3, <3>2 DEF VisitRight
    <3> QED
      BY <3>1, <3>2
  <2> QED
    BY <1>9, <2>1, <2>2, <2>4 DEF VisitRight
<1>16. OneSessionPerCredential'
  <2> SUFFICES ASSUME NEW p \in SessionRows, NEW q \in SessionRows,
                      session'[p].state = "live", session'[q].state = "live",
                      session'[p].from = session'[q].from
               PROVE  p = q
    BY DEF OneSessionPerCredential
  <2>1. p # s /\ q # s
    BY <1>10, <1>12
  <2>2. \A r \in SessionRows : session[r].state = "live" /\ session[r].from = session[s].from => r = s
    BY <1>3, <1>4 DEF SessionInv, OneSessionPerCredential
  <2> QED
    BY <1>10, <1>12, <2>1, <2>2 DEF SessionInv, OneSessionPerCredential
<1> QED
  BY <1>13, <1>14, <1>15, <1>16 DEF SessionInv

LEMMA SessionStepInv == SessionInv /\ [SessionNext]_sessionVars => SessionInv'
<1> SUFFICES ASSUME SessionInv, [SessionNext]_sessionVars PROVE SessionInv'
  OBVIOUS
<1>1. CASE UNCHANGED sessionVars
  BY <1>1 DEF sessionVars, SessionInv, SessionTypeOK, RowRight, VisitRight, Resolves,
              OneSessionPerCredential
<1>2. CASE \E s \in SessionRows : (\E k \in Credentials : SignIn(k, s)) \/ ExpireSession(s)
  BY <1>2, SignInInv, RowEndsInv
<1>3. CASE ChangeRole
  BY <1>3, ChangeRoleInv
<1>4. ASSUME NEW v \in Visits,
             \/ EndVisit(v) \/ BeginEnrolment(v) \/ ConfirmEnrolment(v)
             \/ VerifyFactor(v) \/ SignOutEverywhere(v)
             \/ \E f \in Factors : RedeemRecoveryCode(v, f)
             \/ \E s \in SessionRows : BeginVisit(v, s) \/ RevokeSession(v, s) \/ RotateSession(v, s)
      PROVE  SessionInv'
  <2>1. CASE EndVisit(v) \/ BeginEnrolment(v) \/ \E s \in SessionRows : BeginVisit(v, s)
    BY <2>1, CallInv
  <2>2. CASE ConfirmEnrolment(v) \/ SignOutEverywhere(v)
    BY <2>2, ChangeByCallInv
  <2>3. CASE VerifyFactor(v)
    BY <2>3, OwnRowInv
  <2>4. CASE \E f \in Factors : RedeemRecoveryCode(v, f)
    BY <2>4, OwnRowInv
  <2>5. CASE \E s \in SessionRows : RevokeSession(v, s) \/ RotateSession(v, s)
    BY <2>5, RowEndsInv, RotateInv
  <2> QED
    BY <1>4, <2>1, <2>2, <2>3, <2>4, <2>5
<1> QED
  BY <1>1, <1>2, <1>3, <1>4 DEF SessionNext

LEMMA SessionInvariant == SessionSpec => []SessionInv
  BY SessionInitInv, SessionStepInv, PTL DEF SessionSpec

(* The types of sessions, factors and calls under way.                      *)
THEOREM SessionTypesHold == SessionSpec => []SessionTypeOK
<1>1. SessionInv => SessionTypeOK
  BY DEF SessionInv
<1> QED
  BY <1>1, SessionInvariant, PTL

(* NobodyOutlivesAChange holds in every reachable state: no interleaving   *)
(* of calls, changes, sign-outs and rotations keeps a session across a     *)
(* change but the overlap the property names (bumpSessionVersionIn,        *)
(* resolveSession, rotateSession).                                         *)
THEOREM NobodyOutlivesAChangeHolds == SessionSpec => []NobodyOutlivesAChange
<1>1. ASSUME SessionInv PROVE NobodyOutlivesAChange
  <2> SUFFICES ASSUME NEW s \in SessionRows, Resolves(s), past[s].behind
               PROVE  past[s].overlapped
    BY DEF NobodyOutlivesAChange
  <2>1. RowRight(s) /\ version \in Nat /\ session[s].version \in Nat
    BY <1>1, SessionTypes DEF SessionInv
  <2> QED
    BY <2>1 DEF RowRight, Resolves
<1> QED
  BY <1>1, SessionInvariant, PTL

(* AnsweredTheFactorInForce holds in every reachable state, because what a *)
(* session proved travels with it and a new factor leaves every other      *)
(* session behind (confirmMfaEnrolment, verifyMfaForSession).              *)
THEOREM AnsweredTheFactorInForceHolds == SessionSpec => []AnsweredTheFactorInForce
<1>1. SessionInv => AnsweredTheFactorInForce
  BY DEF SessionInv, RowRight, AnsweredTheFactorInForce
<1> QED
  BY <1>1, SessionInvariant, PTL

(* OneSessionPerCredential holds in every reachable state                  *)
(* (redeemEmailSignIn, signInWithTelegramLaunch, rotateSession).           *)
THEOREM OneSessionPerCredentialHolds == SessionSpec => []OneSessionPerCredential
<1>1. SessionInv => OneSessionPerCredential
  BY DEF SessionInv
<1> QED
  BY <1>1, SessionInvariant, PTL

-----------------------------------------------------------------------------
CaseStates == {"none", "SUBMITTED", "APPROVED", "REJECTED", "EXPIRED"}
CaseRow == [state : CaseStates, subject : Members \cup {NoMember},
            decider : Members \cup {NoMember}, lapsed : BOOLEAN]

(* One open case a person, said without counting.                          *)
OneOpen(u) == \A x, y \in OpenFor(u) : x = y

(* Whose badge stands on whose decision.                                   *)
BadgeRight(u) ==
  /\ OneOpen(u)
  /\ u \in badge => ApprovalsOf(u) # {}
  /\ \A x \in ApprovalsOf(u) :
       /\ filed[x].decider \in Members \ {u}
       /\ \/ u \in badge
          \/ \E y \in VerificationCases : filed[y].subject = u /\ filed[y].state = "EXPIRED"

VerificationInv ==
  /\ filed \in [VerificationCases -> CaseRow]
  /\ badge \subseteq Members
  /\ \A x \in VerificationCases : filed[x].state # "none" => filed[x].subject \in Members
  /\ \A u \in Members : BadgeRight(u)

LEMMA VerificationInitInv == VerificationInit => VerificationInv
<1> SUFFICES ASSUME VerificationInit PROVE VerificationInv
  OBVIOUS
<1>1. filed \in [VerificationCases -> CaseRow]
      /\ \A x \in VerificationCases : filed[x].state = "none"
  BY DEF VerificationInit, NotFiled, CaseRow, CaseStates
<1>2. badge = {}
  BY DEF VerificationInit
<1> QED
  BY <1>1, <1>2 DEF VerificationInv, BadgeRight, OneOpen, OpenFor, ApprovalsOf

(* One case is filed, decided or grows old.                                *)
LEMMA OneCaseInv ==
  ASSUME VerificationInv, NEW x \in VerificationCases,
         \/ LapseValidity(x)
         \/ \E u \in Members :
              \/ SubmitVerification(x, u)
              \/ \E decision \in {"APPROVED", "REJECTED"} : DecideVerification(x, u, decision)
  PROVE  VerificationInv'
<1>1. filed \in [VerificationCases -> CaseRow] /\ filed[x] \in CaseRow
  BY DEF VerificationInv
<1>2. CASE LapseValidity(x)
  <2> DEFINE row == [filed[x] EXCEPT !.lapsed = TRUE]
  <2>1. row \in CaseRow /\ row.state = filed[x].state /\ row.subject = filed[x].subject
        /\ row.decider = filed[x].decider
    BY <1>1 DEF CaseRow
  <2>2. filed' = [filed EXCEPT ![x] = row] /\ badge' = badge
    BY <1>1, <1>2 DEF LapseValidity
  <2> HIDE DEF row
  <2>3. filed' \in [VerificationCases -> CaseRow]
        /\ \A y \in VerificationCases :
             /\ filed'[y].state = filed[y].state /\ filed'[y].subject = filed[y].subject
             /\ filed'[y].decider = filed[y].decider
    BY <1>1, <2>1, <2>2
  <2> QED
    BY <2>2, <2>3 DEF VerificationInv, BadgeRight, OneOpen, OpenFor, ApprovalsOf
<1>3. ASSUME NEW u \in Members, SubmitVerification(x, u) PROVE VerificationInv'
  <2> DEFINE row == [[filed[x] EXCEPT !.state = "SUBMITTED"] EXCEPT !.subject = u]
  <2>1. row \in CaseRow /\ row.state = "SUBMITTED" /\ row.subject = u
    BY <1>1 DEF CaseRow, CaseStates
  <2>2. filed' = [filed EXCEPT ![x] = row] /\ badge' = badge
    BY <1>1, <1>3 DEF SubmitVerification
  <2>3. filed[x].state = "none" /\ OpenFor(u) = {}
    BY <1>3 DEF SubmitVerification, NotFiled
  <2> HIDE DEF row
  <2>4. filed' \in [VerificationCases -> CaseRow] /\ filed'[x] = row
        /\ \A y \in VerificationCases \ {x} : filed'[y] = filed[y]
    BY <1>1, <2>1, <2>2
  <2>5. ASSUME NEW w \in Members PROVE BadgeRight(w)'
    <3>1. OneOpen(w)'
      BY <2>1, <2>3, <2>4 DEF VerificationInv, BadgeRight, OneOpen, OpenFor
    <3>2. ApprovalsOf(w)' = ApprovalsOf(w)
      BY <2>1, <2>3, <2>4 DEF ApprovalsOf
    <3> QED
      BY <2>1, <2>2, <2>3, <2>4, <3>1, <3>2 DEF VerificationInv, BadgeRight, ApprovalsOf
  <2> QED
    BY <2>1, <2>2, <2>4, <2>5 DEF VerificationInv
<1>4. ASSUME NEW r \in Members, NEW decision \in {"APPROVED", "REJECTED"},
             DecideVerification(x, r, decision)
      PROVE  VerificationInv'
  <2> DEFINE row == [[filed[x] EXCEPT !.state = decision] EXCEPT !.decider = r]
  <2>1. row \in CaseRow /\ row.state = decision /\ row.subject = filed[x].subject
        /\ row.decider = r
    BY <1>1 DEF CaseRow, CaseStates
  <2>2. filed' = [filed EXCEPT ![x] = row]
        /\ badge' = IF decision = "APPROVED" THEN badge \cup {filed[x].subject} ELSE badge
    BY <1>1, <1>4 DEF DecideVerification
  <2>3. filed[x].state = "SUBMITTED" /\ r # filed[x].subject /\ filed[x].subject \in Members
    BY <1>4 DEF DecideVerification, VerificationInv
  <2> HIDE DEF row
  <2>4. filed' \in [VerificationCases -> CaseRow] /\ filed'[x] = row
        /\ \A y \in VerificationCases \ {x} : filed'[y] = filed[y]
    BY <1>1, <2>1, <2>2
  <2>5. ASSUME NEW w \in Members PROVE BadgeRight(w)'
    <3>1. OneOpen(w)'
      BY <2>1, <2>3, <2>4 DEF VerificationInv, BadgeRight, OneOpen, OpenFor
    <3>2. w \in badge' => ApprovalsOf(w)' # {}
      BY <2>1, <2>2, <2>3, <2>4 DEF VerificationInv, BadgeRight, ApprovalsOf
    <3>3. ASSUME NEW y \in ApprovalsOf(w)'
          PROVE  /\ filed'[y].decider \in Members \ {w}
                 /\ \/ w \in badge'
                    \/ \E z \in VerificationCases :
                         filed'[z].subject = w /\ filed'[z].state = "EXPIRED"
      <4>1. CASE y = x
        BY <2>1, <2>2, <2>3, <2>4, <3>3, <4>1 DEF ApprovalsOf
      <4>2. CASE y # x
        BY <2>2, <2>3, <2>4, <3>3, <4>2 DEF VerificationInv, BadgeRight, ApprovalsOf
      <4> QED
        BY <4>1, <4>2
    <3> QED
      BY <3>1, <3>2, <3>3 DEF BadgeRight
  <2> QED
    BY <2>1, <2>2, <2>3, <2>4, <2>5 DEF VerificationInv
<1> QED
  BY <1>2, <1>3, <1>4

(* The sweep: who loses a badge has an expired case to show for it.        *)
LEMMA ExpireInv ==
  ASSUME VerificationInv, ExpireLapsedVerifications
  PROVE  VerificationInv'
<1> DEFINE gone == {x \in VerificationCases : filed[x].state = "APPROVED" /\ filed[x].lapsed}
<1>1. \A x \in VerificationCases :
        /\ filed'[x] \in CaseRow
        /\ filed'[x].subject = filed[x].subject /\ filed'[x].decider = filed[x].decider
        /\ filed'[x].state = IF x \in gone THEN "EXPIRED" ELSE filed[x].state
  BY DEF ExpireLapsedVerifications, VerificationInv, CaseRow, CaseStates
<1>2. filed' \in [VerificationCases -> CaseRow]
  BY <1>1 DEF ExpireLapsedVerifications
<1>3. badge' = badge \ {filed[x].subject : x \in gone}
      /\ \A x \in gone : x \in VerificationCases /\ filed[x].state = "APPROVED"
  BY DEF ExpireLapsedVerifications
<1> HIDE DEF gone
<1>4. ASSUME NEW u \in Members PROVE BadgeRight(u)'
  <2>1. BadgeRight(u)
    BY DEF VerificationInv
  <2>2. OneOpen(u)'
    BY <1>1, <1>3, <2>1 DEF BadgeRight, OneOpen, OpenFor
  <2>3. u \in badge' => ApprovalsOf(u)' # {}
    BY <1>1, <1>3, <2>1 DEF BadgeRight, ApprovalsOf
  <2>4. ASSUME NEW x \in ApprovalsOf(u)'
        PROVE  /\ filed'[x].decider \in Members \ {u}
               /\ \/ u \in badge'
                  \/ \E y \in VerificationCases :
                       filed'[y].subject = u /\ filed'[y].state = "EXPIRED"
    <3>1. x \in ApprovalsOf(u) /\ x \in VerificationCases
      BY <1>1, <2>4 DEF ApprovalsOf
    <3>2. CASE u \in badge'
      BY <1>1, <2>1, <3>1, <3>2 DEF BadgeRight
    <3>3. CASE u \in badge /\ u \notin badge'
      BY <1>1, <1>3, <2>1, <3>1, <3>3 DEF BadgeRight
    <3>4. CASE u \notin badge
      BY <1>1, <1>3, <2>1, <3>1, <3>4 DEF BadgeRight
    <3> QED
      BY <3>2, <3>3, <3>4
  <2> QED
    BY <2>2, <2>3, <2>4 DEF BadgeRight
<1> QED
  BY <1>1, <1>2, <1>3, <1>4 DEF VerificationInv

(* A set whose members are all the same counts one at most.                *)
LEMMA AtMostOne ==
  ASSUME NEW S, \A x, y \in S : x = y
  PROVE  Cardinality(S) <= 1
<1>1. CASE S = {}
  BY <1>1, FS_EmptySet
<1>2. ASSUME NEW x \in S PROVE Cardinality(S) <= 1
  <2>1. S = {x}
    OBVIOUS
  <2> QED
    BY <2>1, FS_Singleton
<1> QED
  BY <1>1, <1>2

LEMMA VerificationStepInv == VerificationInv /\ [VerificationNext]_verificationVars => VerificationInv'
<1> SUFFICES ASSUME VerificationInv, [VerificationNext]_verificationVars
             PROVE  VerificationInv'
  OBVIOUS
<1>1. CASE UNCHANGED verificationVars
  BY <1>1 DEF verificationVars, VerificationInv, BadgeRight, OneOpen, OpenFor, ApprovalsOf
<1>2. CASE VerificationNext
  BY <1>2, OneCaseInv, ExpireInv DEF VerificationNext
<1> QED
  BY <1>1, <1>2

LEMMA VerificationInvariant == VerificationSpec => []VerificationInv
  BY VerificationInitInv, VerificationStepInv, PTL DEF VerificationSpec

(* The types of verification cases and badges.                              *)
THEOREM VerificationTypesHold == VerificationSpec => []VerificationTypeOK
<1>1. VerificationInv => VerificationTypeOK
  BY DEF VerificationInv, VerificationTypeOK, CaseRow, CaseStates
<1> QED
  BY <1>1, VerificationInvariant, PTL

(* BadgeFollowsApproval holds in every reachable state, in whatever order  *)
(* people submit, reviewers decide and approvals lapse                     *)
(* (decideVerification, expireLapsedVerifications).                        *)
THEOREM BadgeFollowsApprovalHolds == VerificationSpec => []BadgeFollowsApproval
<1>1. ASSUME VerificationInv PROVE BadgeFollowsApproval
  <2>1. \A u \in Members : BadgeRight(u)
    BY <1>1 DEF VerificationInv
  <2>2. \A u \in Members : Cardinality(OpenFor(u)) <= 1
    BY <2>1, AtMostOne DEF BadgeRight, OneOpen
  <2> QED
    BY <2>1, <2>2 DEF BadgeRight, BadgeFollowsApproval
<1> QED
  BY <1>1, VerificationInvariant, PTL

-----------------------------------------------------------------------------
(* Codes and counters.  Presentations that were counted while c stood and  *)
(* have not been looked at yet.                                            *)
Holding(c) == {p \in Presentations : presenting[p].busy /\ c \in presenting[p].against}

FirstBucket(c) == challenge[c].since \div WindowTicks

(* What the counters hold for the two windows a code can stand in.         *)
Counted(c) ==
  shown[FirstBucket(c)] + (IF FirstBucket(c) + 1 \in Buckets THEN shown[FirstBucket(c) + 1] ELSE 0)

(* Every guess at a code, made or under way, has its place in a counter.   *)
GuessRight(c) ==
  /\ challenge[c].since <= tick
  /\ challenge[c].state = "none" => guesses[c] = 0 /\ Holding(c) = {}
  /\ challenge[c].state # "none" => guesses[c] + Cardinality(Holding(c)) <= Counted(c)

CodeInv == SignInTypeOK /\ \A c \in Challenges : GuessRight(c)

(* An instant within a window's length of another lies in its window or    *)
(* the next.                                                               *)
LEMMA DivFacts ==
  ASSUME NEW t \in Nat, NEW W \in Nat, W > 0
  PROVE  t \div W \in Nat /\ W * (t \div W) <= t /\ t < W * (t \div W) + W
  BY SMTT(20)

LEMMA NextBucket ==
  ASSUME NEW s \in Nat, NEW t \in Nat, NEW W \in Nat, W > 0, s <= t
  PROVE  /\ s \div W \in Nat /\ t \div W \in Nat /\ s \div W <= t \div W
         /\ t < s + W => t \div W \in {s \div W, s \div W + 1}
<1> DEFINE a == s \div W
           b == t \div W
<1>1. a \in Nat /\ W * a <= s /\ s < W * a + W
  BY DivFacts
<1>2. b \in Nat /\ W * b <= t /\ t < W * b + W
  BY DivFacts
<1> HIDE DEF a, b
<1>3. a <= b
  <2> SUFFICES ASSUME b + 1 <= a PROVE FALSE
    BY <1>1, <1>2
  <2>1. W * (b + 1) <= W * a /\ W * (b + 1) = W * b + W
    BY <1>1, <1>2, SMTT(20)
  <2> QED
    BY <1>1, <1>2, <2>1
<1>4. ASSUME t < s + W PROVE b < a + 2
  <2> SUFFICES ASSUME a + 2 <= b PROVE FALSE
    BY <1>1, <1>2
  <2>1. W * (a + 2) <= W * b /\ W * (a + 2) = W * a + W + W
    BY <1>1, <1>2, SMTT(20)
  <2> QED
    BY <1>1, <1>2, <1>4, <2>1
<1>5. a \in Nat /\ b \in Nat /\ a <= b /\ (t < s + W => b \in {a, a + 1})
  BY <1>1, <1>2, <1>3, <1>4
<1> QED
  BY <1>5 DEF a, b

LEMMA SignInTypes ==
  ASSUME SignInTypeOK
  PROVE  /\ tick \in Nat /\ WindowTicks \in Nat /\ WindowTicks > 0 /\ VerifyLimit \in Nat
         /\ MaxTick \in Nat
         /\ Bucket \in Buckets
         /\ \A b \in Buckets : b \in Nat /\ shown[b] \in 0..VerifyLimit
         /\ \A c \in Challenges :
              /\ challenge[c].since \in Nat /\ guesses[c] \in Nat
              /\ FirstBucket(c) \in Buckets /\ Counted(c) \in Nat
              /\ IsFiniteSet(Holding(c)) /\ Cardinality(Holding(c)) \in Nat
              /\ Holding(c) \subseteq Presentations
<1>1. tick \in Nat /\ WindowTicks \in Nat /\ WindowTicks > 0 /\ VerifyLimit \in Nat
      /\ MaxTick \in Nat /\ tick <= MaxTick
  BY SignInAssumption DEF SignInTypeOK
<1>2. MaxTick \div WindowTicks \in Nat
  BY <1>1, NextBucket
<1>3. \A t \in Nat : t <= MaxTick => t \div WindowTicks \in Buckets
  BY <1>1, <1>2, NextBucket DEF Buckets
<1>4. \A b \in Buckets : b \in Nat /\ shown[b] \in 0..VerifyLimit
  <2>1. \A b \in Buckets : b \in Nat
    BY <1>2 DEF Buckets
  <2>2. shown \in [Buckets -> 0..VerifyLimit]
    BY DEF SignInTypeOK
  <2> QED
    BY <2>1, <2>2
<1>5. ASSUME NEW c \in Challenges
      PROVE  /\ challenge[c].since \in Nat /\ guesses[c] \in Nat
             /\ FirstBucket(c) \in Buckets /\ Counted(c) \in Nat
             /\ IsFiniteSet(Holding(c)) /\ Cardinality(Holding(c)) \in Nat
             /\ Holding(c) \subseteq Presentations
  <2>1. challenge[c].since \in 0..MaxTick /\ guesses[c] \in Nat
    BY DEF SignInTypeOK
  <2>2. FirstBucket(c) \in Buckets
    BY <1>1, <1>3, <2>1 DEF FirstBucket
  <2>3. Counted(c) \in Nat
    BY <1>1, <1>4, <2>2 DEF Counted
  <2>4. Holding(c) \subseteq Presentations
    BY DEF Holding
  <2>5. IsFiniteSet(Holding(c)) /\ Cardinality(Holding(c)) \in Nat
    BY <2>4, SignInAssumption, FS_Subset, FS_CardinalityType
  <2> QED
    BY <1>1, <2>1, <2>2, <2>3, <2>4, <2>5
<1> QED
  BY <1>1, <1>3, <1>4, <1>5 DEF Bucket

LEMMA CountedTypes == SignInTypeOK => \A c \in Challenges : Counted(c) \in Nat
  BY SignInTypes

LEMMA CountedLater == (SignInTypeOK => \A c \in Challenges : Counted(c) \in Nat)'
  BY CountedTypes, PTL

(* The clock moves, or a request is spent on nothing or on a new code.     *)
LEMMA AskInv ==
  ASSUME CodeInv,
         TimePasses \/ AskInVain \/ \E c \in Challenges : StartEmailSignIn(c)
  PROVE  CodeInv'
<1>1. SignInTypeOK
  BY DEF CodeInv
<1>2. /\ tick \in Nat /\ MaxTick \in Nat /\ RequestLimit \in Nat /\ Bucket \in Buckets
      /\ tick \in 0..MaxTick /\ asked \in [Buckets -> 0..RequestLimit]
  BY <1>1, SignInTypes, SignInAssumption DEF SignInTypeOK
<1>3. /\ tick' \in 0..MaxTick /\ tick <= tick' /\ UNCHANGED <<shown, presenting, guesses>>
      /\ asked' \in [Buckets -> 0..RequestLimit]
  BY <1>2 DEF TimePasses, AskInVain, StartEmailSignIn
<1>4. \/ challenge' = challenge
      \/ \E c \in Challenges :
           /\ challenge[c].state = "none" /\ tick' = tick
           /\ challenge' = [challenge EXCEPT ![c] = [state |-> "open", since |-> tick]]
  BY DEF TimePasses, AskInVain, StartEmailSignIn
<1>5. SignInTypeOK'
  BY <1>1, <1>2, <1>3, <1>4 DEF SignInTypeOK
<1>6. ASSUME NEW c \in Challenges PROVE GuessRight(c)'
  <2>1. Holding(c)' = Holding(c) /\ Holding(c) \subseteq Presentations /\ guesses'[c] = guesses[c]
    BY <1>1, <1>3, SignInTypes DEF Holding
  <2>2. GuessRight(c)
    BY DEF CodeInv
  <2>3. CASE challenge'[c] = challenge[c]
    <3>1. Counted(c)' = Counted(c)
      BY <1>3, <2>3 DEF Counted, FirstBucket
    <3>2. challenge[c].since <= tick'
      BY <1>1, <1>2, <1>3, <2>2, SignInTypes DEF GuessRight
    <3> QED
      BY <2>1, <2>2, <2>3, <3>1, <3>2 DEF GuessRight
  <2>4. CASE challenge'[c] # challenge[c]
    <3>1. challenge[c].state = "none" /\ tick' = tick
          /\ challenge'[c] = [state |-> "open", since |-> tick]
      BY <1>1, <1>4, <2>4 DEF SignInTypeOK
    <3>2. guesses'[c] = 0 /\ Holding(c)' = {}
      BY <2>1, <2>2, <3>1 DEF GuessRight
    <3>3. guesses'[c] + Cardinality(Holding(c)') = 0
      BY <3>2, FS_EmptySet
    <3>4. Counted(c)' \in Nat
      BY <1>5, CountedLater
    <3> QED
      BY <1>2, <3>1, <3>3, <3>4 DEF GuessRight
  <2> QED
    BY <2>3, <2>4
<1> QED
  BY <1>5, <1>6 DEF CodeInv

(* A presentation is counted in one of the two windows of every code that  *)
(* stands, and held against no other.                                      *)
LEMMA CountInv ==
  ASSUME CodeInv, NEW p \in Presentations, CountPresentation(p)
  PROVE  CodeInv'
<1> DEFINE one == [busy |-> TRUE, against |-> Standing]
<1>1. SignInTypeOK
  BY DEF CodeInv
<1>2. /\ shown[Bucket] < VerifyLimit /\ shown' = [shown EXCEPT ![Bucket] = @ + 1]
      /\ presenting' = [presenting EXCEPT ![p] = one] /\ ~presenting[p].busy
      /\ UNCHANGED <<tick, asked, challenge, guesses>>
  BY DEF CountPresentation
<1>3. one.busy /\ one.against = Standing /\ Standing \subseteq Challenges
      /\ one \in [busy : BOOLEAN, against : SUBSET Challenges]
  BY DEF Standing
<1> HIDE DEF one
<1>4. /\ shown' \in [Buckets -> 0..VerifyLimit]
      /\ \A b \in Buckets : shown[b] <= shown'[b]
      /\ shown'[Bucket] = shown[Bucket] + 1
  <2>1. shown[Bucket] + 1 \in 0..VerifyLimit
    BY <1>1, <1>2, SignInTypes
  <2> QED
    BY <1>1, <1>2, <2>1, SignInTypes DEF SignInTypeOK
<1>5. SignInTypeOK'
  BY <1>1, <1>2, <1>3, <1>4 DEF SignInTypeOK
<1>6. ASSUME NEW c \in Challenges PROVE GuessRight(c)'
  <2>1. FirstBucket(c)' = FirstBucket(c) /\ FirstBucket(c) \in Buckets
        /\ challenge[c].since \in Nat /\ GuessRight(c) /\ challenge[c].since <= tick
    BY <1>1, <1>2, SignInTypes DEF FirstBucket, CodeInv, GuessRight
  <2>2. CASE c \in Standing
    <3>1. Bucket \in {FirstBucket(c), FirstBucket(c) + 1} /\ challenge[c].state # "none"
      BY <1>1, <2>1, <2>2, SignInTypes, NextBucket DEF Standing, Bucket, FirstBucket
    <3>2. Counted(c)' >= Counted(c) + 1
      <4>1. CASE Bucket = FirstBucket(c)
        BY <1>1, <1>4, <2>1, <4>1, SignInTypes DEF Counted
      <4>2. CASE Bucket = FirstBucket(c) + 1
        BY <1>1, <1>4, <2>1, <4>2, SignInTypes DEF Counted
      <4> QED
        BY <3>1, <4>1, <4>2
    <3>3. Holding(c)' = Holding(c) \cup {p} /\ p \notin Holding(c)
      BY <1>1, <1>2, <1>3, <2>2 DEF Holding, SignInTypeOK
    <3>4. Cardinality(Holding(c)') = Cardinality(Holding(c)) + 1
      BY <1>1, <3>3, SignInTypes, FS_AddElement
    <3>5. guesses[c] + Cardinality(Holding(c)) + 1 <= Counted(c)'
      <4>1. guesses[c] + Cardinality(Holding(c)) <= Counted(c)
        BY <2>1, <3>1 DEF GuessRight
      <4>2. /\ guesses[c] \in Nat /\ Cardinality(Holding(c)) \in Nat /\ Counted(c) \in Nat
            /\ Counted(c)' \in Nat
        BY <1>1, <1>5, SignInTypes, CountedLater
      <4> QED
        BY <3>2, <4>1, <4>2
    <3> QED
      BY <1>1, <1>2, <2>1, <3>1, <3>4, <3>5, SignInTypes DEF GuessRight
  <2>3. CASE c \notin Standing
    <3>1. Holding(c)' = Holding(c)
      BY <1>1, <1>2, <1>3, <2>3 DEF Holding, SignInTypeOK
    <3>2. Counted(c)' >= Counted(c)
      BY <1>1, <1>4, <2>1, SignInTypes DEF Counted
    <3>3. /\ guesses[c] \in Nat /\ Cardinality(Holding(c)) \in Nat /\ Counted(c) \in Nat
          /\ Counted(c)' \in Nat
      BY <1>1, <1>5, SignInTypes, CountedLater
    <3>4. challenge[c].state # "none" => guesses[c] + Cardinality(Holding(c)) <= Counted(c)'
      BY <2>1, <3>2, <3>3 DEF GuessRight
    <3> QED
      BY <1>2, <2>1, <3>1, <3>4 DEF GuessRight
  <2> QED
    BY <2>2, <2>3
<1> QED
  BY <1>5, <1>6 DEF CodeInv

(* A presentation under way becomes a guess, a redemption or nothing.      *)
LEMMA LookInv ==
  ASSUME CodeInv, NEW p \in Presentations,
         RefuseSecret(p) \/ \E c \in Challenges : RedeemSecret(p, c)
  PROVE  CodeInv'
<1>1. SignInTypeOK
  BY DEF CodeInv
<1>2. presenting' = [presenting EXCEPT ![p] = NotPresenting] /\ UNCHANGED <<tick, asked, shown>>
      /\ presenting[p].busy
  BY DEF RefuseSecret, RedeemSecret
<1>3. \A c \in Challenges :
        /\ guesses'[c] \in Nat
        /\ \/ guesses'[c] = guesses[c]
           \/ guesses'[c] = guesses[c] + 1 /\ c \in presenting[p].against
  BY <1>1, SignInTypes DEF RefuseSecret, RedeemSecret
<1>4. guesses' \in [Challenges -> Nat]
  BY <1>1, <1>3 DEF RefuseSecret, RedeemSecret, SignInTypeOK
<1>5. \/ challenge' = challenge
      \/ \E c \in Challenges :
           /\ c \in Standing
           /\ challenge' = [challenge EXCEPT ![c].state = "consumed"]
  BY DEF RefuseSecret, RedeemSecret
<1>6. /\ challenge' \in [Challenges -> [state : {"none", "open", "consumed"}, since : 0..MaxTick]]
      /\ \A c \in Challenges :
           /\ challenge'[c].since = challenge[c].since
           /\ challenge'[c].state = "none" <=> challenge[c].state = "none"
  <2> DEFINE Row == [state : {"none", "open", "consumed"}, since : 0..MaxTick]
             done(c) == [challenge[c] EXCEPT !.state = "consumed"]
  <2>1. challenge \in [Challenges -> Row]
    BY <1>1 DEF SignInTypeOK
  <2>2. CASE challenge' = challenge
    BY <2>1, <2>2
  <2>3. ASSUME NEW c \in Challenges, c \in Standing, challenge' = [challenge EXCEPT ![c] = done(c)]
        PROVE  /\ challenge' \in [Challenges -> Row]
               /\ \A d \in Challenges :
                    /\ challenge'[d].since = challenge[d].since
                    /\ challenge'[d].state = "none" <=> challenge[d].state = "none"
    <3>1. done(c) \in Row /\ done(c).since = challenge[c].since /\ done(c).state = "consumed"
      BY <2>1
    <3>2. challenge[c].state = "open"
      BY <2>3 DEF Standing
    <3> HIDE DEF done, Row
    <3> QED
      BY <2>1, <2>3, <3>1, <3>2
  <2> QED
    BY <1>5, <2>1, <2>2, <2>3
<1>7. presenting' \in [Presentations -> [busy : BOOLEAN, against : SUBSET Challenges]]
  <2>1. NotPresenting \in [busy : BOOLEAN, against : SUBSET Challenges]
    BY DEF NotPresenting
  <2> QED
    BY <1>1, <1>2, <2>1 DEF SignInTypeOK
<1>8. SignInTypeOK'
  BY <1>1, <1>2, <1>4, <1>6, <1>7 DEF SignInTypeOK
<1>9. ASSUME NEW c \in Challenges PROVE GuessRight(c)'
  <2>1. GuessRight(c) /\ Counted(c)' = Counted(c)
    BY <1>2, <1>6 DEF CodeInv, Counted, FirstBucket
  <2>2. Holding(c)' = Holding(c) \ {p}
    BY <1>1, <1>2 DEF Holding, NotPresenting, SignInTypeOK
  <2>3. guesses'[c] + Cardinality(Holding(c)') <= guesses[c] + Cardinality(Holding(c))
    <3>1. CASE p \in Holding(c)
      <4>1. Cardinality(Holding(c)') = Cardinality(Holding(c)) - 1
        BY <1>1, <2>2, <3>1, SignInTypes, FS_RemoveElement
      <4> QED
        BY <1>1, <1>3, <4>1, SignInTypes
    <3>2. CASE p \notin Holding(c)
      <4>1. c \notin presenting[p].against /\ Holding(c)' = Holding(c)
        BY <1>2, <2>2, <3>2 DEF Holding
      <4> QED
        BY <1>1, <1>3, <4>1, SignInTypes
    <3> QED
      BY <3>1, <3>2
  <2>4. challenge[c].state = "none" => guesses'[c] = 0 /\ Holding(c)' = {}
    BY <1>1, <1>2, <1>3, <2>1, <2>2 DEF GuessRight, Holding
  <2>5. \A n \in {guesses[c], guesses'[c], Cardinality(Holding(c)), Counted(c)} : n \in Nat
    BY <1>1, <1>3, SignInTypes
  <2>6. Cardinality(Holding(c)') \in Nat
    BY <1>1, <2>2, SignInTypes, FS_Subset, FS_CardinalityType
  <2>7. challenge[c].state # "none" => guesses'[c] + Cardinality(Holding(c)') <= Counted(c)
    BY <2>1, <2>3, <2>5, <2>6 DEF GuessRight
  <2> QED
    BY <1>2, <1>6, <2>1, <2>4, <2>7 DEF GuessRight
<1> QED
  BY <1>8, <1>9 DEF CodeInv

LEMMA CodeInitInv == SignInInit => CodeInv
<1> SUFFICES ASSUME SignInInit PROVE CodeInv
  OBVIOUS
<1>1. SignInTypeOK
  BY SignInAssumption DEF SignInInit, SignInTypeOK, NoChallenge, NotPresenting
<1>2. ASSUME NEW c \in Challenges PROVE GuessRight(c)
  BY DEF SignInInit, GuessRight, Holding, NoChallenge, NotPresenting
<1> QED
  BY <1>1, <1>2 DEF CodeInv

LEMMA CodeStepInv == CodeInv /\ [SignInNext]_signInVars => CodeInv'
<1> SUFFICES ASSUME CodeInv, [SignInNext]_signInVars PROVE CodeInv'
  OBVIOUS
<1>1. CASE UNCHANGED signInVars
  BY <1>1 DEF signInVars, CodeInv, SignInTypeOK, GuessRight, Holding, Counted, FirstBucket
<1>2. CASE SignInNext
  BY <1>2, AskInv, CountInv, LookInv DEF SignInNext
<1> QED
  BY <1>1, <1>2

LEMMA CodeInvariant == SignInSpec => []CodeInv
  BY CodeInitInv, CodeStepInv, PTL DEF SignInSpec

(* The types of codes, counters and calls under way.                        *)
THEOREM SignInTypesHold == SignInSpec => []SignInTypeOK
<1>1. CodeInv => SignInTypeOK
  BY DEF CodeInv
<1> QED
  BY <1>1, CodeInvariant, PTL

(* GuessesAreBounded holds in every reachable state, for any limit, window *)
(* and number of calls in progress: a code stands in two windows at most,  *)
(* and every guess at it has a place in one of their counters              *)
(* (consumeRate, redeemEmailSignIn).                                       *)
THEOREM GuessesAreBoundedHolds == SignInSpec => []GuessesAreBounded
<1>1. ASSUME CodeInv PROVE GuessesAreBounded
  <2> SUFFICES ASSUME NEW c \in Challenges PROVE guesses[c] <= 2 * VerifyLimit
    BY DEF GuessesAreBounded
  <2>1. SignInTypeOK /\ GuessRight(c)
    BY <1>1 DEF CodeInv
  <2>2. Counted(c) <= 2 * VerifyLimit
    BY <2>1, SignInTypes DEF Counted
  <2>3. CASE challenge[c].state = "none"
    BY <2>1, <2>3, SignInTypes DEF GuessRight
  <2>4. CASE challenge[c].state # "none"
    BY <2>1, <2>2, <2>4, SignInTypes DEF GuessRight
  <2> QED
    BY <2>3, <2>4
<1> QED
  BY <1>1, CodeInvariant, PTL
=============================================================================
