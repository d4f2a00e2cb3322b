---------------------------- MODULE RowLocksProofs ----------------------------
(***************************************************************************)
(* Proofs about RowLocks, for any number of transactions and deals and any *)
(* order of the account ids.  Every script is spelled out first, request   *)
(* by request, and each request given a level: case and intent, deal,      *)
(* lock, counter, escrow account being made, then the accounts in their    *)
(* own order.  The invariant is about what is owned: owners of one row     *)
(* have modes that agree, and what a transaction found under its locks is  *)
(* still so.  With it, whoever waits in a circle in none of the known ways *)
(* waits for someone who waits at a higher level; and one of them is at    *)
(* the highest.                                                            *)
(***************************************************************************)
EXTENDS RowLocks, FiniteSetTheorems, WellFoundedInduction, TLAPS

(* Two sequences one after the other, item by item.                        *)
LEMMA Joined ==
  ASSUME NEW S, NEW s \in Seq(S), NEW t \in Seq(S), NEW u \in Seq(S),
         Len(u) = Len(s) + Len(t),
         \A i \in 1..Len(u) : u[i] = IF i <= Len(s) THEN s[i] ELSE t[i - Len(s)]
  PROVE  s \o t = u
<1> DEFINE k == Len(s)
           n == Len(t)
           v == s \o t
           D == 1..(k + n)
<1>1. v \in Seq(S) /\ Len(v) = k + n /\ k \in Nat /\ n \in Nat
  OBVIOUS
<1>2. \A i \in 1..k : v[i] = s[i]
  OBVIOUS
<1>3. \A i \in (k + 1)..(k + n) : v[i] = t[i - k]
  OBVIOUS
<1> HIDE DEF v
<1>4. ASSUME NEW i \in 1..(k + n) PROVE v[i] = u[i]
  <2>1. u[i] = IF i <= k THEN s[i] ELSE t[i - k]
    OBVIOUS
  <2> HIDE DEF k, n
  <2> QED
    BY <1>1, <1>2, <1>3, <2>1
<1>5. v \in [D -> S]
  BY <1>1
<1>6. u \in [D -> S]
  OBVIOUS
<1>7. \A i \in D : v[i] = u[i]
  BY <1>4
<1> HIDE DEF D
<1>8. v = u
  BY <1>5, <1>6, <1>7, SMTT(30)
<1> QED
  BY <1>8 DEF v

(* GlueMN: M items and N items.                                            *)
LEMMA Glue12 ==
  ASSUME NEW a1, NEW b1, NEW b2
  PROVE  <<a1>> \o <<b1, b2>> = <<a1, b1, b2>>
<1> DEFINE S == {a1, b1, b2}
           s == <<a1>>
           t == <<b1, b2>>
           u == <<a1, b1, b2>>
<1>1. s \in Seq(S) /\ t \in Seq(S) /\ u \in Seq(S)
  OBVIOUS
<1>2. Len(u) = Len(s) + Len(t)
  OBVIOUS
<1>3. \A i \in 1..Len(u) : u[i] = IF i <= Len(s) THEN s[i] ELSE t[i - Len(s)]
  OBVIOUS
<1> HIDE DEF S, s, t, u
<1>4. s \o t = u
  BY <1>1, <1>2, <1>3, Joined
<1> QED
  BY <1>4 DEF s, t, u

LEMMA Glue22 ==
  ASSUME NEW a1, NEW a2, NEW b1, NEW b2
  PROVE  <<a1, a2>> \o <<b1, b2>> = <<a1, a2, b1, b2>>
<1> DEFINE S == {a1, a2, b1, b2}
           s == <<a1, a2>>
           t == <<b1, b2>>
           u == <<a1, a2, b1, b2>>
<1>1. s \in Seq(S) /\ t \in Seq(S) /\ u \in Seq(S)
  OBVIOUS
<1>2. Len(u) = Len(s) + Len(t)
  OBVIOUS
<1>3. \A i \in 1..Len(u) : u[i] = IF i <= Len(s) THEN s[i] ELSE t[i - Len(s)]
  OBVIOUS
<1> HIDE DEF S, s, t, u
<1>4. s \o t = u
  BY <1>1, <1>2, <1>3, Joined
<1> QED
  BY <1>4 DEF s, t, u

LEMMA Glue31 ==
  ASSUME NEW a1, NEW a2, NEW a3, NEW b1
  PROVE  <<a1, a2, a3>> \o <<b1>> = <<a1, a2, a3, b1>>
<1> DEFINE S == {a1, a2, a3, b1}
           s == <<a1, a2, a3>>
           t == <<b1>>
           u == <<a1, a2, a3, b1>>
<1>1. s \in Seq(S) /\ t \in Seq(S) /\ u \in Seq(S)
  OBVIOUS
<1>2. Len(u) = Len(s) + Len(t)
  OBVIOUS
<1>3. \A i \in 1..Len(u) : u[i] = IF i <= Len(s) THEN s[i] ELSE t[i - Len(s)]
  OBVIOUS
<1> HIDE DEF S, s, t, u
<1>4. s \o t = u
  BY <1>1, <1>2, <1>3, Joined
<1> QED
  BY <1>4 DEF s, t, u

LEMMA Glue32 ==
  ASSUME NEW a1, NEW a2, NEW a3, NEW b1, NEW b2
  PROVE  <<a1, a2, a3>> \o <<b1, b2>> = <<a1, a2, a3, b1, b2>>
<1> DEFINE S == {a1, a2, a3, b1, b2}
           s == <<a1, a2, a3>>
           t == <<b1, b2>>
           u == <<a1, a2, a3, b1, b2>>
<1>1. s \in Seq(S) /\ t \in Seq(S) /\ u \in Seq(S)
  OBVIOUS
<1>2. Len(u) = Len(s) + Len(t)
  OBVIOUS
<1>3. \A i \in 1..Len(u) : u[i] = IF i <= Len(s) THEN s[i] ELSE t[i - Len(s)]
  OBVIOUS
<1> HIDE DEF S, s, t, u
<1>4. s \o t = u
  BY <1>1, <1>2, <1>3, Joined
<1> QED
  BY <1>4 DEF s, t, u

LEMMA Glue33 ==
  ASSUME NEW a1, NEW a2, NEW a3, NEW b1, NEW b2, NEW b3
  PROVE  <<a1, a2, a3>> \o <<b1, b2, b3>> = <<a1, a2, a3, b1, b2, b3>>
<1> DEFINE S == {a1, a2, a3, b1, b2, b3}
           s == <<a1, a2, a3>>
           t == <<b1, b2, b3>>
           u == <<a1, a2, a3, b1, b2, b3>>
<1>1. s \in Seq(S) /\ t \in Seq(S) /\ u \in Seq(S)
  OBVIOUS
<1>2. Len(u) = Len(s) + Len(t)
  OBVIOUS
<1>3. \A i \in 1..Len(u) : u[i] = IF i <= Len(s) THEN s[i] ELSE t[i - Len(s)]
  OBVIOUS
<1> HIDE DEF S, s, t, u
<1>4. s \o t = u
  BY <1>1, <1>2, <1>3, Joined
<1> QED
  BY <1>4 DEF s, t, u

LEMMA Glue51 ==
  ASSUME NEW a1, NEW a2, NEW a3, NEW a4, NEW a5, NEW b1
  PROVE  <<a1, a2, a3, a4, a5>> \o <<b1>> = <<a1, a2, a3, a4, a5, b1>>
<1> DEFINE S == {a1, a2, a3, a4, a5, b1}
           s == <<a1, a2, a3, a4, a5>>
           t == <<b1>>
           u == <<a1, a2, a3, a4, a5, b1>>
<1>1. s \in Seq(S) /\ t \in Seq(S) /\ u \in Seq(S)
  OBVIOUS
<1>2. Len(u) = Len(s) + Len(t)
  OBVIOUS
<1>3. \A i \in 1..Len(u) : u[i] = IF i <= Len(s) THEN s[i] ELSE t[i - Len(s)]
  OBVIOUS
<1> HIDE DEF S, s, t, u
<1>4. s \o t = u
  BY <1>1, <1>2, <1>3, Joined
<1> QED
  BY <1>4 DEF s, t, u

LEMMA Glue14 ==
  ASSUME NEW a1, NEW b1, NEW b2, NEW b3, NEW b4
  PROVE  <<a1>> \o <<b1, b2, b3, b4>> = <<a1, b1, b2, b3, b4>>
<1> DEFINE S == {a1, b1, b2, b3, b4}
           s == <<a1>>
           t == <<b1, b2, b3, b4>>
           u == <<a1, b1, b2, b3, b4>>
<1>1. s \in Seq(S) /\ t \in Seq(S) /\ u \in Seq(S)
  OBVIOUS
<1>2. Len(u) = Len(s) + Len(t)
  OBVIOUS
<1>3. \A i \in 1..Len(u) : u[i] = IF i <= Len(s) THEN s[i] ELSE t[i - Len(s)]
  OBVIOUS
<1> HIDE DEF S, s, t, u
<1>4. s \o t = u
  BY <1>1, <1>2, <1>3, Joined
<1> QED
  BY <1>4 DEF s, t, u

LEMMA Glue16 ==
  ASSUME NEW a1, NEW b1, NEW b2, NEW b3, NEW b4, NEW b5, NEW b6
  PROVE  <<a1>> \o <<b1, b2, b3, b4, b5, b6>> = <<a1, b1, b2, b3, b4, b5, b6>>
<1> DEFINE S == {a1, b1, b2, b3, b4, b5, b6}
           s == <<a1>>
           t == <<b1, b2, b3, b4, b5, b6>>
           u == <<a1, b1, b2, b3, b4, b5, b6>>
<1>1. s \in Seq(S) /\ t \in Seq(S) /\ u \in Seq(S)
  OBVIOUS
<1>2. Len(u) = Len(s) + Len(t)
  OBVIOUS
<1>3. \A i \in 1..Len(u) : u[i] = IF i <= Len(s) THEN s[i] ELSE t[i - Len(s)]
  OBVIOUS
<1> HIDE DEF S, s, t, u
<1>4. s \o t = u
  BY <1>1, <1>2, <1>3, Joined
<1> QED
  BY <1>4 DEF s, t, u

LEMMA Glue52 ==
  ASSUME NEW a1, NEW a2, NEW a3, NEW a4, NEW a5, NEW b1, NEW b2
  PROVE  <<a1, a2, a3, a4, a5>> \o <<b1, b2>> = <<a1, a2, a3, a4, a5, b1, b2>>
<1> DEFINE S == {a1, a2, a3, a4, a5, b1, b2}
           s == <<a1, a2, a3, a4, a5>>
           t == <<b1, b2>>
           u == <<a1, a2, a3, a4, a5, b1, b2>>
<1>1. s \in Seq(S) /\ t \in Seq(S) /\ u \in Seq(S)
  OBVIOUS
<1>2. Len(u) = Len(s) + Len(t)
  OBVIOUS
<1>3. \A i \in 1..Len(u) : u[i] = IF i <= Len(s) THEN s[i] ELSE t[i - Len(s)]
  OBVIOUS
<1> HIDE DEF S, s, t, u
<1>4. s \o t = u
  BY <1>1, <1>2, <1>3, Joined
<1> QED
  BY <1>4 DEF s, t, u

LEMMA Glue71 ==
  ASSUME NEW a1, NEW a2, NEW a3, NEW a4, NEW a5, NEW a6, NEW a7, NEW b1
  PROVE  <<a1, a2, a3, a4, a5, a6, a7>> \o <<b1>> = <<a1, a2, a3, a4, a5, a6, a7, b1>>
<1> DEFINE S == {a1, a2, a3, a4, a5, a6, a7, b1}
           s == <<a1, a2, a3, a4, a5, a6, a7>>
           t == <<b1>>
           u == <<a1, a2, a3, a4, a5, a6, a7, b1>>
<1>1. s \in Seq(S) /\ t \in Seq(S) /\ u \in Seq(S)
  OBVIOUS
<1>2. Len(u) = Len(s) + Len(t)
  OBVIOUS
<1>3. \A i \in 1..Len(u) : u[i] = IF i <= Len(s) THEN s[i] ELSE t[i - Len(s)]
  OBVIOUS
<1> HIDE DEF S, s, t, u
<1>4. s \o t = u
  BY <1>1, <1>2, <1>3, Joined
<1> QED
  BY <1>4 DEF s, t, u

LEMMA Glue72 ==
  ASSUME NEW a1, NEW a2, NEW a3, NEW a4, NEW a5, NEW a6, NEW a7, NEW b1, NEW b2
  PROVE  <<a1, a2, a3, a4, a5, a6, a7>> \o <<b1, b2>> = <<a1, a2, a3, a4, a5, a6, a7, b1, b2>>
<1> DEFINE S == {a1, a2, a3, a4, a5, a6, a7, b1, b2}
           s == <<a1, a2, a3, a4, a5, a6, a7>>
           t == <<b1, b2>>
           u == <<a1, a2, a3, a4, a5, a6, a7, b1, b2>>
<1>1. s \in Seq(S) /\ t \in Seq(S) /\ u \in Seq(S)
  OBVIOUS
<1>2. Len(u) = Len(s) + Len(t)
  OBVIOUS
<1>3. \A i \in 1..Len(u) : u[i] = IF i <= Len(s) THEN s[i] ELSE t[i - Len(s)]
  OBVIOUS
<1> HIDE DEF S, s, t, u
<1>4. s \o t = u
  BY <1>1, <1>2, <1>3, Joined
<1> QED
  BY <1>4 DEF s, t, u

LEMMA Glue10 ==
  ASSUME NEW a
  PROVE  <<a>> \o <<>> = <<a>>
  OBVIOUS

-----------------------------------------------------------------------------
(* The scripts, spelled out.                                               *)
Lower(a, b)  == IF rank[a] < rank[b] THEN a ELSE b
Higher(a, b) == IF rank[a] < rank[b] THEN b ELSE a
Take(row)    == Want("update", row)

LEMMA PostIs ==
  \A a, b : Post(a, b) = <<Take(Lower(a, b)), Take(Higher(a, b))>>
  BY DEF Post, Lower, Higher, Take

LEMMA SettlingIs ==
  \A d, u : Settling(d, u) =
    <<LockRow(d), Take(Lower(Escrow(d), Party(u))), Take(Higher(Escrow(d), Party(u)))>>
  BY PostIs, Glue12 DEF Settling

LEMMA CollectingIs ==
  \A d : Collecting(d) =
    IF d \in Charged
    THEN <<Refer(d), Take(Lower(Party(Payee[d]), Revenue)), Take(Higher(Party(Payee[d]), Revenue))>>
    ELSE <<Refer(d)>>
  BY PostIs, Glue12, Glue10 DEF Collecting

LEMMA ReleasingIs ==
  \A d : Releasing(d) =
    IF d \in Charged
    THEN <<LockRow(d), Take(Lower(Escrow(d), Party(Payee[d]))),
           Take(Higher(Escrow(d), Party(Payee[d]))),
           Refer(d), Take(Lower(Party(Payee[d]), Revenue)), Take(Higher(Party(Payee[d]), Revenue))>>
    ELSE <<LockRow(d), Take(Lower(Escrow(d), Party(Payee[d]))),
           Take(Higher(Escrow(d), Party(Payee[d]))),
           Refer(d)>>
<1> TAKE d
<1> DEFINE a == LockRow(d)
           b == Take(Lower(Escrow(d), Party(Payee[d])))
           c == Take(Higher(Escrow(d), Party(Payee[d])))
           e == Refer(d)
           f == Take(Lower(Party(Payee[d]), Revenue))
           g == Take(Higher(Party(Payee[d]), Revenue))
<1>1. Settling(d, Payee[d]) = <<a, b, c>>
  BY SettlingIs
<1>2. Collecting(d) = IF d \in Charged THEN <<e, f, g>> ELSE <<e>>
  BY CollectingIs
<1> HIDE DEF a, b, c, e, f, g
<1>3. <<a, b, c>> \o <<e, f, g>> = <<a, b, c, e, f, g>>
  BY Glue33
<1>4. <<a, b, c>> \o <<e>> = <<a, b, c, e>>
  BY Glue31
<1>5. Releasing(d) = IF d \in Charged THEN <<a, b, c, e, f, g>> ELSE <<a, b, c, e>>
  BY <1>1, <1>2, <1>3, <1>4 DEF Releasing
<1> QED
  BY <1>5 DEF a, b, c, e, f, g

LEMMA LockingIs ==
  \A d : Locking(d) =
    <<Take(<<"counter", Supplier[d]>>), Want("make", Escrow(d)), Take(Party(Supplier[d])),
      Take(Lower(Party(Supplier[d]), Escrow(d))),
      Take(Higher(Party(Supplier[d]), Escrow(d))), LockRow(d)>>
<1> TAKE d
<1> DEFINE a == Take(<<"counter", Supplier[d]>>)
           b == Want("make", Escrow(d))
           c == Take(Party(Supplier[d]))
           e == Take(Lower(Party(Supplier[d]), Escrow(d)))
           f == Take(Higher(Party(Supplier[d]), Escrow(d)))
           g == LockRow(d)
<1>1. Locking(d) = ((<<a>> \o <<b, c>>) \o <<e, f>>) \o <<g>>
  BY PostIs DEF Locking, Take
<1> HIDE DEF a, b, c, e, f, g
<1>2. <<a>> \o <<b, c>> = <<a, b, c>>
  BY Glue12
<1>3. <<a, b, c>> \o <<e, f>> = <<a, b, c, e, f>>
  BY Glue32
<1>4. <<a, b, c, e, f>> \o <<g>> = <<a, b, c, e, f, g>>
  BY Glue51
<1>5. Locking(d) = <<a, b, c, e, f, g>>
  BY <1>1, <1>2, <1>3, <1>4
<1> QED
  BY <1>5 DEF a, b, c, e, f, g

LEMMA FundSpelled ==
  \A d : Script("FUND", d) =
    <<Take(Lower(Expense, Party(Supplier[d]))), Take(Higher(Expense, Party(Supplier[d])))>>
  BY PostIs DEF Script

LEMMA LockSpelled ==
  \A d : Script("LOCK", d) =
    <<Take(<<"counter", Supplier[d]>>), Want("make", Escrow(d)), Take(Party(Supplier[d])),
      Take(Lower(Party(Supplier[d]), Escrow(d))), Take(Higher(Party(Supplier[d]), Escrow(d))),
      LockRow(d)>>
  BY LockingIs DEF Script

LEMMA ClaimSpelled ==
  \A d : Script("CLAIM", d) =
    <<DealRow(d), Take(<<"utr", "any">>)>>
  BY DEF Script, Take

LEMMA ConfirmSpelled ==
  \A d : Script("CONFIRM", d) =
    IF d \in Charged
    THEN <<DealRow(d), LockRow(d), Take(Lower(Escrow(d), Party(Payee[d]))),
           Take(Higher(Escrow(d), Party(Payee[d]))), Refer(d),
           Take(Lower(Party(Payee[d]), Revenue)), Take(Higher(Party(Payee[d]), Revenue)),
           Referral(Supplier[d]), Referral(Payee[d])>>
    ELSE <<DealRow(d), LockRow(d), Take(Lower(Escrow(d), Party(Payee[d]))),
           Take(Higher(Escrow(d), Party(Payee[d]))), Refer(d), Referral(Supplier[d]),
           Referral(Payee[d])>>
<1> TAKE d
<1> DEFINE a == DealRow(d)
           b == LockRow(d)
           c == Take(Lower(Escrow(d), Party(Payee[d])))
           e == Take(Higher(Escrow(d), Party(Payee[d])))
           f == Refer(d)
           g == Take(Lower(Party(Payee[d]), Revenue))
           h == Take(Higher(Party(Payee[d]), Revenue))
           k == Referral(Supplier[d])
           m == Referral(Payee[d])
<1>1. Releasing(d) = IF d \in Charged THEN <<b, c, e, f, g, h>> ELSE <<b, c, e, f>>
  BY ReleasingIs
<1>2. Script("CONFIRM", d) = (<<a>> \o Releasing(d)) \o <<k, m>>
  BY DEF Script, Take
<1> HIDE DEF a, b, c, e, f, g, h, k, m
<1>3. <<a>> \o <<b, c, e, f, g, h>> = <<a, b, c, e, f, g, h>>
  BY Glue16
<1>4. <<a, b, c, e, f, g, h>> \o <<k, m>> = <<a, b, c, e, f, g, h, k, m>>
  BY Glue72
<1>5. <<a>> \o <<b, c, e, f>> = <<a, b, c, e, f>>
  BY Glue14
<1>6. <<a, b, c, e, f>> \o <<k, m>> = <<a, b, c, e, f, k, m>>
  BY Glue52
<1>7. Script("CONFIRM", d) = IF d \in Charged THEN <<a, b, c, e, f, g, h, k, m>>
                             ELSE <<a, b, c, e, f, k, m>>
  BY <1>1, <1>2, <1>3, <1>4, <1>5, <1>6
<1> QED
  BY <1>7 DEF a, b, c, e, f, g, h, k, m

LEMMA ReleaseSpelled ==
  \A d : Script("RELEASE", d) =
    IF d \in Charged
    THEN <<LockRow(d), Take(Lower(Escrow(d), Party(Payee[d]))),
           Take(Higher(Escrow(d), Party(Payee[d]))), Refer(d),
           Take(Lower(Party(Payee[d]), Revenue)), Take(Higher(Party(Payee[d]), Revenue))>>
    ELSE <<LockRow(d), Take(Lower(Escrow(d), Party(Payee[d]))),
           Take(Higher(Escrow(d), Party(Payee[d]))), Refer(d)>>
  BY ReleasingIs DEF Script

LEMMA RefundSpelled ==
  \A d : Script("REFUND", d) =
    <<LockRow(d), Take(Lower(Escrow(d), Party(Supplier[d]))),
      Take(Higher(Escrow(d), Party(Supplier[d])))>>
  BY SettlingIs DEF Script

LEMMA ReverseSpelled ==
  \A d : Script("REVERSE", d) =
    <<LockRow(d), Take(Lower(Party(Supplier[d]), Escrow(d))),
      Take(Higher(Party(Supplier[d]), Escrow(d)))>>
<1> TAKE d
<1> DEFINE a == LockRow(d)
           b == Take(Lower(Party(Supplier[d]), Escrow(d)))
           c == Take(Higher(Party(Supplier[d]), Escrow(d)))
<1>1. Script("REVERSE", d) = <<a>> \o <<b, c>>
  BY PostIs DEF Script
<1> HIDE DEF a, b, c
<1>2. <<a>> \o <<b, c>> = <<a, b, c>>
  BY Glue12
<1>3. Script("REVERSE", d) = <<a, b, c>>
  BY <1>1, <1>2
<1> QED
  BY <1>3 DEF a, b, c

LEMMA OpenCaseSpelled ==
  \A d : Script("OPEN_CASE", d) =
    <<DealRow(d)>>
  BY DEF Script

LEMMA RuleSpelled ==
  \A d : Script("RULE", d) =
    IF d \in Charged
    THEN <<Take(<<"case", d>>), LockRow(d), Take(Lower(Escrow(d), Party(Payee[d]))),
           Take(Higher(Escrow(d), Party(Payee[d]))), Refer(d),
           Take(Lower(Party(Payee[d]), Revenue)), Take(Higher(Party(Payee[d]), Revenue)),
           Want("noKey", <<"deal", d>>)>>
    ELSE <<Take(<<"case", d>>), LockRow(d), Take(Lower(Escrow(d), Party(Payee[d]))),
           Take(Higher(Escrow(d), Party(Payee[d]))), Refer(d), Want("noKey", <<"deal", d>>)>>
<1> TAKE d
<1> DEFINE a == Take(<<"case", d>>)
           b == LockRow(d)
           c == Take(Lower(Escrow(d), Party(Payee[d])))
           e == Take(Higher(Escrow(d), Party(Payee[d])))
           f == Refer(d)
           g == Take(Lower(Party(Payee[d]), Revenue))
           h == Take(Higher(Party(Payee[d]), Revenue))
           k == Want("noKey", <<"deal", d>>)
<1>1. Releasing(d) = IF d \in Charged THEN <<b, c, e, f, g, h>> ELSE <<b, c, e, f>>
  BY ReleasingIs
<1>2. Script("RULE", d) = (<<a>> \o Releasing(d)) \o <<k>>
  BY DEF Script, Take
<1> HIDE DEF a, b, c, e, f, g, h, k
<1>3. <<a>> \o <<b, c, e, f, g, h>> = <<a, b, c, e, f, g, h>>
  BY Glue16
<1>4. <<a, b, c, e, f, g, h>> \o <<k>> = <<a, b, c, e, f, g, h, k>>
  BY Glue71
<1>5. <<a>> \o <<b, c, e, f>> = <<a, b, c, e, f>>
  BY Glue14
<1>6. <<a, b, c, e, f>> \o <<k>> = <<a, b, c, e, f, k>>
  BY Glue51
<1>7. Script("RULE", d) = IF d \in Charged THEN <<a, b, c, e, f, g, h, k>>
                             ELSE <<a, b, c, e, f, k>>
  BY <1>1, <1>2, <1>3, <1>4, <1>5, <1>6
<1> QED
  BY <1>7 DEF a, b, c, e, f, g, h, k

LEMMA OpenIntentSpelled ==
  \A d : Script("OPEN_INTENT", d) =
    <<DealRow(d), Want("share", <<"lock", d>>)>>
  BY DEF Script

LEMMA InstructSpelled ==
  \A d : Script("INSTRUCT", d) =
    <<Take(<<"intent", d>>), Want("share", <<"lock", d>>), Refer(d)>>
  BY DEF Script, Take

LEMMA DepositSpelled ==
  \A d : Script("DEPOSIT", d) =
    <<Take(<<"intent", d>>), Refer(d), Take(Lower(Wallet, Escrow(d))),
      Take(Higher(Wallet, Escrow(d)))>>
<1> TAKE d
<1> DEFINE a == Take(<<"intent", d>>)
           b == Refer(d)
           c == Take(Lower(Wallet, Escrow(d)))
           e == Take(Higher(Wallet, Escrow(d)))
<1>1. Script("DEPOSIT", d) = <<a, b>> \o <<c, e>>
  BY PostIs DEF Script, Take
<1> HIDE DEF a, b, c, e
<1>2. <<a, b>> \o <<c, e>> = <<a, b, c, e>>
  BY Glue22
<1>3. Script("DEPOSIT", d) = <<a, b, c, e>>
  BY <1>1, <1>2
<1> QED
  BY <1>3 DEF a, b, c, e


-----------------------------------------------------------------------------
(* What a script says of the order of its locks.  Levels go up along every *)
(* script but for the requests that are Trouble; for each of those there   *)
(* is a reason of its own why it closes no circle but the known ones.      *)
AccountTags == {"party", "escrow", "revenue", "wallet", "expense"}
DealFirst   == {"CLAIM", "CONFIRM", "OPEN_CASE", "OPEN_INTENT"}
Tag(w)      == w.row[1]
CaseRow(d)  == Take(<<"case", d>>)
Closing(d)  == Want("noKey", <<"deal", d>>)
Seen(d)     == Want("share", <<"lock", d>>)

Level(w) ==
  IF w.mode = "make" THEN 4
  ELSE IF Tag(w) \in AccountTags THEN 5 + rank[w.row]
  ELSE IF Tag(w) \in {"counter", "utr"} THEN 3
  ELSE IF Tag(w) = "lock" THEN 2
  ELSE IF Tag(w) = "deal" THEN 1 ELSE 0

(* The row is already held for writing when it is asked for again.         *)
Again(s, i) ==
  \E j \in 1..(i - 1) : /\ s[j].mode = "update"
                        /\ s[j].row = s[i].row
                        /\ s[i].mode # "make"

Trouble(k, s, i) ==
  \/ k = "LOCK" /\ i >= 4
  \/ k # "DEPOSIT" /\ s[i].mode = "key"
  \/ s[i].mode = "noKey"
  \/ s[i].row = Revenue
  \/ Again(s, i)

Climbs(k, s, i) ==
  /\ Level(s[i]) \in Nat
  /\ Trouble(k, s, i) \/ \A j \in 1..(i - 1) : Level(s[j]) < Level(s[i])

(* What stands where in the script of a kind.                              *)
Whole(k, d, s) ==
  /\ Len(s) \in Nat
  /\ k \in DealFirst => Len(s) >= 1 /\ s[1] = DealRow(d)
  /\ k = "CONFIRM" => Len(s) >= 2 /\ s[2] = LockRow(d)
  /\ k = "OPEN_INTENT" => Len(s) = 2 /\ s[2] = Seen(d)
  /\ k = "OPEN_CASE" => Len(s) = 1
  /\ k = "RULE" => Len(s) >= 1 /\ s[1] = CaseRow(d) /\ s[Len(s)] = Closing(d)
  /\ k = "LOCK" => Len(s) = 6 /\ s[2] = Want("make", Escrow(d)) /\ s[6] = LockRow(d)
  /\ k \in LockEnders => \E j \in 1..Len(s) : s[j] = LockRow(d)

Earlier(s, i, w) == \E j \in 1..(i - 1) : s[j] = w

ModeFits(k, d, w) ==
  /\ w.mode = "make" => k = "LOCK" /\ w.row = Escrow(d)
  /\ w.mode = "noKey" => Tag(w) \in {"referral", "deal"}
  /\ w.mode = "key" => Tag(w) = "deal"

LockFits(k, d, s, i) ==
  LET w == s[i] IN
  Tag(w) = "lock" =>
    \/ k \in LockEnders /\ w = LockRow(d)
    \/ k = "INSTRUCT" /\ w = Seen(d)
    \/ k = "LOCK" /\ w = LockRow(d) /\ i = Len(s)
    \/ k = "OPEN_INTENT" /\ w = Seen(d) /\ i = Len(s)

DealFits(k, d, s, i) ==
  LET w == s[i] IN
  Tag(w) = "deal" =>
    \/ k \in DealFirst /\ w = DealRow(d) /\ i = 1
    \/ k \in {"CONFIRM", "DEPOSIT"} /\ w = Refer(d) /\ (k = "CONFIRM" => Again(s, i))
    \/ k \in {"RELEASE", "RULE"} /\ w = Refer(d) /\ Earlier(s, i, LockRow(d))
    \/ k = "INSTRUCT" /\ w = Refer(d) /\ Earlier(s, i, Seen(d))
    \/ k = "RULE" /\ w = Closing(d) /\ i = Len(s) /\ Earlier(s, i, LockRow(d))

CaseFits(k, d, w) == Tag(w) = "case" => k = "RULE" /\ w = CaseRow(d)

(* Which requests for an account there are.                                *)
AccountFits(k, d, s, i) ==
  LET w == s[i] IN
  /\ Tag(w) = "escrow" /\ w.mode # "make" =>
       /\ w = Take(Escrow(d))
       /\ \/ k = "LOCK" /\ i >= 3
          \/ k \in LockEnders /\ Earlier(s, i, LockRow(d))
          \/ k = "DEPOSIT"
  /\ Tag(w) = "revenue" =>
       \A j \in (i + 1)..Len(s) : Again(s, j) \/ s[j].mode = "noKey"
  /\ k = "LOCK" /\ i >= 4 => Again(s, i) \/ w = Take(Escrow(d)) \/ i = 6

ReferralFits(k, d, s, i) ==
  LET w == s[i] IN
  Tag(w) = "referral" =>
    /\ k = "CONFIRM"
    /\ \/ w = Referral(Payee[d]) /\ i = Len(s)
       \/ /\ w = Referral(Supplier[d])
          /\ i = Len(s) - 1
          /\ s[Len(s)] = Referral(Payee[d])

ClaimFits(k, d, s, i) ==
  /\ k = "CLAIM" /\ i > 1 => Tag(s[i]) = "utr"
  /\ Tag(s[i]) = "utr" => i = Len(s)

Entry(k, d, s, i) ==
  /\ ModeFits(k, d, s[i])
  /\ LockFits(k, d, s, i)
  /\ DealFits(k, d, s, i)
  /\ CaseFits(k, d, s[i])
  /\ AccountFits(k, d, s, i)
  /\ ReferralFits(k, d, s, i)
  /\ ClaimFits(k, d, s, i)
  /\ Climbs(k, s, i)

Fits(k, d) ==
  LET s == Script(k, d) IN
  /\ Whole(k, d, s)
  /\ \A i \in 1..Len(s) : Entry(k, d, s, i)

(* What a request is, by what it is built with.                            *)
LEMMA WantIs ==
  \A m, r : Want(m, r).mode = m /\ Want(m, r).row = r
  BY DEF Want

LEMMA TagsAre ==
  /\ \A u : Party(u)[1] = "party"
  /\ \A d : Escrow(d)[1] = "escrow"
  /\ Revenue[1] = "revenue" /\ Wallet[1] = "wallet" /\ Expense[1] = "expense"
  BY DEF Party, Escrow, Revenue, Wallet, Expense

LEMMA RowsOfWants ==
  \A d, u :
    /\ LockRow(d).mode = "update" /\ LockRow(d).row = <<"lock", d>>
    /\ Seen(d).mode = "share" /\ Seen(d).row = <<"lock", d>>
    /\ DealRow(d).mode = "update" /\ DealRow(d).row = <<"deal", d>>
    /\ Refer(d).mode = "key" /\ Refer(d).row = <<"deal", d>>
    /\ Closing(d).mode = "noKey" /\ Closing(d).row = <<"deal", d>>
    /\ CaseRow(d).mode = "update" /\ CaseRow(d).row = <<"case", d>>
    /\ Referral(u).mode = "noKey" /\ Referral(u).row = <<"referral", u>>
  BY WantIs DEF LockRow, Seen, DealRow, Refer, Closing, CaseRow, Referral, Take

LEMMA TakeIs ==
  \A r : Take(r).mode = "update" /\ Take(r).row = r
  BY WantIs DEF Take

LEMMA TagsOfWants ==
  \A d, u :
    /\ Tag(LockRow(d)) = "lock" /\ Level(LockRow(d)) = 2
    /\ Tag(Seen(d)) = "lock" /\ Level(Seen(d)) = 2
    /\ Tag(DealRow(d)) = "deal" /\ Level(DealRow(d)) = 1
    /\ Tag(Refer(d)) = "deal" /\ Level(Refer(d)) = 1
    /\ Tag(Closing(d)) = "deal" /\ Level(Closing(d)) = 1
    /\ Tag(CaseRow(d)) = "case" /\ Level(CaseRow(d)) = 0
    /\ Tag(Referral(u)) = "referral" /\ Level(Referral(u)) = 0
  BY RowsOfWants DEF Tag, Level, AccountTags

LEMMA TagsOfTakes ==
  \A d, u :
    /\ Tag(Take(<<"counter", u>>)) = "counter" /\ Level(Take(<<"counter", u>>)) = 3
    /\ Tag(Take(<<"utr", u>>)) = "utr" /\ Level(Take(<<"utr", u>>)) = 3
    /\ Tag(Take(<<"intent", d>>)) = "intent" /\ Level(Take(<<"intent", d>>)) = 0
    /\ Tag(Want("make", Escrow(d))) = "escrow" /\ Level(Want("make", Escrow(d))) = 4
    /\ Want("make", Escrow(d)).mode = "make" /\ Want("make", Escrow(d)).row = Escrow(d)
  BY TakeIs, WantIs, TagsAre DEF Tag, Level, AccountTags

LEMMA PartiesHaveAccounts ==
  ASSUME NEW d \in Trades
  PROVE  /\ Party(Supplier[d]) \in Accounts /\ Party(Payee[d]) \in Accounts
         /\ Escrow(d) \in Accounts
         /\ Revenue \in Accounts /\ Wallet \in Accounts /\ Expense \in Accounts
  BY DEF Accounts, Parties

(* The two requests of a posting.                                          *)
Pair(x, y, a, b) ==
  /\ (x = Take(a) /\ y = Take(b)) \/ (x = Take(b) /\ y = Take(a))
  /\ x.mode = "update" /\ y.mode = "update"
  /\ Level(x) \in Nat /\ Level(y) \in Nat
  /\ 5 <= Level(x) /\ Level(x) < Level(y)

LEMMA PostsClimb ==
  ASSUME rank \in Ranks, NEW a \in Accounts, NEW b \in Accounts, a # b,
         a[1] \in AccountTags, b[1] \in AccountTags
  PROVE  Pair(Take(Lower(a, b)), Take(Higher(a, b)), a, b)
<1>1. /\ rank[a] \in Nat /\ rank[b] \in Nat
      /\ rank[a] # rank[b]
  BY RowAssumption
<1>2. \A r : r[1] \in AccountTags => Level(Take(r)) = 5 + rank[r]
  BY TakeIs DEF Level, Tag
<1>3. Level(Take(a)) = 5 + rank[a] /\ Level(Take(b)) = 5 + rank[b]
  BY <1>2
<1>4. CASE rank[a] < rank[b]
  <2>1. Lower(a, b) = a /\ Higher(a, b) = b
    BY <1>4 DEF Lower, Higher
  <2> QED
    BY <2>1, <1>1, <1>3, <1>4, TakeIs DEF Pair
<1>5. CASE ~(rank[a] < rank[b])
  <2>1. Lower(a, b) = b /\ Higher(a, b) = a
    BY <1>5 DEF Lower, Higher
  <2> QED
    BY <2>1, <1>1, <1>3, <1>5, TakeIs DEF Pair
<1> QED
  BY <1>4, <1>5

LEMMA FundOrdered ==
  ASSUME rank \in Ranks PROVE \A d \in Trades : Fits("FUND", d)
<1> TAKE d \in Trades
<1> DEFINE s == Script("FUND", d)
           x == Take(Lower(Expense, Party(Supplier[d])))
           y == Take(Higher(Expense, Party(Supplier[d])))
<1>1. s = <<x, y>>
  BY FundSpelled
<1>2. Pair(x, y, Expense, Party(Supplier[d]))
  BY PostsClimb, PartiesHaveAccounts, TagsAre DEF AccountTags
<1>3. /\ Tag(x) \in {"expense", "party"}
      /\ Tag(y) \in {"expense", "party"}
  BY <1>2, TakeIs, TagsAre DEF Pair, Tag
<1> HIDE DEF s, x, y
<1>4. /\ Len(s) = 2
      /\ s[1] = x
      /\ s[2] = y
  BY <1>1
<1>5. Whole("FUND", d, s)
  BY <1>4 DEF Whole, DealFirst, LockEnders
<1>6. ASSUME NEW i \in 1..Len(s) PROVE Entry("FUND", d, s, i)
  BY <1>4, <1>2, <1>3, TagsOfWants, RowsOfWants, TagsOfTakes, TakeIs
  DEF Pair, Entry, ModeFits, LockFits, DealFits, CaseFits, AccountFits, ReferralFits,
        ClaimFits, Climbs, Trouble, Again, Earlier, LockEnders, DealFirst
<1> QED
  BY <1>5, <1>6 DEF Fits, s

LEMMA LockOrdered ==
  ASSUME rank \in Ranks PROVE \A d \in Trades : Fits("LOCK", d)
<1> TAKE d \in Trades
<1> DEFINE s == Script("LOCK", d)
           x == Take(Lower(Party(Supplier[d]), Escrow(d)))
           y == Take(Higher(Party(Supplier[d]), Escrow(d)))
<1>1. s = <<Take(<<"counter", Supplier[d]>>), Want("make", Escrow(d)), Take(Party(Supplier[d])),
           x, y, LockRow(d)>>
  BY LockSpelled
<1>2. Pair(x, y, Party(Supplier[d]), Escrow(d))
  BY PostsClimb, PartiesHaveAccounts, TagsAre DEF AccountTags
<1>3. /\ Tag(x) \in {"escrow", "party"} /\ (Tag(x) = "escrow" => x = Take(Escrow(d)))
      /\ Tag(y) \in {"escrow", "party"} /\ (Tag(y) = "escrow" => y = Take(Escrow(d)))
  BY <1>2, TakeIs, TagsAre DEF Pair, Tag
<1>3a. /\ Tag(Take(Party(Supplier[d]))) = "party"
       /\ Level(Take(Party(Supplier[d]))) \in Nat /\ 5 <= Level(Take(Party(Supplier[d])))
  BY PostsClimb, PartiesHaveAccounts, TagsAre, TakeIs, RowAssumption DEF Tag, Level, AccountTags
<1> HIDE DEF s, x, y
<1>4. /\ Len(s) = 6
      /\ s[1] = Take(<<"counter", Supplier[d]>>)
      /\ s[2] = Want("make", Escrow(d))
      /\ s[3] = Take(Party(Supplier[d]))
      /\ s[4] = x
      /\ s[5] = y
      /\ s[6] = LockRow(d)
  BY <1>1
<1>5. Whole("LOCK", d, s)
  BY <1>4 DEF Whole, DealFirst, LockEnders
<1>6. ASSUME NEW i \in 1..Len(s) PROVE Entry("LOCK", d, s, i)
  BY <1>4, <1>2, <1>3, <1>3a, TagsOfWants, RowsOfWants, TagsOfTakes, TakeIs
  DEF Pair, Entry, ModeFits, LockFits, DealFits, CaseFits, AccountFits, ReferralFits,
        ClaimFits, Climbs, Trouble, Again, Earlier, LockEnders, DealFirst
<1> QED
  BY <1>5, <1>6 DEF Fits, s

LEMMA ClaimOrdered ==
  ASSUME rank \in Ranks PROVE \A d \in Trades : Fits("CLAIM", d)
<1> TAKE d \in Trades
<1> DEFINE s == Script("CLAIM", d)
<1>1. s = <<DealRow(d), Take(<<"utr", "any">>)>>
  BY ClaimSpelled
<1> HIDE DEF s
<1>4. /\ Len(s) = 2
      /\ s[1] = DealRow(d)
      /\ s[2] = Take(<<"utr", "any">>)
  BY <1>1
<1>5. Whole("CLAIM", d, s)
  BY <1>4 DEF Whole, DealFirst, LockEnders
<1>6. ASSUME NEW i \in 1..Len(s) PROVE Entry("CLAIM", d, s, i)
  BY <1>4, TagsOfWants, RowsOfWants, TagsOfTakes, TakeIs
  DEF Pair, Entry, ModeFits, LockFits, DealFits, CaseFits, AccountFits, ReferralFits,
        ClaimFits, Climbs, Trouble, Again, Earlier, LockEnders, DealFirst
<1> QED
  BY <1>5, <1>6 DEF Fits, s

LEMMA ConfirmOrdered ==
  ASSUME rank \in Ranks PROVE \A d \in Trades : Fits("CONFIRM", d)
<1> TAKE d \in Trades
<1> DEFINE s == Script("CONFIRM", d)
           x == Take(Lower(Escrow(d), Party(Payee[d])))
           y == Take(Higher(Escrow(d), Party(Payee[d])))
           f == Take(Lower(Party(Payee[d]), Revenue))
           g == Take(Higher(Party(Payee[d]), Revenue))
<1>1. s = IF d \in Charged THEN <<DealRow(d), LockRow(d), x, y, Refer(d), f, g,
                                  Referral(Supplier[d]), Referral(Payee[d])>>
         ELSE <<DealRow(d), LockRow(d), x, y, Refer(d), Referral(Supplier[d]),
                Referral(Payee[d])>>
  BY ConfirmSpelled
<1>2. /\ Pair(x, y, Escrow(d), Party(Payee[d]))
      /\ Pair(f, g, Party(Payee[d]), Revenue)
  BY PostsClimb, PartiesHaveAccounts, TagsAre DEF AccountTags
<1>3. /\ Tag(x) \in {"escrow", "party"} /\ (Tag(x) = "escrow" => x = Take(Escrow(d)))
      /\ Tag(y) \in {"escrow", "party"} /\ (Tag(y) = "escrow" => y = Take(Escrow(d)))
      /\ Tag(f) \in {"party", "revenue"}
      /\ Tag(g) \in {"party", "revenue"}
  BY <1>2, TakeIs, TagsAre DEF Pair, Tag
<1> HIDE DEF s, x, y, f, g
<1>4. CASE d \in Charged
  <2>4. /\ Len(s) = 9
        /\ s[1] = DealRow(d)
        /\ s[2] = LockRow(d)
        /\ s[3] = x
        /\ s[4] = y
        /\ s[5] = Refer(d)
        /\ s[6] = f
        /\ s[7] = g
        /\ s[8] = Referral(Supplier[d])
        /\ s[9] = Referral(Payee[d])
    BY <1>1, <1>4
  <2>5. Whole("CONFIRM", d, s)
    BY <2>4 DEF Whole, DealFirst, LockEnders
  <2>6. ASSUME NEW i \in 1..Len(s) PROVE Entry("CONFIRM", d, s, i)
    BY <2>4, <1>2, <1>3, TagsOfWants, RowsOfWants, TagsOfTakes, TakeIs
    DEF Pair, Entry, ModeFits, LockFits, DealFits, CaseFits, AccountFits, ReferralFits,
          ClaimFits, Climbs, Trouble, Again, Earlier, LockEnders, DealFirst
  <2> QED
    BY <2>5, <2>6 DEF Fits, s
<1>5. CASE d \notin Charged
  <2>4. /\ Len(s) = 7
        /\ s[1] = DealRow(d)
        /\ s[2] = LockRow(d)
        /\ s[3] = x
        /\ s[4] = y
        /\ s[5] = Refer(d)
        /\ s[6] = Referral(Supplier[d])
        /\ s[7] = Referral(Payee[d])
    BY <1>1, <1>5
  <2>5. Whole("CONFIRM", d, s)
    BY <2>4 DEF Whole, DealFirst, LockEnders
  <2>6. ASSUME NEW i \in 1..Len(s) PROVE Entry("CONFIRM", d, s, i)
    BY <2>4, <1>2, <1>3, TagsOfWants, RowsOfWants, TagsOfTakes, TakeIs
    DEF Pair, Entry, ModeFits, LockFits, DealFits, CaseFits, AccountFits, ReferralFits,
          ClaimFits, Climbs, Trouble, Again, Earlier, LockEnders, DealFirst
  <2> QED
    BY <2>5, <2>6 DEF Fits, s
<1> QED
  BY <1>4, <1>5

LEMMA ReleaseOrdered ==
  ASSUME rank \in Ranks PROVE \A d \in Trades : Fits("RELEASE", d)
<1> TAKE d \in Trades
<1> DEFINE s == Script("RELEASE", d)
           x == Take(Lower(Escrow(d), Party(Payee[d])))
           y == Take(Higher(Escrow(d), Party(Payee[d])))
           f == Take(Lower(Party(Payee[d]), Revenue))
           g == Take(Higher(Party(Payee[d]), Revenue))
<1>1. s = IF d \in Charged THEN <<LockRow(d), x, y, Refer(d), f, g>>
         ELSE <<LockRow(d), x, y, Refer(d)>>
  BY ReleaseSpelled
<1>2. /\ Pair(x, y, Escrow(d), Party(Payee[d]))
      /\ Pair(f, g, Party(Payee[d]), Revenue)
  BY PostsClimb, PartiesHaveAccounts, TagsAre DEF AccountTags
<1>3. /\ Tag(x) \in {"escrow", "party"} /\ (Tag(x) = "escrow" => x = Take(Escrow(d)))
      /\ Tag(y) \in {"escrow", "party"} /\ (Tag(y) = "escrow" => y = Take(Escrow(d)))
      /\ Tag(f) \in {"party", "revenue"}
      /\ Tag(g) \in {"party", "revenue"}
  BY <1>2, TakeIs, TagsAre DEF Pair, Tag
<1> HIDE DEF s, x, y, f, g
<1>4. CASE d \in Charged
  <2>4. /\ Len(s) = 6
        /\ s[1] = LockRow(d)
        /\ s[2] = x
        /\ s[3] = y
        /\ s[4] = Refer(d)
        /\ s[5] = f
        /\ s[6] = g
    BY <1>1, <1>4
  <2>5. Whole("RELEASE", d, s)
    BY <2>4 DEF Whole, DealFirst, LockEnders
  <2>6. ASSUME NEW i \in 1..Len(s) PROVE Entry("RELEASE", d, s, i)
    BY <2>4, <1>2, <1>3, TagsOfWants, RowsOfWants, TagsOfTakes, TakeIs
    DEF Pair, Entry, ModeFits, LockFits, DealFits, CaseFits, AccountFits, ReferralFits,
          ClaimFits, Climbs, Trouble, Again, Earlier, LockEnders, DealFirst
  <2> QED
    BY <2>5, <2>6 DEF Fits, s
<1>5. CASE d \notin Charged
  <2>4. /\ Len(s) = 4
        /\ s[1] = LockRow(d)
        /\ s[2] = x
        /\ s[3] = y
        /\ s[4] = Refer(d)
    BY <1>1, <1>5
  <2>5. Whole("RELEASE", d, s)
    BY <2>4 DEF Whole, DealFirst, LockEnders
  <2>6. ASSUME NEW i \in 1..Len(s) PROVE Entry("RELEASE", d, s, i)
    BY <2>4, <1>2, <1>3, TagsOfWants, RowsOfWants, TagsOfTakes, TakeIs
    DEF Pair, Entry, ModeFits, LockFits, DealFits, CaseFits, AccountFits, ReferralFits,
          ClaimFits, Climbs, Trouble, Again, Earlier, LockEnders, DealFirst
  <2> QED
    BY <2>5, <2>6 DEF Fits, s
<1> QED
  BY <1>4, <1>5

LEMMA RefundOrdered ==
  ASSUME rank \in Ranks PROVE \A d \in Trades : Fits("REFUND", d)
<1> TAKE d \in Trades
<1> DEFINE s == Script("REFUND", d)
           x == Take(Lower(Escrow(d), Party(Supplier[d])))
           y == Take(Higher(Escrow(d), Party(Supplier[d])))
<1>1. s = <<LockRow(d), x, y>>
  BY RefundSpelled
<1>2. Pair(x, y, Escrow(d), Party(Supplier[d]))
  BY PostsClimb, PartiesHaveAccounts, TagsAre DEF AccountTags
<1>3. /\ Tag(x) \in {"escrow", "party"} /\ (Tag(x) = "escrow" => x = Take(Escrow(d)))
      /\ Tag(y) \in {"escrow", "party"} /\ (Tag(y) = "escrow" => y = Take(Escrow(d)))
  BY <1>2, TakeIs, TagsAre DEF Pair, Tag
<1> HIDE DEF s, x, y
<1>4. /\ Len(s) = 3
      /\ s[1] = LockRow(d)
      /\ s[2] = x
      /\ s[3] = y
  BY <1>1
<1>5. Whole("REFUND", d, s)
  BY <1>4 DEF Whole, DealFirst, LockEnders
<1>6. ASSUME NEW i \in 1..Len(s) PROVE Entry("REFUND", d, s, i)
  BY <1>4, <1>2, <1>3, TagsOfWants, RowsOfWants, TagsOfTakes, TakeIs
  DEF Pair, Entry, ModeFits, LockFits, DealFits, CaseFits, AccountFits, ReferralFits,
        ClaimFits, Climbs, Trouble, Again, Earlier, LockEnders, DealFirst
<1> QED
  BY <1>5, <1>6 DEF Fits, s

LEMMA ReverseOrdered ==
  ASSUME rank \in Ranks PROVE \A d \in Trades : Fits("REVERSE", d)
<1> TAKE d \in Trades
<1> DEFINE s == Script("REVERSE", d)
           x == Take(Lower(Party(Supplier[d]), Escrow(d)))
           y == Take(Higher(Party(Supplier[d]), Escrow(d)))
<1>1. s = <<LockRow(d), x, y>>
  BY ReverseSpelled
<1>2. Pair(x, y, Party(Supplier[d]), Escrow(d))
  BY PostsClimb, PartiesHaveAccounts, TagsAre DEF AccountTags
<1>3. /\ Tag(x) \in {"escrow", "party"} /\ (Tag(x) = "escrow" => x = Take(Escrow(d)))
      /\ Tag(y) \in {"escrow", "party"} /\ (Tag(y) = "escrow" => y = Take(Escrow(d)))
  BY <1>2, TakeIs, TagsAre DEF Pair, Tag
<1> HIDE DEF s, x, y
<1>4. /\ Len(s) = 3
      /\ s[1] = LockRow(d)
      /\ s[2] = x
      /\ s[3] = y
  BY <1>1
<1>5. Whole("REVERSE", d, s)
  BY <1>4 DEF Whole, DealFirst, LockEnders
<1>6. ASSUME NEW i \in 1..Len(s) PROVE Entry("REVERSE", d, s, i)
  BY <1>4, <1>2, <1>3, TagsOfWants, RowsOfWants, TagsOfTakes, TakeIs
  DEF Pair, Entry, ModeFits, LockFits, DealFits, CaseFits, AccountFits, ReferralFits,
        ClaimFits, Climbs, Trouble, Again, Earlier, LockEnders, DealFirst
<1> QED
  BY <1>5, <1>6 DEF Fits, s

LEMMA OpenCaseOrdered ==
  ASSUME rank \in Ranks PROVE \A d \in Trades : Fits("OPEN_CASE", d)
<1> TAKE d \in Trades
<1> DEFINE s == Script("OPEN_CASE", d)
<1>1. s = <<DealRow(d)>>
  BY OpenCaseSpelled
<1> HIDE DEF s
<1>4. /\ Len(s) = 1
      /\ s[1] = DealRow(d)
  BY <1>1
<1>5. Whole("OPEN_CASE", d, s)
  BY <1>4 DEF Whole, DealFirst, LockEnders
<1>6. ASSUME NEW i \in 1..Len(s) PROVE Entry("OPEN_CASE", d, s, i)
  BY <1>4, TagsOfWants, RowsOfWants, TagsOfTakes, TakeIs
  DEF Pair, Entry, ModeFits, LockFits, DealFits, CaseFits, AccountFits, ReferralFits,
        ClaimFits, Climbs, Trouble, Again, Earlier, LockEnders, DealFirst
<1> QED
  BY <1>5, <1>6 DEF Fits, s

LEMMA RuleOrdered ==
  ASSUME rank \in Ranks PROVE \A d \in Trades : Fits("RULE", d)
<1> TAKE d \in Trades
<1> DEFINE s == Script("RULE", d)
           x == Take(Lower(Escrow(d), Party(Payee[d])))
           y == Take(Higher(Escrow(d), Party(Payee[d])))
           f == Take(Lower(Party(Payee[d]), Revenue))
           g == Take(Higher(Party(Payee[d]), Revenue))
<1>1. s = IF d \in Charged THEN <<CaseRow(d), LockRow(d), x, y, Refer(d), f, g, Closing(d)>>
         ELSE <<CaseRow(d), LockRow(d), x, y, Refer(d), Closing(d)>>
  BY RuleSpelled DEF CaseRow, Closing
<1>2. /\ Pair(x, y, Escrow(d), Party(Payee[d]))
      /\ Pair(f, g, Party(Payee[d]), Revenue)
  BY PostsClimb, PartiesHaveAccounts, TagsAre DEF AccountTags
<1>3. /\ Tag(x) \in {"escrow", "party"} /\ (Tag(x) = "escrow" => x = Take(Escrow(d)))
      /\ Tag(y) \in {"escrow", "party"} /\ (Tag(y) = "escrow" => y = Take(Escrow(d)))
      /\ Tag(f) \in {"party", "revenue"}
      /\ Tag(g) \in {"party", "revenue"}
  BY <1>2, TakeIs, TagsAre DEF Pair, Tag
<1> HIDE DEF s, x, y, f, g
<1>4. CASE d \in Charged
  <2>4. /\ Len(s) = 8
        /\ s[1] = CaseRow(d)
        /\ s[2] = LockRow(d)
        /\ s[3] = x
        /\ s[4] = y
        /\ s[5] = Refer(d)
        /\ s[6] = f
        /\ s[7] = g
        /\ s[8] = Closing(d)
    BY <1>1, <1>4
  <2>5. Whole("RULE", d, s)
    BY <2>4 DEF Whole, DealFirst, LockEnders
  <2>6. ASSUME NEW i \in 1..Len(s) PROVE Entry("RULE", d, s, i)
    BY <2>4, <1>2, <1>3, TagsOfWants, RowsOfWants, TagsOfTakes, TakeIs
    DEF Pair, Entry, ModeFits, LockFits, DealFits, CaseFits, AccountFits, ReferralFits,
          ClaimFits, Climbs, Trouble, Again, Earlier, LockEnders, DealFirst
  <2> QED
    BY <2>5, <2>6 DEF Fits, s
<1>5. CASE d \notin Charged
  <2>4. /\ Len(s) = 6
        /\ s[1] = CaseRow(d)
        /\ s[2] = LockRow(d)
        /\ s[3] = x
        /\ s[4] = y
        /\ s[5] = Refer(d)
        /\ s[6] = Closing(d)
    BY <1>1, <1>5
  <2>5. Whole("RULE", d, s)
    BY <2>4 DEF Whole, DealFirst, LockEnders
  <2>6. ASSUME NEW i \in 1..Len(s) PROVE Entry("RULE", d, s, i)
    BY <2>4, <1>2, <1>3, TagsOfWants, RowsOfWants, TagsOfTakes, TakeIs
    DEF Pair, Entry, ModeFits, LockFits, DealFits, CaseFits, AccountFits, ReferralFits,
          ClaimFits, Climbs, Trouble, Again, Earlier, LockEnders, DealFirst
  <2> QED
    BY <2>5, <2>6 DEF Fits, s
<1> QED
  BY <1>4, <1>5

LEMMA OpenIntentOrdered ==
  ASSUME rank \in Ranks PROVE \A d \in Trades : Fits("OPEN_INTENT", d)
<1> TAKE d \in Trades
<1> DEFINE s == Script("OPEN_INTENT", d)
<1>1. s = <<DealRow(d), Seen(d)>>
  BY OpenIntentSpelled DEF Seen
<1> HIDE DEF s
<1>4. /\ Len(s) = 2
      /\ s[1] = DealRow(d)
      /\ s[2] = Seen(d)
  BY <1>1
<1>5. Whole("OPEN_INTENT", d, s)
  BY <1>4 DEF Whole, DealFirst, LockEnders
<1>6. ASSUME NEW i \in 1..Len(s) PROVE Entry("OPEN_INTENT", d, s, i)
  BY <1>4, TagsOfWants, RowsOfWants, TagsOfTakes, TakeIs
  DEF Pair, Entry, ModeFits, LockFits, DealFits, CaseFits, AccountFits, ReferralFits,
        ClaimFits, Climbs, Trouble, Again, Earlier, LockEnders, DealFirst
<1> QED
  BY <1>5, <1>6 DEF Fits, s

LEMMA InstructOrdered ==
  ASSUME rank \in Ranks PROVE \A d \in Trades : Fits("INSTRUCT", d)
<1> TAKE d \in Trades
<1> DEFINE s == Script("INSTRUCT", d)
<1>1. s = <<Take(<<"intent", d>>), Seen(d), Refer(d)>>
  BY InstructSpelled DEF Seen
<1> HIDE DEF s
<1>4. /\ Len(s) = 3
      /\ s[1] = Take(<<"intent", d>>)
      /\ s[2] = Seen(d)
      /\ s[3] = Refer(d)
  BY <1>1
<1>5. Whole("INSTRUCT", d, s)
  BY <1>4 DEF Whole, DealFirst, LockEnders
<1>6. ASSUME NEW i \in 1..Len(s) PROVE Entry("INSTRUCT", d, s, i)
  BY <1>4, TagsOfWants, RowsOfWants, TagsOfTakes, TakeIs
  DEF Pair, Entry, ModeFits, LockFits, DealFits, CaseFits, AccountFits, ReferralFits,
        ClaimFits, Climbs, Trouble, Again, Earlier, LockEnders, DealFirst
<1> QED
  BY <1>5, <1>6 DEF Fits, s

LEMMA DepositOrdered ==
  ASSUME rank \in Ranks PROVE \A d \in Trades : Fits("DEPOSIT", d)
<1> TAKE d \in Trades
<1> DEFINE s == Script("DEPOSIT", d)
           x == Take(Lower(Wallet, Escrow(d)))
           y == Take(Higher(Wallet, Escrow(d)))
<1>1. s = <<Take(<<"intent", d>>), Refer(d), x, y>>
  BY DepositSpelled
<1>2. Pair(x, y, Wallet, Escrow(d))
  BY PostsClimb, PartiesHaveAccounts, TagsAre DEF AccountTags
<1>3. /\ Tag(x) \in {"escrow", "wallet"} /\ (Tag(x) = "escrow" => x = Take(Escrow(d)))
      /\ Tag(y) \in {"escrow", "wallet"} /\ (Tag(y) = "escrow" => y = Take(Escrow(d)))
  BY <1>2, TakeIs, TagsAre DEF Pair, Tag
<1> HIDE DEF s, x, y
<1>4. /\ Len(s) = 4
      /\ s[1] = Take(<<"intent", d>>)
      /\ s[2] = Refer(d)
      /\ s[3] = x
      /\ s[4] = y
  BY <1>1
<1>5. Whole("DEPOSIT", d, s)
  BY <1>4 DEF Whole, DealFirst, LockEnders
<1>6. ASSUME NEW i \in 1..Len(s) PROVE Entry("DEPOSIT", d, s, i)
  BY <1>4, <1>2, <1>3, TagsOfWants, RowsOfWants, TagsOfTakes, TakeIs
  DEF Pair, Entry, ModeFits, LockFits, DealFits, CaseFits, AccountFits, ReferralFits,
        ClaimFits, Climbs, Trouble, Again, Earlier, LockEnders, DealFirst
<1> QED
  BY <1>5, <1>6 DEF Fits, s

LEMMA ScriptsAreOrdered ==
  ASSUME rank \in Ranks, NEW k \in Kinds, NEW d \in Trades PROVE Fits(k, d)
  BY FundOrdered, LockOrdered, ClaimOrdered, ConfirmOrdered, ReleaseOrdered, RefundOrdered,
     ReverseOrdered, OpenCaseOrdered, RuleOrdered, OpenIntentOrdered, InstructOrdered,
     DepositOrdered
  DEF Kinds

-----------------------------------------------------------------------------
(* What is owned keeps others out, and what was found under a lock stays   *)
(* so until its transaction ends.                                          *)
Request == [kind : Kinds, trade : Trades, has : Nat]

RowTypes ==
  /\ rank \in Ranks
  /\ run \in [Transactions -> Request \cup {NotBegun}]
  /\ \A t \in Transactions :
       run[t] # NotBegun => run[t] \in Request /\ run[t].has <= Len(Locks(t))
  /\ referred \subseteq Parties
  /\ escrowed \in [Trades -> {"none", "live", "settled"}]
  /\ stage \in [Trades -> {"pending", "claimed", "disputed", "closed"}]

(* A referral that is qualified has no row to lock any more.               *)
Qualified(row) == \E u \in Parties : row = <<"referral", u>> /\ u \notin referred

HeldApart ==
  \A s, t \in Transactions : s # t =>
    \A l \in Owned(s), m \in Owned(t) :
      l.row = m.row /\ Clash(l.mode, m.mode) => Qualified(l.row)

SeenStays ==
  \A t \in Transactions : run[t] # NotBegun =>
    /\ \A l \in Owned(t) : Passes(run[t].kind, run[t].trade, l.row)
    /\ run[t].kind = "DEPOSIT" => escrowed[run[t].trade] # "none"

RowInv == RowTypes /\ HeldApart /\ SeenStays

LEMMA ScriptStands ==
  ASSUME rank' = rank PROVE \A k, d : Script(k, d)' = Script(k, d)
  BY DEF Script, Locking, Releasing, Settling, Collecting, Post, LockRow, DealRow, Refer,
         Referral, Want, Escrow, Party, Revenue, Wallet, Expense

LEMMA OwnedIs ==
  ASSUME NEW t, run[t] # NotBegun
  PROVE  Owned(t) = {Script(run[t].kind, run[t].trade)[i] : i \in 1..run[t].has}
  BY DEF Owned, Locks

(* Of the transactions only t changes: it begins, ends, or gets its lock.  *)
LEMMA OthersOwnTheSame ==
  ASSUME rank' = rank, NEW s, run'[s] = run[s]
  PROVE  Owned(s)' = Owned(s)
  BY ScriptStands DEF Owned, Locks

LEMMA NothingOwned ==
  ASSUME NEW t, run'[t] = NotBegun \/ run'[t].has = 0 PROVE Owned(t)' = {}
  BY DEF Owned

LEMMA OneMoreOwned ==
  ASSUME RowTypes, NEW t \in Transactions, Acquire(t)
  PROVE  Owned(t)' \subseteq Owned(t) \cup {Wanted(t)}
<1>1. /\ run[t] # NotBegun /\ run[t] \in Request /\ run[t].has \in Nat
      /\ run'[t] = [run[t] EXCEPT !.has = @ + 1]
      /\ rank' = rank
  BY DEF Acquire, Waits, RowTypes, Request
<1>2. /\ run'[t].kind = run[t].kind
      /\ run'[t].trade = run[t].trade
      /\ run'[t].has = run[t].has + 1
  BY <1>1 DEF Request
<1>3. Locks(t)' = Locks(t)
  BY <1>1, <1>2, ScriptStands DEF Locks
<1>4. ASSUME NEW l \in Owned(t)' PROVE l \in Owned(t) \cup {Wanted(t)}
  <2>1. PICK i \in 1..(run[t].has + 1) : l = Locks(t)[i]
    BY <1>2, <1>3, <1>4 DEF Owned
  <2> QED
    BY <2>1, <1>1 DEF Owned, Wanted
<1> QED
  BY <1>4

LEMMA BegunIs ==
  ASSUME RowTypes, NEW t \in Transactions, run[t] # NotBegun
  PROVE  /\ run[t].kind \in Kinds /\ run[t].trade \in Trades /\ run[t].has \in Nat
         /\ Len(Locks(t)) \in Nat /\ run[t].has <= Len(Locks(t))
         /\ Fits(run[t].kind, run[t].trade)
         /\ Owned(t) = {Locks(t)[i] : i \in 1..run[t].has}
         /\ \A i \in 1..Len(Locks(t)) : Entry(run[t].kind, run[t].trade, Locks(t), i)
<1>1. run[t].kind \in Kinds /\ run[t].trade \in Trades /\ run[t].has \in Nat
  BY DEF RowTypes, Request
<1>2. Fits(run[t].kind, run[t].trade)
  BY <1>1, ScriptsAreOrdered DEF RowTypes
<1> QED
  BY <1>1, <1>2 DEF Fits, Whole, Locks, Owned, RowTypes

LEMMA RowTypesStep == RowTypes /\ [RowNext]_rowVars => RowTypes'
<1> SUFFICES ASSUME RowTypes, RowNext PROVE RowTypes'
  <2>1. ASSUME UNCHANGED rowVars PROVE \A t : Locks(t)' = Locks(t)
    BY <2>1, ScriptStands DEF rowVars, Locks
  <2> QED
    BY <2>1 DEF RowTypes, rowVars
<1>1. rank' = rank /\ \A k, d : Script(k, d)' = Script(k, d)
  <2>1. rank' = rank
    BY DEF RowNext, Begin, Acquire, Commit, Abort
  <2> QED
    BY <2>1, ScriptStands
<1>2. ASSUME NEW t \in Transactions, run' = [run EXCEPT ![t] = NotBegun]
      PROVE  /\ run' \in [Transactions -> Request \cup {NotBegun}]
             /\ \A s \in Transactions : run'[s] # NotBegun =>
                  run'[s] \in Request /\ run'[s].has <= Len(Locks(s)')
  <2>1. \A s \in Transactions : s # t => run'[s] = run[s]
    BY <1>2 DEF RowTypes
  <2>2. \A s \in Transactions : run'[s] # NotBegun => s # t /\ Locks(s)' = Locks(s)
    BY <1>1, <1>2, <2>1 DEF RowTypes, Locks
  <2> QED
    BY <1>2, <2>1, <2>2 DEF RowTypes
<1>3. ASSUME NEW t \in Transactions, NEW kind \in Kinds, NEW d \in Trades, Begin(t, kind, d)
      PROVE  RowTypes'
  <2>1. run' = [run EXCEPT ![t] = [kind |-> kind, trade |-> d, has |-> 0]]
    BY <1>3 DEF Begin
  <2>2. \A s \in Transactions : s # t => run'[s] = run[s]
    BY <2>1 DEF RowTypes
  <2>3. \A s \in Transactions : s # t => Locks(s)' = Locks(s)
    BY <1>1, <2>2 DEF Locks
  <2>4. run'[t] = [kind |-> kind, trade |-> d, has |-> 0] /\ Locks(t)' = Script(kind, d)
    BY <1>1, <2>1 DEF Locks, RowTypes
  <2>5. Len(Script(kind, d)) \in Nat
    BY ScriptsAreOrdered DEF Fits, Whole, RowTypes
  <2>6. run'[t] \in Request /\ run'[t].has <= Len(Locks(t)')
    BY <2>4, <2>5 DEF Request
  <2>7. run' \in [Transactions -> Request \cup {NotBegun}]
    BY <2>1, <2>6 DEF RowTypes, Request
  <2>8. \A s \in Transactions : run'[s] # NotBegun =>
          run'[s] \in Request /\ run'[s].has <= Len(Locks(s)')
    BY <2>2, <2>3, <2>6 DEF RowTypes
  <2> QED
    BY <1>1, <1>3, <2>7, <2>8 DEF RowTypes, Begin
<1>4. ASSUME NEW t \in Transactions, Acquire(t) PROVE RowTypes'
  <2>1. run[t] # NotBegun /\ run[t].has < Len(Locks(t)) /\ run' = [run EXCEPT ![t].has = @ + 1]
    BY <1>4 DEF Acquire, Waits
  <2>2. /\ run[t] \in Request /\ run[t].has \in Nat /\ Len(Locks(t)) \in Nat
    BY <2>1, BegunIs DEF RowTypes
  <2>3. \A s \in Transactions : s # t => run'[s] = run[s] /\ Locks(s)' = Locks(s)
    BY <1>1, <2>1 DEF RowTypes, Locks
  <2>4. run'[t] = [run[t] EXCEPT !.has = @ + 1]
    BY <2>1 DEF RowTypes
  <2>5. /\ run'[t] \in Request
        /\ run'[t].has = run[t].has + 1
        /\ run'[t].kind = run[t].kind
        /\ run'[t].trade = run[t].trade
    BY <2>2, <2>4 DEF Request
  <2>6. Locks(t)' = Locks(t)
    BY <1>1, <2>5 DEF Locks
  <2>7. run'[t] \in Request /\ run'[t].has <= Len(Locks(t)')
    BY <2>1, <2>2, <2>5, <2>6
  <2>8. run' \in [Transactions -> Request \cup {NotBegun}]
    BY <2>1, <2>4, <2>5 DEF RowTypes
  <2>9. \A s \in Transactions : run'[s] # NotBegun =>
          run'[s] \in Request /\ run'[s].has <= Len(Locks(s)')
    BY <2>3, <2>7 DEF RowTypes
  <2> QED
    BY <1>1, <1>4, <2>8, <2>9 DEF RowTypes, Acquire
<1>5. ASSUME NEW t \in Transactions, Commit(t) PROVE RowTypes'
  <2>1. run' = [run EXCEPT ![t] = NotBegun]
    BY <1>5 DEF Commit
  <2>2. /\ referred' \subseteq Parties
        /\ escrowed' \in [Trades -> {"none", "live", "settled"}]
        /\ stage' \in [Trades -> {"pending", "claimed", "disputed", "closed"}]
    BY <1>5 DEF Commit, RowTypes
  <2> QED
    BY <1>1, <1>2, <2>1, <2>2 DEF RowTypes
<1>6. ASSUME NEW t \in Transactions, Abort(t) PROVE RowTypes'
  BY <1>1, <1>2, <1>6 DEF RowTypes, Abort
<1> QED
  BY <1>3, <1>4, <1>5, <1>6 DEF RowNext

LEMMA ClashIs ==
  \A m, n :
    /\ Clash(m, n) <=> Clash(n, m)
    /\ Clash(m, "update") <=> m \in {"update", "noKey", "share", "key"}
    /\ Clash(m, "noKey") <=> m \in {"update", "noKey", "share"}
    /\ Clash(m, "share") <=> m \in {"update", "noKey"}
    /\ Clash(m, "key") <=> m = "update"
    /\ Clash(m, "make") <=> m = "make"
<1> TAKE m, n
<1>1. {m, n} = {n, m}
  OBVIOUS
<1>2. Clash(m, "update") <=> m \in {"update", "noKey", "share", "key"}
  BY DEF Clash, ClashingModes
<1>3. Clash(m, "noKey") <=> m \in {"update", "noKey", "share"}
  BY DEF Clash, ClashingModes
<1>4. Clash(m, "share") <=> m \in {"update", "noKey"}
  BY DEF Clash, ClashingModes
<1>5. Clash(m, "key") <=> m = "update"
  BY DEF Clash, ClashingModes
<1>6. Clash(m, "make") <=> m = "make"
  BY DEF Clash, ClashingModes
<1>7. Clash(m, n) <=> Clash(n, m)
  BY <1>1 DEF Clash
<1> QED
  BY <1>2, <1>3, <1>4, <1>5, <1>6, <1>7

LEMMA NeverQualified ==
  \A d : ~Qualified(<<"lock", d>>) /\ ~Qualified(<<"deal", d>>) /\ ~Qualified(<<"case", d>>)
  BY DEF Qualified

LEMMA EscrowNeverQualified == \A d : ~Qualified(Escrow(d))
  BY DEF Qualified, Escrow

LEMMA OneMoves ==
  ASSUME RowTypes, RowNext
  PROVE  /\ referred' \subseteq referred
         /\ \E t \in Transactions :
              /\ \A s \in Transactions : s # t => run'[s] = run[s] /\ Owned(s)' = Owned(s)
              /\ Owned(t)' = {} \/ (Acquire(t) /\ Owned(t)' \subseteq Owned(t) \cup {Wanted(t)})
<1>1. rank' = rank /\ referred' \subseteq referred
  BY DEF RowNext, Begin, Acquire, Commit, Abort
<1>2. PICK t \in Transactions : \/ \E kind \in Kinds, d \in Trades : Begin(t, kind, d)
                                \/ Acquire(t)
                                \/ Commit(t)
                                \/ Abort(t)
  BY DEF RowNext
<1>3. \A s \in Transactions : s # t => run'[s] = run[s]
  BY <1>2 DEF Begin, Acquire, Commit, Abort, RowTypes
<1>4. \A s \in Transactions : s # t => Owned(s)' = Owned(s)
  BY <1>1, <1>3, OthersOwnTheSame
<1>5. ASSUME ~Acquire(t) PROVE Owned(t)' = {}
  <2>1. run'[t] = NotBegun \/ run'[t].has = 0
    BY <1>2, <1>5 DEF Begin, Commit, Abort, RowTypes
  <2> QED
    BY <2>1, NothingOwned
<1> QED
  BY <1>1, <1>3, <1>4, <1>5, OneMoreOwned

LEMMA HeldApartStep ==
  ASSUME RowTypes, HeldApart, RowNext PROVE HeldApart'
<1>1. PICK t \in Transactions :
        /\ \A s \in Transactions : s # t => run'[s] = run[s] /\ Owned(s)' = Owned(s)
        /\ Owned(t)' = {} \/ (Acquire(t) /\ Owned(t)' \subseteq Owned(t) \cup {Wanted(t)})
  BY OneMoves
<1>2. \A r : Qualified(r) => Qualified(r)'
  BY OneMoves DEF Qualified
<1>3. ASSUME NEW s \in Transactions, s # t, NEW l \in Owned(s), NEW m \in Owned(t)',
             l.row = m.row, Clash(l.mode, m.mode)
      PROVE  Qualified(l.row)
  <2>1. CASE m \in Owned(t)
    BY <1>3, <2>1 DEF HeldApart
  <2>2. CASE Acquire(t) /\ m = Wanted(t)
    BY <1>3, <2>2 DEF Acquire, Blocks, Qualified
  <2> QED
    BY <1>1, <1>3, <2>1, <2>2
<1>4. ASSUME NEW s \in Transactions, NEW u \in Transactions, s # u,
             NEW l \in Owned(s)', NEW m \in Owned(u)', l.row = m.row, Clash(l.mode, m.mode)
      PROVE  Qualified(l.row)'
  <2>1. CASE s # t /\ u # t
    BY <1>1, <1>2, <1>4, <2>1 DEF HeldApart
  <2>2. CASE s # t /\ u = t
    BY <1>1, <1>2, <1>3, <1>4, <2>2
  <2>3. CASE s = t /\ u # t
    <3>1. m \in Owned(u) /\ Clash(m.mode, l.mode)
      BY <1>1, <1>4, <2>3, ClashIs
    <3>2. Qualified(m.row)
      BY <3>1, <1>3, <1>4, <2>3
    <3> QED
      BY <3>2, <1>2, <1>4
  <2> QED
    BY <1>4, <2>1, <2>2, <2>3
<1> QED
  BY <1>4 DEF HeldApart

(* An entry of a script that is owned, and where it stands.                *)
LEMMA OwnedFits ==
  ASSUME RowTypes, NEW t \in Transactions, run[t] # NotBegun, NEW l \in Owned(t)
  PROVE  \E i \in 1..run[t].has : /\ i \in 1..Len(Locks(t))
                                  /\ l = Locks(t)[i]
                                  /\ Entry(run[t].kind, run[t].trade, Locks(t), i)
  BY BegunIs

LEMMA OwnsItAll ==
  ASSUME RowTypes, NEW t \in Transactions, Commit(t)
  PROVE  \A i \in 1..Len(Locks(t)) : Locks(t)[i] \in Owned(t)
<1>1. run[t] # NotBegun /\ ~(run[t].has < Len(Locks(t)))
  BY DEF Commit, Waits
<1> QED
  BY <1>1, BegunIs

(* What a transaction has seen is not changed by the end of another one,   *)
(* which would own a row that the first one keeps.                         *)
LEMMA CommitKeepsLock ==
  ASSUME RowTypes, HeldApart, NEW t \in Transactions, Commit(t),
         NEW u \in Transactions, u # t, run[u] # NotBegun,
         NEW l \in Owned(u), l.row = <<"lock", run[t].trade>>
  PROVE  run[t].kind \notin LockEnders \cup {"LOCK"}
<1> DEFINE d == run[t].trade
<1> SUFFICES ASSUME run[t].kind \in LockEnders \cup {"LOCK"} PROVE FALSE
  OBVIOUS
<1>1. LockRow(d) \in Owned(t)
  <2>1. run[t] # NotBegun
    BY DEF Commit
  <2>2. Whole(run[t].kind, d, Locks(t))
    BY <2>1, BegunIs DEF Fits, Locks
  <2>3. \E j \in 1..Len(Locks(t)) : Locks(t)[j] = LockRow(d)
    BY <2>2 DEF Whole
  <2> QED
    BY <2>3, OwnsItAll
<1>2. l.mode \in {"update", "share"}
  <2>1. Tag(l) = "lock"
    BY DEF Tag
  <2> QED
    BY <2>1, OwnedFits, RowsOfWants DEF Entry, LockFits
<1>3. Clash(l.mode, LockRow(d).mode) /\ l.row = LockRow(d).row
  BY <1>2, ClashIs, RowsOfWants
<1> QED
  BY <1>1, <1>3, NeverQualified DEF HeldApart

DealEnders == {"CLAIM", "OPEN_CASE", "CONFIRM", "RULE"}

LEMMA EnderOwnsDeal ==
  ASSUME RowTypes, NEW t \in Transactions, Commit(t), run[t].kind \in DealEnders
  PROVE  /\ run[t].kind # "RULE" => DealRow(run[t].trade) \in Owned(t)
         /\ run[t].kind = "RULE" => /\ Closing(run[t].trade) \in Owned(t)
                                    /\ CaseRow(run[t].trade) \in Owned(t)
<1>1. run[t] # NotBegun
  BY DEF Commit
<1>2. Whole(run[t].kind, run[t].trade, Locks(t))
  BY <1>1, BegunIs DEF Fits, Locks
<1> QED
  BY <1>2, OwnsItAll DEF Whole, DealEnders, DealFirst

LEMMA CommitKeepsDeal ==
  ASSUME RowTypes, HeldApart, NEW t \in Transactions, Commit(t),
         NEW u \in Transactions, u # t, run[u] # NotBegun, run[u].kind \in DealFirst,
         NEW l \in Owned(u), run[u].trade = run[t].trade
  PROVE  run[t].kind \notin DealEnders
<1> DEFINE d == run[t].trade
<1> SUFFICES ASSUME run[t].kind \in DealEnders PROVE FALSE
  OBVIOUS
<1>1. DealRow(d) \in Owned(u)
  <2>1. Whole(run[u].kind, d, Locks(u)) /\ run[u].has \in Nat
    BY BegunIs DEF Fits, Locks
  <2>2. 1 \in 1..run[u].has
    BY <2>1, OwnedFits
  <2> QED
    BY <2>1, <2>2, BegunIs DEF Whole
<1>2. PICK m \in Owned(t) : m.row = <<"deal", d>> /\ m.mode \in {"update", "noKey"}
  BY EnderOwnsDeal, RowsOfWants
<1>3. Clash(m.mode, DealRow(d).mode) /\ m.row = DealRow(d).row
  BY <1>2, ClashIs, RowsOfWants
<1> QED
  BY <1>1, <1>2, <1>3, NeverQualified DEF HeldApart

LEMMA CommitKeepsCase ==
  ASSUME RowInv, NEW t \in Transactions, Commit(t),
         NEW u \in Transactions, u # t, run[u] # NotBegun,
         NEW l \in Owned(u), l.row = <<"case", run[t].trade>>, run[u].trade = run[t].trade
  PROVE  run[t].kind \notin DealEnders
<1> DEFINE d == run[t].trade
<1> SUFFICES ASSUME run[t].kind \in DealEnders PROVE FALSE
  OBVIOUS
<1> USE DEF RowInv
<1>1. run[t] # NotBegun
  BY DEF Commit
<1>2. stage[d] = "disputed"
  BY DEF SeenStays, Passes
<1>3. CASE run[t].kind = "RULE"
  <2>1. Tag(l) = "case"
    BY DEF Tag
  <2>2. l.mode = "update"
    BY <2>1, OwnedFits, RowsOfWants DEF Entry, CaseFits
  <2>3. CaseRow(d) \in Owned(t) /\ CaseRow(d).mode = "update" /\ CaseRow(d).row = l.row
    BY <1>3, EnderOwnsDeal, RowsOfWants
  <2>4. Clash(l.mode, CaseRow(d).mode)
    BY <2>2, <2>3, ClashIs
  <2> QED
    BY <2>3, <2>4, NeverQualified DEF HeldApart
<1>4. CASE run[t].kind # "RULE"
  <2>1. DealRow(d) \in Owned(t) /\ DealRow(d).row = <<"deal", d>>
    BY <1>4, EnderOwnsDeal, RowsOfWants
  <2>2. Passes(run[t].kind, d, <<"deal", d>>)
    BY <1>1, <2>1 DEF SeenStays
  <2> QED
    BY <1>2, <1>4, <2>2 DEF Passes, DealEnders
<1> QED
  BY <1>3, <1>4

LEMMA CommitKeepsSeen ==
  ASSUME RowInv, NEW t \in Transactions, Commit(t),
         NEW u \in Transactions, u # t, run[u] # NotBegun, NEW l \in Owned(u)
  PROVE  Passes(run[u].kind, run[u].trade, l.row)'
<1> DEFINE k == run[u].kind
           d == run[u].trade
<1> USE DEF RowInv
<1>0. run'[u] = run[u] /\ d \in Trades /\ l' = l
  BY BegunIs DEF Commit, RowTypes
<1>1. Passes(k, d, l.row)
  BY DEF SeenStays
<1>2. ASSUME run[t].kind \notin LockEnders \cup {"LOCK"} \/ run[t].trade # d
      PROVE  escrowed'[d] = escrowed[d]
  BY <1>0, <1>2 DEF Commit, RowTypes
<1>3. ASSUME run[t].kind \notin DealEnders \/ run[t].trade # d
      PROVE  stage'[d] = stage[d]
  BY <1>0, <1>3 DEF Commit, RowTypes, DealEnders
<1>4. l.row = <<"lock", d>> => escrowed'[d] = escrowed[d]
  BY <1>2, CommitKeepsLock
<1>5. l.row = <<"deal", d>> /\ k \in DealFirst => stage'[d] = stage[d]
  BY <1>3, CommitKeepsDeal
<1>6. l.row = <<"case", d>> => stage'[d] = stage[d]
  BY <1>3, CommitKeepsCase
<1> QED
  BY <1>0, <1>1, <1>4, <1>5, <1>6 DEF Passes, DealFirst

LEMMA SeenStaysStep ==
  ASSUME RowInv, RowNext PROVE SeenStays'
<1> USE DEF RowInv
<1>1. PICK t \in Transactions : \/ \E kind \in Kinds, d \in Trades : Begin(t, kind, d)
                                \/ Acquire(t)
                                \/ Commit(t)
                                \/ Abort(t)
  BY DEF RowNext
<1>2. rank' = rank /\ \A s \in Transactions : s # t => run'[s] = run[s]
  BY <1>1 DEF Begin, Acquire, Commit, Abort, RowTypes
<1>3. \A s \in Transactions : s # t => Owned(s)' = Owned(s)
  BY <1>2, OthersOwnTheSame
<1>4. ASSUME ~Commit(t) PROVE escrowed' = escrowed /\ stage' = stage
  BY <1>1, <1>4 DEF Begin, Acquire, Abort
<1>5. ASSUME NEW u \in Transactions, u # t, run'[u] # NotBegun, NEW l \in Owned(u)'
      PROVE  Passes(run[u].kind, run[u].trade, l.row)'
  <2>1. l \in Owned(u) /\ run[u] # NotBegun
    BY <1>2, <1>3, <1>5
  <2>2. CASE Commit(t)
    BY <1>5, <2>1, <2>2, CommitKeepsSeen
  <2>3. CASE ~Commit(t)
    BY <1>2, <1>4, <1>5, <2>1, <2>3 DEF SeenStays, Passes
  <2> QED
    BY <2>2, <2>3
<1>6. ASSUME NEW u \in Transactions, u # t, run'[u] # NotBegun, run'[u].kind = "DEPOSIT"
      PROVE  escrowed'[run'[u].trade] # "none"
  <2>1. escrowed[run[u].trade] # "none" /\ run[u].trade \in Trades
    BY <1>2, <1>6, BegunIs DEF SeenStays
  <2>2. CASE Commit(t)
    BY <1>2, <1>6, <2>1, <2>2 DEF Commit, RowTypes
  <2> QED
    BY <1>2, <1>4, <1>6, <2>1, <2>2
<1>7. ASSUME run'[t] # NotBegun, NEW l \in Owned(t)'
      PROVE  Passes(run[t].kind, run[t].trade, l.row)'
  <2>1. Acquire(t)
    <3>1. ASSUME ~Acquire(t) PROVE run'[t] = NotBegun \/ run'[t].has = 0
      BY <1>1, <3>1 DEF Begin, Commit, Abort, RowTypes
    <3> QED
      BY <1>7, <3>1, NothingOwned
  <2>2. run[t] # NotBegun /\ run[t] \in Request
    BY <2>1 DEF Acquire, Waits, RowTypes
  <2>3. run'[t].kind = run[t].kind /\ run'[t].trade = run[t].trade
    BY <2>1, <2>2 DEF Acquire, RowTypes, Request
  <2>4. escrowed' = escrowed /\ stage' = stage
    BY <2>1 DEF Acquire
  <2>5. Passes(run[t].kind, run[t].trade, l.row)
    BY <1>7, <2>1, <2>2, OneMoreOwned DEF SeenStays, Acquire
  <2> QED
    BY <2>3, <2>4, <2>5 DEF Passes
<1>8. ASSUME run'[t] # NotBegun, run'[t].kind = "DEPOSIT"
      PROVE  escrowed'[run'[t].trade] # "none"
  <2>1. CASE Acquire(t)
    <3>1. run[t] # NotBegun /\ run[t] \in Request
      BY <2>1 DEF Acquire, Waits, RowTypes
    <3>2. run'[t].kind = run[t].kind /\ run'[t].trade = run[t].trade
      BY <2>1, <3>1 DEF Acquire, RowTypes, Request
    <3> QED
      BY <1>8, <2>1, <3>1, <3>2 DEF SeenStays, Acquire
  <2>2. ASSUME NEW kind \in Kinds, NEW d \in Trades, Begin(t, kind, d)
        PROVE  escrowed'[run'[t].trade] # "none"
    BY <1>8, <2>2 DEF Begin, MayBegin, RowTypes
  <2>3. ~Commit(t) /\ ~Abort(t)
    BY <1>8 DEF Commit, Abort, RowTypes
  <2> QED
    BY <1>1, <2>1, <2>2, <2>3
<1>9. ASSUME NEW u \in Transactions, run'[u] # NotBegun
      PROVE  /\ \A l \in Owned(u)' : Passes(run[u].kind, run[u].trade, l.row)'
             /\ run'[u].kind = "DEPOSIT" => escrowed'[run'[u].trade] # "none"
  BY <1>5, <1>6, <1>7, <1>8, <1>9
<1> QED
  BY <1>9 DEF SeenStays

LEMMA RowInvariant == RowSpec => []RowInv
<1>1. RowInit => RowInv
  <2> SUFFICES ASSUME RowInit PROVE RowInv
    OBVIOUS
  <2>1. \A t \in Transactions : run[t] = NotBegun /\ Owned(t) = {}
    BY DEF RowInit, Owned
  <2> QED
    BY <2>1 DEF RowInit, RowInv, RowTypes, HeldApart, SeenStays
<1>2. RowInv /\ [RowNext]_rowVars => RowInv'
  <2> SUFFICES ASSUME RowInv, [RowNext]_rowVars PROVE RowInv'
    OBVIOUS
  <2>1. RowTypes'
    BY RowTypesStep DEF RowInv
  <2>2. CASE RowNext
    BY <2>1, <2>2, HeldApartStep, SeenStaysStep DEF RowInv
  <2>3. CASE UNCHANGED rowVars
    <3>1. /\ rank' = rank /\ run' = run /\ referred' = referred
          /\ escrowed' = escrowed /\ stage' = stage
      BY <2>3 DEF rowVars
    <3>2. \A t : Owned(t)' = Owned(t)
      BY <3>1, OthersOwnTheSame
    <3>3. HeldApart'
      BY <3>1, <3>2 DEF RowInv, HeldApart, Qualified
    <3>4. SeenStays'
      BY <3>1, <3>2 DEF RowInv, SeenStays, Passes
    <3> QED
      BY <2>1, <3>3, <3>4 DEF RowInv
  <2> QED
    BY <2>2, <2>3
<1> QED
  BY <1>1, <1>2, PTL DEF RowSpec

(* The transactions are of a known kind and are where their script has a   *)
(* place for them.                                                         *)
THEOREM RowTypesHold == RowSpec => []RowTypeOK
<1>1. RowInv => RowTypeOK
  <2> SUFFICES ASSUME RowInv PROVE RowTypeOK
    OBVIOUS
  <2>1. ASSUME NEW t \in Transactions, run[t] # NotBegun
        PROVE  run[t].kind \in Kinds /\ run[t].trade \in Trades /\ run[t].has \in 0..Len(Locks(t))
    BY <2>1, BegunIs DEF RowInv
  <2> QED
    BY <2>1 DEF RowInv, RowTypes, RowTypeOK
<1> QED
  BY <1>1, RowInvariant, PTL

(* What a transaction has read of a deal, its lock or its case under its    *)
(* own row locks is still so when it commits, whoever commits in between:   *)
(* the checks of confirmReceipt, settleLock, approveResolution and the      *)
(* others are never stale.                                                  *)
THEOREM SeenStaysHolds == RowSpec => []SeenStays
  BY RowInvariant, PTL DEF RowInv

-----------------------------------------------------------------------------
(* Circles.  Whoever waits for a row at one level waits for someone who     *)
(* waits for a row at a higher one, but for the requests that are Trouble.  *)
LEMMA ClashWithoutMake ==
  \A m, n : Clash(m, n) => /\ m = "make" <=> n = "make"
                           /\ n # "make" => m \in {"update", "noKey", "share", "key"}
  BY DEF Clash, ClashingModes

LEMMA WaitsIs ==
  ASSUME RowTypes, NEW t \in Transactions, Waits(t)
  PROVE  /\ run[t] # NotBegun /\ run[t].has \in Nat
         /\ run[t].has + 1 \in 1..Len(Locks(t)) /\ run[t].has < Len(Locks(t))
         /\ Wanted(t) = Locks(t)[run[t].has + 1]
         /\ Entry(run[t].kind, run[t].trade, Locks(t), run[t].has + 1)
         /\ Whole(run[t].kind, run[t].trade, Locks(t))
         /\ \A j \in 1..run[t].has : Locks(t)[j] \in Owned(t)
<1>1. run[t] # NotBegun /\ run[t].has < Len(Locks(t))
  BY DEF Waits
<1>2. /\ run[t].has \in Nat /\ Len(Locks(t)) \in Nat
      /\ Fits(run[t].kind, run[t].trade)
      /\ Owned(t) = {Locks(t)[i] : i \in 1..run[t].has}
      /\ \A i \in 1..Len(Locks(t)) : Entry(run[t].kind, run[t].trade, Locks(t), i)
  BY <1>1, BegunIs
<1>3. run[t].has + 1 \in 1..Len(Locks(t))
  BY <1>1, <1>2
<1> QED
  BY <1>1, <1>2, <1>3 DEF Fits, Locks, Wanted

LEMMA BlocksIs ==
  ASSUME RowTypes, NEW s \in Transactions, NEW t \in Transactions, Blocks(s, t)
  PROVE  /\ s # t /\ Waits(t) /\ run[s] # NotBegun
         /\ \E i \in 1..run[s].has :
              LET l == Locks(s)[i] IN
              /\ i \in 1..Len(Locks(s)) /\ l \in Owned(s)
              /\ Entry(run[s].kind, run[s].trade, Locks(s), i)
              /\ l.row = Wanted(t).row /\ Clash(l.mode, Wanted(t).mode) /\ ~Qualified(l.row)
<1>1. run[s] # NotBegun
  BY DEF Blocks, Owned
<1>2. PICK l \in Owned(s) : /\ l.row = Wanted(t).row /\ Clash(l.mode, Wanted(t).mode)
                            /\ \A u \in Parties : l.row = <<"referral", u>> => u \in referred
  BY DEF Blocks
<1>3. ~Qualified(l.row)
  BY <1>2 DEF Qualified
<1>4. PICK i \in 1..run[s].has : /\ i \in 1..Len(Locks(s))
                                 /\ l = Locks(s)[i]
                                 /\ Entry(run[s].kind, run[s].trade, Locks(s), i)
  BY <1>1, OwnedFits
<1> QED
  BY <1>1, <1>2, <1>3, <1>4 DEF Blocks

(* A transaction is not kept from what it holds for writing.               *)
LEMMA NotAgain ==
  ASSUME RowInv, NEW s \in Transactions, NEW t \in Transactions, Blocks(s, t)
  PROVE  ~Again(Locks(t), run[t].has + 1)
<1> USE DEF RowInv
<1> SUFFICES ASSUME Again(Locks(t), run[t].has + 1) PROVE FALSE
  OBVIOUS
<1>1. s # t /\ Waits(t)
  BY BlocksIs
<1>2. run[t].has \in Nat /\ Wanted(t) = Locks(t)[run[t].has + 1]
  BY <1>1, WaitsIs
<1>3. PICK j \in 1..run[t].has : /\ Locks(t)[j].mode = "update"
                                 /\ Locks(t)[j].row = Wanted(t).row
                                 /\ Wanted(t).mode # "make"
  BY <1>2 DEF Again
<1>4. Locks(t)[j] \in Owned(t)
  BY <1>1, WaitsIs
<1>5. PICK l \in Owned(s) : /\ l.row = Wanted(t).row
                            /\ Clash(l.mode, Wanted(t).mode)
                            /\ ~Qualified(l.row)
  BY BlocksIs
<1>6. Clash(l.mode, "update")
  BY <1>3, <1>5, ClashWithoutMake, ClashIs
<1> QED
  BY <1>1, <1>3, <1>4, <1>5, <1>6 DEF HeldApart

(* All of C wait for one another, and in none of the known ways.           *)
Unknown(C) ==
  /\ C \subseteq Transactions
  /\ \A t \in C : \E s \in C : Blocks(s, t)
  /\ \A t \in C : ~LateLock(t)
  /\ \A s, t \in C : ~DealAgainstLock(s, t) /\ ~ReferralsCrossed(s, t)

LEMMA InCircle ==
  ASSUME RowInv, NEW C, Unknown(C), NEW t \in C
  PROVE  /\ t \in Transactions /\ Waits(t) /\ ~Again(Locks(t), run[t].has + 1)
         /\ \E s \in C : s \in Transactions /\ Blocks(s, t)
<1>1. PICK s \in C : s \in Transactions /\ t \in Transactions /\ Blocks(s, t)
  BY DEF Unknown
<1> QED
  BY <1>1, NotAgain DEF Blocks

LEMMA NotAtReference ==
  ASSUME RowInv, NEW C, Unknown(C), NEW t \in C PROVE Tag(Wanted(t)) # "utr"
<1> SUFFICES ASSUME Tag(Wanted(t)) = "utr" PROVE FALSE
  OBVIOUS
<1> USE DEF RowInv
<1>1. PICK s \in C : s \in Transactions /\ t \in Transactions /\ Blocks(s, t)
  BY InCircle
<1>2. PICK i \in 1..run[s].has : /\ Entry(run[s].kind, run[s].trade, Locks(s), i)
                                 /\ Locks(s)[i].row = Wanted(t).row
  BY <1>1, BlocksIs
<1>3. i = Len(Locks(s))
  BY <1>2 DEF Entry, ClaimFits, Tag
<1>4. run[s].has \in Nat /\ run[s].has < Len(Locks(s))
  BY InCircle, WaitsIs
<1> QED
  BY <1>3, <1>4

LEMMA NotAtReferral ==
  ASSUME RowInv, NEW C, Unknown(C), NEW t \in C PROVE Tag(Wanted(t)) # "referral"
<1> SUFFICES ASSUME Tag(Wanted(t)) = "referral" PROVE FALSE
  OBVIOUS
<1> USE DEF RowInv
<1>1. PICK s \in C : s \in Transactions /\ t \in Transactions /\ Blocks(s, t)
  BY InCircle
<1>2. /\ run[t].kind = "CONFIRM" /\ run[t].trade \in Trades
      /\ \/ Wanted(t) = Referral(Payee[run[t].trade])
         \/ Wanted(t) = Referral(Supplier[run[t].trade])
  <2>1. Waits(t) /\ run[t] # NotBegun
    BY InCircle DEF Waits
  <2> QED
    BY <1>1, <2>1, WaitsIs, BegunIs DEF Entry, ReferralFits
<1>3. PICK i \in 1..run[s].has : /\ Entry(run[s].kind, run[s].trade, Locks(s), i)
                                 /\ Locks(s)[i].row = Wanted(t).row
                                 /\ run[s] # NotBegun
  BY <1>1, BlocksIs
<1>4. /\ run[s].has \in Nat /\ run[s].has < Len(Locks(s)) /\ Len(Locks(s)) \in Nat
      /\ run[s].trade \in Trades /\ Wanted(s) = Locks(s)[run[s].has + 1]
  BY <1>1, <1>3, InCircle, WaitsIs, BegunIs
<1>5. /\ run[s].kind = "CONFIRM"
      /\ Locks(s)[i] = Referral(Supplier[run[s].trade])
      /\ i = Len(Locks(s)) - 1
      /\ Locks(s)[Len(Locks(s))] = Referral(Payee[run[s].trade])
  BY <1>3, <1>4 DEF Entry, ReferralFits, Tag
<1>6. Wanted(s) = Referral(Payee[run[s].trade])
  <2>1. run[s].has + 1 = Len(Locks(s))
    BY <1>4, <1>5
  <2> QED
    BY <2>1, <1>4, <1>5
<1>7. Wanted(t) = Referral(Supplier[run[s].trade])
  BY <1>2, <1>3, <1>5, RowsOfWants
<1>8. ReferralsCrossed(s, t)
  BY <1>2, <1>4, <1>5, <1>6, <1>7, RowAssumption DEF ReferralsCrossed, Parties
<1> QED
  BY <1>8 DEF Unknown

(* Whoever keeps the escrow account or the lock row of a deal from another  *)
(* knows that the deal has had its lock, or is its first lockDealValue.     *)
LEMMA LockIsEarly ==
  ASSUME RowInv, NEW C, Unknown(C), NEW t \in C, run[t].kind = "LOCK" PROVE run[t].has < 3
<1> SUFFICES ASSUME ~(run[t].has < 3) PROVE FALSE
  OBVIOUS
<1> USE DEF RowInv
<1> DEFINE d == run[t].trade
<1>1. PICK s \in C : s \in Transactions /\ t \in Transactions /\ Blocks(s, t)
  BY InCircle
<1>2. /\ run[t].has \in Nat /\ run[t].has < 6 /\ d \in Trades
      /\ Len(Locks(t)) = 6 /\ Wanted(t) = Locks(t)[run[t].has + 1]
      /\ Want("make", Escrow(d)) \in Owned(t)
      /\ Locks(t)[6] = LockRow(d)
      /\ Entry("LOCK", d, Locks(t), run[t].has + 1)
  <2>1. Waits(t) /\ run[t] # NotBegun
    BY InCircle DEF Waits
  <2>2. /\ run[t].has \in Nat /\ d \in Trades /\ run[t].has < Len(Locks(t))
        /\ Wanted(t) = Locks(t)[run[t].has + 1]
        /\ Entry("LOCK", d, Locks(t), run[t].has + 1)
        /\ Whole("LOCK", d, Locks(t))
        /\ \A j \in 1..run[t].has : Locks(t)[j] \in Owned(t)
    BY <1>1, <2>1, WaitsIs, BegunIs
  <2>3. Locks(t)[2] \in Owned(t)
    BY <2>2
  <2> QED
    BY <2>2, <2>3 DEF Whole
<1>3. Wanted(t) = Take(Escrow(d)) \/ Wanted(t) = LockRow(d)
  <2>1. ~Again(Locks(t), run[t].has + 1)
    BY InCircle
  <2> QED
    BY <1>2, <2>1 DEF Entry, AccountFits
<1>4. PICK i \in 1..run[s].has :
        /\ i \in 1..Len(Locks(s)) /\ Locks(s)[i] \in Owned(s)
        /\ Entry(run[s].kind, run[s].trade, Locks(s), i)
        /\ Locks(s)[i].row = Wanted(t).row
        /\ Clash(Locks(s)[i].mode, Wanted(t).mode)
        /\ run[s] # NotBegun /\ s # t
  BY <1>1, BlocksIs
<1>5. /\ run[s].has \in Nat /\ run[s].has < Len(Locks(s)) /\ Len(Locks(s)) \in Nat
      /\ Whole(run[s].kind, run[s].trade, Locks(s))
      /\ \A j \in 1..run[s].has : Locks(s)[j] \in Owned(s)
  BY <1>1, <1>4, InCircle, WaitsIs, BegunIs
<1>6. escrowed[d] = "none"
  BY <1>2 DEF Unknown, LateLock, RowTypes
<1>7. ASSUME run[s].trade = d, run[s].kind \in LockEnders \cup {"INSTRUCT"},
             NEW m \in Owned(s), m.row = <<"lock", d>>
      PROVE  FALSE
  BY <1>1, <1>4, <1>6, <1>7 DEF SeenStays, Passes
<1>8. CASE Wanted(t) = Take(Escrow(d))
  <2>1. Locks(s)[i].row = Escrow(d) /\ Locks(s)[i].mode # "make"
    BY <1>4, <1>8, TakeIs, ClashWithoutMake
  <2>2. /\ Locks(s)[i] = Take(Escrow(run[s].trade))
        /\ \/ run[s].kind = "LOCK" /\ i >= 3
           \/ run[s].kind \in LockEnders /\ Earlier(Locks(s), i, LockRow(run[s].trade))
           \/ run[s].kind = "DEPOSIT"
    BY <1>4, <2>1, TagsAre DEF Entry, AccountFits, Tag
  <2>3. run[s].trade = d
    BY <2>1, <2>2, TakeIs DEF Escrow
  <2>4. CASE run[s].kind = "LOCK" /\ i >= 3
    <3>0. Locks(s)[2] \in Owned(s)
      BY <1>4, <1>5, <2>4
    <3>1. Want("make", Escrow(d)) \in Owned(s)
      BY <1>5, <2>3, <2>4, <3>0 DEF Whole
    <3>2. Clash("make", "make") /\ ~Qualified(Escrow(d))
      BY ClashIs, EscrowNeverQualified
    <3> DEFINE w == Want("make", Escrow(d))
    <3>3. Clash(w.mode, w.mode) /\ ~Qualified(w.row)
      BY <3>2, WantIs
    <3>4. w \in Owned(s) /\ w \in Owned(t)
      BY <1>2, <3>1
    <3> HIDE DEF w
    <3> QED
      BY <1>1, <1>4, <3>3, <3>4 DEF HeldApart
  <2>5. CASE run[s].kind \in LockEnders /\ Earlier(Locks(s), i, LockRow(run[s].trade))
    <3>1. LockRow(d) \in Owned(s)
      BY <1>5, <2>3, <2>5 DEF Earlier
    <3> QED
      BY <1>7, <2>3, <2>5, <3>1, RowsOfWants
  <2>6. CASE run[s].kind = "DEPOSIT"
    BY <1>1, <1>4, <1>6, <2>3, <2>6 DEF SeenStays
  <2> QED
    BY <2>2, <2>4, <2>5, <2>6
<1>9. CASE Wanted(t) = LockRow(d)
  <2>1. Locks(s)[i].row = <<"lock", d>> /\ Tag(Locks(s)[i]) = "lock"
    BY <1>4, <1>9, RowsOfWants DEF Tag
  <2>2. /\ run[s].kind \in LockEnders \cup {"INSTRUCT"}
        /\ Locks(s)[i].row = <<"lock", run[s].trade>>
    BY <1>4, <1>5, <2>1, RowsOfWants DEF Entry, LockFits
  <2>3. run[s].trade = d
    BY <2>1, <2>2
  <2> QED
    BY <1>4, <1>7, <2>1, <2>2, <2>3
<1> QED
  BY <1>3, <1>8, <1>9

(* Of those who keep a deal row from a foreign key or from the last UPDATE  *)
(* of a ruling, only a confirmation and an intent being opened wait, and    *)
(* they wait for the lock row when somebody else has it.                    *)
LEMMA DealHolder ==
  ASSUME RowInv, NEW C, Unknown(C), NEW s \in C, NEW t \in Transactions, s # t, NEW d,
         NEW m \in Owned(t), m.row = <<"lock", d>>, m.mode \in {"update", "share"},
         NEW l \in Owned(s), l.row = <<"deal", d>>,
         Clash(l.mode, "key") \/ Clash(l.mode, "noKey")
  PROVE  /\ run[s].kind \in {"CONFIRM", "OPEN_INTENT"} /\ run[s].trade = d
         /\ Wanted(s).row = <<"lock", d>>
         /\ Wanted(s).mode = IF run[s].kind = "CONFIRM" THEN "update" ELSE "share"
         /\ DealRow(d) \in Owned(s)
<1> USE DEF RowInv
<1>0. s \in Transactions /\ Waits(s)
  BY InCircle
<1>1. /\ s \in Transactions /\ Waits(s)
      /\ run[s] # NotBegun /\ run[s].has \in Nat /\ run[s].has < Len(Locks(s))
      /\ Len(Locks(s)) \in Nat
      /\ Wanted(s) = Locks(s)[run[s].has + 1]
      /\ Whole(run[s].kind, run[s].trade, Locks(s))
      /\ Entry(run[s].kind, run[s].trade, Locks(s), run[s].has + 1)
      /\ \A j \in 1..run[s].has : Locks(s)[j] \in Owned(s)
  BY <1>0, WaitsIs, BegunIs, SMTT(20)
<1>2. PICK i \in 1..run[s].has : /\ i \in 1..Len(Locks(s)) /\ l = Locks(s)[i]
                                 /\ Entry(run[s].kind, run[s].trade, Locks(s), i)
  BY <1>1, OwnedFits
<1>3. run[s].kind \in DealFirst /\ l = DealRow(run[s].trade)
  <2>1. l.mode # "key" /\ Tag(l) = "deal"
    BY ClashIs DEF Tag
  <2> QED
    BY <1>1, <1>2, <2>1, RowsOfWants DEF Entry, DealFits
<1>4. run[s].trade = d
  BY <1>3, RowsOfWants
<1>5. run[s].kind # "OPEN_CASE"
  BY <1>1, <1>2 DEF Whole
<1>6. run[s].kind # "CLAIM"
  BY <1>1, <1>2, NotAtReference DEF Entry, ClaimFits
<1>7. CASE run[s].kind = "OPEN_INTENT"
  <2>1. Len(Locks(s)) = 2 /\ Locks(s)[2] = Seen(d)
    BY <1>1, <1>4, <1>7 DEF Whole
  <2>2. run[s].has = 1
    BY <1>1, <1>2, <2>1
  <2> QED
    BY <1>1, <1>3, <1>4, <1>7, <2>1, <2>2, RowsOfWants
<1>8. CASE run[s].kind = "CONFIRM"
  <2>1. Locks(s)[2] = LockRow(d)
    BY <1>1, <1>4, <1>8 DEF Whole
  <2>2. run[s].has = 1
    <3>1. ASSUME run[s].has # 1 PROVE FALSE
      <4>1. LockRow(d) \in Owned(s)
        BY <1>1, <1>2, <2>1, <3>1
      <4>2. Clash(LockRow(d).mode, m.mode) /\ LockRow(d).row = m.row
        BY RowsOfWants, ClashIs
      <4> QED
        BY <1>1, <4>1, <4>2, NeverQualified, RowsOfWants DEF HeldApart
    <3> QED
      BY <3>1
  <2> QED
    BY <1>1, <1>3, <1>4, <1>8, <2>1, <2>2, RowsOfWants
<1> QED
  BY <1>3, <1>5, <1>6, <1>7, <1>8 DEF DealFirst

(* So nobody in C waits for the deal row after having taken the lock row.  *)
LEMMA NotAtDealLate ==
  ASSUME RowInv, NEW C, Unknown(C), NEW t \in C, Tag(Wanted(t)) = "deal",
         Wanted(t).mode \in {"key", "noKey"}, run[t].kind # "DEPOSIT"
  PROVE  FALSE
<1> USE DEF RowInv
<1> DEFINE d == run[t].trade
<1>1. PICK s \in C : s \in Transactions /\ t \in Transactions /\ s # t /\ Blocks(s, t)
  BY InCircle, BlocksIs
<1>0. Waits(t) /\ ~Again(Locks(t), run[t].has + 1)
  BY InCircle
<1>2. /\ run[t].has \in Nat /\ run[t] # NotBegun /\ Waits(t)
      /\ Wanted(t) = Locks(t)[run[t].has + 1]
      /\ Entry(run[t].kind, d, Locks(t), run[t].has + 1)
      /\ Whole(run[t].kind, d, Locks(t))
      /\ ~Again(Locks(t), run[t].has + 1)
      /\ \A j \in 1..run[t].has : Locks(t)[j] \in Owned(t)
  BY <1>0, <1>1, WaitsIs, SMTT(20)
<1>3. /\ Wanted(t).row = <<"deal", d>>
      /\ \/ run[t].kind \in {"RELEASE", "RULE"} /\ Earlier(Locks(t), run[t].has + 1, LockRow(d))
         \/ run[t].kind = "INSTRUCT" /\ Earlier(Locks(t), run[t].has + 1, Seen(d))
  BY <1>2, RowsOfWants DEF Entry, DealFits
<1>4. PICK m \in Owned(t) :
        /\ m.row = <<"lock", d>>
        /\ \/ run[t].kind \in {"RELEASE", "RULE"} /\ m.mode = "update"
           \/ run[t].kind = "INSTRUCT" /\ m.mode = "share"
  BY <1>2, <1>3, RowsOfWants DEF Earlier
<1>5. PICK l \in Owned(s) : l.row = <<"deal", d>> /\ Clash(l.mode, Wanted(t).mode)
  BY <1>1, <1>3, BlocksIs
<1>6. /\ run[s].kind \in {"CONFIRM", "OPEN_INTENT"} /\ run[s].trade = d
      /\ Wanted(s).row = <<"lock", d>>
      /\ Wanted(s).mode = IF run[s].kind = "CONFIRM" THEN "update" ELSE "share"
      /\ DealRow(d) \in Owned(s)
  <2>1. m.mode \in {"update", "share"} /\ (Clash(l.mode, "key") \/ Clash(l.mode, "noKey"))
    BY <1>4, <1>5
  <2> QED
    BY <1>1, <1>4, <1>5, <2>1, DealHolder
<1>7. Waits(s) /\ run[s] # NotBegun
  BY InCircle DEF Waits
<1>8. ~(run[s].kind = "OPEN_INTENT" /\ run[t].kind = "INSTRUCT")
  <2> SUFFICES ASSUME run[s].kind = "OPEN_INTENT", run[t].kind = "INSTRUCT" PROVE FALSE
    OBVIOUS
  <2>1. PICK u \in C : u \in Transactions /\ Blocks(u, s)
    BY InCircle
  <2>2. PICK i \in 1..run[u].has :
          /\ Locks(u)[i] \in Owned(u) /\ Locks(u)[i].row = <<"lock", d>>
          /\ Clash(Locks(u)[i].mode, "share")
          /\ Entry(run[u].kind, run[u].trade, Locks(u), i)
    BY <1>1, <1>6, <2>1, BlocksIs
  <2>3. u # t
    <3>1. Tag(Locks(u)[i]) = "lock" /\ Locks(u)[i].mode # "share"
      BY <2>2, ClashIs DEF Tag
    <3> QED
      BY <2>2, <3>1, RowsOfWants DEF Entry, LockFits, LockEnders
  <2>4. m.mode = "share"
    BY <1>4
  <2> QED
    BY <1>1, <1>4, <2>1, <2>2, <2>3, <2>4, NeverQualified DEF HeldApart
<1>9. ~(run[s].kind = "CONFIRM" /\ run[t].kind = "RULE")
  <2> SUFFICES ASSUME run[s].kind = "CONFIRM", run[t].kind = "RULE" PROVE FALSE
    OBVIOUS
  <2>1. stage[d] = "claimed"
    BY <1>1, <1>6, <1>7, RowsOfWants DEF SeenStays, Passes
  <2>2. 1 \in 1..run[t].has
    BY <1>2, <1>3 DEF Earlier
  <2>3. CaseRow(d) \in Owned(t)
    BY <1>2, <2>2 DEF Whole
  <2>4. stage[d] = "disputed"
    BY <1>1, <1>2, <2>3, RowsOfWants DEF SeenStays, Passes
  <2> QED
    BY <2>1, <2>4
<1>10. Blocks(t, s)
  <2>1. Clash(m.mode, Wanted(s).mode)
    BY <1>4, <1>6, <1>8, ClashIs
  <2>2. \A u \in Parties : m.row # <<"referral", u>>
    BY <1>4
  <2> QED
    BY <1>1, <1>4, <1>6, <1>7, <2>1, <2>2 DEF Blocks
<1>11. DealAgainstLock(s, t)
  BY <1>1, <1>3, <1>4, <1>6, <1>8, <1>9, <1>10 DEF DealAgainstLock
<1> QED
  BY <1>11 DEF Unknown

LEMMA KeyIsDeposit ==
  ASSUME RowInv, NEW C, Unknown(C), NEW t \in C
  PROVE  /\ Wanted(t).mode = "key" => run[t].kind = "DEPOSIT"
         /\ Wanted(t).mode # "noKey"
<1> USE DEF RowInv
<1>1. /\ t \in Transactions /\ Wanted(t) = Locks(t)[run[t].has + 1]
      /\ Entry(run[t].kind, run[t].trade, Locks(t), run[t].has + 1)
  BY InCircle, WaitsIs
<1>2. ASSUME Wanted(t).mode = "key" PROVE run[t].kind = "DEPOSIT"
  <2>1. Tag(Wanted(t)) = "deal"
    BY <1>1, <1>2 DEF Entry, ModeFits
  <2> QED
    BY <1>2, <2>1, NotAtDealLate
<1>3. ASSUME Wanted(t).mode = "noKey" PROVE FALSE
  <2>1. Tag(Wanted(t)) = "deal"
    BY <1>1, <1>3, NotAtReferral DEF Entry, ModeFits
  <2>2. run[t].kind # "DEPOSIT"
    BY <1>1, <1>3, <2>1, RowsOfWants DEF Entry, DealFits
  <2> QED
    BY <1>3, <2>1, <2>2, NotAtDealLate
<1> QED
  BY <1>2, <1>3

LEMMA NotAtRevenue ==
  ASSUME RowInv, NEW C, Unknown(C), NEW t \in C PROVE Wanted(t).row # Revenue
<1> SUFFICES ASSUME Wanted(t).row = Revenue PROVE FALSE
  OBVIOUS
<1> USE DEF RowInv
<1>1. PICK s \in C : s \in Transactions /\ t \in Transactions /\ Blocks(s, t)
  BY InCircle
<1>2. PICK i \in 1..run[s].has : /\ Locks(s)[i].row = Revenue
                                 /\ Entry(run[s].kind, run[s].trade, Locks(s), i)
  BY <1>1, BlocksIs
<1>3. /\ run[s].has \in Nat /\ Wanted(s) = Locks(s)[run[s].has + 1]
      /\ run[s].has + 1 \in 1..Len(Locks(s)) /\ ~Again(Locks(s), run[s].has + 1)
      /\ Len(Locks(s)) \in Nat
  BY <1>1, InCircle, WaitsIs DEF Whole
<1>4. run[s].has + 1 \in (i + 1)..Len(Locks(s))
  BY <1>3
<1>5. Locks(s)[run[s].has + 1].mode = "noKey"
  BY <1>2, <1>3, <1>4, TagsAre DEF Entry, AccountFits, Tag
<1> QED
  BY <1>3, <1>5, KeyIsDeposit

LEMMA WaitsHigher ==
  ASSUME RowInv, NEW C, Unknown(C), NEW s \in C, NEW t \in C, Blocks(s, t)
  PROVE  /\ Level(Wanted(s)) \in Nat /\ Level(Wanted(t)) \in Nat
         /\ Level(Wanted(t)) < Level(Wanted(s))
<1> USE DEF RowInv
<1>1. s \in Transactions /\ t \in Transactions
  BY InCircle
<1>2. PICK i \in 1..run[s].has : /\ Locks(s)[i].row = Wanted(t).row
                                 /\ Clash(Locks(s)[i].mode, Wanted(t).mode)
  BY <1>1, BlocksIs
<1>3. Level(Locks(s)[i]) = Level(Wanted(t))
  BY <1>2, ClashWithoutMake DEF Level, Tag
<1>4. ASSUME NEW u \in C
      PROVE  /\ run[u].has \in Nat
             /\ Level(Wanted(u)) \in Nat
             /\ \A j \in 1..run[u].has : Level(Locks(u)[j]) < Level(Wanted(u))
  <2>1. /\ u \in Transactions /\ run[u].has \in Nat /\ Wanted(u) = Locks(u)[run[u].has + 1]
        /\ Entry(run[u].kind, run[u].trade, Locks(u), run[u].has + 1)
        /\ ~Again(Locks(u), run[u].has + 1)
    BY InCircle, WaitsIs
  <2>2. ~Trouble(run[u].kind, Locks(u), run[u].has + 1)
    BY <2>1, LockIsEarly, KeyIsDeposit, NotAtRevenue DEF Trouble
  <2> QED
    BY <2>1, <2>2 DEF Entry, Climbs
<1> QED
  BY <1>2, <1>3, <1>4

(* A function from a finite set to the numbers has a largest value: the    *)
(* smallest set without one would lack its top when one member is taken    *)
(* out.                                                                    *)
LEMMA HasTop ==
  ASSUME NEW S, IsFiniteSet(S), NEW f \in [S -> Nat], S # {}
  PROVE  \E x \in S : \A y \in S : f[y] <= f[x]
<1> DEFINE B == {T \in SUBSET S : T # {} /\ \A x \in T : \E y \in T : ~(f[y] <= f[x])}
<1> SUFFICES ASSUME S \in B PROVE FALSE
  OBVIOUS
<1>1. B \subseteq FiniteSubsetsOf(S)
  BY FS_FiniteSubsetsOfFinite
<1>2. IsWellFoundedOn(StrictSubsetOrdering(S), FiniteSubsetsOf(S))
  BY FS_StrictSubsetOrderingWellFounded
<1>3. PICK T \in B : \A U \in B : ~(<<U, T>> \in StrictSubsetOrdering(S))
  <2> HIDE DEF B
  <2> QED BY <1>1, <1>2, WFMin
<1>4. PICK a \in T : TRUE
  OBVIOUS
<1>5. T \ {a} \in SUBSET S /\ T \ {a} \notin B
  <2>1. <<T \ {a}, T>> \in StrictSubsetOrdering(S)
    BY <1>4 DEF StrictSubsetOrdering
  <2> QED
    BY <1>3, <2>1
<1>6. T # {a}
  OBVIOUS
<1>7. PICK b \in T \ {a} : \A y \in T \ {a} : f[y] <= f[b]
  BY <1>4, <1>5, <1>6
<1> QED
  BY <1>3, <1>4, <1>7

(* Whoever waits in a circle of transactions, waits in one of the ways that *)
(* CirclesAreKnown lists, however many transactions there are.              *)
THEOREM CirclesAreKnownHolds == RowSpec => []CirclesAreKnown
<1>1. ASSUME RowInv, NEW C \in SUBSET Transactions, Circle(C), Unknown(C) PROVE FALSE
  <2> DEFINE f == [t \in C |-> Level(Wanted(t))]
  <2>1. IsFiniteSet(C) /\ C # {}
    BY <1>1, RowAssumption, FS_Subset DEF Circle
  <2>2. \A t \in C : \E s \in C : Blocks(s, t)
    BY <1>1 DEF Unknown
  <2>3. \A s, t \in C : Blocks(s, t) => f[s] \in Nat /\ f[t] \in Nat /\ f[t] < f[s]
    BY <1>1, WaitsHigher
  <2>4. f \in [C -> Nat]
    BY <2>2, <2>3
  <2> HIDE DEF f
  <2>5. PICK t \in C : \A s \in C : f[s] <= f[t]
    BY <2>1, <2>4, HasTop
  <2> QED
    BY <2>2, <2>3, <2>5
<1>2. RowInv => CirclesAreKnown
  BY <1>1 DEF CirclesAreKnown, Circle, Unknown
<1> QED
  BY <1>2, RowInvariant, PTL
=============================================================================
