-------------------------- MODULE ValueLedgerProofs --------------------------
(***************************************************************************)
(* Proofs about ValueLedger, for any people, deals, amounts, fees, funding *)
(* bound and policies.  The types are inductive only together with         *)
(* EscrowBacksLock: nothing but that equation says that an escrow account  *)
(* never pays more than it holds.  That the books balance is a sum over    *)
(* people and deals: the first lemmas say how such a sum moves when one or *)
(* two of its summands do.  With them also: what the platform earns, and   *)
(* what can make a person poorer.                                          *)
(***************************************************************************)
EXTENDS ValueLedger, FiniteSetTheorems, WellFoundedInduction, TLAPS

(* Every subset of a finite set is in C once C holds each subset all of    *)
(* whose proper subsets it holds.                                          *)
LEMMA SubsetInduction ==
  ASSUME NEW S, IsFiniteSet(S), NEW C,
         \A T \in SUBSET S : (\A U \in SUBSET T : U # T => U \in C) => T \in C
  PROVE  SUBSET S \subseteq C
<1> DEFINE B == (SUBSET S) \ C
<1> SUFFICES ASSUME B # {} PROVE FALSE
  OBVIOUS
<1>1. B \subseteq FiniteSubsetsOf(S)
  BY FS_FiniteSubsetsOfFinite
<1>2. IsWellFoundedOn(StrictSubsetOrdering(S), FiniteSubsetsOf(S))
  BY FS_StrictSubsetOrderingWellFounded
<1>3. PICK T \in B : \A U \in B : ~(<<U, T>> \in StrictSubsetOrdering(S))
  <2> HIDE DEF B
  <2> QED BY <1>1, <1>2, WFMin
<1>4. ASSUME NEW U \in SUBSET T, U # T PROVE U \in C
  <2>1. <<U, T>> \in StrictSubsetOrdering(S)
    BY <1>3, <1>4 DEF StrictSubsetOrdering
  <2> QED
    BY <1>3, <1>4, <2>1
<1>5. T \in C
  BY <1>3, <1>4
<1> QED
  BY <1>3, <1>5

LEMMA NumberInduction ==
  ASSUME NEW A, 0 \in A, \A n \in Nat : n \in A => n + 1 \in A
  PROVE  Nat \subseteq A
<1> DEFINE B == Nat \ A
<1> SUFFICES ASSUME B # {} PROVE FALSE
  OBVIOUS
<1>1. PICK m \in B : \A k \in B : ~(<<k, m>> \in OpToRel(<, Nat))
  <2>1. B \subseteq Nat
    OBVIOUS
  <2> HIDE DEF B
  <2> QED BY <2>1, NatLessThanWellFounded, WFMin
<1>2. \A k \in B : ~(k < m)
  <2> HIDE DEF B
  <2>1. B \subseteq Nat
    BY DEF B
  <2> QED BY <1>1, <2>1 DEF OpToRel
<1>3. m # 0 /\ m - 1 \in Nat /\ m = (m - 1) + 1
  OBVIOUS
<1>4. m - 1 \in A
  BY <1>2, <1>3
<1> QED
  BY <1>3, <1>4

-----------------------------------------------------------------------------
(* The recursive function by which the community modules define the sum of *)
(* f over a set: take one member, add what is left.                        *)
Picked(s) == CHOOSE y \in s : TRUE
Step(f, s, g) == IF s = {} THEN 0 ELSE f[Picked(s)] + g[s \ {Picked(s)}]
Steps(f, S, g) == [s \in SUBSET S |-> Step(f, s, g)]
Table(f, S) == CHOOSE g : g = Steps(f, S, g)

LEMMA SumIsTable ==
  ASSUME NEW f, NEW S PROVE SumFunctionOnSet(f, S) = Table(f, S)[S]
  BY DEF SumFunctionOnSet, FoldFunctionOnSet, MapThenFoldSet, Table, Steps, Step, Picked

LEMMA TableExists ==
  ASSUME NEW S, IsFiniteSet(S), NEW f, \A x \in S : f[x] \in Int
  PROVE  \E g \in [SUBSET S -> Int] : g = Steps(f, S, g)
<1> DEFINE Upto(n, g) == \A s \in SUBSET S : Cardinality(s) <= n => g[s] = Step(f, s, g)
           A == {n \in Nat : \E g \in [SUBSET S -> Int] : Upto(n, g)}
<1>0. \A s \in SUBSET S : /\ IsFiniteSet(s)
                          /\ Cardinality(s) \in Nat
                          /\ Cardinality(s) <= Cardinality(S)
                          /\ Cardinality(s) = 0 <=> s = {}
  BY FS_Subset, FS_CardinalityType, FS_EmptySet
<1>1. \A s \in SUBSET S : s # {} => /\ Picked(s) \in s
                                    /\ s \ {Picked(s)} \in SUBSET S
                                    /\ Cardinality(s \ {Picked(s)}) = Cardinality(s) - 1
  BY <1>0, FS_RemoveElement DEF Picked
<1>2. 0 \in A
  <2> DEFINE g == [s \in SUBSET S |-> 0]
  <2>1. g \in [SUBSET S -> Int] /\ Upto(0, g)
    BY <1>0 DEF Step
  <2> QED
    BY <2>1
<1>3. ASSUME NEW n \in Nat, n \in A PROVE n + 1 \in A
  <2>1. PICK g \in [SUBSET S -> Int] : Upto(n, g)
    BY <1>3
  <2> DEFINE h == [s \in SUBSET S |-> IF Cardinality(s) <= n THEN g[s] ELSE Step(f, s, g)]
  <2>2. ASSUME NEW s \in SUBSET S PROVE Step(f, s, g) \in Int
    <3>1. s # {} => f[Picked(s)] \in Int /\ g[s \ {Picked(s)}] \in Int
      BY <1>1
    <3> QED
      BY <3>1 DEF Step
  <2>3. h \in [SUBSET S -> Int]
    BY <2>2
  <2>4. ASSUME NEW s \in SUBSET S, Cardinality(s) <= n + 1 PROVE h[s] = Step(f, s, h)
    <3>1. s # {} => h[s \ {Picked(s)}] = g[s \ {Picked(s)}]
      BY <1>0, <1>1, <2>4
    <3>2. Step(f, s, h) = Step(f, s, g)
      BY <3>1 DEF Step
    <3> QED
      BY <2>1, <3>2
  <2>5. Upto(n + 1, h)
    BY <2>4
  <2> HIDE DEF h, Upto
  <2> QED
    BY <2>3, <2>5
<1>4. Cardinality(S) \in A
  <2> HIDE DEF A
  <2>1. Nat \subseteq A
    BY <1>2, <1>3, NumberInduction
  <2> QED
    BY <2>1, <1>0
<1>5. PICK g \in [SUBSET S -> Int] : Upto(Cardinality(S), g)
  BY <1>4
<1>6. \A s \in SUBSET S : g[s] = Step(f, s, g)
  BY <1>0, <1>5
<1>7. g = Steps(f, S, g)
  BY <1>6 DEF Steps
<1> QED
  BY <1>7

LEMMA TableRow ==
  ASSUME NEW S, IsFiniteSet(S), NEW f, \A x \in S : f[x] \in Int
  PROVE  /\ Table(f, S) \in [SUBSET S -> Int]
         /\ \A s \in SUBSET S : Table(f, S)[s] = Step(f, s, Table(f, S))
<1>1. PICK g \in [SUBSET S -> Int] : g = Steps(f, S, g)
  BY TableExists
<1>2. Table(f, S) = Steps(f, S, Table(f, S))
  BY <1>1 DEF Table
<1> DEFINE T == Table(f, S)
<1>3. \A s \in SUBSET S : T[s] = Step(f, s, T)
  <2> HIDE DEF T
  <2>1. T = Steps(f, S, T)
    BY <1>2 DEF T
  <2> QED
    BY <2>1 DEF Steps
<1>4. DOMAIN T = SUBSET S /\ T = [s \in SUBSET S |-> T[s]]
  <2> HIDE DEF T
  <2>1. T = Steps(f, S, T)
    BY <1>2 DEF T
  <2> QED
    BY <2>1 DEF Steps
<1> DEFINE C == {s \in SUBSET S : T[s] \in Int}
<1>5. ASSUME NEW s \in SUBSET S, \A u \in SUBSET s : u # s => u \in C
      PROVE  s \in C
  <2> HIDE DEF T
  <2>1. s # {} => f[Picked(s)] \in Int /\ T[s \ {Picked(s)}] \in Int
    BY <1>5 DEF Picked
  <2>2. T[s] = IF s = {} THEN 0 ELSE f[Picked(s)] + T[s \ {Picked(s)}]
    BY <1>3 DEF Step
  <2>3. T[s] \in Int
    BY <2>1, <2>2
  <2> QED
    BY <2>3
<1>6. SUBSET S \subseteq C
  <2> HIDE DEF C
  <2> QED
    BY <1>5, SubsetInduction
<1> HIDE DEF T
<1>7. T \in [SUBSET S -> Int]
  BY <1>4, <1>6
<1> QED
  BY <1>3, <1>7 DEF T

LEMMA TableRemove ==
  ASSUME NEW S, IsFiniteSet(S), NEW f, \A x \in S : f[x] \in Int
  PROVE  \A s \in SUBSET S : \A x \in s : Table(f, S)[s] = f[x] + Table(f, S)[s \ {x}]
<1> DEFINE T == Table(f, S)
           C == {s \in SUBSET S : \A x \in s : T[s] = f[x] + T[s \ {x}]}
<1>1. T \in [SUBSET S -> Int] /\ \A s \in SUBSET S : T[s] = Step(f, s, T)
  BY TableRow
<1> HIDE DEF T
<1>2. ASSUME NEW s \in SUBSET S, \A u \in SUBSET s : u # s => u \in C, NEW x \in s
      PROVE  T[s] = f[x] + T[s \ {x}]
  <2> DEFINE p == Picked(s)
  <2>1. p \in s /\ T[s] = f[p] + T[s \ {p}]
    BY <1>1 DEF Picked, Step
  <2> HIDE DEF p
  <2>2. CASE x = p
    BY <2>1, <2>2
  <2>3. CASE x # p
    <3>1. T[s \ {p}] = f[x] + T[(s \ {p}) \ {x}]
      BY <1>2, <2>1, <2>3
    <3>2. T[s \ {x}] = f[p] + T[(s \ {x}) \ {p}]
      BY <1>2, <2>1, <2>3
    <3>3. (s \ {x}) \ {p} = (s \ {p}) \ {x} /\ (s \ {p}) \ {x} \in SUBSET S
      OBVIOUS
    <3> DEFINE r == (s \ {p}) \ {x}
    <3>4. f[x] \in Int /\ f[p] \in Int /\ T[r] \in Int
      BY <1>1, <2>1, <3>3
    <3>5. T[s \ {p}] = f[x] + T[r] /\ T[s \ {x}] = f[p] + T[r]
      BY <3>1, <3>2, <3>3
    <3> HIDE DEF r
    <3> QED
      BY <2>1, <3>4, <3>5
  <2> QED
    BY <2>2, <2>3
<1>3. SUBSET S \subseteq C
  <2>1. \A s \in SUBSET S : (\A u \in SUBSET s : u # s => u \in C) => s \in C
    BY <1>2
  <2> HIDE DEF C
  <2> QED
    BY <2>1, SubsetInduction
<1> QED
  BY <1>3 DEF T

LEMMA TableAgree ==
  ASSUME NEW S, IsFiniteSet(S), NEW f, \A x \in S : f[x] \in Int,
         NEW R, IsFiniteSet(R), NEW g, \A x \in R : g[x] \in Int,
         NEW U, U \subseteq S, U \subseteq R, \A x \in U : f[x] = g[x]
  PROVE  Table(f, S)[U] = Table(g, R)[U]
<1> DEFINE C == {s \in SUBSET U : Table(f, S)[s] = Table(g, R)[s]}
<1>1. ASSUME NEW s \in SUBSET U, \A u \in SUBSET s : u # s => u \in C
      PROVE  s \in C
  <2>1. Table(f, S)[s] = Step(f, s, Table(f, S)) /\ Table(g, R)[s] = Step(g, s, Table(g, R))
    BY TableRow
  <2>2. s # {} => /\ f[Picked(s)] = g[Picked(s)]
                  /\ Table(f, S)[s \ {Picked(s)}] = Table(g, R)[s \ {Picked(s)}]
    BY <1>1 DEF Picked
  <2> QED
    BY <2>1, <2>2 DEF Step
<1>2. IsFiniteSet(U)
  BY FS_Subset
<1>3. SUBSET U \subseteq C
  <2> HIDE DEF C
  <2> QED
    BY <1>1, <1>2, SubsetInduction
<1> QED
  BY <1>3

-----------------------------------------------------------------------------
LEMMA SumType ==
  ASSUME NEW S, IsFiniteSet(S), NEW f, \A x \in S : f[x] \in Int
  PROVE  SumFunctionOnSet(f, S) \in Int
  BY SumIsTable, TableRow

LEMMA SumEmpty ==
  ASSUME NEW f PROVE SumFunctionOnSet(f, {}) = 0
  BY SumIsTable, TableRow, FS_EmptySet DEF Step

LEMMA SumSame ==
  ASSUME NEW S, IsFiniteSet(S), NEW f, NEW g, \A x \in S : f[x] \in Int /\ f[x] = g[x]
  PROVE  SumFunctionOnSet(f, S) = SumFunctionOnSet(g, S)
  BY SumIsTable, TableAgree

LEMMA SumRemove ==
  ASSUME NEW S, IsFiniteSet(S), NEW f, \A x \in S : f[x] \in Int, NEW x \in S
  PROVE  SumFunctionOnSet(f, S) = f[x] + SumFunctionOnSet(f, S \ {x})
<1>1. IsFiniteSet(S \ {x})
  BY FS_RemoveElement
<1>2. Table(f, S)[S \ {x}] = Table(f, S \ {x})[S \ {x}]
  BY <1>1, TableAgree
<1>3. Table(f, S)[S] = f[x] + Table(f, S)[S \ {x}]
  BY TableRemove
<1> QED
  BY <1>2, <1>3, SumIsTable

(* One entry changes, and the sum by as much.                              *)
LEMMA SumUpdate ==
  ASSUME NEW S, IsFiniteSet(S), NEW f, NEW g, NEW x \in S,
         \A y \in S : f[y] \in Int /\ g[y] \in Int,
         \A y \in S \ {x} : g[y] = f[y]
  PROVE  SumFunctionOnSet(g, S) = SumFunctionOnSet(f, S) + g[x] - f[x]
<1>1. IsFiniteSet(S \ {x})
  BY FS_RemoveElement
<1>2. SumFunctionOnSet(g, S \ {x}) = SumFunctionOnSet(f, S \ {x})
  BY <1>1, SumSame
<1>3. SumFunctionOnSet(f, S \ {x}) \in Int
  BY <1>1, SumType
<1>4. SumFunctionOnSet(f, S) = f[x] + SumFunctionOnSet(f, S \ {x})
  BY SumRemove
<1>5. SumFunctionOnSet(g, S) = g[x] + SumFunctionOnSet(f, S \ {x})
  BY <1>2, SumRemove
<1> QED
  BY <1>3, <1>4, <1>5

LEMMA SumAdd ==
  ASSUME NEW S, IsFiniteSet(S), NEW f, NEW x, x \notin S, \A y \in S \cup {x} : f[y] \in Int
  PROVE  SumFunctionOnSet(f, S \cup {x}) = f[x] + SumFunctionOnSet(f, S)
<1>1. IsFiniteSet(S \cup {x}) /\ (S \cup {x}) \ {x} = S
  BY FS_AddElement
<1> QED
  BY <1>1, SumRemove

LEMMA SumZero ==
  ASSUME NEW S, IsFiniteSet(S), NEW f, \A x \in S : f[x] = 0
  PROVE  SumFunctionOnSet(f, S) = 0
<1> DEFINE C == {s \in SUBSET S : SumFunctionOnSet(f, s) = 0}
<1>1. ASSUME NEW s \in SUBSET S, \A u \in SUBSET s : u # s => u \in C
      PROVE  s \in C
  <2>1. CASE s = {}
    BY <2>1, SumEmpty
  <2>2. CASE s # {}
    <3>1. PICK x \in s : TRUE
      BY <2>2
    <3>2. SumFunctionOnSet(f, s \ {x}) = 0
      BY <1>1, <3>1
    <3>3. IsFiniteSet(s)
      BY FS_Subset
    <3> QED
      BY <3>2, <3>3, SumRemove
  <2> QED
    BY <2>1, <2>2
<1>2. SUBSET S \subseteq C
  <2> HIDE DEF C
  <2> QED
    BY <1>1, SubsetInduction
<1> QED
  BY <1>2

-----------------------------------------------------------------------------
LedgerInv == LedgerTypeOK /\ EscrowBacksLock

LEMMA LedgerInitInv == LedgerInit => LedgerInv
  BY LedgerAssumption DEF LedgerInit, LedgerInv, LedgerTypeOK, EscrowBacksLock,
     LockedAmount, LockRows, LockStates, NoLock

(* A switch or hold flipped leaves every account alone.                    *)
LEMMA ControlStepInv == LedgerInv /\ ControlNext => LedgerInv'
<1> SUFFICES ASSUME LedgerInv, ControlNext PROVE LedgerInv'
  OBVIOUS
<1> USE DEF LedgerInv, LedgerTypeOK, EscrowBacksLock, LockedAmount, accountVars
<1>1. ASSUME NEW s \in Scopes, Pause(s) \/ Resume(s) PROVE LedgerInv'
  BY <1>1 DEF Pause, Resume
<1>2. ASSUME NEW p \in Points, NEW s \in Subjects(p), PlaceHold(s, p) PROVE LedgerInv'
  BY <1>2 DEF PlaceHold, Subjects
<1>3. ASSUME NEW h \in holds, ReleaseHold(h) PROVE LedgerInv'
  BY <1>3 DEF ReleaseHold
<1> QED
  BY <1>1, <1>2, <1>3 DEF ControlNext

LEMMA FundInv ==
  ASSUME NEW u \in Users, NEW a \in Amounts, LedgerInv, FundSandboxBalance(u, a)
  PROVE  LedgerInv'
  BY LedgerAssumption DEF LedgerInv, LedgerTypeOK, EscrowBacksLock, LockedAmount,
     FundSandboxBalance, controlVars

LEMMA LockInv ==
  ASSUME NEW d \in Deals, NEW u \in Users, NEW a \in Nat \ {0}, LedgerInv, LockDealValue(d, u, a)
  PROVE  LedgerInv'
<1> USE DEF LedgerInv, LedgerTypeOK
<1>1. lock' \in [Deals -> LockRows]
  BY DEF LockDealValue, LockRows, LockStates
<1>2. balance' \in [Users -> Nat] /\ escrow' \in [Deals -> Nat]
  BY DEF LockDealValue
<1>3. \A e \in Deals : lock'[e].state # "NONE" => lock'[e].owner \in Users
  BY DEF LockDealValue
<1>4. EscrowBacksLock'
  <2>1. escrow'[d] = a + deposit'[d] /\ lock'[d].state = "LOCKED" /\ lock'[d].amount = a
    BY DEF LockDealValue, EscrowBacksLock, LockedAmount
  <2>2. \A e \in Deals \ {d} : escrow'[e] = escrow[e] /\ lock'[e] = lock[e] /\ deposit'[e] = deposit[e]
    BY DEF LockDealValue
  <2> QED
    BY <2>1, <2>2 DEF EscrowBacksLock, LockedAmount
<1> QED
  BY <1>1, <1>2, <1>3, <1>4 DEF LockDealValue, controlVars

LEMMA SettleInv ==
  ASSUME NEW d \in Deals, NEW b \in Users, NEW s \in Settlements, NEW p \in Points,
         NEW fee \in Nat, LedgerInv, SettleLock(d, b, s, p, fee)
  PROVE  LedgerInv'
<1> USE DEF LedgerInv, LedgerTypeOK
<1>1. lock[d] \in LockRows /\ lock[d].state = "LOCKED" /\ lock[d].amount \in Nat
  BY DEF SettleLock, LockRows
<1>2. escrow[d] = lock[d].amount + deposit[d]
  BY <1>1 DEF EscrowBacksLock, LockedAmount
<1>3. lock' \in [Deals -> LockRows]
  BY <1>1 DEF SettleLock, LockRows, LockStates, Settlements
<1>4. escrow' \in [Deals -> Nat]
  BY <1>1, <1>2 DEF SettleLock
<1>5. balance' \in [Users -> Nat]
  <2>1. balance[b] + lock[d].amount - fee \in Nat
    BY <1>1 DEF SettleLock
  <2> QED
    BY <2>1 DEF SettleLock
<1>6. \A e \in Deals : lock'[e].state # "NONE" => lock'[e].owner \in Users
  BY <1>1 DEF SettleLock
<1>7. EscrowBacksLock'
  <2>1. escrow'[d] = deposit'[d] /\ lock'[d].state # "LOCKED"
    BY <1>1, <1>2 DEF SettleLock, Settlements
  <2>2. \A e \in Deals \ {d} : escrow'[e] = escrow[e] /\ lock'[e] = lock[e] /\ deposit'[e] = deposit[e]
    BY DEF SettleLock
  <2>3. deposit'[d] \in Nat
    BY DEF SettleLock
  <2> QED
    BY <2>1, <2>2, <2>3 DEF EscrowBacksLock, LockedAmount
<1>8. revenue' \in Nat
  BY DEF SettleLock
<1> QED
  BY <1>3, <1>4, <1>5, <1>6, <1>7, <1>8 DEF SettleLock, controlVars

LEMMA ReverseLockInv ==
  ASSUME NEW d \in Deals, LedgerInv, ReverseLock(d)
  PROVE  LedgerInv'
<1> USE DEF LedgerInv, LedgerTypeOK
<1>1. lock[d] \in LockRows /\ lock[d].state = "LOCKED" /\ lock[d].amount \in Nat
      /\ lock[d].owner \in Users
  BY DEF ReverseLock, LockRows
<1>2. escrow[d] = lock[d].amount + deposit[d]
  BY <1>1 DEF EscrowBacksLock, LockedAmount
<1>3. lock' \in [Deals -> LockRows]
  BY <1>1 DEF ReverseLock, LockRows, LockStates
<1>4. escrow' \in [Deals -> Nat] /\ balance' \in [Users -> Nat]
  BY <1>1, <1>2 DEF ReverseLock
<1>5. \A e \in Deals : lock'[e].state # "NONE" => lock'[e].owner \in Users
  BY <1>1 DEF ReverseLock
<1>6. EscrowBacksLock'
  <2>1. escrow'[d] = deposit'[d] /\ lock'[d].state # "LOCKED"
    BY <1>1, <1>2 DEF ReverseLock
  <2>2. \A e \in Deals \ {d} : escrow'[e] = escrow[e] /\ lock'[e] = lock[e] /\ deposit'[e] = deposit[e]
    BY DEF ReverseLock
  <2>3. deposit'[d] \in Nat
    BY DEF ReverseLock
  <2> QED
    BY <2>1, <2>2, <2>3 DEF EscrowBacksLock, LockedAmount
<1> QED
  BY <1>3, <1>4, <1>5, <1>6 DEF ReverseLock, controlVars

LEMMA DepositInv ==
  ASSUME NEW d \in Deals, NEW a \in Nat \ {0}, LedgerInv,
         PostConfirmedValue(d, a) \/ ReverseDeposit(d, a)
  PROVE  LedgerInv'
<1> USE DEF LedgerInv, LedgerTypeOK, controlVars
<1>1. CASE PostConfirmedValue(d, a)
  BY <1>1 DEF PostConfirmedValue, EscrowBacksLock, LockedAmount, LockRows
<1>2. CASE ReverseDeposit(d, a)
  <2>1. LockedAmount(d) \in Nat /\ escrow[d] = LockedAmount(d) + deposit[d]
    BY DEF EscrowBacksLock, LockedAmount, LockRows
  <2>2. escrow' \in [Deals -> Nat] /\ deposit' \in [Deals -> Nat] /\ wallet' \in Int
    BY <1>2, <2>1 DEF ReverseDeposit
  <2>3. EscrowBacksLock'
    BY <1>2, <2>1 DEF ReverseDeposit, EscrowBacksLock, LockedAmount
  <2> QED
    BY <1>2, <2>2, <2>3 DEF ReverseDeposit
<1> QED
  BY <1>1, <1>2

LEMMA LedgerNextInv == LedgerInv /\ [LedgerNext]_ledgerVars => LedgerInv'
<1> SUFFICES ASSUME LedgerInv, [LedgerNext]_ledgerVars PROVE LedgerInv'
  OBVIOUS
<1>1. CASE ControlNext
  BY <1>1, ControlStepInv
<1>2. ASSUME NEW u \in Users, NEW a \in Amounts, FundSandboxBalance(u, a) PROVE LedgerInv'
  BY <1>2, FundInv
<1>3. ASSUME NEW d \in Deals, NEW u \in Users, NEW a \in Amounts, LockDealValue(d, u, a)
      PROVE  LedgerInv'
  BY <1>3, LockInv, LedgerAssumption
<1>4. ASSUME NEW d \in Deals, NEW b \in Users, ReleaseDealValue(d, b) \/ RefundDealValue(d, b)
      PROVE  LedgerInv'
  BY <1>4, SettleInv, LedgerAssumption
     DEF ReleaseDealValue, CollectedFee, RefundDealValue, Settlements, Points
<1>5. ASSUME NEW d \in Deals, ReverseLock(d) PROVE LedgerInv'
  BY <1>5, ReverseLockInv
<1>6. ASSUME NEW d \in Deals, NEW a \in Amounts,
             PostConfirmedValue(d, a) \/ ReverseDeposit(d, a)
      PROVE  LedgerInv'
  BY <1>6, DepositInv, LedgerAssumption
<1>7. CASE UNCHANGED ledgerVars
  BY <1>7 DEF LedgerInv, LedgerTypeOK, EscrowBacksLock, LockedAmount, ledgerVars
<1> QED
  BY <1>1, <1>2, <1>3, <1>4, <1>5, <1>6, <1>7 DEF LedgerNext, ValueNext

(* Every reachable ledger is well typed and every escrow account holds     *)
(* exactly its live lock and its deposits.                                 *)
THEOREM LedgerSafety == LedgerSpec => [](LedgerTypeOK /\ EscrowBacksLock)
<1>1. LedgerSpec => []LedgerInv
  BY LedgerInitInv, LedgerNextInv, PTL DEF LedgerSpec
<1> QED
  BY <1>1, PTL DEF LedgerInv
-----------------------------------------------------------------------------
(* Conservation.  Each account is one entry of a finite sum.               *)
LEMMA AccountMoved ==
  ASSUME NEW S, IsFiniteSet(S), NEW f \in [S -> Int], NEW g \in [S -> Int], NEW x \in S,
         \A y \in S \ {x} : g[y] = f[y]
  PROVE  SumFunction(g) = SumFunction(f) + g[x] - f[x]
<1>1. DOMAIN f = S /\ DOMAIN g = S
  OBVIOUS
<1> QED
  BY <1>1, SumUpdate DEF SumFunction

LEMMA AccountsType ==
  ASSUME NEW S, IsFiniteSet(S), NEW f \in [S -> Int]
  PROVE  SumFunction(f) \in Int
  BY SumType DEF SumFunction

LEMMA AccountsZero ==
  ASSUME NEW S, IsFiniteSet(S), NEW f, f = [x \in S |-> 0]
  PROVE  SumFunction(f) = 0
  BY SumZero DEF SumFunction

LEMMA InitConserves == LedgerInit => Conservation
<1> SUFFICES ASSUME LedgerInit PROVE Conservation
  OBVIOUS
<1>1. SumFunction(balance) = 0
  BY RowsAreFinite, AccountsZero DEF LedgerInit
<1>2. SumFunction(escrow) = 0
  BY RowsAreFinite, AccountsZero DEF LedgerInit
<1> QED
  BY <1>1, <1>2 DEF LedgerInit, Conservation

(* The total of the balances, or of the escrows, moves with the one account*)
(* a step touches.                                                         *)
LEMMA BalanceMoved ==
  ASSUME LedgerInv, LedgerTypeOK', NEW u \in Users,
         \A v \in Users \ {u} : balance'[v] = balance[v]
  PROVE  SumFunction(balance') = SumFunction(balance) + balance'[u] - balance[u]
<1>1. balance \in [Users -> Int] /\ balance' \in [Users -> Int]
  BY DEF LedgerInv, LedgerTypeOK
<1> QED
  BY <1>1, RowsAreFinite, AccountMoved

LEMMA EscrowMoved ==
  ASSUME LedgerInv, LedgerTypeOK', NEW d \in Deals,
         \A e \in Deals \ {d} : escrow'[e] = escrow[e]
  PROVE  SumFunction(escrow') = SumFunction(escrow) + escrow'[d] - escrow[d]
<1>1. escrow \in [Deals -> Int] /\ escrow' \in [Deals -> Int]
  BY DEF LedgerInv, LedgerTypeOK
<1> QED
  BY <1>1, RowsAreFinite, AccountMoved

LEMMA SumsAreWhole ==
  ASSUME LedgerInv
  PROVE  SumFunction(balance) \in Int /\ SumFunction(escrow) \in Int
<1>1. balance \in [Users -> Int] /\ escrow \in [Deals -> Int]
  BY DEF LedgerInv, LedgerTypeOK
<1> QED
  BY <1>1, RowsAreFinite, AccountsType

(* Both legs of an entry: what leaves one account enters another.          *)
LEMMA FundConserves ==
  ASSUME LedgerInv, LedgerTypeOK', Conservation, NEW u \in Users, NEW a \in Nat \ {0},
         FundSandboxBalance(u, a)
  PROVE  Conservation'
<1> USE DEF LedgerInv, LedgerTypeOK
<1>1. balance[u] \in Int
  OBVIOUS
<1>2. SumFunction(balance') = SumFunction(balance) + a
  <2>1. balance'[u] = balance[u] + a /\ \A v \in Users \ {u} : balance'[v] = balance[v]
    BY <1>1 DEF FundSandboxBalance
  <2>2. SumFunction(balance') = SumFunction(balance) + balance'[u] - balance[u]
    BY <1>1, <2>1, BalanceMoved
  <2> QED
    BY <1>1, <2>1, <2>2, SumsAreWhole
<1> QED
  BY <1>1, <1>2, SumsAreWhole DEF FundSandboxBalance, Conservation

LEMMA LockConserves ==
  ASSUME LedgerInv, LedgerTypeOK', Conservation, NEW d \in Deals, NEW u \in Users, NEW a \in Nat \ {0},
         LockDealValue(d, u, a)
  PROVE  Conservation'
<1> USE DEF LedgerInv, LedgerTypeOK
<1>1. balance[u] \in Int /\ escrow[d] \in Int
  OBVIOUS
<1>2. SumFunction(balance') = SumFunction(balance) - a
  <2>1. balance'[u] = balance[u] - a /\ \A v \in Users \ {u} : balance'[v] = balance[v]
    BY <1>1 DEF LockDealValue
  <2>2. SumFunction(balance') = SumFunction(balance) + balance'[u] - balance[u]
    BY <1>1, <2>1, BalanceMoved
  <2> QED
    BY <1>1, <2>1, <2>2, SumsAreWhole
<1>3. SumFunction(escrow') = SumFunction(escrow) + a
  <2>1. escrow'[d] = escrow[d] + a /\ \A e \in Deals \ {d} : escrow'[e] = escrow[e]
    BY <1>1 DEF LockDealValue
  <2>2. SumFunction(escrow') = SumFunction(escrow) + escrow'[d] - escrow[d]
    BY <1>1, <2>1, EscrowMoved
  <2> QED
    BY <1>1, <2>1, <2>2, SumsAreWhole
<1> QED
  BY <1>1, <1>2, <1>3, SumsAreWhole DEF LockDealValue, Conservation

LEMMA SettleConserves ==
  ASSUME LedgerInv, LedgerTypeOK', Conservation, NEW d \in Deals, NEW b \in Users, NEW s, NEW p, NEW fee \in Nat,
         SettleLock(d, b, s, p, fee)
  PROVE  Conservation'
<1> USE DEF LedgerInv, LedgerTypeOK
<1> DEFINE a == lock[d].amount
<1>1. balance[b] \in Int /\ escrow[d] \in Int /\ a \in Int
  BY DEF LockRows
<1>2. SumFunction(balance') = SumFunction(balance) + a - fee
  <2>1. balance'[b] = balance[b] + a - fee /\ \A v \in Users \ {b} : balance'[v] = balance[v]
    BY <1>1 DEF SettleLock
  <2>2. SumFunction(balance') = SumFunction(balance) + balance'[b] - balance[b]
    BY <1>1, <2>1, BalanceMoved
  <2> QED
    BY <1>1, <2>1, <2>2, SumsAreWhole
<1>3. SumFunction(escrow') = SumFunction(escrow) - a
  <2>1. escrow'[d] = escrow[d] - a /\ \A e \in Deals \ {d} : escrow'[e] = escrow[e]
    BY <1>1 DEF SettleLock
  <2>2. SumFunction(escrow') = SumFunction(escrow) + escrow'[d] - escrow[d]
    BY <1>1, <2>1, EscrowMoved
  <2> QED
    BY <1>1, <2>1, <2>2, SumsAreWhole
<1>4. revenue' = revenue + fee /\ funded' = funded /\ wallet' = wallet
  BY DEF SettleLock
<1> HIDE DEF a
<1> QED
  BY <1>1, <1>4, <1>2, <1>3, SumsAreWhole DEF Conservation

LEMMA ReverseLockConserves ==
  ASSUME LedgerInv, LedgerTypeOK', Conservation, NEW d \in Deals,
         ReverseLock(d)
  PROVE  Conservation'
<1> USE DEF LedgerInv, LedgerTypeOK
<1> DEFINE a == lock[d].amount
           u == lock[d].owner
<1>1. u \in Users /\ balance[u] \in Int /\ escrow[d] \in Int /\ a \in Int
  BY DEF LockRows, ReverseLock
<1>2. SumFunction(balance') = SumFunction(balance) + a
  <2>1. balance'[u] = balance[u] + a /\ \A v \in Users \ {u} : balance'[v] = balance[v]
    BY <1>1 DEF ReverseLock
  <2>2. SumFunction(balance') = SumFunction(balance) + balance'[u] - balance[u]
    BY <1>1, <2>1, BalanceMoved
  <2> QED
    BY <1>1, <2>1, <2>2, SumsAreWhole
<1>3. SumFunction(escrow') = SumFunction(escrow) - a
  <2>1. escrow'[d] = escrow[d] - a /\ \A e \in Deals \ {d} : escrow'[e] = escrow[e]
    BY <1>1 DEF ReverseLock
  <2>2. SumFunction(escrow') = SumFunction(escrow) + escrow'[d] - escrow[d]
    BY <1>1, <2>1, EscrowMoved
  <2> QED
    BY <1>1, <2>1, <2>2, SumsAreWhole
<1>4. revenue' = revenue /\ funded' = funded /\ wallet' = wallet
  BY DEF ReverseLock
<1> HIDE DEF a
<1> QED
  BY <1>1, <1>4, <1>2, <1>3, SumsAreWhole DEF Conservation

LEMMA PostConfirmedConserves ==
  ASSUME LedgerInv, LedgerTypeOK', Conservation, NEW d \in Deals, NEW a \in Nat \ {0},
         PostConfirmedValue(d, a)
  PROVE  Conservation'
<1> USE DEF LedgerInv, LedgerTypeOK
<1>1. escrow[d] \in Int
  OBVIOUS
<1>2. SumFunction(escrow') = SumFunction(escrow) + a
  <2>1. escrow'[d] = escrow[d] + a /\ \A e \in Deals \ {d} : escrow'[e] = escrow[e]
    BY <1>1 DEF PostConfirmedValue
  <2>2. SumFunction(escrow') = SumFunction(escrow) + escrow'[d] - escrow[d]
    BY <1>1, <2>1, EscrowMoved
  <2> QED
    BY <1>1, <2>1, <2>2, SumsAreWhole
<1> QED
  BY <1>1, <1>2, SumsAreWhole DEF PostConfirmedValue, Conservation

LEMMA ReverseDepositConserves ==
  ASSUME LedgerInv, LedgerTypeOK', Conservation, NEW d \in Deals, NEW a \in Nat \ {0},
         ReverseDeposit(d, a)
  PROVE  Conservation'
<1> USE DEF LedgerInv, LedgerTypeOK
<1>1. escrow[d] \in Int
  OBVIOUS
<1>2. SumFunction(escrow') = SumFunction(escrow) - a
  <2>1. escrow'[d] = escrow[d] - a /\ \A e \in Deals \ {d} : escrow'[e] = escrow[e]
    BY <1>1 DEF ReverseDeposit
  <2>2. SumFunction(escrow') = SumFunction(escrow) + escrow'[d] - escrow[d]
    BY <1>1, <2>1, EscrowMoved
  <2> QED
    BY <1>1, <2>1, <2>2, SumsAreWhole
<1> QED
  BY <1>1, <1>2, SumsAreWhole DEF ReverseDeposit, Conservation

LEMMA NextConserves ==
  ASSUME LedgerInv, LedgerInv', Conservation, [LedgerNext]_ledgerVars
  PROVE  Conservation'
<1> USE DEF LedgerInv
<1>1. CASE ControlNext
  BY <1>1 DEF ControlNext, Pause, Resume, PlaceHold, ReleaseHold, accountVars, Conservation
<1>2. ASSUME NEW u \in Users, NEW a \in Amounts, FundSandboxBalance(u, a) PROVE Conservation'
  BY <1>2, FundConserves, LedgerAssumption
<1>3. ASSUME NEW d \in Deals, NEW u \in Users, NEW a \in Amounts, LockDealValue(d, u, a)
      PROVE  Conservation'
  BY <1>3, LockConserves, LedgerAssumption
<1>4. ASSUME NEW d \in Deals, NEW b \in Users, ReleaseDealValue(d, b) \/ RefundDealValue(d, b)
      PROVE  Conservation'
  BY <1>4, SettleConserves, LedgerAssumption
     DEF ReleaseDealValue, CollectedFee, RefundDealValue
<1>5. ASSUME NEW d \in Deals, ReverseLock(d) PROVE Conservation'
  BY <1>5, ReverseLockConserves
<1>6. ASSUME NEW d \in Deals, NEW a \in Amounts,
             PostConfirmedValue(d, a) \/ ReverseDeposit(d, a)
      PROVE  Conservation'
  BY <1>6, PostConfirmedConserves, ReverseDepositConserves, LedgerAssumption
<1>7. CASE UNCHANGED ledgerVars
  BY <1>7 DEF Conservation, ledgerVars
<1> QED
  BY <1>1, <1>2, <1>3, <1>4, <1>5, <1>6, <1>7 DEF LedgerNext, ValueNext

(* No sequence of fundings, locks, settlements, fees, reversals and        *)
(* deposits makes or loses value: the accounts always add up to what came  *)
(* in from outside.                                                        *)
THEOREM ConservationHolds == LedgerSpec => []Conservation
<1>1. LedgerSpec => []LedgerInv
  BY LedgerInitInv, LedgerNextInv, PTL DEF LedgerSpec
<1>2. LedgerInv /\ LedgerInv' /\ Conservation /\ [LedgerNext]_ledgerVars => Conservation'
  BY NextConserves
<1> QED
  BY <1>1, <1>2, InitConserves, PTL DEF LedgerSpec

-----------------------------------------------------------------------------
(* What one step may do to the row, the escrow and the deposit of deal e:  *)
(* the four things the code can do to a lock, or none.                     *)
Untouched(e) == lock'[e] = lock[e] /\ escrow'[e] - deposit'[e] = escrow[e] - deposit[e]

Taken(e) ==
    \E u \in Users, a \in Amounts :
        /\ lock[e].state = "NONE"
        /\ lock'[e] = [state |-> "LOCKED", owner |-> u, amount |-> a, beneficiary |-> NoUser]
        /\ escrow'[e] - deposit'[e] = escrow[e] - deposit[e] + a

Ended(e) ==
    \E b \in Users :
        /\ lock[e].state = "LOCKED"
        /\ \/ /\ lock'[e].state \in Settlements
              /\ lock'[e].beneficiary = b
           \/ /\ lock'[e].state = "REVERSED"
              /\ lock'[e].owner = b
        /\ lock'[e].owner = lock[e].owner
        /\ lock'[e].amount = lock[e].amount
        /\ escrow'[e] - deposit'[e] = escrow[e] - deposit[e] - lock[e].amount

OneLockMoves ==
    \/ \A e \in Deals : Untouched(e)
    \/ \E d \in Deals : (Taken(d) \/ Ended(d)) /\ \A e \in Deals \ {d} : Untouched(e)

(* A step of the ledger takes or ends the lock of at most one deal.        *)
LEMMA StepMovesOneLock == LedgerInv /\ LedgerNext => OneLockMoves
<1> SUFFICES ASSUME LedgerInv, LedgerNext PROVE OneLockMoves
  OBVIOUS
<1> USE DEF LedgerInv, LedgerTypeOK
<1>1. CASE ControlNext
  BY <1>1 DEF ControlNext, Pause, Resume, PlaceHold, ReleaseHold, accountVars,
     OneLockMoves, Untouched
<1>2. ASSUME NEW u \in Users, NEW a \in Amounts, FundSandboxBalance(u, a) PROVE OneLockMoves
  BY <1>2 DEF FundSandboxBalance, OneLockMoves, Untouched
<1>3. ASSUME NEW d \in Deals, NEW u \in Users, NEW a \in Amounts, LockDealValue(d, u, a)
      PROVE  OneLockMoves
  <2>1. Taken(d)
    BY <1>3, LedgerAssumption DEF LockDealValue, Taken
  <2>2. \A e \in Deals \ {d} : Untouched(e)
    BY <1>3 DEF LockDealValue, Untouched
  <2> QED
    BY <2>1, <2>2 DEF OneLockMoves
<1>4. ASSUME NEW d \in Deals, NEW b \in Users, NEW s \in Settlements, NEW p \in Points,
             NEW fee \in Nat, SettleLock(d, b, s, p, fee)
      PROVE  OneLockMoves
  <2>1. Ended(d)
    BY <1>4 DEF SettleLock, Ended, LockRows
  <2>2. \A e \in Deals \ {d} : Untouched(e)
    BY <1>4 DEF SettleLock, Untouched
  <2> QED
    BY <2>1, <2>2 DEF OneLockMoves
<1>5. ASSUME NEW d \in Deals, ReverseLock(d) PROVE OneLockMoves
  <2>1. Ended(d)
    BY <1>5 DEF ReverseLock, Ended, LockRows
  <2>2. \A e \in Deals \ {d} : Untouched(e)
    BY <1>5 DEF ReverseLock, Untouched
  <2> QED
    BY <2>1, <2>2 DEF OneLockMoves
<1>6. ASSUME NEW d \in Deals, NEW a \in Amounts, PostConfirmedValue(d, a) PROVE OneLockMoves
  BY <1>6, LedgerAssumption DEF PostConfirmedValue, OneLockMoves, Untouched
<1>7. ASSUME NEW d \in Deals, NEW a \in Amounts, ReverseDeposit(d, a) PROVE OneLockMoves
  BY <1>7, LedgerAssumption DEF ReverseDeposit, OneLockMoves, Untouched
<1>8. ASSUME NEW d \in Deals, NEW b \in Users, ReleaseDealValue(d, b) \/ RefundDealValue(d, b)
      PROVE  OneLockMoves
  BY <1>8, <1>4, LedgerAssumption DEF ReleaseDealValue, CollectedFee, RefundDealValue, Settlements, Points
<1> QED
  BY <1>1, <1>2, <1>3, <1>5, <1>6, <1>7, <1>8 DEF LedgerNext, ValueNext

(* A lock ends once and keeps its owner and amount, in every behaviour.    *)
THEOREM LockEndsOnceHolds == LedgerSpec => LockEndsOnce
<1>1. ASSUME LedgerInv, LedgerNext PROVE \A d \in Deals : LockKept(d)
  BY <1>1, StepMovesOneLock DEF OneLockMoves, Untouched, Taken, Ended, Settlements, LockKept
<1>2. LedgerSpec => []LedgerInv
  BY LedgerInitInv, LedgerNextInv, PTL DEF LedgerSpec
<1>3. LedgerInv /\ [LedgerNext]_ledgerVars => [\A d \in Deals : LockKept(d)]_ledgerVars
  BY <1>1
<1> QED
  BY <1>2, <1>3, PTL DEF LedgerSpec, LockEndsOnce

(* The ledger implements the promise.  EscrowBacksLock is what makes held, *)
(* read off the escrow account, equal to the amount on the row; the step   *)
(* lemma says no step moves two deals.                                     *)
THEOREM LedgerKeepsPromise == LedgerSpec => PromiseKept
<1> DEFINE stageBar == [d \in Deals |-> StageOf(d)]
           heldBar  == [d \in Deals |-> escrow[d] - deposit[d]]
           partyBar == [d \in Deals |-> PartyOf(d)]
<1>1. LedgerInit => Promise!Init
  BY DEF LedgerInit, Promise!Init, StageOf, PartyOf, NoLock, Settlements
<1>2. ASSUME LedgerInv, LedgerNext
      PROVE  Promise!Next \/ UNCHANGED Promise!promiseVars
  <2> USE <1>2 DEF LedgerInv, LedgerTypeOK
  <2>1. \A e \in Deals : Untouched(e) =>
          StageOf(e)' = StageOf(e) /\ PartyOf(e)' = PartyOf(e) /\ heldBar'[e] = heldBar[e]
    BY DEF Untouched, StageOf, PartyOf
  <2>2. CASE \A e \in Deals : Untouched(e)
    BY <2>1, <2>2 DEF Promise!promiseVars
  <2>3. ASSUME NEW d \in Deals, Taken(d), \A e \in Deals \ {d} : Untouched(e)
        PROVE  Promise!Next
    <3>1. PICK u \in Users, a \in Amounts :
            /\ lock[d].state = "NONE"
            /\ lock'[d] = [state |-> "LOCKED", owner |-> u, amount |-> a, beneficiary |-> NoUser]
            /\ escrow'[d] - deposit'[d] = escrow[d] - deposit[d] + a
      BY <2>3 DEF Taken
    <3>2. escrow[d] - deposit[d] = 0
      BY <3>1 DEF EscrowBacksLock, LockedAmount
    <3>3. a \in Nat
      BY LedgerAssumption
    <3>4. StageOf(d) = "open" /\ StageOf(d)' = "held" /\ PartyOf(d)' = u /\ heldBar'[d] = a
      BY <3>1, <3>2, <3>3 DEF StageOf, PartyOf, Settlements
    <3>5. Promise!Take(d, u, a)
      BY <2>1, <2>3, <3>4 DEF Promise!Take
    <3> QED
      BY <3>5 DEF Promise!Next
  <2>4. ASSUME NEW d \in Deals, Ended(d), \A e \in Deals \ {d} : Untouched(e)
        PROVE  Promise!Next
    <3>1. PICK b \in Users :
            /\ lock[d].state = "LOCKED"
            /\ \/ /\ lock'[d].state \in Settlements
                  /\ lock'[d].beneficiary = b
               \/ /\ lock'[d].state = "REVERSED"
                  /\ lock'[d].owner = b
            /\ escrow'[d] - deposit'[d] = escrow[d] - deposit[d] - lock[d].amount
      BY <2>4 DEF Ended
    <3>2. escrow[d] - deposit[d] = lock[d].amount /\ lock[d].amount \in Nat
      BY <3>1 DEF EscrowBacksLock, LockedAmount, LockRows
    <3>3. StageOf(d) = "held" /\ StageOf(d)' = "ended" /\ PartyOf(d)' = b /\ heldBar'[d] = 0
      BY <3>1, <3>2 DEF StageOf, PartyOf, Settlements
    <3>4. Promise!End(d, b)
      BY <2>1, <2>4, <3>3 DEF Promise!End
    <3> QED
      BY <3>4 DEF Promise!Next
  <2> QED
    BY <2>2, <2>3, <2>4, StepMovesOneLock DEF OneLockMoves
<1>3. ASSUME UNCHANGED ledgerVars PROVE UNCHANGED Promise!promiseVars
  BY <1>3 DEF ledgerVars, Promise!promiseVars, StageOf, PartyOf
<1>4. LedgerInv /\ [LedgerNext]_ledgerVars => [Promise!Next]_(Promise!promiseVars)
  BY <1>2, <1>3
<1>5. LedgerSpec => []LedgerInv
  BY LedgerInitInv, LedgerNextInv, PTL DEF LedgerSpec
<1> QED
  BY <1>1, <1>4, <1>5, PTL DEF LedgerSpec, PromiseKept, Promise!Spec

-----------------------------------------------------------------------------
(* Who pays.                                                               *)

(* u's own value is taken into escrow, or what u is paid out of escrow     *)
(* does not cover the fee of the deal.                                     *)
PoorerBy(u, d) ==
    \/ /\ lock[d].state = "NONE"
       /\ lock'[d].state = "LOCKED" /\ lock'[d].owner = u
       /\ balance'[u] = balance[u] - lock'[d].amount
    \/ /\ lock[d].state = "LOCKED"
       /\ lock'[d].state = "RELEASED" /\ lock'[d].beneficiary = u
       /\ balance'[u] = balance[u] + lock[d].amount - Fee[d]

(* No step takes from a balance but a lock of its owner's value, or a fee  *)
(* larger than the payment it is withheld from.                            *)
PoorerOnlyByOwnDeal ==
    [][\A u \in Users : balance'[u] < balance[u] =>
          \E d \in Deals : PoorerBy(u, d)]_ledgerVars

LEMMA SettlePaysFor ==
  ASSUME LedgerInv, NEW d \in Deals, NEW b \in Users, NEW s, NEW p,
         NEW fee \in Nat, fee = 0 \/ (fee = Fee[d] /\ s = "RELEASED"),
         SettleLock(d, b, s, p, fee),
         NEW u \in Users, balance'[u] < balance[u]
  PROVE  PoorerBy(u, d)
<1>1. /\ lock[d] \in LockRows /\ lock[d].amount \in Nat /\ lock[d].state = "LOCKED"
      /\ balance \in [Users -> Nat] /\ lock \in [Deals -> LockRows]
  BY DEF LedgerInv, LedgerTypeOK, LockRows, SettleLock
<1>2. balance' = [balance EXCEPT ![b] = balance[b] + lock[d].amount - fee]
  BY DEF SettleLock
<1>3. u = b /\ balance'[u] = balance[u] + lock[d].amount - fee
  BY <1>1, <1>2
<1>4. fee = Fee[d] /\ s = "RELEASED"
  BY <1>1, <1>3
<1>5. lock'[d].state = s /\ lock'[d].beneficiary = b
  BY <1>1 DEF SettleLock, LockRows
<1> QED
  BY <1>1, <1>3, <1>4, <1>5 DEF PoorerBy

LEMMA StepMakesPoorer ==
  ASSUME LedgerInv, LedgerNext, NEW u \in Users, balance'[u] < balance[u]
  PROVE  \E d \in Deals : PoorerBy(u, d)
<1>1. /\ balance \in [Users -> Nat] /\ lock \in [Deals -> LockRows]
      /\ \A d \in Deals : lock[d].amount \in Nat
  BY DEF LedgerInv, LedgerTypeOK, LockRows
<1>2. ~ControlNext /\ balance' # balance
  BY <1>1 DEF ControlNext, Pause, Resume, PlaceHold, ReleaseHold, accountVars
<1>3. ASSUME NEW v \in Users, NEW a \in Amounts, FundSandboxBalance(v, a) PROVE FALSE
  BY <1>1, <1>3, LedgerAssumption DEF FundSandboxBalance
<1>4. ASSUME NEW d \in Deals, NEW v \in Users, NEW a \in Amounts, LockDealValue(d, v, a)
      PROVE  PoorerBy(u, d)
  BY <1>1, <1>4, LedgerAssumption DEF LockDealValue, PoorerBy
<1>5. ASSUME NEW d \in Deals, NEW b \in Users, ReleaseDealValue(d, b) \/ RefundDealValue(d, b)
      PROVE  PoorerBy(u, d)
  BY <1>5, SettlePaysFor, LedgerAssumption DEF ReleaseDealValue, RefundDealValue, CollectedFee
<1>6. ASSUME NEW d \in Deals, ReverseLock(d) PROVE FALSE
  BY <1>1, <1>6 DEF ReverseLock
<1>7. ASSUME NEW d \in Deals, NEW a \in Amounts,
             PostConfirmedValue(d, a) \/ ReverseDeposit(d, a)
      PROVE  FALSE
  BY <1>1, <1>7 DEF PostConfirmedValue, ReverseDeposit
<1> QED
  BY <1>2, <1>3, <1>4, <1>5, <1>6, <1>7 DEF LedgerNext, ValueNext

(* Nobody's balance falls but for a lock of their own value, or for a fee  *)
(* that exceeds the release it is taken from: no funding, refund, reversal *)
(* or deposit, and no deal of other people, takes anything from a third    *)
(* (lockDealValue, settleLock, collectFee).                                *)
THEOREM PoorerOnlyByOwnDealHolds == LedgerSpec => PoorerOnlyByOwnDeal
<1>1. LedgerInv /\ [LedgerNext]_ledgerVars
        => [\A u \in Users : balance'[u] < balance[u] =>
               \E d \in Deals : PoorerBy(u, d)]_ledgerVars
  BY StepMakesPoorer
<1>2. LedgerSpec => []LedgerInv
  BY LedgerInitInv, LedgerNextInv, PTL DEF LedgerSpec
<1> QED
  BY <1>1, <1>2, PTL DEF LedgerSpec, PoorerOnlyByOwnDeal

-----------------------------------------------------------------------------
(* What the platform has earned.                                           *)

FeesDue == [d \in Deals |-> IF lock[d].state = "RELEASED" THEN Fee[d] ELSE 0]

(* The revenue account never holds more than the fees of the released      *)
(* locks: none is charged twice, or for a lock refunded or reversed.       *)
RevenueIsOfReleases == revenue <= SumFunction(FeesDue)

(* A step earns on one deal at most, and no more than that deal comes to   *)
(* owe by it.                                                              *)
Earns(d) ==
    /\ \A e \in Deals \ {d} : FeesDue'[e] = FeesDue[e]
    /\ revenue' - revenue <= FeesDue'[d] - FeesDue[d]

LEMMA SettleEarns ==
  ASSUME LedgerInv, NEW d \in Deals, NEW b \in Users, NEW s \in Settlements, NEW p,
         NEW fee \in Nat, fee = 0 \/ (fee = Fee[d] /\ s = "RELEASED"),
         SettleLock(d, b, s, p, fee)
  PROVE  Earns(d)
<1>1. /\ lock \in [Deals -> LockRows] /\ lock[d].state = "LOCKED" /\ revenue \in Nat
      /\ Fee[d] \in Nat
  BY LedgerAssumption DEF LedgerInv, LedgerTypeOK, SettleLock
<1>2. lock'[d].state = s /\ \A e \in Deals \ {d} : lock'[e] = lock[e]
  BY <1>1 DEF SettleLock, LockRows
<1>3. revenue' = revenue + fee
  BY DEF SettleLock
<1>4. FeesDue[d] = 0 /\ FeesDue'[d] = IF s = "RELEASED" THEN Fee[d] ELSE 0
  BY <1>1, <1>2 DEF FeesDue
<1> QED
  BY <1>1, <1>2, <1>3, <1>4 DEF Earns, FeesDue

LEMMA StepEarns ==
  ASSUME LedgerInv, LedgerNext
  PROVE  UNCHANGED <<FeesDue, revenue>> \/ \E d \in Deals : Earns(d)
<1>1. lock \in [Deals -> LockRows] /\ revenue \in Nat
  BY DEF LedgerInv, LedgerTypeOK
<1>2. CASE ControlNext
  BY <1>2 DEF ControlNext, Pause, Resume, PlaceHold, ReleaseHold, accountVars, FeesDue
<1>3. ASSUME NEW u \in Users, NEW a \in Amounts, FundSandboxBalance(u, a)
      PROVE  UNCHANGED <<FeesDue, revenue>>
  BY <1>3 DEF FundSandboxBalance, FeesDue
<1>4. ASSUME NEW d \in Deals, NEW u \in Users, NEW a \in Amounts, LockDealValue(d, u, a)
      PROVE  Earns(d)
  BY <1>1, <1>4 DEF LockDealValue, Earns, FeesDue
<1>5. ASSUME NEW d \in Deals, NEW b \in Users, ReleaseDealValue(d, b) \/ RefundDealValue(d, b)
      PROVE  Earns(d)
  BY <1>5, SettleEarns, LedgerAssumption
     DEF ReleaseDealValue, RefundDealValue, CollectedFee, Settlements
<1>6. ASSUME NEW d \in Deals, ReverseLock(d)
      PROVE  Earns(d)
  BY <1>1, <1>6 DEF ReverseLock, Earns, FeesDue, LockRows
<1>7. ASSUME NEW d \in Deals, NEW a \in Amounts,
             PostConfirmedValue(d, a) \/ ReverseDeposit(d, a)
      PROVE  UNCHANGED <<FeesDue, revenue>>
  BY <1>7 DEF PostConfirmedValue, ReverseDeposit, FeesDue
<1> QED
  BY <1>2, <1>3, <1>4, <1>5, <1>6, <1>7 DEF LedgerNext, ValueNext

(* The fee of a deal is earned with its release and once: whatever calls   *)
(* race, refuse or reverse, the revenue stays within the fees the quotes   *)
(* of the released deals named (collectFee inside settleLock).             *)
THEOREM RevenueIsOfReleasesHolds == LedgerSpec => []RevenueIsOfReleases
<1>1. LedgerInit => RevenueIsOfReleases
  <2> SUFFICES ASSUME LedgerInit PROVE RevenueIsOfReleases
    OBVIOUS
  <2>1. FeesDue = [d \in Deals |-> 0]
    BY DEF LedgerInit, FeesDue, NoLock
  <2>2. SumFunction(FeesDue) = 0
    BY <2>1, RowsAreFinite, AccountsZero
  <2> QED
    BY <2>2 DEF LedgerInit, RevenueIsOfReleases
<1>2. LedgerInv /\ LedgerInv' /\ RevenueIsOfReleases /\ [LedgerNext]_ledgerVars
        => RevenueIsOfReleases'
  <2> SUFFICES ASSUME LedgerInv, LedgerInv', RevenueIsOfReleases, [LedgerNext]_ledgerVars
               PROVE  RevenueIsOfReleases'
    OBVIOUS
  <2>1. CASE UNCHANGED <<FeesDue, revenue>>
    BY <2>1 DEF RevenueIsOfReleases
  <2>2. ASSUME NEW d \in Deals, Earns(d)
        PROVE  RevenueIsOfReleases'
    <3>1. FeesDue \in [Deals -> Int] /\ FeesDue' \in [Deals -> Int]
      BY LedgerAssumption DEF FeesDue
    <3>2. SumFunction(FeesDue') = SumFunction(FeesDue) + FeesDue'[d] - FeesDue[d]
      <4>1. ASSUME NEW f, NEW g, f = FeesDue, g = FeesDue'
            PROVE  SumFunction(g) = SumFunction(f) + g[d] - f[d]
        <5>1. \A e \in Deals \ {d} : g[e] = f[e]
          BY <2>2, <4>1 DEF Earns
        <5>2. f \in [Deals -> Int] /\ g \in [Deals -> Int]
          BY <3>1, <4>1
        <5> QED
          BY <5>1, <5>2, RowsAreFinite, AccountMoved
      <4> QED
        BY <4>1
    <3>3. SumFunction(FeesDue) \in Int /\ revenue \in Int /\ revenue' \in Int
          /\ FeesDue[d] \in Int /\ FeesDue'[d] \in Int
      BY <3>1, RowsAreFinite, AccountsType DEF LedgerInv, LedgerTypeOK
    <3> QED
      BY <2>2, <3>2, <3>3 DEF Earns, RevenueIsOfReleases
  <2>3. CASE UNCHANGED ledgerVars
    BY <2>1, <2>3 DEF ledgerVars, FeesDue
  <2> QED
    BY <2>1, <2>2, <2>3, StepEarns
<1>3. LedgerSpec => []LedgerInv
  BY LedgerInitInv, LedgerNextInv, PTL DEF LedgerSpec
<1> QED
  BY <1>1, <1>2, <1>3, PTL DEF LedgerSpec
=============================================================================
