---------------------------- MODULE Ledger_proofs ----------------------------
(***************************************************************************)
(* The accounts: that no balance is ever negative, that they add up to     *)
(* what was earned, whatever calls are under way or died, that a           *)
(* settlement creates no credits unless it is the second, and that no      *)
(* grant is forgotten; that the rate limiter's buckets count what is       *)
(* transferred, that a backup restores what was uploaded, and that the     *)
(* quota's counter is exact and expires.  Each part has an inductive       *)
(* invariant of its own.                                                   *)
(***************************************************************************)
EXTENDS CreditEngine, RateLimiter, Backup, Quota, Sums, FiniteSetTheorems, TLAPS

-----------------------------------------------------------------------------
(* Credits *)

USE CreditAssumption

CEInv == CETypeOK /\ NeverOverdrawn

\* The credits for a number of units are a natural number.
LEMMA CreditsNat ==
  ASSUME NEW u \in Units
  PROVE  Credits(u) \in Nat
<1>1. u * CreditRate \in Nat
  OBVIOUS
<1> QED
  BY <1>1 DEF Credits

\* A refund is an amount of credits, never negative.
LEMMA RefundNat ==
  ASSUME NEW j \in Jobs, NEW n \in Needs, reserved[j] \in Nat
  PROVE  Refund(j, n) \in Nat
BY DEF Refund

\* All accounts are empty and no call is under way.
LEMMA CEInitInv == CEInit => CEInv
BY DEF CEInit, CEInv, CETypeOK, NeverOverdrawn, Steps, Unreserved, Halfway

\* Earning and granting: amounts are natural numbers and are only added.
LEMMA EarnStep ==
  ASSUME CEInv, NEW c \in Callers, NEW o \in Owners,
         (\E u \in Units : Award(c, o, u)) \/ Earn(c) \/ GrantCheck(c, o)
         \/ GrantMark(c) \/ GrantAward(c)
  PROVE  CEInv'
<1> USE DEF CEInv, CETypeOK, NeverOverdrawn, Steps, IncrBy, Call, Proceed, Return, calls, history, Begin
<1>1. ASSUME NEW u \in Units, Award(c, o, u) PROVE CEInv'
  <2>1. Credits(u) \in Nat
    BY CreditsNat
  <2>2. UNCHANGED <<earned, spent, granted, reserved, history>> /\ made' = made + 1
    BY <1>1 DEF Award
  <2>3. /\ balance' = [balance EXCEPT ![o] = @ + Credits(u)]
        /\ Call(c, "earn", o, NoJob, Credits(u))
    BY <1>1 DEF Award
  <2> QED
    BY <2>1, <2>2, <2>3
<1>2. CASE Earn(c)
  BY <1>2 DEF Earn
<1>3. CASE GrantCheck(c, o)
  BY <1>3 DEF GrantCheck, Grant, accounts
<1>4. CASE GrantMark(c)
  BY <1>4 DEF GrantMark
<1>5. CASE GrantAward(c)
  <2>1. owner[c] \in Owners /\ amount[c] \in Nat
    BY <1>5 DEF GrantAward
  <2>2. balance' = [balance EXCEPT ![owner[c]] = @ + amount[c]]
    BY <1>5 DEF GrantAward
  <2>3. balance' \in [Owners -> Int] /\ \A q \in Owners : balance'[q] >= 0
    BY <2>1, <2>2
  <2>4. UNCHANGED <<earned, spent, granted, reserved, made, history>> /\ Proceed(c, "earn")
    BY <1>5 DEF GrantAward
  <2> QED
    BY <1>5, <2>3, <2>4 DEF GrantAward
<1> QED
  BY <1>1, <1>2, <1>3, <1>4, <1>5

\* The commands of a settlement after the first.
LEMMA SettleKeeps ==
  ASSUME CEInv, NEW c \in Callers, SettleBalance(c) \/ SettleSpent(c) \/ SettleDelete(c)
  PROVE  CEInv'
<1> USE DEF CEInv, CETypeOK, NeverOverdrawn, Steps, IncrBy, Call, Proceed, Return, history
<1>1. job[c] \in Jobs /\ owner[c] \in Owners /\ amount[c] \in Nat
  BY DEF SettleBalance, SettleSpent, SettleDelete
<1>2. CASE SettleBalance(c)
  <2>1. /\ balance' = [balance EXCEPT ![owner[c]] = @ + amount[c]]
        /\ used' = [used EXCEPT ![job[c]] = @ - amount[c]]
    BY <1>2 DEF SettleBalance
  <2>2. /\ balance' \in [Owners -> Int] /\ \A o \in Owners : balance'[o] >= 0
        /\ used' \in [Jobs -> Int]
    BY <1>1, <2>1
  <2>3. /\ UNCHANGED <<earned, spent, granted, reserved, made, refunding, twice, lost>>
        /\ step[c] = "refund" /\ Proceed(c, "unspend")
    BY <1>2 DEF SettleBalance
  <2> QED
    BY <2>2, <2>3
<1>3. CASE SettleSpent(c)
  BY <1>1, <1>3 DEF SettleSpent
<1>4. CASE SettleDelete(c)
  BY <1>1, <1>4 DEF SettleDelete
<1> QED
  BY <1>2, <1>3, <1>4

\* Spending: the script of reserve() is the only one that takes from a balance,
\* and it looks at the balance first.
LEMMA SpendStep ==
  ASSUME CEInv, NEW c \in Callers, NEW j \in Jobs, NEW n \in Needs,
         Reserve(c, j, n) \/ ReserveRefused(c, j, n) \/ SettleGet(c, j, n)
  PROVE  CEInv'
<1> USE DEF CEInv, CETypeOK, NeverOverdrawn, Steps, IncrBy, Call, calls, history, Begin
<1>1. CASE Reserve(c, j, n)
  <2>1. n \in Nat /\ Owner[j] \in Owners /\ balance[Owner[j]] >= n
    BY <1>1 DEF Reserve, Affords
  <2>2. /\ balance' \in [Owners -> Int] /\ \A o \in Owners : balance'[o] >= 0
        /\ spent' \in [Owners -> Int]
    BY <1>1, <2>1 DEF Reserve
  <2>3. /\ reserved' \in [Jobs -> Nat \cup {Unreserved}]
        /\ used' \in [Jobs -> Int] /\ refunding' \subseteq Jobs /\ made' \in Nat
    BY <1>1, <2>1 DEF Reserve
  <2> QED
    BY <1>1, <2>2, <2>3 DEF Reserve
<1>2. CASE ReserveRefused(c, j, n)
  BY <1>2 DEF ReserveRefused, ceVars, accounts
<1>3. CASE SettleGet(c, j, n)
  <2>1. Refund(j, n) \in Nat /\ Owner[j] \in Owners
    BY <1>3, RefundNat DEF SettleGet
  <2>2. refunding' \subseteq Jobs /\ twice' \subseteq Jobs
    BY <1>3 DEF SettleGet
  <2> QED
    BY <1>3, <2>1, <2>2 DEF SettleGet, accounts
<1> QED
  BY <1>1, <1>2, <1>3

\* Each call keeps the types and overdraws no account.
LEMMA CEInvStep == CEInv /\ [CENext]_ceVars => CEInv'
<1> SUFFICES ASSUME CEInv, [CENext]_ceVars
             PROVE  CEInv'
  OBVIOUS
<1>1. ASSUME NEW c \in Callers, CallerDies(c) PROVE CEInv'
  <2>1. lost' \in [Owners -> [Halfway -> Nat]]
    <3>1. CASE step[c] \in Halfway
      <4> DEFINE g == [lost[owner[c]] EXCEPT ![step[c]] = @ + amount[c]]
      <4>1. owner[c] \in Owners /\ amount[c] \in Nat /\ lost[owner[c]] \in [Halfway -> Nat]
        BY <3>1 DEF CEInv, CETypeOK, Halfway
      <4>2. g \in [Halfway -> Nat]
        BY <3>1, <4>1
      <4>3. lost' = [lost EXCEPT ![owner[c]] = g]
        BY <1>1, <3>1 DEF CallerDies
      <4> HIDE DEF g
      <4> QED
        BY <4>1, <4>2, <4>3 DEF CEInv, CETypeOK
    <3> QED
      BY <1>1, <3>1 DEF CallerDies, CEInv, CETypeOK
  <2>2. UNCHANGED <<accounts, made, used, refunding, twice>> /\ Return(c)
    BY <1>1 DEF CallerDies
  <2> QED
    BY <2>1, <2>2 DEF CEInv, CETypeOK, NeverOverdrawn, Return, Call, accounts, Steps
<1>2. ASSUME NEW j \in Jobs, ReservationExpires(j) PROVE CEInv'
  BY <1>2 DEF CEInv, CETypeOK, NeverOverdrawn, ReservationExpires, calls, history, Unreserved
<1>3. CASE UNCHANGED ceVars
  BY <1>3 DEF CEInv, CETypeOK, NeverOverdrawn, ceVars, accounts, calls, history
<1>4. ASSUME NEW c \in Callers, Continue(c) PROVE CEInv'
  <2>1. CASE Earn(c) \/ GrantMark(c) \/ GrantAward(c)
    <3>1. owner[c] \in Owners
      BY <1>4, <2>1 DEF CEInv, CETypeOK, Earn, GrantMark, GrantAward
    <3> QED
      BY <2>1, <3>1, EarnStep
  <2>2. CASE SettleBalance(c) \/ SettleSpent(c) \/ SettleDelete(c)
    BY <2>2, SettleKeeps
  <2> QED
    BY <1>4, <2>1, <2>2 DEF Continue
<1>5. ASSUME NEW c \in Callers, NEW j \in Jobs, NothingToSettle(c, j) PROVE CEInv'
  BY <1>3, <1>5 DEF NothingToSettle, ceVars
<1>6. ASSUME NEW c \in Callers, NEW o \in Owners, GrantRefused(c, o) PROVE CEInv'
  BY <1>3, <1>6 DEF GrantRefused, ceVars
<1> QED
  BY <1>1, <1>2, <1>3, <1>4, <1>5, <1>6, EarnStep, SpendStep DEF CENext

\* Every state of the specification satisfies the invariant.
LEMMA CEInvariance == CESpec => []CEInv
BY CEInitInv, CEInvStep, PTL DEF CESpec

\* The types of the counters and of the arguments of the calls: a refund is
\* never negative, and a call that updates an account knows whose it is.
THEOREM CreditsTypeCorrect == CESpec => []CETypeOK
BY CEInvariance, PTL DEF CEInv

\* However reserve(), award(), grant_free_tier() and release_reservation()
\* interleave, die or repeat, no balance falls below zero.
THEOREM BalanceNeverNegative == CESpec => []NeverOverdrawn
BY CEInvariance, PTL DEF CEInv

\* A call that settles a job pays its owner.
PaysOwner == \A c \in Callers : job[c] # NoJob => owner[c] = Owner[job[c]]

\* The counter of an owner follows what his jobs were reserved and refunded, as often
\* as they were.
ChargesAgree ==
  \A o \in Owners : spent[o] = Charged(o) + Pending(o, "unspend") + lost[o]["unspend"]

\* What CreditsAddUp rests on, for any number of refunds.
AddUpInv == PaysOwner /\ Conserved /\ ChargesAgree

\* A step of one call changes what is pending by what the call moves.
LEMMA PendingChange ==
  ASSUME CETypeOK, CETypeOK', NEW c \in Callers,
         \A d \in Callers \ {c} : /\ step'[d] = step[d] /\ owner'[d] = owner[d]
                                  /\ amount'[d] = amount[d],
         NEW o, NEW s
  PROVE  Pending(o, s)' = Pending(o, s) + Moving(c, o, s)' - Moving(c, o, s)
<1> DEFINE f == [d \in Callers |-> Moving(d, o, s)]
           g == [d \in Callers |-> Moving(d, o, s)']
<1>1. \A d \in Callers : f[d] \in Int /\ g[d] \in Int
  BY DEF CETypeOK, Moving
<1>2. \A d \in Callers \ {c} : g[d] = f[d]
  BY DEF Moving
<1>3. f[c] = Moving(c, o, s) /\ g[c] = Moving(c, o, s)'
  OBVIOUS
<1>4. Pending(o, s) = SumFunctionOnSet(f, Callers) /\ Pending(o, s)' = SumFunctionOnSet(g, Callers)
  BY DEF Pending
<1> HIDE DEF f, g
<1>5. SumFunctionOnSet(g, Callers) = SumFunctionOnSet(f, Callers) + g[c] - f[c]
  BY <1>1, <1>2, SumChange
<1> QED
  BY <1>3, <1>4, <1>5

\* What is pending when no call moves.
LEMMA PendingSame ==
  ASSUME UNCHANGED <<step, owner, amount>>, NEW o, NEW s
  PROVE  Pending(o, s)' = Pending(o, s)
BY DEF Pending, Moving

\* What is pending, and what was charged, are numbers.
LEMMA SumsAreInt ==
  ASSUME CETypeOK, NEW o
  PROVE  Charged(o) \in Int /\ \A s : Pending(o, s) \in Int
<1>1. ASSUME NEW s PROVE Pending(o, s) \in Int
  <2> DEFINE f == [d \in Callers |-> Moving(d, o, s)]
  <2>1. \A d \in Callers : f[d] \in Int
    BY DEF CETypeOK, Moving
  <2> HIDE DEF f
  <2>2. SumFunctionOnSet(f, Callers) \in Int
    BY <2>1, SumType
  <2> QED
    BY <2>2 DEF Pending, f
<1>2. Charged(o) \in Int
  <2> DEFINE f == [j \in Jobs |-> ChargeOf(j, o)]
  <2>1. \A j \in Jobs : f[j] \in Int
    BY DEF CETypeOK, ChargeOf
  <2> HIDE DEF f
  <2>2. SumFunctionOnSet(f, Jobs) \in Int
    BY <2>1, SumType
  <2> QED
    BY <2>2 DEF Charged, f
<1> QED
  BY <1>1, <1>2

\* A charge or refund of one job.
LEMMA ChargedChange ==
  ASSUME CETypeOK, CETypeOK', NEW j \in Jobs, \A k \in Jobs \ {j} : used'[k] = used[k], NEW o
  PROVE  Charged(o)' = Charged(o) + ChargeOf(j, o)' - ChargeOf(j, o)
<1> DEFINE f == [k \in Jobs |-> ChargeOf(k, o)]
           g == [k \in Jobs |-> ChargeOf(k, o)']
<1>1. \A k \in Jobs : f[k] \in Int /\ g[k] \in Int
  BY DEF CETypeOK, ChargeOf
<1>2. \A k \in Jobs \ {j} : g[k] = f[k]
  BY DEF ChargeOf
<1>3. f[j] = ChargeOf(j, o) /\ g[j] = ChargeOf(j, o)'
  OBVIOUS
<1>4. Charged(o) = SumFunctionOnSet(f, Jobs) /\ Charged(o)' = SumFunctionOnSet(g, Jobs)
  BY DEF Charged
<1> HIDE DEF f, g
<1>5. SumFunctionOnSet(g, Jobs) = SumFunctionOnSet(f, Jobs) + g[j] - f[j]
  BY <1>1, <1>2, SumChange
<1> QED
  BY <1>3, <1>4, <1>5

\* What was charged when no job is.
LEMMA ChargedSame ==
  ASSUME UNCHANGED used, NEW o
  PROVE  Charged(o)' = Charged(o)
BY DEF Charged, ChargeOf

\* At first nothing was earned, spent or charged.
LEMMA AddUpInit == CEInit => AddUpInv
<1> SUFFICES ASSUME CEInit PROVE AddUpInv
  OBVIOUS
<1>2. ASSUME NEW o \in Owners, NEW s \in {"earn", "unspend"} PROVE Pending(o, s) = 0
  <2>1. \A c \in Callers : [d \in Callers |-> Moving(d, o, s)][c] = 0
    BY DEF CEInit, Moving
  <2> QED
    BY <2>1, SumZero DEF Pending
<1>3. ASSUME NEW o \in Owners PROVE Charged(o) = 0
  <2>1. \A j \in Jobs : [k \in Jobs |-> ChargeOf(k, o)][j] = 0
    BY DEF CEInit, ChargeOf
  <2> QED
    BY <2>1, SumZero DEF Charged
<1> QED
  BY <1>2, <1>3 DEF CEInit, AddUpInv, PaysOwner, Conserved, ChargesAgree, Halfway

\* The balances, counters and losses of an owner that Conserved relates, without the
\* amounts that are pending.
Settled(o) == balance[o] + spent[o] - earned[o] - lost[o]["earn"] - lost[o]["unspend"]

\* The accounts of o change by what call c moves.
CallBalances(c, o) ==
  /\ Settled(o)' - Settled(o) =
       Moving(c, o, "earn")' + Moving(c, o, "unspend")'
       - Moving(c, o, "earn") - Moving(c, o, "unspend")
  /\ spent'[o] - lost'[o]["unspend"] - Charged(o)' - Moving(c, o, "unspend")' =
       spent[o] - lost[o]["unspend"] - Charged(o) - Moving(c, o, "unspend")

\* The accounts add up after such a step of one call.
LEMMA CallAddsUp ==
  ASSUME CETypeOK, CETypeOK', Conserved, ChargesAgree, NEW c \in Callers,
         \A d \in Callers \ {c} : /\ step'[d] = step[d] /\ owner'[d] = owner[d]
                                  /\ amount'[d] = amount[d],
         \A o \in Owners : CallBalances(c, o)
  PROVE  Conserved' /\ ChargesAgree'
<1>1. ASSUME NEW o \in Owners
      PROVE  /\ balance'[o] + spent'[o] = earned'[o] + Pending(o, "earn")' + Pending(o, "unspend")'
                                          + lost'[o]["earn"] + lost'[o]["unspend"]
             /\ spent'[o] = Charged(o)' + Pending(o, "unspend")' + lost'[o]["unspend"]
  <2> DEFINE e == Pending(o, "earn")
             u == Pending(o, "unspend")
             me == Moving(c, o, "earn")
             mu == Moving(c, o, "unspend")
  <2>1. /\ Pending(o, "earn")' = e + Moving(c, o, "earn")' - me
        /\ Pending(o, "unspend")' = u + Moving(c, o, "unspend")' - mu
    BY PendingChange
  <2>2. /\ e \in Int /\ u \in Int /\ me \in Int /\ mu \in Int /\ Charged(o) \in Int
        /\ Moving(c, o, "earn")' \in Int /\ Moving(c, o, "unspend")' \in Int
    <3>1. e \in Int /\ u \in Int /\ Charged(o) \in Int
      BY SumsAreInt
    <3>2. amount[c] \in Int /\ amount'[c] \in Int
      BY DEF CETypeOK
    <3> QED
      BY <3>1, <3>2 DEF Moving
  <2>3. Charged(o)' \in Int
    <3> DEFINE g == [j \in Jobs |-> ChargeOf(j, o)']
    <3>1. \A j \in Jobs : g[j] \in Int
      BY DEF CETypeOK, ChargeOf
    <3> HIDE DEF g
    <3>2. SumFunctionOnSet(g, Jobs) \in Int
      BY <3>1, SumType
    <3> QED
      BY <3>2 DEF Charged, g
  <2>4. /\ balance[o] \in Int /\ spent[o] \in Int /\ earned[o] \in Int
        /\ lost[o]["earn"] \in Int /\ lost[o]["unspend"] \in Int
        /\ balance'[o] \in Int /\ spent'[o] \in Int /\ earned'[o] \in Int
        /\ lost'[o]["earn"] \in Int /\ lost'[o]["unspend"] \in Int
    BY DEF CETypeOK, Halfway
  <2>5. /\ balance[o] + spent[o] = earned[o] + e + u + lost[o]["earn"] + lost[o]["unspend"]
        /\ spent[o] = Charged(o) + u + lost[o]["unspend"]
    BY DEF Conserved, ChargesAgree
  <2>6. /\ Settled(o)' - Settled(o) =
             Moving(c, o, "earn")' + Moving(c, o, "unspend")' - me - mu
        /\ spent'[o] - lost'[o]["unspend"] - Charged(o)' - Moving(c, o, "unspend")' =
             spent[o] - lost[o]["unspend"] - Charged(o) - mu
    BY DEF CallBalances
  <2> HIDE DEF e, u, me, mu
  <2> QED
    BY <2>1, <2>2, <2>3, <2>4, <2>5, <2>6 DEF Settled
<1> QED
  BY <1>1 DEF Conserved, ChargesAgree

\* No call makes or loses a credit that the accounts do not show.
LEMMA AddUpStep ==
  ASSUME CEInv, CEInv', AddUpInv, [CENext]_ceVars
  PROVE  AddUpInv'
<1> USE DEF CEInv, AddUpInv
<1>0. CETypeOK /\ CETypeOK' /\ NoJob \notin Jobs /\ Nobody \notin Owners
  OBVIOUS
<1>1. ASSUME NEW c \in Callers, NEW s \in Steps, NEW o, NEW j, NEW n, Call(c, s, o, j, n)
      PROVE  /\ step'[c] = s /\ owner'[c] = o /\ job'[c] = j /\ amount'[c] = n
             /\ \A d \in Callers \ {c} : /\ step'[d] = step[d] /\ owner'[d] = owner[d]
                                         /\ amount'[d] = amount[d] /\ job'[d] = job[d]
  BY <1>0, <1>1 DEF Call, CETypeOK
<1>2. ASSUME NEW c \in Callers, NEW s \in Steps, Proceed(c, s)
      PROVE  /\ step'[c] = s /\ owner'[c] = owner[c] /\ job'[c] = job[c] /\ amount'[c] = amount[c]
             /\ \A d \in Callers \ {c} : /\ step'[d] = step[d] /\ owner'[d] = owner[d]
                                         /\ amount'[d] = amount[d] /\ job'[d] = job[d]
  BY <1>0, <1>2 DEF Proceed, CETypeOK
<1>4. ASSUME NEW p \in Owners
      PROVE  /\ balance[p] \in Int /\ spent[p] \in Int /\ earned[p] \in Int
             /\ lost[p]["earn"] \in Int /\ lost[p]["unspend"] \in Int
  BY <1>0 DEF CETypeOK, Halfway
<1>5. ASSUME NEW c \in Callers, NEW q \in Owners, NEW u \in Units, Award(c, q, u) PROVE AddUpInv'
  <2> DEFINE n == Credits(u)
  <2>1. n \in Nat
    BY CreditsNat
  <2>2. /\ step[c] = "idle" /\ balance' = IncrBy(balance, q, n)
        /\ Call(c, "earn", q, NoJob, n) /\ UNCHANGED <<earned, spent, used, lost>>
    BY <1>5 DEF Award, Begin, history
  <2> HIDE DEF n
  <2>3. /\ step'[c] = "earn" /\ owner'[c] = q /\ job'[c] = NoJob /\ amount'[c] = n
        /\ \A d \in Callers \ {c} : /\ step'[d] = step[d] /\ owner'[d] = owner[d]
                                    /\ amount'[d] = amount[d] /\ job'[d] = job[d]
    BY <1>1, <2>2 DEF Steps
  <2>4. PaysOwner'
    BY <2>3 DEF PaysOwner
  <2>5. ASSUME NEW p \in Owners PROVE CallBalances(c, p)
    <3>1. /\ Moving(c, p, "earn") = 0 /\ Moving(c, p, "unspend") = 0
          /\ Moving(c, p, "earn")' = (IF p = q THEN n ELSE 0) /\ Moving(c, p, "unspend")' = 0
      BY <2>1, <2>2, <2>3 DEF Moving
    <3>2. /\ balance'[p] = balance[p] + (IF p = q THEN n ELSE 0)
          /\ spent'[p] = spent[p] /\ earned'[p] = earned[p] /\ lost'[p] = lost[p]
      BY <1>0, <2>1, <2>2 DEF CETypeOK, IncrBy, Halfway
    <3>3. Charged(p)' = Charged(p) /\ Charged(p) \in Int
      BY <1>0, <2>1, <2>2, ChargedSame, SumsAreInt
    <3> QED
      BY <1>4, <2>1, <2>2, <3>1, <3>2, <3>3 DEF Settled, CallBalances
  <2> QED
    BY <1>0, <2>3, <2>4, <2>5, CallAddsUp
<1>6. ASSUME NEW c \in Callers, Earn(c) PROVE AddUpInv'
  <2> DEFINE n == amount[c]
             q == owner[c]
  <2>1. n \in Nat /\ q \in Owners /\ amount[c] = n
    BY <1>0, <1>6 DEF CETypeOK, Earn
  <2>2. /\ step[c] = "earn" /\ earned' = IncrBy(earned, q, n)
        /\ Call(c, "idle", Nobody, NoJob, 0) /\ UNCHANGED <<balance, spent, used, lost>>
    BY <1>6 DEF Earn, Return, history
  <2> HIDE DEF n
  <2>3. /\ step'[c] = "idle" /\ owner'[c] = Nobody /\ job'[c] = NoJob /\ amount'[c] = 0
        /\ \A d \in Callers \ {c} : /\ step'[d] = step[d] /\ owner'[d] = owner[d]
                                    /\ amount'[d] = amount[d] /\ job'[d] = job[d]
    BY <1>1, <2>2 DEF Steps
  <2>4. PaysOwner'
    BY <2>3 DEF PaysOwner
  <2>5. ASSUME NEW p \in Owners PROVE CallBalances(c, p)
    <3>1. /\ Moving(c, p, "earn") = (IF p = q THEN n ELSE 0) /\ Moving(c, p, "unspend") = 0
          /\ Moving(c, p, "earn")' = 0 /\ Moving(c, p, "unspend")' = 0
      BY <2>1, <2>2, <2>3 DEF Moving
    <3>2. /\ earned'[p] = earned[p] + (IF p = q THEN n ELSE 0)
          /\ spent'[p] = spent[p] /\ balance'[p] = balance[p] /\ lost'[p] = lost[p]
      BY <1>0, <2>1, <2>2 DEF CETypeOK, IncrBy, Halfway
    <3>3. Charged(p)' = Charged(p) /\ Charged(p) \in Int
      BY <1>0, <2>1, <2>2, ChargedSame, SumsAreInt
    <3> QED
      BY <1>4, <2>1, <2>2, <3>1, <3>2, <3>3 DEF Settled, CallBalances
  <2> QED
    BY <1>0, <2>3, <2>4, <2>5, CallAddsUp
<1>7. ASSUME NEW c \in Callers, NEW q \in Owners, GrantCheck(c, q) PROVE AddUpInv'
  <2> DEFINE n == 0
  <2>1. n \in Nat
    OBVIOUS
  <2>2. /\ step[c] = "idle" /\ Call(c, "mark", q, NoJob, Grant)
        /\ UNCHANGED <<balance, spent, earned, used, lost>>
    BY <1>7 DEF GrantCheck, Begin, accounts, history
  <2> HIDE DEF n
  <2>3. /\ step'[c] = "mark" /\ job'[c] = NoJob
        /\ \A d \in Callers \ {c} : /\ step'[d] = step[d] /\ owner'[d] = owner[d]
                                    /\ amount'[d] = amount[d] /\ job'[d] = job[d]
    BY <1>1, <2>2 DEF Steps
  <2>4. PaysOwner'
    BY <2>3 DEF PaysOwner
  <2>5. ASSUME NEW p \in Owners PROVE CallBalances(c, p)
    <3>1. /\ Moving(c, p, "earn") = 0 /\ Moving(c, p, "unspend") = 0
          /\ Moving(c, p, "earn")' = 0 /\ Moving(c, p, "unspend")' = 0
      BY <2>1, <2>2, <2>3 DEF Moving
    <3>2. /\ balance'[p] = balance[p] /\ spent'[p] = spent[p] /\ earned'[p] = earned[p] /\ lost'[p] = lost[p]
      BY <1>0, <2>1, <2>2 DEF CETypeOK, IncrBy, Halfway
    <3>3. Charged(p)' = Charged(p) /\ Charged(p) \in Int
      BY <1>0, <2>1, <2>2, ChargedSame, SumsAreInt
    <3> QED
      BY <1>4, <2>1, <2>2, <3>1, <3>2, <3>3 DEF Settled, CallBalances
  <2> QED
    BY <1>0, <2>3, <2>4, <2>5, CallAddsUp
<1>8. ASSUME NEW c \in Callers, GrantMark(c) PROVE AddUpInv'
  <2> DEFINE n == 0
  <2>1. n \in Nat
    OBVIOUS
  <2>2. /\ step[c] = "mark" /\ Proceed(c, "grant")
        /\ UNCHANGED <<balance, spent, earned, used, lost>>
    BY <1>8 DEF GrantMark, history
  <2> HIDE DEF n
  <2>3. /\ step'[c] = "grant" /\ owner'[c] = owner[c] /\ job'[c] = job[c]
        /\ \A d \in Callers \ {c} : /\ step'[d] = step[d] /\ owner'[d] = owner[d]
                                    /\ amount'[d] = amount[d] /\ job'[d] = job[d]
    BY <1>2, <2>1, <2>2 DEF Steps
  <2>4. PaysOwner'
    BY <2>3 DEF PaysOwner
  <2>5. ASSUME NEW p \in Owners PROVE CallBalances(c, p)
    <3>1. /\ Moving(c, p, "earn") = 0 /\ Moving(c, p, "unspend") = 0
          /\ Moving(c, p, "earn")' = 0 /\ Moving(c, p, "unspend")' = 0
      BY <2>1, <2>2, <2>3 DEF Moving
    <3>2. /\ balance'[p] = balance[p] /\ spent'[p] = spent[p] /\ earned'[p] = earned[p] /\ lost'[p] = lost[p]
      BY <1>0, <2>1, <2>2 DEF CETypeOK, IncrBy, Halfway
    <3>3. Charged(p)' = Charged(p) /\ Charged(p) \in Int
      BY <1>0, <2>1, <2>2, ChargedSame, SumsAreInt
    <3> QED
      BY <1>4, <2>1, <2>2, <3>1, <3>2, <3>3 DEF Settled, CallBalances
  <2> QED
    BY <1>0, <2>3, <2>4, <2>5, CallAddsUp
<1>9. ASSUME NEW c \in Callers, GrantAward(c) PROVE AddUpInv'
  <2> DEFINE n == amount[c]
             q == owner[c]
  <2>1. n \in Nat /\ q \in Owners /\ amount[c] = n
    BY <1>0, <1>9 DEF CETypeOK, GrantAward
  <2>2. /\ step[c] = "grant" /\ balance' = IncrBy(balance, q, n)
        /\ Proceed(c, "earn") /\ UNCHANGED <<earned, spent, used, lost>>
    BY <1>9 DEF GrantAward, history
  <2> HIDE DEF n
  <2>3. /\ step'[c] = "earn" /\ owner'[c] = q /\ job'[c] = job[c] /\ amount'[c] = n
        /\ \A d \in Callers \ {c} : /\ step'[d] = step[d] /\ owner'[d] = owner[d]
                                    /\ amount'[d] = amount[d] /\ job'[d] = job[d]
    BY <1>2, <2>1, <2>2 DEF Steps
  <2>4. PaysOwner'
    BY <2>3 DEF PaysOwner
  <2>5. ASSUME NEW p \in Owners PROVE CallBalances(c, p)
    <3>1. /\ Moving(c, p, "earn") = 0 /\ Moving(c, p, "unspend") = 0
          /\ Moving(c, p, "earn")' = (IF p = q THEN n ELSE 0) /\ Moving(c, p, "unspend")' = 0
      BY <2>1, <2>2, <2>3 DEF Moving
    <3>2. /\ balance'[p] = balance[p] + (IF p = q THEN n ELSE 0)
          /\ spent'[p] = spent[p] /\ earned'[p] = earned[p] /\ lost'[p] = lost[p]
      BY <1>0, <2>1, <2>2 DEF CETypeOK, IncrBy, Halfway
    <3>3. Charged(p)' = Charged(p) /\ Charged(p) \in Int
      BY <1>0, <2>1, <2>2, ChargedSame, SumsAreInt
    <3> QED
      BY <1>4, <2>1, <2>2, <3>1, <3>2, <3>3 DEF Settled, CallBalances
  <2> QED
    BY <1>0, <2>3, <2>4, <2>5, CallAddsUp
<1>10. ASSUME NEW c \in Callers, NEW j \in Jobs, NEW k \in Needs, SettleGet(c, j, k) PROVE AddUpInv'
  <2> DEFINE n == Refund(j, k)
             s == IF n > 0 THEN "refund" ELSE "delete"
  <2>1. n \in Nat /\ s \in {"refund", "delete"}
    BY <1>0, <1>10, RefundNat DEF SettleGet, CETypeOK
  <2>2. /\ step[c] = "idle" /\ Call(c, s, Owner[j], j, n)
        /\ UNCHANGED <<balance, spent, earned, used, lost>>
    BY <1>10 DEF SettleGet, Begin, accounts, history
  <2> HIDE DEF n
  <2>3. /\ step'[c] = s /\ owner'[c] = Owner[j] /\ job'[c] = j
        /\ \A d \in Callers \ {c} : /\ step'[d] = step[d] /\ owner'[d] = owner[d]
                                    /\ amount'[d] = amount[d] /\ job'[d] = job[d]
    BY <1>1, <2>2 DEF Steps
  <2>4. PaysOwner'
    BY <2>3 DEF PaysOwner
  <2>5. ASSUME NEW p \in Owners PROVE CallBalances(c, p)
    <3>1. /\ Moving(c, p, "earn") = 0 /\ Moving(c, p, "unspend") = 0
          /\ Moving(c, p, "earn")' = 0 /\ Moving(c, p, "unspend")' = 0
      BY <2>1, <2>2, <2>3 DEF Moving
    <3>2. /\ balance'[p] = balance[p] /\ spent'[p] = spent[p] /\ earned'[p] = earned[p] /\ lost'[p] = lost[p]
      BY <1>0, <2>1, <2>2 DEF CETypeOK, IncrBy, Halfway
    <3>3. Charged(p)' = Charged(p) /\ Charged(p) \in Int
      BY <1>0, <2>1, <2>2, ChargedSame, SumsAreInt
    <3> QED
      BY <1>4, <2>1, <2>2, <3>1, <3>2, <3>3 DEF Settled, CallBalances
  <2> QED
    BY <1>0, <2>3, <2>4, <2>5, CallAddsUp
<1>11. ASSUME NEW c \in Callers, SettleBalance(c) PROVE AddUpInv'
  <2> DEFINE n == amount[c]
             q == owner[c]
  <2>1. n \in Nat /\ q \in Owners /\ amount[c] = n /\ job[c] \in Jobs /\ q = Owner[job[c]]
    BY <1>0, <1>11 DEF CETypeOK, SettleBalance, PaysOwner
  <2>2. /\ step[c] = "refund" /\ balance' = IncrBy(balance, q, n)
        /\ used' = [used EXCEPT ![job[c]] = @ - n]
        /\ Proceed(c, "unspend") /\ UNCHANGED <<earned, spent, lost>>
    BY <1>11 DEF SettleBalance, history
  <2> HIDE DEF n
  <2>3. /\ step'[c] = "unspend" /\ owner'[c] = q /\ job'[c] = job[c] /\ amount'[c] = n
        /\ \A d \in Callers \ {c} : /\ step'[d] = step[d] /\ owner'[d] = owner[d]
                                    /\ amount'[d] = amount[d] /\ job'[d] = job[d]
    BY <1>2, <2>1, <2>2 DEF Steps
  <2>4. PaysOwner'
    BY <2>3 DEF PaysOwner
  <2>5. ASSUME NEW p \in Owners PROVE CallBalances(c, p)
    <3>1. /\ Moving(c, p, "earn") = 0 /\ Moving(c, p, "unspend") = 0
          /\ Moving(c, p, "earn")' = 0 /\ Moving(c, p, "unspend")' = (IF p = q THEN n ELSE 0)
      BY <2>1, <2>2, <2>3 DEF Moving
    <3>2. /\ balance'[p] = balance[p] + (IF p = q THEN n ELSE 0)
          /\ spent'[p] = spent[p] /\ earned'[p] = earned[p] /\ lost'[p] = lost[p]
      BY <1>0, <2>1, <2>2 DEF CETypeOK, IncrBy, Halfway
    <3>3. Charged(p)' = Charged(p) - (IF p = q THEN n ELSE 0) /\ Charged(p) \in Int
      <4>1. /\ job[c] \in Jobs /\ used'[job[c]] = used[job[c]] - n /\ used[job[c]] \in Int
            /\ \A j \in Jobs \ {job[c]} : used'[j] = used[j]
        BY <1>0, <2>1, <2>2 DEF CETypeOK
      <4>2. PICK j \in Jobs : j = job[c]
        BY <4>1
      <4>3. Charged(p)' = Charged(p) + ChargeOf(j, p)' - ChargeOf(j, p)
        BY <1>0, <4>1, <4>2, ChargedChange
      <4> QED
        BY <1>0, <2>1, <4>1, <4>2, <4>3, SumsAreInt DEF ChargeOf
    <3> QED
      BY <1>4, <2>1, <2>2, <3>1, <3>2, <3>3 DEF Settled, CallBalances
  <2> QED
    BY <1>0, <2>3, <2>4, <2>5, CallAddsUp
<1>12. ASSUME NEW c \in Callers, SettleSpent(c) PROVE AddUpInv'
  <2> DEFINE n == amount[c]
             q == owner[c]
  <2>1. n \in Nat /\ q \in Owners /\ amount[c] = n
    BY <1>0, <1>12 DEF CETypeOK, SettleSpent
  <2>2. /\ step[c] = "unspend" /\ spent' = IncrBy(spent, q, -n)
        /\ Proceed(c, "delete") /\ UNCHANGED <<earned, balance, used, lost>>
    BY <1>12 DEF SettleSpent, history
  <2> HIDE DEF n
  <2>3. /\ step'[c] = "delete" /\ owner'[c] = q /\ job'[c] = job[c] /\ amount'[c] = n
        /\ \A d \in Callers \ {c} : /\ step'[d] = step[d] /\ owner'[d] = owner[d]
                                    /\ amount'[d] = amount[d] /\ job'[d] = job[d]
    BY <1>2, <2>1, <2>2 DEF Steps
  <2>4. PaysOwner'
    BY <2>3 DEF PaysOwner
  <2>5. ASSUME NEW p \in Owners PROVE CallBalances(c, p)
    <3>1. /\ Moving(c, p, "earn") = 0 /\ Moving(c, p, "unspend") = (IF p = q THEN n ELSE 0)
          /\ Moving(c, p, "earn")' = 0 /\ Moving(c, p, "unspend")' = 0
      BY <2>1, <2>2, <2>3 DEF Moving
    <3>2. /\ spent'[p] = spent[p] - (IF p = q THEN n ELSE 0)
          /\ balance'[p] = balance[p] /\ earned'[p] = earned[p] /\ lost'[p] = lost[p]
      BY <1>0, <2>1, <2>2 DEF CETypeOK, IncrBy, Halfway
    <3>3. Charged(p)' = Charged(p) /\ Charged(p) \in Int
      BY <1>0, <2>1, <2>2, ChargedSame, SumsAreInt
    <3> QED
      BY <1>4, <2>1, <2>2, <3>1, <3>2, <3>3 DEF Settled, CallBalances
  <2> QED
    BY <1>0, <2>3, <2>4, <2>5, CallAddsUp
<1>13. ASSUME NEW c \in Callers, SettleDelete(c) PROVE AddUpInv'
  <2> DEFINE n == 0
  <2>1. n \in Nat
    OBVIOUS
  <2>2. /\ step[c] = "delete" /\ Call(c, "idle", Nobody, NoJob, 0)
        /\ UNCHANGED <<balance, spent, earned, used, lost>>
    BY <1>13 DEF SettleDelete, Return, history
  <2> HIDE DEF n
  <2>3. /\ step'[c] = "idle" /\ owner'[c] = Nobody /\ job'[c] = NoJob /\ amount'[c] = 0
        /\ \A d \in Callers \ {c} : /\ step'[d] = step[d] /\ owner'[d] = owner[d]
                                    /\ amount'[d] = amount[d] /\ job'[d] = job[d]
    BY <1>1, <2>2 DEF Steps
  <2>4. PaysOwner'
    BY <2>3 DEF PaysOwner
  <2>5. ASSUME NEW p \in Owners PROVE CallBalances(c, p)
    <3>1. /\ Moving(c, p, "earn") = 0 /\ Moving(c, p, "unspend") = 0
          /\ Moving(c, p, "earn")' = 0 /\ Moving(c, p, "unspend")' = 0
      BY <2>1, <2>2, <2>3 DEF Moving
    <3>2. /\ balance'[p] = balance[p] /\ spent'[p] = spent[p] /\ earned'[p] = earned[p] /\ lost'[p] = lost[p]
      BY <1>0, <2>1, <2>2 DEF CETypeOK, IncrBy, Halfway
    <3>3. Charged(p)' = Charged(p) /\ Charged(p) \in Int
      BY <1>0, <2>1, <2>2, ChargedSame, SumsAreInt
    <3> QED
      BY <1>4, <2>1, <2>2, <3>1, <3>2, <3>3 DEF Settled, CallBalances
  <2> QED
    BY <1>0, <2>3, <2>4, <2>5, CallAddsUp
<1>14. ASSUME NEW c \in Callers, NEW j \in Jobs, NEW k \in Needs, Reserve(c, j, k) PROVE AddUpInv'
  <2> DEFINE n == k
             q == Owner[j]
  <2>1. n \in Nat /\ q \in Owners
    OBVIOUS
  <2>2. /\ balance' = IncrBy(balance, q, -n) /\ spent' = IncrBy(spent, q, n)
        /\ used' = [used EXCEPT ![j] = @ + n]
        /\ UNCHANGED <<step, owner, job, amount, earned, lost>>
    BY <1>14 DEF Reserve, calls
  <2> HIDE DEF n
  <2>3. /\ step'[c] = step[c] /\ owner'[c] = owner[c] /\ job'[c] = job[c] /\ amount'[c] = amount[c]
        /\ \A d \in Callers \ {c} : /\ step'[d] = step[d] /\ owner'[d] = owner[d]
                                    /\ amount'[d] = amount[d] /\ job'[d] = job[d]
    BY <2>2 DEF Steps
  <2>4. PaysOwner'
    BY <2>3 DEF PaysOwner
  <2>5. ASSUME NEW p \in Owners PROVE CallBalances(c, p)
    <3>1. /\ Moving(c, p, "earn")' = Moving(c, p, "earn") /\ Moving(c, p, "unspend")' = Moving(c, p, "unspend")
      BY <2>1, <2>2, <2>3 DEF Moving
    <3>2. /\ balance'[p] = balance[p] - (IF p = q THEN n ELSE 0)
          /\ spent'[p] = spent[p] + (IF p = q THEN n ELSE 0)
          /\ earned'[p] = earned[p] /\ lost'[p] = lost[p]
      BY <1>0, <2>1, <2>2 DEF CETypeOK, IncrBy, Halfway
    <3>3. Charged(p)' = Charged(p) + (IF p = q THEN n ELSE 0) /\ Charged(p) \in Int
      <4>1. /\ used'[j] = used[j] + n /\ used[j] \in Int
            /\ \A i \in Jobs \ {j} : used'[i] = used[i]
        BY <1>0, <2>1, <2>2 DEF CETypeOK
      <4>2. Charged(p)' = Charged(p) + ChargeOf(j, p)' - ChargeOf(j, p)
        BY <1>0, <4>1, ChargedChange
      <4>3. Charged(p) \in Int
        BY <1>0, SumsAreInt
      <4>4. CASE p = q
        BY <2>1, <4>1, <4>2, <4>3, <4>4 DEF ChargeOf
      <4>5. CASE p # q
        <5>1. ChargeOf(j, p) = 0 /\ ChargeOf(j, p)' = 0
          BY <4>5 DEF ChargeOf
        <5> QED
          BY <4>2, <4>3, <4>5, <5>1
      <4> QED
        BY <4>4, <4>5
    <3>4. UNCHANGED <<lost, earned>> /\ Settled(p)' = Settled(p)
      BY <1>4, <2>1, <2>2, <3>2 DEF Settled
    <3>5. Moving(c, p, "unspend") \in Int /\ Moving(c, p, "earn") \in Int /\ Settled(p) \in Int
      BY <1>0, <1>4 DEF CETypeOK, Moving, Settled
    <3> HIDE DEF q
    <3> QED
      BY <1>4, <2>1, <3>1, <3>2, <3>3, <3>4, <3>5 DEF CallBalances
  <2> QED
    BY <1>0, <2>3, <2>4, <2>5, CallAddsUp
<1>15. ASSUME NEW c \in Callers, CallerDies(c) PROVE AddUpInv'
  <2> DEFINE n == amount[c]
             q == owner[c]
             at == step[c]
  <2>1. n \in Nat /\ q \in Owners /\ at \in Steps
    BY <1>0, <1>15 DEF CallerDies, CETypeOK
  <2>2. /\ lost' = IF at \in Halfway THEN [lost EXCEPT ![q][at] = @ + n] ELSE lost
        /\ Call(c, "idle", Nobody, NoJob, 0) /\ UNCHANGED <<balance, spent, earned, used>>
    BY <1>15 DEF CallerDies, Return, accounts
  <2>3. /\ step'[c] = "idle" /\ owner'[c] = Nobody /\ job'[c] = NoJob /\ amount'[c] = 0
        /\ \A d \in Callers \ {c} : /\ step'[d] = step[d] /\ owner'[d] = owner[d]
                                    /\ amount'[d] = amount[d] /\ job'[d] = job[d]
    BY <1>1, <2>2 DEF Steps
  <2>4. PaysOwner'
    BY <2>3 DEF PaysOwner
  <2>5. ASSUME NEW p \in Owners PROVE CallBalances(c, p)
    <3>1. /\ Moving(c, p, "earn") = (IF at = "earn" /\ p = q THEN n ELSE 0)
          /\ Moving(c, p, "unspend") = (IF at = "unspend" /\ p = q THEN n ELSE 0)
          /\ Moving(c, p, "earn")' = 0 /\ Moving(c, p, "unspend")' = 0
      BY <2>3 DEF Moving
    <3> HIDE DEF n, q, at
    <3>2. /\ lost'[p]["earn"] = lost[p]["earn"] + (IF at = "earn" /\ p = q THEN n ELSE 0)
          /\ lost'[p]["unspend"] = lost[p]["unspend"] + (IF at = "unspend" /\ p = q THEN n ELSE 0)
      <4>1. lost \in [Owners -> [Halfway -> Nat]]
        BY <1>0 DEF CETypeOK
      <4>2. CASE at \notin Halfway
        BY <1>4, <2>2, <4>1, <4>2 DEF Halfway
      <4>3. CASE at \in Halfway
        <5>1. lost' = [lost EXCEPT ![q] = [lost[q] EXCEPT ![at] = @ + n]]
          BY <2>2, <4>3
        <5>2. lost'[p] = IF p = q THEN [lost[q] EXCEPT ![at] = @ + n] ELSE lost[p]
          BY <2>1, <4>1, <5>1
        <5> QED
          BY <1>4, <2>1, <4>1, <4>3, <5>2 DEF Halfway
      <4> QED
        BY <4>2, <4>3
    <3>3. Charged(p)' = Charged(p) /\ Charged(p) \in Int
      BY <1>0, <2>2, ChargedSame, SumsAreInt
    <3> QED
      BY <1>4, <2>1, <2>2, <3>1, <3>2, <3>3 DEF Settled, CallBalances
  <2> QED
    BY <1>0, <2>3, <2>4, <2>5, CallAddsUp
<1>16. ASSUME UNCHANGED <<balance, earned, spent, calls, history>> PROVE AddUpInv'
  <2>1. UNCHANGED <<balance, earned, spent, step, owner, job, amount, used, lost>>
    BY <1>16 DEF calls, history
  <2>2. \A o \in Owners : Charged(o)' = Charged(o) /\ \A s : Pending(o, s)' = Pending(o, s)
    BY <2>1, ChargedSame, PendingSame
  <2> QED
    BY <2>1, <2>2 DEF PaysOwner, Conserved, ChargesAgree
<1> HIDE DEF CEInv, AddUpInv
<1>17. CASE CENext
  <2>1. ASSUME NEW c \in Callers, Continue(c) PROVE AddUpInv'
    BY <2>1, <1>6, <1>8, <1>9, <1>11, <1>12, <1>13 DEF Continue
  <2>2. ASSUME NEW j \in Jobs, ReservationExpires(j) PROVE AddUpInv'
    BY <2>2, <1>16 DEF ReservationExpires
  <2>3. UNCHANGED ceVars => AddUpInv'
    BY <1>16 DEF ceVars, accounts
  <2> QED
    BY <1>5, <1>7, <1>10, <1>14, <1>15, <1>17, <2>1, <2>2, <2>3
    DEF CENext, GrantRefused, ReserveRefused, NothingToSettle
<1>18. CASE UNCHANGED ceVars
  BY <1>16, <1>18 DEF ceVars, accounts
<1> QED
  BY <1>17, <1>18

\* What call c is about to refund of job j, and what all calls are.
RefundOf(c, j) == IF step[c] = "refund" /\ job[c] = j THEN amount[c] ELSE 0
Refunding(j) == SumFunctionOnSet([c \in Callers |-> RefundOf(c, j)], Callers)

\* The part of a reservation that a settlement may still refund.
Unread(j) == IF reserved[j] # Unreserved /\ j \notin refunding THEN reserved[j] ELSE 0

\* What a job was charged covers the refunds under way and those that may come, unless
\* one of its reservations is refunded twice.
RefundInv == \A j \in Jobs \ twice : used[j] >= Refunding(j) + Unread(j)

\* The refunds and what is left of a reservation are never negative.
LEMMA RefundsNat ==
  ASSUME CETypeOK, NEW j \in Jobs
  PROVE  Refunding(j) \in Nat /\ Unread(j) \in Nat
<1> DEFINE f == [d \in Callers |-> RefundOf(d, j)]
<1>1. \A d \in Callers : f[d] \in Nat
  BY DEF CETypeOK, RefundOf
<1> HIDE DEF f
<1>2. SumFunctionOnSet(f, Callers) \in Nat
  BY <1>1, SumNat
<1> QED
  BY <1>2 DEF Refunding, f, Unread, CETypeOK

\* A step of one call that takes from what covers the refunds no more than it takes
\* from the refunds.
LEMMA CallKeepsCover ==
  ASSUME CETypeOK, CETypeOK', RefundInv, twice \subseteq twice', NEW c \in Callers,
         \A d \in Callers \ {c} : /\ step'[d] = step[d] /\ job'[d] = job[d]
                                  /\ amount'[d] = amount[d],
         \A j \in Jobs \ twice' :
           used'[j] - RefundOf(c, j)' - Unread(j)' >= used[j] - RefundOf(c, j) - Unread(j)
  PROVE  RefundInv'
<1> SUFFICES ASSUME NEW j \in Jobs, j \notin twice'
             PROVE  used'[j] >= Refunding(j)' + Unread(j)'
  BY DEF RefundInv
<1> DEFINE f == [d \in Callers |-> RefundOf(d, j)]
           g == [d \in Callers |-> RefundOf(d, j)']
<1>1. \A d \in Callers : f[d] \in Int /\ g[d] \in Int
  BY DEF CETypeOK, RefundOf
<1>2. \A d \in Callers \ {c} : g[d] = f[d]
  BY DEF RefundOf
<1>3. f[c] = RefundOf(c, j) /\ g[c] = RefundOf(c, j)'
  OBVIOUS
<1>4. Refunding(j) = SumFunctionOnSet(f, Callers) /\ Refunding(j)' = SumFunctionOnSet(g, Callers)
  BY DEF Refunding
<1>a. f[c] \in Int /\ g[c] \in Int
  BY <1>1
<1> HIDE DEF f, g
<1>5. SumFunctionOnSet(g, Callers) = SumFunctionOnSet(f, Callers) + g[c] - f[c]
  BY <1>1, <1>2, SumChange
<1>6. Refunding(j) \in Int /\ Unread(j) \in Int /\ Unread(j)' \in Int
  BY RefundsNat DEF CETypeOK, Unread
<1>7. used[j] \in Int /\ used'[j] \in Int
  BY DEF CETypeOK
<1>8. used[j] >= Refunding(j) + Unread(j)
  BY DEF RefundInv
<1>9. used'[j] - g[c] - Unread(j)' >= used[j] - f[c] - Unread(j)
  BY <1>3
<1> QED
  BY <1>4, <1>5, <1>6, <1>7, <1>8, <1>9, <1>a

\* A refund is covered by the reservation that was read, once.
LEMMA RefundStep ==
  ASSUME CEInv, CEInv', RefundInv, [CENext]_ceVars
  PROVE  RefundInv'
<1> USE DEF CEInv
<1>0. CETypeOK /\ CETypeOK' /\ NoJob \notin Jobs /\ Nobody \notin Owners
  OBVIOUS
<1>1. ASSUME NEW c \in Callers, NEW s \in Steps, NEW o, NEW j, NEW n, Call(c, s, o, j, n)
      PROVE  /\ step'[c] = s /\ job'[c] = j /\ amount'[c] = n
             /\ \A d \in Callers \ {c} : /\ step'[d] = step[d] /\ job'[d] = job[d]
                                         /\ amount'[d] = amount[d]
  BY <1>0, <1>1 DEF Call, CETypeOK
<1>2. ASSUME NEW c \in Callers, NEW s \in Steps, Proceed(c, s)
      PROVE  /\ step'[c] = s /\ job'[c] = job[c] /\ amount'[c] = amount[c]
             /\ \A d \in Callers \ {c} : /\ step'[d] = step[d] /\ job'[d] = job[d]
                                         /\ amount'[d] = amount[d]
  BY <1>0, <1>2 DEF Proceed, CETypeOK
<1>3. ASSUME NEW j \in Jobs
      PROVE  /\ used[j] \in Int /\ Unread(j) \in Nat /\ Unread(j)' \in Nat
             /\ \A c \in Callers : RefundOf(c, j) \in Nat /\ RefundOf(c, j)' \in Nat
  BY <1>0 DEF CETypeOK, Unread, RefundOf
<1>4. ASSUME NEW c \in Callers, UNCHANGED <<used, reserved, refunding, twice>>, step'[c] # "refund",
             \A d \in Callers \ {c} : /\ step'[d] = step[d] /\ job'[d] = job[d]
                                      /\ amount'[d] = amount[d]
      PROVE  RefundInv'
  <2>1. ASSUME NEW j \in Jobs
        PROVE  used'[j] - RefundOf(c, j)' - Unread(j)' >= used[j] - RefundOf(c, j) - Unread(j)
    <3>1. RefundOf(c, j)' = 0 /\ Unread(j)' = Unread(j) /\ used'[j] = used[j]
      BY <1>4 DEF RefundOf, Unread
    <3> QED
      BY <1>3, <3>1
  <2> QED
    BY <1>0, <1>4, <2>1, CallKeepsCover
<1>5. ASSUME NEW c \in Callers,
             (\E o \in Owners : GrantCheck(c, o) \/ \E u \in Units : Award(c, o, u))
             \/ Earn(c) \/ GrantMark(c) \/ GrantAward(c) \/ SettleSpent(c) \/ CallerDies(c)
      PROVE  RefundInv'
  <2>1. /\ UNCHANGED <<used, reserved, refunding, twice>>
        /\ \/ \E s \in {"earn", "mark", "idle"} : \E o, j, n : Call(c, s, o, j, n)
           \/ \E s \in {"grant", "earn", "delete"} : Proceed(c, s)
    BY <1>5 DEF GrantCheck, Award, Earn, GrantMark, GrantAward, SettleSpent, CallerDies, Return,
               accounts, history
  <2>2. /\ step'[c] # "refund"
        /\ \A d \in Callers \ {c} : /\ step'[d] = step[d] /\ job'[d] = job[d]
                                    /\ amount'[d] = amount[d]
    BY <1>1, <1>2, <2>1 DEF Steps
  <2> QED
    BY <1>4, <2>1, <2>2
<1>6. ASSUME NEW c \in Callers, NEW j \in Jobs, NEW k \in Needs, SettleGet(c, j, k) PROVE RefundInv'
  <2> DEFINE n == Refund(j, k)
             s == IF n > 0 THEN "refund" ELSE "delete"
  <2>1. /\ step[c] = "idle" /\ Call(c, s, Owner[j], j, n) /\ UNCHANGED <<used, reserved>>
        /\ reserved[j] \in Nat /\ n \in Nat /\ n <= reserved[j]
    BY <1>0, <1>6 DEF SettleGet, Begin, accounts, CETypeOK, Refund
  <2>2. IF n > 0 THEN /\ refunding' = refunding \cup {j}
                      /\ twice' = IF j \in refunding THEN twice \cup {j} ELSE twice
                 ELSE UNCHANGED <<refunding, twice>>
    BY <1>6 DEF SettleGet
  <2> HIDE DEF n
  <2>3. /\ step'[c] = s /\ job'[c] = j /\ amount'[c] = n
        /\ \A d \in Callers \ {c} : /\ step'[d] = step[d] /\ job'[d] = job[d]
                                    /\ amount'[d] = amount[d]
    BY <1>1, <2>1 DEF Steps
  <2>4. CASE n = 0
    BY <1>4, <2>1, <2>2, <2>3, <2>4
  <2>5. CASE n > 0
    <3>1. twice \subseteq twice'
      BY <2>2, <2>5
    <3>2. ASSUME NEW i \in Jobs, i \notin twice'
          PROVE  used'[i] - RefundOf(c, i)' - Unread(i)' >= used[i] - RefundOf(c, i) - Unread(i)
      <4>1. RefundOf(c, i) = 0 /\ used'[i] = used[i]
        BY <2>1 DEF RefundOf
      <4>2. CASE i = j
        <5>1. j \notin refunding /\ j \in refunding'
          BY <2>2, <2>5, <3>2, <4>2
        <5>2. Unread(i) = reserved[j] /\ Unread(i)' = 0 /\ RefundOf(c, i)' = n
          BY <2>1, <2>3, <2>5, <4>2, <5>1 DEF Unread, RefundOf, Unreserved
        <5> QED
          BY <1>3, <2>1, <4>1, <5>2
      <4>3. CASE i # j
        <5>1. Unread(i)' = Unread(i) /\ RefundOf(c, i)' = 0
          BY <2>1, <2>2, <2>3, <2>5, <4>3 DEF Unread, RefundOf
        <5> QED
          BY <1>3, <4>1, <5>1
      <4> QED
        BY <4>2, <4>3
    <3> QED
      BY <1>0, <2>3, <3>1, <3>2, CallKeepsCover
  <2> QED
    BY <2>1, <2>4, <2>5
<1>7. ASSUME NEW c \in Callers, SettleBalance(c) PROVE RefundInv'
  <2>1. /\ step[c] = "refund" /\ used' = [used EXCEPT ![job[c]] = @ - amount[c]]
        /\ Proceed(c, "unspend") /\ UNCHANGED <<reserved, refunding, twice>>
        /\ job[c] \in Jobs /\ amount[c] \in Nat
    BY <1>0, <1>7 DEF SettleBalance, CETypeOK
  <2>2. /\ step'[c] = "unspend"
        /\ \A d \in Callers \ {c} : /\ step'[d] = step[d] /\ job'[d] = job[d]
                                    /\ amount'[d] = amount[d]
    BY <1>2, <2>1 DEF Steps
  <2>3. ASSUME NEW i \in Jobs
        PROVE  used'[i] - RefundOf(c, i)' - Unread(i)' >= used[i] - RefundOf(c, i) - Unread(i)
    <3>1. RefundOf(c, i)' = 0 /\ Unread(i)' = Unread(i)
      BY <2>1, <2>2 DEF RefundOf, Unread
    <3>2. /\ used'[i] = IF i = job[c] THEN used[i] - amount[c] ELSE used[i]
          /\ RefundOf(c, i) = IF i = job[c] THEN amount[c] ELSE 0
      BY <1>0, <2>1 DEF CETypeOK, RefundOf
    <3> QED
      BY <1>3, <2>1, <3>1, <3>2
  <2> QED
    BY <1>0, <2>1, <2>2, <2>3, CallKeepsCover
<1>8. ASSUME NEW c \in Callers, SettleDelete(c) PROVE RefundInv'
  <2>1. /\ step[c] = "delete" /\ Call(c, "idle", Nobody, NoJob, 0)
        /\ reserved' = [reserved EXCEPT ![job[c]] = Unreserved]
        /\ UNCHANGED <<used, refunding, twice>>
    BY <1>8 DEF SettleDelete, Return, history
  <2>2. /\ step'[c] = "idle"
        /\ \A d \in Callers \ {c} : /\ step'[d] = step[d] /\ job'[d] = job[d]
                                    /\ amount'[d] = amount[d]
    BY <1>1, <2>1 DEF Steps
  <2>3. ASSUME NEW i \in Jobs
        PROVE  used'[i] - RefundOf(c, i)' - Unread(i)' >= used[i] - RefundOf(c, i) - Unread(i)
    <3>1. RefundOf(c, i)' = 0 /\ RefundOf(c, i) = 0 /\ used'[i] = used[i]
      BY <2>1, <2>2 DEF RefundOf
    <3>2. Unread(i)' = 0 \/ Unread(i)' = Unread(i)
      BY <1>0, <2>1 DEF CETypeOK, Unread
    <3> QED
      BY <1>3, <3>1, <3>2
  <2> QED
    BY <1>0, <2>1, <2>2, <2>3, CallKeepsCover
<1>9. ASSUME NEW c \in Callers, NEW j \in Jobs, NEW n \in Needs, Reserve(c, j, n) PROVE RefundInv'
  <2>1. /\ used' = [used EXCEPT ![j] = @ + n] /\ reserved' = [reserved EXCEPT ![j] = n]
        /\ refunding' = refunding \ {j} /\ UNCHANGED <<step, job, amount, twice>> /\ n \in Nat
    BY <1>9 DEF Reserve, calls
  <2>2. ASSUME NEW i \in Jobs
        PROVE  used'[i] - RefundOf(c, i)' - Unread(i)' >= used[i] - RefundOf(c, i) - Unread(i)
    <3>1. RefundOf(c, i)' = RefundOf(c, i)
      BY <2>1 DEF RefundOf
    <3>2. CASE i = j
      <4>1. used'[i] = used[i] + n /\ Unread(i)' = n
        BY <1>0, <2>1, <3>2 DEF CETypeOK, Unread, Unreserved
      <4> QED
        BY <1>3, <2>1, <3>1, <4>1
    <3>3. CASE i # j
      <4>1. used'[i] = used[i] /\ Unread(i)' = Unread(i)
        BY <1>0, <2>1, <3>3 DEF CETypeOK, Unread
      <4> QED
        BY <1>3, <3>1, <4>1
    <3> QED
      BY <3>2, <3>3
  <2> QED
    BY <1>0, <2>1, <2>2, CallKeepsCover
<1>10. ASSUME UNCHANGED <<calls, history>>, \A i \in Jobs : Unread(i)' <= Unread(i) PROVE RefundInv'
  <2>1. \A i \in Jobs : Refunding(i)' = Refunding(i) /\ Refunding(i) \in Nat
    BY <1>0, <1>10, RefundsNat DEF Refunding, RefundOf, calls
  <2> QED
    BY <1>3, <1>10, <2>1 DEF RefundInv, history
<1>11. ASSUME NEW j \in Jobs, ReservationExpires(j) PROVE RefundInv'
  <2>1. ASSUME NEW i \in Jobs PROVE Unread(i)' <= Unread(i)
    <3>1. Unread(i)' = 0 \/ Unread(i)' = Unread(i)
      BY <1>0, <1>11 DEF ReservationExpires, CETypeOK, Unread, history
    <3> QED
      BY <1>3, <3>1
  <2> QED
    BY <1>10, <1>11, <2>1 DEF ReservationExpires
<1>12. CASE UNCHANGED ceVars
  <2>1. ASSUME NEW i \in Jobs PROVE Unread(i)' <= Unread(i)
    <3>1. Unread(i)' = Unread(i)
      BY <1>12 DEF ceVars, accounts, history, Unread
    <3> QED
      BY <1>3, <3>1
  <2> QED
    BY <1>10, <1>12, <2>1 DEF ceVars
<1> HIDE DEF CEInv
<1>13. CASE CENext
  <2>1. ASSUME NEW c \in Callers, Continue(c) PROVE RefundInv'
    BY <2>1, <1>5, <1>7, <1>8 DEF Continue
  <2> QED
    BY <1>5, <1>6, <1>9, <1>11, <1>12, <1>13, <2>1
    DEF CENext, GrantRefused, ReserveRefused, NothingToSettle
<1> QED
  BY <1>12, <1>13

\* Where the counters agree and every refund is covered, no settlement gave an owner
\* more than he had, unless one of his reservations is refunded twice.
LEMMA NothingCreated ==
  ASSUME CEInv, AddUpInv, RefundInv
  PROVE  CreditsAddUp
<1> USE DEF CEInv, AddUpInv
<1>1. ASSUME NEW j \in Jobs, j \notin twice PROVE used[j] \in Nat
  <2>1. Refunding(j) \in Nat /\ Unread(j) \in Nat /\ used[j] \in Int
    BY RefundsNat DEF CETypeOK
  <2> QED
    BY <1>1, <2>1 DEF RefundInv
<1>2. SpentIsCharged
  BY <1>1 DEF SpentIsCharged, RefundedOnce, ChargesAgree
<1>3. ASSUME NEW o \in Owners, RefundedOnce(o)
      PROVE  balance[o] <= earned[o] + Pending(o, "earn") + lost[o]["earn"]
  <2> DEFINE f == [j \in Jobs |-> ChargeOf(j, o)]
  <2>1. \A j \in Jobs : f[j] \in Nat
    BY <1>1, <1>3 DEF ChargeOf, RefundedOnce
  <2> HIDE DEF f
  <2>2. SumFunctionOnSet(f, Jobs) \in Nat
    BY <2>1, SumNat
  <2>3. Charged(o) \in Nat
    BY <2>2 DEF Charged, f
  <2>4. /\ balance[o] \in Int /\ spent[o] \in Int /\ earned[o] \in Int
        /\ lost[o]["earn"] \in Int /\ lost[o]["unspend"] \in Int
    BY DEF CETypeOK, Halfway
  <2>5. Pending(o, "earn") \in Int /\ Pending(o, "unspend") \in Int
    BY SumsAreInt
  <2>6. /\ balance[o] + spent[o] = earned[o] + Pending(o, "earn") + Pending(o, "unspend")
                                   + lost[o]["earn"] + lost[o]["unspend"]
        /\ spent[o] = Charged(o) + Pending(o, "unspend") + lost[o]["unspend"]
    BY DEF Conserved, ChargesAgree
  <2> QED
    BY <2>3, <2>4, <2>5, <2>6
<1> QED
  BY <1>2, <1>3 DEF CreditsAddUp, NoneCreated

\* However the commands of the calls interleave, and wherever a call dies, the counters
\* of an owner agree, what he has spent is what his jobs were charged, and no settlement
\* leaves him more than he was awarded, unless two refund the same reservation.
THEOREM CreditsAlwaysAddUp == CESpec => []CreditsAddUp
<1>1. CEInit => RefundInv
  <2> SUFFICES ASSUME CEInit, NEW j \in Jobs PROVE used[j] >= Refunding(j) + Unread(j)
    BY DEF RefundInv
  <2>1. \A c \in Callers : [d \in Callers |-> RefundOf(d, j)][c] = 0
    BY DEF CEInit, RefundOf
  <2>2. Refunding(j) = 0
    BY <2>1, SumZero DEF Refunding
  <2> QED
    BY <2>2 DEF CEInit, Unread
<1>2. CEInv /\ AddUpInv /\ RefundInv => CreditsAddUp
  BY NothingCreated
<1>3. CEInv /\ CEInv' /\ AddUpInv /\ RefundInv /\ [CENext]_ceVars => AddUpInv' /\ RefundInv'
  BY AddUpStep, RefundStep
<1> QED
  BY <1>1, <1>2, <1>3, AddUpInit, CEInvariance, PTL DEF CESpec

\* The grant of an owner is on its way: the call that marked him is about to award it.
OnItsWay(c, o) == owner[c] = o /\ step[c] \in {"grant", "earn"} /\ amount[c] >= Grant

\* The grant of an owner arrived, or died with its call.
Arrived(o) == earned[o] + lost[o]["grant"] + lost[o]["earn"] >= Grant

\* What GrantIsPaid leaves to fairness: a grant that was marked is never forgotten.
GrantNotForgotten == \A o \in granted : Arrived(o) \/ \E c \in Callers : OnItsWay(c, o)

\* A call that grants has the amount of the grant in hand.
GrantInv ==
  /\ \A o \in Owners : earned[o] >= 0
  /\ \A c \in Callers : step[c] \in {"mark", "grant"} => amount[c] = Grant
  /\ GrantNotForgotten

\* A step of one call that neither earns nor marks, and does not lose a grant on its way.
LEMMA GrantKept ==
  ASSUME CETypeOK, GrantInv, NEW c \in Callers,
         UNCHANGED <<earned, granted, lost>>,
         \A d \in Callers \ {c} : /\ step'[d] = step[d] /\ owner'[d] = owner[d]
                                  /\ amount'[d] = amount[d],
         step'[c] \in {"mark", "grant"} => amount'[c] = Grant,
         \A o \in Owners : OnItsWay(c, o) => OnItsWay(c, o)'
  PROVE  GrantInv'
<1>1. \A o \in granted : Arrived(o) = Arrived(o)'
  BY DEF Arrived
<1>2. \A o \in granted, d \in Callers : OnItsWay(d, o) => OnItsWay(d, o)'
  BY DEF OnItsWay, CETypeOK
<1>3. GrantNotForgotten'
  BY <1>1, <1>2 DEF GrantInv, GrantNotForgotten
<1> QED
  BY <1>3 DEF GrantInv

\* A grant leaves its call only towards the account, or is lost with the caller.
LEMMA GrantStep ==
  ASSUME CEInv, GrantInv, [CENext]_ceVars
  PROVE  GrantInv'
<1> USE DEF CEInv
<1>0. CETypeOK /\ NoJob \notin Jobs /\ Nobody \notin Owners
  OBVIOUS
<1>1. ASSUME NEW c \in Callers, NEW s \in Steps, NEW o, NEW j, NEW n, Call(c, s, o, j, n)
      PROVE  /\ step'[c] = s /\ owner'[c] = o /\ amount'[c] = n
             /\ \A d \in Callers \ {c} : /\ step'[d] = step[d] /\ owner'[d] = owner[d]
                                         /\ amount'[d] = amount[d]
  BY <1>0, <1>1 DEF Call, CETypeOK
<1>2. ASSUME NEW c \in Callers, NEW s \in Steps, Proceed(c, s)
      PROVE  /\ step'[c] = s /\ owner'[c] = owner[c] /\ amount'[c] = amount[c]
             /\ \A d \in Callers \ {c} : /\ step'[d] = step[d] /\ owner'[d] = owner[d]
                                         /\ amount'[d] = amount[d]
  BY <1>0, <1>2 DEF Proceed, CETypeOK
<1>3. ASSUME NEW c \in Callers, NEW o \in Owners, NEW u \in Units, Award(c, o, u) PROVE GrantInv'
  <2>1. /\ step[c] = "idle" /\ Call(c, "earn", o, NoJob, Credits(u))
        /\ UNCHANGED <<earned, granted, lost>>
    BY <1>3 DEF Award, Begin, history
  <2> QED
    BY <1>0, <1>1, <2>1, GrantKept DEF Steps, OnItsWay
<1>4. ASSUME NEW c \in Callers, NEW o \in Owners, GrantCheck(c, o) PROVE GrantInv'
  <2>1. /\ step[c] = "idle" /\ Call(c, "mark", o, NoJob, Grant)
        /\ UNCHANGED <<earned, granted, lost>>
    BY <1>4 DEF GrantCheck, Begin, accounts, history
  <2> QED
    BY <1>0, <1>1, <2>1, GrantKept DEF Steps, OnItsWay
<1>5. ASSUME NEW c \in Callers, GrantMark(c) PROVE GrantInv'
  <2>1. /\ step[c] = "mark" /\ granted' = granted \cup {owner[c]}
        /\ Proceed(c, "grant") /\ UNCHANGED <<earned, lost>>
    BY <1>5 DEF GrantMark, history
  <2>2. /\ step'[c] = "grant" /\ owner'[c] = owner[c] /\ amount'[c] = amount[c]
        /\ \A d \in Callers \ {c} : /\ step'[d] = step[d] /\ owner'[d] = owner[d]
                                    /\ amount'[d] = amount[d]
    BY <1>2, <2>1 DEF Steps
  <2>3. amount[c] = Grant /\ Grant \in Nat
    BY <2>1 DEF GrantInv, Grant
  <2>4. \A o \in Owners, d \in Callers : OnItsWay(d, o) => OnItsWay(d, o)'
    BY <2>1, <2>2 DEF OnItsWay
  <2>5. OnItsWay(c, owner[c])'
    BY <2>2, <2>3 DEF OnItsWay
  <2>6. \A o \in Owners : Arrived(o)' = Arrived(o)
    BY <2>1 DEF Arrived
  <2>7. GrantNotForgotten'
    <3> SUFFICES ASSUME NEW o \in granted' PROVE Arrived(o)' \/ \E d \in Callers : OnItsWay(d, o)'
      BY DEF GrantNotForgotten
    <3>1. CASE o = owner[c]
      <4>1. OnItsWay(c, o)'
        BY <2>2, <2>3, <3>1 DEF OnItsWay
      <4> QED
        BY <4>1
    <3>2. CASE o # owner[c]
      <4>1. o \in granted /\ o \in Owners
        BY <1>0, <2>1, <3>2 DEF CETypeOK
      <4> QED
        BY <2>4, <2>6, <4>1 DEF GrantInv, GrantNotForgotten
    <3> QED
      BY <3>1, <3>2
  <2> QED
    BY <2>1, <2>2, <2>3, <2>7 DEF GrantInv
<1>6. ASSUME NEW c \in Callers, GrantAward(c) PROVE GrantInv'
  <2>1. step[c] = "grant" /\ Proceed(c, "earn") /\ UNCHANGED <<earned, granted, lost>>
    BY <1>6 DEF GrantAward, history
  <2> QED
    BY <1>0, <1>2, <2>1, GrantKept DEF Steps, OnItsWay
<1>7. ASSUME NEW c \in Callers, Earn(c) PROVE GrantInv'
  <2>1. /\ step[c] = "earn" /\ earned' = [earned EXCEPT ![owner[c]] = @ + amount[c]]
        /\ Call(c, "idle", Nobody, NoJob, 0) /\ UNCHANGED <<granted, lost>>
    BY <1>7 DEF Earn, Return, history, IncrBy
  <2>2. /\ owner[c] \in Owners /\ amount[c] \in Nat
        /\ \A o \in Owners : earned[o] \in Int /\ lost[o]["grant"] \in Nat /\ lost[o]["earn"] \in Nat
    BY <1>0, <2>1 DEF CETypeOK, Halfway
  <2>3. \A o \in Owners : earned'[o] = IF o = owner[c] THEN earned[o] + amount[c] ELSE earned[o]
    BY <1>0, <2>1 DEF CETypeOK
  <2>4. /\ step'[c] = "idle"
        /\ \A d \in Callers \ {c} : /\ step'[d] = step[d] /\ owner'[d] = owner[d]
                                    /\ amount'[d] = amount[d]
    BY <1>1, <2>1 DEF Steps
  <2>5. \A o \in Owners : earned[o] >= 0 /\ earned'[o] >= 0
    BY <2>2, <2>3 DEF GrantInv
  <2>6. \A o \in Owners : Grant \in Int /\ (OnItsWay(c, o) => Arrived(o)') /\ (Arrived(o) => Arrived(o)')
    BY <2>1, <2>2, <2>3, <2>5 DEF OnItsWay, Arrived, Grant
  <2>7. \A o \in Owners, d \in Callers \ {c} : OnItsWay(d, o) => OnItsWay(d, o)'
    BY <2>4 DEF OnItsWay
  <2>8. GrantNotForgotten'
    BY <1>0, <2>1, <2>6, <2>7 DEF GrantInv, GrantNotForgotten, CETypeOK
  <2> QED
    BY <2>4, <2>5, <2>8 DEF GrantInv
<1>8. ASSUME NEW c \in Callers, NEW j \in Jobs, NEW k \in Needs, SettleGet(c, j, k) PROVE GrantInv'
  <2> DEFINE s == IF Refund(j, k) > 0 THEN "refund" ELSE "delete"
  <2>1. /\ step[c] = "idle" /\ Call(c, s, Owner[j], j, Refund(j, k))
        /\ UNCHANGED <<earned, granted, lost>>
    BY <1>8 DEF SettleGet, Begin, accounts, history
  <2> QED
    BY <1>0, <1>1, <2>1, GrantKept DEF Steps, OnItsWay
<1>9. ASSUME NEW c \in Callers, SettleBalance(c) \/ SettleSpent(c) \/ SettleDelete(c) PROVE GrantInv'
  <2>1. /\ step[c] \in {"refund", "unspend", "delete"} /\ UNCHANGED <<earned, granted, lost>>
        /\ Proceed(c, "unspend") \/ Proceed(c, "delete") \/ Call(c, "idle", Nobody, NoJob, 0)
    BY <1>9 DEF SettleBalance, SettleSpent, SettleDelete, Return, history
  <2>2. /\ step'[c] \in {"unspend", "delete", "idle"}
        /\ \A d \in Callers \ {c} : /\ step'[d] = step[d] /\ owner'[d] = owner[d]
                                    /\ amount'[d] = amount[d]
    BY <1>1, <1>2, <2>1 DEF Steps
  <2> QED
    BY <1>0, <2>1, <2>2, GrantKept DEF OnItsWay
<1>10. ASSUME NEW c \in Callers, CallerDies(c) PROVE GrantInv'
  <2> DEFINE at == step[c]
             q == owner[c]
             n == amount[c]
  <2>1. /\ lost' = IF at \in Halfway THEN [lost EXCEPT ![q][at] = @ + n] ELSE lost
        /\ Call(c, "idle", Nobody, NoJob, 0) /\ UNCHANGED <<earned, granted>>
    BY <1>10 DEF CallerDies, Return, accounts
  <2>2. q \in Owners /\ n \in Nat /\ lost \in [Owners -> [Halfway -> Nat]]
    BY <1>0, <1>10 DEF CallerDies, CETypeOK
  <2>3. /\ step'[c] = "idle"
        /\ \A d \in Callers \ {c} : /\ step'[d] = step[d] /\ owner'[d] = owner[d]
                                    /\ amount'[d] = amount[d]
    BY <1>1, <2>1 DEF Steps
  <2>4. ASSUME NEW o \in Owners
        PROVE  (OnItsWay(c, o) => Arrived(o)') /\ (Arrived(o) => Arrived(o)')
    <3>1. \A h \in Halfway : lost'[o][h] = lost[o][h] + (IF o = q /\ h = at THEN n ELSE 0)
      <4> HIDE DEF at, q, n
      <4>1. CASE at \notin Halfway
        BY <2>1, <2>2, <4>1
      <4>2. CASE at \in Halfway
        <5>1. lost' = [lost EXCEPT ![q] = [lost[q] EXCEPT ![at] = @ + n]]
          BY <2>1, <4>2
        <5>2. lost'[o] = IF o = q THEN [lost[q] EXCEPT ![at] = @ + n] ELSE lost[o]
          BY <2>2, <5>1
        <5> QED
          BY <2>2, <4>2, <5>2
      <4> QED
        BY <4>1, <4>2
    <3>2. /\ earned[o] \in Int /\ earned[o] >= 0 /\ earned'[o] = earned[o] /\ Grant \in Nat
          /\ lost[o]["grant"] \in Nat /\ lost[o]["earn"] \in Nat
      BY <1>0, <2>1 DEF CETypeOK, GrantInv, Halfway, Grant
    <3> QED
      BY <2>2, <3>1, <3>2 DEF OnItsWay, Arrived, Halfway
  <2>5. \A o \in Owners, d \in Callers \ {c} : OnItsWay(d, o) => OnItsWay(d, o)'
    BY <2>3 DEF OnItsWay
  <2>6. GrantNotForgotten'
    BY <1>0, <2>1, <2>4, <2>5 DEF GrantInv, GrantNotForgotten, CETypeOK
  <2> QED
    BY <2>1, <2>3, <2>6 DEF GrantInv
<1>11. ASSUME UNCHANGED <<earned, granted, lost, step, owner, amount>> PROVE GrantInv'
  BY <1>11 DEF GrantInv, GrantNotForgotten, Arrived, OnItsWay
<1> HIDE DEF CEInv
<1>12. CASE CENext
  <2>1. ASSUME NEW c \in Callers, Continue(c) PROVE GrantInv'
    BY <2>1, <1>5, <1>6, <1>7, <1>9 DEF Continue
  <2>2. ASSUME NEW c \in Callers, NEW j \in Jobs, NEW k \in Needs, Reserve(c, j, k) PROVE GrantInv'
    BY <2>2, <1>11 DEF Reserve, calls
  <2>3. ASSUME NEW j \in Jobs, ReservationExpires(j) PROVE GrantInv'
    BY <2>3, <1>11 DEF ReservationExpires, calls, history
  <2>4. UNCHANGED ceVars => GrantInv'
    BY <1>11 DEF ceVars, accounts, calls, history
  <2> QED
    BY <1>3, <1>4, <1>8, <1>10, <1>12, <2>1, <2>2, <2>3, <2>4
    DEF CENext, GrantRefused, ReserveRefused, NothingToSettle
<1>13. CASE UNCHANGED ceVars
  BY <1>11, <1>13 DEF ceVars, accounts, calls, history
<1> QED
  BY <1>12, <1>13

\* However calls interleave and die, an owner whose key is set has got the starter
\* grant, or a call that was not cut off is about to give it to him, or the call that
\* was to give it died: the safety half of GrantIsPaid.
THEOREM GrantNeverForgotten == CESpec => []GrantNotForgotten
<1>1. CEInit => GrantInv
  BY DEF CEInit, GrantInv, GrantNotForgotten
<1>2. CEInv /\ GrantInv /\ [CENext]_ceVars => GrantInv'
  BY GrantStep
<1>3. GrantInv => GrantNotForgotten
  BY DEF GrantInv
<1> QED
  BY <1>1, <1>2, <1>3, CEInvariance, PTL DEF CESpec

HIDE CreditAssumption

-----------------------------------------------------------------------------
(* The rate limiter *)

\* A day and the time in it.
LEMMA DayBounds ==
  ASSUME NEW t \in Int
  PROVE  /\ DayOf(t) \in Int
         /\ DayOf(t) * DayLength <= t
         /\ t < (DayOf(t) + 1) * DayLength
BY RateAssumption, Z3 DEF DayOf

\* A later time is not on an earlier day.
LEMMA DayIsMonotone ==
  ASSUME NEW s \in Int, NEW t \in Int, s <= t
  PROVE  DayOf(s) <= DayOf(t)
<1>1. /\ DayOf(s) \in Int /\ DayOf(t) \in Int /\ DayLength \in Nat \ {0}
      /\ DayOf(s) * DayLength <= s /\ t < (DayOf(t) + 1) * DayLength
  BY DayBounds, RateAssumption
<1> DEFINE a == DayOf(s)
           b == DayOf(t)
           L == DayLength
<1>2. a \in Int /\ b \in Int /\ L \in Nat \ {0} /\ a * L < (b + 1) * L
  BY <1>1
<1> HIDE DEF a, b, L
<1>3. a < b + 1
  BY <1>2, Z3
<1> QED
  BY <1>2, <1>3 DEF a, b

\* The clock runs to its bound, and days that have not begun are empty.
UsageShape ==
  /\ offset \in Offsets /\ time \in Nat /\ Today \in Days
  /\ bucket \in [Days -> Nat] /\ expiry \in [Days -> Int] /\ recent \in Nat
  /\ doing \in [Transfers -> {"new", "allowed", "over"}]
  /\ excused \subseteq Transfers
  /\ \A d \in Days : d > Today => bucket[d] = 0

\* While UTC is a day behind every record is deleted as it is made; otherwise what was
\* recorded today is there until the local day is over.
UsageLasts ==
  /\ UtcBehind => bucket[Today] = 0
  /\ ~UtcBehind =>
       /\ recent <= bucket[Today]
       /\ offset >= 0 => recent = bucket[Today]
       /\ bucket[Today] # 0 => expiry[Today] >= (Today + 1) * DayLength

\* A transfer that was allowed since the last midnight, and is alone, will not exceed
\* the limit.
AllowedFits ==
  excused = {} /\ ~UtcBehind =>
    \A x \in UnderWay : bucket[Today] + Size[x] <= Limit /\ UnderWay = {x}

\* The inductive invariant: the limit is kept because an allowed transfer still fits.
RlInv == UsageShape /\ UsageLasts /\ AllowedFits /\ LimitKept

\* The invariant says what the limiter promises.
LEMMA RlInvKept == RlInv => UsageKept
BY DEF RlInv, UsageShape, UsageLasts, UsageKept, RlTypeOK, UsageCounted

\* The clock starts on the first day, with empty buckets.
LEMMA RlInitInv == RlInit => RlInv
<1> SUFFICES ASSUME RlInit PROVE RlInv
  OBVIOUS
<1> USE RateAssumption
<1>1. time = DayLength /\ time \in Int /\ DayLength \in Nat \ {0} /\ MaxDays \in Nat \ {0}
  BY DEF RlInit
<1>2. DayOf(time) = 1
  BY <1>1, Z3 DEF DayOf
<1>3. Today = 1 /\ Today \in Days
  BY <1>1, <1>2 DEF Today, Days
<1>4. UsageShape
  BY <1>1, <1>3 DEF RlInit, UsageShape, Days
<1>5. UnderWay = {}
  BY DEF RlInit, UnderWay
<1> QED
  BY <1>3, <1>4, <1>5 DEF RlInit, RlInv, UsageLasts, AllowedFits, LimitKept

\* The days are numbers, and UTC is behind only east of it.
LEMMA DaysOfNow ==
  ASSUME UsageShape
  PROVE  /\ Today \in Int /\ UtcDay \in Int /\ NextMidnight \in Int
         /\ offset \in Int /\ (offset >= 0 => UtcDay <= Today) /\ (offset <= 0 => ~UtcBehind)
<1>1. time \in Int /\ offset \in Int /\ time - offset \in Int /\ DayLength \in Nat
  BY RateAssumption DEF UsageShape
<1>2. DayOf(time) \in Int /\ DayOf(time - offset) \in Int
  BY <1>1, DayBounds
<1>3. offset >= 0 => DayOf(time - offset) <= DayOf(time)
  BY <1>1, DayIsMonotone
<1>4. offset <= 0 => DayOf(time) <= DayOf(time - offset)
  BY <1>1, DayIsMonotone
<1>5. Today = DayOf(time) /\ UtcDay = DayOf(time - offset)
  BY DEF Today, UtcDay
<1>6. NextMidnight \in Int
  BY <1>1, <1>2, <1>5 DEF NextMidnight
<1> QED
  BY <1>1, <1>2, <1>3, <1>4, <1>5, <1>6 DEF UtcBehind

\* The midnight of an expiry is not before the end of this day, unless UTC is behind,
\* when it is over.
LEMMA MidnightComes ==
  ASSUME UsageShape
  PROVE  /\ ~UtcBehind => NextMidnight >= (Today + 1) * DayLength /\ NextMidnight > time
         /\ UtcBehind => NextMidnight <= time
<1> DEFINE a == Today
           b == UtcDay
           L == DayLength
           t == time
<1>1. a \in Int /\ b \in Int /\ L \in Nat /\ t \in Int
  BY DaysOfNow, RateAssumption DEF UsageShape
<1>2. a * L <= t /\ t < (a + 1) * L
  BY <1>1, DayBounds DEF Today
<1>3. NextMidnight = (b + 1) * L /\ (UtcBehind <=> b < a)
  BY DEF NextMidnight, UtcBehind
<1> HIDE DEF a, b, L, t
<1>4. b < a => (b + 1) * L <= a * L
  BY <1>1, Z3
<1>5. ~(b < a) => (a + 1) * L <= (b + 1) * L
  BY <1>1, Z3
<1>6. a * L \in Int /\ (a + 1) * L \in Int /\ (b + 1) * L \in Int
  BY <1>1
<1>7. /\ ~UtcBehind => NextMidnight >= (a + 1) * L /\ NextMidnight > t
      /\ UtcBehind => NextMidnight <= t
  BY <1>1, <1>2, <1>3, <1>4, <1>5, <1>6
<1> QED
  BY <1>7 DEF a, L, t

\* The clock moves on: the days do not go back, and the day stays within the bound.
LEMMA PassKeepsDays ==
  ASSUME UsageShape, Pass
  PROVE  /\ time' \in Nat /\ Today' \in Days /\ Today <= Today' /\ UtcDay <= UtcDay'
         /\ UtcDay' \in Int /\ (offset >= 0 => UtcDay' <= Today')
         /\ time' < (Today' + 1) * DayLength
<1>1. /\ time' = time + 1 /\ time' < (MaxDays + 1) * DayLength /\ offset' = offset
      /\ time \in Nat /\ offset \in Int
  BY RateAssumption DEF Pass, UsageShape
<1>2. /\ Today' = DayOf(time') /\ UtcDay' = DayOf(time' - offset) /\ Today = DayOf(time)
      /\ UtcDay = DayOf(time - offset)
  BY <1>1 DEF Today, UtcDay
<1>3. /\ Today' \in Int /\ Today' * DayLength <= time' /\ time' < (Today' + 1) * DayLength
      /\ UtcDay' \in Int
  BY <1>1, <1>2, DayBounds
<1>4. DayOf(time) <= DayOf(time') /\ DayOf(time - offset) <= DayOf(time' - offset)
  BY <1>1, DayIsMonotone
<1>5. offset >= 0 => DayOf(time' - offset) <= DayOf(time')
  BY <1>1, DayIsMonotone
<1>6. Today' \in Days
  <2> DEFINE t == Today'
             L == DayLength
             m == MaxDays
             now == time'
  <2>a. t \in Int /\ t * L <= now /\ now < (m + 1) * L
    BY <1>1, <1>3
  <2>b. L \in Nat \ {0} /\ m \in Nat /\ now \in Int
    BY <1>1, RateAssumption
  <2>c. t * L \in Int /\ (m + 1) * L \in Int
    BY <2>a, <2>b
  <2>2. Today \in Days /\ Today <= t
    BY <1>2, <1>4 DEF UsageShape
  <2>d. t * L < (m + 1) * L
    <3> DEFINE p == t * L
               q == (m + 1) * L
    <3>1. p \in Int /\ q \in Int /\ now \in Int /\ p <= now /\ now < q
      BY <2>a, <2>b, <2>c
    <3> HIDE DEF p, q, now
    <3>2. p < q
      BY <3>1
    <3> QED
      BY <3>2 DEF p, q
  <2> HIDE DEF t, L, m, now
  <2>3. t < m + 1
    BY <2>a, <2>b, <2>d, Z3
  <2>4. t \in 0..m
    BY <2>a, <2>b, <2>2, <2>3 DEF Days, m
  <2> QED
    BY <2>4 DEF t, m, Days
<1> QED
  BY <1>1, <1>2, <1>3, <1>4, <1>5, <1>6

\* Checks, records and failures of one transfer, and the clock.
LEMMA RlInvStep == RlInv /\ [RlNext]_rlVars => RlInv'
<1> SUFFICES ASSUME RlInv, [RlNext]_rlVars PROVE RlInv'
  OBVIOUS
<1> USE DEF RlInv
<1>0. /\ Today \in Days /\ Today \in Int /\ Days \subseteq Int /\ Limit \in Nat
      /\ Size \in [Transfers -> Nat] /\ offset \in Int
      /\ bucket \in [Days -> Nat] /\ recent \in Nat /\ expiry \in [Days -> Int]
      /\ doing \in [Transfers -> {"new", "allowed", "over"}] /\ excused \subseteq Transfers
      /\ \A d \in Days : d > Today => bucket[d] = 0
  BY DaysOfNow, RateAssumption DEF UsageShape, Days
<1>1. ASSUME NEW x \in Transfers, CheckTransfer(x) PROVE RlInv'
  <2>1. /\ UNCHANGED <<offset, time, bucket, expiry, recent>>
        /\ Today' = Today /\ (UtcBehind' <=> UtcBehind)
        /\ doing' = [doing EXCEPT ![x] = doing'[x]] /\ doing'[x] \in {"allowed", "over"}
        /\ doing'[x] = "allowed" => bucket[Today] + Size[x] <= Limit
        /\ excused' = IF UnderWay = {} THEN excused ELSE excused \cup {x}
    BY <1>0, <1>1 DEF CheckTransfer, Doing, Today, UtcDay, UtcBehind
  <2> HIDE DEF Today, UtcBehind
  <2>2. UsageShape'
    BY <2>1, <1>0 DEF UsageShape
  <2>3. UsageLasts' /\ LimitKept'
    BY <2>1 DEF UsageLasts, LimitKept
  <2>4. AllowedFits'
    <3> SUFFICES ASSUME excused' = {}, NEW y \in UnderWay'
                 PROVE  bucket[Today] + Size[y] <= Limit /\ UnderWay' = {y}
      BY <2>1 DEF AllowedFits
    <3>1. UnderWay = {}
      BY <2>1
    <3>2. \A z \in Transfers : z # x => z \notin UnderWay'
      BY <2>1, <1>0, <3>1 DEF UnderWay
    <3>3. y = x /\ UnderWay' = {x} /\ doing'[x] = "allowed"
      BY <3>2 DEF UnderWay
    <3> QED
      BY <2>1, <3>3
  <2> QED
    BY <2>2, <2>3, <2>4
<1>2. ASSUME NEW x \in Transfers, Record(x) PROVE RlInv'
  <2>1. /\ UNCHANGED <<offset, time, excused>>
        /\ Today' = Today /\ (UtcBehind' <=> UtcBehind)
        /\ doing' = [doing EXCEPT ![x] = "over"] /\ x \in UnderWay
        /\ expiry' = [expiry EXCEPT ![Today] = NextMidnight]
        /\ bucket' = [bucket EXCEPT ![Today] = IF NextMidnight <= time THEN 0 ELSE bucket[Today] + Size[x]]
        /\ recent' = recent + Size[x]
    BY <1>2 DEF Record, Doing, Today, UtcDay, UtcBehind, UnderWay
  <2>2. /\ NextMidnight \in Int /\ time \in Int /\ Size[x] \in Nat
        /\ ~UtcBehind => NextMidnight >= (Today + 1) * DayLength /\ NextMidnight > time
        /\ UtcBehind => NextMidnight <= time
    BY <1>0, DaysOfNow, MidnightComes DEF UsageShape
  <2> HIDE DEF Today, UtcBehind, NextMidnight
  <2>a. /\ UtcBehind => bucket'[Today] = 0
        /\ ~UtcBehind => bucket'[Today] = bucket[Today] + Size[x]
        /\ expiry'[Today] = NextMidnight /\ bucket[Today] \in Nat
    BY <2>1, <2>2, <1>0
  <2>3. UsageShape'
    <3>1. bucket' \in [Days -> Nat] /\ expiry' \in [Days -> Int] /\ recent' \in Nat
      BY <2>1, <2>2, <1>0
    <3>2. \A d \in Days : d > Today => bucket'[d] = 0
      BY <2>1, <1>0
    <3> QED
      BY <2>1, <1>0, <3>1, <3>2 DEF UsageShape
  <2>4. UsageLasts'
    BY <2>1, <2>2, <2>a, <1>0 DEF UsageLasts
  <2>5. AllowedFits' /\ LimitKept'
    <3> SUFFICES ASSUME excused = {}, ~UtcBehind
                 PROVE  UnderWay' = {} /\ recent' <= Limit
      BY <2>1 DEF AllowedFits, LimitKept
    <3>1. bucket[Today] + Size[x] <= Limit /\ UnderWay = {x} /\ recent <= bucket[Today]
      BY <2>1 DEF AllowedFits, UsageLasts
    <3>2. UnderWay' = {}
      BY <2>1, <1>0, <3>1 DEF UnderWay
    <3> QED
      BY <2>1, <2>2, <2>a, <1>0, <3>1, <3>2
  <2> QED
    BY <2>3, <2>4, <2>5
<1>3. ASSUME NEW x \in Transfers, TransferFails(x) PROVE RlInv'
  <2>1. /\ UNCHANGED <<offset, time, bucket, expiry, recent, excused>>
        /\ Today' = Today /\ (UtcBehind' <=> UtcBehind)
        /\ doing' = [doing EXCEPT ![x] = "over"]
    BY <1>3 DEF TransferFails, Doing, Today, UtcDay, UtcBehind
  <2> HIDE DEF Today, UtcBehind
  <2>2. UsageShape' /\ UsageLasts' /\ LimitKept'
    BY <2>1, <1>0 DEF UsageShape, UsageLasts, LimitKept
  <2>3. UnderWay' \subseteq UnderWay
    BY <2>1, <1>0 DEF UnderWay
  <2>4. AllowedFits'
    BY <2>1, <2>3 DEF AllowedFits
  <2> QED
    BY <2>2, <2>4
<1>4. ASSUME Pass PROVE RlInv'
  <2>1. /\ bucket' = [d \in Days |-> IF expiry[d] <= time' THEN 0 ELSE bucket[d]]
        /\ UNCHANGED <<offset, expiry, doing>> /\ UnderWay' = UnderWay
        /\ IF Today' = Today /\ UtcDay' = UtcDay
           THEN UNCHANGED <<recent, excused>>
           ELSE recent' = 0 /\ excused' = UnderWay
    BY <1>4 DEF Pass, UnderWay
  <2>2. /\ time' \in Nat /\ Today' \in Days /\ Today <= Today' /\ UtcDay <= UtcDay'
        /\ UtcDay' \in Int /\ UtcDay \in Int /\ Today' \in Int
        /\ time' < (Today' + 1) * DayLength
        /\ offset >= 0 => UtcDay <= Today /\ UtcDay' <= Today'
        /\ UtcBehind <=> UtcDay < Today
        /\ UtcBehind' <=> UtcDay' < Today'
    BY <1>4, <1>0, PassKeepsDays, DaysOfNow DEF UtcBehind
  <2>x. (Today + 1) * DayLength \in Int
    BY <1>0, RateAssumption
  <2> HIDE DEF Today, UtcDay, UtcBehind
  <2>3. \A d \in Days : bucket'[d] \in Nat /\ (bucket'[d] = 0 \/ bucket'[d] = bucket[d])
    BY <2>1, <1>0
  <2>4. UsageShape'
    <3>1. \A d \in Days : d > Today' => bucket'[d] = 0
      BY <2>2, <2>3, <1>0
    <3>2. UnderWay \subseteq Transfers
      BY DEF UnderWay
    <3>3. bucket' \in [Days -> Nat] /\ recent' \in Nat /\ excused' \subseteq Transfers
      BY <2>1, <1>0, <3>2
    <3> QED
      BY <2>1, <2>2, <1>0, <3>1, <3>3 DEF UsageShape
  <2>5. CASE Today' # Today
    <3>1. bucket[Today'] = 0 /\ bucket'[Today'] = 0 /\ recent' = 0 /\ excused' = UnderWay
      BY <2>1, <2>2, <2>3, <2>5, <1>0
    <3> QED
      BY <2>1, <2>4, <3>1, <1>0 DEF UsageLasts, AllowedFits, LimitKept
  <2>6. CASE Today' = Today /\ UtcDay' # UtcDay
    <3>1. recent' = 0 /\ excused' = UnderWay
      BY <2>1, <2>6
    <3>2. offset >= 0 => UtcBehind
      BY <2>2, <2>6
    <3>3. ~UtcBehind => ~UtcBehind'
      BY <2>2, <2>6, <1>0
    <3>4. UsageLasts'
      <4>1. CASE UtcBehind
        <5>1. bucket'[Today'] = 0
          BY <2>3, <2>6, <4>1, <1>0 DEF UsageLasts
        <5> QED
          BY <3>1, <5>1 DEF UsageLasts
      <4>2. CASE ~UtcBehind
        <5>1. bucket'[Today'] \in Nat /\ (bucket'[Today'] # 0 => bucket[Today] # 0)
          BY <2>3, <2>6, <1>0
        <5> QED
          BY <2>1, <2>6, <3>1, <3>2, <3>3, <4>2, <5>1 DEF UsageLasts
      <4> QED
        BY <4>1, <4>2
    <3>5. AllowedFits' /\ LimitKept'
      BY <2>1, <3>1, <1>0 DEF AllowedFits, LimitKept
    <3> QED
      BY <2>4, <3>4, <3>5
  <2>7. CASE Today' = Today /\ UtcDay' = UtcDay
    <3>1. UNCHANGED <<recent, excused>> /\ (UtcBehind' <=> UtcBehind)
      BY <2>1, <2>2, <2>7
    <3>2. UtcBehind => bucket'[Today] = 0
      BY <2>3, <1>0 DEF UsageLasts
    <3>3. ~UtcBehind => bucket'[Today] = bucket[Today]
      <4> SUFFICES ASSUME ~UtcBehind, bucket[Today] # 0 PROVE bucket'[Today] = bucket[Today]
        BY <2>3, <1>0
      <4>1. expiry[Today] >= (Today + 1) * DayLength /\ expiry[Today] \in Int
        BY <1>0 DEF UsageLasts
      <4>2. ~(expiry[Today] <= time')
        BY <2>2, <2>7, <2>x, <4>1
      <4> QED
        BY <2>1, <1>0, <4>2
    <3>4. UsageLasts'
      BY <2>1, <2>7, <3>1, <3>2, <3>3 DEF UsageLasts
    <3>5. AllowedFits' /\ LimitKept'
      BY <2>1, <2>7, <3>1, <3>3 DEF AllowedFits, LimitKept
    <3> QED
      BY <2>4, <3>4, <3>5
  <2> QED
    BY <2>5, <2>6, <2>7
<1>5. CASE UNCHANGED rlVars
  <2>1. UNCHANGED <<offset, time, bucket, expiry, doing, recent, excused>>
    BY <1>5 DEF rlVars
  <2> QED
    BY <2>1 DEF UsageShape, UsageLasts, AllowedFits, LimitKept, Today, UtcBehind, UtcDay, UnderWay
<1> HIDE DEF RlInv
<1> QED
  BY <1>1, <1>2, <1>3, <1>4, <1>5 DEF RlNext

\* For any transfers, limit, zone and length of a day: between two midnights the buckets
\* of rate_limiter.py count what is transferred, and no more than the limit is, while UTC
\* is not a day behind, for the limit no transfers overlap, and none was under way at the
\* first midnight.
THEOREM UsageIsKept == RlSpec => []UsageKept
BY RlInitInv, RlInvStep, RlInvKept, PTL DEF RlSpec

-----------------------------------------------------------------------------
(* Backups *)

UploadSteps == {"new", "put", "write", "record", "done", "dead"}

\* The tables and the uploads have the fields that the code gives them.
BackupShape ==
  /\ content \in [RemoteKeys -> Nat] /\ identity \in 1..2
  /\ doingUp \in [Uploads -> UploadSteps]
  /\ key \in [Uploads -> RemoteKeys \cup {NoKey}] /\ data \in [Uploads -> Nat]
  /\ touched \in [RemoteKeys -> Uploads \cup {0}] /\ overlapped \subseteq Uploads
  /\ DOMAIN records \subseteq Uploads /\ DOMAIN objects \subseteq RemoteKeys
  /\ \A u \in Uploads : doingUp[u] \in {"put", "write", "record", "done"} => key[u] \in RemoteKeys

\* A record was made by its upload.
RecordsOfUploads ==
  \A u \in DOMAIN records :
    doingUp[u] = "done" /\ records[u].remote_key = key[u] /\ records[u].checksum = data[u]

\* An upload past the put has an object under its key.
ObjectsPut ==
  \A u \in Uploads : doingUp[u] \in {"write", "record", "done"} => key[u] \in DOMAIN objects

\* Uploads that write one file at once are known to overlap, and there are none in a
\* bucket.
BesideIsOverlap ==
  /\ backend = "bucket" => \A u \in Uploads : doingUp[u] # "write"
  /\ \A u, v \in Uploads : doingUp[u] = "write" /\ v \in WritersBeside(u) => u \in overlapped

\* The last upload under a key has left there what it read, with the identity of the
\* node, or of its record once there is one, and nobody is writing there, unless it
\* overlapped.
LastWriterStands ==
  \A k \in RemoteKeys : touched[k] \in Uploads \ overlapped =>
    LET u == touched[k] IN
      doingUp[u] \in {"record", "done"} =>
        /\ objects[k].data = data[u]
        /\ doingUp[u] = "record" => objects[k].identity = identity
        /\ u \in DOMAIN records => objects[k].identity = records[u].identity
        /\ \A v \in Uploads : doingUp[v] = "write" => key[v] # k

\* An upload is the last under its key until another one writes.
WriterHasTouched ==
  \A k \in RemoteKeys : touched[k] \in Uploads =>
    key[touched[k]] = k /\ doingUp[touched[k]] \notin {"new", "put"}

\* A restore gives what an upload that ended has read.
RestoredWasRead ==
  \A r \in restored : r[1] \in Uploads /\ doingUp[r[1]] = "done" /\ r[2] = data[r[1]]

\* The inductive invariant: the checks of a restore compare what three calls wrote.
BaInv ==
  /\ BackupShape /\ RecordsOfUploads /\ ObjectsPut /\ BesideIsOverlap /\ LastWriterStands
  /\ WriterHasTouched /\ RestoredWasRead

\* The tables are empty and no upload has begun.
LEMMA BaInitInv == BaInit => BaInv
BY BackupAssumption
DEF BaInit, BaInv, BackupShape, RecordsOfUploads, ObjectsPut, BesideIsOverlap, LastWriterStands,
    WriterHasTouched, RestoredWasRead, UploadSteps

\* The last upload under a key restores: its record, the object and the key agree.
LEMMA BaInvKept == BaInv => BackupsKept
<1> SUFFICES ASSUME BaInv PROVE BackupsKept
  OBVIOUS
<1> USE BackupAssumption DEF BaInv, BackupShape
<1>1. BaTypeOK
  BY DEF BaTypeOK, UploadSteps, RecordsOfUploads, ObjectsPut
<1>2. ASSUME NEW k \in RemoteKeys, touched[k] \in DOMAIN records \ overlapped,
             records[touched[k]].identity = identity
      PROVE  Verified(records[touched[k]])
  <2> DEFINE u == touched[k]
  <2>1. u \in Uploads /\ doingUp[u] = "done" /\ key[u] = k
    BY <1>2 DEF RecordsOfUploads, WriterHasTouched
  <2>2. records[u].remote_key = k /\ records[u].checksum = data[u]
    BY <1>2, <2>1 DEF RecordsOfUploads
  <2>3. k \in DOMAIN objects
    BY <2>1 DEF ObjectsPut
  <2>4. objects[k].data = data[u] /\ objects[k].identity = records[u].identity
    BY <1>2, <2>1 DEF LastWriterStands
  <2> QED
    BY <1>2, <2>2, <2>3, <2>4 DEF Verified
<1>3. DownloadsAreWhole
  BY DEF DownloadsAreWhole, RestoredWasRead
<1> QED
  BY <1>1, <1>2, <1>3 DEF BackupsKept, LastUploadRestorable

\* What a put leaves: one object, of which its upload is the last writer.
LEMMA PutKeeps ==
  ASSUME BaInv, NEW u \in Uploads, NEW to \in {"write", "record", "dead"}, NEW written,
         doingUp' = [doingUp EXCEPT ![u] = to], doingUp[u] \in {"put", "write"},
         to = "record" => written = data[u] \/ u \in overlapped,
         to = "record" /\ doingUp[u] = "put" => backend = "bucket",
         to = "write" => backend = "local",
         overlapped' = IF to = "write" /\ WritersBeside(u) # {}
                       THEN overlapped \cup {u} \cup WritersBeside(u) ELSE overlapped,
         PutData(u, written)
  PROVE  BaInv'
<1> USE BackupAssumption DEF BaInv, BackupShape
<1> DEFINE k == key[u]
<1>1. k \in RemoteKeys
  OBVIOUS
<1>2. /\ DOMAIN objects' = DOMAIN objects \cup {k}
      /\ objects'[k].data = written /\ objects'[k].identity = identity
      /\ \A l \in DOMAIN objects \ {k} : objects'[l] = objects[l]
  BY <1>1 DEF PutData, With
<1>3. /\ touched' = [touched EXCEPT ![k] = u]
      /\ UNCHANGED <<backend, content, identity, records, key, data, restored>>
  BY DEF PutData
<1>4. /\ doingUp' \in [Uploads -> UploadSteps]
      /\ doingUp'[u] = to /\ \A v \in Uploads \ {u} : doingUp'[v] = doingUp[v]
      /\ u \notin DOMAIN records
  BY DEF UploadSteps, RecordsOfUploads
<1>5. /\ touched' \in [RemoteKeys -> Uploads \cup {0}]
      /\ touched'[k] = u /\ \A l \in RemoteKeys \ {k} : touched'[l] = touched[l] /\ touched[l] # u
  BY <1>1, <1>3 DEF WriterHasTouched
<1>a. overlapped \subseteq overlapped' /\ overlapped' \subseteq Uploads
  BY DEF WritersBeside
<1> HIDE DEF k
<1>6. BackupShape'
  BY <1>1, <1>2, <1>3, <1>4, <1>5, <1>a
<1>7. RecordsOfUploads'
  BY <1>3, <1>4 DEF RecordsOfUploads
<1>8. ObjectsPut'
  BY <1>2, <1>3, <1>4 DEF ObjectsPut, k
<1>b. ASSUME NEW v \in Uploads, NEW w \in Uploads, doingUp'[v] = "write", doingUp'[w] = "write",
             v # w, key[v] = key[w]
      PROVE  v \in overlapped'
  <2>1. CASE v # u /\ w # u
    <3>1. doingUp[v] = "write" /\ w \in WritersBeside(v)
      BY <2>1, <1>4, <1>b DEF WritersBeside
    <3> QED
      BY <3>1, <1>a DEF BesideIsOverlap
  <2>2. CASE v = u
    <3>1. to = "write" /\ w \in WritersBeside(u)
      BY <2>2, <1>4, <1>b DEF WritersBeside
    <3> QED
      BY <2>2, <3>1
  <2>3. CASE w = u
    <3>1. to = "write" /\ v \in WritersBeside(u)
      BY <2>3, <1>4, <1>b DEF WritersBeside
    <3> QED
      BY <3>1
  <2> QED
    BY <2>1, <2>2, <2>3
<1>c. BesideIsOverlap'
  <2>1. backend' = "bucket" => \A v \in Uploads : doingUp'[v] # "write"
    BY <1>3, <1>4 DEF BesideIsOverlap
  <2> QED
    BY <2>1, <1>3, <1>b DEF BesideIsOverlap, WritersBeside
<1>9. ASSUME NEW l \in RemoteKeys, touched'[l] \in Uploads \ overlapped',
             doingUp'[touched'[l]] \in {"record", "done"}
      PROVE  /\ objects'[l].data = data'[touched'[l]]
             /\ doingUp'[touched'[l]] = "record" => objects'[l].identity = identity'
             /\ touched'[l] \in DOMAIN records' => objects'[l].identity = records'[touched'[l]].identity
             /\ \A v \in Uploads : doingUp'[v] = "write" => key'[v] # l
  <2>1. CASE l = k
    <3>1. touched'[l] = u /\ to = "record" /\ u \notin overlapped /\ written = data[u]
      BY <2>1, <1>4, <1>5, <1>9, <1>a
    <3>2. ASSUME NEW v \in Uploads, doingUp'[v] = "write", key[v] = l PROVE FALSE
      <4>1. v # u /\ doingUp[v] = "write" /\ key[v] = key[u]
        BY <2>1, <3>1, <3>2, <1>4 DEF k
      <4>2. doingUp[u] # "put"
        BY <4>1, <3>1 DEF BesideIsOverlap
      <4>3. v \in WritersBeside(u) /\ doingUp[u] = "write"
        BY <4>1, <4>2 DEF WritersBeside
      <4> QED
        BY <3>1, <4>3 DEF BesideIsOverlap
    <3> QED
      BY <2>1, <3>1, <3>2, <1>2, <1>3, <1>4
  <2>2. CASE l # k
    <3>1. /\ touched'[l] = touched[l] /\ touched[l] # u /\ doingUp'[touched[l]] = doingUp[touched[l]]
          /\ key[touched[l]] = l /\ touched[l] \in Uploads \ overlapped
      BY <2>2, <1>4, <1>5, <1>9, <1>a DEF WriterHasTouched
    <3>2. objects'[l] = objects[l]
      BY <2>2, <3>1, <1>2, <1>9 DEF ObjectsPut
    <3>3. ASSUME NEW v \in Uploads, doingUp'[v] = "write" PROVE key[v] # l
      <4>1. CASE v = u
        BY <2>2, <4>1 DEF k
      <4>2. CASE v # u
        BY <3>1, <3>3, <4>2, <1>4, <1>9 DEF LastWriterStands
      <4> QED
        BY <4>1, <4>2
    <3> QED
      BY <3>1, <3>2, <3>3, <1>3, <1>9 DEF LastWriterStands
  <2> QED
    BY <2>1, <2>2
<1>10. LastWriterStands'
  BY <1>9 DEF LastWriterStands
<1>11. WriterHasTouched'
  BY <1>1, <1>3, <1>4, <1>5 DEF WriterHasTouched, k
<1>12. RestoredWasRead'
  BY <1>3, <1>4 DEF RestoredWasRead
<1> QED
  BY <1>6, <1>7, <1>8, <1>c, <1>10, <1>11, <1>12

\* Uploads, restores, expiring records and a lost identity, one by one.
LEMMA BaInvStep == BaInv /\ [BaNext]_baVars => BaInv'
<1> SUFFICES ASSUME BaInv, [BaNext]_baVars PROVE BaInv'
  OBVIOUS
<1> USE BackupAssumption DEF BaInv, BackupShape, RecordsOfUploads, ObjectsPut, LastWriterStands,
                             WriterHasTouched, RestoredWasRead, UploadSteps, Upload
<1>0. ASSUME UNCHANGED <<backend, key, overlapped>>,
             \A u \in Uploads : doingUp'[u] = "write" => doingUp[u] = "write"
      PROVE  BesideIsOverlap'
  BY <1>0 DEF BesideIsOverlap, WritersBeside
<1>1. ASSUME NEW k \in RemoteKeys, WriteCheckpoint(k) PROVE BaInv'
  BY <1>0, <1>1 DEF WriteCheckpoint
<1>2. ASSUME LoseIdentity PROVE BaInv'
  <2>1. /\ UNCHANGED <<backend, content, objects, records, doingUp, key, data, touched, overlapped, restored>>
        /\ identity' \in 1..2
        /\ \A u \in Uploads : doingUp[u] # "record"
    BY <1>2 DEF LoseIdentity
  <2>2. LastWriterStands'
    BY <2>1
  <2>3. /\ BackupShape' /\ RecordsOfUploads' /\ ObjectsPut' /\ WriterHasTouched' /\ RestoredWasRead'
        /\ BesideIsOverlap'
    BY <2>1, <1>0
  <2> QED
    BY <2>2, <2>3
<1>3. ASSUME NEW u \in Uploads, NEW k \in RemoteKeys, ReadCheckpoint(u, k) PROVE BaInv'
  <2>1. /\ doingUp[u] = "new" /\ doingUp' = [doingUp EXCEPT ![u] = "put"]
        /\ key' = [key EXCEPT ![u] = k] /\ data' = [data EXCEPT ![u] = content[k]]
        /\ UNCHANGED <<backend, content, identity, objects, records, touched, overlapped, restored>>
    BY <1>3 DEF ReadCheckpoint
  <2>2. /\ doingUp'[u] = "put"
        /\ \A v \in Uploads \ {u} : /\ doingUp'[v] = doingUp[v] /\ key'[v] = key[v]
                                    /\ data'[v] = data[v]
    BY <2>1
  <2>3. BesideIsOverlap'
    BY <2>1, <2>2 DEF BesideIsOverlap, WritersBeside
  <2>4. LastWriterStands'
    BY <2>1, <2>2
  <2>5. BackupShape' /\ RecordsOfUploads' /\ ObjectsPut' /\ WriterHasTouched' /\ RestoredWasRead'
    BY <2>1, <2>2
  <2> QED
    BY <2>3, <2>4, <2>5
<1>4. ASSUME NEW u \in Uploads, PutObject(u) PROVE BaInv'
  <2>1. key[u] \in RemoteKeys /\ data[u] \in Nat
    BY <1>4 DEF PutObject, LocalPut
  <2>2. PICK to \in {"write", "record"}, written \in Nat :
          /\ doingUp' = [doingUp EXCEPT ![u] = to] /\ doingUp[u] \in {"put", "write"}
          /\ to = "record" => written = data[u] \/ u \in overlapped
          /\ to = "record" /\ doingUp[u] = "put" => backend = "bucket"
          /\ to = "write" => backend = "local"
          /\ overlapped' = IF to = "write" /\ WritersBeside(u) # {}
                           THEN overlapped \cup {u} \cup WritersBeside(u) ELSE overlapped
          /\ PutData(u, written)
    BY <1>4, <2>1 DEF PutObject, LocalPut
  <2> HIDE DEF BaInv
  <2> QED
    BY <2>1, <2>2, PutKeeps
<1>5. ASSUME NEW u \in Uploads, SaveRecord(u) PROVE BaInv'
  <2>1. /\ DOMAIN records' = DOMAIN records \cup {u}
        /\ records'[u].remote_key = key[u] /\ records'[u].checksum = data[u]
        /\ records'[u].identity = identity
        /\ \A v \in DOMAIN records \ {u} : records'[v] = records[v]
    BY <1>5 DEF SaveRecord, With
  <2>2. /\ doingUp[u] = "record" /\ doingUp' = [doingUp EXCEPT ![u] = "done"]
        /\ UNCHANGED <<backend, content, identity, objects, key, data, touched, overlapped, restored>>
    BY <1>5 DEF SaveRecord
  <2>3. BesideIsOverlap'
    BY <1>0, <2>2
  <2>4. LastWriterStands'
    BY <2>1, <2>2
  <2>5. BackupShape' /\ RecordsOfUploads' /\ ObjectsPut' /\ WriterHasTouched' /\ RestoredWasRead'
    BY <2>1, <2>2
  <2> QED
    BY <2>3, <2>4, <2>5
<1>6. ASSUME NEW u \in Uploads, UploadDies(u) PROVE BaInv'
  <2>1. /\ doingUp' = [doingUp EXCEPT ![u] = "dead"] /\ UNCHANGED overlapped
        /\ doingUp[u] \in {"put", "write", "record"}
    BY <1>6 DEF UploadDies
  <2>2. CASE doingUp[u] = "write"
    <3>1. PICK written : PutData(u, written)
      BY <1>6, <2>2 DEF UploadDies
    <3> HIDE DEF BaInv
    <3> QED
      BY <2>1, <2>2, <3>1, PutKeeps
  <2>3. CASE doingUp[u] # "write"
    <3>1. UNCHANGED <<backend, content, identity, objects, records, key, data, touched, restored>>
      BY <1>6, <2>3 DEF UploadDies
    <3>2. BesideIsOverlap'
      BY <1>0, <2>1, <3>1
    <3>3. LastWriterStands'
      BY <2>1, <3>1
    <3>4. BackupShape' /\ RecordsOfUploads' /\ ObjectsPut' /\ WriterHasTouched' /\ RestoredWasRead'
      BY <2>1, <3>1
    <3> QED
      BY <3>2, <3>3, <3>4
  <2> QED
    BY <2>2, <2>3
<1>7. ASSUME NEW u \in Uploads, RecordExpires(u) PROVE BaInv'
  BY <1>0, <1>7 DEF RecordExpires, Restrict
<1>8. ASSUME NEW u \in Uploads, Download(u) PROVE BaInv'
  BY <1>0, <1>8 DEF Download, Verified
<1>9. CASE UNCHANGED baVars
  BY <1>0, <1>9 DEF baVars
<1> HIDE DEF BaInv
<1> QED
  BY <1>1, <1>2, <1>3, <1>4, <1>5, <1>6, <1>7, <1>8, <1>9 DEF BaNext

\* Whatever uploads interleave, fail or die (backup.py:67-231): the last upload under a
\* key can be restored, of a local file if it was not open to two uploads at once, while
\* the node has the identity that it was encrypted with; and a restore gives what the
\* upload of that record has read.
THEOREM BackupsAreKept == BaSpec => []BackupsKept
BY BaInitInv, BaInvStep, BaInvKept, PTL DEF BaSpec

-----------------------------------------------------------------------------
(* The quota *)

\* The jobs that a tier may run at a time.
MaxJobs(t) == TIERS[t].max_concurrent_jobs

\* The counter is exact, one admitted job at most is not yet counted, and it fits.
CountInv ==
  ~raced /\ ~expired =>
    /\ active = Cardinality(Counted)
    /\ active <= MaxJobs(resolve_tier(units))
    /\ \A j, i \in At("admitted") : j = i
    /\ At("admitted") # {} => active + 1 <= MaxJobs(resolve_tier(units))

\* A tier that was read is not above the present one.
TiersRise == \A j \in Applicants : MaxJobs(tier[j]) <= MaxJobs(resolve_tier(units))

\* Whoever has passed check() fits its tier.
CheckedFits ==
  \A j \in Applicants : stage[j] \in {"count", "admitted", "counted", "running"} =>
    Fits(Request[j], TIERS[tier[j]])

\* The inductive invariant: a job is admitted only while the counter is exact.
QuInv == QuTypeOK /\ CheckedFits /\ TiersRise /\ CountInv

\* resolve_tier() gives one of the tiers, and more jobs for more hours.
LEMMA TierIs ==
  ASSUME NEW u \in Nat
  PROVE  /\ resolve_tier(u) \in DOMAIN TIERS
         /\ MaxJobs(resolve_tier(u)) = IF u >= 20 THEN 5 ELSE IF u >= 1 THEN 2 ELSE 1
<1>1. resolve_tier(u) = IF u >= 20 THEN "power" ELSE IF u >= 1 THEN "contributor" ELSE "free"
  BY DEF resolve_tier
<1> QED
  BY <1>1 DEF TIERS, QuotaPolicy, MaxJobs

\* A tier allows one, two or five jobs.
LEMMA TierMax ==
  ASSUME NEW t \in DOMAIN TIERS
  PROVE  MaxJobs(t) \in {1, 2, 5}
BY DEF TIERS, QuotaPolicy, MaxJobs

\* The jobs in the counter are finitely many.
LEMMA CountedIs ==
  /\ Counted = {j \in Applicants : stage[j] \in {"counted", "running", "deciding", "cut", "died"}}
  /\ IsFiniteSet(Counted) /\ Cardinality(Counted) \in Nat
  /\ Counted = {} => Cardinality(Counted) = 0
<1>1. Counted = {j \in Applicants : stage[j] \in {"counted", "running", "deciding", "cut", "died"}}
  BY DEF Counted, At
<1>2. Counted \subseteq Applicants
  BY <1>1
<1> QED
  BY <1>1, <1>2, FS_Subset, FS_CardinalityType, FS_EmptySet, QuotaAssumption

\* The invariant says what the quota promises: who runs is counted.
LEMMA QuInvKept == QuInv => QuotaKept
<1> SUFFICES ASSUME QuInv, ~raced, ~expired, NEW j \in At("running")
             PROVE  Cardinality(At("running")) <= MaxJobs(resolve_tier(units))
  BY DEF QuInv, CountInv, QuotaKept, ActiveIsExact, ConcurrencyKept, MaxJobs
<1>1. At("running") \subseteq Counted
  BY DEF Counted
<1>2. Cardinality(At("running")) <= Cardinality(Counted) /\ Cardinality(At("running")) \in Nat
  BY <1>1, CountedIs, FS_Subset, FS_CardinalityType
<1>3. MaxJobs(resolve_tier(units)) \in Nat
  BY TierIs DEF QuInv, QuTypeOK
<1> QED
  BY <1>2, <1>3, CountedIs DEF QuInv, CountInv

\* Nobody has applied and nobody has contributed.
LEMMA QuInitInv == QuInit => QuInv
<1> SUFFICES ASSUME QuInit PROVE QuInv
  OBVIOUS
<1>1. MaxJobs("free") = 1 /\ resolve_tier(0) = "free" /\ "free" \in DOMAIN TIERS
  BY DEF TIERS, QuotaPolicy, MaxJobs, resolve_tier
<1>2. Counted = {} /\ At("admitted") = {} /\ At("running") = {}
  BY DEF QuInit, Counted, At
<1>3. Cardinality(Counted) = 0
  BY <1>2, CountedIs
<1>4. timed \in BOOLEAN /\ raced \in BOOLEAN /\ expired \in BOOLEAN
  BY Zenon DEF QuInit
<1>5. QuTypeOK /\ CheckedFits /\ TiersRise
  BY <1>1, <1>2, <1>4 DEF QuInit, QuTypeOK, CheckedFits, TiersRise
<1>6. CountInv
  BY <1>1, <1>2, <1>3 DEF QuInit, CountInv
<1> QED
  BY <1>5, <1>6 DEF QuInv

\* The types, the tiers that were read and the checks that were passed, step by step.
LEMMA QuTypeStep ==
  ASSUME QuTypeOK, CheckedFits, TiersRise, [QuNext]_quVars
  PROVE  QuTypeOK' /\ CheckedFits' /\ TiersRise'
<1> USE QuotaAssumption DEF QuTypeOK, CheckedFits, At, Ended
<1> HIDE DEF TiersRise
<1>1. ASSUME Contribute PROVE QuTypeOK' /\ CheckedFits' /\ TiersRise'
  <2>1. /\ units' \in Nat /\ available' \in Nat /\ units' > units
        /\ UNCHANGED <<active, timed, stage, tier, raced, expired>>
    BY <1>1 DEF Contribute
  <2>2. MaxJobs(resolve_tier(units)) <= MaxJobs(resolve_tier(units'))
    BY <2>1, TierIs
  <2>3. TiersRise'
    <3> SUFFICES ASSUME NEW j \in Applicants PROVE MaxJobs(tier[j]) <= MaxJobs(resolve_tier(units'))
      BY <2>1 DEF TiersRise, MaxJobs
    <3>1. MaxJobs(tier[j]) <= MaxJobs(resolve_tier(units)) /\ MaxJobs(tier[j]) \in Int
      BY TierMax DEF TiersRise
    <3> QED
      BY <2>1, <2>2, <3>1, TierIs
  <2> QED
    BY <2>1, <2>3
<1>2. ASSUME NEW j \in Applicants, ReadTier(j) PROVE QuTypeOK' /\ CheckedFits' /\ TiersRise'
  <2>1. /\ stage[j] = "new" /\ stage' = [stage EXCEPT ![j] = "tier"]
        /\ tier' = [tier EXCEPT ![j] = resolve_tier(units)]
        /\ UNCHANGED <<units, available, active, timed, raced, expired>>
    BY <1>2 DEF ReadTier, Stage
  <2>2. resolve_tier(units) \in DOMAIN TIERS
    BY TierIs
  <2>3. TiersRise'
    <3> SUFFICES ASSUME NEW i \in Applicants PROVE MaxJobs(tier'[i]) <= MaxJobs(resolve_tier(units))
      BY <2>1 DEF TiersRise, MaxJobs
    <3>1. CASE i = j
      <4>1. tier'[i] = resolve_tier(units)
        BY <2>1, <3>1
      <4>2. MaxJobs(tier'[i]) \in Int
        BY <2>2, <4>1, TierMax
      <4> QED
        BY <4>1, <4>2
    <3>2. CASE i # j
      BY <2>1, <3>2 DEF TiersRise
    <3> QED
      BY <3>1, <3>2
  <2> QED
    BY <2>1, <2>2, <2>3
<1>3. ASSUME UNCHANGED <<units, tier>> PROVE TiersRise'
  BY <1>3 DEF TiersRise, MaxJobs
<1>4. ASSUME NEW j \in Applicants, Check(j) PROVE QuTypeOK' /\ CheckedFits' /\ TiersRise'
  BY <1>3, <1>4 DEF Check, Stage
<1>5. ASSUME NEW j \in Applicants, CountActive(j) PROVE QuTypeOK' /\ CheckedFits' /\ TiersRise'
  BY <1>3, <1>5 DEF CountActive, Stage
<1>6. ASSUME NEW j \in Applicants, Increment(j) \/ Decrement(j) PROVE QuTypeOK' /\ CheckedFits' /\ TiersRise'
  BY <1>3, <1>6 DEF Increment, Decrement, Stage
<1>7. ASSUME NEW j \in Applicants, SetExpiry(j) \/ Read(j) PROVE QuTypeOK' /\ CheckedFits' /\ TiersRise'
  BY <1>3, <1>7 DEF SetExpiry, Read, Stage
<1>8. ASSUME NEW j \in Applicants, ApplicantDies(j) PROVE QuTypeOK' /\ CheckedFits' /\ TiersRise'
  <2>1. PICK to \in {"refused", "cut", "died"} : stage' = [stage EXCEPT ![j] = to]
    BY <1>8 DEF ApplicantDies
  <2> QED
    BY <1>3, <1>8, <2>1 DEF ApplicantDies
<1>9. ASSUME Expire PROVE QuTypeOK' /\ CheckedFits' /\ TiersRise'
  <2>1. UNCHANGED <<units, available, stage, tier, raced>> /\ active' = 0
    BY <1>9 DEF Expire
  <2>2. expired' \in BOOLEAN /\ timed' \in BOOLEAN
    BY <1>9, Zenon DEF Expire
  <2> QED
    BY <1>3, <2>1, <2>2
<1>10. CASE UNCHANGED quVars
  BY <1>3, <1>10 DEF quVars
<1> HIDE DEF QuTypeOK, CheckedFits
<1> QED
  BY <1>1, <1>2, <1>4, <1>5, <1>6, <1>7, <1>8, <1>9, <1>10 DEF QuNext, JobStep

\* A step of a job that does not move it in or out of Counted.
LEMMA CountFrame ==
  ASSUME QuTypeOK, CountInv, NEW j \in Applicants, NEW to,
         stage' = [stage EXCEPT ![j] = to], to # "admitted",
         to \in {"counted", "running", "deciding", "cut", "died"} <=> j \in Counted,
         UNCHANGED <<units, active>>, ~raced' /\ ~expired' => ~raced /\ ~expired
  PROVE  CountInv'
<1> SUFFICES ASSUME ~raced, ~expired
             PROVE  /\ active = Cardinality(Counted')
                    /\ active <= MaxJobs(resolve_tier(units))
                    /\ \A i, k \in At("admitted")' : i = k
                    /\ At("admitted")' # {} => active + 1 <= MaxJobs(resolve_tier(units))
  BY DEF CountInv, MaxJobs
<1>1. Counted' = Counted
  BY DEF QuTypeOK, Counted, At
<1>2. At("admitted")' \subseteq At("admitted")
  BY DEF QuTypeOK, At
<1> QED
  BY <1>1, <1>2 DEF CountInv

\* The counter, step by step: it moves together with Counted.
LEMMA CountStep ==
  ASSUME QuTypeOK, TiersRise, CountInv, [QuNext]_quVars
  PROVE  CountInv'
<1>0. /\ stage \in [Applicants -> {"new", "tier", "count", "admitted", "counted", "running",
                                   "deciding"} \cup Ended]
      /\ units \in Nat /\ active \in Int /\ tier \in [Applicants -> DOMAIN TIERS]
  BY DEF QuTypeOK
<1>1. ASSUME Contribute PROVE CountInv'
  <2>1. units' \in Nat /\ units' > units /\ UNCHANGED <<active, stage, raced, expired>>
    BY <1>1, QuotaAssumption DEF Contribute, QuTypeOK
  <2>2. /\ MaxJobs(resolve_tier(units)) <= MaxJobs(resolve_tier(units'))
        /\ MaxJobs(resolve_tier(units)) \in Int /\ MaxJobs(resolve_tier(units')) \in Int
    BY <1>0, <2>1, TierIs
  <2>3. Counted' = Counted /\ At("admitted")' = At("admitted")
    BY <2>1 DEF Counted, At
  <2>4. MaxJobs(resolve_tier(units))' = MaxJobs(resolve_tier(units'))
    BY DEF MaxJobs
  <2> QED
    BY <1>0, <2>1, <2>2, <2>3, <2>4 DEF CountInv
<1>2. ASSUME NEW j \in Applicants, ReadTier(j) \/ Check(j) PROVE CountInv'
  <2>1. PICK to \in {"tier", "count", "refused"} : stage' = [stage EXCEPT ![j] = to]
    BY <1>2 DEF ReadTier, Check, Stage
  <2>2. stage[j] \in {"new", "tier"} /\ UNCHANGED <<units, active, raced, expired>>
    BY <1>2 DEF ReadTier, Check, Stage
  <2>3. ~raced' /\ ~expired' => ~raced /\ ~expired
    BY <2>2, Zenon
  <2>4. j \notin Counted
    BY <2>2, CountedIs
  <2> QED
    BY <2>1, <2>2, <2>3, <2>4, CountFrame
<1>3. ASSUME NEW j \in Applicants, CountActive(j) PROVE CountInv'
  <2>1. /\ stage[j] = "count" /\ UNCHANGED <<units, active, expired>>
        /\ ~raced' => ~raced /\ At("admitted") = {}
    BY <1>3 DEF CountActive, Stage
  <2>0. (~raced' /\ ~expired' => ~raced /\ ~expired) /\ j \notin Counted
    <3>1. j \notin Counted
      BY <2>1, CountedIs
    <3> QED
      BY <2>1, <3>1, Zenon
  <2>2. CASE active >= MaxJobs(tier[j])
    <3>1. stage' = [stage EXCEPT ![j] = "refused"]
      BY <1>3, <2>2 DEF CountActive, Stage, MaxJobs
    <3> QED
      BY <2>0, <2>1, <3>1, CountFrame
  <2>3. CASE ~(active >= MaxJobs(tier[j]))
    <3>1. stage' = [stage EXCEPT ![j] = "admitted"]
      BY <1>3, <2>3 DEF CountActive, Stage, MaxJobs
    <3> SUFFICES ASSUME ~raced', ~expired
                 PROVE  /\ active = Cardinality(Counted')
                        /\ active + 1 <= MaxJobs(resolve_tier(units))
                        /\ active <= MaxJobs(resolve_tier(units))
                        /\ \A i, k \in At("admitted")' : i = k
      BY <2>1 DEF CountInv, MaxJobs
    <3>2. Counted' = Counted
      BY <1>0, <2>1, <3>1 DEF Counted, At
    <3>3. \A i \in At("admitted")' : i = j
      BY <1>0, <2>1, <3>1 DEF At
    <3>4. /\ MaxJobs(tier[j]) <= MaxJobs(resolve_tier(units)) /\ MaxJobs(tier[j]) \in Int
          /\ MaxJobs(resolve_tier(units)) \in Int
      BY <1>0, TierIs, TierMax DEF TiersRise
    <3> QED
      BY <1>0, <2>1, <2>3, <3>2, <3>3, <3>4 DEF CountInv
  <2> QED
    BY <2>2, <2>3
<1>4. ASSUME NEW j \in Applicants, Increment(j) PROVE CountInv'
  <2>1. /\ stage[j] = "admitted" /\ UNCHANGED <<units, raced, expired>>
        /\ active' = active + 1 /\ stage' = [stage EXCEPT ![j] = "counted"]
    BY <1>4 DEF Increment, Stage
  <2> SUFFICES ASSUME ~raced, ~expired
               PROVE  /\ active' = Cardinality(Counted')
                      /\ active' <= MaxJobs(resolve_tier(units))
                      /\ At("admitted")' = {}
    BY <2>1 DEF CountInv, MaxJobs
  <2>2. Counted' = Counted \cup {j} /\ j \notin Counted
    BY <1>0, <2>1 DEF Counted, At
  <2>3. Cardinality(Counted') = Cardinality(Counted) + 1
    BY <2>2, CountedIs, FS_AddElement
  <2>4. j \in At("admitted") /\ \A i \in At("admitted") : i = j
    BY <2>1 DEF CountInv, At
  <2>5. At("admitted")' = {}
    BY <1>0, <2>1, <2>4 DEF At
  <2> QED
    BY <2>1, <2>3, <2>4, <2>5 DEF CountInv
<1>5. ASSUME NEW j \in Applicants, SetExpiry(j) PROVE CountInv'
  <2>1. /\ stage[j] = "counted" /\ UNCHANGED <<units, active, raced, expired>>
        /\ stage' = [stage EXCEPT ![j] = "running"]
    BY <1>5 DEF SetExpiry, Stage
  <2>2. j \in Counted
    BY <2>1, CountedIs
  <2>3. ~raced' /\ ~expired' => ~raced /\ ~expired
    BY <2>1, Zenon
  <2> QED
    BY <2>1, <2>2, <2>3, CountFrame
<1>6. ASSUME NEW j \in Applicants, Read(j) PROVE CountInv'
  <2>1. /\ stage[j] = "running" /\ UNCHANGED <<units, active, expired>>
        /\ raced => raced'
        /\ stage' = [stage EXCEPT ![j] = IF active > 0 THEN "deciding" ELSE "over"]
    BY <1>6 DEF Read, Stage
  <2>0. j \in Counted
    BY <2>1, CountedIs
  <2>4. ~raced' /\ ~expired' => ~raced /\ ~expired
    BY <2>1, Zenon
  <2>2. CASE active > 0
    <3>1. stage' = [stage EXCEPT ![j] = "deciding"]
      BY <2>1, <2>2
    <3> QED
      BY <2>0, <2>4, <2>1, <3>1, CountFrame
  <2>3. CASE ~(active > 0)
    <3> SUFFICES ASSUME ~raced, ~expired PROVE FALSE
      BY <2>4, Zenon DEF CountInv
    <3>2. Cardinality(Counted) # 0
      BY <2>0, CountedIs, FS_EmptySet
    <3> QED
      BY <2>3, <3>2, CountedIs DEF CountInv
  <2> QED
    BY <2>2, <2>3
<1>7. ASSUME NEW j \in Applicants, Decrement(j) PROVE CountInv'
  <2>1. /\ stage[j] = "deciding" /\ UNCHANGED <<units, raced, expired>>
        /\ active' = active - 1 /\ stage' = [stage EXCEPT ![j] = "over"]
    BY <1>7 DEF Decrement, Stage
  <2> SUFFICES ASSUME ~raced, ~expired
               PROVE  /\ active' = Cardinality(Counted')
                      /\ active' <= MaxJobs(resolve_tier(units))
                      /\ \A i, k \in At("admitted")' : i = k
                      /\ At("admitted")' # {} => active' + 1 <= MaxJobs(resolve_tier(units))
    BY <2>1 DEF CountInv, MaxJobs
  <2>2. Counted' = Counted \ {j} /\ j \in Counted
    BY <1>0, <2>1 DEF Counted, At
  <2>3. Cardinality(Counted') = Cardinality(Counted) - 1
    BY <2>2, CountedIs, FS_RemoveElement
  <2>4. At("admitted")' = At("admitted")
    BY <1>0, <2>1 DEF At
  <2>5. MaxJobs(resolve_tier(units)) \in Int
    BY <1>0, TierIs
  <2> QED
    BY <1>0, <2>1, <2>3, <2>4, <2>5 DEF CountInv
<1>8. ASSUME NEW j \in Applicants, ApplicantDies(j) PROVE CountInv'
  <2>1. /\ stage[j] \notin Ended /\ UNCHANGED <<units, active, raced, expired>>
    BY <1>8 DEF ApplicantDies
  <2>2. PICK to \in {"refused", "cut", "died"} :
          /\ stage' = [stage EXCEPT ![j] = to]
          /\ to = "refused" <=> stage[j] \in {"new", "tier", "count", "admitted"}
    BY <1>8 DEF ApplicantDies
  <2>3. to # "refused" <=> j \in Counted
    BY <1>0, <2>1, <2>2, CountedIs DEF Ended
  <2>4. ~raced' /\ ~expired' => ~raced /\ ~expired
    BY <2>1, Zenon
  <2> QED
    BY <2>1, <2>2, <2>3, <2>4, CountFrame
<1>9. ASSUME Expire PROVE CountInv'
  <2>1. active' = 0 /\ UNCHANGED <<units, stage>>
    BY <1>9 DEF Expire
  <2>2. ~raced' /\ ~expired' => ~raced /\ ~expired /\ Counted = {}
    BY <1>9, Zenon DEF Expire
  <2>3. Counted' = Counted /\ At("admitted")' = At("admitted")
    BY <2>1 DEF Counted, At
  <2>4. MaxJobs(resolve_tier(units)) \in {1, 2, 5}
    BY <1>0, TierIs
  <2>5. MaxJobs(resolve_tier(units))' = MaxJobs(resolve_tier(units))
    BY <2>1 DEF MaxJobs
  <2> SUFFICES ASSUME ~raced, ~expired, Counted = {}
               PROVE  /\ 0 = Cardinality(Counted)
                      /\ 0 <= MaxJobs(resolve_tier(units))
                      /\ \A j, i \in At("admitted") : j = i
                      /\ 0 + 1 <= MaxJobs(resolve_tier(units))
    BY <2>1, <2>2, <2>3, <2>5 DEF CountInv
  <2> QED
    BY <2>4, CountedIs DEF CountInv
<1>10. CASE UNCHANGED quVars
  BY <1>10 DEF quVars, CountInv, Counted, At, MaxJobs
<1> QED
  BY <1>1, <1>2, <1>3, <1>4, <1>5, <1>6, <1>7, <1>8, <1>9, <1>10 DEF QuNext, JobStep

\* For any applicants and contributions: while no check has raced an admission and the
\* counter has not expired under a job, active_jobs of quota.py is exact and no user
\* runs more jobs than the tier allows.
THEOREM QuotaIsKept == QuSpec => []QuotaKept
<1>1. QuInv /\ [QuNext]_quVars => QuInv'
  BY QuTypeStep, CountStep DEF QuInv
<1> QED
  BY <1>1, QuInitInv, QuInvKept, PTL DEF QuSpec

\* A counter without expiry has a caller who has yet to call expire(), or who died
\* before it did.
WillExpire == active > 0 /\ ~timed => \E j \in Applicants : stage[j] \in {"counted", "cut"}

\* A caller that counts its job is one, until it sets the expiry.
LEMMA WillExpireStep ==
  ASSUME QuTypeOK, WillExpire, [QuNext]_quVars
  PROVE  WillExpire'
<1> SUFFICES ASSUME active' > 0, ~timed' PROVE \E j \in Applicants : stage'[j] \in {"counted", "cut"}
  BY DEF WillExpire
<1> DEFINE Still == \E j \in Applicants : stage'[j] \in {"counted", "cut"}
<1>1. ASSUME active > 0, ~timed,
             \A j \in Applicants : stage[j] \in {"counted", "cut"} => stage'[j] \in {"counted", "cut"}
      PROVE  Still
  BY <1>1 DEF WillExpire
<1>2. ASSUME NEW j \in Applicants, NEW from, NEW to, Stage(j, from, to),
             from # "counted" \/ to = "cut", from # "cut", active > 0, ~timed
      PROVE  Still
  <2>1. stage[j] = from /\ stage'[j] = to /\ \A k \in Applicants \ {j} : stage'[k] = stage[k]
    BY <1>2 DEF Stage, QuTypeOK
  <2> QED
    BY <1>1, <1>2, <2>1
<1>3. CASE Contribute
  BY <1>1, <1>3 DEF Contribute
<1>4. ~Expire
  BY DEF Expire
<1>5. ASSUME NEW j \in Applicants, JobStep(j) PROVE Still
  <2>1. CASE ReadTier(j)
    BY <1>2, <2>1 DEF ReadTier
  <2>2. CASE Check(j)
    BY <1>2, <2>2 DEF Check
  <2>3. CASE CountActive(j)
    BY <1>2, <2>3 DEF CountActive
  <2>4. CASE Increment(j)
    BY <2>4 DEF Increment, Stage, QuTypeOK
  <2>5. ~SetExpiry(j)
    <3>1. ASSUME SetExpiry(j) PROVE active # 0
      BY <3>1 DEF SetExpiry
    <3>2. SetExpiry(j) /\ active # 0 => timed'
      BY Zenon DEF SetExpiry
    <3> QED
      BY <3>1, <3>2
  <2>6. CASE Read(j)
    BY <1>2, <2>6 DEF Read
  <2>7. CASE Decrement(j)
    <3>1. active > 0
      BY <2>7 DEF Decrement, QuTypeOK
    <3> QED
      BY <1>2, <2>7, <3>1 DEF Decrement
  <2> QED
    BY <1>5, <2>1, <2>2, <2>3, <2>4, <2>5, <2>6, <2>7 DEF JobStep
<1>6. ASSUME NEW j \in Applicants, ApplicantDies(j) PROVE Still
  <2>1. stage[j] # "cut" /\ (stage[j] = "counted" => stage'[j] = "cut")
    BY <1>6 DEF ApplicantDies, Ended, QuTypeOK
  <2>2. \A k \in Applicants \ {j} : stage'[k] = stage[k]
    BY <1>6 DEF ApplicantDies, QuTypeOK
  <2> QED
    BY <1>1, <1>6, <2>1, <2>2 DEF ApplicantDies
<1>7. CASE UNCHANGED quVars
  BY <1>1, <1>7 DEF quVars
<1> QED
  BY <1>3, <1>4, <1>5, <1>6, <1>7 DEF QuNext

\* What LimitRecovers leaves to fairness: a counter that nobody is about to give an
\* expiry has one, or is not positive, unless a caller died between incr() and expire().
THEOREM CounterWillExpire == QuSpec => []WillExpire
<1>1. QuInit => WillExpire
  BY DEF QuInit, WillExpire
<1>2. QuTypeOK /\ WillExpire /\ [QuNext]_quVars => WillExpire'
  BY WillExpireStep
<1>3. QuotaKept => QuTypeOK
  BY DEF QuotaKept
<1> QED
  BY <1>1, <1>2, <1>3, QuotaIsKept, PTL DEF QuSpec
=============================================================================
