----------------------------- MODULE CreditEngine -----------------------------
(***************************************************************************)
(* The credit accounts of ledger/credits.py.  reserve() is one Lua script; *)
(* every other method is a sequence of Redis commands, and the calls of    *)
(* several processes interleave between any two of them.  The transaction  *)
(* log is left out: no method reads it.                                    *)
(***************************************************************************)
EXTENDS Integers, FiniteSets, Functions

CONSTANTS Owners, Jobs, Callers,
          Owner,        \* the owner of each job
          Units,        \* bound: compute units that one award() converts
          Needs,        \* bound: credits that reserve() and settlement are called with
          CreditRate, FreeTierCredits, MaxCredits,   \* CREDIT_RATE, ...
          MaxCalls,     \* bound: calls that change the accounts
          Nobody, NoJob

Credits(units) == LET c == units * CreditRate IN IF c < MaxCredits THEN c ELSE MaxCredits

\* What grant_free_tier() awards: FREE_TIER_CREDITS / CREDIT_RATE units.
Grant == IF FreeTierCredits < MaxCredits THEN FreeTierCredits ELSE MaxCredits

ASSUME CreditAssumption ==
  /\ Owner \in [Jobs -> Owners]
  /\ Units \subseteq Nat /\ Needs \subseteq Nat
  /\ CreditRate \in Nat /\ FreeTierCredits \in Nat /\ MaxCredits \in Nat
  /\ MaxCalls \in Nat
  /\ IsFiniteSet(Jobs) /\ IsFiniteSet(Callers)
  /\ Nobody \notin Owners /\ NoJob \notin Jobs

Unreserved == -1     \* there is no credits:reserved:<job> key

VARIABLES
  balance, earned, spent,   \* credits:balance:<owner>, ...
  granted,                  \* owners with a credits:free_tier_granted:<owner> key
  reserved,                 \* credits:reserved:<job> -> credits
  step,                     \* the next command of each caller
  owner, job, amount,       \* its arguments
  made,                     \* calls that changed the accounts so far
  used,                     \* history: what each job was charged: reservations less refunds
  refunding,                \* history: jobs whose reservation a settlement refunds or refunded
  twice,                    \* history: jobs with a reservation that two settlements refund
  lost                      \* history: amounts of the calls that died halfway

accounts == <<balance, earned, spent, granted, reserved>>
calls == <<step, owner, job, amount>>
history == <<used, refunding, twice, lost>>
ceVars == <<accounts, calls, made, history>>

\* Where a call has updated one of the accounts and not yet the other.
Halfway == {"grant", "earn", "unspend"}

CEInit ==
  /\ balance = [o \in Owners |-> 0]
  /\ earned = [o \in Owners |-> 0]
  /\ spent = [o \in Owners |-> 0]
  /\ granted = {}
  /\ reserved = [j \in Jobs |-> Unreserved]
  /\ step = [c \in Callers |-> "idle"]
  /\ owner = [c \in Callers |-> Nobody]
  /\ job = [c \in Callers |-> NoJob]
  /\ amount = [c \in Callers |-> 0]
  /\ made = 0
  /\ used = [j \in Jobs |-> 0] /\ refunding = {} /\ twice = {}
  /\ lost = [o \in Owners |-> [s \in Halfway |-> 0]]

IncrBy(counter, o, n) == [counter EXCEPT ![o] = @ + n]

Call(c, s, o, j, n) ==
  /\ step' = [step EXCEPT ![c] = s]
  /\ owner' = [owner EXCEPT ![c] = o]
  /\ job' = [job EXCEPT ![c] = j]
  /\ amount' = [amount EXCEPT ![c] = n]

\* A method of the engine is called by an idle process.
Begin(c) == step[c] = "idle" /\ made < MaxCalls /\ made' = made + 1

Proceed(c, s) == step' = [step EXCEPT ![c] = s] /\ UNCHANGED <<owner, job, amount>>

Return(c) == Call(c, "idle", Nobody, NoJob, 0)

-----------------------------------------------------------------------------
(* Earning *)

\* award(): INCRBYFLOAT of the balance.
Award(c, o, units) ==
  /\ Begin(c)
  /\ balance' = IncrBy(balance, o, Credits(units))
  /\ Call(c, "earn", o, NoJob, Credits(units))
  /\ UNCHANGED <<earned, spent, granted, reserved, history>>

\* award(): INCRBYFLOAT of the lifetime counter.
Earn(c) ==
  /\ step[c] = "earn"
  /\ earned' = IncrBy(earned, owner[c], amount[c])
  /\ Return(c)
  /\ UNCHANGED <<balance, spent, granted, reserved, made, history>>

\* grant_free_tier(): EXISTS of the key; the method returns when it is there.
GrantCheck(c, o) ==
  /\ Begin(c)
  /\ o \notin granted
  /\ Call(c, "mark", o, NoJob, Grant)
  /\ UNCHANGED <<accounts, history>>

\* Mutant of GrantMark: the method returns when the key is set.
GrantMarkOnly(c) ==
  /\ step[c] = "mark"
  /\ granted' = granted \cup {owner[c]}
  /\ Return(c)
  /\ UNCHANGED <<balance, earned, spent, reserved, made, history>>

\* grant_free_tier() returns False.
GrantRefused(c, o) == step[c] = "idle" /\ o \in granted /\ UNCHANGED ceVars

\* grant_free_tier(): SET of the key.
GrantMark(c) ==
  /\ step[c] = "mark"
  /\ granted' = granted \cup {owner[c]}
  /\ Proceed(c, "grant")
  /\ UNCHANGED <<balance, earned, spent, reserved, made, history>>

\* grant_free_tier() calls award().
GrantAward(c) ==
  /\ step[c] = "grant"
  /\ balance' = IncrBy(balance, owner[c], amount[c])
  /\ Proceed(c, "earn")
  /\ UNCHANGED <<earned, spent, granted, reserved, made, history>>

-----------------------------------------------------------------------------
(* Spending *)

\* Mutant of Affords: the script compares the wrong way round at the boundary.
AffordsAlmost(o, n) == balance[o] + 1 >= n

\* if balance < needed then return 0 end
Affords(o, n) == balance[o] >= n

\* reserve(): the script does everything at once, or nothing.
Reserve(c, j, n) ==
  /\ Begin(c)
  /\ Affords(Owner[j], n)
  /\ balance' = IncrBy(balance, Owner[j], -n)
  /\ spent' = IncrBy(spent, Owner[j], n)
  /\ reserved' = [reserved EXCEPT ![j] = n]
  /\ used' = [used EXCEPT ![j] = @ + n]
  /\ refunding' = refunding \ {j}
  /\ UNCHANGED <<earned, granted, calls, twice, lost>>

\* reserve() returns False, and release_reservation() without a reservation None.
ReserveRefused(c, j, n) == step[c] = "idle" /\ ~Affords(Owner[j], n) /\ UNCHANGED ceVars
NothingToSettle(c, j) == step[c] = "idle" /\ reserved[j] = Unreserved /\ UNCHANGED ceVars

\* max(0.0, reserved - used_credits)
Refund(j, n) == IF reserved[j] > n THEN reserved[j] - n ELSE 0

\* release_reservation(): GET of the reservation; the method returns when there
\* is none.  A refund of nothing goes straight to the deletion.
SettleGet(c, j, n) ==
  /\ Begin(c)
  /\ reserved[j] # Unreserved
  /\ Call(c, IF Refund(j, n) > 0 THEN "refund" ELSE "delete", Owner[j], j, Refund(j, n))
  /\ IF Refund(j, n) > 0
     THEN /\ refunding' = refunding \cup {j}
          /\ twice' = IF j \in refunding THEN twice \cup {j} ELSE twice
     ELSE UNCHANGED <<refunding, twice>>
  /\ UNCHANGED <<accounts, used, lost>>

SettleBalance(c) ==
  /\ step[c] = "refund"
  /\ balance' = IncrBy(balance, owner[c], amount[c])
  /\ used' = [used EXCEPT ![job[c]] = @ - amount[c]]
  /\ Proceed(c, "unspend")
  /\ UNCHANGED <<earned, spent, granted, reserved, made, refunding, twice, lost>>

\* Mutant of SettleSpent: the amount is added and not subtracted.
SettleSpendsAgain(c) ==
  /\ step[c] = "unspend"
  /\ spent' = IncrBy(spent, owner[c], amount[c])
  /\ Proceed(c, "delete")
  /\ UNCHANGED <<balance, earned, granted, reserved, made, history>>

SettleSpent(c) ==
  /\ step[c] = "unspend"
  /\ spent' = IncrBy(spent, owner[c], -amount[c])
  /\ Proceed(c, "delete")
  /\ UNCHANGED <<balance, earned, granted, reserved, made, history>>

SettleDelete(c) ==
  /\ step[c] = "delete"
  /\ reserved' = [reserved EXCEPT ![job[c]] = Unreserved]
  /\ Return(c)
  /\ UNCHANGED <<balance, earned, spent, granted, made, history>>

-----------------------------------------------------------------------------
\* credits:reserved:<job> lives for 86400 seconds.
ReservationExpires(j) ==
  /\ reserved[j] # Unreserved
  /\ reserved' = [reserved EXCEPT ![j] = Unreserved]
  /\ UNCHANGED <<balance, earned, spent, granted, calls, made, history>>

\* The calling process dies, or Redis fails one of its commands.
CallerDies(c) ==
  /\ step[c] # "idle"
  /\ lost' = IF step[c] \in Halfway THEN [lost EXCEPT ![owner[c]][step[c]] = @ + amount[c]]
             ELSE lost
  /\ Return(c)
  /\ UNCHANGED <<accounts, made, used, refunding, twice>>

Continue(c) ==
  \/ Earn(c) \/ GrantMark(c) \/ GrantAward(c)
  \/ SettleBalance(c) \/ SettleSpent(c) \/ SettleDelete(c)

CENext ==
  \/ \E c \in Callers :
       \/ \E o \in Owners :
            GrantCheck(c, o) \/ GrantRefused(c, o) \/ \E u \in Units : Award(c, o, u)
       \/ \E j \in Jobs, n \in Needs :
            Reserve(c, j, n) \/ ReserveRefused(c, j, n) \/ SettleGet(c, j, n)
       \/ \E j \in Jobs : NothingToSettle(c, j)
       \/ Continue(c)
       \/ CallerDies(c)
  \/ \E j \in Jobs : ReservationExpires(j)

CESpec == CEInit /\ [][CENext]_ceVars

\* A method that was called runs to its end, unless its process dies.
CEFairSpec == CESpec /\ \A c \in Callers : WF_ceVars(Continue(c))

-----------------------------------------------------------------------------
(* What the accounts guarantee *)

Steps == {"idle", "earn", "mark", "grant", "refund", "unspend", "delete"}

CETypeOK ==
  /\ balance \in [Owners -> Int] /\ earned \in [Owners -> Int] /\ spent \in [Owners -> Int]
  /\ granted \in SUBSET Owners
  /\ reserved \in [Jobs -> Nat \cup {Unreserved}]
  /\ step \in [Callers -> Steps]
  /\ owner \in [Callers -> Owners \cup {Nobody}]
  /\ job \in [Callers -> Jobs \cup {NoJob}]
  /\ amount \in [Callers -> Nat]
  /\ made \in Nat
  /\ used \in [Jobs -> Int] /\ refunding \subseteq Jobs /\ twice \subseteq Jobs
  /\ lost \in [Owners -> [Halfway -> Nat]]
  /\ \A c \in Callers :
       /\ step[c] = "idle" <=> owner[c] = Nobody
       /\ step[c] \in {"refund", "unspend", "delete"} <=> job[c] # NoJob

\* Nobody spends credits that he does not have: a balance is never negative,
\* however many reservations, settlements and grants run at once, and whoever
\* dies or expires.
NeverOverdrawn == \A o \in Owners : balance[o] >= 0

\* The credits of o that caller c moves at step s, and those of all callers.
Moving(c, o, s) == IF step[c] = s /\ owner[c] = o THEN amount[c] ELSE 0
Pending(o, s) == SumFunctionOnSet([c \in Callers |-> Moving(c, o, s)], Callers)

\* "Thread-safe via Redis atomic operations" (credits.py:47): the three counters of
\* an owner agree between the commands of any number of calls, and a call that dies
\* spoils them by no more than it was about to move.  It does not say that no credit
\* is created: two refunds of one reservation move two counters alike.
Conserved ==
  \A o \in Owners :
    balance[o] + spent[o] = earned[o] + Pending(o, "earn") + Pending(o, "unspend")
                            + lost[o]["earn"] + lost[o]["unspend"]

\* What the jobs of an owner were charged.
ChargeOf(j, o) == IF Owner[j] = o THEN used[j] ELSE 0
Charged(o) == SumFunctionOnSet([j \in Jobs |-> ChargeOf(j, o)], Jobs)

\* An owner none of whose reservations was refunded by two settlements, that overlap
\* or of which the first died before it deleted the reservation.
RefundedOnce(o) == \A j \in Jobs : Owner[j] = o => j \notin twice

\* What such an owner has spent is what his jobs were charged, and none of them was
\* charged less than nothing, however often they are reserved and settled and
\* whatever expires, up to the refunds that are halfway or died there.
SpentIsCharged ==
  \A o \in Owners : RefundedOnce(o) =>
    /\ spent[o] = Charged(o) + Pending(o, "unspend") + lost[o]["unspend"]
    /\ \A j \in Jobs : Owner[j] = o => used[j] >= 0

\* No credit is created by settlements: such an owner never has more than award()
\* gave him, the awards that are halfway or died there included.  A starter grant
\* that two calls give is awarded twice.
NoneCreated ==
  \A o \in Owners : RefundedOnce(o) =>
    balance[o] <= earned[o] + Pending(o, "earn") + lost[o]["earn"]

\* The counters of an owner agree with each other and with his jobs, and no
\* settlement gives him credits that he never had, unless it is the second.
CreditsAddUp == Conserved /\ SpentIsCharged /\ NoneCreated

\* An owner who is marked as having got the starter grant gets it, unless the
\* call that marked him dies.
GrantIsPaid ==
  \A o \in Owners : (o \in granted) ~> (earned[o] + lost[o]["grant"] + lost[o]["earn"] >= Grant)
=============================================================================
