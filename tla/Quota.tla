------------------------------- MODULE Quota -------------------------------
(***************************************************************************)
(* The admission of jobs by ledger/quota.py: check() reads what the owner  *)
(* has contributed, the credits and the number of active jobs; the caller  *)
(* then counts the job, and counts it off when it is over.  Every Redis    *)
(* command is a step, and callers may die between any two.                 *)
(***************************************************************************)
EXTENDS Integers, FiniteSets

CONSTANTS Applicants,   \* the jobs, all of one owner
          Request,      \* what each asks for: [gpus, nodes, hours]
          Income        \* bound: units that the owner may contribute

QuotaPolicy(gpus, nodes, hours, jobs) ==
  [max_gpus |-> gpus, max_nodes |-> nodes, max_job_hours |-> hours, max_concurrent_jobs |-> jobs]

TIERS == [free |-> QuotaPolicy(1, 1, 1, 1),
          contributor |-> QuotaPolicy(4, 2, 12, 2),
          power |-> QuotaPolicy(32, 8, 72, 5)]

\* In GPU-hours
resolve_tier(units) ==
  CASE units >= 20 -> "power" [] units >= 1 /\ units < 20 -> "contributor" [] OTHER -> "free"

ASSUME QuotaAssumption ==
  /\ IsFiniteSet(Applicants) /\ Income \subseteq Nat
  /\ Request \in [Applicants -> [gpus : Nat, nodes : Nat, hours : Nat]]

VARIABLES
  units,      \* owner_total(): what the owner has contributed
  available,  \* balance().available, in hours
  active,     \* quota:active:<owner>
  timed,      \* whether that key has an expiry
  stage,      \* where the caller of each job is
  tier,       \* the tier that check() found for the job
  raced,      \* history: two calls overlapped
  expired     \* history: the key expired while a job was counted

quVars == <<units, available, active, timed, stage, tier, raced, expired>>

QuInit ==
  /\ units = 0 /\ available \in 0..1
  /\ active = 0 /\ timed = FALSE
  /\ stage = [j \in Applicants |-> "new"]
  /\ tier = [j \in Applicants |-> "free"]
  /\ raced = FALSE /\ expired = FALSE

\* A caller that died before it called expire() is "cut", one that died later "died".
Ended == {"refused", "over", "cut", "died"}

At(s) == {j \in Applicants : stage[j] = s}
Stage(j, from, to) == stage[j] = from /\ stage' = [stage EXCEPT ![j] = to]

\* The owner contributes, which is paid in credits.
Contribute ==
  /\ \E more \in Income : more > units /\ units' = more /\ available' = available + more - units
  /\ UNCHANGED <<active, timed, stage, tier, raced, expired>>

\* The limits that the owner's tier sets to one job
Fits(q, policy) ==
  /\ q.gpus <= policy.max_gpus /\ q.nodes <= policy.max_nodes
  /\ q.hours <= policy.max_job_hours

\* check(): the tier
ReadTier(j) ==
  /\ Stage(j, "new", "tier")
  /\ tier' = [tier EXCEPT ![j] = resolve_tier(units)]
  /\ UNCHANGED <<units, available, active, timed, raced, expired>>

\* check(): the credits, and the limits of one job
Check(j) ==
  /\ Stage(j, "tier", IF available >= Request[j].hours /\ Fits(Request[j], TIERS[tier[j]])
                      THEN "count" ELSE "refused")
  /\ UNCHANGED <<units, available, active, timed, tier, raced, expired>>

\* check(): the active jobs
CountActive(j) ==
  /\ Stage(j, "count", IF active >= TIERS[tier[j]].max_concurrent_jobs THEN "refused" ELSE "admitted")
  /\ raced' = (raced \/ At("admitted") # {})
  /\ UNCHANGED <<units, available, active, timed, tier, expired>>

\* increment_active(): incr, which keeps the expiry of the key
Increment(j) ==
  /\ Stage(j, "admitted", "counted")
  /\ active' = active + 1
  /\ UNCHANGED <<units, available, timed, tier, raced, expired>>

\* Mutant of SetExpiry: the key is kept.
SetNoExpiry(j) ==
  /\ Stage(j, "counted", "running")
  /\ UNCHANGED <<units, available, active, timed, tier, raced, expired>>

\* increment_active(): expire
SetExpiry(j) ==
  /\ Stage(j, "counted", "running")
  /\ timed' = (timed \/ active # 0)
  /\ UNCHANGED <<units, available, active, tier, raced, expired>>

\* Mutant of Read: the job is over and is not counted off.
ReadAndForget(j) ==
  /\ Stage(j, "running", "over")
  /\ UNCHANGED <<units, available, active, timed, tier, raced, expired>>

\* decrement_active(): the number is read ...
Read(j) ==
  /\ Stage(j, "running", IF active > 0 THEN "deciding" ELSE "over")
  /\ raced' = (raced \/ At("deciding") # {})
  /\ UNCHANGED <<units, available, active, timed, tier, expired>>

\* ... and decremented.  A key that has expired meanwhile is made anew.
Decrement(j) ==
  /\ Stage(j, "deciding", "over")
  /\ active' = active - 1
  /\ UNCHANGED <<units, available, timed, tier, raced, expired>>

ApplicantDies(j) ==
  /\ stage[j] \notin Ended
  /\ stage' = [stage EXCEPT ![j] = CASE @ \in {"new", "tier", "count", "admitted"} -> "refused"
                                           [] @ = "counted" -> "cut"
                                           [] OTHER -> "died"]
  /\ UNCHANGED <<units, available, active, timed, tier, raced, expired>>

Counted == At("counted") \cup At("running") \cup At("deciding") \cup At("cut") \cup At("died")

\* The key expires a day after the last call of expire(): the jobs that were
\* counted before and take less are over.
Expire ==
  /\ timed
  /\ \A j \in At("running") : Request[j].hours >= 24
  /\ active' = 0 /\ timed' = FALSE
  /\ expired' = (expired \/ Counted # {})
  /\ UNCHANGED <<units, available, stage, tier, raced>>

JobStep(j) ==
  ReadTier(j) \/ Check(j) \/ CountActive(j) \/ Increment(j) \/ SetExpiry(j) \/ Read(j) \/ Decrement(j)

QuNext == Contribute \/ Expire \/ \E j \in Applicants : JobStep(j) \/ ApplicantDies(j)

QuSpec == QuInit /\ [][QuNext]_quVars

QuFairSpec == QuSpec /\ WF_quVars(Expire) /\ \A j \in Applicants : WF_quVars(JobStep(j))

-----------------------------------------------------------------------------
(* What the quota promises *)

\* The types, and that a running job is within the limits of the tier found for it.
QuTypeOK ==
  /\ units \in Nat /\ available \in Nat /\ active \in Int
  /\ timed \in BOOLEAN /\ raced \in BOOLEAN /\ expired \in BOOLEAN
  /\ stage \in [Applicants -> {"new", "tier", "count", "admitted", "counted", "running",
                               "deciding"} \cup Ended]
  /\ tier \in [Applicants -> DOMAIN TIERS]
  /\ \A j \in At("running") : Fits(Request[j], TIERS[tier[j]])

\* The counter is the number of jobs that were counted and not counted off, unless
\* calls have overlapped or the key has expired under a job.
ActiveIsExact == ~raced /\ ~expired => active = Cardinality(Counted)

\* No owner has more jobs at once than the tier allows, unless two submissions
\* overlapped or the key has expired under a job that takes more than a day.
ConcurrencyKept ==
  ~raced /\ ~expired => \A j \in At("running") :
    Cardinality(At("running")) <= TIERS[resolve_tier(units)].max_concurrent_jobs

\* The counter of active jobs is true, and keeps the owner to his tier.
QuotaKept == QuTypeOK /\ ActiveIsExact /\ ConcurrencyKept

\* A caller that dies does not use up the limit for ever: once nobody calls any
\* more the counter goes back to 0, unless it died before it called expire().
LimitRecovers ==
  <>[](\A j \in Applicants : stage[j] \in Ended) => <>[](active <= 0 \/ At("cut") # {})
=============================================================================
