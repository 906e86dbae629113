------------------------------ MODULE MCLedger ------------------------------
(***************************************************************************)
(* The accounts side by side: credits, quota, rate limiter and backup.     *)
(* part says which of them moves; they share no state here.                *)
(***************************************************************************)
EXTENDS CreditEngine, Quota, RateLimiter, Backup

CONSTANT o1

VARIABLE part

vars == <<part, ceVars, quVars, rlVars, baVars>>

\* One owner, two jobs that need one or two credits, and two callers
AllOfOne == [j \in Jobs |-> o1]

\* Two small jobs, and one of more than a day that only power users may run
Requests == [j \in Applicants |->
  IF j = 3 THEN [gpus |-> 8, nodes |-> 1, hours |-> 30] ELSE [gpus |-> 1, nodes |-> 1, hours |-> 1]]

\* Behind UTC, at UTC, and half a day ahead
Zones == {-1, 0, 2}

\* Two transfers of two units and one of one
OneOrTwo == [x \in Transfers |-> IF x = 2 THEN 1 ELSE 2]

Init ==
  /\ part \in {"credits", "quota", "rates", "backup"}
  /\ CEInit /\ QuInit /\ RlInit /\ BaInit
  /\ part # "quota" => available = 0
  /\ part # "rates" => offset = 0
  /\ part # "backup" => backend = "local"

CreditsOnly(A) == part = "credits" /\ A /\ UNCHANGED <<part, quVars, rlVars, baVars>>
QuotaOnly(A) == part = "quota" /\ A /\ UNCHANGED <<part, ceVars, rlVars, baVars>>
RatesOnly(A) == part = "rates" /\ A /\ UNCHANGED <<part, ceVars, quVars, baVars>>
BackupOnly(A) == part = "backup" /\ A /\ UNCHANGED <<part, ceVars, quVars, rlVars>>

Next == CreditsOnly(CENext) \/ QuotaOnly(QuNext) \/ RatesOnly(RlNext) \/ BackupOnly(BaNext)

Spec ==
  /\ Init /\ [][Next]_vars
  /\ \A c \in Callers : WF_vars(CreditsOnly(Continue(c)))
  /\ WF_vars(QuotaOnly(Expire))
  /\ \A j \in Applicants : WF_vars(QuotaOnly(JobStep(j)))
=============================================================================
