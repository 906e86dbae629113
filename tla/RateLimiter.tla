----------------------------- MODULE RateLimiter -----------------------------
(***************************************************************************)
(* cloud/rate_limiter.py: a counter of bytes per owner and day for one     *)
(* direction.  A caller, of which the repository has none, checks,         *)
(* transfers and records, in two calls; the day of the key is the local    *)
(* one, and its expiry is UTC's next midnight read as a local time.        *)
(***************************************************************************)
EXTENDS Integers, FiniteSets

CONSTANTS Transfers,   \* the transfers, of one owner
          Size,        \* the size of each
          Limit,       \* UPLOAD_LIMITS or DOWNLOAD_LIMITS of the owner's tier
          DayLength,   \* the local clock's ticks in a day
          Offsets,     \* the zones: by how much local time is ahead of UTC
          MaxDays      \* bound

ASSUME RateAssumption ==
  /\ IsFiniteSet(Transfers) /\ Size \in [Transfers -> Nat] /\ Limit \in Nat
  /\ DayLength \in Nat \ {0} /\ MaxDays \in Nat \ {0}
  /\ Offsets \subseteq Int /\ \A o \in Offsets : -DayLength < o /\ o < DayLength

VARIABLES
  offset,    \* the zone of this host
  time,      \* the local clock, from the second day on
  bucket,    \* cloud_rate:<direction>:<owner>:<day>: the bytes of each day
  expiry,    \* when each of these keys is deleted
  doing,     \* what becomes of each transfer
  recent,    \* history: the bytes recorded since the last midnight, local or of UTC
  excused    \* history: the transfers that began beside another one since then, or
             \* were under way at that midnight

rlVars == <<offset, time, bucket, expiry, doing, recent, excused>>

Days == 0..MaxDays
DayOf(t) == t \div DayLength

\* time.strftime("%Y%m%d")
Today == DayOf(time)
UtcDay == DayOf(time - offset)

RlInit ==
  /\ offset \in Offsets
  /\ time = DayLength
  /\ bucket = [d \in Days |-> 0] /\ expiry = [d \in Days |-> 0]
  /\ doing = [x \in Transfers |-> "new"]
  /\ recent = 0 /\ excused = {}

Doing(x, from, to) == doing[x] = from /\ doing' = [doing EXCEPT ![x] = to]
UnderWay == {x \in Transfers : doing[x] = "allowed"}

\* _check()
CheckTransfer(x) ==
  /\ Doing(x, "new", IF bucket[Today] + Size[x] > Limit THEN "over" ELSE "allowed")
  /\ excused' = IF UnderWay = {} THEN excused ELSE excused \cup {x}
  /\ UNCHANGED <<offset, time, bucket, expiry, recent>>

\* Mutant of NextMidnight: the midnight that has passed.
LastMidnight == UtcDay * DayLength

\* _next_midnight(): midnight after the day it is in UTC, as a local time
NextMidnight == (UtcDay + 1) * DayLength

\* _consume(): EXPIREAT deletes the key when the time has passed.
Record(x) ==
  /\ Doing(x, "allowed", "over")
  /\ expiry' = [expiry EXCEPT ![Today] = NextMidnight]
  /\ bucket' = [bucket EXCEPT ![Today] = IF NextMidnight <= time THEN 0 ELSE @ + Size[x]]
  /\ recent' = recent + Size[x]
  /\ UNCHANGED <<offset, time, excused>>

\* The transfer fails and is not recorded.
TransferFails(x) ==
  /\ Doing(x, "allowed", "over")
  /\ UNCHANGED <<offset, time, bucket, expiry, recent, excused>>

\* A midnight makes transfers under way those of another day.
Pass ==
  /\ time + 1 < (MaxDays + 1) * DayLength
  /\ time' = time + 1 /\ UNCHANGED <<offset, expiry, doing>>
  /\ bucket' = [d \in Days |-> IF expiry[d] <= time' THEN 0 ELSE bucket[d]]
  /\ IF Today' = Today /\ UtcDay' = UtcDay
     THEN UNCHANGED <<recent, excused>>
     ELSE recent' = 0 /\ excused' = UnderWay

RlNext == Pass \/ \E x \in Transfers : CheckTransfer(x) \/ Record(x) \/ TransferFails(x)

RlSpec == RlInit /\ [][RlNext]_rlVars

-----------------------------------------------------------------------------
(* What the limiter promises *)

\* The types, and that no day is written before it begins.
RlTypeOK ==
  /\ bucket \in [Days -> Nat] /\ recent \in Nat
  /\ doing \in [Transfers -> {"new", "allowed", "over"}]
  /\ excused \subseteq Transfers
  /\ \A d \in Days : d > Today => bucket[d] = 0

\* East of UTC, after local midnight, UTC is a day behind: no usage is counted.
UtcBehind == UtcDay < Today

\* What was recorded since the last midnight, of either clock, is in today's bucket
\* as long as no midnight comes, unless UTC is a day behind; and in UTC and east of
\* it there is nothing else in it: "Buckets reset at UTC midnight"
\* (rate_limiter.py:41).  West of UTC they do not, and nothing is asked of what was
\* recorded before that midnight.
UsageCounted ==
  ~UtcBehind => /\ recent <= bucket[Today]
                /\ offset >= 0 => recent = bucket[Today]

\* No more than the limit is recorded between two midnights, though the bucket is
\* read by one call and written by another, unless transfers overlapped or were
\* under way at the first midnight, or UTC is a day behind.
LimitKept == excused = {} /\ ~UtcBehind => recent <= Limit

\* The buckets count what is transferred and keep it within the limit of a day.
UsageKept == RlTypeOK /\ UsageCounted /\ LimitKept
=============================================================================
