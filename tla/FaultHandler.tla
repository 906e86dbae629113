---------------------------- MODULE FaultHandler ----------------------------
(***************************************************************************)
(* The faults of a job that orchestrator/fault_handler.py records and      *)
(* resolves in Redis.  report() runs to the end of its handler in one      *)
(* thread per fault; each Redis command is a step, and other reports,      *)
(* resolve() by an operator, the TTLs and deaths of reporters come in      *)
(* between.                                                                *)
(***************************************************************************)
EXTENDS Integers, FiniteSets

CONSTANTS Faults,   \* ids of the faults that are reported
          Culprits  \* peers that faults are about

ASSUME FaultAssumption == IsFiniteSet(Faults)

Kinds == {"peer_disconnect", "wrong_result", "coordinator_crash", "straggler",
          "resource_exhausted"}

VARIABLES
  fault,     \* fault:<job>:<id>: none, pending, auto or manual
  kind,      \* FaultEvent.fault_type, none before the report
  culprit,   \* FaultEvent.peer_id
  handling,  \* where report() is
  operator,  \* the faults that an operator's resolve() has read
  penalty,   \* trust_penalty:<peer>
  timed,     \* the peers whose trust_penalty has a TTL
  weighing,  \* history: the faults that the counters have counted
  forgiven,  \* history: the faults whose counter has expired
  reelect    \* coordinator_reelect:<job> exists

fhVars ==
  <<fault, kind, culprit, handling, operator, penalty, timed, weighing, forgiven, reelect>>

FhInit ==
  /\ fault = [f \in Faults |-> "none"]
  /\ kind = [f \in Faults |-> "none"]
  /\ culprit \in [Faults -> Culprits]
  /\ handling = [f \in Faults |-> "idle"]
  /\ operator = {}
  /\ penalty = [p \in Culprits |-> 0]
  /\ timed = {}
  /\ weighing = {}
  /\ forgiven = {}
  /\ reelect = FALSE

FaultsOf(p) == {f \in Faults : culprit[f] = p}

Goes(f, l) == handling' = [handling EXCEPT ![f] = l]

\* _auto_resolve(): exhausted resources have no handler.
FirstStep(k) ==
  CASE k = "wrong_result" -> "penalise"
    [] k = "coordinator_crash" -> "elect"
    [] k \in {"peer_disconnect", "straggler"} -> "read"
    [] OTHER -> "done"

\* report(): the event is stored as pending.
Report(f, k) ==
  /\ handling[f] = "idle"
  /\ kind' = [kind EXCEPT ![f] = k]
  /\ fault' = [fault EXCEPT ![f] = "pending"]
  /\ Goes(f, FirstStep(k))
  /\ UNCHANGED <<culprit, operator, penalty, timed, weighing, forgiven, reelect>>

\* Mutant of Penalise: the counter is set.
PenaliseOnce(f) ==
  /\ handling[f] = "penalise"
  /\ penalty' = [penalty EXCEPT ![culprit[f]] = 1]
  /\ weighing' = weighing \cup {f}
  /\ Goes(f, "expire")
  /\ UNCHANGED <<fault, kind, culprit, operator, timed, forgiven, reelect>>

\* _handle_wrong_result(): INCR ...
Penalise(f) ==
  /\ handling[f] = "penalise"
  /\ penalty' = [penalty EXCEPT ![culprit[f]] = @ + 1]
  /\ weighing' = weighing \cup {f}
  /\ Goes(f, "expire")
  /\ UNCHANGED <<fault, kind, culprit, operator, timed, forgiven, reelect>>

\* ... and EXPIRE, which does nothing to a key that has gone.
SetTtl(f) ==
  /\ handling[f] = "expire"
  /\ timed' = IF penalty[culprit[f]] > 0 THEN timed \cup {culprit[f]} ELSE timed
  /\ Goes(f, "read")
  /\ UNCHANGED <<fault, kind, culprit, operator, penalty, weighing, forgiven, reelect>>

\* _handle_coordinator_crash(): the key is set for a minute.
Reelect(f) ==
  /\ handling[f] = "elect"
  /\ reelect' = TRUE
  /\ Goes(f, "read")
  /\ UNCHANGED <<fault, kind, culprit, operator, penalty, timed, weighing, forgiven>>

\* resolve(): GET; a record that has gone is left alone ...
ResolveGet(f) ==
  /\ handling[f] = "read"
  /\ Goes(f, IF fault[f] = "none" THEN "done" ELSE "store")
  /\ UNCHANGED <<fault, kind, culprit, operator, penalty, timed, weighing, forgiven, reelect>>

\* ... and SETEX.
ResolveSet(f) ==
  /\ handling[f] = "store"
  /\ fault' = [fault EXCEPT ![f] = "auto"]
  /\ Goes(f, "done")
  /\ UNCHANGED <<kind, culprit, operator, penalty, timed, weighing, forgiven, reelect>>

\* resolve() by an operator
OperatorGet(f) ==
  /\ fault[f] # "none"
  /\ operator' = operator \cup {f}
  /\ UNCHANGED <<fault, kind, culprit, handling, penalty, timed, weighing, forgiven, reelect>>

\* Mutant of OperatorSet: what was read is stored without the resolution.
OperatorSetsOld(f) ==
  /\ f \in operator
  /\ fault' = [fault EXCEPT ![f] = "pending"]
  /\ operator' = operator \ {f}
  /\ UNCHANGED <<kind, culprit, handling, penalty, timed, weighing, forgiven, reelect>>

OperatorSet(f) ==
  /\ f \in operator
  /\ fault' = [fault EXCEPT ![f] = "manual"]
  /\ operator' = operator \ {f}
  /\ UNCHANGED <<kind, culprit, handling, penalty, timed, weighing, forgiven, reelect>>

FaultExpires(f) ==
  /\ fault[f] # "none"
  /\ fault' = [fault EXCEPT ![f] = "none"]
  /\ UNCHANGED <<kind, culprit, handling, operator, penalty, timed, weighing, forgiven, reelect>>

\* The key goes as a whole, with every penalty it has counted, at a TTL that the
\* last EXPIRE set: it may renew the older penalties, and it may miss the newest.
PenaltyExpires(p) ==
  /\ p \in timed
  /\ penalty' = [penalty EXCEPT ![p] = 0]
  /\ weighing' = weighing \ FaultsOf(p)
  /\ forgiven' = forgiven \cup (weighing \cap FaultsOf(p))
  /\ timed' = timed \ {p}
  /\ UNCHANGED <<fault, kind, culprit, handling, operator, reelect>>

ReelectExpires ==
  /\ reelect /\ reelect' = FALSE
  /\ UNCHANGED <<fault, kind, culprit, handling, operator, penalty, timed, weighing, forgiven>>

ReporterDies(f) ==
  /\ handling[f] \notin {"idle", "done", "dead", "diedUntimed"}
  /\ Goes(f, IF handling[f] = "expire" THEN "diedUntimed" ELSE "dead")
  /\ UNCHANGED <<fault, kind, culprit, operator, penalty, timed, weighing, forgiven, reelect>>

HandlerGoesOn(f) ==
  Penalise(f) \/ SetTtl(f) \/ Reelect(f) \/ ResolveGet(f) \/ ResolveSet(f)

FhNext ==
  \/ \E f \in Faults :
       \/ HandlerGoesOn(f) \/ OperatorGet(f) \/ OperatorSet(f)
       \/ FaultExpires(f) \/ ReporterDies(f)
       \/ \E k \in Kinds : Report(f, k)
  \/ \E p \in Culprits : PenaltyExpires(p)
  \/ ReelectExpires

FhSpec == FhInit /\ [][FhNext]_fhVars

-----------------------------------------------------------------------------
(* What the records of faults guarantee *)

\* The types; a handler runs only for the kinds of faults that have one.
FhTypeOK ==
  /\ fault \in [Faults -> {"none", "pending", "auto", "manual"}]
  /\ kind \in [Faults -> Kinds \cup {"none"}]
  /\ culprit \in [Faults -> Culprits]
  /\ handling \in [Faults -> {"idle", "penalise", "expire", "elect", "read", "store",
                              "done", "dead", "diedUntimed"}]
  /\ operator \subseteq Faults
  /\ penalty \in [Culprits -> Nat]
  /\ timed \subseteq Culprits
  /\ weighing \subseteq Faults
  /\ forgiven \subseteq Faults
  /\ reelect \in BOOLEAN
  /\ \A f \in Faults : fault[f] = "auto" => kind[f] # "resource_exhausted"

\* A penalty does not weigh on a peer for ever: a counter without a TTL has a
\* reporter that is about to set it, or one that died before it did.
PenaltiesEnd ==
  \A p \in Culprits : penalty[p] > 0 /\ p \notin timed =>
    \E f \in FaultsOf(p) : handling[f] \in {"expire", "diedUntimed"}

\* trust_penalty:<peer> is the number of the faults of that peer that were
\* counted since the key began, each of them once, and a fault that is recorded
\* as "peer_excluded_from_aggregation" is one of them, or its key has expired.
PenaltiesCounted ==
  /\ weighing \cap forgiven = {}
  /\ \A p \in Culprits : penalty[p] = Cardinality(weighing \cap FaultsOf(p))
  /\ \A f \in Faults :
       kind[f] = "wrong_result" /\ fault[f] = "auto" => f \in weighing \cup forgiven

\* The reports whose own EXPIRE has run, or whose reporter has died since
Timers == {f \in weighing \cup forgiven : handling[f] \in {"read", "store", "done", "dead"}}

\* A penalty that expired before its own report set a TTL, because the key expired
\* between its INCR and its EXPIRE, fell to the TTL of another report of that peer.
ForgivenByAnother ==
  \A f \in forgiven : handling[f] \in {"expire", "diedUntimed"} =>
    \E g \in Timers : g # f /\ culprit[g] = culprit[f]

\* The penalties of a peer are counted one by one, end together, and end only by
\* a TTL that some report has set, though INCR, EXPIRE and the record of the
\* fault are three commands.
PenaltiesKept == FhTypeOK /\ PenaltiesEnd /\ PenaltiesCounted /\ ForgivenByAnother

\* A resolved fault is never pending again, though resolve() reads the record and
\* writes all of it back, and the automatic resolution races the operator's.
ResolvedStaysResolved ==
  [][\A f \in Faults : fault[f] \in {"auto", "manual"} => fault'[f] # "pending"]_fault

\* Every fault that has a handler is resolved, unless its reporter dies or the
\* record expires.
FaultsAreResolved ==
  \A f \in Faults :
    kind[f] \in Kinds \ {"resource_exhausted"} ~>
      fault[f] # "pending" \/ handling[f] \in {"dead", "diedUntimed"}

\* The life of a fault: it is resolved, and stays so, whoever resolves it first.
FaultsStayResolved == ResolvedStaysResolved /\ FaultsAreResolved
=============================================================================
