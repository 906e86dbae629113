------------------------------ MODULE NodeAgent ------------------------------
(***************************************************************************)
(* The shutdown of node agents (node_agent/agent.py, local_api.py) and the *)
(* contribution sessions they report (ledger/contribution.py).  stop() is  *)
(* called by the local HTTP server, whose daemon thread handles one        *)
(* request at a time, and by the signal handler, which Python runs on the  *)
(* main thread on top of whatever is there: run(), or the handler of an    *)
(* earlier signal.  An exception that leaves a handler, SystemExit         *)
(* included, unwinds every frame below it down to the finally of run().    *)
(***************************************************************************)
EXTENDS Integers, FiniteSets

CONSTANTS Agents,     \* agent processes, all of the same owner
          Lasting,    \* agents that may run for more than 30 days
          MaxSignals  \* bound: SIGTERMs and SIGINTs that an agent is sent

ASSUME AgentAssumption ==
  IsFiniteSet(Agents) /\ Lasting \subseteq Agents /\ MaxSignals \in Nat

Signals == 1..MaxSignals
Http == -1      \* the thread of the local HTTP server
Finally == 0    \* the stop() in the finally of run()
Stoppers == Signals \cup {Http, Finally}

VARIABLES
  main,     \* where run() of each agent is
  running,  \* _running
  step,     \* where each call of stop() is
  session,  \* contrib:session:<id> as it was last written: none, active or completed
  expired,  \* agents whose contrib:session:<id> has expired since
  total,    \* contrib:owner_total:<owner>, in sessions
  signals,  \* how many signals each agent was sent
  posted,   \* history: agents that were sent a POST /stop
  broken    \* history: agents that were killed or whose task did not end

naVars == <<main, running, step, session, expired, total, signals, posted, broken>>

NAInit ==
  /\ main = [a \in Agents |-> "init"]
  /\ running = [a \in Agents |-> FALSE]
  /\ step = [a \in Agents |-> [t \in Stoppers |-> "idle"]]
  /\ session = [a \in Agents |-> "none"]
  /\ expired = {}
  /\ total = 0
  /\ signals = [a \in Agents |-> 0]
  /\ posted = {}
  /\ broken = {}

MainGoto(a, l) == main' = [main EXCEPT ![a] = l]
Goto(a, t, l) == step' = [step EXCEPT ![a][t] = l]

\* The process is gone, and with it all its threads.
Exit(a) ==
  /\ MainGoto(a, "gone")
  /\ step' = [step EXCEPT ![a] = [t \in Stoppers |-> "idle"]]

-----------------------------------------------------------------------------
(* start() and run() *)

\* _running = True; start_session()
OpenSession(a) ==
  /\ main[a] = "init"
  /\ running' = [running EXCEPT ![a] = TRUE]
  /\ session' = [session EXCEPT ![a] = "active"]
  /\ MainGoto(a, "serve")
  /\ UNCHANGED <<step, expired, total, signals, posted, broken>>

\* Discovery, gossip and the local HTTP server are started.
Serve(a) ==
  /\ main[a] = "serve"
  /\ MainGoto(a, "install")
  /\ UNCHANGED <<running, step, session, expired, total, signals, posted, broken>>

\* The signal handlers are installed and the loop of run() begins.
Install(a) ==
  /\ main[a] = "install"
  /\ MainGoto(a, "loop")
  /\ UNCHANGED <<running, step, session, expired, total, signals, posted, broken>>

\* while self._running; then the stop() of finally
LoopEnds(a) ==
  /\ main[a] = "loop"
  /\ \A i \in Signals : step[a][i] = "idle"
  /\ ~running[a]
  /\ MainGoto(a, "finally")
  /\ Goto(a, Finally, "check")
  /\ UNCHANGED <<running, session, expired, total, signals, posted, broken>>

-----------------------------------------------------------------------------
(* Requests to stop *)

\* A signal: the handler runs at once, on the main thread.
Signal(a) ==
  /\ main[a] \in {"loop", "finally"}
  /\ signals[a] < MaxSignals
  /\ signals' = [signals EXCEPT ![a] = @ + 1]
  /\ Goto(a, signals[a] + 1, "check")
  /\ UNCHANGED <<main, running, session, expired, total, posted, broken>>

\* A signal before the handlers are installed, or SIGKILL.
Killed(a) ==
  /\ main[a] # "gone"
  /\ Exit(a)
  /\ broken' = broken \cup {a}
  /\ UNCHANGED <<running, session, expired, total, signals, posted>>

\* POST /stop
Post(a) ==
  /\ main[a] \in {"install", "loop", "finally"}
  /\ step[a][Http] = "idle"
  /\ Goto(a, Http, "check")
  /\ posted' = posted \cup {a}
  /\ UNCHANGED <<main, running, session, expired, total, signals, broken>>

-----------------------------------------------------------------------------
(* stop() *)

\* A frame of the main thread runs when there is none above it.
OnTop(a, t) == t = Http \/ \A i \in Signals : i > t => step[a][i] = "idle"

\* stop() has returned or raised.  The handler of the HTTP server answers or
\* logs the error; sys.exit(0) or the exception unwinds the main thread.
Ended(a, t) ==
  \/ /\ t = Http
     /\ Goto(a, Http, "idle")
     /\ UNCHANGED main
  \/ /\ t \in Signals /\ main[a] = "loop"
     /\ MainGoto(a, "finally")
     /\ step' = [step EXCEPT ![a] =
                   [s \in Stoppers |-> IF s = Finally THEN "check"
                                       ELSE IF s = Http THEN @[s] ELSE "idle"]]
  \/ /\ t = Finally \/ (t \in Signals /\ main[a] = "finally")
     /\ Exit(a)

\* Mutant of Check: the test is the wrong way round.
CheckReversed(a, t) ==
  /\ step[a][t] = "check" /\ OnTop(a, t)
  /\ \/ ~running[a] /\ Goto(a, t, "mark") /\ UNCHANGED main
     \/ running[a] /\ Ended(a, t)
  /\ UNCHANGED <<running, session, expired, total, signals, posted, broken>>

\* if not self._running: return
Check(a, t) ==
  /\ step[a][t] = "check" /\ OnTop(a, t)
  /\ \/ running[a] /\ Goto(a, t, "mark") /\ UNCHANGED main
     \/ ~running[a] /\ Ended(a, t)
  /\ UNCHANGED <<running, session, expired, total, signals, posted, broken>>

\* Mutant of Mark: the flag stays.
MarkNothing(a, t) ==
  /\ step[a][t] = "mark" /\ OnTop(a, t)
  /\ Goto(a, t, "halt")
  /\ UNCHANGED <<main, running, session, expired, total, signals, posted, broken>>

\* self._running = False
Mark(a, t) ==
  /\ step[a][t] = "mark" /\ OnTop(a, t)
  /\ running' = [running EXCEPT ![a] = FALSE]
  /\ Goto(a, t, "halt")
  /\ UNCHANGED <<main, session, expired, total, signals, posted, broken>>

\* discovery.stop(), gossip.stop() and task_runner.stop(), which raises
\* TimeoutExpired when the task has not ended after 10 seconds.
Halt(a, t) ==
  /\ step[a][t] = "halt" /\ OnTop(a, t)
  /\ \/ Goto(a, t, "get") /\ UNCHANGED <<main, broken>>
     \/ Ended(a, t) /\ broken' = broken \cup {a}
  /\ UNCHANGED <<running, session, expired, total, signals, posted>>

\* The key of a session lives for 30 days after each write, and nothing but
\* end_session() writes it again.  Once the agent is gone nobody reads it.
SessionExpires(a) ==
  /\ a \in Lasting /\ a \notin expired
  /\ session[a] # "none" /\ main[a] # "gone"
  /\ expired' = expired \cup {a}
  /\ UNCHANGED <<main, running, step, session, total, signals, posted, broken>>

\* end_session(): GET of the session, whose status is not looked at; it returns
\* None when the key has expired, and stop() returns.
GetSession(a, t) ==
  /\ step[a][t] = "get" /\ OnTop(a, t)
  /\ session[a] # "none"
  /\ \/ a \notin expired /\ Goto(a, t, "write") /\ UNCHANGED main
     \/ a \in expired /\ Ended(a, t)
  /\ UNCHANGED <<running, session, expired, total, signals, posted, broken>>

\* Mutant of EndSession: the totals are not updated.
EndUncredited(a, t) ==
  /\ step[a][t] = "write" /\ OnTop(a, t)
  /\ session' = [session EXCEPT ![a] = "completed"]
  /\ expired' = expired \ {a}
  /\ Ended(a, t)
  /\ UNCHANGED <<running, total, signals, posted, broken>>

\* end_session(): the MULTI pipeline stores the session and adds its units to
\* the totals.  ContributionRecord.from_dict() then raises TypeError, since a
\* record has no field "status", so stop() never returns from here.
EndSession(a, t) ==
  /\ step[a][t] = "write" /\ OnTop(a, t)
  /\ session' = [session EXCEPT ![a] = "completed"]
  /\ expired' = expired \ {a}
  /\ total' = total + 1
  /\ Ended(a, t)
  /\ UNCHANGED <<running, signals, posted, broken>>

StopStep(a, t) ==
  Check(a, t) \/ Mark(a, t) \/ Halt(a, t) \/ GetSession(a, t) \/ EndSession(a, t)

RunStep(a) == OpenSession(a) \/ Serve(a) \/ Install(a) \/ LoopEnds(a)

\* All agents have exited.
AllGone == (\A a \in Agents : main[a] = "gone") /\ UNCHANGED naVars

NANext ==
  \/ \E a \in Agents :
       \/ RunStep(a) \/ Signal(a) \/ Killed(a) \/ Post(a) \/ SessionExpires(a)
       \/ \E t \in Stoppers : StopStep(a, t)
  \/ AllGone

NASpec == NAInit /\ [][NANext]_naVars

\* The threads run; nobody has to ask an agent to stop.
NAFairness ==
  \A a \in Agents : WF_naVars(RunStep(a)) /\ \A t \in Stoppers : WF_naVars(StopStep(a, t))

-----------------------------------------------------------------------------
(* What the sessions guarantee *)

Steps == {"idle", "check", "mark", "halt", "get", "write"}

NATypeOK ==
  /\ main \in [Agents -> {"init", "serve", "install", "loop", "finally", "gone"}]
  /\ running \in [Agents -> BOOLEAN]
  /\ step \in [Agents -> [Stoppers -> Steps]]
  /\ session \in [Agents -> {"none", "active", "completed"}]
  /\ expired \in SUBSET Agents
  /\ total \in Nat
  /\ signals \in [Agents -> 0..MaxSignals]
  /\ posted \in SUBSET Agents /\ broken \in SUBSET Agents
  /\ \A a \in Agents :
       /\ main[a] = "init" => session[a] = "none"
       /\ main[a] \notin {"init", "gone"} => session[a] # "none"
       /\ \A i \in Signals : step[a][i] # "idle" => main[a] \in {"loop", "finally"}
       /\ step[a][Finally] # "idle" => main[a] = "finally"
       /\ step[a][Http] # "idle" => a \in posted /\ main[a] \in {"install", "loop", "finally"}

\* "Provides per-owner totals" (contribution.py:74): the owner is credited for
\* every ended session once, however often signals ask his agents to stop and
\* whatever interrupts them.  A POST /stop may credit a session again.
CreditedOnce ==
  posted = {} => total = Cardinality({a \in Agents : session[a] = "completed"})

\* An agent ends its session only when it no longer runs and has stopped its
\* task, and then nobody is about to end it again, unless there was a POST /stop.
EndedAgentIsStopped ==
  \A a \in Agents : session[a] = "completed" =>
    /\ ~running[a]
    /\ a \in posted \/ \A t \in Stoppers : step[a][t] \in {"idle", "check"}

\* The rest of the inductive invariant: past the flag, the agent has stopped.
PastTheFlag ==
  \A a \in Agents, t \in Stoppers :
    step[a][t] \in {"halt", "get", "write"} => ~running[a]

\* Sessions end once and for good: the inductive invariant of Peers_proofs.
NAInv == NATypeOK /\ CreditedOnce /\ EndedAgentIsStopped /\ PastTheFlag

AskedToStop(a) == \E t \in Stoppers : step[a][t] # "idle"

\* An agent that is asked to stop by a single signal ends its session, unless it
\* has run for so long that the session has expired: then nobody is credited.
SignalEndsSession ==
  \A a \in Agents : AskedToStop(a) ~>
    (session[a] = "completed" \/ signals[a] > 1 \/ a \in posted \cup broken \cup expired)

\* An agent that is asked to stop exits, whatever the shutdown runs into.
AgentExits == \A a \in Agents : AskedToStop(a) ~> (main[a] = "gone")
=============================================================================
