---------------------------- MODULE Peers_proofs ----------------------------
(* That all the peers of a round receive one and the same average, that        *)
(* signals, however many, credit a session at most once and a single one ends  *)
(* it, for any agents, that no peer table ever holds its own node, and that a  *)
(* node which is left alone hears of nobody.                                   *)
EXTENDS GradientSync, NodeAgent, PeerTable, FiniteSetTheorems, TLAPS

-----------------------------------------------------------------------------
(* The gradient exchange *)

USE GradientAssumption DEF Threads, Averages

\* A subset of the peers that has num_peers members has them all.
LEMMA EnoughIsAll ==
  ASSUME AllExpected, received \subseteq Peers, Enough
  PROVE  received = Peers
<1>1. Cardinality(Peers) \in Nat /\ Cardinality(received) \in Nat
  BY FS_CardinalityType, FS_Subset
<1>2. Cardinality(received) <= Cardinality(Peers)
  BY FS_Subset
<1> QED
  BY <1>1, <1>2, FS_Subset DEF AllExpected, Enough

\* Nothing is received and nothing answered.
LEMMA GSInitInv == GSInit => GSInv
BY DEF GSInit, GSInv, GSTypeOK, PeersAgree, SumOfAll

\* What a handler does with its peer's gradients.
LEMMA HandlerKeeps ==
  ASSUME GSInv, NEW p \in Peers, HandlerStep(p)
  PROVE  GSInv'
<1> USE DEF GSInv, GSTypeOK, PeersAgree, SumOfAll, AllExpected
<1>1. CASE Read(p)
  BY <1>1 DEF Read
<1>2. CASE ReadFails(p)
  BY <1>2 DEF ReadFails
<1>3. CASE Weigh(p)
  <2>1. AllExpected => received = Peers
    BY <1>3, EnoughIsAll DEF Weigh
  <2> QED
    BY <1>3, <2>1 DEF Weigh
<1>4. CASE Answer(p)
  <2>1. AllExpected => Average(p) = [weighed |-> Peers, added |-> Peers]
    BY <1>4 DEF Answer, Average
  <2>0. Average(p) \in Averages
    BY DEF Average
  <2> HIDE DEF SumOfAll
  <2>2. SumOfAll'
    BY <1>4 DEF Answer, SumOfAll
  <2>3. CASE peer[p] = "waiting"
    BY <1>4, <2>0, <2>1, <2>2, <2>3 DEF Answer
  <2>4. CASE peer[p] # "waiting"
    BY <1>4, <2>2, <2>4 DEF Answer
  <2> QED
    BY <2>3, <2>4
<1>5. CASE AnswerFails(p)
  BY <1>5 DEF AnswerFails
<1> QED
  BY <1>1, <1>2, <1>3, <1>4, <1>5 DEF HandlerStep

\* What the coordinator's own thread does.
LEMMA MainKeeps ==
  ASSUME GSInv, MainStep
  PROVE  GSInv'
<1> USE DEF GSInv, GSTypeOK, PeersAgree, SumOfAll, AllExpected
<1>1. CASE Test
  BY <1>1 DEF Test
<1>2. CASE AcceptTimesOut
  BY <1>2 DEF AcceptTimesOut
<1>3. ASSUME NEW p \in Peers, Accept(p) PROVE GSInv'
  BY <1>3 DEF Accept
<1>4. CASE MainWeigh
  BY <1>4 DEF MainWeigh
<1>5. CASE Aggregate
  <2>1. Average(Main) \in Averages
    BY DEF Average
  <2>2. GSTypeOK'
    BY <1>5, <2>1 DEF Aggregate, CloseServer
  <2> QED
    BY <1>5, <2>2 DEF Aggregate
<1>6. CASE AggregateFails
  <2>1. GSTypeOK'
    BY <1>6 DEF AggregateFails, CloseServer
  <2> QED
    BY <1>6, <2>1 DEF AggregateFails
<1> QED
  BY <1>1, <1>2, <1>3, <1>4, <1>5, <1>6 DEF MainStep

\* Each handler and each step of the server keeps the invariant.
LEMMA GSInvStep == GSInv /\ [GSNext]_gsVars => GSInv'
<1> SUFFICES ASSUME GSInv, [GSNext]_gsVars
             PROVE  GSInv'
  OBVIOUS
<1>1. ASSUME NEW p \in Peers, Connect(p) \/ Send(p) \/ PeerFails(p) PROVE GSInv'
  <2>1. /\ peer[p] \notin {"updated", "failed"}
        /\ \E l \in {"connected", "waiting", "failed"} : peer' = [peer EXCEPT ![p] = l]
        /\ UNCHANGED <<numPeers, scored, server, handler, received, weighed, answer, aggregate>>
    BY <1>1 DEF Connect, Send, PeerFails
  <2>2. late' \in BOOLEAN /\ backlog' \in SUBSET Peers /\ sent' \in {sent, sent \cup {p}}
    BY <1>1 DEF GSInv, GSTypeOK, Connect, Send, PeerFails
  <2>3. GSTypeOK'
    BY <2>1, <2>2 DEF GSInv, GSTypeOK
  <2> QED
    BY <2>1, <2>3 DEF GSInv, PeersAgree, SumOfAll, AllExpected
<1>2. CASE UNCHANGED gsVars
  BY <1>2 DEF GSInv, GSTypeOK, PeersAgree, SumOfAll, AllExpected, gsVars
<1> QED
  BY <1>1, <1>2, HandlerKeeps, MainKeeps DEF GSNext

\* The types, and that no gradients are counted before they were sent.
THEOREM RoundTypeCorrect == GSSpec => []GSTypeOK
<1>1. GSSpec => []GSInv
  BY GSInitInv, GSInvStep, PTL DEF GSSpec
<1> QED
  BY <1>1, PTL DEF GSInv

\* For any number of peers, of which any may fail or time out at any point, the
\* peers that receive an average receive the average of all.
THEOREM PeersReceiveOneAverage == GSSpec => []PeersAgree
<1>1. GSSpec => []GSInv
  BY GSInitInv, GSInvStep, PTL DEF GSSpec
<1> QED
  BY <1>1, PTL DEF GSInv

\* What a handler is about to send was weighed when enough gradients were there.
SumOfEnough ==
  \A p \in Peers : handler[p] = "sum" =>
    weighed[p] \subseteq received /\ Cardinality(weighed[p]) >= numPeers

\* Steps that neither weigh nor answer.
LEMMA SumsStay ==
  ASSUME GSInv, SumOfEnough, AnswerOfEnough,
         UNCHANGED <<numPeers, answer>>, received \subseteq received',
         \A p \in Peers : weighed'[p] = weighed[p] /\ (handler'[p] = "sum" => handler[p] = "sum")
  PROVE  SumOfEnough' /\ AnswerOfEnough'
BY DEF SumOfEnough, AnswerOfEnough

\* Only the gradients of enough peers are averaged, and only such an average is answered.
LEMMA EnoughStep ==
  ASSUME GSInv, SumOfEnough, AnswerOfEnough, [GSNext]_gsVars
  PROVE  SumOfEnough' /\ AnswerOfEnough'
<1> USE DEF GSInv, GSTypeOK
<1>1. ASSUME NEW p \in Peers, Weigh(p) PROVE SumOfEnough' /\ AnswerOfEnough'
  BY <1>1 DEF Weigh, Enough, SumOfEnough, AnswerOfEnough
<1>2. ASSUME NEW p \in Peers, Answer(p) PROVE SumOfEnough' /\ AnswerOfEnough'
  <2>1. SumOfEnough'
    BY <1>2 DEF Answer, SumOfEnough
  <2>2. /\ numPeers' = numPeers
        /\ \A q \in Peers : answer'[q] = answer[q] \/ (q = p /\ answer'[q] = Average(p))
    BY <1>2 DEF Answer
  <2>3. Average(p).weighed \subseteq Average(p).added /\ Cardinality(Average(p).weighed) >= numPeers
    BY <1>2 DEF Answer, Average, SumOfEnough
  <2> QED
    BY <2>1, <2>2, <2>3 DEF AnswerOfEnough
<1>3. ASSUME NEW p \in Peers,
             Connect(p) \/ Send(p) \/ PeerFails(p) \/ Read(p) \/ ReadFails(p) \/ AnswerFails(p)
      PROVE  SumOfEnough' /\ AnswerOfEnough'
  BY <1>3, SumsStay DEF Connect, Send, PeerFails, Read, ReadFails, AnswerFails
<1>4. CASE MainStep
  BY <1>4, SumsStay
  DEF MainStep, Test, AcceptTimesOut, Accept, MainWeigh, Aggregate, AggregateFails
<1>5. CASE UNCHANGED gsVars
  BY <1>5, SumsStay DEF gsVars
<1> HIDE DEF GSInv, GSTypeOK
<1> QED
  BY <1>1, <1>2, <1>3, <1>4, <1>5 DEF GSNext, HandlerStep

\* No peer is answered with the average of fewer peers than the coordinator waits
\* for, although _fedavg() walks twice through a dictionary that grows under it.
THEOREM AnswersAreOfEnough == GSSpec => []AnswerOfEnough
<1>1. GSInit => GSInv /\ SumOfEnough /\ AnswerOfEnough
  BY GSInitInv DEF GSInit, SumOfEnough, AnswerOfEnough
<1> QED
  BY <1>1, GSInvStep, EnoughStep, PTL DEF GSSpec

HIDE GradientAssumption DEF Threads, Averages

-----------------------------------------------------------------------------
(* The node agent *)

Places == {"init", "serve", "install", "loop", "finally", "gone"}

\* What an action leaves alone, and what it does to one call of stop().
LEMMA GotoFrame ==
  ASSUME step \in [Agents -> [Stoppers -> Steps]],
         NEW a \in Agents, NEW t \in Stoppers, NEW l \in Steps, Goto(a, t, l)
  PROVE  /\ step' \in [Agents -> [Stoppers -> Steps]]
         /\ step'[a][t] = l
         /\ \A s \in Stoppers \ {t} : step'[a][s] = step[a][s]
         /\ \A b \in Agents \ {a} : step'[b] = step[b]
<1>1. step' = [step EXCEPT ![a] = [step[a] EXCEPT ![t] = l]]
  BY DEF Goto
<1>2. [step[a] EXCEPT ![t] = l] \in [Stoppers -> Steps]
  OBVIOUS
<1> QED
  BY <1>1, <1>2

\* The threads are three kinds that do not overlap.
LEMMA StopperKinds ==
  /\ Http \in Stoppers /\ Finally \in Stoppers /\ Signals \subseteq Stoppers
  /\ Http # Finally /\ Http \notin Signals /\ Finally \notin Signals
  /\ \A t \in Stoppers : t \in Signals \/ t = Http \/ t = Finally
BY AgentAssumption DEF Http, Finally, Signals, Stoppers

\* What NATypeOK says of one agent.
AgentOK(a) ==
  /\ main[a] = "init" => session[a] = "none"
  /\ main[a] \notin {"init", "gone"} => session[a] # "none"
  /\ \A i \in Signals : step[a][i] # "idle" => main[a] \in {"loop", "finally"}
  /\ step[a][Finally] # "idle" => main[a] = "finally"
  /\ step[a][Http] # "idle" => a \in posted /\ main[a] \in {"install", "loop", "finally"}

\* No agent has opened a session.
LEMMA NAInitInv == NAInit => NAInv
<1> SUFFICES ASSUME NAInit PROVE NAInv
  OBVIOUS
<1>1. {a \in Agents : session[a] = "completed"} = {}
  BY DEF NAInit
<1>2. CreditedOnce
  BY <1>1, FS_EmptySet DEF CreditedOnce, NAInit
<1>3. NATypeOK
  BY StopperKinds, AgentAssumption DEF NAInit, NATypeOK, Steps
<1>4. EndedAgentIsStopped /\ PastTheFlag
  BY DEF NAInit, EndedAgentIsStopped, PastTheFlag
<1> QED
  BY <1>2, <1>3, <1>4 DEF NAInv

\* How a call of stop() ends.
LEMMA EndedFrame ==
  ASSUME NAInv, NEW a \in Agents, NEW t \in Stoppers, step[a][t] # "idle", Ended(a, t)
  PROVE  /\ main' \in [Agents -> Places]
         /\ step' \in [Agents -> [Stoppers -> Steps]]
         /\ main'[a] \in {"install", "loop", "finally", "gone"}
         /\ \A s \in Stoppers : step'[a][s] \in {step[a][s], "idle", "check"}
         /\ \A i \in Signals : step'[a][i] # "idle" => main'[a] \in {"loop", "finally"}
         /\ step'[a][Finally] # "idle" => main'[a] = "finally"
         /\ step'[a][Http] # "idle" => a \in posted /\ main'[a] \in {"install", "loop", "finally"}
         /\ a \notin posted => \A s \in Stoppers : step'[a][s] \in {"idle", "check"}
         /\ \A b \in Agents \ {a} : main'[b] = main[b] /\ step'[b] = step[b]
         /\ main[a] \in {"install", "loop", "finally"}
<1> USE DEF NAInv, NATypeOK, Places
<1>1. step[a][Http] # "idle" => a \in posted /\ main[a] \in {"install", "loop", "finally"}
  OBVIOUS
<1>2. main[a] \in {"install", "loop", "finally"}
  BY StopperKinds
<1>3. CASE t = Http
  <2>1. Goto(a, Http, "idle") /\ UNCHANGED main
    BY <1>3, StopperKinds DEF Ended
  <2>2. /\ step' \in [Agents -> [Stoppers -> Steps]]
        /\ step'[a][Http] = "idle"
        /\ \A s \in Stoppers \ {Http} : step'[a][s] = step[a][s]
        /\ \A b \in Agents \ {a} : step'[b] = step[b]
    BY <2>1, GotoFrame, StopperKinds DEF Steps
  <2>3. a \in posted
    BY <1>1, <1>3
  <2>4. \A i \in Signals : i \in Stoppers \ {Http}
    BY StopperKinds
  <2> QED
    BY <1>2, <2>1, <2>2, <2>3, <2>4, StopperKinds
<1>4. CASE t \in Signals /\ main[a] = "loop"
  <2> DEFINE g == [s \in Stoppers |-> IF s = Finally THEN "check"
                                      ELSE IF s = Http THEN step[a][s] ELSE "idle"]
  <2>1. MainGoto(a, "finally") /\ step' = [step EXCEPT ![a] = g]
    BY <1>4, StopperKinds DEF Ended
  <2>2. /\ g \in [Stoppers -> Steps]
        /\ \A s \in Stoppers \ {Http} : g[s] = IF s = Finally THEN "check" ELSE "idle"
        /\ g[Http] = step[a][Http]
    BY StopperKinds DEF Steps
  <2> HIDE DEF g
  <2>3. step' \in [Agents -> [Stoppers -> Steps]] /\ step'[a] = g
    BY <2>1, <2>2
  <2>4. \A b \in Agents \ {a} : step'[b] = step[b]
    BY <2>1
  <2>5. /\ main' \in [Agents -> Places] /\ main'[a] = "finally"
        /\ \A b \in Agents \ {a} : main'[b] = main[b]
    BY <2>1 DEF MainGoto
  <2> HIDE DEF NAInv, NATypeOK
  <2> QED
    BY <1>1, <1>2, <2>2, <2>3, <2>4, <2>5, StopperKinds
<1>5. CASE t # Http /\ (t = Finally \/ main[a] = "finally")
  <2> DEFINE g == [s \in Stoppers |-> "idle"]
  <2>1. MainGoto(a, "gone") /\ step' = [step EXCEPT ![a] = g]
    BY <1>5, StopperKinds DEF Ended, Exit
  <2>2. g \in [Stoppers -> Steps] /\ \A s \in Stoppers : g[s] = "idle"
    BY DEF Steps
  <2> HIDE DEF g
  <2> QED
    BY <1>2, <2>1, <2>2, StopperKinds DEF MainGoto
<1> QED
  BY <1>3, <1>4, <1>5, StopperKinds

\* A step of stop() after which the call is at l and the session what it was.
LEMMA GotoKeeps ==
  ASSUME NAInv, NEW a \in Agents, NEW t \in Stoppers,
         NEW l \in Steps \ {"idle"}, Goto(a, t, l),
         step[a][t] # "idle", session[a] = "completed" => a \in posted \/ l = "check",
         running' \in [Agents -> BOOLEAN],
         \A b \in Agents : running'[b] => running[b],
         l \in {"halt", "get", "write"} => ~running'[a],
         UNCHANGED <<main, session, expired, total, signals, posted, broken>>
  PROVE  NAInv'
<1> USE DEF NAInv
<1>1. /\ step' \in [Agents -> [Stoppers -> Steps]]
      /\ step'[a][t] = l
      /\ \A s \in Stoppers \ {t} : step'[a][s] = step[a][s]
      /\ \A b \in Agents \ {a} : step'[b] = step[b]
  BY GotoFrame DEF NATypeOK
<1>2. \A b \in Agents, s \in Stoppers : step'[b][s] # "idle" => step[b][s] # "idle"
  BY <1>1
<1>3. NATypeOK'
  <2>1. \A b \in Agents : AgentOK(b)
    BY DEF NATypeOK, AgentOK
  <2>2. \A b \in Agents : AgentOK(b)'
    BY <1>2, <2>1, StopperKinds DEF AgentOK
  <2>3. UNCHANGED <<main, session, expired, total, signals, posted, broken>>
    OBVIOUS
  <2> QED
    BY <1>1, <2>2, <2>3 DEF NATypeOK, AgentOK
<1>4. CreditedOnce'
  BY DEF CreditedOnce
<1>5. EndedAgentIsStopped'
  <2> SUFFICES ASSUME NEW b \in Agents, session'[b] = "completed"
               PROVE  /\ ~running'[b]
                      /\ b \in posted' \/ \A s \in Stoppers : step'[b][s] \in {"idle", "check"}
    BY DEF EndedAgentIsStopped
  <2>1. /\ session[b] = "completed" /\ posted' = posted /\ ~running'[b]
        /\ b \in posted \/ \A s \in Stoppers : step[b][s] \in {"idle", "check"}
    BY DEF EndedAgentIsStopped
  <2> QED
    BY <1>1, <2>1
<1>6. PastTheFlag'
  <2> SUFFICES ASSUME NEW b \in Agents, NEW s \in Stoppers,
                      step'[b][s] \in {"halt", "get", "write"}
               PROVE  ~running'[b]
    BY DEF PastTheFlag
  <2> QED
    BY <1>1 DEF PastTheFlag
<1> QED
  BY <1>3, <1>4, <1>5, <1>6

\* A call of stop() that ends without having ended the session.
LEMMA EndedKeeps ==
  ASSUME NAInv, NEW a \in Agents, NEW t \in Stoppers,
         step[a][t] # "idle", Ended(a, t), broken' \in SUBSET Agents,
         UNCHANGED <<running, session, expired, total, signals, posted>>
  PROVE  NAInv'
<1> USE DEF NAInv
<1>1. NATypeOK'
  <2>1. AgentOK(a)'
    <3>1. main[a] \in {"install", "loop", "finally"} /\ session[a] # "none"
      BY EndedFrame DEF NATypeOK
    <3> QED
      BY <3>1, EndedFrame DEF AgentOK
  <2>2. \A b \in Agents \ {a} : AgentOK(b)'
    BY EndedFrame DEF NATypeOK, AgentOK
  <2> QED
    BY <2>1, <2>2, EndedFrame DEF NATypeOK, AgentOK, Places
<1>2. CreditedOnce'
  BY DEF CreditedOnce
<1>3. EndedAgentIsStopped'
  BY EndedFrame DEF EndedAgentIsStopped, NATypeOK
<1>4. PastTheFlag'
  <2>1. \A b \in Agents, s \in Stoppers :
          step'[b][s] \in {"halt", "get", "write"} => step'[b][s] = step[b][s]
    BY EndedFrame
  <2> QED
    BY <2>1 DEF PastTheFlag
<1> QED
  BY <1>1, <1>2, <1>3, <1>4

\* The steps of stop() before the session is written.
LEMMA StopKeeps ==
  ASSUME NAInv, NEW a \in Agents, NEW t \in Stoppers,
         Check(a, t) \/ Mark(a, t) \/ Halt(a, t) \/ GetSession(a, t)
  PROVE  NAInv'
<1>1. /\ running \in [Agents -> BOOLEAN]
      /\ session[a] = "completed" =>
           ~running[a] /\ (a \in posted \/ step[a][t] \in {"idle", "check"})
      /\ step[a][t] \in {"halt", "get", "write"} => ~running[a]
  BY DEF NAInv, NATypeOK, EndedAgentIsStopped, PastTheFlag
<1>2. {"check", "mark", "halt", "get", "write"} \subseteq Steps \ {"idle"}
  BY DEF Steps
<1>3. CASE Check(a, t)
  <2>1. step[a][t] = "check" /\ UNCHANGED <<running, session, expired, total, signals, posted, broken>>
    BY <1>3 DEF Check
  <2>2. CASE running[a] /\ Goto(a, t, "mark") /\ UNCHANGED main
    BY <1>1, <1>2, <2>1, <2>2, GotoKeeps
  <2>3. CASE Ended(a, t)
    <3>1. broken' \in SUBSET Agents
      BY <2>1 DEF NAInv, NATypeOK
    <3> QED
      BY <2>1, <2>3, <3>1, EndedKeeps
  <2> QED
    BY <1>3, <2>2, <2>3 DEF Check
<1>4. CASE Mark(a, t)
  <2>1. /\ running' \in [Agents -> BOOLEAN] /\ ~running'[a]
        /\ \A b \in Agents : running'[b] => running[b]
    BY <1>1, <1>4 DEF Mark
  <2> QED
    BY <1>1, <1>2, <1>4, <2>1, GotoKeeps DEF Mark
<1>5. CASE Halt(a, t)
  <2>1. step[a][t] = "halt" /\ UNCHANGED <<running, session, expired, total, signals, posted>>
    BY <1>5 DEF Halt
  <2>2. CASE Goto(a, t, "get") /\ UNCHANGED <<main, broken>>
    BY <1>1, <1>2, <2>1, <2>2, GotoKeeps
  <2>3. CASE Ended(a, t) /\ broken' = broken \cup {a}
    <3>1. broken' \in SUBSET Agents
      BY <2>3 DEF NAInv, NATypeOK
    <3> QED
      BY <2>1, <2>3, <3>1, EndedKeeps
  <2> QED
    BY <1>5, <2>2, <2>3 DEF Halt
<1>6. CASE GetSession(a, t)
  <2>1. step[a][t] = "get" /\ UNCHANGED <<running, session, expired, total, signals, posted, broken>>
    BY <1>6 DEF GetSession
  <2>2. CASE Goto(a, t, "write") /\ UNCHANGED main
    BY <1>1, <1>2, <2>1, <2>2, GotoKeeps
  <2>3. CASE Ended(a, t)
    <3>1. broken' \in SUBSET Agents
      BY <2>1 DEF NAInv, NATypeOK
    <3> QED
      BY <2>1, <2>3, <3>1, EndedKeeps
  <2> QED
    BY <1>6, <2>2, <2>3 DEF GetSession
<1> QED
  BY <1>3, <1>4, <1>5, <1>6

\* The session is ended once: before, it was active, and afterwards no call of
\* stop() is past the flag.
LEMMA EndKeeps ==
  ASSUME NAInv, NEW a \in Agents, NEW t \in Stoppers, EndSession(a, t)
  PROVE  NAInv'
<1> DEFINE E == {b \in Agents : session[b] = "completed"}
<1> USE DEF NAInv
<1>1. /\ a \in posted \/ session[a] # "completed"
      /\ ~running[a] /\ step[a][t] # "idle" /\ Ended(a, t)
  BY DEF EndSession, EndedAgentIsStopped, PastTheFlag
<1>2. /\ session' = [session EXCEPT ![a] = "completed"] /\ total' = total + 1
      /\ expired' = expired \ {a}
      /\ UNCHANGED <<running, signals, posted, broken>>
  BY DEF EndSession
<1>3. CreditedOnce'
  <2> SUFFICES ASSUME posted = {} PROVE CreditedOnce'
    BY <1>2 DEF CreditedOnce
  <2>1. {b \in Agents : session'[b] = "completed"} = E \cup {a} /\ a \notin E
    BY <1>1, <1>2 DEF NATypeOK
  <2>2. IsFiniteSet(E)
    BY FS_Subset, AgentAssumption
  <2>3. Cardinality(E \cup {a}) = Cardinality(E) + 1
    BY <2>1, <2>2, FS_AddElement
  <2> QED
    BY <1>2, <2>1, <2>3 DEF CreditedOnce
<1>4. NATypeOK'
  <2>1. AgentOK(a)'
    BY <1>1, <1>2, EndedFrame DEF NATypeOK, AgentOK
  <2>2. \A b \in Agents \ {a} : AgentOK(b)'
    BY <1>1, <1>2, EndedFrame DEF NATypeOK, AgentOK
  <2>3. /\ session' \in [Agents -> {"none", "active", "completed"}]
        /\ expired' \in SUBSET Agents /\ total' \in Nat
    BY <1>2 DEF NATypeOK
  <2> QED
    BY <1>1, <1>2, <2>1, <2>2, <2>3, EndedFrame DEF NATypeOK, AgentOK, Places
<1>5. EndedAgentIsStopped'
  BY <1>1, <1>2, EndedFrame DEF EndedAgentIsStopped, NATypeOK
<1>6. PastTheFlag'
  <2>1. \A b \in Agents, s \in Stoppers :
          step'[b][s] \in {"halt", "get", "write"} => step'[b][s] = step[b][s]
    BY <1>1, EndedFrame
  <2> QED
    BY <1>2, <2>1 DEF PastTheFlag
<1> QED
  BY <1>3, <1>4, <1>5, <1>6

\* A step of run() other than the first, which leaves the sessions alone.
LEMMA RunKeeps ==
  ASSUME NAInv, NEW a \in Agents, Serve(a) \/ Install(a) \/ LoopEnds(a)
  PROVE  NAInv'
<1> USE DEF NAInv
<1>1. CreditedOnce'
  BY DEF CreditedOnce, Serve, Install, LoopEnds
<1>2. CASE Serve(a) \/ Install(a)
  <2>1. UNCHANGED <<running, step, session, expired, total, signals, posted, broken>>
    BY <1>2 DEF Serve, Install
  <2>2. NATypeOK'
    <3>1. /\ main' \in [Agents -> Places] /\ main'[a] \in {"install", "loop"}
          /\ \A b \in Agents \ {a} : main'[b] = main[b]
          /\ main[a] \in {"serve", "install"}
          /\ main[a] = "install" => main'[a] = "loop"
      BY <1>2 DEF NATypeOK, Serve, Install, MainGoto, Places
    <3>2. main[a] = "serve" => \A t \in Stoppers : step[a][t] = "idle"
      BY StopperKinds DEF NATypeOK
    <3>3. main[a] = "install" => \A t \in Stoppers : step[a][t] = "idle" \/ t = Http
      BY StopperKinds DEF NATypeOK
    <3>4. AgentOK(a)'
      BY <2>1, <3>1, <3>2, <3>3, StopperKinds DEF NATypeOK, AgentOK
    <3>5. \A b \in Agents \ {a} : AgentOK(b)'
      BY <2>1, <3>1 DEF NATypeOK, AgentOK
    <3> QED
      BY <2>1, <3>1, <3>4, <3>5 DEF NATypeOK, AgentOK, Places
  <2> QED
    BY <1>1, <2>1, <2>2 DEF EndedAgentIsStopped, PastTheFlag
<1>3. CASE LoopEnds(a)
  <2>1. /\ step' \in [Agents -> [Stoppers -> Steps]]
        /\ step'[a][Finally] = "check"
        /\ \A s \in Stoppers \ {Finally} : step'[a][s] = step[a][s]
        /\ \A b \in Agents \ {a} : step'[b] = step[b]
    BY <1>3, GotoFrame, StopperKinds DEF LoopEnds, NATypeOK, Steps
  <2>2. NATypeOK'
    <3>1. /\ main' \in [Agents -> Places] /\ main'[a] = "finally"
          /\ \A b \in Agents \ {a} : main'[b] = main[b]
      BY <1>3 DEF NATypeOK, LoopEnds, MainGoto, Places
    <3>2. main[a] = "loop" /\ UNCHANGED <<running, session, expired, total, signals, posted, broken>>
      BY <1>3 DEF LoopEnds
    <3>3. AgentOK(a)'
      <4>1. session'[a] # "none" /\ (step[a][Http] # "idle" => a \in posted')
        BY <3>2 DEF NATypeOK
      <4>2. step'[a][Http] # "idle" => a \in posted'
        BY <2>1, <4>1, StopperKinds
      <4> QED
        BY <3>1, <4>1, <4>2 DEF AgentOK
    <3>4. \A b \in Agents \ {a} : AgentOK(b)'
      BY <2>1, <3>1, <3>2, StopperKinds DEF NATypeOK, AgentOK
    <3>5. \A b \in Agents : AgentOK(b)'
      BY <3>3, <3>4
    <3>6. /\ running' \in [Agents -> BOOLEAN]
          /\ session' \in [Agents -> {"none", "active", "completed"}]
          /\ expired' \in SUBSET Agents /\ total' \in Nat
          /\ signals' \in [Agents -> 0..MaxSignals]
          /\ posted' \in SUBSET Agents /\ broken' \in SUBSET Agents
      BY <3>2 DEF NATypeOK
    <3> QED
      BY <2>1, <3>1, <3>5, <3>6 DEF NATypeOK, AgentOK, Places
  <2>3. EndedAgentIsStopped' /\ PastTheFlag'
    BY <1>3, <2>1 DEF EndedAgentIsStopped, PastTheFlag, LoopEnds
  <2> QED
    BY <1>1, <2>2, <2>3
<1> QED
  BY <1>2, <1>3

\* The steps of an agent taken together.
LEMMA NAInvStep ==
  ASSUME NAInv, [NANext]_naVars
  PROVE  NAInv'
<1> USE DEF NAInv
<1>1. ASSUME NEW a \in Agents, OpenSession(a) PROVE NAInv'
  <2>1. {b \in Agents : session'[b] = "completed"} = {b \in Agents : session[b] = "completed"}
    BY <1>1 DEF OpenSession, NATypeOK
  <2>2. CreditedOnce'
    BY <1>1, <2>1 DEF CreditedOnce, OpenSession
  <2>3. NATypeOK'
    BY <1>1, StopperKinds DEF NATypeOK, OpenSession, MainGoto
  <2>4. \A t \in Stoppers : step[a][t] = "idle"
    BY <1>1, StopperKinds DEF NATypeOK, OpenSession
  <2>5. EndedAgentIsStopped' /\ PastTheFlag'
    BY <1>1, <2>4 DEF NATypeOK, EndedAgentIsStopped, PastTheFlag, OpenSession
  <2> QED
    BY <2>2, <2>3, <2>5
<1>2. ASSUME NEW a \in Agents, Signal(a) PROVE NAInv'
  <2>1. signals[a] + 1 \in Signals /\ signals' \in [Agents -> 0..MaxSignals]
    BY <1>2, AgentAssumption DEF Signal, Signals, NATypeOK
  <2>2. /\ step' \in [Agents -> [Stoppers -> Steps]]
        /\ step'[a][signals[a] + 1] = "check"
        /\ \A s \in Stoppers \ {signals[a] + 1} : step'[a][s] = step[a][s]
        /\ \A b \in Agents \ {a} : step'[b] = step[b]
    BY <1>2, <2>1, GotoFrame, StopperKinds DEF Signal, NATypeOK, Steps
  <2>3. NATypeOK'
    <3>1. main[a] \in {"loop", "finally"} /\ UNCHANGED <<main, running, session, expired, total, posted, broken>>
      BY <1>2 DEF Signal
    <3>2. AgentOK(a)'
      BY <2>1, <2>2, <3>1, StopperKinds DEF NATypeOK, AgentOK
    <3>3. \A b \in Agents \ {a} : AgentOK(b)'
      BY <2>2, <3>1, StopperKinds DEF NATypeOK, AgentOK
    <3> QED
      BY <2>1, <2>2, <3>1, <3>2, <3>3 DEF NATypeOK, AgentOK
  <2>4. EndedAgentIsStopped' /\ PastTheFlag' /\ CreditedOnce'
    BY <1>2, <2>2 DEF EndedAgentIsStopped, PastTheFlag, CreditedOnce, Signal
  <2> QED
    BY <2>3, <2>4
<1>3. ASSUME NEW a \in Agents, Killed(a) PROVE NAInv'
  <2> DEFINE g == [s \in Stoppers |-> "idle"]
  <2>1. g \in [Stoppers -> Steps] /\ \A s \in Stoppers : g[s] = "idle"
    BY DEF Steps
  <2>2. MainGoto(a, "gone") /\ step' = [step EXCEPT ![a] = g]
    BY <1>3 DEF Killed, Exit
  <2> HIDE DEF g
  <2>3. NATypeOK'
    BY <1>3, <2>1, <2>2, StopperKinds DEF NATypeOK, Killed, MainGoto
  <2>4. EndedAgentIsStopped' /\ PastTheFlag' /\ CreditedOnce'
    BY <1>3, <2>1, <2>2 DEF NATypeOK, EndedAgentIsStopped, PastTheFlag, CreditedOnce, Killed
  <2> QED
    BY <2>3, <2>4
<1>4. ASSUME NEW a \in Agents, Post(a) PROVE NAInv'
  <2>1. /\ step' \in [Agents -> [Stoppers -> Steps]]
        /\ step'[a][Http] = "check"
        /\ \A s \in Stoppers \ {Http} : step'[a][s] = step[a][s]
        /\ \A b \in Agents \ {a} : step'[b] = step[b]
    BY <1>4, GotoFrame, StopperKinds DEF Post, NATypeOK, Steps
  <2>2. /\ main[a] \in {"install", "loop", "finally"} /\ posted' = posted \cup {a}
        /\ UNCHANGED <<main, running, session, expired, total, signals, broken>>
    BY <1>4 DEF Post
  <2>3. NATypeOK'
    <3>1. AgentOK(a)'
      BY <2>1, <2>2, StopperKinds DEF NATypeOK, AgentOK
    <3>2. \A b \in Agents \ {a} : AgentOK(b)'
      BY <2>1, <2>2, StopperKinds DEF NATypeOK, AgentOK
    <3> QED
      BY <2>1, <2>2, <3>1, <3>2 DEF NATypeOK, AgentOK
  <2>4. EndedAgentIsStopped' /\ PastTheFlag' /\ CreditedOnce'
    BY <2>1, <2>2 DEF EndedAgentIsStopped, PastTheFlag, CreditedOnce
  <2> QED
    BY <2>3, <2>4
<1>5. ASSUME NEW a \in Agents, SessionExpires(a) PROVE NAInv'
  <2>1. NATypeOK'
    BY <1>5 DEF NATypeOK, SessionExpires
  <2>2. EndedAgentIsStopped' /\ PastTheFlag' /\ CreditedOnce'
    BY <1>5 DEF EndedAgentIsStopped, PastTheFlag, CreditedOnce, SessionExpires
  <2> QED
    BY <2>1, <2>2
<1>6. CASE UNCHANGED naVars
  BY <1>6 DEF naVars, NATypeOK, EndedAgentIsStopped, PastTheFlag, CreditedOnce
<1> HIDE DEF NAInv
<1> QED
  BY <1>1, <1>2, <1>3, <1>4, <1>5, <1>6, RunKeeps, StopKeeps, EndKeeps
  DEF NANext, RunStep, StopStep, AllGone

\* For any number of agents and of nested signals, tasks that do not end and
\* kills included, the owner's total counts every ended session once, and an
\* agent that has ended its session is past stop(), as long as none is stopped
\* over HTTP.
THEOREM SignalsCreditOnce == NASpec => []NAInv
<1>1. NAInv /\ [NANext]_naVars => NAInv'
  BY NAInvStep
<1> QED
  BY NAInitInv, <1>1, PTL DEF NASpec

\* An agent that was sent at most one signal, was not killed, stopped its task and
\* has not outlived its session's key.
Peaceful(a) == signals[a] <= 1 /\ a \notin posted \cup broken \cup expired

\* It has not left run(), and when it no longer runs a call of stop() is under way,
\* which is past the flag.
AtWork(a) ==
  /\ main[a] \in {"init", "serve", "install", "loop"}
  /\ \A i \in Signals : i > signals[a] => step[a][i] = "idle"
  /\ \A t \in Stoppers : step[a][t] # "idle" => running[a] = (step[a][t] \in {"check", "mark"})
  /\ running[a] \/ main[a] = "init" \/ \E t \in Stoppers : step[a][t] # "idle"

SessionsInHand == \A a \in Agents : Peaceful(a) => session[a] = "completed" \/ AtWork(a)

\* At work, the only call of stop() there can be is that of the first signal.
LEMMA OneStopper ==
  ASSUME NATypeOK, NEW a \in Agents, Peaceful(a), AtWork(a), NEW t \in Stoppers, step[a][t] # "idle"
  PROVE  /\ main[a] = "loop" /\ t \in Signals /\ t # Http /\ t # Finally
         /\ \A s \in Stoppers \ {t} : step[a][s] = "idle"
<1>1. \A s \in Stoppers : step[a][s] # "idle" => s \in Signals
  BY StopperKinds DEF NATypeOK, Peaceful, AtWork
<1>2. \A s \in Signals : step[a][s] # "idle" => s <= signals[a] /\ s \in 1..MaxSignals
  BY AgentAssumption DEF NATypeOK, AtWork, Signals
<1>3. \A s \in Stoppers : step[a][s] # "idle" => s = 1
  <2>1. signals[a] \in Int /\ signals[a] <= 1 /\ MaxSignals \in Nat
    BY AgentAssumption DEF NATypeOK, Peaceful
  <2> QED
    BY <1>1, <1>2, <2>1
<1> QED
  BY <1>1, <1>3, StopperKinds DEF NATypeOK, AtWork

\* What a step of stop() makes of an agent at work, unless its task does not end.
LEMMA StopAtWork ==
  ASSUME NAInv, NEW a \in Agents, Peaceful(a), AtWork(a),
         NEW t \in Stoppers, StopStep(a, t), a \notin broken', session'[a] # "completed"
  PROVE  AtWork(a)'
<1>1. NATypeOK /\ step[a][t] # "idle" /\ UNCHANGED signals
  BY DEF NAInv, StopStep, Check, Mark, Halt, GetSession, EndSession
<1>2. /\ main[a] = "loop" /\ t \in Signals /\ t # Http /\ t # Finally
      /\ \A s \in Stoppers \ {t} : step[a][s] = "idle"
  BY <1>1, OneStopper
<1>3. PICK l \in Steps \ {"idle"} :
        /\ Goto(a, t, l) /\ UNCHANGED main
        /\ running'[a] = (l \in {"check", "mark"})
  <2>1. running[a] = (step[a][t] \in {"check", "mark"}) /\ running \in [Agents -> BOOLEAN]
    BY <1>1 DEF AtWork, NATypeOK
  <2>2. {"mark", "halt", "get", "write"} \subseteq Steps \ {"idle"}
    BY DEF Steps
  <2>3. CASE Check(a, t)
    BY <2>1, <2>2, <2>3 DEF Check
  <2>4. CASE Mark(a, t)
    <3>1. Goto(a, t, "halt") /\ UNCHANGED main /\ running'[a] = FALSE
      BY <2>1, <2>4 DEF Mark
    <3>2. FALSE = ("halt" \in {"check", "mark"})
      OBVIOUS
    <3> QED
      BY <2>2, <3>1, <3>2
  <2>5. CASE Halt(a, t)
    <3>1. Goto(a, t, "get") /\ UNCHANGED <<main, running>>
      BY <2>5 DEF Halt
    <3> QED
      BY <2>1, <2>2, <2>5, <3>1 DEF Halt
  <2>6. CASE GetSession(a, t)
    BY <2>1, <2>2, <2>6 DEF GetSession, Peaceful
  <2>7. ~EndSession(a, t)
    BY <1>1 DEF EndSession, NATypeOK
  <2> QED
    BY <2>3, <2>4, <2>5, <2>6, <2>7 DEF StopStep
<1>4. step'[a][t] = l /\ \A s \in Stoppers \ {t} : step'[a][s] = "idle"
  BY <1>1, <1>2, <1>3, GotoFrame DEF NATypeOK
<1>5. \A i \in Signals : i > signals'[a] => step'[a][i] = "idle"
  BY <1>1, <1>2, <1>4, StopperKinds DEF AtWork
<1> QED
  BY <1>2, <1>3, <1>4, <1>5 DEF AtWork

\* What a step of run(), or a signal, makes of an agent at work.
LEMMA RunAtWork ==
  ASSUME NAInv, NEW a \in Agents, Peaceful(a), AtWork(a), Peaceful(a)',
         RunStep(a) \/ Signal(a)
  PROVE  AtWork(a)'
<1>1. NATypeOK
  BY DEF NAInv
<1>2. CASE OpenSession(a)
  <2>1. \A t \in Stoppers : step[a][t] = "idle"
    BY <1>1, <1>2, StopperKinds DEF NATypeOK, OpenSession
  <2>2. main'[a] = "serve" /\ running'[a] /\ UNCHANGED <<step, signals>>
    BY <1>1, <1>2 DEF OpenSession, MainGoto, NATypeOK
  <2> QED
    BY <2>1, <2>2, StopperKinds DEF AtWork
<1>3. CASE Serve(a) \/ Install(a)
  BY <1>1, <1>3 DEF Serve, Install, MainGoto, AtWork, NATypeOK
<1>4. ~LoopEnds(a)
  <2> SUFFICES ASSUME LoopEnds(a) PROVE FALSE
    OBVIOUS
  <2>1. main[a] = "loop" /\ ~running[a] /\ \A i \in Signals : step[a][i] = "idle"
    BY DEF LoopEnds
  <2>2. PICK t \in Stoppers : step[a][t] # "idle"
    BY <2>1 DEF AtWork
  <2> QED
    BY <1>1, <2>1, <2>2, OneStopper
<1>5. CASE Signal(a)
  <2>1. /\ main[a] = "loop" /\ signals[a] = 0 /\ signals'[a] = 1 /\ 1 \in Signals
        /\ Goto(a, 1, "check") /\ UNCHANGED <<main, running>>
    <3>1. /\ signals[a] \in 0..MaxSignals /\ signals[a] < MaxSignals
          /\ signals'[a] = signals[a] + 1 /\ signals'[a] <= 1
      BY <1>1, <1>5 DEF Signal, NATypeOK, Peaceful
    <3>2. signals[a] = 0 /\ signals'[a] = 1 /\ 1 \in Signals
      BY <3>1, AgentAssumption DEF Signals
    <3> QED
      BY <1>5, <3>2 DEF Signal, AtWork
  <2>2. \A t \in Stoppers : step[a][t] = "idle"
    <3>1. \A i \in Signals : step[a][i] = "idle"
      BY <2>1, AgentAssumption DEF AtWork, Signals
    <3> QED
      BY <1>1, <3>1, OneStopper
  <2>3. running[a]
    BY <2>1, <2>2 DEF AtWork
  <2>4. step'[a][1] = "check" /\ \A s \in Stoppers \ {1} : step'[a][s] = "idle"
    BY <1>1, <2>1, <2>2, GotoFrame, StopperKinds DEF NATypeOK, Steps
  <2>5. \A i \in Signals : i > signals'[a] => step'[a][i] = "idle"
    BY <2>1, <2>4, StopperKinds, AgentAssumption DEF Signals
  <2> QED
    BY <2>1, <2>3, <2>4, <2>5 DEF AtWork
<1> QED
  BY <1>2, <1>3, <1>4, <1>5 DEF RunStep

\* No step takes an agent at work out of run() with its session open.
LEMMA InHandStep ==
  ASSUME NAInv, SessionsInHand, [NANext]_naVars
  PROVE  SessionsInHand'
<1> SUFFICES ASSUME NEW a \in Agents, Peaceful(a)', session'[a] # "completed"
             PROVE  AtWork(a)'
  BY DEF SessionsInHand
<1>0. NATypeOK
  BY DEF NAInv
<1> DEFINE Same == /\ main'[a] = main[a] /\ running'[a] = running[a] /\ step'[a] = step[a]
                   /\ signals'[a] = signals[a]
           Earlier == Peaceful(a) /\ session[a] # "completed"
<1>1. ASSUME Earlier, Same PROVE AtWork(a)'
  <2>1. AtWork(a)
    BY <1>1 DEF SessionsInHand
  <2> QED
    BY <1>1, <2>1 DEF AtWork
<1>2. ASSUME NEW b \in Agents, RunStep(b) \/ Signal(b) PROVE AtWork(a)'
  <2>1. /\ UNCHANGED <<posted, broken, expired>>
        /\ session'[a] # "completed" => session[a] # "completed"
    BY <1>0, <1>2 DEF RunStep, OpenSession, Serve, Install, LoopEnds, Signal, NATypeOK
  <2>2. Earlier
    <3>1. signals[a] \in Int /\ (signals'[a] = signals[a] \/ signals'[a] = signals[a] + 1)
      BY <1>0, <1>2, AgentAssumption
      DEF RunStep, OpenSession, Serve, Install, LoopEnds, Signal, NATypeOK
    <3> QED
      BY <2>1, <3>1 DEF Peaceful
  <2>3. CASE a = b
    <3>1. AtWork(a)
      BY <2>2 DEF SessionsInHand
    <3> QED
      BY <1>2, <2>2, <2>3, <3>1, RunAtWork
  <2>4. CASE a # b
    <3>1. Same
      BY <1>0, <1>2, <2>4
      DEF RunStep, OpenSession, Serve, Install, LoopEnds, Signal, MainGoto, Goto, NATypeOK
    <3> QED
      BY <1>1, <2>2, <3>1
  <2> QED
    BY <2>3, <2>4
<1>3. ASSUME NEW b \in Agents, NEW t \in Stoppers, StopStep(b, t) PROVE AtWork(a)'
  <2>1. /\ UNCHANGED <<signals, posted>> /\ broken \subseteq broken'
        /\ session'[a] # "completed" =>
             session[a] # "completed" /\ (a \in expired => a \in expired')
    BY <1>0, <1>3 DEF StopStep, Check, Mark, Halt, GetSession, EndSession, NATypeOK
  <2>2. Earlier
    BY <2>1 DEF Peaceful
  <2>3. CASE a = b
    <3>1. AtWork(a) /\ a \notin broken'
      BY <2>2 DEF SessionsInHand, Peaceful
    <3> QED
      BY <1>3, <2>2, <2>3, <3>1, StopAtWork
  <2>4. CASE a # b
    <3>1. step[b][t] # "idle"
      BY <1>3 DEF StopStep, Check, Mark, Halt, GetSession, EndSession
    <3>2. Ended(b, t) => main'[a] = main[a] /\ step'[a] = step[a]
      BY <2>4, <3>1, EndedFrame
    <3>3. \A l : Goto(b, t, l) => step'[a] = step[a]
      BY <1>0, <2>4 DEF Goto, NATypeOK
    <3>4. running'[a] = running[a]
      BY <1>0, <1>3, <2>4 DEF StopStep, Check, Mark, Halt, GetSession, EndSession, NATypeOK
    <3>5. main'[a] = main[a] /\ step'[a] = step[a]
      BY <1>3, <3>2, <3>3 DEF StopStep, Check, Mark, Halt, GetSession, EndSession
    <3> QED
      BY <1>1, <2>1, <2>2, <3>4, <3>5
  <2> QED
    BY <2>3, <2>4
<1>4. ASSUME NEW b \in Agents, Killed(b) \/ Post(b) PROVE AtWork(a)'
  <2>1. a # b
    BY <1>4 DEF Killed, Post, Peaceful
  <2>2. Same /\ UNCHANGED <<session, expired>> /\ posted \subseteq posted' /\ broken \subseteq broken'
    BY <1>0, <1>4, <2>1 DEF Killed, Post, Exit, MainGoto, Goto, NATypeOK
  <2>3. Earlier
    BY <2>2 DEF Peaceful
  <2> QED
    BY <1>1, <2>2, <2>3
<1>5. ASSUME NEW b \in Agents, SessionExpires(b) PROVE AtWork(a)'
  <2>1. Earlier /\ Same
    BY <1>5 DEF SessionExpires, Peaceful
  <2> QED
    BY <1>1, <2>1
<1>6. CASE UNCHANGED naVars
  <2>1. Earlier /\ Same
    BY <1>6 DEF naVars, Peaceful
  <2> QED
    BY <1>1, <2>1
<1> QED
  BY <1>2, <1>3, <1>4, <1>5, <1>6 DEF NANext, AllGone

\* What SignalEndsSession leaves to fairness: an agent that is gone after a single
\* signal, and was neither killed, nor stuck with its task, nor stopped over HTTP,
\* has ended its session, unless the session's key has expired before.
THEOREM NoSessionIsLeftOpen ==
  NASpec => [](\A a \in Agents : main[a] = "gone" /\ Peaceful(a) => session[a] = "completed")
<1> DEFINE Closed == \A a \in Agents : main[a] = "gone" /\ Peaceful(a) => session[a] = "completed"
<1>1. NAInit => SessionsInHand
  BY StopperKinds DEF NAInit, SessionsInHand, AtWork
<1>2. NAInv /\ SessionsInHand /\ [NANext]_naVars => SessionsInHand'
  BY InHandStep
<1>3. SessionsInHand => Closed
  BY DEF SessionsInHand, AtWork
<1> QED
  BY <1>1, <1>2, <1>3, SignalsCreditOnce, PTL DEF NASpec

-----------------------------------------------------------------------------
(* The peer table *)

\* What a table may hold, node by node.
TableOf(n, t) == \A p \in DOMAIN t : p \in Nodes \ {n} /\ t[p] \in 0..Stale

\* A merge keeps a table well formed if what is heard of are nodes.
LEMMA MergedOK ==
  ASSUME PtTypeOK, NEW m \in Nodes, NEW view, DOMAIN view \subseteq Nodes
  PROVE  TableOf(m, Merged(m, view))
<1>1. \A p \in Known(m) : p \in Nodes \ {m} /\ table[m][p] \in 0..Stale
  BY DEF PtTypeOK
<1>2. 0 \in 0..Stale
  BY PeerAssumption DEF Stale
<1>3. ASSUME NEW p \in DOMAIN Merged(m, view)
      PROVE  p \in Nodes \ {m} /\ Merged(m, view)[p] \in 0..Stale
  <2>1. p \in (Known(m) \cup DOMAIN view) \ {m}
    BY <1>3 DEF Merged
  <2>2. Merged(m, view)[p] =
          IF p \in DOMAIN view /\ (p \in Known(m) => view[p] < table[m][p]) THEN 0 ELSE table[m][p]
    BY <2>1 DEF Merged
  <2> QED
    BY <1>1, <1>2, <2>1, <2>2
<1> QED
  BY <1>3 DEF TableOf

\* The sender thread stays where it is or is broken off.
LEMMA ShakenOK ==
  ASSUME PtTypeOK, NEW m \in Nodes, NEW t
  PROVE  Shaken(m, t) \in {"sleep", "sweep", "broken"}
BY DEF PtTypeOK, Shaken

\* Nodes that hear of others.
LEMMA HearOK ==
  ASSUME PtTypeOK, NEW nodes, NEW view, DOMAIN view \subseteq Nodes, Hear(nodes, view),
         UNCHANGED alive
  PROVE  PtTypeOK'
<1> DEFINE heard == [m \in Nodes |-> IF m \in nodes THEN Merged(m, view) ELSE table[m]]
<1>1. table' = heard /\ sender' = [m \in Nodes |-> Shaken(m, heard[m])]
  BY DEF Hear
<1>2. ASSUME NEW m \in Nodes PROVE TableOf(m, heard[m])
  BY MergedOK DEF PtTypeOK, Known, TableOf
<1>3. ASSUME NEW m \in Nodes PROVE sender'[m] \in {"sleep", "sweep", "broken"}
  BY <1>1, ShakenOK
<1>4. DOMAIN table' = Nodes /\ \A m \in Nodes : TableOf(m, table'[m])
  BY <1>1, <1>2
<1>5. sender' \in [Nodes -> {"sleep", "sweep", "broken"}]
  BY <1>1, <1>3
<1> QED
  BY <1>4, <1>5 DEF PtTypeOK, Known, TableOf

\* Every step keeps the tables well formed.
LEMMA TablesStep == PtTypeOK /\ [PtNext]_ptVars => PtTypeOK'
<1> SUFFICES ASSUME PtTypeOK, [PtNext]_ptVars PROVE PtTypeOK'
  OBVIOUS
<1>0. \A n \in Nodes : TableOf(n, table[n])
  BY DEF PtTypeOK, Known, TableOf
<1>1. CASE Tick
  <2>1. ASSUME NEW n \in Nodes PROVE TableOf(n, table'[n])
    <3>1. table'[n] = [p \in Known(n) |-> IF table[n][p] < Stale THEN table[n][p] + 1 ELSE Stale]
      BY <1>1 DEF Tick
    <3>2. \A p \in Known(n) : p \in Nodes \ {n} /\ table[n][p] \in 0..Stale
      BY DEF PtTypeOK
    <3>3. Stale \in Nat
      BY PeerAssumption DEF Stale
    <3> QED
      BY <3>1, <3>2, <3>3 DEF TableOf
  <2>2. DOMAIN table' = Nodes /\ UNCHANGED <<alive, sender>>
    BY <1>1 DEF Tick
  <2> QED
    BY <2>1, <2>2 DEF PtTypeOK, Known, TableOf
<1>2. ASSUME NEW n \in Nodes, Broadcast(n) PROVE PtTypeOK'
  <2>1. PICK reached \in SUBSET ((alive \cap Lan) \ {n}) : Hear(reached, Hello(n))
    BY <1>2 DEF Broadcast
  <2> QED
    BY <1>2, <2>1, HearOK DEF Broadcast, Hello
<1>3. ASSUME NEW n \in Nodes, NEW seed \in Seeds, Dial(n, seed) PROVE PtTypeOK'
  BY <1>3, HearOK, PeerAssumption DEF Dial, Hello
<1>4. ASSUME NEW n \in Nodes, Gossip(n) PROVE PtTypeOK'
  <2>1. PICK reached \in SUBSET Known(n) :
          /\ table' = [m \in Nodes |-> IF m \in reached \cap alive
                                       THEN Merged(m, EncodedTable(n)) ELSE table[m]]
          /\ sender' = [m \in Nodes |-> IF m = n THEN "sweep"
                         ELSE Shaken(m, [k \in Nodes |-> IF k \in reached \cap alive
                                          THEN Merged(k, EncodedTable(n)) ELSE table[k]][m])]
    BY <1>4 DEF Gossip
  <2>2. DOMAIN EncodedTable(n) \subseteq Nodes
    BY DEF EncodedTable, PtTypeOK
  <2>3. ASSUME NEW m \in Nodes PROVE TableOf(m, table'[m])
    BY <1>0, <2>1, <2>2, MergedOK
  <2>4. sender' \in [Nodes -> {"sleep", "sweep", "broken"}]
    BY <2>1, ShakenOK
  <2>5. DOMAIN table' = Nodes /\ UNCHANGED alive
    BY <1>4, <2>1 DEF Gossip
  <2> QED
    BY <2>3, <2>4, <2>5 DEF PtTypeOK, Known, TableOf
<1>5. ASSUME NEW n \in Nodes, RemoveStale(n) PROVE PtTypeOK'
  <2>1. /\ DOMAIN table' = Nodes /\ table'[n] = Restrict(table[n], Fresh(n))
        /\ \A m \in Nodes \ {n} : table'[m] = table[m]
    BY <1>5 DEF RemoveStale, PtTypeOK
  <2>2. TableOf(n, table'[n])
    BY <1>0, <2>1 DEF Restrict, Fresh, Known, TableOf
  <2>3. \A m \in Nodes : TableOf(m, table'[m])
    BY <1>0, <2>1, <2>2
  <2>4. sender' \in [Nodes -> {"sleep", "sweep", "broken"}] /\ UNCHANGED alive
    BY <1>5 DEF RemoveStale, PtTypeOK
  <2> QED
    BY <2>1, <2>3, <2>4 DEF PtTypeOK, Known, TableOf
<1>6. ASSUME NEW n \in Nodes, Crash(n) PROVE PtTypeOK'
  <2>1. /\ DOMAIN table' = Nodes /\ table'[n] = << >>
        /\ \A m \in Nodes \ {n} : table'[m] = table[m]
    BY <1>6 DEF Crash, PtTypeOK
  <2>2. DOMAIN table'[n] = {}
    BY <2>1
  <2>3. \A m \in Nodes : TableOf(m, table'[m])
    BY <1>0, <2>1, <2>2 DEF TableOf
  <2>4. sender' \in [Nodes -> {"sleep", "sweep", "broken"}] /\ alive' \subseteq Nodes
    BY <1>6 DEF Crash, PtTypeOK
  <2> QED
    BY <2>1, <2>3, <2>4 DEF PtTypeOK, Known, TableOf
<1>7. ASSUME NEW n \in Nodes, Restart(n) PROVE PtTypeOK'
  BY <1>7 DEF Restart, PtTypeOK, Known
<1>8. CASE UNCHANGED ptVars
  BY <1>8 DEF ptVars, PtTypeOK, Known
<1> QED
  BY <1>1, <1>2, <1>3, <1>4, <1>5, <1>6, <1>7, <1>8 DEF PtNext

\* Whatever is broadcast, gossiped or lost, and whoever crashes, the table of a
\* node holds other nodes only, with ages that _merge() and is_stale() can compare.
THEOREM TablesWellFormed == PtSpec => []PtTypeOK
<1>1. PtInit => PtTypeOK
  <2> SUFFICES ASSUME PtInit PROVE PtTypeOK
    OBVIOUS
  <2>1. \A n \in Nodes : DOMAIN table[n] = {}
    BY DEF PtInit
  <2> QED
    BY <2>1 DEF PtInit, PtTypeOK, Known
<1> QED
  BY <1>1, TablesStep, PTL DEF PtSpec

\* The table of n only loses entries, or lets them age.
OnlyAges(n) ==
  /\ Known(n)' \subseteq Known(n)
  /\ \A p \in Known(n)' : table[n][p] <= table'[n][p]

\* The only node that is alive hears of nobody: nothing that it sends, or dials, adds
\* to its own table.
LEMMA LonelyStep ==
  ASSUME PtTypeOK, [PtNext]_ptVars, NEW n \in Nodes, alive = {n}, alive' = {n}
  PROVE  OnlyAges(n)
<1> USE PeerAssumption DEF OnlyAges, Known
<1>0. n \notin Known(n) /\ \A p \in Known(n) : table[n][p] \in 0..Stale
  BY DEF PtTypeOK
<1>1. CASE table'[n] = table[n]
  BY <1>0, <1>1 DEF Stale
<1>2. ASSUME NEW k \in Nodes, Broadcast(k) PROVE OnlyAges(n)
  <2>1. table'[n] = table[n]
    BY <1>2 DEF Broadcast, Hear
  <2> QED
    BY <1>1, <2>1
<1>3. ASSUME NEW k \in Nodes, NEW seed \in Seeds, Dial(k, seed) PROVE OnlyAges(n)
  <2>1. k = n /\ seed = n
    BY <1>3 DEF Dial
  <2>2. table'[n] = Merged(n, Hello(n))
    BY <1>3, <2>1 DEF Dial, Hear
  <2>3. DOMAIN table'[n] = Known(n) /\ \A p \in Known(n) : table'[n][p] = table[n][p]
    BY <1>0, <2>2 DEF Merged, Hello
  <2> QED
    BY <1>0, <2>3 DEF Stale
<1>4. ASSUME NEW k \in Nodes, Gossip(k) PROVE OnlyAges(n)
  <2>1. k = n
    BY <1>4 DEF Gossip
  <2>2. PICK reached \in SUBSET Known(n) :
          table' = [m \in Nodes |-> IF m \in reached \cap alive
                                    THEN Merged(m, EncodedTable(n)) ELSE table[m]]
    BY <1>4, <2>1 DEF Gossip
  <2>3. table'[n] = table[n]
    BY <1>0, <2>2
  <2> QED
    BY <1>1, <2>3
<1>5. ASSUME NEW k \in Nodes, RemoveStale(k) PROVE OnlyAges(n)
  <2>1. k = n /\ table'[n] = Restrict(table[n], Fresh(n))
    BY <1>5 DEF RemoveStale, PtTypeOK
  <2>2. /\ DOMAIN table'[n] = Fresh(n) /\ Fresh(n) \subseteq Known(n)
        /\ \A p \in Fresh(n) : table'[n][p] = table[n][p]
    BY <2>1 DEF Restrict, Fresh
  <2> QED
    BY <1>0, <2>2 DEF Stale
<1>6. CASE Tick
  <2>1. table'[n] = [p \in Known(n) |-> IF table[n][p] < Stale THEN table[n][p] + 1 ELSE Stale]
    BY <1>6 DEF Tick
  <2>2. \A p \in Known(n) : table[n][p] <= table'[n][p]
    BY <1>0, <2>1 DEF Stale
  <2> QED
    BY <2>1, <2>2
<1>7. ~\E k \in Nodes : Crash(k) \/ Restart(k)
  BY DEF Crash, Restart
<1>8. CASE UNCHANGED ptVars
  BY <1>1, <1>8 DEF ptVars
<1> HIDE DEF OnlyAges
<1> QED
  BY <1>2, <1>3, <1>4, <1>5, <1>6, <1>7, <1>8 DEF PtNext

\* What LonelyNodeForgets leaves to the sender thread: while a node is the only one alive,
\* its table gains no entry and none of its entries gets younger, though it keeps
\* broadcasting, gossiping and dialing the seeds.
THEOREM LonelyNodeHearsNobody ==
  PtSpec => [][\A n \in Nodes : alive = {n} /\ alive' = {n} => OnlyAges(n)]_ptVars
<1>1. PtTypeOK /\ [PtNext]_ptVars =>
        [\A n \in Nodes : alive = {n} /\ alive' = {n} => OnlyAges(n)]_ptVars
  BY LonelyStep
<1> QED
  BY <1>1, TablesWellFormed, PTL DEF PtSpec
=============================================================================
