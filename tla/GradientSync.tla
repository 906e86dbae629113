---------------------------- MODULE GradientSync ----------------------------
(***************************************************************************)
(* One round of p2p/gradient_sync.py: the coordinator's serve_aggregation() *)
(* with a handler thread per connection, and the submit_gradients() of the *)
(* peers.  A handler that has its peer's gradients waits until num_peers   *)
(* have been received, averages what is there and answers; the coordinator *)
(* averages again when its accept loop and its joins are over.             *)
(*                                                                         *)
(* An average is the pair of the peers whose weights were summed up and    *)
(* the peers whose gradients were added: _fedavg() walks through _received *)
(* twice without the lock.                                                 *)
(***************************************************************************)
EXTENDS Integers, FiniteSets

CONSTANTS Peers,      \* the peers that submit gradients
          MaxPeers,   \* bound: the largest num_peers
          Scorings,   \* the sets of peers whose contribution score may be the
                      \* ones that are not 0
          Main,       \* the coordinator's own thread
          NoAverage

ASSUME GradientAssumption ==
  /\ IsFiniteSet(Peers) /\ Peers # {}
  /\ MaxPeers \in Nat /\ Scorings \subseteq SUBSET Peers
  /\ Main \notin Peers
  /\ NoAverage \notin [weighed : SUBSET Peers, added : SUBSET Peers]

Threads == Peers \cup {Main}

VARIABLES
  numPeers,  \* num_peers, chosen when the round is set up
  scored,    \* the peers that submit a weight other than 0
  server,    \* the step of serve_aggregation()
  handler,   \* the step of the handler thread of each peer's connection
  peer,      \* the step of submit_gradients() of each peer
  backlog,   \* connections that were not accepted yet
  sent,      \* peers whose payload is on its way or has arrived
  received,  \* _received
  weighed,   \* the peers whose weights a thread has summed up
  answer,    \* the average that each peer has received
  aggregate, \* what the coordinator passes to on_aggregate()
  late       \* history: a peer failed, or a timeout elapsed during a wait
             \* that was not in vain

gsVars ==
  <<numPeers, scored, server, handler, peer, backlog, sent, received, weighed, answer, aggregate, late>>

GSInit ==
  /\ numPeers \in 1..MaxPeers
  /\ scored \in Scorings
  /\ server = "test"
  /\ handler = [p \in Peers |-> "none"]
  /\ peer = [p \in Peers |-> "idle"]
  /\ backlog = {} /\ sent = {} /\ received = {}
  /\ weighed = [t \in Threads |-> {}]
  /\ answer = [p \in Peers |-> NoAverage]
  /\ aggregate = NoAverage
  /\ late = FALSE

Listening == server \in {"test", "accept", "join", "sum"}

\* Mutants of Enough: one peer less is enough; one peer more is needed.
EnoughButOne == Cardinality(received) + 1 >= numPeers
EnoughAndOne == Cardinality(received) > numPeers

\* len(self._received) >= self.num_peers
Enough == Cardinality(received) >= numPeers

-----------------------------------------------------------------------------
(* submit_gradients() *)

\* connect(); it is refused once the server socket is closed.
Connect(p) ==
  /\ peer[p] = "idle"
  /\ \/ /\ Listening
        /\ peer' = [peer EXCEPT ![p] = "connected"]
        /\ backlog' = backlog \cup {p}
     \/ /\ ~Listening
        /\ peer' = [peer EXCEPT ![p] = "failed"]
        /\ UNCHANGED backlog
  /\ UNCHANGED <<numPeers, scored, server, handler, sent, received, weighed, answer, aggregate, late>>

Send(p) ==
  /\ peer[p] = "connected"
  /\ peer' = [peer EXCEPT ![p] = "waiting"]
  /\ sent' = sent \cup {p}
  /\ UNCHANGED <<numPeers, scored, server, handler, backlog, received, weighed, answer, aggregate, late>>

\* The peer dies, or its socket times out after 60 seconds.
PeerFails(p) ==
  /\ peer[p] \in {"idle", "connected", "waiting"}
  /\ peer' = [peer EXCEPT ![p] = "failed"]
  /\ late' = TRUE
  /\ UNCHANGED <<numPeers, scored, server, handler, backlog, sent, received, weighed, answer, aggregate>>

-----------------------------------------------------------------------------
(* _handle_peer() *)

\* The payload has arrived and is stored under the lock.
Read(p) ==
  /\ handler[p] = "read"
  /\ p \in sent
  /\ received' = received \cup {p}
  /\ handler' = [handler EXCEPT ![p] = "wait"]
  /\ UNCHANGED <<numPeers, scored, server, peer, backlog, sent, weighed, answer, aggregate, late>>

\* "Peer disconnected": the handler logs the error and closes the connection.
ReadFails(p) ==
  /\ handler[p] = "read"
  /\ p \notin sent /\ peer[p] = "failed"
  /\ handler' = [handler EXCEPT ![p] = "done"]
  /\ UNCHANGED <<numPeers, scored, server, peer, backlog, sent, received, weighed, answer, aggregate, late>>

\* The wait is over and _fedavg() sums up the weights.
Weigh(p) ==
  /\ handler[p] = "wait"
  /\ Enough
  /\ weighed' = [weighed EXCEPT ![p] = received]
  /\ handler' = [handler EXCEPT ![p] = "sum"]
  /\ UNCHANGED <<numPeers, scored, server, peer, backlog, sent, received, answer, aggregate, late>>

\* _fedavg() returns {} when _received is empty.
Average(t) == [weighed |-> weighed[t], added |-> IF weighed[t] = {} THEN {} ELSE received]

\* w = peer_data["weight"] / total_weight: ZeroDivisionError
Divides(t) == weighed[t] \cap scored # {}

\* _fedavg() adds the gradients and the handler sends the average to a peer
\* that still waits for it.
Answer(p) ==
  /\ handler[p] = "sum"
  /\ Divides(p)
  /\ handler' = [handler EXCEPT ![p] = "done"]
  /\ \/ /\ peer[p] = "waiting"
        /\ answer' = [answer EXCEPT ![p] = Average(p)]
        /\ peer' = [peer EXCEPT ![p] = "updated"]
     \/ /\ peer[p] # "waiting"
        /\ UNCHANGED <<answer, peer>>
  /\ UNCHANGED <<numPeers, scored, server, backlog, sent, received, weighed, aggregate, late>>

\* The weights sum up to 0, or _received has grown during one of its walks
\* ("dictionary changed size during iteration"): the handler logs the error and
\* closes the connection without an answer.
AnswerFails(p) ==
  /\ handler[p] = "sum"
  /\ ~Divides(p) \/ received # weighed[p]
  /\ handler' = [handler EXCEPT ![p] = "done"]
  /\ peer' = [peer EXCEPT ![p] = IF @ = "waiting" THEN "failed" ELSE @]
  /\ UNCHANGED <<numPeers, scored, server, backlog, sent, received, weighed, answer, aggregate, late>>

-----------------------------------------------------------------------------
(* serve_aggregation() *)

\* while len(self._received) < self.num_peers
Test ==
  /\ server = "test"
  /\ server' = IF Enough THEN "join" ELSE "accept"
  /\ UNCHANGED <<numPeers, scored, handler, peer, backlog, sent, received, weighed, answer, aggregate, late>>

\* accept() returns and the handler thread is started.
Accept(p) ==
  /\ server = "accept"
  /\ p \in backlog
  /\ backlog' = backlog \ {p}
  /\ handler' = [handler EXCEPT ![p] = "read"]
  /\ server' = "test"
  /\ UNCHANGED <<numPeers, scored, peer, sent, received, weighed, answer, aggregate, late>>

\* Nobody is about to connect or to send.
Quiet == \A p \in Peers : peer[p] \notin {"idle", "connected"} /\ handler[p] # "read"

\* accept() times out after 60 seconds without a connection.
AcceptTimesOut ==
  /\ server = "accept"
  /\ backlog = {}
  /\ server' = "join"
  /\ late' = (late \/ ~Quiet)
  /\ UNCHANGED <<numPeers, scored, handler, peer, backlog, sent, received, weighed, answer, aggregate>>

\* Every thread has ended, or has nothing to wait for.
Joined ==
  \A p \in Peers :
    \/ handler[p] \in {"none", "done"}
    \/ handler[p] = "wait" /\ ~Enough /\ Quiet

\* Each thread has ended, or its join(timeout=30) has timed out; _fedavg() sums
\* up the weights.
MainWeigh ==
  /\ server = "join"
  /\ server' = "sum"
  /\ weighed' = [weighed EXCEPT ![Main] = received]
  /\ late' = (late \/ ~Joined)
  /\ UNCHANGED <<numPeers, scored, handler, peer, backlog, sent, received, answer, aggregate>>

\* Connections that nobody accepted are reset when the server socket is closed.
CloseServer ==
  /\ peer' = [p \in Peers |-> IF p \in backlog /\ peer[p] \in {"connected", "waiting"}
                              THEN "failed" ELSE peer[p]]
  /\ backlog' = {}

\* on_aggregate(averaged), and serve_aggregation() returns.
Aggregate ==
  /\ server = "sum"
  /\ weighed[Main] = {} \/ Divides(Main)
  /\ server' = "done"
  /\ aggregate' = Average(Main)
  /\ CloseServer
  /\ UNCHANGED <<numPeers, scored, handler, sent, received, weighed, answer, late>>

\* The weights sum up to 0, or _received has grown during one of the walks:
\* serve_aggregation() raises.
AggregateFails ==
  /\ server = "sum"
  /\ weighed[Main] # {}
  /\ ~Divides(Main) \/ received # weighed[Main]
  /\ server' = "raised"
  /\ CloseServer
  /\ UNCHANGED <<numPeers, scored, handler, sent, received, weighed, answer, aggregate, late>>

-----------------------------------------------------------------------------
HandlerStep(p) == Read(p) \/ ReadFails(p) \/ Weigh(p) \/ Answer(p) \/ AnswerFails(p)
MainStep == Test \/ AcceptTimesOut \/ (\E p \in Peers : Accept(p))
            \/ MainWeigh \/ Aggregate \/ AggregateFails

GSNext ==
  \/ MainStep
  \/ \E p \in Peers : Connect(p) \/ Send(p) \/ PeerFails(p) \/ HandlerStep(p)

GSSpec == GSInit /\ [][GSNext]_gsVars

\* Threads run, a peer that has connected sends, and timeouts elapse.  Whether
\* a peer connects at all is up to it.
GSFairSpec ==
  /\ GSSpec
  /\ WF_gsVars(MainStep)
  /\ \A p \in Peers : WF_gsVars(HandlerStep(p)) /\ WF_gsVars(Send(p))

-----------------------------------------------------------------------------
(* What a round guarantees *)

Averages == [weighed : SUBSET Peers, added : SUBSET Peers]

GSTypeOK ==
  /\ numPeers \in 1..MaxPeers /\ scored \in Scorings /\ late \in BOOLEAN
  /\ server \in {"test", "accept", "join", "sum", "done", "raised"}
  /\ handler \in [Peers -> {"none", "read", "wait", "sum", "done"}]
  /\ peer \in [Peers -> {"idle", "connected", "waiting", "updated", "failed"}]
  /\ backlog \in SUBSET Peers /\ sent \in SUBSET Peers /\ received \in SUBSET sent
  /\ weighed \in [Threads -> SUBSET Peers]
  /\ answer \in [Peers -> Averages \cup {NoAverage}]
  /\ aggregate \in Averages \cup {NoAverage}
  /\ \A p \in Peers : answer[p] # NoAverage <=> peer[p] = "updated"
  /\ \A p \in Peers : handler[p] \in {"wait", "sum"} => p \in received

AllExpected == numPeers = Cardinality(Peers)

\* "All peers apply the update" (gradient_sync.py:9): when num_peers is the
\* number of peers, every peer that receives an average receives the same, with
\* the gradients and the weights of all the peers, whoever fails or times out.
PeersAgree ==
  AllExpected => \A p \in Peers : answer[p] # NoAverage =>
                   answer[p] = [weighed |-> Peers, added |-> Peers]

\* The rest of the inductive invariant: a handler averages when all are there.
SumOfAll ==
  AllExpected => \A p \in Peers : handler[p] = "sum" =>
                   received = Peers /\ weighed[p] = Peers

GSInv == GSTypeOK /\ PeersAgree /\ SumOfAll

\* However many peers submit, no peer is answered with the weights or gradients
\* of fewer than num_peers.
AnswerOfEnough ==
  \A p \in Peers : answer[p] # NoAverage =>
    answer[p].weighed \subseteq answer[p].added /\ Cardinality(answer[p].weighed) >= numPeers

\* "aggregates (FedAvg by default) and broadcasts averaged gradients"
\* (gradient_sync.py:8): while nobody fails and nothing is late, every round of
\* num_peers peers ends, and its average is what each of them and the
\* coordinator's own model are updated with, unless no peer has a score yet: then
\* there is nothing to divide by, and nobody is answered.
RoundCompletes ==
  AllExpected => <>(late \/ scored = {} \/ \A p \in Peers : answer[p] # NoAverage /\ answer[p] = aggregate)

\* "Coordinator aggregates (FedAvg by default) and broadcasts averaged gradients"
\* (gradient_sync.py:8): nobody applies another average than the one that the
\* coordinator returns, whether or not somebody is late.
OneModel ==
  AllExpected => \A p \in Peers : answer[p] # NoAverage /\ aggregate # NoAverage =>
                   answer[p] = aggregate
=============================================================================
