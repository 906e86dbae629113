------------------------------ MODULE ShardPlan ------------------------------
(***************************************************************************)
(* How orchestrator/task_dispatcher.py divides the data shards             *)
(* 0 .. shards-1 of a round among a sequence of peers, and whom it elects  *)
(* as coordinator.  A list of shards is the set of its elements.  A peer   *)
(* is a record of its id, gpus, memory in GB and score in tenths; weights  *)
(* are in tenths too, so that every weight is an integer.                  *)
(***************************************************************************)
EXTENDS Integers, Sequences, FiniteSetsExt

RoundRobin(shards, n) == [p \in 1..n |-> {s \in 0..(shards - 1) : s % n = p - 1}]

\* The sum of the first k elements of a sequence of integers.
SumTo(f, k) == SumFunctionOnSet(f, 1..k)

\* round(x / d): halves go to the even neighbour.
Rounded(x, d) ==
  LET q == x \div d
      twice == 2 * (x % d)
  IN  IF twice > d \/ (twice = d /\ q % 2 = 1) THEN q + 1 ELSE q

\* max(1, round(...)) for each peer; counts[0] += diff
Counts(shards, weight) ==
  LET n == Len(weight)
      total == SumTo(weight, n)
      rough == [p \in 1..n |-> Max({1, Rounded(weight[p] * shards, total)})]
  IN  [rough EXCEPT ![1] = @ + shards - SumTo(rough, n)]

\* shards[from : to], where a negative index counts from the end
Slice(shards, from, to) ==
  LET Index(i) == IF i < 0 THEN Max({0, i + shards}) ELSE i
  IN  {s \in 0..(shards - 1) : Index(from) <= s /\ s < Index(to)}

\* Consecutive slices of the given lengths
Slices(shards, count) ==
  [p \in DOMAIN count |-> Slice(shards, SumTo(count, p - 1), SumTo(count, p))]

\* Mutant of WeightedPartition: what rounding left over is not given to anybody.
WeightedRough(shards, weight) ==
  Slices(shards, [p \in DOMAIN weight |->
                    (weight[p] * shards) \div SumTo(weight, Len(weight))])

WeightedPartition(shards, weight) == Slices(shards, Counts(shards, weight))

CapabilityWeight(peer) == Max({100 * peer.gpus + peer.memory, 10})

Weights(strategy, peers) ==
  [p \in DOMAIN peers |->
     IF strategy = "capability" THEN CapabilityWeight(peers[p]) ELSE Max({peers[p].score, 1})]

PartitionShards(strategy, shards, peers) ==
  IF strategy = "round_robin"
  THEN RoundRobin(shards, Len(peers))
  ELSE WeightedPartition(shards, Weights(strategy, peers))

\* The highest score wins; ids break ties.
ElectCoordinator(peers) ==
  CHOOSE p \in peers : \A q \in peers :
    p.score > q.score \/ (p.score = q.score /\ p.id >= q.id)

-----------------------------------------------------------------------------
\* The reference: each shard is in exactly one list.
Covers(lists, shards) == UNION {lists[p] : p \in DOMAIN lists} = 0..(shards - 1)
Disjoint(lists) == \A p, q \in DOMAIN lists : p # q => lists[p] \cap lists[q] = {}
=============================================================================
