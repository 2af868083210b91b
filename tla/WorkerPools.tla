---- MODULE WorkerPools ----
\* The worker pools of TokenSim/placement/policies.py: how the engine chooses
\* the worker that gets a request or a batch. A pool is a record
\*   members   the workers, in the order of their ids
\*   groups    the data-parallel ranks that have a member, in increasing order
\*   group     the members of each of these groups
\*   cursor    per data-parallel group, the position of the round robin
\*   nextGroup the position in the list of groups (data parallelism only)
\*   counts    the placements made in each group (dp_placement_counts)
\* and a choice is a record with the worker and the pool after it. The least
\* loaded policies read the workers' schedulers, never their message queues:
\* load[w] is what the scheduler of w holds now.
EXTENDS Integers, Sequences, Functions, Listings

CONSTANTS
  Policy,       \* "round_robin", "least_gpu_memory" or "balanced_load"
  DataParallel, \* whether data_parallel_size > 1
  DpRank,       \* the data-parallel rank of each worker
  NoRank        \* a request that has no dp_rank yet

\* The ranks that have a worker among the members, in increasing order; a pool
\* without data parallelism is a single group.
Groups(members) ==
  IF DataParallel THEN Listed({DpRank[w] : w \in Range(members)}) ELSE <<0>>

\* The members of a group, in the order of their ids.
GroupMembers(members, g) ==
  IF DataParallel THEN Listed({w \in Range(members) : DpRank[w] = g}) ELSE members

NewPool(members) ==
  LET groups == Groups(members)
  IN  [members |-> members, groups |-> groups,
       group |-> [g \in Range(groups) |-> GroupMembers(members, g)],
       cursor |-> [g \in Range(groups) |-> 0], nextGroup |-> 0,
       counts |-> [g \in Range(groups) |-> 0]]

\* Whether w comes before v under the policy; equal loads are decided by the
\* position, which is the order of the ids.
Before(w, v, load) ==
  CASE Policy = "least_gpu_memory" ->
         \/ load[w].memory < load[v].memory
         \/ load[w].memory = load[v].memory /\ w =< v
    [] Policy = "balanced_load" ->
         \/ load[w].active < load[v].active
         \/ /\ load[w].active = load[v].active
            /\ \/ load[w].memory < load[v].memory
               \/ load[w].memory = load[v].memory /\ w =< v

\* A member of group g, and the round robin moved on when that is the policy.
PickIn(pool, g, load) ==
  LET members == pool.group[g] IN
  IF Policy = "round_robin"
  THEN [worker |-> members[pool.cursor[g] + 1],
        pool   |-> [pool EXCEPT !.cursor[g] = (@ + 1) % Len(members)]]
  ELSE [worker |-> CHOOSE w \in Range(members) :
                     \A v \in Range(members) : Before(w, v, load),
        pool   |-> pool]

\* Faulty variant: the turn stays at the first group.
PickFirst(pool, load) == PickIn(pool, pool.groups[1], load)

\* A member of the next group in turn.
PickNext(pool, load) ==
  LET turned == [pool EXCEPT !.nextGroup = (@ + 1) % Len(pool.groups)]
  IN  PickIn(turned, pool.groups[pool.nextGroup + 1], load)

\* Faulty variant: the group of the request is ignored.
SelectRotating(pool, rank, load) ==
  LET pick == PickNext(pool, load)
      g == IF DataParallel THEN DpRank[pick.worker] ELSE 0
  IN  [pick EXCEPT !.pool.counts[g] = @ + 1]

\* _select_for_request: the group of the request's dp_rank if the pool has it,
\* else the next one.
Select(pool, rank, load) ==
  LET pick == IF DataParallel /\ rank \in DOMAIN pool.cursor
              THEN PickIn(pool, rank, load) ELSE PickNext(pool, load)
      g == IF DataParallel THEN DpRank[pick.worker] ELSE 0
  IN  [pick EXCEPT !.pool.counts[g] = @ + 1]

\* The dp_rank the request has after worker w was selected for it.
Assigned(rank, w, assignNew) ==
  IF DataParallel /\ (assignNew \/ rank = NoRank) THEN DpRank[w] ELSE rank
====
