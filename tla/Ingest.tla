------------------------------- MODULE Ingest -------------------------------
(***************************************************************************)
(* The ingestion process: Ingestor.run and its workers (ingestion/main.py),*)
(* RateLimiter (rate_limiter.py) and RiotClient (riot_client.py).  One     *)
(* asyncio loop runs them all, so that a step is what happens between two  *)
(* awaits.  A task is a pair region/tier, which is also the partition its  *)
(* matches are published to; players and match ids are counted.  Time is   *)
(* in ticks, TicksPerSec to a second.                                      *)
(***************************************************************************)
EXTENDS Integers, FiniteSets, FiniteSetsExt, Functions

CONSTANTS Task,         \* one per region and tier
          Rank,         \* Rank[t]: place of (TIER_RANK, region, tier) in the order of tuples
          Worker, NoTask,
          Rate,         \* RIOT_RATE
          TicksPerSec,
          MaxPlayers,   \* puuids_for_tier(limit=10)
          MaxIds,       \* match_ids[:5], and MATCHES_PER_TASK in synthetic mode
          MaxRounds,    \* bound: rounds of the main loop
          MaxThrottle   \* bound: answers 429

ASSUME IngestAssumption ==
  /\ {Rate, TicksPerSec, MaxIds} \subseteq Nat \ {0}
  /\ {MaxPlayers, MaxRounds, MaxThrottle} \subseteq Nat
  /\ IsFiniteSet(Task) /\ NoTask \notin Task /\ Rank \in [Task -> Nat] /\ IsInjective(Rank)

Idle == [stage |-> "idle", sent |-> FALSE, task |-> NoTask, players |-> 0, ids |-> 0, num |-> 0]
WorkerState == [stage : {"idle", "league", "ids", "match", "make", "publish"}, sent : BOOLEAN,
                task : Task \cup {NoTask}, players : 0 .. MaxPlayers, ids : 0 .. MaxIds, num : Nat]

VARIABLES synthetic,   \* no RIOT_API_KEY
          queue,       \* the asyncio.PriorityQueue
          unfinished,  \* its count of tasks that task_done was not called for
          worker,
          tokens,      \* RateLimiter.tokens
          phase,       \* ticks since the last refill
          acquired,    \* acquired[i]: acquisitions in this tick and the i before it
          seq,         \* SeqCounter
          last,        \* last[t]: the last number published to partition t
          rounds, throttled

limiter == <<tokens, phase, acquired>>
vars == <<synthetic, queue, unfinished, worker, limiter, seq, last, rounds, throttled>>

Init ==
  /\ synthetic \in BOOLEAN
  /\ queue = {} /\ unfinished = 0
  /\ worker = [w \in Worker |-> Idle]
  /\ tokens = Rate /\ phase = 0
  /\ acquired = [i \in 0 .. TicksPerSec - 1 |-> 0]
  /\ seq = 0 /\ last = [t \in Task |-> 0]
  /\ rounds = 0 /\ throttled = 0

-----------------------------------------------------------------------------
(* The main loop: queue.join has returned; one task per region and tier.    *)

PutRound ==
  /\ unfinished = 0 /\ rounds < MaxRounds
  /\ queue' = Task /\ unfinished' = Cardinality(Task)
  /\ rounds' = rounds + 1
  /\ UNCHANGED <<synthetic, worker, limiter, seq, last, throttled>>

-----------------------------------------------------------------------------
(* RateLimiter                                                              *)

\* Mutant of Refilled: the tokens of a quiet second are kept.
RefilledMore == tokens + Rate
Refilled == Rate

\* A tick passes; _refill_loop wakes up once a second.
Tick ==
  /\ phase' = (phase + 1) % TicksPerSec
  /\ tokens' = IF phase' = 0 THEN Refilled ELSE tokens
  /\ acquired' = [i \in DOMAIN acquired |-> IF i = 0 THEN 0 ELSE acquired[i - 1]]
  /\ UNCHANGED <<synthetic, queue, unfinished, worker, seq, last, rounds, throttled>>

\* acquire, which polls until there is a token; then the request goes out.
Acquire(w) ==
  /\ worker[w].stage \in {"league", "ids", "match"} /\ ~worker[w].sent
  /\ tokens > 0
  /\ tokens' = tokens - 1
  /\ acquired' = [i \in DOMAIN acquired |-> acquired[i] + 1]
  /\ worker' = [worker EXCEPT ![w].sent = TRUE]
  /\ UNCHANGED <<synthetic, queue, unfinished, phase, seq, last, rounds, throttled>>

-----------------------------------------------------------------------------
(* A worker                                                                 *)

\* Mutant of Take: the queue is first in, first out, or worse.
TakeAny(w) ==
  /\ worker[w] = Idle
  /\ \E t \in queue :
       /\ queue' = queue \ {t}
       /\ worker' = [worker EXCEPT ![w] = [Idle EXCEPT !.task = t,
                       !.stage = IF synthetic THEN "make" ELSE "league",
                       !.ids = IF synthetic THEN MaxIds ELSE 0]]
  /\ UNCHANGED <<synthetic, unfinished, limiter, seq, last, rounds, throttled>>

\* queue.get: the lowest tuple comes first.
Take(w) ==
  /\ worker[w] = Idle
  /\ \E t \in queue :
       /\ \A u \in queue : Rank[t] <= Rank[u]
       /\ queue' = queue \ {t}
       /\ worker' = [worker EXCEPT ![w] = [Idle EXCEPT !.task = t,
                       !.stage = IF synthetic THEN "make" ELSE "league",
                       !.ids = IF synthetic THEN MaxIds ELSE 0]]
  /\ UNCHANGED <<synthetic, unfinished, limiter, seq, last, rounds, throttled>>

\* Where the loops of process_real and process_synthetic go on, with so many
\* players and match ids left.
Onward(s, players, ids) ==
  CASE ids > 0 -> [s EXCEPT !.stage = IF synthetic THEN "make" ELSE "match", !.sent = FALSE,
                            !.players = players, !.ids = ids, !.num = 0]
    [] ids = 0 /\ players > 0 -> [s EXCEPT !.stage = "ids", !.sent = FALSE,
                            !.players = players - 1, !.ids = 0, !.num = 0]
    [] ids = 0 /\ players = 0 -> Idle

\* Mutant of Go: the worker reports the task as done at its first step.
GoEarly(w, s) ==
  /\ worker' = [worker EXCEPT ![w] = s]
  /\ unfinished' = IF worker[w].stage \in {"league", "make"} \/ s = Idle THEN Max({unfinished - 1, 0}) ELSE unfinished

\* The worker goes on as s; task_done when the task is through.
Go(w, s) ==
  /\ worker' = [worker EXCEPT ![w] = s]
  /\ unfinished' = IF s = Idle THEN unfinished - 1 ELSE unfinished

\* puuids_for_tier has an answer.
Players(w) ==
  LET s == worker[w]
  IN  /\ s.stage = "league" /\ s.sent
      /\ \E n \in 0 .. MaxPlayers : Go(w, Onward(s, n, 0))
      /\ UNCHANGED <<synthetic, queue, limiter, seq, last, rounds, throttled>>

\* match_ids has one.
MatchIds(w) ==
  LET s == worker[w]
  IN  /\ s.stage = "ids" /\ s.sent
      /\ \E n \in 0 .. MaxIds : Go(w, Onward(s, s.players, n))
      /\ UNCHANGED <<synthetic, queue, limiter, seq, last, rounds, throttled>>

\* generate_match makes an event, with the next number.
Generate(w) ==
  LET s == worker[w]
  IN  /\ s.stage = "make"
      /\ seq' = seq + 1
      /\ Go(w, [s EXCEPT !.stage = "publish", !.num = seq + 1])
      /\ UNCHANGED <<synthetic, queue, limiter, last, rounds, throttled>>

\* normalize makes an event of a match, with the next number ...
Normalize(w) ==
  LET s == worker[w]
  IN  /\ s.stage = "match" /\ s.sent
      /\ seq' = seq + 1
      /\ Go(w, [s EXCEPT !.stage = "publish", !.sent = FALSE, !.num = seq + 1])
      /\ UNCHANGED <<synthetic, queue, limiter, last, rounds, throttled>>

\* ... or finds no players in it: the number is used up.
NotAMatch(w) ==
  LET s == worker[w]
  IN  /\ s.stage = "match" /\ s.sent
      /\ seq' = seq + 1
      /\ Go(w, Onward(s, s.players, s.ids - 1))
      /\ UNCHANGED <<synthetic, queue, limiter, last, rounds, throttled>>

\* 429: _get sleeps and calls itself, through the limiter again.
TooMany(w) ==
  /\ worker[w].sent /\ throttled < MaxThrottle
  /\ throttled' = throttled + 1
  /\ worker' = [worker EXCEPT ![w].sent = FALSE]
  /\ UNCHANGED <<synthetic, queue, unfinished, limiter, seq, last, rounds>>

\* Another status: _get returns None, an empty list or a match to skip.
NotOk(w) ==
  LET s == worker[w]
  IN  /\ s.sent
      /\ Go(w, Onward(s, s.players, IF s.stage = "match" THEN s.ids - 1 ELSE 0))
      /\ UNCHANGED <<synthetic, queue, limiter, seq, last, rounds, throttled>>

\* publish_match in the executor.
Publish(w) ==
  LET s == worker[w]
  IN  /\ s.stage = "publish"
      /\ last' = [last EXCEPT ![s.task] = s.num]
      /\ Go(w, Onward(s, s.players, s.ids - 1))
      /\ UNCHANGED <<synthetic, queue, limiter, seq, rounds, throttled>>

\* Mutant of Fail: task_done is not called after an exception.
FailSilently(w) ==
  LET s == worker[w]
  IN  /\ s.sent \/ s.stage = "publish"
      /\ worker' = [worker EXCEPT ![w] = Idle]
      /\ UNCHANGED <<unfinished, last, synthetic, queue, limiter, seq, rounds, throttled>>

\* An exception from Riot or from the broker, which may have taken the match
\* all the same: the rest of the task is given up.
Fail(w) ==
  LET s == worker[w]
  IN  /\ s.sent \/ s.stage = "publish"
      /\ Go(w, Idle)
      /\ \/ last' = last
         \/ s.stage = "publish" /\ last' = [last EXCEPT ![s.task] = s.num]
      /\ UNCHANGED <<synthetic, queue, limiter, seq, rounds, throttled>>

Answered(w) == Players(w) \/ MatchIds(w) \/ Normalize(w) \/ NotAMatch(w) \/ NotOk(w) \/ Fail(w)
Step(w) == Take(w) \/ Acquire(w) \/ Answered(w) \/ Generate(w) \/ Publish(w)

Next == PutRound \/ Tick \/ \E w \in Worker : Step(w) \/ TooMany(w)

Spec == Init /\ [][Next]_vars

\* asyncio runs every coroutine that can go on, aiohttp gives up on a request
\* after its timeout, and seconds pass.
FairSpec == Spec /\ WF_vars(Tick) /\ \A w \in Worker : WF_vars(Step(w))

-----------------------------------------------------------------------------
(* Properties                                                               *)

\* Every variable keeps its type; tokens are never overdrawn.
TypeOK ==
  /\ synthetic \in BOOLEAN /\ queue \subseteq Task /\ unfinished \in 0 .. Cardinality(Task)
  /\ worker \in [Worker -> WorkerState]
  /\ tokens \in 0 .. Rate /\ phase \in 0 .. TicksPerSec - 1
  /\ acquired \in [0 .. TicksPerSec - 1 -> Nat]
  /\ seq \in Nat /\ last \in [Task -> Nat] /\ {rounds, throttled} \subseteq Nat

\* rate_limiter.py:8 allows "up to rate acquisitions per second".  Over any
\* second it is up to twice as many, the tokens left before a refill and those
\* of the refill, retries after 429 included, and never more.
SecondBound == acquired[TicksPerSec - 1] <= 2 * Rate

\* rate_limiter.py:8 as it stands: the bucket is filled whole once a second, so
\* that what was left of it and what is new can be taken within one second.
RatePerSecond == acquired[TicksPerSec - 1] <= Rate

\* main.py:6: Challenger and GM "are processed before lower tiers".  No worker
\* is at a task while one of higher rank still waits, in this round or one
\* before, whatever failed.
TierPriority ==
  \A w \in Worker : worker[w] # Idle => \A t \in queue : Rank[worker[w].task] < Rank[t]

\* A partition receives its matches in the order of their numbers, although
\* they are published by an executor and by any worker: this is what the
\* processor's reorder buffer is given (Processor!Number).
PartitionOrder == [][\A t \in Task : last'[t] = last[t] \/ last'[t] > last[t]]_vars

\* Every round ends, also when requests are throttled or fail.
RoundsEnd == unfinished > 0 ~> unfinished = 0

=============================================================================
