---------------------------- MODULE IngestProofs ----------------------------
(***************************************************************************)
(* Proofs about Ingest, for any tasks and workers, any rate, any number of *)
(* players and matches, rounds and answers 429.                            *)
(***************************************************************************)
EXTENDS Ingest, FiniteSetTheorems, TLAPS

\* The tasks the workers are at.
Held == {worker[w].task : w \in {x \in Worker : worker[x] # Idle}}

\* What the state of a worker says: a stage other than "idle" is a task, only
\* the three calls of Riot are ever sent, there is a match id wherever one is
\* used, and the number of an event is newer than what its partition has.
Sound(s) ==
  /\ s.stage = "idle" => s = Idle
  /\ s.stage # "idle" => s.task \in Task
  /\ s.sent => s.stage \in {"league", "ids", "match"}
  /\ s.stage \in {"match", "make", "publish"} => s.ids > 0
  /\ s.stage = "publish" => last[s.task] < s.num /\ s.num <= seq

WorkersSound == \A w \in Worker : Sound(worker[w])

\* A task is with the queue or with one worker.
OneHolder ==
  \A w \in Worker : worker[w] # Idle =>
    /\ worker[w].task \notin queue
    /\ \A x \in Worker \ {w} : worker[x].task # worker[w].task

\* queue.join waits for what is in the queue and for what is being worked on.
Counted == unfinished = Cardinality(queue \cup Held)

\* SeqCounter is ahead of everything published.
SeqAhead == \A t \in Task : last[t] <= seq

IngestInv == TypeOK /\ WorkersSound /\ OneHolder /\ Counted /\ SeqAhead /\ TierPriority

-----------------------------------------------------------------------------
(* A worker goes on                                                         *)

\* A worker at no task, and where the loops go on: main.py, process_real and
\* process_synthetic.
LEMMA IdleType == Idle \in WorkerState /\ Idle.stage = "idle" /\ Idle.task = NoTask /\ ~Idle.sent
BY IngestAssumption DEF Idle, WorkerState

\* Where the loops of main.py go on, with what is left to do.
LEMMA OnwardType ==
  ASSUME NEW s \in WorkerState, s.task \in Task, s.stage # "idle",
         NEW players \in 0 .. MaxPlayers, NEW ids \in 0 .. MaxIds
  PROVE  LET z == Onward(s, players, ids)
         IN  /\ z \in WorkerState /\ ~z.sent
             /\ z = Idle \/ (z.stage \in {"make", "match", "ids"} /\ z.task = s.task)
             /\ z.stage \in {"match", "make"} => z.ids > 0
PROOF
  <1>0. MaxPlayers \in Nat /\ MaxIds \in Nat /\ 0 \in 0 .. MaxIds
    BY IngestAssumption
  <1>1. CASE ids > 0
    <2> DEFINE z == [s EXCEPT !.stage = IF synthetic THEN "make" ELSE "match", !.sent = FALSE,
                              !.players = players, !.ids = ids, !.num = 0]
    <2>1. Onward(s, players, ids) = z
      BY <1>0, <1>1 DEF Onward
    <2>2. /\ z \in WorkerState /\ ~z.sent /\ z.stage \in {"make", "match"}
          /\ z.task = s.task /\ z.ids = ids
      BY <1>0 DEF WorkerState
    <2> QED BY <1>1, <2>1, <2>2
  <1>2. CASE ids = 0 /\ players > 0
    <2> DEFINE z == [s EXCEPT !.stage = "ids", !.sent = FALSE,
                              !.players = players - 1, !.ids = 0, !.num = 0]
    <2>1. Onward(s, players, ids) = z
      BY <1>0, <1>2 DEF Onward
    <2>2. z \in WorkerState /\ ~z.sent /\ z.stage = "ids" /\ z.task = s.task
      <3>1. players - 1 \in 0 .. MaxPlayers
        BY <1>0, <1>2
      <3> QED BY <1>0, <3>1 DEF WorkerState
    <2> QED BY <2>1, <2>2
  <1>3. CASE ids = 0 /\ players = 0
    <2>1. Onward(s, players, ids) = Idle
      BY <1>0, <1>3 DEF Onward
    <2> QED BY <2>1, IdleType
  <1> QED BY <1>0, <1>1, <1>2, <1>3

\* A worker that goes on with its task, or is through with it, keeps the books
\* of the queue right: Ingestor.worker with task_done.
LEMMA Going ==
  ASSUME IngestInv, NEW w \in Worker, NEW s \in WorkerState, worker[w] # Idle,
         s = Idle \/ (s.stage # "idle" /\ s.task = worker[w].task),
         Go(w, s), queue' = queue
  PROVE  /\ worker' \in [Worker -> WorkerState] /\ unfinished' \in 0 .. Cardinality(Task)
         /\ OneHolder' /\ Counted' /\ TierPriority'
PROOF
  <1>0. /\ worker \in [Worker -> WorkerState] /\ queue \subseteq Task
        /\ unfinished \in 0 .. Cardinality(Task) /\ IsFiniteSet(Task) /\ Cardinality(Task) \in Nat
    BY IngestAssumption, FS_CardinalityType DEF IngestInv, TypeOK
  <1>1. worker' = [worker EXCEPT ![w] = s]
    BY DEF Go
  <1>2. \A x \in Worker : worker[x] # Idle => worker[x].task \in Task /\ worker[x].stage # "idle"
    BY DEF IngestInv, WorkersSound, Sound
  <1>3. /\ worker'[w] = s
        /\ \A x \in Worker \ {w} : worker'[x] = worker[x]
        /\ \A x \in Worker : worker'[x] # Idle => worker[x] # Idle /\ worker'[x].task = worker[x].task
    BY <1>0, <1>1
  <1>4. worker' \in [Worker -> WorkerState]
    BY <1>0, <1>1
  <1>5. OneHolder'
    <2> SUFFICES ASSUME NEW x \in Worker, worker'[x] # Idle
                 PROVE  /\ worker'[x].task \notin queue
                        /\ \A y \in Worker \ {x} : worker'[y].task # worker'[x].task
      BY DEF OneHolder
    <2>1. worker[x] # Idle /\ worker'[x].task = worker[x].task
      BY <1>3
    <2>2. worker[x].task \notin queue /\ \A y \in Worker \ {x} : worker[y].task # worker[x].task
      BY <2>1 DEF IngestInv, OneHolder
    <2>3. ASSUME NEW y \in Worker \ {x} PROVE worker'[y].task # worker'[x].task
      <3>1. CASE worker'[y] = Idle
        BY <1>2, <2>1, <3>1, IdleType, IngestAssumption
      <3>2. CASE worker'[y] # Idle
        BY <1>3, <2>1, <2>2, <3>2
      <3> QED BY <3>1, <3>2
    <2> QED BY <2>1, <2>2, <2>3
  <1>6. TierPriority'
    <2> SUFFICES ASSUME NEW x \in Worker, worker'[x] # Idle, NEW t \in queue
                 PROVE  Rank[worker'[x].task] < Rank[t]
      BY DEF TierPriority
    <2> QED BY <1>3 DEF IngestInv, TierPriority
  <1>7. Counted' /\ unfinished' \in 0 .. Cardinality(Task)
    <2> DEFINE t == worker[w].task
               S == queue \cup Held
    <2>1. S \subseteq Task /\ t \in Held /\ t \notin queue
      BY <1>0, <1>2 DEF Held, IngestInv, OneHolder
    <2>2. IsFiniteSet(S) /\ unfinished = Cardinality(S)
      BY <1>0, <2>1, FS_Subset DEF IngestInv, Counted
    <2>3. CASE s # Idle
      <3>1. Held' = Held
        BY <1>3, <2>3 DEF Held
      <3>2. unfinished' = unfinished
        BY <2>3 DEF Go
      <3> QED BY <1>0, <2>2, <3>1, <3>2 DEF Counted
    <2>4. CASE s = Idle
      <3>1. Held' = Held \ {t}
        <4>1. \A x \in Worker \ {w} : worker[x].task # t
          BY DEF IngestInv, OneHolder
        <4> QED BY <1>3, <2>4, <4>1 DEF Held
      <3>2. queue \cup Held' = S \ {t}
        BY <2>1, <3>1
      <3>3. Cardinality(S \ {t}) = Cardinality(S) - 1 /\ IsFiniteSet(S \ {t})
        <4>1. t \in S
          BY <2>1
        <4> HIDE DEF t, S
        <4> QED BY <2>2, <4>1, FS_RemoveElement
      <3>4. unfinished' = unfinished - 1
        BY <2>4 DEF Go
      <3>5. unfinished' = Cardinality(queue \cup Held')
        BY <2>2, <3>2, <3>3, <3>4
      <3>6. Cardinality(S \ {t}) \in Nat
        BY <3>3, FS_CardinalityType
      <3> QED BY <1>0, <2>2, <3>2, <3>3, <3>4, <3>5, <3>6 DEF Counted
    <2> QED BY <2>3, <2>4
  <1> QED BY <1>4, <1>5, <1>6, <1>7

-----------------------------------------------------------------------------
(* The steps                                                                *)

\* Whatever one worker does, with the counter growing and only the partition of
\* its own task written to, the others are as sound as before.
LEMMA SoundStep ==
  ASSUME IngestInv, NEW w \in Worker, worker' \in [Worker -> WorkerState],
         \A x \in Worker \ {w} : worker'[x] = worker[x],
         Sound(worker[w])', seq' \in Nat, seq' >= seq,
         \A t \in Task : last'[t] = last[t] \/ (t = worker[w].task /\ worker[w] # Idle)
  PROVE  WorkersSound'
PROOF
  <1> SUFFICES ASSUME NEW x \in Worker PROVE Sound(worker[x])'
    BY DEF WorkersSound
  <1>1. CASE x = w
    BY <1>1
  <1>2. CASE x # w
    <2>1. worker'[x] = worker[x] /\ Sound(worker[x]) /\ worker[x] \in WorkerState
      BY <1>2 DEF IngestInv, WorkersSound, TypeOK
    <2>2. CASE worker[x].stage # "publish"
      BY <2>1, <2>2 DEF Sound
    <2>3. CASE worker[x].stage = "publish"
      <3>1. worker[x] # Idle /\ worker[x].task \in Task
        BY <2>1, <2>3, IdleType DEF Sound
      <3>2. last'[worker[x].task] = last[worker[x].task]
        BY <1>2, <3>1 DEF IngestInv, OneHolder
      <3>3. worker[x].num \in Nat /\ seq \in Nat
        BY <2>1 DEF IngestInv, TypeOK, WorkerState
      <3> QED BY <2>1, <2>3, <3>1, <3>2, <3>3 DEF Sound
    <2> QED BY <2>2, <2>3
  <1> QED BY <1>1, <1>2

\* A state that is not about an event is sound when its parts are.
LEMMA SoundOnward ==
  ASSUME NEW z \in WorkerState, NEW s \in WorkerState, s.task \in Task, ~z.sent,
         z = Idle \/ (z.stage \in {"make", "match", "ids"} /\ z.task = s.task),
         z.stage \in {"match", "make"} => z.ids > 0
  PROVE  Sound(z) /\ Sound(z)'
BY IdleType DEF Sound

\* What is true of a worker that is at a task.
LEMMA AtWork ==
  ASSUME IngestInv, NEW w \in Worker, worker[w].stage # "idle" \/ worker[w].sent
  PROVE  LET s == worker[w]
         IN  /\ s \in WorkerState /\ s # Idle /\ s.task \in Task /\ s.stage # "idle" /\ Sound(s)
             /\ s.players \in 0 .. MaxPlayers /\ s.ids \in 0 .. MaxIds /\ 0 \in 0 .. MaxIds
             /\ s.stage \in {"match", "make", "publish"} => s.ids - 1 \in 0 .. MaxIds
PROOF
  <1>1. worker[w] \in WorkerState /\ Sound(worker[w])
    BY DEF IngestInv, TypeOK, WorkersSound
  <1>2. worker[w].stage # "idle" /\ worker[w] # Idle
    BY <1>1, IdleType DEF Sound
  <1>3. /\ worker[w].task \in Task
        /\ worker[w].stage \in {"match", "make", "publish"} => worker[w].ids > 0
    BY <1>1, <1>2 DEF Sound
  <1>4. worker[w].players \in 0 .. MaxPlayers /\ worker[w].ids \in 0 .. MaxIds
    BY <1>1 DEF WorkerState
  <1> QED BY <1>1, <1>2, <1>3, <1>4, IngestAssumption

\* A worker goes on to the next player or match, with the counter and the
\* partition of its task as they come out of the step.
LEMMA GoesOnward ==
  ASSUME IngestInv, NEW w \in Worker, worker[w].stage # "idle" \/ worker[w].sent,
         NEW players \in 0 .. MaxPlayers, NEW ids \in 0 .. MaxIds,
         Go(w, Onward(worker[w], players, ids)), UNCHANGED <<synthetic, queue, limiter, rounds, throttled>>,
         seq' \in Nat, seq' >= seq, last' \in [Task -> Nat],
         \A t \in Task : last'[t] = last[t] \/ (t = worker[w].task /\ last'[t] <= seq)
  PROVE  IngestInv'
PROOF
  <1> DEFINE s == worker[w]
             z == Onward(s, players, ids)
  <1>1. /\ s \in WorkerState /\ s # Idle /\ s.task \in Task /\ s.stage # "idle"
    BY AtWork
  <1>2. /\ z \in WorkerState /\ ~z.sent
        /\ z = Idle \/ (z.stage \in {"make", "match", "ids"} /\ z.task = s.task)
        /\ z.stage \in {"match", "make"} => z.ids > 0
    BY <1>1, OnwardType
  <1>3. Go(w, z)
    OBVIOUS
  <1> HIDE DEF z
  <1>4. z = Idle \/ (z.stage # "idle" /\ z.task = worker[w].task)
    BY <1>2
  <1>5. /\ worker' \in [Worker -> WorkerState] /\ unfinished' \in 0 .. Cardinality(Task)
        /\ OneHolder' /\ Counted' /\ TierPriority'
    BY <1>1, <1>2, <1>3, <1>4, Going
  <1>6. worker'[w] = z /\ \A x \in Worker \ {w} : worker'[x] = worker[x]
    BY <1>3 DEF Go, IngestInv, TypeOK
  <1>7. Sound(worker[w])'
    BY <1>1, <1>2, <1>6, SoundOnward
  <1>8. WorkersSound'
    BY <1>1, <1>5, <1>6, <1>7, SoundStep
  <1>9. TypeOK'
    BY <1>5 DEF IngestInv, TypeOK, limiter
  <1>10. SeqAhead'
    BY DEF IngestInv, SeqAhead, TypeOK
  <1> QED BY <1>5, <1>8, <1>9, <1>10 DEF IngestInv

\* generate_match and normalize: an event with the next number.
LEMMA MakesEvent ==
  ASSUME IngestInv, NEW w \in Worker, worker[w].stage \in {"make", "match"},
         NEW z, z = [worker[w] EXCEPT !.stage = "publish", !.sent = FALSE, !.num = seq + 1],
         Go(w, z), seq' = seq + 1, UNCHANGED <<synthetic, queue, limiter, last, rounds, throttled>>
  PROVE  IngestInv'
PROOF
  <1>1. /\ worker[w] \in WorkerState /\ worker[w] # Idle /\ worker[w].task \in Task
        /\ Sound(worker[w])
    BY AtWork
  <1>2. seq \in Nat /\ last \in [Task -> Nat]
    BY DEF IngestInv, TypeOK
  <1>3. /\ z \in WorkerState /\ z.stage = "publish" /\ ~z.sent /\ z.num = seq + 1
        /\ z.task = worker[w].task /\ z.ids = worker[w].ids
    <2>1. seq + 1 \in Nat
      BY <1>2
    <2>2. [worker[w] EXCEPT !.stage = "publish", !.sent = FALSE, !.num = seq + 1] \in WorkerState
      BY <1>1, <2>1 DEF WorkerState
    <2> QED BY <1>1, <2>2 DEF WorkerState
  <1>4. /\ worker' \in [Worker -> WorkerState] /\ unfinished' \in 0 .. Cardinality(Task)
        /\ OneHolder' /\ Counted' /\ TierPriority'
    <2>1. z = Idle \/ (z.stage # "idle" /\ z.task = worker[w].task)
      BY <1>3
    <2> QED BY <1>1, <1>3, <2>1, Going
  <1>5. worker'[w] = z /\ \A x \in Worker \ {w} : worker'[x] = worker[x]
    BY DEF Go, IngestInv, TypeOK
  <1>6. Sound(worker[w])'
    <2>1. worker[w].ids > 0
      BY <1>1 DEF Sound
    <2>2. last[z.task] <= seq
      BY <1>1, <1>3 DEF IngestInv, SeqAhead
    <2>3. last[z.task] \in Nat
      BY <1>1, <1>2, <1>3
    <2> QED BY <1>1, <1>2, <1>3, <1>5, <2>1, <2>2, <2>3 DEF Sound
  <1>7. WorkersSound'
    BY <1>2, <1>4, <1>5, <1>6, SoundStep
  <1>8. TypeOK'
    BY <1>2, <1>4 DEF IngestInv, TypeOK, limiter
  <1>9. SeqAhead'
    BY <1>2 DEF IngestInv, SeqAhead
  <1> QED BY <1>4, <1>7, <1>8, <1>9 DEF IngestInv

\* RateLimiter.acquire, and 429: only whether a request is out changes.
LEMMA SentOrNot ==
  ASSUME IngestInv, NEW w \in Worker, NEW b \in BOOLEAN, worker[w].stage \in {"league", "ids", "match"},
         worker' = [worker EXCEPT ![w].sent = b],
         UNCHANGED <<synthetic, queue, unfinished, phase, seq, last, rounds>>,
         tokens' \in 0 .. Rate, acquired' \in [0 .. TicksPerSec - 1 -> Nat], throttled' \in Nat
  PROVE  IngestInv'
PROOF
  <1> DEFINE z == [worker[w] EXCEPT !.sent = b]
  <1>1. worker[w] \in WorkerState /\ worker[w] # Idle /\ worker[w].task \in Task /\ Sound(worker[w])
    BY AtWork
  <1>2. /\ z \in WorkerState /\ z.stage = worker[w].stage /\ z.task = worker[w].task
        /\ z.ids = worker[w].ids
    BY <1>1 DEF WorkerState
  <1>3. worker' = [worker EXCEPT ![w] = z]
    OBVIOUS
  <1> HIDE DEF z
  <1>4. Go(w, z)
    BY <1>2, <1>3, IdleType DEF Go
  <1>5. /\ worker' \in [Worker -> WorkerState] /\ unfinished' \in 0 .. Cardinality(Task)
        /\ OneHolder' /\ Counted' /\ TierPriority'
    <2>1. z = Idle \/ (z.stage # "idle" /\ z.task = worker[w].task)
      BY <1>2
    <2> QED BY <1>1, <1>2, <1>4, <2>1, Going
  <1>6. worker'[w] = z /\ \A x \in Worker \ {w} : worker'[x] = worker[x]
    BY <1>3 DEF IngestInv, TypeOK
  <1>7. Sound(worker[w])'
    BY <1>1, <1>2, <1>6 DEF Sound
  <1>8. seq' \in Nat /\ seq' >= seq
    BY DEF IngestInv, TypeOK
  <1>9. WorkersSound'
    BY <1>5, <1>6, <1>7, <1>8, SoundStep
  <1>10. TypeOK'
    BY <1>5 DEF IngestInv, TypeOK
  <1>11. SeqAhead'
    BY DEF IngestInv, SeqAhead
  <1> QED BY <1>5, <1>9, <1>10, <1>11 DEF IngestInv

\* queue.get: the task with the lowest tuple goes to a worker that has none.
LEMMA TakeStep == ASSUME IngestInv, NEW w \in Worker, Take(w) PROVE IngestInv'
PROOF
  <1>1. PICK t \in queue : /\ \A u \in queue : Rank[t] <= Rank[u]
                           /\ queue' = queue \ {t}
                           /\ worker' = [worker EXCEPT ![w] = [Idle EXCEPT !.task = t,
                                           !.stage = IF synthetic THEN "make" ELSE "league",
                                           !.ids = IF synthetic THEN MaxIds ELSE 0]]
    BY DEF Take
  <1> DEFINE stage == IF synthetic THEN "make" ELSE "league"
             ids == IF synthetic THEN MaxIds ELSE 0
             z == [Idle EXCEPT !.task = t, !.stage = stage, !.ids = ids]
  <1>2. worker[w] = Idle /\ UNCHANGED <<synthetic, unfinished, limiter, seq, last, rounds, throttled>>
    BY DEF Take
  <1>3. worker \in [Worker -> WorkerState] /\ t \in Task /\ queue \subseteq Task
    BY DEF IngestInv, TypeOK
  <1>4. /\ z \in WorkerState /\ z.task = t /\ z.stage \in {"make", "league"} /\ ~z.sent /\ z # Idle
        /\ z.stage = "make" => z.ids > 0
    <2>1. /\ stage \in {"make", "league"} /\ ids \in 0 .. MaxIds
          /\ stage = "make" => ids > 0
      BY IngestAssumption
    <2> HIDE DEF stage, ids
    <2>2. z.task = t /\ z.stage = stage /\ ~z.sent /\ z.ids = ids
      BY DEF Idle
    <2>3. z \in WorkerState
      BY <1>3, <2>1, IdleType DEF WorkerState
    <2> QED BY <2>1, <2>2, <2>3, IdleType
  <1>5. worker' = [worker EXCEPT ![w] = z]
    BY <1>1
  <1> HIDE DEF z
  <1>6. /\ worker'[w] = z /\ \A x \in Worker \ {w} : worker'[x] = worker[x]
        /\ worker' \in [Worker -> WorkerState]
    BY <1>3, <1>4, <1>5
  <1>7. \A x \in Worker \ {w} : worker[x].task # t /\ worker[x].task \notin queue
    <2> SUFFICES ASSUME NEW x \in Worker \ {w} PROVE worker[x].task \notin queue
      BY <1>1
    <2>1. CASE worker[x] = Idle
      BY <1>3, <2>1, IdleType, IngestAssumption
    <2>2. CASE worker[x] # Idle
      BY <2>2 DEF IngestInv, OneHolder
    <2> QED BY <2>1, <2>2
  <1>8. OneHolder'
    <2> SUFFICES ASSUME NEW x \in Worker, worker'[x] # Idle
                 PROVE  /\ worker'[x].task \notin queue'
                        /\ \A y \in Worker \ {x} : worker'[y].task # worker'[x].task
      BY DEF OneHolder
    <2>1. CASE x = w
      BY <1>1, <1>4, <1>6, <1>7, <2>1
    <2>2. CASE x # w
      <3>1. \A y \in Worker \ {x} : worker[y].task # worker[x].task
        BY <1>6, <2>2 DEF IngestInv, OneHolder
      <3> QED BY <1>1, <1>4, <1>6, <1>7, <2>2, <3>1
    <2> QED BY <2>1, <2>2
  <1>9. Counted'
    <2>1. Held' = Held \cup {t}
      BY <1>2, <1>4, <1>6 DEF Held
    <2>2. queue' \cup Held' = queue \cup Held
      BY <1>1, <2>1
    <2> QED BY <1>2, <2>2 DEF IngestInv, Counted
  <1>10. TierPriority'
    <2> SUFFICES ASSUME NEW x \in Worker, worker'[x] # Idle, NEW u \in queue'
                 PROVE  Rank[worker'[x].task] < Rank[u]
      BY DEF TierPriority
    <2>1. CASE x = w
      <3>1. Rank[t] <= Rank[u] /\ Rank[t] # Rank[u]
        BY <1>1, <1>3, IngestAssumption DEF IsInjective
      <3>2. Rank[t] \in Nat /\ Rank[u] \in Nat
        BY <1>1, <1>3, IngestAssumption
      <3> QED BY <1>4, <1>6, <2>1, <3>1, <3>2
    <2>2. CASE x # w
      BY <1>1, <1>6, <2>2 DEF IngestInv, TierPriority
    <2> QED BY <2>1, <2>2
  <1>11. WorkersSound'
    <2>1. Sound(worker[w])'
      BY <1>3, <1>4, <1>6 DEF Sound
    <2>2. seq' \in Nat /\ seq' >= seq /\ last' = last
      BY <1>2 DEF IngestInv, TypeOK
    <2> QED BY <1>6, <2>1, <2>2, SoundStep
  <1>12. TypeOK'
    BY <1>1, <1>2, <1>3, <1>6 DEF IngestInv, TypeOK, limiter
  <1>13. SeqAhead'
    BY <1>2 DEF IngestInv, SeqAhead
  <1> QED BY <1>8, <1>9, <1>10, <1>11, <1>12, <1>13 DEF IngestInv

\* Ingestor.run puts the tasks of a round: queue.join has found nothing in the
\* queue and nobody at work.
LEMMA PutRoundStep == ASSUME IngestInv, PutRound PROVE IngestInv'
PROOF
  <1>1. unfinished = 0 /\ queue' = Task /\ unfinished' = Cardinality(Task) /\ rounds' = rounds + 1
        /\ UNCHANGED <<synthetic, worker, limiter, seq, last, throttled>>
    BY DEF PutRound
  <1>2. queue = {} /\ Held = {}
    <2>1. queue \subseteq Task /\ Held \subseteq Task
      BY DEF IngestInv, TypeOK, Held, WorkersSound, Sound
    <2>2. IsFiniteSet(queue \cup Held)
      BY <2>1, IngestAssumption, FS_Subset
    <2>3. Cardinality(queue \cup Held) = 0
      BY <1>1 DEF IngestInv, Counted
    <2> QED BY <2>2, <2>3, FS_EmptySet
  <1>3. \A w \in Worker : worker[w] = Idle /\ worker'[w] = Idle
    BY <1>1, <1>2 DEF Held
  <1>4. OneHolder' /\ TierPriority' /\ Held' = {}
    BY <1>3 DEF OneHolder, TierPriority, Held
  <1>5. Counted'
    BY <1>1, <1>4 DEF Counted
  <1>6. WorkersSound' /\ SeqAhead'
    BY <1>1 DEF IngestInv, WorkersSound, Sound, SeqAhead
  <1>7. TypeOK'
    <2>1. Cardinality(Task) \in Nat
      BY IngestAssumption, FS_CardinalityType
    <2> QED BY <1>1, <2>1 DEF IngestInv, TypeOK, limiter
  <1> QED BY <1>4, <1>5, <1>6, <1>7 DEF IngestInv

\* _refill_loop and the passing of time touch the limiter alone.
LEMMA TickStep == ASSUME IngestInv, Tick PROVE IngestInv'
PROOF
  <1>1. UNCHANGED <<synthetic, queue, unfinished, worker, seq, last, rounds, throttled>>
    BY DEF Tick
  <1>2. tokens' \in 0 .. Rate
    BY IngestAssumption DEF Tick, Refilled, IngestInv, TypeOK
  <1>3. phase' \in 0 .. TicksPerSec - 1
    BY IngestAssumption DEF Tick, IngestInv, TypeOK
  <1>4. acquired' \in [0 .. TicksPerSec - 1 -> Nat]
    <2>1. acquired \in [0 .. TicksPerSec - 1 -> Nat]
      BY DEF IngestInv, TypeOK
    <2>2. \A i \in 0 .. TicksPerSec - 1 : i # 0 => i - 1 \in 0 .. TicksPerSec - 1
      BY IngestAssumption
    <2> QED BY <2>1, <2>2 DEF Tick
  <1>5. TypeOK'
    BY <1>1, <1>2, <1>3, <1>4 DEF IngestInv, TypeOK
  <1>6. WorkersSound' /\ OneHolder' /\ SeqAhead' /\ TierPriority'
    BY <1>1 DEF IngestInv, WorkersSound, Sound, OneHolder, SeqAhead, TierPriority
  <1>7. Counted'
    BY <1>1 DEF IngestInv, Counted, Held
  <1> QED BY <1>5, <1>6, <1>7 DEF IngestInv

\* publish_match, and an exception after which the broker has the match or not.
LEMMA PublishStep == ASSUME IngestInv, NEW w \in Worker, Publish(w) \/ Fail(w) PROVE IngestInv'
PROOF
  <1> DEFINE s == worker[w]
  <1>0. worker[w].stage # "idle" \/ worker[w].sent
    BY DEF Publish, Fail
  <1>1. /\ s \in WorkerState /\ s # Idle /\ s.task \in Task /\ s.stage # "idle" /\ Sound(s)
        /\ s.players \in 0 .. MaxPlayers /\ s.ids \in 0 .. MaxIds /\ 0 \in 0 .. MaxIds
        /\ s.stage = "publish" => s.ids - 1 \in 0 .. MaxIds
    BY <1>0, AtWork
  <1>2. seq \in Nat /\ last \in [Task -> Nat] /\ s.num \in Nat
    BY <1>1 DEF IngestInv, TypeOK, WorkerState
  <1>3. s.stage = "publish" => s.num <= seq
    BY <1>1 DEF Sound
  <1>4. /\ seq' = seq /\ seq' \in Nat /\ seq' >= seq /\ last' \in [Task -> Nat]
        /\ \A t \in Task : last'[t] = last[t] \/ (t = worker[w].task /\ last'[t] <= seq)
        /\ UNCHANGED <<synthetic, queue, limiter, rounds, throttled>>
    BY <1>1, <1>2, <1>3 DEF Publish, Fail
  <1>5. CASE Publish(w)
    <2>1. Go(w, Onward(s, s.players, s.ids - 1)) /\ s.stage = "publish"
      BY <1>5 DEF Publish
    <2>2. s.ids - 1 \in 0 .. MaxIds
      BY <1>1, <2>1
    <2> QED BY <1>0, <1>1, <1>4, <2>1, <2>2, GoesOnward
  <1>6. CASE Fail(w)
    <2>1. Go(w, Onward(s, 0, 0))
      BY <1>6 DEF Fail, Onward
    <2>2. 0 \in 0 .. MaxPlayers
      BY IngestAssumption
    <2> QED BY <1>0, <1>1, <1>4, <2>1, <2>2, GoesOnward
  <1> QED BY <1>5, <1>6

\* The answers of Riot that lead on to the next player or match.
LEMMA AnswerStep ==
  ASSUME IngestInv, NEW w \in Worker, Players(w) \/ MatchIds(w) \/ NotAMatch(w) \/ NotOk(w)
  PROVE  IngestInv'
PROOF
  <1> DEFINE s == worker[w]
  <1>0. worker[w].stage # "idle" \/ worker[w].sent
    BY DEF Players, MatchIds, NotAMatch, NotOk
  <1>1. /\ s.players \in 0 .. MaxPlayers /\ s.ids \in 0 .. MaxIds /\ 0 \in 0 .. MaxIds
        /\ s.stage = "match" => s.ids - 1 \in 0 .. MaxIds
    BY <1>0, AtWork
  <1>2. /\ seq \in Nat /\ seq' \in Nat /\ seq' >= seq /\ last' = last /\ last' \in [Task -> Nat]
        /\ UNCHANGED <<synthetic, queue, limiter, rounds, throttled>>
    BY DEF Players, MatchIds, NotAMatch, NotOk, IngestInv, TypeOK
  <1>3. \E players \in 0 .. MaxPlayers, ids \in 0 .. MaxIds : Go(w, Onward(s, players, ids))
    <2>1. CASE Players(w)
      BY <1>1, <2>1 DEF Players
    <2>2. CASE MatchIds(w)
      BY <1>1, <2>2 DEF MatchIds
    <2>3. CASE NotAMatch(w)
      <3>1. Go(w, Onward(s, s.players, s.ids - 1)) /\ s.stage = "match"
        BY <2>3 DEF NotAMatch
      <3> QED BY <1>1, <3>1
    <2>4. CASE NotOk(w)
      <3> DEFINE ids == IF s.stage = "match" THEN s.ids - 1 ELSE 0
      <3>1. ids \in 0 .. MaxIds
        BY <1>1
      <3>2. Go(w, Onward(s, s.players, ids))
        BY <2>4 DEF NotOk
      <3> HIDE DEF ids
      <3> QED BY <1>1, <3>1, <3>2
    <2> QED BY <2>1, <2>2, <2>3, <2>4
  <1> QED BY <1>0, <1>2, <1>3, GoesOnward

\* No step of the ingestion process breaks the invariant.
LEMMA IngestStep == IngestInv /\ [Next]_vars => IngestInv'
PROOF
  <1> SUFFICES ASSUME IngestInv, [Next]_vars PROVE IngestInv'
    OBVIOUS
  <1>1. ASSUME NEW w \in Worker, Acquire(w) PROVE IngestInv'
    <2>1. /\ worker[w].stage \in {"league", "ids", "match"} /\ worker' = [worker EXCEPT ![w].sent = TRUE]
          /\ UNCHANGED <<synthetic, queue, unfinished, phase, seq, last, rounds, throttled>>
      BY <1>1 DEF Acquire
    <2>2. tokens' \in 0 .. Rate
      BY <1>1, IngestAssumption DEF Acquire, IngestInv, TypeOK
    <2>3. acquired' \in [0 .. TicksPerSec - 1 -> Nat]
      BY <1>1 DEF Acquire, IngestInv, TypeOK
    <2>4. throttled' \in Nat
      BY <2>1 DEF IngestInv, TypeOK
    <2> QED BY <2>1, <2>2, <2>3, <2>4, SentOrNot
  <1>2. ASSUME NEW w \in Worker, TooMany(w) PROVE IngestInv'
    <2>1. worker[w].sent /\ worker' = [worker EXCEPT ![w].sent = FALSE]
          /\ UNCHANGED <<synthetic, queue, unfinished, limiter, seq, last, rounds>>
          /\ throttled' = throttled + 1
      BY <1>2 DEF TooMany
    <2>2. worker[w].stage \in {"league", "ids", "match"}
      BY <2>1 DEF IngestInv, WorkersSound, Sound
    <2>3. throttled' \in Nat /\ tokens' \in 0 .. Rate /\ acquired' \in [0 .. TicksPerSec - 1 -> Nat]
      BY <2>1 DEF IngestInv, TypeOK, limiter
    <2> QED BY <2>1, <2>2, <2>3, SentOrNot DEF limiter
  <1>3. ASSUME NEW w \in Worker, Generate(w) \/ Normalize(w) PROVE IngestInv'
    <2> DEFINE s == worker[w]
               z == [s EXCEPT !.stage = "publish", !.sent = FALSE, !.num = seq + 1]
    <2>1. s.stage \in {"make", "match"} /\ seq' = seq + 1
          /\ UNCHANGED <<synthetic, queue, limiter, last, rounds, throttled>>
      BY <1>3 DEF Generate, Normalize
    <2>2. s \in WorkerState /\ Sound(s)
      BY DEF IngestInv, TypeOK, WorkersSound
    <2>3. Go(w, z)
      <3>1. CASE Normalize(w)
        BY <3>1 DEF Normalize
      <3>2. CASE Generate(w)
        <4>1. s.sent = FALSE
          BY <2>2, <3>2 DEF Generate, Sound, WorkerState
        <4>2. z = [s EXCEPT !.stage = "publish", !.num = seq + 1]
          BY <2>2, <4>1 DEF WorkerState
        <4> QED BY <3>2, <4>2 DEF Generate
      <3> QED BY <1>3, <3>1, <3>2
    <2> QED BY <2>1, <2>3, MakesEvent
  <1>4. CASE UNCHANGED vars
    <2>1. UNCHANGED <<synthetic, queue, unfinished, worker, limiter, seq, last, rounds, throttled>>
      BY <1>4 DEF vars
    <2> QED BY <2>1 DEF IngestInv, TypeOK, limiter, WorkersSound, Sound, OneHolder, Counted, Held,
                        SeqAhead, TierPriority
  <1> QED BY <1>1, <1>2, <1>3, <1>4, PutRoundStep, TickStep, TakeStep, PublishStep, AnswerStep
          DEF Next, Step, Answered

-----------------------------------------------------------------------------
(* The theorems                                                             *)

\* Ingestor.run and its workers: the invariant the theorems rest on.
LEMMA IngestInvariant == Spec => []IngestInv
PROOF
  <1>1. Init => IngestInv
    <2> SUFFICES ASSUME Init PROVE IngestInv
      OBVIOUS
    <2>1. \A w \in Worker : worker[w] = Idle
      BY DEF Init
    <2>2. OneHolder /\ TierPriority /\ Held = {} /\ WorkersSound /\ SeqAhead
      BY <2>1, IdleType DEF Init, OneHolder, TierPriority, Held, WorkersSound, Sound, SeqAhead
    <2>3. Counted
      BY <2>2, FS_EmptySet DEF Init, Counted
    <2>4. TypeOK
      <3>1. Cardinality(Task) \in Nat
        BY IngestAssumption, FS_CardinalityType
      <3> QED BY <3>1, IdleType, IngestAssumption DEF Init, TypeOK
    <2> QED BY <2>2, <2>3, <2>4 DEF IngestInv
  <1> QED BY <1>1, IngestStep, PTL DEF Spec

\* The types of the ingestion process: in particular the limiter is never
\* overdrawn and task_done never called once too often.
THEOREM IngestTypes == Spec => []TypeOK
PROOF
  <1>1. IngestInv => TypeOK
    BY DEF IngestInv
  <1> QED BY <1>1, IngestInvariant, PTL

\* main.py:6, "processed before lower tiers": no worker is at a task while one
\* of higher rank waits, with any number of workers and whatever fails.
THEOREM HigherTiersFirst == Spec => []TierPriority
PROOF
  <1>1. IngestInv => TierPriority
    BY DEF IngestInv
  <1> QED BY <1>1, IngestInvariant, PTL

\* publish_match: a partition receives its matches in the order of their
\* numbers, although any worker may be the one to publish to it.
THEOREM PublishedInOrder == Spec => PartitionOrder
PROOF
  <1>1. IngestInv /\ [Next]_vars => [\A t \in Task : last'[t] = last[t] \/ last'[t] > last[t]]_vars
    <2> SUFFICES ASSUME IngestInv, [Next]_vars, NEW t \in Task
                 PROVE  last'[t] = last[t] \/ last'[t] > last[t]
      OBVIOUS
    <2>1. ASSUME NEW w \in Worker, worker[w].stage = "publish",
                 last' = [last EXCEPT ![worker[w].task] = worker[w].num]
          PROVE  last'[t] = last[t] \/ last'[t] > last[t]
      <3>1. last[worker[w].task] < worker[w].num
        BY <2>1 DEF IngestInv, WorkersSound, Sound
      <3>2. worker[w].num \in Nat /\ last \in [Task -> Nat]
        BY DEF IngestInv, TypeOK, WorkerState
      <3> QED BY <2>1, <3>1, <3>2
    <2>2. CASE last' = last
      BY <2>2
    <2>3. ASSUME NEW w \in Worker, Publish(w) \/ Fail(w)
          PROVE  last'[t] = last[t] \/ last'[t] > last[t]
      BY <2>1, <2>2, <2>3 DEF Publish, Fail
    <2>4. ASSUME NEW w \in Worker,
                 \/ Take(w) \/ Acquire(w) \/ TooMany(w) \/ Generate(w) \/ Normalize(w)
                 \/ Players(w) \/ MatchIds(w) \/ NotAMatch(w) \/ NotOk(w)
          PROVE  last' = last
      BY <2>4 DEF Take, Acquire, TooMany, Generate, Normalize, Players, MatchIds, NotAMatch, NotOk
    <2>5. CASE PutRound \/ Tick \/ UNCHANGED vars
      BY <2>2, <2>5 DEF PutRound, Tick, vars
    <2> QED BY <2>2, <2>3, <2>4, <2>5 DEF Next, Step, Answered
  <1> QED BY <1>1, IngestInvariant, PTL DEF Spec, PartitionOrder

\* rate_limiter.py: what was acquired since the refill is what is missing in the
\* bucket; longer ago than that, at most one full bucket was emptied.
Recent ==
  \A i \in 0 .. TicksPerSec - 1 :
    acquired[i] <= (Rate - tokens) + IF i <= phase THEN 0 ELSE Rate

\* A token taken leaves the bucket and counts in every span that ends now.
LEMMA AcquireRecent ==
  ASSUME TypeOK, Recent, NEW w \in Worker, Acquire(w) PROVE Recent'
PROOF
  <1> SUFFICES ASSUME NEW i \in 0 .. TicksPerSec - 1
               PROVE  acquired'[i] <= (Rate - tokens') + IF i <= phase' THEN 0 ELSE Rate
    BY DEF Recent
  <1>1. acquired'[i] = acquired[i] + 1 /\ acquired[i] \in Nat
    BY DEF Acquire, TypeOK
  <1>2. tokens' = tokens - 1 /\ phase' = phase /\ tokens \in Nat /\ Rate \in Nat
    BY IngestAssumption DEF Acquire, TypeOK
  <1>3. acquired[i] <= (Rate - tokens) + IF i <= phase THEN 0 ELSE Rate
    BY DEF Recent
  <1> QED BY <1>1, <1>2, <1>3

\* A tick moves every span by one; after a refill all of them but the newest
\* lie before it.
LEMMA TickRecent == ASSUME TypeOK, Recent, Tick PROVE Recent'
PROOF
  <1> SUFFICES ASSUME NEW i \in 0 .. TicksPerSec - 1
               PROVE  acquired'[i] <= (Rate - tokens') + IF i <= phase' THEN 0 ELSE Rate
    BY DEF Recent
  <1>0. /\ TicksPerSec \in Nat /\ TicksPerSec > 0 /\ Rate \in Nat /\ tokens \in 0 .. Rate
        /\ phase \in 0 .. TicksPerSec - 1
    BY IngestAssumption DEF TypeOK
  <1>1. acquired'[i] = IF i = 0 THEN 0 ELSE acquired[i - 1]
    BY DEF Tick, TypeOK
  <1>2. ASSUME i # 0
        PROVE  /\ acquired[i - 1] \in Nat
               /\ acquired[i - 1] <= (Rate - tokens) + IF i - 1 <= phase THEN 0 ELSE Rate
    <2>1. i - 1 \in 0 .. TicksPerSec - 1
      BY <1>0, <1>2
    <2> QED BY <2>1 DEF Recent, TypeOK
  <1>3. CASE phase = TicksPerSec - 1
    <2>1. phase' = 0 /\ tokens' = Rate
      BY <1>0, <1>3 DEF Tick, Refilled
    <2>2. CASE i = 0
      BY <1>0, <1>1, <2>1, <2>2
    <2>3. CASE i # 0
      BY <1>0, <1>1, <1>2, <1>3, <2>1, <2>3
    <2> QED BY <2>2, <2>3
  <1>4. CASE phase < TicksPerSec - 1
    <2>1. phase' = phase + 1 /\ tokens' = tokens
      BY <1>0, <1>4 DEF Tick
    <2>2. CASE i = 0
      BY <1>0, <1>1, <2>1, <2>2
    <2>3. CASE i # 0
      BY <1>0, <1>1, <1>2, <2>1, <2>3
    <2> QED BY <2>2, <2>3
  <1> QED BY <1>0, <1>3, <1>4

\* rate_limiter.py:8, "up to rate acquisitions per second": in any second at
\* most twice as many, with any number of workers and answers 429.
THEOREM SecondsBounded == Spec => []SecondBound
PROOF
  <1>1. Init => Recent
    <2> SUFFICES ASSUME Init, NEW i \in 0 .. TicksPerSec - 1
                 PROVE  acquired[i] <= (Rate - tokens) + IF i <= phase THEN 0 ELSE Rate
      BY DEF Recent
    <2> QED BY IngestAssumption DEF Init
  <1>2. IngestInv /\ Recent /\ [Next]_vars => Recent'
    <2> SUFFICES ASSUME IngestInv, Recent, [Next]_vars PROVE Recent'
      OBVIOUS
    <2>1. TypeOK
      BY DEF IngestInv
    <2>2. ASSUME NEW w \in Worker, Acquire(w) PROVE Recent'
      BY <2>1, <2>2, AcquireRecent
    <2>3. CASE Tick
      BY <2>1, <2>3, TickRecent
    <2>4. ASSUME UNCHANGED limiter PROVE Recent'
      BY <2>4 DEF limiter, Recent
    <2>5. ASSUME NEW w \in Worker,
                 \/ Take(w) \/ TooMany(w) \/ Generate(w) \/ Normalize(w) \/ Publish(w)
                 \/ Players(w) \/ MatchIds(w) \/ NotAMatch(w) \/ NotOk(w) \/ Fail(w)
          PROVE  UNCHANGED limiter
      BY <2>5 DEF Take, TooMany, Generate, Normalize, Publish, Players, MatchIds, NotAMatch,
                  NotOk, Fail
    <2>6. CASE PutRound \/ UNCHANGED vars
      BY <2>4, <2>6 DEF PutRound, vars
    <2> QED BY <2>2, <2>3, <2>4, <2>5, <2>6 DEF Next, Step, Answered
  <1>3. TypeOK /\ Recent => SecondBound
    <2> SUFFICES ASSUME TypeOK, Recent PROVE acquired[TicksPerSec - 1] <= 2 * Rate
      BY DEF SecondBound
    <2>1. TicksPerSec - 1 \in 0 .. TicksPerSec - 1 /\ Rate \in Nat
      BY IngestAssumption
    <2>2. tokens \in 0 .. Rate /\ acquired[TicksPerSec - 1] \in Nat
      BY <2>1 DEF TypeOK
    <2>3. acquired[TicksPerSec - 1]
            <= (Rate - tokens) + IF TicksPerSec - 1 <= phase THEN 0 ELSE Rate
      BY <2>1 DEF Recent
    <2> QED BY <2>1, <2>2, <2>3
  <1> QED BY <1>1, <1>2, <1>3, IngestInvariant, IngestTypes, PTL DEF Spec

=============================================================================
