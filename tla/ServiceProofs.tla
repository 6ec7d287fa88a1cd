--------------------------- MODULE ServiceProofs ---------------------------
(***************************************************************************)
(* Proofs about Service and Alerts, the two halves of the API, for any     *)
(* boards, ids, requests, keys, windows and bounds: how old what the cache *)
(* serves can be; that entries of different types stay apart, that the     *)
(* floor is kept and that list and single lookup agree; that alerts are    *)
(* about rare rates, carry one tag, and are in the feed, the newest first. *)
(***************************************************************************)
EXTENDS Service, Alerts, FiniteSetTheorems, WellFoundedInduction, TLAPS

Field == {"pc", "req", "time", "got", "at", "ans"}

\* A handler's record, and the order of its times at n: it read the clock before
\* now, a scan it is about to store is not older than that reading, and what it got
\* last is less than Ttl older.
Handler(th, n) ==
  /\ DOMAIN th = Field /\ th.time \in Nat /\ th.at \in Seq(Nat) /\ th.time <= n
  /\ th.pc = "put" => th.at # <<>> /\ Last(th.at) >= th.time
  /\ th.at # <<>> /\ th.pc # "look" => Last(th.at) > th.time - Ttl

\* An entry of the cache is never stamped later than it was scanned.
Slot(c) == c.stamp \in Nat /\ c.at \in Nat /\ c.stamp <= c.at

CacheInv ==
  /\ now \in Nat
  /\ DOMAIN thread = Request /\ thread = [r \in Request |-> thread[r]]
  /\ \A r \in Request : Handler(thread[r], now)
  /\ \A k \in DOMAIN cache : Slot(cache[k])

-----------------------------------------------------------------------------
\* The last of a list of times one appends to.
LEMMA LastAppended ==
  ASSUME NEW s \in Seq(Nat), NEW n \in Nat
  PROVE  Append(s, n) \in Seq(Nat) /\ Append(s, n) # <<>> /\ Last(Append(s, n)) = n
PROOF
  <1>1. Append(s, n) \in Seq(Nat) /\ Len(Append(s, n)) = Len(s) + 1 /\ Append(s, n)[Len(s) + 1] = n
    OBVIOUS
  <1>2. Append(s, n) # <<>>
    BY <1>1
  <1> QED BY <1>1, <1>2 DEF Last

\* A record as it is before a request arrives, or after its answer.
LEMMA IdleHandler ==
  ASSUME NEW n \in Nat
  PROVE  /\ Handler(New, n) /\ Handler(Over, n)
         /\ \A q : Handler([New EXCEPT !.pc = "call", !.req = q], n)
PROOF
  <1>1. Handler(New, n)
    BY DEF Handler, New, Field
  <1>2. Handler(Over, n)
    BY DEF Handler, Over, New, Field
  <1>3. ASSUME NEW q PROVE Handler([New EXCEPT !.pc = "call", !.req = q], n)
    BY DEF Handler, New, Field
  <1> QED BY <1>1, <1>2, <1>3

\* A step of one handler that leaves the cache alone.
LEMMA HandlerStep ==
  ASSUME CacheInv, NEW r \in Request, NEW t, Handler(t, now),
         thread' = [thread EXCEPT ![r] = t], now' = now, \A k \in DOMAIN cache' : Slot(cache'[k])
  PROVE  CacheInv'
PROOF
  <1>1. DOMAIN thread' = Request /\ thread' = [q \in Request |-> thread'[q]]
    BY DEF CacheInv
  <1>2. ASSUME NEW q \in Request PROVE Handler(thread'[q], now)
    <2>1. CASE q = r
      BY <2>1 DEF CacheInv
    <2>2. CASE q # r
      BY <2>2 DEF CacheInv
    <2> QED BY <2>1, <2>2
  <1>3. \A q \in Request : Handler(thread[q], now)'
    BY <1>2 DEF Handler
  <1>4. \A k \in DOMAIN cache' : Slot(cache[k])'
    BY DEF Slot
  <1> QED BY <1>1, <1>3, <1>4 DEF CacheInv

\* get_or_compute reads the clock: the thread goes on to look the key up.
LEMMA ReadClockStep ==
  ASSUME CacheInv, NEW r \in Request, ReadClock(r)
  PROVE  CacheInv'
PROOF
  <1> DEFINE th == thread[r]
             t == [th EXCEPT !.pc = "look", !.time = now]
  <1>1. thread' = [thread EXCEPT ![r] = t] /\ now' = now /\ cache' = cache
    BY DEF ReadClock, others
  <1>2. Handler(th, now) /\ now \in Nat /\ \A k \in DOMAIN cache : Slot(cache[k])
    BY DEF CacheInv
  <1> HIDE DEF th
  <1>3. DOMAIN t = Field /\ t.pc = "look" /\ t.time = now /\ t.at = th.at
    BY <1>2 DEF Handler, Field
  <1> HIDE DEF t
  <1>4. Handler(t, now)
    BY <1>2, <1>3 DEF Handler
  <1> QED BY <1>1, <1>2, <1>4, HandlerStep

\* A hit: the value is younger than Ttl by the clock the handler read.
LEMMA HitStep ==
  ASSUME CacheInv, NEW r \in Request, Hit(r)
  PROVE  CacheInv'
PROOF
  <1> DEFINE th == thread[r]
             c == cache[Key(th)]
             t == [th EXCEPT !.pc = "call", !.got = Append(@, c.value), !.at = Append(@, c.at)]
  <1>1. Fresh(th) /\ thread' = [thread EXCEPT ![r] = t] /\ now' = now /\ cache' = cache
    BY DEF Hit, others
  <1>2. Handler(th, now) /\ now \in Nat /\ \A k \in DOMAIN cache : Slot(cache[k])
    BY DEF CacheInv
  <1>3. Slot(c) /\ th.time - c.stamp < Ttl
    BY <1>1, <1>2 DEF Fresh
  <1>4. Ttl \in Nat
    BY ServiceAssumption
  <1> HIDE DEF th, c
  <1>5. DOMAIN t = Field /\ t.pc = "call" /\ t.time = th.time /\ t.at = Append(th.at, c.at)
    BY <1>2 DEF Handler, Field
  <1> HIDE DEF t
  <1>6. t.at \in Seq(Nat) /\ t.at # <<>> /\ Last(t.at) = c.at
    BY <1>2, <1>3, <1>5, LastAppended DEF Handler, Slot
  <1>7. c.at > th.time - Ttl
    BY <1>2, <1>3, <1>4 DEF Handler, Slot
  <1>8. Handler(t, now)
    BY <1>2, <1>5, <1>6, <1>7 DEF Handler
  <1> QED BY <1>1, <1>2, <1>8, HandlerStep

\* A miss: the scan is not older than the clock the handler read.
LEMMA ComputeStep ==
  ASSUME CacheInv, NEW r \in Request, Compute(r)
  PROVE  CacheInv'
PROOF
  <1> DEFINE th == thread[r]
             s == Scan(Key(th))
             t == [th EXCEPT !.pc = "put", !.got = Append(@, s), !.at = Append(@, now)]
  <1>1. thread' = [thread EXCEPT ![r] = t] /\ now' = now /\ cache' = cache
    BY DEF Compute, others
  <1>2. Handler(th, now) /\ now \in Nat /\ \A k \in DOMAIN cache : Slot(cache[k])
    BY DEF CacheInv
  <1>4. Ttl \in Nat /\ Ttl > 0
    BY ServiceAssumption
  <1> HIDE DEF th, s
  <1>5. DOMAIN t = Field /\ t.pc = "put" /\ t.time = th.time /\ t.at = Append(th.at, now)
    BY <1>2 DEF Handler, Field
  <1> HIDE DEF t
  <1>6. t.at \in Seq(Nat) /\ t.at # <<>> /\ Last(t.at) = now
    BY <1>2, <1>5, LastAppended DEF Handler
  <1>8. Handler(t, now)
    BY <1>2, <1>4, <1>5, <1>6 DEF Handler
  <1> QED BY <1>1, <1>2, <1>8, HandlerStep

\* The value computed goes into the cache with the clock read before the scan.
LEMMA PutStep ==
  ASSUME CacheInv, NEW r \in Request, Put(r)
  PROVE  CacheInv'
PROOF
  <1> DEFINE th == thread[r]
             k == ScanKeys(th.req)[Len(th.got)]
             v == Last(th.got)
             c == [stamp |-> th.time, at |-> Last(th.at), value |-> v]
             t == [th EXCEPT !.pc = "call"]
  <1>1. /\ th.pc = "put" /\ thread' = [thread EXCEPT ![r] = t] /\ now' = now
        /\ cache' = [i \in {k} \cup DOMAIN cache |-> IF i = k THEN c ELSE cache[i]]
    BY DEF Put, others, Stamp
  <1>2. Handler(th, now) /\ now \in Nat /\ \A j \in DOMAIN cache : Slot(cache[j])
    BY DEF CacheInv
  <1>3. Ttl \in Nat /\ Ttl > 0
    BY ServiceAssumption
  <1> HIDE DEF th, k, v
  <1>4. Last(th.at) \in Nat /\ Last(th.at) >= th.time /\ th.time \in Nat /\ th.at # <<>>
    BY <1>1, <1>2 DEF Handler, Last
  <1>5. Slot(c)
    BY <1>4 DEF Slot
  <1>6. DOMAIN t = Field /\ t.pc = "call" /\ t.time = th.time /\ t.at = th.at
    BY <1>2 DEF Handler, Field
  <1> HIDE DEF t, c
  <1>7. Handler(t, now)
    BY <1>2, <1>3, <1>4, <1>6 DEF Handler
  <1>8. ASSUME NEW j \in DOMAIN cache' PROVE Slot(cache'[j])
    <2>1. CASE j = k
      BY <1>1, <1>5, <2>1
    <2>2. CASE j # k
      BY <1>1, <1>2, <1>8, <2>2
    <2> QED BY <2>1, <2>2
  <1> QED BY <1>1, <1>2, <1>7, <1>8, HandlerStep

\* The answer is made of what was got.
LEMMA FinishStep ==
  ASSUME CacheInv, NEW r \in Request, Finish(r)
  PROVE  CacheInv'
PROOF
  <1> DEFINE th == thread[r]
  <1>0. PICK a \in Answers(th.req, th.got) : thread' = [thread EXCEPT ![r].pc = "done", ![r].ans = a]
    BY DEF Finish
  <1> DEFINE t == [th EXCEPT !.pc = "done", !.ans = a]
  <1>1. th.pc = "call" /\ thread' = [thread EXCEPT ![r] = t] /\ now' = now /\ cache' = cache
    BY <1>0 DEF Finish, others
  <1>2. Handler(th, now) /\ now \in Nat /\ \A k \in DOMAIN cache : Slot(cache[k])
    BY DEF CacheInv
  <1> HIDE DEF th
  <1>3. DOMAIN t = Field /\ t.pc = "done" /\ t.time = th.time /\ t.at = th.at
    BY <1>2 DEF Handler, Field
  <1> HIDE DEF t
  <1>4. Handler(t, now)
    BY <1>1, <1>2, <1>3 DEF Handler
  <1> QED BY <1>1, <1>2, <1>4, HandlerStep

\* CacheInv is inductive.
LEMMA CacheStep ==
  ASSUME CacheInv, [Next]_vars
  PROVE  CacheInv'
PROOF
  <1>0. now \in Nat /\ \A k \in DOMAIN cache : Slot(cache[k])
    BY DEF CacheInv
  <1>1. ASSUME NEW r \in Request, Arrive(r) PROVE CacheInv'
    <2>1. PICK q \in Query[r] :
            thread' = [thread EXCEPT ![r] = IF CleanParam(q) THEN [New EXCEPT !.pc = "call", !.req = q] ELSE Over]
      BY <1>1 DEF Arrive
    <2>2. now' = now /\ cache' = cache
      BY <1>1 DEF Arrive
    <2> DEFINE called == [New EXCEPT !.pc = "call", !.req = q]
    <2>3. Handler(called, now) /\ Handler(Over, now)
      BY <1>0, IdleHandler
    <2>4. thread' = [thread EXCEPT ![r] = called] \/ thread' = [thread EXCEPT ![r] = Over]
      BY <2>1
    <2> HIDE DEF called
    <2> QED BY <1>0, <2>2, <2>3, <2>4, HandlerStep
  <1>2. ASSUME NEW r \in Request, ComputeFails(r) \/ Reply(r) PROVE CacheInv'
    <2>1. thread' = [thread EXCEPT ![r] = Over] /\ now' = now /\ cache' = cache
      BY <1>2 DEF ComputeFails, Reply, others
    <2> QED BY <1>0, <2>1, IdleHandler, HandlerStep
  <1>3. ASSUME NEW r \in Request, Handle(r) PROVE CacheInv'
    BY <1>2, <1>3, ReadClockStep, HitStep, ComputeStep, PutStep, FinishStep DEF Handle
  <1>4. CASE Tick
    <2>1. now' = now + 1 /\ cache' = cache /\ thread' = thread
      BY <1>4 DEF Tick
    <2>2. \A r \in Request : Handler(thread[r], now)'
      BY <1>0, <2>1 DEF CacheInv, Handler
    <2>3. \A k \in DOMAIN cache' : Slot(cache[k])'
      BY <1>0, <2>1 DEF Slot
    <2>4. now' \in Nat /\ DOMAIN thread' = Request /\ thread' = [r \in Request |-> thread'[r]]
      BY <1>0, <2>1 DEF CacheInv
    <2> QED BY <2>2, <2>3, <2>4 DEF CacheInv
  <1>5. ASSUME UNCHANGED <<now, cache, thread>> PROVE CacheInv'
    BY <1>5 DEF CacheInv, Handler, Slot
  <1>6. CASE FlushBatch \/ WriteEntry \/ WriteFails
    BY <1>5, <1>6 DEF FlushBatch, WriteEntry, WriteFails
  <1>7. CASE UNCHANGED vars
    BY <1>5, <1>7 DEF vars
  <1> QED BY <1>1, <1>3, <1>4, <1>6, <1>7 DEF Next

\* What a request gets was scanned less than CACHE_TTL_SECS before it asked, however
\* long scans take and whichever threads fill the same key: get_or_compute stamps a
\* value with the clock it read before the scan, never later.
THEOREM CacheKeepsTtl == Spec => []NotStale
PROOF
  <1>1. Init => CacheInv
    <2> SUFFICES ASSUME Init PROVE CacheInv
      OBVIOUS
    <2>1. now = 0 /\ cache = <<>> /\ thread = [r \in Request |-> New]
      BY DEF Init
    <2>2. Handler(New, now)
      BY <2>1, IdleHandler
    <2>3. DOMAIN cache = {}
      BY <2>1
    <2> QED BY <2>1, <2>2, <2>3 DEF CacheInv
  <1>2. CacheInv /\ [Next]_vars => CacheInv'
    BY CacheStep
  <1>3. CacheInv => NotStale
    BY DEF CacheInv, Handler, NotStale
  <1> QED BY <1>1, <1>2, <1>3, PTL DEF Spec

-----------------------------------------------------------------------------
(* The operators on sequences and sets that Aggregator is built from        *)

\* A set of numbers has a least one.
LEMMA LeastOf ==
  ASSUME NEW B, B \subseteq Nat, B # {}
  PROVE  \E m \in B : \A i \in B : m <= i
PROOF
  <1>1. PICK m \in B : \A i \in B : ~ (<<i, m>> \in OpToRel(<, Nat))
    BY WFMin, NatLessThanWellFounded
  <1>2. \A i \in B : ~ (i < m)
    BY <1>1 DEF OpToRel
  <1>3. \A i \in B : m <= i
    BY <1>2
  <1> QED BY <1>3

\* A set that has 0 and with every number the next one has them all.
LEMMA AllNumbers ==
  ASSUME NEW G, 0 \in G, \A n \in Nat : n \in G => n + 1 \in G
  PROVE  Nat \subseteq G
PROOF
  <1> DEFINE B == Nat \ G
  <1> SUFFICES ASSUME B # {} PROVE FALSE
    OBVIOUS
  <1>1. PICK m \in B : \A i \in B : m <= i
    <2> B \subseteq Nat
      OBVIOUS
    <2> HIDE DEF B
    <2> QED BY LeastOf
  <1>2. m \in Nat /\ m # 0 /\ m - 1 \in Nat /\ (m - 1) + 1 = m
    OBVIOUS
  <1>3. ~(m <= m - 1)
    BY <1>2
  <1>4. m - 1 \in G
    BY <1>1, <1>2, <1>3
  <1> QED BY <1>2, <1>4

\* The recursion behind FlattenSeq.
IsFlat(s, n, f) == f = [i \in 1 .. n |-> IF i = 1 THEN s[i] ELSE f[i - 1] \o s[i]]

LEMMA FlatExists ==
  ASSUME NEW s, NEW n \in Nat
  PROVE  \E f : IsFlat(s, n, f)
PROOF
  <1> DEFINE G == {k \in Nat : \E f : IsFlat(s, k, f)}
  <1>1. 0 \in G
    <2> DEFINE f == [i \in 1 .. 0 |-> 0]
    <2>1. f = [i \in 1 .. 0 |-> IF i = 1 THEN s[i] ELSE f[i - 1] \o s[i]]
      OBVIOUS
    <2> HIDE DEF f
    <2> QED BY <2>1 DEF IsFlat
  <1>2. ASSUME NEW k \in Nat, k \in G PROVE k + 1 \in G
    <2>1. PICK g : IsFlat(s, k, g)
      BY <1>2
    <2> DEFINE f == [i \in 1 .. k + 1 |-> IF i = 1 THEN s[i] ELSE g[i - 1] \o s[i]]
    <2>2. ASSUME NEW i \in 1 .. k + 1, i # 1 PROVE f[i - 1] = g[i - 1]
      <3>1. i - 1 \in 1 .. k /\ i - 1 \in 1 .. k + 1
        BY <2>2
      <3>2. g[i - 1] = IF i - 1 = 1 THEN s[i - 1] ELSE g[(i - 1) - 1] \o s[i - 1]
        BY <2>1, <3>1 DEF IsFlat
      <3>3. f[i - 1] = IF i - 1 = 1 THEN s[i - 1] ELSE g[(i - 1) - 1] \o s[i - 1]
        BY <3>1
      <3> QED BY <3>2, <3>3
    <2>3. f = [i \in 1 .. k + 1 |-> IF i = 1 THEN s[i] ELSE f[i - 1] \o s[i]]
      <3>1. \A i \in 1 .. k + 1 : f[i] = IF i = 1 THEN s[i] ELSE f[i - 1] \o s[i]
        <4> SUFFICES ASSUME NEW i \in 1 .. k + 1 PROVE f[i] = IF i = 1 THEN s[i] ELSE f[i - 1] \o s[i]
          OBVIOUS
        <4>1. CASE i = 1
          BY <4>1
        <4>2. CASE i # 1
          <5>1. f[i] = g[i - 1] \o s[i]
            BY <4>2
          <5> HIDE DEF f
          <5> QED BY <2>2, <4>2, <5>1
        <4> QED BY <4>1, <4>2
      <3>2. f = [i \in 1 .. k + 1 |-> f[i]]
        OBVIOUS
      <3> HIDE DEF f
      <3> QED BY <3>1, <3>2
    <2> HIDE DEF f
    <2>4. IsFlat(s, k + 1, f)
      BY <2>3 DEF IsFlat
    <2> QED BY <2>4
  <1> HIDE DEF G
  <1>3. n \in G
    BY <1>1, <1>2, AllNumbers
  <1> QED BY <1>3 DEF G

\* Flattening keeps the elements.
LEMMA FlattenType ==
  ASSUME NEW S, NEW s \in Seq(Seq(S))
  PROVE  FlattenSeq(s) \in Seq(S)
PROOF
  <1> DEFINE n == Len(s)
             f == CHOOSE g : IsFlat(s, n, g)
  <1>1. CASE n = 0
    <2>1. s = <<>> /\ FlattenSeq(s) = s
      BY <1>1 DEF FlattenSeq
    <2>2. <<>> \in Seq(S)
      OBVIOUS
    <2> HIDE DEF n, f
    <2> QED BY <2>1, <2>2
  <1>2. CASE n # 0
    <2>1. FlattenSeq(s) = f[n]
      BY <1>2 DEF FlattenSeq, IsFlat
    <2>2. n \in Nat /\ \A i \in 1 .. n : s[i] \in Seq(S)
      OBVIOUS
    <2>3. IsFlat(s, n, f)
      BY <2>2, FlatExists
    <2> HIDE DEF f
    <2>4. \A i \in 1 .. n : f[i] = IF i = 1 THEN s[i] ELSE f[i - 1] \o s[i]
      BY <2>3 DEF IsFlat
    <2> HIDE DEF n
    <2> DEFINE G == {k \in Nat : k \in 1 .. n => f[k] \in Seq(S)}
    <2>5. 0 \in G
      BY <2>2
    <2>6. ASSUME NEW k \in Nat, k \in G PROVE k + 1 \in G
      <3> SUFFICES ASSUME k + 1 \in 1 .. n PROVE f[k + 1] \in Seq(S)
        OBVIOUS
      <3>1. CASE k = 0
        <4>1. f[k + 1] = s[k + 1]
          BY <2>4, <3>1
        <4> QED BY <2>2, <4>1
      <3>2. CASE k # 0
        <4>1. k \in 1 .. n /\ k + 1 # 1 /\ (k + 1) - 1 = k
          BY <2>2, <3>2
        <4>2. f[k] \in Seq(S) /\ s[k + 1] \in Seq(S) /\ f[k + 1] = f[k] \o s[k + 1]
          BY <2>2, <2>4, <2>6, <4>1
        <4> QED BY <4>2
      <3> QED BY <3>1, <3>2
    <2> HIDE DEF G
    <2>7. n \in G
      BY <2>2, <2>5, <2>6, AllNumbers
    <2> QED BY <1>2, <2>1, <2>2, <2>7 DEF G
  <1> QED BY <1>1, <1>2

\* The elements of a finite set as a sequence.
LEMMA SetToSeqType ==
  ASSUME NEW S, IsFiniteSet(S)
  PROVE  SetToSeq(S) \in Seq(S)
PROOF
  <1> DEFINE n == Cardinality(S)
  <1>1. n \in Nat /\ ExistsBijection(1 .. n, S)
    BY FS_CardinalityType
  <1>2. \E f \in [1 .. n -> S] : IsInjective(f)
    BY <1>1 DEF ExistsBijection, Bijection, Injection, IsInjective
  <1>3. SetToSeq(S) \in [1 .. n -> S]
    BY <1>2 DEF SetToSeq
  <1> HIDE DEF n
  <1> QED BY <1>1, <1>3

\* The elements of a sequence are finitely many.
LEMMA RangeFinite ==
  ASSUME NEW S, NEW s \in Seq(S)
  PROVE  IsFiniteSet(ToSet(s)) /\ ToSet(s) \subseteq S
PROOF
  <1>1. DOMAIN s = 1 .. Len(s) /\ Len(s) \in Nat /\ s = [i \in DOMAIN s |-> s[i]]
    OBVIOUS
  <1>2. IsFiniteSet(DOMAIN s)
    <2>1. 1 \in Int /\ Len(s) \in Int
      BY <1>1
    <2> QED BY <1>1, <2>1, FS_Interval
  <1>3. s \in Surjection(DOMAIN s, ToSet(s))
    BY <1>1 DEF Surjection, ToSet
  <1> QED BY <1>2, <1>3, FS_Surjection DEF ToSet

\* How many of I are below i: a number less than their number, greater for greater i.
Below(I, i) == Cardinality({j \in I : j < i})

LEMMA BelowGrows ==
  ASSUME NEW I, I \subseteq Nat, IsFiniteSet(I), NEW i \in I
  PROVE  /\ Below(I, i) \in 0 .. Cardinality(I) - 1
         /\ \A j \in I : i < j => Below(I, i) < Below(I, j)
PROOF
  <1> DEFINE B(k) == {j \in I : j < k}
  <1>1. ASSUME NEW k \in I PROVE B(k) \in SUBSET I /\ IsFiniteSet(B(k)) /\ Cardinality(B(k)) \in Nat
    <2>1. B(k) \in SUBSET I
      OBVIOUS
    <2> HIDE DEF B
    <2>2. IsFiniteSet(B(k))
      BY <2>1, FS_Subset
    <2> QED BY <2>1, <2>2, FS_CardinalityType
  <1>2. i \notin B(i) /\ \A k \in I : Below(I, k) = Cardinality(B(k))
    BY DEF Below
  <1>3. Cardinality(I) \in Nat
    BY FS_CardinalityType
  <1>4. ASSUME NEW j \in I, i < j PROVE B(i) \in SUBSET B(j) /\ i \in B(j)
    <2>1. \A k \in I : k < i => k < j
      <3> SUFFICES ASSUME NEW k \in I, k < i PROVE k < j
        OBVIOUS
      <3>1. k \in Nat /\ i \in Nat /\ j \in Nat
        OBVIOUS
      <3> QED BY <1>4, <3>1
    <2> QED BY <1>4, <2>1
  <1> HIDE DEF B
  <1>5. Cardinality(B(i)) <= Cardinality(I) /\ Cardinality(B(i)) # Cardinality(I)
    <2>1. B(i) # I
      BY <1>2
    <2> QED BY <2>1, <1>1, FS_Subset
  <1>6. Below(I, i) \in 0 .. Cardinality(I) - 1
    BY <1>1, <1>2, <1>3, <1>5
  <1>7. ASSUME NEW j \in I, i < j PROVE Below(I, i) < Below(I, j)
    <2>1. B(i) \in SUBSET B(j) /\ B(i) # B(j)
      BY <1>2, <1>4, <1>7
    <2>2. Cardinality(B(i)) <= Cardinality(B(j)) /\ Cardinality(B(i)) # Cardinality(B(j))
      BY <2>1, <1>1, FS_Subset
    <2> QED BY <2>2, <1>1, <1>2
  <1> QED BY <1>6, <1>7

\* These numbers are all taken, each once.
LEMMA RanksTaken ==
  ASSUME NEW I, I \subseteq Nat, IsFiniteSet(I)
  PROVE  /\ Cardinality(I) \in Nat
         /\ \A i, j \in I : Below(I, i) = Below(I, j) => i = j
         /\ \A m \in 0 .. Cardinality(I) - 1 : \E i \in I : Below(I, i) = m
PROOF
  <1> DEFINE n == Cardinality(I)
             r == [i \in I |-> Below(I, i)]
  <1>1. n \in Nat
    BY FS_CardinalityType
  <1> HIDE DEF n
  <1>2. \A i \in I : Below(I, i) \in 0 .. n - 1
    BY BelowGrows DEF n
  <1>3. \A i, j \in I : Below(I, i) = Below(I, j) => i = j
    <2> SUFFICES ASSUME NEW i \in I, NEW j \in I, i # j PROVE Below(I, i) # Below(I, j)
      OBVIOUS
    <2>1. i < j \/ j < i
      OBVIOUS
    <2>2. Below(I, i) < Below(I, j) \/ Below(I, j) < Below(I, i)
      BY <2>1, BelowGrows
    <2> QED BY <1>1, <1>2, <2>2
  <1>4. r \in [I -> 0 .. n - 1] /\ \A i, j \in I : r[i] = r[j] => i = j
    BY <1>2, <1>3
  <1>5. IsFiniteSet(0 .. n - 1) /\ Cardinality(0 .. n - 1) = n
    <2>1. 0 \in Int /\ n - 1 \in Int /\ n - 1 - 0 + 1 = n /\ (0 > n - 1 <=> n = 0)
      BY <1>1
    <2>2. /\ IsFiniteSet(0 .. n - 1)
          /\ Cardinality(0 .. n - 1) = IF 0 > n - 1 THEN 0 ELSE n - 1 - 0 + 1
      BY <2>1, FS_Interval, Zenon
    <2> QED BY <2>1, <2>2
  <1>6. \A m \in 0 .. n - 1 : \E i \in I : r[i] = m
    <2> HIDE DEF r
    <2>1. r \in Injection(I, 0 .. n - 1)
      BY <1>4 DEF Injection, IsInjective
    <2>2. r \in Surjection(I, 0 .. n - 1)
      BY <1>5, <2>1, FS_Injection DEF n
    <2> QED BY <2>2 DEF Surjection
  <1>7. \A m \in 0 .. n - 1 : \E i \in I : Below(I, i) = m
    BY <1>6
  <1> QED BY <1>1, <1>3, <1>7 DEF n

\* InOrder lists a set of numbers, each once.
LEMMA InOrderLists ==
  ASSUME NEW I, I \subseteq Nat, IsFiniteSet(I)
  PROVE  /\ InOrder(I) \in Seq(I)
         /\ \A k, l \in DOMAIN InOrder(I) : InOrder(I)[k] = InOrder(I)[l] => k = l
PROOF
  <1> DEFINE n == Cardinality(I)
             g == InOrder(I)
  <1>1. n \in Nat
    BY FS_CardinalityType
  <1>2. g = [k \in 1 .. n |-> CHOOSE i \in I : Below(I, i) = k - 1]
    BY DEF InOrder, Below
  <1>3. \A m \in 0 .. n - 1 : \E i \in I : Below(I, i) = m
    BY RanksTaken
  <1> HIDE DEF n, g
  <1>4. ASSUME NEW k \in 1 .. n PROVE g[k] \in I /\ Below(I, g[k]) = k - 1
    <2>1. k - 1 \in 0 .. n - 1
      BY <1>1
    <2>2. \E i \in I : Below(I, i) = k - 1
      BY <1>3, <2>1
    <2> QED BY <2>2, <1>2
  <1>5. g \in [1 .. n -> I]
    BY <1>2, <1>4
  <1>6. \A k, l \in 1 .. n : g[k] = g[l] => k = l
    BY <1>1, <1>4
  <1>7. g \in Seq(I) /\ DOMAIN g = 1 .. n
    BY <1>1, <1>5
  <1> QED BY <1>6, <1>7 DEF g

-----------------------------------------------------------------------------
(* What a flush writes                                                      *)

\* The samples a board can give, <<entity_type, entity_id>>.
Sampled ==
  {<<"champion", <<c>>>> : c \in DOMAIN Cost}
  \cup {<<"champion_item", <<c, i>>>> : c \in DOMAIN Cost, i \in ItemId}
  \cup {<<"item", <<i>>>> : i \in ItemId}
  \cup {<<"augment", <<a>>>> : a \in AugmentId}
  \cup {<<"composition", CompositionLabel(units)>> : units \in Seq(Unit)}

\* The same, by type and id.
Shaped(type, id) ==
  \/ type = "champion" /\ \E c \in DOMAIN Cost : id = <<c>>
  \/ type = "champion_item" /\ \E c \in DOMAIN Cost, i \in ItemId : id = <<c, i>>
  \/ type = "item" /\ \E i \in ItemId : id = <<i>>
  \/ type = "augment" /\ \E a \in AugmentId : id = <<a>>
  \/ type = "composition" /\ \E x : id = <<"comp", x>>

\* An id says its type: the metastore needs no more to keep the types apart.
LEMMA IdSaysType ==
  ASSUME NEW t, NEW u, NEW id, Shaped(t, id), Shaped(u, id)
  PROVE  t = u
PROOF
  <1>1. \A c, i, x : /\ <<c>> # <<i, x>> /\ (<<c>> = <<i>> => c = i)
                     /\ \A y : <<c, i>> = <<x, y>> => c = x
    OBVIOUS
  <1> QED BY <1>1, AggregatorAssumption DEF Shaped

LEMMA SampledShaped ==
  ASSUME NEW p \in Sampled
  PROVE  Shaped(p[1], p[2])
PROOF
  <1>1. ASSUME NEW units, p = <<"composition", CompositionLabel(units)>> PROVE Shaped(p[1], p[2])
    <2>1. \E x : CompositionLabel(units) = <<"comp", x>>
      BY DEF CompositionLabel
    <2> QED BY <1>1, <2>1 DEF Shaped
  <1>2. CASE \E c \in DOMAIN Cost, i \in ItemId : p = <<"champion_item", <<c, i>>>>
    BY <1>2 DEF Shaped
  <1>3. CASE \E c \in DOMAIN Cost : p = <<"champion", <<c>>>>
    BY <1>3 DEF Shaped
  <1>4. CASE \E i \in ItemId : p = <<"item", <<i>>>>
    BY <1>4 DEF Shaped
  <1>5. CASE \E a \in AugmentId : p = <<"augment", <<a>>>>
    BY <1>5 DEF Shaped
  <1> QED BY <1>1, <1>2, <1>3, <1>4, <1>5 DEF Sampled

LEMMA UnitSampled ==
  ASSUME NEW u \in Unit
  PROVE  OfUnit(u) \in Seq(Sampled) /\ u.items \in Seq(ItemId)
PROOF
  <1> DEFINE own == <<<<"champion", <<u.id>>>>>>
             held == [i \in 1 .. Len(u.items) |-> <<"champion_item", <<u.id, u.items[i]>>>>]
  <1>1. u.id \in DOMAIN Cost /\ u.items \in Seq(ItemId)
    BY DEF Unit
  <1>2. <<"champion", <<u.id>>>> \in Sampled
    BY <1>1 DEF Sampled
  <1>3. \A i \in 1 .. Len(u.items) : <<"champion_item", <<u.id, u.items[i]>>>> \in Sampled
    <2> SUFFICES ASSUME NEW i \in 1 .. Len(u.items)
                 PROVE  <<"champion_item", <<u.id, u.items[i]>>>> \in Sampled
      OBVIOUS
    <2>1. u.items[i] \in ItemId
      BY <1>1
    <2> QED BY <1>1, <2>1 DEF Sampled
  <1>4. Len(u.items) \in Nat
    BY <1>1
  <1>5. own \in Seq(Sampled)
    BY <1>2
  <1>6. held \in Seq(Sampled)
    BY <1>3, <1>4
  <1>7. OfUnit(u) = own \o held
    BY DEF OfUnit
  <1> HIDE DEF own, held
  <1> QED BY <1>1, <1>5, <1>6, <1>7

\* process_match adds samples of these kinds only.
LEMMA BoardSampled ==
  ASSUME NEW b \in Board
  PROVE  Added(b) \in Seq(Sampled)
PROOF
  <1>1. b.units \in Seq(Unit) /\ b.augments \in Seq(AugmentId)
    BY DEF Board
  <1> DEFINE n == Len(b.units)
             per == [i \in 1 .. n |-> OfUnit(b.units[i])]
             own == [i \in 1 .. n |-> b.units[i].items]
             aug == [i \in 1 .. Len(b.augments) |-> <<"augment", <<b.augments[i]>>>>]
             comp == <<<<"composition", CompositionLabel(b.units)>>>>
  <1>2. n \in Nat /\ \A i \in 1 .. n : b.units[i] \in Unit
    BY <1>1
  <1>3. FlattenSeq(per) \in Seq(Sampled)
    <2>1. per \in Seq(Seq(Sampled))
      BY <1>2, UnitSampled
    <2> HIDE DEF per
    <2> QED BY <2>1, FlattenType
  <1>4. UnitItems(b.units) \in Seq(ItemId)
    <2>1. own \in Seq(Seq(ItemId))
      BY <1>2, UnitSampled
    <2>2. UnitItems(b.units) = FlattenSeq(own)
      BY DEF UnitItems
    <2> HIDE DEF own
    <2> QED BY <2>1, <2>2, FlattenType
  <1>5. ItemSamples(b.units) \in Seq(Sampled)
    <2> DEFINE on == ToSet(UnitItems(b.units))
               items == SetToSeq(on)
    <2>1. IsFiniteSet(on) /\ on \subseteq ItemId
      BY <1>4, RangeFinite
    <2> HIDE DEF on
    <2>2. items \in Seq(on)
      BY <2>1, SetToSeqType
    <2>3. ItemSamples(b.units) = [i \in 1 .. Len(items) |-> <<"item", <<items[i]>>>>]
      BY DEF ItemSamples, on
    <2> HIDE DEF items
    <2>4. Len(items) \in Nat /\ \A i \in 1 .. Len(items) : items[i] \in ItemId
      BY <2>1, <2>2
    <2>5. \A i \in 1 .. Len(items) : <<"item", <<items[i]>>>> \in Sampled
      BY <2>4 DEF Sampled
    <2> QED BY <2>3, <2>4, <2>5
  <1>6. aug \in Seq(Sampled)
    <2>1. Len(b.augments) \in Nat /\ \A i \in 1 .. Len(b.augments) : b.augments[i] \in AugmentId
      BY <1>1
    <2>2. \A i \in 1 .. Len(b.augments) : <<"augment", <<b.augments[i]>>>> \in Sampled
      BY <2>1 DEF Sampled
    <2> DEFINE n2 == Len(b.augments)
    <2> HIDE DEF n2
    <2>3. n2 \in Nat /\ \A i \in 1 .. n2 : <<"augment", <<b.augments[i]>>>> \in Sampled
      BY <2>1, <2>2 DEF n2
    <2>4. [i \in 1 .. n2 |-> <<"augment", <<b.augments[i]>>>>] \in Seq(Sampled)
      BY <2>3
    <2> QED BY <2>4 DEF n2
  <1>7. comp \in Seq(Sampled)
    <2>1. <<"composition", CompositionLabel(b.units)>> \in Sampled
      BY <1>1 DEF Sampled
    <2> QED BY <2>1
  <1>8. Added(b) = FlattenSeq(per) \o ItemSamples(b.units) \o aug \o comp
    BY DEF Added
  <1> HIDE DEF per, aug, comp
  <1> QED BY <1>3, <1>5, <1>6, <1>7, <1>8

\* A sample with where it is from.
SampleRecs == {[type |-> x[1][1], id |-> x[1][2], place |-> x[2], placement |-> x[3]]
                 : x \in Sampled \X Place \X (1 .. 8)}

LEMMA BatchSampled ==
  ASSUME NEW batch \in Seq(Played)
  PROVE  Samples(batch) \in Seq(SampleRecs)
PROOF
  <1> DEFINE rec(m, b, i) ==
        [type |-> Added(batch[m].boards[b])[i][1], id |-> Added(batch[m].boards[b])[i][2],
         place |-> batch[m].place, placement |-> batch[m].boards[b].placement]
             ofBoard(m, b) == [i \in 1 .. Len(Added(batch[m].boards[b])) |-> rec(m, b, i)]
             boards(m) == [b \in 1 .. Len(batch[m].boards) |-> ofBoard(m, b)]
             matches == [m \in 1 .. Len(batch) |-> FlattenSeq(boards(m))]
  <1>1. Samples(batch) = FlattenSeq(matches)
    BY DEF Samples
  <1>2. Len(batch) \in Nat /\ \A m \in 1 .. Len(batch) : batch[m] \in Played
    OBVIOUS
  <1>3. ASSUME NEW m \in 1 .. Len(batch) PROVE FlattenSeq(boards(m)) \in Seq(SampleRecs)
    <2>1. batch[m].place \in Place /\ batch[m].boards \in Seq(Board)
      BY <1>2 DEF Played
    <2>2. Len(batch[m].boards) \in Nat /\ \A b \in 1 .. Len(batch[m].boards) : batch[m].boards[b] \in Board
      BY <2>1
    <2>3. ASSUME NEW b \in 1 .. Len(batch[m].boards) PROVE ofBoard(m, b) \in Seq(SampleRecs)
      <3> DEFINE board == batch[m].boards[b]
      <3>1. Added(board) \in Seq(Sampled) /\ board.placement \in 1 .. 8
        BY <2>2, <2>3, BoardSampled DEF Board
      <3>2. Len(Added(board)) \in Nat /\ \A i \in 1 .. Len(Added(board)) : Added(board)[i] \in Sampled
        BY <3>1
      <3>3. ASSUME NEW i \in 1 .. Len(Added(board)) PROVE rec(m, b, i) \in SampleRecs
        <4> DEFINE x == <<Added(board)[i], batch[m].place, board.placement>>
        <4>1. x \in Sampled \X Place \X (1 .. 8)
          BY <2>1, <3>1, <3>2, <3>3
        <4>2. x[1] = Added(board)[i] /\ x[2] = batch[m].place /\ x[3] = board.placement
          OBVIOUS
        <4>3. rec(m, b, i) = [type |-> x[1][1], id |-> x[1][2], place |-> x[2], placement |-> x[3]]
          BY <4>2
        <4> HIDE DEF x, rec
        <4> QED BY <4>1, <4>3 DEF SampleRecs
      <3> HIDE DEF rec
      <3> QED BY <3>2, <3>3
    <2> HIDE DEF ofBoard
    <2>4. boards(m) \in Seq(Seq(SampleRecs))
      BY <2>2, <2>3
    <2> HIDE DEF boards
    <2> QED BY <2>4, FlattenType
  <1> HIDE DEF boards
  <1>4. matches \in Seq(Seq(SampleRecs))
    BY <1>2, <1>3
  <1> HIDE DEF matches
  <1> QED BY <1>1, <1>4, FlattenType

EntryField == {"type", "id", "place", "sample", "clock", "win", "avg", "play"}

\* An entry as the processor writes it and the metastore returns it.
EntryOK(e) == DOMAIN e = EntryField /\ Shaped(e.type, e.id) /\ e.sample \in Nat

EntriesOK(s) == \E S : s \in Seq(S) /\ \A e \in S : EntryOK(e)
KeysApart(s) == \A i, j \in DOMAIN s : i # j => EntryKey(s[i]) # EntryKey(s[j])

\* A flush has one entry per key of the metastore, although buffers has the type
\* in its keys and the metastore has not.
LEMMA FlushApart ==
  ASSUME NEW batch \in Seq(Played), NEW n
  PROVE  EntriesOK(Flush(batch, n)) /\ KeysApart(Flush(batch, n))
PROOF
  <1> DEFINE samples == Samples(batch)
             I == Firsts(samples)
             order == InOrder(I)
             entry(i) == StatEntry(batch, samples, i, n)
             F == Flush(batch, n)
  <1>1. samples \in Seq(SampleRecs)
    BY BatchSampled
  <1>2. F = [k \in DOMAIN order |-> entry(order[k])]
    BY DEF Flush
  <1> HIDE DEF samples, F
  <1>3. DOMAIN samples = 1 .. Len(samples) /\ Len(samples) \in Nat /\ IsFiniteSet(DOMAIN samples)
    <2>1. DOMAIN samples = 1 .. Len(samples) /\ Len(samples) \in Nat /\ 1 \in Int /\ Len(samples) \in Int
      BY <1>1
    <2> QED BY <2>1, FS_Interval
  <1>4. I \in SUBSET (DOMAIN samples) /\ I \subseteq Nat /\ IsFiniteSet(I)
    <2>1. I \in SUBSET (DOMAIN samples)
      BY DEF Firsts
    <2> HIDE DEF I
    <2> QED BY <1>3, <2>1, FS_Subset
  <1>5. ASSUME NEW i \in I, NEW j \in I, i # j PROVE SampleKey(samples[i]) # SampleKey(samples[j])
    <2>1. i \in 1 .. j - 1 \/ j \in 1 .. i - 1
      BY <1>3, <1>4, <1>5
    <2> QED BY <2>1, <1>5 DEF Firsts
  <1>6. ASSUME NEW i \in I
        PROVE  /\ Shaped(samples[i].type, samples[i].id)
               /\ entry(i).type = samples[i].type /\ entry(i).id = samples[i].id
               /\ entry(i).place = samples[i].place /\ EntryOK(entry(i))
    <2>1. samples[i] \in SampleRecs
      BY <1>1, <1>4
    <2>2. Shaped(samples[i].type, samples[i].id)
      <3>1. PICK x \in Sampled \X Place \X (1 .. 8) :
              samples[i] = [type |-> x[1][1], id |-> x[1][2], place |-> x[2], placement |-> x[3]]
        BY <2>1 DEF SampleRecs
      <3>2. x[1] \in Sampled
        OBVIOUS
      <3> QED BY <3>1, <3>2, SampledShaped
    <2> DEFINE mine == {j \in DOMAIN samples : SampleKey(samples[j]) = SampleKey(samples[i])}
    <2>3. Cardinality(mine) \in Nat
      <3>1. mine \in SUBSET (DOMAIN samples)
        OBVIOUS
      <3> HIDE DEF mine
      <3> QED BY <1>3, <3>1, FS_Subset, FS_CardinalityType
    <2>4. /\ DOMAIN entry(i) = EntryField /\ entry(i).sample = Cardinality(mine)
          /\ entry(i).type = samples[i].type /\ entry(i).id = samples[i].id
          /\ entry(i).place = samples[i].place
      BY DEF StatEntry, EntryField
    <2> HIDE DEF entry, mine
    <2> QED BY <2>2, <2>3, <2>4 DEF EntryOK
  <1>7. /\ order \in Seq(I) /\ DOMAIN order = 1 .. Len(order) /\ Len(order) \in Nat
        /\ \A k, l \in DOMAIN order : order[k] = order[l] => k = l
    <2> HIDE DEF I
    <2>1. order \in Seq(I) /\ \A k, l \in DOMAIN order : order[k] = order[l] => k = l
      BY <1>4, InOrderLists
    <2> HIDE DEF order
    <2> QED BY <2>1
  <1> HIDE DEF order, I, entry
  <1>8. EntriesOK(F)
    <2> DEFINE S == {entry(i) : i \in I}
    <2>1. F \in Seq(S)
      BY <1>2, <1>7
    <2>2. \A e \in S : EntryOK(e)
      BY <1>6
    <2> HIDE DEF S
    <2> QED BY <2>1, <2>2 DEF EntriesOK
  <1>9. KeysApart(F)
    <2> SUFFICES ASSUME NEW k \in DOMAIN F, NEW l \in DOMAIN F, k # l, EntryKey(F[k]) = EntryKey(F[l])
                 PROVE  FALSE
      BY DEF KeysApart
    <2> DEFINE i == order[k]
               j == order[l]
    <2>1. i \in I /\ j \in I /\ i # j /\ F[k] = entry(i) /\ F[l] = entry(j)
      BY <1>2, <1>7
    <2> HIDE DEF i, j
    <2>2. samples[i].id = samples[j].id /\ samples[i].place = samples[j].place
      BY <1>6, <2>1 DEF EntryKey
    <2>3. samples[i].type = samples[j].type
      BY <1>6, <2>1, <2>2, IdSaysType
    <2> QED BY <1>5, <2>1, <2>2, <2>3 DEF SampleKey
  <1> QED BY <1>8, <1>9 DEF F

\* What halves is never more than halved: the divisor of applyDecay is positive.
IsTwofold(n, f) == f = [k \in 0 .. n |-> IF k = 0 THEN 1 ELSE 2 * f[k - 1]]

LEMMA TwofoldExists ==
  ASSUME NEW n \in Nat
  PROVE  \E f \in [0 .. n -> Nat \ {0}] : IsTwofold(n, f)
PROOF
  <1> DEFINE G == {m \in Nat : \E f \in [0 .. m -> Nat \ {0}] : IsTwofold(m, f)}
  <1>1. 0 \in G
    <2> DEFINE f == [k \in 0 .. 0 |-> 1]
    <2>1. f \in [0 .. 0 -> Nat \ {0}] /\ f = [k \in 0 .. 0 |-> IF k = 0 THEN 1 ELSE 2 * f[k - 1]]
      OBVIOUS
    <2> HIDE DEF f
    <2> QED BY <2>1 DEF IsTwofold
  <1>2. ASSUME NEW m \in Nat, m \in G PROVE m + 1 \in G
    <2>1. PICK g \in [0 .. m -> Nat \ {0}] : IsTwofold(m, g)
      BY <1>2
    <2> DEFINE f == [k \in 0 .. m + 1 |-> IF k = 0 THEN 1 ELSE 2 * g[k - 1]]
    <2>2. \A k \in 0 .. m : f[k] = g[k]
      BY <2>1 DEF IsTwofold
    <2>3. \A k \in 0 .. m + 1 : f[k] = IF k = 0 THEN 1 ELSE 2 * f[k - 1]
      <3> SUFFICES ASSUME NEW k \in 0 .. m + 1 PROVE f[k] = IF k = 0 THEN 1 ELSE 2 * f[k - 1]
        OBVIOUS
      <3>1. f[k] = IF k = 0 THEN 1 ELSE 2 * g[k - 1]
        OBVIOUS
      <3>2. k # 0 => k - 1 \in 0 .. m
        OBVIOUS
      <3> HIDE DEF f
      <3> QED BY <2>2, <3>1, <3>2
    <2>4. f \in [0 .. m + 1 -> Nat \ {0}]
      <3> SUFFICES ASSUME NEW k \in 0 .. m + 1
                   PROVE  (IF k = 0 THEN 1 ELSE 2 * g[k - 1]) \in Nat \ {0}
        OBVIOUS
      <3>1. k # 0 => k - 1 \in 0 .. m
        OBVIOUS
      <3>2. k # 0 => g[k - 1] \in Nat /\ g[k - 1] # 0
        BY <3>1
      <3> QED BY <3>2
    <2>5. f = [k \in 0 .. m + 1 |-> f[k]]
      OBVIOUS
    <2> HIDE DEF f
    <2>6. f = [k \in 0 .. m + 1 |-> IF k = 0 THEN 1 ELSE 2 * f[k - 1]]
      BY <2>3, <2>5
    <2>7. IsTwofold(m + 1, f)
      BY <2>6 DEF IsTwofold
    <2> QED BY <2>4, <2>7
  <1> HIDE DEF G
  <1>3. n \in G
    BY <1>1, <1>2, AllNumbers
  <1> QED BY <1>3 DEF G

LEMMA TwofoldPositive ==
  ASSUME NEW k \in 0 .. MaxTime
  PROVE  Twofold[k] \in Nat /\ Twofold[k] > 0
PROOF
  <1>1. MaxTime \in Nat
    BY ServiceAssumption
  <1>2. Twofold = CHOOSE f : IsTwofold(MaxTime, f)
    BY DEF Twofold, IsTwofold
  <1>3. IsTwofold(MaxTime, Twofold)
    BY <1>1, <1>2, TwofoldExists
  <1> DEFINE T == Twofold
             G == {j \in Nat : j \in 0 .. MaxTime => T[j] \in Nat /\ T[j] > 0}
  <1> HIDE DEF T
  <1>5. \A j \in 0 .. MaxTime : T[j] = IF j = 0 THEN 1 ELSE 2 * T[j - 1]
    BY <1>3 DEF IsTwofold, T
  <1>6. 0 \in G
    BY <1>5
  <1>7. ASSUME NEW j \in Nat, j \in G PROVE j + 1 \in G
    <2> SUFFICES ASSUME j + 1 \in 0 .. MaxTime PROVE T[j + 1] \in Nat /\ T[j + 1] > 0
      OBVIOUS
    <2>1. j \in 0 .. MaxTime /\ j + 1 # 0 /\ (j + 1) - 1 = j
      BY <1>1
    <2>2. T[j] \in Nat /\ T[j] > 0
      BY <1>7, <2>1
    <2>3. T[j + 1] = 2 * T[j]
      BY <1>5, <2>1
    <2> QED BY <2>2, <2>3
  <1> HIDE DEF G
  <1>8. k \in G
    BY <1>6, <1>7, AllNumbers
  <1> QED BY <1>8 DEF G, T

\* A quotient of natural numbers is one, and not above the dividend.
LEMMA Quotient ==
  ASSUME NEW a \in Nat, NEW d \in Nat, d > 0
  PROVE  a \div d \in 0 .. a
OBVIOUS

\* applyDecay leaves an entry an entry of its key.
LEMMA DecayKeeps ==
  ASSUME now \in 0 .. MaxTime, NEW e, EntryOK(e)
  PROVE  EntryOK(ApplyDecay(e)) /\ ApplyDecay(e).type = e.type
PROOF
  <1> DEFINE q == now \div Halving
             n == e.sample \div Twofold[q]
             d == [e EXCEPT !.sample = n]
  <1>1. Halving \in Nat /\ Halving > 0 /\ MaxTime \in Nat
    BY ServiceAssumption
  <1>2. q \in 0 .. MaxTime
    <2>1. now \in Nat
      BY <1>1
    <2>2. q \in 0 .. now
      BY <1>1, <2>1, Quotient
    <2> HIDE DEF q
    <2> QED BY <1>1, <2>2
  <1> HIDE DEF q
  <1>3. n \in Nat
    <2>1. e.sample \in Nat
      BY DEF EntryOK
    <2>2. n \in 0 .. e.sample
      BY <1>2, <2>1, TwofoldPositive, Quotient
    <2> HIDE DEF n
    <2> QED BY <2>1, <2>2
  <1> HIDE DEF n
  <1>4. DOMAIN d = EntryField /\ d.sample = n /\ d.type = e.type /\ d.id = e.id
    BY DEF EntryOK, EntryField
  <1>5. ApplyDecay(e) = d \/ ApplyDecay(e) = e
    BY DEF ApplyDecay, d, n, q
  <1> HIDE DEF d
  <1>6. EntryOK(d)
    BY <1>3, <1>4 DEF EntryOK
  <1> QED BY <1>4, <1>5, <1>6

\* What a scan for a key has in it.
Scanned(s, key) == IsFiniteSet(s) /\ \A e \in s : EntryOK(e) /\ key[1] \in {"", e.type}

LEMMA ScanScanned ==
  ASSUME now \in 0 .. MaxTime, IsFiniteSet(store), \A e \in store : EntryOK(e), NEW key
  PROVE  Scanned(Scan(key), key)
PROOF
  <1> DEFINE M == {e \in store : Matches(e, key)}
             f == [e \in M |-> ApplyDecay(e)]
  <1>1. IsFiniteSet(M)
    <2>1. M \in SUBSET store
      OBVIOUS
    <2> HIDE DEF M
    <2> QED BY <2>1, FS_Subset
  <1>2. IsFiniteSet(Scan(key))
    <2>1. Scan(key) = {ApplyDecay(e) : e \in M}
      BY DEF Scan
    <2> HIDE DEF M
    <2>2. f \in Surjection(M, Scan(key))
      BY <2>1 DEF Surjection
    <2> HIDE DEF f
    <2> QED BY <1>1, <2>2, FS_Surjection
  <1>3. ASSUME NEW d \in Scan(key) PROVE EntryOK(d) /\ key[1] \in {"", d.type}
    <2>1. PICK e \in store : Matches(e, key) /\ d = ApplyDecay(e)
      BY <1>3 DEF Scan
    <2> QED BY <2>1, DecayKeeps DEF Matches
  <1> QED BY <1>2, <1>3 DEF Scanned

-----------------------------------------------------------------------------
(* What the metastore, the cache and the handlers hold                      *)

\* A handler has a query, entries for the keys it has scanned so far and, at the
\* end, an answer made of them.
Asker(th, Q) ==
  /\ DOMAIN th = Field
  /\ th.pc \in {"call", "look", "put", "done"} => th.req \in Q
  /\ \E S : th.got \in Seq(S)
  /\ \A i \in 1 .. Len(th.got) : Scanned(th.got[i], ScanKeys(th.req)[i])
  /\ th.pc = "put" => th.got # <<>>
  /\ th.pc = "done" => Len(th.got) = Len(ScanKeys(th.req)) /\ th.ans \in Answers(th.req, th.got)

StoreInv ==
  /\ now \in 0 .. MaxTime
  /\ EntriesOK(pend) /\ KeysApart(pend)
  /\ IsFiniteSet(store) /\ \A e \in store : EntryOK(e)

AskInv ==
  /\ StoreInv
  /\ \A k \in DOMAIN cache : Scanned(cache[k].value, k)
  /\ DOMAIN thread = Request /\ thread = [r \in Request |-> thread[r]]
  /\ \A r \in Request : Asker(thread[r], Query[r])

LEMMA IdleAsker ==
  ASSUME NEW Q
  PROVE  /\ Asker(New, Q) /\ Asker(Over, Q)
         /\ \A q \in Q : Asker([New EXCEPT !.pc = "call", !.req = q], Q)
PROOF
  <1>0. <<>> \in Seq({}) /\ Len(<<>>) = 0
    OBVIOUS
  <1>1. Asker(New, Q)
    BY <1>0 DEF Asker, New, Field
  <1>2. Asker(Over, Q)
    BY <1>0 DEF Asker, Over, New, Field
  <1>3. ASSUME NEW q \in Q PROVE Asker([New EXCEPT !.pc = "call", !.req = q], Q)
    BY <1>0 DEF Asker, New, Field
  <1> QED BY <1>1, <1>2, <1>3

\* A step of one handler.
LEMMA AskerStep ==
  ASSUME AskInv, NEW r \in Request, NEW t, Asker(t, Query[r]),
         thread' = [thread EXCEPT ![r] = t], UNCHANGED others,
         \A k \in DOMAIN cache' : Scanned(cache'[k].value, k)
  PROVE  AskInv'
PROOF
  <1>1. DOMAIN thread' = Request /\ thread' = [q \in Request |-> thread'[q]]
    BY DEF AskInv
  <1>2. ASSUME NEW q \in Request PROVE Asker(thread'[q], Query[q])
    <2>1. CASE q = r
      BY <2>1 DEF AskInv
    <2>2. CASE q # r
      BY <2>2 DEF AskInv
    <2> QED BY <2>1, <2>2
  <1>3. StoreInv'
    BY DEF AskInv, StoreInv, others, EntriesOK, KeysApart, EntryKey
  <1> QED BY <1>1, <1>2, <1>3 DEF AskInv

LEMMA ReadClockAsks ==
  ASSUME AskInv, NEW r \in Request, ReadClock(r)
  PROVE  AskInv'
PROOF
  <1> DEFINE th == thread[r]
             t == [th EXCEPT !.pc = "look", !.time = now]
  <1>1. th.pc = "call" /\ thread' = [thread EXCEPT ![r] = t] /\ UNCHANGED others /\ cache' = cache
    BY DEF ReadClock
  <1>2. Asker(th, Query[r]) /\ \A k \in DOMAIN cache : Scanned(cache[k].value, k)
    BY DEF AskInv
  <1> HIDE DEF th
  <1>3. DOMAIN t = Field /\ t.pc = "look" /\ t.req = th.req /\ t.got = th.got
    BY <1>2 DEF Asker, Field
  <1> HIDE DEF t
  <1>4. Asker(t, Query[r])
    BY <1>1, <1>2, <1>3 DEF Asker
  <1> QED BY <1>1, <1>2, <1>4, AskerStep

\* One more scan.
LEMMA Appended ==
  ASSUME NEW s, \E S : s \in Seq(S), NEW x
  PROVE  /\ \E S : Append(s, x) \in Seq(S)
         /\ Len(s) \in Nat /\ Len(Append(s, x)) = Len(s) + 1 /\ Append(s, x) # <<>>
         /\ \A i \in 1 .. Len(s) : Append(s, x)[i] = s[i]
         /\ Append(s, x)[Len(s) + 1] = x
PROOF
  <1>1. PICK S : s \in Seq(S)
    OBVIOUS
  <1> DEFINE T == S \cup {x}
  <1>2. s \in Seq(T) /\ x \in T
    BY <1>1
  <1> HIDE DEF T
  <1>3. /\ Append(s, x) \in Seq(T) /\ Len(s) \in Nat /\ Len(Append(s, x)) = Len(s) + 1
        /\ \A i \in 1 .. Len(s) : Append(s, x)[i] = s[i]
        /\ Append(s, x)[Len(s) + 1] = x
    BY <1>2
  <1>4. Append(s, x) # <<>>
    BY <1>3
  <1> QED BY <1>3, <1>4

LEMMA GotMore ==
  ASSUME NEW th, NEW Q, Asker(th, Q), th.pc = "look", NEW v, Scanned(v, Key(th)),
         NEW t, DOMAIN t = Field, t.pc \in {"call", "put"}, t.req = th.req, t.got = Append(th.got, v)
  PROVE  Asker(t, Q)
PROOF
  <1>1. /\ \E S : t.got \in Seq(S)
        /\ Len(th.got) \in Nat /\ Len(t.got) = Len(th.got) + 1 /\ t.got # <<>>
        /\ \A i \in 1 .. Len(th.got) : t.got[i] = th.got[i]
        /\ t.got[Len(th.got) + 1] = v
    <2> DEFINE g == th.got
    <2>1. \E S : g \in Seq(S)
      BY DEF Asker
    <2> HIDE DEF g
    <2>2. /\ \E S : Append(g, v) \in Seq(S)
          /\ Len(g) \in Nat /\ Len(Append(g, v)) = Len(g) + 1 /\ Append(g, v) # <<>>
          /\ \A i \in 1 .. Len(g) : Append(g, v)[i] = g[i]
          /\ Append(g, v)[Len(g) + 1] = v
      BY <2>1, Appended, Zenon
    <2> QED BY <2>2 DEF g
  <1>2. ASSUME NEW i \in 1 .. Len(t.got) PROVE Scanned(t.got[i], ScanKeys(t.req)[i])
    <2>1. CASE i = Len(th.got) + 1
      BY <1>1, <2>1 DEF Key
    <2>2. CASE i \in 1 .. Len(th.got)
      BY <1>1, <2>2 DEF Asker
    <2> QED BY <1>1, <1>2, <2>1, <2>2
  <1> QED BY <1>1, <1>2 DEF Asker

LEMMA HitAsks ==
  ASSUME AskInv, NEW r \in Request, Hit(r)
  PROVE  AskInv'
PROOF
  <1> DEFINE th == thread[r]
             c == cache[Key(th)]
             t == [th EXCEPT !.pc = "call", !.got = Append(@, c.value), !.at = Append(@, c.at)]
  <1>1. th.pc = "look" /\ Fresh(th) /\ thread' = [thread EXCEPT ![r] = t] /\ UNCHANGED others /\ cache' = cache
    BY DEF Hit
  <1>2. Asker(th, Query[r]) /\ \A k \in DOMAIN cache : Scanned(cache[k].value, k)
    BY DEF AskInv
  <1>3. Scanned(c.value, Key(th))
    BY <1>1, <1>2 DEF Fresh
  <1> HIDE DEF th, c
  <1>4. DOMAIN t = Field /\ t.pc = "call" /\ t.req = th.req /\ t.got = Append(th.got, c.value)
    BY <1>2 DEF Asker, Field
  <1> HIDE DEF t
  <1>5. Asker(t, Query[r])
    BY <1>1, <1>2, <1>3, <1>4, GotMore
  <1> QED BY <1>1, <1>2, <1>5, AskerStep

LEMMA ComputeAsks ==
  ASSUME AskInv, NEW r \in Request, Compute(r)
  PROVE  AskInv'
PROOF
  <1> DEFINE th == thread[r]
             s == Scan(Key(th))
             t == [th EXCEPT !.pc = "put", !.got = Append(@, s), !.at = Append(@, now)]
  <1>1. th.pc = "look" /\ thread' = [thread EXCEPT ![r] = t] /\ UNCHANGED others /\ cache' = cache
    BY DEF Compute
  <1>2. Asker(th, Query[r]) /\ \A k \in DOMAIN cache : Scanned(cache[k].value, k)
    BY DEF AskInv
  <1>3. Scanned(s, Key(th))
    BY ScanScanned DEF AskInv, StoreInv
  <1> HIDE DEF th, s
  <1>4. DOMAIN t = Field /\ t.pc = "put" /\ t.req = th.req /\ t.got = Append(th.got, s)
    BY <1>2 DEF Asker, Field
  <1> HIDE DEF t
  <1>5. Asker(t, Query[r])
    BY <1>1, <1>2, <1>3, <1>4, GotMore
  <1> QED BY <1>1, <1>2, <1>5, AskerStep

LEMMA PutAsks ==
  ASSUME AskInv, NEW r \in Request, Put(r)
  PROVE  AskInv'
PROOF
  <1> DEFINE th == thread[r]
             k == ScanKeys(th.req)[Len(th.got)]
             c == [stamp |-> Stamp(th), at |-> Last(th.at), value |-> Last(th.got)]
             t == [th EXCEPT !.pc = "call"]
  <1>1. /\ th.pc = "put" /\ thread' = [thread EXCEPT ![r] = t] /\ UNCHANGED others
        /\ cache' = [i \in {k} \cup DOMAIN cache |-> IF i = k THEN c ELSE cache[i]]
    BY DEF Put
  <1>2. Asker(th, Query[r]) /\ \A j \in DOMAIN cache : Scanned(cache[j].value, j)
    BY DEF AskInv
  <1>3. c.value = th.got[Len(th.got)]
    BY DEF Last
  <1> HIDE DEF th
  <1>4. Scanned(th.got[Len(th.got)], k)
    <2>1. PICK S : th.got \in Seq(S)
      BY <1>2 DEF Asker
    <2>2. th.got # <<>>
      BY <1>1, <1>2 DEF Asker
    <2>3. Len(th.got) \in 1 .. Len(th.got)
      BY <2>1, <2>2
    <2> QED BY <1>2, <2>3 DEF Asker
  <1>5. DOMAIN t = Field /\ t.pc = "call" /\ t.req = th.req /\ t.got = th.got
    BY <1>2 DEF Asker, Field
  <1> HIDE DEF t, c, k
  <1>6. Asker(t, Query[r])
    BY <1>1, <1>2, <1>5 DEF Asker
  <1>7. ASSUME NEW j \in DOMAIN cache' PROVE Scanned(cache'[j].value, j)
    <2>1. CASE j = k
      BY <1>1, <1>3, <1>4, <2>1
    <2>2. CASE j # k
      BY <1>1, <1>2, <1>7, <2>2
    <2> QED BY <2>1, <2>2
  <1> QED BY <1>1, <1>6, <1>7, AskerStep

LEMMA FinishAsks ==
  ASSUME AskInv, NEW r \in Request, Finish(r)
  PROVE  AskInv'
PROOF
  <1> DEFINE th == thread[r]
  <1>0. PICK a \in Answers(th.req, th.got) : thread' = [thread EXCEPT ![r].pc = "done", ![r].ans = a]
    BY DEF Finish
  <1> DEFINE t == [th EXCEPT !.pc = "done", !.ans = a]
  <1>1. /\ th.pc = "call" /\ thread' = [thread EXCEPT ![r] = t] /\ UNCHANGED others /\ cache' = cache
        /\ Len(th.got) = Len(ScanKeys(th.req))
    BY <1>0 DEF Finish
  <1>2. Asker(th, Query[r]) /\ \A k \in DOMAIN cache : Scanned(cache[k].value, k)
    BY DEF AskInv
  <1> HIDE DEF th
  <1>3. DOMAIN t = Field /\ t.pc = "done" /\ t.req = th.req /\ t.got = th.got /\ t.ans = a
    BY <1>2 DEF Asker, Field
  <1> HIDE DEF t
  <1>4. Asker(t, Query[r])
    BY <1>0, <1>1, <1>2, <1>3 DEF Asker
  <1> QED BY <1>1, <1>2, <1>4, AskerStep

\* The processor and the metastore.
LEMMA StoreStep ==
  ASSUME StoreInv, FlushBatch \/ WriteEntry \/ WriteFails \/ Tick
  PROVE  StoreInv'
PROOF
  <1>1. CASE FlushBatch
    <2>1. PICK b \in Batch : flushed' = Append(flushed, b) /\ pend' = Flush(b, Len(flushed'))
      BY <1>1 DEF FlushBatch
    <2>2. b \in Seq(Played)
      BY ServiceAssumption
    <2>3. EntriesOK(Flush(b, Len(flushed'))) /\ KeysApart(Flush(b, Len(flushed')))
      BY <2>2, FlushApart
    <2>4. EntriesOK(pend') /\ KeysApart(pend') /\ now' = now /\ store' = store
      BY <1>1, <2>1, <2>3 DEF FlushBatch
    <2> QED BY <2>4 DEF StoreInv
  <1>2. ASSUME pend # <<>>, pend' = Tail(pend)
        PROVE  EntriesOK(pend') /\ KeysApart(pend') /\ EntryOK(Head(pend))
    <2>1. PICK S : pend \in Seq(S) /\ \A e \in S : EntryOK(e)
      BY DEF StoreInv, EntriesOK
    <2>2. /\ pend' \in Seq(S) /\ Head(pend) \in S
          /\ \A i \in DOMAIN pend' : i + 1 \in DOMAIN pend /\ pend'[i] = pend[i + 1]
          /\ \A i \in DOMAIN pend' : i \in Nat
      BY <1>2, <2>1
    <2>3. KeysApart(pend')
      <3> SUFFICES ASSUME NEW i \in DOMAIN pend', NEW j \in DOMAIN pend', i # j
                   PROVE  EntryKey(pend'[i]) # EntryKey(pend'[j])
        BY DEF KeysApart
      <3>1. i + 1 \in DOMAIN pend /\ j + 1 \in DOMAIN pend /\ i + 1 # j + 1
        BY <2>2
      <3> QED BY <2>2, <3>1 DEF StoreInv, KeysApart
    <2> QED BY <2>1, <2>2, <2>3 DEF EntriesOK
  <1>3. CASE WriteEntry
    <2>1. /\ pend # <<>> /\ pend' = Tail(pend) /\ now' = now
          /\ store' = {e \in store : EntryKey(e) # EntryKey(Head(pend))} \cup {Head(pend)}
      BY <1>3 DEF WriteEntry
    <2> DEFINE kept == {e \in store : EntryKey(e) # EntryKey(Head(pend))}
    <2>2. kept \in SUBSET store
      OBVIOUS
    <2>3. store' = kept \cup {Head(pend)}
      BY <2>1
    <2> HIDE DEF kept
    <2>4. IsFiniteSet(store')
      BY <2>2, <2>3, FS_Subset, FS_AddElement DEF StoreInv
    <2>5. \A e \in store' : EntryOK(e)
      BY <1>2, <2>1, <2>2, <2>3 DEF StoreInv
    <2> QED BY <1>2, <2>1, <2>4, <2>5 DEF StoreInv
  <1>4. CASE WriteFails
    BY <1>2, <1>4 DEF WriteFails, StoreInv
  <1>5. CASE Tick
    <2>1. now < MaxTime /\ now' = now + 1 /\ pend' = pend /\ store' = store
      BY <1>5 DEF Tick
    <2>2. now' \in 0 .. MaxTime
      BY <2>1, ServiceAssumption DEF StoreInv
    <2> QED BY <2>1, <2>2 DEF StoreInv, EntriesOK, KeysApart
  <1> QED BY <1>1, <1>3, <1>4, <1>5

\* AskInv is inductive.
LEMMA AskStep == AskInv /\ [Next]_vars => AskInv'
PROOF
  <1> SUFFICES ASSUME AskInv, [Next]_vars PROVE AskInv'
    OBVIOUS
  <1>0. \A k \in DOMAIN cache : Scanned(cache[k].value, k)
    BY DEF AskInv
  <1>1. ASSUME NEW r \in Request, Arrive(r) PROVE AskInv'
    <2>1. PICK q \in Query[r] :
            thread' = [thread EXCEPT ![r] = IF CleanParam(q) THEN [New EXCEPT !.pc = "call", !.req = q] ELSE Over]
      BY <1>1 DEF Arrive
    <2>2. UNCHANGED others /\ cache' = cache
      BY <1>1 DEF Arrive, others
    <2> DEFINE called == [New EXCEPT !.pc = "call", !.req = q]
    <2>3. Asker(called, Query[r]) /\ Asker(Over, Query[r])
      BY IdleAsker
    <2>4. thread' = [thread EXCEPT ![r] = called] \/ thread' = [thread EXCEPT ![r] = Over]
      BY <2>1
    <2> HIDE DEF called
    <2> QED BY <1>0, <2>2, <2>3, <2>4, AskerStep
  <1>2. ASSUME NEW r \in Request, ComputeFails(r) \/ Reply(r) PROVE AskInv'
    <2>1. thread' = [thread EXCEPT ![r] = Over] /\ UNCHANGED others /\ cache' = cache
      BY <1>2 DEF ComputeFails, Reply
    <2> QED BY <1>0, <2>1, IdleAsker, AskerStep
  <1>3. ASSUME NEW r \in Request, Handle(r) PROVE AskInv'
    BY <1>2, <1>3, ReadClockAsks, HitAsks, ComputeAsks, PutAsks, FinishAsks DEF Handle
  <1>4. CASE FlushBatch \/ WriteEntry \/ WriteFails \/ Tick
    <2>1. StoreInv'
      BY <1>4, StoreStep DEF AskInv
    <2>2. cache' = cache /\ thread' = thread
      BY <1>4 DEF FlushBatch, WriteEntry, WriteFails, Tick
    <2> QED BY <2>1, <2>2 DEF AskInv
  <1>5. CASE UNCHANGED vars
    <2>1. StoreInv'
      BY <1>5 DEF AskInv, StoreInv, vars
    <2> QED BY <1>5, <2>1 DEF AskInv, vars
  <1> QED BY <1>1, <1>3, <1>4, <1>5 DEF Next

LEMMA AskInit == Init => AskInv
PROOF
  <1> SUFFICES ASSUME Init PROVE AskInv
    OBVIOUS
  <1>1. now = 0 /\ pend = <<>> /\ store = {} /\ cache = <<>> /\ thread = [r \in Request |-> New]
    BY DEF Init
  <1>2. <<>> \in Seq({}) /\ DOMAIN <<>> = {}
    OBVIOUS
  <1>3. EntriesOK(pend) /\ KeysApart(pend)
    BY <1>1, <1>2 DEF EntriesOK, KeysApart
  <1>4. StoreInv
    BY <1>1, <1>3, FS_EmptySet, ServiceAssumption DEF StoreInv
  <1> QED BY <1>1, <1>2, <1>4, IdleAsker DEF AskInv

LEMMA AskInvariant == Spec => []AskInv
PROOF
  BY AskInit, AskStep, PTL DEF Spec

\* aggregator.py:32: for any batches, flushes and failed writes, no entry of a flush
\* takes the place of another under the metastore's keys, which have no type, and
\* no id in the metastore is of two types: a composition's prefix keeps it apart.
THEOREM TypesKeptApart == Spec => []TypesApart
PROOF
  <1>1. AskInv => TypesApart
    <2> SUFFICES ASSUME AskInv PROVE TypesApart
      OBVIOUS
    <2>1. \A e, f \in store : e.id = f.id => e.type = f.type
      BY IdSaysType DEF AskInv, StoreInv, EntryOK
    <2> QED BY <2>1 DEF AskInv, StoreInv, KeysApart, TypesApart
  <1> QED BY <1>1, AskInvariant, PTL

-----------------------------------------------------------------------------
(* Sums                                                                     *)

\* The recursion behind SumFunctionOnSet: it takes the elements out one by one.
Pick(s) == CHOOSE x \in s : TRUE
IsSum(g, S, it) ==
  it = [s \in SUBSET S |-> IF s = {} THEN 0 ELSE g[Pick(s)] + it[s \ {Pick(s)}]]

\* The same up to sets of n elements.
Small(S, n) == {s \in SUBSET S : Cardinality(s) <= n}
IsSumTo(g, S, it, n) ==
  it = [s \in Small(S, n) |-> IF s = {} THEN 0 ELSE g[Pick(s)] + it[s \ {Pick(s)}]]

\* Taking the picked element out leaves a smaller set.
LEMMA PickOut ==
  ASSUME NEW S, IsFiniteSet(S), NEW s \in SUBSET S, s # {}
  PROVE  /\ Pick(s) \in s /\ Pick(s) \in S /\ s \ {Pick(s)} \in SUBSET S
         /\ Cardinality(s) \in Nat /\ Cardinality(s \ {Pick(s)}) \in Nat
         /\ Cardinality(s \ {Pick(s)}) = Cardinality(s) - 1
PROOF
  <1>1. Pick(s) \in s
    BY DEF Pick
  <1>2. IsFiniteSet(s)
    BY FS_Subset
  <1>3. IsFiniteSet(s \ {Pick(s)}) /\ Cardinality(s \ {Pick(s)}) = Cardinality(s) - 1
    BY <1>1, <1>2, FS_RemoveElement
  <1> QED BY <1>1, <1>2, <1>3, FS_CardinalityType

\* The recursion has a solution.
LEMMA SumExists ==
  ASSUME NEW g, NEW S, IsFiniteSet(S)
  PROVE  \E it : IsSum(g, S, it)
PROOF
  <1>1. Cardinality(S) \in Nat /\ \A s \in SUBSET S : Cardinality(s) \in Nat /\ Cardinality(s) <= Cardinality(S)
    BY FS_Subset, FS_CardinalityType
  <1> DEFINE Without == {n \in Nat : \A it : ~IsSumTo(g, S, it, n)}
  <1>2. 0 \notin Without
    <2> DEFINE it == [s \in Small(S, 0) |-> 0]
    <2>1. \A s \in Small(S, 0) : s = {}
      <3> SUFFICES ASSUME NEW s \in Small(S, 0) PROVE s = {}
        OBVIOUS
      <3>1. IsFiniteSet(s) /\ Cardinality(s) = 0
        BY <1>1, FS_Subset DEF Small
      <3> QED BY <3>1, FS_EmptySet
    <2>2. it = [s \in Small(S, 0) |-> IF s = {} THEN 0 ELSE g[Pick(s)] + it[s \ {Pick(s)}]]
      BY <2>1
    <2> HIDE DEF it
    <2>3. IsSumTo(g, S, it, 0)
      BY <2>2 DEF IsSumTo
    <2> QED BY <2>3
  <1>3. ASSUME NEW n \in Nat, n \notin Without PROVE n + 1 \notin Without
    <2>1. PICK old : IsSumTo(g, S, old, n)
      BY <1>3
    <2> DEFINE it == [s \in Small(S, n + 1) |->
                        IF s \in Small(S, n) THEN old[s] ELSE g[Pick(s)] + old[s \ {Pick(s)}]]
    <2>2. \A s \in Small(S, n) : s \in Small(S, n + 1)
      BY <1>1 DEF Small
    <2>3. ASSUME NEW s \in Small(S, n + 1)
          PROVE  it[s] = IF s = {} THEN 0 ELSE g[Pick(s)] + it[s \ {Pick(s)}]
      <3>1. s \in SUBSET S /\ Cardinality(s) <= n + 1 /\ Cardinality(s) \in Nat
        BY <1>1 DEF Small
      <3>2. CASE s = {}
        <4>1. s \in Small(S, n)
          BY <3>1, <3>2, FS_EmptySet DEF Small
        <4>2. old[s] = 0
          BY <2>1, <3>2, <4>1 DEF IsSumTo
        <4> QED BY <2>2, <3>2, <4>1, <4>2
      <3>3. CASE s # {}
        <4>1. s \ {Pick(s)} \in Small(S, n)
          BY <3>1, <3>3, PickOut DEF Small
        <4>2. it[s \ {Pick(s)}] = old[s \ {Pick(s)}]
          BY <2>2, <4>1
        <4>3. s \in Small(S, n) => old[s] = g[Pick(s)] + old[s \ {Pick(s)}]
          BY <2>1, <3>3 DEF IsSumTo
        <4> QED BY <3>3, <4>2, <4>3
      <3> QED BY <3>2, <3>3
    <2>4. it = [s \in Small(S, n + 1) |-> IF s = {} THEN 0 ELSE g[Pick(s)] + it[s \ {Pick(s)}]]
      <3>1. it = [s \in Small(S, n + 1) |-> it[s]]
        OBVIOUS
      <3> HIDE DEF it
      <3> QED BY <2>3, <3>1
    <2> HIDE DEF it
    <2>5. IsSumTo(g, S, it, n + 1)
      BY <2>4 DEF IsSumTo
    <2> QED BY <2>5
  <1>4. Without = {}
    <2> SUFFICES ASSUME Without # {} PROVE FALSE
      OBVIOUS
    <2> Without \subseteq Nat
      OBVIOUS
    <2> HIDE DEF Without
    <2>1. PICK m \in Without : \A i \in Without : m <= i
      BY LeastOf
    <2>2. m \in Nat /\ m # 0
      BY <1>2
    <2>3. m - 1 \in Nat /\ m - 1 \notin Without
      BY <2>1, <2>2
    <2>4. (m - 1) + 1 \notin Without
      BY <1>3, <2>3
    <2> QED BY <2>2, <2>4
  <1>5. PICK it : IsSumTo(g, S, it, Cardinality(S))
    BY <1>1, <1>4
  <1>6. Small(S, Cardinality(S)) = SUBSET S
    BY <1>1 DEF Small
  <1> QED BY <1>5, <1>6 DEF IsSumTo, IsSum

Summed(g, S) == CHOOSE it : IsSum(g, S, it)

\* What the folds of the community modules compute, one element at a time.
LEMMA SumIs ==
  ASSUME NEW g, NEW S, IsFiniteSet(S)
  PROVE  /\ SumFunctionOnSet(g, S) = Summed(g, S)[S]
         /\ Summed(g, S)[{}] = 0
         /\ \A s \in SUBSET S : s # {} =>
              Summed(g, S)[s] = g[Pick(s)] + Summed(g, S)[s \ {Pick(s)}]
PROOF
  <1>1. SumFunctionOnSet(g, S) = Summed(g, S)[S]
    BY DEF SumFunctionOnSet, FoldFunctionOnSet, MapThenFoldSet, Summed, IsSum, Pick
  <1>2. IsSum(g, S, Summed(g, S))
    BY SumExists DEF Summed
  <1> HIDE DEF Summed
  <1> DEFINE it == Summed(g, S)
  <1>3. it = [s \in SUBSET S |-> IF s = {} THEN 0 ELSE g[Pick(s)] + it[s \ {Pick(s)}]]
    BY <1>2 DEF IsSum
  <1> HIDE DEF it
  <1>4. it[{}] = 0 /\ \A s \in SUBSET S : s # {} => it[s] = g[Pick(s)] + it[s \ {Pick(s)}]
    BY <1>3
  <1> QED BY <1>1, <1>4 DEF it

\* A sum of natural numbers is one, and not below any of them.
LEMMA SumAbove ==
  ASSUME NEW g, NEW S, IsFiniteSet(S), \A x \in S : g[x] \in Nat
  PROVE  SumFunctionOnSet(g, S) \in Nat /\ \A x \in S : SumFunctionOnSet(g, S) >= g[x]
PROOF
  <1> DEFINE it == Summed(g, S)
             Good(s) == it[s] \in Nat /\ \A x \in s : it[s] >= g[x]
             Bad == {n \in Nat : \E s \in SUBSET S : Cardinality(s) = n /\ ~Good(s)}
  <1>1. \A s \in SUBSET S : Cardinality(s) \in Nat
    BY FS_Subset, FS_CardinalityType
  <1>2. Bad = {}
    <2> SUFFICES ASSUME Bad # {} PROVE FALSE
      OBVIOUS
    <2>1. PICK m \in Bad : \A i \in Bad : m <= i
      <3> Bad \subseteq Nat
        OBVIOUS
      <3> HIDE DEF Bad
      <3> QED BY LeastOf
    <2>2. PICK s \in SUBSET S : Cardinality(s) = m /\ ~Good(s)
      OBVIOUS
    <2>3. s # {}
      <3>1. it[{}] = 0
        BY SumIs
      <3> HIDE DEF it
      <3> QED BY <2>2, <3>1
    <2> DEFINE p == Pick(s)
    <2>4. p \in s /\ p \in S /\ s \ {p} \in SUBSET S /\ Cardinality(s \ {p}) = m - 1
          /\ Cardinality(s \ {p}) \in Nat
      BY <2>2, <2>3, PickOut
    <2>5. Good(s \ {p})
      <3>1. ~(m <= m - 1)
        OBVIOUS
      <3> QED BY <2>1, <2>4, <3>1
    <2>6. it[s] = g[p] + it[s \ {p}]
      BY <2>3, SumIs
    <2> HIDE DEF it, p
    <2>7. g[p] \in Nat /\ \A x \in s : g[x] \in Nat
      BY <2>4
    <2>8. it[s] \in Nat /\ it[s] >= g[p] /\ it[s] >= it[s \ {p}]
      BY <2>5, <2>6, <2>7
    <2>9. ASSUME NEW x \in s PROVE it[s] >= g[x]
      <3>1. CASE x = p
        BY <2>8, <3>1
      <3>2. CASE x \in s \ {p}
        BY <2>5, <2>7, <2>8, <3>2
      <3> QED BY <3>1, <3>2
    <2> QED BY <2>2, <2>8, <2>9
  <1>3. Good(S)
    BY <1>1, <1>2
  <1> QED BY <1>3, SumIs

-----------------------------------------------------------------------------
(* The answers                                                              *)

\* Everything a finished request has scanned.
LEMMA GotEntries ==
  ASSUME NEW th, NEW Q, Asker(th, Q)
  PROVE  /\ IsFiniteSet(UNION ToSet(th.got))
         /\ \A e \in UNION ToSet(th.got) :
              EntryOK(e) /\ \E i \in 1 .. Len(th.got) : ScanKeys(th.req)[i][1] \in {"", e.type}
PROOF
  <1>1. PICK S : th.got \in Seq(S)
    BY DEF Asker
  <1> DEFINE g == th.got
  <1>2. \A i \in 1 .. Len(g) : Scanned(g[i], ScanKeys(th.req)[i])
    BY DEF Asker
  <1>3. IsFiniteSet(ToSet(g))
    BY <1>1, RangeFinite
  <1>4. \A s \in ToSet(g) : \E i \in 1 .. Len(g) : s = g[i]
    BY <1>1 DEF ToSet
  <1> HIDE DEF g
  <1>5. \A s \in ToSet(g) : IsFiniteSet(s)
    BY <1>2, <1>4 DEF Scanned
  <1>6. IsFiniteSet(UNION ToSet(g))
    BY <1>3, <1>5, FS_UNION
  <1>7. \A e \in UNION ToSet(g) :
          EntryOK(e) /\ \E i \in 1 .. Len(g) : ScanKeys(th.req)[i][1] \in {"", e.type}
    BY <1>2, <1>4 DEF Scanned
  <1> QED BY <1>6, <1>7 DEF g

\* The handler of each route.
LEMMA AnswersByRoute ==
  ASSUME NEW q \in Queries, NEW got
  PROVE  LET E == UNION ToSet(got)
         IN  /\ q.op \in {"list", "get", "tiers", "gap", "history", "heatmap"}
             /\ q.op = "list" => Answers(q, got) = ListEntities(q, E)
             /\ q.op = "get" => Answers(q, got) = {GetEntity(q, E)}
             /\ q.op = "tiers" => Answers(q, got) = {TierComparison(q, E)}
             /\ q.op = "gap" => Answers(q, got) = RankGap(q, E)
             /\ q.op = "history" => Answers(q, got) = {PatchHistory(q, E)}
             /\ q.op = "heatmap" => Answers(q, got) = ChampionItemPairs(q, E)
PROOF
  <1>1. q.op \in {"list", "get", "tiers", "gap", "history", "heatmap"}
    BY DEF Queries
  <1> QED BY <1>1 DEF Answers

\* A mean over entries that are each above the floor is.
LEMMA WeightedAbove ==
  ASSUME NEW es, IsFiniteSet(es), es # {}, \A e \in es : e.sample \in Nat /\ e.sample >= MinSample
  PROVE  Weighted(es).sample >= MinSample
PROOF
  <1> DEFINE g == [e \in es |-> e.sample]
  <1>1. DOMAIN g = es /\ \A e \in es : g[e] = e.sample /\ g[e] \in Nat
    OBVIOUS
  <1>2. Weighted(es).sample = SumFunctionOnSet(g, es)
    BY <1>1 DEF Weighted, SumFunction
  <1> HIDE DEF g
  <1>3. SumFunctionOnSet(g, es) \in Nat /\ \A e \in es : SumFunctionOnSet(g, es) >= g[e]
    BY <1>1, SumAbove
  <1>4. PICK e \in es : TRUE
    OBVIOUS
  <1>5. MinSample \in Nat
    BY ServiceAssumption
  <1> QED BY <1>1, <1>2, <1>3, <1>4, <1>5

LEMMA FloorOfRows ==
  ASSUME NEW rows, NEW x \in FloorRows(rows)
  PROVE  x.stat.sample >= MinSample
BY DEF FloorRows

LEMMA FloorOfList ==
  ASSUME NEW q, NEW E, q.type # "augment", NEW ans \in ListEntities(q, E), NEW x \in ans
  PROVE  x.stat.sample >= MinSample
PROOF
  <1>1. x \in FloorRows(AggregateByEntity(SelectTiers(E, q.tiers)))
    BY DEF ListEntities, Tops
  <1> QED BY <1>1, FloorOfRows

LEMMA FloorOfGet ==
  ASSUME NEW q, NEW E, q.type # "augment", NEW x \in GetEntity(q, E)
  PROVE  x.stat.sample >= MinSample
PROOF
  <1>1. x \in FloorRows(AggregateByEntity({e \in SelectTiers(E, q.tiers) : e.id = q.id}))
    BY DEF GetEntity
  <1> QED BY <1>1, FloorOfRows

LEMMA FloorOfHeatmap ==
  ASSUME NEW q, NEW E, NEW ans \in ChampionItemPairs(q, E), NEW x \in ans
  PROVE  x.stat.sample >= MinSample
PROOF
  <1>0. PICK rows : ans \in PairTable(rows)
    BY DEF ChampionItemPairs
  <1>1. \E C, I : ans = PairCells(rows, C, I)
    BY <1>0 DEF PairTable
  <1> QED BY <1>1, FloorOfRows DEF PairCells

\* rank_gap asks the floor of every entry, not of the means.
LEMMA FloorOfGap ==
  ASSUME NEW q, NEW E, IsFiniteSet(E), \A e \in E : EntryOK(e), NEW ans \in RankGap(q, E), NEW x \in ans
  PROVE  x.high.sample >= MinSample /\ x.low.sample >= MinSample
PROOF
  <1> DEFINE of(id, tiers) == {e \in E : Enough(e) /\ e.id = id /\ e.place.tier \in tiers}
             gap(id) == [id |-> id, high |-> Weighted(of(id, HighTier)), low |-> Weighted(of(id, LowTier))]
             rows == {gap(id) : id \in {id \in {e.id : e \in E} : of(id, HighTier) # {} /\ of(id, LowTier) # {}}}
  <1>1. x \in rows
    BY DEF RankGap, Tops
  <1>2. PICK id : x = gap(id) /\ of(id, HighTier) # {} /\ of(id, LowTier) # {}
    BY <1>1
  <1>3. ASSUME NEW tiers, of(id, tiers) # {} PROVE Weighted(of(id, tiers)).sample >= MinSample
    <2> DEFINE es == of(id, tiers)
    <2>1. es \in SUBSET E /\ \A e \in es : e.sample \in Nat /\ e.sample >= MinSample
      BY DEF Enough, EntryOK
    <2>2. es # {}
      BY <1>3
    <2> HIDE DEF es
    <2>3. IsFiniteSet(es)
      BY <2>1, FS_Subset
    <2>4. Weighted(es).sample >= MinSample
      BY <2>1, <2>2, <2>3, WeightedAbove
    <2> QED BY <2>4 DEF es
  <1>4. x.high = Weighted(of(id, HighTier)) /\ x.low = Weighted(of(id, LowTier))
    BY <1>2
  <1> QED BY <1>2, <1>3, <1>4

\* service.py:20, "never serve a stat below this", for any batches, failed writes,
\* decay and cached scans: no list, entity, tier comparison, patch history, heatmap
\* or rank gap has a number over fewer samples than MinSample, augments excepted.
THEOREM NothingBelowFloor == Spec => []FloorKept
PROOF
  <1>1. AskInv => FloorKept
    <2> SUFFICES ASSUME AskInv, NEW r \in Request, thread[r].pc = "done"
                 PROVE  LET q == thread[r].req
                        IN  /\ \/ q.op \in {"list", "get"} /\ q.type # "augment"
                               \/ q.op \in {"tiers", "heatmap"}
                               \/ q.op = "history" /\ q.id # <<>>
                               => \A x \in thread[r].ans : x.stat.sample >= MinSample
                            /\ q.op = "gap" =>
                                 \A x \in thread[r].ans : x.high.sample >= MinSample /\ x.low.sample >= MinSample
      BY DEF FloorKept
    <2> DEFINE th == thread[r]
               q == th.req
               E == UNION ToSet(th.got)
               ans == th.ans
    <2>1. Asker(th, Query[r]) /\ th.pc = "done"
      BY DEF AskInv
    <2> HIDE DEF th
    <2>2. q \in Queries /\ ans \in Answers(q, th.got)
      BY <2>1, ServiceAssumption DEF Asker
    <2>3. IsFiniteSet(E) /\ \A e \in E : EntryOK(e)
      BY <2>1, GotEntries
    <2>4. /\ q.op = "list" => ans \in ListEntities(q, E)
          /\ q.op = "get" => ans = GetEntity(q, E)
          /\ q.op = "tiers" => ans = TierComparison(q, E)
          /\ q.op = "gap" => ans \in RankGap(q, E)
          /\ q.op = "history" => ans = PatchHistory(q, E)
          /\ q.op = "heatmap" => ans \in ChampionItemPairs(q, E)
      <3> DEFINE got == th.got
      <3> HIDE DEF q, ans, got
      <3>1. /\ q.op = "list" => Answers(q, got) = ListEntities(q, UNION ToSet(got))
            /\ q.op = "get" => Answers(q, got) = {GetEntity(q, UNION ToSet(got))}
            /\ q.op = "tiers" => Answers(q, got) = {TierComparison(q, UNION ToSet(got))}
            /\ q.op = "gap" => Answers(q, got) = RankGap(q, UNION ToSet(got))
            /\ q.op = "history" => Answers(q, got) = {PatchHistory(q, UNION ToSet(got))}
            /\ q.op = "heatmap" => Answers(q, got) = ChampionItemPairs(q, UNION ToSet(got))
        BY <2>2, AnswersByRoute
      <3> QED BY <2>2, <3>1 DEF got
    <2> HIDE DEF q, ans, E
    <2>5. ASSUME q.type # "augment", q.op \in {"list", "get"}, NEW x \in ans PROVE x.stat.sample >= MinSample
      BY <2>4, <2>5, FloorOfList, FloorOfGet
    <2>6. ASSUME q.op = "tiers", NEW x \in ans PROVE x.stat.sample >= MinSample
      BY <2>4, <2>6, FloorOfRows DEF TierComparison
    <2>7. ASSUME q.op = "history", q.id # <<>>, NEW x \in ans PROVE x.stat.sample >= MinSample
      BY <2>4, <2>7, FloorOfRows DEF PatchHistory
    <2>8. ASSUME q.op = "heatmap", NEW x \in ans PROVE x.stat.sample >= MinSample
      BY <2>4, <2>8, FloorOfHeatmap
    <2>9. ASSUME q.op = "gap", NEW x \in ans PROVE x.high.sample >= MinSample /\ x.low.sample >= MinSample
      BY <2>3, <2>4, <2>9, FloorOfGap
    <2> QED BY <2>5, <2>6, <2>7, <2>8, <2>9 DEF q, ans, th
  <1> QED BY <1>1, AskInvariant, PTL

-----------------------------------------------------------------------------
(* The list and the single entity                                           *)

\* An image of a finite set is finite.
LEMMA ImageFinite ==
  ASSUME NEW f, NEW D, IsFiniteSet(D), f = [x \in D |-> f[x]]
  PROVE  IsFiniteSet({f[x] : x \in D})
PROOF
  <1>1. f \in Surjection(D, {f[x] : x \in D})
    BY DEF Surjection
  <1> QED BY <1>1, FS_Surjection

\* The rows of some entries: at most one for an id, of that id.
OfId(E, id) == {e \in E : e.id = id}
RowOf(E, id) == Row(id, OfId(E, id))

LEMMA RowsAre ==
  ASSUME NEW E
  PROVE  /\ \A r \in AggregateByEntity(E) : /\ \E e \in E : e.id = r.id
                                            /\ r = RowOf(E, r.id) /\ r.stat.sample # 0
         /\ \A e \in E : RowOf(E, e.id).stat.sample # 0 => RowOf(E, e.id) \in AggregateByEntity(E)
         /\ \A id : RowOf(E, id).id = id
PROOF
  <1> DEFINE all == {Row(id, OfId(E, id)) : id \in {e.id : e \in E}}
  <1>1. AggregateByEntity(E) = {r \in all : r.stat.sample # 0}
    BY DEF AggregateByEntity, OfId
  <1>2. \A id, es : Row(id, es).id = id
    BY DEF Row
  <1>3. ASSUME NEW r \in AggregateByEntity(E)
        PROVE  /\ \E e \in E : e.id = r.id
               /\ r = RowOf(E, r.id) /\ r.stat.sample # 0
    <2>1. PICK e \in E : r = Row(e.id, OfId(E, e.id)) /\ r.stat.sample # 0
      BY <1>1, <1>3
    <2> QED BY <1>2, <2>1 DEF RowOf
  <1>4. ASSUME NEW e \in E, RowOf(E, e.id).stat.sample # 0 PROVE RowOf(E, e.id) \in AggregateByEntity(E)
    BY <1>1, <1>4 DEF RowOf
  <1> QED BY <1>2, <1>3, <1>4 DEF RowOf

\* Choosing the entries of an id first, as get_entity does, gives the row the list has.
LEMMA RowsOfId ==
  ASSUME NEW E, NEW id
  PROVE  AggregateByEntity(OfId(E, id)) = {r \in AggregateByEntity(E) : r.id = id}
PROOF
  <1> DEFINE A == AggregateByEntity(E)
             B == AggregateByEntity(OfId(E, id))
  <1>1. OfId(OfId(E, id), id) = OfId(E, id)
    BY DEF OfId
  <1>2. RowOf(OfId(E, id), id) = RowOf(E, id)
    BY <1>1 DEF RowOf
  <1>3. \A e : e \in OfId(E, id) <=> e \in E /\ e.id = id
    BY DEF OfId
  <1>4. /\ \A r \in A : (\E e \in E : e.id = r.id) /\ r = RowOf(E, r.id) /\ r.stat.sample # 0
        /\ \A e \in E : RowOf(E, e.id).stat.sample # 0 => RowOf(E, e.id) \in A
        /\ \A i : RowOf(E, i).id = i
    BY RowsAre
  <1>5. /\ \A r \in B : (\E e \in OfId(E, id) : e.id = r.id) /\ r = RowOf(OfId(E, id), r.id) /\ r.stat.sample # 0
        /\ \A e \in OfId(E, id) : RowOf(OfId(E, id), e.id).stat.sample # 0 => RowOf(OfId(E, id), e.id) \in B
    BY RowsAre
  <1> HIDE DEF A, B
  <1>6. ASSUME NEW r \in B PROVE r \in A /\ r.id = id
    BY <1>2, <1>3, <1>4, <1>5, <1>6
  <1>7. ASSUME NEW r \in A, r.id = id PROVE r \in B
    BY <1>2, <1>3, <1>4, <1>5, <1>7
  <1> QED BY <1>6, <1>7 DEF A, B

LEMMA RowsFinite ==
  ASSUME NEW E, IsFiniteSet(E)
  PROVE  IsFiniteSet(AggregateByEntity(E))
PROOF
  <1> DEFINE f == [e \in E |-> RowOf(E, e.id)]
             all == {f[e] : e \in E}
  <1>1. f = [e \in E |-> f[e]] /\ \A e \in E : f[e] = RowOf(E, e.id)
    OBVIOUS
  <1> HIDE DEF f
  <1>2. IsFiniteSet(all)
    BY <1>1, ImageFinite
  <1>3. AggregateByEntity(E) \in SUBSET all
    BY <1>1, RowsAre
  <1> HIDE DEF all
  <1> QED BY <1>2, <1>3, FS_Subset

\* rows[:limit]: what is left out is not better, and the limit is reached.
LEMMA TopsCut ==
  ASSUME NEW rows, IsFiniteSet(rows), NEW limit \in Nat, NEW S \in Tops(rows, limit, BetterRow)
  PROVE  /\ S \subseteq rows
         /\ \A x \in rows \ S : Cardinality(S) = limit /\ \A y \in S : ~BetterRow(x, y)
PROOF
  <1> DEFINE n == Cardinality(rows)
  <1>1. n \in Nat
    BY FS_CardinalityType
  <1>2. /\ S \in SUBSET rows /\ Cardinality(S) = Min({limit, n})
        /\ \A y \in S, x \in rows \ S : ~BetterRow(x, y)
    BY DEF Tops
  <1>3. ASSUME NEW x \in rows \ S PROVE Cardinality(S) = limit
    <2>1. Cardinality(S) # n
      BY <1>2, FS_Subset
    <2> HIDE DEF n
    <2>2. Min({limit, n}) \in {limit, n}
      <3>1. \E m \in {limit, n} : \A y \in {limit, n} : m =< y
        BY <1>1
      <3> QED BY <3>1 DEF Min
    <2> QED BY <1>2, <2>1, <2>2
  <1> QED BY <1>2, <1>3

LEMMA ClampType ==
  ASSUME NEW limit \in Int
  PROVE  Clamp(limit) \in Nat
PROOF
  <1> DEFINE m == Min({MaxLimit, limit})
  <1>1. MaxLimit \in Nat
    BY ServiceAssumption
  <1>2. m \in {MaxLimit, limit}
    <2>1. \E x \in {MaxLimit, limit} : \A y \in {MaxLimit, limit} : x =< y
      BY <1>1
    <2> QED BY <2>1 DEF Min
  <1> HIDE DEF m
  <1>3. m \in Int
    BY <1>1, <1>2
  <1>4. \E x \in {1, m} : \A y \in {1, m} : x >= y
    BY <1>3
  <1>5. Max({1, m}) \in {1, m} /\ Max({1, m}) >= 1
    BY <1>4 DEF Max
  <1>6. Max({1, m}) \in Nat
    <2> DEFINE x == Max({1, m})
    <2> HIDE DEF x
    <2>1. x \in {1, m} /\ x >= 1
      BY <1>5 DEF x
    <2>2. x \in Nat
      BY <1>3, <2>1
    <2> QED BY <2>2 DEF x
  <1> QED BY <1>6 DEF Clamp, m

\* What the list chooses from, without a category, and the ids it may have.
Shown(q, E) ==
  IF q.type = "augment" THEN CompleteReferenceEntities(AggregateByEntity(SelectTiers(E, q.tiers)))
  ELSE FloorRows(AggregateByEntity(SelectTiers(E, q.tiers)))
ShownIds(q, E) == {e.id : e \in E} \cup IF q.type = "augment" THEN {<<a>> : a \in Augment} ELSE {}

\* An augment's id names it.
AugmentIds(q, E) == q.type = "augment" => \A e \in E : \E a : e.id = <<a>>

LEMMA OnlyOne == \A i \in 1 .. 1 : i = 1
OBVIOUS

\* get_entity serves the row of the list, the one that has its id.
LEMMA OneOfShown ==
  ASSUME NEW q \in Queries, NEW E, AugmentIds(q, E), NEW id \in ShownIds(q, E)
  PROVE  GetEntity([q EXCEPT !.id = id], E) = {r \in Shown(q, E) : r.id = id}
PROOF
  <1> DEFINE T == SelectTiers(E, q.tiers)
             A == AggregateByEntity(T)
             mine == AggregateByEntity(OfId(T, id))
             p == [q EXCEPT !.id = id]
  <1>1. p.type = q.type /\ p.tiers = q.tiers /\ p.id = id
    BY DEF Queries
  <1> HIDE DEF p
  <1>2. GetEntity(p, E) =
          LET served == IF q.type = "augment" THEN mine ELSE FloorRows(mine)
          IN  IF served = {} /\ q.type = "augment" /\ id[1] \in Augment THEN {EmptyReferenceEntry(id[1])} ELSE served
    BY <1>1 DEF GetEntity, OfId
  <1>3. mine = {r \in A : r.id = id}
    BY RowsOfId
  <1>4. Shown(q, E) = IF q.type = "augment" THEN CompleteReferenceEntities(A) ELSE FloorRows(A)
    BY DEF Shown
  <1> HIDE DEF T, A, mine
  <1>5. CASE q.type # "augment"
    <2>1. GetEntity(p, E) = FloorRows(mine) /\ Shown(q, E) = FloorRows(A)
      BY <1>2, <1>4, <1>5
    <2>2. FloorRows(mine) = {r \in FloorRows(A) : r.id = id}
      BY <1>3 DEF FloorRows
    <2> QED BY <2>1, <2>2 DEF p
  <1>6. CASE q.type = "augment"
    <2>1. PICK a : id = <<a>>
      BY <1>6 DEF ShownIds, AugmentIds
    <2>2. id[1] = a
      BY <2>1
    <2>3. GetEntity(p, E) = IF mine = {} /\ a \in Augment THEN {EmptyReferenceEntry(a)} ELSE mine
      BY <1>2, <1>6, <2>2
    <2>4. \A b : EmptyReferenceEntry(b).id = <<b>>
      BY DEF EmptyReferenceEntry
    <2>5. \A b : <<b>> = <<a>> => b = a
      OBVIOUS
    <2>6. \A r : r \in Shown(q, E) <=>
            \/ r \in A
            \/ \E b \in Augment : (\A s \in A : s.id # <<b>>) /\ r = EmptyReferenceEntry(b)
      <3>1. Shown(q, E) = CompleteReferenceEntities(A)
        BY <1>4, <1>6
      <3> QED BY <3>1 DEF CompleteReferenceEntities
    <2>7. CASE mine = {} /\ a \in Augment
      <3>1. \A s \in A : s.id # <<a>>
        BY <1>3, <2>1, <2>7
      <3>2. \A r : r \in Shown(q, E) /\ r.id = id <=> r = EmptyReferenceEntry(a)
        BY <2>1, <2>4, <2>5, <2>6, <2>7, <3>1
      <3> QED BY <2>3, <2>7, <3>2 DEF p
    <2>8. CASE ~(mine = {} /\ a \in Augment)
      <3>1. \A r : r \in Shown(q, E) /\ r.id = id <=> r \in mine
        BY <1>3, <2>1, <2>4, <2>5, <2>6, <2>8
      <3>2. GetEntity(p, E) = mine
        BY <2>3, <2>8
      <3> QED BY <3>1, <3>2 DEF p
    <2> QED BY <2>7, <2>8
  <1> QED BY <1>5, <1>6

\* The list has one row for an id, of one of these ids, and finitely many.
LEMMA ShownRows ==
  ASSUME NEW q, NEW E, IsFiniteSet(E)
  PROVE  /\ IsFiniteSet(Shown(q, E))
         /\ \A r \in Shown(q, E) : r.id \in ShownIds(q, E)
         /\ \A r, s \in Shown(q, E) : r.id = s.id => r = s
PROOF
  <1> DEFINE T == SelectTiers(E, q.tiers)
             A == AggregateByEntity(T)
  <1>1. T \in SUBSET E
    BY DEF SelectTiers
  <1>2. Shown(q, E) = IF q.type = "augment" THEN CompleteReferenceEntities(A) ELSE FloorRows(A)
    BY DEF Shown
  <1> HIDE DEF T
  <1>3. IsFiniteSet(A)
    BY <1>1, FS_Subset, RowsFinite
  <1>4. \A r \in A : (\E e \in T : e.id = r.id) /\ r = RowOf(T, r.id)
    BY RowsAre
  <1> HIDE DEF A
  <1>5. \A r \in A : r.id \in ShownIds(q, E)
    BY <1>1, <1>4 DEF ShownIds
  <1>6. \A r, s \in A : r.id = s.id => r = s
    BY <1>4
  <1>7. CASE q.type # "augment"
    <2>1. Shown(q, E) \in SUBSET A
      BY <1>2, <1>7 DEF FloorRows
    <2> QED BY <1>3, <1>5, <1>6, <2>1, FS_Subset
  <1>8. CASE q.type = "augment"
    <2> DEFINE f == [a \in Augment |-> EmptyReferenceEntry(a)]
               empty == {f[a] : a \in Augment}
    <2>1. f = [a \in Augment |-> f[a]] /\ \A a \in Augment : f[a] = EmptyReferenceEntry(a)
      OBVIOUS
    <2> HIDE DEF f
    <2>2. IsFiniteSet(empty)
      BY <2>1, ImageFinite, ServiceAssumption
    <2>3. \A r : r \in Shown(q, E) <=>
            \/ r \in A
            \/ \E a \in Augment : (\A s \in A : s.id # <<a>>) /\ r = EmptyReferenceEntry(a)
      <3>1. Shown(q, E) = CompleteReferenceEntities(A)
        BY <1>2, <1>8
      <3> QED BY <3>1 DEF CompleteReferenceEntities
    <2>4. Shown(q, E) \in SUBSET (A \cup empty)
      BY <2>1, <2>3
    <2> HIDE DEF empty
    <2>5. IsFiniteSet(Shown(q, E))
      BY <1>3, <2>2, <2>4, FS_Union, FS_Subset
    <2>6. \A a : EmptyReferenceEntry(a).id = <<a>>
      BY DEF EmptyReferenceEntry
    <2>7. \A a, b : <<a>> = <<b>> => a = b
      OBVIOUS
    <2>8. \A r \in Shown(q, E) : r.id \in ShownIds(q, E)
      BY <1>5, <1>8, <2>3, <2>6 DEF ShownIds
    <2>9. \A r, s \in Shown(q, E) : r.id = s.id => r = s
      BY <1>6, <2>3, <2>6, <2>7
    <2> QED BY <2>5, <2>8, <2>9
  <1> QED BY <1>7, <1>8

\* /meta and /meta/{entity}: for any entries a scan may have, with any order among
\* equals, the list is made of the rows get_entity serves, and leaves out only those
\* the limit cuts behind rows that are not worse.
THEOREM ListAgreesWithGet == Spec => []ListGetAgree
PROOF
  <1>1. AskInv => ListGetAgree
    <2> SUFFICES ASSUME AskInv, NEW r \in Request, Done(r, "list"), thread[r].req.category = ""
                 PROVE  LET q == thread[r].req
                            ans == thread[r].ans
                            one(id) == GetEntity([q EXCEPT !.id = id], Entries(r))
                            ids == {e.id : e \in Entries(r)} \cup IF q.type = "augment" THEN {<<a>> : a \in Augment} ELSE {}
                        IN  /\ ans \subseteq UNION {one(id) : id \in ids}
                            /\ \A id \in ids : \/ one(id) \subseteq ans
                                               \/ /\ Cardinality(ans) = Clamp(q.limit)
                                                  /\ \A x \in one(id), y \in ans : ~BetterRow(x, y)
      BY DEF ListGetAgree
    <2> DEFINE th == thread[r]
               q == th.req
               E == UNION ToSet(th.got)
               ans == th.ans
               one(id) == GetEntity([q EXCEPT !.id = id], E)
               ids == ShownIds(q, E)
               rows == Shown(q, E)
               limit == Clamp(q.limit)
    <2>1. Asker(th, Query[r]) /\ th.pc = "done" /\ q.op = "list" /\ q.category = "" /\ E = Entries(r)
      BY DEF AskInv, Done, Entries
    <2> HIDE DEF th
    <2>2. q \in Queries /\ ans \in Answers(q, th.got)
      BY <2>1, ServiceAssumption DEF Asker
    <2>3. /\ IsFiniteSet(E)
          /\ \A e \in E : EntryOK(e) /\ \E i \in 1 .. Len(th.got) : ScanKeys(q)[i][1] \in {"", e.type}
      BY <2>1, GotEntries
    <2>4. Len(th.got) = 1 /\ ScanKeys(q)[1][1] = q.type
      <3>1. ScanKeys(q) = <<<<q.type, q.patch, q.region>>>>
        BY <2>1 DEF ScanKeys
      <3>2. Len(th.got) = Len(ScanKeys(q))
        BY <2>1 DEF Asker
      <3> DEFINE k == <<q.type, q.patch, q.region>>
      <3>3. k[1] = q.type
        OBVIOUS
      <3> HIDE DEF k
      <3>4. Len(<<k>>) = 1 /\ <<k>>[1] = k
        OBVIOUS
      <3>5. ScanKeys(q) = <<k>>
        BY <3>1 DEF k
      <3> QED BY <3>2, <3>3, <3>4, <3>5
    <2>5. ans \in ListEntities(q, E)
      <3> DEFINE got == th.got
      <3> HIDE DEF q, ans, got
      <3>1. q.op = "list" => Answers(q, got) = ListEntities(q, UNION ToSet(got))
        BY <2>2, AnswersByRoute
      <3> QED BY <2>1, <2>2, <3>1 DEF got
    <2>6. q.limit \in Int
      BY <2>2 DEF Queries
    <2> HIDE DEF q, ans, E
    <2>7. AugmentIds(q, E)
      <3> HIDE DEF one, ids, rows, limit
      <3> SUFFICES ASSUME q.type = "augment", NEW e \in E PROVE \E a : e.id = <<a>>
        BY DEF AugmentIds
      <3>1. e.type = "augment"
        <4>1. PICK i \in 1 .. Len(th.got) : ScanKeys(q)[i][1] \in {"", e.type}
          BY <2>3
        <4>2. i \in 1 .. 1
          BY <2>4
        <4>3. i = 1
          BY <4>2, OnlyOne, Zenon
        <4> QED BY <2>4, <4>1, <4>3
      <3> QED BY <2>3, <3>1 DEF EntryOK, Shaped
    <2>8. ans \in Tops(rows, limit, BetterRow)
      <3>1. q.type = "augment" =>
              {x \in CompleteReferenceEntities(AggregateByEntity(SelectTiers(E, q.tiers))) :
                 q.category \in {"", CategoryOf(x.id)}}
              = CompleteReferenceEntities(AggregateByEntity(SelectTiers(E, q.tiers)))
        BY <2>1
      <3> QED BY <2>5, <3>1 DEF ListEntities, Shown
    <2>9. limit \in Nat
      BY <2>6, ClampType
    <2>10. /\ IsFiniteSet(rows) /\ \A x \in rows : x.id \in ids
           /\ \A x, y \in rows : x.id = y.id => x = y
      BY <2>3, ShownRows
    <2>11. \A id \in ids : one(id) = {x \in rows : x.id = id}
      BY <2>2, <2>7, OneOfShown
    <2> HIDE DEF rows, limit
    <2>12. /\ ans \subseteq rows
           /\ \A x \in rows \ ans : Cardinality(ans) = limit /\ \A y \in ans : ~BetterRow(x, y)
      BY <2>8, <2>9, <2>10, TopsCut
    <2> HIDE DEF ids, one
    <2>13. ans \subseteq UNION {one(id) : id \in ids}
      <3> SUFFICES ASSUME NEW x \in ans PROVE \E id \in ids : x \in one(id)
        OBVIOUS
      <3>1. x \in rows /\ x.id \in ids
        BY <2>10, <2>12
      <3>2. x \in one(x.id)
        BY <2>11, <3>1
      <3> QED BY <3>1, <3>2
    <2>14. ASSUME NEW id \in ids, ~(one(id) \subseteq ans)
           PROVE  Cardinality(ans) = limit /\ \A x \in one(id), y \in ans : ~BetterRow(x, y)
      <3>1. PICK x \in one(id) : x \notin ans
        BY <2>14
      <3>0. \A z \in one(id) : z \in rows /\ z.id = id
        BY <2>11
      <3>2. \A z \in one(id) : z = x
        BY <2>10, <3>0, <3>1
      <3>3. x \in rows \ ans
        BY <2>11, <3>1
      <3> QED BY <2>12, <3>2, <3>3
    <2> QED BY <2>1, <2>13, <2>14 DEF th, q, ans, E, one, ids, limit, ShownIds, Entries
  <1> QED BY <1>1, AskInvariant, PTL

-----------------------------------------------------------------------------
(* Alerts: the z-test                                                       *)

\* Arithmetic of one more observation.
LEMMA OneMoreSquare ==
  ASSUME NEW a \in Int, NEW b \in Int, NEW x \in Int, NEW p \in Int, NEW q \in Int, NEW c \in Int
  PROVE  a * a * (x * x + q) + 2 * a * b * (x + p) + b * b * (c + 1)
           = (a * a * q + 2 * a * b * p + b * b * c) + (a * x + b) * (a * x + b)
OBVIOUS

LEMMA SquareAbove ==
  ASSUME NEW y \in Int, NEW m \in Nat
  PROVE  y * y \in Nat /\ (y >= m => y * y >= m * m)
OBVIOUS

LEMMA LineAbove ==
  ASSUME NEW a \in Nat, NEW b \in Int, NEW m \in Int, NEW r \in Int, NEW x \in Int, a * r + b >= m, x >= r
  PROVE  a * x + b >= m
PROOF
  <1>1. a * (x - r) >= 0
    OBVIOUS
  <1>2. a * (x - r) = a * x - a * r
    OBVIOUS
  <1>3. a * x \in Int /\ a * r \in Int
    OBVIOUS
  <1> QED BY <1>1, <1>2, <1>3

\* A line that is at m or above from r on; and the sum of its squares over c
\* observations, of sum p and sum of squares q, against the k that reach r.
OverLine(a, b, m, r) == a \in Nat /\ b \in Int /\ m \in Nat /\ r \in Nat /\ a * r + b >= m
LineSquares(a, b, p, q, c) == a * a * q + 2 * a * b * p + b * b * c
SquaresReach(a, b, m, p, q, c, k) == p \in Int /\ q \in Int /\ LineSquares(a, b, p, q, c) >= m * m * k

LEMMA NoSquares ==
  ASSUME NEW a, NEW b, NEW m, NEW r, OverLine(a, b, m, r)
  PROVE  SquaresReach(a, b, m, 0, 0, 0, 0)
PROOF
  <1>1. a * a \in Int /\ a * b \in Int /\ b * b \in Int /\ m * m \in Int
    BY DEF OverLine
  <1> QED BY <1>1 DEF OverLine, SquaresReach, LineSquares

LEMMA MoreSquares ==
  ASSUME NEW a, NEW b, NEW m, NEW r, OverLine(a, b, m, r), NEW x \in Nat,
         NEW p, NEW q, NEW c \in Nat, NEW k \in Nat, SquaresReach(a, b, m, p, q, c, k)
  PROVE  SquaresReach(a, b, m, x + p, x * x + q, c + 1, IF x >= r THEN k + 1 ELSE k)
PROOF
  <1> DEFINE y == a * x + b
             old == a * a * q + 2 * a * b * p + b * b * c
             new == a * a * (x * x + q) + 2 * a * b * (x + p) + b * b * (c + 1)
             yy == y * y
             mm == m * m
  <1>0. a \in Nat /\ b \in Int /\ m \in Nat /\ r \in Nat /\ a * r + b >= m /\ p \in Int /\ q \in Int
    BY DEF OverLine, SquaresReach
  <1>1. a \in Int /\ x \in Int /\ c \in Int /\ r \in Int /\ m \in Int
    BY <1>0
  <1>2. new = old + yy
    BY <1>0, <1>1, OneMoreSquare
  <1>3. y \in Int
    BY <1>0
  <1>4. x >= r => y >= m
    BY <1>0, <1>1, LineAbove
  <1>5. yy \in Nat /\ (x >= r => yy >= mm)
    <2> HIDE DEF y
    <2> QED BY <1>0, <1>3, <1>4, SquareAbove
  <1>6. mm \in Nat
    BY <1>0
  <1>7. old \in Int
    <2>1. a * a \in Int /\ a * b \in Int /\ b * b \in Int
      BY <1>0
    <2>2. a * a * q \in Int /\ 2 * a * b * p \in Int /\ b * b * c \in Int
      BY <1>0, <2>1
    <2> QED BY <2>2
  <1>8. old >= mm * k
    BY DEF SquaresReach, LineSquares
  <1>9. x + p \in Int /\ x * x + q \in Int
    <2>1. x * x \in Int
      OBVIOUS
    <2> QED BY <1>0, <2>1
  <1> HIDE DEF y, old, yy, mm, new
  <1>10. mm * (k + 1) = mm * k + mm /\ mm * k \in Int
    BY <1>6
  <1>11. new >= mm * (IF x >= r THEN k + 1 ELSE k)
    BY <1>2, <1>5, <1>6, <1>7, <1>8, <1>10
  <1>12. LineSquares(a, b, x + p, x * x + q, c + 1) >= m * m * (IF x >= r THEN k + 1 ELSE k)
    BY <1>11 DEF new, mm, LineSquares
  <1> QED BY <1>9, <1>12 DEF SquaresReach

Reach(h, s, r) == {i \in s : h[i] >= r}

\* The sum of the squares of (a * x + b) is at least what the observations that
\* reach r contribute to it.
LEMMA SquaresAbove ==
  ASSUME NEW g, NEW sq, NEW S, IsFiniteSet(S), \A x \in S : g[x] \in Nat /\ sq[x] = g[x] * g[x],
         NEW a, NEW b, NEW m, NEW r, OverLine(a, b, m, r)
  PROVE  SquaresReach(a, b, m, SumFunctionOnSet(g, S), SumFunctionOnSet(sq, S), Cardinality(S),
                      Cardinality(Reach(g, S, r)))
PROOF
  <1> DEFINE p == Summed(g, S)
             q == Summed(sq, S)
             Good(s) == SquaresReach(a, b, m, p[s], q[s], Cardinality(s), Cardinality(Reach(g, s, r)))
             Bad == {n \in Nat : \E s \in SUBSET S : Cardinality(s) = n /\ ~Good(s)}
  <1>1. \A s \in SUBSET S : IsFiniteSet(s) /\ Cardinality(s) \in Nat
    BY FS_Subset, FS_CardinalityType
  <1>2. Bad = {}
    <2> SUFFICES ASSUME Bad # {} PROVE FALSE
      OBVIOUS
    <2>1. PICK k \in Bad : \A i \in Bad : k <= i
      <3> Bad \subseteq Nat
        OBVIOUS
      <3> HIDE DEF Bad
      <3> QED BY LeastOf
    <2>2. PICK s \in SUBSET S : Cardinality(s) = k /\ ~Good(s)
      OBVIOUS
    <2>3. s # {}
      <3>1. Cardinality({}) = 0 /\ Reach(g, {}, r) = {}
        BY FS_EmptySet DEF Reach
      <3>2. p[{}] = 0 /\ q[{}] = 0
        BY SumIs
      <3>3. Good({})
        BY <3>1, <3>2, NoSquares
      <3> QED BY <2>2, <3>3
    <2> DEFINE e == Pick(s)
               w == s \ {e}
               K == Cardinality(Reach(g, w, r))
    <2>4. e \in s /\ e \in S /\ w \in SUBSET S /\ Cardinality(w) = k - 1 /\ Cardinality(w) \in Nat /\ k \in Nat
      <3>1. /\ Pick(s) \in s /\ Pick(s) \in S /\ s \ {Pick(s)} \in SUBSET S
            /\ Cardinality(s) \in Nat /\ Cardinality(s \ {Pick(s)}) \in Nat
            /\ Cardinality(s \ {Pick(s)}) = Cardinality(s) - 1
        BY <2>3, PickOut
      <3> QED BY <2>2, <3>1
    <2>5. Good(w)
      <3>1. ~(k <= k - 1)
        OBVIOUS
      <3> HIDE DEF Good, w
      <3> QED BY <2>1, <2>4, <3>1
    <2>6. p[s] = g[e] + p[w]
      <3>1. \A u \in SUBSET S : u # {} => Summed(g, S)[u] = g[Pick(u)] + Summed(g, S)[u \ {Pick(u)}]
        BY SumIs
      <3> HIDE DEF Bad, Good
      <3> QED BY <2>3, <3>1
    <2>7. q[s] = sq[e] + q[w]
      BY <2>3, SumIs
    <2>8. K \in Nat /\ Cardinality(Reach(g, s, r)) = IF g[e] >= r THEN K + 1 ELSE K
      <3> DEFINE V == Reach(g, w, r)
      <3>1. V \in SUBSET S /\ Reach(g, s, r) = (IF g[e] >= r THEN V \cup {e} ELSE V) /\ e \notin V
        BY <2>4 DEF Reach
      <3> HIDE DEF V, e, w
      <3>2. IsFiniteSet(V) /\ Cardinality(V) \in Nat
        BY <1>1, <3>1
      <3>3. Cardinality(V \cup {e}) = Cardinality(V) + 1
        BY <3>1, <3>2, FS_AddElement
      <3> QED BY <3>1, <3>2, <3>3 DEF V
    <2> HIDE DEF p, q, e, w, K
    <2>9. SquaresReach(a, b, m, p[w], q[w], Cardinality(w), K)
      BY <2>5 DEF K
    <2>10. g[e] \in Nat /\ sq[e] = g[e] * g[e] /\ Cardinality(s) = Cardinality(w) + 1
      BY <2>2, <2>4
    <2>11. SquaresReach(a, b, m, g[e] + p[w], g[e] * g[e] + q[w], Cardinality(w) + 1,
                        IF g[e] >= r THEN K + 1 ELSE K)
      BY <2>4, <2>8, <2>9, <2>10, MoreSquares, Zenon
    <2>12. Good(s)
      BY <2>6, <2>7, <2>8, <2>10, <2>11
    <2> HIDE DEF Good
    <2> QED BY <2>2, <2>12
  <1>3. Good(S)
    BY <1>1, <1>2
  <1>4. SumFunctionOnSet(g, S) = p[S] /\ SumFunctionOnSet(sq, S) = q[S]
    BY SumIs
  <1> QED BY <1>3, <1>4

\* A product with a positive factor.
LEMMA Cancels ==
  ASSUME NEW n \in Int, n > 0, NEW x \in Int
  PROVE  /\ n * x >= 0 => x >= 0
         /\ n * x > 0 => x > 0
OBVIOUS

\* The two uses of SquaresAbove, multiplied out: s is the spread of n observations
\* of sum p and sum of squares q.
IsSpread(n, p, q, s) == s \in Int /\ s = n * q - p * p
Centered(n, p, q, s, t) ==
  /\ LineSquares(n, -p, p, q, n) = n * s
  /\ LineSquares(t * n, s - t * p, p, q, n) = n * (s * (t * t + s))

LEMMA CenteredSquares ==
  ASSUME NEW n \in Int, NEW p \in Int, NEW q \in Int, NEW s, IsSpread(n, p, q, s), NEW t \in Int
  PROVE  Centered(n, p, q, s, t)
PROOF
  <1>1. LineSquares(n, -p, p, q, n) = n * s
    BY DEF LineSquares, IsSpread
  <1>2. n * q = s + p * p /\ s \in Int
    BY DEF IsSpread
  <1>3. (t * n) * (t * n) * q = t * t * n * (n * q)
    OBVIOUS
  <1>4. t * t * n * (n * q) = t * t * n * (s + p * p)
    BY <1>2
  <1>5. t * t * n * (s + p * p) + 2 * (t * n) * (s - t * p) * p + (s - t * p) * (s - t * p) * n = n * (s * (t * t + s))
    BY <1>2
  <1> QED BY <1>1, <1>3, <1>4, <1>5 DEF LineSquares, Centered

\* From the bound on the squares to the bound on the number of those who reach r.
LEMMA FewReach ==
  ASSUME NEW n \in Int, n > 0, NEW s \in Int, s >= 0, NEW u \in Int, u > 0, NEW k \in Nat, NEW w \in Nat,
         n * (s * (u + s)) >= (u + s) * (u + s) * k, s = 0 \/ u >= w * s
  PROVE  (w + 1) * k <= n
PROOF
  <1> DEFINE m == u + s
  <1>1. m \in Int /\ m > 0
    OBVIOUS
  <1>2. n * s \in Int /\ m * k \in Int /\ w * s \in Int /\ s * k \in Int /\ (w + 1) * k \in Int
    OBVIOUS
  <1>3. m * (n * s - m * k) >= 0
    <2>1. n * (s * m) = m * (n * s) /\ m * m * k = m * (m * k)
      OBVIOUS
    <2>2. m * (n * s - m * k) = m * (n * s) - m * (m * k) /\ m * (n * s) \in Int /\ m * (m * k) \in Int
      OBVIOUS
    <2>3. n * (s * m) >= m * m * k
      OBVIOUS
    <2> HIDE DEF m
    <2> QED BY <2>1, <2>2, <2>3
  <1>4. n * s - m * k >= 0
    <2> HIDE DEF m
    <2>1. n * s - m * k \in Int
      BY <1>2
    <2> QED BY <1>1, <1>3, <2>1, Cancels
  <1>5. CASE k = 0
    BY <1>5
  <1>6. CASE k # 0 /\ s = 0
    <2>1. n * s = 0 /\ m * k > 0
      BY <1>6
    <2> HIDE DEF m
    <2> QED BY <1>2, <1>4, <2>1
  <1>7. CASE k # 0 /\ s > 0 /\ u >= w * s
    <2>1. m - (w * s + s) >= 0 /\ m - (w * s + s) \in Int
      BY <1>2, <1>7
    <2>2. (m - (w * s + s)) * k >= 0
      <3> DEFINE d == m - (w * s + s)
      <3>1. d \in Int /\ d >= 0
        BY <2>1
      <3> HIDE DEF d
      <3>2. d * k >= 0
        BY <1>7, <3>1
      <3> QED BY <3>2 DEF d
    <2>3. (m - (w * s + s)) * k = m * k - s * ((w + 1) * k)
      BY <1>1
    <2>4. s * ((w + 1) * k) \in Int /\ s * (n - (w + 1) * k) = n * s - s * ((w + 1) * k)
      OBVIOUS
    <2> HIDE DEF m
    <2>5. s * (n - (w + 1) * k) >= 0
      BY <1>2, <1>4, <2>2, <2>3, <2>4
    <2>6. n - (w + 1) * k >= 0
      <3>1. n - (w + 1) * k \in Int
        BY <1>2
      <3> QED BY <1>7, <2>5, <3>1, Cancels
    <2> QED BY <1>2, <2>6
  <1> QED BY <1>5, <1>6, <1>7

\* An alert's rate among the observations it was scored against.
RareIn(h, x) == (ZThreshold * ZThreshold + 1) * Cardinality({i \in DOMAIN h : h[i] >= x}) <= Len(h)

\* The domain of a sequence.
LEMMA DomainCounted ==
  ASSUME NEW S, NEW h \in Seq(S)
  PROVE  DOMAIN h = 1 .. Len(h) /\ Len(h) \in Nat /\ IsFiniteSet(DOMAIN h) /\ Cardinality(DOMAIN h) = Len(h)
PROOF
  <1> DEFINE n == Len(h)
             D == DOMAIN h
  <1>1. D = 1 .. n /\ n \in Nat
    OBVIOUS
  <1> HIDE DEF n, D
  <1>2. n \in Nat /\ 1 \in Int /\ n \in Int /\ n - 1 + 1 = n /\ (1 > n <=> n = 0)
    BY <1>1
  <1>3. IsFiniteSet(1 .. n) /\ Cardinality(1 .. n) = IF 1 > n THEN 0 ELSE n - 1 + 1
    BY <1>2, FS_Interval, Zenon
  <1>4. IsFiniteSet(1 .. n) /\ Cardinality(1 .. n) = n
    BY <1>2, <1>3
  <1> QED BY <1>1, <1>4 DEF n, D

\* Cantelli's inequality, for what Spike compares.
LEMMA SpikeIsRare ==
  ASSUME NEW h \in Seq(Nat), Len(h) > 0, NEW x \in Nat, NEW up, Spike(h, x, up)
  PROVE  RareIn(h, x)
PROOF
  <1> DEFINE n == Len(h)
             p == Total(h)
             q == Squares(h)
             D == DOMAIN h
             sq == [i \in D |-> h[i] * h[i]]
             R == Reach(h, D, x)
             k == Cardinality(R)
             z == ZThreshold
  <1>1. D = 1 .. n /\ n \in Nat /\ IsFiniteSet(D) /\ Cardinality(D) = n
    BY DomainCounted
  <1>2. \A i \in D : h[i] \in Nat /\ sq[i] = h[i] * h[i]
    OBVIOUS
  <1>3. p = SumFunctionOnSet(h, D) /\ q = SumFunctionOnSet(sq, D)
    <2>1. DOMAIN sq = D
      OBVIOUS
    <2> QED BY <2>1 DEF Total, Squares, SumFunction
  <1>4. k \in Nat
    <2>1. R \subseteq D
      BY DEF Reach
    <2> HIDE DEF R, D
    <2> QED BY <1>1, <2>1, FS_Subset, FS_CardinalityType
  <1> HIDE DEF D, sq
  <1>5. ASSUME NEW a, NEW b, NEW m, OverLine(a, b, m, x)
        PROVE  SquaresReach(a, b, m, p, q, n, k)
    <2>1. SquaresReach(a, b, m, SumFunctionOnSet(h, D), SumFunctionOnSet(sq, D), Cardinality(D),
                       Cardinality(Reach(h, D, x)))
      BY <1>1, <1>2, <1>5, SquaresAbove, Zenon
    <2> QED BY <1>1, <1>3, <2>1
  <1>6. z \in Nat /\ z * z \in Nat
    BY AlertsAssumption
  <1>8. p \in Int /\ q \in Int
    <2>1. 0 * x + 0 >= 0
      OBVIOUS
    <2>2. OverLine(0, 0, 0, x)
      BY <2>1 DEF OverLine
    <2> HIDE DEF n, p, q, k
    <2> QED BY <1>5, <2>2 DEF SquaresReach
  <1>7. n * x - p > 0 /\ LET s == n * q - p * p IN s = 0 \/ (n * x - p) * (n * x - p) >= z * z * s
    <2> DEFINE v == n * x - p
               s == n * q - p * p
    <2>1. v > 0 /\ (v * v > z * z * s \/ s = 0 \/ v * v = z * z * s)
      BY DEF Spike, Spread
    <2>0. v \in Int /\ s \in Int /\ z \in Int
      BY <1>1, <1>6, <1>8
    <2> HIDE DEF v, s, z
    <2>2. v > 0 /\ (s = 0 \/ v * v >= z * z * s)
      <3> DEFINE a == v * v
                 b == z * z * s
      <3>0. a \in Int /\ b \in Int
        BY <2>0
      <3>1. a > b \/ s = 0 \/ a = b
        BY <2>1
      <3> HIDE DEF a, b
      <3>2. a >= b \/ s = 0
        BY <3>0, <3>1
      <3> QED BY <2>1, <3>2 DEF a, b
    <2> QED BY <2>2 DEF v, s
  <1>9. n > 0 /\ RareIn(h, x) = ((z * z + 1) * k <= n)
    BY DEF RareIn, Reach, D
  <1> HIDE DEF n, p, q, k, z, R
  <1> DEFINE t == n * x - p
             s == n * q - p * p
             u == t * t
  <1>10. t \in Int /\ t > 0 /\ s \in Int /\ (s = 0 \/ u >= z * z * s)
    <2>1. n * x \in Int /\ n * q \in Int /\ p * p \in Int
      BY <1>1, <1>8
    <2> QED BY <1>7, <1>8, <2>1
  <1>11. /\ LineSquares(n, -p, p, q, n) = n * s
        /\ LineSquares(t * n, s - t * p, p, q, n) = n * (s * (t * t + s))
    <2>1. n \in Int /\ p \in Int /\ q \in Int /\ t \in Int /\ s \in Int /\ s = n * q - p * p
      BY <1>1, <1>8, <1>10
    <2> HIDE DEF t, s
    <2>2. IsSpread(n, p, q, s)
      BY <2>1 DEF IsSpread
    <2>3. Centered(n, p, q, s, t)
      BY <2>1, <2>2, CenteredSquares, Zenon
    <2> QED BY <2>3 DEF Centered
  <1>12. u \in Int /\ u > 0
    <2> HIDE DEF t
    <2> QED BY <1>10
  <1>13. s >= 0
    <2>1. n * x + (-p) >= 0 /\ n \in Nat /\ -p \in Int
      <3>1. n * x \in Int
        BY <1>1
      <3> QED BY <1>1, <1>8, <1>10, <3>1
    <2>2. OverLine(n, -p, 0, x)
      BY <2>1 DEF OverLine
    <2>3. LineSquares(n, -p, p, q, n) >= 0 * 0 * k
      BY <1>5, <2>2 DEF SquaresReach
    <2>4. LineSquares(n, -p, p, q, n) = n * s
      BY <1>11
    <2> HIDE DEF s
    <2>5. n * s >= 0
      BY <1>4, <2>3, <2>4
    <2> QED BY <1>1, <1>9, <1>10, <2>5, Cancels
  <1>14. n * (s * (u + s)) >= (u + s) * (u + s) * k
    <2>1. LineSquares(t * n, s - t * p, p, q, n) = n * (s * (t * t + s))
      BY <1>11
    <2>2. (t * n) * x + (s - t * p) = u + s
      <3>1. t * (n * x - p) = (t * n) * x - t * p
        BY <1>1, <1>8, <1>10
      <3>2. (t * n) * x \in Int /\ t * p \in Int
        BY <1>1, <1>8, <1>10
      <3>3. u = (t * n) * x - t * p
        BY <3>1
      <3> HIDE DEF t, s, u
      <3> QED BY <1>10, <3>2, <3>3
    <2> HIDE DEF t, s
    <2>3. t * n \in Nat /\ s - t * p \in Int /\ u + s \in Nat
      <3>1. t * n \in Nat
        BY <1>1, <1>10
      <3>2. t * p \in Int
        BY <1>8, <1>10
      <3> HIDE DEF u
      <3> QED BY <1>10, <1>12, <1>13, <3>1, <3>2
    <2>4. (t * n) * x + (s - t * p) >= u + s
      BY <2>2, <2>3
    <2>5. OverLine(t * n, s - t * p, u + s, x)
      BY <2>3, <2>4 DEF OverLine
    <2>6. LineSquares(t * n, s - t * p, p, q, n) >= (u + s) * (u + s) * k
      BY <1>5, <2>5 DEF SquaresReach
    <2> QED BY <2>1, <2>6
  <1> DEFINE w == z * z
  <1>15. w \in Nat /\ (s = 0 \/ u >= w * s)
    BY <1>6, <1>10
  <1>16. (w + 1) * k <= n
    <2>1. n \in Int /\ n > 0 /\ s \in Int /\ s >= 0 /\ u \in Int /\ u > 0 /\ k \in Nat /\ w \in Nat
      BY <1>1, <1>4, <1>9, <1>10, <1>12, <1>13, <1>15
    <2> HIDE DEF w, u, s
    <2> QED BY <2>1, <1>14, <1>15, FewReach, Zenon
  <1> QED BY <1>9, <1>16

-----------------------------------------------------------------------------
(* Alerts: what a pass finds                                                *)

\* What the window of a series may hold.
Observed == {h \in Seq(Nat) : Len(h) <= Window}

\* A spike: rare among as many observations as the detector asks for.
Tag == {"none", "cross_rank", "tier_specific"}
SpikeRec ==
  [key : ToSet(Keys), rate : Nat, hist : Seq(Nat), time : Nat, class : Tag, among : SUBSET STRING]
Found == {a \in SpikeRec : Len(a.hist) \in MinHistory .. Window /\ RareIn(a.hist, a.rate)}
Alert == {a \in Found : a.class # "none"}

\* The keys a pass has data of, and the spikes it may find.
WithData == {Keys[i] : i \in {i \in DOMAIN Keys : EnoughSample(i)}}
Finding == {a \in Found : a.time = passes /\ a.key \in WithData}

\* What run_once has after some keys.
Partial == [history : [Series -> Observed], spikes : Seq(Finding)]

\* Variables of the detector.
DetectorInv ==
  /\ stats \in [DOMAIN Keys -> Stat \cup {NoStat}]
  /\ history \in [Series -> Observed] /\ passes \in Nat

LEMMA MaxOfTwo ==
  ASSUME NEW a \in Int, NEW b \in Int
  PROVE  Max({a, b}) = IF a >= b THEN a ELSE b
BY DEF Max

LEMMA MinOfTwo ==
  ASSUME NEW a \in Int, NEW b \in Int
  PROVE  Min({a, b}) = IF a <= b THEN a ELSE b
BY DEF Min

LEMMA SlidObserved ==
  ASSUME NEW h \in Observed, NEW x \in Nat
  PROVE  Slid(h, x) \in Observed
PROOF
  <1> DEFINE all == Append(h, x)
             n == Len(all)
             lo == IF 1 >= n - Window + 1 THEN 1 ELSE n - Window + 1
  <1>1. all \in Seq(Nat) /\ n \in Nat /\ n >= 1 /\ Window \in Nat /\ Window > 0
    BY AlertsAssumption DEF Observed
  <1> HIDE DEF all, n
  <1>2. Max({1, n - Window + 1}) = lo
    BY <1>1, MaxOfTwo
  <1>3. Slid(h, x) = SubSeq(all, lo, n)
    BY <1>2 DEF Slid, all, n
  <1>4. lo \in 1 .. n /\ n - lo + 1 <= Window /\ lo \in Nat
    BY <1>1
  <1> HIDE DEF lo
  <1>5. SubSeq(all, lo, n) \in Seq(Nat) /\ Len(SubSeq(all, lo, n)) = n - lo + 1
    BY <1>1, <1>4 DEF n
  <1> QED BY <1>3, <1>4, <1>5 DEF Observed

LEMMA CheckFinds ==
  ASSUME DetectorInv, NEW acc \in Partial, NEW i \in DOMAIN Keys, NEW up
  PROVE  Check(acc, i, up) \in Partial
PROOF
  <1> DEFINE s == <<Keys[i].entity, Keys[i].tier>>
             h == acc.history[s]
             x == stats[i].rate
             spike == [key |-> Keys[i], rate |-> x, hist |-> h, time |-> passes, class |-> "none", among |-> {}]
             hs == [acc.history EXCEPT ![s] = Slid(h, x)]
             sp == IF Len(h) >= MinHistory /\ Spike(h, x, i \in up) THEN Append(acc.spikes, spike) ELSE acc.spikes
  <1>1. CASE ~EnoughSample(i)
    BY <1>1 DEF Check
  <1>2. CASE EnoughSample(i)
    <2>1. Keys[i] \in ToSet(Keys) /\ s \in Series
      BY DEF ToSet, Series
    <2>2. acc.history \in [Series -> Observed] /\ acc.spikes \in Seq(Finding)
      BY DEF Partial
    <2>3. h \in Observed
      BY <2>1, <2>2
    <2>4. x \in Nat
      <3>1. stats[i] \in Stat
        BY <1>2 DEF EnoughSample, DetectorInv
      <3> QED BY <3>1, AlertsAssumption
    <2>5. Keys[i] \in WithData
      BY <1>2 DEF WithData
    <2> HIDE DEF s, h, x
    <2>6. hs \in [Series -> Observed]
      <3>1. Slid(h, x) \in Observed
        BY <2>3, <2>4, SlidObserved
      <3> QED BY <2>1, <2>2, <3>1
    <2>7. ASSUME Len(h) >= MinHistory, Spike(h, x, i \in up) PROVE spike \in Finding
      <3>1. h \in Seq(Nat) /\ Len(h) <= Window /\ MinHistory \in Nat /\ Window \in Nat /\ MinHistory > 0
        BY <2>3, AlertsAssumption DEF Observed
      <3>2. Len(h) \in MinHistory .. Window /\ Len(h) > 0
        BY <2>7, <3>1
      <3>3. RareIn(h, x)
        BY <2>4, <2>7, <3>1, <3>2, SpikeIsRare
      <3>4. passes \in Nat
        BY DEF DetectorInv
      <3> DEFINE k == Keys[i]
                 K == ToSet(Keys)
                 no == {}
                 none == "none"
      <3>5. k \in K /\ no \in SUBSET STRING
        BY <2>1
      <3>6. none \in Tag
        BY DEF Tag
      <3>7. spike \in SpikeRec
        <4> SUFFICES [key |-> k, rate |-> x, hist |-> h, time |-> passes, class |-> none, among |-> no]
                       \in [key : K, rate : Nat, hist : Seq(Nat), time : Nat, class : Tag, among : SUBSET STRING]
          BY DEF SpikeRec
        <4> HIDE DEF k, K, no, none
        <4> QED BY <2>4, <3>1, <3>4, <3>5, <3>6
      <3>8. spike.hist = h /\ spike.rate = x /\ spike.time = passes /\ spike.key = Keys[i]
        OBVIOUS
      <3> HIDE DEF spike
      <3>9. spike \in Found
        BY <3>2, <3>3, <3>7, <3>8 DEF Found
      <3> QED BY <2>5, <3>8, <3>9 DEF Finding
    <2> HIDE DEF spike
    <2>8. sp \in Seq(Finding)
      BY <2>2, <2>7
    <2>9. Check(acc, i, up) = [history |-> hs, spikes |-> sp]
      BY <1>2 DEF Check, s, h, x, spike
    <2> HIDE DEF hs, sp
    <2> QED BY <2>6, <2>8, <2>9 DEF Partial
  <1> QED BY <1>1, <1>2

\* The recursion of the pass.
IsScored(n, start, order, up, f) ==
  f = [i \in 0 .. n |-> IF i = 0 THEN start ELSE Check(f[i - 1], order[i], up)]

LEMMA ScoredExists ==
  ASSUME NEW n \in Nat, NEW start, NEW order, NEW up
  PROVE  \E f : IsScored(n, start, order, up, f)
PROOF
  <1> DEFINE G == {m \in Nat : \E f : IsScored(m, start, order, up, f)}
  <1>1. 0 \in G
    <2> DEFINE f == [k \in 0 .. 0 |-> start]
    <2>1. f = [k \in 0 .. 0 |-> IF k = 0 THEN start ELSE Check(f[k - 1], order[k], up)]
      OBVIOUS
    <2> HIDE DEF f
    <2> QED BY <2>1 DEF IsScored
  <1>2. ASSUME NEW m \in Nat, m \in G PROVE m + 1 \in G
    <2>1. PICK g : IsScored(m, start, order, up, g)
      BY <1>2
    <2> DEFINE f == [k \in 0 .. m + 1 |-> IF k = 0 THEN start ELSE Check(g[k - 1], order[k], up)]
    <2>2. \A k \in 0 .. m : f[k] = g[k]
      BY <2>1 DEF IsScored
    <2>3. \A k \in 0 .. m + 1 : f[k] = IF k = 0 THEN start ELSE Check(f[k - 1], order[k], up)
      <3> SUFFICES ASSUME NEW k \in 0 .. m + 1
                   PROVE  f[k] = IF k = 0 THEN start ELSE Check(f[k - 1], order[k], up)
        OBVIOUS
      <3>1. f[k] = IF k = 0 THEN start ELSE Check(g[k - 1], order[k], up)
        OBVIOUS
      <3>2. k # 0 => k - 1 \in 0 .. m
        OBVIOUS
      <3> HIDE DEF f
      <3> QED BY <2>2, <3>1, <3>2
    <2>4. f = [k \in 0 .. m + 1 |-> f[k]]
      OBVIOUS
    <2> HIDE DEF f
    <2>5. f = [k \in 0 .. m + 1 |-> IF k = 0 THEN start ELSE Check(f[k - 1], order[k], up)]
      BY <2>3, <2>4
    <2>6. IsScored(m + 1, start, order, up, f)
      BY <2>5 DEF IsScored
    <2> QED BY <2>6
  <1> HIDE DEF G
  <1>3. n \in G
    BY <1>1, <1>2, AllNumbers
  <1> QED BY <1>3 DEF G

\* The pass over all keys.
LEMMA ScoredFinds ==
  ASSUME DetectorInv, NEW order \in ScanOrders, NEW up
  PROVE  Scored(order, up) \in Partial
PROOF
  <1> DEFINE n == Len(Keys)
             start == [history |-> history, spikes |-> <<>>]
             f == CHOOSE g : IsScored(n, start, order, up, g)
  <1>1. n \in Nat /\ DOMAIN Keys = 1 .. n
    BY AlertsAssumption
  <1>2. Scored(order, up) = f[n]
    BY DEF Scored, IsScored
  <1>3. IsScored(n, start, order, up, f)
    BY <1>1, ScoredExists
  <1>4. start \in Partial
    <2>1. <<>> \in Seq(Finding)
      OBVIOUS
    <2> QED BY <2>1 DEF Partial, DetectorInv
  <1> HIDE DEF f, start, n
  <1>5. \A i \in 0 .. n : f[i] = IF i = 0 THEN start ELSE Check(f[i - 1], order[i], up)
    BY <1>3 DEF IsScored
  <1> DEFINE G == {k \in Nat : k \in 0 .. n => f[k] \in Partial}
  <1>6. 0 \in G
    BY <1>1, <1>4, <1>5
  <1>7. ASSUME NEW k \in Nat, k \in G PROVE k + 1 \in G
    <2> SUFFICES ASSUME k + 1 \in 0 .. n PROVE f[k + 1] \in Partial
      OBVIOUS
    <2>1. k \in 0 .. n /\ k + 1 # 0 /\ (k + 1) - 1 = k /\ k + 1 \in DOMAIN Keys
      BY <1>1
    <2>3. order[k + 1] \in DOMAIN Keys
      BY <2>1 DEF ScanOrders, Bijection, Injection
    <2>2. f[k] \in Partial /\ f[k + 1] = Check(f[k], order[k + 1], up)
      BY <1>5, <1>7, <2>1
    <2> QED BY <2>2, <2>3, CheckFinds
  <1> HIDE DEF G
  <1>8. n \in G
    BY <1>1, <1>6, <1>7, AllNumbers
  <1> QED BY <1>1, <1>2, <1>8 DEF G

-----------------------------------------------------------------------------
(* Alerts: the tags                                                         *)

\* The tag of an entity from the tiers with data and the tiers that spike.
LEMMA ClassSays ==
  ASSUME NEW D, IsFiniteSet(D), NEW P \in SUBSET D, NEW k \in P
  PROVE  LET e == k.entity
         IN  /\ TiersOf(D, e) \subseteq TiersOf(P, e) => Class(e, D, P) = "cross_rank"
             /\ Class(e, D, P) = "cross_rank" => 2 * Cardinality(TiersOf(P, e)) > Cardinality(TiersOf(D, e))
PROOF
  <1> DEFINE e == k.entity
             A == TiersOf(D, e)
             T == TiersOf(P, e)
             a == Cardinality(A)
             t == Cardinality(T)
  <1>1. IsFiniteSet(A)
    <2> DEFINE E == {x \in D : x.entity = e}
               f == [x \in E |-> x.tier]
    <2>1. IsFiniteSet(E)
      BY FS_Subset
    <2>2. f = [x \in E |-> f[x]] /\ A = {f[x] : x \in E}
      BY DEF TiersOf
    <2> HIDE DEF f, A, E
    <2> QED BY <2>1, <2>2, ImageFinite
  <1>2. T \in SUBSET A /\ k.tier \in T
    BY DEF TiersOf
  <1> HIDE DEF A, T
  <1>3. IsFiniteSet(T) /\ t \in Nat /\ a \in Nat /\ t <= a
    BY <1>1, <1>2, FS_Subset, FS_CardinalityType
  <1>4. t # 0
    BY <1>2, <1>3, FS_EmptySet
  <1>5. A \subseteq T => a = t
    <2>1. A \subseteq T => A = T
      BY <1>2
    <2> QED BY <2>1
  <1>6. Class(e, D, P) = IF 5 * t >= 3 * a THEN "cross_rank" ELSE "tier_specific"
    BY DEF Class, A, T
  <1> HIDE DEF a, t, e
  <1>7. A \subseteq T => Class(e, D, P) = "cross_rank"
    BY <1>3, <1>5, <1>6
  <1>8. Class(e, D, P) = "cross_rank" => 2 * t > a
    BY <1>3, <1>4, <1>6
  <1> QED BY <1>7, <1>8 DEF e, A, T, a, t

\* A pass's alerts, tagged.
TagFrom(a, P) == a.class = Class(a.key.entity, WithData, P) /\ a.among = TiersOf(WithData, a.key.entity)

LEMMA TaggedAlerts ==
  ASSUME DetectorInv, NEW found \in Seq(Finding)
  PROVE  LET P == {found[i].key : i \in DOMAIN found}
         IN  /\ Tagged(found) \in Seq(Alert) /\ P \subseteq WithData
             /\ P = {a.key : a \in ToSet(Tagged(found))}
             /\ \A a \in ToSet(Tagged(found)) : a.time = passes /\ a.key \in P /\ TagFrom(a, P)
PROOF
  <1> DEFINE P == {found[i].key : i \in DOMAIN found}
             tag(i) == Class(found[i].key.entity, WithData, P)
             tiers(i) == TiersOf(WithData, found[i].key.entity)
             b(i) == [found[i] EXCEPT !.class = tag(i), !.among = tiers(i)]
             n == Len(found)
  <1>1. Tagged(found) = [i \in DOMAIN found |-> b(i)]
    BY DEF Tagged, WithData
  <1>2. DOMAIN found = 1 .. n /\ n \in Nat /\ \A i \in DOMAIN found : found[i] \in Finding
    OBVIOUS
  <1>3. P \subseteq WithData
    BY <1>2 DEF Finding
  <1>4. WithData \subseteq [entity : STRING, tier : STRING, region : STRING]
    <2> DEFINE K == [entity : STRING, tier : STRING, region : STRING]
    <2>1. Keys \in Seq(K)
      BY AlertsAssumption
    <2> HIDE DEF K
    <2>2. \A i \in DOMAIN Keys : Keys[i] \in K
      BY <2>1
    <2> QED BY <2>2 DEF WithData, K
  <1>5. ASSUME NEW i \in DOMAIN found
        PROVE  b(i) \in Alert /\ b(i).time = passes /\ b(i).key = found[i].key /\ TagFrom(b(i), P)
    <2> DEFINE a == found[i]
               c == tag(i)
               m == tiers(i)
    <2>1. a \in Found /\ a.time = passes /\ a \in SpikeRec
      BY <1>2 DEF Finding, Found
    <2>2. c \in Tag /\ c # "none"
      BY DEF Class, Tag
    <2>3. m \in SUBSET STRING
      BY <1>4 DEF TiersOf
    <2>4. c = Class(a.key.entity, WithData, P) /\ m = TiersOf(WithData, a.key.entity)
      OBVIOUS
    <2>5. b(i) = [a EXCEPT !.class = c, !.among = m]
      OBVIOUS
    <2> HIDE DEF c, m, a, P
    <2> DEFINE r == [a EXCEPT !.class = c, !.among = m]
    <2>6. r \in SpikeRec
      BY <2>1, <2>2, <2>3 DEF SpikeRec
    <2>7. r.key = a.key /\ r.rate = a.rate /\ r.hist = a.hist /\ r.time = a.time /\ r.class = c /\ r.among = m
      BY <2>1 DEF SpikeRec
    <2> HIDE DEF r
    <2>8. r \in Alert
      BY <2>1, <2>2, <2>6, <2>7 DEF Alert, Found
    <2>9. TagFrom(r, P)
      BY <2>4, <2>7 DEF TagFrom
    <2>10. r \in Alert /\ r.time = passes /\ r.key = a.key /\ TagFrom(r, P)
      BY <2>1, <2>7, <2>8, <2>9
    <2> HIDE DEF b
    <2>11. b(i) = r
      BY <2>5 DEF r
    <2> QED BY <2>10, <2>11 DEF a
  <1> DEFINE T == Tagged(found)
  <1> HIDE DEF b
  <1>6. T \in Seq(Alert) /\ DOMAIN T = DOMAIN found /\ \A i \in DOMAIN found : T[i] = b(i)
    <2>1. T \in [1 .. n -> Alert]
      BY <1>1, <1>2, <1>5
    <2>2. T \in Seq(Alert)
      <3> HIDE DEF T, n
      <3> QED BY <1>2, <2>1
    <2> QED BY <1>1, <2>2
  <1> HIDE DEF T
  <1>7. \A a \in ToSet(T) : a.time = passes /\ a.key \in P /\ TagFrom(a, P)
    <2> SUFFICES ASSUME NEW i \in DOMAIN found PROVE b(i).time = passes /\ b(i).key \in P /\ TagFrom(b(i), P)
      BY <1>6 DEF ToSet
    <2> QED BY <1>5
  <1>8. P = {a.key : a \in ToSet(T)}
    <2>1. ToSet(T) = {b(i) : i \in DOMAIN found}
      BY <1>6 DEF ToSet
    <2>2. \A i \in DOMAIN found : b(i).key = found[i].key
      BY <1>5
    <2> QED BY <2>1, <2>2
  <1> QED BY <1>3, <1>6, <1>7, <1>8 DEF T

-----------------------------------------------------------------------------
(* Alerts: the steps                                                        *)

AlertInv ==
  /\ DetectorInv
  /\ spikes \in Seq(Alert) /\ log \in Seq(Alert) /\ feed \in Seq(Alert) /\ lost \subseteq Alert
  /\ Len(feed) <= FeedSize /\ stream \in -1 .. Len(log) /\ updates \in Nat /\ faults \in Nat

LEMMA AlertInitially == AlertsInit => AlertInv
PROOF
  <1> SUFFICES ASSUME AlertsInit PROVE AlertInv
    OBVIOUS
  <1>1. <<>> \in Seq(Alert) /\ Len(<<>>) = 0
    OBVIOUS
  <1>2. <<>> \in Observed
    <2>1. <<>> \in Seq(Nat) /\ Len(<<>>) = 0 /\ Window \in Nat
      BY AlertsAssumption
    <2> QED BY <2>1 DEF Observed
  <1>3. DetectorInv
    BY <1>2 DEF AlertsInit, DetectorInv
  <1>4. FeedSize \in Nat
    BY AlertsAssumption
  <1> QED BY <1>1, <1>3, <1>4 DEF AlertsInit, AlertInv

\* What a pass leaves.
LEMMA RunOnceFinds ==
  ASSUME AlertInv, RunOnce
  PROVE  /\ history' \in [Series -> Observed] /\ passes' = passes + 1
         /\ \E found \in Seq(Finding) : spikes' = Tagged(found)
PROOF
  <1>1. PICK order \in ScanOrders, up \in SUBSET DOMAIN Keys :
          history' = Scored(order, up).history /\ spikes' = Tagged(Scored(order, up).spikes)
    BY DEF RunOnce
  <1>2. Scored(order, up) \in Partial
    BY ScoredFinds DEF AlertInv
  <1>3. Scored(order, up).history \in [Series -> Observed] /\ Scored(order, up).spikes \in Seq(Finding)
    BY <1>2 DEF Partial
  <1> QED BY <1>1, <1>3 DEF RunOnce

LEMMA AlertTypeStep ==
  ASSUME AlertInv, [AlertsNext]_alertVars
  PROVE  AlertInv'
PROOF
  <1> USE DEF AlertInv
  <1>1. CASE RunOnce
    <2>1. PICK found \in Seq(Finding) : spikes' = Tagged(found)
      BY <1>1, RunOnceFinds
    <2>2. spikes' \in Seq(Alert)
      BY <2>1, TaggedAlerts
    <2>3. DetectorInv'
      BY <1>1, RunOnceFinds DEF RunOnce, DetectorInv
    <2> QED BY <1>1, <2>2, <2>3 DEF RunOnce, api
  <1>2. ASSUME spikes # <<>>, log' \in {log, Append(log, Head(spikes))}
        PROVE  Head(spikes) \in Alert /\ Tail(spikes) \in Seq(Alert) /\ log' \in Seq(Alert) /\ stream \in -1 .. Len(log')
    <2>1. Head(spikes) \in Alert /\ Tail(spikes) \in Seq(Alert)
      BY <1>2
    <2> DEFINE y == Append(log, Head(spikes))
    <2>2. y \in Seq(Alert) /\ Len(y) = Len(log) + 1 /\ Len(log) \in Nat
      BY <2>1
    <2>3. log' = log \/ log' = y
      BY <1>2
    <2> HIDE DEF y
    <2>4. log' \in Seq(Alert) /\ stream \in -1 .. Len(log')
      BY <2>2, <2>3
    <2> QED BY <2>1, <2>4
  <1>3. ToSet(spikes) \subseteq Alert
    BY DEF ToSet
  <1>4. CASE Publish
    <2>1. Head(spikes) \in Alert /\ Tail(spikes) \in Seq(Alert) /\ log' \in Seq(Alert) /\ stream \in -1 .. Len(log')
      BY <1>2, <1>4 DEF Publish
    <2>2. DetectorInv'
      BY <1>4 DEF Publish, DetectorInv
    <2> QED BY <1>4, <2>1, <2>2 DEF Publish, api
  <1>5. CASE PublishFails
    <2>1. log' \in Seq(Alert) /\ stream \in -1 .. Len(log')
      BY <1>2, <1>5 DEF PublishFails
    <2>2. DetectorInv' /\ spikes' = <<>> /\ lost' \subseteq Alert /\ faults' \in Nat
      BY <1>3, <1>5 DEF PublishFails, DetectorInv
    <2>3. <<>> \in Seq(Alert)
      OBVIOUS
    <2> QED BY <1>5, <2>1, <2>2, <2>3 DEF PublishFails, api
  <1>6. CASE Restart
    <2>1. <<>> \in Observed
      <3>1. <<>> \in Seq(Nat) /\ Len(<<>>) = 0 /\ Window \in Nat
        BY AlertsAssumption
      <3> QED BY <3>1 DEF Observed
    <2>2. DetectorInv' /\ lost' \subseteq Alert /\ faults' \in Nat /\ spikes' = <<>>
      BY <1>3, <1>6, <2>1 DEF Restart, DetectorInv
    <2>3. <<>> \in Seq(Alert)
      OBVIOUS
    <2> QED BY <1>6, <2>2, <2>3 DEF Restart, api
  <1>7. CASE Subscribe
    <2>1. DetectorInv' /\ stream' \in -1 .. Len(log)
      BY <1>7 DEF Subscribe, service, DetectorInv
    <2> QED BY <1>7, <2>1 DEF Subscribe, service
  <1>8. CASE Deliver
    <2>1. stream \in 0 .. Len(log) - 1 /\ stream' = stream + 1 /\ Len(log) \in Nat
      BY <1>8 DEF Deliver
    <2> DEFINE x == log[stream + 1]
               m == Min({FeedSize - 1, Len(feed)})
    <2>2. x \in Alert
      <3>1. stream + 1 \in DOMAIN log
        BY <2>1
      <3> QED BY <3>1
    <2>3. FeedSize \in Nat /\ FeedSize > 0 /\ Len(feed) \in Nat
      BY AlertsAssumption
    <2>4. m \in 0 .. Len(feed) /\ m <= FeedSize - 1
      <3>0. FeedSize - 1 \in Int /\ Len(feed) \in Int
        BY <2>3
      <3>1. m = IF FeedSize - 1 <= Len(feed) THEN FeedSize - 1 ELSE Len(feed)
        BY <3>0, MinOfTwo, Zenon
      <3> HIDE DEF m
      <3> QED BY <2>3, <3>1
    <2>5. feed' = <<x>> \o SubSeq(feed, 1, m)
      BY <1>8 DEF Deliver
    <2> HIDE DEF x, m
    <2>6. SubSeq(feed, 1, m) \in Seq(Alert) /\ Len(SubSeq(feed, 1, m)) = m
      BY <2>3, <2>4
    <2>7. feed' \in Seq(Alert) /\ Len(feed') = m + 1
      BY <2>2, <2>4, <2>5, <2>6
    <2>8. DetectorInv'
      BY <1>8 DEF Deliver, service, DetectorInv
    <2>9. stream' \in -1 .. Len(log) /\ Len(feed') <= FeedSize /\ log' = log
      BY <1>8, <2>1, <2>3, <2>4, <2>7 DEF Deliver
    <2> QED BY <1>8, <2>7, <2>8, <2>9 DEF Deliver, service
  <1>9. CASE Break
    <2>1. DetectorInv' /\ faults' \in Nat /\ stream' \in -1 .. Len(log)
      BY <1>9 DEF Break, service, DetectorInv
    <2> QED BY <1>9, <2>1 DEF Break, service
  <1>10. CASE \E i \in DOMAIN Keys : Update(i)
    <2>1. DetectorInv' /\ updates' \in Nat
      BY <1>10 DEF Update, service, DetectorInv
    <2> QED BY <1>10, <2>1 DEF Update, service, api
  <1>11. CASE UNCHANGED alertVars
    <2>1. DetectorInv'
      BY <1>11 DEF alertVars, service, api, DetectorInv
    <2> QED BY <1>11, <2>1 DEF alertVars, service, api
  <1> QED BY <1>1, <1>4, <1>5, <1>6, <1>7, <1>8, <1>9, <1>10, <1>11 DEF AlertsNext

LEMMA AlertInvariant == AlertsSpec => []AlertInv
PROOF
  <1>1. AlertInv /\ [AlertsNext]_alertVars => AlertInv'
    BY AlertTypeStep
  <1> QED BY <1>1, AlertInitially, PTL DEF AlertsSpec

\* The anomaly service and the feed keep their types and their lengths: the window
\* of a series, the feed, the position of the stream in the topic.
THEOREM AlertsTyped == AlertsSpec => []AlertsTypeOK
PROOF
  <1>1. AlertInv => AlertsTypeOK
    <2> SUFFICES ASSUME AlertInv PROVE AlertsTypeOK
      OBVIOUS
    <2>1. \A i \in DOMAIN Keys : stats[i] \in Stat \cup {NoStat}
      BY DEF AlertInv, DetectorInv
    <2>2. DOMAIN history = Series /\ \A s \in Series : Len(history[s]) <= Window
      BY DEF AlertInv, DetectorInv, Observed
    <2>3. \A a \in Alert : IsAlert(a)
      BY DEF Alert, Found, SpikeRec, Tag, IsAlert
    <2>4. ToSet(spikes) \cup lost \cup ToSet(log) \cup ToSet(feed) \subseteq Alert
      BY DEF AlertInv, ToSet
    <2>5. Len(feed) <= FeedSize /\ stream \in -1 .. Len(log) /\ {passes, updates, faults} \subseteq Nat
      BY DEF AlertInv, DetectorInv
    <2> QED BY <2>1, <2>2, <2>3, <2>4, <2>5 DEF AlertsTypeOK
  <1> QED BY <1>1, AlertInvariant, PTL

\* Whatever the passes saw, and whatever the regions and patches a window mixes, an
\* alert is published only of a rate that at most 1 in Z*Z + 1 of the observations
\* it was scored against reach, however the floats at the threshold are rounded.
THEOREM AlertsAreRare == AlertsSpec => []AlertIsRare
PROOF
  <1>1. AlertInv => AlertIsRare
    <2> SUFFICES ASSUME AlertInv, NEW a \in ToSet(log) PROVE RareIn(a.hist, a.rate)
      BY DEF AlertIsRare, RareIn
    <2>1. a \in Alert
      BY DEF AlertInv, ToSet
    <2> QED BY <2>1 DEF Alert, Found
  <1> QED BY <1>1, AlertInvariant, PTL

-----------------------------------------------------------------------------
(* Alerts: one tag for an entity and a pass                                 *)

AllFound == ToSet(log) \cup ToSet(spikes) \cup lost

\* The alerts that a shares its tag with, and what TagsAgree says of a among them.
Same(F, a) == {b \in F : b.time = a.time /\ b.key.entity = a.key.entity}
TagOK(S, a) ==
  LET tiers == {b.key.tier : b \in S}
  IN  /\ \A b \in S : b.class = a.class
      /\ a.among \subseteq tiers => a.class = "cross_rank"
      /\ a.class = "cross_rank" => 2 * Cardinality(tiers) > Cardinality(a.among)

\* The alerts of earlier passes are older than the passes to come.
TagInv == \A a \in AllFound : a.time < passes /\ TagOK(Same(AllFound, a), a)

\* The alerts of one pass agree.
LEMMA PassAgrees ==
  ASSUME DetectorInv, NEW found \in Seq(Finding), NEW a \in ToSet(Tagged(found))
  PROVE  TagOK(Same(ToSet(Tagged(found)), a), a)
PROOF
  <1> DEFINE N == ToSet(Tagged(found))
             P == {found[i].key : i \in DOMAIN found}
             e == a.key.entity
             S == Same(N, a)
             tiers == {b.key.tier : b \in S}
  <1>1. /\ P \subseteq WithData /\ P = {b.key : b \in N}
        /\ \A b \in N : b.time = passes /\ b.key \in P /\ TagFrom(b, P)
    BY TaggedAlerts
  <1>2. IsFiniteSet(WithData)
    <2> DEFINE K == [entity : STRING, tier : STRING, region : STRING]
    <2>1. Keys \in Seq(K)
      BY AlertsAssumption
    <2> HIDE DEF K
    <2>2. IsFiniteSet(ToSet(Keys))
      BY <2>1, RangeFinite
    <2>3. WithData \subseteq ToSet(Keys)
      BY DEF WithData, ToSet
    <2> QED BY <2>2, <2>3, FS_Subset
  <1> HIDE DEF N, P
  <1>3. a \in N
    BY DEF N
  <1>4. S = {b \in N : b.key.entity = e}
    BY <1>1, <1>3 DEF Same
  <1>5. tiers = TiersOf(P, e)
    BY <1>1, <1>4 DEF TiersOf
  <1>6. \A b \in S : b.class = a.class
    BY <1>1, <1>3, <1>4 DEF TagFrom
  <1>7. a.key \in P /\ a.class = Class(e, WithData, P) /\ a.among = TiersOf(WithData, e)
    BY <1>1, <1>3 DEF TagFrom
  <1>8. /\ TiersOf(WithData, e) \subseteq TiersOf(P, e) => Class(e, WithData, P) = "cross_rank"
        /\ Class(e, WithData, P) = "cross_rank"
             => 2 * Cardinality(TiersOf(P, e)) > Cardinality(TiersOf(WithData, e))
    BY <1>1, <1>2, <1>7, ClassSays
  <1> HIDE DEF S, e, tiers
  <1>9. /\ a.among \subseteq tiers => a.class = "cross_rank"
        /\ a.class = "cross_rank" => 2 * Cardinality(tiers) > Cardinality(a.among)
    BY <1>5, <1>7, <1>8
  <1> QED BY <1>6, <1>9 DEF TagOK, tiers, S, N

LEMMA TagStep ==
  ASSUME AlertInv, TagInv, [AlertsNext]_alertVars
  PROVE  TagInv'
PROOF
  <1> DEFINE F == AllFound
  <1>1. ASSUME F' = F, passes' = passes PROVE TagInv'
    BY <1>1 DEF TagInv
  <1>2. spikes # <<>> => ToSet(spikes) = {Head(spikes)} \cup ToSet(Tail(spikes))
    <2> SUFFICES ASSUME spikes # <<>> PROVE ToSet(spikes) = {Head(spikes)} \cup ToSet(Tail(spikes))
      OBVIOUS
    <2> DEFINE n == Len(spikes)
               t == Tail(spikes)
    <2>1. n \in Nat /\ n > 0 /\ DOMAIN spikes = 1 .. n /\ Head(spikes) = spikes[1]
      BY DEF AlertInv
    <2>2. DOMAIN t = 1 .. n - 1 /\ \A i \in 1 .. n - 1 : t[i] = spikes[i + 1]
      BY DEF AlertInv
    <2> HIDE DEF n, t
    <2>3. \A i \in 1 .. n : i = 1 \/ (i - 1 \in 1 .. n - 1 /\ (i - 1) + 1 = i)
      BY <2>1
    <2>4. \A i \in 1 .. n - 1 : i + 1 \in 1 .. n
      BY <2>1
    <2>5. 1 \in 1 .. n
      BY <2>1
    <2>6. ToSet(spikes) = {spikes[1]} \cup ToSet(t)
      <3>1. ASSUME NEW i \in 1 .. n PROVE spikes[i] \in {spikes[1]} \cup ToSet(t)
        <4>1. CASE i = 1
          BY <4>1
        <4>2. CASE i # 1
          <5>1. i - 1 \in DOMAIN t /\ t[i - 1] = spikes[i]
            BY <2>2, <2>3, <4>2
          <5> QED BY <5>1 DEF ToSet
        <4> QED BY <4>1, <4>2
      <3>2. ASSUME NEW i \in 1 .. n - 1 PROVE t[i] \in ToSet(spikes)
        BY <2>1, <2>2, <2>4 DEF ToSet
      <3>3. ToSet(spikes) = {spikes[i] : i \in 1 .. n} /\ ToSet(t) = {t[i] : i \in 1 .. n - 1}
        BY <2>1, <2>2 DEF ToSet
      <3> QED BY <2>5, <3>1, <3>2, <3>3
    <2> QED BY <2>1, <2>6 DEF t
  <1>3. \A x \in Alert : ToSet(Append(log, x)) = ToSet(log) \cup {x}
    <2> SUFFICES ASSUME NEW x \in Alert PROVE ToSet(Append(log, x)) = ToSet(log) \cup {x}
      OBVIOUS
    <2> DEFINE n == Len(log)
               t == Append(log, x)
    <2>0. log \in Seq(Alert)
      BY DEF AlertInv
    <2>1. n \in Nat /\ DOMAIN log = 1 .. n /\ DOMAIN t = 1 .. n + 1 /\ t[n + 1] = x /\ \A i \in 1 .. n : t[i] = log[i]
      BY <2>0
    <2> HIDE DEF n, t
    <2>2. 1 .. n + 1 = (1 .. n) \cup {n + 1}
      BY <2>1
    <2>3. ToSet(t) = ToSet(log) \cup {x}
      BY <2>1, <2>2 DEF ToSet
    <2> QED BY <2>3 DEF t
  <1>4. ToSet(<<>>) = {}
    BY DEF ToSet
  <1>5. spikes # <<>> => Head(spikes) \in Alert
    BY DEF AlertInv
  <1>6. CASE RunOnce
    <2>1. PICK found \in Seq(Finding) : spikes' = Tagged(found)
      BY <1>6, RunOnceFinds
    <2> DEFINE N == ToSet(Tagged(found))
    <2>2. F' = F \cup N /\ passes' = passes + 1 /\ passes \in Nat
      BY <1>4, <1>6, <2>1 DEF RunOnce, AllFound, AlertInv, DetectorInv
    <2>3. \A a \in N : a.time = passes
      BY TaggedAlerts DEF AlertInv
    <2>4. \A a \in F : a.time < passes /\ TagOK(Same(F, a), a) /\ a.time \in Nat
      <3>1. F \subseteq Alert
        BY DEF AllFound, AlertInv, ToSet
      <3>2. \A a \in Alert : a.time \in Nat
        BY DEF Alert, Found, SpikeRec
      <3> QED BY <3>1, <3>2 DEF TagInv
    <2>5. \A a \in N : TagOK(Same(N, a), a)
      BY PassAgrees DEF AlertInv
    <2> HIDE DEF F, N
    <2>6. ASSUME NEW a \in F \cup N PROVE a.time < passes' /\ TagOK(Same(F \cup N, a), a)
      <3>1. CASE a \in F
        <4>1. \A b \in N : b.time # a.time
          BY <2>2, <2>3, <2>4, <3>1
        <4>2. Same(F \cup N, a) = Same(F, a)
          BY <4>1 DEF Same
        <4>3. a.time < passes + 1
          BY <2>2, <2>4, <3>1
        <4> QED BY <2>2, <2>4, <3>1, <4>2, <4>3
      <3>2. CASE a \in N
        <4>1. \A b \in F : b.time # a.time
          BY <2>2, <2>3, <2>4, <3>2
        <4>2. Same(F \cup N, a) = Same(N, a)
          BY <4>1 DEF Same
        <4>3. a.time < passes + 1
          BY <2>2, <2>3, <3>2
        <4> QED BY <2>2, <2>5, <3>2, <4>2, <4>3
      <3> QED BY <3>1, <3>2
    <2>7. \A a \in F' : a.time < passes' /\ TagOK(Same(F', a), a)
      BY <2>2, <2>6
    <2> QED BY <2>7 DEF TagInv, F
  <1>7. CASE Publish
    <2>1. F' = F
      BY <1>2, <1>3, <1>5, <1>7 DEF Publish, AllFound
    <2> QED BY <1>1, <1>7, <2>1 DEF Publish
  <1>8. CASE PublishFails
    <2>1. ToSet(log') \subseteq ToSet(log) \cup ToSet(spikes) /\ ToSet(log) \subseteq ToSet(log')
      BY <1>2, <1>3, <1>5, <1>8 DEF PublishFails
    <2>2. F' = F
      BY <1>4, <1>8, <2>1 DEF PublishFails, AllFound
    <2> QED BY <1>1, <1>8, <2>2 DEF PublishFails
  <1>9. CASE Restart
    <2>1. F' = F
      BY <1>4, <1>9 DEF Restart, AllFound
    <2> QED BY <1>1, <1>9, <2>1 DEF Restart
  <1>10. CASE Subscribe \/ Deliver \/ Break \/ \E i \in DOMAIN Keys : Update(i)
    BY <1>1, <1>10 DEF Subscribe, Deliver, Break, Update, service, AllFound
  <1>11. CASE UNCHANGED alertVars
    BY <1>1, <1>11 DEF alertVars, service, AllFound
  <1> QED BY <1>6, <1>7, <1>8, <1>9, <1>10, <1>11 DEF AlertsNext

\* The alerts of an entity in a pass have one tag, published or not, whatever fails
\* between their publications: cross_rank where every tier with data spikes, and
\* only where more than half of them do.
THEOREM TagsKept == AlertsSpec => []TagsAgree
PROOF
  <1>1. AlertInv /\ TagInv /\ [AlertsNext]_alertVars => TagInv'
    BY TagStep
  <1>2. AlertsInit => TagInv
    BY DEF AlertsInit, TagInv, AllFound, ToSet
  <1>3. TagInv => TagsAgree
    <2> SUFFICES ASSUME TagInv PROVE TagsAgree
      OBVIOUS
    <2>1. \A a \in AllFound : TagOK(Same(AllFound, a), a)
      BY DEF TagInv
    <2> QED BY <2>1 DEF TagsAgree, TagOK, Same, AllFound
  <1> QED BY <1>1, <1>2, <1>3, AlertInvariant, PTL DEF AlertsSpec

-----------------------------------------------------------------------------
(* Alerts: the feed                                                         *)

\* The indices of the recent alerts of a list, in RecentFrom.
RecentIn(f, c) == {i \in DOMAIN f : f[i].time >= c}

\* The recent alerts of the front of a list are the front of its recent alerts.
LEMMA RecentFront ==
  ASSUME NEW S, NEW f \in Seq(S), NEW g \in Seq(S), Len(g) <= Len(f), \A i \in 1 .. Len(g) : g[i] = f[i], NEW c
  PROVE  SubSeq(RecentFrom(f, c), 1, Len(RecentFrom(g, c))) = RecentFrom(g, c)
PROOF
  <1> DEFINE A == RecentIn(f, c)
             B == RecentIn(g, c)
             n == Cardinality(A)
             m == Cardinality(B)
             at(I, k) == CHOOSE i \in I : Below(I, i) = k - 1
             p == RecentFrom(f, c)
             q == RecentFrom(g, c)
             l == Len(g)
  <1>1. DOMAIN f = 1 .. Len(f) /\ DOMAIN g = 1 .. l /\ Len(f) \in Nat /\ l \in Nat
    OBVIOUS
  <1>2. IsFiniteSet(DOMAIN f)
    BY DomainCounted
  <1>3. A \in SUBSET DOMAIN f /\ A \subseteq Nat
    BY <1>1 DEF RecentIn
  <1>4. B = {i \in A : i <= l}
    BY <1>1 DEF RecentIn
  <1>5. p = [k \in 1 .. n |-> f[at(A, k)]] /\ q = [k \in 1 .. m |-> g[at(B, k)]]
    BY DEF RecentFrom, RecentIn, Below
  <1> HIDE DEF A, B, p, q, l
  <1>6. IsFiniteSet(A) /\ IsFiniteSet(B) /\ B \subseteq Nat /\ n \in Nat /\ m \in Nat /\ m <= n
    BY <1>2, <1>3, <1>4, FS_Subset, FS_CardinalityType
  <1>7. \A i \in B : Below(B, i) = Below(A, i)
    <2> SUFFICES ASSUME NEW i \in B PROVE {j \in B : j < i} = {j \in A : j < i}
      BY DEF Below
    <2>1. \A j \in A : j < i => j <= l
      BY <1>1, <1>3, <1>4
    <2> QED BY <1>4, <2>1
  <1>8. \A k \in 1 .. m : at(A, k) = at(B, k) /\ at(B, k) \in B
    <2> SUFFICES ASSUME NEW k \in 1 .. m PROVE at(A, k) = at(B, k) /\ at(B, k) \in B
      OBVIOUS
    <2>1. k - 1 \in 0 .. m - 1
      BY <1>6
    <2>2. \E i \in B : Below(B, i) = k - 1
      BY <1>6, <2>1, RanksTaken
    <2>3. at(B, k) \in B /\ Below(B, at(B, k)) = k - 1
      BY <2>2
    <2>4. at(B, k) \in A /\ Below(A, at(B, k)) = k - 1
      BY <1>4, <1>7, <2>3
    <2>5. at(A, k) \in A /\ Below(A, at(A, k)) = k - 1
      <3>1. \E i \in A : Below(A, i) = k - 1
        BY <2>4
      <3> QED BY <3>1
    <2>6. \A i, j \in A : Below(A, i) = Below(A, j) => i = j
      BY <1>3, <1>6, RanksTaken
    <2> HIDE DEF at
    <2> QED BY <2>3, <2>4, <2>5, <2>6
  <1> HIDE DEF at, n, m
  <1>9. \A i \in B : g[i] = f[i]
    BY <1>1, <1>3, <1>4 DEF l
  <1>10. \A k \in 1 .. m : p[k] = q[k]
    <2> SUFFICES ASSUME NEW k \in 1 .. m PROVE p[k] = q[k]
      OBVIOUS
    <2>1. k \in 1 .. n
      BY <1>6
    <2> QED BY <1>5, <1>8, <1>9, <2>1
  <1>11. Len(q) = m /\ q = [k \in 1 .. m |-> q[k]]
    BY <1>5, <1>6
  <1>12. SubSeq(p, 1, m) = [k \in 1 .. m |-> p[k]]
    <2>1. SubSeq(p, 1, m) = [k \in 1 .. (1 + m - 1) |-> p[k + 1 - 1]]
      BY <1>6
    <2> QED BY <1>6, <2>1
  <1>13. SubSeq(p, 1, m) = q
    BY <1>10, <1>11, <1>12
  <1> QED BY <1>11, <1>13 DEF p, q

\* One in front of a list.
LEMMA PutInFront ==
  ASSUME NEW S, NEW x \in S, NEW s \in Seq(S)
  PROVE  LET w == <<x>> \o s
         IN  Len(w) = Len(s) + 1 /\ w[1] = x /\ \A j \in 1 .. Len(s) : w[j + 1] = s[j]
OBVIOUS

\* The feed begins with what this subscription has yielded, backwards.
FeedInv == \A i \in 1 .. FeedSize : i <= stream => i <= Len(feed) /\ feed[i] = log[stream + 1 - i]

LEMMA FeedStep ==
  ASSUME AlertInv, FeedInv, [AlertsNext]_alertVars
  PROVE  FeedInv'
PROOF
  <1>1. /\ Len(log) \in Nat /\ log \in Seq(Alert) /\ stream \in -1 .. Len(log) /\ feed \in Seq(Alert)
        /\ Len(feed) \in Nat
    BY DEF AlertInv
  <1>2. FeedSize \in Nat /\ FeedSize > 0
    BY AlertsAssumption
  <1>3. CASE stream' = stream /\ feed' = feed /\ log' = log
    BY <1>3 DEF FeedInv
  <1>4. ASSUME stream' = stream, feed' = feed, NEW x, log' = Append(log, x) PROVE FeedInv'
    <2>1. \A j \in 1 .. Len(log) : log'[j] = log[j]
      BY <1>1, <1>4
    <2>2. \A i \in 1 .. FeedSize : i <= stream => stream + 1 - i \in 1 .. Len(log)
      BY <1>1, <1>2
    <2> QED BY <1>4, <2>1, <2>2 DEF FeedInv
  <1>5. CASE Deliver
    <2> DEFINE x == log[stream + 1]
               m == Min({FeedSize - 1, Len(feed)})
               s == SubSeq(feed, 1, m)
    <2>1. stream \in 0 .. Len(log) - 1 /\ stream' = stream + 1 /\ log' = log /\ feed' = <<x>> \o s
      BY <1>5 DEF Deliver
    <2>2. m = IF FeedSize - 1 <= Len(feed) THEN FeedSize - 1 ELSE Len(feed)
      <3>1. FeedSize - 1 \in Int /\ Len(feed) \in Int
        BY <1>1, <1>2
      <3> QED BY <3>1, MinOfTwo, Zenon
    <2> HIDE DEF m
    <2>3. m \in 0 .. Len(feed) /\ m \in Nat
      BY <1>1, <1>2, <2>2
    <2>4. s \in Seq(Alert) /\ Len(s) = m /\ \A j \in 1 .. m : s[j] = feed[j]
      BY <1>1, <2>3
    <2>5. x \in Alert
      <3>1. stream + 1 \in DOMAIN log
        BY <1>1, <2>1
      <3> QED BY <1>1, <3>1
    <2> HIDE DEF s, x
    <2>6. Len(feed') = m + 1 /\ feed'[1] = x /\ \A j \in 1 .. m : feed'[j + 1] = s[j]
      BY <2>1, <2>4, <2>5, PutInFront
    <2>7. ASSUME NEW i \in 1 .. FeedSize, i <= stream + 1
          PROVE  i <= Len(feed') /\ feed'[i] = log[(stream + 1) + 1 - i]
      <3>1. CASE i = 1
        <4>1. (stream + 1) + 1 - i = stream + 1
          BY <2>1, <3>1
        <4> QED BY <2>3, <2>6, <3>1, <4>1 DEF x
      <3>2. CASE i # 1
        <4> DEFINE j == i - 1
        <4>1. j \in 1 .. FeedSize /\ j <= stream /\ j + 1 = i /\ j <= FeedSize - 1
              /\ (stream + 1) + 1 - i = stream + 1 - j
          BY <1>2, <2>1, <2>7, <3>2
        <4> HIDE DEF j
        <4>2. j <= Len(feed) /\ feed[j] = log[stream + 1 - j]
          BY <4>1 DEF FeedInv
        <4>3. j \in 1 .. m
          BY <1>1, <1>2, <2>2, <4>1, <4>2
        <4>4. feed'[i] = feed[j]
          BY <2>4, <2>6, <4>1, <4>3
        <4>5. i <= m + 1
          BY <2>3, <4>1, <4>3
        <4> QED BY <2>6, <4>1, <4>2, <4>4, <4>5
      <3> QED BY <3>1, <3>2
    <2> QED BY <2>1, <2>7 DEF FeedInv
  <1>6. CASE stream' \in {-1, 0}
    <2>1. \A i \in 1 .. FeedSize : ~(i <= stream')
      BY <1>2, <1>6
    <2> QED BY <2>1 DEF FeedInv
  <1>7. CASE RunOnce
    BY <1>3, <1>7 DEF RunOnce, api
  <1>8. CASE Publish
    BY <1>4, <1>8 DEF Publish, api
  <1>9. CASE PublishFails
    BY <1>3, <1>4, <1>9 DEF PublishFails, api
  <1>10. CASE Restart
    BY <1>3, <1>10 DEF Restart, api
  <1>11. CASE Subscribe \/ Break
    BY <1>6, <1>11 DEF Subscribe, Break
  <1>12. CASE \E i \in DOMAIN Keys : Update(i)
    BY <1>3, <1>12 DEF Update, api
  <1>13. CASE UNCHANGED alertVars
    BY <1>3, <1>13 DEF alertVars, api
  <1> QED BY <1>5, <1>7, <1>8, <1>9, <1>10, <1>11, <1>12, <1>13 DEF AlertsNext

\* What get_anomalies serves begins with the newest alerts the stream has yielded,
\* none missing, whatever breaks of the stream put into the feed twice.
THEOREM FeedStartsWithNewest == AlertsSpec => []FeedFront
PROOF
  <1>1. AlertInv /\ FeedInv /\ [AlertsNext]_alertVars => FeedInv'
    BY FeedStep
  <1>2. AlertsInit => FeedInv
    <2> SUFFICES ASSUME AlertsInit PROVE FeedInv
      OBVIOUS
    <2>1. FeedSize \in Nat /\ stream = -1
      BY AlertsAssumption DEF AlertsInit
    <2>2. \A i \in 1 .. FeedSize : ~(i <= stream)
      BY <2>1
    <2> QED BY <2>2 DEF FeedInv
  <1>3. AlertInv /\ FeedInv => FeedFront
    <2> SUFFICES ASSUME AlertInv, FeedInv, stream # -1
                 PROVE  LET got == Reverse(SubSeq(log, Max({1, stream - FeedSize + 1}), stream))
                            due == RecentFrom(got, passes - Hours)
                        IN  SubSeq(Anomalies, 1, Len(due)) = due
      BY DEF FeedFront
    <2> DEFINE lo == Max({1, stream - FeedSize + 1})
               s == SubSeq(log, lo, stream)
               got == Reverse(s)
               c == passes - Hours
               l == stream - lo + 1
    <2>1. /\ stream \in Nat /\ stream <= Len(log) /\ Len(log) \in Nat /\ log \in Seq(Alert) /\ feed \in Seq(Alert)
          /\ Len(feed) \in Nat
      BY DEF AlertInv
    <2>2. FeedSize \in Nat /\ FeedSize > 0
      BY AlertsAssumption
    <2>3. lo = IF 1 >= stream - FeedSize + 1 THEN 1 ELSE stream - FeedSize + 1
      <3>1. 1 \in Int /\ stream - FeedSize + 1 \in Int
        BY <2>1, <2>2
      <3> QED BY <3>1, MaxOfTwo, Zenon
    <2> HIDE DEF lo
    <2>4. lo \in Nat /\ lo >= 1 /\ l \in Nat /\ l <= stream /\ l <= FeedSize /\ lo + l - 1 = stream
      BY <2>1, <2>2, <2>3
    <2>5. s \in Seq(Alert) /\ Len(s) = l /\ \A j \in 1 .. l : s[j] = log[lo + j - 1]
      <3>1. \A j \in lo .. stream : log[j] \in Alert
        BY <2>1, <2>4
      <3>2. s = [j \in 1 .. l |-> log[lo + j - 1]]
        <4>1. s = [j \in 1 .. (1 + stream - lo) |-> log[j + lo - 1]]
          BY <2>1, <2>4
        <4>2. 1 + stream - lo = l /\ \A j \in 1 .. l : j + lo - 1 = lo + j - 1
          BY <2>1, <2>4
        <4> HIDE DEF s, l
        <4> QED BY <4>1, <4>2
      <3>3. \A j \in 1 .. l : lo + j - 1 \in lo .. stream
        BY <2>1, <2>4
      <3> HIDE DEF s, l
      <3> QED BY <2>4, <3>1, <3>2, <3>3
    <2> HIDE DEF s, l
    <2>6. got = [j \in 1 .. l |-> s[(l - j) + 1]]
      BY <2>5 DEF Reverse
    <2> HIDE DEF got
    <2>7. \A j \in 1 .. l : (l - j) + 1 \in 1 .. l /\ lo + ((l - j) + 1) - 1 = stream + 1 - j
      BY <2>1, <2>4
    <2>8. \A j \in 1 .. l : s[j] \in Alert
      BY <2>5
    <2>9. got \in Seq(Alert) /\ Len(got) = l /\ \A j \in 1 .. l : got[j] = log[stream + 1 - j]
      <3>1. got \in [1 .. l -> Alert]
        BY <2>6, <2>7, <2>8
      <3> QED BY <2>4, <2>5, <2>6, <2>7, <3>1
    <2>10. \A j \in 1 .. l : j <= Len(feed) /\ feed[j] = got[j]
      <3> SUFFICES ASSUME NEW j \in 1 .. l PROVE j <= Len(feed) /\ feed[j] = got[j]
        OBVIOUS
      <3>1. j \in 1 .. FeedSize /\ j <= stream
        BY <2>1, <2>2, <2>4
      <3> QED BY <2>9, <3>1 DEF FeedInv
    <2>11. Len(got) <= Len(feed)
      <3>1. CASE l = 0
        BY <2>1, <2>9, <3>1
      <3>2. CASE l # 0
        <4>1. l \in 1 .. l
          BY <2>4, <3>2
        <4> QED BY <2>9, <2>10, <4>1
      <3> QED BY <3>1, <3>2
    <2>12. \A j \in 1 .. Len(got) : got[j] = feed[j]
      BY <2>9, <2>10
    <2> HIDE DEF c
    <2>13. SubSeq(RecentFrom(feed, c), 1, Len(RecentFrom(got, c))) = RecentFrom(got, c)
      BY <2>1, <2>9, <2>11, <2>12, RecentFront
    <2> QED BY <2>13 DEF Anomalies, c, got, s, lo
  <1> QED BY <1>1, <1>2, <1>3, AlertInvariant, PTL DEF AlertsSpec

=============================================================================
