---------------------------- MODULE PlayerProofs ----------------------------
(***************************************************************************)
(* Proofs about Player, and about the middleware of module Gate in front   *)
(* of it: for any addresses, limits and caps, any number of requests and   *)
(* players, any matches, any length of a history, time and crashes.        *)
(***************************************************************************)
EXTENDS Player, FiniteSetTheorems, SequenceTheorems, WellFoundedInduction, TLAPS

-----------------------------------------------------------------------------
(* Numbers and sequences                                                    *)

\* The larger of two numbers, as max() of the code is written here.
LEMMA MaxOfTwo ==
  ASSUME NEW a \in Int, NEW b \in Int
  PROVE  Max({a, b}) = IF a >= b THEN a ELSE b
BY DEF Max

\* A nonempty set of naturals has a least element.
LEMMA MinOfSome ==
  ASSUME NEW S, S \subseteq Nat, S # {}
  PROVE  Min(S) \in S /\ \A i \in S : Min(S) <= i
PROOF
  <1>1. PICK m \in S : \A i \in S : ~ (<<i, m>> \in OpToRel(<, Nat))
    BY WFMin, NatLessThanWellFounded
  <1>2. \A i \in S : ~ (i < m)
    BY <1>1 DEF OpToRel
  <1>3. m \in S /\ \A i \in S : m <= i
    BY <1>2
  <1> QED BY <1>3 DEF Min

\* A day later, or not: the number of the day never goes back.
LEMMA DayGrows ==
  ASSUME NEW t \in Nat, NEW d \in Nat \ {0}
  PROVE  t \div d \in Nat /\ (t + 1) \div d \in Nat /\ t \div d <= (t + 1) \div d
OBVIOUS

\* Whole steps of d, rounded up as Retry-After is, are longer than x.
LEMMA RoundedUp ==
  ASSUME NEW x \in Int, NEW d \in Nat \ {0}
  PROVE  x \div d \in Int /\ d * (x \div d + 1) > x
OBVIOUS

\* The end of a sequence, from some place on.
LEMMA Suffix ==
  ASSUME NEW S, NEW s \in Seq(S), NEW k \in 0 .. Len(s)
  PROVE  /\ SubSeq(s, k + 1, Len(s)) \in Seq(S)
         /\ Len(SubSeq(s, k + 1, Len(s))) = Len(s) - k
         /\ \A i \in 1 .. Len(s) - k : SubSeq(s, k + 1, Len(s))[i] = s[k + i]
PROOF
  <1>1. Len(s) \in Nat /\ k + 1 \in Int /\ \A i \in k + 1 .. Len(s) : s[i] \in S
    OBVIOUS
  <1>2. /\ SubSeq(s, k + 1, Len(s)) \in Seq(S)
        /\ Len(SubSeq(s, k + 1, Len(s))) = IF k + 1 <= Len(s) THEN Len(s) - (k + 1) + 1 ELSE 0
        /\ \A i \in 1 .. Len(s) - (k + 1) + 1 : SubSeq(s, k + 1, Len(s))[i] = s[(k + 1) + i - 1]
    BY <1>1, SubSeqProperties
  <1>3. ASSUME NEW i \in 1 .. Len(s) - k PROVE SubSeq(s, k + 1, Len(s))[i] = s[k + i]
    <2>1. i \in 1 .. Len(s) - (k + 1) + 1 /\ (k + 1) + i - 1 = k + i
      BY <1>1
    <2> QED BY <1>2, <2>1
  <1> QED BY <1>1, <1>2, <1>3

\* popleft: where the sequence that is left begins.
LEMMA SinceFrom ==
  ASSUME NEW s \in Seq(Nat), NEW c \in Int
  PROVE  \E k \in 0 .. Len(s) : /\ Since(s, c) = SubSeq(s, k + 1, Len(s))
                                /\ \A i \in 1 .. k : s[i] < c
                                /\ k < Len(s) => s[k + 1] >= c
PROOF
  <1> DEFINE left == {i \in 1 .. Len(s) : s[i] >= c}
  <1>1. CASE left = {}
    <2>1. Since(s, c) = <<>>
      BY <1>1 DEF Since
    <2>2. SubSeq(s, Len(s) + 1, Len(s)) = <<>>
      OBVIOUS
    <2>3. \A i \in 1 .. Len(s) : s[i] < c
      BY <1>1
    <2>4. Len(s) \in 0 .. Len(s)
      OBVIOUS
    <2> QED BY <2>1, <2>2, <2>3, <2>4
  <1>2. CASE left # {}
    <2>1. left \subseteq Nat
      OBVIOUS
    <2>2. Min(left) \in left /\ \A i \in left : Min(left) <= i
      <3> HIDE DEF left
      <3> QED BY <1>2, <2>1, MinOfSome
    <2>3. Since(s, c) = SubSeq(s, Min(left), Len(s))
      BY <1>2 DEF Since
    <2> DEFINE m == Min(left)
    <2>4. m \in 1 .. Len(s) /\ s[m] >= c
      BY <2>2
    <2>5. \A i \in 1 .. Len(s) : i < m => s[i] < c
      BY <2>2
    <2>6. Since(s, c) = SubSeq(s, m, Len(s))
      BY <2>3
    <2> HIDE DEF m
    <2> DEFINE k == m - 1
    <2>7. k \in 0 .. Len(s) /\ k + 1 = m /\ \A i \in 1 .. k : i \in 1 .. Len(s) /\ i < m
      BY <2>4
    <2>8. /\ Since(s, c) = SubSeq(s, k + 1, Len(s)) /\ \A i \in 1 .. k : s[i] < c
          /\ s[k + 1] >= c
      <3> HIDE DEF k
      <3> QED BY <2>4, <2>5, <2>6, <2>7
    <2> HIDE DEF k
    <2> QED BY <2>7, <2>8
  <1> QED BY <1>1, <1>2

\* What is left is a sequence of times, none but those at its end.
LEMMA SinceType ==
  ASSUME NEW s \in Seq(Nat), NEW c \in Int
  PROVE  Since(s, c) \in Seq(Nat) /\ Len(Since(s, c)) \in Nat /\ Len(Since(s, c)) <= Len(s)
PROOF
  <1>1. PICK k \in 0 .. Len(s) : Since(s, c) = SubSeq(s, k + 1, Len(s))
    BY SinceFrom
  <1> QED BY <1>1

\* There is one place only at which it can begin.
LEMMA SinceUnique ==
  ASSUME NEW s \in Seq(Nat), NEW c \in Int, NEW k \in 0 .. Len(s),
         \A i \in 1 .. k : s[i] < c, k < Len(s) => s[k + 1] >= c
  PROVE  Since(s, c) = SubSeq(s, k + 1, Len(s))
PROOF
  <1>1. PICK j \in 0 .. Len(s) : /\ Since(s, c) = SubSeq(s, j + 1, Len(s))
                                 /\ \A i \in 1 .. j : s[i] < c
                                 /\ j < Len(s) => s[j + 1] >= c
    BY SinceFrom
  <1>2. \A i \in 1 .. Len(s) : s[i] \in Nat
    OBVIOUS
  <1>3. ~ (j < k)
    <2> SUFFICES ASSUME j < k PROVE FALSE
      OBVIOUS
    <2>1. j + 1 \in 1 .. k /\ j + 1 \in 1 .. Len(s) /\ j < Len(s)
      OBVIOUS
    <2> QED BY <1>1, <1>2, <2>1
  <1>4. ~ (k < j)
    <2> SUFFICES ASSUME k < j PROVE FALSE
      OBVIOUS
    <2>1. k + 1 \in 1 .. j /\ k + 1 \in 1 .. Len(s) /\ k < Len(s)
      OBVIOUS
    <2> QED BY <1>1, <1>2, <2>1
  <1>5. j = k
    BY <1>3, <1>4
  <1> QED BY <1>1, <1>5

\* To drop what is old now and then what is old later is to drop the latter.
LEMMA SinceSince ==
  ASSUME NEW s \in Seq(Nat), NEW c \in Int, NEW d \in Int, c <= d
  PROVE  Since(Since(s, c), d) = Since(s, d)
PROOF
  <1> DEFINE u == Since(s, c)
             n == Len(s)
  <1>0. u \in Seq(Nat) /\ n \in Nat
    BY SinceType
  <1>1. PICK j \in 0 .. n : /\ u = SubSeq(s, j + 1, n)
                            /\ \A i \in 1 .. j : s[i] < c
                            /\ j < n => s[j + 1] >= c
    BY SinceFrom
  <1>2. Len(u) = n - j /\ \A i \in 1 .. n - j : u[i] = s[j + i]
    BY <1>1
  <1> HIDE DEF u
  <1>3. PICK k \in 0 .. Len(u) : /\ Since(u, d) = SubSeq(u, k + 1, Len(u))
                                 /\ \A i \in 1 .. k : u[i] < d
                                 /\ k < Len(u) => u[k + 1] >= d
    BY <1>0, SinceFrom
  <1>4. Since(s, d) = SubSeq(s, j + k + 1, n)
    <2>1. j + k \in 0 .. n
      BY <1>0, <1>2, <1>3
    <2>2. \A i \in 1 .. j + k : s[i] < d
      <3> SUFFICES ASSUME NEW i \in 1 .. j + k PROVE s[i] < d
        OBVIOUS
      <3>1. s[i] \in Nat
        BY <1>0, <2>1
      <3>2. CASE i <= j
        BY <1>1, <3>1, <3>2
      <3>3. CASE i > j
        <4>1. i - j \in 1 .. k /\ i - j \in 1 .. n - j /\ j + (i - j) = i
          BY <1>0, <1>2, <1>3, <2>1, <3>3
        <4> QED BY <1>2, <1>3, <4>1
      <3> QED BY <3>2, <3>3
    <2>3. j + k < n => s[(j + k) + 1] >= d
      <3> SUFFICES ASSUME j + k < n PROVE s[(j + k) + 1] >= d
        OBVIOUS
      <3>1. k < Len(u) /\ k + 1 \in 1 .. n - j /\ j + (k + 1) = (j + k) + 1
        BY <1>0, <1>2, <1>3, <2>1
      <3>2. u[k + 1] >= d /\ u[k + 1] = s[j + (k + 1)]
        BY <1>2, <1>3, <3>1
      <3> QED BY <3>1, <3>2
    <2> QED BY <2>1, <2>2, <2>3, SinceUnique
  <1>5. SubSeq(u, k + 1, Len(u)) = SubSeq(s, j + k + 1, n)
    <2> DEFINE v == SubSeq(u, k + 1, Len(u))
               w == SubSeq(s, j + k + 1, n)
    <2>1. k \in 0 .. n - j /\ Len(u) = n - j /\ j + k \in 0 .. n
      BY <1>0, <1>2
    <2>2. v \in Seq(Nat) /\ Len(v) = Len(u) - k /\ \A i \in 1 .. Len(u) - k : v[i] = u[k + i]
      BY <1>0, <1>3, Suffix
    <2>3. w \in Seq(Nat) /\ Len(w) = n - (j + k) /\ \A i \in 1 .. n - (j + k) : w[i] = s[(j + k) + i]
      BY <2>1, Suffix
    <2> HIDE DEF v, w
    <2>4. Len(v) = Len(w) /\ Len(w) = n - (j + k)
      BY <1>0, <2>1, <2>2, <2>3
    <2>5. ASSUME NEW i \in 1 .. Len(v) PROVE v[i] = w[i]
      <3>1. /\ i \in 1 .. Len(u) - k /\ i \in 1 .. n - (j + k)
            /\ k + i \in 1 .. n - j /\ j + (k + i) = (j + k) + i
        BY <1>0, <2>1, <2>2, <2>4
      <3>2. v[i] = u[k + i] /\ w[i] = s[(j + k) + i] /\ u[k + i] = s[j + (k + i)]
        BY <1>2, <2>2, <2>3, <3>1
      <3> QED BY <3>1, <3>2
    <2>6. v = w
      BY <2>2, <2>3, <2>4, <2>5, SeqEqual
    <2> QED BY <2>6 DEF v, w
  <1> QED BY <1>3, <1>4, <1>5 DEF u

\* Nothing of what was just pruned, with the present added, is old.
LEMMA SinceAppend ==
  ASSUME NEW s \in Seq(Nat), NEW t \in Nat, NEW c \in Int, c <= t
  PROVE  Since(Append(Since(s, c), t), c) = Append(Since(s, c), t)
PROOF
  <1> DEFINE u == Since(s, c)
  <1>1. u \in Seq(Nat)
    BY SinceType
  <1>2. Append(u, t) \in Seq(Nat) /\ Len(Append(u, t)) = Len(u) + 1 /\ Len(u) \in Nat
    BY <1>1
  <1>3. Append(u, t)[1] >= c
    <2>1. CASE u = <<>>
      BY <2>1
    <2>2. CASE u # <<>>
      <3>1. PICK k \in 0 .. Len(s) : u = SubSeq(s, k + 1, Len(s)) /\ (k < Len(s) => s[k + 1] >= c)
        BY SinceFrom
      <3>2. k < Len(s)
        BY <2>2, <3>1
      <3>3. u[1] = s[k + 1]
        BY <3>1, <3>2
      <3>4. Append(u, t)[1] = u[1]
        <4> HIDE DEF u
        <4> QED BY <1>1, <2>2
      <3> QED BY <3>1, <3>2, <3>3, <3>4
    <2> QED BY <2>1, <2>2
  <1> HIDE DEF u
  <1>4. Since(Append(u, t), c) = SubSeq(Append(u, t), 1, Len(Append(u, t)))
    <2> DEFINE v == Append(u, t)
    <2>1. v \in Seq(Nat) /\ 0 \in 0 .. Len(v) /\ v[0 + 1] >= c
      BY <1>2, <1>3
    <2>2. \A i \in 1 .. 0 : v[i] < c
      OBVIOUS
    <2> HIDE DEF v
    <2>3. Since(v, c) = SubSeq(v, 0 + 1, Len(v))
      BY <2>1, <2>2, SinceUnique
    <2> QED BY <2>3 DEF v
  <1>5. SubSeq(Append(u, t), 1, Len(Append(u, t))) = Append(u, t)
    BY <1>2, SubSeqFull
  <1> QED BY <1>4, <1>5 DEF u

-----------------------------------------------------------------------------
(* The middleware                                                           *)

\* A limited window has in it what was admitted, once it is pruned, and no
\* more than the limit.
Windows ==
  \A b \in Bucket, ip \in Ip : Limit[b] > 0 =>
    recent[b][ip] = Pruned(hits[b][ip]) /\ Len(recent[b][ip]) <= Limit[b]

\* What the processes of today before this one may have let through, and what
\* this one has: the counter of the cap is of today, or from a day before.
Earlier == (starts - 1) * RiotDailyCap
Own == IF daily.day = Yday THEN daily.count ELSE 0

Budget ==
  /\ daily.day <= Yday
  /\ RiotDailyCap > 0 => /\ daily.count <= RiotDailyCap
                         /\ spent <= Earlier + Own
                         /\ starts = 1 => spent = Own

GateInv == GateTypeOK /\ Windows /\ Budget

\* _SlidingWindow.allow on one window of one address.
LEMMA AllowOne ==
  ASSUME GateInv, NEW b \in Bucket, NEW ip \in Ip
  PROVE  /\ Allow(b, ip) \in Seq(Nat)
         /\ Limit[b] > 0 /\ Room(b, ip) =>
              /\ Pruned(Allow(b, ip)) = Append(recent[b][ip], now)
              /\ Len(Append(recent[b][ip], now)) <= Limit[b]
         /\ Limit[b] > 0 /\ ~Room(b, ip) => Pruned(Allow(b, ip)) = recent[b][ip]
PROOF
  <1> DEFINE s == hits[b][ip]
             dq == Pruned(s)
             c == now - Window
  <1>1. /\ s \in Seq(Nat) /\ now \in Nat /\ c \in Int /\ c <= now /\ Limit[b] \in Int
        /\ recent[b][ip] \in Seq(Nat)
    BY GateAssumption DEF GateInv, GateTypeOK
  <1>2. dq \in Seq(Nat) /\ Len(dq) \in Nat
    BY <1>1, SinceType DEF Pruned
  <1>3. CASE ~(Limit[b] > 0)
    BY <1>1, <1>3 DEF Allow
  <1>4. CASE Limit[b] > 0
    <2>1. recent[b][ip] = dq
      BY <1>4 DEF GateInv, Windows
    <2>2. CASE Room(b, ip)
      <3>1. Len(dq) < Limit[b]
        BY <1>4, <2>2 DEF Room
      <3>2. Allow(b, ip) = Append(dq, now)
        BY <1>1, <1>4, <3>1 DEF Allow
      <3>3. Pruned(Append(dq, now)) = Append(dq, now)
        BY <1>1, SinceAppend DEF Pruned
      <3>4. Append(dq, now) \in Seq(Nat) /\ Len(Append(dq, now)) = Len(dq) + 1
        <4> HIDE DEF dq
        <4> QED BY <1>1, <1>2
      <3>5. Len(Append(dq, now)) <= Limit[b]
        <4> HIDE DEF dq
        <4> QED BY <1>1, <1>2, <3>1, <3>4
      <3> QED BY <2>1, <2>2, <3>2, <3>3, <3>4, <3>5
    <2>3. CASE ~Room(b, ip)
      <3>1. ~(Len(dq) < Limit[b])
        BY <1>4, <2>3 DEF Room
      <3>2. Allow(b, ip) = dq
        BY <1>1, <1>4, <3>1 DEF Allow
      <3>3. Pruned(dq) = dq
        BY <1>1, SinceSince DEF Pruned
      <3> QED BY <1>2, <2>1, <2>3, <3>2, <3>3
    <2> QED BY <2>2, <2>3
  <1> QED BY <1>3, <1>4

\* rate_limit_middleware consults one window or both.
LEMMA ConsultStep ==
  ASSUME GateInv, NEW ip \in Ip, NEW path \in Path, Consult(ip, path), now' = now
  PROVE  {hits', recent'} \subseteq [Bucket -> [Ip -> Seq(Nat)]] /\ Windows'
PROOF
  <1> DEFINE riot == IsRiot(path) /\ Room("all", ip)
             asked(b) == b = "all" \/ riot
  <1>0. /\ now \in Nat /\ hits \in [Bucket -> [Ip -> Seq(Nat)]] /\ recent \in [Bucket -> [Ip -> Seq(Nat)]]
        /\ \A b \in Bucket : hits[b] \in [Ip -> Seq(Nat)] /\ recent[b] \in [Ip -> Seq(Nat)]
    BY DEF GateInv, GateTypeOK
  <1>1. /\ hits' = [b \in Bucket |-> [hits[b] EXCEPT ![ip] = IF asked(b) THEN Allow(b, ip) ELSE hits[b][ip]]]
        /\ recent' = [b \in Bucket |-> [recent[b] EXCEPT ![ip] =
                        IF Room(b, ip) /\ (b = "riot" => riot) THEN Append(recent[b][ip], now) ELSE recent[b][ip]]]
    BY DEF Consult
  <1>2. \A b \in Bucket : asked(b) <=> (b = "riot" => riot)
    BY DEF Bucket
  <1>3. \A b \in Bucket : Allow(b, ip) \in Seq(Nat) /\ Append(recent[b][ip], now) \in Seq(Nat)
    BY <1>0, AllowOne
  <1> HIDE DEF riot, asked
  <1>4. {hits', recent'} \subseteq [Bucket -> [Ip -> Seq(Nat)]]
    <2>1. \A b \in Bucket : hits'[b] \in [Ip -> Seq(Nat)] /\ recent'[b] \in [Ip -> Seq(Nat)]
      BY <1>0, <1>1, <1>3
    <2> QED BY <1>1, <2>1
  <1>5. Windows'
    <2> SUFFICES ASSUME NEW b \in Bucket, NEW jp \in Ip, Limit[b] > 0
                 PROVE  recent'[b][jp] = Pruned(hits[b][jp])' /\ Len(recent'[b][jp]) <= Limit[b]
      BY DEF Windows
    <2>1. Pruned(hits[b][jp])' = Pruned(hits'[b][jp])
      BY DEF Pruned, Since
    <2>2. recent[b][jp] = Pruned(hits[b][jp]) /\ Len(recent[b][jp]) <= Limit[b]
      BY DEF GateInv, Windows
    <2>3. CASE jp # ip \/ ~asked(b)
      <3>1. hits'[b][jp] = hits[b][jp] /\ recent'[b][jp] = recent[b][jp]
        BY <1>0, <1>1, <1>2, <2>3
      <3> QED BY <2>1, <2>2, <3>1
    <2>4. CASE jp = ip /\ asked(b)
      <3>1. hits'[b][jp] = Allow(b, ip)
        BY <1>0, <1>1, <2>4
      <3>2. recent'[b][jp] = IF Room(b, ip) THEN Append(recent[b][ip], now) ELSE recent[b][ip]
        BY <1>0, <1>1, <1>2, <2>4
      <3> QED BY <2>1, <2>2, <2>4, <3>1, <3>2, AllowOne
    <2> QED BY <2>3, <2>4
  <1> QED BY <1>4, <1>5

\* A whole cap for each process.
LEMMA EarlierValue ==
  ASSUME starts \in Nat \ {0}
  PROVE  /\ Earlier \in Int /\ Earlier + RiotDailyCap = starts * RiotDailyCap
         /\ starts = 1 => Earlier = 0
PROOF
  <1>1. RiotDailyCap \in Int
    BY GateAssumption
  <1>2. (starts - 1) * RiotDailyCap + RiotDailyCap = starts * RiotDailyCap
    BY <1>1
  <1>3. starts = 1 => (starts - 1) * RiotDailyCap = 0
    BY <1>1
  <1> QED BY <1>1, <1>2, <1>3 DEF Earlier

\* _DailyCap.allow, and what goes through with it.
LEMMA SpendStep ==
  ASSUME GateInv, NEW path \in Path, now' = now, starts' = starts, Spend(path),
         \/ OverCap(path) /\ spent' = spent
         \/ ~OverCap(path) /\ spent' = IF path = "player" THEN spent + 1 ELSE spent
  PROVE  daily' \in [day : Int, count : Nat] /\ spent' \in Nat /\ Budget'
PROOF
  <1>1. /\ daily \in [day : Int, count : Nat] /\ spent \in Nat /\ RiotDailyCap \in Int
        /\ Yday \in Nat /\ Yday' = Yday /\ Earlier \in Int /\ Earlier' = Earlier
    BY GateAssumption, DayGrows, EarlierValue DEF GateInv, GateTypeOK, Yday, Earlier
  <1>2. daily.day \in Int /\ daily.count \in Nat
    BY <1>1
  <1> HIDE DEF Yday, Earlier
  <1>3. CASE path = "player" /\ RiotDailyCap > 0
    <2> DEFINE d == Today
    <2>1. /\ d \in [day : Int, count : Nat] /\ d.day = Yday /\ d.count <= RiotDailyCap
          /\ spent <= Earlier + d.count /\ (starts = 1 => spent = d.count)
      BY <1>1, <1>2, <1>3 DEF Today, GateInv, Budget, Own
    <2>2. daily' = [d EXCEPT !.count = IF d.count < RiotDailyCap THEN @ + 1 ELSE @]
      BY <1>3 DEF Spend, CapLeft
    <2> HIDE DEF d
    <2>3. daily'.day = Yday /\ daily'.count = (IF d.count < RiotDailyCap THEN d.count + 1 ELSE d.count)
      BY <2>1, <2>2
    <2>4. daily' \in [day : Int, count : Nat] /\ daily'.count <= RiotDailyCap
      BY <1>1, <2>1, <2>2, <2>3
    <2>5. OverCap(path) <=> ~(d.count < RiotDailyCap)
      BY <1>3 DEF OverCap, CapLeft, d
    <2>6. spent' <= Earlier + daily'.count /\ (starts = 1 => spent' = daily'.count) /\ spent' \in Nat
      BY <1>1, <1>3, <2>1, <2>3, <2>5
    <2>7. Own' = daily'.count
      BY <1>1, <2>3 DEF Own
    <2> QED BY <1>1, <2>3, <2>4, <2>6, <2>7 DEF Budget
  <1>4. CASE ~(path = "player" /\ RiotDailyCap > 0)
    <2>1. daily' = daily /\ (RiotDailyCap > 0 => spent' = spent) /\ spent' \in Nat
      BY <1>1, <1>4 DEF Spend
    <2> QED BY <1>1, <1>2, <2>1 DEF GateInv, Budget, Own
  <1> QED BY <1>3, <1>4

\* A request that arrives, on each of its three ways.
LEMMA RequestStep ==
  ASSUME GateInv, NEW ip \in Ip, NEW path \in Path, now' = now,
         TooManyRequests(ip, path) \/ Unavailable(ip, path) \/ Through(ip, path)
  PROVE  GateInv'
PROOF
  <1>1. Consult(ip, path)
    BY DEF TooManyRequests, Unavailable, Through
  <1>2. {hits', recent'} \subseteq [Bucket -> [Ip -> Seq(Nat)]] /\ Windows'
    BY <1>1, ConsultStep
  <1>3. daily' \in [day : Int, count : Nat] /\ spent' \in Nat /\ starts' = starts /\ Budget'
    <2>1. CASE TooManyRequests(ip, path)
      <3>1. daily' = daily /\ spent' = spent /\ starts' = starts /\ Yday' = Yday
        BY <2>1 DEF TooManyRequests, Yday
      <3> QED BY <3>1 DEF GateInv, GateTypeOK, Budget, Own, Earlier
    <2>2. CASE Unavailable(ip, path)
      BY <2>2, SpendStep DEF Unavailable
    <2>3. CASE Through(ip, path)
      BY <2>3, SpendStep DEF Through
    <2> QED BY <2>1, <2>2, <2>3
  <1>4. now' \in Nat
    BY DEF GateInv, GateTypeOK
  <1> QED BY <1>2, <1>3, <1>4 DEF GateInv, GateTypeOK

\* Time passes: requests grow old, and a day ends.
LEMMA TickGateStep == ASSUME GateInv, TickGate PROVE GateInv'
PROOF
  <1>1. /\ now \in Nat /\ now' = now + 1 /\ now' \in Nat /\ hits' = hits /\ daily' = daily
        /\ recent' = [b \in Bucket |-> [ip \in Ip |-> Since(recent[b][ip], now' - Window)]]
        /\ spent' = (IF Yday' = Yday THEN spent ELSE 0) /\ spent' \in Nat
        /\ starts' = (IF Yday' = Yday THEN starts ELSE 1) /\ starts' \in Nat \ {0}
    BY DEF TickGate, GateInv, GateTypeOK
  <1>2. /\ hits \in [Bucket -> [Ip -> Seq(Nat)]] /\ recent \in [Bucket -> [Ip -> Seq(Nat)]]
        /\ Window \in Nat /\ daily \in [day : Int, count : Nat]
    BY GateAssumption DEF GateInv, GateTypeOK
  <1>3. now' - Window \in Int /\ now - Window \in Int /\ now - Window <= now' - Window
    BY <1>1, <1>2
  <1>4. \A b \in Bucket, ip \in Ip : /\ recent[b][ip] \in Seq(Nat) /\ hits[b][ip] \in Seq(Nat)
                                     /\ recent'[b][ip] = Since(recent[b][ip], now' - Window)
    BY <1>1, <1>2
  <1>5. recent' \in [Bucket -> [Ip -> Seq(Nat)]]
    <2>1. \A b \in Bucket, ip \in Ip : Since(recent[b][ip], now' - Window) \in Seq(Nat)
      BY <1>3, <1>4, SinceType
    <2> QED BY <1>1, <2>1
  <1>6. Windows'
    <2> SUFFICES ASSUME NEW b \in Bucket, NEW ip \in Ip, Limit[b] > 0
                 PROVE  recent'[b][ip] = Pruned(hits[b][ip])' /\ Len(recent'[b][ip]) <= Limit[b]
      BY DEF Windows
    <2>1. recent[b][ip] = Since(hits[b][ip], now - Window) /\ Len(recent[b][ip]) <= Limit[b]
      BY DEF GateInv, Windows, Pruned
    <2>2. recent'[b][ip] = Since(hits[b][ip], now' - Window)
      BY <1>3, <1>4, <2>1, SinceSince
    <2>3. Pruned(hits[b][ip])' = Since(hits[b][ip], now' - Window)
      BY <1>1 DEF Pruned, Since
    <2>4. Len(recent'[b][ip]) <= Len(recent[b][ip]) /\ Len(recent'[b][ip]) \in Nat /\ Len(recent[b][ip]) \in Nat
      BY <1>3, <1>4, SinceType
    <2> QED BY <2>1, <2>2, <2>3, <2>4, GateAssumption
  <1>7. Budget'
    <2>1. Yday \in Nat /\ Yday' \in Nat /\ Yday <= Yday'
      BY <1>1, GateAssumption, DayGrows DEF Yday
    <2>2. daily.day \in Int /\ daily.count \in Nat
      BY <1>2
    <2>3. CASE Yday' = Yday
      <3>1. Earlier' = Earlier /\ Own' = Own
        BY <1>1, <2>3 DEF Earlier, Own
      <3> QED BY <1>1, <2>3, <3>1 DEF GateInv, Budget
    <2>4. CASE Yday' # Yday
      <3>1. starts' = 1 /\ spent' = 0 /\ Earlier' = 0
        BY <1>1, <2>4, GateAssumption DEF Earlier
      <3>2. daily'.day < Yday' /\ Own' = 0
        <4> HIDE DEF Yday
        <4> QED BY <1>1, <2>1, <2>2, <2>4 DEF Own, GateInv, Budget
      <3> QED BY <1>1, <2>1, <2>2, <3>1, <3>2 DEF GateInv, Budget
    <2> QED BY <2>3, <2>4
  <1> QED BY <1>1, <1>2, <1>5, <1>6, <1>7 DEF GateInv, GateTypeOK

\* The API process starts with empty windows and an untouched cap.
LEMMA GateFresh ==
  ASSUME NEW t \in Nat
  PROVE  /\ [b \in Bucket |-> [ip \in Ip |-> <<>>]] \in [Bucket -> [Ip -> Seq(Nat)]]
         /\ \A c \in Int : Since(<<>>, c) = <<>>
         /\ [day |-> -1, count |-> 0] \in [day : Int, count : Nat]
BY DEF Since

\* What the invariant says of the three properties of the middleware.
LEMMA GateProperties == GateInv => WindowBound /\ RetrySuffices /\ DailyBudget
PROOF
  <1> SUFFICES ASSUME GateInv PROVE WindowBound /\ RetrySuffices /\ DailyBudget
    OBVIOUS
  <1>1. WindowBound
    BY DEF GateInv, Windows, WindowBound
  <1>2. RetrySuffices
    <2> SUFFICES ASSUME NEW b \in Bucket, NEW ip \in Ip, ~Room(b, ip)
                 PROVE  LET dq == Pruned(hits[b][ip])
                            then == now + TicksPerSec * Retry(dq)
                        IN  Len(Since(dq, then - Window)) < Limit[b]
      BY DEF RetrySuffices
    <2> DEFINE dq == Pruned(hits[b][ip])
               x == Window - (now - Head(dq))
               then == now + TicksPerSec * Retry(dq)
    <2>1. Limit[b] > 0 /\ ~(Len(dq) < Limit[b])
      BY DEF Room
    <2>2. dq = recent[b][ip] /\ Len(dq) <= Limit[b]
      BY <2>1 DEF GateInv, Windows
    <2>3. /\ dq \in Seq(Nat) /\ now \in Nat /\ Window \in Nat /\ TicksPerSec \in Nat \ {0}
          /\ Limit[b] \in Int
      BY <2>2, GateAssumption DEF GateInv, GateTypeOK
    <2> HIDE DEF dq
    <2>4. Len(dq) = Limit[b] /\ Len(dq) > 0 /\ Head(dq) \in Nat /\ dq[1] = Head(dq)
      BY <2>1, <2>2, <2>3
    <2>5. x \in Int /\ x \div TicksPerSec \in Int /\ TicksPerSec * (x \div TicksPerSec + 1) > x
      <3>1. x \in Int
        BY <2>3, <2>4
      <3> HIDE DEF x
      <3> QED BY <2>3, <3>1, RoundedUp
    <2>6. Retry(dq) = Max({1, x \div TicksPerSec + 1})
      BY DEF Retry
    <2> DEFINE q == x \div TicksPerSec + 1
    <2>7. q \in Int /\ TicksPerSec * q > x /\ Retry(dq) = Max({1, q})
      BY <2>5, <2>6
    <2> HIDE DEF q, x
    <2>8. Retry(dq) \in Int /\ Retry(dq) >= q
      BY <2>7, MaxOfTwo
    <2>9. TicksPerSec * Retry(dq) \in Int /\ TicksPerSec * Retry(dq) >= TicksPerSec * q
      BY <2>3, <2>7, <2>8
    <2>10. then - Window \in Int /\ Head(dq) < then - Window
      <3> DEFINE wait == TicksPerSec * Retry(dq)
                 some == TicksPerSec * q
      <3>1. wait \in Int /\ wait >= some /\ some > x /\ some \in Int
        BY <2>3, <2>7, <2>9
      <3>2. then = now + wait /\ x = Window - (now - Head(dq)) /\ x \in Int
        BY <2>5 DEF x
      <3> HIDE DEF wait, some, then
      <3> QED BY <2>3, <2>4, <3>1, <3>2
    <2> HIDE DEF then
    <2>11. PICK k \in 0 .. Len(dq) : /\ Since(dq, then - Window) = SubSeq(dq, k + 1, Len(dq))
                                     /\ k < Len(dq) => dq[k + 1] >= then - Window
      BY <2>3, <2>10, SinceFrom
    <2>12. k # 0
      BY <2>4, <2>10, <2>11
    <2>13. Len(Since(dq, then - Window)) = Len(dq) - k
      BY <2>3, <2>11, Suffix
    <2>14. Len(Since(dq, then - Window)) < Limit[b]
      BY <2>3, <2>4, <2>12, <2>13
    <2> QED BY <2>14 DEF dq, then
  <1>3. DailyBudget
    <2>1. /\ daily \in [day : Int, count : Nat] /\ spent \in Nat /\ RiotDailyCap \in Int
          /\ daily.day \in Int /\ daily.count \in Nat
      BY GateAssumption DEF GateInv, GateTypeOK
    <2>2. /\ Earlier \in Int /\ Earlier + RiotDailyCap = starts * RiotDailyCap
          /\ (starts = 1 => Earlier = 0)
      BY EarlierValue DEF GateInv, GateTypeOK
    <2>3. starts * RiotDailyCap \in Int
      BY <2>1 DEF GateInv, GateTypeOK
    <2>4. Today.count = Own
      BY DEF Today, Own
    <2>5. RiotDailyCap > 0 => Own \in Nat /\ Own <= RiotDailyCap
      BY <2>1 DEF Own, GateInv, Budget
    <2>6. RiotDailyCap > 0 => spent <= Earlier + Own
      BY DEF GateInv, Budget
    <2>7. RiotDailyCap > 0 => spent <= starts * RiotDailyCap
      <3> DEFINE all == starts * RiotDailyCap
      <3>1. all \in Int /\ Earlier + RiotDailyCap = all
        BY <2>2, <2>3
      <3> HIDE DEF all, Earlier, Own
      <3>2. RiotDailyCap > 0 => spent <= all
        BY <2>1, <2>2, <2>5, <2>6, <3>1
      <3> QED BY <3>2 DEF all
    <2>8. RiotDailyCap > 0 /\ starts = 1 => (CapLeft(Today) <=> spent < RiotDailyCap)
      BY <2>4 DEF CapLeft, GateInv, Budget
    <2> QED BY <2>7, <2>8 DEF DailyBudget
  <1> QED BY <1>1, <1>2, <1>3

-----------------------------------------------------------------------------
(* Histories                                                                *)

\* The dates of a history grow, up to d.
Dated(hist, d) == Ordered(hist) /\ \A i \in 1 .. Len(hist) : hist[i].date <= d

\* record_rank keeps the last Keep snapshots.
LEMMA LatestSuffix ==
  ASSUME NEW hist \in Seq(Snapshot)
  PROVE  \E k \in 0 .. Len(hist) : /\ Latest(hist) = SubSeq(hist, k + 1, Len(hist))
                                   /\ Len(hist) - k <= Keep
                                   /\ hist # <<>> => k < Len(hist)
PROOF
  <1>1. Len(hist) \in Nat /\ Keep \in Nat \ {0} /\ Len(hist) - Keep + 1 \in Int
    BY PlayerAssumption
  <1> DEFINE k == IF Len(hist) > Keep THEN Len(hist) - Keep ELSE 0
  <1>2. Max({1, Len(hist) - Keep + 1}) = k + 1
    <2>1. Max({1, Len(hist) - Keep + 1}) = IF 1 >= Len(hist) - Keep + 1 THEN 1 ELSE Len(hist) - Keep + 1
      BY <1>1, MaxOfTwo
    <2> QED BY <1>1, <2>1
  <1>3. k \in 0 .. Len(hist) /\ Len(hist) - k <= Keep /\ (hist # <<>> => k < Len(hist))
    BY <1>1
  <1>4. Latest(hist) = SubSeq(hist, k + 1, Len(hist))
    BY <1>2 DEF Latest
  <1> HIDE DEF k
  <1> QED BY <1>3, <1>4

\* The last snapshot is always kept, and what is kept of a history in order is
\* in order.
LEMMA LatestHistory ==
  ASSUME NEW hist \in Seq(Snapshot), NEW d \in Nat
  PROVE  /\ Latest(hist) \in History /\ (Dated(hist, d) => Dated(Latest(hist), d))
         /\ hist # <<>> => Latest(hist) # <<>> /\ Last(Latest(hist)) = Last(hist)
PROOF
  <1>1. PICK k \in 0 .. Len(hist) : /\ Latest(hist) = SubSeq(hist, k + 1, Len(hist))
                                    /\ Len(hist) - k <= Keep
                                    /\ hist # <<>> => k < Len(hist)
    BY LatestSuffix
  <1> DEFINE u == Latest(hist)
  <1>2. u \in Seq(Snapshot) /\ Len(u) = Len(hist) - k /\ \A i \in 1 .. Len(hist) - k : u[i] = hist[k + i]
    BY <1>1, Suffix
  <1>3. Len(hist) \in Nat
    OBVIOUS
  <1> HIDE DEF u
  <1>4. u \in History
    BY <1>1, <1>2 DEF History
  <1>5. ASSUME Dated(hist, d) PROVE Dated(u, d)
    <2>1. ASSUME NEW i \in 1 .. Len(u) PROVE u[i].date <= d
      <3>1. k + i \in 1 .. Len(hist) /\ i \in 1 .. Len(hist) - k
        BY <1>2, <1>3
      <3> QED BY <1>2, <1>5, <3>1 DEF Dated
    <2>2. ASSUME NEW i \in 1 .. Len(u) - 1 PROVE u[i].date < u[i + 1].date
      <3>1. /\ k + i \in 1 .. Len(hist) - 1 /\ i \in 1 .. Len(hist) - k /\ i + 1 \in 1 .. Len(hist) - k
            /\ (k + i) + 1 = k + (i + 1)
        BY <1>2, <1>3
      <3>2. u[i] = hist[k + i] /\ u[i + 1] = hist[k + (i + 1)]
        BY <1>2, <3>1
      <3>3. hist[k + i].date < hist[(k + i) + 1].date
        BY <1>5, <3>1 DEF Dated, Ordered
      <3> QED BY <3>1, <3>2, <3>3
    <2> QED BY <2>1, <2>2 DEF Dated, Ordered
  <1>6. ASSUME hist # <<>> PROVE u # <<>> /\ Last(u) = Last(hist)
    <2> DEFINE n == Len(hist) - k
    <2>1. n \in 1 .. n /\ k + n = Len(hist) /\ Len(u) = n
      BY <1>1, <1>2, <1>3, <1>6
    <2>2. u[n] = hist[k + n]
      BY <1>2, <2>1
    <2> HIDE DEF n
    <2> QED BY <1>2, <2>1, <2>2 DEF Last
  <1> QED BY <1>4, <1>5, <1>6 DEF u

\* record_rank: today's snapshot takes the place of an earlier one of today,
\* or comes behind those of the days before, or is not needed.
LEMMA RecordedHistory ==
  ASSUME NEW hist \in History, NEW d \in Nat, NEW rank \in Rank
  PROVE  /\ Recorded(hist, d, rank) \in History /\ (Dated(hist, d) => Dated(Recorded(hist, d, rank), d))
         /\ Recorded(hist, d, rank) # <<>> /\ Last(Recorded(hist, d, rank)).rank = rank
PROOF
  <1> DEFINE snap == [date |-> d, rank |-> rank, rating |-> RankValue(rank)]
             n == Len(hist)
  <1>0. hist \in Seq(Snapshot) /\ n \in Nat /\ snap \in Snapshot /\ snap.date = d /\ snap.rank = rank
        /\ \A i \in 1 .. n : hist[i] \in Snapshot /\ hist[i].date \in Nat
    <2>1. hist \in Seq(Snapshot)
      BY DEF History
    <2>2. n \in Nat /\ \A i \in 1 .. n : hist[i] \in Snapshot
      BY <2>1
    <2>3. \A x \in Snapshot : x.date \in Nat
      BY DEF Snapshot
    <2>4. snap \in Snapshot /\ snap.date = d /\ snap.rank = rank
      BY DEF Snapshot
    <2> QED BY <2>1, <2>2, <2>3, <2>4
  <1> HIDE DEF snap
  <1>1. CASE hist # <<>> /\ Last(hist).date = d
    <2> DEFINE u == [hist EXCEPT ![Len(hist)] = snap]
    <2>1. Recorded(hist, d, rank) = Latest(u)
      BY <1>1 DEF Recorded, snap
    <2>2. n >= 1 /\ hist[n].date = d
      BY <1>0, <1>1 DEF Last
    <2>3. u \in Seq(Snapshot) /\ Len(u) = n /\ u[n] = snap /\ \A i \in 1 .. n - 1 : u[i] = hist[i]
      BY <1>0, <2>2
    <2> HIDE DEF u
    <2>4. ASSUME Dated(hist, d) PROVE Dated(u, d)
      <3>1. ASSUME NEW i \in 1 .. Len(u) PROVE u[i].date <= d
        <4>1. CASE i = n
          BY <1>0, <2>3, <4>1
        <4>2. CASE i # n
          BY <1>0, <2>3, <2>4, <4>2 DEF Dated
        <4> QED BY <4>1, <4>2
      <3>2. ASSUME NEW i \in 1 .. Len(u) - 1 PROVE u[i].date < u[i + 1].date
        <4>1. u[i] = hist[i] /\ hist[i].date < hist[i + 1].date
          BY <2>3, <2>4, <3>2 DEF Dated, Ordered
        <4>2. u[i + 1].date = hist[i + 1].date
          <5>1. CASE i + 1 = n
            BY <1>0, <2>2, <2>3, <5>1
          <5>2. CASE i + 1 # n
            BY <1>0, <2>3, <5>2
          <5> QED BY <5>1, <5>2
        <4> QED BY <4>1, <4>2
      <3> QED BY <3>1, <3>2 DEF Dated, Ordered
    <2>5. u # <<>> /\ Last(u).rank = rank
      BY <1>0, <2>2, <2>3 DEF Last
    <2> QED BY <2>1, <2>3, <2>4, <2>5, LatestHistory
  <1>2. CASE hist # <<>> /\ Last(hist).date # d /\ Last(hist).rank = rank
    <2>1. Recorded(hist, d, rank) = Latest(hist)
      BY <1>2 DEF Recorded
    <2> QED BY <1>0, <1>2, <2>1, LatestHistory
  <1>3. CASE hist = <<>> \/ (Last(hist).date # d /\ Last(hist).rank # rank)
    <2> DEFINE u == Append(hist, snap)
    <2>1. Recorded(hist, d, rank) = Latest(u)
      BY <1>3 DEF Recorded, snap
    <2>2. u \in Seq(Snapshot) /\ Len(u) = n + 1 /\ u[n + 1] = snap /\ \A i \in 1 .. n : u[i] = hist[i]
      BY <1>0
    <2> HIDE DEF u
    <2>3. ASSUME Dated(hist, d) PROVE Dated(u, d)
      <3>1. ASSUME NEW i \in 1 .. Len(u) PROVE u[i].date <= d
        <4>1. CASE i = n + 1
          BY <1>0, <2>2, <4>1
        <4>2. CASE i # n + 1
          BY <1>0, <2>2, <2>3, <4>2 DEF Dated
        <4> QED BY <4>1, <4>2
      <3>2. ASSUME NEW i \in 1 .. Len(u) - 1 PROVE u[i].date < u[i + 1].date
        <4>1. CASE i = n
          <5>1. n >= 1 /\ hist # <<>> /\ Last(hist) = hist[n]
            BY <1>0, <2>2, <3>2, <4>1 DEF Last
          <5>2. hist[n].date # d /\ hist[n].date <= d /\ hist[n].date \in Nat
            BY <1>0, <1>3, <2>3, <5>1 DEF Dated
          <5> QED BY <1>0, <2>2, <4>1, <5>1, <5>2
        <4>2. CASE i # n
          <5>1. i \in 1 .. n - 1 /\ i + 1 \in 1 .. n /\ i \in 1 .. n
            BY <1>0, <2>2, <3>2, <4>2
          <5> QED BY <2>2, <2>3, <5>1 DEF Dated, Ordered
        <4> QED BY <4>1, <4>2
      <3> QED BY <3>1, <3>2 DEF Dated, Ordered
    <2>4. u # <<>> /\ Last(u).rank = rank
      BY <1>0, <2>2 DEF Last
    <2> QED BY <2>1, <2>2, <2>3, <2>4, LatestHistory
  <1> QED BY <1>1, <1>2, <1>3

-----------------------------------------------------------------------------
(* record_rank                                                              *)

Recording(th) == th.pc \in {"snap", "open", "write", "replace"}

\* Histories in order, of today at the latest.
GoodStore(s) == s \in Store /\ \A p \in PlayerId : Dated(s[p], Yday + 1)

\* The history of a thread's answer ends with the rank it found.
Ranked(th) ==
  LET hist == th.store[th.query.player] IN hist # <<>> /\ Last(hist).rank = th.rank

ThreadSound(th) ==
  /\ th.pc \notin {"new", "over"} => th.query # NoQuery
  /\ Recording(th) => th.rank \in Rank
  /\ th.fd \in Inode /\ (th.pc = "write" => th.fd # None)
  /\ GoodStore(th.store)
  /\ th.pc \in {"open", "write", "replace", "matches", "done"} /\ th.rank # Unranked => Ranked(th)

\* The history file with the rank of a thread recorded in it.
WithRank(th) ==
  [kept EXCEPT ![th.query.player] = Recorded(kept[th.query.player], th.date, th.rank)]

\* What a thread that is alone in record_rank has in its hands.
Alone(th) ==
  /\ th.pc = "snap" => th.store = kept
  /\ th.pc \in {"open", "write", "replace"} => th.store = WithRank(th)
  /\ th.pc = "write" => th.fd = tmp /\ data[tmp] = Torn
  /\ th.pc = "replace" => tmp # None /\ data[tmp] = th.store

RecordTypes ==
  /\ known \subseteq PlayerId /\ {live, tmp} \subseteq Inode
  /\ data \in Seq(Store \cup {Torn}) /\ kept \in Store
  /\ thread \in [Request -> Thread]
  /\ overlap \in BOOLEAN /\ crashes \in Nat

Threads == \A r \in Request : ThreadSound(thread[r])
FilesApart == tmp = None \/ tmp # live
Dates == \A i \in 1 .. Len(data) : data[i] = Torn \/ GoodStore(data[i])
Serial ==
  ~overlap => /\ \A r, s \in Request : Recording(thread[r]) /\ Recording(thread[s]) => r = s
              /\ \A r \in Request : Alone(thread[r])
              /\ Content(live) = kept

RecordInv == RecordTypes /\ Threads /\ FilesApart /\ Dates /\ Serial

PlayerInv == GateInv /\ RecordInv

\* Nobody's history is in order, and a thread that has not begun, or is over,
\* is in nobody's way.
LEMMA FreshThread ==
  ASSUME now \in Nat
  PROVE  /\ NoHistory \in Store /\ GoodStore(NoHistory)
         /\ New \in Thread /\ Over \in Thread
         /\ ThreadSound(New) /\ ThreadSound(Over) /\ Alone(New) /\ Alone(Over)
         /\ ~Recording(New) /\ ~Recording(Over)
PROOF
  <1>1. <<>> \in History /\ Dated(<<>>, Yday + 1)
    BY PlayerAssumption DEF History, Dated, Ordered
  <1>2. NoHistory \in Store /\ GoodStore(NoHistory)
    BY <1>1 DEF NoHistory, Store, GoodStore
  <1>3. New \in Thread
    <2>1. NoQuery \in Asked /\ <<>> \in Parsed /\ Unranked \in CurrentRank
      BY DEF Asked, Parsed, CurrentRank
    <2> QED BY <1>2, <2>1 DEF New, Thread
  <1>4. Over \in Thread /\ Over.store = New.store /\ Over.fd = New.fd /\ Over.pc = "over"
    BY <1>3 DEF Over, Thread
  <1>5. New.store = NoHistory /\ New.fd = None /\ New.pc = "new"
    BY DEF New
  <1> QED BY <1>2, <1>3, <1>4, <1>5 DEF ThreadSound, Alone, Recording, Inode

\* The player a request asks for.
LEMMA QueryPlayer ==
  ASSUME NEW th \in Thread, th.query # NoQuery
  PROVE  th.query.player \in PlayerId
PROOF
  <1>1. th.query \in Asked
    BY DEF Thread
  <1>2. PICK r \in Request : th.query \in Query[r]
    BY <1>1 DEF Asked
  <1>3. th.query \in [ip : Ip, path : Path, player : PlayerId, valid : BOOLEAN, key : BOOLEAN, tag : BOOLEAN]
    BY <1>2, PlayerAssumption
  <1> QED BY <1>3

\* _load_store finds a history in order.
LEMMA ContentGood ==
  ASSUME RecordInv, now \in Nat, NEW i \in Inode
  PROVE  Content(i) \in Store /\ GoodStore(Content(i))
PROOF
  <1>1. CASE i = None \/ data[i] = Torn
    BY <1>1, FreshThread DEF Content
  <1>2. CASE i # None /\ data[i] # Torn
    BY <1>2 DEF Content, RecordInv, Dates, Inode, GoodStore
  <1> QED BY <1>1, <1>2

\* A step of one thread that leaves the files alone.
LEMMA ThreadStep ==
  ASSUME PlayerInv, NEW r \in Request, NEW th \in Thread,
         thread' = [thread EXCEPT ![r] = th], UNCHANGED <<files, kept, crashes>>, now' = now,
         known' \subseteq PlayerId, overlap' \in BOOLEAN, overlap => overlap',
         ThreadSound(th),
         ~overlap' => /\ Alone(th)
                      /\ Recording(th) => \A s \in Request \ {r} : ~Recording(thread[s])
  PROVE  RecordInv'
PROOF
  <1>1. live' = live /\ tmp' = tmp /\ data' = data /\ kept' = kept /\ crashes' = crashes /\ Inode' = Inode
    BY DEF files, Inode
  <1>2. \A x : GoodStore(x)' <=> GoodStore(x)
    BY DEF GoodStore, Yday
  <1>3. thread'[r] = th /\ \A s \in Request \ {r} : thread'[s] = thread[s]
    BY DEF PlayerInv, RecordInv, RecordTypes
  <1>4. RecordTypes'
    BY <1>1 DEF PlayerInv, RecordInv, RecordTypes
  <1>5. Threads'
    <2> SUFFICES ASSUME NEW s \in Request PROVE ThreadSound(thread[s])'
      BY DEF Threads
    <2>1. ThreadSound(thread'[s])
      BY <1>3 DEF PlayerInv, RecordInv, Threads
    <2> QED BY <1>1, <1>2, <2>1 DEF ThreadSound
  <1>6. FilesApart' /\ Dates'
    BY <1>1, <1>2 DEF PlayerInv, RecordInv, FilesApart, Dates
  <1>7. Serial'
    <2> SUFFICES ASSUME ~overlap'
                 PROVE  /\ \A q, s \in Request : Recording(thread'[q]) /\ Recording(thread'[s]) => q = s
                        /\ \A s \in Request : Alone(thread[s])'
                        /\ Content(live)' = kept'
      BY DEF Serial, Recording
    <2>1. /\ \A q, s \in Request : Recording(thread[q]) /\ Recording(thread[s]) => q = s
          /\ \A s \in Request : Alone(thread[s])
          /\ Content(live) = kept
      BY DEF PlayerInv, RecordInv, Serial
    <2>2. \A q, s \in Request : Recording(thread'[q]) /\ Recording(thread'[s]) => q = s
      BY <1>3, <2>1
    <2>3. ASSUME NEW s \in Request PROVE Alone(thread[s])'
      <3>1. Alone(thread'[s])
        BY <1>3, <2>1
      <3> QED BY <1>1, <3>1 DEF Alone, WithRank
    <2>4. Content(live)' = kept'
      BY <1>1, <2>1 DEF Content
    <2> QED BY <2>2, <2>3, <2>4
  <1> QED BY <1>4, <1>5, <1>6, <1>7 DEF RecordInv

\* The middleware where it does nothing.
LEMMA GateSame ==
  ASSUME GateInv, UNCHANGED <<now, gate>>
  PROVE  GateInv'
PROOF
  <1>1. /\ now' = now /\ hits' = hits /\ daily' = daily /\ recent' = recent /\ spent' = spent
        /\ starts' = starts
    BY DEF gate
  <1> QED BY <1>1 DEF GateInv, GateTypeOK, Windows, Budget, Pruned, Yday, Own, Earlier

\* The dates of a history are numbers.
LEMMA DateTypes ==
  ASSUME NEW hist \in History
  PROVE  \A i \in 1 .. Len(hist) : hist[i].date \in Nat
PROOF
  <1>1. \A i \in 1 .. Len(hist) : hist[i] \in Snapshot
    BY DEF History
  <1>2. \A x \in Snapshot : x.date \in Nat
    BY DEF Snapshot
  <1> QED BY <1>1, <1>2

\* Facts every step starts from.
LEMMA Facts ==
  ASSUME PlayerInv, NEW r \in Request
  PROVE  /\ now \in Nat /\ Yday + 1 \in Nat /\ overlap \in BOOLEAN /\ known \subseteq PlayerId
         /\ thread \in [Request -> Thread] /\ thread[r] \in Thread /\ ThreadSound(thread[r])
         /\ live \in Inode /\ tmp \in Inode
PROOF
  <1>1. now \in Nat
    BY DEF PlayerInv, GateInv, GateTypeOK
  <1>2. Yday + 1 \in Nat
    BY <1>1, GateAssumption DEF Yday
  <1> QED BY <1>1, <1>2 DEF PlayerInv, RecordInv, RecordTypes, Threads

\* A thread that leaves record_rank, or was never in it.
LEMMA OutOfTheWay ==
  ASSUME PlayerInv, NEW r \in Request, NEW th \in Thread, ~Recording(th), ThreadSound(th),
         thread' = [thread EXCEPT ![r] = th], UNCHANGED <<files, kept, overlap, crashes>>, now' = now,
         known' \subseteq PlayerId
  PROVE  RecordInv'
PROOF
  <1>1. Alone(th)
    BY DEF Alone, Recording
  <1>2. overlap' \in BOOLEAN /\ (overlap => overlap')
    BY Facts
  <1> QED BY <1>1, <1>2, ThreadStep

\* A request arrives and is answered at once, or asks for an account.
LEMMA ArriveStep ==
  ASSUME PlayerInv, NEW r \in Request, Arrive(r)
  PROVE  RecordInv'
PROOF
  <1>1. UNCHANGED <<now, known, files, kept, overlap, crashes>>
    BY DEF Arrive
  <1>2. PICK q \in Query[r] : thread' = [thread EXCEPT ![r] = Over]
                              \/ thread' = [thread EXCEPT ![r] = [New EXCEPT !.pc = "account", !.query = q]]
    BY DEF Arrive
  <1>3. now' = now /\ known' \subseteq PlayerId /\ UNCHANGED <<files, kept, overlap, crashes>> /\ now \in Nat
    BY <1>1, Facts
  <1>4. CASE thread' = [thread EXCEPT ![r] = Over]
    BY <1>3, <1>4, FreshThread, OutOfTheWay
  <1>5. CASE thread' = [thread EXCEPT ![r] = [New EXCEPT !.pc = "account", !.query = q]]
    <2> DEFINE th == [New EXCEPT !.pc = "account", !.query = q]
    <2>1. q \in Asked /\ q # NoQuery
      BY PlayerAssumption DEF Asked
    <2>2. New \in Thread /\ ThreadSound(New)
      BY <1>3, FreshThread
    <2>3. /\ th \in Thread /\ th.pc = "account" /\ th.query = q /\ th.store = New.store /\ th.fd = New.fd
      BY <2>1, <2>2 DEF Thread
    <2> HIDE DEF th
    <2>4. ThreadSound(th) /\ ~Recording(th)
      BY <2>1, <2>2, <2>3 DEF ThreadSound, Recording
    <2> QED BY <1>3, <1>5, <2>3, <2>4, OutOfTheWay DEF th
  <1> QED BY <1>2, <1>4, <1>5

\* Riot's answers, but the one that leads to record_rank, and the reply.
LEMMA AnswerStep ==
  ASSUME PlayerInv, NEW r \in Request, RiotError(r) \/ NotFound(r) \/ Reply(r)
  PROVE  RecordInv'
PROOF
  <1>1. thread' = [thread EXCEPT ![r] = Over] /\ UNCHANGED <<calm, known>>
    BY DEF RiotError, NotFound, Reply
  <1>2. now' = now /\ known' \subseteq PlayerId /\ UNCHANGED <<files, kept, overlap, crashes>> /\ now \in Nat
    BY <1>1, Facts DEF calm, files
  <1> QED BY <1>1, <1>2, FreshThread, OutOfTheWay

LEMMA AccountStep ==
  ASSUME PlayerInv, NEW r \in Request, Account(r)
  PROVE  RecordInv'
PROOF
  <1> DEFINE th == [thread[r] EXCEPT !.pc = "league"]
  <1>1. /\ thread[r] \in Thread /\ ThreadSound(thread[r]) /\ thread \in [Request -> Thread]
        /\ thread[r].pc = "account" /\ known \subseteq PlayerId
    BY Facts DEF Account
  <1>2. thread[r].query # NoQuery /\ thread[r].query.player \in PlayerId
    BY <1>1, QueryPlayer DEF ThreadSound
  <1>3. now' = now /\ known' \subseteq PlayerId /\ UNCHANGED <<files, kept, overlap, crashes>>
    BY <1>1, <1>2 DEF Account, calm, files
  <1>4. thread' = [thread EXCEPT ![r] = th]
    BY DEF Account, Goes
  <1>5. /\ th \in Thread /\ th.pc = "league" /\ th.query = thread[r].query /\ th.fd = thread[r].fd
        /\ th.store = thread[r].store
    BY <1>1 DEF Thread
  <1> HIDE DEF th
  <1>6. ThreadSound(th) /\ ~Recording(th)
    BY <1>1, <1>2, <1>5 DEF ThreadSound, Recording
  <1> QED BY <1>3, <1>4, <1>5, <1>6, OutOfTheWay

LEMMA LeagueStep ==
  ASSUME PlayerInv, NEW r \in Request, League(r)
  PROVE  RecordInv'
PROOF
  <1>1. PICK rank \in CurrentRank : thread' = [Goes(r, "load") EXCEPT ![r].rank = rank]
    BY DEF League
  <1> DEFINE th == [thread[r] EXCEPT !.pc = "load", !.rank = rank]
  <1>2. /\ thread[r] \in Thread /\ ThreadSound(thread[r]) /\ thread \in [Request -> Thread]
        /\ thread[r].pc = "league" /\ known \subseteq PlayerId
    BY Facts DEF League
  <1>3. now' = now /\ known' \subseteq PlayerId /\ UNCHANGED <<files, kept, overlap, crashes>>
    BY <1>2 DEF League, calm, files
  <1>4. thread' = [thread EXCEPT ![r] = th]
    BY <1>1, <1>2 DEF Goes
  <1>5. /\ th \in Thread /\ th.pc = "load" /\ th.query = thread[r].query /\ th.fd = thread[r].fd
        /\ th.store = thread[r].store
    BY <1>2 DEF Thread
  <1> HIDE DEF th
  <1>6. ThreadSound(th) /\ ~Recording(th)
    BY <1>2, <1>5 DEF ThreadSound, Recording
  <1> QED BY <1>3, <1>4, <1>5, <1>6, OutOfTheWay

LEMMA MatchesStep ==
  ASSUME PlayerInv, NEW r \in Request, Matches(r)
  PROVE  RecordInv'
PROOF
  <1>1. /\ thread[r] \in Thread /\ ThreadSound(thread[r]) /\ thread \in [Request -> Thread]
        /\ thread[r].pc = "matches" /\ known \subseteq PlayerId
    BY Facts DEF Matches
  <1>2. thread[r].query # NoQuery /\ thread[r].query.player \in PlayerId
    BY <1>1, QueryPlayer DEF ThreadSound
  <1>3. PICK ms \in Parsed : thread' = [Goes(r, "done") EXCEPT ![r].matches = ms]
    <2>1. PICK raws \in MatchList :
            thread' = [Goes(r, "done") EXCEPT ![r].matches = ParseMatches(raws, thread[r].query.player)]
      BY DEF Matches
    <2>2. ParseMatches(raws, thread[r].query.player) \in Parsed
      BY <1>2 DEF Parsed
    <2> QED BY <2>1, <2>2
  <1> DEFINE th == [thread[r] EXCEPT !.pc = "done", !.matches = ms]
  <1>4. now' = now /\ known' \subseteq PlayerId /\ UNCHANGED <<files, kept, overlap, crashes>>
    BY <1>1 DEF Matches, calm, files
  <1>5. thread' = [thread EXCEPT ![r] = th]
    BY <1>1, <1>3 DEF Goes
  <1>6. /\ th \in Thread /\ th.pc = "done" /\ th.query = thread[r].query /\ th.fd = thread[r].fd
        /\ th.store = thread[r].store /\ th.rank = thread[r].rank
    BY <1>1 DEF Thread
  <1> HIDE DEF th
  <1>7. ThreadSound(th) /\ ~Recording(th)
    BY <1>1, <1>2, <1>6 DEF ThreadSound, Recording, Ranked
  <1> QED BY <1>4, <1>5, <1>6, <1>7, OutOfTheWay

\* _save_store fails: the histories in memory are those of the answer.
LEMMA SaveFailsStep ==
  ASSUME PlayerInv, NEW r \in Request, SaveFails(r)
  PROVE  RecordInv'
PROOF
  <1> DEFINE th == [thread[r] EXCEPT !.pc = "matches", !.date = 0, !.fd = None]
  <1>1. /\ thread[r] \in Thread /\ ThreadSound(thread[r]) /\ thread \in [Request -> Thread]
        /\ thread[r].pc \in {"open", "write", "replace"} /\ known \subseteq PlayerId
    BY Facts DEF SaveFails
  <1>2. now' = now /\ known' \subseteq PlayerId /\ UNCHANGED <<files, kept, overlap, crashes>>
    BY <1>1 DEF SaveFails, calm, files
  <1>3. thread' = [thread EXCEPT ![r] = th]
    BY <1>1 DEF SaveFails, Left
  <1>4. /\ th \in Thread /\ th.pc = "matches" /\ th.query = thread[r].query /\ th.fd = None
        /\ th.store = thread[r].store /\ th.rank = thread[r].rank
    BY <1>1 DEF Thread
  <1> HIDE DEF th
  <1>5. ThreadSound(th) /\ ~Recording(th)
    BY <1>1, <1>4 DEF ThreadSound, Recording, Inode, Ranked
  <1> QED BY <1>2, <1>3, <1>4, <1>5, OutOfTheWay

\* _load_store.
LEMMA LoadStep ==
  ASSUME PlayerInv, NEW r \in Request, Load(r)
  PROVE  RecordInv'
PROOF
  <1> DEFINE pc == IF thread[r].rank = Unranked THEN "matches" ELSE "snap"
             th == [thread[r] EXCEPT !.store = Content(live), !.pc = pc]
  <1>1. /\ thread[r] \in Thread /\ ThreadSound(thread[r]) /\ thread \in [Request -> Thread]
        /\ thread[r].pc = "load" /\ known \subseteq PlayerId /\ overlap \in BOOLEAN
    BY Facts DEF Load
  <1>2. now' = now /\ known' \subseteq PlayerId /\ UNCHANGED <<files, kept, crashes>>
    BY <1>1 DEF Load, files
  <1>3. Content(live) \in Store /\ GoodStore(Content(live))
    BY Facts, ContentGood DEF PlayerInv
  <1>4. thread' = [thread EXCEPT ![r] = th]
    BY <1>1 DEF Load
  <1>5. thread[r].rank \in CurrentRank /\ thread[r].query # NoQuery
    BY <1>1 DEF Thread, ThreadSound
  <1>6. pc \in {"matches", "snap"} /\ (pc = "snap" <=> thread[r].rank # Unranked)
    OBVIOUS
  <1> HIDE DEF pc
  <1>7. /\ th \in Thread /\ th.pc = pc /\ th.query = thread[r].query /\ th.fd = thread[r].fd
        /\ th.store = Content(live) /\ th.rank = thread[r].rank
    BY <1>1, <1>3, <1>6 DEF Thread
  <1> HIDE DEF th
  <1>8. ThreadSound(th)
    BY <1>1, <1>3, <1>5, <1>6, <1>7 DEF ThreadSound, Recording, CurrentRank
  <1>9. overlap' = (overlap \/ (thread[r].rank # Unranked /\ \E s \in Request : InRecord(s)))
    BY DEF Load
  <1>10. overlap' \in BOOLEAN /\ (overlap => overlap')
    BY <1>1, <1>9
  <1>11. ASSUME ~overlap' PROVE Alone(th) /\ (Recording(th) => \A s \in Request \ {r} : ~Recording(thread[s]))
    <2>1. ~overlap /\ (pc = "snap" => \A s \in Request : ~InRecord(s))
      BY <1>6, <1>9, <1>11
    <2>2. Content(live) = kept
      BY <2>1 DEF PlayerInv, RecordInv, Serial
    <2>3. Alone(th)
      BY <1>6, <1>7, <2>2 DEF Alone
    <2>4. Recording(th) => \A s \in Request \ {r} : ~Recording(thread[s])
      BY <1>6, <1>7, <2>1 DEF Recording, InRecord
    <2> QED BY <2>3, <2>4
  <1> QED BY <1>2, <1>4, <1>7, <1>8, <1>10, <1>11, ThreadStep

\* Today's snapshot goes into the histories in memory.
LEMMA SnapStep ==
  ASSUME PlayerInv, NEW r \in Request, Snap(r)
  PROVE  RecordInv'
PROOF
  <1> DEFINE p == thread[r].query.player
             d == Yday + 1
             hist == Recorded(thread[r].store[p], d, thread[r].rank)
             store == [thread[r].store EXCEPT ![p] = hist]
             th == [thread[r] EXCEPT !.pc = "open", !.date = d, !.store = store]
  <1>1. /\ thread[r] \in Thread /\ ThreadSound(thread[r]) /\ thread \in [Request -> Thread]
        /\ thread[r].pc = "snap" /\ known \subseteq PlayerId /\ overlap \in BOOLEAN /\ d \in Nat
    BY Facts DEF Snap
  <1>2. now' = now /\ known' \subseteq PlayerId /\ UNCHANGED <<files, kept, overlap, crashes>>
    BY <1>1 DEF Snap, calm, files
  <1>3. thread[r].query # NoQuery /\ thread[r].rank \in Rank /\ GoodStore(thread[r].store)
    BY <1>1 DEF ThreadSound, Recording
  <1>4. p \in PlayerId
    BY <1>1, <1>3, QueryPlayer
  <1>5. thread' = [thread EXCEPT ![r] = th]
    BY <1>1 DEF Snap
  <1>6. thread[r].store \in [PlayerId -> History] /\ \A x \in PlayerId : Dated(thread[r].store[x], d)
    BY <1>3 DEF GoodStore, Store
  <1> HIDE DEF p, d
  <1>7. hist \in History /\ Dated(hist, d) /\ hist # <<>> /\ Last(hist).rank = thread[r].rank
    BY <1>1, <1>3, <1>4, <1>6, RecordedHistory
  <1> HIDE DEF hist
  <1>8. store \in [PlayerId -> History] /\ store[p] = hist /\ \A x \in PlayerId : Dated(store[x], d)
    BY <1>4, <1>6, <1>7
  <1>9. store \in Store /\ GoodStore(store)
    BY <1>8 DEF Store, GoodStore, d
  <1> HIDE DEF store
  <1>10. /\ th \in Thread /\ th.pc = "open" /\ th.query = thread[r].query /\ th.fd = thread[r].fd
         /\ th.store = store /\ th.rank = thread[r].rank /\ th.date = d
    BY <1>1, <1>9 DEF Thread
  <1> HIDE DEF th
  <1>11. ThreadSound(th)
    <2>1. Ranked(th)
      BY <1>7, <1>8, <1>10 DEF Ranked, p
    <2> QED BY <1>1, <1>3, <1>9, <1>10, <2>1 DEF ThreadSound, Recording
  <1>12. ASSUME ~overlap PROVE Alone(th) /\ \A s \in Request \ {r} : ~Recording(thread[s])
    <2>1. thread[r].store = kept
      BY <1>1, <1>12 DEF PlayerInv, RecordInv, Serial, Alone
    <2>2. store = WithRank(th)
      BY <1>10, <2>1 DEF WithRank, store, hist, p
    <2>3. Alone(th)
      BY <1>10, <2>2 DEF Alone
    <2>4. \A s \in Request \ {r} : ~Recording(thread[s])
      BY <1>1, <1>12 DEF PlayerInv, RecordInv, Serial, Recording
    <2> QED BY <2>3, <2>4
  <1> QED BY <1>1, <1>2, <1>5, <1>10, <1>11, <1>12, ThreadStep

\* What an inode can come to hold.
LEMMA Inodes ==
  ASSUME PlayerInv
  PROVE  /\ Len(data) \in Nat /\ data \in Seq(Store \cup {Torn})
         /\ \A i \in Inode : i # None => i \in 1 .. Len(data)
         /\ None \notin Nat /\ Torn \notin Store
         /\ \A x : data' = x /\ x \in Seq(Store \cup {Torn}) /\ Len(x) >= Len(data) => Inode \subseteq Inode'
PROOF
  <1>1. data \in Seq(Store \cup {Torn}) /\ Len(data) \in Nat
    BY DEF PlayerInv, RecordInv, RecordTypes
  <1>2. None \notin Nat /\ Torn \notin Store
    BY PlayerAssumption, StoreAssumption
  <1>3. \A i \in Inode : i # None => i \in 1 .. Len(data)
    BY DEF Inode
  <1>4. ASSUME NEW x \in Seq(Store \cup {Torn}), data' = x, Len(x) >= Len(data) PROVE Inode \subseteq Inode'
    BY <1>1, <1>4 DEF Inode
  <1> QED BY <1>1, <1>2, <1>3, <1>4

\* A step of one thread that changes the files: what is left to show where
\* nothing says that two threads overlapped.
LEMMA FileStep ==
  ASSUME PlayerInv, NEW r \in Request, NEW th \in Thread,
         thread' = [thread EXCEPT ![r] = th], now' = now, UNCHANGED <<known, overlap, crashes>>,
         data' \in Seq(Store \cup {Torn}), Len(data') >= Len(data), kept' \in Store,
         {live', tmp'} \subseteq Inode', FilesApart', ThreadSound(th)',
         \A i \in 1 .. Len(data') : \/ data'[i] = Torn \/ GoodStore(data'[i])
                                    \/ i \in 1 .. Len(data) /\ data'[i] = data[i],
         Recording(th) => Recording(thread[r]), Recording(thread[r]),
         ~overlap => Alone(th)' /\ Content(live)' = kept'
  PROVE  RecordInv'
PROOF
  <1>1. Inode \subseteq Inode'
    BY Inodes
  <1>2. \A x : GoodStore(x)' <=> GoodStore(x)
    BY DEF GoodStore, Yday
  <1>3. thread'[r] = th /\ \A s \in Request \ {r} : thread'[s] = thread[s]
    BY DEF PlayerInv, RecordInv, RecordTypes
  <1>4. RecordTypes'
    BY DEF PlayerInv, RecordInv, RecordTypes
  <1>5. Threads'
    <2> SUFFICES ASSUME NEW s \in Request PROVE ThreadSound(thread[s])'
      BY DEF Threads
    <2>1. CASE s = r
      BY <1>3, <2>1 DEF ThreadSound
    <2>2. CASE s # r
      <3>1. ThreadSound(thread[s]) /\ thread'[s] = thread[s]
        BY <1>3, <2>2 DEF PlayerInv, RecordInv, Threads
      <3> QED BY <1>1, <1>2, <3>1 DEF ThreadSound
    <2> QED BY <2>1, <2>2
  <1>6. Dates'
    <2> SUFFICES ASSUME NEW i \in 1 .. Len(data') PROVE data'[i] = Torn \/ GoodStore(data'[i])
      BY <1>2 DEF Dates
    <2> QED BY DEF PlayerInv, RecordInv, Dates
  <1>7. Serial'
    <2> SUFFICES ASSUME ~overlap
                 PROVE  /\ \A q, s \in Request : Recording(thread'[q]) /\ Recording(thread'[s]) => q = s
                        /\ \A s \in Request : Alone(thread[s])'
      BY DEF Serial, Recording
    <2>1. \A q, s \in Request : Recording(thread[q]) /\ Recording(thread[s]) => q = s
      BY DEF PlayerInv, RecordInv, Serial
    <2>2. \A s \in Request : Recording(thread'[s]) => s = r
      BY <1>3, <2>1
    <2>3. ASSUME NEW s \in Request PROVE Alone(thread[s])'
      <3>1. CASE s = r
        BY <1>3, <3>1 DEF Alone, WithRank
      <3>2. CASE s # r
        BY <2>2, <3>2 DEF Alone, Recording
      <3> QED BY <3>1, <3>2
    <2> QED BY <2>2, <2>3
  <1> QED BY <1>4, <1>5, <1>6, <1>7 DEF RecordInv

\* open(tmp, "w"): the inode tmp names is emptied, or a new one is.
LEMMA OpenStep ==
  ASSUME PlayerInv, NEW r \in Request, Open(r)
  PROVE  RecordInv'
PROOF
  <1> DEFINE i == IF tmp = None THEN Len(data) + 1 ELSE tmp
             new == IF i > Len(data) THEN Append(data, Torn) ELSE [data EXCEPT ![i] = Torn]
  <1>1. /\ thread[r] \in Thread /\ ThreadSound(thread[r]) /\ thread \in [Request -> Thread]
        /\ thread[r].pc = "open" /\ live \in Inode /\ tmp \in Inode /\ overlap \in BOOLEAN
    BY Facts DEF Open
  <1>2. /\ Len(data) \in Nat /\ data \in Seq(Store \cup {Torn}) /\ None \notin Nat
        /\ \A x \in Inode : x # None => x \in 1 .. Len(data)
    BY Inodes
  <1>3. i \in Nat \ {0} /\ i # None /\ i # live /\ i <= Len(data) + 1
    BY <1>1, <1>2 DEF PlayerInv, RecordInv, FilesApart
  <1>4. /\ tmp' = i /\ data' = new /\ thread' = [thread EXCEPT ![r] = [thread[r] EXCEPT !.pc = "write", !.fd = i]] /\ live' = live /\ kept' = kept
        /\ now' = now /\ UNCHANGED <<known, overlap, crashes>>
    BY <1>1 DEF Open
  <1> HIDE DEF i
  <1>5. /\ new \in Seq(Store \cup {Torn}) /\ Len(new) >= Len(data) /\ i \in 1 .. Len(new) /\ new[i] = Torn
        /\ \A j \in 1 .. Len(new) : new[j] = Torn \/ (j \in 1 .. Len(data) /\ new[j] = data[j])
        /\ \A j \in 1 .. Len(data) : j # i => new[j] = data[j]
    <2>1. CASE i > Len(data)
      BY <1>2, <1>3, <2>1
    <2>2. CASE i <= Len(data)
      BY <1>2, <1>3, <2>2
    <2> QED BY <1>2, <1>3, <2>1, <2>2
  <1> HIDE DEF new
  <1>6. Inode \subseteq Inode' /\ {live', tmp'} \subseteq Inode' /\ FilesApart'
    BY <1>1, <1>2, <1>3, <1>4, <1>5 DEF Inode, FilesApart
  <1>7. PICK th \in Thread :
          /\ thread' = [thread EXCEPT ![r] = th] /\ th.pc = "write" /\ th.query = thread[r].query /\ th.fd = i
          /\ th.store = thread[r].store /\ th.rank = thread[r].rank /\ th.date = thread[r].date
    <2> DEFINE t == [thread[r] EXCEPT !.pc = "write", !.fd = i]
    <2>1. /\ t \in Thread /\ t.pc = "write" /\ t.query = thread[r].query /\ t.fd = i
          /\ t.store = thread[r].store /\ t.rank = thread[r].rank /\ t.date = thread[r].date
      BY <1>1, <1>3 DEF Thread
    <2>2. thread' = [thread EXCEPT ![r] = t]
      BY <1>4
    <2> HIDE DEF t
    <2> QED BY <2>1, <2>2
  <1>8. ThreadSound(th)'
    <2>1. i \in Inode' /\ Yday' = Yday
      BY <1>4, <1>5 DEF Inode, Yday
    <2> QED BY <1>1, <1>3, <1>7, <2>1 DEF ThreadSound, GoodStore, Recording, Ranked
  <1>9. ASSUME ~overlap PROVE Alone(th)' /\ Content(live)' = kept'
    <2>1. Alone(thread[r]) /\ Content(live) = kept
      BY <1>9 DEF PlayerInv, RecordInv, Serial
    <2>2. th.store = WithRank(th)
      BY <1>1, <1>7, <2>1 DEF Alone, WithRank
    <2>3. Alone(th)'
      BY <1>4, <1>5, <1>7, <2>2 DEF Alone, WithRank
    <2>4. Content(live)' = Content(live)
      BY <1>1, <1>2, <1>3, <1>4, <1>5 DEF Content
    <2> QED BY <1>4, <2>1, <2>3, <2>4
  <1>10. Recording(thread[r]) /\ kept' \in Store
    BY <1>1, <1>4 DEF Recording, PlayerInv, RecordInv, RecordTypes
  <1> QED BY <1>4, <1>5, <1>6, <1>7, <1>8, <1>9, <1>10, FileStep

\* json.dump: a thread that is alone writes to an empty file.
LEMMA WriteStep ==
  ASSUME PlayerInv, NEW r \in Request, Write(r)
  PROVE  RecordInv'
PROOF
  <1> DEFINE i == thread[r].fd
  <1>1. /\ thread[r] \in Thread /\ ThreadSound(thread[r]) /\ thread \in [Request -> Thread]
        /\ thread[r].pc = "write" /\ live \in Inode /\ tmp \in Inode /\ overlap \in BOOLEAN
    BY Facts DEF Write
  <1>2. /\ Len(data) \in Nat /\ data \in Seq(Store \cup {Torn}) /\ None \notin Nat /\ Torn \notin Store
        /\ \A x \in Inode : x # None => x \in 1 .. Len(data)
    BY Inodes
  <1>3. i \in 1 .. Len(data) /\ GoodStore(thread[r].store) /\ thread[r].store \in Store
    BY <1>1, <1>2 DEF ThreadSound, GoodStore
  <1>4. PICK d \in {thread[r].store, Torn} :
          /\ data' = [data EXCEPT ![i] = d]
          /\ d = thread[r].store \/ data[i] # Torn
             \/ \E s \in Request \ {r} : thread[s].fd = i /\ thread[s].pc = "write"
    BY DEF Write
  <1>5. /\ thread' = [thread EXCEPT ![r] = [thread[r] EXCEPT !.pc = "replace"]] /\ live' = live /\ tmp' = tmp /\ kept' = kept
        /\ now' = now /\ UNCHANGED <<known, overlap, crashes>>
    BY <1>1 DEF Write
  <1>6. /\ data' \in Seq(Store \cup {Torn}) /\ Len(data') = Len(data) /\ data'[i] = d
        /\ \A j \in 1 .. Len(data) : j # i => data'[j] = data[j]
    BY <1>2, <1>3, <1>4
  <1>7. \A j \in 1 .. Len(data') : \/ data'[j] = Torn \/ GoodStore(data'[j])
                                   \/ j \in 1 .. Len(data) /\ data'[j] = data[j]
    BY <1>3, <1>4, <1>6
  <1>8. {live', tmp'} \subseteq Inode' /\ FilesApart'
    BY <1>1, <1>5, <1>6 DEF PlayerInv, RecordInv, FilesApart, Inode
  <1>9. PICK th \in Thread :
          /\ thread' = [thread EXCEPT ![r] = th] /\ th.pc = "replace" /\ th.query = thread[r].query /\ th.fd = i
          /\ th.store = thread[r].store /\ th.rank = thread[r].rank /\ th.date = thread[r].date
    <2> DEFINE t == [thread[r] EXCEPT !.pc = "replace"]
    <2>1. /\ t \in Thread /\ t.pc = "replace" /\ t.query = thread[r].query /\ t.fd = i
          /\ t.store = thread[r].store /\ t.rank = thread[r].rank /\ t.date = thread[r].date
      BY <1>1 DEF Thread
    <2>2. thread' = [thread EXCEPT ![r] = t]
      BY <1>5
    <2> HIDE DEF t
    <2> QED BY <2>1, <2>2
  <1>10. ThreadSound(th)'
    <2>1. i \in Inode' /\ Yday' = Yday
      BY <1>3, <1>5, <1>6 DEF Inode, Yday
    <2> QED BY <1>1, <1>9, <2>1 DEF ThreadSound, GoodStore, Recording, Ranked
  <1>11. ASSUME ~overlap PROVE Alone(th)' /\ Content(live)' = kept'
    <2>1. Alone(thread[r]) /\ Content(live) = kept
      BY <1>11 DEF PlayerInv, RecordInv, Serial
    <2>2. thread[r].store = WithRank(thread[r]) /\ i = tmp /\ data[i] = Torn
      BY <1>1, <2>1 DEF Alone
    <2>3. \A s \in Request \ {r} : thread[s].pc # "write"
      BY <1>1, <1>11 DEF PlayerInv, RecordInv, Serial, Recording
    <2>4. d = thread[r].store
      BY <1>4, <2>2, <2>3
    <2>5. th.store = WithRank(th)
      BY <1>9, <2>2 DEF WithRank
    <2>6. tmp # None /\ tmp # live
      BY <1>2, <1>3, <2>2 DEF PlayerInv, RecordInv, FilesApart
    <2>7. Alone(th)'
      BY <1>5, <1>6, <1>9, <2>2, <2>4, <2>5, <2>6 DEF Alone, WithRank
    <2>8. Content(live)' = Content(live)
      BY <1>1, <1>2, <1>5, <1>6, <2>2, <2>6 DEF Content
    <2> QED BY <1>5, <2>1, <2>7, <2>8
  <1>12. Recording(thread[r]) /\ kept' \in Store
    BY <1>1, <1>5 DEF Recording, PlayerInv, RecordInv, RecordTypes
  <1>13. Len(data') >= Len(data)
    BY <1>2, <1>6
  <1> QED BY <1>5, <1>6, <1>7, <1>8, <1>9, <1>10, <1>11, <1>12, <1>13, FileStep

\* os.replace: what was in the temporary file is the history now, all of it.
LEMMA ReplaceStep ==
  ASSUME PlayerInv, NEW r \in Request, Replace(r)
  PROVE  RecordInv'
PROOF
  <1> DEFINE p == thread[r].query.player
             hist == Recorded(kept[p], thread[r].date, thread[r].rank)
  <1>1. /\ thread[r] \in Thread /\ ThreadSound(thread[r]) /\ thread \in [Request -> Thread] /\ known \subseteq PlayerId
        /\ thread[r].pc = "replace" /\ live \in Inode /\ tmp \in Inode /\ overlap \in BOOLEAN
    BY Facts DEF Replace
  <1>2. /\ Len(data) \in Nat /\ data \in Seq(Store \cup {Torn}) /\ None \notin Nat /\ Torn \notin Store
        /\ \A x \in Inode : x # None => x \in 1 .. Len(data)
    BY Inodes
  <1>3. /\ thread' = [thread EXCEPT ![r] = [thread[r] EXCEPT !.pc = "matches", !.date = 0, !.fd = None]]
        /\ now' = now /\ UNCHANGED <<known, overlap, crashes>>
    BY <1>1 DEF Replace, Left
  <1>4. PICK th \in Thread :
          /\ thread' = [thread EXCEPT ![r] = th] /\ th.pc = "matches" /\ th.query = thread[r].query /\ th.fd = None
          /\ th.store = thread[r].store /\ th.rank = thread[r].rank
    <2> DEFINE t == [thread[r] EXCEPT !.pc = "matches", !.date = 0, !.fd = None]
    <2>1. /\ t \in Thread /\ t.pc = "matches" /\ t.query = thread[r].query /\ t.fd = None
          /\ t.store = thread[r].store /\ t.rank = thread[r].rank
      BY <1>1 DEF Thread
    <2>2. thread' = [thread EXCEPT ![r] = t]
      BY <1>3
    <2> HIDE DEF t
    <2> QED BY <2>1, <2>2
  <1>5. ThreadSound(th) /\ ThreadSound(th)' /\ ~Recording(th)
    <2>1. Yday' = Yday
      BY <1>3 DEF Yday
    <2> QED BY <1>1, <1>4, <2>1 DEF ThreadSound, GoodStore, Recording, Inode, Ranked
  <1>6. CASE tmp = None /\ UNCHANGED <<files, kept>>
    <2>1. known' \subseteq PlayerId /\ UNCHANGED <<files, kept, overlap, crashes>>
      BY <1>1, <1>3, <1>6
    <2> QED BY <1>3, <1>4, <1>5, <2>1, OutOfTheWay
  <1>7. CASE /\ tmp # None /\ live' = tmp /\ tmp' = None
             /\ data' = IF live = None THEN data ELSE [data EXCEPT ![live] = Torn]
             /\ kept' = [kept EXCEPT ![p] = hist]
    <2>1. /\ data' \in Seq(Store \cup {Torn}) /\ Len(data') = Len(data)
          /\ \A j \in 1 .. Len(data) : data'[j] = Torn \/ data'[j] = data[j]
          /\ \A j \in 1 .. Len(data) : j # live => data'[j] = data[j]
      <3>1. CASE live = None
        <4>1. data' = data
          BY <1>7, <3>1
        <4> QED BY <1>2, <4>1
      <3>2. CASE live # None
        <4>1. data' = [data EXCEPT ![live] = Torn] /\ live \in 1 .. Len(data)
          BY <1>1, <1>2, <1>7, <3>2
        <4> QED BY <1>2, <4>1
      <3> QED BY <3>1, <3>2
    <2>2. p \in PlayerId /\ thread[r].rank \in Rank /\ thread[r].date \in Nat
      BY <1>1, QueryPlayer DEF ThreadSound, Recording, Thread
    <2>3. kept \in [PlayerId -> History]
      BY DEF PlayerInv, RecordInv, RecordTypes, Store
    <2>4. hist \in History
      BY <2>2, <2>3, RecordedHistory
    <2>5. kept' \in Store
      <3> HIDE DEF hist, p
      <3> QED BY <1>7, <2>3, <2>4 DEF Store
    <2>6. {live', tmp'} \subseteq Inode' /\ FilesApart'
      BY <1>1, <1>2, <1>7, <2>1 DEF Inode, FilesApart
    <2>7. ASSUME ~overlap PROVE Alone(th)' /\ Content(live)' = kept'
      <3>1. Alone(th)'
        BY <1>4 DEF Alone
      <3>2. Alone(thread[r])
        BY <2>7 DEF PlayerInv, RecordInv, Serial
      <3>3. thread[r].store = kept' /\ data[tmp] = thread[r].store
        BY <1>1, <1>7, <3>2 DEF Alone, WithRank
      <3>4. tmp # live /\ tmp \in 1 .. Len(data)
        BY <1>1, <1>2, <1>7 DEF PlayerInv, RecordInv, FilesApart
      <3>5. data'[tmp] = kept'
        BY <2>1, <3>3, <3>4
      <3>6. kept' # Torn
        BY <1>2, <2>5
      <3>7. Content(live)' = kept'
        BY <1>7, <3>5, <3>6 DEF Content
      <3> QED BY <3>1, <3>7
    <2>8. Recording(thread[r])
      BY <1>1 DEF Recording
    <2>9. Len(data') >= Len(data)
      BY <1>2, <2>1
    <2>10. \A i \in 1 .. Len(data') : \/ data'[i] = Torn \/ GoodStore(data'[i])
                                      \/ i \in 1 .. Len(data) /\ data'[i] = data[i]
      BY <2>1
    <2> QED BY <1>3, <1>4, <1>5, <2>1, <2>10, <2>5, <2>6, <2>7, <2>8, <2>9, FileStep
  <1> QED BY <1>6, <1>7 DEF Replace, p, hist

-----------------------------------------------------------------------------
(* The process ends, the clock goes on                                      *)

\* The middleware of a process that has just begun.
GateNew ==
  /\ now \in Nat /\ hits = [b \in Bucket |-> [ip \in Ip |-> <<>>]] /\ recent = hits
  /\ daily = [day |-> -1, count |-> 0] /\ spent \in Nat /\ starts \in Nat \ {0}
  /\ RiotDailyCap > 0 => spent <= Earlier
  /\ starts = 1 => spent = 0

\* It keeps nothing, and has let nothing through itself.
LEMMA GateBegins == GateNew => GateInv
PROOF
  <1> SUFFICES ASSUME GateNew PROVE GateInv
    OBVIOUS
  <1> USE DEF GateNew
  <1>1. GateTypeOK
    BY GateFresh DEF GateTypeOK
  <1>2. Windows
    <2> SUFFICES ASSUME NEW b \in Bucket, NEW ip \in Ip, Limit[b] > 0
                 PROVE  recent[b][ip] = Pruned(hits[b][ip]) /\ Len(recent[b][ip]) <= Limit[b]
      BY DEF Windows
    <2>1. hits[b][ip] = <<>> /\ recent[b][ip] = <<>> /\ Limit[b] \in Int
      BY GateAssumption
    <2>2. now - Window \in Int
      BY GateAssumption
    <2>3. Pruned(<<>>) = <<>>
      BY <2>2, GateFresh DEF Pruned
    <2> QED BY <2>1, <2>3
  <1>3. Budget
    <2>1. Yday \in Nat
      BY GateAssumption, DayGrows DEF Yday
    <2>2. daily.day = -1 /\ daily.count = 0
      OBVIOUS
    <2>3. daily.day # Yday /\ Own = 0 /\ Earlier \in Int
      BY <2>1, <2>2, EarlierValue DEF Own
    <2> QED BY <2>1, <2>2, <2>3, GateAssumption DEF Budget
  <1> QED BY <1>1, <1>2, <1>3 DEF GateInv

\* The process ends: nobody is in record_rank, and the file is as it was.
LEMMA CrashStep ==
  ASSUME PlayerInv, Crash
  PROVE  PlayerInv'
PROOF
  <1>1. now \in Nat /\ now' = now /\ Yday' = Yday /\ Seed \subseteq PlayerId
    BY PlayerAssumption DEF Crash, PlayerInv, GateInv, GateTypeOK, Yday
  <1>2. GateInv'
    <2>1. /\ starts \in Nat \ {0} /\ spent \in Nat /\ starts' = starts + 1 /\ spent' = spent
          /\ RiotDailyCap \in Int /\ daily \in [day : Int, count : Nat]
      BY GateAssumption DEF Crash, PlayerInv, GateInv, GateTypeOK
    <2>2. Earlier' = Earlier + RiotDailyCap /\ Earlier \in Int
      <3>1. (starts + 1 - 1) * RiotDailyCap = starts * RiotDailyCap
        BY <2>1
      <3>2. Earlier' = starts * RiotDailyCap
        BY <2>1, <3>1 DEF Earlier
      <3> QED BY <2>1, <3>2, EarlierValue
    <2>3. RiotDailyCap > 0 => spent <= Earlier + RiotDailyCap
      <3>1. RiotDailyCap > 0 => spent <= Earlier + Own
        BY DEF PlayerInv, GateInv, Budget
      <3>2. RiotDailyCap > 0 => Own \in Int /\ Own <= RiotDailyCap
        BY <2>1 DEF Own, PlayerInv, GateInv, Budget
      <3> QED BY <2>1, <2>2, <3>1, <3>2
    <2>4. GateNew'
      BY <1>1, <2>1, <2>2, <2>3 DEF Crash, GateNew
    <2>5. GateNew' => GateInv'
      BY GateBegins, PTL
    <2> QED BY <2>4, <2>5
  <1>3. /\ live' = live /\ tmp' = tmp /\ data' = data /\ kept' = kept /\ overlap' = overlap /\ Inode' = Inode
        /\ known' = Seed /\ crashes' = crashes + 1
    BY DEF Crash, files, Inode
  <1>4. \A x : GoodStore(x)' <=> GoodStore(x)
    BY <1>1 DEF GoodStore
  <1>5. /\ New \in Thread /\ Over \in Thread /\ ThreadSound(New) /\ ThreadSound(Over)
        /\ ~Recording(New) /\ ~Recording(Over)
    BY <1>1, FreshThread
  <1>6. thread' \in [Request -> {New, Over}]
    BY DEF Crash
  <1>7. \A r \in Request : thread'[r] \in Thread /\ ThreadSound(thread'[r]) /\ ~Recording(thread'[r])
    BY <1>5, <1>6
  <1>8. RecordTypes'
    <2>1. thread' \in [Request -> Thread]
      BY <1>6, <1>5
    <2> QED BY <1>1, <1>3, <2>1 DEF PlayerInv, RecordInv, RecordTypes
  <1>9. Threads'
    <2> SUFFICES ASSUME NEW r \in Request PROVE ThreadSound(thread[r])'
      BY DEF Threads
    <2>1. ThreadSound(thread'[r])
      BY <1>7
    <2> QED BY <1>3, <1>4, <2>1 DEF ThreadSound
  <1>10. FilesApart' /\ Dates'
    BY <1>3, <1>4 DEF PlayerInv, RecordInv, FilesApart, Dates
  <1>11. Serial'
    <2>1. \A r \in Request : Alone(thread[r])'
      BY <1>7 DEF Alone, Recording
    <2>2. ~overlap => Content(live)' = kept'
      BY <1>3 DEF PlayerInv, RecordInv, Serial, Content
    <2>3. \A r \in Request : ~Recording(thread[r])'
      BY <1>7 DEF Recording
    <2> QED BY <1>3, <2>1, <2>2, <2>3 DEF Serial
  <1> QED BY <1>2, <1>8, <1>9, <1>10, <1>11 DEF PlayerInv, RecordInv

\* Time goes on, perhaps past midnight: a history of today is one of tomorrow's,
\* too.
LEMMA TickStep ==
  ASSUME PlayerInv, Tick
  PROVE  PlayerInv'
PROOF
  <1>1. now \in Nat /\ now' = now + 1 /\ TickGate
    BY DEF Tick, TickGate, PlayerInv, GateInv, GateTypeOK
  <1>2. GateInv'
    BY <1>1, TickGateStep DEF PlayerInv
  <1>3. /\ live' = live /\ tmp' = tmp /\ data' = data /\ kept' = kept /\ overlap' = overlap /\ Inode' = Inode
        /\ known' = known /\ crashes' = crashes /\ thread' = thread
    BY DEF Tick, files, Inode
  <1>4. Yday \in Nat /\ Yday' \in Nat /\ Yday <= Yday'
    BY <1>1, GateAssumption, DayGrows DEF Yday
  <1>5. \A x : GoodStore(x) => GoodStore(x)'
    <2> SUFFICES ASSUME NEW x, GoodStore(x), NEW p \in PlayerId PROVE Dated(x[p], Yday' + 1)
      BY DEF GoodStore
    <2>1. x[p] \in History /\ Dated(x[p], Yday + 1)
      BY DEF GoodStore, Store
    <2>2. \A i \in 1 .. Len(x[p]) : x[p][i].date \in Nat
      BY <2>1, DateTypes
    <2> QED BY <1>4, <2>1, <2>2 DEF Dated
  <1>6. RecordTypes' /\ FilesApart'
    BY <1>3 DEF PlayerInv, RecordInv, RecordTypes, FilesApart
  <1>7. Threads'
    <2> SUFFICES ASSUME NEW r \in Request PROVE ThreadSound(thread[r])'
      BY DEF Threads
    <2>1. ThreadSound(thread[r])
      BY DEF PlayerInv, RecordInv, Threads
    <2> QED BY <1>3, <1>5, <2>1 DEF ThreadSound
  <1>8. Dates'
    BY <1>3, <1>5 DEF PlayerInv, RecordInv, Dates
  <1>9. Serial'
    BY <1>3 DEF PlayerInv, RecordInv, Serial, Alone, WithRank, Content
  <1> QED BY <1>2, <1>6, <1>7, <1>8, <1>9 DEF PlayerInv, RecordInv

\* The first state of the process, with or without a file an earlier one left.
LEMMA PlayerBegins == Init => PlayerInv
PROOF
  <1> SUFFICES ASSUME Init PROVE PlayerInv
    OBVIOUS
  <1>1. now = 0 /\ now \in Nat /\ Yday \in Nat
    BY GateAssumption, DayGrows DEF Init, GateInit, Yday
  <1>2. GateInv
    <2>1. spent = 0 /\ starts = 1 /\ starts \in Nat \ {0}
      BY DEF Init, GateInit
    <2>2. Earlier = 0
      BY <2>1, EarlierValue
    <2> QED BY <1>1, <2>1, <2>2, GateBegins DEF Init, GateInit, GateNew
  <1>3. /\ NoHistory \in Store /\ GoodStore(NoHistory) /\ New \in Thread /\ ThreadSound(New) /\ Alone(New)
        /\ ~Recording(New)
    BY <1>1, FreshThread
  <1>4. GoodStore(Before) /\ Before \in Store /\ Before # Torn
    <2>1. Before \in Store /\ Torn \notin Store
      BY StoreAssumption
    <2>2. ASSUME NEW p \in PlayerId PROVE Dated(Before[p], Yday + 1)
      <3>1. Before[p] \in History
        BY <2>1 DEF Store
      <3>2. \A i \in 1 .. Len(Before[p]) : Before[p][i].date \in Nat
        BY <3>1, DateTypes
      <3>3. Ordered(Before[p]) /\ \A i \in 1 .. Len(Before[p]) : Before[p][i].date <= 1
        BY StoreAssumption
      <3> QED BY <1>1, <3>2, <3>3 DEF Dated
    <2> QED BY <2>1, <2>2 DEF GoodStore
  <1>5. thread = [r \in Request |-> New] /\ tmp = None /\ known = Seed /\ overlap = FALSE /\ crashes = 0
    BY DEF Init
  <1>6. \/ live = None /\ data = <<>> /\ kept = NoHistory
        \/ live = 1 /\ data = <<Before>> /\ kept = Before
    BY DEF Init
  <1>7. /\ data \in Seq(Store \cup {Torn}) /\ live \in Inode /\ kept \in Store /\ Content(live) = kept
        /\ \A i \in 1 .. Len(data) : GoodStore(data[i])
    <2>1. CASE live = None /\ data = <<>> /\ kept = NoHistory
      BY <1>3, <2>1 DEF Inode, Content
    <2>2. CASE live = 1 /\ data = <<Before>> /\ kept = Before
      <3>1. Len(data) = 1 /\ data[1] = Before /\ None # 1
        BY <2>2, PlayerAssumption
      <3> QED BY <1>4, <2>2, <3>1 DEF Inode, Content
    <2> QED BY <1>6, <2>1, <2>2
  <1>8. RecordTypes
    BY <1>3, <1>5, <1>7, PlayerAssumption DEF RecordTypes, Inode
  <1>9. Threads /\ FilesApart /\ Dates /\ Serial
    BY <1>3, <1>5, <1>7 DEF Threads, FilesApart, Dates, Serial
  <1> QED BY <1>2, <1>8, <1>9 DEF PlayerInv, RecordInv

\* Every step keeps the invariant.
LEMMA PlayerSteps == PlayerInv /\ [Next]_vars => PlayerInv'
PROOF
  <1> SUFFICES ASSUME PlayerInv, [Next]_vars PROVE PlayerInv'
    OBVIOUS
  <1>1. CASE Tick
    BY <1>1, TickStep
  <1>2. CASE Crash
    BY <1>2, CrashStep
  <1>3. ASSUME NEW r \in Request, Arrive(r) PROVE PlayerInv'
    <2>1. PICK q \in Query[r] : TooManyRequests(q.ip, q.path) \/ Unavailable(q.ip, q.path) \/ Through(q.ip, q.path)
      BY <1>3 DEF Arrive
    <2>2. q.ip \in Ip /\ q.path \in Path /\ now' = now
      <3>1. q \in [ip : Ip, path : Path, player : PlayerId, valid : BOOLEAN, key : BOOLEAN, tag : BOOLEAN]
        BY PlayerAssumption
      <3> QED BY <1>3, <3>1 DEF Arrive
    <2>3. GateInv'
      BY <2>1, <2>2, RequestStep DEF PlayerInv
    <2> QED BY <1>3, <2>3, ArriveStep DEF PlayerInv
  <1>4. ASSUME NEW r \in Request, Riot(r) \/ Record(r) \/ Reply(r) PROVE PlayerInv'
    <2>1. UNCHANGED <<now, gate>>
      BY <1>4 DEF Riot, RiotError, NotFound, Account, League, Matches, Record, Load, Snap, Open, Write, Replace,
                  SaveFails, Reply, calm
    <2>2. GateInv'
      BY <2>1, GateSame DEF PlayerInv
    <2>3. RecordInv'
      BY <1>4, AnswerStep, AccountStep, LeagueStep, MatchesStep, LoadStep, SnapStep, OpenStep, WriteStep,
         ReplaceStep, SaveFailsStep DEF Riot, Record
    <2> QED BY <2>2, <2>3 DEF PlayerInv
  <1>5. CASE UNCHANGED vars
    <2>1. GateInv'
      BY <1>5, GateSame DEF PlayerInv, vars
    <2>2. /\ live' = live /\ tmp' = tmp /\ data' = data /\ kept' = kept /\ overlap' = overlap
          /\ known' = known /\ crashes' = crashes /\ thread' = thread /\ now' = now
      BY <1>5 DEF vars, files
    <2>3. Inode' = Inode /\ Yday' = Yday
      BY <2>2 DEF Inode, Yday
    <2>4. \A x : GoodStore(x)' <=> GoodStore(x)
      BY <2>3 DEF GoodStore
    <2>5. \A x : ThreadSound(x)' <=> ThreadSound(x)
      BY <2>3, <2>4 DEF ThreadSound
    <2>6. RecordTypes' /\ FilesApart' /\ Dates' /\ Threads'
      BY <2>2, <2>3, <2>4, <2>5 DEF PlayerInv, RecordInv, RecordTypes, FilesApart, Dates, Threads, ThreadSound
    <2>7. Serial'
      BY <2>2 DEF PlayerInv, RecordInv, Serial, Alone, WithRank, Content
    <2> QED BY <2>1, <2>6, <2>7 DEF PlayerInv, RecordInv
  <1> QED BY <1>1, <1>2, <1>3, <1>4, <1>5 DEF Next

\* The invariant holds at all times.
LEMMA PlayerInvariant == Spec => []PlayerInv
BY PlayerBegins, PlayerSteps, PTL DEF Spec

-----------------------------------------------------------------------------
(* What the middleware and the rank history promise                         *)

\* Every variable of the player search and its middleware keeps its type.
THEOREM PlayerTypes == Spec => []TypeOK
PROOF
  <1>1. PlayerInv => TypeOK
    BY DEF PlayerInv, GateInv, RecordInv, RecordTypes, Threads, ThreadSound, TypeOK
  <1> QED BY <1>1, PlayerInvariant, PTL

\* security.py:60: whatever requests arrive, a process admits no more of an
\* address than the limit in any window; one that starts again begins anew.
THEOREM WindowsKept == Spec => []WindowBound
PROOF
  <1>1. PlayerInv => WindowBound
    BY GateProperties DEF PlayerInv
  <1> QED BY <1>1, PlayerInvariant, PTL

\* security.py:139: the client that waits for Retry-After finds room.
THEOREM RetryAfterSuffices == Spec => []RetrySuffices
PROOF
  <1>1. PlayerInv => RetrySuffices
    BY GateProperties DEF PlayerInv
  <1> QED BY <1>1, PlayerInvariant, PTL

\* security.py:85: however many processes serve in a day, the lookups of that day
\* stay within the cap for each of them, and with one of them the cap is used
\* exactly and is all there again the next day.
THEOREM BudgetKept == Spec => []DailyBudget
PROOF
  <1>1. PlayerInv => DailyBudget
    BY GateProperties DEF PlayerInv
  <1> QED BY <1>1, PlayerInvariant, PTL

\* riot.py:115: the dates of every history grow, in the file and in the answers,
\* however many threads overwrite each other's file.
THEOREM HistoriesOrdered == Spec => []HistoryOrdered
PROOF
  <1>1. PlayerInv => HistoryOrdered
    <2> SUFFICES ASSUME PlayerInv PROVE HistoryOrdered
      OBVIOUS
    <2>1. now \in Nat /\ live \in Inode /\ RecordInv
      BY DEF PlayerInv, GateInv, GateTypeOK, RecordInv, RecordTypes
    <2>2. GoodStore(Content(live))
      BY <2>1, ContentGood
    <2>3. \A r \in Request : GoodStore(thread[r].store)
      BY DEF PlayerInv, RecordInv, Threads, ThreadSound
    <2> QED BY <2>2, <2>3 DEF HistoryOrdered, GoodStore, Dated
  <1> QED BY <1>1, PlayerInvariant, PTL

\* riot.py:104, _save_store: unless two threads were in record_rank at once, the
\* file has every rank recorded, whatever failed and whenever the process ended.
THEOREM RanksKept == Spec => []RecordedKept
PROOF
  <1>1. PlayerInv => RecordedKept
    BY DEF PlayerInv, RecordInv, Serial, RecordedKept
  <1> QED BY <1>1, PlayerInvariant, PTL

-----------------------------------------------------------------------------
(* Counting, sorting and adding up                                          *)

LEMMA IntervalFinite ==
  ASSUME NEW n \in Nat
  PROVE  IsFiniteSet(1 .. n) /\ Cardinality(1 .. n) = n
PROOF
  <1>1. 1 \in Int /\ n \in Int /\ n - 1 + 1 = n /\ (1 > n <=> n = 0)
    OBVIOUS
  <1>2. IsFiniteSet(1 .. n) /\ Cardinality(1 .. n) = IF 1 > n THEN 0 ELSE n - 1 + 1
    BY <1>1, FS_Interval, Zenon
  <1> QED BY <1>1, <1>2

LEMMA PartFinite ==
  ASSUME NEW I, IsFiniteSet(I), NEW A \in SUBSET I
  PROVE  IsFiniteSet(A) /\ Cardinality(A) \in Nat /\ Cardinality(A) <= Cardinality(I)
BY FS_Subset, FS_CardinalityType

\* Where before[i] are those before i in a strict total order of I, their
\* numbers are all from 0 to one less than there are.
LEMMA PlacesTaken ==
  ASSUME NEW I, IsFiniteSet(I), NEW before \in [I -> SUBSET I],
         \A i \in I : i \notin before[i],
         \A i, j \in I : i # j => i \in before[j] \/ j \in before[i],
         \A i, j \in I : i \in before[j] => before[i] \subseteq before[j]
  PROVE  \A m \in 0 .. Cardinality(I) - 1 : \E i \in I : Cardinality(before[i]) = m
PROOF
  <1> DEFINE n == Cardinality(I)
             r == [i \in I |-> Cardinality(before[i])]
  <1>1. n \in Nat
    BY FS_CardinalityType
  <1>2. ASSUME NEW i \in I PROVE /\ before[i] \in SUBSET I /\ IsFiniteSet(before[i])
                                 /\ r[i] \in Nat /\ r[i] <= n /\ r[i] # n
    <2>1. before[i] \in SUBSET I /\ before[i] # I
      OBVIOUS
    <2>2. IsFiniteSet(before[i]) /\ Cardinality(before[i]) <= n /\ Cardinality(before[i]) # n
      BY <2>1, FS_Subset
    <2> QED BY <2>1, <2>2, FS_CardinalityType
  <1>3. ASSUME NEW i \in I, NEW j \in I, i \in before[j] PROVE r[i] # r[j]
    <2>1. before[i] \in SUBSET before[j] /\ before[i] # before[j]
      BY <1>3
    <2> QED BY <1>2, <2>1, FS_Subset
  <1>4. \A i \in I : r[i] \in 0 .. n - 1
    <2> HIDE DEF n, r
    <2> QED BY <1>1, <1>2
  <1>5. \A i, j \in I : r[i] = r[j] => i = j
    BY <1>3
  <1>6. r \in [I -> 0 .. n - 1]
    <2>1. r = [i \in I |-> r[i]]
      OBVIOUS
    <2> HIDE DEF r, n
    <2> QED BY <1>4, <2>1
  <1>7. IsFiniteSet(0 .. n - 1) /\ Cardinality(0 .. n - 1) = n
    <2> HIDE DEF n
    <2>1. 0 \in Int /\ n - 1 \in Int /\ n - 1 - 0 + 1 = n /\ (0 > n - 1 <=> n = 0)
      BY <1>1
    <2>2. /\ IsFiniteSet(0 .. n - 1)
          /\ Cardinality(0 .. n - 1) = IF 0 > n - 1 THEN 0 ELSE n - 1 - 0 + 1
      BY <2>1, FS_Interval, Zenon
    <2> QED BY <2>1, <2>2
  <1>8. \A m \in 0 .. n - 1 : \E i \in I : r[i] = m
    <2> HIDE DEF r
    <2>1. r \in Injection(I, 0 .. n - 1)
      BY <1>5, <1>6 DEF Injection, IsInjective
    <2>2. r \in Surjection(I, 0 .. n - 1)
      BY <1>7, <2>1, FS_Injection
    <2> QED BY <2>2 DEF Surjection
  <1> QED BY <1>8

\* Some numbers, finitely many, have a greatest.
LEMMA MaxOfSome ==
  ASSUME NEW S, IsFiniteSet(S), S \subseteq Int, S # {}
  PROVE  Max(S) \in S /\ \A x \in S : Max(S) >= x
PROOF
  <1> DEFINE Top(s) == \E m \in s : \A x \in s : m >= x
             Bad == {n \in Nat : \E s \in SUBSET S : s # {} /\ Cardinality(s) = n /\ ~Top(s)}
  <1>1. Bad = {}
    <2> SUFFICES ASSUME Bad # {} PROVE FALSE
      OBVIOUS
    <2>1. /\ Min(Bad) \in Bad /\ \A i \in Bad : Min(Bad) <= i
      <3> Bad \subseteq Nat
        OBVIOUS
      <3> HIDE DEF Bad
      <3> QED BY MinOfSome
    <2> DEFINE n == Min(Bad)
    <2>2. n \in Nat /\ n \in Bad /\ \A i \in Bad : n <= i
      BY <2>1
    <2> HIDE DEF n
    <2>3. PICK s \in SUBSET S : s # {} /\ Cardinality(s) = n /\ ~Top(s)
      BY <2>2
    <2>4. PICK e \in s : TRUE
      BY <2>3
    <2> DEFINE t == s \ {e}
    <2>5. t \in SUBSET S /\ IsFiniteSet(s) /\ IsFiniteSet(t) /\ Cardinality(t) = n - 1 /\ Cardinality(t) \in Nat
      <3>1. IsFiniteSet(s)
        BY FS_Subset
      <3>2. IsFiniteSet(t) /\ Cardinality(t) = n - 1
        BY <2>3, <3>1, FS_RemoveElement
      <3> QED BY <3>1, <3>2, FS_CardinalityType
    <2>6. t # {}
      <3> SUFFICES ASSUME t = {} PROVE FALSE
        OBVIOUS
      <3>1. \A x \in s : x = e
        OBVIOUS
      <3>2. e >= e
        OBVIOUS
      <3> QED BY <2>3, <3>1, <3>2
    <2>7. Top(t)
      <3>1. n - 1 \notin Bad
        <4>1. ~(n <= n - 1)
          BY <2>2
        <4> QED BY <2>2, <4>1
      <3> QED BY <2>5, <2>6, <3>1
    <2>8. PICK m \in t : \A x \in t : m >= x
      BY <2>7
    <2>9. m \in Int /\ e \in Int /\ s \subseteq Int /\ \A x \in s : x = e \/ x \in t
      OBVIOUS
    <2>10. Top(s)
      <3>1. CASE m >= e
        <4>1. \A x \in s : m >= x
          BY <2>8, <2>9, <3>1
        <4> QED BY <4>1
      <3>2. CASE ~(m >= e)
        <4>1. \A x \in s : e >= x
          <5> HIDE DEF t
          <5> QED BY <2>8, <2>9, <3>2
        <4> QED BY <4>1
      <3> QED BY <3>1, <3>2
    <2> QED BY <2>3, <2>10
  <1>2. Top(S)
    <2>1. Cardinality(S) \in Nat
      BY FS_CardinalityType
    <2> QED BY <1>1, <2>1
  <1>3. \E m \in S : \A x \in S : m >= x
    BY <1>2
  <1> QED BY <1>3 DEF Max

\* The recursion behind SumFunctionOnSet: it takes the elements out one by one.
Pick(s) == CHOOSE x \in s : TRUE
IsSum(g, S, it) ==
  it = [s \in SUBSET S |-> IF s = {} THEN 0 ELSE g[Pick(s)] + it[s \ {Pick(s)}]]

\* The same up to sets of n elements.
Small(S, n) == {s \in SUBSET S : Cardinality(s) <= n}
IsSumTo(g, S, it, n) ==
  it = [s \in Small(S, n) |-> IF s = {} THEN 0 ELSE g[Pick(s)] + it[s \ {Pick(s)}]]

\* Taking the picked element out leaves a smaller set.
LEMMA PickOut ==
  ASSUME NEW S, IsFiniteSet(S), NEW s \in SUBSET S, s # {}
  PROVE  /\ Pick(s) \in s /\ Pick(s) \in S /\ s \ {Pick(s)} \in SUBSET S
         /\ Cardinality(s) \in Nat /\ Cardinality(s \ {Pick(s)}) \in Nat
         /\ Cardinality(s \ {Pick(s)}) = Cardinality(s) - 1
PROOF
  <1>1. Pick(s) \in s
    BY DEF Pick
  <1>2. IsFiniteSet(s)
    BY FS_Subset
  <1>3. IsFiniteSet(s \ {Pick(s)}) /\ Cardinality(s \ {Pick(s)}) = Cardinality(s) - 1
    BY <1>1, <1>2, FS_RemoveElement
  <1> QED BY <1>1, <1>2, <1>3, FS_CardinalityType

\* The recursion has a solution.
LEMMA SumExists ==
  ASSUME NEW g, NEW S, IsFiniteSet(S)
  PROVE  \E it : IsSum(g, S, it)
PROOF
  <1>1. Cardinality(S) \in Nat /\ \A s \in SUBSET S : Cardinality(s) \in Nat /\ Cardinality(s) <= Cardinality(S)
    BY FS_Subset, FS_CardinalityType
  <1> DEFINE Without == {n \in Nat : \A it : ~IsSumTo(g, S, it, n)}
  <1>2. 0 \notin Without
    <2> DEFINE it == [s \in Small(S, 0) |-> 0]
    <2>1. \A s \in Small(S, 0) : s = {}
      <3> SUFFICES ASSUME NEW s \in Small(S, 0) PROVE s = {}
        OBVIOUS
      <3>1. IsFiniteSet(s) /\ Cardinality(s) = 0
        BY <1>1, FS_Subset DEF Small
      <3> QED BY <3>1, FS_EmptySet
    <2>2. it = [s \in Small(S, 0) |-> IF s = {} THEN 0 ELSE g[Pick(s)] + it[s \ {Pick(s)}]]
      BY <2>1
    <2> HIDE DEF it
    <2>3. IsSumTo(g, S, it, 0)
      BY <2>2 DEF IsSumTo
    <2> QED BY <2>3
  <1>3. ASSUME NEW n \in Nat, n \notin Without PROVE n + 1 \notin Without
    <2>1. PICK old : IsSumTo(g, S, old, n)
      BY <1>3
    <2> DEFINE it == [s \in Small(S, n + 1) |->
                        IF s \in Small(S, n) THEN old[s] ELSE g[Pick(s)] + old[s \ {Pick(s)}]]
    <2>2. \A s \in Small(S, n) : s \in Small(S, n + 1)
      BY <1>1 DEF Small
    <2>3. ASSUME NEW s \in Small(S, n + 1)
          PROVE  it[s] = IF s = {} THEN 0 ELSE g[Pick(s)] + it[s \ {Pick(s)}]
      <3>1. s \in SUBSET S /\ Cardinality(s) <= n + 1 /\ Cardinality(s) \in Nat
        BY <1>1 DEF Small
      <3>2. CASE s = {}
        <4>1. s \in Small(S, n)
          BY <3>1, <3>2, FS_EmptySet DEF Small
        <4>2. old[s] = 0
          BY <2>1, <3>2, <4>1 DEF IsSumTo
        <4> QED BY <2>2, <3>2, <4>1, <4>2
      <3>3. CASE s # {}
        <4>1. s \ {Pick(s)} \in Small(S, n)
          BY <3>1, <3>3, PickOut DEF Small
        <4>2. it[s \ {Pick(s)}] = old[s \ {Pick(s)}]
          BY <2>2, <4>1
        <4>3. s \in Small(S, n) => old[s] = g[Pick(s)] + old[s \ {Pick(s)}]
          BY <2>1, <3>3 DEF IsSumTo
        <4> QED BY <3>3, <4>2, <4>3
      <3> QED BY <3>2, <3>3
    <2>4. it = [s \in Small(S, n + 1) |-> IF s = {} THEN 0 ELSE g[Pick(s)] + it[s \ {Pick(s)}]]
      <3>1. it = [s \in Small(S, n + 1) |-> it[s]]
        OBVIOUS
      <3> HIDE DEF it
      <3> QED BY <2>3, <3>1
    <2> HIDE DEF it
    <2>5. IsSumTo(g, S, it, n + 1)
      BY <2>4 DEF IsSumTo
    <2> QED BY <2>5
  <1>4. Without = {}
    <2> SUFFICES ASSUME Without # {} PROVE FALSE
      OBVIOUS
    <2> Without \subseteq Nat
      OBVIOUS
    <2> HIDE DEF Without
    <2>1. PICK m \in Without : \A i \in Without : m <= i
      BY MinOfSome
    <2>2. m \in Nat /\ m # 0
      BY <1>2
    <2>3. m - 1 \in Nat /\ m - 1 \notin Without
      BY <2>1, <2>2
    <2>4. (m - 1) + 1 \notin Without
      BY <1>3, <2>3
    <2> QED BY <2>2, <2>4
  <1>5. PICK it : IsSumTo(g, S, it, Cardinality(S))
    BY <1>1, <1>4
  <1>6. Small(S, Cardinality(S)) = SUBSET S
    BY <1>1 DEF Small
  <1> QED BY <1>5, <1>6 DEF IsSumTo, IsSum

Summed(g, S) == CHOOSE it : IsSum(g, S, it)

\* What the folds of the community modules compute, one element at a time.
LEMMA SumIs ==
  ASSUME NEW g, NEW S, IsFiniteSet(S)
  PROVE  /\ SumFunctionOnSet(g, S) = Summed(g, S)[S]
         /\ Summed(g, S)[{}] = 0
         /\ \A s \in SUBSET S : s # {} =>
              Summed(g, S)[s] = g[Pick(s)] + Summed(g, S)[s \ {Pick(s)}]
PROOF
  <1>1. SumFunctionOnSet(g, S) = Summed(g, S)[S]
    BY DEF SumFunctionOnSet, FoldFunctionOnSet, MapThenFoldSet, Summed, IsSum, Pick
  <1>2. IsSum(g, S, Summed(g, S))
    BY SumExists DEF Summed
  <1> HIDE DEF Summed
  <1> DEFINE it == Summed(g, S)
  <1>3. it = [s \in SUBSET S |-> IF s = {} THEN 0 ELSE g[Pick(s)] + it[s \ {Pick(s)}]]
    BY <1>2 DEF IsSum
  <1> HIDE DEF it
  <1>4. it[{}] = 0 /\ \A s \in SUBSET S : s # {} => it[s] = g[Pick(s)] + it[s \ {Pick(s)}]
    BY <1>3
  <1> QED BY <1>1, <1>4 DEF it


\* The same, under a name.
SumsUp(g, S, it) ==
  /\ SumFunctionOnSet(g, S) = it[S] /\ it[{}] = 0
  /\ \A s \in SUBSET S : s # {} => it[s] = g[Pick(s)] + it[s \ {Pick(s)}]

LEMMA SumSteps ==
  ASSUME NEW g, NEW S, IsFiniteSet(S)
  PROVE  SumsUp(g, S, Summed(g, S))
BY SumIs DEF SumsUp

\* Which of I a function takes into S; g counts them for each element of S.
TakenInto(I, f, S) == {i \in I : f[i] \in S}
Counts(g, I, f, S) == \A k \in S : g[k] = Cardinality({i \in I : f[i] = k})

\* Counts of disjoint parts add up.
LEMMA CountsAddUp ==
  ASSUME NEW I, IsFiniteSet(I), NEW f, NEW S, IsFiniteSet(S), NEW g, Counts(g, I, f, S)
  PROVE  SumFunctionOnSet(g, S) = Cardinality(TakenInto(I, f, S))
PROOF
  <1> DEFINE it == Summed(g, S)
             Into(s) == {i \in I : f[i] \in s}
             Good(s) == it[s] = Cardinality(Into(s))
             Bad == {n \in Nat : \E s \in SUBSET S : Cardinality(s) = n /\ ~Good(s)}
  <1>0. SumsUp(g, S, it)
    BY SumSteps
  <1>1. \A s \in SUBSET S : Cardinality(s) \in Nat
    BY FS_Subset, FS_CardinalityType
  <1>2. Bad = {}
    <2> SUFFICES ASSUME Bad # {} PROVE FALSE
      OBVIOUS
    <2>1. PICK m \in Bad : \A i \in Bad : m <= i
      <3> Bad \subseteq Nat
        OBVIOUS
      <3> HIDE DEF Bad
      <3> QED BY MinOfSome
    <2>2. PICK s \in SUBSET S : Cardinality(s) = m /\ ~Good(s)
      OBVIOUS
    <2>3. s # {}
      <3>1. it[{}] = 0
        BY SumIs
      <3>2. Into({}) = {} /\ Cardinality({}) = 0
        BY FS_EmptySet
      <3> HIDE DEF it, Into
      <3> QED BY <2>2, <3>1, <3>2
    <2> DEFINE p == Pick(s)
    <2>4. p \in s /\ p \in S /\ s \ {p} \in SUBSET S /\ Cardinality(s \ {p}) = m - 1
          /\ Cardinality(s \ {p}) \in Nat
      BY <2>2, <2>3, PickOut
    <2>5. Good(s \ {p})
      <3>1. ~(m <= m - 1)
        OBVIOUS
      <3> QED BY <2>1, <2>4, <3>1
    <2>6. it[s] = g[p] + it[s \ {p}]
      BY <1>0, <2>3 DEF SumsUp
    <2> HIDE DEF it, p
    <2>7. /\ Into(s) = {i \in I : f[i] = p} \cup Into(s \ {p}) /\ {i \in I : f[i] = p} \cap Into(s \ {p}) = {}
          /\ {i \in I : f[i] = p} \in SUBSET I /\ Into(s \ {p}) \in SUBSET I
      BY <2>4
    <2> DEFINE A == {i \in I : f[i] = p}
               B == Into(s \ {p})
    <2>8. Into(s) = A \cup B /\ A \cap B = {} /\ A \in SUBSET I /\ B \in SUBSET I
      BY <2>7
    <2>9. g[p] = Cardinality(A) /\ it[s \ {p}] = Cardinality(B)
      BY <2>4, <2>5 DEF Counts
    <2> HIDE DEF A, B
    <2>10. IsFiniteSet(A) /\ IsFiniteSet(B) /\ Cardinality(A) \in Nat /\ Cardinality(B) \in Nat
      BY <2>8, PartFinite
    <2>11. Cardinality(A \cup B) = Cardinality(A) + Cardinality(B)
      <3>1. Cardinality(A \cup B) = Cardinality(A) + Cardinality(B) - Cardinality(A \cap B)
        BY <2>10, FS_Union
      <3>2. Cardinality(A \cap B) = 0
        BY <2>8, FS_EmptySet
      <3> QED BY <2>10, <3>1, <3>2
    <2>12. Good(s)
      <3> HIDE DEF Into
      <3> QED BY <2>6, <2>8, <2>9, <2>11
    <2> QED BY <2>2, <2>12
  <1>3. Good(S)
    BY <1>1, <1>2
  <1> QED BY <1>0, <1>3 DEF SumsUp, TakenInto

-----------------------------------------------------------------------------
(* The profile                                                              *)

\* Matches as _parse_match makes them.
IsMatch(m) == m.time \in Nat /\ m.place \in Nat \ {0} /\ m.units \in Seq(DOMAIN Cost)
Listed(ms) == ms \in Seq(ToSet(ms)) /\ \A i \in 1 .. Len(ms) : IsMatch(ms[i])

LEMMA NoMatchListed == Listed(<<>>)
PROOF
  <1>1. <<>> \in Seq(ToSet(<<>>)) /\ Len(<<>>) = 0
    OBVIOUS
  <1> QED BY <1>1 DEF Listed

\* What is in a list of one thing for each of n is a list.
LEMMA ListOf ==
  ASSUME NEW n \in Nat, NEW f, f = [k \in 1 .. n |-> f[k]]
  PROVE  f \in Seq(ToSet(f)) /\ Len(f) = n /\ DOMAIN f = 1 .. n
PROOF
  <1>1. \A k \in 1 .. n : f[k] \in ToSet(f)
    BY DEF ToSet
  <1> QED BY <1>1

\* The matches of a player, in the order of the ids, are all parsed.
LEMMA ParsedListed ==
  ASSUME NEW ms \in Parsed
  PROVE  Listed(ms)
PROOF
  <1>1. CASE ms = <<>>
    BY <1>1, NoMatchListed
  <1>2. ASSUME NEW raws \in MatchList, NEW p \in PlayerId, ms = ParseMatches(raws, p) PROVE Listed(ms)
    <2> DEFINE mine == {i \in DOMAIN raws : p \in DOMAIN raws[i].players}
               before == [i \in mine |-> {j \in mine : j < i}]
               nth(k) == CHOOSE i \in mine : Cardinality({j \in mine : j < i}) = k - 1
               n == Cardinality(mine)
    <2>1. raws \in Seq(ToSet(raws)) /\ DOMAIN raws = 1 .. Len(raws) /\ Len(raws) \in Nat
      BY MatchAssumption
    <2>2. \A i \in mine : /\ raws[i].time \in Nat /\ raws[i].players[p].place \in Nat \ {0}
                          /\ raws[i].players[p].units \in Seq(DOMAIN Cost)
      <3>1. \A i \in DOMAIN raws : raws[i] \in ToSet(raws)
        BY DEF ToSet
      <3> QED BY <3>1, MatchAssumption
    <2>3. mine \subseteq 1 .. Len(raws) /\ IsFiniteSet(mine) /\ n \in Nat
      <3>1. mine \in SUBSET (1 .. Len(raws))
        BY <2>1
      <3> HIDE DEF mine
      <3> QED BY <2>1, <3>1, IntervalFinite, PartFinite
    <2>4. ms = [k \in 1 .. n |-> ParseMatch(raws[nth(k)], p)]
      BY <1>2 DEF ParseMatches
    <2> HIDE DEF mine
    <2>5. \A m \in 0 .. n - 1 : \E i \in mine : Cardinality(before[i]) = m
      <3>0. mine \subseteq Nat
        BY <2>1, <2>3
      <3>1. before \in [mine -> SUBSET mine] /\ \A i \in mine : i \notin before[i]
        BY <3>0
      <3>2. \A i, j \in mine : i # j => i \in before[j] \/ j \in before[i]
        BY <3>0
      <3>3. ASSUME NEW i \in mine, NEW j \in mine, i \in before[j], NEW k \in before[i] PROVE k \in before[j]
        <4>1. i \in Nat /\ j \in Nat /\ k \in Nat /\ k \in mine /\ k < i /\ i < j
          BY <3>0, <3>3
        <4>2. k < j
          BY <4>1
        <4> QED BY <4>1, <4>2
      <3> HIDE DEF before
      <3> QED BY <2>3, <3>1, <3>2, <3>3, PlacesTaken
    <2>6. ASSUME NEW k \in 1 .. n PROVE nth(k) \in mine
      <3>1. k - 1 \in 0 .. n - 1
        BY <2>3
      <3>2. \E i \in mine : Cardinality(before[i]) = k - 1
        BY <2>5, <3>1
      <3> QED BY <3>2
    <2> HIDE DEF nth
    <2>7. ASSUME NEW k \in 1 .. n PROVE IsMatch(ms[k])
      BY <2>2, <2>4, <2>6 DEF ParseMatch, IsMatch
    <2>8. ms = [k \in 1 .. n |-> ms[k]]
      BY <2>4
    <2> HIDE DEF n
    <2>9. ms \in Seq(ToSet(ms)) /\ Len(ms) = n
      BY <2>3, <2>8, ListOf
    <2> QED BY <2>7, <2>9 DEF Listed
  <1> QED BY <1>1, <1>2 DEF Parsed

\* The sort keeps every match: as many, and only theirs.
LEMMA PlacesListed ==
  ASSUME NEW ms, Listed(ms)
  PROVE  LET places == Places(ms)
         IN  /\ Len(ms) \in Nat /\ DOMAIN places = 1 .. Len(ms) /\ Len(places) = Len(ms)
             /\ \A i \in 1 .. Len(ms) : places[i] \in Nat \ {0}
PROOF
  <1> DEFINE n == Len(ms)
             I == 1 .. n
             before == [i \in I |-> Ahead(ms, i)]
             which(k) == CHOOSE i \in DOMAIN ms : Cardinality(Ahead(ms, i)) = k - 1
  <1>1. n \in Nat /\ DOMAIN ms = I
    BY DEF Listed
  <1>2. \A i \in I : IsMatch(ms[i])
    BY DEF Listed
  <1>3. IsFiniteSet(I) /\ Cardinality(I) = n
    BY <1>1, IntervalFinite
  <1>4. \A i, j \in I : j \in before[i] <=> ms[j].time > ms[i].time \/ (ms[j].time = ms[i].time /\ j < i)
    BY <1>1 DEF Ahead
  <1>5. before \in [I -> SUBSET I]
    BY <1>1 DEF Ahead
  <1>6. \A i \in I : ms[i].time \in Nat /\ ms[i].place \in Nat \ {0} /\ i \in Nat
    BY <1>2 DEF IsMatch
  <1> HIDE DEF before, n
  <1>7. \A m \in 0 .. n - 1 : \E i \in I : Cardinality(before[i]) = m
    <2>1. \A i \in I : i \notin before[i]
      BY <1>4, <1>6
    <2>2. \A i, j \in I : i # j => i \in before[j] \/ j \in before[i]
      BY <1>4, <1>6
    <2>3. ASSUME NEW i \in I, NEW j \in I, i \in before[j], NEW k \in before[i] PROVE k \in before[j]
      <3>1. k \in I
        BY <1>5
      <3> QED BY <1>4, <1>6, <2>3, <3>1
    <2> HIDE DEF I
    <2> QED BY <1>3, <1>5, <2>1, <2>2, <2>3, PlacesTaken
  <1>8. ASSUME NEW k \in I PROVE which(k) \in I
    <2>1. k - 1 \in 0 .. n - 1
      BY <1>1
    <2>2. PICK i \in I : Cardinality(before[i]) = k - 1
      BY <1>7, <2>1
    <2>3. Cardinality(Ahead(ms, i)) = k - 1
      BY <2>2 DEF before
    <2> QED BY <1>1, <2>3
  <1>9. Recent(ms) = [k \in I |-> ms[which(k)]]
    BY <1>1 DEF Recent
  <1> HIDE DEF which, I
  <1>10. Places(ms) = [k \in I |-> ms[which(k)].place]
    BY <1>9 DEF Places
  <1>11. \A i \in I : Places(ms)[i] \in Nat \ {0}
    BY <1>6, <1>8, <1>10
  <1>12. DOMAIN Places(ms) = I /\ Places(ms) = [k \in I |-> Places(ms)[k]]
    BY <1>10
  <1>13. Len(Places(ms)) = n
    BY <1>1, <1>12, ListOf DEF I
  <1> QED BY <1>1, <1>11, <1>12, <1>13 DEF n, I

\* A placement from 1 on is its own slot, up to 8.
LEMMA SlotIs ==
  ASSUME NEW p \in Nat \ {0}
  PROVE  /\ Slot(p) \in 1 .. 8 /\ (Slot(p) = 1 <=> p = 1) /\ (Slot(p) \in 1 .. 4 <=> p <= 4)
PROOF
  <1>1. Max({1, p}) = p
    BY MaxOfTwo
  <1>2. Slot(p) = IF 8 <= p THEN 8 ELSE p
    BY <1>1 DEF Slot, Min
  <1> QED BY <1>2

\* The placements of n matches.
PlacesOf(places, n) ==
  n \in Nat /\ DOMAIN places = 1 .. n /\ Len(places) = n /\ \A i \in 1 .. n : places[i] \in Nat \ {0}

LEMMA DistributionAgrees ==
  ASSUME NEW n, NEW places, PlacesOf(places, n)
  PROVE  LET d == Distribution(places)
             top4 == CountIf(places, LAMBDA p : p <= 4)
         IN  /\ SumFunction(d) = n /\ d[1] = CountIf(places, LAMBDA p : p = 1)
             /\ SumFunctionOnSet(d, 1 .. 4) = top4 /\ Streak(places) <= top4
PROOF
  <1> DEFINE I == 1 .. n
             d == Distribution(places)
             f == [i \in I |-> Slot(places[i])]
             few == {i \in I : places[i] <= 4}
  <1>1. n \in Nat /\ DOMAIN places = I /\ Len(places) = n /\ \A i \in I : places[i] \in Nat \ {0}
    BY DEF PlacesOf
  <1>2. IsFiniteSet(I) /\ Cardinality(I) = n
    BY <1>1, IntervalFinite
  <1>3. \A i \in I : f[i] \in 1 .. 8 /\ (f[i] = 1 <=> places[i] = 1) /\ (f[i] \in 1 .. 4 <=> places[i] <= 4)
    <2> SUFFICES ASSUME NEW i \in I
                 PROVE  f[i] \in 1 .. 8 /\ (f[i] = 1 <=> places[i] = 1) /\ (f[i] \in 1 .. 4 <=> places[i] <= 4)
      OBVIOUS
    <2>1. places[i] \in Nat \ {0} /\ f[i] = Slot(places[i])
      BY <1>1
    <2> QED BY <2>1, SlotIs
  <1>4. DOMAIN d = 1 .. 8 /\ \A k \in 1 .. 8 : d[k] = Cardinality({i \in I : Slot(places[i]) = k})
    BY <1>1 DEF Distribution, CountIf
  <1>5. \A k \in 1 .. 8 : {i \in I : Slot(places[i]) = k} = {i \in I : f[i] = k}
    OBVIOUS
  <1>6. \A k \in 1 .. 8 : d[k] = Cardinality({i \in I : f[i] = k})
    BY <1>4, <1>5
  <1>7. IsFiniteSet(1 .. 8) /\ IsFiniteSet(1 .. 4)
    <2>1. 8 \in Nat /\ 4 \in Nat
      OBVIOUS
    <2> QED BY <2>1, IntervalFinite
  <1> HIDE DEF d, f, I
  <1>8. SumFunctionOnSet(d, 1 .. 8) = Cardinality(TakenInto(I, f, 1 .. 8))
    <2>1. Counts(d, I, f, 1 .. 8)
      BY <1>6 DEF Counts
    <2> QED BY <1>2, <1>7, <2>1, CountsAddUp
  <1>9. SumFunction(d) = n
    <2>1. TakenInto(I, f, 1 .. 8) = I
      BY <1>3 DEF TakenInto
    <2> QED BY <1>2, <1>4, <1>8, <2>1 DEF SumFunction
  <1>10. d[1] = CountIf(places, LAMBDA p : p = 1)
    <2>1. {i \in I : f[i] = 1} = {i \in I : places[i] = 1}
      BY <1>3
    <2>2. 1 \in 1 .. 8
      OBVIOUS
    <2> QED BY <1>1, <1>6, <2>1, <2>2 DEF CountIf
  <1>11. CountIf(places, LAMBDA p : p <= 4) = Cardinality(few)
    BY <1>1 DEF CountIf
  <1>12. SumFunctionOnSet(d, 1 .. 4) = Cardinality(few)
    <2>1. Counts(d, I, f, 1 .. 4)
      BY <1>6 DEF Counts
    <2>2. SumFunctionOnSet(d, 1 .. 4) = Cardinality(TakenInto(I, f, 1 .. 4))
      BY <1>2, <1>7, <2>1, CountsAddUp
    <2>3. TakenInto(I, f, 1 .. 4) = few
      BY <1>3 DEF TakenInto
    <2> QED BY <2>2, <2>3
  <1>13. Streak(places) <= Cardinality(few)
    <2> DEFINE S == {m \in 0 .. n : \A i \in 1 .. m : places[i] <= 4}
    <2>1. Streak(places) = Max(S)
      BY <1>1 DEF Streak
    <2>2. S \subseteq Int /\ 0 \in S /\ S \in SUBSET Nat /\ \A s \in S : s <= n
      BY <1>1
    <2>3. IsFiniteSet(S)
      <3> HIDE DEF S
      <3> QED BY <1>1, <2>2, FS_BoundedSetOfNaturals
    <2> DEFINE m == Max(S)
    <2>4. m \in S
      <3> HIDE DEF S
      <3> QED BY <2>2, <2>3, MaxOfSome
    <2> HIDE DEF m
    <2>5. m \in Nat /\ (1 .. m) \in SUBSET few
      BY <1>1, <2>4 DEF I
    <2>6. few \in SUBSET I
      OBVIOUS
    <2> HIDE DEF few, S
    <2>7. IsFiniteSet(few)
      BY <1>2, <2>6, PartFinite
    <2>8. Cardinality(1 .. m) <= Cardinality(few) /\ Cardinality(1 .. m) = m
      BY <2>5, <2>7, PartFinite, IntervalFinite
    <2> QED BY <2>1, <2>8 DEF m
  <1> QED BY <1>9, <1>10, <1>11, <1>12, <1>13 DEF d

\* A champion counts once for a match it was played in.
LEMMA GamesWithin ==
  ASSUME NEW ms, Listed(ms), NEW c \in UNION {ToSet(ms[i].units) : i \in DOMAIN ms}
  PROVE  Games(ms, c) \in 1 .. Len(ms) /\ Cost[c] \in Nat
PROOF
  <1> DEFINE I == 1 .. Len(ms)
             G == {i \in I : c \in ToSet(ms[i].units)}
  <1>1. Len(ms) \in Nat /\ DOMAIN ms = I
    BY DEF Listed
  <1>2. IsFiniteSet(I) /\ Cardinality(I) = Len(ms)
    BY <1>1, IntervalFinite
  <1>3. PICK i \in I : c \in ToSet(ms[i].units)
    BY <1>1
  <1>4. Games(ms, c) = Cardinality(G)
    BY <1>1 DEF Games
  <1>5. G \in SUBSET I /\ G # {}
    BY <1>3
  <1>6. Cost[c] \in Nat
    <2>1. ms[i].units \in Seq(DOMAIN Cost)
      BY DEF Listed, IsMatch
    <2>2. c \in DOMAIN Cost
      BY <1>3, <2>1 DEF ToSet
    <2> QED BY <2>2, MatchAssumption
  <1> HIDE DEF G, I
  <1>7. IsFiniteSet(G) /\ Cardinality(G) \in Nat /\ Cardinality(G) <= Len(ms)
    BY <1>2, <1>5, PartFinite
  <1>8. Cardinality(G) # 0
    BY <1>5, <1>7, FS_EmptySet
  <1> QED BY <1>1, <1>4, <1>6, <1>7, <1>8

\* The rating of a rank is a number.
LEMMA RatingIs ==
  ASSUME NEW k \in Rank
  PROVE  RankValue(k) \in Nat
PROOF
  <1>1. k.lp \in Nat /\ \/ k.tier \in DOMAIN ApexBase
                        \/ k.tier \in ToSet(Ladder) /\ k.division \in DOMAIN Division
    BY RankAssumption
  <1>2. CASE k.tier \in DOMAIN ApexBase
    <2>1. \A t \in DOMAIN ApexBase : ApexBase[t] \in Nat
      BY DEF ApexBase
    <2> QED BY <1>1, <1>2, <2>1 DEF RankValue
  <1>3. CASE k.tier \notin DOMAIN ApexBase
    <2> DEFINE i == CHOOSE j \in DOMAIN Ladder : Ladder[j] = k.tier
    <2>1. i \in DOMAIN Ladder
      BY <1>1, <1>3 DEF ToSet
    <2>2. i \in 1 .. 7
      <3> HIDE DEF i
      <3> QED BY <2>1 DEF Ladder
    <2>3. Division[k.division] \in Nat
      BY <1>1, <1>3 DEF Division
    <2>4. RankValue(k) = i * 400 - 400 + Division[k.division] * 100 + k.lp
      BY <1>3 DEF RankValue
    <2> HIDE DEF i
    <2> QED BY <1>1, <2>2, <2>3, <2>4
  <1> QED BY <1>2, <1>3

\* The greatest rating of a history is not below its last rank's.
LEMMA PeakAbove ==
  ASSUME NEW hist \in History, hist # <<>>
  PROVE  Max({hist[i].rating : i \in DOMAIN hist}) >= RankValue(Last(hist).rank)
PROOF
  <1> DEFINE n == Len(hist)
             f == [i \in 1 .. n |-> hist[i].rating]
             S == {hist[i].rating : i \in DOMAIN hist}
  <1>1. n \in Nat /\ DOMAIN hist = 1 .. n /\ n \in 1 .. n /\ \A i \in 1 .. n : hist[i] \in Snapshot
    BY DEF History
  <1>2. \A x \in Snapshot : x.rating = RankValue(x.rank) /\ x.rank \in Rank
    BY DEF Snapshot
  <1>3. \A i \in 1 .. n : hist[i].rating \in Nat
    BY <1>1, <1>2, RatingIs
  <1>4. S = {f[i] : i \in 1 .. n} /\ S \subseteq Int /\ hist[n].rating \in S
    BY <1>1, <1>3
  <1>5. IsFiniteSet(S)
    <2>1. f \in Surjection(1 .. n, S)
      BY <1>4 DEF Surjection
    <2>2. IsFiniteSet(1 .. n)
      BY <1>1, IntervalFinite
    <2> HIDE DEF f, S
    <2> QED BY <2>1, <2>2, FS_Surjection
  <1>6. hist[n].rating = RankValue(Last(hist).rank)
    BY <1>1, <1>2 DEF Last
  <1> HIDE DEF S
  <1>7. Max(S) >= hist[n].rating
    BY <1>4, <1>5, MaxOfSome
  <1> QED BY <1>6, <1>7 DEF S

\* riot.py:291, build_player_profile: for every answer, the distribution has each
\* match once and agrees with the wins, the top fours and the streak; a champion
\* is played in at least one match and at most in all; the favourite carry is one
\* of them and costs 4 or more; and the peak is not below the rank just found,
\* although the history drops its oldest snapshots and skips unchanged days.
THEOREM ProfilesAgree == Spec => []ProfileAgrees
PROOF
  <1>1. PlayerInv => ProfileAgrees
    <2> SUFFICES ASSUME PlayerInv, NEW r \in Request, thread[r].pc = "done"
                 PROVE  LET p == Profile(r)
                            n == Len(thread[r].matches)
                        IN  /\ SumFunction(p.distribution) = n /\ p.distribution[1] = p.firsts
                            /\ SumFunctionOnSet(p.distribution, 1 .. 4) = p.top4 /\ p.streak <= p.top4
                            /\ \A c \in DOMAIN p.games : p.games[c] \in 1 .. n
                            /\ p.topCarry \subseteq {c \in DOMAIN p.games : Cost[c] >= 4}
                            /\ p.current # Unranked => p.peak >= RankValue(p.current)
      BY DEF ProfileAgrees
    <2> DEFINE th == thread[r]
               ms == th.matches
               hist == th.store[th.query.player]
               places == Places(ms)
               champions == UNION {ToSet(ms[i].units) : i \in DOMAIN ms}
               carried == {c \in champions : CarryCount(ms, c) > 0}
               p == Profile(r)
    <2>1. th \in Thread /\ ThreadSound(th)
      BY Facts
    <2>2. ms \in Parsed
      BY <2>1 DEF Thread
    <2>3. Listed(ms)
      BY <2>2, ParsedListed
    <2>4. PlacesOf(places, Len(ms))
      BY <2>3, PlacesListed DEF PlacesOf
    <2>5. /\ p.distribution = Distribution(places) /\ p.streak = Streak(places)
          /\ p.top4 = CountIf(places, LAMBDA x : x <= 4) /\ p.firsts = CountIf(places, LAMBDA x : x = 1)
      BY DEF Profile
    <2>6. /\ DOMAIN p.games = champions /\ \A c \in champions : p.games[c] = Games(ms, c)
          /\ p.topCarry \subseteq carried /\ p.current = th.rank
          /\ hist # <<>> => p.peak = Max({hist[i].rating : i \in DOMAIN hist})
      BY DEF Profile
    <2> HIDE DEF p
    <2>7. /\ SumFunction(p.distribution) = Len(ms) /\ p.distribution[1] = p.firsts
          /\ SumFunctionOnSet(p.distribution, 1 .. 4) = p.top4 /\ p.streak <= p.top4
      <3> HIDE DEF places
      <3> QED BY <2>4, <2>5, DistributionAgrees
    <2>8. \A c \in champions : Games(ms, c) \in 1 .. Len(ms) /\ Cost[c] \in Nat
      <3> HIDE DEF ms
      <3> QED BY <2>3, GamesWithin
    <2>9. \A c \in carried : c \in champions /\ Cost[c] >= 4
      <3> SUFFICES ASSUME NEW c \in carried PROVE c \in champions /\ Cost[c] >= 4
        OBVIOUS
      <3>1. c \in champions /\ CarryCount(ms, c) > 0
        OBVIOUS
      <3>2. Cost[c] < 4 => CarryCount(ms, c) = 0
        BY DEF CarryCount
      <3> HIDE DEF champions, carried
      <3> QED BY <2>8, <3>1, <3>2
    <2>10. ASSUME th.rank # Unranked PROVE p.peak >= RankValue(p.current)
      <3>1. hist # <<>> /\ Last(hist).rank = th.rank
        BY <2>1, <2>10 DEF ThreadSound, Ranked
      <3>2. hist \in History
        <4>1. th.query # NoQuery
          BY <2>1 DEF ThreadSound
        <4>2. th.query.player \in PlayerId
          BY <2>1, <4>1, QueryPlayer
        <4> QED BY <2>1, <4>2 DEF ThreadSound, GoodStore, Store
      <3> HIDE DEF hist, th
      <3> QED BY <2>6, <3>1, <3>2, PeakAbove
    <2> HIDE DEF champions, carried, ms
    <2>11. /\ \A c \in DOMAIN p.games : p.games[c] \in 1 .. Len(ms)
           /\ p.topCarry \subseteq {c \in DOMAIN p.games : Cost[c] >= 4}
      BY <2>6, <2>8, <2>9
    <2> QED BY <2>6, <2>7, <2>10, <2>11 DEF p, ms
  <1> QED BY <1>1, PlayerInvariant, PTL

=============================================================================
