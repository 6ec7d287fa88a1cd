-------------------------------- MODULE Gate --------------------------------
(***************************************************************************)
(* rate_limit_middleware (api/security.py) with its two _SlidingWindows    *)
(* and the _DailyCap, and the clock of the API process.  The middleware is *)
(* a coroutine that awaits nothing before the handler: what it decides     *)
(* about a request is one step.  Module Service has the handlers.          *)
(***************************************************************************)
EXTENDS Integers, FiniteSets, SequencesExt

CONSTANTS Ip,           \* what _client_ip finds
          Limit,        \* Limit["all"]: RATE_PER_MIN, Limit["riot"]: PLAYER_RATE_PER_MIN
          RiotDailyCap,
          Window,       \* 60 s, in ticks
          TicksPerSec,
          Day,          \* a day, in ticks
          MaxTime       \* bound

Bucket == {"all", "riot"}
Path == {"meta", "suggest", "player"}

ASSUME GateAssumption ==
  /\ Limit \in [Bucket -> Int] /\ RiotDailyCap \in Int
  /\ {Window, TicksPerSec, Day} \subseteq Nat \ {0} /\ MaxTime \in Nat

VARIABLES now,     \* time, in ticks
          hits,    \* _hits of the two windows
          daily,   \* _day and _count
          recent,  \* history: when this process admitted requests, over the last Window
          spent,   \* history: player lookups let through today, by all processes
          starts   \* history: how many processes have served today

gate == <<hits, daily, recent, spent, starts>>

GateInit ==
  /\ now = 0
  /\ hits = [b \in Bucket |-> [ip \in Ip |-> <<>>]] /\ recent = hits
  /\ daily = [day |-> -1, count |-> 0] /\ spent = 0 /\ starts = 1

-----------------------------------------------------------------------------
(* _SlidingWindow.allow and _DailyCap.allow                                 *)

\* popleft as long as the first is from before the cutoff.
Since(dq, cutoff) ==
  LET left == {i \in 1 .. Len(dq) : dq[i] >= cutoff}
  IN  IF left = {} THEN <<>> ELSE SubSeq(dq, Min(left), Len(dq))

\* Mutant of Pruned: what is exactly a window old goes, too.
PrunedAtCutoff(dq) == Since(dq, now - Window + 1)
Pruned(dq) == Since(dq, now - Window)

\* A limit of 0 is no limit.
Room(b, ip) == Limit[b] > 0 => Len(Pruned(hits[b][ip])) < Limit[b]
Allow(b, ip) ==
  LET dq == Pruned(hits[b][ip])
  IN  CASE Limit[b] <= 0 -> hits[b][ip]
        [] Limit[b] > 0 /\ Len(dq) < Limit[b] -> Append(dq, now)
        [] OTHER -> dq

\* Mutant of Retry: rounded down.
RetryShort(dq) == Max({1, (Window - (now - Head(dq))) \div TicksPerSec})
Retry(dq) == Max({1, (Window - (now - Head(dq))) \div TicksPerSec + 1})

\* tm_yday of today, and _day and _count once they are those of today.
Yday == now \div Day
Today == IF daily.day = Yday THEN daily ELSE [day |-> Yday, count |-> 0]

\* Mutant of CapLeft: one lookup too many.
CapLeftLoose(d) == d.count <= RiotDailyCap
CapLeft(d) == d.count < RiotDailyCap

-----------------------------------------------------------------------------
(* rate_limit_middleware: which of the three ways a request goes            *)

IsRiot(path) == path \in {"player", "suggest"}
Admitted(ip, path) == Room("all", ip) /\ (IsRiot(path) => Room("riot", ip))
OverCap(path) == path = "player" /\ RiotDailyCap > 0 /\ ~CapLeft(Today)

\* The windows are consulted one after the other, so that a request the second
\* one refuses has its place in the first.
Consult(ip, path) ==
  LET riot == IsRiot(path) /\ Room("all", ip)
      in(b) == Room(b, ip) /\ (b = "riot" => riot)
  IN  /\ hits' = [b \in Bucket |-> [hits[b] EXCEPT ![ip] = IF b = "all" \/ riot THEN Allow(b, ip) ELSE @]]
      /\ recent' = [b \in Bucket |-> [recent[b] EXCEPT ![ip] = IF in(b) THEN Append(@, now) ELSE @]]

Spend(path) ==
  IF path = "player" /\ RiotDailyCap > 0
  THEN daily' = [Today EXCEPT !.count = IF CapLeft(Today) THEN @ + 1 ELSE @]
  ELSE UNCHANGED daily

\* 429, with Retry-After.
TooManyRequests(ip, path) ==
  /\ ~Admitted(ip, path)
  /\ Consult(ip, path)
  /\ UNCHANGED <<daily, spent, starts>>

\* 503
Unavailable(ip, path) ==
  /\ Admitted(ip, path) /\ OverCap(path)
  /\ Consult(ip, path) /\ Spend(path)
  /\ UNCHANGED <<spent, starts>>

\* call_next
Through(ip, path) ==
  /\ Admitted(ip, path) /\ ~OverCap(path)
  /\ Consult(ip, path) /\ Spend(path)
  /\ spent' = IF path = "player" THEN spent + 1 ELSE spent
  /\ UNCHANGED starts

TickGate ==
  /\ now < MaxTime
  /\ now' = now + 1
  /\ recent' = [b \in Bucket |-> [ip \in Ip |-> Since(recent[b][ip], now' - Window)]]
  /\ spent' = IF Yday' = Yday THEN spent ELSE 0
  /\ starts' = IF Yday' = Yday THEN starts ELSE 1
  /\ UNCHANGED <<hits, daily>>

-----------------------------------------------------------------------------
(* Properties                                                               *)

GateTypeOK ==
  /\ now \in Nat /\ spent \in Nat /\ starts \in Nat \ {0}
  /\ {hits, recent} \subseteq [Bucket -> [Ip -> Seq(Nat)]]
  /\ daily \in [day : Int, count : Nat]

\* security.py:60: no window of Window ticks, at whatever time it begins, has
\* more requests of an address than the limit, in either bucket.  The windows
\* are in memory: this is said of the requests one process admits, and one that
\* starts again knows nothing of those admitted before.
WindowBound == \A b \in Bucket : Limit[b] > 0 => \A ip \in Ip : Len(recent[b][ip]) <= Limit[b]

\* A client that is refused and waits as long as Retry-After says finds room,
\* although whole seconds are counted and what is exactly a window old still
\* counts.
RetrySuffices ==
  \A b \in Bucket, ip \in Ip : ~Room(b, ip) =>
    LET dq == Pruned(hits[b][ip])
        then == now + TicksPerSec * Retry(dq)
    IN  Len(Since(dq, then - Window)) < Limit[b]

\* The lookups let through in a day, from all addresses, stay within the cap for
\* each process that served that day: the count is in memory, and a process that
\* starts in the middle of a day has a whole cap.  In a day with one process
\* there is room exactly until the cap is spent, and a new day has all of it.
DailyBudget ==
  RiotDailyCap > 0 => /\ spent <= starts * RiotDailyCap
                      /\ starts = 1 => (CapLeft(Today) <=> spent < RiotDailyCap)

\* security.py:85, "resets at UTC midnight -- protects the Riot key budget": of
\* the lookups let through in a day, there are never more than the cap.
CapPerDay == RiotDailyCap > 0 => spent <= RiotDailyCap

=============================================================================
