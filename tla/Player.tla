------------------------------- MODULE Player -------------------------------
(***************************************************************************)
(* Player search: the routes /player and /players/suggest of api/main.py   *)
(* behind the middleware (module Gate), Service.player_analysis, and       *)
(* api/riot.py: the calls of Riot's API, the rank history it keeps in a    *)
(* file, and the profile.  The handlers run in threads; nothing locks the  *)
(* file.  A step is an answer of Riot or an access to the file.            *)
(*                                                                         *)
(* A file is an inode: open(tmp, "w") empties the inode tmp names, or      *)
(* makes one, and a writer keeps its inode when another thread renames it. *)
(* Players are named by their puuid.  Riot is external.                    *)
(***************************************************************************)
EXTENDS Gate

CONSTANTS Request, Query,    \* Query[r]: what request r may ask for
          NoQuery,
          PlayerId, Seed,    \* players, and _KNOWN_IDS at the start
          Rank, Unranked,    \* what LEAGUE-V1 answers: [tier, division, lp]
          MatchList,         \* what MATCH-V1 answers
          Cost,              \* _unit_cost, by champion
          Keep,              \* 120
          Before,            \* the rank histories an earlier process may have left
          Torn, None,
          MaxCrashes         \* bound

ASSUME PlayerAssumption ==
  /\ Keep \in Nat \ {0} /\ MaxCrashes \in Nat /\ Seed \subseteq PlayerId
  /\ Unranked \notin Rank /\ None \notin Nat /\ \A r \in Request : NoQuery \notin Query[r]
  /\ Query \in [Request -> SUBSET [ip : Ip, path : Path, player : PlayerId,
                                   valid : BOOLEAN, key : BOOLEAN, tag : BOOLEAN]]

\* Riot counts placements from 1; a list of matches is one of JSON.
ASSUME MatchAssumption ==
  /\ Cost \in [DOMAIN Cost -> Nat]
  /\ \A raws \in MatchList :
       /\ raws \in Seq(ToSet(raws))
       /\ \A raw \in ToSet(raws) : \A p \in DOMAIN raw.players :
            /\ raw.time \in Nat /\ raw.players[p].place \in Nat \ {0}
            /\ raw.players[p].units \in Seq(DOMAIN Cost)

VARIABLES known,     \* _KNOWN_IDS
          live, tmp, \* the inodes of _STORE_PATH and _STORE_PATH.tmp
          data,      \* data[i]: what inode i holds
          thread,
          kept,      \* history: the rank histories recorded so far
          overlap,   \* history: two threads were in record_rank at once
          crashes

files == <<live, tmp, data>>
vars == <<now, gate, known, files, thread, kept, overlap, crashes>>

NoHistory == [p \in PlayerId |-> <<>>]
New == [pc |-> "new", query |-> NoQuery, rank |-> Unranked, store |-> NoHistory, date |-> 0,
        fd |-> None, matches |-> <<>>]
Over == [New EXCEPT !.pc = "over"]

Init ==
  /\ GateInit
  /\ known = Seed /\ tmp = None
  /\ \/ live = None /\ data = <<>> /\ kept = NoHistory
     \/ live = 1 /\ data = <<Before>> /\ kept = Before
  /\ thread = [r \in Request |-> New]
  /\ overlap = FALSE /\ crashes = 0

-----------------------------------------------------------------------------
(* rank_value and what record_rank does to a history                        *)

Ladder == <<"IRON", "BRONZE", "SILVER", "GOLD", "PLATINUM", "EMERALD", "DIAMOND">>
Division == [IV |-> 0, III |-> 1, II |-> 2, I |-> 3]
ApexBase == [MASTER |-> 2800, GRANDMASTER |-> 3300, CHALLENGER |-> 3800]

RankValue(rank) ==
  IF rank.tier \in DOMAIN ApexBase THEN ApexBase[rank.tier] + rank.lp
  ELSE (CHOOSE i \in DOMAIN Ladder : Ladder[i] = rank.tier) * 400 - 400 + Division[rank.division] * 100 + rank.lp

\* Ranks are those of the ladder, or above it.
ASSUME RankAssumption ==
  \A k \in Rank : k.lp \in Nat /\ \/ k.tier \in DOMAIN ApexBase
                                  \/ k.tier \in ToSet(Ladder) /\ k.division \in DOMAIN Division

\* Mutant of Latest: the oldest are kept.
LatestFirst(hist) == SubSeq(hist, 1, Min({Keep, Len(hist)}))
Latest(hist) == SubSeq(hist, Max({1, Len(hist) - Keep + 1}), Len(hist))

\* What a history consists of, and what the file may hold.
Snapshot == {snap \in [date : Nat, rank : Rank, rating : {RankValue(k) : k \in Rank}] : snap.rating = RankValue(snap.rank)}
History == {hist \in Seq(Snapshot) : Len(hist) <= Keep}
Store == [PlayerId -> History]
Ordered(hist) == \A i \in 1 .. Len(hist) - 1 : hist[i].date < hist[i + 1].date

\* An earlier process left a history in order, nothing in it from after today.
ASSUME StoreAssumption ==
  /\ Torn \notin Store /\ Before \in Store
  /\ \A p \in PlayerId :
       /\ Ordered(Before[p])
       /\ \A i \in 1 .. Len(Before[p]) : Before[p][i].date <= 1

\* One snapshot a day, the last one, and none where nothing changed.
Recorded(hist, date, rank) ==
  LET snap == [date |-> date, rank |-> rank, rating |-> RankValue(rank)]
  IN  Latest(CASE hist # <<>> /\ Last(hist).date = date -> [hist EXCEPT ![Len(hist)] = snap]
               [] hist # <<>> /\ Last(hist).date # date /\ Last(hist).rank = rank -> hist
               [] OTHER -> Append(hist, snap))

-----------------------------------------------------------------------------
(* The request: middleware, validation, player_analysis                     *)

ValidateRiotId(q) == q.valid

\* The early answers of player_analysis are needs_api_key and needs_tag.
Looked(q) == q.path = "player" /\ ValidateRiotId(q) /\ q.key /\ q.tag

Arrive(r) ==
  /\ thread[r] = New
  /\ \E q \in Query[r] :
       \/ /\ TooManyRequests(q.ip, q.path) \/ Unavailable(q.ip, q.path)
          /\ thread' = [thread EXCEPT ![r] = Over]
       \/ /\ Through(q.ip, q.path)
          /\ thread' = [thread EXCEPT ![r] = IF Looked(q) THEN [New EXCEPT !.pc = "account", !.query = q] ELSE Over]
  /\ UNCHANGED <<now, known, files, kept, overlap, crashes>>

-----------------------------------------------------------------------------
(* RiotTFT._get in the three places build_player_profile calls it; those    *)
(* for the matches, one after the other, are one step.  A first 429 is only *)
(* a delay: the call is made once more.                                     *)

calm == <<now, gate, files, kept, overlap, crashes>>
Asking(r) == thread[r].pc \in {"account", "league", "matches"}
Goes(r, pc) == [thread EXCEPT ![r].pc = pc]

\* RiotError: 429 again, 401, 403, another status, too large, no connection.
RiotError(r) ==
  /\ Asking(r)
  /\ thread' = [thread EXCEPT ![r] = Over]
  /\ UNCHANGED <<calm, known>>

NotFound(r) ==
  /\ thread[r].pc = "account"
  /\ thread' = [thread EXCEPT ![r] = Over]
  /\ UNCHANGED <<calm, known>>

\* register: the id resolved feeds the autocomplete.
Account(r) ==
  /\ thread[r].pc = "account"
  /\ known' = known \cup {thread[r].query.player}
  /\ thread' = Goes(r, "league")
  /\ UNCHANGED calm

\* _rank_from_league: the entry RANKED_TFT, or none.
CurrentRank == Rank \cup {Unranked}

League(r) ==
  /\ thread[r].pc = "league"
  /\ \E rank \in CurrentRank : thread' = [Goes(r, "load") EXCEPT ![r].rank = rank]
  /\ UNCHANGED <<calm, known>>

\* "1-1" to "1-3", then seven rounds to a stage; here a pair.
StageRound(last) == IF last <= 3 THEN <<1, Max({1, last})>> ELSE <<2 + (last - 4) \div 7, ((last - 4) % 7) + 1>>

\* The two units of highest cost, if that is 3 or more; the first of equals.
Carries(units) ==
  {i \in DOMAIN units : /\ Cost[units[i]] >= 3
                        /\ Cardinality({j \in DOMAIN units : \/ Cost[units[j]] > Cost[units[i]]
                                                             \/ Cost[units[j]] = Cost[units[i]] /\ j < i}) < 2}

ParseMatch(raw, p) ==
  LET me == raw.players[p]
  IN  [time |-> raw.time, place |-> me.place, round |-> StageRound(me.last), units |-> me.units, carries |-> Carries(me.units)]

\* What does not have the player in it is left out.
ParseMatches(raws, p) ==
  LET mine == {i \in DOMAIN raws : p \in DOMAIN raws[i].players}
      nth(k) == CHOOSE i \in mine : Cardinality({j \in mine : j < i}) = k - 1
  IN  [k \in 1 .. Cardinality(mine) |-> ParseMatch(raws[nth(k)], p)]

\* match_ids, then match after match.
Matches(r) ==
  /\ thread[r].pc = "matches"
  /\ \E raws \in MatchList :
       thread' = [Goes(r, "done") EXCEPT ![r].matches = ParseMatches(raws, thread[r].query.player)]
  /\ UNCHANGED <<calm, known>>

-----------------------------------------------------------------------------
(* record_rank                                                              *)

\* _load_store: what cannot be read or parsed is nothing.
Content(i) == IF i = None \/ data[i] = Torn THEN NoHistory ELSE data[i]

InRecord(r) == thread[r].pc \in {"snap", "open", "write", "replace"}

\* Mutant of Load: the date is taken before the file is read.
LoadDated(r) ==
  /\ thread[r].pc = "load"
  /\ \/ thread[r].date = 0 /\ thread' = [thread EXCEPT ![r].date = Yday + 1] /\ UNCHANGED overlap
     \/ /\ thread[r].date # 0
        /\ LET q == thread[r].query IN
             thread' = [thread EXCEPT ![r].pc = IF thread[r].rank = Unranked THEN "matches" ELSE "open",
                                      ![r].store = IF thread[r].rank = Unranked THEN Content(live)
                                                   ELSE [Content(live) EXCEPT ![q.player] = Recorded(@, thread[r].date, thread[r].rank)]]
        /\ overlap' = (overlap \/ \E s \in Request : InRecord(s))
  /\ UNCHANGED <<now, gate, known, files, kept, crashes>>

Load(r) ==
  /\ thread[r].pc = "load"
  /\ thread' = [thread EXCEPT ![r].store = Content(live), ![r].pc = IF thread[r].rank = Unranked THEN "matches" ELSE "snap"]
  /\ overlap' = (overlap \/ (thread[r].rank # Unranked /\ \E s \in Request : InRecord(s)))
  /\ UNCHANGED <<now, gate, known, files, kept, crashes>>

\* Today's snapshot; a date is the number of the day, from 1.
Snap(r) ==
  LET th == thread[r]
  IN  /\ th.pc = "snap"
      /\ thread' = [thread EXCEPT ![r].pc = "open", ![r].date = Yday + 1,
                                  ![r].store[th.query.player] = Recorded(@, Yday + 1, th.rank)]
      /\ UNCHANGED <<calm, known>>

\* Mutant of Open: the file itself is opened.
OpenInPlace(r) ==
  LET i == IF live = None THEN Len(data) + 1 ELSE live
  IN  /\ thread[r].pc = "open"
      /\ live' = i /\ data' = IF i > Len(data) THEN Append(data, Torn) ELSE [data EXCEPT ![i] = Torn]
      /\ thread' = [thread EXCEPT ![r].pc = "write", ![r].fd = i]
      /\ UNCHANGED <<now, gate, known, tmp, kept, overlap, crashes>>

Open(r) ==
  LET i == IF tmp = None THEN Len(data) + 1 ELSE tmp
  IN  /\ thread[r].pc = "open"
      /\ tmp' = i /\ data' = IF i > Len(data) THEN Append(data, Torn) ELSE [data EXCEPT ![i] = Torn]
      /\ thread' = [thread EXCEPT ![r].pc = "write", ![r].fd = i]
      /\ UNCHANGED <<now, gate, known, live, kept, overlap, crashes>>

\* json.dump and close.  Where another thread wrote to the inode, or still
\* does, the texts may end up mixed.
Write(r) ==
  LET i == thread[r].fd
      shared == data[i] # Torn \/ \E s \in Request \ {r} : thread[s].fd = i /\ thread[s].pc = "write"
  IN  /\ thread[r].pc = "write"
      /\ \E d \in {thread[r].store} \cup IF shared THEN {Torn} ELSE {} : data' = [data EXCEPT ![i] = d]
      /\ thread' = [thread EXCEPT ![r].pc = "replace"]
      /\ UNCHANGED <<now, gate, known, live, tmp, kept, overlap, crashes>>

Left(r) == [thread EXCEPT ![r].pc = "matches", ![r].date = 0, ![r].fd = None]

\* os.replace; another thread may have renamed tmp before: an error, ignored.
\* The inode replaced is gone.
Replace(r) ==
  LET th == thread[r]
  IN  /\ th.pc = "replace"
      /\ \/ tmp = None /\ UNCHANGED <<files, kept>>
         \/ /\ tmp # None /\ live' = tmp /\ tmp' = None
            /\ data' = IF live = None THEN data ELSE [data EXCEPT ![live] = Torn]
            /\ kept' = [kept EXCEPT ![th.query.player] = Recorded(@, th.date, th.rank)]
      /\ thread' = Left(r)
      /\ UNCHANGED <<now, gate, known, overlap, crashes>>

\* An error of the file system in _save_store: ignored.
SaveFails(r) ==
  /\ thread[r].pc \in {"open", "write", "replace"}
  /\ thread' = Left(r)
  /\ UNCHANGED <<calm, known>>

-----------------------------------------------------------------------------
(* The profile                                                              *)

\* sorted by timestamp, reverse: equal ones stay in the order they came in
Ahead(ms, i) == {j \in DOMAIN ms : ms[j].time > ms[i].time \/ (ms[j].time = ms[i].time /\ j < i)}
Recent(ms) == [k \in DOMAIN ms |-> ms[CHOOSE i \in DOMAIN ms : Cardinality(Ahead(ms, i)) = k - 1]]
Places(ms) == LET sorted == Recent(ms) IN [i \in DOMAIN sorted |-> sorted[i].place]
CountIf(places, Test(_)) == Cardinality({i \in DOMAIN places : Test(places[i])})

Slot(p) == Min({8, Max({1, p})})
Distribution(places) == [k \in 1 .. 8 |-> CountIf(places, LAMBDA p : Slot(p) = k)]
Streak(places) == Max({n \in 0 .. Len(places) : \A i \in 1 .. n : places[i] <= 4})

Games(ms, c) == Cardinality({i \in DOMAIN ms : c \in ToSet(ms[i].units)})
CarryCount(ms, c) ==
  IF Cost[c] < 4 THEN 0
  ELSE Cardinality(UNION {{<<i, j>> : j \in {k \in ms[i].carries : ms[i].units[k] = c}} : i \in DOMAIN ms})

Profile(r) ==
  LET th == thread[r]
      hist == th.store[th.query.player]
      ms == th.matches
      places == Places(ms)
      champions == UNION {ToSet(ms[i].units) : i \in DOMAIN ms}
      carried == {c \in champions : CarryCount(ms, c) > 0}
  IN  [history |-> hist, current |-> th.rank,
       peak |-> IF hist = <<>> THEN None ELSE Max({hist[i].rating : i \in DOMAIN hist}),
       distribution |-> Distribution(places), streak |-> Streak(places),
       top4 |-> CountIf(places, LAMBDA p : p <= 4), firsts |-> CountIf(places, LAMBDA p : p = 1),
       games |-> [c \in champions |-> Games(ms, c)],
       topCarry |-> {c \in carried : \A d \in carried : CarryCount(ms, d) <= CarryCount(ms, c)}]

Reply(r) ==
  /\ thread[r].pc = "done"
  /\ thread' = [thread EXCEPT ![r] = Over]
  /\ UNCHANGED <<calm, known>>

-----------------------------------------------------------------------------
\* The API process ends and starts again: everything but the files is gone.
Crash ==
  /\ crashes < MaxCrashes /\ crashes' = crashes + 1
  /\ known' = Seed
  /\ hits' = [b \in Bucket |-> [ip \in Ip |-> <<>>]] /\ recent' = hits'
  /\ daily' = [day |-> -1, count |-> 0] /\ starts' = starts + 1 /\ UNCHANGED spent
  /\ thread' = [r \in Request |-> IF thread[r] = New THEN New ELSE Over]
  /\ UNCHANGED <<now, files, kept, overlap>>

Tick == TickGate /\ UNCHANGED <<known, files, thread, kept, overlap, crashes>>

Record(r) == Load(r) \/ Snap(r) \/ Open(r) \/ Write(r) \/ Replace(r) \/ SaveFails(r)
Riot(r) == RiotError(r) \/ NotFound(r) \/ Account(r) \/ League(r) \/ Matches(r)

Next == Tick \/ Crash \/ \E r \in Request : Arrive(r) \/ Riot(r) \/ Record(r) \/ Reply(r)

Spec == Init /\ [][Next]_vars

-----------------------------------------------------------------------------
(* Properties                                                               *)

Inode == {None} \cup (1 .. Len(data))
Asked == (UNION {Query[r] : r \in Request}) \cup {NoQuery}
Parsed == {ParseMatches(raws, p) : raws \in MatchList, p \in PlayerId} \cup {<<>>}
Thread ==
  [pc : {"new", "account", "league", "load", "snap", "open", "write", "replace", "matches", "done", "over"},
   query : Asked, rank : CurrentRank, store : Store, date : Nat, fd : {None} \cup Nat, matches : Parsed]

\* Every variable keeps its type.
TypeOK ==
  /\ GateTypeOK
  /\ known \subseteq PlayerId /\ {live, tmp} \subseteq Inode
  /\ data \in Seq(Store \cup {Torn}) /\ kept \in Store
  /\ thread \in [Request -> Thread] /\ \A r \in Request : thread[r].fd \in Inode
  /\ overlap \in BOOLEAN /\ crashes \in Nat

\* riot.py:115: "one per day, latest wins" and "chronological history".  However
\* threads overwrite each other's file, and at midnight, the dates of a history
\* grow, in the file and in every answer.
HistoryOrdered ==
  /\ \A p \in PlayerId : Ordered(Content(live)[p])
  /\ \A r \in Request, p \in PlayerId : Ordered(thread[r].store[p])

\* Unless two threads were in record_rank at once, the file has every rank
\* recorded so far, of every player, whatever failed and whenever the process
\* ended: a half-written file never takes the place of a whole one.
RecordedKept == ~overlap => Content(live) = kept

\* The numbers of a profile are about the same matches: the distribution has
\* every match once and agrees with the wins, the top fours and the streak,
\* nobody is played more often than there are matches, and the favourite carry
\* is one of the champions played, at a cost of 4 or more.  The peak rank is
\* never below the current one, although the history drops its oldest entries
\* and skips unchanged days.
ProfileAgrees ==
  \A r \in Request : thread[r].pc = "done" =>
    LET p == Profile(r)
        n == Len(thread[r].matches)
    IN  /\ SumFunction(p.distribution) = n /\ p.distribution[1] = p.firsts
        /\ SumFunctionOnSet(p.distribution, 1 .. 4) = p.top4 /\ p.streak <= p.top4
        /\ \A c \in DOMAIN p.games : p.games[c] \in 1 .. n
        /\ p.topCarry \subseteq {c \in DOMAIN p.games : Cost[c] >= 4}
        /\ p.current # Unranked => p.peak >= RankValue(p.current)

=============================================================================
