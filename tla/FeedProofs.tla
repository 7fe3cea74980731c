------------------------------ MODULE FeedProofs ------------------------------
(****************************************************************************)
(* Theorems about LiveClient, composed with Indexer and HostedFeed: the     *)
(* live feed from TxODDS or the simulation to the pages, for any number of  *)
(* pages, fixtures, passes, failures and restarts.                          *)
(****************************************************************************)
EXTENDS LiveClient, FiniteSetTheorems, TLAPS

Boards  == [Matches -> Markets \cup {Absent}]
Answers == [markets : Boards, live : BOOLEAN]
Runs    == [at : {"idle", "next", "answered"}, todo : SUBSET Fixtures,
            fixture : Fixtures \cup {"none"}, reply : Nat]
Calls   == [at : {"free", "asked", "running", "answered"}, todo : SUBSET Fixtures,
            answer : Answers]

IndexerTypes ==
  /\ hasCreds \in BOOLEAN /\ phase \in [Fixtures -> Statuses] /\ listed \subseteq Fixtures
  /\ events \in [Fixtures -> Nat]
  /\ store \in Boards /\ liveIds \subseteq Fixtures
  /\ refresh \in [FixturePasses -> Runs] /\ scores \in [ScorePasses -> Runs]
  /\ link \in [Clients -> {"none", "open", "lost"}] /\ outbox \in [Clients -> Seq(Messages)]
  /\ faults \in [Faults -> Nat]

ClientTypes ==
  /\ cache \subseteq Answers /\ calls \in [Clients -> [Polls -> Calls]]
  /\ \A c \in Clients, p \in Polls : \A f \in calls[c][p].todo :
       calls[c][p].answer.markets[f] # Absent
  /\ hook \in [Clients -> {"waiting", "dialing", "open", "gaveUp", "polling", "unmounted"}]
  /\ attempts \in [Clients -> 0 .. MAX_RETRIES]
  /\ byId \in [Clients -> Boards] /\ live \in [Clients -> BOOLEAN]

\* A score is only asked of a fixture that the store holds, and it holds it until it restarts.
StoreHolds ==
  /\ \A f \in liveIds : store[f] # Absent
  /\ \A s \in ScorePasses :
       /\ \A f \in scores[s].todo : store[f] # Absent
       /\ scores[s].at = "answered" => scores[s].fixture \in Fixtures
                                       /\ store[scores[s].fixture] # Absent

SocketsAgree ==
  \A c \in Clients : /\ link[c] # "open" => outbox[c] = <<>>
                     /\ link[c] # "none" => hook[c] \in {"dialing", "open"}
                     /\ hook[c] # "polling" => live[c] = (hook[c] = "open")

Types == IndexerTypes /\ ClientTypes /\ StoreHolds /\ SocketsAgree

\* The last message about a fixture says what the store holds of it; without one, the page
\* shows it.
Mirrors(c, f) ==
  \/ /\ \A i \in 1 .. Len(outbox[c]) : ~About(outbox[c][i], f)
     /\ store[f] = byId[c][f]
  \/ \E i \in 1 .. Len(outbox[c]) :
       /\ About(outbox[c][i], f) /\ store[f] = Says(outbox[c][i], f)
       /\ \A j \in i + 1 .. Len(outbox[c]) : ~About(outbox[c][j], f)
Mirroring == \A c \in Clients, f \in Matches : link[c] = "open" => Mirrors(c, f)

\* Every dial that has come to nothing is a dial that failed, or one a restart has cut off.
Failed == faults["refused"] + faults["restarted"]
Dials ==
  \A c \in Clients :
    /\ hook[c] = "waiting" => attempts[c] <= Failed
    /\ hook[c] = "dialing" => attempts[c] <= Failed + (IF link[c] = "lost" THEN 0 ELSE 1)
    /\ hook[c] = "open" => attempts[c] = 0
    /\ hook[c] = "gaveUp" => MAX_RETRIES <= Failed

\* A simulated match at a later time.
Precedes(market, later) ==
  later.shown >= market.shown /\ (market.status = "final" => later = market)

\* The messages under way tell of a simulated match in order, and the store comes last.
InOrder(c, f) ==
  \A i \in 1 .. Len(outbox[c]) : About(outbox[c][i], f) =>
    /\ Precedes(Says(outbox[c][i], f), store[f])
    /\ \A j \in i + 1 .. Len(outbox[c]) :
         About(outbox[c][j], f) => Precedes(Says(outbox[c][i], f), Says(outbox[c][j], f))
\* A page that has left the demo data precedes them all; one that has not gets a snapshot first.
Started(c, f) ==
  /\ Precedes(byId[c][f], store[f])
  /\ \A i \in 1 .. Len(outbox[c]) :
       About(outbox[c][i], f) => Precedes(byId[c][f], Says(outbox[c][i], f))
Unstarted(c) ==
  /\ byId[c] = Fallback
  /\ link[c] = "open" => outbox[c] # <<>> /\ outbox[c][1].type = "snapshot"
Orderly(c) ==
  /\ \A f \in Seeds : InOrder(c, f)
  /\ Unstarted(c) \/ \A f \in Seeds : Started(c, f)

\* Without credentials neither the passes nor the function have anything to tell.
Quiet ==
  /\ \A r \in FixturePasses : refresh[r].at = "idle"
  /\ \A s \in ScorePasses : scores[s].at = "idle"
  /\ \A answer \in cache : answer.markets = None
  /\ \A c \in Clients, p \in Polls : calls[c][p].answer.markets = None

Simulating ==
  ~hasCreds => Quiet /\ (faults["restarted"] = 0 => \A c \in Clients : Orderly(c))

IInv == Types /\ Mirroring /\ PagesAreNeverBlank /\ Dials /\ Simulating

-----------------------------------------------------------------------------
(****************************************************************************)
(* The store and what it broadcasts                                         *)
(****************************************************************************)
LEMMA SetToSeqLists ==
  ASSUME NEW S, IsFiniteSet(S)
  PROVE  /\ SetToSeq(S) \in Seq(S)
         /\ \A x \in S : \E i \in 1 .. Len(SetToSeq(S)) :
              /\ SetToSeq(S)[i] = x
              /\ \A j \in 1 .. Len(SetToSeq(S)) : SetToSeq(S)[j] = x => j = i
<1> DEFINE n == Cardinality(S)
           Listing(f) == f \in [1 .. n -> S] /\ IsInjective(f)
<1>1. n \in Nat /\ ExistsBijection(1 .. n, S)
  BY FS_CardinalityType
<1>2. PICK g \in Bijection(1 .. n, S) : TRUE
  BY <1>1 DEF ExistsBijection
<1>3. Listing(g)
  BY <1>2 DEF Bijection, Injection, IsInjective
<1>4. Listing(SetToSeq(S))
  BY <1>3 DEF SetToSeq
<1> DEFINE s == SetToSeq(S)
<1> HIDE DEF s
<1>5. s \in [1 .. n -> S] /\ \A i, j \in 1 .. n : s[i] = s[j] => i = j
  BY <1>4 DEF IsInjective, s
<1>6. s \in Seq(S) /\ Len(s) = n
  BY <1>1, <1>5
<1>7. s \in Injection(1 .. n, S)
  BY <1>4 DEF Injection, s
<1>8. s \in Surjection(1 .. n, S)
  BY <1>1, <1>7, FS_Injection, FS_Interval
<1>9. \A x \in S : \E i \in 1 .. n : s[i] = x
  BY <1>8 DEF Surjection
<1> QED
  BY <1>5, <1>6, <1>9 DEF s

\* One update of each market that was put, of what the store now holds.
Tells(news, D) ==
  /\ news \in Seq(Messages)
  /\ \A i \in 1 .. Len(news) : /\ news[i].type = "update" /\ news[i].fixture \in D
                               /\ news[i].market = store'[news[i].fixture]
  /\ \A f \in D : \E i \in 1 .. Len(news) :
       /\ news[i].fixture = f
       /\ \A j \in 1 .. Len(news) : news[j].fixture = f => j = i
Sends(news) ==
  \A c \in Clients : outbox'[c] = IF link[c] = "open" THEN outbox[c] \o news ELSE outbox[c]

LEMMA PutTells ==
  ASSUME IndexerTypes, NEW D \in SUBSET Matches, NEW markets \in [D -> Markets], Put(markets)
  PROVE  /\ store' \in Boards /\ outbox' \in [Clients -> Seq(Messages)]
         /\ \A f \in Matches : store'[f] = IF f \in D THEN markets[f] ELSE store[f]
         /\ \E news : Tells(news, D) /\ Sends(news)
<1> DEFINE updates == {Update(f) : f \in D}
           news    == SetToSeq(updates)
<1>1. store' = [f \in Matches |-> IF f \in D THEN markets[f] ELSE store[f]]
  BY DEF Put
<1>2. store' \in Boards
  BY <1>1 DEF IndexerTypes, Boards
<1>3. IsFiniteSet(updates)
  <2>1. IsFiniteSet(D)
    BY IndexerAssumption, FS_Subset DEF Matches
  <2>2. [f \in D |-> Update(f)] \in Surjection(D, updates)
    BY DEF Surjection
  <2> QED
    BY <2>1, <2>2, FS_Surjection
<1>4. updates \subseteq Messages
  <2>1. ASSUME NEW f \in D PROVE Update(f) \in Messages
    BY <1>1 DEF Update, Messages
  <2> QED
    BY <2>1
<1> HIDE DEF news
<1>5. /\ news \in Seq(updates)
      /\ \A u \in updates : \E i \in 1 .. Len(news) :
           news[i] = u /\ \A j \in 1 .. Len(news) : news[j] = u => j = i
  BY <1>3, SetToSeqLists DEF news
<1>6. news \in Seq(Messages)
  BY <1>4, <1>5
<1>7. ASSUME NEW i \in 1 .. Len(news)
      PROVE  news[i] \in updates
  BY <1>5
<1>8. ASSUME NEW i \in 1 .. Len(news)
      PROVE  /\ news[i].type = "update" /\ news[i].fixture \in D
             /\ news[i].market = store'[news[i].fixture]
             /\ news[i] = Update(news[i].fixture)
  BY <1>7 DEF Update
<1>9. ASSUME NEW f \in D
      PROVE  \E i \in 1 .. Len(news) :
               /\ news[i].fixture = f
               /\ \A j \in 1 .. Len(news) : news[j].fixture = f => j = i
  <2>1. PICK i \in 1 .. Len(news) :
          news[i] = Update(f) /\ \A j \in 1 .. Len(news) : news[j] = Update(f) => j = i
    BY <1>5
  <2>2. news[i].fixture = f
    BY <2>1 DEF Update
  <2>3. ASSUME NEW j \in 1 .. Len(news), news[j].fixture = f PROVE j = i
    <3>1. news[j] = Update(f)
      BY <1>8, <2>3
    <3> QED
      BY <2>1, <3>1
  <2> QED
    BY <2>1, <2>2, <2>3
<1>10. Tells(news, D)
  BY <1>6, <1>8, <1>9 DEF Tells
<1>11. Sends(news)
  BY DEF Put, Broadcast, Sends, news
<1>12. outbox' \in [Clients -> Seq(Messages)]
  <2>1. outbox' = [c \in Clients |-> IF link[c] = "open" THEN outbox[c] \o news ELSE outbox[c]]
    BY DEF Put, Broadcast, news
  <2>2. ASSUME NEW c \in Clients PROVE outbox[c] \o news \in Seq(Messages)
    BY <1>6 DEF IndexerTypes
  <2> QED
    BY <2>1, <2>2 DEF IndexerTypes
<1> QED
  BY <1>1, <1>2, <1>10, <1>11, <1>12

LEMMA AbsentIsNoMarket == Absent \notin Markets /\ Absent \in Markets \cup {Absent}
BY DEF Absent, Markets, Statuses

LEMMA IdleRuns == Idle \in Runs /\ Idle.todo = {} /\ Idle.at = "idle"
BY DEF Idle, Runs

LEMMA SeededBoard == Seeded \in Boards
BY DEF Seeded, Boards, Markets, Statuses

LEMMA HappensCounts ==
  ASSUME faults \in [Faults -> Nat], NEW kind \in Faults, Happens(kind)
  PROVE  /\ faults' \in [Faults -> Nat] /\ faults'[kind] = faults[kind] + 1
         /\ \A other \in Faults \ {kind} : faults'[other] = faults[other]
BY DEF Happens

LEMMA FaultKinds == {"failed", "refused", "broken", "restarted"} = Faults
BY DEF Faults

-----------------------------------------------------------------------------
(****************************************************************************)
(* The types, action by action                                              *)
(****************************************************************************)
\* The store, the sockets and the pages as the invariants about them see them.
Picture == <<store, link, outbox, byId>>

LEMMA AskFixturesTypes ==
  ASSUME Types, NEW r \in FixturePasses, AskFixtures(r), UNCHANGED <<hosted, client>>
  PROVE  Types'
<1>1. refresh' \in [FixturePasses -> Runs]
  <2>1. [Idle EXCEPT !.at = "answered", !.todo = listed] \in Runs
    BY IdleRuns DEF Runs, Types, IndexerTypes
  <2> QED
    BY <2>1 DEF AskFixtures, Types, IndexerTypes
<1>2. faults' \in [Faults -> Nat]
  BY HappensCounts, FaultKinds DEF AskFixtures, Fails, Types, IndexerTypes
<1>3. IndexerTypes'
  BY <1>1, <1>2 DEF AskFixtures, Types, IndexerTypes, txodds, sockets
<1>4. ClientTypes' /\ StoreHolds' /\ SocketsAgree'
  BY DEF AskFixtures, Types, ClientTypes, StoreHolds, SocketsAgree, sockets, hosted, hosting, client
<1> QED
  BY <1>3, <1>4 DEF Types

\* A put keeps what the store holds.
LEMMA PutTypes ==
  ASSUME Types, NEW D \in SUBSET Matches, NEW markets \in [D -> Markets], Put(markets),
         UNCHANGED <<txodds, link, faults, hosted, client>>,
         refresh' \in [FixturePasses -> Runs], scores' \in [ScorePasses -> Runs],
         liveIds' \subseteq Fixtures,
         \A f \in liveIds' : store[f] # Absent \/ f \in D,
         \A s \in ScorePasses : /\ scores'[s].todo \subseteq scores[s].todo
                                /\ scores'[s].at = "answered" => scores'[s] = scores[s]
  PROVE  Types'
<1>1. /\ store' \in Boards /\ outbox' \in [Clients -> Seq(Messages)]
      /\ \A f \in Matches : store'[f] = IF f \in D THEN markets[f] ELSE store[f]
      /\ \A c \in Clients : link[c] # "open" => outbox'[c] = outbox[c]
  BY PutTells DEF Types, Sends
<1>2. \A f \in Matches : store[f] # Absent \/ f \in D => store'[f] # Absent
  BY <1>1, AbsentIsNoMarket
<1>3. IndexerTypes'
  BY <1>1 DEF Types, IndexerTypes, txodds
<1>4. ClientTypes'
  BY DEF Types, ClientTypes, hosted, hosting, client
<1>5. StoreHolds'
  <2>1. \A f \in liveIds' : store'[f] # Absent
    BY <1>2 DEF Matches
  <2>2. ASSUME NEW s \in ScorePasses
        PROVE  /\ \A f \in scores'[s].todo : store'[f] # Absent
               /\ scores'[s].at = "answered" => scores'[s].fixture \in Fixtures
                                                /\ store'[scores'[s].fixture] # Absent
    <3>1. \A f \in scores[s].todo : f \in Matches /\ store[f] # Absent
      BY DEF Types, IndexerTypes, StoreHolds, Runs, Matches
    <3>2. CASE scores'[s].at = "answered"
      BY <1>2, <3>1, <3>2 DEF Types, StoreHolds, Matches
    <3>3. CASE scores'[s].at # "answered"
      BY <1>2, <3>1, <3>3
    <3> QED
      BY <3>2, <3>3
  <2> QED
    BY <2>1, <2>2 DEF StoreHolds
<1>6. SocketsAgree'
  BY <1>1 DEF Types, SocketsAgree, client
<1> QED
  BY <1>3, <1>4, <1>5, <1>6 DEF Types

LEMMA TakeFixturesPuts ==
  ASSUME Types, NEW r \in FixturePasses, TakeFixtures(r)
  PROVE  \E D \in SUBSET Matches : \E markets \in [D -> Markets] :
           /\ Put(markets) /\ liveIds' \subseteq Fixtures
           /\ \A f \in liveIds' : store[f] # Absent \/ f \in D
<1>1. PICK chosen \in Chosen(refresh[r].todo) :
        /\ Put([f \in {g \in chosen : store[g] = Absent} |-> toMarket(f)])
        /\ liveIds' = {f \in chosen : phase[f] # "upcoming"}
  BY DEF TakeFixtures
<1>2. chosen \subseteq refresh[r].todo
  BY DEF Chosen
<1>3. chosen \subseteq Fixtures
  BY <1>2 DEF Types, IndexerTypes, Runs
<1> DEFINE D == {g \in chosen : store[g] = Absent}
<1>4. [f \in D |-> toMarket(f)] \in [D -> Markets]
  BY <1>3 DEF toMarket, Markets, Types, IndexerTypes
<1>5. D \in SUBSET Matches
  BY <1>3 DEF Matches
<1>6. liveIds' \subseteq Fixtures /\ \A f \in liveIds' : store[f] # Absent \/ f \in D
  BY <1>1, <1>3
<1> QED
  BY <1>1, <1>4, <1>5, <1>6

LEMMA TakeFixturesTypes ==
  ASSUME Types, NEW r \in FixturePasses, TakeFixtures(r), UNCHANGED <<hosted, client>>
  PROVE  Types'
<1>1. PICK D \in SUBSET Matches : \E markets \in [D -> Markets] :
        /\ Put(markets) /\ liveIds' \subseteq Fixtures
        /\ \A f \in liveIds' : store[f] # Absent \/ f \in D
  BY TakeFixturesPuts
<1>2. PICK markets \in [D -> Markets] : Put(markets)
  BY <1>1
<1>3. refresh' \in [FixturePasses -> Runs] /\ scores' = scores /\ scores' \in [ScorePasses -> Runs]
  BY IdleRuns DEF TakeFixtures, Types, IndexerTypes
<1> QED
  BY <1>1, <1>2, <1>3, PutTypes DEF TakeFixtures

LEMMA StartScoresTypes ==
  ASSUME Types, NEW s \in ScorePasses, StartScores(s), UNCHANGED <<hosted, client>>
  PROVE  Types'
<1> DEFINE run == [Idle EXCEPT !.at = "next", !.todo = liveIds]
<1>1. run \in Runs /\ run.at = "next" /\ run.todo = liveIds
  BY IdleRuns DEF Runs, Types, IndexerTypes
<1> HIDE DEF run
<1>2. /\ scores' \in [ScorePasses -> Runs] /\ scores'[s] = run
      /\ \A t \in ScorePasses \ {s} : scores'[t] = scores[t]
  BY <1>1 DEF StartScores, Types, IndexerTypes, run
<1>3. IndexerTypes'
  BY <1>2 DEF StartScores, Types, IndexerTypes, txodds, sockets
<1>4. StoreHolds'
  <2>1. store' = store /\ liveIds' = liveIds
    BY DEF StartScores
  <2>2. ASSUME NEW t \in ScorePasses
        PROVE  /\ \A f \in scores'[t].todo : store[f] # Absent
               /\ scores'[t].at = "answered" => scores'[t].fixture \in Fixtures
                                                /\ store[scores'[t].fixture] # Absent
    BY <1>1, <1>2 DEF Types, StoreHolds
  <2> QED
    BY <2>1, <2>2 DEF Types, StoreHolds
<1>5. ClientTypes' /\ SocketsAgree'
  BY DEF StartScores, Types, ClientTypes, SocketsAgree, sockets, hosted, hosting, client
<1> QED
  BY <1>3, <1>4, <1>5 DEF Types

LEMMA AskScoreTypes ==
  ASSUME Types, NEW s \in ScorePasses, NEW f \in scores[s].todo, AskScore(s, f),
         UNCHANGED <<hosted, client>>
  PROVE  Types'
<1> DEFINE rest == [scores[s] EXCEPT !.todo = @ \ {f}]
           answered == [rest EXCEPT !.at = "answered", !.fixture = f, !.reply = events[f]]
<1>1. scores[s] \in Runs /\ f \in Fixtures /\ events[f] \in Nat /\ store[f] # Absent
  BY DEF Types, IndexerTypes, StoreHolds, Runs
<1>2. /\ rest \in Runs /\ rest.at = scores[s].at /\ rest.todo \subseteq scores[s].todo
      /\ answered \in Runs /\ answered.at = "answered" /\ answered.fixture = f
      /\ answered.todo \subseteq scores[s].todo
  BY <1>1 DEF Runs
<1>3. \E run \in {rest, answered} : scores' = [scores EXCEPT ![s] = run]
  BY DEF AskScore
<1> HIDE DEF rest, answered
<1>4. PICK run \in {rest, answered} : scores' = [scores EXCEPT ![s] = run]
  BY <1>3
<1>5. scores' \in [ScorePasses -> Runs] /\ faults' \in [Faults -> Nat]
  BY <1>2, <1>4, HappensCounts, FaultKinds DEF AskScore, Fails, Types, IndexerTypes
<1>6. IndexerTypes'
  BY <1>5 DEF AskScore, Types, IndexerTypes, txodds, sockets
<1>7. StoreHolds'
  <2>1. store' = store /\ liveIds' = liveIds /\ scores[s].at = "next"
    BY DEF AskScore
  <2>2. ASSUME NEW t \in ScorePasses
        PROVE  /\ \A g \in scores'[t].todo : store[g] # Absent
               /\ scores'[t].at = "answered" => scores'[t].fixture \in Fixtures
                                                /\ store[scores'[t].fixture] # Absent
    BY <1>1, <1>2, <1>4, <2>1 DEF Types, IndexerTypes, StoreHolds
  <2> QED
    BY <2>1, <2>2 DEF Types, StoreHolds
<1>8. ClientTypes' /\ SocketsAgree'
  BY DEF AskScore, Types, ClientTypes, SocketsAgree, sockets, hosted, hosting, client
<1> QED
  BY <1>6, <1>7, <1>8 DEF Types

LEMMA TakeScorePuts ==
  ASSUME Types, NEW s \in ScorePasses, TakeScore(s)
  PROVE  \E D \in SUBSET Matches : \E markets \in [D -> Markets] : Put(markets)
<1> DEFINE f == scores[s].fixture
           market == [store[f] EXCEPT !.shown = scores[s].reply]
<1>1. f \in Fixtures /\ store[f] # Absent /\ scores[s].reply \in Nat
  BY DEF TakeScore, Types, IndexerTypes, StoreHolds, Runs
<1>2. store[f] \in Markets
  BY <1>1 DEF Types, IndexerTypes, Boards, Matches
<1>3. market \in Markets
  BY <1>1, <1>2 DEF Markets
<1>4. Put([g \in {f} |-> market])
  BY DEF TakeScore
<1> HIDE DEF market
<1>5. {f} \in SUBSET Matches /\ [g \in {f} |-> market] \in [{f} -> Markets]
  BY <1>1, <1>3 DEF Matches
<1> HIDE DEF f
<1> QED
  BY <1>4, <1>5

LEMMA TakeScoreTypes ==
  ASSUME Types, NEW s \in ScorePasses, TakeScore(s), UNCHANGED <<hosted, client>>
  PROVE  Types'
<1>1. PICK D \in SUBSET Matches : \E markets \in [D -> Markets] : Put(markets)
  BY TakeScorePuts
<1>2. PICK markets \in [D -> Markets] : Put(markets)
  BY <1>1
<1> DEFINE run == [Idle EXCEPT !.at = "next", !.todo = scores[s].todo]
<1>3. run \in Runs /\ run.at = "next" /\ run.todo = scores[s].todo
  BY IdleRuns DEF Runs, Types, IndexerTypes
<1>4. scores' = [scores EXCEPT ![s] = run] /\ liveIds' = liveIds /\ refresh' = refresh
  BY DEF TakeScore
<1> HIDE DEF run
<1>5. /\ scores' \in [ScorePasses -> Runs]
      /\ \A t \in ScorePasses : /\ scores'[t].todo \subseteq scores[t].todo
                                /\ scores'[t].at = "answered" => scores'[t] = scores[t]
  BY <1>3, <1>4 DEF Types, IndexerTypes
<1>6. liveIds' \subseteq Fixtures /\ refresh' \in [FixturePasses -> Runs]
      /\ \A f \in liveIds' : store[f] # Absent
  BY <1>4 DEF Types, IndexerTypes, StoreHolds
<1>7. UNCHANGED <<txodds, link, faults, hosted, client>>
  BY DEF TakeScore
<1> QED
  BY <1>2, <1>5, <1>6, <1>7, PutTypes

LEMMA EndScoresTypes ==
  ASSUME Types, NEW s \in ScorePasses, EndScores(s), UNCHANGED <<hosted, client>>
  PROVE  Types'
<1>1. /\ scores' \in [ScorePasses -> Runs]
      /\ \A t \in ScorePasses : /\ scores'[t].todo \subseteq scores[t].todo
                                /\ scores'[t].at = "answered" => scores'[t] = scores[t]
  BY IdleRuns DEF EndScores, Types, IndexerTypes
<1>2. IndexerTypes'
  BY <1>1 DEF EndScores, Types, IndexerTypes, txodds, sockets
<1>3. StoreHolds'
  BY <1>1 DEF EndScores, Types, StoreHolds
<1>4. ClientTypes' /\ SocketsAgree'
  BY DEF EndScores, Types, ClientTypes, SocketsAgree, sockets, hosted, hosting, client
<1> QED
  BY <1>2, <1>3, <1>4 DEF Types

\* A step of the simulation is a later market of every match that is played.
LEMMA SimulatePuts ==
  ASSUME Types, Simulate
  PROVE  \E D \in SUBSET Matches : \E markets \in [D -> Markets] :
           Put(markets) /\ \A f \in D : Precedes(store[f], markets[f])
<1> DEFINE D == {f \in Matches : store[f] # Absent /\ store[f].status = "live"}
<1>1. PICK markets \in [D -> UNION {Simulated(f) : f \in D}] :
        (\A f \in D : markets[f] \in Simulated(f)) /\ Put(markets)
  BY DEF Simulate
<1>2. ASSUME NEW f \in D
      PROVE  markets[f] \in Markets /\ Precedes(store[f], markets[f])
  <2>1. store[f] \in Markets /\ store[f].status = "live"
    BY DEF Types, IndexerTypes, Boards
  <2>2. PICK minute \in {store[f].shown, store[f].shown + 1} :
          markets[f] = [status |-> IF minute >= FullTime THEN "final" ELSE "live",
                        shown |-> minute]
    BY <1>1 DEF Simulated
  <2> QED
    BY <2>1, <2>2 DEF Markets, Statuses, Precedes
<1>3. D \in SUBSET Matches /\ markets \in [D -> Markets]
  BY <1>1, <1>2
<1> QED
  BY <1>1, <1>2, <1>3

LEMMA SimulateTypes ==
  ASSUME Types, Simulate, UNCHANGED <<hosted, client>>
  PROVE  Types'
<1>1. PICK D \in SUBSET Matches : \E markets \in [D -> Markets] : Put(markets)
  BY SimulatePuts
<1>2. PICK markets \in [D -> Markets] : Put(markets)
  BY <1>1
<1>3. UNCHANGED <<txodds, link, faults>> /\ UNCHANGED <<liveIds, refresh, scores>>
  BY DEF Simulate, polling
<1>4. /\ refresh' \in [FixturePasses -> Runs] /\ scores' \in [ScorePasses -> Runs]
      /\ liveIds' \subseteq Fixtures /\ \A f \in liveIds' : store[f] # Absent
  BY <1>3 DEF Types, IndexerTypes, StoreHolds
<1> QED
  BY <1>2, <1>3, <1>4, PutTypes

LEMMA RestartTypes ==
  ASSUME Types, Restart, UNCHANGED <<hosted, client>>
  PROVE  Types'
<1>1. faults' \in [Faults -> Nat]
  BY HappensCounts, FaultKinds DEF Restart, Types, IndexerTypes
<1>2. /\ link' \in [Clients -> {"none", "open", "lost"}]
      /\ \A c \in Clients : /\ link'[c] # "open" /\ (link'[c] # "none" => link[c] # "none")
                            /\ outbox'[c] = <<>>
  BY DEF Restart, Types, IndexerTypes
<1>3. outbox' \in [Clients -> Seq(Messages)]
  BY DEF Restart
<1>4. store' \in Boards /\ liveIds' \subseteq Fixtures
  BY SeededBoard DEF Restart
<1>5. /\ refresh' \in [FixturePasses -> Runs] /\ scores' \in [ScorePasses -> Runs]
      /\ \A s \in ScorePasses : scores'[s] = Idle
  BY IdleRuns DEF Restart
<1>6. IndexerTypes'
  BY <1>1, <1>2, <1>3, <1>4, <1>5 DEF Restart, Types, IndexerTypes, txodds
<1>7. StoreHolds'
  <2>1. liveIds' = {}
    BY DEF Restart
  <2> QED
    BY <1>5, <2>1, IdleRuns DEF StoreHolds
<1>8. ClientTypes'
  BY DEF Types, ClientTypes, hosted, hosting, client
<1>9. SocketsAgree'
  BY <1>2 DEF Types, SocketsAgree, client
<1> QED
  BY <1>6, <1>7, <1>8, <1>9 DEF Types

LEMMA PlayTypes ==
  ASSUME Types, NEW f \in Fixtures, Play(f), UNCHANGED <<hosted, client>>
  PROVE  Types'
<1>1. phase' \in [Fixtures -> Statuses]
  BY DEF Play, Types, IndexerTypes, Statuses
<1>2. events' \in [Fixtures -> Nat]
  BY DEF Play, Types, IndexerTypes
<1>3. listed' \subseteq Fixtures
  BY DEF Play, Types, IndexerTypes
<1>4. UNCHANGED <<hasCreds, store, liveIds, refresh, scores, link, outbox, faults>>
  BY DEF Play, polling, sockets
<1>5. IndexerTypes'
  BY <1>1, <1>2, <1>3, <1>4 DEF Types, IndexerTypes
<1>6. ClientTypes' /\ StoreHolds' /\ SocketsAgree'
  BY <1>4 DEF Types, ClientTypes, StoreHolds, SocketsAgree, hosted, hosting, client
<1> QED
  BY <1>5, <1>6 DEF Types

LEMMA ConnectTypes ==
  ASSUME Types, NEW c \in Clients, Connect(c)
  PROVE  Types'
<1>1. /\ attempts' \in [Clients -> 0 .. MAX_RETRIES]
      /\ hook' \in [Clients -> {"waiting", "dialing", "open", "gaveUp", "polling", "unmounted"}]
  <2> DEFINE hooks == {"waiting", "dialing", "open", "gaveUp", "polling", "unmounted"}
  <2>1. /\ attempts \in [Clients -> 0 .. MAX_RETRIES] /\ hook \in [Clients -> hooks]
        /\ {"gaveUp", "dialing"} \subseteq hooks
    BY DEF Types, ClientTypes
  <2> HIDE DEF hooks
  <2>2. attempts[c] < MAX_RETRIES => attempts[c] + 1 \in 0 .. MAX_RETRIES
    BY <2>1, ClientAssumption
  <2>3. attempts' \in [Clients -> 0 .. MAX_RETRIES]
    BY <2>1, <2>2 DEF Connect
  <2>4. hook' \in [Clients -> hooks]
    BY <2>1 DEF Connect
  <2> QED
    BY <2>3, <2>4 DEF hooks
<1>2. UNCHANGED <<indexer, byId, live, cache, calls>>
  BY DEF Connect, hosted, hosting
<1>3. IndexerTypes' /\ StoreHolds'
  BY <1>2 DEF Types, IndexerTypes, StoreHolds, indexer, txodds, polling, sockets
<1>4. ClientTypes'
  BY <1>1, <1>2 DEF Types, ClientTypes
<1>5. SocketsAgree'
  <2>1. hook[c] = "waiting" /\ hook'[c] \in {"gaveUp", "dialing"}
        /\ \A d \in Clients \ {c} : hook'[d] = hook[d]
    BY DEF Connect, Types, ClientTypes
  <2>2. link' = link /\ outbox' = outbox /\ live' = live
    BY <1>2 DEF indexer, sockets
  <2> QED
    BY <2>1, <2>2 DEF Types, SocketsAgree
<1> QED
  BY <1>3, <1>4, <1>5 DEF Types

LEMMA AcceptTypes ==
  ASSUME Types, NEW c \in Clients, Accept(c)
  PROVE  /\ link' \in [Clients -> {"none", "open", "lost"}] /\ link'[c] = "open"
         /\ outbox' \in [Clients -> Seq(Messages)] /\ outbox'[c] = <<Snapshot>>
         /\ \A d \in Clients \ {c} : link'[d] = link[d] /\ outbox'[d] = outbox[d]
<1>1. Snapshot \in Messages
  BY DEF Snapshot, Messages, Types, IndexerTypes, Boards
<1>2. <<Snapshot>> \in Seq(Messages)
  BY <1>1
<1> QED
  BY <1>2 DEF Accept, Types, IndexerTypes

LEMMA AnswerTypes ==
  ASSUME Types, NEW c \in Clients, Answer(c)
  PROVE  Types'
<1>1. Accept(c) /\ hook[c] = "dialing"
      /\ UNCHANGED <<txodds, store, polling, faults, client, hosted>>
  BY DEF Answer
<1>2. IndexerTypes'
  BY <1>1, AcceptTypes DEF Types, IndexerTypes, txodds, polling
<1>3. ClientTypes' /\ StoreHolds'
  BY <1>1 DEF Types, ClientTypes, StoreHolds, hosted, hosting, client, polling
<1>4. SocketsAgree'
  BY <1>1, AcceptTypes DEF Types, SocketsAgree, client
<1> QED
  BY <1>2, <1>3, <1>4 DEF Types

LEMMA OnOpenTypes ==
  ASSUME Types, NEW c \in Clients, OnOpen(c)
  PROVE  Types'
<1>1. UNCHANGED <<indexer, byId, cache, calls>>
  BY DEF OnOpen, hosted, hosting
<1>2. IndexerTypes' /\ StoreHolds'
  BY <1>1 DEF Types, IndexerTypes, StoreHolds, indexer, txodds, polling, sockets
<1>3. /\ attempts' \in [Clients -> 0 .. MAX_RETRIES] /\ live' \in [Clients -> BOOLEAN]
      /\ hook' \in [Clients -> {"waiting", "dialing", "open", "gaveUp", "polling", "unmounted"}]
  BY ClientAssumption DEF OnOpen, Types, ClientTypes
<1>4. ClientTypes'
  BY <1>1, <1>3 DEF Types, ClientTypes
<1>5. SocketsAgree'
  <2>1. hook'[c] = "open" /\ live'[c] = TRUE
        /\ \A d \in Clients \ {c} : hook'[d] = hook[d] /\ live'[d] = live[d]
    BY DEF OnOpen, Types, ClientTypes
  <2>2. link' = link /\ outbox' = outbox
    BY <1>1 DEF indexer, sockets
  <2> QED
    BY <2>1, <2>2 DEF Types, SocketsAgree
<1> QED
  BY <1>2, <1>4, <1>5 DEF Types

\* What a page shows of its first message, and what is left of them.
LEMMA OnMessageShows ==
  ASSUME Types, NEW c \in Clients, OnMessage(c)
  PROVE  /\ byId' \in [Clients -> Boards] /\ outbox' \in [Clients -> Seq(Messages)]
         /\ \A d \in Clients \ {c} : byId'[d] = byId[d] /\ outbox'[d] = outbox[d]
         /\ outbox[c] # <<>> /\ Len(outbox'[c]) = Len(outbox[c]) - 1
         /\ \A i \in 1 .. Len(outbox'[c]) : outbox'[c][i] = outbox[c][i + 1]
         /\ \A f \in Matches : byId'[c][f] = IF About(outbox[c][1], f)
                                             THEN Says(outbox[c][1], f) ELSE byId[c][f]
<1> DEFINE message == Head(outbox[c])
           shown   == Show(c, message)
<1>1. outbox[c] \in Seq(Messages) /\ outbox[c] # <<>> /\ byId[c] \in Boards
  BY DEF OnMessage, Types, IndexerTypes, ClientTypes
<1>2. message \in Messages /\ message = outbox[c][1]
  BY <1>1
<1>3. shown \in Boards /\ \A f \in Matches : shown[f] = IF About(message, f) THEN Says(message, f)
                                                                             ELSE byId[c][f]
  <2> HIDE DEF message
  <2>1. CASE message.type = "snapshot"
    BY <1>2, <2>1 DEF Show, Messages, Boards, About, Says
  <2>2. CASE message.type # "snapshot"
    <3>1. message.fixture \in Matches /\ message.market \in Markets
      BY <1>2, <2>2 DEF Messages
    <3>2. shown = [byId[c] EXCEPT ![message.fixture] = message.market]
      BY <2>2 DEF Show
    <3>3. shown \in Boards
      BY <1>1, <3>1, <3>2 DEF Boards
    <3>4. \A f \in Matches : shown[f] = IF message.fixture = f THEN message.market ELSE byId[c][f]
      BY <1>1, <3>1, <3>2 DEF Boards
    <3> QED
      BY <2>2, <3>3, <3>4 DEF About, Says
  <2> QED
    BY <2>1, <2>2
<1>4. byId' = [byId EXCEPT ![c] = shown] /\ outbox' = [outbox EXCEPT ![c] = Tail(@)]
  BY DEF OnMessage
<1> HIDE DEF shown, message
<1>5. byId' \in [Clients -> Boards] /\ byId'[c] = shown
      /\ \A d \in Clients \ {c} : byId'[d] = byId[d]
  BY <1>3, <1>4 DEF Types, ClientTypes
<1>6. outbox' \in [Clients -> Seq(Messages)] /\ outbox'[c] = Tail(outbox[c])
      /\ \A d \in Clients \ {c} : outbox'[d] = outbox[d]
  BY <1>1, <1>4 DEF Types, IndexerTypes
<1>7. /\ Len(outbox'[c]) = Len(outbox[c]) - 1
      /\ \A i \in 1 .. Len(outbox'[c]) : outbox'[c][i] = outbox[c][i + 1]
  BY <1>1, <1>6
<1> QED
  BY <1>1, <1>2, <1>3, <1>5, <1>6, <1>7

LEMMA OnMessageTypes ==
  ASSUME Types, NEW c \in Clients, OnMessage(c)
  PROVE  Types'
<1>1. UNCHANGED <<txodds, store, polling, link, faults, hook, attempts, live, cache, calls>>
  BY DEF OnMessage, hosted, hosting
<1>2. IndexerTypes'
  BY <1>1, OnMessageShows DEF Types, IndexerTypes, txodds, polling
<1>3. ClientTypes' /\ StoreHolds'
  BY <1>1, OnMessageShows DEF Types, ClientTypes, StoreHolds, polling
<1>4. SocketsAgree'
  <2>1. link[c] = "open"
    BY OnMessageShows DEF Types, SocketsAgree
  <2> QED
    BY <1>1, <2>1, OnMessageShows DEF Types, SocketsAgree
<1> QED
  BY <1>2, <1>3, <1>4 DEF Types

LEMMA BreakTypes ==
  ASSUME Types, NEW c \in Clients, Break(c)
  PROVE  Types'
<1>1. UNCHANGED <<txodds, store, polling, hook, attempts, byId, live, cache, calls>>
  BY DEF Break, hosted, hosting, client
<1>2. faults' \in [Faults -> Nat]
  BY HappensCounts, FaultKinds DEF Break, Types, IndexerTypes
<1>3. /\ link' \in [Clients -> {"none", "open", "lost"}] /\ link[c] = "open" /\ link'[c] = "lost"
      /\ outbox' \in [Clients -> Seq(Messages)] /\ outbox'[c] = <<>>
      /\ \A d \in Clients \ {c} : link'[d] = link[d] /\ outbox'[d] = outbox[d]
  BY DEF Break, Types, IndexerTypes
<1>4. IndexerTypes'
  BY <1>1, <1>2, <1>3 DEF Types, IndexerTypes, txodds, polling
<1>5. ClientTypes' /\ StoreHolds'
  BY <1>1 DEF Types, ClientTypes, StoreHolds, polling
<1>6. SocketsAgree'
  BY <1>1, <1>3 DEF Types, SocketsAgree
<1> QED
  BY <1>4, <1>5, <1>6 DEF Types

LEMMA OnCloseTypes ==
  ASSUME Types, NEW c \in Clients, OnClose(c)
  PROVE  Types'
<1>1. UNCHANGED <<txodds, store, polling, outbox, attempts, byId, cache, calls>>
  BY DEF OnClose, hosted, hosting
<1>2. faults' \in [Faults -> Nat]
  BY HappensCounts, FaultKinds DEF OnClose, Types, IndexerTypes
<1>3. /\ link' \in [Clients -> {"none", "open", "lost"}] /\ link[c] # "open" /\ link'[c] = "none"
      /\ hook' \in [Clients -> {"waiting", "dialing", "open", "gaveUp", "polling", "unmounted"}]
      /\ live' \in [Clients -> BOOLEAN] /\ hook'[c] = "waiting" /\ live'[c] = FALSE
      /\ \A d \in Clients \ {c} : link'[d] = link[d] /\ hook'[d] = hook[d] /\ live'[d] = live[d]
  BY DEF OnClose, Types, IndexerTypes, ClientTypes
<1>4. IndexerTypes'
  BY <1>1, <1>2, <1>3 DEF Types, IndexerTypes, txodds, polling
<1>5. ClientTypes' /\ StoreHolds'
  BY <1>1, <1>3 DEF Types, ClientTypes, StoreHolds, polling
<1>6. SocketsAgree'
  BY <1>1, <1>3 DEF Types, SocketsAgree
<1> QED
  BY <1>4, <1>5, <1>6 DEF Types

LEMMA UnmountTypes ==
  ASSUME Types, NEW c \in Clients, Unmount(c)
  PROVE  Types'
<1>1. UNCHANGED <<txodds, store, polling, faults, attempts, byId, cache, calls>>
  BY DEF Unmount, hosted, hosting
<1>2. /\ link' \in [Clients -> {"none", "open", "lost"}] /\ link'[c] = "none"
      /\ outbox' \in [Clients -> Seq(Messages)] /\ outbox'[c] = <<>>
      /\ \A d \in Clients \ {c} : link'[d] = link[d] /\ outbox'[d] = outbox[d]
  BY DEF Unmount, Types, IndexerTypes
<1>3. /\ hook' \in [Clients -> {"waiting", "dialing", "open", "gaveUp", "polling", "unmounted"}]
      /\ live' \in [Clients -> BOOLEAN] /\ hook'[c] = "unmounted" /\ live'[c] = FALSE
      /\ \A d \in Clients \ {c} : hook'[d] = hook[d] /\ live'[d] = live[d]
  BY DEF Unmount, Types, ClientTypes
<1>4. IndexerTypes'
  BY <1>1, <1>2 DEF Types, IndexerTypes, txodds, polling
<1>5. ClientTypes' /\ StoreHolds'
  BY <1>1, <1>3 DEF Types, ClientTypes, StoreHolds, polling
<1>6. SocketsAgree'
  BY <1>2, <1>3 DEF Types, SocketsAgree
<1> QED
  BY <1>4, <1>5, <1>6 DEF Types

-----------------------------------------------------------------------------
(****************************************************************************)
(* The calls of the pages that poll                                         *)
(****************************************************************************)
\* What a call may hold: a score still to be asked is of a fixture its answer has.
Sound(call) == call \in Calls /\ \A f \in call.todo : call.answer.markets[f] # Absent

LEMMA FreeIsSound == Sound(Free) /\ Free.answer.markets = None /\ None \in Boards
<1>1. None \in Boards
  BY DEF None, Boards
<1>2. Nothing \in Answers /\ Nothing.markets = None
  BY <1>1 DEF Nothing, Answers
<1> QED
  BY <1>1, <1>2 DEF Free, Calls, Sound

\* A step of one call.
LEMMA StepTypes ==
  ASSUME ClientTypes, NEW c \in Clients, NEW p \in Polls, NEW call, Sound(call), Step(c, p, call),
         cache' \subseteq Answers, byId' \in [Clients -> Boards], live' \in [Clients -> BOOLEAN],
         UNCHANGED <<hook, attempts>>
  PROVE  /\ ClientTypes' /\ calls'[c][p] = call
         /\ \A d \in Clients, q \in Polls : <<d, q>> # <<c, p>> => calls'[d][q] = calls[d][q]
<1>1. call \in Calls /\ calls \in [Clients -> [Polls -> Calls]]
  BY DEF Sound, ClientTypes
<1> DEFINE mine == [calls[c] EXCEPT ![p] = call]
<1>2. mine \in [Polls -> Calls] /\ mine[p] = call /\ \A q \in Polls \ {p} : mine[q] = calls[c][q]
  BY <1>1
<1>3. calls' = [calls EXCEPT ![c] = mine]
  BY DEF Step
<1> HIDE DEF mine
<1>4. /\ calls' \in [Clients -> [Polls -> Calls]] /\ calls'[c] = mine
      /\ \A d \in Clients \ {c} : calls'[d] = calls[d]
  BY <1>1, <1>2, <1>3
<1>5. /\ calls'[c][p] = call
      /\ \A d \in Clients, q \in Polls : <<d, q>> # <<c, p>> => calls'[d][q] = calls[d][q]
  <2>1. ASSUME NEW d \in Clients, NEW q \in Polls, <<d, q>> # <<c, p>>
        PROVE  calls'[d][q] = calls[d][q]
    BY <1>2, <1>4, <2>1
  <2> QED
    BY <1>2, <1>4, <2>1
<1>6. \A d \in Clients, q \in Polls : \A f \in (calls'[d][q]).todo :
        (calls'[d][q]).answer.markets[f] # Absent
  <2>1. ASSUME NEW d \in Clients, NEW q \in Polls
        PROVE  Sound(calls'[d][q])
    <3>1. CASE <<d, q>> = <<c, p>>
      BY <1>5, <3>1
    <3>2. CASE <<d, q>> # <<c, p>>
      BY <1>1, <1>5, <3>2 DEF Sound, ClientTypes
    <3> QED
      BY <3>1, <3>2
  <2> QED
    BY <2>1 DEF Sound
<1> QED
  BY <1>4, <1>5, <1>6 DEF ClientTypes

\* The call each handler leaves, in order.
LEMMA PollSteps ==
  ASSUME Types, NEW c \in Clients, NEW p \in Polls,
         Poll(c, p) \/ FailPoll(c, p) \/ TakeAnswer(c, p)
  PROVE  \E call : Sound(call) /\ Step(c, p, call) /\ call.answer.markets = None
<1> DEFINE asked == [Free EXCEPT !.at = "asked"]
<1>1. Sound(asked) /\ asked.answer.markets = None
  BY FreeIsSound DEF Sound, Calls
<1> HIDE DEF asked
<1>2. Step(c, p, Free) \/ Step(c, p, asked)
  BY DEF Poll, FailPoll, TakeAnswer, asked
<1> QED
  BY <1>1, <1>2, FreeIsSound

\* Without credentials no answer holds a market.
LEMMA HostedSteps ==
  ASSUME Types, NEW c \in Clients, NEW p \in Polls, HostedStep(c, p)
  PROVE  \E call : /\ Sound(call) /\ Step(c, p, call)
                   /\ cache' = cache \/ cache' = {call.answer}
                   /\ hasCreds \/ call.answer \in cache \/ call.answer.markets = None
                      \/ call.answer = calls[c][p].answer
                      \/ calls[c][p].todo # {}
<1> USE DEF Sound
<1>1. Sound(calls[c][p])
  BY DEF Types, ClientTypes
<1>2. CASE Serve(c, p)
  <2>1. PICK answer \in cache : Step(c, p, [Free EXCEPT !.at = "answered", !.answer = answer])
    BY <1>2 DEF Serve
  <2> DEFINE call == [Free EXCEPT !.at = "answered", !.answer = answer]
  <2>2. call \in Calls /\ call.todo = {} /\ call.answer = answer
    BY FreeIsSound DEF Free, Calls, Types, ClientTypes
  <2> QED
    BY <1>2, <2>1, <2>2 DEF Serve
<1>3. CASE Invoke(c, p)
  <2>1. CASE hasCreds /\ \E chosen \in Chosen(listed) :
             Step(c, p, [at |-> "running", todo |-> {f \in chosen : phase[f] # "upcoming"},
                         answer |-> [markets |-> [f \in Matches |->
                                       IF f \in chosen THEN toMarket(f) ELSE Absent],
                                     live |-> TRUE]])
    <3>1. PICK chosen \in Chosen(listed) :
             Step(c, p, [at |-> "running", todo |-> {f \in chosen : phase[f] # "upcoming"},
                         answer |-> [markets |-> [f \in Matches |->
                                       IF f \in chosen THEN toMarket(f) ELSE Absent],
                                     live |-> TRUE]])
      BY <2>1
    <3> DEFINE board == [f \in Matches |-> IF f \in chosen THEN toMarket(f) ELSE Absent]
               call  == [at |-> "running", todo |-> {f \in chosen : phase[f] # "upcoming"},
                         answer |-> [markets |-> board, live |-> TRUE]]
    <3>2. chosen \subseteq Fixtures
      BY DEF Chosen, Types, IndexerTypes
    <3>3. \A f \in chosen : toMarket(f) \in Markets
      BY <3>2 DEF toMarket, Markets, Types, IndexerTypes
    <3>4. board \in Boards /\ \A f \in chosen : board[f] # Absent
      BY <3>2, <3>3, AbsentIsNoMarket DEF Boards, Matches
    <3> HIDE DEF board
    <3>5. call \in Calls /\ \A f \in call.todo : call.answer.markets[f] # Absent
      BY <3>2, <3>4 DEF Calls, Answers
    <3>6. Step(c, p, call) /\ cache' = cache
      BY <1>3, <3>1 DEF Invoke, board
    <3> QED
      BY <2>1, <3>5, <3>6
  <2>2. CASE Step(c, p, [Free EXCEPT !.at = "running"])
    <3>1. /\ [Free EXCEPT !.at = "running"] \in Calls /\ [Free EXCEPT !.at = "running"].todo = {}
          /\ [Free EXCEPT !.at = "running"].answer.markets = None
      BY FreeIsSound DEF Free, Calls
    <3> QED
      BY <1>3, <2>2, <3>1 DEF Invoke
  <2> QED
    BY <1>3, <2>1, <2>2 DEF Invoke
<1>4. CASE Respond(c, p)
  <2> DEFINE call == [calls[c][p] EXCEPT !.at = "answered"]
  <2>1. Sound(call) /\ call.answer = calls[c][p].answer
    BY <1>1 DEF Calls
  <2> QED
    BY <1>4, <2>1 DEF Respond
<1>5. ASSUME NEW f \in Fixtures, Enrich(c, p, f) PROVE
        \E call : /\ Sound(call) /\ Step(c, p, call) /\ cache' = cache /\ calls[c][p].todo # {}
  <2> DEFINE rest == [calls[c][p] EXCEPT !.todo = @ \ {f}]
             all  == [rest EXCEPT !.answer.markets[f].shown = events[f]]
  <2>1. f \in calls[c][p].todo /\ cache' = cache /\ (Step(c, p, rest) \/ Step(c, p, all))
    BY <1>5 DEF Enrich
  <2>2. rest \in Calls /\ rest.todo \subseteq calls[c][p].todo /\ rest.answer = calls[c][p].answer
    BY <1>1 DEF Calls
  <2>3. Sound(rest)
    BY <1>1, <2>2
  <2>4. Sound(all)
    <3> DEFINE board == rest.answer.markets
    <3>1. rest.answer \in Answers /\ board \in Boards /\ board[f] # Absent /\ events[f] \in Nat
          /\ f \in Matches
      BY <1>1, <2>1, <2>2 DEF Calls, Answers, Types, IndexerTypes, Matches
    <3> DEFINE market == [board[f] EXCEPT !.shown = events[f]]
    <3>2. market \in Markets
      <4>1. board[f] \in Markets
        BY <3>1 DEF Boards
      <4> QED
        BY <3>1, <4>1 DEF Markets
    <3>3. all = [rest EXCEPT !.answer =
                   [rest.answer EXCEPT !.markets = [board EXCEPT ![f] = market]]]
      OBVIOUS
    <3> HIDE DEF market, rest, all
    <3> DEFINE enriched == [board EXCEPT ![f] = market]
    <3>4. enriched \in Boards /\ \A g \in Matches : board[g] # Absent => enriched[g] # Absent
      BY <3>1, <3>2, AbsentIsNoMarket DEF Boards
    <3> HIDE DEF enriched
    <3> DEFINE answer == [rest.answer EXCEPT !.markets = enriched]
    <3>5. answer \in Answers /\ answer.markets = enriched
      BY <3>1, <3>4 DEF Answers
    <3>6. all = [rest EXCEPT !.answer = answer]
      BY <3>3 DEF enriched
    <3> HIDE DEF answer
    <3>7. all \in Calls /\ all.answer = answer /\ all.todo = rest.todo
      BY <2>2, <3>5, <3>6 DEF Calls
    <3>8. \A g \in rest.todo : g \in Matches /\ board[g] # Absent
      BY <2>2, <2>3 DEF Calls, Matches
    <3> QED
      BY <3>4, <3>5, <3>7, <3>8
  <2> HIDE DEF rest, all
  <2> QED
    BY <2>1, <2>3, <2>4
<1> QED
  BY <1>2, <1>3, <1>4, <1>5 DEF HostedStep

LEMMA PollTypes ==
  ASSUME Types, NEW c \in Clients, NEW p \in Polls, Poll(c, p) \/ FailPoll(c, p)
  PROVE  Types'
<1>1. PICK call : Sound(call) /\ Step(c, p, call)
  BY PollSteps
<1>2. UNCHANGED <<txodds, store, polling, sockets, cache, client>>
  BY DEF Poll, FailPoll, indexer
<1>3. ClientTypes'
  <2>1. UNCHANGED <<cache, hook, attempts, byId, live>>
    BY <1>2 DEF client
  <2>2. cache' \subseteq Answers /\ byId' \in [Clients -> Boards] /\ live' \in [Clients -> BOOLEAN]
    BY <2>1 DEF Types, ClientTypes
  <2> QED
    BY <1>1, <2>1, <2>2, StepTypes DEF Types
<1>4. faults' \in [Faults -> Nat]
  BY HappensCounts, FaultKinds DEF Poll, FailPoll, Fails, indexer, Types, IndexerTypes
<1>5. IndexerTypes' /\ StoreHolds' /\ SocketsAgree'
  <2>1. IndexerTypes'
    BY <1>2, <1>4 DEF Types, IndexerTypes, txodds, polling, sockets
  <2>2. StoreHolds'
    BY <1>2 DEF Types, StoreHolds, polling
  <2>3. SocketsAgree'
    BY <1>2 DEF Types, SocketsAgree, sockets, client
  <2> QED
    BY <2>1, <2>2, <2>3
<1> QED
  BY <1>3, <1>5 DEF Types

\* What a page that polls shows of an answer.
LEMMA TakeAnswerShows ==
  ASSUME Types, NEW c \in Clients, NEW p \in Polls, TakeAnswer(c, p)
  PROVE  /\ byId' \in [Clients -> Boards] /\ live' \in [Clients -> BOOLEAN]
         /\ \A d \in Clients : byId'[d] # byId[d] \/ live'[d] # live[d] =>
              /\ d = c /\ hook[c] = "polling"
              /\ byId'[c] = calls[c][p].answer.markets /\ byId'[c] # None
<1> DEFINE answer == calls[c][p].answer
<1>1. answer.markets \in Boards /\ answer.live \in BOOLEAN
  BY DEF Types, ClientTypes, Calls, Answers
<1>2. IF hook[c] = "polling" /\ answer.markets # None
      THEN /\ byId' = [byId EXCEPT ![c] = answer.markets]
           /\ live' = [live EXCEPT ![c] = answer.live]
      ELSE UNCHANGED <<byId, live>>
  BY DEF TakeAnswer
<1> HIDE DEF answer
<1>3. byId' \in [Clients -> Boards] /\ live' \in [Clients -> BOOLEAN]
  BY <1>1, <1>2 DEF Types, ClientTypes
<1>4. \A d \in Clients : byId'[d] # byId[d] \/ live'[d] # live[d] =>
              /\ d = c /\ hook[c] = "polling"
              /\ byId'[c] = answer.markets /\ byId'[c] # None
  BY <1>2 DEF Types, ClientTypes
<1> QED
  BY <1>3, <1>4 DEF answer

LEMMA TakeAnswerTypes ==
  ASSUME Types, NEW c \in Clients, NEW p \in Polls, TakeAnswer(c, p)
  PROVE  Types'
<1>1. PICK call : Sound(call) /\ Step(c, p, call)
  BY PollSteps
<1>2. UNCHANGED <<indexer, cache, hook, attempts>>
  BY DEF TakeAnswer
<1>3. ClientTypes'
  BY <1>1, <1>2, StepTypes, TakeAnswerShows DEF Types, ClientTypes
<1>4. IndexerTypes' /\ StoreHolds'
  BY <1>2 DEF Types, IndexerTypes, StoreHolds, indexer, txodds, polling, sockets
<1>5. SocketsAgree'
  <2>1. hook' = hook /\ link' = link /\ outbox' = outbox
    BY <1>2 DEF indexer, sockets
  <2> QED
    BY <2>1, TakeAnswerShows DEF Types, SocketsAgree
<1> QED
  BY <1>3, <1>4, <1>5 DEF Types

LEMMA HostedTypes ==
  ASSUME Types, NEW c \in Clients, NEW p \in Polls, HostedStep(c, p),
         UNCHANGED <<txodds, store, polling, sockets, site, client>>
  PROVE  Types'
<1>1. PICK call : Sound(call) /\ Step(c, p, call) /\ (cache' = cache \/ cache' = {call.answer})
  BY HostedSteps
<1>2. cache' \subseteq Answers
  BY <1>1 DEF Sound, Calls, Types, ClientTypes
<1>3. ClientTypes'
  <2>1. UNCHANGED <<hook, attempts, byId, live>>
    BY DEF client
  <2>2. byId' \in [Clients -> Boards] /\ live' \in [Clients -> BOOLEAN]
    BY <2>1 DEF Types, ClientTypes
  <2> QED
    BY <1>1, <1>2, <2>1, <2>2, StepTypes DEF Types
<1>4. faults' \in [Faults -> Nat]
  BY HappensCounts, FaultKinds
     DEF HostedStep, Serve, Invoke, Enrich, Respond, Fails, Types, IndexerTypes
<1>5. IndexerTypes'
  BY <1>4 DEF Types, IndexerTypes, txodds, polling, sockets
<1>6. StoreHolds' /\ SocketsAgree'
  BY DEF Types, StoreHolds, SocketsAgree, polling, sockets, client
<1> QED
  BY <1>3, <1>5, <1>6 DEF Types

LEMMA ExpireTypes ==
  ASSUME Types, Expire, UNCHANGED <<txodds, store, polling, sockets, site, client>>
  PROVE  Types'
<1>1. IndexerTypes' /\ StoreHolds'
  BY DEF Expire, Types, IndexerTypes, StoreHolds, txodds, polling, sockets
<1>2. ClientTypes' /\ SocketsAgree'
  BY DEF Expire, Types, ClientTypes, SocketsAgree, sockets, client
<1> QED
  BY <1>1, <1>2 DEF Types

LEMMA StutterTypes ==
  ASSUME Types, UNCHANGED vars
  PROVE  Types'
<1>1. IndexerTypes' /\ StoreHolds'
  BY DEF vars, indexer, Types, IndexerTypes, StoreHolds, txodds, polling, sockets
<1>2. ClientTypes' /\ SocketsAgree'
  BY DEF vars, indexer, hosted, hosting, Types, ClientTypes, SocketsAgree, sockets, client
<1> QED
  BY <1>1, <1>2 DEF Types

LEMMA InitTypes ==
  ASSUME Init
  PROVE  Types
<1>1. IndexerTypes
  <2>1. \A c \in Clients : <<>> \in Seq(Messages)
    OBVIOUS
  <2>2. store \in Boards
    BY SeededBoard DEF Init, IndexerInit
  <2>3. phase \in [Fixtures -> Statuses] /\ events \in [Fixtures -> Nat]
    BY DEF Init, IndexerInit, Statuses
  <2>4. refresh \in [FixturePasses -> Runs] /\ scores \in [ScorePasses -> Runs]
    BY IdleRuns DEF Init, IndexerInit
  <2>5. /\ link \in [Clients -> {"none", "open", "lost"}] /\ outbox \in [Clients -> Seq(Messages)]
        /\ faults \in [Faults -> Nat]
    BY <2>1 DEF Init, IndexerInit
  <2>6. hasCreds \in BOOLEAN /\ listed \subseteq Fixtures /\ liveIds \subseteq Fixtures
    BY DEF Init, IndexerInit
  <2> QED
    BY <2>2, <2>3, <2>4, <2>5, <2>6 DEF IndexerTypes
<1>2. ClientTypes
  <2>1. calls \in [Clients -> [Polls -> Calls]]
        /\ \A c \in Clients, p \in Polls : calls[c][p] = Free
    BY FreeIsSound DEF Init, HostedInit, Sound
  <2>2. \A c \in Clients, p \in Polls : \A f \in calls[c][p].todo :
          calls[c][p].answer.markets[f] # Absent
    BY <2>1, FreeIsSound DEF Sound
  <2>3. /\ hook \in [Clients -> {"waiting", "dialing", "open", "gaveUp", "polling", "unmounted"}]
        /\ byId \in [Clients -> Boards] /\ live \in [Clients -> BOOLEAN]
    BY ClientAssumption DEF Init, Boards
  <2>4. attempts \in [Clients -> 0 .. MAX_RETRIES] /\ cache \subseteq Answers
    BY ClientAssumption DEF Init, HostedInit
  <2> QED
    BY <2>1, <2>2, <2>3, <2>4 DEF ClientTypes
<1>3. StoreHolds
  BY IdleRuns DEF Init, IndexerInit, StoreHolds
<1>4. SocketsAgree
  BY DEF Init, IndexerInit, SocketsAgree
<1> QED
  BY <1>1, <1>2, <1>3, <1>4 DEF Types

LEMMA NextTypes ==
  ASSUME Types, [Next]_vars
  PROVE  Types'
<1>1. CASE IndexerNext /\ UNCHANGED <<hosted, client>>
  <2>1. ASSUME NEW r \in FixturePasses, AskFixtures(r) \/ TakeFixtures(r) PROVE Types'
    BY <1>1, <2>1, AskFixturesTypes, TakeFixturesTypes
  <2>2. ASSUME NEW s \in ScorePasses, ScoreStep(s) PROVE Types'
    BY <1>1, <2>2, StartScoresTypes, TakeScoreTypes, EndScoresTypes, AskScoreTypes DEF ScoreStep
  <2> QED
    BY <1>1, <2>1, <2>2, SimulateTypes, RestartTypes DEF IndexerNext
<1>2. ASSUME NEW f \in Fixtures, Play(f) /\ UNCHANGED <<hosted, client>> PROVE Types'
  BY <1>2, PlayTypes
<1>3. ASSUME NEW c \in Clients, ClientStep(c) \/ Break(c) \/ Unmount(c) PROVE Types'
  BY <1>3, ConnectTypes, AnswerTypes, OnOpenTypes, OnMessageTypes, OnCloseTypes, BreakTypes,
     UnmountTypes DEF ClientStep
<1>4. ASSUME NEW c \in Clients, NEW p \in Polls, PollStep(c, p) \/ FailPoll(c, p) PROVE Types'
  BY <1>4, PollTypes, TakeAnswerTypes, HostedTypes DEF PollStep
<1>5. CASE Expire /\ UNCHANGED <<txodds, store, polling, sockets, site, client>>
  BY <1>5, ExpireTypes
<1>6. CASE UNCHANGED vars
  BY <1>6, StutterTypes
<1> QED
  BY <1>1, <1>2, <1>3, <1>4, <1>5, <1>6 DEF Next

-----------------------------------------------------------------------------
(****************************************************************************)
(* The messages under way mirror the store                                  *)
(****************************************************************************)
\* What is under way to an open socket after a put: the old messages, then the updates.
LEMMA SendsAppends ==
  ASSUME Types, NEW D, NEW news, Tells(news, D), Sends(news), NEW c \in Clients, link[c] = "open"
  PROVE  /\ Len(outbox[c]) \in Nat /\ Len(news) \in Nat
         /\ Len(outbox'[c]) = Len(outbox[c]) + Len(news)
         /\ \A i \in 1 .. Len(outbox[c]) : outbox'[c][i] = outbox[c][i]
         /\ \A i \in 1 .. Len(news) : outbox'[c][Len(outbox[c]) + i] = news[i]
         /\ \A i \in 1 .. Len(outbox'[c]) :
              i \in 1 .. Len(outbox[c]) \/ i - Len(outbox[c]) \in 1 .. Len(news)
<1>1. outbox[c] \in Seq(Messages) /\ news \in Seq(Messages)
  BY DEF Types, IndexerTypes, Tells
<1>2. outbox'[c] = outbox[c] \o news
  BY DEF Sends
<1> QED
  BY <1>1, <1>2

LEMMA UpdateIsAbout ==
  ASSUME NEW D, NEW news, Tells(news, D), NEW i \in 1 .. Len(news), NEW f
  PROVE  /\ About(news[i], f) <=> news[i].fixture = f
         /\ About(news[i], f) => f \in D /\ Says(news[i], f) = store'[f]
BY DEF Tells, About, Says

LEMMA PutMirrors ==
  ASSUME Types, Mirroring, NEW D \in SUBSET Matches, NEW markets \in [D -> Markets],
         Put(markets), UNCHANGED <<link, byId>>
  PROVE  Mirroring'
<1>1. PICK news : Tells(news, D) /\ Sends(news)
  BY PutTells DEF Types
<1> SUFFICES ASSUME NEW c \in Clients, NEW f \in Matches, link[c] = "open"
             PROVE  Mirrors(c, f)'
  BY DEF Mirroring
<1> DEFINE n == Len(outbox[c])
<1>2. /\ n \in Nat /\ Len(news) \in Nat /\ Len(outbox'[c]) = n + Len(news)
      /\ \A i \in 1 .. n : outbox'[c][i] = outbox[c][i]
      /\ \A i \in 1 .. Len(news) : outbox'[c][n + i] = news[i]
      /\ \A i \in 1 .. Len(outbox'[c]) : i \in 1 .. n \/ i - n \in 1 .. Len(news)
  BY <1>1, SendsAppends
<1> HIDE DEF n
<1>3. CASE f \in D
  <2>1. PICK i \in 1 .. Len(news) :
          news[i].fixture = f /\ \A j \in 1 .. Len(news) : news[j].fixture = f => j = i
    BY <1>1, <1>3 DEF Tells
  <2>2. n + i \in 1 .. Len(outbox'[c]) /\ outbox'[c][n + i] = news[i]
    BY <1>2
  <2>3. About(news[i], f) /\ Says(news[i], f) = store'[f]
    BY <1>1, <2>1, UpdateIsAbout
  <2>4. ASSUME NEW j \in n + i + 1 .. Len(outbox'[c]) PROVE ~About(outbox'[c][j], f)
    <3>1. j - n \in 1 .. Len(news) /\ j - n # i /\ outbox'[c][n + (j - n)] = news[j - n]
      BY <1>2
    <3>2. PICK k \in 1 .. Len(news) : k # i /\ outbox'[c][j] = news[k]
      BY <1>2, <2>1, <3>1
    <3>3. news[k].fixture # f
      BY <2>1, <3>2
    <3>4. ~About(news[k], f)
      BY <1>1, <3>3 DEF Tells, About
    <3> QED
      BY <3>2, <3>4
  <2>5. /\ About(outbox'[c][n + i], f) /\ store'[f] = Says(outbox'[c][n + i], f)
        /\ \A j \in n + i + 1 .. Len(outbox'[c]) : ~About(outbox'[c][j], f)
    BY <2>2, <2>3, <2>4
  <2> QED
    BY <2>2, <2>5 DEF Mirrors, About, Says
<1>4. CASE f \notin D
  <2>1. store'[f] = store[f]
    BY <1>4, PutTells DEF Types
  <2>2. ASSUME NEW j \in 1 .. Len(outbox'[c]), j \notin 1 .. n
        PROVE  ~About(outbox'[c][j], f)
    <3>1. j - n \in 1 .. Len(news) /\ outbox'[c][n + (j - n)] = news[j - n]
      BY <1>2, <2>2
    <3>2. outbox'[c][j] = news[j - n]
      BY <1>2, <3>1
    <3> QED
      BY <1>1, <1>4, <3>1, <3>2, UpdateIsAbout
  <2>3. Mirrors(c, f)
    BY DEF Mirroring
  <2>4. CASE (\A i \in 1 .. n : ~About(outbox[c][i], f)) /\ store[f] = byId[c][f]
    <3>1. \A i \in 1 .. Len(outbox'[c]) : ~About(outbox'[c][i], f)
      BY <1>2, <2>2, <2>4
    <3> QED
      BY <2>1, <2>4, <3>1 DEF Mirrors, About, Says
  <2>5. CASE \E i \in 1 .. n : /\ About(outbox[c][i], f) /\ store[f] = Says(outbox[c][i], f)
                               /\ \A j \in i + 1 .. n : ~About(outbox[c][j], f)
    <3>1. PICK i \in 1 .. n : /\ About(outbox[c][i], f) /\ store[f] = Says(outbox[c][i], f)
                              /\ \A j \in i + 1 .. n : ~About(outbox[c][j], f)
      BY <2>5
    <3>2. i \in 1 .. Len(outbox'[c]) /\ outbox'[c][i] = outbox[c][i]
      BY <1>2
    <3>3. ASSUME NEW j \in i + 1 .. Len(outbox'[c]) PROVE ~About(outbox'[c][j], f)
      <4>1. CASE j \in 1 .. n
        <5>1. outbox'[c][j] = outbox[c][j] /\ j \in i + 1 .. n
          BY <1>2, <4>1
        <5> QED
          BY <3>1, <5>1
      <4>2. CASE j \notin 1 .. n
        <5>1. j \in 1 .. Len(outbox'[c])
          BY <1>2
        <5> QED
          BY <2>2, <4>2, <5>1
      <4> QED
        BY <4>1, <4>2
    <3>4. /\ About(outbox'[c][i], f) /\ store'[f] = Says(outbox'[c][i], f)
          /\ \A j \in i + 1 .. Len(outbox'[c]) : ~About(outbox'[c][j], f)
      BY <2>1, <3>1, <3>2, <3>3
    <3> QED
      BY <3>2, <3>4 DEF Mirrors, About, Says
  <2> QED
    BY <2>3, <2>4, <2>5 DEF Mirrors, n
<1> QED
  BY <1>3, <1>4

LEMMA OnMessageMirrors ==
  ASSUME Types, Mirroring, NEW c \in Clients, OnMessage(c)
  PROVE  Mirroring'
<1>1. store' = store /\ link' = link
  BY DEF OnMessage
<1> SUFFICES ASSUME NEW d \in Clients, NEW f \in Matches, link[d] = "open"
             PROVE  Mirrors(d, f)'
  BY <1>1 DEF Mirroring
<1>2. Mirrors(d, f)
  BY DEF Mirroring
<1>3. CASE d # c
  <2>1. outbox'[d] = outbox[d] /\ byId'[d] = byId[d]
    BY <1>3, OnMessageShows
  <2> QED
    BY <1>1, <1>2, <2>1 DEF Mirrors, About, Says
<1>4. CASE d = c
  <2> DEFINE n == Len(outbox[c])
             m == Len(outbox'[c])
  <2>1. /\ n \in Nat \ {0} /\ m = n - 1 /\ \A i \in 1 .. m : outbox'[c][i] = outbox[c][i + 1]
        /\ byId'[c][f] = IF About(outbox[c][1], f) THEN Says(outbox[c][1], f) ELSE byId[c][f]
    <3>1. outbox[c] \in Seq(Messages)
      BY DEF Types, IndexerTypes
    <3> QED
      BY <3>1, OnMessageShows
  <2>2. (/\ \A i \in 1 .. n : ~About(outbox[c][i], f)
         /\ store[f] = byId[c][f])
        \/ \E i \in 1 .. n : /\ About(outbox[c][i], f) /\ store[f] = Says(outbox[c][i], f)
                             /\ \A j \in i + 1 .. n : ~About(outbox[c][j], f)
    BY <1>2, <1>4 DEF Mirrors
  <2> HIDE DEF n, m
  <2> DEFINE Unsaid == /\ \A i \in 1 .. m : ~About(outbox'[c][i], f)
                       /\ store[f] = byId'[c][f]
             Said   == \E i \in 1 .. m : /\ About(outbox'[c][i], f)
                                         /\ store[f] = Says(outbox'[c][i], f)
                                         /\ \A j \in i + 1 .. m : ~About(outbox'[c][j], f)
  <2>3. Unsaid \/ Said
    <3>1. CASE (\A i \in 1 .. n : ~About(outbox[c][i], f)) /\ store[f] = byId[c][f]
      BY <2>1, <3>1
    <3>2. ASSUME NEW i \in 1 .. n, About(outbox[c][i], f), store[f] = Says(outbox[c][i], f),
                 \A j \in i + 1 .. n : ~About(outbox[c][j], f)
          PROVE  Unsaid \/ Said
      <4>1. CASE i = 1
        <5>1. \A j \in 1 .. m : ~About(outbox'[c][j], f)
          BY <2>1, <3>2, <4>1
        <5> QED
          BY <2>1, <3>2, <4>1, <5>1
      <4>2. CASE i # 1
        <5>1. i - 1 \in 1 .. m /\ outbox'[c][i - 1] = outbox[c][i]
          BY <2>1, <4>2
        <5>2. \A j \in (i - 1) + 1 .. m : ~About(outbox'[c][j], f)
          BY <2>1, <3>2, <4>2
        <5> QED
          BY <3>2, <5>1, <5>2
      <4> QED
        BY <4>1, <4>2
    <3> QED
      BY <2>2, <3>1, <3>2
  <2> QED
    BY <1>1, <1>4, <2>3 DEF Mirrors, About, Says, m
<1> QED
  BY <1>3, <1>4

\* The steps that change the store, the sockets or a page; with all other steps.
Puts == Simulate \/ (\E r \in FixturePasses : TakeFixtures(r))
                 \/ (\E s \in ScorePasses : TakeScore(s))
Moves(c) == Answer(c) \/ OnMessage(c) \/ Break(c) \/ OnClose(c) \/ Unmount(c)
Dialing(c) == (Connect(c) \/ OnOpen(c)) /\ UNCHANGED faults

LEMMA NextSteps ==
  ASSUME Types, [Next]_vars
  PROVE  \/ Puts /\ UNCHANGED <<hosted, client, faults, link>>
         \/ Restart /\ UNCHANGED <<hosted, client>>
         \/ \E c \in Clients : Moves(c)
         \/ UNCHANGED Picture /\ \E c \in Clients : Dialing(c)
         \/ \E c \in Clients, p \in Polls :
              TakeAnswer(c, p) /\ UNCHANGED <<store, link, outbox, hook, attempts, faults>>
         \/ UNCHANGED Picture /\ UNCHANGED <<hook, attempts>>
<1> USE DEF Picture
<1>1. CASE IndexerNext /\ UNCHANGED <<hosted, client>>
  <2>1. ASSUME NEW r \in FixturePasses, AskFixtures(r)
        PROVE  UNCHANGED Picture /\ UNCHANGED <<hook, attempts>>
    BY <1>1, <2>1 DEF AskFixtures, sockets, client
  <2>2. ASSUME NEW s \in ScorePasses, ScoreStep(s), ~TakeScore(s)
        PROVE  UNCHANGED Picture /\ UNCHANGED <<hook, attempts>>
    BY <1>1, <2>2 DEF ScoreStep, StartScores, EndScores, AskScore, sockets, client
  <2>3. Puts => UNCHANGED <<faults, link>>
    BY DEF Puts, Simulate, TakeFixtures, TakeScore
  <2> QED
    BY <1>1, <2>1, <2>2, <2>3 DEF IndexerNext, Puts
<1>2. ASSUME NEW f \in Fixtures, Play(f) /\ UNCHANGED <<hosted, client>>
      PROVE  UNCHANGED Picture /\ UNCHANGED <<hook, attempts>>
  BY <1>2 DEF Play, sockets, client
<1>3. ASSUME NEW c \in Clients, ClientStep(c) \/ Break(c) \/ Unmount(c)
      PROVE  Moves(c) \/ (UNCHANGED Picture /\ Dialing(c))
  BY <1>3 DEF ClientStep, Moves, Dialing, Connect, OnOpen, indexer, sockets
<1>4. ASSUME NEW c \in Clients, NEW p \in Polls, PollStep(c, p) \/ FailPoll(c, p)
      PROVE  \/ TakeAnswer(c, p) /\ UNCHANGED <<store, link, outbox, hook, attempts, faults>>
             \/ UNCHANGED Picture /\ UNCHANGED <<hook, attempts>>
  BY <1>4 DEF PollStep, FailPoll, Poll, TakeAnswer, indexer, sockets, client
<1>5. CASE Expire /\ UNCHANGED <<txodds, store, polling, sockets, site, client>>
  BY <1>5 DEF sockets, client
<1>6. CASE UNCHANGED vars
  BY <1>6 DEF vars, indexer, sockets, client
<1> QED
  BY <1>1, <1>2, <1>3, <1>4, <1>5, <1>6 DEF Next

\* Faults are only ever counted up.
LEMMA FaultsGrow ==
  ASSUME Types, [Next]_vars
  PROVE  \A kind \in Faults : /\ faults[kind] \in Nat /\ faults'[kind] \in Nat
                              /\ faults'[kind] >= faults[kind]
<1> DEFINE Grow == faults' = faults \/ \E kind \in Faults : Happens(kind)
<1>1. faults \in [Faults -> Nat]
  BY DEF Types, IndexerTypes
<1>2. Grow => \A kind \in Faults : /\ faults[kind] \in Nat /\ faults'[kind] \in Nat
                                   /\ faults'[kind] >= faults[kind]
  <2>1. ASSUME NEW kind \in Faults, Happens(kind), NEW other \in Faults
        PROVE  faults[other] \in Nat /\ faults'[other] \in Nat /\ faults'[other] >= faults[other]
    <3>1. /\ faults'[kind] = faults[kind] + 1
          /\ other # kind => faults'[other] = faults[other]
      BY <1>1, <2>1, HappensCounts
    <3> QED
      BY <1>1, <3>1
  <2> QED
    BY <1>1, <2>1
<1>3. {"failed", "refused", "broken", "restarted"} = Faults
  BY FaultKinds
<1>4. ASSUME NEW r \in FixturePasses, AskFixtures(r) \/ TakeFixtures(r) PROVE Grow
  BY <1>3, <1>4 DEF AskFixtures, TakeFixtures, Fails
<1>5. ASSUME NEW s \in ScorePasses, ScoreStep(s) PROVE Grow
  BY <1>3, <1>5 DEF ScoreStep, StartScores, EndScores, AskScore, TakeScore, Fails
<1>6. Simulate \/ Restart => Grow
  BY <1>3 DEF Simulate, Restart
<1>7. ASSUME NEW f \in Fixtures, Play(f) PROVE Grow
  BY <1>7 DEF Play
<1>8. ASSUME NEW c \in Clients, ClientStep(c) \/ Break(c) \/ Unmount(c) PROVE Grow
  BY <1>3, <1>8 DEF ClientStep, Connect, Answer, OnOpen, OnMessage, OnClose, Break, Unmount, indexer
<1>9. ASSUME NEW c \in Clients, NEW p \in Polls, HostedStep(c, p) PROVE Grow
  BY <1>3, <1>9 DEF HostedStep, Serve, Invoke, Enrich, Respond, Fails
<1>10. ASSUME NEW c \in Clients, NEW p \in Polls, PollStep(c, p) \/ FailPoll(c, p) PROVE Grow
  BY <1>3, <1>9, <1>10 DEF PollStep, FailPoll, Poll, TakeAnswer, indexer, Fails
<1>11. Expire \/ UNCHANGED vars => Grow
  BY DEF Expire, vars, indexer
<1> HIDE DEF Grow
<1> QED
  BY <1>2, <1>4, <1>5, <1>6, <1>7, <1>8, <1>10, <1>11 DEF Next, IndexerNext

LEMMA PutsPut ==
  ASSUME Types, Puts
  PROVE  \E D \in SUBSET Matches : \E markets \in [D -> Markets] : Put(markets)
BY TakeFixturesPuts, TakeScorePuts, SimulatePuts DEF Puts

LEMMA MirroringKept ==
  ASSUME Types, Mirroring, [Next]_vars
  PROVE  Mirroring'
<1>1. CASE Puts /\ UNCHANGED <<hosted, client, faults, link>>
  <2>1. UNCHANGED <<link, byId>>
    BY <1>1 DEF client
  <2> QED
    BY <1>1, <2>1, PutsPut, PutMirrors
<1>2. CASE Restart
  BY <1>2 DEF Restart, Mirroring, Types, IndexerTypes
<1>3. ASSUME NEW c \in Clients, Answer(c) PROVE Mirroring'
  <2>1. store' = store /\ byId' = byId /\ Accept(c)
    BY <1>3 DEF Answer, client
  <2>2. ASSUME NEW f \in Matches PROVE Mirrors(c, f)'
    <3>1. Len(outbox'[c]) = 1 /\ outbox'[c][1] = Snapshot
      <4>1. outbox'[c] = <<Snapshot>>
        BY <2>1, AcceptTypes
      <4> HIDE DEF Snapshot
      <4> QED
        BY <4>1
    <3>2. About(Snapshot, f) /\ Says(Snapshot, f) = store'[f]
      BY <2>1 DEF Snapshot, About, Says
    <3>3. 1 \in 1 .. Len(outbox'[c]) /\ \A j \in 1 + 1 .. Len(outbox'[c]) : FALSE
      BY <3>1
    <3>4. About(outbox'[c][1], f) /\ store'[f] = Says(outbox'[c][1], f)
      BY <3>1, <3>2
    <3> QED
      BY <3>3, <3>4 DEF Mirrors, About, Says
  <2>3. ASSUME NEW d \in Clients \ {c}, NEW f \in Matches, link'[d] = "open" PROVE Mirrors(d, f)'
    <3>1. link[d] = "open" /\ outbox'[d] = outbox[d]
      BY <2>1, <2>3, AcceptTypes
    <3> QED
      BY <2>1, <3>1 DEF Mirroring, Mirrors, About, Says
  <2> QED
    BY <2>2, <2>3 DEF Mirroring
<1>4. ASSUME NEW c \in Clients, Break(c) \/ OnClose(c) \/ Unmount(c) PROVE Mirroring'
  <2>1. store' = store /\ byId' = byId
    BY <1>4 DEF Break, OnClose, Unmount, client
  <2>2. link'[c] # "open" /\ \A d \in Clients \ {c} : link'[d] = link[d] /\ outbox'[d] = outbox[d]
    BY <1>4 DEF Break, OnClose, Unmount, Types, IndexerTypes
  <2>3. ASSUME NEW d \in Clients \ {c}, NEW f \in Matches, link'[d] = "open" PROVE Mirrors(d, f)'
    BY <2>1, <2>2, <2>3 DEF Mirroring, Mirrors, About, Says
  <2> QED
    BY <2>2, <2>3 DEF Mirroring
<1>5. ASSUME NEW c \in Clients, NEW p \in Polls, TakeAnswer(c, p), UNCHANGED <<store, link, outbox>>
      PROVE  Mirroring'
  <2>1. ASSUME NEW d \in Clients, link[d] = "open" PROVE byId'[d] = byId[d]
    BY <1>5, <2>1, TakeAnswerShows DEF Types, SocketsAgree
  <2> QED
    BY <1>5, <2>1 DEF Mirroring, Mirrors, About, Says
<1>6. CASE UNCHANGED Picture
  BY <1>6 DEF Picture, Mirroring, Mirrors, About, Says
<1> QED
  BY <1>1, <1>2, <1>3, <1>4, <1>5, <1>6, OnMessageMirrors, NextSteps DEF Moves

LEMMA NeverBlankKept ==
  ASSUME Types, PagesAreNeverBlank, [Next]_vars
  PROVE  PagesAreNeverBlank'
<1>1. ASSUME NEW c \in Clients, hook'[c] = "polling" PROVE hook[c] = "polling"
  <2>1. ASSUME NEW d \in Clients, Moves(d) \/ Dialing(d) PROVE hook[c] = "polling"
    BY <1>1, <2>1 DEF Moves, Dialing, Connect, OnOpen, Answer, OnMessage, Break, OnClose,
                      Unmount, client, Types, ClientTypes
  <2>2. CASE UNCHANGED hook
    BY <1>1, <2>2
  <2> QED
    BY <2>1, <2>2, NextSteps DEF client
<1>2. ASSUME NEW c \in Clients, hook[c] = "polling"
      PROVE  byId'[c] = byId[c] \/ byId'[c] # None
  <2>1. ASSUME NEW d \in Clients, Moves(d) PROVE byId'[c] = byId[c]
    <3>1. CASE OnMessage(d)
      <4>1. d # c
        BY <1>2, <3>1 DEF OnMessage
      <4> QED
        BY <3>1, <4>1, OnMessageShows
    <3> QED
      BY <2>1, <3>1 DEF Moves, Answer, Break, OnClose, Unmount, client
  <2>2. ASSUME NEW d \in Clients, NEW p \in Polls, TakeAnswer(d, p)
        PROVE  byId'[c] = byId[c] \/ byId'[c] # None
    BY <2>2, TakeAnswerShows
  <2>3. CASE UNCHANGED byId
    BY <2>3
  <2> QED
    BY <2>1, <2>2, <2>3, NextSteps DEF Picture, client
<1> QED
  BY <1>1, <1>2 DEF PagesAreNeverBlank, None

LEMMA DialsKept ==
  ASSUME Types, Dials, [Next]_vars
  PROVE  Dials'
<1>1. /\ Failed \in Nat /\ Failed' \in Nat /\ Failed' >= Failed
      /\ \A c \in Clients : attempts[c] \in Nat
  BY FaultsGrow, FaultKinds, ClientAssumption DEF Failed, Types, ClientTypes
<1> DEFINE Dial(c) ==
             /\ hook'[c] = "waiting" => attempts'[c] <= Failed'
             /\ hook'[c] = "dialing" =>
                  attempts'[c] <= Failed' + (IF link'[c] = "lost" THEN 0 ELSE 1)
             /\ hook'[c] = "open" => attempts'[c] = 0
             /\ hook'[c] = "gaveUp" => MAX_RETRIES <= Failed'
<1>2. ASSUME NEW c \in Clients, UNCHANGED <<hook[c], attempts[c], link[c]>>
      PROVE  Dial(c)
  BY <1>1, <1>2, ClientAssumption DEF Dials
<1>3. SUFFICES \A c \in Clients : Dial(c)
  BY DEF Dials, Failed
<1>4. CASE UNCHANGED <<hook, attempts, link>>
  BY <1>2, <1>4
<1>5. CASE Restart /\ UNCHANGED <<hosted, client>>
  <2>1. Failed' = Failed + 1
    <3>1. /\ faults'["restarted"] = faults["restarted"] + 1
          /\ faults'["refused"] = faults["refused"]
      BY <1>5, FaultKinds, HappensCounts DEF Restart, Types, IndexerTypes
    <3> QED
      BY <3>1, FaultsGrow, FaultKinds DEF Failed
  <2>2. hook' = hook /\ attempts' = attempts
        /\ \A c \in Clients : link'[c] = IF link[c] = "open" THEN "lost" ELSE link[c]
    BY <1>5 DEF Restart, client
  <2> QED
    BY <1>1, <2>1, <2>2, ClientAssumption DEF Dials
<1>6. ASSUME NEW d \in Clients, Moves(d) \/ Dialing(d), NEW c \in Clients
      PROVE  Dial(c)
  <2>1. \/ hook'[c] = hook[c] /\ attempts'[c] = attempts[c] /\ link'[c] = link[c]
        \/ c = d
    BY <1>6 DEF Moves, Dialing, Connect, OnOpen, Answer, Accept, OnMessage, Break, OnClose, Unmount,
                client, indexer, sockets, Types, IndexerTypes, ClientTypes
  <2>2. CASE c = d
    <3>1. /\ link[c] # "none" => hook[c] \in {"dialing", "open"}
          /\ hook[c] = "waiting" => attempts[c] <= Failed
          /\ hook[c] = "dialing" => attempts[c] <= Failed + (IF link[c] = "lost" THEN 0 ELSE 1)
          /\ hook[c] = "open" => attempts[c] = 0
      BY DEF Dials, Types, SocketsAgree
    <3>2. CASE Connect(c)
      <4>1. /\ hook[c] = "waiting" /\ link[c] = "none" /\ link' = link /\ Failed' = Failed
            /\ \/ hook'[c] = "gaveUp" /\ attempts[c] >= MAX_RETRIES
               \/ hook'[c] = "dialing" /\ attempts'[c] = attempts[c] + 1
        BY <3>1, <3>2 DEF Connect, indexer, sockets, Failed, Types, IndexerTypes, ClientTypes
      <4> QED
        BY <1>1, <3>1, <4>1, ClientAssumption
    <3>3. CASE OnOpen(c)
      <4>1. hook'[c] = "open" /\ attempts'[c] = 0
        BY <3>3 DEF OnOpen, Types, ClientTypes
      <4> QED
        BY <4>1
    <3>4. CASE Answer(c)
      <4>1. hook' = hook /\ attempts' = attempts /\ hook[c] = "dialing" /\ link[c] = "none"
            /\ link'[c] = "open"
        BY <3>4, AcceptTypes DEF Answer, client
      <4> QED
        BY <1>1, <3>1, <4>1
    <3>5. CASE OnMessage(c)
      BY <1>2, <3>5 DEF OnMessage
    <3>6. CASE Break(c)
      <4>1. /\ hook' = hook /\ attempts' = attempts /\ link[c] = "open" /\ link'[c] = "lost"
            /\ hook[c] = "open" \/ (hook[c] = "dialing" /\ Happens("refused"))
        BY <3>6 DEF Break, client, Types, IndexerTypes
      <4>2. Happens("refused") => Failed' = Failed + 1
        <5>1. Happens("refused") => /\ faults'["refused"] = faults["refused"] + 1
                                    /\ faults'["restarted"] = faults["restarted"]
          BY FaultKinds, HappensCounts DEF Types, IndexerTypes
        <5> QED
          BY <5>1, FaultsGrow, FaultKinds DEF Failed
      <4> QED
        BY <1>1, <3>1, <4>1, <4>2
    <3>7. CASE OnClose(c)
      <4>1. /\ hook'[c] = "waiting" /\ attempts' = attempts
            /\ \/ hook[c] \in {"dialing", "open"} /\ link[c] = "lost"
               \/ hook[c] = "dialing" /\ link[c] = "none" /\ Happens("refused")
        BY <3>7 DEF OnClose, Types, ClientTypes
      <4>2. Happens("refused") => Failed' = Failed + 1
        <5>1. Happens("refused") => /\ faults'["refused"] = faults["refused"] + 1
                                    /\ faults'["restarted"] = faults["restarted"]
          BY FaultKinds, HappensCounts DEF Types, IndexerTypes
        <5> QED
          BY <5>1, FaultsGrow, FaultKinds DEF Failed
      <4> QED
        BY <1>1, <3>1, <4>1, <4>2
    <3>8. CASE Unmount(c)
      <4>1. hook'[c] = "unmounted"
        BY <3>8 DEF Unmount, Types, ClientTypes
      <4> QED
        BY <4>1
    <3> QED
      BY <1>6, <2>2, <3>2, <3>3, <3>4, <3>5, <3>6, <3>7, <3>8 DEF Moves, Dialing
  <2> QED
    BY <1>2, <2>1, <2>2
<1> QED
  BY <1>4, <1>5, <1>6, NextSteps DEF Picture, client

-----------------------------------------------------------------------------
(****************************************************************************)
(* A simulated match only advances                                          *)
(****************************************************************************)
LEMMA CredsKept ==
  ASSUME [Next]_vars
  PROVE  hasCreds' = hasCreds
<1>1. ASSUME IndexerNext PROVE hasCreds' = hasCreds
  <2>1. ASSUME NEW r \in FixturePasses, AskFixtures(r) \/ TakeFixtures(r) PROVE hasCreds' = hasCreds
    BY <2>1 DEF AskFixtures, TakeFixtures, txodds
  <2>2. ASSUME NEW s \in ScorePasses, ScoreStep(s) PROVE hasCreds' = hasCreds
    BY <2>2 DEF ScoreStep, StartScores, AskScore, TakeScore, EndScores, txodds
  <2> QED
    BY <1>1, <2>1, <2>2 DEF IndexerNext, Simulate, Restart, txodds
<1>2. ASSUME NEW c \in Clients, ClientStep(c) \/ Break(c) \/ Unmount(c) PROVE hasCreds' = hasCreds
  BY <1>2 DEF ClientStep, Connect, Answer, OnOpen, OnMessage, OnClose, Break, Unmount,
              indexer, txodds
<1>3. ASSUME NEW c \in Clients, NEW p \in Polls, PollStep(c, p) \/ FailPoll(c, p)
      PROVE  hasCreds' = hasCreds
  BY <1>3 DEF PollStep, FailPoll, Poll, TakeAnswer, indexer, txodds
<1> QED
  BY <1>1, <1>2, <1>3 DEF Next, Play, vars, indexer, txodds

LEMMA QuietKept ==
  ASSUME Types, ~hasCreds, Quiet, [Next]_vars
  PROVE  Quiet'
<1> DEFINE Feed   == \/ UNCHANGED <<refresh, scores>>
                     \/ /\ \A r \in FixturePasses : refresh'[r] = Idle
                        /\ \A s \in ScorePasses : scores'[s] = Idle
           Call(c, p) == \E call : Sound(call) /\ Step(c, p, call) /\ call.answer.markets = None
                                   /\ (cache' = cache \/ cache' = {call.answer})
           Hosted == \/ UNCHANGED hosting
                     \/ cache' = {} /\ UNCHANGED calls
                     \/ \E c \in Clients, p \in Polls : Call(c, p)
<1>1. Feed => /\ \A r \in FixturePasses : (refresh'[r]).at = "idle"
              /\ \A s \in ScorePasses : (scores'[s]).at = "idle"
  BY IdleRuns DEF Quiet
<1>2. Hosted => /\ \A answer \in cache' : answer.markets = None
                /\ \A c \in Clients, p \in Polls : (calls'[c][p]).answer.markets = None
  <2>1. CASE UNCHANGED calls /\ (UNCHANGED cache \/ cache' = {})
    BY <2>1 DEF Quiet
  <2>2. ASSUME NEW c \in Clients, NEW p \in Polls, NEW call, Step(c, p, call),
               call.answer.markets = None, cache' = cache \/ cache' = {call.answer}
        PROVE  /\ \A answer \in cache' : answer.markets = None
               /\ \A d \in Clients, q \in Polls : (calls'[d][q]).answer.markets = None
    <3>1. \A answer \in cache' : answer.markets = None
      BY <2>2 DEF Quiet
    <3>2. \A d \in Clients, q \in Polls : calls'[d][q] = call \/ calls'[d][q] = calls[d][q]
      BY <2>2 DEF Step, Types, ClientTypes
    <3>3. ASSUME NEW d \in Clients, NEW q \in Polls
          PROVE  (calls'[d][q]).answer.markets = None
      <4>1. calls[d][q].answer.markets = None
        BY DEF Quiet
      <4> QED
        BY <2>2, <3>2, <4>1
    <3> QED
      BY <3>1, <3>3
  <2> QED
    BY <2>1, <2>2 DEF hosting
<1>3. ASSUME NEW c \in Clients, NEW p \in Polls, HostedStep(c, p) PROVE Call(c, p)
  <2>1. calls[c][p].answer.markets = None /\ calls[c][p].todo = {}
    <3>1. calls[c][p].answer.markets = None
      BY DEF Quiet
    <3>2. \A f \in calls[c][p].todo : calls[c][p].answer.markets[f] # Absent /\ f \in Matches
      BY DEF Types, ClientTypes, Calls, Matches
    <3> QED
      BY <3>1, <3>2 DEF None
  <2>2. PICK call : /\ Sound(call) /\ Step(c, p, call)
                    /\ cache' = cache \/ cache' = {call.answer}
                    /\ hasCreds \/ call.answer \in cache \/ call.answer.markets = None
                       \/ call.answer = calls[c][p].answer
                       \/ calls[c][p].todo # {}
    BY <1>3, HostedSteps
  <2>3. call.answer.markets = None
    BY <2>1, <2>2 DEF Quiet
  <2> QED
    BY <2>2, <2>3
<1>4. ASSUME NEW c \in Clients, NEW p \in Polls, Poll(c, p) \/ FailPoll(c, p) \/ TakeAnswer(c, p)
      PROVE  Call(c, p)
  <2>1. cache' = cache
    BY <1>4 DEF Poll, FailPoll, TakeAnswer
  <2> QED
    BY <1>4, <2>1, PollSteps
<1>5. IndexerNext => Feed
  <2>1. ASSUME NEW r \in FixturePasses, AskFixtures(r) \/ TakeFixtures(r) PROVE FALSE
    BY <2>1 DEF AskFixtures, TakeFixtures, Quiet
  <2>2. ASSUME NEW s \in ScorePasses, ScoreStep(s) PROVE FALSE
    BY <2>2 DEF ScoreStep, StartScores, AskScore, TakeScore, EndScores, Quiet
  <2> QED
    BY <2>1, <2>2 DEF IndexerNext, Simulate, Restart, polling
<1>6. Feed /\ Hosted
  <2>1. CASE IndexerNext /\ UNCHANGED <<hosted, client>>
    BY <1>5, <2>1 DEF hosted
  <2>2. ASSUME NEW f \in Fixtures, Play(f) /\ UNCHANGED <<hosted, client>> PROVE Feed /\ Hosted
    BY <2>2 DEF Play
  <2>3. ASSUME NEW c \in Clients, ClientStep(c) \/ Break(c) \/ Unmount(c) PROVE Feed /\ Hosted
    BY <2>3 DEF ClientStep, Connect, Answer, OnOpen, OnMessage, OnClose, Break, Unmount,
                indexer, polling, hosted
  <2>4. ASSUME NEW c \in Clients, NEW p \in Polls, PollStep(c, p) \/ FailPoll(c, p)
        PROVE  Feed /\ Hosted
    <3>1. Feed
      BY <2>4 DEF PollStep, FailPoll, Poll, TakeAnswer, indexer, polling
    <3> QED
      BY <1>3, <1>4, <2>4, <3>1 DEF PollStep
  <2>5. CASE Expire /\ UNCHANGED <<txodds, store, polling, sockets, site, client>>
    BY <2>5 DEF Expire, polling
  <2>6. CASE UNCHANGED vars
    BY <2>6 DEF vars, indexer, polling, hosted
  <2> QED
    BY <2>1, <2>2, <2>3, <2>4, <2>5, <2>6 DEF Next
<1> QED
  BY <1>1, <1>2, <1>6 DEF Quiet

LEMMA PrecedesIsAnOrder ==
  ASSUME NEW a \in Markets \cup {Absent}, NEW b \in Markets \cup {Absent},
         NEW d \in Markets \cup {Absent}
  PROVE  Precedes(a, a) /\ (Precedes(a, b) /\ Precedes(b, d) => Precedes(a, d))
<1>1. a.shown \in Nat /\ b.shown \in Nat /\ d.shown \in Nat
  BY DEF Markets, Absent
<1> QED
  BY <1>1 DEF Precedes

LEMMA WhatIsSaid ==
  ASSUME Types, NEW c \in Clients, NEW f \in Matches, NEW i \in 1 .. Len(outbox[c]),
         About(outbox[c][i], f)
  PROVE  Says(outbox[c][i], f) \in Markets \cup {Absent}
<1>1. outbox[c] \in Seq(Messages)
  BY DEF Types, IndexerTypes
<1>2. outbox[c][i] \in Messages
  BY <1>1
<1> QED
  BY <1>2 DEF Messages, Says

\* A step of the simulation comes after all that was said before it.
LEMMA SimulateOrderly ==
  ASSUME Types, NEW c \in Clients, Orderly(c), Simulate, UNCHANGED <<link, byId>>
  PROVE  Orderly(c)'
<1>1. PICK D \in SUBSET Matches : \E markets \in [D -> Markets] :
        Put(markets) /\ \A f \in D : Precedes(store[f], markets[f])
  BY SimulatePuts
<1>2. PICK markets \in [D -> Markets] :
        Put(markets) /\ \A f \in D : Precedes(store[f], markets[f])
  BY <1>1
<1>3. /\ store' \in Boards
      /\ \A f \in Matches : store'[f] = IF f \in D THEN markets[f] ELSE store[f]
  BY <1>2, PutTells DEF Types
<1>4. PICK news : Tells(news, D) /\ Sends(news)
  BY <1>2, PutTells DEF Types
<1>5. store \in Boards /\ byId[c] \in Boards
  BY DEF Types, IndexerTypes, ClientTypes
<1>6. ASSUME NEW f \in Matches PROVE Precedes(store[f], store'[f]) /\ Precedes(store'[f], store'[f])
  <2>1. store[f] \in Markets \cup {Absent} /\ store'[f] \in Markets \cup {Absent}
    BY <1>3, <1>5 DEF Boards
  <2> QED
    BY <1>2, <1>3, <2>1, PrecedesIsAnOrder
<1>7. ASSUME NEW market \in Markets \cup {Absent}, NEW f \in Matches, Precedes(market, store[f])
      PROVE  Precedes(market, store'[f])
  <2>1. store[f] \in Markets \cup {Absent} /\ store'[f] \in Markets \cup {Absent}
    BY <1>3, <1>5 DEF Boards
  <2> QED
    BY <1>6, <1>7, <2>1, PrecedesIsAnOrder
<1> DEFINE n == Len(outbox[c])
<1>8. CASE link[c] = "open"
  <2>1. /\ n \in Nat /\ Len(news) \in Nat /\ Len(outbox'[c]) = n + Len(news)
        /\ \A i \in 1 .. n : outbox'[c][i] = outbox[c][i]
        /\ \A i \in 1 .. Len(news) : outbox'[c][n + i] = news[i]
        /\ \A i \in 1 .. Len(outbox'[c]) : i \in 1 .. n \/ i - n \in 1 .. Len(news)
    BY <1>4, <1>8, SendsAppends, SMTT(30)
  <2>2. ASSUME NEW f \in Matches, NEW i \in 1 .. n, About(outbox[c][i], f)
        PROVE  Says(outbox[c][i], f) \in Markets \cup {Absent}
    BY <2>2, WhatIsSaid
  <2> HIDE DEF n
  <2>3. ASSUME NEW f \in Matches, NEW i \in 1 .. Len(outbox'[c]), i \notin 1 .. n,
               About(outbox'[c][i], f)
        PROVE  Says(outbox'[c][i], f) = store'[f]
    <3>1. PICK k \in 1 .. Len(news) : i = n + k
      <4>1. i - n \in 1 .. Len(news) /\ i = n + (i - n)
        BY <2>1, <2>3
      <4> QED
        BY <4>1
    <3>2. outbox'[c][i] = news[k]
      BY <2>1, <3>1
    <3> QED
      BY <1>4, <2>3, <3>2 DEF Tells, About, Says
  <2>4. ASSUME NEW f \in Seeds PROVE InOrder(c, f)'
    <3>1. f \in Matches
      BY DEF Matches
    <3>2. /\ \A i \in 1 .. n : About(outbox[c][i], f) =>
               /\ Precedes(Says(outbox[c][i], f), store[f])
               /\ \A j \in i + 1 .. n : About(outbox[c][j], f) =>
                    Precedes(Says(outbox[c][i], f), Says(outbox[c][j], f))
      BY DEF Orderly, InOrder, n
    <3>3. ASSUME NEW i \in 1 .. Len(outbox'[c]), About(outbox'[c][i], f)
          PROVE  /\ Precedes(Says(outbox'[c][i], f), store'[f])
                 /\ \A j \in i + 1 .. Len(outbox'[c]) : About(outbox'[c][j], f) =>
                      Precedes(Says(outbox'[c][i], f), Says(outbox'[c][j], f))
      <4>1. CASE i \in 1 .. n
        <5>1. outbox'[c][i] = outbox[c][i]
          BY <2>1, <4>1
        <5>2. Precedes(Says(outbox'[c][i], f), store'[f])
          BY <1>7, <2>2, <3>1, <3>2, <3>3, <4>1, <5>1
        <5>3. ASSUME NEW j \in i + 1 .. Len(outbox'[c]), About(outbox'[c][j], f)
              PROVE  Precedes(Says(outbox'[c][i], f), Says(outbox'[c][j], f))
          <6>1. CASE j \in 1 .. n
            <7>1. j \in i + 1 .. n /\ outbox'[c][j] = outbox[c][j]
              BY <2>1, <6>1
            <7> QED
              BY <3>2, <3>3, <4>1, <5>1, <5>3, <7>1
          <6>2. CASE j \notin 1 .. n
            <7>1. j \in 1 .. Len(outbox'[c])
              BY <2>1
            <7>2. Says(outbox'[c][j], f) = store'[f]
              BY <2>3, <3>1, <5>3, <6>2, <7>1
            <7> QED
              BY <5>2, <7>2
          <6> QED
            BY <6>1, <6>2
        <5> QED
          BY <5>2, <5>3
      <4>2. CASE i \notin 1 .. n
        <5>1. Says(outbox'[c][i], f) = store'[f]
          BY <2>3, <3>1, <3>3, <4>2
        <5>2. ASSUME NEW j \in i + 1 .. Len(outbox'[c]), About(outbox'[c][j], f)
              PROVE  Says(outbox'[c][j], f) = store'[f]
          <6>1. j \in 1 .. Len(outbox'[c]) /\ j \notin 1 .. n
            BY <2>1, <4>2
          <6> QED
            BY <2>3, <3>1, <5>2, <6>1
        <5> QED
          BY <1>6, <3>1, <5>1, <5>2
      <4> QED
        BY <4>1, <4>2
    <3> QED
      BY <3>3 DEF InOrder, About, Says, Precedes
  <2>5. ASSUME NEW f \in Seeds, Started(c, f) PROVE Started(c, f)'
    <3>1. f \in Matches /\ byId[c][f] \in Markets \cup {Absent} /\ byId'[c][f] = byId[c][f]
      BY <1>5 DEF Matches, Boards
    <3>2. Precedes(byId[c][f], store'[f])
      BY <1>7, <2>5, <3>1 DEF Started
    <3>3. ASSUME NEW i \in 1 .. Len(outbox'[c]), About(outbox'[c][i], f)
          PROVE  Precedes(byId[c][f], Says(outbox'[c][i], f))
      <4>1. CASE i \in 1 .. n
        <5>1. outbox'[c][i] = outbox[c][i]
          BY <2>1, <4>1
        <5> QED
          BY <2>5, <3>3, <4>1, <5>1 DEF Started, n
      <4>2. CASE i \notin 1 .. n
        BY <2>3, <3>1, <3>2, <3>3, <4>2
      <4> QED
        BY <4>1, <4>2
    <3> QED
      BY <3>1, <3>2, <3>3 DEF Started, About, Says, Precedes
  <2>6. Unstarted(c) => Unstarted(c)'
    <3>1. outbox[c] # <<>> => n >= 1
      <4>1. outbox[c] \in Seq(Messages)
        BY DEF Types, IndexerTypes
      <4> QED
        BY <4>1 DEF n
    <3>2. n >= 1 => outbox'[c] # <<>> /\ outbox'[c][1] = outbox[c][1]
      BY <2>1
    <3> QED
      BY <1>8, <3>1, <3>2 DEF Unstarted
  <2> QED
    BY <2>4, <2>5, <2>6 DEF Orderly
<1>9. CASE link[c] # "open"
  <2>1. outbox[c] = <<>> /\ outbox'[c] = <<>>
    BY <1>4, <1>9 DEF Types, SocketsAgree, Sends
  <2>2. \A f \in Seeds : InOrder(c, f)'
    BY <2>1 DEF InOrder
  <2>3. ASSUME NEW f \in Seeds, Started(c, f) PROVE Started(c, f)'
    <3>1. f \in Matches /\ byId[c][f] \in Markets \cup {Absent}
      BY <1>5 DEF Matches, Boards
    <3>2. Precedes(byId[c][f], store'[f])
      BY <1>7, <2>3, <3>1 DEF Started
    <3> QED
      BY <2>1, <3>2 DEF Started, Precedes
  <2>4. Unstarted(c) => Unstarted(c)'
    BY <1>9 DEF Unstarted
  <2> QED
    BY <2>2, <2>3, <2>4 DEF Orderly
<1> QED
  BY <1>8, <1>9

\* A page that shows a message of a match shows what comes before all that follows it.
LEMMA OnMessageOrderly ==
  ASSUME Types, NEW c \in Clients, Orderly(c), OnMessage(c)
  PROVE  Orderly(c)'
<1> DEFINE n == Len(outbox[c])
           m == Len(outbox'[c])
<1>1. store' = store
  BY DEF OnMessage
<1>2. /\ n \in Nat \ {0} /\ m = n - 1 /\ \A i \in 1 .. m : outbox'[c][i] = outbox[c][i + 1]
      /\ \A f \in Matches : byId'[c][f] = IF About(outbox[c][1], f) THEN Says(outbox[c][1], f)
                                                                    ELSE byId[c][f]
  <2>1. outbox[c] \in Seq(Messages)
    BY DEF Types, IndexerTypes
  <2> QED
    BY <2>1, OnMessageShows
<1> HIDE DEF m, n
<1>3. ASSUME NEW f \in Seeds PROVE InOrder(c, f)' /\ Started(c, f)'
  <2>1. \A i \in 1 .. n : About(outbox[c][i], f) =>
          /\ Precedes(Says(outbox[c][i], f), store[f])
          /\ \A j \in i + 1 .. n : About(outbox[c][j], f) =>
               Precedes(Says(outbox[c][i], f), Says(outbox[c][j], f))
    BY DEF Orderly, InOrder, n
  <2>2. ASSUME NEW i \in 1 .. m, About(outbox'[c][i], f)
        PROVE  /\ Precedes(Says(outbox'[c][i], f), store[f])
               /\ \A j \in i + 1 .. m : About(outbox'[c][j], f) =>
                    Precedes(Says(outbox'[c][i], f), Says(outbox'[c][j], f))
    <3>1. i + 1 \in 1 .. n /\ outbox'[c][i] = outbox[c][i + 1]
      BY <1>2
    <3>2. ASSUME NEW j \in i + 1 .. m
          PROVE  j + 1 \in (i + 1) + 1 .. n /\ outbox'[c][j] = outbox[c][j + 1]
      BY <1>2
    <3> QED
      BY <2>1, <2>2, <3>1, <3>2
  <2>3. InOrder(c, f)'
    BY <1>1, <2>2 DEF InOrder, About, Says, Precedes, m
  <2>4. f \in Matches
    BY DEF Matches
  <2>5. CASE About(outbox[c][1], f)
    <3>1. byId'[c][f] = Says(outbox[c][1], f)
      BY <1>2, <2>4, <2>5
    <3>2. Precedes(byId'[c][f], store[f])
      BY <1>2, <2>1, <2>5, <3>1
    <3>3. ASSUME NEW i \in 1 .. m, About(outbox'[c][i], f)
          PROVE  Precedes(byId'[c][f], Says(outbox'[c][i], f))
      <4>1. i + 1 \in 1 + 1 .. n /\ outbox'[c][i] = outbox[c][i + 1] /\ 1 \in 1 .. n
        BY <1>2
      <4> QED
        BY <2>1, <2>5, <3>1, <3>3, <4>1
    <3> QED
      BY <1>1, <2>3, <3>2, <3>3 DEF Started, About, Says, Precedes, m
  <2>6. CASE ~About(outbox[c][1], f)
    <3>1. byId'[c][f] = byId[c][f]
      BY <1>2, <2>4, <2>6
    <3>2. Started(c, f)
      BY <1>2, <2>6 DEF Orderly, Unstarted, About, OnMessage, Types, SocketsAgree
    <3>3. ASSUME NEW i \in 1 .. m, About(outbox'[c][i], f)
          PROVE  Precedes(byId'[c][f], Says(outbox'[c][i], f))
      <4>1. i + 1 \in 1 .. n /\ outbox'[c][i] = outbox[c][i + 1]
        BY <1>2
      <4> QED
        BY <3>1, <3>2, <3>3, <4>1 DEF Started, n
    <3>4. Precedes(byId'[c][f], store[f])
      BY <3>1, <3>2 DEF Started
    <3> QED
      BY <1>1, <2>3, <3>3, <3>4 DEF Started, About, Says, Precedes, m
  <2> QED
    BY <2>5, <2>6
<1> QED
  BY <1>3 DEF Orderly

\* A new connection begins with the store as it is.
LEMMA AnswerOrderly ==
  ASSUME Types, NEW c \in Clients, Orderly(c), Answer(c)
  PROVE  Orderly(c)'
<1>1. store' = store /\ byId' = byId /\ Accept(c)
  BY DEF Answer, client
<1>2. Len(outbox'[c]) = 1 /\ outbox'[c][1] = Snapshot /\ outbox'[c] # <<>>
  <2>1. outbox'[c] = <<Snapshot>>
    BY <1>1, AcceptTypes
  <2> HIDE DEF Snapshot
  <2> QED
    BY <2>1
<1>3. \A i \in 1 .. Len(outbox'[c]) : i = 1 /\ \A j \in i + 1 .. Len(outbox'[c]) : FALSE
  BY <1>2
<1>4. ASSUME NEW f \in Seeds
      PROVE  Says(outbox'[c][1], f) = store[f] /\ Precedes(store[f], store[f])
  <2>1. f \in Matches /\ store[f] \in Markets \cup {Absent}
    BY DEF Matches, Types, IndexerTypes, Boards
  <2> QED
    BY <1>2, <2>1, PrecedesIsAnOrder DEF Snapshot, Says
<1>5. \A f \in Seeds : InOrder(c, f)'
  BY <1>1, <1>3, <1>4 DEF InOrder, About, Says, Precedes
<1>6. \A f \in Seeds : Started(c, f) => Started(c, f)'
  BY <1>1, <1>3, <1>4 DEF Started, About, Says, Precedes
<1>7. Unstarted(c) => Unstarted(c)'
  BY <1>1, <1>2 DEF Unstarted, Snapshot
<1> QED
  BY <1>5, <1>6, <1>7 DEF Orderly

LEMMA SameOrderly ==
  ASSUME NEW c \in Clients, Orderly(c), UNCHANGED <<store, byId[c], outbox[c], link[c]>>
  PROVE  Orderly(c)'
<1>1. ASSUME NEW f \in Seeds, InOrder(c, f) PROVE InOrder(c, f)'
  BY <1>1 DEF InOrder, About, Says, Precedes
<1>2. ASSUME NEW f \in Seeds, Started(c, f) PROVE Started(c, f)'
  BY <1>2 DEF Started, About, Says, Precedes
<1>3. Unstarted(c) => Unstarted(c)'
  BY DEF Unstarted
<1> QED
  BY <1>1, <1>2, <1>3 DEF Orderly

LEMMA ClosedOrderly ==
  ASSUME NEW c \in Clients, Orderly(c), UNCHANGED <<store, byId>>,
         outbox'[c] = <<>> \/ outbox'[c] = outbox[c],
         link'[c] # "open" \/ (link'[c] = link[c] /\ outbox'[c] = outbox[c])
  PROVE  Orderly(c)'
<1>1. CASE outbox'[c] = <<>>
  <2>1. \A f \in Seeds : InOrder(c, f)'
    BY <1>1 DEF InOrder
  <2>2. \A f \in Seeds : Started(c, f) => Started(c, f)'
    BY <1>1 DEF Started, Precedes
  <2> QED
    BY <2>1, <2>2 DEF Orderly, Unstarted
<1>2. CASE outbox'[c] = outbox[c]
  <2>1. CASE link'[c] # "open"
    <3>1. \A f \in Seeds : InOrder(c, f)'
      BY <1>2 DEF Orderly, InOrder, About, Says, Precedes
    <3>2. \A f \in Seeds : Started(c, f) => Started(c, f)'
      BY <1>2 DEF Started, About, Says, Precedes
    <3> QED
      BY <2>1, <3>1, <3>2 DEF Orderly, Unstarted
  <2> QED
    BY <1>2, <2>1, SameOrderly
<1> QED
  BY <1>1, <1>2

LEMMA MovesAlone ==
  ASSUME Types, NEW c \in Clients, NEW d \in Clients, c # d, Moves(c)
  PROVE  UNCHANGED <<store, byId[d], outbox[d], link[d]>>
BY DEF Moves, Answer, Accept, OnMessage, Break, OnClose, Unmount, client,
       Types, IndexerTypes, ClientTypes

LEMMA OrderlyKept ==
  ASSUME Types, ~hasCreds, Quiet, [Next]_vars, faults'["restarted"] = 0,
         NEW c \in Clients, Orderly(c)
  PROVE  Orderly(c)'
<1>1. CASE Puts /\ UNCHANGED <<hosted, client, faults, link>>
  <2>1. Simulate
    BY <1>1 DEF Puts, TakeFixtures, TakeScore, Quiet
  <2> QED
    BY <1>1, <2>1, SimulateOrderly DEF client
<1>2. ~Restart
  <2>1. Restart => faults'["restarted"] = faults["restarted"] + 1 /\ faults["restarted"] \in Nat
    BY FaultKinds, HappensCounts DEF Restart, Types, IndexerTypes
  <2> QED
    BY <2>1
<1>3. ASSUME NEW d \in Clients, Moves(d) PROVE Orderly(c)'
  <2>1. CASE d # c
    <3>1. UNCHANGED <<store, byId[c], outbox[c], link[c]>>
      BY <1>3, <2>1, MovesAlone
    <3> QED
      BY <3>1, SameOrderly
  <2>2. CASE Break(c) \/ OnClose(c) \/ Unmount(c)
    <3>1. UNCHANGED <<store, byId>> /\ link'[c] # "open"
          /\ (outbox'[c] = <<>> \/ outbox'[c] = outbox[c])
      BY <2>2 DEF Break, OnClose, Unmount, client, Types, IndexerTypes
    <3> QED
      BY <3>1, ClosedOrderly
  <2> QED
    BY <1>3, <2>1, <2>2, OnMessageOrderly, AnswerOrderly DEF Moves
<1>4. ASSUME NEW d \in Clients, NEW p \in Polls, TakeAnswer(d, p),
             UNCHANGED <<store, link, outbox>>
      PROVE  Orderly(c)'
  <2>1. byId'[c] = byId[c]
    BY <1>4, TakeAnswerShows DEF Quiet
  <2> QED
    BY <1>4, <2>1, SameOrderly
<1>5. CASE UNCHANGED Picture
  BY <1>5, SameOrderly DEF Picture
<1> QED
  BY <1>1, <1>2, <1>3, <1>4, <1>5, NextSteps

LEMMA SimulatingKept ==
  ASSUME Types, Simulating, [Next]_vars
  PROVE  Simulating'
<1> SUFFICES ASSUME ~hasCreds
             PROVE  Quiet' /\ (faults'["restarted"] = 0 => \A c \in Clients : Orderly(c)')
  BY CredsKept DEF Simulating
<1>1. Quiet /\ Quiet'
  BY QuietKept DEF Simulating
<1>2. ASSUME faults'["restarted"] = 0, NEW c \in Clients PROVE Orderly(c)'
  <2>1. faults["restarted"] = 0
    BY <1>2, FaultsGrow, FaultKinds
  <2> QED
    BY <1>1, <1>2, <2>1, OrderlyKept DEF Simulating
<1> QED
  BY <1>1, <1>2

-----------------------------------------------------------------------------
(****************************************************************************)
(* The invariant, and what follows from it                                  *)
(****************************************************************************)
LEMMA InitIInv ==
  ASSUME Init
  PROVE  IInv
<1>1. Types
  BY InitTypes
<1>2. Mirroring
  BY DEF Init, IndexerInit, Mirroring
<1>3. PagesAreNeverBlank
  BY ClientAssumption DEF Init, PagesAreNeverBlank
<1>4. Dials
  BY ClientAssumption, FaultKinds DEF Init, IndexerInit, Dials, Failed
<1>5. Simulating
  <2>1. Quiet
    BY IdleRuns, FreeIsSound DEF Init, IndexerInit, HostedInit, Quiet
  <2>2. \A c \in Clients : Orderly(c)
    BY DEF Init, IndexerInit, Orderly, InOrder, Unstarted
  <2> QED
    BY <2>1, <2>2 DEF Simulating
<1> QED
  BY <1>1, <1>2, <1>3, <1>4, <1>5 DEF IInv

LEMMA NextIInv ==
  ASSUME IInv, [Next]_vars
  PROVE  IInv'
BY NextTypes, MirroringKept, NeverBlankKept, DialsKept, SimulatingKept DEF IInv

LEMMA Invariance == Spec => []IInv
<1>1. Init => IInv
  BY InitIInv
<1>2. IInv /\ [Next]_vars => IInv'
  BY NextIInv
<1> QED
  BY <1>1, <1>2, PTL DEF Spec

\* The store, the sockets and the pages stay what the code takes them for: a score is only
\* asked of a market the store holds, and only an open socket has messages under way.
THEOREM TypeCorrect == Spec => []TypeOK
<1>1. ASSUME IInv PROVE TypeOK
  <2>1. IndexerTypes /\ ClientTypes /\ StoreHolds /\ SocketsAgree
    BY <1>1 DEF IInv, Types
  <2>2. \A s \in ScorePasses : scores[s].at \in {"idle", "next", "answered"}
    BY <2>1 DEF IndexerTypes, Runs
  <2> QED
    BY <2>1, <2>2 DEF TypeOK, IndexerTypes, ClientTypes, StoreHolds, SocketsAgree, Boards
<1> QED
  BY <1>1, Invariance, PTL

\* Nothing falls between the snapshot and the updates (server.ts, store.ts): what is under way
\* to a page ends with what the store holds.
THEOREM PagesMirrorStoreHolds == Spec => []PagesMirrorStore
<1>1. ASSUME IInv PROVE PagesMirrorStore
  <2> SUFFICES ASSUME NEW c \in Clients, NEW f \in Matches, link[c] = "open"
               PROVE  LET about == {i \in DOMAIN outbox[c] : About(outbox[c][i], f)} IN
                      store[f] = IF about = {} THEN byId[c][f]
                                 ELSE Says(outbox[c][Max(about)], f)
    BY DEF PagesMirrorStore
  <2> DEFINE about == {i \in DOMAIN outbox[c] : About(outbox[c][i], f)}
  <2>1. Mirrors(c, f)
    BY <1>1 DEF IInv, Mirroring
  <2>2. DOMAIN outbox[c] = 1 .. Len(outbox[c]) /\ Len(outbox[c]) \in Nat
    BY <1>1 DEF IInv, Types, IndexerTypes
  <2>3. CASE (\A i \in 1 .. Len(outbox[c]) : ~About(outbox[c][i], f)) /\ store[f] = byId[c][f]
    BY <2>2, <2>3
  <2>4. ASSUME NEW i \in 1 .. Len(outbox[c]),
               About(outbox[c][i], f), store[f] = Says(outbox[c][i], f),
               \A j \in i + 1 .. Len(outbox[c]) : ~About(outbox[c][j], f)
        PROVE  about # {} /\ Max(about) = i
    <3>1. i \in about /\ \A j \in about : j \in 1 .. Len(outbox[c]) /\ i >= j
      BY <2>2, <2>4
    <3> HIDE DEF about
    <3>2. \A x \in about : (\A y \in about : x >= y) => x = i
      BY <3>1
    <3> QED
      BY <3>1, <3>2 DEF Max
  <2> QED
    BY <2>1, <2>3, <2>4 DEF Mirrors
<1> QED
  BY <1>1, Invariance, PTL

\* No failure of TxODDS, of the function or of the cache empties a page that polls
\* (useLiveMarkets.ts).
THEOREM PagesAreNeverBlankHolds == Spec => []PagesAreNeverBlank
<1>1. IInv => PagesAreNeverBlank
  BY DEF IInv
<1> QED
  BY <1>1, Invariance, PTL

\* A page gives up on the indexer only when as many dials have come to nothing: the attempts are
\* counted from the last connection (onopen of useLiveMarkets.ts).
THEOREM GivesUpOnlyAfterRetriesHolds == Spec => []GivesUpOnlyAfterRetries
<1>1. ASSUME IInv PROVE GivesUpOnlyAfterRetries
  <2>1. Failed \in Nat
    BY <1>1, FaultKinds DEF IInv, Types, IndexerTypes, Failed
  <2> QED
    BY <1>1, <2>1, ClientAssumption DEF IInv, Dials, Failed, GivesUpOnlyAfterRetries
<1> QED
  BY <1>1, Invariance, PTL

\* Until the indexer is restarted no page ever shows a simulated match go back, or go on once
\* it has ended (mockSimulator.ts), however connections are lost and made again.
THEOREM SimulationOnlyAdvancesHolds == Spec => SimulationOnlyAdvances
<1> DEFINE Advances ==
      \A c \in Clients, f \in Seeds :
        ~hasCreds /\ faults'["restarted"] = 0 /\ byId[c] # Fallback =>
          /\ byId'[c][f].shown >= byId[c][f].shown
          /\ byId[c][f].status = "final" => byId'[c][f] = byId[c][f]
<1>1. ASSUME IInv, [Next]_vars PROVE Advances
  <2> SUFFICES ASSUME NEW c \in Clients, NEW f \in Seeds,
                      ~hasCreds, faults'["restarted"] = 0, byId[c] # Fallback
               PROVE  Precedes(byId[c][f], byId'[c][f])
    BY DEF Precedes
  <2>1. Types /\ Quiet /\ Started(c, f) /\ f \in Matches
    <3>1. faults["restarted"] = 0
      BY <1>1, FaultsGrow, FaultKinds DEF IInv
    <3> QED
      BY <1>1, <3>1 DEF IInv, Simulating, Orderly, Unstarted, Matches
  <2>2. CASE byId'[c] = byId[c]
    <3>1. byId[c][f] \in Markets \cup {Absent}
      BY <2>1 DEF Types, ClientTypes, Boards
    <3> QED
      BY <2>2, <3>1, PrecedesIsAnOrder
  <2>3. CASE OnMessage(c)
    <3>1. 1 \in 1 .. Len(outbox[c])
      <4>1. outbox[c] \in Seq(Messages) /\ outbox[c] # <<>>
        BY <2>1, <2>3 DEF OnMessage, Types, IndexerTypes
      <4> QED
        BY <4>1
    <3>2. byId'[c][f] = IF About(outbox[c][1], f) THEN Says(outbox[c][1], f) ELSE byId[c][f]
      BY <2>1, <2>3, OnMessageShows
    <3>3. About(outbox[c][1], f) => Precedes(byId[c][f], Says(outbox[c][1], f))
      BY <2>1, <3>1 DEF Started
    <3>4. byId[c][f] \in Markets \cup {Absent}
      BY <2>1 DEF Types, ClientTypes, Boards
    <3> QED
      BY <3>2, <3>3, <3>4, PrecedesIsAnOrder
  <2>4. ASSUME NEW d \in Clients, Moves(d) PROVE byId'[c] = byId[c] \/ OnMessage(c)
    BY <2>1, <2>4, MovesAlone DEF Moves, Answer, Break, OnClose, Unmount, client
  <2>5. ASSUME NEW d \in Clients, NEW p \in Polls, TakeAnswer(d, p) PROVE byId'[c] = byId[c]
    BY <2>1, <2>5, TakeAnswerShows DEF Quiet
  <2> QED
    BY <1>1, <2>1, <2>2, <2>3, <2>4, <2>5, NextSteps DEF Picture, client
<1>2. Spec => []IInv
  BY Invariance
<1>3. IInv /\ [Next]_vars => [Advances]_vars
  BY <1>1
<1>4. Spec => [][Advances]_vars
  BY <1>2, <1>3, PTL DEF Spec
<1> QED
  BY <1>4 DEF SimulationOnlyAdvances
=============================================================================
