-------------------------------- MODULE Indexer --------------------------------
(****************************************************************************)
(* The indexer: a store of live markets (store.ts), filled from TxODDS by   *)
(* passes that poll it (realFeed.ts) or by a simulation (mockSimulator.ts), *)
(* and broadcast over WebSockets (server.ts).                               *)
(*                                                                          *)
(* A handler of the Node process runs to its next await in one action.      *)
(* Passes are started by timers and overlap when TxODDS is slow.  The score *)
(* and the clock of a match are one number, how many of its events they     *)
(* reflect: nothing else of them matters here.                              *)
(****************************************************************************)
EXTENDS Integers, Sequences, FiniteSets, SequencesExt

CONSTANTS
  Fixtures,        \* the fixtures of TxODDS
  WorldCup,        \* those of the World Cup
  Seeds,           \* the matches of the simulation
  Clients,         \* the browsers that may be connected
  FixturePasses,   \* the runs of refreshFixtures, and
  ScorePasses,     \* of refreshScores, that may be under way at once
  Limit,           \* how many fixtures are shown
  FullTime,        \* the last minute of a simulated match
  MaxEvents,       \* bound of a match's score events
  MaxQueue,        \* by hasCreds, bound of the messages under way to a client
  MaxFaults        \* by hasCreds, bounds of the requests that fail, the dials that fail, the
                   \* open connections that break and the restarts of the indexer

Faults == {"failed", "refused", "broken", "restarted"}

ASSUME IndexerAssumption ==
  /\ IsFiniteSet(Fixtures \cup Seeds) /\ WorldCup \subseteq Fixtures
  /\ {Limit, FullTime, MaxEvents} \subseteq Nat
  /\ MaxQueue \in [BOOLEAN -> Nat]
  /\ MaxFaults \in [BOOLEAN -> [Faults -> Nat]]

Matches == Fixtures \cup Seeds

Absent   == [status |-> "absent", shown |-> 0]
Statuses == {"upcoming", "live", "final"}
Markets  == [status : Statuses, shown : Nat]

VARIABLES
  hasCreds,   \* whether there are credentials for TxODDS; without, the indexer simulates
  \* TxODDS
  phase,      \* each match is upcoming, live or final by its StartTime and the clock
  listed,     \* the fixtures of the snapshot
  events,     \* the number of score events of each match
  \* the indexer
  store,      \* MarketStore: the market of each fixture, or Absent
  liveIds,
  refresh,    \* the locals of each run of refreshFixtures
  scores,     \* the locals of each run of refreshScores
  link,       \* each client's connection: none, open or lost
  outbox,     \* the messages under way to each client
  faults      \* how often each bounded kind of fault has happened

txodds  == <<hasCreds, phase, listed, events>>
polling == <<liveIds, refresh, scores>>
sockets == <<link, outbox>>

Snapshot  == [type |-> "snapshot", markets |-> store]
Update(f) == [type |-> "update", fixture |-> f, market |-> store'[f]]

\* A fault of a kind that is bounded.
Happens(kind) ==
  faults[kind] < MaxFaults[hasCreds][kind] /\ faults' = [faults EXCEPT ![kind] = @ + 1]
Fails == Happens("failed")

(****************************************************************************)
(* store.ts and server.ts                                                   *)
(****************************************************************************)
\* "update" is emitted as the market is set, and broadcast to every open socket.  The fault:
\* the update of a market that the store does not hold yet is not emitted.
Broadcast(messages) ==
  /\ \A c \in Clients : link[c] = "open" => Len(outbox[c]) + Len(messages) <= MaxQueue[hasCreds]
  /\ outbox' = [c \in Clients |-> IF link[c] = "open" THEN outbox[c] \o messages ELSE outbox[c]]
PutFault(markets) ==
  /\ store' = [f \in Matches |-> IF f \in DOMAIN markets THEN markets[f] ELSE store[f]]
  /\ Broadcast(SetToSeq({Update(f) : f \in {g \in DOMAIN markets : store[g] # Absent}}))
Put(markets) ==
  /\ store' = [f \in Matches |-> IF f \in DOMAIN markets THEN markets[f] ELSE store[f]]
  /\ Broadcast(SetToSeq({Update(f) : f \in DOMAIN markets}))

\* The server takes a connection and sends the snapshot first.
Accept(c) ==
  /\ link' = [link EXCEPT ![c] = "open"]
  /\ outbox' = [outbox EXCEPT ![c] = <<Snapshot>>]

-----------------------------------------------------------------------------
Idle == [at |-> "idle", todo |-> {}, fixture |-> "none", reply |-> 0]

\* The simulation holds its matches from the start.
Seeded == [f \in Matches |-> IF hasCreds \/ f \notin Seeds
                            THEN Absent ELSE [status |-> "live", shown |-> 0]]

IndexerInit ==
  /\ hasCreds \in BOOLEAN
  /\ phase = [f \in Fixtures |-> "upcoming"] /\ listed = Fixtures
  /\ events = [f \in Fixtures |-> 0]
  /\ store = Seeded /\ liveIds = {}
  /\ refresh = [r \in FixturePasses |-> Idle] /\ scores = [s \in ScorePasses |-> Idle]
  /\ link = [c \in Clients |-> "none"] /\ outbox = [c \in Clients |-> <<>>]
  /\ faults = [kind \in Faults |-> 0]

(****************************************************************************)
(* realFeed.ts                                                              *)
(****************************************************************************)
toMarket(f) == [status |-> phase[f], shown |-> 0]

\* The World Cup fixtures of a list, or all of it without one, cut to the limit.
Chosen(list) ==
  LET wc == list \cap WorldCup
      of == IF wc = {} THEN list ELSE wc
  IN  {chosen \in SUBSET of : Cardinality(chosen) = IF Cardinality(of) < Limit
                                                    THEN Cardinality(of) ELSE Limit}

\* refreshFixtures: the list is answered, and applied some time later; a failed request is
\* only logged.
AskFixtures(r) ==
  /\ hasCreds /\ refresh[r].at = "idle"
  /\ \/ /\ refresh' = [refresh EXCEPT ![r] = [Idle EXCEPT !.at = "answered", !.todo = listed]]
        /\ UNCHANGED faults
     \/ Fails /\ UNCHANGED refresh
  /\ UNCHANGED <<txodds, store, liveIds, scores, sockets>>

\* The fault: only the matches that are new to the store are followed.
TakeFixturesFault(r) ==
  /\ refresh[r].at = "answered"
  /\ \E chosen \in Chosen(refresh[r].todo) :
       LET new == {g \in chosen : store[g] = Absent} IN
       /\ Put([f \in new |-> toMarket(f)])
       /\ liveIds' = {f \in new : phase[f] # "upcoming"}
  /\ refresh' = [refresh EXCEPT ![r] = Idle]
  /\ UNCHANGED <<txodds, scores, link, faults>>
TakeFixtures(r) ==
  /\ refresh[r].at = "answered"
  /\ \E chosen \in Chosen(refresh[r].todo) :
       /\ Put([f \in {g \in chosen : store[g] = Absent} |-> toMarket(f)])
       /\ liveIds' = {f \in chosen : phase[f] # "upcoming"}
  /\ refresh' = [refresh EXCEPT ![r] = Idle]
  /\ UNCHANGED <<txodds, scores, link, faults>>

\* refreshScores: one request after the other for the fixtures that were live as it began.
StartScores(s) ==
  /\ hasCreds /\ scores[s].at = "idle" /\ liveIds # {}
  /\ scores' = [scores EXCEPT ![s] = [Idle EXCEPT !.at = "next", !.todo = liveIds]]
  /\ UNCHANGED <<txodds, store, liveIds, refresh, sockets, faults>>

AskScore(s, f) ==
  LET rest == [scores[s] EXCEPT !.todo = @ \ {f}] IN
  /\ scores[s].at = "next"
  /\ \/ /\ scores' = [scores EXCEPT ![s] = [rest EXCEPT !.at = "answered", !.fixture = f,
                                                        !.reply = events[f]]]
        /\ UNCHANGED faults
     \/ Fails /\ scores' = [scores EXCEPT ![s] = rest]
  /\ UNCHANGED <<txodds, store, liveIds, refresh, sockets>>

\* The score is patched into the market as it is now.
TakeScore(s) ==
  LET f == scores[s].fixture IN
  /\ scores[s].at = "answered"
  /\ Put([g \in {f} |-> [store[f] EXCEPT !.shown = scores[s].reply]])
  /\ scores' = [scores EXCEPT ![s] = [Idle EXCEPT !.at = "next",
                                                    !.todo = scores[s].todo]]
  /\ UNCHANGED <<txodds, liveIds, refresh, link, faults>>

EndScores(s) ==
  /\ scores[s].at = "next" /\ scores[s].todo = {}
  /\ scores' = [scores EXCEPT ![s] = Idle]
  /\ UNCHANGED <<txodds, store, liveIds, refresh, sockets, faults>>

ScoreStep(s) ==
  \/ StartScores(s) \/ TakeScore(s) \/ EndScores(s)
  \/ \E f \in scores[s].todo : AskScore(s, f)

(****************************************************************************)
(* mockSimulator.ts                                                         *)
(****************************************************************************)
\* Every two seconds the clock of each live match may move on, and the match may end.  The
\* fault: the clock drifts, like the odds.
SimulatedFault(f) ==
  {[status |-> IF minute >= FullTime THEN "final" ELSE "live", shown |-> minute] :
     minute \in {store[f].shown - 1, store[f].shown, store[f].shown + 1} \cap 0 .. FullTime}
Simulated(f) ==
  {[status |-> IF minute >= FullTime THEN "final" ELSE "live", shown |-> minute] :
     minute \in {store[f].shown, store[f].shown + 1} \cap 0 .. FullTime}
Simulate ==
  LET playing == {f \in Matches : store[f] # Absent /\ store[f].status = "live"} IN
  /\ ~hasCreds /\ playing # {}
  /\ \E markets \in [playing -> UNION {Simulated(f) : f \in playing}] :
       /\ \A f \in playing : markets[f] \in Simulated(f)
       /\ Put(markets)
  /\ UNCHANGED <<txodds, polling, link, faults>>

(****************************************************************************)
(* Restarts, and TxODDS                                                     *)
(****************************************************************************)
\* The process ends and is started again: all it knew is gone, and every connection.
Restart ==
  /\ Happens("restarted")
  /\ store' = Seeded /\ liveIds' = {}
  /\ refresh' = [r \in FixturePasses |-> Idle] /\ scores' = [s \in ScorePasses |-> Idle]
  /\ link' = [c \in Clients |-> IF link[c] = "open" THEN "lost" ELSE link[c]]
  /\ outbox' = [c \in Clients |-> <<>>]
  /\ UNCHANGED txodds

Play(f) ==
  /\ hasCreds
  /\ \/ /\ phase[f] # "final"
        /\ phase' = [phase EXCEPT ![f] = IF @ = "upcoming" THEN "live" ELSE "final"]
        /\ UNCHANGED <<events, listed>>
     \/ /\ phase[f] # "upcoming" /\ events[f] < MaxEvents
        /\ events' = [events EXCEPT ![f] = @ + 1]
        /\ UNCHANGED <<phase, listed>>
     \/ /\ phase[f] = "final" /\ listed' = listed \ {f}
        /\ UNCHANGED <<phase, events>>
  /\ UNCHANGED <<hasCreds, store, polling, sockets, faults>>

IndexerNext ==
  \/ \E r \in FixturePasses : AskFixtures(r) \/ TakeFixtures(r)
  \/ \E s \in ScorePasses : ScoreStep(s)
  \/ Simulate \/ Restart
=============================================================================
