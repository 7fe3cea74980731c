------------------------------- MODULE LiveClient ------------------------------
(****************************************************************************)
(* The pages that show live markets: useLiveMarkets.ts, over the WebSocket  *)
(* of the indexer with its retries, or polling the hosted feed where there  *)
(* is no indexer, composed with either and with TxODDS.                     *)
(****************************************************************************)
EXTENDS HostedFeed, FiniteSetsExt

CONSTANTS
  MAX_RETRIES,
  Sites,           \* how the app may be deployed: "local" with the indexer, or "hosted"
  Fallback         \* the demo markets that the page starts with

ASSUME ClientAssumption ==
  /\ MAX_RETRIES \in Nat /\ Sites \subseteq {"local", "hosted"}
  /\ Fallback \in [Matches -> Markets \cup {Absent}] /\ Fallback # None

VARIABLES
  site,       \* resolveWsUrl: whether there is an indexer to dial
  hook,       \* waiting to dial, dialing, open or gaveUp; polling; or unmounted
  attempts,
  byId,       \* the markets on the page
  live

client  == <<hook, attempts, byId, live>>
hosted  == <<site, hosting>>
indexer == <<txodds, store, polling, sockets, faults>>
vars    == <<indexer, hosted, client>>

Init ==
  /\ IndexerInit /\ HostedInit
  /\ site \in Sites
  /\ hook = [c \in Clients |-> IF site = "local" THEN "waiting" ELSE "polling"]
  /\ attempts = [c \in Clients |-> 0]
  /\ byId = [c \in Clients |-> Fallback] /\ live = [c \in Clients |-> FALSE]

\* connect, on mount and on every retry.
Connect(c) ==
  /\ hook[c] = "waiting"
  /\ \/ /\ attempts[c] >= MAX_RETRIES
        /\ hook' = [hook EXCEPT ![c] = "gaveUp"] /\ UNCHANGED attempts
     \/ /\ attempts[c] < MAX_RETRIES
        /\ hook' = [hook EXCEPT ![c] = "dialing"]
        /\ attempts' = [attempts EXCEPT ![c] = @ + 1]
  /\ UNCHANGED <<indexer, byId, live, hosted>>

\* The indexer answers the dial, and has sent the snapshot before the browser knows.
Answer(c) ==
  /\ hook[c] = "dialing" /\ link[c] = "none"
  /\ Accept(c)
  /\ UNCHANGED <<txodds, store, polling, faults, client, hosted>>

\* The fault: the attempts are counted over the life of the page.
OnOpenFault(c) ==
  /\ hook[c] = "dialing" /\ link[c] = "open"
  /\ hook' = [hook EXCEPT ![c] = "open"] /\ live' = [live EXCEPT ![c] = TRUE]
  /\ UNCHANGED <<indexer, byId, attempts, hosted>>
OnOpen(c) ==
  /\ hook[c] = "dialing" /\ link[c] = "open"
  /\ hook' = [hook EXCEPT ![c] = "open"] /\ live' = [live EXCEPT ![c] = TRUE]
  /\ attempts' = [attempts EXCEPT ![c] = 0]
  /\ UNCHANGED <<indexer, byId, hosted>>

\* The fault: a snapshot only adds what the page does not have.
ShowFault(c, message) ==
  IF message.type = "snapshot"
  THEN [f \in Matches |-> IF byId[c][f] = Absent THEN message.markets[f] ELSE byId[c][f]]
  ELSE [byId[c] EXCEPT ![message.fixture] = message.market]
Show(c, message) ==
  IF message.type = "snapshot"
  THEN message.markets
  ELSE [byId[c] EXCEPT ![message.fixture] = message.market]

OnMessage(c) ==
  /\ hook[c] = "open" /\ outbox[c] # <<>>
  /\ byId' = [byId EXCEPT ![c] = Show(c, Head(outbox[c]))]
  /\ outbox' = [outbox EXCEPT ![c] = Tail(@)]
  /\ UNCHANGED <<txodds, store, polling, link, faults, hook, attempts, live, hosted>>

\* The connection breaks, with all that is under way: once it is open, or while the browser
\* still dials.
Break(c) ==
  /\ link[c] = "open"
  /\ \/ hook[c] = "open" /\ Happens("broken")
     \/ hook[c] = "dialing" /\ Happens("refused")
  /\ link' = [link EXCEPT ![c] = "lost"] /\ outbox' = [outbox EXCEPT ![c] = <<>>]
  /\ UNCHANGED <<txodds, store, polling, client, hosted>>

\* The dial fails, or a connection that is lost is noticed; the next dial is in two seconds.
OnClose(c) ==
  /\ \/ hook[c] \in {"dialing", "open"} /\ link[c] = "lost" /\ UNCHANGED faults
     \/ hook[c] = "dialing" /\ link[c] = "none" /\ Happens("refused")
  /\ link' = [link EXCEPT ![c] = "none"]
  /\ hook' = [hook EXCEPT ![c] = "waiting"] /\ live' = [live EXCEPT ![c] = FALSE]
  /\ UNCHANGED <<txodds, store, polling, outbox, attempts, byId, hosted>>

\* The page is left: the timer is cleared and the socket is closed.  The fault: it is not.
UnmountFault(c) ==
  /\ hook[c] # "unmounted"
  /\ hook' = [hook EXCEPT ![c] = "unmounted"] /\ live' = [live EXCEPT ![c] = FALSE]
  /\ UNCHANGED <<txodds, store, polling, link, outbox, faults, attempts, byId, hosted>>
Unmount(c) ==
  /\ hook[c] # "unmounted"
  /\ hook' = [hook EXCEPT ![c] = "unmounted"] /\ live' = [live EXCEPT ![c] = FALSE]
  /\ link' = [link EXCEPT ![c] = "none"] /\ outbox' = [outbox EXCEPT ![c] = <<>>]
  /\ UNCHANGED <<txodds, store, polling, faults, attempts, byId, hosted>>

(****************************************************************************)
(* Without an indexer, the page polls.                                      *)
(****************************************************************************)
\* On mount and every fifteen seconds, whether or not the last call is answered.
Poll(c, p) ==
  /\ hook[c] = "polling" /\ calls[c][p].at = "free"
  /\ Step(c, p, [Free EXCEPT !.at = "asked"])
  /\ UNCHANGED <<indexer, site, cache, client>>

\* The call fails on its way, or has an answer: one without markets changes nothing.
FailPoll(c, p) ==
  /\ calls[c][p].at = "asked" /\ Fails
  /\ Step(c, p, Free)
  /\ UNCHANGED <<txodds, store, polling, sockets, site, cache, client>>

\* The fault: an answer without markets is shown as such.
TakeAnswerFault(c, p) ==
  LET answer == calls[c][p].answer IN
  /\ calls[c][p].at = "answered"
  /\ Step(c, p, Free)
  /\ IF hook[c] = "polling"
     THEN /\ byId' = [byId EXCEPT ![c] = answer.markets]
          /\ live' = [live EXCEPT ![c] = answer.live]
     ELSE UNCHANGED <<byId, live>>
  /\ UNCHANGED <<indexer, site, cache, hook, attempts>>
TakeAnswer(c, p) ==
  LET answer == calls[c][p].answer IN
  /\ calls[c][p].at = "answered"
  /\ Step(c, p, Free)
  /\ IF hook[c] = "polling" /\ answer.markets # None
     THEN /\ byId' = [byId EXCEPT ![c] = answer.markets]
          /\ live' = [live EXCEPT ![c] = answer.live]
     ELSE UNCHANGED <<byId, live>>
  /\ UNCHANGED <<indexer, site, cache, hook, attempts>>

ClientStep(c) == Connect(c) \/ Answer(c) \/ OnOpen(c) \/ OnMessage(c) \/ OnClose(c)

PollStep(c, p) ==
  \/ Poll(c, p) \/ TakeAnswer(c, p)
  \/ HostedStep(c, p) /\ UNCHANGED <<txodds, store, polling, sockets, site, client>>

Next ==
  \/ site = "local" /\ IndexerNext /\ UNCHANGED <<hosted, client>>
  \/ \E f \in Fixtures : Play(f) /\ UNCHANGED <<hosted, client>>
  \/ \E c \in Clients : ClientStep(c) \/ Break(c) \/ Unmount(c)
  \/ \E c \in Clients, p \in Polls : PollStep(c, p) \/ FailPoll(c, p)
  \/ cache # {} /\ Expire /\ UNCHANGED <<txodds, store, polling, sockets, site, client>>

Spec == Init /\ [][Next]_vars

\* Timers fire, TxODDS answers, and the network delivers what it does not lose; a dial is
\* answered in the end.  A simulated clock moves on in half of the ticks, so it does not stand
\* still forever, and no cache keeps an answer.  Nobody has to play, to break anything or to leave.
Here(A) == site = "local" /\ A /\ UNCHANGED <<hosted, client>>
Fairness ==
  /\ \A r \in FixturePasses : WF_vars(Here(AskFixtures(r) \/ TakeFixtures(r)))
  /\ \A s \in ScorePasses : WF_vars(Here(ScoreStep(s)))
  /\ \A f \in Seeds : SF_vars(Here(Simulate /\ store'[f].shown > store[f].shown))
  /\ \A c \in Clients : WF_vars(ClientStep(c)) /\ \A p \in Polls : WF_vars(PollStep(c, p))
  /\ WF_vars(Expire /\ UNCHANGED <<txodds, store, polling, sockets, site, client>>)

FairSpec == Spec /\ Fairness

-----------------------------------------------------------------------------
(****************************************************************************)
(* Properties                                                               *)
(****************************************************************************)
Messages ==
  [type : {"snapshot"}, markets : [Matches -> Markets \cup {Absent}]]
    \cup [type : {"update"}, fixture : Matches, market : Markets]

\* The store, the sockets and the pages.  A score is only ever asked of a fixture the store
\* holds, and only an open socket has messages under way.
TypeOK ==
  /\ store \in [Matches -> Markets \cup {Absent}]
  /\ \A f \in liveIds : store[f] # Absent
  /\ \A s \in ScorePasses : /\ scores[s].at \in {"idle", "next", "answered"}
                            /\ \A f \in scores[s].todo : store[f] # Absent
  /\ link \in [Clients -> {"none", "open", "lost"}]
  /\ \A c \in Clients : /\ outbox[c] \in Seq(Messages)
                        /\ link[c] # "open" => outbox[c] = <<>>
                        /\ link[c] # "none" => hook[c] \in {"dialing", "open"}
  /\ attempts \in [Clients -> 0 .. MAX_RETRIES]
  /\ byId \in [Clients -> [Matches -> Markets \cup {Absent}]]
  /\ live \in [Clients -> BOOLEAN]
  /\ \A c \in Clients : hook[c] # "polling" => live[c] = (hook[c] = "open")

\* What the page will show of a fixture once all that is under way has arrived is what the
\* store holds: nothing falls between the snapshot and the updates, whatever passes,
\* restarts and connections interleave, and nothing of the demo data survives.
About(message, f) == message.type = "snapshot" \/ message.fixture = f
Says(message, f)  == IF message.type = "snapshot" THEN message.markets[f] ELSE message.market
PagesMirrorStore ==
  \A c \in Clients, f \in Matches :
    LET about == {i \in DOMAIN outbox[c] : About(outbox[c][i], f)} IN
    link[c] = "open" =>
      store[f] = IF about = {} THEN byId[c][f] ELSE Says(outbox[c][Max(about)], f)

\* The score of a match that has started comes to every page that stays open, and stays: old
\* answers that overtake newer ones, failed requests, restarts and lost connections are made
\* good.  It is owed only for a fixture that TxODDS lists and that is surely among the first
\* six, and only to a page that has not used up its retries: one that has is never told again
\* (useLiveMarkets.ts:71), while it stays open with the score it had.
Followed(f) == \A chosen \in Chosen(listed) : f \in chosen
PagesShowTheScore ==
  <>[](\A c \in Clients, f \in Fixtures :
         \/ hook[c] \in {"unmounted", "gaveUp"} \/ phase[f] = "upcoming" \/ ~Followed(f)
         \/ byId[c][f] # Absent /\ byId[c][f].shown = events[f])

\* No failure of TxODDS, of the function or of the cache empties a page that polls.
PagesAreNeverBlank ==
  \A c \in Clients : hook[c] = "polling" => byId[c] # None

\* Until the indexer is restarted a simulated match never goes back, on any page, once the page
\* has left the demo data; nor does one that has ended go on.
SimulationOnlyAdvances ==
  [][\A c \in Clients, f \in Seeds :
       ~hasCreds /\ faults'["restarted"] = 0 /\ byId[c] # Fallback =>
         /\ byId'[c][f].shown >= byId[c][f].shown
         /\ byId[c][f].status = "final" => byId'[c][f] = byId[c][f]]_vars

\* Every simulated match is over, in the end, on every page that stays open and has not
\* given up.
SimulationEnds ==
  <>[](\A c \in Clients, f \in Seeds :
         \/ hasCreds \/ hook[c] \in {"unmounted", "gaveUp", "polling"}
         \/ byId[c][f] = [status |-> "final", shown |-> FullTime])

\* A page gives up on the indexer only when that many dials have come to nothing: losing
\* open connections, however often, never adds up to it.
GivesUpOnlyAfterRetries ==
  \A c \in Clients :
    hook[c] = "gaveUp" => faults["refused"] + faults["restarted"] >= MAX_RETRIES
=============================================================================
