------------------------------ MODULE HostedFeed -------------------------------
(****************************************************************************)
(* The feed of the hosted site, which has no indexer: the function of       *)
(* api/markets.ts asks TxODDS whenever it is called, and a cache stands in  *)
(* front of it.  A page's call of it is followed from the request to the    *)
(* answer; calls overlap.                                                   *)
(****************************************************************************)
EXTENDS Indexer

CONSTANTS Polls    \* the calls that one page may have under way at once

VARIABLES
  cache,      \* the answer the cache holds, if it holds one
  calls       \* each page's calls, with the locals of the function that answers them

hosting == <<cache, calls>>

None    == [f \in Matches |-> Absent]
Nothing == [markets |-> None, live |-> FALSE]
Free    == [at |-> "free", todo |-> {}, answer |-> Nothing]

HostedInit ==
  /\ cache = {}
  /\ calls = [c \in Clients |-> [p \in Polls |-> Free]]

Step(c, p, call) == calls' = [calls EXCEPT ![c][p] = call]

\* The cache answers, fresh or stale.
Serve(c, p) ==
  /\ calls[c][p].at = "asked"
  /\ \E answer \in cache : Step(c, p, [Free EXCEPT !.at = "answered", !.answer = answer])
  /\ UNCHANGED <<cache, faults>>

\* An answer is served for a minute and no longer.
Expire ==
  /\ cache' = {}
  /\ UNCHANGED <<calls, faults>>

\* The function is called, because the cache holds nothing fresh, and is answered the list.
\* Without credentials, or without a list, it answers nothing.
Invoke(c, p) ==
  /\ calls[c][p].at = "asked"
  /\ \/ /\ hasCreds
        /\ \E chosen \in Chosen(listed) :
             Step(c, p, [at |-> "running", todo |-> {f \in chosen : phase[f] # "upcoming"},
                         answer |-> [markets |-> [f \in Matches |->
                                       IF f \in chosen THEN toMarket(f) ELSE Absent],
                                     live |-> TRUE]])
        /\ UNCHANGED faults
     \/ /\ hasCreds => Fails
        /\ ~hasCreds => UNCHANGED faults
        /\ Step(c, p, [Free EXCEPT !.at = "running"])
  /\ UNCHANGED cache

\* The score of a match that has started; one that cannot be had is left at the start.
Enrich(c, p, f) ==
  LET call == [calls[c][p] EXCEPT !.todo = @ \ {f}] IN
  /\ calls[c][p].at = "running" /\ f \in calls[c][p].todo
  /\ \/ Step(c, p, [call EXCEPT !.answer.markets[f].shown = events[f]]) /\ UNCHANGED faults
     \/ Step(c, p, call) /\ Fails
  /\ UNCHANGED cache

\* The answer is cached, be it an error: its status is 200 too.
Respond(c, p) ==
  /\ calls[c][p].at = "running" /\ calls[c][p].todo = {}
  /\ Step(c, p, [calls[c][p] EXCEPT !.at = "answered"])
  /\ cache' = {calls[c][p].answer}
  /\ UNCHANGED faults

HostedStep(c, p) ==
  \/ Serve(c, p) \/ Invoke(c, p) \/ Respond(c, p)
  \/ \E f \in Fixtures : Enrich(c, p, f)
=============================================================================
