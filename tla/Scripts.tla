------------------------------- MODULE Scripts --------------------------------
(****************************************************************************)
(* The relayer's scripts that are run by hand, beside the market sync:      *)
(* `create-market` (scripts/createMarket.ts), `resolve`                     *)
(* (scripts/resolveMarket.ts), `prove-resolve` (scripts/proveResolve.ts)    *)
(* and `e2e-real` (scripts/e2eReal.ts).                                     *)
(*                                                                          *)
(* A script takes the place of a pass: it has the same locals and shares    *)
(* the sync's own steps where it calls the same functions.  Whatever        *)
(* throws ends it.                                                          *)
(****************************************************************************)
EXTENDS SyncRelayer

CONSTANTS
  Operators,     \* the places of passes in which scripts may run
  CLOSE_IN_MIN,  \* create-market: the ticks until betting closes, 90 minutes by default
  CLOSE_SOON     \* e2e-real: the 25 seconds until betting closes

ASSUME ScriptsAssumption == Operators \subseteq Passes /\ CLOSE_IN_MIN \in Nat /\ CLOSE_SOON \in Nat

Goes(p, place, local) == pass' = [pass EXCEPT ![p] = [local EXCEPT !.at = place]]

\* The script throws, or ends with exit code 1.
Exit(p) == Goes(p, "idle", [pass[p] EXCEPT !.fixture = NoFixture, !.seq = 0])

RunScript(p, script, f) ==
  LET begun == [AtRest EXCEPT !.started = now, !.script = script, !.about = f] IN
  /\ pass[p].at = "idle" /\ pass[p].started # now
  /\ \/ /\ script = "create"
        /\ Goes(p, "creating",
                [begun EXCEPT !.fixture = f, !.tx = CreateTx(f, now + CLOSE_IN_MIN)])
     \/ script = "resolve" /\ Goes(p, "validating", begun)
     \/ script \in {"prove", "e2e"} /\ Goes(p, "checking", begun)
  /\ UNCHANGED <<chain, txodds, now, watch, failures>>

\* resolveMarket1X2: whatever proof it is given, or none, it ends with an error.  Its accounts
\* lack fee_destination, which `resolve` demands and the client cannot derive, so the client
\* throws before it sends anything.
ResolveMarket1X2(p) ==
  /\ pass[p].at = "validating"
  /\ Exit(p)
  /\ UNCHANGED <<chain, txodds, now, watch, failures>>

\* fetchNullable of the market.  To prove a resolution it must be there; e2e-real creates it.
CheckExists(p) ==
  LET f      == pass[p].about
      exists == market[f].status # "NotCreated"
      local  == [pass[p] EXCEPT !.fixture = f]
  IN
  /\ pass[p].at = "checking"
  /\ \/ /\ \/ pass[p].script = "prove" /\ exists /\ Goes(p, "sequencing", local)
           \/ pass[p].script = "prove" /\ ~exists /\ Exit(p)
           \/ pass[p].script = "e2e" /\ exists /\ Goes(p, "waiting", local)
           \/ /\ pass[p].script = "e2e" /\ ~exists
              /\ Goes(p, "creating", [local EXCEPT !.tx = CreateTx(f, now + CLOSE_SOON)])
        /\ UNCHANGED failures
     \/ Fails /\ Exit(p)
  /\ UNCHANGED <<chain, txodds, now, watch>>

\* The two bets on the market that e2e-real has created; their stakes are Pitchmarket's.
PlaceBets(p) ==
  LET f     == pass[p].about
      taken == market[f].status = "Open" /\ now < market[f].close
  IN
  /\ pass[p].at = "next" /\ pass[p].script = "e2e" /\ pass[p].created = {f}
  /\ pass[p].resolved = {} /\ pass[p].errors = {}
  /\ \/ taken /\ Goes(p, "waiting", [pass[p] EXCEPT !.fixture = f]) /\ UNCHANGED failures
     \/ ~taken /\ Exit(p) /\ UNCHANGED failures
     \/ Fails /\ Exit(p)
  /\ UNCHANGED <<chain, txodds, now, watch>>

\* The loop until the second after the close, and the proof of the event that the operator
\* named, or the error for want of it.
WaitForClose(p) ==
  LET f == pass[p].about IN
  /\ pass[p].at = "waiting" /\ now > market[f].close
  /\ \/ \E seq \in 1 .. Len(feed[f]) : Goes(p, "status", [pass[p] EXCEPT !.seq = seq])
        /\ UNCHANGED failures
     \/ Len(feed[f]) < MaxEvents /\ Exit(p) /\ UNCHANGED failures
     \/ Fails /\ Exit(p)
  /\ UNCHANGED <<chain, txodds, now, watch>>

\* e2e-real resolves a market that is open, and only looks at one that is not.
CheckOpen(p) ==
  LET open == market[pass[p].about].status = "Open" IN
  /\ pass[p].at = "status"
  /\ \/ Goes(p, IF open THEN "proving" ELSE "reading back", pass[p]) /\ UNCHANGED failures
     \/ Fails /\ Exit(p)
  /\ UNCHANGED <<chain, txodds, now, watch>>

\* The status and the winner that the script prints.  What e2e-real then claims is
\* Pitchmarket's.
ReadBack(p) ==
  LET f == pass[p].about IN
  /\ \/ pass[p].at = "reading back"
     \/ pass[p].at = "next" /\ pass[p].script \in {"prove", "e2e"} /\ pass[p].resolved = {f}
  /\ \/ /\ Goes(p, "idle", [pass[p] EXCEPT !.fixture = NoFixture, !.seq = 0,
                                 !.told = [status |-> market[f].status,
                                 winner |-> market[f].winner]])
        /\ UNCHANGED failures
     \/ Fails /\ Exit(p)
  /\ UNCHANGED <<chain, txodds, now, watch>>

\* create-market is done; or a step that is shared with the sync has thrown, or found no seq.
End(p) ==
  /\ pass[p].at = "next"
  /\ \/ pass[p].script = "create" \/ pass[p].errors # {}
     \/ pass[p].script = "prove" /\ pass[p].resolved = {}
  /\ Goes(p, "idle", [pass[p] EXCEPT !.errors = {}])
  /\ UNCHANGED <<chain, txodds, now, watch, failures>>

ScriptStep(p) ==
  \/ ResolveMarket1X2(p) \/ CheckExists(p) \/ PlaceBets(p)
  \/ WaitForClose(p) \/ CheckOpen(p) \/ ReadBack(p) \/ End(p)
  \/ LatestSeq(p) \/ FetchProof(p)                      \* latestSeq, resolveMarketReal
  \/ Confirmed(p) \/ Refused(p) \/ TimedOut(p)

IsScript(p) == pass[p].script # "sync"

ScriptNext ==
  \/ \E p \in Operators, f \in Fixtures, script \in {"create", "resolve", "prove", "e2e"} :
       RunScript(p, script, f)
  \/ \E p \in Passes : \/ StartWatch(p) \/ Begin(p)
                       \/ ~IsScript(p) /\ PassStep(p)
                       \/ IsScript(p) /\ ScriptStep(p)
  \/ \E tx \in orphans : LandLate(tx)
  \/ \E f \in Fixtures : \/ Others(f) \/ Move(f)
                         \/ \E event \in Events : Publish(f, event)
  \/ Tick

ScriptSpec == Init /\ [][ScriptNext]_vars
=============================================================================
