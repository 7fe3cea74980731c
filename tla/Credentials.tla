------------------------------ MODULE Credentials ------------------------------
(****************************************************************************)
(* How the relayer obtains its TxODDS credentials (txoddsAuth.ts), keeps    *)
(* them in relayer/.env (scripts/subscribe.ts), and how the relayer and the *)
(* indexer come to use them (txoddsData.ts of each).                        *)
(*                                                                          *)
(* Each run of the script is a process that is started by hand, that may be *)
(* killed between any two steps, and that may overlap another run.  Readers *)
(* look at the files once, as they start; what they would find is a         *)
(* function of the state.                                                   *)
(****************************************************************************)
EXTENDS Integers, FiniteSets

CONSTANTS
  Runs,        \* the runs of `pnpm subscribe`, numbers from 1
  MaxFailures, \* bound of the failing requests, and of answers and confirmations that are lost
  MaxKills     \* bound of the runs that are killed

ASSUME RunsAssumption ==
  /\ Runs \subseteq Nat \ {0} /\ IsFiniteSet(Runs)
  /\ MaxFailures \in Nat /\ MaxKills \in Nat

\* A variable of an env file: not there, there without a value, or the JWT or the token of
\* a run.  Run 0 is one of an earlier day.
Unset == -2
Empty == -1

Env(others, jwt, apiKey) == [others |-> others, TXODDS_JWT |-> jwt, TXODDS_API_KEY |-> apiKey]
NoFile == Env(FALSE, Unset, Unset)

\* What may be there before, and in the indexer's own directory: a file with either variable,
\* both or none, such as a copy of .env.example with its TXODDS_API_KEY empty or filled in.
EarlierFiles == {Env(others, jwt, apiKey) : others \in BOOLEAN, jwt, apiKey \in {Unset, Empty, 0}}

VARIABLES
  at,             \* where each run is
  createsAccount, \* the local preIx of each run: create the account for the TxL token
  kept,           \* the local withoutOld of each run: whether it holds the other settings
  account,        \* on the chain: the admin's account for the TxL token exists
  subscriptions,  \* on the chain: the runs whose subscription has landed
  issued,         \* TxODDS: the tokens that it has activated, with the JWT that each is bound to
  relayerEnv,     \* relayer/.env
  failures, kills

vars == <<at, createsAccount, kept, account, subscriptions, issued, relayerEnv,
          failures, kills>>
locals == <<createsAccount, kept>>
chain  == <<account, subscriptions>>

Init ==
  /\ at = [r \in Runs |-> "ready"]
  /\ createsAccount = [r \in Runs |-> FALSE] /\ kept = [r \in Runs |-> FALSE]
  /\ account \in BOOLEAN /\ subscriptions = {}
  /\ issued = {[jwt |-> 0, apiToken |-> 0]}
  /\ relayerEnv \in EarlierFiles
  /\ failures = 0 /\ kills = 0

Fails == failures < MaxFailures /\ failures' = failures + 1
Goes(r, place) == at' = [at EXCEPT ![r] = place]
\* The answer comes, or it is lost and the script ends.
Answered(r, place) == \/ Goes(r, place) /\ UNCHANGED failures
                      \/ Goes(r, "failed") /\ Fails

-----------------------------------------------------------------------------
(****************************************************************************)
(* A run of the script.  What throws ends it.                               *)
(****************************************************************************)
GuestJwt(r) ==
  /\ at[r] = "ready"
  /\ Answered(r, "account")
  /\ UNCHANGED <<locals, chain, issued, relayerEnv, kills>>

\* getAccount: any error, that of a failing request too, means that there is no account.
\* The fault: the account is created every time.
LookUpAccountFault(r) ==
  /\ at[r] = "account"
  /\ createsAccount' = [createsAccount EXCEPT ![r] = TRUE] /\ UNCHANGED failures
  /\ Goes(r, "subscribing")
  /\ UNCHANGED <<kept, chain, issued, relayerEnv, kills>>
LookUpAccount(r) ==
  /\ at[r] = "account"
  /\ \/ createsAccount' = [createsAccount EXCEPT ![r] = ~account] /\ UNCHANGED failures
     \/ createsAccount' = [createsAccount EXCEPT ![r] = TRUE] /\ Fails
  /\ Goes(r, "subscribing")
  /\ UNCHANGED <<kept, chain, issued, relayerEnv, kills>>

\* An account that is there cannot be created: the whole transaction is refused.  Or it
\* lands and the script is told; or the script has given up, and it may land yet.
Lands(r) ==
  /\ ~(createsAccount[r] /\ account)
  /\ account' = TRUE /\ subscriptions' = subscriptions \cup {r}
Subscribe(r) ==
  /\ at[r] = "subscribing"
  /\ \/ Lands(r) /\ Goes(r, "activating") /\ UNCHANGED failures
     \/ createsAccount[r] /\ account /\ Goes(r, "failed") /\ UNCHANGED <<chain, failures>>
     \/ Goes(r, "unconfirmed") /\ Fails /\ UNCHANGED chain
  /\ UNCHANGED <<locals, issued, relayerEnv, kills>>

\* The transaction of a script that has ended lands late, or it expires.
LandLate(r) ==
  /\ at[r] = "unconfirmed"
  /\ Lands(r) \/ UNCHANGED chain
  /\ Goes(r, "failed")
  /\ UNCHANGED <<locals, issued, relayerEnv, failures, kills>>

\* The signature binds the transaction of this run to the JWT of this run.
Activate(r) ==
  /\ at[r] = "activating"
  /\ \/ /\ r \in subscriptions
        /\ issued' = issued \cup {[jwt |-> r, apiToken |-> r]}
        /\ Answered(r, "reading")
     \/ Goes(r, "failed") /\ Fails /\ UNCHANGED issued
  /\ UNCHANGED <<locals, chain, relayerEnv, kills>>

\* The lines that are not credentials.
ReadOthers(r) ==
  /\ at[r] = "reading"
  /\ kept' = [kept EXCEPT ![r] = relayerEnv.others]
  /\ Goes(r, "writing")
  /\ UNCHANGED <<createsAccount, chain, issued, relayerEnv, failures, kills>>

\* writeFileSync empties the file first.
Truncate(r) ==
  /\ at[r] = "writing"
  /\ relayerEnv' = NoFile
  /\ Goes(r, "truncated")
  /\ UNCHANGED <<locals, chain, issued, failures, kills>>

\* Then it writes from the start of the file, and over what another run has put there
\* meanwhile: nothing if it has nothing to write, or the same settings once more; else over
\* the line of the JWT, at least.
WriteOthers(r) ==
  /\ at[r] = "truncated"
  /\ IF ~kept[r] \/ relayerEnv.others
     THEN UNCHANGED relayerEnv
     ELSE \E apiKey \in {Unset, relayerEnv.TXODDS_API_KEY} : relayerEnv' = Env(TRUE, Unset, apiKey)
  /\ Goes(r, "appending")
  /\ UNCHANGED <<locals, chain, issued, failures, kills>>

\* appendFileSync: both lines at once.  Of two lines for one variable the last one counts.
\* The fault: one write for each line.
AppendFault(r) ==
  /\ \/ /\ at[r] = "appending" /\ Goes(r, "second line")
        /\ relayerEnv' = [relayerEnv EXCEPT !.TXODDS_JWT = r]
     \/ /\ at[r] = "second line" /\ Goes(r, "done")
        /\ relayerEnv' = [relayerEnv EXCEPT !.TXODDS_API_KEY = r]
  /\ UNCHANGED <<locals, chain, issued, failures, kills>>

\* The fault: the script does not wait for its last write.
AppendLateFault(r) ==
  /\ \/ at[r] = "appending" /\ Goes(r, "done") /\ UNCHANGED relayerEnv
     \/ /\ at[r] = "done" /\ UNCHANGED at
        /\ relayerEnv' = Env(relayerEnv.others, r, r)
  /\ UNCHANGED <<locals, chain, issued, failures, kills>>
Append(r) ==
  /\ at[r] = "appending"
  /\ relayerEnv' = Env(relayerEnv.others, r, r)
  /\ Goes(r, "done")
  /\ UNCHANGED <<locals, chain, issued, failures, kills>>

RunStep(r) ==
  \/ LookUpAccount(r) \/ Subscribe(r) \/ Activate(r)
  \/ ReadOthers(r) \/ Truncate(r) \/ WriteOthers(r) \/ Append(r)

\* A run is killed: its transaction may be on its way, or its file half written.
Kill(r) ==
  /\ kills < MaxKills /\ kills' = kills + 1
  /\ \/ at[r] \in {"account", "subscribing", "activating", "reading", "writing"} /\ Goes(r, "killed")
     \/ at[r] = "subscribing" /\ Goes(r, "unconfirmed")
     \/ at[r] \in {"truncated", "appending"} /\ Goes(r, "killed while saving")
  /\ UNCHANGED <<locals, chain, issued, relayerEnv, failures>>

(****************************************************************************)
(* The readers                                                              *)
(****************************************************************************)
\* dotenv does not replace a variable that is set already, if only to the empty string.  The
\* indexer loads its own file first and the relayer's second; the relayer has just this one,
\* as if its own were not there.
Or(value, next) == IF value = Unset THEN next ELSE value
Loaded(own, name) == Or(Or(own[name], relayerEnv[name]), Empty)

Reads(own) == [jwt |-> Loaded(own, "TXODDS_JWT"), apiToken |-> Loaded(own, "TXODDS_API_KEY")]
hasCreds(local) == local.jwt # Empty /\ local.apiToken # Empty

Next ==
  \E r \in Runs : GuestJwt(r) \/ RunStep(r) \/ LandLate(r) \/ Kill(r)

\* A run that has been started goes on; nobody has to start one.
Spec == Init /\ [][Next]_vars /\ \A r \in Runs : WF_vars(RunStep(r))

-----------------------------------------------------------------------------
(****************************************************************************)
(* Properties                                                               *)
(****************************************************************************)
\* The JWT and the token that a reader of the files finds, whenever it starts, belong together,
\* whatever runs overlap and whichever file they are from.  The exception is an indexer whose
\* own .env has just one of the two variables: it takes the other one from the relayer's file,
\* of whichever session that is (indexer/src/txoddsData.ts:6-7).
HasOne(file) == ~(file.TXODDS_JWT = Unset <=> file.TXODDS_API_KEY = Unset)
ReadersHoldAPair ==
  \A own \in EarlierFiles : ~HasOne(own) /\ hasCreds(Reads(own)) => Reads(own) \in issued

Done == {r \in Runs : at[r] = "done"}
Saving(r) == at[r] \in {"truncated", "appending", "killed while saving"}

\* A run that is done has not been undone, however other runs read, empty and write the file
\* meanwhile: unless some run is between these steps, or was killed there, a relayer that
\* starts finds the credentials of a run that is done, and so does an indexer without a file
\* of its own.  (The other settings are not as safe: a run that reads the file while another
\* one has emptied it drops them.)
SavedCredsAreThere ==
  (Done # {} /\ \A r \in Runs : ~Saving(r)) =>
     \E r \in Done : Reads(NoFile) = [jwt |-> r, apiToken |-> r]

\* Once requests no longer fail, runs are no longer killed and no transaction is on its way
\* that a run has given up, one more run of the script saves new credentials, its own or those
\* of a run that it meets, whatever the runs before it have left behind.
RerunRenews ==
  \A n \in 0 .. Cardinality(Runs) - 1 :
    (/\ failures = MaxFailures /\ kills = MaxKills /\ Cardinality(Done) = n
     /\ \E r \in Runs : at[r] = "account"
     /\ \A r \in Runs : at[r] # "unconfirmed")
      ~> (Cardinality(Done) > n /\ hasCreds(Reads(NoFile)))
=============================================================================
