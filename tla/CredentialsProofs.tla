--------------------------- MODULE CredentialsProofs ---------------------------
(****************************************************************************)
(* Theorems about Credentials, for any set of runs, any number of failures  *)
(* and any number of kills.                                                 *)
(****************************************************************************)
EXTENDS Credentials, TLAPS

Pair(r) == [jwt |-> r, apiToken |-> r]

\* relayer/.env lacks one of the two variables, or holds those of one session.
FileHoldsAPair ==
  \/ relayerEnv.TXODDS_JWT \in {Unset, Empty} \/ relayerEnv.TXODDS_API_KEY \in {Unset, Empty}
  \/ /\ relayerEnv.TXODDS_API_KEY = relayerEnv.TXODDS_JWT
     /\ Pair(relayerEnv.TXODDS_JWT) \in issued

\* Only a run that holds a token comes to save it.
WithAToken == {"reading", "writing", "truncated", "appending"}
TokensAreIssued ==
  /\ DOMAIN at = Runs /\ Pair(0) \in issued
  /\ \A r \in Runs : at[r] \in WithAToken => Pair(r) \in issued

\* The credentials in the file are those of a run that is done, unless a run is saving.
LastSaved ==
  \/ Done = {} \/ \E r \in Runs : Saving(r)
  \/ \E r \in Done : relayerEnv.TXODDS_JWT = r /\ relayerEnv.TXODDS_API_KEY = r

IInv == TokensAreIssued /\ FileHoldsAPair /\ LastSaved

-----------------------------------------------------------------------------
LEMMA EnvFields ==
  ASSUME NEW others, NEW jwt, NEW apiKey
  PROVE  LET env == Env(others, jwt, apiKey) IN
         env.others = others /\ env.TXODDS_JWT = jwt /\ env.TXODDS_API_KEY = apiKey
BY DEF Env

LEMMA RunsAreNumbers ==
  /\ \A r \in Runs \cup {0} : r # Unset /\ r # Empty
  /\ Unset # Empty
BY RunsAssumption DEF Unset, Empty

\* Whatever a reader finds in its own file and the relayer's, a JWT comes with its own token,
\* unless its own file has just one of the two.
LEMMA ReadsAPair ==
  ASSUME TokensAreIssued, FileHoldsAPair
  PROVE  ReadersHoldAPair
<1> SUFFICES ASSUME NEW own \in EarlierFiles, ~HasOne(own), hasCreds(Reads(own))
             PROVE  Reads(own) \in issued
  BY DEF ReadersHoldAPair
<1>1. own.TXODDS_JWT \in {Unset, Empty, 0} /\ own.TXODDS_API_KEY \in {Unset, Empty, 0}
  BY EnvFields DEF EarlierFiles
<1>2. /\ Reads(own) = [jwt |-> Loaded(own, "TXODDS_JWT"), apiToken |-> Loaded(own, "TXODDS_API_KEY")]
      /\ Loaded(own, "TXODDS_JWT") # Empty /\ Loaded(own, "TXODDS_API_KEY") # Empty
  BY DEF Reads, hasCreds
<1>3. CASE own.TXODDS_JWT = Unset
  <2>1. own.TXODDS_API_KEY = Unset
    BY <1>3 DEF HasOne
  <2>2. /\ Loaded(own, "TXODDS_JWT") = relayerEnv.TXODDS_JWT
        /\ Loaded(own, "TXODDS_API_KEY") = relayerEnv.TXODDS_API_KEY
        /\ relayerEnv.TXODDS_JWT \notin {Unset, Empty}
        /\ relayerEnv.TXODDS_API_KEY \notin {Unset, Empty}
    BY <1>2, <1>3, <2>1 DEF Loaded, Or
  <2> QED
    BY <1>2, <2>2 DEF FileHoldsAPair, Pair
<1>4. CASE own.TXODDS_JWT # Unset
  <2>1. own.TXODDS_API_KEY # Unset
    BY <1>4 DEF HasOne
  <2>2. /\ Loaded(own, "TXODDS_JWT") = own.TXODDS_JWT
        /\ Loaded(own, "TXODDS_API_KEY") = own.TXODDS_API_KEY
    BY <1>4, <2>1, RunsAreNumbers DEF Loaded, Or
  <2>3. own.TXODDS_JWT = 0 /\ own.TXODDS_API_KEY = 0
    BY <1>1, <1>2, <1>4, <2>1, <2>2
  <2> QED
    BY <1>2, <2>2, <2>3 DEF TokensAreIssued, Pair
<1> QED
  BY <1>3, <1>4
-----------------------------------------------------------------------------
LEMMA InitIInv == Init => IInv
<1> SUFFICES ASSUME Init PROVE IInv
  OBVIOUS
<1>1. TokensAreIssued
  BY DEF Init, TokensAreIssued, WithAToken, Pair
<1>2. FileHoldsAPair
  <2>1. relayerEnv.TXODDS_JWT \in {Unset, Empty, 0} /\ relayerEnv.TXODDS_API_KEY \in {Unset, Empty, 0}
    BY EnvFields DEF Init, EarlierFiles
  <2> QED
    BY <1>1, <2>1 DEF FileHoldsAPair, TokensAreIssued
<1>3. LastSaved
  BY DEF Init, LastSaved, Done
<1> QED
  BY <1>1, <1>2, <1>3 DEF IInv

\* What most steps of a run do: they leave the file alone, and save nothing.
LEMMA QuietStep ==
  ASSUME IInv, NEW r \in Runs, NEW place,
         at' = [at EXCEPT ![r] = place],
         at[r] \notin {"truncated", "appending", "killed while saving", "done"},
         place \in {"account", "subscribing", "unconfirmed", "activating", "reading", "writing",
                    "failed", "killed"},
         place \in {"reading", "writing"} => Pair(r) \in issued',
         issued \subseteq issued', relayerEnv' = relayerEnv
  PROVE  IInv'
<1> USE DEF IInv, TokensAreIssued, WithAToken
<1>1. /\ at'[r] = place
      /\ \A q \in Runs : q # r => at'[q] = at[q]
      /\ DOMAIN at' = Runs
  OBVIOUS
<1>2. TokensAreIssued'
  BY <1>1
<1>3. FileHoldsAPair'
  BY DEF FileHoldsAPair
<1>4. LastSaved'
  BY <1>1 DEF LastSaved, Done, Saving
<1> QED
  BY <1>2, <1>3, <1>4

\* What a run does that is saving and goes on to be: it leaves no credentials but whole ones.
LEMMA SavingStep ==
  ASSUME IInv, NEW r \in Runs, NEW place,
         at' = [at EXCEPT ![r] = place],
         at[r] \in {"writing", "truncated", "appending"},
         place \in {"truncated", "appending", "killed while saving"},
         issued' = issued,
         relayerEnv' = relayerEnv \/ relayerEnv'.TXODDS_JWT = Unset
  PROVE  IInv'
<1> USE DEF IInv, TokensAreIssued, WithAToken
<1>1. /\ at'[r] = place
      /\ \A q \in Runs : q # r => at'[q] = at[q]
      /\ DOMAIN at' = Runs
  OBVIOUS
<1>2. TokensAreIssued'
  BY <1>1
<1>3. FileHoldsAPair'
  BY DEF FileHoldsAPair
<1>4. LastSaved'
  BY <1>1 DEF LastSaved, Saving
<1> QED
  BY <1>2, <1>3, <1>4

\* The credentials are appended.
LEMMA AppendStep ==
  ASSUME IInv, NEW r \in Runs, Append(r)
  PROVE  IInv'
<1> USE DEF IInv, TokensAreIssued, WithAToken
<1>1. /\ at[r] = "appending" /\ at'[r] = "done" /\ DOMAIN at' = Runs
      /\ \A q \in Runs : q # r => at'[q] = at[q]
      /\ issued' = issued
      /\ relayerEnv' = Env(relayerEnv.others, r, r)
  BY DEF Append, Goes
<1>2. TokensAreIssued' /\ Pair(r) \in issued'
  BY <1>1
<1>3. relayerEnv'.TXODDS_JWT = r /\ relayerEnv'.TXODDS_API_KEY = r
  BY <1>1, EnvFields
<1>4. FileHoldsAPair'
  BY <1>2, <1>3 DEF FileHoldsAPair
<1>5. LastSaved'
  BY <1>1, <1>3 DEF LastSaved, Done
<1> QED
  BY <1>2, <1>4, <1>5

LEMMA NextIInv == IInv /\ [Next]_vars => IInv'
<1> SUFFICES ASSUME IInv, [Next]_vars PROVE IInv'
  OBVIOUS
<1> USE DEF locals, chain
<1>1. ASSUME NEW r \in Runs, GuestJwt(r) PROVE IInv'
  BY <1>1, QuietStep DEF GuestJwt, Answered, Goes
<1>2. ASSUME NEW r \in Runs, LookUpAccount(r) PROVE IInv'
  BY <1>2, QuietStep DEF LookUpAccount, Goes
<1>3. ASSUME NEW r \in Runs, Subscribe(r) \/ LandLate(r) PROVE IInv'
  BY <1>3, QuietStep DEF Subscribe, LandLate, Goes
<1>4. ASSUME NEW r \in Runs, Activate(r) PROVE IInv'
  BY <1>4, QuietStep DEF Activate, Answered, Goes, Pair
<1>5. ASSUME NEW r \in Runs, ReadOthers(r) PROVE IInv'
  <2>1. Pair(r) \in issued
    BY <1>5 DEF ReadOthers, IInv, TokensAreIssued, WithAToken
  <2> QED
    BY <1>5, <2>1, QuietStep DEF ReadOthers, Goes
<1>6. ASSUME NEW r \in Runs, Truncate(r) \/ WriteOthers(r) PROVE IInv'
  <2>1. relayerEnv' = relayerEnv \/ relayerEnv'.TXODDS_JWT = Unset
    <3>1. CASE Truncate(r)
      BY <3>1 DEF Truncate, NoFile, Env
    <3>2. CASE WriteOthers(r)
      BY <3>2 DEF WriteOthers, Env
    <3> QED
      BY <1>6, <3>1, <3>2
  <2> QED
    BY <1>6, <2>1, SavingStep DEF Truncate, WriteOthers, Goes
<1>7. ASSUME NEW r \in Runs, Kill(r) PROVE IInv'
  BY <1>7, QuietStep, SavingStep DEF Kill, Goes
<1>8. CASE UNCHANGED vars
  BY <1>8 DEF vars, IInv, TokensAreIssued, FileHoldsAPair, LastSaved, Done, Saving
<1> QED
  BY <1>1, <1>2, <1>3, <1>4, <1>5, <1>6, <1>7, <1>8, AppendStep DEF Next, RunStep

-----------------------------------------------------------------------------
LEMMA Invariance == Spec => []IInv
BY InitIInv, NextIInv, PTL DEF Spec

\* The JWT and the token that a reader of the files finds belong together, however many runs of
\* subscribe.ts overlap, fail and are killed, and whatever the files held before; but for an
\* indexer whose own file has just one of the two (indexer/src/txoddsData.ts:6-7).
THEOREM ReadersHoldAPairHolds == Spec => []ReadersHoldAPair
<1>1. IInv => ReadersHoldAPair
  BY ReadsAPair DEF IInv
<1> QED
  BY <1>1, Invariance, PTL

\* What a run that is done has saved is there (subscribe.ts:28-36), whatever other runs read,
\* empty and write meanwhile, unless a run is saving or was killed in it.
THEOREM SavedCredsAreThereHolds == Spec => []SavedCredsAreThere
<1>1. IInv => SavedCredsAreThere
  <2> SUFFICES ASSUME IInv, Done # {}, \A r \in Runs : ~Saving(r)
               PROVE  \E r \in Done : Reads(NoFile) = [jwt |-> r, apiToken |-> r]
    BY DEF SavedCredsAreThere
  <2>1. PICK r \in Done : relayerEnv.TXODDS_JWT = r /\ relayerEnv.TXODDS_API_KEY = r
    BY DEF IInv, LastSaved
  <2>2. NoFile.TXODDS_JWT = Unset /\ NoFile.TXODDS_API_KEY = Unset
    BY DEF NoFile, Env
  <2>3. Reads(NoFile) = [jwt |-> r, apiToken |-> r]
    BY <2>1, <2>2, RunsAreNumbers DEF Reads, Loaded, Or, Done
  <2> QED
    BY <2>1, <2>3
<1> QED
  BY <1>1, Invariance, PTL
=============================================================================
