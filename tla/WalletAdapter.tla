----------------------------- MODULE WalletAdapter -----------------------------
(****************************************************************************)
(* The adapter of the OKX wallet (okxWalletAdapter.ts) between the page and *)
(* the browser extension.  Its calls run to their next await in one action  *)
(* and overlap as the caller likes; the extension answers connects in the   *)
(* order its user gets to them, and what it says arrives in the order said. *)
(****************************************************************************)
EXTENDS Integers, Sequences

CONSTANTS
  Calls,           \* the calls of connect and disconnect that may be under way at once
  MaxConnects      \* bound of the connects that reach the extension

ASSUME WalletAssumption == MaxConnects \in Nat

VARIABLES
  readyState,
  connecting,     \* _connecting
  publicKey,      \* whether _publicKey and _provider are set: they always are together
  handlers,       \* how often _disconnected is registered with the extension
  calls,          \* free, connecting, disconnecting, or answered in either
  shown,          \* whether the page shows a wallet, by the last connect or disconnect emitted
  session,        \* whether the extension holds the site connected
  messages,       \* from the extension: answers to calls, and its "disconnect" events
  connects        \* the connects that have reached the extension

adapter   == <<readyState, connecting, publicKey, handlers, shown>>
extension == <<session, connects>>
vars      == <<adapter, calls, messages, extension>>

Init ==
  /\ readyState = "NotDetected" /\ connecting = FALSE /\ publicKey = FALSE /\ handlers = 0
  /\ calls = [c \in Calls |-> "free"]
  /\ shown = FALSE /\ session = FALSE /\ messages = <<>> /\ connects = 0

Event            == [type |-> "event"]
Reply(to, c, ok) == [type |-> to, call |-> c, ok |-> ok]

Become(c, state) == calls' = [calls EXCEPT ![c] = state]

\* The constructor's polling finds the extension.
Detect ==
  /\ readyState = "NotDetected" /\ readyState' = "Installed"
  /\ UNCHANGED <<connecting, publicKey, handlers, shown, calls, messages, extension>>

\* Connected or connecting, a second call returns at once, and its finally still clears the
\* flag.  Without the extension it throws.
Connect(c) ==
  /\ calls[c] = "free"
  /\ \/ /\ publicKey \/ connecting \/ readyState # "Installed"
        /\ connecting' = FALSE
        /\ UNCHANGED <<calls, connects>>
     \/ /\ ~publicKey /\ ~connecting /\ readyState = "Installed"
        /\ connects < MaxConnects /\ connects' = connects + 1
        /\ connecting' = TRUE
        /\ Become(c, "connecting")
  /\ UNCHANGED <<readyState, publicKey, handlers, shown, messages, session>>

\* The handler is removed and the key forgotten before the extension is asked; without a
\* session of its own, the adapter only says that it has none.
Disconnect(c) ==
  /\ calls[c] = "free"
  /\ \/ /\ publicKey
        /\ publicKey' = FALSE /\ handlers' = handlers - 1
        /\ Become(c, "disconnecting")
        /\ UNCHANGED shown
     \/ /\ ~publicKey /\ shown' = FALSE
        /\ UNCHANGED <<publicKey, handlers, calls>>
  /\ UNCHANGED <<readyState, connecting, messages, extension>>

\* An answer resumes its call.  The faults: the adapter does not listen for the end of the
\* session, or a failed connect leaves the flag set.
ConnectedFault(ok) ==
  /\ publicKey' = (publicKey \/ ok) /\ shown' = (shown \/ ok)
  /\ connecting' = FALSE
  /\ UNCHANGED handlers
FlagFault(ok) ==
  /\ publicKey' = (publicKey \/ ok) /\ shown' = (shown \/ ok)
  /\ handlers' = IF ok THEN handlers + 1 ELSE handlers
  /\ connecting' = (connecting /\ ~ok)
Connected(ok) ==
  /\ publicKey' = (publicKey \/ ok) /\ shown' = (shown \/ ok)
  /\ handlers' = IF ok THEN handlers + 1 ELSE handlers
  /\ connecting' = FALSE

TakeReply ==
  /\ messages # <<>> /\ Head(messages) # Event
  /\ LET reply == Head(messages) IN
     /\ \/ reply.type = "connect" /\ Connected(reply.ok)
        \/ /\ reply.type = "disconnect" /\ shown' = FALSE
           /\ UNCHANGED <<connecting, publicKey, handlers>>
     /\ Become(reply.call, "free")
  /\ messages' = Tail(messages)
  /\ UNCHANGED <<readyState, extension>>

\* _disconnected, as often as it is registered: only the first of its calls finds a provider.
\* The fault: the page is not told.
DisconnectedFault ==
  /\ IF handlers > 0 /\ publicKey
     THEN publicKey' = FALSE /\ handlers' = handlers - 1 /\ UNCHANGED shown
     ELSE UNCHANGED <<publicKey, handlers, shown>>
Disconnected ==
  /\ IF handlers > 0 /\ publicKey
     THEN publicKey' = FALSE /\ handlers' = handlers - 1 /\ shown' = FALSE
     ELSE UNCHANGED <<publicKey, handlers, shown>>

TakeEvent ==
  /\ messages # <<>> /\ Head(messages) = Event
  /\ Disconnected
  /\ messages' = Tail(messages)
  /\ UNCHANGED <<readyState, connecting, calls, extension>>

(****************************************************************************)
(* The extension                                                            *)
(****************************************************************************)
\* The user approves or rejects a connect.
AnswerConnect(c) ==
  /\ calls[c] = "connecting" /\ Become(c, "answered connect")
  /\ \E ok \in BOOLEAN :
       /\ session' = (session \/ ok)
       /\ messages' = Append(messages, Reply("connect", c, ok))
  /\ UNCHANGED <<adapter, connects>>

\* The session ends, with an event, before the call is answered; or it fails to.
AnswerDisconnect(c) ==
  /\ calls[c] = "disconnecting" /\ Become(c, "answered disconnect")
  /\ \/ /\ session' = FALSE
        /\ messages' = Append(IF session THEN Append(messages, Event) ELSE messages,
                               Reply("disconnect", c, TRUE))
     \/ messages' = Append(messages, Reply("disconnect", c, FALSE)) /\ UNCHANGED session
  /\ UNCHANGED <<adapter, connects>>

\* The user disconnects the site in the extension, or the wallet locks.
EndSession ==
  /\ session /\ session' = FALSE
  /\ messages' = Append(messages, Event)
  /\ UNCHANGED <<adapter, calls, connects>>

Next ==
  \/ Detect \/ TakeReply \/ TakeEvent \/ EndSession
  \/ \E c \in Calls : Connect(c) \/ Disconnect(c) \/ AnswerConnect(c) \/ AnswerDisconnect(c)

Spec == Init /\ [][Next]_vars

\* The event loop runs, and the extension answers a disconnect, which asks nobody.  Its user
\* need not answer a connect.
FairSpec ==
  /\ Spec /\ WF_vars(TakeReply \/ TakeEvent)
  /\ \A c \in Calls : WF_vars(AnswerDisconnect(c))

-----------------------------------------------------------------------------
(****************************************************************************)
(* Properties                                                               *)
(****************************************************************************)
\* The flag stands for a connect that is under way, a connected adapter listens, and the
\* answers under way are those of the calls that wait for them.
TypeOK ==
  /\ readyState \in {"NotDetected", "Installed"}
  /\ connecting \in BOOLEAN /\ publicKey \in BOOLEAN /\ shown \in BOOLEAN /\ session \in BOOLEAN
  /\ handlers \in 0 .. MaxConnects /\ connects \in 0 .. MaxConnects
  /\ connecting => \E c \in Calls : calls[c] \in {"connecting", "answered connect"}
  /\ \A c \in Calls :
       LET answers == {i \in DOMAIN messages : messages[i] # Event /\ messages[i].call = c} IN
       \/ calls[c] \in {"free", "connecting", "disconnecting"} /\ answers = {}
       \/ /\ calls[c] \in {"answered connect", "answered disconnect"}
          /\ \E i \in answers : answers = {i}

\* The adapter offers a key to sign with only while the extension holds the session, or the
\* news of its end is under way to a handler that will hear it, however the calls overlap.
EndIsUnderWay == \E i \in DOMAIN messages : messages[i] = Event
NoGhostSession ==
  publicKey => (session \/ EndIsUnderWay) /\ handlers > 0

\* The page shows a wallet that the adapter has not only while a disconnect is under way.
PageKnowsTheWallet ==
  shown /\ ~publicKey =>
    \E c \in Calls : calls[c] \in {"disconnecting", "answered disconnect"}

\* A session that ends, on either side, is no longer shown in the end, unless there is a new one.
EndIsShown == shown /\ ~session ~> ~shown \/ session
=============================================================================
