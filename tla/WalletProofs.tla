----------------------------- MODULE WalletProofs -----------------------------
(****************************************************************************)
(* Theorems about WalletAdapter, for every value of its constants.          *)
(****************************************************************************)
EXTENDS WalletAdapter, FiniteSetTheorems, TLAPS

Replies  == [type : {"connect", "disconnect"}, call : Calls, ok : BOOLEAN]
Messages == {Event} \cup Replies
States   == {"free", "connecting", "disconnecting", "answered connect", "answered disconnect"}

\* What the answers among ms say of the calls cs: a call has one answer, in the way it asked.
OneAnswer(ms, cs) ==
  /\ \A i \in DOMAIN ms : ms[i] # Event =>
       cs[ms[i].call] = IF ms[i].type = "connect" THEN "answered connect" ELSE "answered disconnect"
  /\ \A i, j \in DOMAIN ms :
       ms[i] # Event /\ ms[j] # Event /\ ms[i].call = ms[j].call => i = j

\* A session that an answer among ms announces lasts, or its end follows the answer.
EndFollows(ms, lasts) ==
  \A i \in DOMAIN ms : ms[i].type = "connect" /\ ms[i].ok = TRUE =>
    lasts \/ \E j \in DOMAIN ms : j > i /\ ms[j] = Event

Types ==
  /\ calls \in [Calls -> States]
  /\ messages \in Seq(Messages)
  /\ handlers \in Nat
  /\ publicKey \in BOOLEAN /\ shown \in BOOLEAN /\ session \in BOOLEAN

\* The inductive invariant: what the two properties need of the messages and the calls.
IInv ==
  /\ Types /\ OneAnswer(messages, calls) /\ EndFollows(messages, session)
  /\ NoGhostSession /\ PageKnowsTheWallet

-----------------------------------------------------------------------------
(****************************************************************************)
(* Messages                                                                 *)
(****************************************************************************)
LEMMA Appended ==
  ASSUME NEW S, NEW s \in Seq(S), NEW e \in S
  PROVE  /\ Append(s, e) \in Seq(S)
         /\ DOMAIN Append(s, e) = 1 .. Len(s) + 1
         /\ Append(s, e)[Len(s) + 1] = e
         /\ \A i \in DOMAIN s : Append(s, e)[i] = s[i]
  OBVIOUS

LEMMA Taken ==
  ASSUME NEW S, NEW s \in Seq(S), s # <<>>
  PROVE  /\ Tail(s) \in Seq(S) /\ Head(s) = s[1] /\ 1 \in DOMAIN s
         /\ \A i \in DOMAIN Tail(s) : i + 1 \in DOMAIN s /\ Tail(s)[i] = s[i + 1]
         /\ \A i \in DOMAIN s : i > 1 => i - 1 \in DOMAIN Tail(s) /\ Tail(s)[i - 1] = s[i]
  OBVIOUS

LEMMA ReplyKind ==
  ASSUME NEW c \in Calls, NEW ok \in BOOLEAN, NEW kind \in {"connect", "disconnect"}
  PROVE  /\ Reply(kind, c, ok) \in Messages /\ Reply(kind, c, ok) # Event
         /\ Reply(kind, c, ok).type = kind /\ Reply(kind, c, ok).call = c /\ Reply(kind, c, ok).ok = ok
BY DEF Messages, Event, Reply, Replies

LEMMA MessageKinds ==
  /\ Event \in Messages /\ Event.type = "event"
  /\ \A m \in Messages :
       m # Event => m.type \in {"connect", "disconnect"} /\ m.call \in Calls /\ m.ok \in BOOLEAN
BY DEF Messages, Event, Reply, Replies

\* An answer joins, for a call that has none.
Answered(kind) == IF kind = "connect" THEN "answered connect" ELSE "answered disconnect"

LEMMA AddReply ==
  ASSUME NEW ms \in Seq(Messages), NEW cs \in [Calls -> States], NEW c \in Calls,
         NEW kind \in {"connect", "disconnect"}, NEW ok \in BOOLEAN,
         cs[c] \in {"connecting", "disconnecting"},
         OneAnswer(ms, cs),
         NEW answered \in [Calls -> States], answered[c] = Answered(kind),
         \A d \in Calls : d # c => answered[d] = cs[d],
         NEW lasts \in BOOLEAN, EndFollows(ms, lasts), kind = "connect" /\ ok => lasts
  PROVE  /\ Append(ms, Reply(kind, c, ok)) \in Seq(Messages)
         /\ OneAnswer(Append(ms, Reply(kind, c, ok)), answered)
         /\ EndFollows(Append(ms, Reply(kind, c, ok)), lasts)
         /\ \A i \in DOMAIN ms :
              /\ i \in DOMAIN Append(ms, Reply(kind, c, ok))
              /\ Append(ms, Reply(kind, c, ok))[i] = ms[i]
<1> DEFINE n == Len(ms) + 1
           r == Reply(kind, c, ok)
           new == Append(ms, r)
           mark == Answered(kind)
<1>1. r \in Messages /\ r # Event /\ r.type = kind /\ r.call = c /\ r.ok = ok
  BY ReplyKind
<1> HIDE DEF r, mark
<1>3. answered \in [Calls -> States] /\ answered[c] = mark
      /\ \A d \in Calls : d # c => answered[d] = cs[d]
  BY DEF mark
<1>4. /\ new \in Seq(Messages) /\ DOMAIN new = 1 .. n /\ new[n] = r
      /\ \A i \in DOMAIN ms : new[i] = ms[i]
  BY <1>1, Appended
<1>5. n \in Nat /\ DOMAIN ms = 1 .. n - 1
  OBVIOUS
<1> HIDE DEF n, new
<1>6. /\ \A i \in DOMAIN ms : i \in DOMAIN new /\ new[i] = ms[i] /\ i < n
      /\ \A i \in DOMAIN new : i # n => i \in DOMAIN ms /\ new[i] = ms[i]
  BY <1>4, <1>5
<1>7. \A i \in DOMAIN ms : ms[i] # Event => ms[i].call \in Calls /\ ms[i].call # c
  <2> SUFFICES ASSUME NEW i \in DOMAIN ms, ms[i] # Event
               PROVE  ms[i].call \in Calls /\ ms[i].call # c
    OBVIOUS
  <2>1. cs[ms[i].call] \in {"answered connect", "answered disconnect"}
    BY DEF OneAnswer
  <2>2. ms[i] \in Messages
    OBVIOUS
  <2> QED
    BY <2>1, <2>2, MessageKinds
<1>8. OneAnswer(new, answered)
  <2>1. ASSUME NEW i \in DOMAIN new, new[i] # Event
        PROVE  answered[new[i].call] =
                 IF new[i].type = "connect" THEN "answered connect" ELSE "answered disconnect"
    <3>1. CASE i = n
      BY <3>1, <1>1, <1>3, <1>4 DEF mark, Answered
    <3>2. CASE i # n
      <4>1. i \in DOMAIN ms /\ new[i] = ms[i] /\ ms[i] # Event
        BY <2>1, <3>2, <1>6
      <4>2. answered[ms[i].call] = cs[ms[i].call]
        BY <4>1, <1>3, <1>7
      <4> QED
        BY <4>1, <4>2 DEF OneAnswer
    <3> QED
      BY <3>1, <3>2
  <2>2. ASSUME NEW i \in DOMAIN new, NEW j \in DOMAIN new,
               new[i] # Event, new[j] # Event, new[i].call = new[j].call
        PROVE  i = j
    <3>1. CASE i = n /\ j # n
      BY <3>1, <2>2, <1>1, <1>4, <1>6, <1>7
    <3>2. CASE i # n /\ j = n
      BY <3>2, <2>2, <1>1, <1>4, <1>6, <1>7
    <3>3. CASE i # n /\ j # n
      <4>1. i \in DOMAIN ms /\ new[i] = ms[i] /\ j \in DOMAIN ms /\ new[j] = ms[j]
        BY <3>3, <1>6
      <4> QED
        BY <4>1, <2>2 DEF OneAnswer
    <3> QED
      BY <3>1, <3>2, <3>3
  <2> QED
    BY <2>1, <2>2 DEF OneAnswer
<1>9. EndFollows(new, lasts)
  <2> SUFFICES ASSUME NEW i \in DOMAIN new, new[i].type = "connect", new[i].ok = TRUE, ~lasts
               PROVE  \E j \in DOMAIN new : j > i /\ new[j] = Event
    BY DEF EndFollows
  <2>1. i # n
    BY <1>1, <1>4
  <2>2. i \in DOMAIN ms /\ new[i] = ms[i]
    BY <2>1, <1>6
  <2>3. PICK j \in DOMAIN ms : j > i /\ ms[j] = Event
    BY <2>2 DEF EndFollows
  <2> QED
    BY <2>3, <1>6
<1> QED
  BY <1>3, <1>4, <1>6, <1>8, <1>9 DEF new, r

\* The end of the session joins: whatever an answer announced, its end follows.
LEMMA AddEvent ==
  ASSUME NEW ms \in Seq(Messages), NEW cs, OneAnswer(ms, cs)
  PROVE  LET new == Append(ms, Event) IN
         /\ new \in Seq(Messages)
         /\ OneAnswer(new, cs)
         /\ \A lasts \in BOOLEAN : EndFollows(new, lasts)
         /\ \E i \in DOMAIN new : new[i] = Event
<1> DEFINE n == Len(ms) + 1
           new == Append(ms, Event)
<1>1. /\ new \in Seq(Messages) /\ DOMAIN new = 1 .. n /\ new[n] = Event
      /\ \A i \in DOMAIN ms : new[i] = ms[i]
  BY MessageKinds, Appended
<1>2. n \in Nat /\ n > 0 /\ DOMAIN ms = 1 .. n - 1
  OBVIOUS
<1> HIDE DEF n, new
<1>3. \A i \in DOMAIN new : i # n => i \in DOMAIN ms /\ new[i] = ms[i] /\ n > i
  BY <1>1, <1>2
<1>4. OneAnswer(new, cs)
  <2>1. ASSUME NEW i \in DOMAIN new, new[i] # Event
        PROVE  cs[new[i].call] =
                 IF new[i].type = "connect" THEN "answered connect" ELSE "answered disconnect"
    BY <2>1, <1>1, <1>3 DEF OneAnswer
  <2>2. ASSUME NEW i \in DOMAIN new, NEW j \in DOMAIN new,
               new[i] # Event, new[j] # Event, new[i].call = new[j].call
        PROVE  i = j
    <3>1. i \in DOMAIN ms /\ new[i] = ms[i] /\ j \in DOMAIN ms /\ new[j] = ms[j]
      BY <2>2, <1>1, <1>3
    <3> QED
      BY <3>1, <2>2 DEF OneAnswer
  <2> QED
    BY <2>1, <2>2 DEF OneAnswer
<1>5. ASSUME NEW lasts \in BOOLEAN PROVE EndFollows(new, lasts)
  <2> SUFFICES ASSUME NEW i \in DOMAIN new, new[i].type = "connect"
               PROVE  \E j \in DOMAIN new : j > i /\ new[j] = Event
    BY DEF EndFollows
  <2>1. i # n
    BY <1>1, MessageKinds
  <2> QED
    BY <2>1, <1>1, <1>2, <1>3
<1>6. \E i \in DOMAIN new : new[i] = Event
  BY <1>1, <1>2
<1>7. \A lasts \in BOOLEAN : EndFollows(new, lasts)
  BY <1>5
<1> QED
  BY <1>1, <1>4, <1>6, <1>7 DEF new

\* A message is taken up; if it is an answer, its call is free of any.
LEMMA TakeOne ==
  ASSUME NEW ms \in Seq(Messages), NEW cs \in [Calls -> States], ms # <<>>,
         OneAnswer(ms, cs), NEW lasts \in BOOLEAN, EndFollows(ms, lasts),
         NEW freed \in [Calls -> States],
         \A d \in Calls : Head(ms) = Event \/ d # Head(ms).call => freed[d] = cs[d]
  PROVE  /\ Tail(ms) \in Seq(Messages) /\ Head(ms) \in Messages
         /\ OneAnswer(Tail(ms), freed)
         /\ Head(ms) # Event =>
              /\ (\E i \in DOMAIN ms : ms[i] = Event) => \E i \in DOMAIN Tail(ms) : Tail(ms)[i] = Event
              /\ Head(ms).type = "connect" => cs[Head(ms).call] = "answered connect"
         /\ Head(ms).type = "connect" /\ Head(ms).ok = TRUE =>
              lasts \/ \E i \in DOMAIN Tail(ms) : Tail(ms)[i] = Event
         /\ EndFollows(Tail(ms), lasts)
<1> DEFINE rest == Tail(ms)
           h == Head(ms)
<1>1. /\ rest \in Seq(Messages) /\ h = ms[1] /\ 1 \in DOMAIN ms
      /\ \A i \in DOMAIN rest : i + 1 \in DOMAIN ms /\ rest[i] = ms[i + 1]
      /\ \A i \in DOMAIN ms : i > 1 => i - 1 \in DOMAIN rest /\ rest[i - 1] = ms[i]
  BY Taken
<1>2. h \in Messages /\ DOMAIN ms \subseteq Nat \ {0} /\ DOMAIN rest \subseteq Nat \ {0}
  <2>1. DOMAIN ms = 1 .. Len(ms) /\ DOMAIN rest = 1 .. Len(rest)
    BY <1>1
  <2> QED
    BY <2>1, <1>1
<1> HIDE DEF rest, h
<1>3. ASSUME NEW i \in DOMAIN rest, rest[i] # Event
      PROVE  freed[rest[i].call] = cs[rest[i].call]
  <2>1. i + 1 \in DOMAIN ms /\ rest[i] = ms[i + 1] /\ i + 1 # 1
    BY <1>1, <1>2
  <2>2. rest[i] \in Messages
    BY <1>1
  <2>3. rest[i].call \in Calls
    BY <1>3, <2>2, MessageKinds
  <2>4. CASE h # Event
    <3>1. ms[1] # Event /\ ms[i + 1] # Event
      BY <1>3, <2>1, <2>4, <1>1
    <3>2. ms[i + 1].call # ms[1].call
      BY <3>1, <2>1, <1>1 DEF OneAnswer
    <3> QED
      BY <3>2, <2>1, <2>3, <1>1 DEF h
  <2> QED
    BY <2>3, <2>4 DEF h
<1>4. OneAnswer(rest, freed)
  <2>1. ASSUME NEW i \in DOMAIN rest, rest[i] # Event
        PROVE  freed[rest[i].call] =
                 IF rest[i].type = "connect" THEN "answered connect" ELSE "answered disconnect"
    <3>1. freed[rest[i].call] = cs[rest[i].call]
      BY <1>3, <2>1
    <3>2. i + 1 \in DOMAIN ms /\ rest[i] = ms[i + 1]
      BY <1>1
    <3> QED
      BY <2>1, <3>1, <3>2 DEF OneAnswer
  <2>2. ASSUME NEW i \in DOMAIN rest, NEW j \in DOMAIN rest,
               rest[i] # Event, rest[j] # Event, rest[i].call = rest[j].call
        PROVE  i = j
    <3>1. i + 1 \in DOMAIN ms /\ rest[i] = ms[i + 1] /\ j + 1 \in DOMAIN ms /\ rest[j] = ms[j + 1]
      BY <1>1
    <3>2. i + 1 = j + 1
      BY <2>2, <3>1 DEF OneAnswer
    <3> QED
      BY <3>2, <1>2
  <2> QED
    BY <2>1, <2>2 DEF OneAnswer
<1>5. ASSUME h # Event
      PROVE  /\ (\E i \in DOMAIN ms : ms[i] = Event) => \E i \in DOMAIN rest : rest[i] = Event
             /\ h.type = "connect" => cs[h.call] = "answered connect"
  <2>1. (\E i \in DOMAIN ms : ms[i] = Event) => \E i \in DOMAIN rest : rest[i] = Event
    <3> SUFFICES ASSUME NEW i \in DOMAIN ms, ms[i] = Event
                 PROVE  \E j \in DOMAIN rest : rest[j] = Event
      OBVIOUS
    <3>1. i > 1
      BY <1>1, <1>2, <1>5
    <3> QED
      BY <3>1, <1>1
  <2>2. h.type = "connect" => cs[h.call] = "answered connect"
    <3>1. cs[ms[1].call] = IF ms[1].type = "connect" THEN "answered connect" ELSE "answered disconnect"
      BY <1>1, <1>5 DEF OneAnswer
    <3> QED
      BY <3>1, <1>1
  <2> QED
    BY <2>1, <2>2
<1>6. h.type = "connect" /\ h.ok = TRUE => lasts \/ \E i \in DOMAIN rest : rest[i] = Event
  <2> SUFFICES ASSUME h.type = "connect", h.ok = TRUE, ~lasts
               PROVE  \E i \in DOMAIN rest : rest[i] = Event
    OBVIOUS
  <2>1. PICK j \in DOMAIN ms : j > 1 /\ ms[j] = Event
    BY <1>1 DEF EndFollows
  <2> QED
    BY <2>1, <1>1
<1>7. EndFollows(rest, lasts)
  <2> SUFFICES ASSUME NEW i \in DOMAIN rest, rest[i].type = "connect", rest[i].ok = TRUE, ~lasts
               PROVE  \E j \in DOMAIN rest : j > i /\ rest[j] = Event
    BY DEF EndFollows
  <2>1. i + 1 \in DOMAIN ms /\ rest[i] = ms[i + 1]
    BY <1>1
  <2>2. PICK j \in DOMAIN ms : j > i + 1 /\ ms[j] = Event
    BY <2>1 DEF EndFollows
  <2>3. j > 1 /\ j - 1 > i
    BY <2>2, <1>2
  <2> QED
    BY <2>2, <2>3, <1>1
<1> QED
  BY <1>1, <1>2, <1>4, <1>5, <1>6, <1>7 DEF rest, h

(****************************************************************************)
(* The actions                                                              *)
(****************************************************************************)
LEMMA InitIInv == Init => IInv
<1> SUFFICES ASSUME Init PROVE IInv
  OBVIOUS
<1>1. /\ messages = <<>> /\ DOMAIN messages = {} /\ messages \in Seq(Messages)
      /\ publicKey = FALSE /\ shown = FALSE
  BY DEF Init
<1>2. Types
  BY <1>1 DEF Init, Types, States
<1>3. OneAnswer(messages, calls) /\ EndFollows(messages, session)
  BY <1>1 DEF OneAnswer, EndFollows
<1>4. NoGhostSession /\ PageKnowsTheWallet
  BY <1>1 DEF NoGhostSession, PageKnowsTheWallet
<1> QED
  BY <1>2, <1>3, <1>4 DEF IInv

\* A call starts: it had no answer under way, and still has none.
LEMMA StartIInv ==
  ASSUME IInv, NEW c \in Calls, Connect(c) \/ Disconnect(c)
  PROVE  IInv'
<1>1. Types /\ OneAnswer(messages, calls) /\ EndFollows(messages, session)
      /\ NoGhostSession /\ PageKnowsTheWallet
  BY DEF IInv
<1>2. calls[c] = "free"
  BY DEF Connect, Disconnect
<1>3. /\ calls' \in [Calls -> States]
      /\ \A d \in Calls : d # c => calls'[d] = calls[d]
      /\ UNCHANGED <<messages, session>>
  BY <1>1 DEF Types, States, Connect, Disconnect, Become, extension
<1>4. Types'
  <2>1. handlers' \in Nat /\ publicKey' \in BOOLEAN /\ shown' \in BOOLEAN
    <3>1. CASE Connect(c)
      BY <3>1, <1>1 DEF Types, Connect
    <3>2. CASE Disconnect(c)
      <4>1. publicKey => handlers - 1 \in Nat
        BY <1>1 DEF Types, NoGhostSession
      <4> QED
        BY <3>2, <4>1, <1>1 DEF Types, Disconnect
    <3> QED
      BY <3>1, <3>2
  <2> QED
    BY <1>1, <1>3, <2>1 DEF Types
<1>5. OneAnswer(messages', calls')
  <2>1. ASSUME NEW i \in DOMAIN messages, messages[i] # Event
        PROVE  calls'[messages[i].call] = calls[messages[i].call]
    <3>1. messages[i] \in Messages
      BY <1>1 DEF Types
    <3>2. messages[i].call \in Calls
      BY <3>1, <2>1, MessageKinds
    <3>3. calls[messages[i].call] \in {"answered connect", "answered disconnect"}
      BY <1>1, <2>1 DEF OneAnswer
    <3> QED
      BY <1>2, <1>3, <3>2, <3>3
  <2>2. OneAnswer(messages, calls')
    BY <1>1, <2>1 DEF OneAnswer
  <2> QED
    BY <1>3, <2>2
<1>6. EndFollows(messages', session')
  BY <1>1, <1>3
<1>7. NoGhostSession'
  BY <1>1, <1>3 DEF NoGhostSession, EndIsUnderWay, Connect, Disconnect
<1>8. PageKnowsTheWallet'
  <2> SUFFICES ASSUME shown', ~publicKey'
               PROVE  \E d \in Calls : calls'[d] \in {"disconnecting", "answered disconnect"}
    BY DEF PageKnowsTheWallet
  <2>1. CASE shown /\ ~publicKey
    <3>1. PICK d \in Calls : calls[d] \in {"disconnecting", "answered disconnect"}
      BY <2>1, <1>1 DEF PageKnowsTheWallet
    <3>2. d # c /\ calls'[d] = calls[d]
      BY <3>1, <1>2, <1>3
    <3> QED
      BY <3>1, <3>2
  <2>2. CASE ~(shown /\ ~publicKey)
    <3>1. calls' = [calls EXCEPT ![c] = "disconnecting"]
      BY <2>2, <1>1 DEF Types, Connect, Disconnect, Become
    <3> QED
      BY <3>1, <1>1 DEF Types
  <2> QED
    BY <2>1, <2>2
<1> QED
  BY <1>4, <1>5, <1>6, <1>7, <1>8 DEF IInv

\* The extension answers: a connect with or without a session, a disconnect with or without the
\* end of it.
LEMMA AnswerConnectIInv ==
  ASSUME IInv, NEW c \in Calls, AnswerConnect(c)
  PROVE  IInv'
<1>1. Types /\ OneAnswer(messages, calls) /\ EndFollows(messages, session)
      /\ NoGhostSession /\ PageKnowsTheWallet
  BY DEF IInv
<1>2. PICK ok \in BOOLEAN : /\ session' = (session \/ ok)
                            /\ messages' = Append(messages, Reply("connect", c, ok))
  BY DEF AnswerConnect
<1>3. /\ calls[c] = "connecting"
      /\ calls' = [calls EXCEPT ![c] = "answered connect"]
      /\ UNCHANGED <<publicKey, handlers, shown>>
  BY DEF AnswerConnect, Become, adapter
<1>4. /\ messages \in Seq(Messages) /\ calls \in [Calls -> States] /\ session' \in BOOLEAN
      /\ handlers' \in Nat /\ publicKey' \in BOOLEAN /\ shown' \in BOOLEAN
  BY <1>1, <1>2, <1>3 DEF Types
<1>5. EndFollows(messages, session')
  BY <1>1, <1>2 DEF EndFollows
<1>6. /\ messages' \in Seq(Messages) /\ calls' \in [Calls -> States]
      /\ OneAnswer(messages', calls') /\ EndFollows(messages', session')
      /\ \A i \in DOMAIN messages : i \in DOMAIN messages' /\ messages'[i] = messages[i]
  <2>1. /\ calls[c] \in {"connecting", "disconnecting"}
        /\ "connect" = "connect" /\ ok => session'
        /\ "connect" \in {"connect", "disconnect"}
        /\ calls' \in [Calls -> States] /\ calls'[c] = Answered("connect")
        /\ \A d \in Calls : d # c => calls'[d] = calls[d]
    BY <1>2, <1>3, <1>4 DEF Answered, States
  <2>2. /\ Append(messages, Reply("connect", c, ok)) \in Seq(Messages)
        /\ OneAnswer(Append(messages, Reply("connect", c, ok)), calls')
        /\ EndFollows(Append(messages, Reply("connect", c, ok)), session')
        /\ \A i \in DOMAIN messages :
             /\ i \in DOMAIN Append(messages, Reply("connect", c, ok))
             /\ Append(messages, Reply("connect", c, ok))[i] = messages[i]
    BY <1>1, <1>4, <1>5, <2>1, AddReply
  <2> QED
    BY <1>2, <1>3, <2>1, <2>2
<1>7. NoGhostSession'
  BY <1>1, <1>2, <1>3, <1>6 DEF NoGhostSession, EndIsUnderWay
<1>8. PageKnowsTheWallet'
  BY <1>1, <1>3, <1>4 DEF PageKnowsTheWallet
<1> QED
  BY <1>4, <1>6, <1>7, <1>8 DEF IInv, Types

LEMMA AnswerDisconnectIInv ==
  ASSUME IInv, NEW c \in Calls, AnswerDisconnect(c)
  PROVE  IInv'
<1>1. Types /\ OneAnswer(messages, calls) /\ EndFollows(messages, session)
      /\ NoGhostSession /\ PageKnowsTheWallet
  BY DEF IInv
<1>2. /\ calls[c] = "disconnecting"
      /\ calls' = [calls EXCEPT ![c] = "answered disconnect"]
      /\ UNCHANGED <<publicKey, handlers, shown>>
  BY DEF AnswerDisconnect, Become, adapter
\* What the messages were before the answer joined them.
<1>3. PICK ms \in {messages, Append(messages, Event)}, ok \in BOOLEAN :
        /\ messages' = Append(ms, Reply("disconnect", c, ok))
        /\ \/ ms = messages /\ session' = session
           \/ ms = Append(messages, Event) /\ session' = FALSE
  <2>1. ASSUME session' = FALSE,
               messages' = Append(IF session THEN Append(messages, Event) ELSE messages,
                                  Reply("disconnect", c, TRUE))
        PROVE  \E ms \in {messages, Append(messages, Event)} :
                 /\ messages' = Append(ms, Reply("disconnect", c, TRUE))
                 /\ \/ ms = messages /\ session' = session
                    \/ ms = Append(messages, Event) /\ session' = FALSE
    BY <2>1, <1>1 DEF Types
  <2> QED
    BY <2>1 DEF AnswerDisconnect
<1>4. /\ messages \in Seq(Messages) /\ calls \in [Calls -> States] /\ session' \in BOOLEAN
      /\ handlers' \in Nat /\ publicKey' \in BOOLEAN /\ shown' \in BOOLEAN
  BY <1>1, <1>2, <1>3 DEF Types
<1>5. /\ ms \in Seq(Messages) /\ OneAnswer(ms, calls) /\ EndFollows(ms, session')
      /\ publicKey' => session' \/ \E i \in DOMAIN ms : ms[i] = Event
  <2>1. CASE ms = messages /\ session' = session
    BY <2>1, <1>1, <1>2, <1>4 DEF NoGhostSession, EndIsUnderWay
  <2>2. CASE ms = Append(messages, Event) /\ session' = FALSE
    BY <2>2, <1>1, <1>4, AddEvent
  <2> QED
    BY <1>3, <2>1, <2>2
<1>6. /\ messages' \in Seq(Messages) /\ calls' \in [Calls -> States]
      /\ OneAnswer(messages', calls') /\ EndFollows(messages', session')
      /\ \A i \in DOMAIN ms : i \in DOMAIN messages' /\ messages'[i] = ms[i]
  <2>1. /\ calls[c] \in {"connecting", "disconnecting"}
        /\ "disconnect" = "connect" /\ ok => session'
        /\ "disconnect" \in {"connect", "disconnect"}
        /\ calls' \in [Calls -> States] /\ calls'[c] = Answered("disconnect")
        /\ \A d \in Calls : d # c => calls'[d] = calls[d]
    BY <1>2, <1>4 DEF Answered, States
  <2>2. /\ Append(ms, Reply("disconnect", c, ok)) \in Seq(Messages)
        /\ OneAnswer(Append(ms, Reply("disconnect", c, ok)), calls')
        /\ EndFollows(Append(ms, Reply("disconnect", c, ok)), session')
        /\ \A i \in DOMAIN ms :
             /\ i \in DOMAIN Append(ms, Reply("disconnect", c, ok))
             /\ Append(ms, Reply("disconnect", c, ok))[i] = ms[i]
    BY <1>4, <1>5, <2>1, AddReply
  <2> QED
    BY <1>2, <1>3, <2>1, <2>2
<1>7. NoGhostSession'
  BY <1>1, <1>2, <1>5, <1>6 DEF NoGhostSession, EndIsUnderWay
<1>8. PageKnowsTheWallet'
  BY <1>1, <1>2, <1>4 DEF PageKnowsTheWallet
<1> QED
  BY <1>4, <1>6, <1>7, <1>8 DEF IInv, Types

LEMMA EndSessionIInv ==
  ASSUME IInv, EndSession
  PROVE  IInv'
<1>1. Types /\ OneAnswer(messages, calls) /\ EndFollows(messages, session)
      /\ NoGhostSession /\ PageKnowsTheWallet
  BY DEF IInv
<1>2. /\ session' = FALSE /\ messages' = Append(messages, Event)
      /\ UNCHANGED <<publicKey, handlers, shown, calls>>
  BY DEF EndSession, adapter
<1>3. /\ messages' \in Seq(Messages) /\ OneAnswer(messages', calls')
      /\ EndFollows(messages', session') /\ \E i \in DOMAIN messages' : messages'[i] = Event
  BY <1>1, <1>2, AddEvent DEF Types
<1>4. Types'
  BY <1>1, <1>2, <1>3 DEF Types
<1>5. NoGhostSession' /\ PageKnowsTheWallet'
  BY <1>1, <1>2, <1>3 DEF NoGhostSession, EndIsUnderWay, PageKnowsTheWallet
<1> QED
  BY <1>3, <1>4, <1>5 DEF IInv

\* An answer is taken up.
LEMMA TakeReplyIInv ==
  ASSUME IInv, TakeReply
  PROVE  IInv'
<1> DEFINE h == Head(messages)
<1>1. Types /\ OneAnswer(messages, calls) /\ EndFollows(messages, session)
      /\ NoGhostSession /\ PageKnowsTheWallet
  BY DEF IInv
<1>2. /\ messages \in Seq(Messages) /\ messages # <<>> /\ messages' = Tail(messages)
      /\ calls \in [Calls -> States] /\ session \in BOOLEAN /\ session' = session
  BY <1>1 DEF Types, TakeReply, extension
<1>3. h # Event /\ h \in Messages
  BY <1>2, Taken DEF TakeReply
<1>4. h.call \in Calls /\ h.ok \in BOOLEAN /\ h.type \in {"connect", "disconnect"}
  BY <1>3, MessageKinds
<1>5. /\ calls' \in [Calls -> States] /\ calls'[h.call] = "free"
      /\ \A d \in Calls : d # h.call => calls'[d] = calls[d]
  BY <1>2, <1>4 DEF TakeReply, Become, States
<1> HIDE DEF h
<1>6. /\ messages' \in Seq(Messages) /\ OneAnswer(messages', calls') /\ EndFollows(messages', session')
      /\ EndIsUnderWay => EndIsUnderWay'
      /\ h.type = "connect" => calls[h.call] = "answered connect"
      /\ h.type = "connect" /\ h.ok = TRUE => session \/ EndIsUnderWay'
  BY <1>1, <1>2, <1>3, <1>5, TakeOne DEF h, EndIsUnderWay
<1>7. \/ h.type = "connect" /\ Connected(h.ok)
      \/ h.type = "disconnect" /\ shown' = FALSE /\ UNCHANGED <<publicKey, handlers>>
  BY DEF TakeReply, h
<1>8. CASE h.type = "connect" /\ Connected(h.ok)
  <2>1. /\ publicKey' = (publicKey \/ h.ok) /\ shown' = (shown \/ h.ok)
        /\ handlers' = IF h.ok THEN handlers + 1 ELSE handlers
    BY <1>8 DEF Connected
  <2>2. Types'
    <3>1. publicKey' \in BOOLEAN /\ shown' \in BOOLEAN
      BY <2>1
    <3>2. handlers' \in Nat
      BY <2>1, <1>1 DEF Types
    <3> QED
      BY <3>1, <3>2, <1>2, <1>5, <1>6 DEF Types
  <2>3. CASE h.ok = TRUE
    <3>1. publicKey' = TRUE /\ handlers' = handlers + 1 /\ handlers \in Nat
      BY <2>1, <2>3, <1>1 DEF Types
    <3>2. session \/ EndIsUnderWay'
      BY <1>6, <1>8, <2>3
    <3> QED
      <4>1. handlers' > 0
        BY <3>1
      <4>2. NoGhostSession'
        BY <4>1, <3>2, <1>2 DEF NoGhostSession
      <4>3. PageKnowsTheWallet'
        BY <3>1 DEF PageKnowsTheWallet
      <4> QED
        BY <2>2, <4>2, <4>3, <1>6 DEF IInv
  <2>4. CASE h.ok = FALSE
    <3>1. UNCHANGED <<publicKey, shown, handlers>>
      BY <2>1, <2>4, <1>1 DEF Types
    <3>2. NoGhostSession'
      BY <3>1, <1>1, <1>2, <1>6 DEF NoGhostSession
    <3>3. \A d \in Calls : calls[d] \in {"disconnecting", "answered disconnect"} => calls'[d] = calls[d]
      BY <1>4, <1>5, <1>6, <1>8
    <3>4. PageKnowsTheWallet'
      BY <3>1, <3>3, <1>1 DEF PageKnowsTheWallet
    <3> QED
      BY <2>2, <3>2, <3>4, <1>6 DEF IInv
  <2> QED
    BY <2>3, <2>4, <1>4
<1>9. CASE h.type = "disconnect" /\ shown' = FALSE /\ UNCHANGED <<publicKey, handlers>>
  <2>1. Types'
    BY <1>9, <1>1, <1>2, <1>5, <1>6 DEF Types
  <2>2. NoGhostSession'
    BY <1>9, <1>1, <1>2, <1>6 DEF NoGhostSession
  <2>3. PageKnowsTheWallet'
    BY <1>9 DEF PageKnowsTheWallet
  <2> QED
    BY <2>1, <2>2, <2>3, <1>6 DEF IInv
<1> QED
  BY <1>7, <1>8, <1>9

\* The end of the session is taken up: a connected adapter forgets the key.
LEMMA TakeEventIInv ==
  ASSUME IInv, TakeEvent
  PROVE  IInv'
<1>1. Types /\ OneAnswer(messages, calls) /\ EndFollows(messages, session)
      /\ NoGhostSession /\ PageKnowsTheWallet
  BY DEF IInv
<1>2. /\ messages \in Seq(Messages) /\ messages # <<>> /\ Head(messages) = Event
      /\ messages' = Tail(messages)
      /\ calls \in [Calls -> States] /\ session \in BOOLEAN /\ UNCHANGED <<calls, session>>
  BY <1>1 DEF Types, TakeEvent, extension
<1>3. messages' \in Seq(Messages) /\ OneAnswer(messages', calls') /\ EndFollows(messages', session')
  BY <1>1, <1>2, TakeOne
<1>4. publicKey' = FALSE /\ handlers' \in Nat /\ shown' \in BOOLEAN
      /\ (shown' => shown /\ ~publicKey)
  <2>1. CASE publicKey
    <3>1. handlers > 0 /\ handlers - 1 \in Nat
      BY <2>1, <1>1 DEF Types, NoGhostSession
    <3> QED
      BY <2>1, <3>1 DEF TakeEvent, Disconnected
  <2>2. CASE ~publicKey
    BY <2>2, <1>1 DEF Types, TakeEvent, Disconnected
  <2> QED
    BY <2>1, <2>2
<1>5. Types'
  BY <1>2, <1>3, <1>4 DEF Types
<1>6. NoGhostSession' /\ PageKnowsTheWallet'
  BY <1>1, <1>2, <1>4 DEF NoGhostSession, PageKnowsTheWallet
<1> QED
  BY <1>3, <1>5, <1>6 DEF IInv

\* What leaves the adapter's key, its calls, the session and the messages alone leaves the
\* invariant.
LEMMA OtherIInv ==
  ASSUME IInv, Detect \/ UNCHANGED vars
  PROVE  IInv'
<1>1. UNCHANGED <<publicKey, handlers, calls, shown, session, messages>>
  BY DEF Detect, vars, adapter, extension
<1> QED
  BY <1>1 DEF IInv, Types, NoGhostSession, EndIsUnderWay, PageKnowsTheWallet

\* Every step of the adapter and of the extension keeps the invariant: okxWalletAdapter.ts.
THEOREM Invariant == Spec => []IInv
<1>1. IInv /\ [Next]_vars => IInv'
  <2> SUFFICES ASSUME IInv, [Next]_vars PROVE IInv'
    OBVIOUS
  <2>1. CASE Detect \/ UNCHANGED vars
    BY <2>1, OtherIInv
  <2>2. CASE TakeReply
    BY <2>2, TakeReplyIInv
  <2>3. CASE TakeEvent
    BY <2>3, TakeEventIInv
  <2>4. CASE EndSession
    BY <2>4, EndSessionIInv
  <2>5. ASSUME NEW c \in Calls, Connect(c) \/ Disconnect(c) PROVE IInv'
    BY <2>5, StartIInv
  <2>6. ASSUME NEW c \in Calls, AnswerConnect(c) PROVE IInv'
    BY <2>6, AnswerConnectIInv
  <2>7. ASSUME NEW c \in Calls, AnswerDisconnect(c) PROVE IInv'
    BY <2>7, AnswerDisconnectIInv
  <2> QED
    BY <2>1, <2>2, <2>3, <2>4, <2>5, <2>6, <2>7 DEF Next
<1> QED
  BY <1>1, InitIInv, PTL DEF Spec

\* The key to sign with is offered only while the extension holds the session or the news of
\* its end is under way to a registered handler: okxWalletAdapter.ts, connect and _disconnected,
\* for any number of overlapping calls.
THEOREM SessionIsReal == Spec => []NoGhostSession
<1>1. IInv => NoGhostSession
  BY DEF IInv
<1> QED
  BY <1>1, Invariant, PTL

\* The page shows a wallet that the adapter has forgotten only while a disconnect is under way:
\* okxWalletAdapter.ts, disconnect, for any number of overlapping calls.
THEOREM PageIsTold == Spec => []PageKnowsTheWallet
<1>1. IInv => PageKnowsTheWallet
  BY DEF IInv
<1> QED
  BY <1>1, Invariant, PTL

-----------------------------------------------------------------------------
(****************************************************************************)
(* The types.  The handlers are counted against the connects: each one was  *)
(* registered by a connect that has ended, so those and the connects still  *)
(* waiting are no more than the connects that reached the extension.        *)
(****************************************************************************)
Waiting(cs) == {c \in Calls : cs[c] \in {"connecting", "answered connect"}}

HasAnswer(ms, c) == \E i \in DOMAIN ms : ms[i] # Event /\ ms[i].call = c

Counted ==
  /\ readyState \in {"NotDetected", "Installed"}
  /\ connecting \in BOOLEAN /\ connects \in 0 .. MaxConnects
  /\ connecting => Waiting(calls) # {}
  /\ IsFiniteSet(Waiting(calls))
  /\ handlers + Cardinality(Waiting(calls)) <= connects
  /\ \A c \in Calls :
       calls[c] \in {"answered connect", "answered disconnect"} => HasAnswer(messages, c)

LEMMA Numbers ==
  ASSUME Types, Counted
  PROVE  /\ handlers \in Nat /\ connects \in Nat /\ MaxConnects \in Nat /\ connects <= MaxConnects
         /\ IsFiniteSet(Waiting(calls)) /\ Cardinality(Waiting(calls)) \in Nat
         /\ handlers + Cardinality(Waiting(calls)) <= connects
<1>1. IsFiniteSet(Waiting(calls)) /\ handlers + Cardinality(Waiting(calls)) <= connects
  BY DEF Counted
<1>2. Cardinality(Waiting(calls)) \in Nat
  BY <1>1, FS_CardinalityType
<1>3. connects \in 0 .. MaxConnects /\ handlers \in Nat
  BY DEF Counted, Types
<1> QED
  BY <1>1, <1>2, <1>3, WalletAssumption

LEMMA InitCounted == Init => Counted
<1> SUFFICES ASSUME Init PROVE Counted
  OBVIOUS
<1>1. Waiting(calls) = {} /\ \A c \in Calls : calls[c] = "free"
  BY DEF Init, Waiting
<1>2. IsFiniteSet(Waiting(calls)) /\ Cardinality(Waiting(calls)) = 0
  BY <1>1, FS_EmptySet
<1>3. 0 \in 0 .. MaxConnects /\ readyState = "NotDetected" /\ connecting = FALSE
      /\ connects = 0 /\ handlers = 0
  BY WalletAssumption DEF Init
<1>4. handlers + Cardinality(Waiting(calls)) <= connects
  BY <1>2, <1>3
<1>5. \A c \in Calls : calls[c] \notin {"answered connect", "answered disconnect"}
  BY <1>1
<1> QED
  BY <1>2, <1>3, <1>4, <1>5 DEF Counted

\* A state of a call that is not about a connect, and one that is.
LEMMA WaitingSame ==
  ASSUME NEW cs \in [Calls -> States], NEW ds \in [Calls -> States], NEW c \in Calls,
         \A d \in Calls : d # c => ds[d] = cs[d],
         c \in Waiting(cs) <=> c \in Waiting(ds)
  PROVE  Waiting(ds) = Waiting(cs)
BY DEF Waiting

LEMMA WaitingGrows ==
  ASSUME NEW cs \in [Calls -> States], NEW ds \in [Calls -> States], NEW c \in Calls,
         \A d \in Calls : d # c => ds[d] = cs[d],
         c \notin Waiting(cs), c \in Waiting(ds), IsFiniteSet(Waiting(cs))
  PROVE  /\ IsFiniteSet(Waiting(ds)) /\ Waiting(ds) # {}
         /\ Cardinality(Waiting(cs)) \in Nat
         /\ Cardinality(Waiting(ds)) = Cardinality(Waiting(cs)) + 1
<1>1. Waiting(ds) = Waiting(cs) \cup {c}
  BY DEF Waiting
<1> QED
  BY <1>1, FS_AddElement, FS_CardinalityType

LEMMA WaitingShrinks ==
  ASSUME NEW cs \in [Calls -> States], NEW ds \in [Calls -> States], NEW c \in Calls,
         \A d \in Calls : d # c => ds[d] = cs[d],
         c \in Waiting(cs), c \notin Waiting(ds), IsFiniteSet(Waiting(cs))
  PROVE  /\ IsFiniteSet(Waiting(ds))
         /\ Cardinality(Waiting(ds)) \in Nat
         /\ Cardinality(Waiting(cs)) = Cardinality(Waiting(ds)) + 1
<1>1. Waiting(ds) = Waiting(cs) \ {c}
  BY DEF Waiting
<1>2. IsFiniteSet(Waiting(ds))
  BY <1>1, FS_RemoveElement
<1>3. Cardinality(Waiting(cs)) \in Nat /\ Cardinality(Waiting(ds)) \in Nat
  BY <1>2, FS_CardinalityType
<1>4. Cardinality(Waiting(ds)) = Cardinality(Waiting(cs)) - 1
  BY <1>1, FS_RemoveElement
<1> QED
  BY <1>2, <1>3, <1>4

LEMMA ConnectCounted ==
  ASSUME IInv, Counted, NEW c \in Calls, Connect(c)
  PROVE  Counted'
<1>1. Types /\ calls \in [Calls -> States] /\ handlers \in Nat
  BY DEF IInv, Types
<1>2. CASE publicKey \/ connecting \/ readyState # "Installed"
  BY <1>2 DEF Connect, Counted, Waiting, HasAnswer
<1>3. CASE ~(publicKey \/ connecting \/ readyState # "Installed")
  <2>1. /\ calls[c] = "free" /\ connects < MaxConnects /\ connects' = connects + 1
        /\ connecting' = TRUE /\ calls' = [calls EXCEPT ![c] = "connecting"]
        /\ UNCHANGED <<readyState, handlers, messages>>
    BY <1>3 DEF Connect, Become
  <2>2. /\ calls' \in [Calls -> States] /\ calls'[c] = "connecting"
        /\ \A d \in Calls : d # c => calls'[d] = calls[d]
    BY <1>1, <2>1 DEF States
  <2>3. /\ IsFiniteSet(Waiting(calls')) /\ Waiting(calls') # {}
        /\ Cardinality(Waiting(calls)) \in Nat
        /\ Cardinality(Waiting(calls')) = Cardinality(Waiting(calls)) + 1
    <3>1. c \notin Waiting(calls) /\ c \in Waiting(calls') /\ IsFiniteSet(Waiting(calls))
      BY <2>1, <2>2 DEF Waiting, Counted
    <3> QED
      BY <1>1, <2>2, <3>1, WaitingGrows
  <2>4. connects' \in 0 .. MaxConnects /\ handlers' + Cardinality(Waiting(calls')) <= connects'
    BY <1>1, <2>1, <2>3, Numbers
  <2>5. \A d \in Calls :
          calls'[d] \in {"answered connect", "answered disconnect"} => HasAnswer(messages', d)
    BY <2>1, <2>2 DEF Counted, HasAnswer
  <2> QED
    BY <2>1, <2>3, <2>4, <2>5 DEF Counted
<1> QED
  BY <1>2, <1>3

LEMMA DisconnectCounted ==
  ASSUME IInv, Counted, NEW c \in Calls, Disconnect(c)
  PROVE  Counted'
<1>1. Types /\ calls \in [Calls -> States] /\ handlers \in Nat
  BY DEF IInv, Types
<1>2. /\ calls[c] = "free" /\ UNCHANGED <<readyState, connecting, messages, connects>>
      /\ calls' \in [Calls -> States] /\ calls'[c] \in {"free", "disconnecting"}
      /\ \A d \in Calls : d # c => calls'[d] = calls[d]
  BY <1>1 DEF Disconnect, Become, States, extension
<1>3. Waiting(calls') = Waiting(calls)
  BY <1>1, <1>2, WaitingSame DEF Waiting
<1>4. handlers' \in Int /\ handlers' <= handlers
  BY <1>1 DEF Disconnect
<1>5. handlers' + Cardinality(Waiting(calls')) <= connects'
  BY <1>1, <1>2, <1>3, <1>4, Numbers
<1>6. \A d \in Calls :
        calls'[d] \in {"answered connect", "answered disconnect"} => HasAnswer(messages', d)
  BY <1>2 DEF Counted, HasAnswer
<1> QED
  BY <1>2, <1>3, <1>5, <1>6 DEF Counted

\* The extension answers a call, with or without the end of the session before the answer.
LEMMA AnswerCounted ==
  ASSUME IInv, Counted, NEW c \in Calls, AnswerConnect(c) \/ AnswerDisconnect(c)
  PROVE  Counted'
<1>1. /\ Types /\ calls \in [Calls -> States] /\ handlers \in Nat /\ messages \in Seq(Messages)
      /\ session \in BOOLEAN
  BY DEF IInv, Types
<1>2. /\ UNCHANGED <<readyState, connecting, handlers, connects>>
      /\ calls' \in [Calls -> States]
      /\ \/ calls[c] = "connecting" /\ calls'[c] = "answered connect"
         \/ calls[c] = "disconnecting" /\ calls'[c] = "answered disconnect"
      /\ \A d \in Calls : d # c => calls'[d] = calls[d]
  BY <1>1 DEF AnswerConnect, AnswerDisconnect, Become, States, adapter
<1>3. Waiting(calls') = Waiting(calls)
  BY <1>1, <1>2, WaitingSame DEF Waiting
<1>4. PICK ms \in {messages, Append(messages, Event)}, kind \in {"connect", "disconnect"},
           ok \in BOOLEAN : messages' = Append(ms, Reply(kind, c, ok))
  BY <1>1 DEF AnswerConnect, AnswerDisconnect
<1>5. /\ ms \in Seq(Messages) /\ \A i \in DOMAIN messages : i \in DOMAIN ms /\ ms[i] = messages[i]
  BY <1>1, MessageKinds, Appended
<1> DEFINE r == Reply(kind, c, ok)
<1>6. r \in Messages /\ r # Event /\ r.call = c
  BY ReplyKind
<1> HIDE DEF r
<1>7. /\ messages' = Append(ms, r)
      /\ \A i \in DOMAIN messages : i \in DOMAIN messages' /\ messages'[i] = messages[i]
      /\ Len(ms) + 1 \in DOMAIN messages' /\ messages'[Len(ms) + 1] = r
  <2>1. messages' = Append(ms, r)
    BY <1>4 DEF r
  <2>2. /\ DOMAIN Append(ms, r) = 1 .. Len(ms) + 1 /\ Append(ms, r)[Len(ms) + 1] = r
        /\ \A i \in DOMAIN ms : Append(ms, r)[i] = ms[i]
    BY <1>5, <1>6, Appended
  <2> QED
    BY <1>5, <2>1, <2>2
<1>8. \A d \in Calls :
        calls'[d] \in {"answered connect", "answered disconnect"} => HasAnswer(messages', d)
  <2> SUFFICES ASSUME NEW d \in Calls, calls'[d] \in {"answered connect", "answered disconnect"}
               PROVE  HasAnswer(messages', d)
    OBVIOUS
  <2>1. CASE d = c
    BY <2>1, <1>6, <1>7 DEF HasAnswer
  <2>2. CASE d # c
    <3>1. PICK i \in DOMAIN messages : messages[i] # Event /\ messages[i].call = d
      BY <2>2, <1>2 DEF Counted, HasAnswer
    <3> QED
      BY <3>1, <1>7 DEF HasAnswer
  <2> QED
    BY <2>1, <2>2
<1> QED
  BY <1>2, <1>3, <1>8 DEF Counted

LEMMA EndSessionCounted ==
  ASSUME IInv, Counted, EndSession
  PROVE  Counted'
<1>1. /\ messages \in Seq(Messages) /\ messages' = Append(messages, Event)
      /\ UNCHANGED <<readyState, connecting, handlers, calls, connects>>
  BY DEF IInv, Types, EndSession, adapter
<1>2. \A i \in DOMAIN messages : i \in DOMAIN messages' /\ messages'[i] = messages[i]
  BY <1>1, MessageKinds, Appended
<1>3. \A c \in Calls : HasAnswer(messages, c) => HasAnswer(messages', c)
  BY <1>2 DEF HasAnswer
<1> QED
  BY <1>1, <1>3 DEF Counted

\* A message is taken up: the answer to a connect makes way for its handler.
LEMMA TakeCounted ==
  ASSUME IInv, Counted, TakeReply \/ TakeEvent
  PROVE  Counted'
<1> DEFINE h == Head(messages)
<1>1. /\ Types /\ calls \in [Calls -> States] /\ handlers \in Nat /\ messages \in Seq(Messages)
      /\ OneAnswer(messages, calls)
  BY DEF IInv, Types
<1>2. /\ messages # <<>> /\ messages' = Tail(messages) /\ UNCHANGED <<readyState, connects>>
      /\ h = messages[1] /\ h \in Messages /\ 1 \in DOMAIN messages /\ DOMAIN messages \subseteq Nat \ {0}
      /\ \A i \in DOMAIN messages :
           i > 1 => i - 1 \in DOMAIN messages' /\ messages'[i - 1] = messages[i]
  <2>1. messages # <<>> /\ messages' = Tail(messages) /\ UNCHANGED <<readyState, connects>>
    BY DEF TakeReply, TakeEvent, extension
  <2>2. DOMAIN messages = 1 .. Len(messages)
    BY <1>1
  <2>3. h = messages[1] /\ 1 \in DOMAIN messages
    BY <1>1, <2>1, Taken
  <2>4. h \in Messages
    BY <1>1, <2>3
  <2>5. \A i \in DOMAIN messages :
          i > 1 => i - 1 \in DOMAIN messages' /\ messages'[i - 1] = messages[i]
    BY <1>1, <2>1, Taken
  <2> HIDE DEF h
  <2> QED
    BY <2>1, <2>2, <2>3, <2>4, <2>5
<1> HIDE DEF h
<1>3. ASSUME NEW d \in Calls, h = Event \/ h.call # d, HasAnswer(messages, d)
      PROVE  HasAnswer(messages', d)
  <2>1. PICK i \in DOMAIN messages : messages[i] # Event /\ messages[i].call = d
    BY <1>3 DEF HasAnswer
  <2>2. i # 1 /\ i \in Nat \ {0}
    BY <2>1, <1>2, <1>3
  <2>3. i > 1
    BY <2>2
  <2>4. i - 1 \in DOMAIN messages' /\ messages'[i - 1] # Event /\ messages'[i - 1].call = d
    BY <2>1, <2>3, <1>2
  <2> QED
    BY <2>4, Zenon DEF HasAnswer
<1>4. CASE TakeReply
  <2>1. h # Event /\ h.call \in Calls /\ h.type \in {"connect", "disconnect"} /\ h.ok \in BOOLEAN
    BY <1>2, <1>4, MessageKinds DEF TakeReply, h
  <2>2. /\ calls' \in [Calls -> States] /\ calls'[h.call] = "free"
        /\ \A d \in Calls : d # h.call => calls'[d] = calls[d]
    BY <1>1, <1>4, <2>1 DEF TakeReply, Become, States, h
  <2>3. calls[h.call] = IF h.type = "connect" THEN "answered connect" ELSE "answered disconnect"
    BY <1>1, <1>2, <2>1 DEF OneAnswer
  <2>4. \A d \in Calls :
          calls'[d] \in {"answered connect", "answered disconnect"} => HasAnswer(messages', d)
    BY <1>3, <2>2 DEF Counted
  <2>5. CASE h.type = "connect"
    <3>1. /\ connecting' = FALSE /\ handlers' \in Nat /\ handlers' <= handlers + 1
      BY <1>1, <1>4, <2>5 DEF TakeReply, Connected, h
    <3>2. h.call \in Waiting(calls) /\ h.call \notin Waiting(calls') /\ IsFiniteSet(Waiting(calls))
      BY <1>1, <2>1, <2>2, <2>3, <2>5, Numbers DEF Waiting
    <3>3. /\ IsFiniteSet(Waiting(calls')) /\ Cardinality(Waiting(calls')) \in Nat
          /\ Cardinality(Waiting(calls)) = Cardinality(Waiting(calls')) + 1
      BY <1>1, <2>1, <2>2, <3>2, WaitingShrinks
    <3>4. handlers' + Cardinality(Waiting(calls')) <= connects'
      BY <1>1, <1>2, <3>1, <3>3, Numbers
    <3> QED
      BY <1>2, <2>4, <3>1, <3>3, <3>4 DEF Counted
  <2>6. CASE h.type = "disconnect"
    <3>1. UNCHANGED <<connecting, handlers>>
      BY <1>4, <2>6 DEF TakeReply, h
    <3>2. h.call \notin Waiting(calls) /\ h.call \notin Waiting(calls')
      BY <2>2, <2>3, <2>6 DEF Waiting
    <3>3. Waiting(calls') = Waiting(calls)
      BY <1>1, <2>1, <2>2, <3>2, WaitingSame
    <3> QED
      BY <1>2, <2>4, <3>1, <3>3 DEF Counted
  <2> QED
    BY <2>1, <2>5, <2>6
<1>5. CASE TakeEvent
  <2>1. UNCHANGED <<calls, connecting>> /\ h = Event
    BY <1>5 DEF TakeEvent, h
  <2>2. handlers' \in Int /\ handlers' <= handlers
    BY <1>1, <1>5 DEF TakeEvent, Disconnected
  <2>4. handlers' + Cardinality(Waiting(calls)) <= connects
    BY <1>1, <2>2, Numbers
  <2>5. \A d \in Calls :
          calls'[d] \in {"answered connect", "answered disconnect"} => HasAnswer(messages', d)
    BY <1>3, <2>1 DEF Counted
  <2> QED
    BY <1>2, <2>1, <2>4, <2>5 DEF Counted
<1> QED
  BY <1>4, <1>5

LEMMA CountedHolds == Spec => []Counted
<1>1. IInv /\ Counted /\ [Next]_vars => Counted'
  <2> SUFFICES ASSUME IInv, Counted, [Next]_vars PROVE Counted'
    OBVIOUS
  <2>1. CASE Detect \/ UNCHANGED vars
    <3>1. /\ UNCHANGED <<connecting, handlers, calls, messages, connects>>
          /\ readyState' \in {"NotDetected", "Installed"}
      BY <2>1 DEF Detect, vars, adapter, extension, Counted
    <3> QED
      BY <3>1 DEF Counted
  <2> QED
    BY <2>1, ConnectCounted, DisconnectCounted, AnswerCounted, EndSessionCounted, TakeCounted DEF Next
<1> QED
  BY <1>1, InitCounted, Invariant, PTL DEF Spec

\* The flag stands for a connect under way, no more handlers are registered than connects were
\* made, and every answered call has exactly one answer coming: okxWalletAdapter.ts, connect.
THEOREM TypeCorrect == Spec => []TypeOK
<1>1. IInv /\ Counted => TypeOK
  <2> SUFFICES ASSUME IInv, Counted PROVE TypeOK
    OBVIOUS
  <2>1. /\ Types /\ OneAnswer(messages, calls) /\ handlers \in Nat
        /\ calls \in [Calls -> States]
    BY DEF IInv, Types
  <2>2. handlers \in 0 .. MaxConnects /\ connects \in 0 .. MaxConnects
    BY <2>1, Numbers
  <2>3. connecting => \E c \in Calls : calls[c] \in {"connecting", "answered connect"}
    BY DEF Counted, Waiting
  <2>4. ASSUME NEW c \in Calls
        PROVE  LET answers == {i \in DOMAIN messages : messages[i] # Event /\ messages[i].call = c} IN
               \/ calls[c] \in {"free", "connecting", "disconnecting"} /\ answers = {}
               \/ /\ calls[c] \in {"answered connect", "answered disconnect"}
                  /\ \E i \in answers : answers = {i}
    <3> DEFINE answers == {i \in DOMAIN messages : messages[i] # Event /\ messages[i].call = c}
    <3>1. CASE calls[c] \in {"answered connect", "answered disconnect"}
      <4>1. PICK i \in DOMAIN messages : messages[i] # Event /\ messages[i].call = c
        BY <3>1 DEF Counted, HasAnswer
      <4>2. \A j \in answers : j = i
        BY <2>1, <4>1 DEF OneAnswer
      <4>3. i \in answers /\ answers = {i}
        BY <4>1, <4>2
      <4> QED
        BY <3>1, <4>3
    <3>2. CASE calls[c] \notin {"answered connect", "answered disconnect"}
      <4>1. answers = {}
        BY <2>1, <3>2 DEF OneAnswer
      <4>2. calls[c] \in {"free", "connecting", "disconnecting"}
        BY <2>1, <3>2 DEF States
      <4> QED
        BY <4>1, <4>2
    <3> QED
      BY <3>1, <3>2
  <2> QED
    BY <2>1, <2>2, <2>3, <2>4 DEF TypeOK, Types, Counted
<1> QED
  BY <1>1, Invariant, CountedHolds, PTL
=============================================================================
