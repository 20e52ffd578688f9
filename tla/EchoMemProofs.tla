---------------------------- MODULE EchoMemProofs ----------------------------
(***************************************************************************)
(* The echo service over channels in shared memory, and over fifos: each   *)
(* client gets the responses to its own requests, and no client holds the  *)
(* server up, for any number of clients, of requests and of places, and    *)
(* whichever processes are killed.                                         *)
(***************************************************************************)
EXTENDS MCEchoMem, SequenceTheorems, FiniteSetTheorems, TLAPS

-----------------------------------------------------------------------------
(***************************************************************************)
(* The inductive invariant: of each client there is one request at most,   *)
(* in the server's channel, in the hands of the server or, answered, in    *)
(* the client's channel, and only while the client waits for it, or was    *)
(* killed.                                                                 *)
(***************************************************************************)

Places == {"down", "get", "open", "put"}

EchoTypes ==
  /\ channel \in {NONE} \cup Seq(Messages)
  /\ resp \in [Clients -> {NONE} \cup Seq(Messages)]
  /\ srv \in Places
  /\ msg \in {NONE} \cup Messages
  /\ cli \in [Clients -> {"open", "put", "get", "ended"}]
  /\ try \in [Clients -> 1..(Tries + 1)]
  /\ answers \in [Clients -> Seq(Messages)]
  /\ crashes \in Nat

\* Who has opened a channel finds it.
Opened ==
  /\ srv # "down" => channel # NONE
  /\ \A c \in Clients :
       /\ cli[c] = "open" => try[c] = 1
       /\ cli[c] \in {"put", "get"} => resp[c] # NONE /\ channel # NONE /\ try[c] \in 1..Tries

\* A request that is still to be answered, or an answer to it: its sender waits
\* for it, or was killed.
Current(m) ==
  /\ m \in Messages
  /\ cli[m.sender] \in {"get", "ended"}
  /\ cli[m.sender] = "get" => m.msg = try[m.sender]
  /\ cli[m.sender] = "ended" => crashes > 0

Unanswered(m) == Current(m) /\ resp[m.sender] = <<>>

Holding == srv \in {"open", "put"}

QueuedOnce ==
  channel # NONE =>
    \A i \in 1..Len(channel) :
      /\ Unanswered(channel[i])
      /\ Holding => msg.sender # channel[i].sender
      /\ \A j \in 1..Len(channel) : channel[j].sender = channel[i].sender => i = j

HeldOnce == Holding => Unanswered(msg)

Answers ==
  \A c \in Clients :
    resp[c] \notin {NONE, <<>>} =>
      \E m \in Messages : resp[c] = <<m>> /\ m.sender = c /\ Current(m)

Bounded == ipc = "memory" /\ channel # NONE => Len(channel) <= MaxMsgs

EchoInv ==
  /\ EchoTypes /\ Opened /\ QueuedOnce /\ HeldOnce /\ Answers /\ Bounded /\ OwnAnswers
  /\ ipc \in {"memory", "fifo"}

-----------------------------------------------------------------------------
(***************************************************************************)
(* Requests in a channel.                                                  *)
(***************************************************************************)

LEMMA AppendRequest ==
  ASSUME NEW s \in Seq(Messages), NEW m \in Messages
  PROVE  /\ Append(s, m) \in Seq(Messages) /\ Len(s) \in Nat
         /\ Len(Append(s, m)) = Len(s) + 1
         /\ \A i \in 1..(Len(s) + 1) : i \in 1..Len(s) \/ i = Len(s) + 1
         /\ \A i \in 1..Len(s) : Append(s, m)[i] = s[i]
         /\ Append(s, m)[Len(s) + 1] = m
OBVIOUS

LEMMA TailRequests ==
  ASSUME NEW s \in Seq(Messages), s # <<>>
  PROVE  /\ Tail(s) \in Seq(Messages) /\ Head(s) \in Messages /\ Head(s) = s[1]
         /\ Len(s) \in Nat \ {0} /\ 1 \in 1..Len(s) /\ Len(Tail(s)) = Len(s) - 1
         /\ \A i \in 1..Len(Tail(s)) :
              Tail(s)[i] = s[i + 1] /\ i + 1 \in 1..Len(s) /\ i + 1 # 1
         /\ \A i, j \in 1..Len(Tail(s)) : i + 1 = j + 1 => i = j
OBVIOUS

LEMMA NoRequests == <<>> \in Seq(Messages) /\ Len(<<>>) = 0 /\ \A i \in 1..0 : FALSE
OBVIOUS

LEMMA OneRequest ==
  ASSUME NEW m \in Messages
  PROVE  /\ <<m>> \in Seq(Messages) /\ <<m>> # <<>> /\ Len(<<m>>) = 1
         /\ Append(<<>>, m) = <<m>> /\ Head(<<m>>) = m /\ Tail(<<m>>) = <<>>
OBVIOUS

LEMMA NoneIsNoChannel ==
  ASSUME NEW s \in Seq(Messages)
  PROVE  s # NONE
BY EchoMemAssumption DEF Messages

LEMMA EchoInvInit == MCInit => EchoInv
<1>. SUFFICES ASSUME MCInit PROVE EchoInv
  OBVIOUS
<1>. USE DEF MCInit, Init
<1>1. 1 \in 1..(Tries + 1)
  BY EchoMemAssumption
<1>2. EchoTypes
  BY <1>1, NoRequests DEF EchoTypes, Places
<1>3. OwnAnswers
  BY DEF OwnAnswers
<1>. QED BY <1>2, <1>3 DEF EchoInv, Opened, QueuedOnce, HeldOnce, Holding, Answers, Bounded

-----------------------------------------------------------------------------
(***************************************************************************)
(* The server's steps; what they do is the same over both kinds of         *)
(* channels, except for what is lost with a process.                       *)
(***************************************************************************)

\* The channel may have been emptied.
Kept == channel' = channel \/ (channel # NONE /\ channel' = <<>>)

LEMMA KeptChannel ==
  ASSUME EchoInv, Kept
  PROVE  /\ channel' \in {NONE} \cup Seq(Messages)
         /\ channel' # NONE <=> channel # NONE
         /\ channel' # NONE => Len(channel') <= Len(channel) \/ Len(channel') = 0
         /\ channel' # NONE /\ ipc = "memory" => Len(channel') <= MaxMsgs
<1>1. CASE channel' = channel
  BY <1>1 DEF EchoInv, EchoTypes, Bounded
<1>2. CASE channel # NONE /\ channel' = <<>>
  <2>1. /\ <<>> \in Seq(Messages) /\ Len(<<>>) = 0 /\ <<>> # NONE
        /\ MaxMsgs \in Nat /\ 0 <= MaxMsgs
    <3>1. <<>> \in Seq(Messages) /\ Len(<<>>) = 0
      BY NoRequests
    <3>2. <<>> # NONE
      BY <3>1, NoneIsNoChannel
    <3>3. MaxMsgs \in Nat /\ 0 <= MaxMsgs
      BY EchoMemAssumption
    <3>. QED BY <3>1, <3>2, <3>3
  <2>. QED BY <1>2, <2>1
<1>. QED BY <1>1, <1>2 DEF Kept

\* What was queued stays so where its sender is as it was.
LEMMA KeptOnce ==
  ASSUME EchoInv, Kept,
         \A m : Unanswered(m) /\ (Holding => msg.sender # m.sender)
                  => Unanswered(m)' /\ (Holding' => msg'.sender # m.sender)
  PROVE  QueuedOnce'
<1>1. CASE channel' = channel
  <2>. SUFFICES ASSUME channel # NONE, NEW q, q = channel, NEW i \in 1..Len(q)
                PROVE  /\ Unanswered(q[i])'
                       /\ Holding' => msg'.sender # q[i].sender
                       /\ \A j \in 1..Len(q) : q[j].sender = q[i].sender => i = j
    BY <1>1 DEF QueuedOnce
  <2>1. /\ Unanswered(q[i])
        /\ Holding => msg.sender # q[i].sender
        /\ \A j \in 1..Len(q) : q[j].sender = q[i].sender => i = j
    BY DEF EchoInv, QueuedOnce
  <2>. QED BY <2>1
<1>2. CASE channel' = <<>>
  BY <1>2, NoRequests DEF QueuedOnce
<1>. QED BY <1>1, <1>2 DEF Kept

LEMMA ClientsAsBefore ==
  ASSUME EchoInv, UNCHANGED <<cliVars, resp>>, crashes' \in Nat, crashes > 0 => crashes' > 0
  PROVE  /\ \A m : Unanswered(m) => Unanswered(m)'
         /\ \A m : Current(m) => Current(m)'
         /\ Answers' /\ OwnAnswers'
<1>1. cli' = cli /\ try' = try /\ answers' = answers /\ resp' = resp
  BY DEF cliVars
<1>2. \A m : Current(m) => Current(m)'
  BY <1>1 DEF Current
<1>. QED BY <1>1, <1>2 DEF EchoInv, Unanswered, Answers, OwnAnswers

\* The server creates its channel, or finds it as it was.
LEMMA SrvCreates ==
  ASSUME EchoInv, ipc' = ipc, srv = "down", srv' = "get",
         Kept \/ channel' = <<>>, channel' # NONE,
         UNCHANGED <<resp, msg, cliVars, crashes>>
  PROVE  EchoInv'
<1>1. cli' = cli /\ try' = try /\ answers' = answers /\ resp' = resp /\ msg' = msg /\ crashes' = crashes
  BY DEF cliVars
<1>2. /\ \A m : Unanswered(m) => Unanswered(m)'
      /\ Answers' /\ OwnAnswers'
  BY ClientsAsBefore DEF EchoInv, EchoTypes
<1>3. channel' \in Seq(Messages) /\ (ipc = "memory" => Len(channel') <= MaxMsgs)
  <2>1. CASE Kept
    BY <2>1, KeptChannel
  <2>2. CASE channel' = <<>>
    <3>1. <<>> \in Seq(Messages) /\ Len(<<>>) = 0 /\ MaxMsgs \in Nat /\ 0 <= MaxMsgs
      BY NoRequests, EchoMemAssumption
    <3>. QED BY <2>2, <3>1
  <2>. QED BY <2>1, <2>2
<1>4. ~Holding'
  BY DEF Holding
<1>5. QueuedOnce'
  <2>1. CASE Kept
    BY <1>2, <1>4, <2>1, KeptOnce
  <2>2. CASE channel' = <<>>
    BY <2>2, NoRequests DEF QueuedOnce
  <2>. QED BY <2>1, <2>2
<1>6. EchoTypes' /\ Opened'
  BY <1>1, <1>3 DEF EchoInv, EchoTypes, Opened, Places
<1>. QED BY <1>2, <1>3, <1>4, <1>5, <1>6 DEF EchoInv, HeldOnce, Bounded

LEMMA SrvGets ==
  ASSUME EchoInv, ipc' = ipc, srv = "get", srv' = "open", channel # <<>>,
         msg' = Head(channel), channel' = Tail(channel),
         UNCHANGED <<resp, cliVars, crashes>>
  PROVE  EchoInv'
<1>1. cli' = cli /\ try' = try /\ answers' = answers /\ resp' = resp /\ crashes' = crashes
  BY DEF cliVars
<1>2. /\ \A m : Unanswered(m) => Unanswered(m)'
      /\ Answers' /\ OwnAnswers'
  BY ClientsAsBefore DEF EchoInv, EchoTypes
<1>3. channel \in Seq(Messages) /\ channel # NONE
  BY DEF EchoInv, EchoTypes, Opened
<1>. SUFFICES ASSUME NEW q, q = channel, NEW r, r = Tail(q) PROVE EchoInv'
  OBVIOUS
<1>4. /\ r \in Seq(Messages) /\ Head(q) \in Messages /\ Head(q) = q[1]
      /\ Len(q) \in Nat \ {0} /\ 1 \in 1..Len(q) /\ Len(r) = Len(q) - 1
      /\ \A i \in 1..Len(r) : r[i] = q[i + 1] /\ i + 1 \in 1..Len(q) /\ i + 1 # 1
      /\ \A i, j \in 1..Len(r) : i + 1 = j + 1 => i = j
  BY <1>3, TailRequests
<1>5. /\ \A i \in 1..Len(q) : Unanswered(q[i])
      /\ \A i, j \in 1..Len(q) : q[j].sender = q[i].sender => i = j
  BY <1>3 DEF EchoInv, QueuedOnce
<1>6. channel' = r /\ msg' = q[1]
  BY <1>4
<1>7. HeldOnce'
  BY <1>2, <1>4, <1>5, <1>6 DEF HeldOnce
<1>8. QueuedOnce'
  <2>. SUFFICES ASSUME NEW i \in 1..Len(r)
                PROVE  /\ Unanswered(r[i])'
                       /\ q[1].sender # r[i].sender
                       /\ \A j \in 1..Len(r) : r[j].sender = r[i].sender => i = j
    BY <1>6 DEF QueuedOnce
  <2>1. Unanswered(r[i])'
    BY <1>2, <1>4, <1>5
  <2>2. q[1].sender # r[i].sender
    BY <1>4, <1>5
  <2>3. \A j \in 1..Len(r) : r[j].sender = r[i].sender => i = j
    BY <1>4, <1>5
  <2>. QED BY <2>1, <2>2, <2>3
<1>9. channel' # NONE
  BY <1>4, <1>6, NoneIsNoChannel
<1>10. Bounded'
  <2>1. ipc = "memory" => Len(q) <= MaxMsgs
    BY <1>3 DEF EchoInv, Bounded
  <2>2. MaxMsgs \in Nat
    BY EchoMemAssumption
  <2>. QED BY <1>4, <1>6, <2>1, <2>2 DEF Bounded
<1>11. EchoTypes' /\ Opened'
  BY <1>1, <1>4, <1>6, <1>9 DEF EchoInv, EchoTypes, Opened, Places
<1>. QED BY <1>2, <1>7, <1>8, <1>10, <1>11 DEF EchoInv

LEMMA SrvOpens ==
  ASSUME EchoInv, ipc' = ipc, srv = "open",
         srv' = IF resp[msg.sender] = NONE THEN "ended" ELSE "put", Kept,
         UNCHANGED <<resp, msg, cliVars, crashes>>
  PROVE  EchoInv'
<1>1. cli' = cli /\ try' = try /\ answers' = answers /\ resp' = resp /\ msg' = msg /\ crashes' = crashes
  BY DEF cliVars
<1>2. /\ \A m : Unanswered(m) => Unanswered(m)'
      /\ Answers' /\ OwnAnswers'
  BY ClientsAsBefore DEF EchoInv, EchoTypes
<1>3. Unanswered(msg) /\ Holding
  BY DEF EchoInv, HeldOnce, Holding
<1>4. srv' = "put"
  BY <1>3, NoRequests, NoneIsNoChannel DEF Unanswered
<1>5. HeldOnce'
  BY <1>1, <1>2, <1>3 DEF HeldOnce
<1>6. QueuedOnce'
  BY <1>1, <1>2, <1>3, KeptOnce
<1>7. EchoTypes' /\ Opened' /\ Bounded'
  BY <1>1, <1>4, KeptChannel DEF EchoInv, EchoTypes, Opened, Bounded, Places
<1>. QED BY <1>2, <1>5, <1>6, <1>7 DEF EchoInv

\* The server answers, or nobody is there to read the answer.
LEMMA SrvPuts ==
  ASSUME EchoInv, ipc' = ipc, srv = "put", srv' = "get",
         \/ resp' = resp
         \/ resp' = [resp EXCEPT ![msg.sender] = Append(@, msg)],
         UNCHANGED <<channel, msg, cliVars, crashes>>
  PROVE  EchoInv'
<1>1. /\ cli' = cli /\ try' = try /\ answers' = answers /\ crashes' = crashes
      /\ channel' = channel /\ msg' = msg
  BY DEF cliVars
<1>2. OwnAnswers' /\ \A m : Current(m) => Current(m)'
  BY <1>1 DEF EchoInv, OwnAnswers, Current
<1>3. Unanswered(msg) /\ Holding /\ ~Holding'
  BY DEF EchoInv, HeldOnce, Holding
<1>4. msg \in Messages /\ msg.sender \in Clients /\ resp[msg.sender] = <<>>
  BY <1>3 DEF Unanswered, Current, Messages
<1>5. Append(<<>>, msg) = <<msg>> /\ <<msg>> \in Seq(Messages) /\ <<msg>> # NONE
  BY <1>4, OneRequest, NoneIsNoChannel
<1>6. /\ resp' \in [Clients -> {NONE} \cup Seq(Messages)]
      /\ resp'[msg.sender] \in {<<>>, <<msg>>} /\ resp'[msg.sender] # NONE
      /\ \A c \in Clients : c # msg.sender => resp'[c] = resp[c]
  <2>1. resp \in [Clients -> {NONE} \cup Seq(Messages)]
    BY DEF EchoInv, EchoTypes
  <2>2. <<>> \in Seq(Messages) /\ <<>> # NONE
    BY NoRequests, NoneIsNoChannel
  <2>3. resp' = resp \/ resp' = [resp EXCEPT ![msg.sender] = <<msg>>]
    BY <1>4, <1>5
  <2>4. CASE resp' = resp
    BY <1>4, <2>1, <2>2, <2>4
  <2>5. CASE resp' = [resp EXCEPT ![msg.sender] = <<msg>>]
    BY <1>4, <1>5, <2>1, <2>5
  <2>. QED BY <2>3, <2>4, <2>5
<1>7. Answers'
  <2>. SUFFICES ASSUME NEW c \in Clients, resp'[c] \notin {NONE, <<>>}
                PROVE  \E m \in Messages : resp'[c] = <<m>> /\ m.sender = c /\ Current(m)'
    BY DEF Answers
  <2>1. CASE c = msg.sender
    BY <1>2, <1>3, <1>4, <1>6, <2>1 DEF Unanswered
  <2>2. CASE c # msg.sender
    BY <1>2, <1>6, <2>2 DEF EchoInv, Answers
  <2>. QED BY <2>1, <2>2
<1>8. QueuedOnce'
  <2>. SUFFICES ASSUME NEW m, Unanswered(m), msg.sender # m.sender
                PROVE  Unanswered(m)'
    BY <1>1, <1>3, KeptOnce DEF Kept
  <2>1. m.sender \in Clients
    BY DEF Unanswered, Current, Messages
  <2>. QED BY <1>2, <1>6, <2>1 DEF Unanswered
<1>9. EchoTypes' /\ Opened' /\ Bounded'
  <2>1. \A c \in Clients : resp[c] # NONE => resp'[c] # NONE
    BY <1>6
  <2>. QED BY <1>1, <1>6, <2>1 DEF EchoInv, EchoTypes, Opened, Bounded, Places
<1>. QED BY <1>2, <1>3, <1>7, <1>8, <1>9 DEF EchoInv, HeldOnce

\* The server is killed, and with it what it was answering is lost.
LEMMA SrvKilled ==
  ASSUME EchoInv, ipc' = ipc, srv' = "down", msg' = NONE, Kept, crashes' = crashes + 1,
         UNCHANGED <<resp, cliVars>>
  PROVE  EchoInv'
<1>1. cli' = cli /\ try' = try /\ answers' = answers /\ resp' = resp
  BY DEF cliVars
<1>2. crashes' \in Nat /\ crashes' > 0
  BY DEF EchoInv, EchoTypes
<1>3. /\ \A m : Unanswered(m) => Unanswered(m)'
      /\ Answers' /\ OwnAnswers'
  BY <1>2, ClientsAsBefore
<1>4. ~Holding'
  BY DEF Holding
<1>5. QueuedOnce'
  BY <1>3, <1>4, KeptOnce
<1>6. EchoTypes' /\ Opened' /\ Bounded'
  BY <1>1, <1>2, KeptChannel DEF EchoInv, EchoTypes, Opened, Bounded, Places
<1>. QED BY <1>3, <1>4, <1>5, <1>6 DEF EchoInv, HeldOnce

-----------------------------------------------------------------------------
(***************************************************************************)
(* The steps of a client, which leave the other clients, and what is on    *)
(* its way for them, alone.                                                *)
(***************************************************************************)

OthersStay(c) ==
  /\ \A d \in Clients : d # c => cli'[d] = cli[d] /\ try'[d] = try[d] /\ resp'[d] = resp[d]
  /\ crashes' \in Nat /\ (crashes > 0 => crashes' > 0)

LEMMA OthersAsBefore ==
  ASSUME EchoInv, NEW c \in Clients, OthersStay(c)
  PROVE  /\ \A m : Unanswered(m) /\ m.sender # c => Unanswered(m)'
         /\ \A d \in Clients \ {c} : resp'[d] \notin {NONE, <<>>} =>
              \E m \in Messages : resp'[d] = <<m>> /\ m.sender = d /\ Current(m)'
<1>1. ASSUME NEW m, Current(m), m.sender # c PROVE Current(m)' /\ m.sender \in Clients
  <2>1. m.sender \in Clients
    BY <1>1 DEF Current, Messages
  <2>. QED BY <1>1, <2>1 DEF OthersStay, Current
<1>2. \A m : Unanswered(m) /\ m.sender # c => Unanswered(m)'
  BY <1>1 DEF OthersStay, Unanswered
<1>3. ASSUME NEW d \in Clients \ {c}, resp'[d] \notin {NONE, <<>>}
      PROVE  \E m \in Messages : resp'[d] = <<m>> /\ m.sender = d /\ Current(m)'
  <2>1. resp'[d] = resp[d]
    BY DEF OthersStay
  <2>2. PICK m \in Messages : resp[d] = <<m>> /\ m.sender = d /\ Current(m)
    BY <1>3, <2>1 DEF EchoInv, Answers
  <2>. QED BY <1>1, <2>1, <2>2
<1>. QED BY <1>2, <1>3

\* The client neither sends nor has what it waits for taken away.
LEMMA ClientMoves ==
  ASSUME EchoInv, NEW c \in Clients, OthersStay(c), Kept, UNCHANGED srvVars,
         \A m : Unanswered(m) /\ m.sender = c => Unanswered(m)',
         \/ resp'[c] \in {NONE, <<>>}
         \/ resp'[c] = resp[c] /\ \A m : Current(m) /\ m.sender = c => Current(m)'
  PROVE  QueuedOnce' /\ HeldOnce' /\ Answers'
<1>0. srv' = srv /\ msg' = msg
  BY DEF srvVars
<1>1. \A m : Unanswered(m) => Unanswered(m)'
  BY OthersAsBefore
<1>2. Holding' <=> Holding
  BY <1>0 DEF Holding
<1>3. QueuedOnce'
  BY <1>0, <1>1, <1>2, KeptOnce
<1>4. HeldOnce'
  BY <1>0, <1>1, <1>2 DEF EchoInv, HeldOnce
<1>5. Answers'
  <2>. SUFFICES ASSUME NEW d \in Clients, resp'[d] \notin {NONE, <<>>}
                PROVE  \E m \in Messages : resp'[d] = <<m>> /\ m.sender = d /\ Current(m)'
    BY DEF Answers
  <2>1. CASE d = c
    <3>1. resp'[c] = resp[c] /\ \A m : Current(m) /\ m.sender = c => Current(m)'
      BY <2>1
    <3>2. PICK m \in Messages : resp[c] = <<m>> /\ m.sender = c /\ Current(m)
      BY <2>1, <3>1 DEF EchoInv, Answers
    <3>. QED BY <2>1, <3>1, <3>2
  <2>2. CASE d # c
    BY <2>2, OthersAsBefore
  <2>. QED BY <2>1, <2>2
<1>. QED BY <1>3, <1>4, <1>5

LEMMA CliOpens ==
  ASSUME EchoInv, ipc' = ipc, NEW c \in Clients, cli[c] = "open",
         cli' = [cli EXCEPT ![c] = IF channel = NONE THEN "ended" ELSE "put"],
         resp' = IF channel = NONE THEN resp ELSE [resp EXCEPT ![c] = <<>>],
         UNCHANGED <<channel, srvVars, try, answers, crashes>>
  PROVE  EchoInv'
<1>1. /\ channel' = channel /\ srv' = srv /\ msg' = msg /\ try' = try
      /\ answers' = answers /\ crashes' = crashes
  BY DEF srvVars
<1>2. EchoTypes /\ Opened
  BY DEF EchoInv
<1>3. <<>> \in Seq(Messages) /\ <<>> # NONE
  BY NoRequests, NoneIsNoChannel
<1>4. \A m : ~(Current(m) /\ m.sender = c)
  BY DEF Current
<1>5. resp[c] \in {NONE, <<>>}
  BY <1>4 DEF EchoInv, Answers
<1>6. resp'[c] \in {NONE, <<>>} /\ (channel # NONE => resp'[c] # NONE)
  BY <1>2, <1>3, <1>5 DEF EchoTypes
<1>7. OthersStay(c)
  BY <1>1, <1>2 DEF OthersStay, EchoTypes
<1>8. QueuedOnce' /\ HeldOnce' /\ Answers'
  BY <1>1, <1>4, <1>6, <1>7, ClientMoves DEF Kept, Unanswered
<1>9. EchoTypes'
  BY <1>1, <1>2, <1>3 DEF EchoTypes
<1>10. Opened'
  <2>. SUFFICES ASSUME NEW d \in Clients
                PROVE  /\ cli'[d] = "open" => try[d] = 1
                       /\ cli'[d] \in {"put", "get"} =>
                            resp'[d] # NONE /\ channel # NONE /\ try[d] \in 1..Tries
    BY <1>1, <1>2 DEF Opened
  <2>1. CASE d = c
    <3>1. try[c] = 1 /\ 1 \in 1..Tries
      BY <1>2, EchoMemAssumption DEF Opened
    <3>2. cli'[c] = IF channel = NONE THEN "ended" ELSE "put"
      BY <1>2 DEF EchoTypes
    <3>. QED BY <1>6, <2>1, <3>1, <3>2
  <2>2. CASE d # c
    BY <1>2, <1>7, <2>2 DEF Opened, OthersStay
  <2>. QED BY <2>1, <2>2
<1>11. OwnAnswers' /\ Bounded'
  BY <1>1 DEF EchoInv, OwnAnswers, Bounded
<1>. QED BY <1>8, <1>9, <1>10, <1>11 DEF EchoInv

\* The request is queued, or lost.
LEMMA CliPuts ==
  ASSUME EchoInv, ipc' = ipc, NEW c \in Clients, cli[c] = "put",
         \/ channel' = channel
         \/ /\ channel' = Append(channel, [sender |-> c, msg |-> try[c]])
            /\ ipc = "memory" => Len(channel) < MaxMsgs,
         cli' = [cli EXCEPT ![c] = "get"],
         UNCHANGED <<resp, srvVars, try, answers, crashes>>
  PROVE  EchoInv'
<1>1. /\ resp' = resp /\ srv' = srv /\ msg' = msg /\ try' = try
      /\ answers' = answers /\ crashes' = crashes
  BY DEF srvVars
<1>2. EchoTypes /\ Opened
  BY DEF EchoInv
<1>3. \A m : ~(Current(m) /\ m.sender = c)
  BY DEF Current
<1>4. resp[c] # NONE /\ channel # NONE /\ channel \in Seq(Messages) /\ try[c] \in 1..Tries
  BY <1>2 DEF EchoTypes, Opened
<1>5. resp[c] = <<>>
  BY <1>3, <1>4 DEF EchoInv, Answers
<1>6. OthersStay(c)
  BY <1>1, <1>2 DEF OthersStay, EchoTypes
<1>7. /\ cli' \in [Clients -> {"open", "put", "get", "ended"}]
      /\ cli'[c] = "get" /\ \A d \in Clients : d # c => cli'[d] = cli[d]
  BY <1>2 DEF EchoTypes
<1>8. Opened' \/ channel' = NONE
  BY <1>1, <1>2, <1>4, <1>7 DEF Opened
<1>9. OwnAnswers'
  BY <1>1 DEF EchoInv, OwnAnswers
<1>10. CASE channel' = channel
  <2>1. QueuedOnce' /\ HeldOnce' /\ Answers'
    BY <1>1, <1>3, <1>5, <1>6, <1>10, ClientMoves DEF Kept, Unanswered
  <2>2. EchoTypes' /\ Bounded'
    BY <1>1, <1>2, <1>7, <1>10 DEF EchoInv, EchoTypes, Bounded
  <2>. QED BY <1>4, <1>8, <1>9, <1>10, <2>1, <2>2 DEF EchoInv
<1>11. CASE channel' # channel
  <2>. SUFFICES ASSUME NEW q, q = channel, NEW m, m = [sender |-> c, msg |-> try[c]]
                PROVE  EchoInv'
    OBVIOUS
  <2>1. m \in Messages /\ m.sender = c /\ m.msg = try[c]
    BY <1>4 DEF Messages
  <2>2. q \in Seq(Messages) /\ channel' = Append(q, m) /\ (ipc = "memory" => Len(q) < MaxMsgs)
    BY <1>4, <1>11
  <2>3. /\ channel' \in Seq(Messages) /\ Len(q) \in Nat /\ Len(channel') = Len(q) + 1
        /\ \A i \in 1..(Len(q) + 1) : i \in 1..Len(q) \/ i = Len(q) + 1
        /\ \A i \in 1..Len(q) : channel'[i] = q[i]
        /\ channel'[Len(q) + 1] = m
    BY <2>1, <2>2, AppendRequest
  <2>4. channel' # NONE
    BY <2>3, NoneIsNoChannel
  <2>5. Current(m)' /\ Unanswered(m)'
    BY <1>1, <1>5, <1>7, <2>1 DEF Current, Unanswered
  <2>6. ASSUME NEW i \in 1..Len(q)
        PROVE  /\ Unanswered(q[i]) /\ q[i].sender # c
               /\ Holding => msg.sender # q[i].sender
               /\ \A j \in 1..Len(q) : q[j].sender = q[i].sender => i = j
    BY <1>3, <1>4 DEF EchoInv, QueuedOnce, Unanswered
  <2>7. \A n : Unanswered(n) /\ n.sender # c => Unanswered(n)'
    BY <1>6, OthersAsBefore
  <2>8. Holding => Unanswered(msg) /\ msg.sender # c
    BY <1>3 DEF EchoInv, HeldOnce, Unanswered
  <2>9. Holding' <=> Holding
    BY <1>1 DEF Holding
  <2>10. QueuedOnce'
    <3>. SUFFICES ASSUME NEW i \in 1..(Len(q) + 1), NEW n, n = channel'[i]
                  PROVE  /\ Unanswered(n)'
                         /\ Holding => msg.sender # n.sender
                         /\ \A j \in 1..(Len(q) + 1) : channel'[j].sender = n.sender => i = j
      BY <1>1, <2>3, <2>9 DEF QueuedOnce
    <3>1. CASE i \in 1..Len(q)
      BY <2>1, <2>3, <2>6, <2>7, <3>1
    <3>2. CASE i = Len(q) + 1
      BY <2>1, <2>3, <2>5, <2>6, <2>8, <3>2
    <3>. QED BY <2>3, <3>1, <3>2
  <2>11. HeldOnce'
    BY <1>1, <2>7, <2>8, <2>9 DEF HeldOnce
  <2>12. Answers'
    <3>. SUFFICES ASSUME NEW d \in Clients, resp'[d] \notin {NONE, <<>>}
                  PROVE  \E n \in Messages : resp'[d] = <<n>> /\ n.sender = d /\ Current(n)'
      BY DEF Answers
    <3>1. d # c
      BY <1>1, <1>5
    <3>. QED BY <1>6, <3>1, OthersAsBefore
  <2>13. Bounded'
    <3>1. MaxMsgs \in Nat
      BY EchoMemAssumption
    <3>2. ipc = "memory" => Len(q) + 1 <= MaxMsgs
      BY <2>2, <2>3, <3>1
    <3>. QED BY <2>3, <3>2 DEF Bounded
  <2>14. EchoTypes'
    BY <1>1, <1>2, <1>7, <2>3 DEF EchoTypes
  <2>. QED BY <1>8, <1>9, <2>4, <2>10, <2>11, <2>12, <2>13, <2>14 DEF EchoInv
<1>. QED BY <1>10, <1>11

\* The answers a client has when it is at its n-th request.
AnswersUpTo(s, c, n) ==
  /\ s \in Seq(Messages) /\ Len(s) = n - 1
  /\ \A i \in 1..Len(s) : s[i] = [sender |-> c, msg |-> i]

LEMMA OneMoreAnswer ==
  ASSUME NEW c, NEW s, NEW n \in 1..Tries, NEW m \in Messages, m.sender = c, m.msg = n,
         AnswersUpTo(s, c, n)
  PROVE  AnswersUpTo(Append(s, m), c, n + 1)
<1>0. s \in Seq(Messages) /\ Len(s) = n - 1
  BY DEF AnswersUpTo
<1>1. n \in Nat /\ Len(s) + 1 = n /\ (n + 1) - 1 = n
  BY <1>0, EchoMemAssumption
<1>2. m = [sender |-> c, msg |-> n]
  BY DEF Messages
<1>3. /\ Append(s, m) \in Seq(Messages) /\ Len(Append(s, m)) = Len(s) + 1
      /\ \A i \in 1..(Len(s) + 1) : i \in 1..Len(s) \/ i = Len(s) + 1
      /\ \A i \in 1..Len(s) : Append(s, m)[i] = s[i]
      /\ Append(s, m)[Len(s) + 1] = m
  BY <1>0, AppendRequest
<1>4. \A i \in 1..Len(Append(s, m)) : Append(s, m)[i] = [sender |-> c, msg |-> i]
  BY <1>1, <1>2, <1>3 DEF AnswersUpTo
<1>. QED BY <1>1, <1>3, <1>4 DEF AnswersUpTo

\* The client gets the answer; with the last one it may remove its channel.
LEMMA CliGets ==
  ASSUME EchoInv, ipc' = ipc, NEW c \in Clients, cli[c] = "get", resp[c] # <<>>,
         answers' = [answers EXCEPT ![c] = Append(@, Head(resp[c]))],
         try' = [try EXCEPT ![c] = @ + 1],
         cli' = [cli EXCEPT ![c] = IF try[c] < Tries THEN "put" ELSE "ended"],
         \/ resp' = [resp EXCEPT ![c] = Tail(@)]
         \/ try[c] >= Tries /\ resp' = [resp EXCEPT ![c] = NONE],
         Kept, UNCHANGED <<srvVars, crashes>>
  PROVE  EchoInv'
<1>1. srv' = srv /\ msg' = msg /\ crashes' = crashes
  BY DEF srvVars
<1>2. EchoTypes /\ Opened
  BY DEF EchoInv
<1>3. resp[c] # NONE /\ channel # NONE /\ try[c] \in 1..Tries
  BY <1>2 DEF Opened
<1>4. PICK m \in Messages : resp[c] = <<m>> /\ m.sender = c /\ Current(m)
  BY <1>3 DEF EchoInv, Answers
<1>5. m.msg = try[c] /\ Head(resp[c]) = m /\ Tail(resp[c]) = <<>>
  BY <1>4, OneRequest DEF Current
<1>6. <<>> \in Seq(Messages) /\ <<>> # NONE
  BY NoRequests, NoneIsNoChannel
<1>7. /\ resp' \in [Clients -> {NONE} \cup Seq(Messages)]
      /\ resp'[c] \in {NONE, <<>>} /\ (try[c] < Tries => resp'[c] # NONE)
      /\ \A d \in Clients : d # c => resp'[d] = resp[d]
  <2>1. resp \in [Clients -> {NONE} \cup Seq(Messages)]
    BY <1>2 DEF EchoTypes
  <2>2. CASE resp' = [resp EXCEPT ![c] = Tail(@)]
    BY <1>5, <1>6, <2>1, <2>2
  <2>3. CASE try[c] >= Tries /\ resp' = [resp EXCEPT ![c] = NONE]
    <3>1. ~(try[c] < Tries)
      BY <1>3, <2>3, EchoMemAssumption
    <3>. QED BY <2>1, <2>3, <3>1
  <2>. QED BY <2>2, <2>3
<1>8. /\ cli' \in [Clients -> {"open", "put", "get", "ended"}]
      /\ cli'[c] = IF try[c] < Tries THEN "put" ELSE "ended"
      /\ \A d \in Clients : d # c => cli'[d] = cli[d]
  BY <1>2 DEF EchoTypes
<1>9. /\ try[c] + 1 \in 1..(Tries + 1) /\ (try[c] < Tries => try[c] + 1 \in 1..Tries)
  BY <1>3, EchoMemAssumption
<1>10. /\ try' \in [Clients -> 1..(Tries + 1)]
       /\ try'[c] = try[c] + 1
       /\ \A d \in Clients : d # c => try'[d] = try[d]
  BY <1>2, <1>9 DEF EchoTypes
<1>11. answers[c] \in Seq(Messages)
  BY <1>2 DEF EchoTypes
<1>12. AnswersUpTo(Append(answers[c], m), c, try[c] + 1)
  <2>1. AnswersUpTo(answers[c], c, try[c])
    BY <1>11 DEF EchoInv, OwnAnswers, AnswersUpTo
  <2>. QED BY <1>3, <1>4, <1>5, <2>1, OneMoreAnswer
<1>13. /\ answers' \in [Clients -> Seq(Messages)]
       /\ answers'[c] = Append(answers[c], m)
       /\ \A d \in Clients : d # c => answers'[d] = answers[d]
  BY <1>2, <1>5, <1>12 DEF EchoTypes, AnswersUpTo
<1>14. OwnAnswers'
  <2>. SUFFICES ASSUME NEW d \in Clients
                PROVE  /\ Len(answers'[d]) = try'[d] - 1
                       /\ \A i \in 1..Len(answers'[d]) : answers'[d][i] = [sender |-> d, msg |-> i]
    BY DEF OwnAnswers
  <2>1. CASE d = c
    BY <1>10, <1>12, <1>13, <2>1 DEF AnswersUpTo
  <2>2. CASE d # c
    BY <1>10, <1>13, <2>2 DEF EchoInv, OwnAnswers
  <2>. QED BY <2>1, <2>2
<1>15. OthersStay(c)
  BY <1>1, <1>2, <1>7, <1>8, <1>10 DEF OthersStay, EchoTypes
<1>16. QueuedOnce' /\ HeldOnce' /\ Answers'
  BY <1>1, <1>7, <1>15, ClientMoves DEF Unanswered
<1>17. channel' # NONE /\ channel' \in {NONE} \cup Seq(Messages) /\ Bounded'
  BY <1>3, KeptChannel DEF Bounded
<1>18. Opened'
  <2>. SUFFICES ASSUME NEW d \in Clients
                PROVE  /\ cli'[d] = "open" => try'[d] = 1
                       /\ cli'[d] \in {"put", "get"} => resp'[d] # NONE /\ try'[d] \in 1..Tries
    BY <1>17 DEF Opened
  <2>1. CASE d = c
    BY <1>7, <1>8, <1>9, <1>10, <2>1
  <2>2. CASE d # c
    BY <1>2, <1>7, <1>8, <1>10, <2>2 DEF Opened
  <2>. QED BY <2>1, <2>2
<1>19. EchoTypes'
  BY <1>1, <1>2, <1>7, <1>8, <1>10, <1>13, <1>17 DEF EchoTypes
<1>. QED BY <1>14, <1>16, <1>17, <1>18, <1>19 DEF EchoInv

\* A client is killed; its channel stays, and may have been emptied.
LEMMA CliKilled ==
  ASSUME EchoInv, ipc' = ipc, NEW c \in Clients,
         cli' = [cli EXCEPT ![c] = "ended"], crashes' = crashes + 1,
         \/ resp' = resp
         \/ cli[c] \in {"put", "get"} /\ resp' = [resp EXCEPT ![c] = <<>>],
         Kept, UNCHANGED <<srvVars, try, answers>>
  PROVE  EchoInv'
<1>1. srv' = srv /\ msg' = msg /\ try' = try /\ answers' = answers
  BY DEF srvVars
<1>2. EchoTypes /\ Opened
  BY DEF EchoInv
<1>3. crashes' \in Nat /\ crashes' > 0
  BY <1>2 DEF EchoTypes
<1>4. /\ cli' \in [Clients -> {"open", "put", "get", "ended"}]
      /\ cli'[c] = "ended" /\ \A d \in Clients : d # c => cli'[d] = cli[d]
  BY <1>2 DEF EchoTypes
<1>5. <<>> \in Seq(Messages) /\ <<>> # NONE
  BY NoRequests, NoneIsNoChannel
<1>6. /\ resp' \in [Clients -> {NONE} \cup Seq(Messages)]
      /\ resp'[c] \in {resp[c], <<>>}
      /\ \A d \in Clients : d # c => resp'[d] = resp[d]
  <2>1. resp \in [Clients -> {NONE} \cup Seq(Messages)]
    BY <1>2 DEF EchoTypes
  <2>. QED BY <1>5, <2>1
<1>7. OthersStay(c)
  BY <1>1, <1>3, <1>4, <1>6 DEF OthersStay
<1>8. \A m : Current(m) /\ m.sender = c => Current(m)'
  BY <1>3, <1>4 DEF Current
<1>9. \A m : Unanswered(m) /\ m.sender = c => Unanswered(m)'
  BY <1>6, <1>8 DEF Unanswered
<1>10. QueuedOnce' /\ HeldOnce' /\ Answers'
  BY <1>6, <1>7, <1>8, <1>9, ClientMoves
<1>11. channel' \in {NONE} \cup Seq(Messages) /\ (channel' # NONE <=> channel # NONE) /\ Bounded'
  BY KeptChannel DEF Bounded
<1>12. Opened'
  BY <1>1, <1>2, <1>4, <1>6, <1>11 DEF Opened
<1>13. EchoTypes'
  BY <1>1, <1>2, <1>3, <1>4, <1>6, <1>11 DEF EchoTypes
<1>14. OwnAnswers'
  BY <1>1 DEF EchoInv, OwnAnswers
<1>. QED BY <1>10, <1>11, <1>12, <1>13, <1>14 DEF EchoInv

-----------------------------------------------------------------------------
(***************************************************************************)
(* The steps of the two services.                                          *)
(***************************************************************************)

LEMMA RemainsIsKept ==
  ASSUME channel' = Remains
  PROVE  Kept
BY DEF Remains, Kept

LEMMA MemoryStep ==
  ASSUME EchoInv, ipc' = ipc, ipc = "memory", Next
  PROVE  EchoInv'
<1>1. CASE SrvCreate
  <2>1. channel' # NONE
    BY <1>1, NoRequests, NoneIsNoChannel DEF SrvCreate
  <2>. QED BY <1>1, <2>1, SrvCreates DEF SrvCreate
<1>2. CASE SrvGet
  BY <1>2, SrvGets DEF SrvGet
<1>3. CASE SrvOpen
  BY <1>3, SrvOpens DEF SrvOpen, Kept
<1>4. CASE SrvPut
  BY <1>4, SrvPuts DEF SrvPut
<1>5. CASE SrvCrash
  BY <1>5, SrvKilled DEF SrvCrash, Crash, Kept
<1>6. ASSUME NEW c \in Clients, CliOpen(c) PROVE EchoInv'
  BY <1>6, CliOpens DEF CliOpen
<1>7. ASSUME NEW c \in Clients, CliPut(c) PROVE EchoInv'
  BY <1>7, CliPuts DEF CliPut
<1>8. ASSUME NEW c \in Clients, CliGet(c) PROVE EchoInv'
  <2>1. UNCHANGED <<srvVars, crashes>> /\ Kept
    BY <1>8 DEF CliGet, Kept
  <2>2. \/ resp' = [resp EXCEPT ![c] = Tail(@)]
        \/ try[c] >= Tries /\ resp' = [resp EXCEPT ![c] = NONE]
    BY <1>8 DEF CliGet
  <2>. QED BY <1>8, <2>1, <2>2, CliGets DEF CliGet
<1>9. ASSUME NEW c \in Clients, CliCrash(c) PROVE EchoInv'
  <2>1. Kept /\ UNCHANGED <<resp, srvVars, try, answers>>
    BY <1>9 DEF CliCrash, Kept
  <2>. QED BY <1>9, <2>1, CliKilled DEF CliCrash, Crash
<1>10. CASE Ended
  BY <1>10 DEF Ended, vars, srvVars, cliVars, EchoInv, EchoTypes, Opened, QueuedOnce,
               HeldOnce, Holding, Unanswered, Current, Answers, Bounded, OwnAnswers
<1>. QED
  BY <1>1, <1>2, <1>3, <1>4, <1>5, <1>6, <1>7, <1>8, <1>9, <1>10 DEF Next, SrvStep, CliStep

LEMMA FifoStep ==
  ASSUME EchoInv, ipc' = ipc, ipc = "fifo", FifoNext
  PROVE  EchoInv'
<1>1. CASE FifoSrvCreate
  <2>1. channel' # NONE /\ (Kept \/ channel' = <<>>)
    BY <1>1, NoRequests, NoneIsNoChannel DEF FifoSrvCreate, Kept
  <2>. QED BY <1>1, <2>1, SrvCreates DEF FifoSrvCreate
<1>2. CASE FifoSrvGet
  BY <1>2, SrvGets DEF FifoSrvGet
<1>3. CASE FifoSrvOpen
  BY <1>3, SrvOpens, RemainsIsKept DEF FifoSrvOpen
<1>4. CASE FifoSrvPut
  BY <1>4, SrvPuts DEF FifoSrvPut
<1>5. CASE FifoSrvCrash
  <2>1. UNCHANGED <<resp, cliVars>>
    BY <1>5 DEF FifoSrvCrash, cliVars
  <2>. QED BY <1>5, <2>1, SrvKilled, RemainsIsKept DEF FifoSrvCrash, Crash
<1>6. ASSUME NEW c \in Clients, FifoCliOpen(c) PROVE EchoInv'
  BY <1>6, CliOpens DEF FifoCliOpen
<1>7. ASSUME NEW c \in Clients, FifoCliPut(c) PROVE EchoInv'
  BY <1>7, CliPuts DEF FifoCliPut
<1>8. ASSUME NEW c \in Clients, FifoCliGet(c) PROVE EchoInv'
  <2>1. UNCHANGED <<srvVars, crashes>> /\ Kept
    BY <1>8, RemainsIsKept DEF FifoCliGet, srvVars
  <2>2. \/ resp' = [resp EXCEPT ![c] = Tail(@)]
        \/ try[c] >= Tries /\ resp' = [resp EXCEPT ![c] = NONE]
    <3>1. try[c] \in Nat /\ Tries \in Nat
      BY EchoMemAssumption DEF EchoInv, EchoTypes
    <3>2. try[c] < Tries \/ try[c] >= Tries
      BY <3>1
    <3>. QED BY <1>8, <3>2 DEF FifoCliGet
  <2>. QED BY <1>8, <2>1, <2>2, CliGets DEF FifoCliGet
<1>9. ASSUME NEW c \in Clients, FifoCliCrash(c) PROVE EchoInv'
  <2>1. Kept /\ UNCHANGED <<srvVars, try, answers>>
    BY <1>9, RemainsIsKept DEF FifoCliCrash, srvVars
  <2>. QED BY <1>9, <2>1, CliKilled DEF FifoCliCrash, Crash, Reading
<1>10. CASE FifoEnded
  BY <1>10 DEF FifoEnded, vars, srvVars, cliVars, EchoInv, EchoTypes, Opened, QueuedOnce,
               HeldOnce, Holding, Unanswered, Current, Answers, Bounded, OwnAnswers
<1>. QED
  BY <1>1, <1>2, <1>3, <1>4, <1>5, <1>6, <1>7, <1>8, <1>9, <1>10
  DEF FifoNext, FifoSrvStep, FifoCliStep

LEMMA EchoInvNext == EchoInv /\ [MCNext]_mcVars => EchoInv'
<1>1. CASE UNCHANGED mcVars
  BY <1>1 DEF mcVars, vars, srvVars, cliVars, EchoInv, EchoTypes, Opened, QueuedOnce,
              HeldOnce, Holding, Unanswered, Current, Answers, Bounded, OwnAnswers
<1>. QED BY <1>1, MemoryStep, FifoStep DEF MCNext

LEMMA EchoInvAlways == MCSpec => []EchoInv
BY EchoInvInit, EchoInvNext, PTL DEF MCSpec

-----------------------------------------------------------------------------
(***************************************************************************)
(* What the invariant says.                                                *)
(***************************************************************************)

\* No channel has more requests than there are clients: each is of another one.
LEMMA NoMoreThanClients ==
  ASSUME EchoInv, channel # NONE
  PROVE  Len(channel) <= Cardinality(Clients)
<1>1. IsFiniteSet(Clients) /\ Cardinality(Clients) \in Nat
  BY EchoMemAssumption, FS_CardinalityType
<1>2. channel \in Seq(Messages) /\ Len(channel) \in Nat
  BY DEF EchoInv, EchoTypes
<1>. SUFFICES ASSUME NEW q, q = channel, Cardinality(Clients) < Len(q) PROVE FALSE
  BY <1>1, <1>2
<1>. DEFINE sender == [i \in 1..Len(q) |-> q[i].sender]
<1>3. /\ \A i \in 1..Len(q) : q[i].sender \in Clients
      /\ \A i, j \in 1..Len(q) : q[j].sender = q[i].sender => i = j
  BY DEF EchoInv, QueuedOnce, Unanswered, Current, Messages
<1>4. IsFiniteSet(1..Len(q)) /\ Cardinality(1..Len(q)) = Len(q)
  <2>1. 1 \in Int /\ Len(q) \in Int /\ ~(1 > Len(q)) /\ Len(q) - 1 + 1 = Len(q)
    BY <1>1, <1>2
  <2>. QED BY <2>1, FS_Interval
<1>5. sender \in [1..Len(q) -> Clients]
  BY <1>3
<1>6. Cardinality(Clients) < Cardinality(1..Len(q))
  BY <1>4
<1>7. \E i, j \in 1..Len(q) : i # j /\ sender[i] = sender[j]
  <2>. DEFINE places == 1..Len(q)
  <2>1. IsFiniteSet(places) /\ Cardinality(Clients) < Cardinality(places) /\ sender \in [places -> Clients]
    BY <1>4, <1>5, <1>6
  <2>. HIDE DEF sender, places
  <2>2. \E i, j \in places : i # j /\ sender[i] = sender[j]
    BY <1>1, <2>1, FS_PigeonHole
  <2>. QED BY <2>2 DEF places
<1>. QED BY <1>3, <1>7

LEMMA SeqIsFunction ==
  ASSUME NEW s \in Seq(Messages), NEW n \in Nat, Len(s) <= n
  PROVE  s \in ChannelType(n)
<1>1. Len(s) \in 0..n /\ s \in [1..Len(s) -> Messages]
  OBVIOUS
<1>. QED BY <1>1 DEF ChannelType

LEMMA RespSmall ==
  ASSUME EchoInv, NEW c \in Clients
  PROVE  /\ resp[c] \in ChannelType(RespCapacity)
         /\ resp[c] # NONE => Len(resp[c]) <= 1
<1>1. CASE resp[c] = NONE
  BY <1>1 DEF ChannelType
<1>2. CASE resp[c] = <<>>
  <2>1. <<>> \in Seq(Messages) /\ Len(<<>>) <= 1 /\ 1 \in Nat
    OBVIOUS
  <2>. QED BY <1>2, <2>1, SeqIsFunction DEF RespCapacity
<1>3. CASE resp[c] \notin {NONE, <<>>}
  <2>1. PICK m \in Messages : resp[c] = <<m>>
    BY <1>3 DEF EchoInv, Answers
  <2>2. <<m>> \in Seq(Messages) /\ Len(<<m>>) <= 1 /\ 1 \in Nat
    BY OneRequest
  <2>. QED BY <2>1, <2>2, SeqIsFunction DEF RespCapacity
<1>. QED BY <1>1, <1>2, <1>3

LEMMA EchoInvEchoes ==
  ASSUME EchoInv
  PROVE  ClientsEchoed
<1>1. CASE ipc = "memory"
  <2>1. channel \in ChannelType(MaxMsgs)
    <3>1. CASE channel = NONE
      BY <3>1 DEF ChannelType
    <3>2. CASE channel # NONE
      <4>1. channel \in Seq(Messages) /\ Len(channel) <= MaxMsgs /\ MaxMsgs \in Nat
        BY <1>1, <3>2, EchoMemAssumption DEF EchoInv, EchoTypes, Bounded
      <4>. QED BY <4>1, SeqIsFunction
    <3>. QED BY <3>1, <3>2
  <2>2. TypeOK
    BY <2>1, RespSmall DEF EchoInv, EchoTypes, Places, TypeOK
  <2>. QED BY <1>1, <2>2 DEF ClientsEchoed, EchoesOwn, EchoInv
<1>2. CASE ipc # "memory"
  BY <1>2, NoMoreThanClients, RespSmall DEF ClientsEchoed, FifoEchoesOwn, EchoInv
<1>. QED BY <1>1, <1>2

LEMMA EchoInvStays ==
  ASSUME EchoInv
  PROVE  ServerStays
<1>1. srv # "ended"
  BY DEF EchoInv, EchoTypes, Places
<1>2. Holding => resp[msg.sender] = <<>> /\ Current(msg) /\ msg.sender \in Clients
  BY DEF EchoInv, HeldOnce, Unanswered, Current, Messages
<1>3. srv = "put" => Len(resp[msg.sender]) < RespCapacity
  BY <1>2 DEF Holding, RespCapacity
<1>4. ServerStuck => crashes > 0
  BY <1>2 DEF ServerStuck, Reading, Holding, Current
<1>. QED BY <1>1, <1>3, <1>4 DEF ServerStays, ServerNeverStops, FifoServerNeverStops

\* Whichever processes are killed, and however often the server starts again, each
\* client gets the responses to its own requests, one to each and in order, and no
\* channel holds more than it can, or a fifo more than a request of each client.
THEOREM ClientsAreEchoed == MCSpec => []ClientsEchoed
BY EchoInvAlways, EchoInvEchoes, PTL

\* The server never ends, and no client holds it up: in shared memory none at all,
\* over fifos only one that was killed before the server opened its fifo.
THEOREM ServerAlwaysStays == MCSpec => []ServerStays
BY EchoInvAlways, EchoInvStays, PTL
=============================================================================
