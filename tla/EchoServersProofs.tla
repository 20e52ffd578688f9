------------------------- MODULE EchoServersProofs -------------------------
(***************************************************************************)
(* What the echo servers over sockets promise, for any number of clients   *)
(* and requests, any sizes of their tables, and whoever is killed: the     *)
(* tables of the server agree with the kernel's, each client gets its own  *)
(* responses, no loop but that of poll blocks, and clients that leave      *)
(* neither stop the server nor cut the others off.                         *)
(***************************************************************************)
EXTENDS EchoServers, SequenceTheorems, FiniteSetTheorems, TLAPS

-----------------------------------------------------------------------------
(***************************************************************************)
(* The inductive invariant: the connections.                               *)
(***************************************************************************)

Messages == [from : Clients, try : Nat]
Places == {"connect", "write", "read", "close", "done", "refused", "killed"}

NetTypes ==
  /\ cpc \in [Clients -> Places] /\ try \in [Clients -> Nat] /\ got \in [Clients -> Nat]
  /\ listening \in BOOLEAN /\ backlog \in Seq(Clients)
  /\ fd \in [DOMAIN fd -> Clients \cup {NONE}]
  /\ \E n \in NoFile : DOMAIN fd = Fds(n)
  /\ toServer \in [Clients -> Seq(Messages)] /\ toClient \in [Clients -> Seq(Messages)]
  /\ cliEnd \in [Clients -> Ends] /\ srvEnd \in [Clients -> Ends]
  /\ work \in Seq(DOMAIN fd)
  /\ serving \in [Threads -> DOMAIN fd \cup {NONE}]
  /\ held \in [Threads -> Seq(Messages)]

\* A connection that the server has accepted, or can accept, is one client's, has
\* one place, and is not closed on the server's side.
Alive(c) == srvEnd[c] = "up" /\ cpc[c] \notin {"connect", "refused"}
Links ==
  /\ \A f \in Open : Alive(fd[f])
  /\ \A f, g \in Open : fd[f] = fd[g] => f = g
  /\ \A i \in 1..Len(backlog) : Alive(backlog[i])
  /\ \A i, j \in 1..Len(backlog) : backlog[i] = backlog[j] => i = j
  /\ \A f \in Open, i \in 1..Len(backlog) : fd[f] # backlog[i]
  /\ listening \/ backlog = <<>>

\* A thread serves an open connection, alone, and has read nothing otherwise.
ServingSound ==
  /\ \A t \in Threads : serving[t] # NONE => serving[t] \in Open
  /\ \A t \in Threads : serving[t] = NONE => held[t] = <<>>
  /\ \A t, u \in Threads : serving[t] # NONE /\ serving[t] = serving[u] => t = u

\* Where the one message of a connection is.
Nothing(c) == toServer[c] = <<>> /\ toClient[c] = <<>> /\ Held(c) = {}
Asked(c) == toServer[c] = <<Message(c)>> /\ toClient[c] = <<>> /\ Held(c) = {}
Taken(c) ==
  /\ toServer[c] = <<>> /\ toClient[c] = <<>>
  /\ \E t \in Threads : Held(c) = {t} /\ held[t] = <<Message(c)>>
Answered(c) == toServer[c] = <<>> /\ toClient[c] = <<Message(c)>> /\ Held(c) = {}
OnTheWay(c) == Asked(c) \/ Taken(c) \/ Answered(c)

Conversation(c) ==
  /\ Nothing(c) \/ OnTheWay(c)
  /\ cpc[c] = "read" /\ srvEnd[c] = "up" => OnTheWay(c)
  /\ cpc[c] \notin {"read", "killed"} => Nothing(c)
  /\ srvEnd[c] # "up" => toServer[c] = <<>>
  /\ cpc[c] \in {"connect", "refused"} => srvEnd[c] = "up"
  /\ cliEnd[c] # "up" => cpc[c] = "done" \/ (cpc[c] = "killed" /\ c \in Mortal)
  /\ cliEnd[c] = "rst" => Nothing(c)
  /\ try[c] \in 1..(Tries[c] + 1) /\ got[c] < try[c]
  /\ cpc[c] \in {"connect", "write", "read"} => try[c] <= Tries[c]

NetInv ==
  /\ NetTypes /\ Links /\ ServingSound
  /\ \A c \in Clients : Conversation(c)

-----------------------------------------------------------------------------
(***************************************************************************)
(* The inductive invariant: the servers.                                   *)
(***************************************************************************)

\* What the call reported is still there when the loop comes to it.
SelectInv ==
  /\ SelectTables
  /\ clients \in Seq(DOMAIN fd) /\ at \in Nat
  /\ pc \in {"wait", "accept", "scan"}
  /\ pc = "accept" => /\ \A i \in 1..Len(clients) : clients[i] \in ready => Readable(clients[i])
                      /\ ready \subseteq watched
                      /\ ListenFd \in ready => backlog # <<>>
  /\ pc = "scan" => /\ at >= 1
                    /\ \A i \in at..Len(clients) : clients[i] \in ready => Readable(clients[i])

PollInv ==
  /\ PollTables
  /\ clients \in [Slots -> [fd : Nat, revents : BOOLEAN]] /\ at \in Nat
  /\ pc \in {"wait", "accept", "scan"}
  /\ pc = "scan" => at >= 2

EpollInv ==
  /\ EpollTables
  /\ pc \in {"wait", "serve", "ended"}
  /\ pc = "serve" => /\ \A f \in ready \ {StdinFd, ListenFd} : f \in Open /\ Readable(f)
                     /\ StdinFd \in ready => StdinFd \in watched
                     /\ ListenFd \in ready /\ listening => backlog # <<>>

CallbackInv ==
  /\ CallbackTables
  /\ pc \in {"wait", "serve"}
  /\ pc = "serve" => /\ \A f \in ready \ {ListenFd} : f \in watched /\ Readable(f)
                     /\ ListenFd \in ready => backlog # <<>>

UvInv == UvTables /\ pc \in {"wait", "ended"}

\* ConnTables, point by point.
ConnPoints ==
  /\ \A t, u \in Threads : serving[t] # NONE /\ serving[t] = serving[u] => t = u
  /\ \A i, j \in 1..Len(work) : work[i] = work[j] => i = j
  /\ \A t \in Threads : \A i \in 1..Len(work) : serving[t] # work[i]
  /\ \A t \in Threads : serving[t] # NONE => serving[t] \in Open
  /\ \A i \in 1..Len(work) : work[i] \in Open
  /\ \A f \in Open : (\E t \in Threads : serving[t] = f) \/ (\E i \in 1..Len(work) : work[i] = f)

ConnInv ==
  /\ ConnPoints
  /\ pc \in {"wait", "destroy", "ended", "killed"}
  /\ server # "pool" => work = <<>>
  /\ server = "local" /\ pc = "killed" => \E c \in Mortal : cpc[c] = "killed"

Loops == {"select", "poll", "epoll", "callbacks", "uv"}

ServerInv ==
  /\ server \in Loops => \A t \in Threads : serving[t] = NONE
  /\ server = "select" => SelectInv
  /\ server = "poll" => PollInv
  /\ server = "epoll" => EpollInv
  /\ server = "callbacks" => CallbackInv
  /\ server = "uv" => UvInv
  /\ server \notin Loops => ConnInv
  /\ stdin \in {"quiet", "line", "taken"} /\ toDestroy \in BOOLEAN

EchoInv == NetInv /\ ServerInv

-----------------------------------------------------------------------------
(***************************************************************************)
(* Constants, descriptors, and sequences of one message.                   *)
(***************************************************************************)

LEMMA OneMessage ==
  ASSUME NEW S, NEW m \in S
  PROVE  /\ <<m>> # <<>> /\ Head(<<m>>) = m /\ Tail(<<m>>) = <<>> /\ Len(<<m>>) = 1
         /\ Append(<<>>, m) = <<m>> /\ Len(<<>>) = 0 /\ <<m>> \in Seq(S) /\ <<>> \in Seq(S)
         /\ <<m>> \o <<>> = <<m>> /\ <<>> \o <<m>> = <<m>> /\ <<>> \o <<>> = <<>>
OBVIOUS

LEMMA Appended ==
  ASSUME NEW S, NEW s \in Seq(S), NEW e \in S
  PROVE  /\ Append(s, e) \in Seq(S) /\ Append(s, e) # <<>>
         /\ Len(s) \in Nat /\ Len(Append(s, e)) = Len(s) + 1 /\ Append(s, e)[Len(s) + 1] = e
         /\ \A i \in 1..Len(s) : Append(s, e)[i] = s[i] /\ s[i] \in S
         /\ \A i \in 1..Len(Append(s, e)) : i \in 1..Len(s) \/ i = Len(s) + 1
<1>1. /\ Append(s, e) \in Seq(S) /\ Append(s, e) # <<>>
      /\ Len(s) \in Nat /\ Len(Append(s, e)) = Len(s) + 1 /\ Append(s, e)[Len(s) + 1] = e
      /\ \A i \in 1..Len(s) : Append(s, e)[i] = s[i] /\ s[i] \in S
  OBVIOUS
<1>2. \A i \in 1..(Len(s) + 1) : i \in 1..Len(s) \/ i = Len(s) + 1
  BY <1>1
<1>. QED BY <1>1, <1>2

LEMMA Tailed ==
  ASSUME NEW S, NEW s \in Seq(S), s # <<>>
  PROVE  /\ Tail(s) \in Seq(S) /\ Head(s) \in S /\ Head(s) = s[1] /\ 1 \in 1..Len(s)
         /\ \A i \in 1..Len(s) : s[i] \in S
         /\ \A i \in 1..Len(Tail(s)) : i + 1 \in 1..Len(s) /\ Tail(s)[i] = s[i + 1] /\ i + 1 # 1
         /\ \A i \in 1..Len(s) : i # 1 => i - 1 \in 1..Len(Tail(s)) /\ Tail(s)[i - 1] = s[i]
         /\ \A i, j \in 1..Len(Tail(s)) : i + 1 = j + 1 => i = j
OBVIOUS

LEMMA Constants ==
  /\ NONE \notin Clients /\ NONE \notin Nat /\ Mortal \subseteq Clients
  /\ \A c \in Clients : Tries[c] \in Nat \ {0}
  /\ Main \in Threads /\ \A w \in Workers : w \in Threads /\ w # Main
BY SocketsAssumption, EventLoopAssumption, ConnAssumption DEF Threads

LEMMA Descriptors ==
  ASSUME NEW n \in NoFile
  PROVE  /\ IsFiniteSet(Fds(n))
         /\ \A f \in Fds(n) : f \in Nat /\ f >= 4 /\ f # ListenFd /\ f # StdinFd /\ f # NONE
<1>1. n \in Nat
  BY EventLoopAssumption
<1>2. Fds(n) = 4..(3 + n) /\ 3 + n \in Nat /\ 4 \in Nat
  BY <1>1 DEF Fds
<1>3. IsFiniteSet(4..(3 + n))
  BY <1>2, FS_Interval
<1>4. \A f \in 4..(3 + n) : f \in Nat /\ f >= 4 /\ f # 3 /\ f # 0
  BY <1>1
<1>. QED BY <1>2, <1>3, <1>4, Constants DEF ListenFd, StdinFd

LEMMA Opens ==
  ASSUME NetTypes
  PROVE  /\ IsFiniteSet(DOMAIN fd) /\ IsFiniteSet(Open) /\ Open \subseteq DOMAIN fd
         /\ \A f \in DOMAIN fd : f \in Nat /\ f >= 4 /\ f # ListenFd /\ f # StdinFd /\ f # NONE
         /\ \A f \in DOMAIN fd : f \in Open <=> fd[f] # NONE
         /\ \A f \in DOMAIN fd : f \in Free <=> fd[f] = NONE
         /\ \A f \in Open : fd[f] \in Clients
<1>1. PICK n \in NoFile : DOMAIN fd = Fds(n)
  BY DEF NetTypes
<1>2. IsFiniteSet(DOMAIN fd)
  BY <1>1, Descriptors
<1>3. Open \subseteq DOMAIN fd
  BY DEF Open
<1>4. IsFiniteSet(Open)
  BY <1>2, <1>3, FS_Subset
<1>. QED BY <1>1, <1>2, <1>3, <1>4, Descriptors DEF NetTypes, Open, Free

LEMMA Messages1 ==
  ASSUME NetTypes, NEW c \in Clients
  PROVE  Message(c) \in Messages
BY DEF NetTypes, Message, Messages

-----------------------------------------------------------------------------
(***************************************************************************)
(* The steps of the clients.                                               *)
(***************************************************************************)

LEMMA ConversationStays ==
  ASSUME NEW c \in Clients, Conversation(c),
         Held(c)' = Held(c), \A t \in Held(c) : held'[t] = held[t],
         toServer'[c] = toServer[c], toClient'[c] = toClient[c],
         cliEnd'[c] = cliEnd[c], srvEnd'[c] = srvEnd[c],
         cpc'[c] = cpc[c], try'[c] = try[c], got'[c] = got[c]
  PROVE  Conversation(c)'
<1>1. Message(c)' = Message(c)
  BY DEF Message
<1>2. (Nothing(c)' <=> Nothing(c)) /\ (Asked(c)' <=> Asked(c)) /\ (Answered(c)' <=> Answered(c))
  BY <1>1 DEF Nothing, Asked, Answered
<1>3. Taken(c) => Taken(c)'
  BY <1>1 DEF Taken
<1>4. Taken(c)' => Taken(c)
  <2>. SUFFICES ASSUME NEW t \in Threads, Held(c)' = {t}, held'[t] = <<Message(c)'>>,
                       toServer'[c] = <<>>, toClient'[c] = <<>>
                PROVE  Taken(c)
    BY DEF Taken
  <2>. QED BY <1>1 DEF Taken
<1>5. OnTheWay(c)' <=> OnTheWay(c)
  BY <1>2, <1>3, <1>4 DEF OnTheWay
<1>. QED BY <1>2, <1>5 DEF Conversation

\* The threads and the descriptors stay as they are.
LEMMA HeldStays ==
  ASSUME NetInv, NEW c,
         \A t \in Threads : serving'[t] = serving[t] /\ held'[t] = held[t],
         \A f \in Open : fd'[f] = fd[f]
  PROVE  Held(c)' = Held(c)
BY DEF NetInv, ServingSound, Held

\* What the steps of the clients do to what the servers have seen.
ClientsKeep ==
  /\ UNCHANGED <<fd, listening>>
  /\ \A f \in Open : (Readable(f) => Readable(f)') /\ (AtEnd(f) => AtEnd(f)')
  /\ backlog # <<>> => backlog' # <<>>
  /\ \A c \in Clients : cpc[c] = "killed" => cpc'[c] = "killed"

LEMMA ConnectKeeps ==
  ASSUME NetInv, NEW c \in Clients, Connect(c), UNCHANGED connVars
  PROVE  NetInv' /\ ClientsKeep
<1>0. /\ NetTypes /\ Links /\ ServingSound
      /\ \A d \in Clients : Conversation(d)
  BY DEF NetInv
<1>1. /\ cpc[c] = "connect"
      /\ UNCHANGED <<try, got, listening, fd, toServer, toClient, cliEnd, srvEnd, work, serving, held>>
      /\ \/ cpc' = [cpc EXCEPT ![c] = "refused"] /\ backlog' = backlog
         \/ listening /\ cpc' = [cpc EXCEPT ![c] = "write"] /\ backlog' = Append(backlog, c)
  BY DEF Connect, connVars
<1>2. /\ cpc' \in [Clients -> Places] /\ cpc'[c] \in {"refused", "write"}
      /\ \A d \in Clients : d # c => cpc'[d] = cpc[d]
  BY <1>0, <1>1 DEF NetTypes, Places
<1>3. Open' = Open /\ \A f \in Open : fd[f] \in Clients /\ fd'[f] = fd[f] /\ fd[f] # c
  <2>1. Open' = Open /\ fd' = fd
    BY <1>1 DEF Open, Free
  <2>2. \A f \in Open : fd[f] \in Clients /\ fd[f] # c
    BY <1>0, <1>1, Opens DEF Links, Alive
  <2>. QED BY <2>1, <2>2
<1>4. \A d : Held(d)' = Held(d)
  BY <1>1, <1>3, HeldStays
<1>5. Conversation(c)'
  <2>1. Nothing(c) /\ srvEnd[c] = "up" /\ cliEnd[c] = "up"
    BY <1>0, <1>1 DEF Conversation, NetTypes, Ends
  <2>2. Nothing(c)'
    BY <1>1, <1>4, <2>1 DEF Nothing
  <2>. QED BY <1>0, <1>1, <1>2, <2>1, <2>2 DEF Conversation
<1>6. ASSUME NEW d \in Clients PROVE Conversation(d)'
  <2>1. CASE d # c
    BY <1>0, <1>1, <1>2, <1>4, <2>1, ConversationStays
  <2>. QED BY <1>5, <2>1
<1>7. ServingSound'
  BY <1>0, <1>1, <1>3 DEF ServingSound
<1>8. CASE backlog' = backlog
  <2>0. \A d : Alive(d) /\ d \in Clients => Alive(d)'
    BY <1>1, <1>2 DEF Alive
  <2>1. Links'
    <3>1. \A i \in 1..Len(backlog) : backlog[i] \in Clients
      BY <1>0 DEF NetTypes
    <3>. QED BY <1>0, <1>1, <1>3, <1>8, <2>0, <3>1 DEF Links
  <2>2. NetTypes'
    BY <1>0, <1>1, <1>2, <1>8 DEF NetTypes
  <2>. QED BY <1>1, <1>2, <1>3, <1>6, <1>7, <1>8, <2>1, <2>2
           DEF NetInv, ClientsKeep, Readable, AtEnd
<1>9. CASE listening /\ cpc'[c] = "write" /\ backlog' = Append(backlog, c)
  <2>1. /\ backlog' \in Seq(Clients) /\ backlog' # <<>>
        /\ Len(backlog') = Len(backlog) + 1 /\ backlog'[Len(backlog) + 1] = c
        /\ Len(backlog) \in Nat
        /\ \A i \in 1..Len(backlog) : backlog'[i] = backlog[i] /\ backlog[i] \in Clients
        /\ \A i \in 1..Len(backlog') : i \in 1..Len(backlog) \/ i = Len(backlog) + 1
    <3>1. backlog \in Seq(Clients) /\ backlog' = Append(backlog, c)
      BY <1>0, <1>9 DEF NetTypes
    <3>. QED BY <3>1, Appended
  <2>3. \A i \in 1..Len(backlog) : backlog[i] # c /\ Alive(backlog[i])'
    BY <1>0, <1>1, <1>2, <2>1 DEF Links, Alive
  <2>4. Alive(c)'
    BY <1>0, <1>1, <1>9 DEF Alive, Conversation
  <2>5. \A f \in Open : Alive(fd[f])'
    BY <1>0, <1>1, <1>2, <1>3 DEF Links, Alive
  <2>6. \A i \in 1..Len(backlog') : Alive(backlog[i])'
    BY <2>1, <2>3, <2>4
  <2>a. \A i, j \in 1..Len(backlog') : backlog'[i] = backlog'[j] => i = j
    BY <1>0, <2>1, <2>3 DEF Links
  <2>b. \A f \in Open : \A i \in 1..Len(backlog') : fd[f] # backlog'[i]
    BY <1>0, <1>3, <2>1 DEF Links
  <2>7. Links'
    <3>1. /\ \A f \in Open' : Alive(fd[f])'
          /\ \A f, g \in Open' : fd'[f] = fd'[g] => f = g
          /\ \A f \in Open' : \A i \in 1..Len(backlog') : fd'[f] # backlog'[i]
      BY <1>0, <1>3, <2>5, <2>b DEF Links
    <3>. QED BY <1>1, <1>9, <2>6, <2>a, <3>1 DEF Links
  <2>8. NetTypes'
    BY <1>0, <1>1, <1>2, <2>1 DEF NetTypes
  <2>. QED BY <1>1, <1>2, <1>3, <1>6, <1>7, <2>1, <2>7, <2>8
           DEF NetInv, ClientsKeep, Readable, AtEnd
<1>10. cpc' = [cpc EXCEPT ![c] = "write"] => cpc'[c] = "write"
  BY <1>0 DEF NetTypes
<1>. QED BY <1>1, <1>8, <1>9, <1>10

LEMMA RequestKeeps ==
  ASSUME NetInv, NEW c \in Clients, Request(c), UNCHANGED connVars
  PROVE  NetInv' /\ ClientsKeep
<1>0. /\ NetTypes /\ Links /\ ServingSound
      /\ \A d \in Clients : Conversation(d)
  BY DEF NetInv
<1>1. /\ cpc[c] = "write"
      /\ UNCHANGED <<try, got, listening, backlog, fd, toClient, cliEnd, work, serving, held>>
  BY DEF Request, connVars
<1>2. \/ /\ srvEnd[c] = "up" /\ cpc' = [cpc EXCEPT ![c] = "read"] /\ srvEnd' = srvEnd
         /\ toServer' = [toServer EXCEPT ![c] = Append(@, Message(c))]
      \/ /\ srvEnd[c] # "up" /\ cpc' \in {[cpc EXCEPT ![c] = "read"], [cpc EXCEPT ![c] = "killed"]}
         /\ srvEnd' = [srvEnd EXCEPT ![c] = "rst"] /\ toServer' = toServer
  BY DEF Request
<1>3. /\ cpc' \in [Clients -> Places] /\ cpc'[c] \in {"read", "killed"}
      /\ srvEnd' \in [Clients -> Ends] /\ (srvEnd'[c] = "up" <=> srvEnd[c] = "up")
      /\ \A d \in Clients : d # c => cpc'[d] = cpc[d] /\ srvEnd'[d] = srvEnd[d] /\ toServer'[d] = toServer[d]
  BY <1>0, <1>2 DEF NetTypes, Places, Ends
<1>4. Open' = Open /\ \A d : Held(d)' = Held(d)
  BY <1>1, HeldStays DEF Open, Free
<1>5. Nothing(c) /\ Message(c) \in Messages /\ Message(c)' = Message(c) /\ cliEnd[c] = "up"
  BY <1>0, <1>1, Messages1 DEF Conversation, Message
<1>6. /\ toServer' \in [Clients -> Seq(Messages)]
      /\ toServer'[c] = IF srvEnd[c] = "up" THEN <<Message(c)>> ELSE <<>>
  <2>1. toServer[c] = <<>> /\ Append(<<>>, Message(c)) = <<Message(c)>> /\ <<Message(c)>> \in Seq(Messages)
    BY <1>5, OneMessage DEF Nothing
  <2>2. CASE srvEnd[c] = "up"
    <3>1. toServer' = [toServer EXCEPT ![c] = <<Message(c)>>]
      BY <1>2, <2>1, <2>2
    <3>. QED BY <1>0, <2>1, <2>2, <3>1 DEF NetTypes
  <2>3. CASE srvEnd[c] # "up"
    BY <1>0, <1>2, <2>1, <2>3 DEF NetTypes
  <2>. QED BY <2>2, <2>3
<1>7. Conversation(c)'
  <2>1. CASE srvEnd[c] = "up"
    <3>1. Asked(c)'
      BY <1>1, <1>4, <1>5, <1>6, <2>1 DEF Asked, Nothing
    <3>2. cpc'[c] = "read"
      BY <1>0, <1>2, <2>1 DEF NetTypes
    <3>. QED BY <1>0, <1>1, <1>3, <1>5, <2>1, <3>1, <3>2 DEF Conversation, OnTheWay
  <2>2. CASE srvEnd[c] # "up"
    <3>1. Nothing(c)'
      BY <1>1, <1>4, <1>5, <1>6, <2>2 DEF Nothing
    <3>. QED BY <1>0, <1>1, <1>3, <1>5, <1>6, <2>2, <3>1 DEF Conversation
  <2>. QED BY <2>1, <2>2
<1>8. ASSUME NEW d \in Clients PROVE Conversation(d)'
  <2>1. CASE d # c
    BY <1>0, <1>1, <1>3, <1>4, <2>1, ConversationStays
  <2>. QED BY <1>7, <2>1
<1>9. \A d \in Clients : Alive(d) => Alive(d)'
  BY <1>1, <1>3 DEF Alive
<1>10. Links'
  <2>1. \A f \in Open : fd[f] \in Clients
    BY <1>0, Opens
  <2>2. \A i \in 1..Len(backlog) : backlog[i] \in Clients
    BY <1>0 DEF NetTypes
  <2>. QED BY <1>0, <1>1, <1>4, <1>9, <2>1, <2>2 DEF Links
<1>11. NetTypes' /\ ServingSound'
  BY <1>0, <1>1, <1>3, <1>4, <1>6 DEF NetTypes, ServingSound
<1>12. ClientsKeep
  <2>1. \A f \in Open : Readable(f) => Readable(f)'
    <3>1. toServer[c] = <<>> /\ \A f \in Open : fd[f] \in Clients
      BY <1>0, <1>5, Opens DEF Nothing
    <3>. QED BY <1>1, <1>3, <1>5, <3>1 DEF Readable
  <2>2. \A f \in Open : AtEnd(f) => AtEnd(f)'
    BY <1>0, <1>1, <1>3, <1>5, Opens DEF AtEnd
  <2>. QED BY <1>1, <1>3, <2>1, <2>2 DEF ClientsKeep
<1>. QED BY <1>8, <1>10, <1>11, <1>12 DEF NetInv

LEMMA LinksStay ==
  ASSUME NetTypes, Links, UNCHANGED <<fd, backlog, listening>>,
         \A d \in Clients : Alive(d) => Alive(d)'
  PROVE  Links'
<1>1. Open' = Open
  BY DEF Open, Free
<1>2. \A f \in Open : fd[f] \in Clients
  BY Opens
<1>3. \A i \in 1..Len(backlog) : backlog[i] \in Clients
  BY DEF NetTypes
<1>. QED BY <1>1, <1>2, <1>3 DEF Links

LEMMA ResponseKeeps ==
  ASSUME NetInv, NEW c \in Clients, Response(c), UNCHANGED connVars
  PROVE  NetInv' /\ ClientsKeep
<1>0. /\ NetTypes /\ Links /\ ServingSound
      /\ \A d \in Clients : Conversation(d)
  BY DEF NetInv
<1>1. /\ cpc[c] = "read"
      /\ UNCHANGED <<listening, backlog, fd, toServer, cliEnd, srvEnd, work, serving, held>>
      /\ toClient[c] # <<>> \/ srvEnd[c] # "up"
      /\ got' = [got EXCEPT ![c] = IF toClient[c] = <<>> THEN @ ELSE @ + 1]
      /\ toClient' = [toClient EXCEPT ![c] = IF @ = <<>> THEN @ ELSE Tail(@)]
      /\ try' = [try EXCEPT ![c] = @ + 1]
      /\ cpc' = [cpc EXCEPT ![c] = IF try[c] < Tries[c] THEN "write" ELSE "close"]
  BY DEF Response, connVars
<1>2. Open' = Open /\ \A d : Held(d)' = Held(d)
  BY <1>1, HeldStays DEF Open, Free
<1>3. /\ Message(c) \in Messages /\ try[c] \in Nat /\ got[c] \in Nat /\ Tries[c] \in Nat
      /\ try[c] <= Tries[c] /\ try[c] >= 1 /\ got[c] < try[c] /\ cliEnd[c] = "up"
  <2>1. Message(c) \in Messages /\ try[c] \in Nat /\ got[c] \in Nat /\ Tries[c] \in Nat
    BY <1>0, Messages1, Constants DEF NetTypes
  <2>2. /\ try[c] \in 1..(Tries[c] + 1) /\ got[c] < try[c] /\ try[c] <= Tries[c]
        /\ ~(cliEnd[c] # "up")
    BY <1>0, <1>1 DEF Conversation
  <2>. QED BY <2>1, <2>2
<1>4. toServer[c] = <<>> /\ Held(c) = {} /\ toClient[c] \in {<<>>, <<Message(c)>>}
  <2>1. CASE toClient[c] # <<>>
    <3>1. Answered(c)
      BY <1>0, <2>1 DEF Conversation, OnTheWay, Nothing, Asked, Taken
    <3>. QED BY <3>1 DEF Answered
  <2>2. CASE toClient[c] = <<>>
    <3>1. toServer[c] = <<>> /\ srvEnd[c] # "up"
      BY <1>0, <1>1, <2>2 DEF Conversation
    <3>2. ~Taken(c)
      <4>. SUFFICES ASSUME NEW t \in Threads, t \in Held(c) PROVE FALSE
        BY DEF Taken
      <4>1. serving[t] \in Open /\ fd[serving[t]] = c
        BY <1>0 DEF Held, ServingSound
      <4>. QED BY <1>0, <3>1, <4>1 DEF Links, Alive
    <3>3. ~Asked(c) /\ ~Answered(c)
      BY <2>2, <3>1, <1>3, OneMessage DEF Asked, Answered
    <3>. QED BY <1>0, <2>2, <3>2, <3>3 DEF Conversation, OnTheWay, Nothing
  <2>. QED BY <2>1, <2>2
<1>5. toClient' \in [Clients -> Seq(Messages)] /\ toClient'[c] = <<>>
      /\ \A d \in Clients : d # c => toClient'[d] = toClient[d]
  <2>1. toClient' = [toClient EXCEPT ![c] = <<>>]
    <3>1. CASE toClient[c] = <<>>
      BY <1>1, <3>1
    <3>2. CASE toClient[c] = <<Message(c)>>
      <4>1. <<Message(c)>> # <<>> /\ Tail(<<Message(c)>>) = <<>>
        BY <1>3, OneMessage
      <4>. QED BY <1>1, <3>2, <4>1
    <3>. QED BY <1>4, <3>1, <3>2
  <2>2. <<>> \in Seq(Messages)
    OBVIOUS
  <2>. QED BY <1>0, <2>1, <2>2 DEF NetTypes
<1>6. /\ try' \in [Clients -> Nat] /\ try'[c] = try[c] + 1
      /\ got' \in [Clients -> Nat] /\ got'[c] \in {got[c], got[c] + 1}
      /\ cpc' \in [Clients -> Places]
      /\ cpc'[c] = IF try[c] < Tries[c] THEN "write" ELSE "close"
      /\ \A d \in Clients : d # c => cpc'[d] = cpc[d] /\ try'[d] = try[d] /\ got'[d] = got[d]
  <2>1. /\ try' = [try EXCEPT ![c] = try[c] + 1] /\ try \in [Clients -> Nat]
        /\ got \in [Clients -> Nat] /\ cpc \in [Clients -> Places]
    BY <1>0, <1>1 DEF NetTypes
  <2>2. PICK g \in {got[c], got[c] + 1} : got' = [got EXCEPT ![c] = g]
    BY <1>1
  <2>3. PICK p \in {"write", "close"} :
          /\ cpc' = [cpc EXCEPT ![c] = p]
          /\ p = IF try[c] < Tries[c] THEN "write" ELSE "close"
    BY <1>1
  <2>4. p \in Places /\ try[c] + 1 \in Nat /\ g \in Nat
    BY <1>3 DEF Places
  <2>. QED BY <2>1, <2>2, <2>3, <2>4
<1>7. Conversation(c)'
  <2>1. Nothing(c)'
    BY <1>1, <1>2, <1>4, <1>5 DEF Nothing
  <2>2. /\ try'[c] \in 1..(Tries[c] + 1) /\ got'[c] < try'[c]
        /\ cpc'[c] = "write" => try'[c] <= Tries[c]
        /\ cpc'[c] \in {"write", "close"}
    BY <1>3, <1>6
  <2>. QED BY <1>1, <1>3, <1>4, <2>1, <2>2 DEF Conversation
<1>8. ASSUME NEW d \in Clients PROVE Conversation(d)'
  <2>1. CASE d # c
    BY <1>0, <1>1, <1>2, <1>5, <1>6, <2>1, ConversationStays
  <2>. QED BY <1>7, <2>1
<1>9. Links'
  <2>1. \A d \in Clients : Alive(d) => Alive(d)'
    BY <1>1, <1>6 DEF Alive
  <2>. QED BY <1>0, <1>1, <2>1, LinksStay
<1>10. NetTypes' /\ ServingSound'
  BY <1>0, <1>1, <1>2, <1>5, <1>6 DEF NetTypes, ServingSound
<1>11. ClientsKeep
  BY <1>1, <1>6 DEF ClientsKeep, Readable, AtEnd
<1>. QED BY <1>8, <1>9, <1>10, <1>11 DEF NetInv

LEMMA LeaveKeeps ==
  ASSUME NetInv, NEW c \in Clients, CloseClient(c) \/ Kill(c), UNCHANGED connVars
  PROVE  NetInv' /\ ClientsKeep
<1>0. /\ NetTypes /\ Links /\ ServingSound
      /\ \A d \in Clients : Conversation(d)
  BY DEF NetInv
<1>1. /\ UNCHANGED <<try, got, listening, backlog, fd, toServer, srvEnd, work, serving, held>>
      /\ cliEnd' = [cliEnd EXCEPT ![c] = IF toClient[c] = <<>> THEN "fin" ELSE "rst"]
      /\ toClient' = [toClient EXCEPT ![c] = <<>>]
      /\ \/ cpc[c] = "close" /\ cpc' = [cpc EXCEPT ![c] = "done"]
         \/ c \in Mortal /\ cpc[c] \in {"write", "read"} /\ cpc' = [cpc EXCEPT ![c] = "killed"]
  BY DEF CloseClient, Kill, Leave, connVars
<1>2. Open' = Open /\ \A d : Held(d)' = Held(d)
  BY <1>1, HeldStays DEF Open, Free
<1>3. /\ cpc' \in [Clients -> Places] /\ cpc'[c] \in {"done", "killed"}
      /\ cpc'[c] = "killed" => c \in Mortal
      /\ cpc'[c] = "done" => Nothing(c)
      /\ \A d \in Clients : d # c => cpc'[d] = cpc[d]
  BY <1>0, <1>1 DEF NetTypes, Places, Conversation
<1>4. /\ toClient' \in [Clients -> Seq(Messages)] /\ toClient'[c] = <<>>
      /\ cliEnd' \in [Clients -> Ends] /\ cliEnd'[c] \in {"fin", "rst"}
      /\ cliEnd'[c] = "rst" => toClient[c] # <<>>
      /\ \A d \in Clients : d # c => toClient'[d] = toClient[d] /\ cliEnd'[d] = cliEnd[d]
  <2>1. <<>> \in Seq(Messages)
    OBVIOUS
  <2>. QED BY <1>0, <1>1, <2>1 DEF NetTypes, Ends
<1>5. Message(c)' = Message(c)
  BY <1>1 DEF Message
<1>6. (Nothing(c) \/ Answered(c) => Nothing(c)') /\ (Asked(c) => Asked(c)') /\ (Taken(c) => Taken(c)')
  <2>1. Taken(c) => Taken(c)'
    BY <1>1, <1>2, <1>4, <1>5 DEF Taken
  <2>. QED BY <1>1, <1>2, <1>4, <1>5, <2>1 DEF Nothing, Answered, Asked
<1>7. Conversation(c)'
  <2>1. cliEnd'[c] = "rst" => Answered(c)
    BY <1>0, <1>4 DEF Conversation, OnTheWay, Nothing, Asked, Taken
  <2>2. Nothing(c)' \/ OnTheWay(c)'
    BY <1>0, <1>6 DEF Conversation, OnTheWay
  <2>3. cliEnd'[c] = "rst" => Nothing(c)'
    BY <1>6, <2>1
  <2>4. cpc'[c] = "done" => Nothing(c)'
    BY <1>3, <1>6
  <2>. QED BY <1>0, <1>1, <1>3, <1>4, <2>2, <2>3, <2>4 DEF Conversation
<1>8. ASSUME NEW d \in Clients PROVE Conversation(d)'
  <2>1. CASE d # c
    BY <1>0, <1>1, <1>2, <1>3, <1>4, <2>1, ConversationStays
  <2>. QED BY <1>7, <2>1
<1>9. Links'
  <2>1. \A d \in Clients : Alive(d) => Alive(d)'
    BY <1>1, <1>3 DEF Alive
  <2>. QED BY <1>0, <1>1, <2>1, LinksStay
<1>10. NetTypes' /\ ServingSound'
  BY <1>0, <1>1, <1>2, <1>3, <1>4 DEF NetTypes, ServingSound
<1>11. ClientsKeep
  <2>1. \A f \in Open : fd[f] \in Clients
    BY <1>0, Opens
  <2>2. \A d \in Clients : cliEnd[d] # "up" => cliEnd'[d] # "up"
    BY <1>4
  <2>3. \A d \in Clients : cpc[d] = "killed" => cpc'[d] = "killed"
    BY <1>1, <1>3
  <2>. QED BY <1>1, <2>1, <2>2, <2>3 DEF ClientsKeep, Readable, AtEnd
<1>. QED BY <1>8, <1>9, <1>10, <1>11 DEF NetInv

LEMMA ClientKeeps ==
  ASSUME NetInv, NEW c \in Clients, ClientStep(c) \/ Kill(c), UNCHANGED connVars
  PROVE  NetInv' /\ ClientsKeep
BY ConnectKeeps, RequestKeeps, ResponseKeeps, LeaveKeeps DEF ClientStep

-----------------------------------------------------------------------------
(***************************************************************************)
(* The calls of the servers.                                               *)
(***************************************************************************)

\* The connections of S are read as before.
SameReads(S) ==
  \A g \in S : /\ fd'[g] = fd[g]
               /\ Readable(g)' <=> Readable(g)
               /\ AtEnd(g)' <=> AtEnd(g)

LEMMA AcceptKeeps ==
  ASSUME NetInv, NEW f \in Free, Accept(f), UNCHANGED progVars, held' = held,
         work' = work \/ work' = Append(work, f),
         \/ serving' = serving
         \/ serving[Main] = NONE /\ serving' = [serving EXCEPT ![Main] = f]
  PROVE  /\ NetInv' /\ f \in DOMAIN fd /\ f \notin Open /\ Open' = Open \cup {f}
         /\ DOMAIN fd' = DOMAIN fd /\ listening' = listening /\ SameReads(Open)
<1>0. /\ NetTypes /\ Links /\ ServingSound
      /\ \A d \in Clients : Conversation(d)
  BY DEF NetInv
<1> DEFINE c == Head(backlog)
<1>1. /\ fd' = [fd EXCEPT ![f] = c] /\ backlog' = Tail(backlog) /\ backlog # <<>>
      /\ UNCHANGED <<cpc, try, got, listening, toServer, toClient, cliEnd, srvEnd>>
  BY DEF Accept, progVars
<1>2. /\ backlog' \in Seq(Clients) /\ c \in Clients /\ c = backlog[1] /\ 1 \in 1..Len(backlog)
      /\ \A i \in 1..Len(backlog) : backlog[i] \in Clients
      /\ \A i \in 1..Len(backlog') : i + 1 \in 1..Len(backlog) /\ backlog'[i] = backlog[i + 1] /\ i + 1 # 1
      /\ \A i, j \in 1..Len(backlog') : i + 1 = j + 1 => i = j
  <2>1. backlog \in Seq(Clients)
    BY <1>0 DEF NetTypes
  <2>. QED BY <1>1, <2>1, Tailed
<1> HIDE DEF c
<1>3. f \in DOMAIN fd /\ fd[f] = NONE /\ f \notin Open /\ f # NONE /\ c # NONE
  BY <1>0, <1>2, Opens, Constants DEF Free, Open
<1>4. /\ fd' \in [DOMAIN fd -> Clients \cup {NONE}] /\ DOMAIN fd' = DOMAIN fd /\ fd'[f] = c
      /\ \A g \in DOMAIN fd : g # f => fd'[g] = fd[g]
  BY <1>0, <1>1, <1>2, <1>3 DEF NetTypes
<1>5. Open' = Open \cup {f}
  BY <1>3, <1>4 DEF Open, Free
<1>6. \A g \in Open : g # f /\ fd'[g] = fd[g] /\ fd[g] \in Clients /\ fd[g] # c
  BY <1>0, <1>2, <1>3, <1>4, Opens DEF Links
<1>7. SameReads(Open)
  BY <1>1, <1>6 DEF SameReads, Readable, AtEnd
<1>8. \A t \in Threads : /\ serving'[t] = serving[t] \/ (t = Main /\ serving[t] = NONE /\ serving'[t] = f)
                         /\ held'[t] = held[t]
  BY <1>0 DEF NetTypes
<1>9. \A d : Held(d)' = Held(d)
  <2>. SUFFICES ASSUME NEW d, NEW t \in Threads PROVE t \in Held(d)' <=> t \in Held(d)
    BY DEF Held
  <2>1. CASE serving'[t] = serving[t]
    BY <1>0, <1>6, <1>8, <2>1 DEF ServingSound, Held
  <2>2. CASE serving[t] = NONE
    BY <1>0, <1>8, <2>2 DEF ServingSound, Held
  <2>. QED BY <1>8, <2>1, <2>2
<1>10. ASSUME NEW d \in Clients PROVE Conversation(d)'
  BY <1>0, <1>1, <1>8, <1>9, ConversationStays DEF Held
<1>11. Links'
  <2>1. \A d : Alive(d)' <=> Alive(d)
    BY <1>1 DEF Alive
  <2>2. Alive(c)
    BY <1>0, <1>2 DEF Links
  <2>3. \A g \in Open' : Alive(fd[g])'
    BY <1>0, <1>1, <1>4, <1>5, <1>6, <2>2 DEF Links, Alive
  <2>4. \A g, h \in Open' : fd'[g] = fd'[h] => g = h
    BY <1>0, <1>4, <1>5, <1>6 DEF Links
  <2>5. \A i \in 1..Len(backlog') : Alive(backlog[i])'
    BY <1>0, <1>1, <1>2 DEF Links, Alive
  <2>6. \A i, j \in 1..Len(backlog') : backlog'[i] = backlog'[j] => i = j
    BY <1>0, <1>2 DEF Links
  <2>7. \A g \in Open' : \A i \in 1..Len(backlog') : fd'[g] # backlog'[i]
    <3>1. \A i \in 1..Len(backlog') : backlog'[i] # c
      BY <1>0, <1>2 DEF Links
    <3>. QED BY <1>0, <1>2, <1>4, <1>5, <1>6, <3>1 DEF Links
  <2>8. listening' \/ backlog' = <<>>
    BY <1>0, <1>1 DEF Links
  <2>. QED BY <2>3, <2>4, <2>5, <2>6, <2>7, <2>8 DEF Links
<1>12. serving' \in [Threads -> DOMAIN fd' \cup {NONE}] /\ work' \in Seq(DOMAIN fd')
  <2>1. work \in Seq(DOMAIN fd) /\ serving \in [Threads -> DOMAIN fd \cup {NONE}]
    BY <1>0 DEF NetTypes
  <2>2. Append(work, f) \in Seq(DOMAIN fd)
    BY <1>3, <2>1, Appended
  <2>. QED BY <1>3, <1>4, <2>1, <2>2
<1>13. NetTypes'
  BY <1>0, <1>1, <1>2, <1>4, <1>12 DEF NetTypes
<1>14. ServingSound'
  <2>1. \A t \in Threads : serving'[t] # NONE => serving'[t] \in Open'
    BY <1>0, <1>5, <1>8 DEF ServingSound
  <2>2. \A t \in Threads : serving'[t] = NONE => held'[t] = <<>>
    BY <1>0, <1>3, <1>8 DEF ServingSound
  <2>3. \A t, u \in Threads : serving'[t] # NONE /\ serving'[t] = serving'[u] => t = u
    <3>1. \A t \in Threads : serving[t] # f
      BY <1>0, <1>3 DEF ServingSound
    <3>. QED BY <1>0, <1>8, <3>1 DEF ServingSound
  <2>. QED BY <2>1, <2>2, <2>3 DEF ServingSound
<1>. QED BY <1>1, <1>3, <1>4, <1>5, <1>7, <1>10, <1>11, <1>13, <1>14 DEF NetInv

LEMMA AcceptAndCloseKeeps ==
  ASSUME NetInv, AcceptAndClose, UNCHANGED <<progVars, connVars>>
  PROVE  NetInv' /\ UNCHANGED <<fd, listening>> /\ SameReads(Open)
<1>0. /\ NetTypes /\ Links /\ ServingSound
      /\ \A d \in Clients : Conversation(d)
  BY DEF NetInv
<1>a. PICK c \in Clients : c = Head(backlog)
  BY <1>0, Tailed DEF NetTypes, AcceptAndClose
<1>1. /\ srvEnd' = [srvEnd EXCEPT ![c] = Hang(c)] /\ toServer' = [toServer EXCEPT ![c] = <<>>]
      /\ backlog' = Tail(backlog) /\ backlog # <<>>
      /\ UNCHANGED <<cpc, try, got, listening, fd, toClient, cliEnd, work, serving, held>>
  BY <1>a DEF AcceptAndClose, progVars, connVars
<1>2. /\ backlog' \in Seq(Clients) /\ c = backlog[1] /\ 1 \in 1..Len(backlog)
      /\ \A i \in 1..Len(backlog) : backlog[i] \in Clients
      /\ \A i \in 1..Len(backlog') : i + 1 \in 1..Len(backlog) /\ backlog'[i] = backlog[i + 1] /\ i + 1 # 1
      /\ \A i, j \in 1..Len(backlog') : i + 1 = j + 1 => i = j
  <2>1. backlog \in Seq(Clients)
    BY <1>0 DEF NetTypes
  <2>. QED BY <1>1, <1>a, <2>1, Tailed
<1>3. /\ toServer' \in [Clients -> Seq(Messages)] /\ toServer'[c] = <<>>
      /\ srvEnd' \in [Clients -> Ends] /\ srvEnd'[c] # "up"
      /\ \A d \in Clients : d # c => toServer'[d] = toServer[d] /\ srvEnd'[d] = srvEnd[d]
  <2>1. <<>> \in Seq(Messages)
    OBVIOUS
  <2>2. Hang(c) \in {"fin", "rst"}
    BY DEF Hang
  <2>. QED BY <1>0, <1>1, <1>2, <2>1, <2>2 DEF NetTypes, Ends
<1>4. Open' = Open /\ \A d : Held(d)' = Held(d)
  BY <1>1, HeldStays DEF Open, Free
<1>5. \A g \in Open : fd[g] \in Clients /\ fd[g] # c
  BY <1>0, <1>2, Opens DEF Links
<1>6. Conversation(c)'
  <2>1. Held(c) = {}
    BY <1>0, <1>5 DEF Held, ServingSound
  <2>2. ~Taken(c)
    BY <2>1 DEF Taken
  <2>3. toClient[c] = <<>> \/ toClient[c] = <<Message(c)>>
    BY <1>0, <1>2, <2>2 DEF Conversation, OnTheWay, Nothing, Asked, Answered
  <2>4. Message(c)' = Message(c)
    BY <1>1 DEF Message
  <2>5. Nothing(c)' \/ Answered(c)'
    BY <1>1, <1>3, <1>4, <2>1, <2>3, <2>4 DEF Nothing, Answered
  <2>6. Nothing(c) => Nothing(c)'
    BY <1>1, <1>3, <1>4 DEF Nothing
  <2>7. cpc[c] \notin {"connect", "refused"}
    BY <1>0, <1>2 DEF Links, Alive
  <2>. QED BY <1>0, <1>1, <1>2, <1>3, <2>5, <2>6, <2>7 DEF Conversation, OnTheWay
<1>7. ASSUME NEW d \in Clients PROVE Conversation(d)'
  <2>1. CASE d # c
    BY <1>0, <1>1, <1>3, <1>4, <2>1, ConversationStays
  <2>. QED BY <1>6, <2>1
<1>8. Links'
  <2>1. \A d \in Clients : d # c /\ Alive(d) => Alive(d)'
    BY <1>1, <1>3 DEF Alive
  <2>2. \A g \in Open' : Alive(fd[g])'
    BY <1>0, <1>1, <1>4, <1>5, <2>1 DEF Links, Alive
  <2>3. \A i \in 1..Len(backlog') : backlog'[i] # c /\ backlog'[i] \in Clients /\ Alive(backlog'[i])
    BY <1>0, <1>2 DEF Links
  <2>4. \A i \in 1..Len(backlog') : Alive(backlog[i])'
    BY <1>1, <1>3, <2>3 DEF Alive
  <2>5. \A i, j \in 1..Len(backlog') : backlog'[i] = backlog'[j] => i = j
    BY <1>0, <1>2 DEF Links
  <2>6. \A g \in Open' : \A i \in 1..Len(backlog') : fd'[g] # backlog'[i]
    BY <1>0, <1>1, <1>2, <1>4 DEF Links
  <2>7. listening' \/ backlog' = <<>>
    BY <1>0, <1>1 DEF Links
  <2>8. \A g, h \in Open' : fd'[g] = fd'[h] => g = h
    BY <1>0, <1>1, <1>4 DEF Links
  <2>. QED BY <2>2, <2>4, <2>5, <2>6, <2>7, <2>8 DEF Links
<1>9. NetTypes' /\ ServingSound'
  <2>1. NetTypes'
    BY <1>0, <1>1, <1>2, <1>3 DEF NetTypes
  <2>2. ServingSound'
    BY <1>0, <1>1, <1>4 DEF ServingSound
  <2>. QED BY <2>1, <2>2
<1>10. SameReads(Open)
  BY <1>1, <1>3, <1>5 DEF SameReads, Readable, AtEnd
<1>. QED BY <1>1, <1>7, <1>8, <1>9, <1>10 DEF NetInv

LEMMA NetStays ==
  ASSUME NetInv, UNCHANGED <<progVars, netVars, connVars>>
  PROVE  NetInv' /\ UNCHANGED <<fd, listening, backlog>> /\ Open' = Open /\ SameReads(Open)
<1>0. /\ NetTypes /\ Links /\ ServingSound
      /\ \A d \in Clients : Conversation(d)
  BY DEF NetInv
<1>1. UNCHANGED <<cpc, try, got, listening, backlog, fd, toServer, toClient, cliEnd, srvEnd,
                  work, serving, held>>
  BY DEF progVars, netVars, connVars
<1>2. Open' = Open /\ \A d : Held(d)' = Held(d)
  BY <1>1 DEF Open, Free, Held
<1>3. \A d \in Clients : Conversation(d)'
  BY <1>0, <1>1, <1>2, ConversationStays
<1>4. Links'
  BY <1>0, <1>1, LinksStay DEF Alive
<1>5. NetTypes' /\ ServingSound'
  BY <1>0, <1>1, <1>2 DEF NetTypes, ServingSound
<1>. QED BY <1>1, <1>2, <1>3, <1>4, <1>5 DEF NetInv, SameReads, Readable, AtEnd

\* The descriptors fs are closed, and no thread serves them any more.
LEMMA ShutKeeps ==
  ASSUME NetInv, NEW fs \in SUBSET Open, NEW stop \in BOOLEAN, Shut(fs, stop),
         UNCHANGED <<progVars, work>>,
         serving' = [t \in Threads |-> IF serving[t] \in fs THEN NONE ELSE serving[t]],
         held' = [t \in Threads |-> IF serving[t] \in fs THEN <<>> ELSE held[t]]
  PROVE  /\ NetInv' /\ Open' = Open \ fs /\ DOMAIN fd' = DOMAIN fd /\ SameReads(Open \ fs)
         /\ listening' = (listening /\ ~stop) /\ (~stop => backlog' = backlog)
<1>0. /\ NetTypes /\ Links /\ ServingSound
      /\ \A d \in Clients : Conversation(d)
  BY DEF NetInv
<1> DEFINE served == {fd[f] : f \in fs}
           queued == IF stop THEN {backlog[i] : i \in 1..Len(backlog)} ELSE {}
<1>1. /\ listening' = (listening /\ ~stop)
      /\ backlog' = IF stop THEN <<>> ELSE backlog
      /\ fd' = [f \in DOMAIN fd |-> IF f \in fs THEN NONE ELSE fd[f]]
      /\ srvEnd' = [c \in Clients |-> CASE c \in queued -> "rst"
                                      [] c \in served -> Hang(c)
                                      [] OTHER -> srvEnd[c]]
      /\ toServer' = [c \in Clients |-> IF c \in served \cup queued THEN <<>> ELSE toServer[c]]
      /\ UNCHANGED <<cpc, try, got, toClient, cliEnd, work>>
  BY DEF Shut, progVars
<1>2. /\ \A c \in queued : c \notin served /\ c \in Clients /\ \A g \in Open : fd[g] # c
      /\ \A c \in served : c \in Clients /\ \A g \in Open \ fs : fd[g] # c
      /\ \A c \in served \cup queued : Alive(c)
  <2>1. \A f \in fs : fd[f] \in Clients /\ Alive(fd[f])
    BY <1>0, Opens DEF Links
  <2>2. \A i \in 1..Len(backlog) : backlog[i] \in Clients /\ Alive(backlog[i])
    BY <1>0 DEF NetTypes, Links
  <2>3. \A f \in Open : \A i \in 1..Len(backlog) : fd[f] # backlog[i]
    BY <1>0 DEF Links
  <2>4. \A f, g \in Open : fd[f] = fd[g] => f = g
    BY <1>0 DEF Links
  <2>. QED BY <2>1, <2>2, <2>3, <2>4
<1>3. \A f \in Open \ fs : fd[f] \in Clients /\ fd[f] \notin served \cup queued
  BY <1>0, <1>2, Opens
<1> DEFINE gone == served \cup queued
<1>4. /\ \A c \in Clients : c \in gone => toServer'[c] = <<>> /\ srvEnd'[c] \in {"fin", "rst"}
      /\ \A c \in Clients : c \notin gone => toServer'[c] = toServer[c] /\ srvEnd'[c] = srvEnd[c]
      /\ srvEnd' \in [Clients -> Ends] /\ toServer' \in [Clients -> Seq(Messages)]
  <2>1. \A c \in Clients : c \in gone => srvEnd'[c] \in {"fin", "rst"}
    <3>. SUFFICES ASSUME NEW c \in Clients, c \in gone PROVE srvEnd'[c] \in {"fin", "rst"}
      OBVIOUS
    <3>1. Hang(c) \in {"fin", "rst"}
      BY DEF Hang
    <3>2. srvEnd'[c] = CASE c \in queued -> "rst" [] c \in served -> Hang(c) [] OTHER -> srvEnd[c]
      BY <1>1
    <3>3. CASE c \in queued
      <4>1. c \notin served
        BY <1>2, <3>3
      <4>. QED BY <3>2, <3>3, <4>1
    <3>4. CASE c \in served
      <4>1. c \notin queued
        BY <1>2, <3>4
      <4>. QED BY <3>1, <3>2, <3>4, <4>1
    <3>. QED BY <3>3, <3>4
  <2>2. \A c \in Clients : c \notin gone => srvEnd'[c] = srvEnd[c]
    BY <1>1
  <2>3. /\ \A c \in Clients : toServer'[c] = IF c \in gone THEN <<>> ELSE toServer[c]
        /\ <<>> \in Seq(Messages)
    BY <1>1
  <2>4. srvEnd' \in [Clients -> Ends]
    <3>1. \A c \in Clients : srvEnd'[c] \in Ends
      BY <1>0, <2>1, <2>2 DEF NetTypes, Ends
    <3>2. srvEnd' = [c \in Clients |-> srvEnd'[c]]
      BY <1>1
    <3>. QED BY <3>1, <3>2
  <2>5. toServer' \in [Clients -> Seq(Messages)]
    BY <1>0, <1>1, <2>3 DEF NetTypes
  <2>. QED BY <2>1, <2>2, <2>3, <2>4, <2>5
<1>5. \A c \in gone : c \in Clients /\ Alive(c)
  BY <1>2
<1>6. \A g \in Open \ fs : fd[g] \in Clients /\ fd[g] \notin gone
  BY <1>3
<1>7. \A i \in 1..Len(backlog) : backlog[i] \in Clients /\ (~stop => backlog[i] \notin gone)
  <2>1. \A i \in 1..Len(backlog) : backlog[i] \in Clients /\ \A f \in fs : fd[f] # backlog[i]
    <3>1. \A i \in 1..Len(backlog) : backlog[i] \in Clients
      BY <1>0 DEF NetTypes
    <3>2. \A f \in Open, i \in 1..Len(backlog) : fd[f] # backlog[i]
      BY <1>0 DEF Links
    <3>. QED BY <1>1, <3>1, <3>2
  <2>. QED BY <2>1
<1>8. \A c \in gone : \A g \in Open \ fs : fd[g] # c
  BY <1>6
<1> HIDE DEF served, queued, gone
<1>9. /\ DOMAIN fd' = DOMAIN fd /\ \A f \in fs : fd'[f] = NONE
      /\ \A f \in DOMAIN fd : f \notin fs => fd'[f] = fd[f]
  BY <1>0, <1>1, Opens
<1>10. Open' = Open \ fs
  BY <1>0, <1>9, Opens DEF Open, Free
<1>11. \A t \in Threads : /\ serving[t] \in fs => serving'[t] = NONE /\ held'[t] = <<>>
                          /\ serving[t] \notin fs => serving'[t] = serving[t] /\ held'[t] = held[t]
  OBVIOUS
<1>12. \A t \in Threads : serving[t] # NONE => serving[t] \in Open /\ serving[t] \in DOMAIN fd
  BY <1>0, Opens DEF ServingSound
<1>13. \A d : d \in Clients /\ d \notin gone => Held(d)' = Held(d)
  <2>. SUFFICES ASSUME NEW d \in Clients, d \notin gone, NEW t \in Threads
                PROVE  t \in Held(d)' <=> t \in Held(d)
    BY DEF Held
  <2>1. CASE serving[t] \in fs
    <3>1. fd[serving[t]] # d
      <4>1. fd[serving[t]] \in gone
        BY <2>1 DEF gone, served
      <4>. QED BY <4>1
    <3>. QED BY <1>11, <2>1, <3>1 DEF Held
  <2>2. CASE serving[t] \notin fs
    BY <1>9, <1>11, <1>12, <2>2 DEF Held
  <2>. QED BY <2>1, <2>2
<1>14. \A d \in gone : Held(d)' = {}
  <2>. SUFFICES ASSUME NEW d \in gone, NEW t \in Threads, t \in Held(d)' PROVE FALSE
    BY DEF Held
  <2>1. serving'[t] # NONE /\ fd'[serving'[t]] = d
    BY DEF Held
  <2>2. serving[t] \notin fs /\ serving'[t] = serving[t]
    BY <1>11, <2>1
  <2>3. serving[t] \in Open \ fs /\ fd[serving[t]] = d
    BY <1>9, <1>12, <2>1, <2>2
  <2>. QED BY <1>8, <2>3
<1>15. ASSUME NEW d \in Clients, d \notin gone PROVE Conversation(d)'
  <2>1. \A t \in Held(d) : held'[t] = held[t]
    BY <1>11, <1>13, <1>15 DEF Held
  <2>. QED BY <1>0, <1>1, <1>4, <1>13, <1>15, <2>1, ConversationStays
<1>16. ASSUME NEW d \in gone PROVE Conversation(d)'
  <2>1. d \in Clients /\ Alive(d) /\ Conversation(d)
    BY <1>0, <1>5
  <2>2. toServer'[d] = <<>> /\ srvEnd'[d] \in {"fin", "rst"} /\ Held(d)' = {}
    BY <1>4, <1>14, <2>1
  <2>3. toClient'[d] \in {<<>>, <<Message(d)>>}
    BY <1>1, <2>1 DEF Conversation, OnTheWay, Nothing, Asked, Answered, Taken
  <2>4. Message(d)' = Message(d)
    BY <1>1 DEF Message
  <2>5. (Nothing(d)' \/ Answered(d)') /\ (Nothing(d) => Nothing(d)')
    BY <1>1, <2>2, <2>3, <2>4 DEF Nothing, Answered
  <2>. QED BY <1>1, <2>1, <2>2, <2>5 DEF Conversation, Alive, OnTheWay
<1>17. Links'
  <2>1. \A d \in Clients : d \notin gone /\ Alive(d) => Alive(d)'
    BY <1>1, <1>4 DEF Alive
  <2>2. \A g \in Open' : Alive(fd[g])'
    BY <1>0, <1>1, <1>4, <1>6, <1>9, <1>10, Opens DEF Links, Alive
  <2>3. \A g, h \in Open' : fd'[g] = fd'[h] => g = h
    BY <1>0, <1>9, <1>10, Opens DEF Links
  <2>4. CASE stop
    <3>1. Len(backlog') = 0 /\ backlog' = <<>>
      BY <1>1, <2>4
    <3>2. \A i \in 1..Len(backlog') : FALSE
      BY <3>1
    <3>. QED BY <2>2, <2>3, <3>1, <3>2 DEF Links
  <2>5. CASE ~stop
    <3>1. backlog' = backlog /\ listening' = listening
      BY <1>0, <1>1, <2>5 DEF NetTypes
    <3>2. \A i \in 1..Len(backlog) : Alive(backlog[i])'
      BY <1>0, <1>1, <1>4, <1>7, <2>5, <3>1 DEF Links, Alive
    <3>3. \A g \in Open' : \A i \in 1..Len(backlog') : fd'[g] # backlog'[i]
      BY <1>0, <1>9, <1>10, <3>1, Opens DEF Links
    <3>. QED BY <1>0, <2>2, <2>3, <3>1, <3>2, <3>3 DEF Links
  <2>. QED BY <2>4, <2>5
<1>18. NetTypes'
  <2>1. fd' \in [DOMAIN fd' -> Clients \cup {NONE}] /\ \E n \in NoFile : DOMAIN fd' = Fds(n)
    BY <1>0, <1>1, <1>9 DEF NetTypes
  <2>2. backlog' \in Seq(Clients) /\ listening' \in BOOLEAN
    BY <1>0, <1>1 DEF NetTypes
  <2>3. /\ serving' \in [Threads -> DOMAIN fd' \cup {NONE}]
        /\ held' \in [Threads -> Seq(Messages)]
        /\ work' \in Seq(DOMAIN fd')
    <3>1. <<>> \in Seq(Messages)
      OBVIOUS
    <3>. QED BY <1>0, <1>1, <1>9, <3>1 DEF NetTypes
  <2>. QED BY <1>0, <1>1, <1>4, <2>1, <2>2, <2>3 DEF NetTypes
<1>19. ServingSound'
  BY <1>0, <1>10, <1>11, <1>12 DEF ServingSound
<1>20. SameReads(Open \ fs)
  BY <1>0, <1>1, <1>4, <1>6, <1>9, Opens DEF SameReads, Readable, AtEnd
<1>21. ~stop => backlog' = backlog
  BY <1>1
<1>. QED BY <1>1, <1>9, <1>10, <1>15, <1>16, <1>17, <1>18, <1>19, <1>20, <1>21, <1>5 DEF NetInv

\* The message m of connection c, which has nothing else on the way, is written to it.
LEMMA DeliverKeeps ==
  ASSUME NetInv, NEW c \in Clients, NEW m, m = Message(c), Alive(c), OnTheWay(c), toClient[c] = <<>>,
         Deliver(c, m), cliEnd[c] # "rst", toServer'[c] = <<>>, Held(c)' = {},
         UNCHANGED <<cpc, try, got, srvEnd>>
  PROVE  /\ Conversation(c)'
         /\ toClient' \in [Clients -> Seq(Messages)] /\ cliEnd' \in [Clients -> Ends]
         /\ \A d \in Clients : d # c => toClient'[d] = toClient[d] /\ cliEnd'[d] = cliEnd[d]
<1>0. NetTypes /\ Conversation(c)
  BY DEF NetInv
<1>1. m \in Messages /\ Message(c)' = m
  BY <1>0, Messages1 DEF Message
<1>2. Append(<<>>, m) = <<m>> /\ <<m>> \in Seq(Messages) /\ <<m>> # <<>>
  BY <1>1, OneMessage
<1>3. CASE cliEnd[c] = "up"
  <2>1. toClient' = [toClient EXCEPT ![c] = <<m>>] /\ cliEnd' = cliEnd
    BY <1>2, <1>3 DEF Deliver
  <2>2. /\ toClient' \in [Clients -> Seq(Messages)] /\ cliEnd' \in [Clients -> Ends]
        /\ \A d \in Clients : d # c => toClient'[d] = toClient[d]
        /\ toClient'[c] = <<m>>
    BY <1>0, <1>2, <2>1 DEF NetTypes
  <2>3. Answered(c)'
    BY <1>1, <2>2 DEF Answered
  <2>4. cpc[c] \in {"read", "killed"}
    <3>1. ~Nothing(c)
      BY <1>2 DEF OnTheWay, Nothing, Asked, Taken, Answered
    <3>. QED BY <1>0, <3>1 DEF Conversation
  <2>5. Conversation(c)'
    BY <1>0, <1>3, <2>1, <2>3, <2>4 DEF Conversation, OnTheWay
  <2>. QED BY <2>1, <2>2, <2>5
<1>4. CASE cliEnd[c] # "up"
  <2>1. toClient' = toClient /\ cliEnd' = [cliEnd EXCEPT ![c] = "rst"]
    BY <1>4 DEF Deliver
  <2>2. /\ cliEnd' \in [Clients -> Ends] /\ cliEnd'[c] = "rst"
        /\ \A d \in Clients : d # c => cliEnd'[d] = cliEnd[d]
    BY <1>0, <2>1 DEF NetTypes, Ends
  <2>3. Nothing(c)'
    BY <2>1 DEF Nothing
  <2>4. cpc[c] = "done" \/ (cpc[c] = "killed" /\ c \in Mortal)
    BY <1>0, <1>4 DEF Conversation
  <2>5. Conversation(c)'
    BY <1>0, <2>2, <2>3, <2>4 DEF Conversation
  <2>6. toClient' \in [Clients -> Seq(Messages)]
    BY <1>0, <2>1 DEF NetTypes
  <2>. QED BY <2>1, <2>2, <2>5, <2>6
<1>. QED BY <1>3, <1>4

\* The server answers the request of an open connection in one step.
LEMMA EchoBackKeeps ==
  ASSUME NetInv, NEW f \in Open, EchoBack(f), UNCHANGED <<progVars, connVars>>,
         \A t \in Threads : serving[t] = NONE
  PROVE  NetInv' /\ UNCHANGED <<fd, listening, backlog>> /\ Open' = Open /\ SameReads(Open \ {f})
<1>0. /\ NetTypes /\ Links /\ ServingSound
      /\ \A d \in Clients : Conversation(d)
  BY DEF NetInv
<1>a. PICK c \in Clients : c = fd[f]
  BY <1>0, Opens
<1>1. /\ toServer[c] # <<>> /\ cliEnd[c] # "rst"
      /\ toServer' = [toServer EXCEPT ![c] = Tail(@)]
      /\ Deliver(c, Head(toServer[c]))
      /\ UNCHANGED <<cpc, try, got, listening, backlog, fd, srvEnd, work, serving, held>>
  BY <1>a DEF EchoBack, BrokenPipe, progVars, connVars
<1>2. Alive(c)
  BY <1>0, <1>a DEF Links
<1>3. Asked(c) /\ Message(c) \in Messages
  BY <1>0, <1>1, Messages1 DEF Conversation, OnTheWay, Nothing, Taken, Answered
<1>4. Head(toServer[c]) = Message(c) /\ Tail(toServer[c]) = <<>> /\ <<>> \in Seq(Messages)
  BY <1>3, OneMessage DEF Asked
<1>5. /\ toServer' \in [Clients -> Seq(Messages)] /\ toServer'[c] = <<>>
      /\ \A d \in Clients : d # c => toServer'[d] = toServer[d]
  <2>1. toServer' = [toServer EXCEPT ![c] = <<>>]
    BY <1>1, <1>4
  <2>. QED BY <1>0, <1>4, <2>1 DEF NetTypes
<1>6. Open' = Open /\ \A d : Held(d)' = Held(d)
  BY <1>1, HeldStays DEF Open, Free
<1>7. /\ Conversation(c)'
      /\ toClient' \in [Clients -> Seq(Messages)] /\ cliEnd' \in [Clients -> Ends]
      /\ \A d \in Clients : d # c => toClient'[d] = toClient[d] /\ cliEnd'[d] = cliEnd[d]
  <2>1. OnTheWay(c) /\ toClient[c] = <<>> /\ Held(c)' = {}
    BY <1>3, <1>6 DEF OnTheWay, Asked
  <2>. QED BY <1>1, <1>2, <1>4, <1>5, <2>1, DeliverKeeps
<1>8. ASSUME NEW d \in Clients PROVE Conversation(d)'
  <2>1. CASE d # c
    BY <1>0, <1>1, <1>5, <1>6, <1>7, <2>1, ConversationStays
  <2>. QED BY <1>7, <2>1
<1>9. Links'
  BY <1>0, <1>1, LinksStay DEF Alive
<1>10. NetTypes' /\ ServingSound'
  BY <1>0, <1>1, <1>5, <1>6, <1>7 DEF NetTypes, ServingSound
<1>11. SameReads(Open \ {f})
  <2>1. \A g \in Open \ {f} : fd[g] \in Clients /\ fd[g] # c
    BY <1>0, <1>a, Opens DEF Links
  <2>. QED BY <1>1, <1>5, <1>7, <2>1 DEF SameReads, Readable, AtEnd
<1>. QED BY <1>1, <1>6, <1>8, <1>9, <1>10, <1>11 DEF NetInv

LEMMA ConnReadKeeps ==
  ASSUME NetInv, NEW t \in Threads, ConnRead(t), UNCHANGED progVars
  PROVE  NetInv' /\ UNCHANGED <<fd, listening, backlog, work, serving>> /\ Open' = Open
<1>0. /\ NetTypes /\ Links /\ ServingSound
      /\ \A d \in Clients : Conversation(d)
  BY DEF NetInv
<1>a. serving[t] # NONE /\ serving[t] \in Open
  BY <1>0 DEF ConnRead, Serves, ServingSound
<1>b. PICK c \in Clients : c = fd[serving[t]]
  BY <1>0, <1>a, Opens
<1>1. /\ held[t] = <<>> /\ toServer[c] # <<>>
      /\ held' = [held EXCEPT ![t] = <<Head(toServer[c])>>]
      /\ toServer' = [toServer EXCEPT ![c] = Tail(@)]
      /\ UNCHANGED <<cpc, try, got, listening, backlog, fd, toClient, cliEnd, srvEnd, work, serving>>
  BY <1>b DEF ConnRead, Serves, progVars
<1>2. Asked(c) /\ Message(c) \in Messages
  BY <1>0, <1>1, Messages1 DEF Conversation, OnTheWay, Nothing, Taken, Answered
<1>3. /\ Head(toServer[c]) = Message(c) /\ Tail(toServer[c]) = <<>> /\ <<>> \in Seq(Messages)
      /\ <<Message(c)>> \in Seq(Messages) /\ <<Message(c)>> # <<>>
  BY <1>2, OneMessage DEF Asked
<1>4. /\ toServer' \in [Clients -> Seq(Messages)] /\ toServer'[c] = <<>>
      /\ \A d \in Clients : d # c => toServer'[d] = toServer[d]
  <2>1. toServer' = [toServer EXCEPT ![c] = <<>>]
    BY <1>1, <1>3
  <2>. QED BY <1>0, <1>3, <2>1 DEF NetTypes
<1>5. /\ held' \in [Threads -> Seq(Messages)] /\ held'[t] = <<Message(c)>>
      /\ \A u \in Threads : u # t => held'[u] = held[u]
  <2>1. held' = [held EXCEPT ![t] = <<Message(c)>>]
    BY <1>1, <1>3
  <2>. QED BY <1>0, <1>3, <2>1 DEF NetTypes
<1>6. Open' = Open
  BY <1>1 DEF Open, Free
<1>7. Conversation(c)'
  <2>1. Message(c)' = Message(c)
    BY <1>1 DEF Message
  <2>2. Held(c) = {}
    BY <1>2 DEF Asked
  <2>3. Held(c)' = {t}
    BY <1>a, <1>b, <1>1, <1>3, <1>5, <2>2 DEF Held
  <2>4. toClient'[c] = <<>>
    BY <1>1, <1>2 DEF Asked
  <2>5. Taken(c)'
    BY <1>4, <1>5, <2>1, <2>3, <2>4 DEF Taken
  <2>6. ~Nothing(c) /\ Alive(c)
    BY <1>0, <1>a, <1>b, <1>1 DEF Nothing, Links
  <2>. QED BY <1>0, <1>1, <1>4, <2>5, <2>6 DEF Conversation, OnTheWay, Alive
<1>8. ASSUME NEW d \in Clients PROVE Conversation(d)'
  <2>1. CASE d # c
    <3>1. Held(d)' = Held(d)
      BY <1>b, <1>1, <1>5, <2>1 DEF Held
    <3>2. \A u \in Held(d) : held'[u] = held[u]
      BY <1>b, <1>5, <2>1 DEF Held
    <3>. QED BY <1>0, <1>1, <1>4, <2>1, <3>1, <3>2, ConversationStays
  <2>. QED BY <1>7, <2>1
<1>9. Links'
  BY <1>0, <1>1, LinksStay DEF Alive
<1>10. NetTypes' /\ ServingSound'
  BY <1>0, <1>1, <1>a, <1>4, <1>5, <1>6 DEF NetTypes, ServingSound
<1>. QED BY <1>1, <1>6, <1>8, <1>9, <1>10 DEF NetInv

LEMMA ConnWriteKeeps ==
  ASSUME NetInv, NEW t \in Threads, ConnWrite(t), UNCHANGED progVars
  PROVE  NetInv' /\ UNCHANGED <<fd, listening, backlog, work, serving>> /\ Open' = Open
<1>0. /\ NetTypes /\ Links /\ ServingSound
      /\ \A d \in Clients : Conversation(d)
  BY DEF NetInv
<1>a. serving[t] # NONE /\ serving[t] \in Open
  BY <1>0 DEF ConnWrite, Serves, ServingSound
<1>b. PICK c \in Clients : c = fd[serving[t]]
  BY <1>0, <1>a, Opens
<1>1. /\ held[t] # <<>> /\ cliEnd[c] # "rst" /\ Deliver(c, Head(held[t]))
      /\ held' = [held EXCEPT ![t] = <<>>]
      /\ UNCHANGED <<cpc, try, got, listening, backlog, fd, toServer, srvEnd, work, serving>>
  BY <1>b DEF ConnWrite, Serves, BrokenPipe, progVars
<1>2. Taken(c) /\ Held(c) = {t} /\ held[t] = <<Message(c)>> /\ Message(c) \in Messages
  <2>1. t \in Held(c)
    BY <1>a, <1>b, <1>1 DEF Held
  <2>2. Taken(c)
    BY <1>0, <2>1 DEF Conversation, OnTheWay, Nothing, Asked, Answered
  <2>. QED BY <1>0, <2>1, <2>2, Messages1 DEF Taken
<1>3. Head(held[t]) = Message(c) /\ <<>> \in Seq(Messages)
  BY <1>2, OneMessage
<1>4. /\ held' \in [Threads -> Seq(Messages)] /\ held'[t] = <<>>
      /\ \A u \in Threads : u # t => held'[u] = held[u]
  BY <1>0, <1>1, <1>3 DEF NetTypes
<1>5. Open' = Open
  BY <1>1 DEF Open, Free
<1>6. /\ Conversation(c)'
      /\ toClient' \in [Clients -> Seq(Messages)] /\ cliEnd' \in [Clients -> Ends]
      /\ \A d \in Clients : d # c => toClient'[d] = toClient[d] /\ cliEnd'[d] = cliEnd[d]
  <2>1. Held(c)' = {}
    BY <1>1, <1>2, <1>4 DEF Held
  <2>2. OnTheWay(c) /\ toClient[c] = <<>> /\ toServer'[c] = <<>>
    BY <1>1, <1>2 DEF OnTheWay, Taken
  <2>3. Alive(c)
    BY <1>0, <1>a, <1>b DEF Links
  <2>. QED BY <1>1, <1>3, <2>1, <2>2, <2>3, DeliverKeeps
<1>7. ASSUME NEW d \in Clients PROVE Conversation(d)'
  <2>1. CASE d # c
    <3>1. Held(d)' = Held(d)
      BY <1>b, <1>1, <1>4, <2>1 DEF Held
    <3>2. \A u \in Held(d) : held'[u] = held[u]
      BY <1>b, <1>4, <2>1 DEF Held
    <3>. QED BY <1>0, <1>1, <1>6, <2>1, <3>1, <3>2, ConversationStays
  <2>. QED BY <1>6, <2>1
<1>8. Links'
  BY <1>0, <1>1, LinksStay DEF Alive
<1>9. NetTypes' /\ ServingSound'
  BY <1>0, <1>1, <1>a, <1>4, <1>5, <1>6 DEF NetTypes, ServingSound
<1>. QED BY <1>1, <1>5, <1>7, <1>8, <1>9 DEF NetInv

\* A worker takes a connection that no thread serves.
LEMMA DispatchKeeps ==
  ASSUME NetInv, NEW w \in Threads, NEW f \in Open, serving[w] = NONE,
         \A t \in Threads : serving[t] # f,
         serving' = [serving EXCEPT ![w] = f], work' \in Seq(DOMAIN fd),
         UNCHANGED <<progVars, netVars, held>>
  PROVE  NetInv' /\ UNCHANGED <<fd, listening, backlog>> /\ Open' = Open
<1>0. /\ NetTypes /\ Links /\ ServingSound
      /\ \A d \in Clients : Conversation(d)
  BY DEF NetInv
<1>1. UNCHANGED <<cpc, try, got, listening, backlog, fd, toServer, toClient, cliEnd, srvEnd, held>>
  BY DEF progVars, netVars
<1>2. f \in DOMAIN fd /\ f # NONE /\ Open' = Open
  BY <1>0, <1>1, Opens DEF Open, Free
<1>3. /\ serving' \in [Threads -> DOMAIN fd \cup {NONE}] /\ serving'[w] = f /\ held[w] = <<>>
      /\ \A t \in Threads : t # w => serving'[t] = serving[t]
  BY <1>0, <1>2 DEF NetTypes, ServingSound
<1>4. \A d : Held(d)' = Held(d)
  <2>. SUFFICES ASSUME NEW d, NEW t \in Threads PROVE t \in Held(d)' <=> t \in Held(d)
    BY DEF Held
  <2>. QED BY <1>1, <1>3 DEF Held
<1>5. \A d \in Clients : Conversation(d)'
  BY <1>0, <1>1, <1>4, ConversationStays
<1>6. Links'
  BY <1>0, <1>1, LinksStay DEF Alive
<1>7. NetTypes'
  BY <1>0, <1>1, <1>2, <1>3 DEF NetTypes
<1>8. ServingSound'
  BY <1>0, <1>1, <1>2, <1>3 DEF ServingSound
<1>. QED BY <1>1, <1>2, <1>5, <1>6, <1>7, <1>8 DEF NetInv

-----------------------------------------------------------------------------
(***************************************************************************)
(* What the servers have seen lasts while the clients move.                *)
(***************************************************************************)

LEMMA ServersStay ==
  ASSUME ServerInv, UNCHANGED <<server, pc, loopVars, toDestroy, connVars>>, ClientsKeep,
         stdin' \in {"quiet", "line", "taken"}
  PROVE  ServerInv'
<1>1. /\ UNCHANGED <<clients, nclients, watched, ready, nready, at, work, serving, held, fd, listening>>
      /\ Open' = Open
      /\ \A f \in Open : (Readable(f) => Readable(f)') /\ (AtEnd(f) => AtEnd(f)')
      /\ backlog # <<>> => backlog' # <<>>
      /\ \A c \in Mortal : cpc[c] = "killed" => cpc'[c] = "killed"
  BY Constants DEF loopVars, connVars, ClientsKeep, Open, Free
<1>2. CASE server = "select"
  <2>1. SelectInv
    BY <1>2 DEF ServerInv
  <2>2. SelectTables'
    BY <1>1, <2>1 DEF SelectInv, SelectTables
  <2>3. \A i \in 1..Len(clients) : clients[i] \in Open
    BY <2>1 DEF SelectInv, SelectTables
  <2>4. at >= 1 => \A i \in at..Len(clients) : i \in 1..Len(clients)
    BY <2>1 DEF SelectInv
  <2>5. SelectInv'
    BY <1>1, <2>1, <2>2, <2>3, <2>4 DEF SelectInv
  <2>. QED BY <1>1, <1>2, <2>5 DEF ServerInv, Loops
<1>3. CASE server = "poll"
  <2>1. PollInv
    BY <1>3 DEF ServerInv
  <2>2. PollInv'
    BY <1>1, <2>1 DEF PollInv, PollTables
  <2>. QED BY <1>1, <1>3, <2>2 DEF ServerInv, Loops
<1>4. CASE server = "epoll"
  <2>1. EpollInv
    BY <1>4 DEF ServerInv
  <2>2. EpollInv'
    BY <1>1, <2>1 DEF EpollInv, EpollTables
  <2>. QED BY <1>1, <1>4, <2>2 DEF ServerInv, Loops
<1>5. CASE server = "callbacks"
  <2>1. CallbackInv
    BY <1>5 DEF ServerInv
  <2>2. watched \ {ListenFd} \subseteq Open
    BY <2>1 DEF CallbackInv, CallbackTables
  <2>3. CallbackInv'
    BY <1>1, <2>1, <2>2 DEF CallbackInv, CallbackTables
  <2>. QED BY <1>1, <1>5, <2>3 DEF ServerInv, Loops
<1>6. CASE server = "uv"
  <2>1. UvInv
    BY <1>6 DEF ServerInv
  <2>2. UvInv'
    BY <1>1, <2>1 DEF UvInv, UvTables
  <2>. QED BY <1>1, <1>6, <2>2 DEF ServerInv, Loops
<1>7. CASE server \notin Loops
  <2>1. ConnInv
    BY <1>7 DEF ServerInv
  <2>2. ConnPoints'
    BY <1>1, <2>1 DEF ConnInv, ConnPoints
  <2>3. ConnInv'
    BY <1>1, <2>1, <2>2 DEF ConnInv
  <2>. QED BY <1>1, <1>7, <2>3 DEF ServerInv, Loops
<1>. QED BY <1>2, <1>3, <1>4, <1>5, <1>6, <1>7 DEF Loops

LEMMA ClientMovesKeeps ==
  ASSUME EchoInv, NEW c \in Clients, ClientMoves(c) \/ ClientDies(c)
  PROVE  EchoInv'
<1>1. /\ ClientStep(c) \/ Kill(c)
      /\ UNCHANGED <<server, pc, loopVars, stdin, toDestroy, connVars>>
  BY DEF ClientMoves, ClientDies
<1>2. NetInv' /\ ClientsKeep
  BY <1>1, ClientKeeps DEF EchoInv
<1>3. stdin' \in {"quiet", "line", "taken"}
  BY <1>1 DEF EchoInv, ServerInv
<1>. QED BY <1>1, <1>2, <1>3, ServersStay DEF EchoInv

LEMMA NobodyMoves ==
  ASSUME EchoInv, UNCHANGED <<progVars, netVars, server, pc, loopVars, toDestroy, connVars>>,
         stdin' \in {"quiet", "line", "taken"}
  PROVE  EchoInv'
<1>1. NetInv' /\ UNCHANGED <<fd, listening, backlog>> /\ SameReads(Open)
  BY NetStays DEF EchoInv
<1>2. ClientsKeep
  BY <1>1 DEF ClientsKeep, SameReads, progVars
<1>. QED BY <1>1, <1>2, ServersStay DEF EchoInv

LEMMA TypeLineKeeps ==
  ASSUME EchoInv, TypeLine
  PROVE  EchoInv'
BY NobodyMoves DEF TypeLine

-----------------------------------------------------------------------------
(***************************************************************************)
(* The server with select.                                                 *)
(***************************************************************************)

LEMMA Removed ==
  ASSUME NEW S, NEW s \in Seq(S), NEW i \in 1..Len(s)
  PROVE  /\ RemClient(s, i) \in Seq(S) /\ Len(RemClient(s, i)) = Len(s) - 1
         /\ \A j \in 1..(Len(s) - 1) : RemClient(s, i)[j] = IF j = i THEN s[Len(s)] ELSE s[j]
<1> DEFINE n == Len(s)
           r == [s EXCEPT ![i] = s[n]]
<1>1. n \in Nat /\ n - 1 \in 0..n /\ n - 1 \in Nat /\ n \in 1..n
  OBVIOUS
<1>2. r \in Seq(S) /\ Len(r) = n /\ \A j \in 1..n : r[j] = IF j = i THEN s[n] ELSE s[j]
  OBVIOUS
<1> HIDE DEF r
<1>3. /\ SubSeq(r, 1, n - 1) \in Seq(S) /\ Len(SubSeq(r, 1, n - 1)) = n - 1
      /\ \A j \in 1..(n - 1) : SubSeq(r, 1, n - 1)[j] = r[j] /\ j \in 1..n
  BY <1>1, <1>2
<1>4. RemClient(s, i) = SubSeq(r, 1, n - 1)
  BY DEF RemClient, r
<1>. QED BY <1>1, <1>2, <1>3, <1>4

\* The table without the connection of f, or with one more.
LEMMA SelectTablesLess ==
  ASSUME NetTypes, SelectTables, clients \in Seq(DOMAIN fd), NEW i \in 1..Len(clients),
         clients' = RemClient(clients, i), watched' = watched \ {clients[i]},
         Open' = Open \ {clients[i]}, DOMAIN fd' = DOMAIN fd
  PROVE  SelectTables' /\ clients' \in Seq(DOMAIN fd') /\ Len(clients') = Len(clients) - 1
<1>1. /\ \A j, k \in 1..Len(clients) : clients[j] = clients[k] => j = k
      /\ {clients[j] : j \in 1..Len(clients)} = Open /\ watched = Open \cup {ListenFd}
      /\ Len(clients) <= MaxClients /\ MaxClients \in Nat
  BY EventLoopAssumption DEF SelectTables
<1> DEFINE n == Len(clients)
<1>a. n \in Nat /\ n \in 1..n /\ \A j \in 1..(n - 1) : j \in 1..n /\ j # n
  OBVIOUS
<1>b. /\ clients' \in Seq(DOMAIN fd) /\ Len(clients') = n - 1
      /\ \A j \in 1..(n - 1) : clients'[j] = IF j = i THEN clients[n] ELSE clients[j]
  BY Removed
<1>c. \A k \in 1..n : k # n => k \in 1..(n - 1)
  BY <1>a
<1>2. /\ \A j, k \in 1..(n - 1) : clients'[j] = clients'[k] => j = k
      /\ \A j \in 1..(n - 1) : \E k \in 1..n : clients'[j] = clients[k] /\ k # i
      /\ \A k \in 1..n : k # i => \E j \in 1..(n - 1) : clients'[j] = clients[k]
  <2>1. \A j, k \in 1..(n - 1) : clients'[j] = clients'[k] => j = k
    BY <1>1, <1>a, <1>b
  <2>2. ASSUME NEW j \in 1..(n - 1) PROVE \E k \in 1..n : clients'[j] = clients[k] /\ k # i
    <3>1. CASE j = i
      BY <1>a, <1>b, <3>1
    <3>2. CASE j # i
      BY <1>a, <1>b, <3>2
    <3>. QED BY <3>1, <3>2
  <2>3. ASSUME NEW k \in 1..n, k # i PROVE \E j \in 1..(n - 1) : clients'[j] = clients[k]
    <3>1. CASE k = n
      BY <1>b, <1>c, <2>3, <3>1
    <3>2. CASE k # n
      BY <1>b, <1>c, <2>3, <3>2
    <3>. QED BY <3>1, <3>2
  <2>. QED BY <2>1, <2>2, <2>3
<1>3. clients[i] # ListenFd
  BY Opens
<1>4. watched' = Open' \cup {ListenFd}
  BY <1>1, <1>3
<1>5. {clients'[j] : j \in 1..Len(clients')} = Open'
  <2>1. ASSUME NEW j \in 1..Len(clients') PROVE clients'[j] \in Open'
    <3>1. PICK k \in 1..Len(clients) : clients'[j] = clients[k] /\ k # i
      BY <1>2, <1>b
    <3>2. clients[k] \in Open /\ clients[k] # clients[i]
      BY <1>1, <3>1
    <3>. QED BY <3>1, <3>2
  <2>2. ASSUME NEW x \in Open' PROVE \E j \in 1..Len(clients') : clients'[j] = x
    <3>1. PICK k \in 1..Len(clients) : x = clients[k] /\ k # i
      BY <1>1
    <3>. QED BY <1>2, <1>b, <3>1
  <2>. QED BY <2>1, <2>2
<1>6. /\ Len(clients') <= MaxClients
      /\ \A j, k \in 1..Len(clients') : clients'[j] = clients'[k] => j = k
  BY <1>1, <1>2, <1>a, <1>b
<1>. QED BY <1>b, <1>4, <1>5, <1>6 DEF SelectTables

LEMMA SelectTablesMore ==
  ASSUME NetTypes, SelectTables, clients \in Seq(DOMAIN fd), NEW f \in DOMAIN fd, f \notin Open,
         Len(clients) < MaxClients,
         clients' = Append(clients, f), watched' = watched \cup {f},
         Open' = Open \cup {f}, DOMAIN fd' = DOMAIN fd
  PROVE  SelectTables' /\ clients' \in Seq(DOMAIN fd')
<1>1. /\ \A j, k \in 1..Len(clients) : clients[j] = clients[k] => j = k
      /\ {clients[j] : j \in 1..Len(clients)} = Open /\ watched = Open \cup {ListenFd}
      /\ MaxClients \in Nat
  BY EventLoopAssumption DEF SelectTables
<1>2. /\ clients' \in Seq(DOMAIN fd) /\ Len(clients) \in Nat
      /\ Len(clients') = Len(clients) + 1 /\ clients'[Len(clients) + 1] = f
      /\ \A i \in 1..Len(clients) : clients'[i] = clients[i] /\ clients[i] \in DOMAIN fd
      /\ \A i \in 1..Len(clients') : i \in 1..Len(clients) \/ i = Len(clients) + 1
  BY Appended
<1>3. \A i \in 1..Len(clients) : clients[i] # f
  BY <1>1
<1>4. \A j, k \in 1..Len(clients') : clients'[j] = clients'[k] => j = k
  BY <1>1, <1>2, <1>3
<1>5. {clients'[j] : j \in 1..Len(clients')} = Open'
  <2>1. \A x \in Open' : \E j \in 1..Len(clients') : clients'[j] = x
    <3>1. \A x \in Open : \E j \in 1..Len(clients) : clients[j] = x
      BY <1>1
    <3>2. Len(clients) + 1 \in 1..Len(clients') /\ \A j \in 1..Len(clients) : j \in 1..Len(clients')
      BY <1>2
    <3>. QED BY <1>2, <3>1, <3>2
  <2>2. \A j \in 1..Len(clients') : clients'[j] \in Open'
    BY <1>1, <1>2
  <2>. QED BY <2>1, <2>2
<1>6. Len(clients') <= MaxClients
  BY <1>1, <1>2
<1>. QED BY <1>1, <1>2, <1>4, <1>5, <1>6 DEF SelectTables

LEMMA LoopBack ==
  ASSUME ServerInv, server \in Loops, UNCHANGED <<server, serving>>,
         stdin' \in {"quiet", "line", "taken"}, toDestroy' \in BOOLEAN,
         server = "select" => SelectInv', server = "poll" => PollInv', server = "epoll" => EpollInv',
         server = "callbacks" => CallbackInv', server = "uv" => UvInv'
  PROVE  ServerInv'
BY DEF ServerInv, Loops

\* What the calls report of the listening socket, the standard input and a connection.
LEMMA Reported ==
  ASSUME NetTypes
  PROVE  /\ IsReady(ListenFd) <=> backlog # <<>>
         /\ IsReady(StdinFd) <=> stdin = "line"
         /\ \A f \in DOMAIN fd : IsReady(f) <=> Readable(f)
<1>1. ListenFd # StdinFd /\ \A f \in DOMAIN fd : f # ListenFd /\ f # StdinFd
  <2>1. ListenFd # StdinFd
    BY DEF ListenFd, StdinFd
  <2>. QED BY <2>1, Opens
<1>2. IsReady(ListenFd) <=> backlog # <<>>
  <2>1. ASSUME NEW f, f = ListenFd PROVE IsReady(f) <=> backlog # <<>>
    BY <1>1, <2>1 DEF IsReady
  <2>. QED BY <2>1
<1>3. IsReady(StdinFd) <=> stdin = "line"
  BY <1>1 DEF IsReady
<1>4. \A f \in DOMAIN fd : IsReady(f) <=> Readable(f)
  BY <1>1 DEF IsReady
<1>. QED BY <1>2, <1>3, <1>4

\* The loops with one thread close descriptors that no thread serves.
LEMMA LoopShutKeeps ==
  ASSUME NetInv, NEW fs \in SUBSET Open, NEW stop \in BOOLEAN, Shut(fs, stop),
         UNCHANGED <<progVars, connVars>>, \A t \in Threads : serving[t] = NONE
  PROVE  /\ NetInv' /\ Open' = Open \ fs /\ DOMAIN fd' = DOMAIN fd /\ SameReads(Open \ fs)
         /\ listening' = (listening /\ ~stop) /\ (~stop => backlog' = backlog)
<1>1. NetTypes /\ UNCHANGED <<work, serving, held>>
  BY DEF NetInv, connVars
<1>2. \A t \in Threads : serving[t] \notin fs
  BY <1>1, Opens
<1>3. serving = [t \in Threads |-> serving[t]] /\ held = [t \in Threads |-> held[t]]
  BY <1>1 DEF NetTypes
<1>4. /\ serving' = [t \in Threads |-> IF serving[t] \in fs THEN NONE ELSE serving[t]]
      /\ held' = [t \in Threads |-> IF serving[t] \in fs THEN <<>> ELSE held[t]]
  BY <1>1, <1>2, <1>3
<1>. QED BY <1>1, <1>4, ShutKeeps

LEMMA SelectKeeps ==
  ASSUME EchoInv, SelectStep, UNCHANGED <<toDestroy, connVars>>
  PROVE  EchoInv'
<1>0. /\ server = "select" /\ NetInv /\ NetTypes /\ ServerInv /\ SelectInv
      /\ \A t \in Threads : serving[t] = NONE
      /\ UNCHANGED <<server, stdin, toDestroy, serving, held, work, progVars>>
  <2>1. server = "select"
    BY DEF SelectStep, SelectWait, SelectNoConnection, SelectAcceptFails, SelectReject, SelectAccept,
           SelectServe, SelectRound, Select
  <2>. QED BY <2>1 DEF EchoInv, NetInv, ServerInv, Loops, SelectStep, connVars
<1>1. SUFFICES NetInv' /\ SelectInv'
  <2>1. stdin' \in {"quiet", "line", "taken"} /\ toDestroy' \in BOOLEAN /\ server \in Loops
    BY <1>0 DEF ServerInv, Loops
  <2>. QED BY <1>0, <2>1, LoopBack DEF EchoInv
<1>2. /\ SelectTables /\ clients \in Seq(DOMAIN fd) /\ at \in Nat
      /\ \A i, j \in 1..Len(clients) : clients[i] = clients[j] => i = j
      /\ \A i \in 1..Len(clients) : clients[i] \in Open
      /\ \A f \in Open : \E i \in 1..Len(clients) : clients[i] = f
      /\ watched = Open \cup {ListenFd} /\ Len(clients) <= MaxClients /\ Len(clients) \in Nat
  <2>1. SelectTables /\ clients \in Seq(DOMAIN fd) /\ at \in Nat
    BY <1>0 DEF SelectInv
  <2>2. /\ \A i, j \in 1..Len(clients) : clients[i] = clients[j] => i = j
        /\ {clients[i] : i \in 1..Len(clients)} = Open
        /\ watched = Open \cup {ListenFd} /\ Len(clients) <= MaxClients
    BY <2>1 DEF SelectTables
  <2>. QED BY <2>1, <2>2
<1>3. CASE SelectWait \/ SelectNoConnection \/ SelectAcceptFails \/ SelectRound
  <2>1. UNCHANGED <<netVars, clients, watched>> /\ at' \in {at, 0, 1}
    BY <1>3 DEF SelectWait, SelectNoConnection, SelectAcceptFails, SelectRound, loopVars
  <2>2. /\ NetInv' /\ Open' = Open /\ SameReads(Open) /\ UNCHANGED <<fd, listening, backlog>>
    BY <1>0, <2>1, NetStays DEF connVars
  <2>3. SelectTables' /\ clients' \in Seq(DOMAIN fd') /\ at' \in Nat
    BY <1>2, <2>1, <2>2 DEF SelectTables
  <2>4. CASE SelectWait
    <3>1. pc' = "accept" /\ ready' = {f \in watched : IsReady(f)}
      BY <2>4 DEF SelectWait, Select
    <3>2. ready' \subseteq watched
      BY <3>1
    <3>3. ListenFd \in ready' => backlog # <<>>
      BY <1>0, <3>1, Reported
    <3>4. \A f \in Open : f \in ready' => Readable(f)
      BY <1>0, <3>1, Reported, Opens
    <3>5. \A i \in 1..Len(clients) : clients[i] \in ready' => Readable(clients[i])'
      BY <1>2, <2>1, <2>2, <3>4 DEF SameReads
    <3>. QED BY <2>1, <2>2, <2>3, <3>1, <3>2, <3>3, <3>5 DEF SelectInv
  <2>5. CASE SelectNoConnection
    <3>1. pc = "accept" /\ pc' = "scan" /\ at' = 1 /\ ready' = ready
      BY <2>5 DEF SelectNoConnection, Select
    <3>2. \A i \in 1..Len(clients) : clients[i] \in ready' => Readable(clients[i])'
      BY <1>0, <1>2, <2>1, <2>2, <3>1 DEF SameReads, SelectInv
    <3>. QED BY <2>1, <2>2, <2>3, <3>1, <3>2 DEF SelectInv
  <2>6. CASE SelectAcceptFails \/ SelectRound
    <3>1. pc' = "wait"
      BY <2>6 DEF SelectAcceptFails, SelectRound, Select
    <3>. QED BY <2>2, <2>3, <3>1 DEF SelectInv
  <2>. QED BY <1>3, <2>4, <2>5, <2>6
<1>4. CASE SelectReject
  <2>1. AcceptAndClose /\ UNCHANGED loopVars /\ pc' = "wait"
    BY <1>4 DEF SelectReject, Select
  <2>2. NetInv' /\ UNCHANGED <<fd, listening>>
    BY <1>0, <2>1, AcceptAndCloseKeeps DEF connVars
  <2>3. SelectTables' /\ clients' \in Seq(DOMAIN fd') /\ at' \in Nat
    BY <1>2, <2>1, <2>2 DEF SelectTables, loopVars, Open, Free
  <2>. QED BY <2>1, <2>2, <2>3 DEF SelectInv
<1>5. ASSUME NEW f \in Free, SelectAccept(f) PROVE NetInv' /\ SelectInv'
  <2>1. /\ pc = "accept" /\ Len(clients) < MaxClients /\ Accept(f)
        /\ clients' = Append(clients, f) /\ watched' = watched \cup {f}
        /\ pc' \in {"wait", "scan"} /\ at' = 1 /\ ready' = ready
    BY <1>5 DEF SelectAccept
  <2>2. /\ NetInv' /\ f \in DOMAIN fd /\ f \notin Open /\ Open' = Open \cup {f}
        /\ DOMAIN fd' = DOMAIN fd /\ SameReads(Open)
    BY <1>0, <2>1, AcceptKeeps
  <2>3. SelectTables' /\ clients' \in Seq(DOMAIN fd')
    BY <1>0, <1>2, <2>1, <2>2, SelectTablesMore
  <2>4. /\ Len(clients') = Len(clients) + 1 /\ clients'[Len(clients) + 1] = f
        /\ \A i \in 1..Len(clients) : clients'[i] = clients[i]
        /\ \A i \in 1..Len(clients') : i \in 1..Len(clients) \/ i = Len(clients) + 1
    BY <1>2, <2>1, <2>2, Appended
  <2>5. f \notin ready
    <3>1. f # ListenFd
      BY <1>0, <2>2, Opens
    <3>. QED BY <1>0, <1>2, <2>1, <2>2, <3>1 DEF SelectInv
  <2>6. \A i \in 1..Len(clients') : clients'[i] \in ready' => Readable(clients[i])'
    BY <1>0, <1>2, <2>1, <2>2, <2>4, <2>5 DEF SelectInv, SameReads
  <2>. QED BY <2>1, <2>2, <2>3, <2>6 DEF SelectInv
<1>6. ASSUME NEW i \in 1..Len(clients), SelectServe(i) PROVE NetInv' /\ SelectInv'
  <2>1. /\ pc = "scan" /\ pc' = "scan" /\ at' = i + 1 /\ ready' = ready /\ i >= at /\ clients[i] \in Open
    BY <1>2, <1>6 DEF SelectServe, Select, SelectAt
  <2>2. at' \in Nat /\ at' >= 1 /\ \A j \in at'..Len(clients) : j \in at..Len(clients) /\ j \in 1..Len(clients) /\ j # i
    BY <1>2, <2>1
  <2>3. \A j \in at'..Len(clients) : clients[j] \in ready => Readable(clients[j]) /\ clients[j] \in Open \ {clients[i]}
    BY <1>0, <1>2, <2>1, <2>2 DEF SelectInv
  <2>4. CASE EchoBack(clients[i]) /\ UNCHANGED <<clients, watched, nready>>
    <3>1. NetInv' /\ UNCHANGED <<fd, listening, backlog>> /\ Open' = Open /\ SameReads(Open \ {clients[i]})
      BY <1>0, <2>1, <2>4, EchoBackKeeps DEF connVars
    <3>2. SelectTables' /\ clients' \in Seq(DOMAIN fd')
      BY <1>2, <2>4, <3>1 DEF SelectTables
    <3>3. \A j \in at'..Len(clients') : clients'[j] \in ready' => Readable(clients[j])'
      BY <2>1, <2>3, <2>4, <3>1 DEF SameReads
    <3>. QED BY <2>1, <2>2, <3>1, <3>2, <3>3 DEF SelectInv
  <2>5. CASE /\ HangUp(clients[i])
             /\ clients' = RemClient(clients, i) /\ watched' = watched \ {clients[i]}
    <3>1. /\ NetInv' /\ Open' = Open \ {clients[i]} /\ DOMAIN fd' = DOMAIN fd
          /\ SameReads(Open \ {clients[i]})
      <4>1. Shut({clients[i]}, FALSE)
        BY <2>5 DEF HangUp
      <4>. QED BY <1>0, <2>1, <4>1, LoopShutKeeps DEF connVars
    <3>2. SelectTables' /\ clients' \in Seq(DOMAIN fd') /\ Len(clients') = Len(clients) - 1
      BY <1>0, <1>2, <2>5, <3>1, SelectTablesLess
    <3>3. \A j \in 1..(Len(clients) - 1) : clients'[j] = IF j = i THEN clients[Len(clients)] ELSE clients[j]
      <4>1. \A j \in 1..(Len(clients) - 1) :
              RemClient(clients, i)[j] = IF j = i THEN clients[Len(clients)] ELSE clients[j]
        BY <1>2, Removed
      <4>2. clients' = RemClient(clients, i)
        BY <2>5
      <4>. QED BY <4>1, <4>2
    <3>4. \A j \in at'..Len(clients') : j \in at'..Len(clients) /\ clients'[j] = clients[j]
      <4>1. ASSUME NEW j \in at'..Len(clients')
            PROVE  j \in at'..Len(clients) /\ j \in 1..(Len(clients) - 1) /\ j # i
        <5>1. at' \in Nat /\ at' = i + 1 /\ i >= 1 /\ i \in Nat
          BY <2>1, <2>2
        <5>. QED BY <1>2, <3>2, <5>1
      <4>. QED BY <3>3, <4>1
    <3>5. \A j \in at'..Len(clients') : clients'[j] \in ready' => Readable(clients[j])'
      BY <2>1, <2>3, <3>1, <3>4 DEF SameReads, Readable
    <3>. QED BY <2>1, <2>2, <3>1, <3>2, <3>5 DEF SelectInv
  <2>. QED BY <1>6, <2>4, <2>5 DEF SelectServe
<1>. QED BY <1>3, <1>4, <1>5, <1>6 DEF SelectStep

-----------------------------------------------------------------------------
(***************************************************************************)
(* The server with poll.                                                   *)
(***************************************************************************)

Entries == [fd : Nat, revents : BOOLEAN]

LEMMA Marked ==
  ASSUME NEW e \in Entries, NEW b \in BOOLEAN
  PROVE  [e EXCEPT !.revents = b] \in Entries /\ [e EXCEPT !.revents = b].fd = e.fd
BY DEF Entries

LEMMA PollPoints ==
  ASSUME NetTypes, PollTables
  PROVE  /\ MaxClients \in Nat /\ nclients \in Nat /\ nclients >= 1 /\ nclients <= MaxClients + 1
         /\ 1 \in 1..nclients /\ \A i \in 1..nclients : i \in Slots
         /\ clients[1].fd = ListenFd
         /\ \A i, j \in 1..nclients : clients[i].fd = clients[j].fd => i = j
         /\ \A i \in 2..nclients : clients[i].fd \in Open
         /\ \A f \in Open : \E i \in 2..nclients : clients[i].fd = f
<1>1. /\ nclients \in Slots /\ clients[1].fd = ListenFd /\ MaxClients \in Nat
      /\ \A i, j \in 1..nclients : clients[i].fd = clients[j].fd => i = j
      /\ {clients[i].fd : i \in 2..nclients} = Open
  BY EventLoopAssumption DEF PollTables
<1>2. nclients \in Nat /\ nclients >= 1 /\ nclients <= MaxClients + 1
  BY <1>1 DEF Slots
<1>3. 1 \in 1..nclients /\ \A i \in 1..nclients : i \in 1..(MaxClients + 1)
  BY <1>1, <1>2
<1>4. \A i \in 2..nclients : clients[i].fd \in Open
  BY <1>1
<1>5. \A f \in Open : \E i \in 2..nclients : clients[i].fd = f
  BY <1>1
<1>. QED BY <1>1, <1>2, <1>3, <1>4, <1>5 DEF Slots

\* The table with other events.
LEMMA PollTablesSame ==
  ASSUME NetTypes, PollTables, nclients' = nclients, Open' = Open,
         \A i \in Slots : clients'[i].fd = clients[i].fd
  PROVE  PollTables'
<1>1. \A i \in 1..nclients : clients'[i].fd = clients[i].fd
  BY PollPoints
<1>2. {clients'[i].fd : i \in 2..nclients} = {clients[i].fd : i \in 2..nclients}
  <2>1. \A i \in 2..nclients : clients'[i].fd = clients[i].fd
    <3>1. \A i \in 2..nclients : i \in 1..nclients
      BY PollPoints
    <3>. QED BY <1>1, <3>1
  <2>. QED BY <2>1
<1>3. clients'[1].fd = clients[1].fd
  BY <1>1, PollPoints
<1>. QED BY <1>1, <1>2, <1>3 DEF PollTables

\* The table with one more connection.
LEMMA PollTablesMore ==
  ASSUME NetTypes, PollTables, clients \in [Slots -> Entries], nclients <= MaxClients,
         NEW f \in DOMAIN fd, f \notin Open, Open' = Open \cup {f},
         clients' = [clients EXCEPT ![nclients + 1].fd = f], nclients' = nclients + 1
  PROVE  PollTables' /\ clients' \in [Slots -> Entries]
<1> DEFINE n == nclients
<1>1. n + 1 \in Slots /\ n \in Nat /\ n >= 1 /\ n + 1 \notin 1..n
  BY PollPoints DEF Slots
<1>2. f \in Nat /\ f # ListenFd
  BY Opens
<1>3. /\ clients'[n + 1].fd = f /\ clients' \in [Slots -> Entries]
      /\ \A i \in Slots : i # n + 1 => clients'[i] = clients[i]
  BY <1>1, <1>2 DEF Entries
<1>4. \A i \in 1..n : clients'[i] = clients[i]
  BY <1>1, <1>3, PollPoints
<1>5. /\ \A i \in 1..(n + 1) : i \in 1..n \/ i = n + 1
      /\ \A i \in 1..n : i = 1 \/ i \in 2..n
      /\ \A i \in 2..n : i \in 1..n /\ i \in 2..(n + 1)
      /\ n + 1 \in 2..(n + 1)
  BY <1>1
<1>6. \A i \in 1..n : clients[i].fd # f
  BY <1>2, <1>5, PollPoints
<1>7. \A i, j \in 1..(n + 1) : clients'[i].fd = clients'[j].fd => i = j
  BY <1>3, <1>4, <1>5, <1>6, PollPoints
<1>8. {clients'[i].fd : i \in 2..(n + 1)} = Open'
  <2>1. ASSUME NEW i \in 2..(n + 1) PROVE clients'[i].fd \in Open'
    <3>1. i = n + 1 \/ i \in 2..n
      BY <1>1
    <3>2. CASE i = n + 1
      BY <1>3, <3>2
    <3>3. CASE i \in 2..n
      BY <1>4, <1>5, <3>3, PollPoints
    <3>. QED BY <3>1, <3>2, <3>3
  <2>2. ASSUME NEW g \in Open' PROVE \E i \in 2..(n + 1) : clients'[i].fd = g
    <3>1. CASE g = f
      BY <1>3, <1>5, <3>1
    <3>2. CASE g # f
      <4>1. PICK i \in 2..n : clients[i].fd = g
        BY <3>2, PollPoints
      <4>. QED BY <1>4, <1>5, <4>1
    <3>. QED BY <3>1, <3>2
  <2>. QED BY <2>1, <2>2
<1>9. clients'[1].fd = ListenFd
  BY <1>4, PollPoints
<1>. QED BY <1>1, <1>3, <1>7, <1>8, <1>9 DEF PollTables

\* The table without the connection of entry i.
LEMMA PollTablesLess ==
  ASSUME NetTypes, PollTables, clients \in [Slots -> Entries],
         NEW i \in 2..nclients, Open' = Open \ {clients[i].fd},
         clients' = [clients EXCEPT ![i] = clients[nclients]], nclients' = nclients - 1
  PROVE  PollTables' /\ clients' \in [Slots -> Entries]
<1> DEFINE n == nclients
<1>1. n \in Slots /\ i \in Slots /\ n - 1 \in Slots /\ n \in Nat /\ n >= 2 /\ n \in 2..n /\ i # 1
  <2>1. n >= 2 /\ n \in Nat /\ n <= MaxClients + 1 /\ i \in Nat /\ i >= 2 /\ i <= n /\ MaxClients \in Nat
    BY PollPoints
  <2>. QED BY <2>1 DEF Slots
<1>2. /\ clients'[i] = clients[n] /\ clients' \in [Slots -> Entries]
      /\ \A j \in Slots : j # i => clients'[j] = clients[j]
  BY <1>1
<1>3. /\ \A j \in 1..(n - 1) : j \in 1..n /\ j # n /\ j \in Slots
      /\ \A j \in 2..(n - 1) : j \in 2..n /\ j # n /\ j \in Slots
      /\ \A j \in 2..n : j \in 1..n
      /\ \A j \in 2..n : j # n => j \in 2..(n - 1)
      /\ n \in 1..n /\ 1 # i
  BY <1>1, PollPoints
<1>4. \A j, k \in 1..(n - 1) : clients'[j].fd = clients'[k].fd => j = k
  BY <1>2, <1>3, PollPoints
<1>5. {clients'[j].fd : j \in 2..(n - 1)} = Open'
  <2>1. ASSUME NEW j \in 2..(n - 1) PROVE clients'[j].fd \in Open'
    <3>1. CASE j = i
      <4>1. clients'[j].fd = clients[n].fd /\ n # i
        BY <1>2, <1>3, <3>1
      <4>2. clients[n].fd \in Open /\ clients[n].fd # clients[i].fd
        BY <1>1, <1>3, <4>1, PollPoints
      <4>. QED BY <4>1, <4>2
    <3>2. CASE j # i
      <4>1. clients'[j].fd = clients[j].fd
        BY <1>2, <1>3, <3>2
      <4>2. clients[j].fd \in Open /\ clients[j].fd # clients[i].fd
        BY <1>3, <3>2, PollPoints
      <4>. QED BY <4>1, <4>2
    <3>. QED BY <3>1, <3>2
  <2>2. ASSUME NEW g \in Open' PROVE \E j \in 2..(n - 1) : clients'[j].fd = g
    <3>1. PICK k \in 2..n : clients[k].fd = g
      BY PollPoints
    <3>2. k # i /\ k \in Slots
      BY <1>3, <3>1, PollPoints
    <3>3. CASE k = n
      <4>1. i \in 2..(n - 1)
        BY <1>3, <3>2, <3>3
      <4>. QED BY <1>2, <3>1, <3>3, <4>1
    <3>4. CASE k # n
      BY <1>2, <1>3, <3>1, <3>2, <3>4
    <3>. QED BY <3>3, <3>4
  <2>. QED BY <2>1, <2>2
<1>6. clients'[1].fd = ListenFd
  <2>1. 1 \in Slots
    BY PollPoints
  <2>. QED BY <1>2, <1>3, <2>1, PollPoints
<1>. QED BY <1>1, <1>2, <1>4, <1>5, <1>6 DEF PollTables

LEMMA PollKeeps ==
  ASSUME EchoInv, PollStep, UNCHANGED <<toDestroy, connVars>>
  PROVE  EchoInv'
<1>0. /\ server = "poll" /\ NetInv /\ NetTypes /\ ServerInv /\ PollInv
      /\ \A t \in Threads : serving[t] = NONE
      /\ UNCHANGED <<server, stdin, toDestroy, serving, held, work, progVars>>
  <2>1. server = "poll"
    BY DEF PollStep, PollWait, PollNoConnection, PollAcceptFails, PollReject, PollAccept,
           PollServe, PollRound, Poll
  <2>. QED BY <2>1 DEF EchoInv, NetInv, ServerInv, Loops, PollStep, connVars
<1>1. SUFFICES NetInv' /\ PollInv'
  <2>1. stdin' \in {"quiet", "line", "taken"} /\ toDestroy' \in BOOLEAN /\ server \in Loops
    BY <1>0 DEF ServerInv, Loops
  <2>. QED BY <1>0, <2>1, LoopBack DEF EchoInv
<1>2. PollTables /\ clients \in [Slots -> Entries] /\ at \in Nat /\ (pc = "scan" => at >= 2)
  BY <1>0 DEF PollInv, Entries
<1>3. CASE PollWait
  <2>1. /\ pc' = "accept" /\ UNCHANGED <<netVars, nclients, at>>
        /\ \E r : clients' = [i \in Slots |-> IF i <= nclients
                                              THEN [clients[i] EXCEPT !.revents = i \in r]
                                              ELSE clients[i]]
    BY <1>3 DEF PollWait, Poll
  <2>2. NetInv' /\ Open' = Open
    BY <1>0, <2>1, NetStays DEF connVars
  <2>3. \A i \in Slots : clients'[i] \in Entries /\ clients'[i].fd = clients[i].fd
    <3>1. PICK r : clients' = [i \in Slots |-> IF i <= nclients
                                               THEN [clients[i] EXCEPT !.revents = i \in r]
                                               ELSE clients[i]]
      BY <2>1
    <3>2. SUFFICES ASSUME NEW i \in Slots PROVE clients'[i] \in Entries /\ clients'[i].fd = clients[i].fd
      OBVIOUS
    <3>3. clients[i] \in Entries
      BY <1>2
    <3>4. /\ [clients[i] EXCEPT !.revents = i \in r] \in Entries
          /\ [clients[i] EXCEPT !.revents = i \in r].fd = clients[i].fd
      <4>1. (i \in r) \in BOOLEAN
        OBVIOUS
      <4>. QED BY <3>3, <4>1, Marked
    <3>. QED BY <3>1, <3>3, <3>4
  <2>4. clients' \in [Slots -> Entries]
    BY <2>1, <2>3
  <2>5. PollTables'
    BY <1>0, <1>2, <2>1, <2>2, <2>3, PollTablesSame
  <2>. QED BY <1>2, <2>1, <2>2, <2>4, <2>5 DEF PollInv, Entries
<1>4. CASE PollNoConnection \/ PollAcceptFails \/ PollRound
  <2>1. /\ UNCHANGED <<netVars, nclients, clients>> /\ at' \in {at, 0, 2}
        /\ pc' \in {"wait", "scan"} /\ (pc' = "scan" => at' = 2)
    BY <1>4 DEF PollNoConnection, PollAcceptFails, PollRound, Poll, loopVars
  <2>2. NetInv' /\ Open' = Open
    BY <1>0, <2>1, NetStays DEF connVars
  <2>3. PollTables'
    BY <1>0, <1>2, <2>1, <2>2, PollTablesSame
  <2>. QED BY <1>2, <2>1, <2>2, <2>3 DEF PollInv, Entries
<1>5. CASE PollReject
  <2>1. AcceptAndClose /\ UNCHANGED <<nclients, clients, at>> /\ pc' = "wait"
    BY <1>5 DEF PollReject, Poll, loopVars
  <2>2. NetInv' /\ UNCHANGED fd
    BY <1>0, <2>1, AcceptAndCloseKeeps DEF connVars
  <2>3. PollTables'
    <3>1. Open' = Open
      BY <2>2 DEF Open, Free
    <3>. QED BY <1>0, <1>2, <2>1, <3>1, PollTablesSame
  <2>. QED BY <1>2, <2>1, <2>2, <2>3 DEF PollInv, Entries
<1>6. ASSUME NEW f \in Free, PollAccept(f) PROVE NetInv' /\ PollInv'
  <2>1. /\ nclients <= MaxClients /\ Accept(f) /\ clients' = [clients EXCEPT ![nclients + 1].fd = f]
        /\ nclients' = nclients + 1 /\ pc' \in {"wait", "scan"} /\ at' = 2
    BY <1>6 DEF PollAccept
  <2>2. NetInv' /\ f \in DOMAIN fd /\ f \notin Open /\ Open' = Open \cup {f}
    BY <1>0, <2>1, AcceptKeeps
  <2>3. PollTables' /\ clients' \in [Slots -> Entries]
    BY <1>0, <1>2, <2>1, <2>2, PollTablesMore
  <2>. QED BY <2>1, <2>2, <2>3 DEF PollInv, Entries
<1>7. ASSUME NEW i \in Slots, PollServe(i) PROVE NetInv' /\ PollInv'
  <2>1. /\ pc = "scan" /\ pc' = "scan" /\ at' = i + 1 /\ i >= at /\ i <= nclients
    BY <1>7 DEF PollServe, Poll, PollAt
  <2>2. i \in 2..nclients /\ clients[i].fd \in Open /\ at' \in Nat /\ at' >= 2
    <3>1. i \in Nat /\ nclients \in Nat
      BY <1>0, <1>2, PollPoints DEF Slots
    <3>2. i \in 2..nclients /\ at' \in Nat /\ at' >= 2
      BY <1>2, <2>1, <3>1
    <3>. QED BY <1>0, <1>2, <3>2, PollPoints
  <2>3. CASE EchoBack(clients[i].fd) /\ UNCHANGED <<clients, nclients>>
    <3>1. NetInv' /\ Open' = Open
      BY <1>0, <2>2, <2>3, EchoBackKeeps DEF connVars
    <3>2. PollTables'
      BY <1>0, <1>2, <2>3, <3>1, PollTablesSame
    <3>. QED BY <1>2, <2>1, <2>2, <2>3, <3>1, <3>2 DEF PollInv, Entries
  <2>4. CASE /\ HangUp(clients[i].fd)
             /\ clients' = [clients EXCEPT ![i] = clients[nclients]] /\ nclients' = nclients - 1
    <3>1. NetInv' /\ Open' = Open \ {clients[i].fd}
      <4>1. Shut({clients[i].fd}, FALSE)
        BY <2>4 DEF HangUp
      <4>. QED BY <1>0, <2>2, <4>1, LoopShutKeeps DEF connVars
    <3>2. PollTables' /\ clients' \in [Slots -> Entries]
      BY <1>0, <1>2, <2>2, <2>4, <3>1, PollTablesLess
    <3>. QED BY <2>1, <2>2, <3>1, <3>2 DEF PollInv, Entries
  <2>. QED BY <1>7, <2>3, <2>4 DEF PollServe
<1>. QED BY <1>3, <1>4, <1>5, <1>6, <1>7 DEF PollStep

-----------------------------------------------------------------------------
(***************************************************************************)
(* The servers with epoll.                                                 *)
(***************************************************************************)

LEMMA Batch ==
  ASSUME NEW r, NEW max, NEW b \in Batches(r, max)
  PROVE  b \subseteq r
BY DEF Batches

LEMMA Watched ==
  ASSUME NetTypes, watched \ {ListenFd, StdinFd} \subseteq Open
  PROVE  /\ IsFiniteSet(watched) /\ Cardinality(watched) \in Nat
         /\ \A f \in DOMAIN fd : f \notin Open => f \notin watched
<1>1. watched \subseteq Open \cup {ListenFd, StdinFd}
  OBVIOUS
<1>2. IsFiniteSet(Open \cup {ListenFd, StdinFd})
  <2>1. Open \cup {ListenFd, StdinFd} = (Open \cup {ListenFd}) \cup {StdinFd}
    OBVIOUS
  <2>2. IsFiniteSet(Open \cup {ListenFd})
    BY Opens, FS_AddElement
  <2>3. IsFiniteSet((Open \cup {ListenFd}) \cup {StdinFd})
    BY <2>2, FS_AddElement
  <2>. QED BY <2>1, <2>3
<1>3. IsFiniteSet(watched)
  BY <1>1, <1>2, FS_Subset
<1>4. Cardinality(watched) \in Nat
  BY <1>3, FS_CardinalityType
<1>. QED BY <1>3, <1>4, Opens

LEMMA OneMore ==
  ASSUME NEW S, IsFiniteSet(S), NEW f, f \notin S
  PROVE  Cardinality(S \cup {f}) = Cardinality(S) + 1
BY FS_AddElement

LEMMA OneLess ==
  ASSUME NEW S, IsFiniteSet(S), NEW f \in S
  PROVE  Cardinality(S \ {f}) = Cardinality(S) - 1 /\ IsFiniteSet(S \ {f})
BY FS_RemoveElement

LEMMA EpollKeeps ==
  ASSUME EchoInv, EpollStep, UNCHANGED <<toDestroy, connVars>>
  PROVE  EchoInv'
<1>0. /\ server = "epoll" /\ NetInv /\ NetTypes /\ ServerInv /\ EpollInv
      /\ \A t \in Threads : serving[t] = NONE
      /\ stdin' \in {"quiet", "line", "taken"}
      /\ UNCHANGED <<server, toDestroy, serving, held, work, progVars>>
  <2>1. server = "epoll" /\ (stdin' = stdin \/ stdin' = "taken")
    BY DEF EpollStep, EpollStop, EpollWait, EpollAcceptFails, EpollRound, EpollEnd, EpollAccept,
           EpollServe, Epoll, EpollAt
  <2>. QED BY <2>1 DEF EchoInv, NetInv, ServerInv, Loops, EpollStep, connVars
<1>1. SUFFICES NetInv' /\ EpollInv'
  <2>1. toDestroy' \in BOOLEAN /\ server \in Loops
    BY <1>0 DEF ServerInv, Loops
  <2>. QED BY <1>0, <2>1, LoopBack DEF EchoInv
<1>2. /\ nclients = Cardinality(watched) /\ watched \ {ListenFd, StdinFd} = Open
      /\ {ListenFd, StdinFd} \subseteq watched \/ {ListenFd, StdinFd} \cap watched = {}
      /\ listening <=> ListenFd \in watched
      /\ pc \in {"wait", "serve", "ended"}
      /\ IsFiniteSet(watched) /\ nclients \in Nat /\ ListenFd # StdinFd
      /\ \A f \in DOMAIN fd : f \notin Open => f \notin watched
  <2>1. EpollTables /\ pc \in {"wait", "serve", "ended"}
    BY <1>0 DEF EpollInv
  <2>2. ListenFd # StdinFd
    BY DEF ListenFd, StdinFd
  <2>. QED BY <1>0, <2>1, <2>2, Watched DEF EpollTables
<1>3. ASSUME pc = "serve"
      PROVE  /\ \A f \in ready \ {StdinFd, ListenFd} : f \in Open /\ Readable(f)
             /\ StdinFd \in ready => StdinFd \in watched
             /\ ListenFd \in ready /\ listening => backlog # <<>>
  BY <1>0, <1>3 DEF EpollInv
<1>4. CASE EpollWait \/ EpollRound \/ EpollEnd \/ EpollAcceptFails
  <2>1. UNCHANGED <<netVars, nclients, watched>>
    BY <1>4 DEF EpollWait, EpollRound, EpollEnd, EpollAcceptFails, loopVars
  <2>2. NetInv' /\ Open' = Open /\ SameReads(Open) /\ UNCHANGED <<listening, backlog>>
    BY <1>0, <2>1, NetStays DEF connVars
  <2>3. EpollTables'
    BY <1>2, <2>1, <2>2 DEF EpollTables
  <2>4. CASE EpollWait
    <3>1. /\ pc' = "serve"
          /\ \E r : r = {f \in watched : IsReady(f)} /\ ready' \in Batches(r, nclients)
      BY <2>4 DEF EpollWait, Epoll
    <3>2. \A f \in ready' : f \in watched /\ IsReady(f)
      BY <3>1, Batch
    <3>3. \A f \in ready' \ {StdinFd, ListenFd} : f \in Open /\ Readable(f)
      BY <1>0, <1>2, <3>2, Reported, Opens
    <3>4. ListenFd \in ready' => backlog # <<>>
      BY <1>0, <3>2, Reported
    <3>. QED BY <2>1, <2>2, <2>3, <3>1, <3>2, <3>3, <3>4 DEF EpollInv, SameReads
  <2>5. CASE EpollRound \/ EpollEnd \/ EpollAcceptFails
    <3>1. pc' \in {"wait", "ended"}
      BY <2>5 DEF EpollRound, EpollEnd, EpollAcceptFails, Epoll
    <3>. QED BY <2>2, <2>3, <3>1 DEF EpollInv
  <2>. QED BY <1>4, <2>4, <2>5
<1>5. ASSUME NEW f \in Free, EpollAccept(f) PROVE NetInv' /\ EpollInv'
  <2>1. /\ pc = "serve" /\ pc' = "serve" /\ Accept(f) /\ watched' = watched \cup {f}
        /\ nclients' = nclients + 1 /\ ready' = ready \ {ListenFd}
    BY <1>5 DEF EpollAccept, EpollAt
  <2>2. /\ NetInv' /\ f \in DOMAIN fd /\ f \notin Open /\ Open' = Open \cup {f}
        /\ listening' = listening /\ SameReads(Open)
    BY <1>0, <2>1, AcceptKeeps
  <2>3. f # ListenFd /\ f # StdinFd /\ f \notin watched
    BY <1>0, <1>2, <2>2, Opens
  <2>4. Cardinality(watched') = nclients + 1
    BY <1>2, <2>1, <2>3, OneMore
  <2>5. EpollTables'
    BY <1>2, <2>1, <2>2, <2>3, <2>4 DEF EpollTables
  <2>6. \A g \in ready' \ {StdinFd, ListenFd} : g \in Open' /\ Readable(g)'
    BY <1>3, <2>1, <2>2 DEF SameReads
  <2>7. (StdinFd \in ready' => StdinFd \in watched') /\ ListenFd \notin ready'
    BY <1>3, <2>1
  <2>. QED BY <2>1, <2>2, <2>5, <2>6, <2>7 DEF EpollInv
<1>6. CASE EpollStop
  <2>1. /\ pc = "serve" /\ pc' = "serve" /\ Shut({}, TRUE) /\ watched' = watched \ {ListenFd, StdinFd}
        /\ nclients' = nclients - 2 /\ ready' = ready \ {StdinFd} /\ StdinFd \in ready
    BY <1>6 DEF EpollStop, EpollAt
  <2>2. NetInv' /\ Open' = Open /\ SameReads(Open) /\ listening' = FALSE
    <3>1. {} \in SUBSET Open /\ TRUE \in BOOLEAN /\ Open \ {} = Open
      OBVIOUS
    <3>. QED BY <1>0, <2>1, <3>1, LoopShutKeeps DEF connVars
  <2>3. ListenFd \in watched /\ StdinFd \in watched
    BY <1>2, <1>3, <2>1
  <2>4. Cardinality(watched') = nclients'
    <3>1. watched' = (watched \ {ListenFd}) \ {StdinFd} /\ StdinFd \in watched \ {ListenFd}
      BY <1>2, <2>1, <2>3
    <3>2. Cardinality(watched \ {ListenFd}) = nclients - 1 /\ IsFiniteSet(watched \ {ListenFd})
      BY <1>2, <2>3, OneLess
    <3>3. Cardinality(watched') = (nclients - 1) - 1
      BY <3>1, <3>2, OneLess
    <3>. QED BY <1>2, <2>1, <3>3
  <2>5. EpollTables'
    BY <1>2, <2>1, <2>2, <2>4 DEF EpollTables
  <2>6. \A g \in ready' \ {StdinFd, ListenFd} : g \in Open' /\ Readable(g)'
    BY <1>3, <2>1, <2>2 DEF SameReads
  <2>. QED BY <2>1, <2>2, <2>5, <2>6 DEF EpollInv
<1>7. ASSUME NEW f \in Open, EpollServe(f) PROVE NetInv' /\ EpollInv'
  <2>1. /\ pc = "serve" /\ pc' = "serve" /\ ready' = ready \ {f} /\ f \in watched
        /\ f # ListenFd /\ f # StdinFd
    <3>1. f # ListenFd /\ f # StdinFd
      BY <1>0, Opens
    <3>. QED BY <1>2, <1>7, <3>1 DEF EpollServe, EpollAt
  <2>2. CASE EchoBack(f) /\ UNCHANGED <<nclients, watched>>
    <3>1. NetInv' /\ UNCHANGED <<listening, backlog>> /\ Open' = Open /\ SameReads(Open \ {f})
      BY <1>0, <2>2, EchoBackKeeps DEF connVars
    <3>2. EpollTables'
      BY <1>2, <2>2, <3>1 DEF EpollTables
    <3>3. \A g \in ready' \ {StdinFd, ListenFd} : g \in Open' /\ Readable(g)'
      BY <1>3, <2>1, <3>1 DEF SameReads
    <3>. QED BY <1>3, <2>1, <2>2, <3>1, <3>2, <3>3 DEF EpollInv
  <2>3. CASE HangUp(f) /\ nclients' = nclients - 1 /\ watched' = watched \ {f}
    <3>1. /\ NetInv' /\ UNCHANGED <<listening, backlog>> /\ Open' = Open \ {f} /\ SameReads(Open \ {f})
      <4>1. Shut({f}, FALSE) /\ {f} \in SUBSET Open
        BY <2>3 DEF HangUp
      <4>2. listening \in BOOLEAN
        BY <1>0 DEF NetTypes
      <4>. QED BY <1>0, <4>1, <4>2, LoopShutKeeps DEF connVars
    <3>2. Cardinality(watched') = nclients - 1
      BY <1>2, <2>1, <2>3, OneLess
    <3>3. EpollTables'
      BY <1>2, <2>1, <2>3, <3>1, <3>2 DEF EpollTables
    <3>4. \A g \in ready' \ {StdinFd, ListenFd} : g \in Open' /\ Readable(g)'
      BY <1>3, <2>1, <3>1 DEF SameReads
    <3>5. (StdinFd \in ready' => StdinFd \in watched') /\ (ListenFd \in ready' /\ listening' => backlog' # <<>>)
      BY <1>3, <2>1, <2>3, <3>1
    <3>. QED BY <2>1, <3>1, <3>3, <3>4, <3>5 DEF EpollInv
  <2>. QED BY <1>7, <2>2, <2>3 DEF EpollServe
<1>. QED BY <1>4, <1>5, <1>6, <1>7 DEF EpollStep

LEMMA CallbackKeeps ==
  ASSUME EchoInv, CallbackStep, UNCHANGED <<toDestroy, connVars>>
  PROVE  EchoInv'
<1>0. /\ server = "callbacks" /\ NetInv /\ NetTypes /\ ServerInv /\ CallbackInv
      /\ \A t \in Threads : serving[t] = NONE
      /\ UNCHANGED <<server, stdin, toDestroy, serving, held, work, progVars>>
  <2>1. server = "callbacks"
    BY DEF CallbackStep, CallbackWait, OnNewConnectionFails, CallbackRound, OnNewConnection,
           OnReadRequest, CallbackAt
  <2>. QED BY <2>1 DEF EchoInv, NetInv, ServerInv, Loops, CallbackStep, connVars
<1>1. SUFFICES NetInv' /\ CallbackInv'
  <2>1. stdin' \in {"quiet", "line", "taken"} /\ toDestroy' \in BOOLEAN /\ server \in Loops
    BY <1>0 DEF ServerInv, Loops
  <2>. QED BY <1>0, <2>1, LoopBack DEF EchoInv
<1>2. /\ nclients = Cardinality(watched) /\ ListenFd \in watched /\ watched \ {ListenFd} \subseteq Open
      /\ \A f \in Open \ watched : AtEnd(f)
      /\ pc \in {"wait", "serve"} /\ IsFiniteSet(watched)
      /\ \A f \in DOMAIN fd : f \notin Open => f \notin watched
  <2>1. CallbackTables /\ pc \in {"wait", "serve"}
    BY <1>0 DEF CallbackInv
  <2>2. watched \ {ListenFd, StdinFd} \subseteq Open
    BY <2>1 DEF CallbackTables
  <2>. QED BY <1>0, <2>1, <2>2, Watched DEF CallbackTables
<1>3. ASSUME pc = "serve"
      PROVE  /\ \A f \in ready \ {ListenFd} : f \in watched /\ f \in Open /\ Readable(f)
             /\ ListenFd \in ready => backlog # <<>>
  BY <1>0, <1>2, <1>3 DEF CallbackInv
<1>4. CASE CallbackWait \/ CallbackRound
  <2>1. UNCHANGED <<netVars, nclients, watched>>
    BY <1>4 DEF CallbackWait, CallbackRound, loopVars
  <2>2. NetInv' /\ Open' = Open /\ SameReads(Open) /\ UNCHANGED backlog
    BY <1>0, <2>1, NetStays DEF connVars
  <2>3. CallbackTables'
    BY <1>2, <2>1, <2>2 DEF CallbackTables, SameReads
  <2>4. CASE CallbackWait
    <3>1. /\ pc' = "serve"
          /\ \E r : r = {f \in watched : IsReady(f)} /\ ready' \in Batches(r, Cardinality(r))
      BY <2>4 DEF CallbackWait
    <3>2. \A f \in ready' : f \in watched /\ IsReady(f)
      BY <3>1, Batch
    <3>3. \A f \in ready' \ {ListenFd} : f \in watched /\ f \in Open /\ Readable(f)
      BY <1>0, <1>2, <3>2, Reported, Opens
    <3>4. ListenFd \in ready' => backlog # <<>>
      BY <1>0, <3>2, Reported
    <3>. QED BY <2>1, <2>2, <2>3, <3>1, <3>3, <3>4 DEF CallbackInv, SameReads
  <2>5. CASE CallbackRound
    <3>1. pc' = "wait"
      BY <2>5 DEF CallbackRound
    <3>. QED BY <2>2, <2>3, <3>1 DEF CallbackInv
  <2>. QED BY <1>4, <2>4, <2>5
<1>5. CASE OnNewConnectionFails
  <2>1. /\ UNCHANGED <<netVars, nclients, watched>>
        /\ pc = "serve" /\ pc' = "serve" /\ ready' = ready \ {ListenFd}
    BY <1>5 DEF OnNewConnectionFails, CallbackAt
  <2>2. NetInv' /\ Open' = Open /\ SameReads(Open)
    BY <1>0, <2>1, NetStays DEF connVars
  <2>3. CallbackTables'
    BY <1>2, <2>1, <2>2 DEF CallbackTables, SameReads
  <2>4. \A f \in ready' \ {ListenFd} : f \in watched' /\ Readable(f)'
    BY <1>3, <2>1, <2>2 DEF SameReads
  <2>. QED BY <2>1, <2>2, <2>3, <2>4 DEF CallbackInv
<1>6. ASSUME NEW f \in Free, OnNewConnection(f) PROVE NetInv' /\ CallbackInv'
  <2>1. /\ pc = "serve" /\ pc' = "serve" /\ Accept(f) /\ watched' = watched \cup {f}
        /\ nclients' = nclients + 1 /\ ready' = ready \ {ListenFd}
    BY <1>6 DEF OnNewConnection, CallbackAt
  <2>2. /\ NetInv' /\ f \in DOMAIN fd /\ f \notin Open /\ Open' = Open \cup {f} /\ SameReads(Open)
    BY <1>0, <2>1, AcceptKeeps
  <2>3. Cardinality(watched') = nclients'
    BY <1>2, <2>1, <2>2, OneMore
  <2>4. CallbackTables'
    BY <1>2, <2>1, <2>2, <2>3 DEF CallbackTables, SameReads
  <2>5. \A g \in ready' \ {ListenFd} : g \in watched' /\ Readable(g)'
    BY <1>3, <2>1, <2>2 DEF SameReads
  <2>. QED BY <2>1, <2>2, <2>4, <2>5 DEF CallbackInv
<1>7. ASSUME NEW f \in Open, OnReadRequest(f) PROVE NetInv' /\ CallbackInv'
  <2>1. pc = "serve" /\ pc' = "serve" /\ ready' = ready \ {f} /\ f \in watched /\ f # ListenFd
    <3>1. f # ListenFd
      BY <1>0, Opens
    <3>2. pc = "serve" /\ pc' = "serve" /\ ready' = ready \ {f} /\ f \in ready
      BY <1>7 DEF OnReadRequest, CallbackAt
    <3>. QED BY <1>3, <3>1, <3>2
  <2>2. CASE EchoBack(f) /\ UNCHANGED <<nclients, watched>>
    <3>1. NetInv' /\ UNCHANGED <<listening, backlog>> /\ Open' = Open /\ SameReads(Open \ {f})
      BY <1>0, <2>2, EchoBackKeeps DEF connVars
    <3>2. CallbackTables'
      BY <1>2, <2>1, <2>2, <3>1 DEF CallbackTables, SameReads
    <3>3. \A g \in ready' \ {ListenFd} : g \in watched' /\ Readable(g)'
      BY <1>3, <2>1, <2>2, <3>1 DEF SameReads
    <3>. QED BY <1>3, <2>1, <2>2, <3>1, <3>2, <3>3 DEF CallbackInv
  <2>3. CASE AtEnd(f) /\ nclients' = nclients - 1 /\ watched' = watched \ {f} /\ UNCHANGED netVars
    <3>1. NetInv' /\ UNCHANGED <<listening, backlog>> /\ Open' = Open /\ SameReads(Open)
      BY <1>0, <2>3, NetStays DEF connVars
    <3>2. Cardinality(watched') = nclients'
      BY <1>2, <2>1, <2>3, OneLess
    <3>3. CallbackTables'
      BY <1>2, <2>1, <2>3, <3>1, <3>2 DEF CallbackTables, SameReads
    <3>4. \A g \in ready' \ {ListenFd} : g \in watched' /\ Readable(g)'
      BY <1>3, <2>1, <2>3, <3>1 DEF SameReads
    <3>. QED BY <1>3, <2>1, <2>3, <3>1, <3>3, <3>4 DEF CallbackInv
  <2>. QED BY <1>7, <2>2, <2>3 DEF OnReadRequest, ApClose
<1>. QED BY <1>4, <1>5, <1>6, <1>7 DEF CallbackStep

-----------------------------------------------------------------------------
(***************************************************************************)
(* The server over libuv.                                                  *)
(***************************************************************************)

LEMMA UvKeeps ==
  ASSUME EchoInv, UvStep, UNCHANGED connVars
  PROVE  EchoInv'
<1>0. /\ server = "uv" /\ NetInv /\ NetTypes /\ ServerInv /\ UvInv
      /\ \A t \in Threads : serving[t] = NONE
      /\ stdin' \in {"quiet", "line", "taken"} /\ toDestroy' \in BOOLEAN
      /\ UNCHANGED <<server, serving, held, work, progVars>>
  <2>1. server = "uv" /\ stdin' \in {stdin, "taken"} /\ toDestroy' \in {toDestroy, TRUE}
    BY DEF UvStep, UvShed, UvStdin, UvRunEnds, UvConnection, UvRead, UvEnd, UvCall
  <2>. QED BY <2>1 DEF EchoInv, NetInv, ServerInv, Loops, UvStep, connVars
<1>1. SUFFICES NetInv' /\ UvInv'
  <2>1. server \in Loops
    BY <1>0 DEF Loops
  <2>. QED BY <1>0, <2>1, LoopBack DEF EchoInv
<1>2. /\ nclients = Cardinality(Open) /\ nclients \in Nat /\ watched \ {ListenFd, StdinFd} = Open
      /\ listening <=> ListenFd \in watched
      /\ toDestroy /\ listening => Open # {}
      /\ pc \in {"wait", "ended"} /\ IsFiniteSet(Open) /\ Cardinality({}) = 0
      /\ nclients = 0 <=> Open = {}
  <2>1. UvTables /\ pc \in {"wait", "ended"}
    BY <1>0 DEF UvInv
  <2>2. IsFiniteSet(Open)
    BY <1>0, Opens
  <2>3. Cardinality(Open) \in Nat /\ Cardinality({}) = 0 /\ (Cardinality(Open) = 0 <=> Open = {})
    BY <2>2, FS_CardinalityType, FS_EmptySet
  <2>. QED BY <2>1, <2>2, <2>3 DEF UvTables
<1>3. ASSUME NEW f \in Free, UvConnection(f) PROVE NetInv' /\ UvInv'
  <2>1. Accept(f) /\ nclients' = nclients + 1 /\ watched' = watched \cup {f} /\ pc' = pc
    BY <1>3 DEF UvConnection, UvCall
  <2>2. NetInv' /\ f \in DOMAIN fd /\ f \notin Open /\ Open' = Open \cup {f} /\ listening' = listening
    BY <1>0, <2>1, AcceptKeeps
  <2>3. f # ListenFd /\ f # StdinFd
    BY <1>0, <2>2, Opens
  <2>4. Cardinality(Open') = nclients'
    BY <1>2, <2>1, <2>2, OneMore
  <2>. QED BY <1>2, <2>1, <2>2, <2>3, <2>4 DEF UvInv, UvTables
<1>4. CASE UvShed
  <2>1. AcceptAndClose /\ UNCHANGED <<nclients, watched, toDestroy, pc>>
    BY <1>4 DEF UvShed, UvCall, loopVars
  <2>2. NetInv' /\ UNCHANGED <<fd, listening>>
    BY <1>0, <2>1, AcceptAndCloseKeeps DEF connVars
  <2>3. Open' = Open
    BY <2>2 DEF Open, Free
  <2>. QED BY <1>2, <2>1, <2>2, <2>3 DEF UvInv, UvTables
<1>5. CASE UvStdin
  <2>1. pc' = pc /\ nclients' = nclients
    BY <1>5 DEF UvStdin, UvCall
  <2>2. CASE nclients = 0 /\ Shut({}, TRUE) /\ watched' = {}
    <3>1. NetInv' /\ Open' = Open /\ listening' = FALSE
      <4>1. {} \in SUBSET Open /\ TRUE \in BOOLEAN /\ Open \ {} = Open
        OBVIOUS
      <4>. QED BY <1>0, <2>2, <4>1, LoopShutKeeps DEF connVars
    <3>. QED BY <1>2, <2>1, <2>2, <3>1 DEF UvInv, UvTables
  <2>3. CASE nclients # 0 /\ UNCHANGED <<netVars, watched>>
    <3>1. NetInv' /\ Open' = Open /\ listening' = listening
      BY <1>0, <2>3, NetStays DEF connVars
    <3>. QED BY <1>2, <2>1, <2>3, <3>1 DEF UvInv, UvTables
  <2>. QED BY <1>5, <2>2, <2>3 DEF UvStdin
<1>6. ASSUME NEW f \in Open, UvRead(f) PROVE NetInv' /\ UvInv'
  <2>1. EchoBack(f) /\ UNCHANGED <<nclients, watched, toDestroy, pc>>
    BY <1>6 DEF UvRead, UvCall, loopVars
  <2>2. NetInv' /\ Open' = Open /\ listening' = listening
    BY <1>0, <2>1, EchoBackKeeps DEF connVars
  <2>. QED BY <1>2, <2>1, <2>2 DEF UvInv, UvTables
<1>7. ASSUME NEW f \in Open, UvEnd(f) PROVE NetInv' /\ UvInv'
  <2> DEFINE last == toDestroy /\ nclients = 1
  <2>1. /\ nclients' = nclients - 1 /\ UNCHANGED <<toDestroy, pc>> /\ Shut({f}, last)
        /\ watched' = IF last THEN {} ELSE watched \ {f}
    BY <1>7 DEF UvEnd, UvCall
  <2>2. /\ NetInv' /\ Open' = Open \ {f} /\ listening' = (listening /\ ~last)
    <3>1. {f} \in SUBSET Open /\ last \in BOOLEAN
      OBVIOUS
    <3> HIDE DEF last
    <3>. QED BY <1>0, <2>1, <3>1, LoopShutKeeps DEF connVars
  <2>3. Cardinality(Open') = nclients' /\ (nclients' = 0 <=> Open' = {})
    <3>1. Cardinality(Open \ {f}) = nclients - 1 /\ IsFiniteSet(Open \ {f})
      BY <1>2, OneLess
    <3>2. Cardinality(Open \ {f}) = 0 <=> Open \ {f} = {}
      BY <3>1, FS_EmptySet
    <3>. QED BY <2>1, <2>2, <3>1, <3>2
  <2>4. f # ListenFd /\ f # StdinFd /\ f \in watched
    BY <1>0, <1>2, Opens
  <2>5. CASE last
    <3>1. Open' = {} /\ watched' = {} /\ listening' = FALSE
      <4>1. nclients' = 0
        BY <2>1, <2>5
      <4>2. watched' = {} /\ listening' = FALSE
        BY <2>1, <2>2, <2>5
      <4>. QED BY <2>3, <4>1, <4>2
    <3>. QED BY <1>2, <2>1, <2>2, <2>3, <3>1 DEF UvInv, UvTables
  <2>6. CASE ~last
    <3>1. /\ watched' = watched \ {f}
          /\ listening' = listening /\ (toDestroy => nclients # 1)
      <4>1. listening \in BOOLEAN
        BY <1>0 DEF NetTypes
      <4>. QED BY <2>1, <2>2, <2>6, <4>1
    <3>2. toDestroy' /\ listening' => Open' # {}
      BY <1>2, <2>1, <2>3, <3>1
    <3>. QED BY <1>2, <2>1, <2>2, <2>3, <2>4, <3>1, <3>2 DEF UvInv, UvTables
  <2>. QED BY <2>5, <2>6
<1>8. CASE UvRunEnds
  <2>1. UNCHANGED <<netVars, nclients, watched, toDestroy>> /\ pc' = "ended"
    BY <1>8 DEF UvRunEnds, loopVars
  <2>2. NetInv' /\ Open' = Open /\ listening' = listening
    BY <1>0, <2>1, NetStays DEF connVars
  <2>. QED BY <1>2, <2>1, <2>2 DEF UvInv, UvTables
<1>. QED BY <1>3, <1>4, <1>5, <1>6, <1>7, <1>8 DEF UvStep

-----------------------------------------------------------------------------
(***************************************************************************)
(* The servers with a thread for each connection.                          *)
(***************************************************************************)

LEMMA ConnBack ==
  ASSUME EchoInv, server \notin Loops, NetInv', ConnPoints',
         UNCHANGED <<server, stdin, toDestroy, progVars>>, work' = <<>> \/ server = "pool",
         \/ pc' \in {pc, "destroy", "ended"}
         \/ pc' = "killed" /\ (server = "local" => \E c \in Mortal : cpc[c] = "killed")
  PROVE  EchoInv'
<1>1. /\ pc \in {"wait", "destroy", "ended", "killed"}
      /\ server = "local" /\ pc = "killed" => \E c \in Mortal : cpc[c] = "killed"
      /\ stdin \in {"quiet", "line", "taken"} /\ toDestroy \in BOOLEAN
  BY DEF EchoInv, ServerInv, ConnInv
<1>2. cpc' = cpc /\ server' = server /\ stdin' = stdin /\ toDestroy' = toDestroy
  BY DEF progVars
<1>3. pc' \in {"wait", "destroy", "ended", "killed"}
  BY <1>1
<1>4. server = "local" /\ pc' = "killed" => \E c \in Mortal : cpc'[c] = "killed"
  BY <1>1, <1>2
<1>5. ConnInv'
  BY <1>2, <1>3, <1>4 DEF ConnInv
<1>6. server' # "select" /\ server' # "poll" /\ server' # "epoll" /\ server' # "callbacks" /\ server' # "uv"
  BY <1>2 DEF Loops
<1>. QED BY <1>1, <1>2, <1>5, <1>6 DEF EchoInv, ServerInv, Loops

\* A step that leaves the connections where they are.
LEMMA PointsStay ==
  ASSUME ConnPoints, UNCHANGED <<work, serving>>, Open' = Open
  PROVE  ConnPoints'
BY DEF ConnPoints

LEMMA AcceptPoints ==
  ASSUME NetTypes, ConnPoints, NEW f \in DOMAIN fd, f \notin Open, Open' = Open \cup {f},
         \/ work' = work /\ serving[Main] = NONE /\ serving' = [serving EXCEPT ![Main] = f]
         \/ work' = Append(work, f) /\ serving' = serving
  PROVE  ConnPoints'
<1>1. /\ \A t, u \in Threads : serving[t] # NONE /\ serving[t] = serving[u] => t = u
      /\ \A i, j \in 1..Len(work) : work[i] = work[j] => i = j
      /\ \A t \in Threads : \A i \in 1..Len(work) : serving[t] # work[i]
      /\ \A t \in Threads : serving[t] # NONE => serving[t] \in Open
      /\ \A i \in 1..Len(work) : work[i] \in Open
      /\ \A g \in Open : (\E t \in Threads : serving[t] = g) \/ (\E i \in 1..Len(work) : work[i] = g)
  BY DEF ConnPoints
<1>2. /\ f # NONE /\ \A t \in Threads : serving[t] # f
      /\ \A i \in 1..Len(work) : work[i] # f
  BY <1>1, Opens
<1>3. CASE work' = work /\ serving[Main] = NONE /\ serving' = [serving EXCEPT ![Main] = f]
  <2>1. Main \in Threads /\ serving'[Main] = f /\ \A t \in Threads : t # Main => serving'[t] = serving[t]
    BY <1>3, Constants DEF NetTypes
  <2>2. \A t, u \in Threads : serving'[t] # NONE /\ serving'[t] = serving'[u] => t = u
    BY <1>1, <1>2, <2>1
  <2>3. \A t \in Threads : \A i \in 1..Len(work) : serving'[t] # work[i]
    BY <1>1, <1>2, <2>1
  <2>4. \A t \in Threads : serving'[t] # NONE => serving'[t] \in Open'
    BY <1>1, <2>1
  <2>5. \A i \in 1..Len(work) : work[i] \in Open'
    BY <1>1
  <2>6. ASSUME NEW g \in Open'
        PROVE  (\E t \in Threads : serving'[t] = g) \/ (\E i \in 1..Len(work) : work[i] = g)
    <3>1. CASE g = f
      BY <2>1, <3>1
    <3>2. CASE g # f
      <4>1. g \in Open /\ g # NONE
        BY <1>1, <3>2, Opens
      <4>2. \A t \in Threads : serving[t] = g => serving'[t] = g
        BY <1>3, <2>1, <4>1
      <4>. QED BY <1>1, <4>1, <4>2
    <3>. QED BY <3>1, <3>2
  <2>. QED BY <1>1, <1>3, <2>2, <2>3, <2>4, <2>5, <2>6 DEF ConnPoints
<1>4. CASE work' = Append(work, f) /\ serving' = serving
  <2> DEFINE n == Len(work)
  <2>1. /\ n \in Nat /\ Len(work') = n + 1 /\ work'[n + 1] = f
        /\ \A i \in 1..n : work'[i] = work[i]
        /\ \A i \in 1..Len(work') : i \in 1..n \/ i = n + 1
        /\ n + 1 \in 1..Len(work') /\ \A i \in 1..n : i \in 1..Len(work')
    <3>1. work \in Seq(DOMAIN fd)
      BY DEF NetTypes
    <3>2. /\ n \in Nat /\ Len(work') = n + 1 /\ work'[n + 1] = f
          /\ \A i \in 1..n : work'[i] = work[i]
          /\ \A i \in 1..Len(work') : i \in 1..n \/ i = n + 1
      BY <1>4, <3>1, Appended
    <3>3. n + 1 \in 1..(n + 1) /\ \A i \in 1..n : i \in 1..(n + 1)
      BY <3>2
    <3>. QED BY <3>2, <3>3
  <2> HIDE DEF n
  <2>2. \A i, j \in 1..Len(work') : work'[i] = work'[j] => i = j
    BY <1>1, <1>2, <2>1 DEF n
  <2>3. \A i \in 1..Len(work') : work'[i] = f \/ (i \in 1..n /\ work'[i] = work[i])
    BY <2>1
  <2>4. \A i \in 1..Len(work') : work'[i] \in Open' /\ \A t \in Threads : serving[t] # work'[i]
    BY <1>1, <1>2, <2>3 DEF n
  <2>5. ASSUME NEW g \in Open'
        PROVE  (\E t \in Threads : serving[t] = g) \/ (\E i \in 1..Len(work') : work'[i] = g)
    <3>1. CASE g = f
      BY <2>1, <3>1
    <3>2. CASE g # f
      <4>1. (\E t \in Threads : serving[t] = g) \/ (\E i \in 1..n : work[i] = g)
        BY <1>1, <3>2 DEF n
      <4>. QED BY <2>1, <4>1
    <3>. QED BY <3>1, <3>2
  <2>. QED BY <1>1, <1>4, <2>2, <2>4, <2>5 DEF ConnPoints
<1>. QED BY <1>3, <1>4

LEMMA RunAcceptKeeps ==
  ASSUME EchoInv, server \notin Loops, NEW f \in Free, LocalAccept(f) \/ PoolAccept(f),
         UNCHANGED <<server, stdin, toDestroy, progVars>>
  PROVE  EchoInv'
<1>1. NetInv /\ NetTypes /\ ConnPoints /\ (server # "pool" => work = <<>>)
  BY DEF EchoInv, NetInv, ServerInv, ConnInv
<1>2. /\ Accept(f) /\ pc' = pc /\ held' = held
      /\ \/ /\ work' = work /\ server = "local"
            /\ serving[Main] = NONE /\ serving' = [serving EXCEPT ![Main] = f]
         \/ work' = Append(work, f) /\ serving' = serving /\ server = "pool"
  BY DEF LocalAccept, PoolAccept
<1>3. NetInv' /\ f \in DOMAIN fd /\ f \notin Open /\ Open' = Open \cup {f}
  BY <1>1, <1>2, AcceptKeeps
<1>4. ConnPoints'
  BY <1>1, <1>2, <1>3, AcceptPoints
<1>. QED BY <1>1, <1>2, <1>3, <1>4, ConnBack

LEMMA PoolEndsKeeps ==
  ASSUME EchoInv, server \notin Loops, PoolAcceptFails \/ PoolEnd,
         UNCHANGED <<server, stdin, toDestroy, progVars>>
  PROVE  EchoInv'
<1>1. NetInv /\ NetTypes /\ ConnPoints /\ server = "pool" /\ UNCHANGED <<work, serving, held>>
  BY DEF EchoInv, NetInv, ServerInv, ConnInv, PoolAcceptFails, PoolEnd, connVars
<1>2. CASE PoolAcceptFails
  <2>1. UNCHANGED netVars /\ pc' = "destroy"
    BY <1>2 DEF PoolAcceptFails
  <2>2. NetInv' /\ Open' = Open
    BY <1>1, <2>1, NetStays DEF connVars
  <2>3. ConnPoints'
    BY <1>1, <2>2, PointsStay
  <2>. QED BY <1>1, <2>1, <2>2, <2>3, ConnBack
<1>3. CASE PoolEnd
  <2>1. /\ pc' = "ended" /\ work = <<>> /\ Shut(Open, TRUE)
        /\ \A t \in Threads : serving[t] = NONE
    BY <1>3 DEF PoolEnd
  <2>2. Open = {}
    <3>1. \A i \in 1..Len(work) : FALSE
      BY <2>1
    <3>2. ASSUME NEW g \in Open PROVE FALSE
      <4>1. g # NONE
        BY <1>1, Opens
      <4>2. \E t \in Threads : serving[t] = g
        BY <1>1, <3>1 DEF ConnPoints
      <4>. QED BY <2>1, <4>1, <4>2
    <3>. QED BY <3>2
  <2>3. NetInv' /\ Open' = Open
    <3>1. Open \in SUBSET Open /\ TRUE \in BOOLEAN /\ Open \ Open = Open
      BY <2>2
    <3>. QED BY <1>1, <2>1, <3>1, LoopShutKeeps DEF connVars
  <2>4. ConnPoints'
    BY <1>1, <2>3, PointsStay
  <2>. QED BY <1>1, <2>1, <2>3, <2>4, ConnBack
<1>. QED BY <1>2, <1>3

LEMMA PoolDispatchKeeps ==
  ASSUME EchoInv, server \notin Loops, NEW w \in Workers, Dispatch(w),
         UNCHANGED <<server, stdin, toDestroy, progVars>>
  PROVE  EchoInv'
<1>1. /\ NetInv /\ NetTypes /\ ConnPoints /\ server = "pool" /\ serving[w] = NONE /\ work # <<>>
      /\ serving' = [serving EXCEPT ![w] = Head(work)] /\ work' = Tail(work)
      /\ UNCHANGED <<netVars, pc, held>> /\ w \in Threads
  BY Constants DEF EchoInv, NetInv, ServerInv, ConnInv, Dispatch
<1> DEFINE f == Head(work)
<1>2. /\ work' \in Seq(DOMAIN fd) /\ f = work[1] /\ 1 \in 1..Len(work)
      /\ \A i \in 1..Len(work') : i + 1 \in 1..Len(work) /\ work'[i] = work[i + 1] /\ i + 1 # 1
      /\ \A i \in 1..Len(work) : i # 1 => i - 1 \in 1..Len(work') /\ work'[i - 1] = work[i]
      /\ \A i, j \in 1..Len(work') : i + 1 = j + 1 => i = j
  <2>1. work \in Seq(DOMAIN fd)
    BY <1>1 DEF NetTypes
  <2>. QED BY <1>1, <2>1, Tailed
<1>3. /\ \A t, u \in Threads : serving[t] # NONE /\ serving[t] = serving[u] => t = u
      /\ \A i, j \in 1..Len(work) : work[i] = work[j] => i = j
      /\ \A t \in Threads : \A i \in 1..Len(work) : serving[t] # work[i]
      /\ \A t \in Threads : serving[t] # NONE => serving[t] \in Open
      /\ \A i \in 1..Len(work) : work[i] \in Open
      /\ \A g \in Open : (\E t \in Threads : serving[t] = g) \/ (\E i \in 1..Len(work) : work[i] = g)
  BY <1>1 DEF ConnPoints
<1>4. f \in Open /\ f # NONE /\ \A t \in Threads : serving[t] # f
  BY <1>1, <1>2, <1>3, Opens
<1>5. serving'[w] = f /\ \A t \in Threads : t # w => serving'[t] = serving[t]
  BY <1>1 DEF NetTypes
<1> HIDE DEF f
<1>6. NetInv' /\ Open' = Open
  <2>1. serving' = [serving EXCEPT ![w] = f]
    BY <1>1 DEF f
  <2>. QED BY <1>1, <1>2, <1>4, <2>1, DispatchKeeps
<1>7. ConnPoints'
  <2>1. \A t, u \in Threads : serving'[t] # NONE /\ serving'[t] = serving'[u] => t = u
    BY <1>3, <1>4, <1>5
  <2>2. \A i, j \in 1..Len(work') : work'[i] = work'[j] => i = j
    BY <1>2, <1>3
  <2>3. \A t \in Threads : \A i \in 1..Len(work') : serving'[t] # work'[i]
    BY <1>2, <1>3, <1>5
  <2>4. \A t \in Threads : serving'[t] # NONE => serving'[t] \in Open
    BY <1>3, <1>4, <1>5
  <2>5. \A i \in 1..Len(work') : work'[i] \in Open
    BY <1>2, <1>3
  <2>6. ASSUME NEW g \in Open
        PROVE  (\E t \in Threads : serving'[t] = g) \/ (\E i \in 1..Len(work') : work'[i] = g)
    <3>1. CASE \E t \in Threads : serving[t] = g
      <4>1. PICK t \in Threads : serving[t] = g
        BY <3>1
      <4>2. t # w
        BY <1>1, <4>1, Opens
      <4>. QED BY <1>5, <4>1, <4>2
    <3>2. CASE \E i \in 1..Len(work) : work[i] = g
      <4>1. PICK i \in 1..Len(work) : work[i] = g
        BY <3>2
      <4>2. CASE i = 1
        BY <1>1, <1>2, <1>5, <4>1, <4>2
      <4>3. CASE i # 1
        BY <1>2, <4>1, <4>3
      <4>. QED BY <4>2, <4>3
    <3>. QED BY <1>3, <3>1, <3>2
  <2>. QED BY <1>6, <2>1, <2>2, <2>3, <2>4, <2>5, <2>6 DEF ConnPoints
<1>. QED BY <1>1, <1>6, <1>7, ConnBack

\* The write of a thread to a client that is gone: only a local socket fails then,
\* and only with a client that was killed.
LEMMA SigpipeKilled ==
  ASSUME NetInv, NEW t \in Threads, serving[t] # NONE, held[t] # <<>>, BrokenPipe(fd[serving[t]])
  PROVE  server = "local" /\ \E c \in Mortal : cpc[c] = "killed"
<1> DEFINE c == fd[serving[t]]
<1>1. serving[t] \in Open /\ c \in Clients /\ t \in Held(c)
  BY Opens DEF NetInv, ServingSound, Held
<1>2. Conversation(c)
  BY <1>1 DEF NetInv
<1>3. ~Nothing(c)
  BY <1>1 DEF Nothing
<1>4. cliEnd[c] # "rst" /\ (cliEnd[c] # "up" => cpc[c] = "killed" /\ c \in Mortal)
  BY <1>2, <1>3 DEF Conversation
<1>. QED BY <1>4 DEF BrokenPipe

LEMMA SigpipeKeeps ==
  ASSUME EchoInv, server \notin Loops, NEW t \in Threads, ConnSigpipe(t),
         UNCHANGED <<server, stdin, toDestroy, progVars>>
  PROVE  EchoInv'
<1>1. /\ NetInv /\ NetTypes /\ ServingSound /\ serving[t] # NONE /\ held[t] # <<>>
      /\ BrokenPipe(fd[serving[t]]) /\ work' = work /\ pc' = "killed" /\ Shut(Open, TRUE)
      /\ serving' = [u \in Threads |-> NONE] /\ held' = [u \in Threads |-> <<>>]
      /\ (server # "pool" => work = <<>>)
  BY DEF EchoInv, NetInv, ServerInv, ConnInv, ConnSigpipe, Serves
<1>2. server = "local" /\ work = <<>> /\ \E c \in Mortal : cpc[c] = "killed"
  BY <1>1, SigpipeKilled
<1>3. NetInv' /\ Open' = {}
  <2>1. /\ serving' = [u \in Threads |-> IF serving[u] \in Open THEN NONE ELSE serving[u]]
        /\ held' = [u \in Threads |-> IF serving[u] \in Open THEN <<>> ELSE held[u]]
    <3>1. /\ \A u \in Threads : (IF serving[u] \in Open THEN NONE ELSE serving[u]) = NONE
          /\ \A u \in Threads : (IF serving[u] \in Open THEN <<>> ELSE held[u]) = <<>>
      BY <1>1 DEF ServingSound
    <3>. QED BY <1>1, <3>1
  <2>2. Open \in SUBSET Open /\ TRUE \in BOOLEAN /\ Open \ Open = {}
    OBVIOUS
  <2>. QED BY <1>1, <2>1, <2>2, ShutKeeps
<1>4. ConnPoints'
  <2>1. Len(work') = 0 /\ \A u \in Threads : serving'[u] = NONE
    BY <1>1, <1>2
  <2>2. \A i \in 1..Len(work') : FALSE
    BY <2>1
  <2>. QED BY <1>3, <2>1, <2>2 DEF ConnPoints
<1>. QED BY <1>1, <1>2, <1>3, <1>4, ConnBack

LEMMA ConnCloseKeeps ==
  ASSUME EchoInv, server \notin Loops, NEW t \in Threads, ConnClose(t),
         UNCHANGED <<server, stdin, toDestroy, progVars>>
  PROVE  EchoInv'
<1> DEFINE f == serving[t]
<1>1. /\ NetInv /\ NetTypes /\ ServingSound /\ ConnPoints /\ f # NONE /\ held[t] = <<>>
      /\ HangUp(f) /\ serving' = [serving EXCEPT ![t] = NONE] /\ UNCHANGED <<pc, held, work>>
      /\ (server # "pool" => work = <<>>)
  BY DEF EchoInv, NetInv, ServerInv, ConnInv, ConnClose, Serves
<1>2. f \in Open /\ \A u \in Threads : serving[u] = f <=> u = t
  BY <1>1 DEF ServingSound
<1>3. serving'[t] = NONE /\ \A u \in Threads : u # t => serving'[u] = serving[u]
  BY <1>1 DEF NetTypes
<1>4. NetInv' /\ Open' = Open \ {f}
  <2>1. Shut({f}, FALSE) /\ {f} \in SUBSET Open /\ FALSE \in BOOLEAN
    BY <1>1, <1>2 DEF HangUp
  <2>2. serving' = [u \in Threads |-> IF serving[u] \in {f} THEN NONE ELSE serving[u]]
    <3>1. serving' \in [Threads -> DOMAIN fd \cup {NONE}]
      BY <1>1 DEF NetTypes
    <3>2. \A u \in Threads : serving'[u] = IF serving[u] \in {f} THEN NONE ELSE serving[u]
      BY <1>2, <1>3
    <3>. QED BY <3>1, <3>2
  <2>3. held' = [u \in Threads |-> IF serving[u] \in {f} THEN <<>> ELSE held[u]]
    <3>1. held \in [Threads -> Seq(Messages)]
      BY <1>1 DEF NetTypes
    <3>2. \A u \in Threads : held[u] = IF serving[u] \in {f} THEN <<>> ELSE held[u]
      BY <1>1, <1>2
    <3>. QED BY <1>1, <3>1, <3>2
  <2> HIDE DEF f
  <2>. QED BY <1>1, <2>1, <2>2, <2>3, ShutKeeps
<1> HIDE DEF f
<1>5. ConnPoints'
  <2>1. /\ \A u, v \in Threads : serving[u] # NONE /\ serving[u] = serving[v] => u = v
        /\ \A i, j \in 1..Len(work) : work[i] = work[j] => i = j
        /\ \A u \in Threads : \A i \in 1..Len(work) : serving[u] # work[i]
        /\ \A u \in Threads : serving[u] # NONE => serving[u] \in Open
        /\ \A i \in 1..Len(work) : work[i] \in Open
        /\ \A g \in Open : (\E u \in Threads : serving[u] = g) \/ (\E i \in 1..Len(work) : work[i] = g)
        /\ NONE \notin Open
    BY <1>1, Opens DEF ConnPoints
  <2>2. \A u, v \in Threads : serving'[u] # NONE /\ serving'[u] = serving'[v] => u = v
    BY <1>3, <2>1
  <2>3. \A u \in Threads : \A i \in 1..Len(work) : serving'[u] # work[i]
    BY <1>3, <2>1
  <2>4. \A u \in Threads : serving'[u] # NONE => serving'[u] \in Open'
    BY <1>2, <1>3, <1>4, <2>1
  <2>5. \A i \in 1..Len(work) : work[i] \in Open'
    BY <1>2, <1>4, <2>1
  <2>6. \A g \in Open' : (\E u \in Threads : serving'[u] = g) \/ (\E i \in 1..Len(work) : work[i] = g)
    BY <1>2, <1>3, <1>4, <2>1
  <2>. QED BY <1>1, <2>1, <2>2, <2>3, <2>4, <2>5, <2>6 DEF ConnPoints
<1>. QED BY <1>1, <1>4, <1>5, ConnBack

LEMMA ProcessKeeps ==
  ASSUME EchoInv, server \notin Loops, NEW t \in Threads, ProcessConnection(t),
         UNCHANGED <<server, stdin, toDestroy, progVars>>
  PROVE  EchoInv'
<1>1. NetInv /\ ConnPoints /\ (server # "pool" => work = <<>>)
  BY DEF EchoInv, ServerInv, ConnInv
<1>2. CASE ConnRead(t) \/ ConnWrite(t)
  <2>1. pc' = pc
    BY <1>2 DEF ConnRead, ConnWrite
  <2>2. NetInv' /\ Open' = Open /\ UNCHANGED <<work, serving>>
    BY <1>1, <1>2, ConnReadKeeps, ConnWriteKeeps
  <2>3. ConnPoints'
    BY <1>1, <2>2, PointsStay
  <2>. QED BY <1>1, <2>1, <2>2, <2>3, ConnBack
<1>. QED BY <1>2, SigpipeKeeps, ConnCloseKeeps DEF ProcessConnection

LEMMA ConnKeeps ==
  ASSUME EchoInv, RunStep \/ (\E w \in Workers : WorkerStep(w)), UNCHANGED toDestroy
  PROVE  EchoInv'
<1>1. UNCHANGED <<server, stdin, toDestroy, progVars>>
  BY DEF RunStep, WorkerStep
<1>2. server \notin Loops
  <2>1. SUFFICES ASSUME server \in Loops PROVE FALSE
    OBVIOUS
  <2>2. server # "local" /\ server # "pool" /\ \A t \in Threads : serving[t] = NONE
    BY <2>1 DEF Loops, EchoInv, ServerInv
  <2>3. \A t \in Threads : ~ProcessConnection(t)
    BY <2>2 DEF ProcessConnection, ConnRead, ConnWrite, ConnSigpipe, ConnClose, Serves
  <2>. QED BY <2>2, <2>3, Constants
           DEF RunStep, WorkerStep, LocalAccept, PoolAccept, PoolAcceptFails, PoolEnd, Dispatch
<1>3. CASE RunStep
  BY <1>1, <1>2, <1>3, RunAcceptKeeps, PoolEndsKeeps, ProcessKeeps, Constants DEF RunStep
<1>4. ASSUME NEW w \in Workers, WorkerStep(w) PROVE EchoInv'
  BY <1>1, <1>2, <1>4, PoolDispatchKeeps, ProcessKeeps, Constants DEF WorkerStep
<1>. QED BY <1>3, <1>4

-----------------------------------------------------------------------------
(***************************************************************************)
(* The invariant holds.                                                    *)
(***************************************************************************)

LEMMA NetInvInit ==
  ASSUME NEW n \in NoFile, SocketsInit(Fds(n)), ConnInit
  PROVE  NetInv /\ Open = {} /\ \A t \in Threads : serving[t] = NONE
<1>1. /\ cpc = [c \in Clients |-> "connect"]
      /\ try = [c \in Clients |-> 1] /\ got = [c \in Clients |-> 0]
      /\ listening = TRUE /\ backlog = <<>> /\ fd = [f \in Fds(n) |-> NONE]
      /\ toServer = [c \in Clients |-> <<>>] /\ toClient = [c \in Clients |-> <<>>]
      /\ cliEnd = [c \in Clients |-> "up"] /\ srvEnd = [c \in Clients |-> "up"]
      /\ work = <<>>
      /\ serving = [t \in Threads |-> NONE] /\ held = [t \in Threads |-> <<>>]
  BY DEF SocketsInit, ConnInit
<1>2. Open = {}
  BY <1>1 DEF Open, Free
<1>3. \A t \in Threads : serving[t] = NONE /\ held[t] = <<>>
  BY <1>1
<1>4. NetTypes
  <2>1. DOMAIN fd = Fds(n) /\ fd \in [DOMAIN fd -> Clients \cup {NONE}]
    BY <1>1
  <2>2. /\ cpc \in [Clients -> Places] /\ try \in [Clients -> Nat] /\ got \in [Clients -> Nat]
        /\ cliEnd \in [Clients -> Ends] /\ srvEnd \in [Clients -> Ends]
    BY <1>1 DEF Places, Ends
  <2>3. /\ backlog \in Seq(Clients) /\ work \in Seq(DOMAIN fd) /\ <<>> \in Seq(Messages)
        /\ listening \in BOOLEAN
    BY <1>1
  <2>4. /\ toServer \in [Clients -> Seq(Messages)] /\ toClient \in [Clients -> Seq(Messages)]
        /\ held \in [Threads -> Seq(Messages)]
    BY <1>1, <2>3
  <2>5. serving \in [Threads -> DOMAIN fd \cup {NONE}]
    BY <1>1
  <2>. QED BY <2>1, <2>2, <2>3, <2>4, <2>5 DEF NetTypes
<1>5. Links
  <2>1. \A i \in 1..Len(backlog) : FALSE
    BY <1>1
  <2>. QED BY <1>1, <1>2, <2>1 DEF Links
<1>6. ServingSound
  BY <1>3 DEF ServingSound
<1>7. ASSUME NEW c \in Clients PROVE Conversation(c)
  <2>1. Nothing(c)
    BY <1>1, <1>3 DEF Nothing, Held
  <2>2. Tries[c] \in Nat \ {0} /\ try[c] = 1 /\ got[c] = 0
    BY <1>1, Constants
  <2>3. try[c] \in 1..(Tries[c] + 1) /\ got[c] < try[c] /\ try[c] <= Tries[c]
    BY <2>2
  <2>. QED BY <1>1, <2>1, <2>3 DEF Conversation
<1>. QED BY <1>2, <1>3, <1>4, <1>5, <1>6, <1>7 DEF NetInv

LEMMA EchoInvInit == Init => EchoInv
<1> SUFFICES ASSUME Init PROVE EchoInv
  OBVIOUS
<1>1. /\ NetInv /\ Open = {} /\ backlog = <<>> /\ listening = TRUE /\ work = <<>>
      /\ \A t \in Threads : serving[t] = NONE
  BY NetInvInit DEF Init, SocketsInit, ConnInit
<1>2. stdin = "quiet" /\ toDestroy = FALSE
  BY DEF Init
<1>3. ListenFd # StdinFd /\ ListenFd \in Nat /\ 0 \in Nat /\ MaxClients \in Nat
  BY EventLoopAssumption DEF ListenFd, StdinFd
<1>4. ASSUME server = "select" PROVE SelectInv
  <2>1. clients = <<>> /\ watched = {ListenFd} /\ at = 0 /\ pc = "wait"
    BY <1>4 DEF Init, SelectInit
  <2>2. Len(clients) = 0 /\ \A i \in 1..Len(clients) : FALSE
    BY <2>1
  <2>3. clients \in Seq(DOMAIN fd) /\ at \in Nat
    BY <2>1
  <2>. QED BY <1>1, <1>3, <2>1, <2>2, <2>3 DEF SelectInv, SelectTables
<1>5. ASSUME server = "poll" PROVE PollInv
  <2>1. /\ clients = [i \in Slots |-> [fd |-> IF i = 1 THEN ListenFd ELSE 0, revents |-> FALSE]]
        /\ nclients = 1 /\ at = 0 /\ pc = "wait"
    BY <1>5 DEF Init, PollInit
  <2>2. 1 \in Slots
    BY <1>3 DEF Slots
  <2>3. clients \in [Slots -> [fd : Nat, revents : BOOLEAN]] /\ clients[1].fd = ListenFd
    BY <1>3, <2>1, <2>2
  <2>4. /\ \A i, j \in 1..nclients : i = j
        /\ \A i \in 2..nclients : FALSE
    BY <2>1
  <2>. QED BY <1>1, <2>1, <2>2, <2>3, <2>4 DEF PollInv, PollTables
<1>6. Cardinality({ListenFd}) = 1 /\ Cardinality({ListenFd, StdinFd}) = 2 /\ Cardinality({}) = 0
  <2>1. Cardinality({ListenFd}) = 1 /\ IsFiniteSet({ListenFd}) /\ Cardinality({}) = 0
    BY FS_Singleton, FS_EmptySet
  <2>2. Cardinality({ListenFd} \cup {StdinFd}) = 1 + 1
    BY <1>3, <2>1, OneMore
  <2>3. {ListenFd} \cup {StdinFd} = {ListenFd, StdinFd}
    OBVIOUS
  <2>. QED BY <2>1, <2>2, <2>3
<1>7. ASSUME server = "epoll" PROVE EpollInv
  <2>1. watched = {ListenFd, StdinFd} /\ nclients = 2 /\ pc = "wait"
    BY <1>7 DEF Init, EpollInit
  <2>. QED BY <1>1, <1>6, <2>1 DEF EpollInv, EpollTables
<1>8. ASSUME server = "callbacks" PROVE CallbackInv
  <2>1. watched = {ListenFd} /\ nclients = 1 /\ pc = "wait"
    BY <1>8 DEF Init, CallbackInit
  <2>. QED BY <1>1, <1>6, <2>1 DEF CallbackInv, CallbackTables
<1>9. ASSUME server \notin {"select", "poll", "epoll", "callbacks"}
      PROVE  watched = {ListenFd, StdinFd} /\ nclients = 0 /\ pc = "wait"
  BY <1>9 DEF Init, UvInit
<1>10. ASSUME server = "uv" PROVE UvInv
  <2>1. watched = {ListenFd, StdinFd} /\ nclients = 0 /\ pc = "wait"
    BY <1>9, <1>10
  <2>. QED BY <1>1, <1>2, <1>6, <2>1 DEF UvInv, UvTables
<1>11. ASSUME server \notin Loops PROVE ConnInv
  <2>1. pc = "wait"
    BY <1>9, <1>11 DEF Loops
  <2>2. \A i \in 1..Len(work) : FALSE
    BY <1>1
  <2>. QED BY <1>1, <2>1, <2>2 DEF ConnInv, ConnPoints
<1>. QED BY <1>1, <1>2, <1>4, <1>5, <1>7, <1>8, <1>10, <1>11 DEF EchoInv, ServerInv

LEMMA EchoInvNext == EchoInv /\ [Next]_vars => EchoInv'
<1> SUFFICES ASSUME EchoInv, [Next]_vars PROVE EchoInv'
  OBVIOUS
<1>1. CASE LoopStep
  BY <1>1, SelectKeeps, PollKeeps, EpollKeeps, CallbackKeeps, UvKeeps, ConnKeeps DEF LoopStep
<1>2. CASE TypeLine
  BY <1>2, TypeLineKeeps
<1>3. ASSUME NEW w \in Workers, PoolMoves(w) PROVE EchoInv'
  BY <1>3, ConnKeeps DEF PoolMoves
<1>4. ASSUME NEW c \in Clients, ClientMoves(c) \/ ClientDies(c) PROVE EchoInv'
  BY <1>4, ClientMovesKeeps
<1>5. CASE Idle \/ UNCHANGED vars
  <2>1. UNCHANGED <<progVars, netVars, server, pc, loopVars, stdin, toDestroy, connVars>>
    BY <1>5 DEF Idle, vars
  <2>2. stdin' \in {"quiet", "line", "taken"}
    BY <2>1 DEF EchoInv, ServerInv
  <2>. QED BY <2>1, <2>2, NobodyMoves
<1>. QED BY <1>1, <1>2, <1>3, <1>4, <1>5 DEF Next

\* The inductive invariant holds in every behaviour of the servers.
THEOREM EchoServersInvariant == Spec => []EchoInv
<1>. QED BY EchoInvInit, EchoInvNext, PTL DEF Spec

-----------------------------------------------------------------------------
(***************************************************************************)
(* What follows from it.                                                   *)
(***************************************************************************)

LEMMA ConnPointsTables ==
  ASSUME NetTypes, ConnPoints
  PROVE  ConnTables
<1> DEFINE serves == {t \in Threads : serving[t] # NONE}
<1>1. \A t, u \in serves : serving[t] = serving[u] => t = u
  BY DEF ConnPoints
<1>2. \A i, j \in 1..Len(work) : work[i] = work[j] => i = j
  BY DEF ConnPoints
<1>3. {serving[t] : t \in serves} \cap {work[i] : i \in 1..Len(work)} = {}
  BY DEF ConnPoints
<1>4. {serving[t] : t \in serves} \cup {work[i] : i \in 1..Len(work)} = Open
  <2>1. \A t \in serves : serving[t] \in Open
    BY DEF ConnPoints
  <2>2. \A i \in 1..Len(work) : work[i] \in Open
    BY DEF ConnPoints
  <2>3. ASSUME NEW f \in Open
        PROVE  (\E t \in serves : serving[t] = f) \/ (\E i \in 1..Len(work) : work[i] = f)
    <3>1. f # NONE
      BY Opens
    <3>2. (\E t \in Threads : serving[t] = f) \/ (\E i \in 1..Len(work) : work[i] = f)
      BY DEF ConnPoints
    <3>. QED BY <3>1, <3>2
  <2>. QED BY <2>1, <2>2, <2>3
<1>. QED BY <1>1, <1>2, <1>3, <1>4 DEF ConnTables

LEMMA TablesFollow == EchoInv => TablesSound
<1> SUFFICES ASSUME EchoInv PROVE TablesSound
  OBVIOUS
<1>1. NetInv /\ NetTypes /\ ServerInv
  BY DEF EchoInv, NetInv
<1>2. ASSUME NEW c \in Clients
      PROVE  /\ try[c] \in 1..(Tries[c] + 1) /\ got[c] \in 0..Tries[c]
             /\ cliEnd[c] \in Ends /\ srvEnd[c] \in Ends
  <2>1. try[c] \in 1..(Tries[c] + 1) /\ got[c] < try[c] /\ got[c] \in Nat /\ Tries[c] \in Nat
    BY <1>1, Constants DEF NetInv, Conversation, NetTypes
  <2>2. got[c] \in 0..Tries[c]
    BY <2>1
  <2>. QED BY <1>1, <2>1, <2>2 DEF NetTypes
<1>3. stdin \in {"quiet", "line", "taken"} /\ toDestroy \in BOOLEAN
  BY <1>1 DEF ServerInv
<1>4. CASE server = "select"
  BY <1>1, <1>2, <1>3, <1>4 DEF ServerInv, SelectInv, TablesSound, TypeOK
<1>5. CASE server = "poll"
  BY <1>1, <1>2, <1>3, <1>5 DEF ServerInv, PollInv, TablesSound, TypeOK
<1>6. CASE server = "epoll"
  BY <1>1, <1>2, <1>3, <1>6 DEF ServerInv, EpollInv, TablesSound, TypeOK
<1>7. CASE server = "callbacks"
  BY <1>1, <1>2, <1>3, <1>7 DEF ServerInv, CallbackInv, TablesSound, TypeOK
<1>8. CASE server = "uv"
  BY <1>1, <1>2, <1>3, <1>8 DEF ServerInv, UvInv, TablesSound, TypeOK
<1>9. CASE server \notin Loops
  <2>1. ConnTables /\ pc \in {"wait", "destroy", "ended", "killed"}
    BY <1>1, <1>9, ConnPointsTables DEF ServerInv, ConnInv
  <2>. QED BY <1>2, <1>3, <1>9, <2>1 DEF TablesSound, TypeOK, Loops
<1>. QED BY <1>4, <1>5, <1>6, <1>7, <1>8, <1>9 DEF Loops

LEMMA OwnFollows == EchoInv => EchoesOwn
<1> SUFFICES ASSUME EchoInv, NEW c \in Clients
             PROVE  /\ toServer[c] \o toClient[c] \in {<<>>, <<Message(c)>>}
                    /\ \A t \in Held(c) : held[t] = <<Message(c)>>
                    /\ Coming(c) <= 1
                    /\ cpc[c] = "read" /\ srvEnd[c] = "up" => Coming(c) = 1
                    /\ cpc[c] \notin {"read", "killed"} => Coming(c) = 0
  BY DEF EchoesOwn
<1>1. NetTypes /\ Conversation(c)
  BY DEF EchoInv, NetInv
<1> DEFINE m == Message(c)
<1>2. /\ Len(<<m>>) = 1 /\ Len(<<>>) = 0
      /\ <<m>> \o <<>> = <<m>> /\ <<>> \o <<m>> = <<m>> /\ <<>> \o <<>> = <<>>
  BY <1>1, Messages1, OneMessage
<1>3. Cardinality({}) = 0 /\ \A t : Cardinality({t}) = 1
  BY FS_EmptySet, FS_Singleton
<1> HIDE DEF m
<1>4. ASSUME Nothing(c)
      PROVE  toServer[c] \o toClient[c] = <<>> /\ Held(c) = {} /\ Coming(c) = 0
  BY <1>2, <1>3, <1>4 DEF Nothing, Coming
<1>5. ASSUME OnTheWay(c)
      PROVE  /\ toServer[c] \o toClient[c] \in {<<>>, <<m>>} /\ Coming(c) = 1
             /\ \A t \in Held(c) : held[t] = <<m>>
  <2>1. CASE Asked(c)
    BY <1>2, <1>3, <2>1 DEF Asked, Coming, m
  <2>2. CASE Answered(c)
    BY <1>2, <1>3, <2>2 DEF Answered, Coming, m
  <2>3. CASE Taken(c)
    <3>1. /\ toServer[c] = <<>> /\ toClient[c] = <<>>
          /\ \E t \in Threads : Held(c) = {t} /\ held[t] = <<m>>
      BY <2>3 DEF Taken, m
    <3>2. Cardinality(Held(c)) = 1
      BY <1>3, <3>1
    <3>3. \A t \in Held(c) : held[t] = <<m>>
      BY <3>1
    <3>. QED BY <1>2, <3>1, <3>2, <3>3 DEF Coming
  <2>. QED BY <1>5, <2>1, <2>2, <2>3 DEF OnTheWay
<1>6. CASE Nothing(c)
  <2>1. ~(cpc[c] = "read" /\ srvEnd[c] = "up") \/ OnTheWay(c)
    BY <1>1 DEF Conversation
  <2>2. /\ toServer[c] \o toClient[c] \in {<<>>, <<m>>} /\ Coming(c) = 0
        /\ \A t \in Held(c) : held[t] = <<m>>
    BY <1>4, <1>6
  <2>3. cpc[c] = "read" /\ srvEnd[c] = "up" => Coming(c) = 1
    BY <1>5, <2>1
  <2>4. Coming(c) <= 1
    BY <2>2
  <2>. QED BY <2>2, <2>3, <2>4 DEF m
<1>7. CASE OnTheWay(c)
  <2>1. cpc[c] \notin {"read", "killed"} => Nothing(c)
    BY <1>1 DEF Conversation
  <2>2. /\ toServer[c] \o toClient[c] \in {<<>>, <<m>>} /\ Coming(c) = 1
        /\ \A t \in Held(c) : held[t] = <<m>>
    BY <1>5, <1>7
  <2>3. cpc[c] \notin {"read", "killed"} => Coming(c) = 0
    BY <1>4, <2>1
  <2>4. Coming(c) <= 1
    BY <2>2
  <2>. QED BY <2>2, <2>3, <2>4 DEF m
<1>. QED BY <1>1, <1>6, <1>7 DEF Conversation

LEMMA NoBlockFollows == EchoInv => NeverBlocks
<1> SUFFICES ASSUME EchoInv, server # "poll", NEW f \in NextCalls
             PROVE  IF f = ListenFd THEN ~(listening /\ backlog = <<>>) ELSE f \notin Free /\ Readable(f)
  BY DEF NeverBlocks, LoopBlocks
<1>1. NetTypes /\ ServerInv /\ ListenFd # StdinFd
  BY DEF EchoInv, NetInv, ListenFd, StdinFd
<1>2. \A g \in Open : g \notin Free /\ g # ListenFd
  BY <1>1, Opens
<1>3. CASE server = "select"
  <2>1. SelectInv
    BY <1>1, <1>3 DEF ServerInv
  <2>2. CASE pc = "accept"
    <3>1. f = ListenFd /\ f \in ready
      BY <1>3, <2>2 DEF NextCalls
    <3>. QED BY <2>1, <2>2, <3>1 DEF SelectInv
  <2>3. CASE pc = "scan"
    <3>1. PICK i \in 1..Len(clients) : f = clients[i] /\ SelectAt(i)
      BY <1>3, <2>3 DEF NextCalls
    <3>2. i >= at /\ clients[i] \in ready
      BY <3>1 DEF SelectAt
    <3>3. clients[i] \in Open
      BY <2>1 DEF SelectInv, SelectTables
    <3>4. i \in at..Len(clients)
      <4>1. at \in Nat
        BY <2>1 DEF SelectInv
      <4>. QED BY <3>2, <4>1
    <3>5. Readable(clients[i])
      BY <2>1, <2>3, <3>2, <3>4 DEF SelectInv
    <3>. QED BY <1>2, <3>1, <3>3, <3>5
  <2>4. CASE pc = "wait"
    BY <1>3, <2>4 DEF NextCalls
  <2>. QED BY <2>1, <2>2, <2>3, <2>4 DEF SelectInv
<1>4. CASE server # "select" /\ pc = "serve"
  <2>1. f \in ready /\ f # StdinFd
    BY <1>4 DEF NextCalls
  <2>2. CASE server = "epoll"
    <3>1. EpollInv
      BY <1>1, <2>2 DEF ServerInv
    <3>. QED BY <1>2, <1>4, <2>1, <3>1 DEF EpollInv
  <2>3. CASE server = "callbacks"
    <3>1. CallbackInv
      BY <1>1, <2>3 DEF ServerInv
    <3>2. f # ListenFd => f \in Open
      BY <1>4, <2>1, <3>1 DEF CallbackInv, CallbackTables
    <3>. QED BY <1>2, <1>4, <2>1, <3>1, <3>2 DEF CallbackInv
  <2>4. CASE server \notin {"epoll", "callbacks"}
    BY <1>1, <1>4, <2>4 DEF ServerInv, UvInv, ConnInv, Loops
  <2>. QED BY <2>2, <2>3, <2>4
<1>5. CASE server # "select" /\ pc # "serve"
  BY <1>5 DEF NextCalls
<1>. QED BY <1>3, <1>4, <1>5

LEMMA SurvivalFollows == EchoInv => SurvivesClients
<1> SUFFICES ASSUME EchoInv PROVE SurvivesClients
  OBVIOUS
<1>1. CASE server = "local"
  BY <1>1 DEF EchoInv, ServerInv, ConnInv, Loops, SurvivesClients
<1>2. CASE server # "local"
  <2>1. ASSUME NEW f \in Open, toServer[fd[f]] # <<>> \/ Held(fd[f]) # {}
        PROVE  cliEnd[fd[f]] # "rst"
    <3>1. fd[f] \in Clients
      BY Opens DEF EchoInv, NetInv
    <3>. QED BY <2>1, <3>1 DEF EchoInv, NetInv, Conversation, Nothing
  <2>. QED BY <1>2, <2>1 DEF SurvivesClients, BrokenPipe
<1>. QED BY <1>1, <1>2

LEMMA ClosesFollow ==
  ASSUME EchoInv, [Next]_vars, NEW f \in Open, fd'[f] = NONE
  PROVE  cliEnd[fd[f]] # "up" \/ pc' = "killed"
<1>1. NetTypes /\ f \in DOMAIN fd /\ fd[f] # NONE
  BY Opens DEF EchoInv, NetInv
<1>2. fd' # fd
  BY <1>1
<1>3. ASSUME NEW g \in Free, Accept(g) PROVE FALSE
  <2>1. fd' = [fd EXCEPT ![g] = Head(backlog)] /\ g # f
    BY <1>3 DEF Accept, Open
  <2>. QED BY <1>1, <2>1
<1>4. ASSUME NEW fs, NEW stop, Shut(fs, stop) PROVE f \in fs
  <2>1. fd' = [g \in DOMAIN fd |-> IF g \in fs THEN NONE ELSE fd[g]]
    BY <1>4 DEF Shut
  <2>. QED BY <1>1, <2>1
<1>5. ASSUME NEW g, HangUp(g) PROVE cliEnd[fd[f]] # "up"
  <2>1. Shut({g}, FALSE) /\ AtEnd(g)
    BY <1>5 DEF HangUp
  <2>2. f \in {g}
    BY <1>4, <2>1
  <2>. QED BY <2>1, <2>2 DEF AtEnd
<1>6. ~AcceptAndClose /\ \A g : ~EchoBack(g)
  BY <1>2 DEF AcceptAndClose, EchoBack
<1>7. CASE SelectStep
  BY <1>2, <1>3, <1>5, <1>6, <1>7
     DEF SelectStep, SelectWait, SelectNoConnection, SelectAcceptFails, SelectReject, SelectAccept,
         SelectServe, SelectRound, netVars
<1>8. CASE PollStep
  BY <1>2, <1>3, <1>5, <1>6, <1>8
     DEF PollStep, PollWait, PollNoConnection, PollAcceptFails, PollReject, PollAccept,
         PollServe, PollRound, netVars
<1>9. CASE EpollStep
  <2>1. ~Shut({}, TRUE)
    BY <1>4
  <2>. QED BY <1>2, <1>3, <1>5, <1>6, <1>9, <2>1
           DEF EpollStep, EpollStop, EpollWait, EpollAcceptFails, EpollRound, EpollEnd, EpollAccept,
               EpollServe, netVars
<1>10. CASE CallbackStep
  BY <1>2, <1>3, <1>5, <1>6, <1>10
     DEF CallbackStep, CallbackWait, OnNewConnectionFails, CallbackRound, OnNewConnection,
         OnReadRequest, ApClose, netVars
<1>11. CASE UvStep
  <2>1. ~UvShed /\ ~UvStdin /\ ~UvRunEnds
    BY <1>2, <1>4, <1>6 DEF UvShed, UvStdin, UvRunEnds, netVars
  <2>2. \A g \in Free : ~UvConnection(g)
    BY <1>3 DEF UvConnection
  <2>3. \A g \in Open : ~UvRead(g)
    BY <1>6 DEF UvRead
  <2>4. PICK g \in Open : UvEnd(g)
    BY <1>11, <2>1, <2>2, <2>3 DEF UvStep
  <2>5. AtEnd(g) /\ \E stop : Shut({g}, stop)
    BY <2>4 DEF UvEnd
  <2>6. f \in {g}
    BY <1>4, <2>5
  <2>. QED BY <2>5, <2>6 DEF AtEnd
<1>12. ASSUME NEW t, ProcessConnection(t) PROVE cliEnd[fd[f]] # "up" \/ pc' = "killed"
  BY <1>2, <1>5, <1>12 DEF ProcessConnection, ConnRead, ConnWrite, ConnSigpipe, ConnClose
<1>13. CASE RunStep
  <2>1. \A g \in Free : ~LocalAccept(g) /\ ~PoolAccept(g)
    BY <1>3 DEF LocalAccept, PoolAccept
  <2>2. ~PoolAcceptFails
    BY <1>2 DEF PoolAcceptFails, netVars
  <2>3. ~PoolEnd
    <3>1. SUFFICES ASSUME PoolEnd PROVE FALSE
      OBVIOUS
    <3>2. server = "pool" /\ work = <<>> /\ \A t \in Threads : serving[t] = NONE
      BY <3>1 DEF PoolEnd
    <3>3. ConnPoints
      BY <3>2 DEF EchoInv, ServerInv, ConnInv, Loops
    <3>4. \A i \in 1..Len(work) : FALSE
      BY <3>2
    <3>5. \E t \in Threads : serving[t] = f
      BY <3>3, <3>4 DEF ConnPoints
    <3>6. f # NONE
      BY <1>1, Opens
    <3>. QED BY <3>2, <3>5, <3>6
  <2>. QED BY <1>12, <1>13, <2>1, <2>2, <2>3 DEF RunStep
<1>14. ASSUME NEW w \in Workers, WorkerStep(w) PROVE cliEnd[fd[f]] # "up" \/ pc' = "killed"
  BY <1>2, <1>12, <1>14 DEF WorkerStep, Dispatch, netVars
<1>15. CASE TypeLine \/ Idle \/ UNCHANGED vars
  BY <1>2, <1>15 DEF TypeLine, Idle, vars, netVars
<1>16. ASSUME NEW c \in Clients, ClientMoves(c) \/ ClientDies(c) PROVE FALSE
  BY <1>2, <1>16 DEF ClientMoves, ClientDies, ClientStep, Connect, Request, Response, CloseClient, Kill, Leave
<1>. QED BY <1>7, <1>8, <1>9, <1>10, <1>11, <1>13, <1>14, <1>15, <1>16 DEF Next, LoopStep, PoolMoves

\* The tables of each server agree with the kernel's in every state of its loop
\* (add_client and rem_client of select, poll and epoll, ap_regist_fd and ap_close,
\* the callbacks of libuv, and the threads of the others).
THEOREM ServersTablesSound == Spec => []TablesSound
<1>. QED BY EchoServersInvariant, TablesFollow, PTL

\* Whatever the server, a client that waits has its own request, or the response to
\* it, on the way, once, and no other client's (process_request, process_connection).
THEOREM ServersEchoOwn == Spec => []EchoesOwn
<1>. QED BY EchoServersInvariant, OwnFollows, PTL

\* The one thread of a loop never waits in read or accept for one of its clients,
\* that of poll excepted.
THEOREM ServersNeverBlock == Spec => []NeverBlocks
<1>. QED BY EchoServersInvariant, NoBlockFollows, PTL

\* Clients that leave or are killed do not take the server with them: it never
\* writes twice to a client that is gone, and only a killed client ends the server
\* over local sockets.
THEOREM ServersSurvive == Spec => []SurvivesClients
<1>. QED BY EchoServersInvariant, SurvivalFollows, PTL

\* The servers close only connections that their clients have left, but for the
\* signal that ends the process.
THEOREM ServersCloseOnlyGone == Spec => ClosesOnlyGone
<1>1. EchoInv /\ [Next]_vars =>
        [\A f \in Open : fd'[f] = NONE => cliEnd[fd[f]] # "up" \/ pc' = "killed"]_vars
  BY ClosesFollow
<1>. QED BY <1>1, EchoServersInvariant, PTL DEF Spec, ClosesOnlyGone
=============================================================================
