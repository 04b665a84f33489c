----------------------- MODULE SnapshotRecoveryProofs -----------------------
(***************************************************************************)
(* Theorems about SnapshotRecovery for every set of locates, requesters    *)
(* and strangers, every backlog and any number of calls and restarts.      *)
(*                                                                         *)
(* NoConnectionLeaks is not inductive: IInv adds where a connection can be *)
(* in its life.  It is its client's present one, or closed there; the      *)
(* server has it open exactly while it serves it; and one the server has   *)
(* not seen waits in the backlog.  AnswersAreCurrent rests on Requests:    *)
(* what is on its way on a requester's connection, or in the server's      *)
(* hands, is its request or an answer as new as the call.                  *)
(***************************************************************************)
EXTENDS SnapshotRecovery, TLAPS

Frames ==
  {Request(l) : l \in Locates} \cup {Response(l, n) : l \in Locates, n \in Nat}
    \cup {Fault, BadLength, NoFrame}

ChunksOf(frames) == [part : {"header", "body"}, frame : frames]

Shape ==
  /\ shadow \in [Locates -> 0..MaxSeq]
  /\ running \in BOOLEAN /\ listening \in BOOLEAN
  /\ server \in [at : {"loop", "accept", "recv", "provide", "send", "done"},
                 conn : Connections \cup {<< >>}, reply : Frames, sent : Nat]
  /\ backlog \in Seq(Connections)
  /\ client \in [Clients -> [at : {"idle", "connect", "send", "recv"}, calls : Nat,
                             frame : Frames, sent : 0..2]]
  /\ clientEnd \in [Connections -> {"none", "open", "closed"}]
  /\ serverEnd \in [Connections -> {"none", "open", "closed"}]
  /\ up \in [Connections -> Seq(ChunksOf(Frames))]
  /\ down \in [Connections -> Seq(ChunksOf(Frames))]
  /\ asked \in [Requesters -> Nat]
  /\ answer \in [Requesters -> Frames]

\* Where the threads are, and what the socket's owner has done.
Threads ==
  /\ Serving <=> server.conn # << >>
  /\ server.at = "provide" => server.reply \in {Request(l) : l \in Locates}
  /\ ~listening => backlog = << >>
  /\ stopper \in {"join", "stopped"} => ~listening
  /\ stopper = "stopped" => server.at = "done"

\* A client that is in a call has made one, and sends two chunks.
Calling(c) ==
  /\ client[c].calls <= MaxCalls[c]
  /\ client[c].at # "idle" => client[c].calls # 0
  /\ client[c].at \in {"connect", "send"} => client[c].sent # 2

\* The client's end of a connection follows the call it was made for.
ClientSide(k) ==
  LET c == k[1]
  IN  /\ clientEnd[k] = "open" <=> k = Conn(c) /\ client[c].at \in {"send", "recv"}
      /\ k[2] > client[c].calls \/ (k = Conn(c) /\ client[c].at = "connect")
           => clientEnd[k] = "none"
      /\ clientEnd[k] = "none" => up[k] = << >> /\ down[k] = << >>

\* The server's end is open while it serves it, and untouched as long as it
\* waits in the backlog or was never made.
ServerSide(k) ==
  /\ serverEnd[k] = "open" <=> server.conn = k
  /\ k \in Range(backlog) <=> clientEnd[k] # "none" /\ serverEnd[k] = "none"
  /\ clientEnd[k] = "none" => serverEnd[k] = "none"

IInv ==
  /\ Shape /\ Threads
  /\ Len(backlog) <= Backlog /\ IsInjective(backlog)
  /\ \A c \in Clients : Calling(c)
  /\ \A k \in Connections : ClientSide(k) /\ ServerSide(k)

-----------------------------------------------------------------------------
(***************************************************************************)
(* Connections, and the sequences they wait in.                            *)
(***************************************************************************)

\* A connection is a client and the number of one of its calls.
LEMMA ConnectionParts ==
  ASSUME NEW k \in Connections
  PROVE  k = <<k[1], k[2]>> /\ k[1] \in Clients /\ k[2] \in 1..MaxCalls[k[1]] /\ k # << >>
<1>1. PICK c \in Clients : k \in {c} \X (1..MaxCalls[c])
  BY DEF Connections
<1>2. k = <<k[1], k[2]>> /\ k[1] = c /\ k[2] \in 1..MaxCalls[c]
  BY <1>1
<1>3. \A x, y : <<x, y>> # << >>
  OBVIOUS
<1>4. k # << >>
  BY <1>2, <1>3
<1> QED
  BY <1>2, <1>4

\* A client in a call has a connection of its own.
LEMMA PresentConnection ==
  ASSUME IInv, NEW c \in Clients, client[c].at # "idle"
  PROVE  /\ Conn(c) \in Connections /\ Conn(c)[1] = c /\ Conn(c)[2] = client[c].calls
         /\ \A k \in Connections : k[1] = c => (k = Conn(c) <=> k[2] = client[c].calls)
         /\ \A d \in Clients : Conn(d) = Conn(c) => d = c
<1>1. client[c].calls \in 1..MaxCalls[c]
  <2>1. client[c].calls \in Nat /\ MaxCalls[c] \in Nat
    BY RecoveryAssumption DEF IInv, Shape
  <2> QED
    BY <2>1 DEF IInv, Calling
<1>2. Conn(c) \in {c} \X (1..MaxCalls[c])
  BY <1>1 DEF Conn
<1>3. Conn(c) \in Connections
  BY <1>2 DEF Connections
<1>4. \A k \in Connections : k[1] = c => (k = Conn(c) <=> k[2] = client[c].calls)
  BY ConnectionParts DEF Conn
<1> QED
  BY <1>3, <1>4 DEF Conn

\* The queue that accept takes from: its head leaves it for good.
LEMMA QueueTail ==
  ASSUME NEW S, NEW q \in Seq(S), q # << >>, IsInjective(q)
  PROVE  /\ Head(q) \in S /\ Head(q) \in Range(q)
         /\ Tail(q) \in Seq(S) /\ IsInjective(Tail(q)) /\ Len(Tail(q)) = Len(q) - 1
         /\ Range(Tail(q)) = Range(q) \ {Head(q)}
<1>1. Len(q) \in Nat \ {0} /\ DOMAIN q = 1..Len(q) /\ Head(q) = q[1]
  OBVIOUS
<1>2. /\ Tail(q) \in Seq(S) /\ Len(Tail(q)) = Len(q) - 1
      /\ DOMAIN Tail(q) = 1..(Len(q) - 1)
      /\ \A i \in 1..(Len(q) - 1) : Tail(q)[i] = q[i + 1]
  BY <1>1
<1>3. IsInjective(Tail(q))
  BY <1>1, <1>2 DEF IsInjective
<1>4. ASSUME NEW x \in Range(Tail(q)) PROVE x \in Range(q) \ {Head(q)}
  <2>1. PICK i \in 1..(Len(q) - 1) : x = q[i + 1]
    BY <1>2 DEF Range
  <2>2. i + 1 \in DOMAIN q /\ 1 \in DOMAIN q /\ i + 1 # 1
    BY <1>1
  <2> QED
    BY <1>1, <2>1, <2>2 DEF IsInjective, Range
<1>5. ASSUME NEW x \in Range(q) \ {Head(q)} PROVE x \in Range(Tail(q))
  <2>1. PICK i \in DOMAIN q : x = q[i]
    BY DEF Range
  <2>2. i - 1 \in 1..(Len(q) - 1) /\ Tail(q)[i - 1] = x
    BY <1>1, <1>2, <1>5, <2>1
  <2> QED
    BY <1>2, <2>2 DEF Range
<1>6. Head(q) \in S /\ Head(q) \in Range(q)
  BY <1>1 DEF Range
<1>7. Range(Tail(q)) = Range(q) \ {Head(q)}
  BY <1>4, <1>5
<1> QED
  BY <1>2, <1>3, <1>6, <1>7

\* The queue that connect puts a new connection in.
LEMMA QueueAppend ==
  ASSUME NEW S, NEW q \in Seq(S), IsInjective(q), NEW x \in S, x \notin Range(q)
  PROVE  /\ Append(q, x) \in Seq(S) /\ IsInjective(Append(q, x))
         /\ Len(Append(q, x)) = Len(q) + 1
         /\ Range(Append(q, x)) = Range(q) \cup {x}
<1>1. /\ Len(q) \in Nat /\ DOMAIN q = 1..Len(q)
      /\ DOMAIN Append(q, x) = 1..(Len(q) + 1) /\ Append(q, x) \in Seq(S)
      /\ Append(q, x)[Len(q) + 1] = x
      /\ \A i \in 1..Len(q) : Append(q, x)[i] = q[i]
  OBVIOUS
<1>2. \A i \in 1..Len(q) : q[i] # x
  BY <1>1 DEF Range
<1>3. \A i \in 1..(Len(q) + 1) : i = Len(q) + 1 \/ i \in 1..Len(q)
  BY <1>1
<1>4. IsInjective(Append(q, x))
  BY <1>1, <1>2, <1>3 DEF IsInjective
<1>5. Range(Append(q, x)) = Range(q) \cup {x}
  BY <1>1, <1>3 DEF Range
<1> QED
  BY <1>1, <1>4, <1>5

\* A queue is empty when nothing is in it.
LEMMA EmptyQueue == Range(<< >>) = {} /\ IsInjective(<< >>)
  BY DEF Range, IsInjective

-----------------------------------------------------------------------------
(***************************************************************************)
(* Every step keeps IInv.                                                  *)
(***************************************************************************)

\* Before the first call.
LEMMA InitLife == Init => IInv
<1> SUFFICES ASSUME Init PROVE IInv
  OBVIOUS
<1>1. NoFrame \in Frames /\ << >> \in Seq(Connections) /\ << >> \in Seq(ChunksOf(Frames))
  BY DEF Frames
<1>2. Shape
  BY <1>1, RecoveryAssumption DEF Init, Shape, Idle
<1>3. Threads
  BY DEF Init, Threads, Idle, Serving
<1>4. Len(backlog) <= Backlog /\ IsInjective(backlog)
  BY EmptyQueue, RecoveryAssumption DEF Init
<1>5. \A c \in Clients : Calling(c)
  BY RecoveryAssumption DEF Init, Calling
<1>6. ASSUME NEW k \in Connections PROVE ClientSide(k) /\ ServerSide(k)
  BY ConnectionParts, EmptyQueue DEF Init, ClientSide, ServerSide, Conn, Idle
<1> QED
  BY <1>2, <1>3, <1>4, <1>5, <1>6 DEF IInv

\* Steps that neither open nor close anything: of the publisher, of stop() and
\* start() but for the close, and of a server that looks whether to go on.
LEMMA QuietStep ==
  IInv /\ (Publish \/ StopRunning \/ StopJoin \/ Start \/ ServerLoop) => IInv'
<1> SUFFICES ASSUME IInv, Publish \/ StopRunning \/ StopJoin \/ Start \/ ServerLoop
             PROVE  IInv'
  OBVIOUS
<1>1. UNCHANGED <<backlog, clientEnd, serverEnd, up, down, client, asked, answer>>
  BY DEF Publish, StopRunning, StopJoin, Start, ServerLoop, owner, ends, wires, callers
<1>2. Shape' /\ Threads' /\ server'.conn = server.conn
  <2>1. NoFrame \in Frames
    BY DEF Frames
  <2>2. CASE Publish
    <3>1. shadow' \in [Locates -> 0..MaxSeq]
      BY <2>2, RecoveryAssumption DEF IInv, Shape, Publish
    <3> QED
      BY <1>1, <2>2, <3>1 DEF Publish, IInv, Shape, Threads, Serving, owner
  <2>3. CASE StopRunning
    BY <1>1, <2>3 DEF StopRunning, IInv, Shape, Threads, Serving
  <2>4. CASE StopJoin
    BY <1>1, <2>4 DEF StopJoin, IInv, Shape, Threads, Serving
  <2>5. CASE Start
    <3>1. server.conn = << >> /\ server'.conn = << >> /\ server'.at = "loop"
      BY <2>5 DEF Start, IInv, Threads, Serving, Idle
    <3> QED
      BY <1>1, <2>1, <2>5, <3>1 DEF Start, IInv, Shape, Threads, Serving, Idle
  <2>6. CASE ServerLoop
    <3>1. /\ server'.conn = server.conn /\ server'.at \in {"accept", "done"}
          /\ server' \in [at : {"loop", "accept", "recv", "provide", "send", "done"},
                          conn : Connections \cup {<< >>}, reply : Frames, sent : Nat]
      BY <2>6 DEF ServerLoop, IInv, Shape
    <3> QED
      BY <1>1, <2>6, <3>1 DEF ServerLoop, IInv, Shape, Threads, Serving, owner
  <2> QED
    BY <2>2, <2>3, <2>4, <2>5, <2>6
<1>3. \A k \in Connections : ClientSide(k)' /\ ServerSide(k)'
  BY <1>1, <1>2 DEF IInv, ClientSide, ServerSide, Conn
<1> QED
  BY <1>1, <1>2, <1>3 DEF IInv, Calling

\* stop() closes the listening socket and with it every connection that waits.
LEMMA CloseStep == IInv /\ StopClose => IInv'
<1> SUFFICES ASSUME IInv, StopClose PROVE IInv'
  OBVIOUS
<1>1. /\ listening' = FALSE /\ stopper' = "join" /\ backlog' = << >>
      /\ serverEnd' = [k \in Connections |->
                         IF k \in Range(backlog) THEN "closed" ELSE serverEnd[k]]
      /\ UNCHANGED <<shadow, running, server, clientEnd, up, down, client, asked, answer>>
  BY DEF StopClose, wires, callers
<1>2. Shape' /\ Threads'
  <2>1. serverEnd' \in [Connections -> {"none", "open", "closed"}]
    BY <1>1 DEF IInv, Shape
  <2>2. << >> \in Seq(Connections)
    OBVIOUS
  <2> QED
    BY <1>1, <2>1, <2>2 DEF IInv, Shape, Threads, Serving
<1>3. ASSUME NEW k \in Connections PROVE ClientSide(k)' /\ ServerSide(k)'
  <2>1. ClientSide(k)'
    BY <1>1 DEF IInv, ClientSide, Conn
  <2>2. ServerSide(k)'
    BY <1>1, EmptyQueue DEF IInv, ServerSide
  <2> QED
    BY <2>1, <2>2
<1>4. Len(backlog') <= Backlog /\ IsInjective(backlog')
  BY <1>1, EmptyQueue, RecoveryAssumption
<1> QED
  BY <1>1, <1>2, <1>3, <1>4 DEF IInv, Calling

\* The end of a call closes the client's end, if it was open.
LEMMA ReturnStep ==
  ASSUME IInv, NEW c \in Clients, client[c].at # "idle", NEW response \in Frames,
         Return(c, response)
  PROVE  IInv'
<1>1. /\ client' = [client EXCEPT ![c].at = "idle", ![c].frame = NoFrame, ![c].sent = 0]
      /\ clientEnd' = [clientEnd EXCEPT ![Conn(c)] = IF @ = "open" THEN "closed" ELSE @]
      /\ down' = [k \in Connections |-> IF k = Conn(c) THEN << >> ELSE down[k]]
      /\ answer' = [r \in Requesters |-> IF r = c THEN response ELSE answer[r]]
      /\ asked' = [r \in Requesters |-> IF r = c THEN 0 ELSE asked[r]]
      /\ UNCHANGED <<shadow, running, listening, starts, stopper, server, backlog, serverEnd, up>>
  BY DEF Return, owner
<1>2. /\ client' \in [Clients -> [at : {"idle", "connect", "send", "recv"}, calls : Nat,
                                  frame : Frames, sent : 0..2]]
      /\ client'[c].at = "idle" /\ client'[c].calls = client[c].calls
      /\ \A d \in Clients \ {c} : client'[d] = client[d]
  <2> DEFINE R == [at : {"idle", "connect", "send", "recv"}, calls : Nat,
                   frame : Frames, sent : 0..2]
             x == client[c]
             y == [x EXCEPT !.at = "idle"]
             z == [y EXCEPT !.frame = NoFrame]
             back == [z EXCEPT !.sent = 0]
             a == [client EXCEPT ![c].at = "idle"]
             b == [a EXCEPT ![c].frame = NoFrame]
  <2>1. x \in R /\ c \in DOMAIN client /\ NoFrame \in Frames
    <3>1. NoFrame \in Frames
      BY DEF Frames
    <3> QED
      BY <3>1 DEF IInv, Shape
  <2>2. a = [client EXCEPT ![c] = y] /\ a[c] = y /\ c \in DOMAIN a
    BY <2>1
  <2>3. client' = [b EXCEPT ![c].sent = 0]
    BY <1>1, <2>1
  <2> HIDE DEF x
  <2>4. y \in R /\ y.at = "idle" /\ y.calls = x.calls
    BY <2>1
  <2> HIDE DEF y, a
  <2>5. z \in R /\ z.at = "idle" /\ z.calls = x.calls
    BY <2>1, <2>4
  <2>6. b = [a EXCEPT ![c] = z] /\ b[c] = z /\ c \in DOMAIN b
    BY <2>2
  <2> HIDE DEF z, b
  <2>7. back \in R /\ back.at = "idle" /\ back.calls = x.calls
    BY <2>5
  <2>8. client' = [b EXCEPT ![c] = back]
    BY <2>3, <2>6
  <2> HIDE DEF back
  <2>9. client' = [client EXCEPT ![c] = back]
    BY <2>1, <2>2, <2>6, <2>8
  <2> QED
    BY <2>7, <2>9 DEF IInv, Shape, x
<1>3. \A d \in Clients : Conn(d)' = Conn(d)
  BY <1>2 DEF Conn
<1>4. Conn(c) \in Connections /\ Conn(c)[1] = c
  BY PresentConnection
<1>5. /\ clientEnd' \in [Connections -> {"none", "open", "closed"}]
      /\ clientEnd'[Conn(c)] = IF clientEnd[Conn(c)] = "open" THEN "closed" ELSE clientEnd[Conn(c)]
      /\ \A k \in Connections \ {Conn(c)} : clientEnd'[k] = clientEnd[k]
  BY <1>1, <1>4 DEF IInv, Shape
<1>6. Shape'
  <2>1. << >> \in Seq(ChunksOf(Frames))
    OBVIOUS
  <2>2. /\ down' \in [Connections -> Seq(ChunksOf(Frames))]
        /\ answer' \in [Requesters -> Frames] /\ asked' \in [Requesters -> Nat]
    BY <1>1, <2>1 DEF IInv, Shape
  <2> QED
    BY <1>1, <1>2, <1>5, <2>2 DEF IInv, Shape
<1>7. Threads'
  BY <1>1 DEF IInv, Threads, Serving
<1>8. \A d \in Clients : Calling(d)'
  BY <1>2 DEF IInv, Calling
<1>9. ASSUME NEW k \in Connections PROVE ClientSide(k)' /\ ServerSide(k)'
  <2>1. k[1] \in Clients /\ ClientSide(k) /\ ServerSide(k)
    BY ConnectionParts DEF IInv
  <2>2. ServerSide(k)'
    BY <1>1, <1>5, <2>1 DEF ServerSide
  <2>3. CASE k[1] = c
    <3>1. client'[k[1]].at = "idle"
      BY <1>2, <2>3
    <3>2. clientEnd'[k] # "open"
      BY <1>5, <2>1, <2>3 DEF ClientSide
    <3>3. k[2] > client'[k[1]].calls => clientEnd'[k] = "none"
      BY <1>2, <1>5, <2>1, <2>3 DEF ClientSide
    <3>4. clientEnd'[k] = "none" => up'[k] = << >> /\ down'[k] = << >>
      BY <1>1, <1>5, <2>1 DEF ClientSide
    <3> QED
      BY <2>2, <3>1, <3>2, <3>3, <3>4 DEF ClientSide
  <2>4. CASE k[1] # c
    <3>1. k # Conn(c) /\ client'[k[1]] = client[k[1]] /\ Conn(k[1])' = Conn(k[1])
      BY <1>2, <1>3, <1>4, <2>1, <2>4
    <3>2. clientEnd'[k] = clientEnd[k] /\ up'[k] = up[k] /\ down'[k] = down[k]
      BY <1>1, <1>5, <3>1
    <3> QED
      BY <2>1, <2>2, <3>1, <3>2 DEF ClientSide
  <2> QED
    BY <2>3, <2>4
<1> QED
  BY <1>1, <1>6, <1>7, <1>8, <1>9 DEF IInv

\* A new call has a connection nobody has seen.
LEMMA CallStep == ASSUME IInv, NEW c \in Clients, Call(c) PROVE IInv'
<1>1. PICK l \in Locates : \E frame \in Frames :
        /\ client' = [client EXCEPT ![c] = [at |-> "connect", calls |-> @.calls + 1,
                                            frame |-> frame, sent |-> 0]]
        /\ asked' = [r \in Requesters |-> IF r = c THEN shadow[l] ELSE asked[r]]
  <2>1. \A l \in Locates :
          (IF c \in Requesters THEN {Request(l)} ELSE {Request(l), Fault, BadLength}) \subseteq Frames
    BY DEF Frames
  <2>2. PICK l \in Locates :
          /\ \E frame \in IF c \in Requesters THEN {Request(l)}
                          ELSE {Request(l), Fault, BadLength} :
               client' = [client EXCEPT ![c] = [at |-> "connect", calls |-> @.calls + 1,
                                                frame |-> frame, sent |-> 0]]
          /\ asked' = [r \in Requesters |-> IF r = c THEN shadow[l] ELSE asked[r]]
    BY DEF Call
  <2> QED
    BY <2>1, <2>2
<1>2. PICK frame \in Frames :
        client' = [client EXCEPT ![c] = [at |-> "connect", calls |-> @.calls + 1,
                                         frame |-> frame, sent |-> 0]]
  BY <1>1
<1>3. /\ client[c].at = "idle" /\ client[c].calls < MaxCalls[c]
      /\ answer' = [r \in Requesters |-> IF r = c THEN NoFrame ELSE answer[r]]
      /\ UNCHANGED <<shadow, running, listening, starts, stopper, server, backlog,
                     clientEnd, serverEnd, up, down>>
  BY DEF Call, owner, ends, wires
<1>4. client[c].calls \in Nat /\ MaxCalls[c] \in Nat
  BY RecoveryAssumption DEF IInv, Shape
<1>5. /\ client' \in [Clients -> [at : {"idle", "connect", "send", "recv"}, calls : Nat,
                                  frame : Frames, sent : 0..2]]
      /\ client'[c].at = "connect" /\ client'[c].calls = client[c].calls + 1
      /\ client'[c].sent = 0
      /\ \A d \in Clients \ {c} : client'[d] = client[d]
  BY <1>2, <1>4 DEF IInv, Shape
<1>6. Shape'
  <2>1. NoFrame \in Frames
    BY DEF Frames
  <2>2. answer' \in [Requesters -> Frames] /\ asked' \in [Requesters -> Nat]
    <3>1. shadow[l] \in Nat
      BY RecoveryAssumption DEF IInv, Shape
    <3> QED
      BY <1>1, <1>3, <2>1, <3>1 DEF IInv, Shape
  <2> QED
    BY <1>3, <1>5, <2>2 DEF IInv, Shape
<1>7. Threads'
  BY <1>3 DEF IInv, Threads, Serving
<1>8. \A d \in Clients : Calling(d)'
  BY <1>3, <1>4, <1>5 DEF IInv, Calling
<1>9. ASSUME NEW k \in Connections PROVE ClientSide(k)' /\ ServerSide(k)'
  <2>1. k[1] \in Clients /\ ClientSide(k) /\ ServerSide(k) /\ k[2] \in Nat /\ k = <<k[1], k[2]>>
    <3>1. MaxCalls[k[1]] \in Nat
      BY ConnectionParts, RecoveryAssumption
    <3> QED
      BY <3>1, ConnectionParts DEF IInv
  <2>2. ServerSide(k)'
    BY <1>3, <2>1 DEF ServerSide
  <2>3. CASE k[1] = c
    <3>1. client[k[1]].at = "idle" => clientEnd[k] # "open"
      BY <2>1 DEF ClientSide
    <3>2. k = Conn(c)' => k[2] > client[c].calls
      BY <1>4, <1>5, <2>1 DEF Conn
    <3>3. k[2] > client'[c].calls => k[2] > client[c].calls
      BY <1>4, <1>5, <2>1
    <3> QED
      BY <1>3, <1>5, <2>1, <2>2, <2>3, <3>1, <3>2, <3>3 DEF ClientSide
  <2>4. CASE k[1] # c
    <3>1. client'[k[1]] = client[k[1]] /\ Conn(k[1])' = Conn(k[1])
      BY <1>5, <2>1, <2>4 DEF Conn
    <3> QED
      BY <1>3, <2>1, <2>2, <3>1 DEF ClientSide
  <2> QED
    BY <2>3, <2>4
<1> QED
  BY <1>3, <1>6, <1>7, <1>8, <1>9 DEF IInv

\* The first chunk of a wire, and the chunks of a frame.
LEMMA WireParts ==
  /\ \A w \in Seq(ChunksOf(Frames)) : w # << >> =>
       /\ Head(w) = w[1] /\ Head(w).frame \in Frames /\ Head(w).part \in {"header", "body"}
       /\ Tail(w) \in Seq(ChunksOf(Frames)) /\ Len(Tail(w)) = Len(w) - 1
       /\ \A i \in 1..Len(Tail(w)) : Tail(w)[i] = w[i + 1]
  /\ \A f \in Frames, i \in {1, 2} :
       Chunks(f)[i] \in ChunksOf(Frames) /\ Chunks(f)[i].frame = f
<1>1. ASSUME NEW w \in Seq(ChunksOf(Frames)), w # << >>
      PROVE  /\ Head(w) = w[1] /\ Head(w).frame \in Frames /\ Head(w).part \in {"header", "body"}
             /\ Tail(w) \in Seq(ChunksOf(Frames)) /\ Len(Tail(w)) = Len(w) - 1
             /\ \A i \in 1..Len(Tail(w)) : Tail(w)[i] = w[i + 1]
  <2>1. Head(w) = w[1] /\ Head(w) \in ChunksOf(Frames)
    BY <1>1
  <2>2. /\ Tail(w) \in Seq(ChunksOf(Frames)) /\ Len(Tail(w)) = Len(w) - 1
        /\ \A i \in 1..Len(Tail(w)) : Tail(w)[i] = w[i + 1]
    BY <1>1
  <2> QED
    BY <2>1, <2>2 DEF ChunksOf
<1>2. ASSUME NEW f \in Frames, NEW i \in {1, 2}
      PROVE  Chunks(f)[i] \in ChunksOf(Frames) /\ Chunks(f)[i].frame = f
  BY DEF Chunks, ChunksOf
<1> QED
  BY <1>1, <1>2

\* A step of a client inside a call that stays in it, on its own connection.
LEMMA CallGoesOn ==
  ASSUME IInv, Shape', NEW c \in Clients, client[c].at \in {"connect", "send"},
         client'[c].at \in {"send", "recv"}, client'[c].calls = client[c].calls,
         client'[c].at = "send" => client'[c].sent # 2,
         \A d \in Clients \ {c} : client'[d] = client[d],
         clientEnd' = [clientEnd EXCEPT ![Conn(c)] = "open"],
         \A k \in Connections \ {Conn(c)} : up'[k] = up[k] /\ down'[k] = down[k]
  PROVE  /\ \A d \in Clients : Calling(d)'
         /\ \A k \in Connections : ClientSide(k)'
<1>1. \A d \in Clients : Conn(d)' = Conn(d)
  BY DEF Conn
<1>2. Conn(c) \in Connections /\ Conn(c)[1] = c /\ Conn(c)[2] = client[c].calls
  BY PresentConnection
<1>3. clientEnd'[Conn(c)] = "open" /\ \A k \in Connections \ {Conn(c)} : clientEnd'[k] = clientEnd[k]
  BY <1>2 DEF IInv, Shape
<1>4. \A d \in Clients : Calling(d)'
  BY DEF IInv, Calling
<1>5. client[c].calls \in Nat
  BY DEF IInv, Shape
<1>6. ASSUME NEW k \in Connections PROVE ClientSide(k)'
  <2>1. k[1] \in Clients /\ ClientSide(k)
    BY ConnectionParts DEF IInv
  <2>2. CASE k = Conn(c)
    <3>1. ~(k[2] > client'[k[1]].calls) /\ client'[k[1]].at # "connect"
      BY <1>2, <1>5, <2>2
    <3> QED
      BY <1>1, <1>2, <1>3, <2>2, <3>1 DEF ClientSide
  <2>3. CASE k # Conn(c)
    <3>1. CASE k[1] = c
      BY <1>1, <1>3, <2>1, <2>3, <3>1 DEF ClientSide
    <3>2. CASE k[1] # c
      BY <1>1, <1>3, <2>1, <2>3, <3>2 DEF ClientSide
    <3> QED
      BY <3>1, <3>2
  <2> QED
    BY <2>2, <2>3
<1> QED
  BY <1>4, <1>6

\* A connection is made while the backlog has room, or the call is over.
LEMMA ConnectStep == ASSUME IInv, NEW c \in Clients, Connect(c) PROVE IInv'
<1>1. client[c].at = "connect"
  BY DEF Connect
<1>2. CASE listening /\ Len(backlog) < Backlog
  <2>1. /\ backlog' = Append(backlog, Conn(c))
        /\ clientEnd' = [clientEnd EXCEPT ![Conn(c)] = "open"]
        /\ client' = [client EXCEPT ![c].at = "send"]
        /\ UNCHANGED <<shadow, running, listening, starts, stopper, server, serverEnd, up, down,
                       asked, answer>>
    BY <1>2 DEF Connect, owner, wires
  <2>2. Conn(c) \in Connections /\ Conn(c)[1] = c
    BY <1>1, PresentConnection
  <2>3. clientEnd[Conn(c)] = "none" /\ serverEnd[Conn(c)] = "none" /\ Conn(c) \notin Range(backlog)
    BY <1>1, <2>2 DEF IInv, ClientSide, ServerSide
  <2>4. /\ backlog' \in Seq(Connections) /\ IsInjective(backlog')
        /\ Len(backlog') = Len(backlog) + 1
        /\ Range(backlog') = Range(backlog) \cup {Conn(c)}
    BY <2>1, <2>2, <2>3, QueueAppend DEF IInv, Shape
  <2>5. Len(backlog') <= Backlog
    <3>1. Len(backlog) \in Nat /\ Backlog \in Nat
      BY RecoveryAssumption DEF IInv, Shape
    <3> QED
      BY <1>2, <2>4, <3>1
  <2>6. /\ client' \in [Clients -> [at : {"idle", "connect", "send", "recv"}, calls : Nat,
                                    frame : Frames, sent : 0..2]]
        /\ client'[c].at = "send" /\ client'[c].calls = client[c].calls
        /\ client'[c].sent = client[c].sent
        /\ \A d \in Clients \ {c} : client'[d] = client[d]
    BY <2>1 DEF IInv, Shape
  <2>7. clientEnd' \in [Connections -> {"none", "open", "closed"}]
        /\ clientEnd'[Conn(c)] = "open"
        /\ \A k \in Connections \ {Conn(c)} : clientEnd'[k] = clientEnd[k]
    BY <2>1, <2>2 DEF IInv, Shape
  <2>8. Shape'
    BY <2>1, <2>4, <2>6, <2>7 DEF IInv, Shape
  <2>9. client'[c].sent # 2
    BY <1>1, <2>6 DEF IInv, Calling
  <2>10. (\A d \in Clients : Calling(d)') /\ \A k \in Connections : ClientSide(k)'
    BY <1>1, <2>1, <2>6, <2>8, <2>9, CallGoesOn
  <2>11. ASSUME NEW k \in Connections PROVE ServerSide(k)'
    <3>1. ServerSide(k)
      BY DEF IInv
    <3> QED
      BY <2>1, <2>3, <2>4, <2>7, <3>1 DEF ServerSide
  <2>12. Threads'
    BY <1>2, <2>1 DEF IInv, Threads, Serving
  <2> QED
    BY <2>4, <2>5, <2>8, <2>10, <2>11, <2>12 DEF IInv
<1>3. CASE ~(listening /\ Len(backlog) < Backlog)
  <2>1. Return(c, NoFrame) /\ NoFrame \in Frames
    BY <1>3 DEF Connect, Frames
  <2> QED
    BY <1>1, <2>1, ReturnStep
<1> QED
  BY <1>2, <1>3

\* A chunk leaves on the client's own connection, or the call is over.
LEMMA ClientSendStep == ASSUME IInv, NEW c \in Clients, ClientSend(c) PROVE IInv'
<1> DEFINE sent == client[c].sent
<1>1. client[c].at = "send"
  BY DEF ClientSend
<1>2. CASE /\ up' = [up EXCEPT ![Conn(c)] =
                       IF serverEnd[Conn(c)] = "closed" THEN @
                       ELSE Append(@, Chunks(client[c].frame)[sent + 1])]
           /\ client' = [client EXCEPT ![c].sent = sent + 1,
                                       ![c].at = IF sent = 1 THEN "recv" ELSE @]
           /\ UNCHANGED <<shadow, owner, server, backlog, ends, down, asked, answer>>
  <2>1. Conn(c) \in Connections /\ Conn(c)[1] = c
    BY <1>1, PresentConnection
  <2>2. /\ sent \in {0, 1} /\ client[c].frame \in Frames
        /\ client[c] \in [at : {"idle", "connect", "send", "recv"}, calls : Nat,
                          frame : Frames, sent : 0..2]
    BY <1>1 DEF IInv, Shape, Calling
  <2>3. /\ client' \in [Clients -> [at : {"idle", "connect", "send", "recv"}, calls : Nat,
                                    frame : Frames, sent : 0..2]]
        /\ client'[c].at \in {"send", "recv"} /\ client'[c].calls = client[c].calls
        /\ client'[c].at = "send" => client'[c].sent # 2
        /\ \A d \in Clients \ {c} : client'[d] = client[d]
    <3> DEFINE n == sent + 1
               at == IF sent = 1 THEN "recv" ELSE "send"
    <3>1. n \in 0..2 /\ at \in {"send", "recv"} /\ (at = "send" => n # 2)
      BY <2>2
    <3>2. client' = [client EXCEPT ![c].sent = n, ![c].at = at]
      BY <1>1, <1>2 DEF IInv, Shape
    <3> HIDE DEF n, at
    <3> DEFINE R == [at : {"idle", "connect", "send", "recv"}, calls : Nat,
                     frame : Frames, sent : 0..2]
               x == client[c]
               y == [x EXCEPT !.sent = n]
               z == [y EXCEPT !.at = at]
               a == [client EXCEPT ![c].sent = n]
    <3>3. x \in R /\ c \in DOMAIN client
      BY DEF IInv, Shape
    <3>4. a = [client EXCEPT ![c] = y] /\ a[c] = y /\ c \in DOMAIN a
      BY <3>3
    <3>5. client' = [a EXCEPT ![c].at = at]
      BY <3>2, <3>3
    <3> HIDE DEF x
    <3>6. y \in R /\ y.sent = n /\ y.calls = x.calls
      BY <3>1, <3>3
    <3> HIDE DEF y, a
    <3>7. z \in R /\ z.at = at /\ z.sent = n /\ z.calls = x.calls
      BY <3>1, <3>6
    <3>8. client' = [a EXCEPT ![c] = z]
      BY <3>4, <3>5
    <3> HIDE DEF z
    <3>9. client' = [client EXCEPT ![c] = z]
      BY <3>3, <3>4, <3>8
    <3> QED
      BY <3>1, <3>7, <3>9 DEF IInv, Shape, x
  <2>4. /\ up' \in [Connections -> Seq(ChunksOf(Frames))]
        /\ \A k \in Connections \ {Conn(c)} : up'[k] = up[k]
    <3>1. sent + 1 \in {1, 2}
      BY <2>2
    <3>2. Chunks(client[c].frame)[sent + 1] \in ChunksOf(Frames)
      BY <2>2, <3>1, WireParts
    <3> QED
      BY <1>2, <2>1, <3>2 DEF IInv, Shape
  <2>5. UNCHANGED <<shadow, running, listening, starts, stopper, server, backlog,
                    clientEnd, serverEnd, down, asked, answer>>
    BY <1>2 DEF owner, ends
  <2>6. Shape'
    BY <2>3, <2>4, <2>5 DEF IInv, Shape
  <2>7. clientEnd' = [clientEnd EXCEPT ![Conn(c)] = "open"]
    BY <1>1, <2>1, <2>5 DEF IInv, Shape, ClientSide
  <2>8. (\A d \in Clients : Calling(d)') /\ \A k \in Connections : ClientSide(k)'
    BY <1>1, <2>3, <2>4, <2>5, <2>6, <2>7, CallGoesOn
  <2> QED
    BY <2>5, <2>6, <2>8 DEF IInv, ServerSide, Threads, Serving
<1>3. CASE Return(c, NoFrame)
  BY <1>1, <1>3, ReturnStep DEF Frames
<1> QED
  BY <1>2, <1>3 DEF ClientSend

\* A header read is only dropped; the rest ends the call, as leaving does.
LEMMA ClientRecvStep ==
  ASSUME IInv, NEW c \in Clients, ClientRecv(c) \/ Leave(c)
  PROVE  IInv'
<1>1. CASE Leave(c)
  BY <1>1, ReturnStep DEF Leave, Frames
<1>2. CASE ClientRecv(c)
  <2> DEFINE wire == down[Conn(c)]
  <2>1. client[c].at = "recv"
    BY <1>2 DEF ClientRecv
  <2>2. Conn(c) \in Connections /\ Conn(c)[1] = c
    BY <2>1, PresentConnection
  <2>3. wire \in Seq(ChunksOf(Frames))
    BY <2>2 DEF IInv, Shape
  <2>4. CASE wire # << >> /\ Head(wire).part = "header"
    <3>1. /\ down' = [down EXCEPT ![Conn(c)] = Tail(@)]
          /\ UNCHANGED <<shadow, running, listening, starts, stopper, server, backlog,
                         clientEnd, serverEnd, up, client, asked, answer>>
      BY <1>2, <2>4 DEF ClientRecv, owner, ends, callers
    <3>2. down' \in [Connections -> Seq(ChunksOf(Frames))]
          /\ \A k \in Connections \ {Conn(c)} : down'[k] = down[k]
      BY <2>2, <2>3, <2>4, <3>1, WireParts DEF IInv, Shape
    <3>3. clientEnd[Conn(c)] # "none"
      BY <2>2, <2>4 DEF IInv, ClientSide
    <3>4. ASSUME NEW k \in Connections PROVE ClientSide(k)' /\ ServerSide(k)'
      <4>1. ClientSide(k) /\ ServerSide(k)
        BY DEF IInv
      <4> QED
        BY <3>1, <3>2, <3>3, <4>1 DEF ClientSide, ServerSide, Conn
    <3> QED
      BY <3>1, <3>2, <3>4 DEF IInv, Shape, Threads, Serving, Calling
  <2>5. CASE wire # << >> /\ Head(wire).part = "body"
    <3> DEFINE response == IF Kind(Head(wire).frame) = "Response" THEN Head(wire).frame
                           ELSE NoFrame
    <3>1. Head(wire).frame \in Frames /\ NoFrame \in Frames
      BY <2>3, <2>5, WireParts DEF Frames
    <3>2. Return(c, response) /\ response \in Frames
      BY <1>2, <2>5, <3>1 DEF ClientRecv
    <3> HIDE DEF response
    <3> QED
      BY <2>1, <3>2, ReturnStep
  <2>6. CASE wire = << >>
    <3>1. Return(c, NoFrame) /\ NoFrame \in Frames
      BY <1>2, <2>6 DEF ClientRecv, Frames
    <3> QED
      BY <2>1, <3>1, ReturnStep
  <2>7. wire # << >> => Head(wire).part \in {"header", "body"}
    BY <2>3, WireParts
  <2> QED
    BY <2>4, <2>5, <2>6, <2>7
<1> QED
  BY <1>1, <1>2

\* The connection the server serves is open at its end, so somebody made it.
LEMMA ServedConnection ==
  ASSUME IInv, Serving
  PROVE  /\ server.conn \in Connections /\ serverEnd[server.conn] = "open"
         /\ clientEnd[server.conn] # "none" /\ server.conn \notin Range(backlog)
         /\ up[server.conn] \in Seq(ChunksOf(Frames))
<1>1. server.conn \in Connections
  BY DEF IInv, Shape, Threads
<1> QED
  BY <1>1 DEF IInv, Shape, ServerSide

\* The close that ends every connection the server accepted.
LEMMA HangupStep ==
  ASSUME IInv, Serving, Hangup,
         UNCHANGED <<shadow, owner, backlog, clientEnd, down, callers>>
  PROVE  IInv'
<1>1. /\ serverEnd' = [serverEnd EXCEPT ![server.conn] = "closed"]
      /\ up' = [up EXCEPT ![server.conn] = << >>]
      /\ server' = Idle
      /\ UNCHANGED <<shadow, running, listening, starts, stopper, backlog, clientEnd, down,
                     client, asked, answer>>
  BY DEF Hangup, owner, callers
<1>2. /\ server.conn \in Connections /\ serverEnd[server.conn] = "open"
      /\ server.conn \notin Range(backlog)
  BY ServedConnection
<1>3. /\ serverEnd' \in [Connections -> {"none", "open", "closed"}]
      /\ serverEnd'[server.conn] = "closed"
      /\ \A k \in Connections \ {server.conn} : serverEnd'[k] = serverEnd[k]
  BY <1>1, <1>2 DEF IInv, Shape
<1>4. /\ up' \in [Connections -> Seq(ChunksOf(Frames))]
      /\ up'[server.conn] = << >>
      /\ \A k \in Connections \ {server.conn} : up'[k] = up[k]
  <2>1. << >> \in Seq(ChunksOf(Frames))
    OBVIOUS
  <2> QED
    BY <1>1, <1>2, <2>1 DEF IInv, Shape
<1>5. server'.at = "loop" /\ server'.conn = << >> /\ Shape'
  <2>1. NoFrame \in Frames
    BY DEF Frames
  <2> QED
    BY <1>1, <1>3, <1>4, <2>1 DEF IInv, Shape, Idle
<1>6. Threads'
  <2>1. stopper # "stopped"
    BY DEF IInv, Threads, Serving
  <2> QED
    BY <1>1, <1>5, <2>1 DEF IInv, Threads, Serving
<1>7. ASSUME NEW k \in Connections PROVE ClientSide(k)' /\ ServerSide(k)'
  <2>1. ClientSide(k) /\ ServerSide(k) /\ k # << >>
    BY ConnectionParts DEF IInv
  <2>2. ClientSide(k)'
    BY <1>1, <1>4, <2>1 DEF ClientSide, Conn
  <2>3. ServerSide(k)'
    BY <1>1, <1>2, <1>3, <1>5, <2>1 DEF ServerSide
  <2> QED
    BY <2>2, <2>3
<1> QED
  BY <1>1, <1>5, <1>6, <1>7 DEF IInv, Calling

\* accept takes the connection that has waited longest.
LEMMA AcceptStep == IInv /\ ServerAccept => IInv'
<1> SUFFICES ASSUME IInv, ServerAccept PROVE IInv'
  OBVIOUS
<1>1. /\ server.at = "accept"
      /\ UNCHANGED <<shadow, running, listening, starts, stopper, clientEnd, up, down,
                     client, asked, answer>>
  BY DEF ServerAccept, owner, wires, callers
<1>2. server.conn = << >> /\ stopper # "stopped"
  BY <1>1 DEF IInv, Threads, Serving
<1>3. CASE listening /\ backlog # << >>
  <2> DEFINE k0 == Head(backlog)
  <2>1. /\ server' = [server EXCEPT !.at = "recv", !.conn = k0]
        /\ serverEnd' = [serverEnd EXCEPT ![k0] = "open"]
        /\ backlog' = Tail(backlog)
    BY <1>3 DEF ServerAccept
  <2>2. /\ k0 \in Connections /\ k0 \in Range(backlog)
        /\ backlog' \in Seq(Connections) /\ IsInjective(backlog')
        /\ Len(backlog') = Len(backlog) - 1
        /\ Range(backlog') = Range(backlog) \ {k0}
    BY <1>3, <2>1, QueueTail DEF IInv, Shape
  <2> HIDE DEF k0
  <2>3. /\ server'.at = "recv" /\ server'.conn = k0
        /\ server' \in [at : {"loop", "accept", "recv", "provide", "send", "done"},
                        conn : Connections \cup {<< >>}, reply : Frames, sent : Nat]
    BY <2>1, <2>2 DEF IInv, Shape
  <2>4. /\ serverEnd' \in [Connections -> {"none", "open", "closed"}]
        /\ serverEnd'[k0] = "open"
        /\ \A k \in Connections \ {k0} : serverEnd'[k] = serverEnd[k]
    BY <2>1, <2>2 DEF IInv, Shape
  <2>5. Shape'
    BY <1>1, <2>2, <2>3, <2>4 DEF IInv, Shape
  <2>6. Threads'
    <3>1. k0 # << >>
      BY <2>2, ConnectionParts
    <3> QED
      BY <1>1, <1>2, <1>3, <2>3, <3>1 DEF IInv, Threads, Serving
  <2>7. ASSUME NEW k \in Connections PROVE ClientSide(k)' /\ ServerSide(k)'
    <3>1. ClientSide(k) /\ ServerSide(k) /\ k # << >>
      BY ConnectionParts DEF IInv
    <3>2. ClientSide(k)'
      BY <1>1, <3>1 DEF ClientSide, Conn
    <3>3. ServerSide(k)'
      BY <1>1, <1>2, <2>2, <2>3, <2>4, <3>1 DEF ServerSide
    <3> QED
      BY <3>2, <3>3
  <2>8. Len(backlog') <= Backlog
    <3>1. Len(backlog) \in Nat /\ Backlog \in Nat
      BY RecoveryAssumption DEF IInv, Shape
    <3> QED
      BY <2>2, <3>1 DEF IInv
  <2> QED
    BY <1>1, <2>2, <2>5, <2>6, <2>7, <2>8 DEF IInv, Calling
<1>4. CASE ~(listening /\ backlog # << >>)
  <2>1. server' = [server EXCEPT !.at = "loop"] /\ UNCHANGED <<serverEnd, backlog>>
    BY <1>4 DEF ServerAccept
  <2>2. /\ server'.at = "loop" /\ server'.conn = server.conn
        /\ server' \in [at : {"loop", "accept", "recv", "provide", "send", "done"},
                        conn : Connections \cup {<< >>}, reply : Frames, sent : Nat]
    BY <2>1 DEF IInv, Shape
  <2>3. Shape' /\ Threads'
    BY <1>1, <1>2, <2>1, <2>2 DEF IInv, Shape, Threads, Serving
  <2> QED
    BY <1>1, <2>1, <2>2, <2>3 DEF IInv, Calling, ClientSide, ServerSide, Conn
<1> QED
  BY <1>3, <1>4

\* A chunk read, the provider's answer or a chunk sent, on the connection the
\* server goes on serving.
LEMMA ServingGoesOn ==
  ASSUME IInv, Shape', Serving, server'.at \in {"recv", "provide", "send"},
         server'.conn = server.conn,
         server'.at = "provide" => server'.reply \in {Request(l) : l \in Locates},
         UNCHANGED <<shadow, owner, backlog, clientEnd, serverEnd, callers>>,
         \A k \in Connections \ {server.conn} : up'[k] = up[k] /\ down'[k] = down[k]
  PROVE  IInv'
<1>1. UNCHANGED <<shadow, running, listening, starts, stopper, backlog, clientEnd, serverEnd,
                  client, asked, answer>>
  BY DEF owner, callers
<1>2. Threads'
  BY <1>1 DEF IInv, Threads, Serving
<1>3. ASSUME NEW k \in Connections PROVE ClientSide(k)' /\ ServerSide(k)'
  <2>1. ClientSide(k) /\ ServerSide(k) /\ clientEnd[server.conn] # "none"
    BY ServedConnection DEF IInv
  <2>2. ClientSide(k)'
    BY <1>1, <2>1 DEF ClientSide, Conn
  <2>3. ServerSide(k)'
    BY <1>1, <2>1 DEF ServerSide
  <2> QED
    BY <2>2, <2>3
<1> QED
  BY <1>1, <1>2, <1>3 DEF IInv, Calling

\* Of the frames a client can send, those that are requests.
LEMMA RequestFrames ==
  \A f \in Frames : Kind(f) = "Request" => f \in {Request(l) : l \in Locates}
<1> SUFFICES ASSUME NEW f \in Frames, Kind(f) = "Request"
             PROVE  f \in {Request(l) : l \in Locates}
  OBVIOUS
<1>1. f.op = "Q"
  BY DEF Kind
<1> QED
  BY <1>1 DEF Frames, Request, Response, Fault, BadLength, NoFrame

\* A read that goes on, or hangs up.
LEMMA RecvStep == IInv /\ ServerRecv => IInv'
<1> SUFFICES ASSUME IInv, ServerRecv PROVE IInv'
  OBVIOUS
<1> DEFINE wire == up[server.conn]
<1>1. server.at = "recv" /\ Serving
  BY DEF ServerRecv, Serving
<1>2. UNCHANGED <<shadow, owner, backlog, clientEnd, down, callers>>
  BY DEF ServerRecv
<1>3. wire \in Seq(ChunksOf(Frames)) /\ server.conn \in Connections
  BY <1>1, ServedConnection
<1>4. CASE Hangup
  BY <1>1, <1>2, <1>4, HangupStep
<1>5. CASE ~Hangup
  <2>1. /\ wire # << >> /\ up' = [up EXCEPT ![server.conn] = Tail(@)] /\ UNCHANGED serverEnd
        /\ \/ UNCHANGED server
           \/ /\ Kind(Head(wire).frame) = "Request"
              /\ server' = [server EXCEPT !.at = "provide", !.reply = Head(wire).frame]
    <3>1. wire # << >> => Head(wire).part \in {"header", "body"}
      BY <1>3, WireParts
    <3>2. CASE wire # << >> /\ Head(wire).part = "header"
      BY <1>5, <3>2 DEF ServerRecv
    <3>3. CASE wire # << >> /\ Head(wire).part = "body"
      BY <1>5, <3>3 DEF ServerRecv
    <3>4. CASE wire = << >>
      BY <1>5, <3>4 DEF ServerRecv
    <3> QED
      BY <3>1, <3>2, <3>3, <3>4
  <2>2. Head(wire).frame \in Frames /\ Tail(wire) \in Seq(ChunksOf(Frames))
    BY <1>3, <2>1, WireParts
  <2>3. /\ up' \in [Connections -> Seq(ChunksOf(Frames))]
        /\ \A k \in Connections \ {server.conn} : up'[k] = up[k]
    BY <1>3, <2>1, <2>2 DEF IInv, Shape
  <2>4. /\ server'.conn = server.conn /\ server'.at \in {"recv", "provide"}
        /\ server'.at = "provide" => server'.reply \in {Request(l) : l \in Locates}
        /\ server' \in [at : {"loop", "accept", "recv", "provide", "send", "done"},
                        conn : Connections \cup {<< >>}, reply : Frames, sent : Nat]
    <3>1. CASE UNCHANGED server
      BY <1>1, <3>1 DEF IInv, Shape
    <3>2. CASE /\ Kind(Head(wire).frame) = "Request"
               /\ server' = [server EXCEPT !.at = "provide", !.reply = Head(wire).frame]
      <4> DEFINE f == Head(wire).frame
      <4>1. f \in Frames /\ f \in {Request(l) : l \in Locates}
        BY <2>2, <3>2, RequestFrames
      <4> HIDE DEF f
      <4>2. server' = [server EXCEPT !.at = "provide", !.reply = f]
        BY <3>2 DEF f
      <4>3. /\ server'.conn = server.conn /\ server'.at = "provide" /\ server'.reply = f
            /\ server' \in [at : {"loop", "accept", "recv", "provide", "send", "done"},
                            conn : Connections \cup {<< >>}, reply : Frames, sent : Nat]
        BY <4>1, <4>2 DEF IInv, Shape
      <4> QED
        BY <4>1, <4>3
    <3> QED
      BY <2>1, <3>1, <3>2
  <2>5. Shape'
    BY <1>2, <2>1, <2>3, <2>4 DEF IInv, Shape, owner, callers
  <2> QED
    BY <1>1, <1>2, <2>1, <2>3, <2>4, <2>5, ServingGoesOn
<1> QED
  BY <1>4, <1>5

\* The provider's answer.
LEMMA ProvideStep == IInv /\ ServerProvide => IInv'
<1> SUFFICES ASSUME IInv, ServerProvide PROVE IInv'
  OBVIOUS
<1> DEFINE f == Response(server.reply.loc, shadow[server.reply.loc])
<1>1. /\ server.at = "provide" /\ Serving
      /\ server' = [server EXCEPT !.at = "send", !.reply = f, !.sent = 0]
      /\ UNCHANGED <<shadow, owner, backlog, clientEnd, serverEnd, up, down, callers>>
  BY DEF ServerProvide, Serving, ends, wires
<1>2. f \in Frames
  <2>1. PICK l \in Locates : server.reply = Request(l)
    BY <1>1 DEF IInv, Threads
  <2>2. server.reply.loc = l /\ shadow[l] \in Nat
    BY <2>1, RecoveryAssumption DEF IInv, Shape, Request
  <2> QED
    BY <2>2 DEF Frames
<1> HIDE DEF f
<1>3. /\ server'.conn = server.conn /\ server'.at = "send"
      /\ server' \in [at : {"loop", "accept", "recv", "provide", "send", "done"},
                      conn : Connections \cup {<< >>}, reply : Frames, sent : Nat]
  BY <1>1, <1>2 DEF IInv, Shape
<1>4. Shape'
  BY <1>1, <1>3 DEF IInv, Shape, owner, callers
<1> QED
  BY <1>1, <1>3, <1>4, ServingGoesOn

\* A chunk of the answer, or the end of it.
LEMMA SendStep == IInv /\ ServerSend => IInv'
<1> SUFFICES ASSUME IInv, ServerSend PROVE IInv'
  OBVIOUS
<1>1. /\ server.at = "send" /\ Serving
      /\ UNCHANGED <<shadow, owner, backlog, clientEnd, callers>>
  BY DEF ServerSend, Serving
<1>2. CASE Hangup /\ UNCHANGED down
  BY <1>1, <1>2, HangupStep
<1>3. CASE /\ server.sent < 2
           /\ down' = [down EXCEPT ![server.conn] =
                         IF clientEnd[server.conn] = "closed" THEN @
                         ELSE Append(@, Chunks(server.reply)[server.sent + 1])]
           /\ server' = [server EXCEPT !.sent = @ + 1]
           /\ UNCHANGED <<serverEnd, up>>
  <2>1. server.conn \in Connections /\ server.reply \in Frames /\ server.sent \in Nat
    BY <1>1, ServedConnection DEF IInv, Shape
  <2>2. Chunks(server.reply)[server.sent + 1] \in ChunksOf(Frames)
    <3>1. server.sent + 1 \in {1, 2}
      BY <1>3, <2>1
    <3> QED
      BY <2>1, <3>1, WireParts
  <2>3. /\ down' \in [Connections -> Seq(ChunksOf(Frames))]
        /\ \A k \in Connections \ {server.conn} : down'[k] = down[k]
    BY <1>3, <2>1, <2>2 DEF IInv, Shape
  <2>4. /\ server'.conn = server.conn /\ server'.at = "send"
        /\ server' \in [at : {"loop", "accept", "recv", "provide", "send", "done"},
                        conn : Connections \cup {<< >>}, reply : Frames, sent : Nat]
    <3> DEFINE n == server.sent + 1
    <3>1. n \in Nat /\ server' = [server EXCEPT !.sent = n]
      BY <1>3, <2>1
    <3> HIDE DEF n
    <3> QED
      BY <1>1, <3>1 DEF IInv, Shape
  <2>5. Shape'
    BY <1>1, <1>3, <2>3, <2>4 DEF IInv, Shape, owner, callers
  <2> QED
    BY <1>1, <1>3, <2>3, <2>4, <2>5, ServingGoesOn
<1> QED
  BY <1>2, <1>3 DEF ServerSend

\* Every step keeps IInv: one case per action.
LEMMA NextLife == IInv /\ [Next]_vars => IInv'
<1> SUFFICES ASSUME IInv, [Next]_vars PROVE IInv'
  OBVIOUS
<1>1. CASE Publish \/ StopRunning \/ StopJoin \/ Start \/ ServerLoop
  BY <1>1, QuietStep
<1>2. CASE StopClose
  BY <1>2, CloseStep
<1>3. ASSUME NEW c \in Clients, Call(c) \/ Connect(c) \/ ClientSend(c) \/ ClientRecv(c) \/ Leave(c)
      PROVE  IInv'
  BY <1>3, CallStep, ConnectStep, ClientSendStep, ClientRecvStep
<1>4. CASE ServerAccept
  BY <1>4, AcceptStep
<1>5. CASE ServerRecv
  BY <1>5, RecvStep
<1>6. CASE ServerProvide
  BY <1>6, ProvideStep
<1>7. CASE ServerSend
  BY <1>7, SendStep
<1>8. CASE UNCHANGED vars
  BY <1>8 DEF vars, owner, ends, wires, callers, IInv, Shape, Threads, Serving, Calling,
              ClientSide, ServerSide, Conn
<1> QED
  BY <1>1, <1>2, <1>3, <1>4, <1>5, <1>6, <1>7, <1>8 DEF Next

\* IInv holds in every reachable state.
LEMMA AlwaysTracked == Spec => []IInv
  BY InitLife, NextLife, PTL DEF Spec

\* Threads and connections are where they say they are.
THEOREM TypeCorrect == Spec => []TypeOK
<1>1. IInv => TypeOK
  <2> SUFFICES ASSUME IInv PROVE TypeOK
    OBVIOUS
  <2>1. ASSUME NEW c \in Clients
        PROVE  client[c].calls \in 0..MaxCalls[c] /\ client[c].sent \in 0..2
    <3>1. client[c].calls \in Nat /\ client[c].sent \in 0..2 /\ MaxCalls[c] \in Nat
      BY RecoveryAssumption DEF IInv, Shape
    <3> QED
      BY <3>1 DEF IInv, Calling
  <2> QED
    BY <2>1 DEF IInv, Shape, Threads, TypeOK
<1> QED
  BY <1>1, AlwaysTracked, PTL

\* The server keeps open no connection but the one it serves, whatever clients
\* send and however they leave; and when stop() has returned no caller is left
\* on a connection nobody will answer.
THEOREM NothingLeaks == Spec => []NoConnectionLeaks
<1>1. IInv => NoConnectionLeaks
  <2> SUFFICES ASSUME IInv PROVE NoConnectionLeaks
    OBVIOUS
  <2>1. ASSUME NEW k \in Connections, serverEnd[k] = "open"
        PROVE  Serving /\ server.conn = k
    BY <2>1, ConnectionParts DEF IInv, ServerSide, Threads
  <2>2. ASSUME stopper = "stopped", NEW k \in Connections, clientEnd[k] = "open"
        PROVE  serverEnd[k] = "closed"
    <3>1. ~Serving /\ backlog = << >>
      BY <2>2 DEF IInv, Threads, Serving
    <3>2. serverEnd[k] # "open"
      BY <2>1, <3>1
    <3>3. serverEnd[k] # "none"
      BY <2>2, <3>1, EmptyQueue DEF IInv, ServerSide
    <3> QED
      BY <3>2, <3>3 DEF IInv, Shape
  <2> QED
    BY <2>1, <2>2 DEF NoConnectionLeaks
<1> QED
  BY <1>1, AlwaysTracked, PTL

-----------------------------------------------------------------------------
(***************************************************************************)
(* What is on its way between a requester and the server.                  *)
(***************************************************************************)

\* f answers a request for l when the provider had applied a, and it has now
\* applied s.
Fresh(l, a, s, f) == \E n \in Nat : f = Response(l, n) /\ a <= n /\ n <= s

FreshFor(r, f) == Fresh(client[r].frame.loc, asked[r], shadow[client[r].frame.loc], f)

\* The request is for a locate, and the provider's state has only grown since.
Asked(r) ==
  /\ client[r].frame \in {Request(l) : l \in Locates}
  /\ asked[r] <= shadow[client[r].frame.loc]

\* Up goes the request, down come answers to it.
OnTheWires(r) ==
  /\ \A i \in 1..Len(up[Conn(r)]) : up[Conn(r)][i].frame = client[r].frame
  /\ \A i \in 1..Len(down[Conn(r)]) : FreshFor(r, down[Conn(r)][i].frame)

\* So it is with what the server holds while it serves the requester.
InTheServer(r) ==
  server.conn = Conn(r) =>
    /\ server.at = "provide" => server.reply = client[r].frame
    /\ server.at = "send" => FreshFor(r, server.reply)

Sound(r) ==
  /\ client[r].at # "idle" => Asked(r)
  /\ client[r].at \in {"send", "recv"} => OnTheWires(r) /\ InTheServer(r)

Requests == \A r \in Requesters : Sound(r)

\* Before the first call there is nothing under way.
LEMMA InitRequests == Init => Requests
<1> SUFFICES ASSUME Init, NEW r \in Requesters PROVE Sound(r)
  BY DEF Requests
<1>1. client[r].at = "idle"
  BY DEF Init, Clients
<1> QED
  BY <1>1 DEF Sound

\* What every step has in common: the present connection is known, and answers
\* stay fresh as the provider's state grows.
LEMMA RequesterFacts ==
  ASSUME IInv, NEW r \in Requesters
  PROVE  /\ r \in Clients
         /\ client[r].at # "idle" =>
              Conn(r) \in Connections /\ Conn(r)[1] = r /\ Conn(r) # << >>
         /\ client[r].at \in {"send", "recv"} =>
              up[Conn(r)] \in Seq(ChunksOf(Frames)) /\ down[Conn(r)] \in Seq(ChunksOf(Frames))
<1>1. r \in Clients
  BY DEF Clients
<1>2. client[r].at # "idle" => Conn(r) \in Connections /\ Conn(r)[1] = r /\ Conn(r) # << >>
  BY <1>1, PresentConnection, ConnectionParts
<1> QED
  BY <1>1, <1>2 DEF IInv, Shape

\* A step of somebody else that leaves the requester's wires alone, and the
\* server where it was or with another connection.
LEMMA RequestKept ==
  ASSUME IInv, NEW r \in Requesters, Sound(r),
         client'[r] = client[r], asked'[r] = asked[r],
         \A l \in Locates : shadow[l] <= shadow'[l],
         shadow' \in [Locates -> 0..MaxSeq],
         client[r].at \in {"send", "recv"} =>
           /\ up'[Conn(r)] \in {up[Conn(r)], << >>} /\ down'[Conn(r)] = down[Conn(r)]
           /\ \/ server' = server
              \/ server'.conn # Conn(r)
              \/ server'.at \notin {"provide", "send"}
  PROVE  Sound(r)'
<1>1. Conn(r)' = Conn(r)
  BY DEF Conn
<1> DEFINE l == client[r].frame.loc
           a == asked[r]
<1>2. client[r].at # "idle" => l \in Locates /\ shadow[l] <= shadow'[l]
  BY DEF Sound, Asked, Request
<1>3. r \in Clients /\ a \in Nat
  BY RequesterFacts DEF IInv, Shape
<1>4. client[r].at # "idle" => shadow[l] \in Nat /\ shadow'[l] \in Nat
  BY <1>2, RecoveryAssumption DEF IInv, Shape
<1>5. client[r].at # "idle" => Asked(r)'
  BY <1>2, <1>3, <1>4 DEF Sound, Asked
<1>6. client[r].at # "idle" => \A f : Fresh(l, a, shadow[l], f) => Fresh(l, a, shadow'[l], f)
  BY <1>2, <1>4 DEF Fresh
<1>7. ASSUME client[r].at \in {"send", "recv"}
      PROVE  OnTheWires(r)' /\ InTheServer(r)'
  <2>1. OnTheWires(r) /\ InTheServer(r)
    BY <1>7 DEF Sound
  <2>2. \A f : FreshFor(r, f) => Fresh(l, a, shadow'[l], f)
    BY <1>6, <1>7 DEF FreshFor
  <2>3. OnTheWires(r)'
    <3>1. \A i \in 1..Len(up'[Conn(r)]) : up'[Conn(r)][i].frame = client[r].frame
      BY <1>7, <2>1 DEF OnTheWires
    <3> QED
      BY <1>1, <1>7, <2>1, <2>2, <3>1 DEF OnTheWires, FreshFor
  <2>4. InTheServer(r)'
    BY <1>1, <1>7, <2>1, <2>2 DEF InTheServer, FreshFor
  <2> QED
    BY <2>3, <2>4
<1> QED
  BY <1>5, <1>7 DEF Sound

\* The provider's state, where a step leaves it alone.
LEMMA SameShadow ==
  ASSUME IInv, UNCHANGED shadow
  PROVE  /\ shadow' \in [Locates -> 0..MaxSeq]
         /\ \A l \in Locates : shadow[l] <= shadow'[l] /\ shadow[l] \in Nat
<1>1. shadow \in [Locates -> 0..MaxSeq] /\ MaxSeq \in Nat
  BY RecoveryAssumption DEF IInv, Shape
<1> QED
  BY <1>1

\* The provider's state grows, stop() and start() run, a connection is accepted.
LEMMA QuietRequests ==
  ASSUME IInv, Requests,
         Publish \/ StopRunning \/ StopClose \/ StopJoin \/ Start \/ ServerLoop \/ ServerAccept
  PROVE  Requests'
<1>1. UNCHANGED <<up, down, client, asked, answer>>
  BY DEF Publish, StopRunning, StopClose, StopJoin, Start, ServerLoop, ServerAccept, wires, callers
<1>2. shadow' \in [Locates -> 0..MaxSeq] /\ \A l \in Locates : shadow[l] <= shadow'[l]
  <2>1. CASE UNCHANGED shadow
    BY <2>1, SameShadow
  <2>2. CASE Publish
    <3>1. PICK l \in Locates : shadow[l] < MaxSeq /\ shadow' = [shadow EXCEPT ![l] = @ + 1]
      BY <2>2 DEF Publish
    <3>2. shadow \in [Locates -> 0..MaxSeq] /\ MaxSeq \in Nat
      BY RecoveryAssumption DEF IInv, Shape
    <3> QED
      BY <3>1, <3>2
  <2> QED
    BY <2>1, <2>2 DEF StopRunning, StopClose, StopJoin, Start, ServerLoop, ServerAccept
<1>3. server' = server \/ server'.at \notin {"provide", "send"}
  <2>1. CASE ServerLoop
    BY <2>1 DEF ServerLoop, IInv, Shape
  <2>2. CASE ServerAccept
    BY <2>2 DEF ServerAccept, IInv, Shape
  <2> QED
    BY <2>1, <2>2 DEF Publish, StopRunning, StopClose, StopJoin, Start, Idle
<1> QED
  BY <1>1, <1>2, <1>3, RequestKept DEF Requests

\* A step of one client, as the other requesters see it.
LEMMA OthersKeep ==
  ASSUME IInv, NEW c \in Clients, NEW r \in Requesters, r # c, Sound(r),
         UNCHANGED <<shadow, server>>, client'[r] = client[r], asked'[r] = asked[r],
         \A k \in Connections : k[1] # c => up'[k] = up[k] /\ down'[k] = down[k]
  PROVE  Sound(r)'
<1>1. client[r].at \in {"send", "recv"} =>
        up'[Conn(r)] = up[Conn(r)] /\ down'[Conn(r)] = down[Conn(r)]
  BY RequesterFacts
<1> QED
  BY <1>1, SameShadow, RequestKept

\* The end of a call.
LEMMA ReturnRequests ==
  ASSUME IInv, Requests, NEW c \in Clients, client[c].at # "idle", NEW response \in Frames,
         Return(c, response)
  PROVE  Requests'
<1>1. /\ client' = [client EXCEPT ![c].at = "idle", ![c].frame = NoFrame, ![c].sent = 0]
      /\ down' = [k \in Connections |-> IF k = Conn(c) THEN << >> ELSE down[k]]
      /\ asked' = [r \in Requesters |-> IF r = c THEN 0 ELSE asked[r]]
      /\ UNCHANGED <<shadow, server, up>>
  BY DEF Return
<1>2. Conn(c)[1] = c
  BY PresentConnection
<1>3. ASSUME NEW r \in Requesters, r # c PROVE Sound(r)'
  <2>1. client'[r] = client[r]
    BY <1>1, <1>3, RequesterFacts DEF IInv, Shape
  <2> QED
    BY <1>1, <1>2, <1>3, <2>1, OthersKeep DEF Requests
<1>4. client'[c].at = "idle"
  BY <1>1 DEF IInv, Shape
<1> QED
  BY <1>3, <1>4 DEF Requests, Sound

\* A requester that calls asks for a locate of the provider, whose state it is
\* told about from now on.
LEMMA CallRequests == ASSUME IInv, Requests, NEW c \in Clients, Call(c) PROVE Requests'
<1>1. PICK l \in Locates :
        /\ \E frame \in IF c \in Requesters THEN {Request(l)}
                        ELSE {Request(l), Fault, BadLength} :
             client' = [client EXCEPT ![c] = [at |-> "connect", calls |-> @.calls + 1,
                                              frame |-> frame, sent |-> 0]]
        /\ asked' = [r \in Requesters |-> IF r = c THEN shadow[l] ELSE asked[r]]
  BY DEF Call
<1>2. UNCHANGED <<shadow, server, up, down>>
  BY DEF Call, wires
<1>3. ASSUME NEW r \in Requesters, r # c PROVE Sound(r)'
  <2>1. client'[r] = client[r]
    BY <1>1, <1>3, RequesterFacts DEF IInv, Shape
  <2> QED
    BY <1>1, <1>2, <1>3, <2>1, OthersKeep DEF Requests
<1>4. ASSUME c \in Requesters PROVE Sound(c)'
  <2>1. client'[c].at = "connect" /\ client'[c].frame = Request(l)
    BY <1>1, <1>4 DEF IInv, Shape
  <2>2. asked'[c] = shadow[l] /\ shadow[l] \in Nat /\ shadow'[l] = shadow[l]
    BY <1>1, <1>2, <1>4, SameShadow
  <2>3. client'[c].frame.loc = l
    BY <2>1 DEF Request
  <2>4. Asked(c)'
    BY <2>1, <2>2, <2>3 DEF Asked
  <2> QED
    BY <2>1, <2>4 DEF Sound
<1> QED
  BY <1>3, <1>4 DEF Requests

\* Nothing is on a connection that is new, and the server does not serve it.
LEMMA ConnectRequests == ASSUME IInv, Requests, NEW c \in Clients, Connect(c) PROVE Requests'
<1>1. client[c].at = "connect"
  BY DEF Connect
<1>2. CASE listening /\ Len(backlog) < Backlog
  <2>1. /\ client' = [client EXCEPT ![c].at = "send"]
        /\ UNCHANGED <<shadow, server, up, down, asked>>
    BY <1>2 DEF Connect, wires
  <2>2. /\ client'[c].at = "send" /\ client'[c].calls = client[c].calls
        /\ client'[c].frame = client[c].frame
        /\ \A d \in Clients \ {c} : client'[d] = client[d]
    BY <2>1 DEF IInv, Shape
  <2>3. ASSUME NEW r \in Requesters, r # c PROVE Sound(r)'
    BY <2>1, <2>2, <2>3, RequesterFacts, OthersKeep DEF Requests
  <2>4. ASSUME c \in Requesters PROVE Sound(c)'
    <3>1. Conn(c)' = Conn(c) /\ Conn(c) \in Connections /\ Conn(c)[1] = c
      BY <1>1, <2>2, PresentConnection DEF Conn
    <3>2. ClientSide(Conn(c)) /\ ServerSide(Conn(c))
      BY <3>1 DEF IInv
    <3>3. up[Conn(c)] = << >> /\ down[Conn(c)] = << >> /\ server.conn # Conn(c)
      BY <1>1, <3>1, <3>2 DEF ClientSide, ServerSide
    <3>4. OnTheWires(c)'
      BY <2>1, <3>1, <3>3 DEF OnTheWires
    <3>5. InTheServer(c)'
      BY <2>1, <3>1, <3>3 DEF InTheServer
    <3>6. Asked(c)'
      BY <1>1, <2>1, <2>2, <2>4 DEF Requests, Sound, Asked
    <3> QED
      BY <3>4, <3>5, <3>6 DEF Sound
  <2> QED
    BY <2>3, <2>4 DEF Requests
<1>3. CASE ~(listening /\ Len(backlog) < Backlog)
  <2>1. Return(c, NoFrame) /\ NoFrame \in Frames
    BY <1>3 DEF Connect, Frames
  <2> QED
    BY <1>1, <2>1, ReturnRequests
<1> QED
  BY <1>2, <1>3


\* A wire with one more chunk at its end, or one less at its front.
LEMMA WireSteps ==
  ASSUME NEW w \in Seq(ChunksOf(Frames))
  PROVE  /\ \A x \in ChunksOf(Frames) :
              \A i \in 1..Len(Append(w, x)) :
                Append(w, x)[i] = x \/ (i \in 1..Len(w) /\ Append(w, x)[i] = w[i])
         /\ w # << >> =>
              /\ 1 \in 1..Len(w) /\ Head(w) = w[1]
              /\ \A i \in 1..Len(Tail(w)) : i + 1 \in 1..Len(w) /\ Tail(w)[i] = w[i + 1]
<1>1. ASSUME NEW x \in ChunksOf(Frames), NEW i \in 1..Len(Append(w, x))
      PROVE  Append(w, x)[i] = x \/ (i \in 1..Len(w) /\ Append(w, x)[i] = w[i])
  <2>1. /\ Len(w) \in Nat /\ Len(Append(w, x)) = Len(w) + 1
        /\ Append(w, x)[Len(w) + 1] = x
        /\ \A j \in 1..Len(w) : Append(w, x)[j] = w[j]
    OBVIOUS
  <2>2. i = Len(w) + 1 \/ i \in 1..Len(w)
    BY <2>1
  <2> QED
    BY <2>1, <2>2
<1>2. ASSUME w # << >>
      PROVE  /\ 1 \in 1..Len(w) /\ Head(w) = w[1]
             /\ \A i \in 1..Len(Tail(w)) : i + 1 \in 1..Len(w) /\ Tail(w)[i] = w[i + 1]
  <2>1. Len(w) \in Nat \ {0} /\ Head(w) = w[1]
    BY <1>2
  <2>2. Len(Tail(w)) = Len(w) - 1 /\ \A i \in 1..Len(Tail(w)) : Tail(w)[i] = w[i + 1]
    BY <1>2, WireParts
  <2> QED
    BY <2>1, <2>2
<1> QED
  BY <1>1, <1>2

\* A requester sends its request, chunk by chunk.
LEMMA ClientSendRequests == ASSUME IInv, Requests, NEW c \in Clients, ClientSend(c) PROVE Requests'
<1> DEFINE sent == client[c].sent
<1>1. client[c].at = "send" /\ Conn(c) \in Connections /\ Conn(c)[1] = c
  BY PresentConnection DEF ClientSend
<1>2. CASE /\ up' = [up EXCEPT ![Conn(c)] =
                       IF serverEnd[Conn(c)] = "closed" THEN @
                       ELSE Append(@, Chunks(client[c].frame)[sent + 1])]
           /\ client' = [client EXCEPT ![c].sent = sent + 1,
                                       ![c].at = IF sent = 1 THEN "recv" ELSE @]
           /\ UNCHANGED <<shadow, owner, server, backlog, ends, down, asked, answer>>
  <2>1. /\ client'[c].frame = client[c].frame /\ client'[c].calls = client[c].calls
        /\ client'[c].at \in {"send", "recv"}
        /\ \A d \in Clients \ {c} : client'[d] = client[d]
    BY <1>1, <1>2 DEF IInv, Shape
  <2>2. ASSUME NEW r \in Requesters, r # c PROVE Sound(r)'
    <3>1. \A k \in Connections : k[1] # c => up'[k] = up[k] /\ down'[k] = down[k]
      BY <1>1, <1>2 DEF IInv, Shape
    <3>2. client'[r] = client[r] /\ UNCHANGED <<shadow, server, asked>>
      BY <1>2, <2>1, <2>2, RequesterFacts
    <3> QED
      BY <2>2, <3>1, <3>2, OthersKeep DEF Requests
  <2>3. ASSUME c \in Requesters PROVE Sound(c)'
    <3> DEFINE w == up[Conn(c)]
               x == Chunks(client[c].frame)[sent + 1]
    <3>1. Conn(c)' = Conn(c)
      BY <2>1 DEF Conn
    <3>2. Asked(c) /\ OnTheWires(c) /\ InTheServer(c)
      BY <1>1, <2>3 DEF Requests, Sound
    <3>3. x \in ChunksOf(Frames) /\ x.frame = client[c].frame
      <4>1. sent \in {0, 1} /\ client[c].frame \in Frames
        BY <1>1 DEF IInv, Shape, Calling
      <4>2. sent + 1 \in {1, 2}
        BY <4>1
      <4> QED
        BY <4>1, <4>2, WireParts
    <3>4. w \in Seq(ChunksOf(Frames)) /\ (up'[Conn(c)] = w \/ up'[Conn(c)] = Append(w, x))
      BY <1>1, <1>2 DEF IInv, Shape
    <3> HIDE DEF x
    <3>5. \A i \in 1..Len(up'[Conn(c)]) : up'[Conn(c)][i].frame = client[c].frame
      <4>1. \A i \in 1..Len(w) : w[i].frame = client[c].frame
        BY <3>2 DEF OnTheWires
      <4> HIDE DEF w
      <4>2. CASE up'[Conn(c)] = w
        BY <4>1, <4>2
      <4>3. CASE up'[Conn(c)] = Append(w, x)
        BY <3>3, <3>4, <4>1, <4>3, WireSteps
      <4> QED
        BY <3>4, <4>2, <4>3
    <3>6. client'[c].frame.loc = client[c].frame.loc /\ UNCHANGED <<shadow, asked, down>>
      BY <1>2, <2>1
    <3>7. OnTheWires(c)'
      <4>1. \A i \in 1..Len(down[Conn(c)]) : FreshFor(c, down[Conn(c)][i].frame)
        BY <3>2 DEF OnTheWires
      <4> QED
        BY <2>1, <3>1, <3>5, <3>6, <4>1 DEF OnTheWires, FreshFor
    <3>8. InTheServer(c)'
      BY <1>2, <2>1, <3>1, <3>2 DEF InTheServer, FreshFor
    <3>9. Asked(c)'
      BY <1>2, <2>1, <3>2 DEF Asked
    <3> QED
      BY <3>7, <3>8, <3>9 DEF Sound
  <2> QED
    BY <2>2, <2>3 DEF Requests
<1>3. CASE Return(c, NoFrame)
  <2>1. NoFrame \in Frames
    BY DEF Frames
  <2> QED
    BY <1>1, <1>3, <2>1, ReturnRequests
<1> QED
  BY <1>2, <1>3 DEF ClientSend

\* What a client does with what it reads: it drops a header, and returns with
\* anything else.
LEMMA ClientReads ==
  ASSUME IInv, NEW c \in Clients, ClientRecv(c) \/ Leave(c)
  PROVE  /\ client[c].at # "idle" /\ Conn(c) \in Connections /\ Conn(c)[1] = c
         /\ down[Conn(c)] \in Seq(ChunksOf(Frames))
         /\ \/ /\ client[c].at = "recv" /\ down[Conn(c)] # << >>
               /\ down' = [down EXCEPT ![Conn(c)] = Tail(@)]
               /\ UNCHANGED <<shadow, server, up, client, asked, answer>>
            \/ Return(c, NoFrame)
            \/ /\ client[c].at = "recv" /\ down[Conn(c)] # << >>
               /\ Head(down[Conn(c)]).frame \in Frames
               /\ Return(c, Head(down[Conn(c)]).frame)
<1> DEFINE wire == down[Conn(c)]
<1>1. client[c].at # "idle"
  BY DEF ClientRecv, Leave
<1>2. Conn(c) \in Connections /\ Conn(c)[1] = c
  BY <1>1, PresentConnection
<1>3. wire \in Seq(ChunksOf(Frames))
  BY <1>2 DEF IInv, Shape
<1>4. CASE Leave(c)
  BY <1>1, <1>2, <1>3, <1>4 DEF Leave
<1>5. CASE ClientRecv(c)
  <2>1. client[c].at = "recv"
    BY <1>5 DEF ClientRecv
  <2>2. CASE wire # << >> /\ Head(wire).part = "header"
    <3>1. /\ down' = [down EXCEPT ![Conn(c)] = Tail(@)]
          /\ UNCHANGED <<shadow, server, up, client, asked, answer>>
      BY <1>5, <2>2 DEF ClientRecv, callers
    <3> QED
      BY <1>2, <1>3, <2>1, <2>2, <3>1
  <2>3. CASE wire # << >> /\ Head(wire).part = "body"
    <3>1. Return(c, IF Kind(Head(wire).frame) = "Response" THEN Head(wire).frame ELSE NoFrame)
      BY <1>5, <2>3 DEF ClientRecv
    <3>2. Head(wire).frame \in Frames
      BY <1>3, <2>3, WireParts
    <3>3. CASE Kind(Head(wire).frame) = "Response"
      <4>1. Return(c, Head(wire).frame)
        BY <3>1, <3>3
      <4> QED
        BY <1>2, <1>3, <2>1, <2>3, <3>2, <4>1
    <3>4. CASE Kind(Head(wire).frame) # "Response"
      <4>1. Return(c, NoFrame)
        BY <3>1, <3>4
      <4> QED
        BY <1>2, <1>3, <2>1, <4>1
    <3> QED
      BY <3>3, <3>4
  <2>4. CASE wire = << >>
    <3>1. Return(c, NoFrame)
      BY <1>5, <2>4 DEF ClientRecv
    <3> QED
      BY <1>2, <1>3, <2>1, <3>1
  <2>5. wire # << >> => Head(wire).part \in {"header", "body"}
    BY <1>3, WireParts
  <2> QED
    BY <2>2, <2>3, <2>4, <2>5
<1> QED
  BY <1>4, <1>5

\* Reading leaves what is behind it on the wire.
LEMMA ClientReadRequests ==
  ASSUME IInv, Requests, NEW c \in Clients, ClientRecv(c) \/ Leave(c)
  PROVE  Requests'
<1>1. /\ client[c].at # "idle" /\ Conn(c) \in Connections /\ Conn(c)[1] = c
      /\ down[Conn(c)] \in Seq(ChunksOf(Frames))
  BY ClientReads
<1>2. CASE /\ client[c].at = "recv" /\ down[Conn(c)] # << >>
           /\ down' = [down EXCEPT ![Conn(c)] = Tail(@)]
           /\ UNCHANGED <<shadow, server, up, client, asked, answer>>
  <2>1. \A k \in Connections : k[1] # c => up'[k] = up[k] /\ down'[k] = down[k]
    BY <1>1, <1>2 DEF IInv, Shape
  <2>2. ASSUME NEW r \in Requesters, r # c PROVE Sound(r)'
    BY <1>2, <2>1, <2>2, OthersKeep DEF Requests
  <2>3. ASSUME c \in Requesters PROVE Sound(c)'
    <3> DEFINE w == down[Conn(c)]
    <3>1. Asked(c) /\ OnTheWires(c) /\ InTheServer(c)
      BY <1>1, <1>2, <2>3 DEF Requests, Sound
    <3>2. down'[Conn(c)] = Tail(w)
      BY <1>1, <1>2 DEF IInv, Shape
    <3>3. \A i \in 1..Len(Tail(w)) : FreshFor(c, Tail(w)[i].frame)
      <4>1. \A i \in 1..Len(w) : FreshFor(c, w[i].frame)
        BY <3>1 DEF OnTheWires
      <4> HIDE DEF w
      <4> QED
        BY <1>1, <1>2, <4>1, WireSteps DEF w
    <3>4. OnTheWires(c)'
      BY <1>2, <3>1, <3>2, <3>3 DEF OnTheWires, FreshFor, Conn
    <3> QED
      BY <1>2, <3>1, <3>4 DEF Sound, Asked, InTheServer, FreshFor, Conn
  <2> QED
    BY <2>2, <2>3 DEF Requests
<1>3. CASE \E f \in Frames : Return(c, f)
  BY <1>1, <1>3, ReturnRequests
<1>4. NoFrame \in Frames
  BY DEF Frames
<1> QED
  BY <1>2, <1>3, <1>4, ClientReads


\* The server hangs up, on a requester or on a stranger.
LEMMA HangupRequests ==
  ASSUME IInv, Requests, Serving, Hangup, UNCHANGED <<shadow, down, callers>>
  PROVE  Requests'
<1>1. /\ up' = [up EXCEPT ![server.conn] = << >>] /\ server'.at = "loop"
      /\ UNCHANGED <<shadow, down, client, asked>>
  BY DEF Hangup, Idle, callers
<1>2. server.conn \in Connections
  BY ServedConnection
<1>3. ASSUME NEW r \in Requesters PROVE Sound(r)'
  <2>1. client[r].at \in {"send", "recv"} => up'[Conn(r)] \in {up[Conn(r)], << >>}
    BY <1>1, <1>2, RequesterFacts DEF IInv, Shape
  <2> QED
    BY <1>1, <2>1, SameShadow, RequestKept DEF Requests
<1> QED
  BY <1>3 DEF Requests

\* A step of the server that goes on serving a connection, as the requesters
\* of other connections see it.
LEMMA UnservedKeep ==
  ASSUME IInv, Serving, NEW r \in Requesters, Sound(r),
         UNCHANGED <<shadow, callers>>, server'.conn = server.conn,
         \A k \in Connections \ {server.conn} : up'[k] = up[k] /\ down'[k] = down[k],
         ~(client[r].at \in {"send", "recv"} /\ server.conn = Conn(r))
  PROVE  Sound(r)'
<1>1. UNCHANGED <<shadow, client, asked>>
  BY DEF callers
<1>2. client[r].at \in {"send", "recv"} =>
        up'[Conn(r)] = up[Conn(r)] /\ down'[Conn(r)] = down[Conn(r)] /\ server'.conn # Conn(r)
  BY RequesterFacts
<1> QED
  BY <1>1, <1>2, SameShadow, RequestKept

\* And as the requester it serves sees it.
LEMMA ServedKeep ==
  ASSUME IInv, Serving, NEW r \in Requesters, Sound(r), UNCHANGED <<shadow, callers>>,
         client[r].at \in {"send", "recv"}, server.conn = Conn(r),
         \A i \in 1..Len(up'[Conn(r)]) : up'[Conn(r)][i].frame = client[r].frame,
         \A i \in 1..Len(down'[Conn(r)]) : FreshFor(r, down'[Conn(r)][i].frame),
         server'.at = "provide" => server'.reply = client[r].frame,
         server'.at = "send" => FreshFor(r, server'.reply)
  PROVE  Sound(r)'
<1>1. UNCHANGED <<shadow, client, asked>>
  BY DEF callers
<1>2. Conn(r)' = Conn(r) /\ Asked(r)
  BY <1>1 DEF Conn, Sound
<1>3. \A f : FreshFor(r, f) => Fresh(client'[r].frame.loc, asked'[r], shadow'[client'[r].frame.loc], f)
  BY <1>1 DEF FreshFor
<1>4. OnTheWires(r)' /\ InTheServer(r)'
  BY <1>1, <1>2, <1>3 DEF OnTheWires, InTheServer, FreshFor
<1> QED
  BY <1>1, <1>2, <1>4 DEF Sound, Asked

\* The server reads: what it takes for the request of a requester is its request.
LEMMA RecvRequests == IInv /\ Requests /\ ServerRecv => Requests'
<1> SUFFICES ASSUME IInv, Requests, ServerRecv PROVE Requests'
  OBVIOUS
<1> DEFINE wire == up[server.conn]
<1>1. server.at = "recv" /\ Serving /\ UNCHANGED <<shadow, down, callers>>
  BY DEF ServerRecv, Serving
<1>2. wire \in Seq(ChunksOf(Frames)) /\ server.conn \in Connections
  BY <1>1, ServedConnection
<1>3. CASE Hangup
  BY <1>1, <1>3, HangupRequests
<1>4. CASE ~Hangup
  <2>1. /\ wire # << >> /\ up' = [up EXCEPT ![server.conn] = Tail(@)]
        /\ \/ UNCHANGED server
           \/ server' = [server EXCEPT !.at = "provide", !.reply = Head(wire).frame]
    <3>1. wire # << >> => Head(wire).part \in {"header", "body"}
      BY <1>2, WireParts
    <3>2. CASE wire # << >> /\ Head(wire).part = "header"
      BY <1>4, <3>2 DEF ServerRecv
    <3>3. CASE wire # << >> /\ Head(wire).part = "body"
      BY <1>4, <3>3 DEF ServerRecv
    <3>4. CASE wire = << >>
      BY <1>4, <3>4 DEF ServerRecv
    <3> QED
      BY <3>1, <3>2, <3>3, <3>4
  <2>2. /\ server'.conn = server.conn /\ server'.at \in {"recv", "provide"}
        /\ server'.at = "provide" => server'.reply = Head(wire).frame
    BY <1>1, <2>1 DEF IInv, Shape
  <2>3. up'[server.conn] = Tail(wire) /\ \A k \in Connections \ {server.conn} : up'[k] = up[k]
    BY <1>2, <2>1 DEF IInv, Shape
  <2>4. ASSUME NEW r \in Requesters, client[r].at \in {"send", "recv"}, server.conn = Conn(r)
        PROVE  Sound(r)'
    <3>1. Sound(r) /\ OnTheWires(r)
      BY <2>4 DEF Requests, Sound
    <3>2. \A i \in 1..Len(wire) : wire[i].frame = client[r].frame
      BY <2>4, <3>1 DEF OnTheWires
    <3> HIDE DEF wire
    <3>3. /\ Head(wire).frame = client[r].frame
          /\ \A i \in 1..Len(Tail(wire)) : Tail(wire)[i].frame = client[r].frame
      BY <1>2, <2>1, <3>2, WireSteps
    <3>4. \A i \in 1..Len(down'[Conn(r)]) : FreshFor(r, down'[Conn(r)][i].frame)
      BY <1>1, <3>1 DEF OnTheWires
    <3> QED
      BY <1>1, <2>2, <2>3, <2>4, <3>1, <3>3, <3>4, ServedKeep
  <2>5. ASSUME NEW r \in Requesters,
               ~(client[r].at \in {"send", "recv"} /\ server.conn = Conn(r))
        PROVE  Sound(r)'
    BY <1>1, <2>2, <2>3, <2>5, UnservedKeep DEF Requests
  <2> QED
    BY <2>4, <2>5 DEF Requests
<1> QED
  BY <1>3, <1>4

\* The provider is asked for the requester's locate, after the requester called.
LEMMA ProvideRequests == IInv /\ Requests /\ ServerProvide => Requests'
<1> SUFFICES ASSUME IInv, Requests, ServerProvide PROVE Requests'
  OBVIOUS
<1> DEFINE f == Response(server.reply.loc, shadow[server.reply.loc])
<1>1. /\ server.at = "provide" /\ Serving
      /\ server' = [server EXCEPT !.at = "send", !.reply = f, !.sent = 0]
      /\ UNCHANGED <<shadow, up, down, callers>>
  BY DEF ServerProvide, Serving, wires
<1> HIDE DEF f
<1>2. server'.at = "send" /\ server'.reply = f /\ server'.conn = server.conn
  BY <1>1 DEF IInv, Shape
<1>3. ASSUME NEW r \in Requesters, client[r].at \in {"send", "recv"}, server.conn = Conn(r)
      PROVE  Sound(r)'
  <2>1. Sound(r) /\ Asked(r) /\ OnTheWires(r) /\ server.reply = client[r].frame
    BY <1>1, <1>3 DEF Requests, Sound, InTheServer
  <2>2. FreshFor(r, f)
    <3> DEFINE l == client[r].frame.loc
    <3>1. l \in Locates /\ asked[r] <= shadow[l] /\ f = Response(l, shadow[l])
      BY <2>1 DEF Asked, Request, f
    <3>2. shadow[l] \in Nat
      BY <1>1, <3>1, SameShadow
    <3> QED
      BY <3>1, <3>2 DEF FreshFor, Fresh
  <2> QED
    BY <1>1, <1>2, <1>3, <2>1, <2>2, ServedKeep DEF OnTheWires
<1>4. ASSUME NEW r \in Requesters,
             ~(client[r].at \in {"send", "recv"} /\ server.conn = Conn(r))
      PROVE  Sound(r)'
  BY <1>1, <1>2, <1>4, UnservedKeep DEF Requests
<1> QED
  BY <1>3, <1>4 DEF Requests

\* The answer goes to the connection the request came from.
LEMMA SendRequests == IInv /\ Requests /\ ServerSend => Requests'
<1> SUFFICES ASSUME IInv, Requests, ServerSend PROVE Requests'
  OBVIOUS
<1>1. server.at = "send" /\ Serving /\ UNCHANGED <<shadow, callers>>
  BY DEF ServerSend, Serving
<1>2. CASE Hangup /\ UNCHANGED down
  BY <1>1, <1>2, HangupRequests
<1>3. CASE /\ server.sent < 2
           /\ down' = [down EXCEPT ![server.conn] =
                         IF clientEnd[server.conn] = "closed" THEN @
                         ELSE Append(@, Chunks(server.reply)[server.sent + 1])]
           /\ server' = [server EXCEPT !.sent = @ + 1]
           /\ UNCHANGED <<serverEnd, up>>
  <2> DEFINE w == down[server.conn]
             x == Chunks(server.reply)[server.sent + 1]
  <2>1. server.conn \in Connections /\ w \in Seq(ChunksOf(Frames))
    BY <1>1, ServedConnection DEF IInv, Shape
  <2>2. x \in ChunksOf(Frames) /\ x.frame = server.reply
    <3>1. server.reply \in Frames /\ server.sent \in Nat
      BY DEF IInv, Shape
    <3>2. server.sent + 1 \in {1, 2}
      BY <1>3, <3>1
    <3> QED
      BY <3>1, <3>2, WireParts
  <2>3. server'.at = "send" /\ server'.reply = server.reply /\ server'.conn = server.conn
    BY <1>1, <1>3 DEF IInv, Shape
  <2>4. /\ down'[server.conn] = w \/ down'[server.conn] = Append(w, x)
        /\ \A k \in Connections \ {server.conn} : down'[k] = down[k]
    BY <1>3, <2>1 DEF IInv, Shape
  <2> HIDE DEF x
  <2>5. ASSUME NEW r \in Requesters, client[r].at \in {"send", "recv"}, server.conn = Conn(r)
        PROVE  Sound(r)'
    <3>1. Sound(r) /\ OnTheWires(r) /\ FreshFor(r, server.reply)
      BY <1>1, <2>5 DEF Requests, Sound, InTheServer
    <3>2. \A i \in 1..Len(w) : FreshFor(r, w[i].frame)
      BY <2>5, <3>1 DEF OnTheWires
    <3>3. \A i \in 1..Len(down'[Conn(r)]) : FreshFor(r, down'[Conn(r)][i].frame)
      <4> HIDE DEF w
      <4>1. CASE down'[server.conn] = w
        BY <2>5, <3>2, <4>1
      <4>2. CASE down'[server.conn] = Append(w, x)
        BY <2>1, <2>2, <2>5, <3>1, <3>2, <4>2, WireSteps
      <4> QED
        BY <2>4, <4>1, <4>2
    <3>4. \A i \in 1..Len(up'[Conn(r)]) : up'[Conn(r)][i].frame = client[r].frame
      BY <1>3, <3>1 DEF OnTheWires
    <3> QED
      BY <1>1, <2>3, <2>5, <3>1, <3>3, <3>4, ServedKeep
  <2>6. ASSUME NEW r \in Requesters,
               ~(client[r].at \in {"send", "recv"} /\ server.conn = Conn(r))
        PROVE  Sound(r)'
    BY <1>1, <1>3, <2>3, <2>4, <2>6, UnservedKeep DEF Requests
  <2> QED
    BY <2>5, <2>6 DEF Requests
<1> QED
  BY <1>2, <1>3 DEF ServerSend

\* Every step keeps Requests: one case per action.
LEMMA NextRequests == IInv /\ Requests /\ [Next]_vars => Requests'
<1> SUFFICES ASSUME IInv, Requests, [Next]_vars PROVE Requests'
  OBVIOUS
<1>1. CASE Publish \/ StopRunning \/ StopClose \/ StopJoin \/ Start \/ ServerLoop \/ ServerAccept
  BY <1>1, QuietRequests
<1>2. ASSUME NEW c \in Clients, Call(c) \/ Connect(c) \/ ClientSend(c) \/ ClientRecv(c) \/ Leave(c)
      PROVE  Requests'
  BY <1>2, CallRequests, ConnectRequests, ClientSendRequests, ClientReadRequests
<1>3. CASE ServerRecv
  BY <1>3, RecvRequests
<1>4. CASE ServerProvide
  BY <1>4, ProvideRequests
<1>5. CASE ServerSend
  BY <1>5, SendRequests
<1>6. CASE UNCHANGED vars
  BY <1>6 DEF vars, wires, callers, Requests, Sound, Asked, OnTheWires, InTheServer, FreshFor, Conn
<1> QED
  BY <1>1, <1>2, <1>3, <1>4, <1>5, <1>6 DEF Next

\* What a call may return.
Current(r) ==
  answer'[r] # answer[r] /\ answer'[r] # NoFrame =>
    LET loc == client[r].frame.loc
    IN  /\ answer'[r].op = "S" /\ answer'[r].loc = loc
        /\ asked[r] <= answer'[r].last /\ answer'[r].last <= shadow[loc]

\* Only a client that returns sets an answer other than none, and then its own.
LEMMA ReturnsItsAnswer ==
  ASSUME IInv, Requests, NEW c \in Clients, NEW f, Return(c, f),
         f # NoFrame /\ c \in Requesters => FreshFor(c, f)
  PROVE  \A r \in Requesters : Current(r)
<1> SUFFICES ASSUME NEW r \in Requesters, answer'[r] # answer[r], answer'[r] # NoFrame
             PROVE  LET loc == client[r].frame.loc
                    IN  /\ answer'[r].op = "S" /\ answer'[r].loc = loc
                        /\ asked[r] <= answer'[r].last /\ answer'[r].last <= shadow[loc]
  BY DEF Current
<1>1. r = c /\ answer'[r] = f
  BY DEF Return, IInv, Shape
<1>2. PICK n \in Nat : /\ f = Response(client[r].frame.loc, n)
                       /\ asked[r] <= n /\ n <= shadow[client[r].frame.loc]
  BY <1>1 DEF FreshFor, Fresh
<1> QED
  BY <1>1, <1>2 DEF Response

\* Every step answers nobody, or the one that returns with what is on its wire.
LEMMA StepAnswers ==
  ASSUME IInv, Requests, [Next]_vars
  PROVE  \A r \in Requesters : Current(r)
<1>1. CASE UNCHANGED answer
  BY <1>1 DEF Current
<1>2. ASSUME NEW c \in Clients, Call(c) PROVE \A r \in Requesters : Current(r)
  BY <1>2 DEF Call, Current, IInv, Shape
<1>3. ASSUME NEW c \in Clients, Connect(c) \/ ClientSend(c)
      PROVE  \A r \in Requesters : Current(r)
  <2>1. UNCHANGED answer \/ Return(c, NoFrame)
    BY <1>3 DEF Connect, ClientSend
  <2> QED
    BY <1>1, <2>1, ReturnsItsAnswer
<1>4. ASSUME NEW c \in Clients, ClientRecv(c) \/ Leave(c)
      PROVE  \A r \in Requesters : Current(r)
  <2>1. CASE UNCHANGED answer \/ Return(c, NoFrame)
    BY <1>1, <2>1, ReturnsItsAnswer
  <2>2. CASE /\ client[c].at = "recv" /\ down[Conn(c)] # << >>
             /\ Return(c, Head(down[Conn(c)]).frame)
    <3>1. ASSUME c \in Requesters PROVE FreshFor(c, Head(down[Conn(c)]).frame)
      <4> DEFINE w == down[Conn(c)]
      <4>1. \A i \in 1..Len(w) : FreshFor(c, w[i].frame)
        BY <2>2, <3>1 DEF Requests, Sound, OnTheWires
      <4>2. w \in Seq(ChunksOf(Frames)) /\ w # << >>
        BY <1>4, <2>2, ClientReads
      <4> HIDE DEF w
      <4>3. 1 \in 1..Len(w) /\ Head(w) = w[1]
        BY <4>2, WireSteps
      <4>4. FreshFor(c, Head(w).frame)
        BY <4>1, <4>3
      <4> QED
        BY <4>4 DEF w
    <3> QED
      BY <2>2, <3>1, ReturnsItsAnswer
  <2> QED
    BY <1>4, <2>1, <2>2, ClientReads
<1>5. CASE \/ Publish \/ ServerLoop \/ ServerAccept \/ ServerRecv \/ ServerProvide \/ ServerSend
           \/ StopRunning \/ StopClose \/ StopJoin \/ Start
  BY <1>1, <1>5 DEF Publish, ServerLoop, ServerAccept, ServerRecv, ServerProvide, ServerSend,
                    StopRunning, StopClose, StopJoin, Start, callers
<1>6. CASE UNCHANGED vars
  BY <1>1, <1>6 DEF vars, callers
<1> QED
  BY <1>2, <1>3, <1>4, <1>5, <1>6 DEF Next

\* What a call returns is the provider's state of the locate it asked for, not
\* older than the call and not newer than the return, whoever else connects,
\* sends, leaves, stops the server or starts it again.
THEOREM AnswersCorrect == Spec => AnswersAreCurrent
<1>1. Init => IInv /\ Requests
  BY InitLife, InitRequests
<1>2. IInv /\ Requests /\ [Next]_vars => (IInv /\ Requests)'
  BY NextLife, NextRequests
<1>3. Spec => [](IInv /\ Requests)
  BY <1>1, <1>2, PTL DEF Spec
<1>4. Spec => [][Next]_vars
  BY PTL DEF Spec
<1>5. IInv /\ Requests /\ [Next]_vars =>
        [\A r \in Requesters :
           answer'[r] # answer[r] /\ answer'[r] # NoFrame =>
             LET loc == client[r].frame.loc
             IN  /\ answer'[r].op = "S" /\ answer'[r].loc = loc
                 /\ asked[r] <= answer'[r].last /\ answer'[r].last <= shadow[loc]]_vars
  BY StepAnswers DEF Current
<1> QED
  BY <1>3, <1>4, <1>5, PTL DEF AnswersAreCurrent
=============================================================================
