-------------------------- MODULE SnapshotRecovery --------------------------
(***************************************************************************)
(* The TCP recovery path: class SnapshotServer of src/sim/snapshot_server  *)
(* .{h,cpp}, the sockets of src/net/tcp_recovery.{h,cpp} and the recovery  *)
(* requester of tests/integration/gap_fill_test.cpp.  The server's thread, *)
(* the callers of start() and stop(), the requesters and whoever else      *)
(* connects run concurrently.                                              *)
(*                                                                         *)
(* The provider's state is, per locate, the last sequence number its       *)
(* shadow has applied.  A frame crosses a connection in two chunks, its    *)
(* length header and its body: every loop over send() or recv() may be     *)
(* left half way, by a peer that stops or goes.  Two assumptions about the *)
(* system around the code: the host process ignores SIGPIPE, so that       *)
(* send() to a connection that is gone returns an error, and a reply fits  *)
(* the socket's buffer, so that send() does not wait for the reader.       *)
(***************************************************************************)
EXTENDS Integers, Sequences, FiniteSets, SequencesExt

CONSTANTS
  Locates,
  Requesters,     \* clients that run the requester to its end
  Strangers,      \* clients that may send anything, stop anywhere, or leave
  Backlog,        \* connections that wait to be accepted: 4 in the code
  MaxCalls,       \* bound: per client, the connections it makes
  MaxSeq,         \* bound: the messages the shadow applies per locate
  MaxStarts       \* bound: the calls of start()

Clients == Requesters \cup Strangers

ASSUME RecoveryAssumption ==
  /\ Requesters \cap Strangers = {}
  /\ Backlog \in Nat \ {0}
  /\ MaxCalls \in [Clients -> Nat] /\ MaxSeq \in Nat /\ MaxStarts \in Nat \ {0}

VARIABLES
  shadow,         \* last_seq_by_loc of the provider's shadow
  running,        \* running_
  listening,      \* fd_ of the TcpServer holds a socket
  starts, stopper, \* the calls of start(), and the step of a stop() call
  server,         \* the server's thread: its step, its connection and its reply
  backlog,        \* the connections not accepted yet, in order
  client,         \* per client, its step, its calls, its locate and its frame
  clientEnd,      \* per connection, the client's end: "none", "open" or "closed"
  serverEnd,      \* per connection, the server's end
  up, down,       \* per connection, the chunks on their way in either direction
  asked,          \* history: per requester, the shadow's number when it called
  answer          \* per requester, the response its last call returned, if any

owner     == <<running, listening, starts, stopper>>
ends      == <<clientEnd, serverEnd>>
wires     == <<up, down>>
callers   == <<client, asked, answer>>
vars      == <<shadow, owner, server, backlog, ends, wires, callers>>

\* A client's connections, one for each of its calls.
Connections == UNION {{c} \X (1..MaxCalls[c]) : c \in Clients}

\* the frames of snapshot_client.h by their op, and a header no frame can have
Request(loc)        == [op |-> "Q", loc |-> loc]
Response(loc, last) == [op |-> "S", loc |-> loc, last |-> last]
Fault               == [op |-> "F"]
BadLength           == [op |-> "none"]
NoFrame             == [op |-> "unset"]

Chunks(frame) == << [part |-> "header", frame |-> frame], [part |-> "body", frame |-> frame] >>

\* decode_frame: what a whole frame is taken for
Kind(frame) ==
  CASE frame.op = "Q" -> "Request" [] frame.op = "S" -> "Response"
    [] frame.op = "F" -> "Fault"   [] OTHER -> "None"

Idle == [at |-> "loop", conn |-> << >>, reply |-> NoFrame, sent |-> 0]

Init ==
  /\ shadow = [l \in Locates |-> 0]
  /\ running = TRUE /\ listening = TRUE /\ starts = 1 /\ stopper = "idle"
  /\ server = Idle
  /\ backlog = << >>
  /\ client = [c \in Clients |-> [at |-> "idle", calls |-> 0, frame |-> NoFrame, sent |-> 0]]
  /\ clientEnd = [k \in Connections |-> "none"]
  /\ serverEnd = [k \in Connections |-> "none"]
  /\ up = [k \in Connections |-> << >>]
  /\ down = [k \in Connections |-> << >>]
  /\ asked = [r \in Requesters |-> 0]
  /\ answer = [r \in Requesters |-> NoFrame]

\* The publisher applies a message to the shadow, under the provider's lock.
Publish ==
  \E l \in Locates :
    /\ shadow[l] < MaxSeq
    /\ shadow' = [shadow EXCEPT ![l] = @ + 1]
    /\ UNCHANGED <<owner, server, backlog, ends, wires, callers>>

-----------------------------------------------------------------------------
(***************************************************************************)
(* A client: connect, send a request, read a frame, close.                 *)
(***************************************************************************)

Conn(c) == <<c, client[c].calls>>

\* The call is over and its TcpClient, which closes the connection, gone.  What
\* was sent before that can still be read by the server.
Return(c, response) ==
  /\ client' = [client EXCEPT ![c].at = "idle", ![c].frame = NoFrame, ![c].sent = 0]
  /\ clientEnd' = [clientEnd EXCEPT ![Conn(c)] = IF @ = "open" THEN "closed" ELSE @]
  /\ down' = [k \in Connections |-> IF k = Conn(c) THEN << >> ELSE down[k]]
  /\ answer' = [r \in Requesters |-> IF r = c THEN response ELSE answer[r]]
  /\ asked' = [r \in Requesters |-> IF r = c THEN 0 ELSE asked[r]]
  /\ UNCHANGED <<shadow, owner, server, backlog, serverEnd, up>>

Call(c) ==
  /\ client[c].at = "idle" /\ client[c].calls < MaxCalls[c]
  /\ \E l \in Locates :
       /\ \E frame \in IF c \in Requesters THEN {Request(l)}
                       ELSE {Request(l), Fault, BadLength} :
            client' = [client EXCEPT ![c] = [at |-> "connect", calls |-> @.calls + 1,
                                             frame |-> frame, sent |-> 0]]
       /\ asked' = [r \in Requesters |-> IF r = c THEN shadow[l] ELSE asked[r]]
  /\ answer' = [r \in Requesters |-> IF r = c THEN NoFrame ELSE answer[r]]
  /\ UNCHANGED <<shadow, owner, server, backlog, ends, wires>>

\* TcpClient::connect: the system completes it while the backlog has room;
\* otherwise it is refused or times out.
Connect(c) ==
  /\ client[c].at = "connect"
  /\ IF listening /\ Len(backlog) < Backlog
     THEN /\ backlog' = Append(backlog, Conn(c))
          /\ clientEnd' = [clientEnd EXCEPT ![Conn(c)] = "open"]
          /\ client' = [client EXCEPT ![c].at = "send"]
          /\ UNCHANGED <<shadow, owner, server, serverEnd, wires, asked, answer>>
     ELSE Return(c, NoFrame)

\* One turn of tcp_send_all.  It may fail once the server has closed its end.
ClientSend(c) ==
  /\ client[c].at = "send"
  /\ LET sent == client[c].sent
     IN  \/ /\ up' = [up EXCEPT ![Conn(c)] =
                        IF serverEnd[Conn(c)] = "closed" THEN @
                        ELSE Append(@, Chunks(client[c].frame)[sent + 1])]
            /\ client' = [client EXCEPT ![c].sent = sent + 1,
                                        ![c].at = IF sent = 1 THEN "recv" ELSE @]
            /\ UNCHANGED <<shadow, owner, server, backlog, ends, down, asked, answer>>
         \/ /\ serverEnd[Conn(c)] = "closed"
            /\ Return(c, NoFrame)

\* recv_frame that takes what it has for a frame when the peer closes
MutantTakesPartialFrame(c) ==
  /\ client[c].at = "recv"
  /\ LET wire == down[Conn(c)]
     IN  IF wire # << >>
         THEN Return(c, Response(Head(wire).frame.loc, 0))
         ELSE serverEnd[Conn(c)] = "closed" /\ Return(c, NoFrame)

\* One turn of tcp_recv_frame: a chunk, or the end of the stream.  A complete
\* frame that decodes as a response is the answer.
ClientRecv(c) ==
  /\ client[c].at = "recv"
  /\ LET wire == down[Conn(c)]
     IN  CASE wire # << >> /\ Head(wire).part = "header" ->
                /\ down' = [down EXCEPT ![Conn(c)] = Tail(@)]
                /\ UNCHANGED <<shadow, owner, server, backlog, ends, up, callers>>
           [] wire # << >> /\ Head(wire).part = "body" ->
                Return(c, IF Kind(Head(wire).frame) = "Response" THEN Head(wire).frame ELSE NoFrame)
           [] wire = << >> -> serverEnd[Conn(c)] = "closed" /\ Return(c, NoFrame)

\* A stranger closes its connection or dies.
Leave(c) ==
  /\ c \in Strangers /\ client[c].at \in {"send", "recv"}
  /\ Return(c, NoFrame)

-----------------------------------------------------------------------------
(***************************************************************************)
(* The server's thread: SnapshotServer::run().                             *)
(***************************************************************************)

\* a connection that is closed and whose descriptor is kept
MutantKeepsConnection ==
  /\ serverEnd' = [serverEnd EXCEPT ![server.conn] = "closed"]
  /\ up' = [up EXCEPT ![server.conn] = << >>]
  /\ server' = [Idle EXCEPT !.conn = server.conn]

\* ::close(cfd) and the next turn of the loop
Hangup ==
  /\ serverEnd' = [serverEnd EXCEPT ![server.conn] = "closed"]
  /\ up' = [up EXCEPT ![server.conn] = << >>]
  /\ server' = Idle

ServerLoop ==
  /\ server.at = "loop"
  /\ server' = [server EXCEPT !.at = IF running THEN "accept" ELSE "done"]
  /\ UNCHANGED <<shadow, owner, backlog, ends, wires, callers>>

\* accept_one: the next waiting connection, or -1 when none came in time or the
\* socket is closed
ServerAccept ==
  /\ server.at = "accept"
  /\ IF listening /\ backlog # << >>
     THEN /\ server' = [server EXCEPT !.at = "recv", !.conn = Head(backlog)]
          /\ serverEnd' = [serverEnd EXCEPT ![Head(backlog)] = "open"]
          /\ backlog' = Tail(backlog)
     ELSE /\ server' = [server EXCEPT !.at = "loop"]
          /\ UNCHANGED <<serverEnd, backlog>>
  /\ UNCHANGED <<shadow, owner, clientEnd, wires, callers>>

\* a frame that is not a request left without closing its connection
MutantLeavesStrangerOpen ==
  /\ server.at = "recv"
  /\ LET wire == up[server.conn]
         read == up' = [up EXCEPT ![server.conn] = Tail(@)]
     IN  CASE wire # << >> /\ Head(wire).part = "header" ->
                IF Head(wire).frame = BadLength THEN Hangup
                ELSE read /\ UNCHANGED <<serverEnd, server>>
           [] wire # << >> /\ Head(wire).part = "body" ->
                IF Kind(Head(wire).frame) # "Request"
                THEN read /\ server' = Idle /\ UNCHANGED serverEnd
                ELSE /\ read
                     /\ server' = [server EXCEPT !.at = "provide", !.reply = Head(wire).frame]
                     /\ UNCHANGED serverEnd
           [] wire = << >> -> clientEnd[server.conn] = "closed" /\ Hangup
  /\ UNCHANGED <<shadow, owner, backlog, clientEnd, down, callers>>

\* a read that waits for the rest of a frame whose sender has gone
MutantIgnoresEndOfStream ==
  /\ server.at = "recv"
  /\ LET wire == up[server.conn]
         read == up' = [up EXCEPT ![server.conn] = Tail(@)]
     IN  CASE wire # << >> /\ Head(wire).part = "header" ->
                IF Head(wire).frame = BadLength THEN Hangup
                ELSE read /\ UNCHANGED <<serverEnd, server>>
           [] wire # << >> /\ Head(wire).part = "body" ->
                IF Kind(Head(wire).frame) # "Request" THEN Hangup
                ELSE /\ read
                     /\ server' = [server EXCEPT !.at = "provide", !.reply = Head(wire).frame]
                     /\ UNCHANGED serverEnd
           [] wire = << >> -> FALSE /\ Hangup
  /\ UNCHANGED <<shadow, owner, backlog, clientEnd, down, callers>>

\* One turn of tcp_recv_frame, which waits for ever for a peer that neither
\* sends nor closes.  Whatever is not a request is hung up on.
ServerRecv ==
  /\ server.at = "recv"
  /\ LET wire == up[server.conn]
         read == up' = [up EXCEPT ![server.conn] = Tail(@)]
     IN  CASE wire # << >> /\ Head(wire).part = "header" ->
                IF Head(wire).frame = BadLength THEN Hangup
                ELSE read /\ UNCHANGED <<serverEnd, server>>
           [] wire # << >> /\ Head(wire).part = "body" ->
                IF Kind(Head(wire).frame) # "Request" THEN Hangup
                ELSE /\ read
                     /\ server' = [server EXCEPT !.at = "provide", !.reply = Head(wire).frame]
                     /\ UNCHANGED serverEnd
           [] wire = << >> -> clientEnd[server.conn] = "closed" /\ Hangup
  /\ UNCHANGED <<shadow, owner, backlog, clientEnd, down, callers>>

\* provider_(dec.request), under the shadow's lock
ServerProvide ==
  /\ server.at = "provide"
  /\ LET loc == server.reply.loc
     IN  server' = [server EXCEPT !.at = "send", !.reply = Response(loc, shadow[loc]), !.sent = 0]
  /\ UNCHANGED <<shadow, owner, backlog, ends, wires, callers>>

\* One turn of tcp_send_all, whose failure is not looked at.  After the last one
\* the connection is closed.
ServerSend ==
  /\ server.at = "send"
  /\ \/ /\ server.sent < 2
        /\ down' = [down EXCEPT ![server.conn] =
                      IF clientEnd[server.conn] = "closed" THEN @
                      ELSE Append(@, Chunks(server.reply)[server.sent + 1])]
        /\ server' = [server EXCEPT !.sent = @ + 1]
        /\ UNCHANGED <<serverEnd, up>>
     \/ /\ server.sent = 2 \/ clientEnd[server.conn] = "closed"
        /\ Hangup /\ UNCHANGED down
  /\ UNCHANGED <<shadow, owner, backlog, clientEnd, callers>>

-----------------------------------------------------------------------------
(***************************************************************************)
(* stop() and start().                                                     *)
(***************************************************************************)

StopRunning ==
  /\ stopper = "idle"
  /\ running' = FALSE /\ stopper' = "close"
  /\ UNCHANGED <<shadow, listening, starts, server, backlog, ends, wires, callers>>

\* a close that takes no notice of the connections that wait
MutantForgetsBacklog ==
  /\ stopper = "close"
  /\ listening' = FALSE /\ stopper' = "join"
  /\ backlog' = << >>
  /\ UNCHANGED <<shadow, running, starts, server, clientEnd, serverEnd, wires, callers>>

\* Closing the listening socket resets the connections that wait on it.
StopClose ==
  /\ stopper = "close"
  /\ listening' = FALSE /\ stopper' = "join"
  /\ backlog' = << >>
  /\ serverEnd' = [k \in Connections |-> IF k \in Range(backlog) THEN "closed" ELSE serverEnd[k]]
  /\ UNCHANGED <<shadow, running, starts, server, clientEnd, wires, callers>>

StopJoin ==
  /\ stopper = "join" /\ server.at = "done"
  /\ stopper' = "stopped"
  /\ UNCHANGED <<shadow, running, listening, starts, server, backlog, ends, wires, callers>>

\* start() on a stopped server: the same port, a new thread
Start ==
  /\ stopper = "stopped" /\ starts < MaxStarts
  /\ running' = TRUE /\ listening' = TRUE /\ starts' = starts + 1 /\ stopper' = "idle"
  /\ server' = Idle
  /\ UNCHANGED <<shadow, backlog, ends, wires, callers>>

-----------------------------------------------------------------------------
ClientStep(c) == Connect(c) \/ ClientSend(c) \/ ClientRecv(c)

ServerStep == ServerLoop \/ ServerAccept \/ ServerRecv \/ ServerProvide \/ ServerSend

Next ==
  \/ Publish
  \/ \E c \in Clients : Call(c) \/ Connect(c) \/ ClientSend(c) \/ ClientRecv(c) \/ Leave(c)
  \/ ServerLoop \/ ServerAccept \/ ServerRecv \/ ServerProvide \/ ServerSend
  \/ StopRunning \/ StopClose \/ StopJoin \/ Start

\* The server's thread, a requester inside a call and a stop() under way keep
\* running.  Strangers owe nothing, and nobody is obliged to call or to stop.
Fairness ==
  /\ WF_vars(ServerStep)
  /\ \A r \in Requesters : WF_vars(ClientStep(r))
  /\ WF_vars(StopClose) /\ WF_vars(StopJoin)

Spec == Init /\ [][Next]_vars /\ Fairness

-----------------------------------------------------------------------------
Serving == server.at \in {"recv", "provide", "send"}

\* Threads and connections are where they say they are.
TypeOK ==
  /\ shadow \in [Locates -> 0..MaxSeq]
  /\ Serving <=> server.conn # << >>
  /\ Len(backlog) <= Backlog /\ IsInjective(backlog)
  /\ ~listening => backlog = << >>
  /\ \A c \in Clients : client[c].calls \in 0..MaxCalls[c] /\ client[c].sent \in 0..2

\* The server has open, of all connections it ever accepted, the one it is
\* serving, whatever was sent on the others and however they ended; and once
\* stop() has returned every caller's connection is closed, so that no
\* requester is left waiting for a server that has gone.
NoConnectionLeaks ==
  /\ \A k \in Connections : serverEnd[k] = "open" => Serving /\ server.conn = k
  /\ stopper = "stopped" =>
       \A k \in Connections : clientEnd[k] = "open" => serverEnd[k] = "closed"

\* "The provider returns the canonical book snapshot" (snapshot_server.h): what
\* a call returns is the provider's state of the very locate it asked for, not
\* older than the call and not newer than the return, whoever else is served,
\* leaves half way or is hung up on, across a restart too.
AnswersAreCurrent ==
  [][\A r \in Requesters :
       answer'[r] # answer[r] /\ answer'[r] # NoFrame =>
         LET loc == client[r].frame.loc
         IN  /\ answer'[r].op = "S" /\ answer'[r].loc = loc
             /\ asked[r] <= answer'[r].last /\ answer'[r].last <= shadow[loc]]_vars

\* The server waits for ever for the bytes of a stranger that stays connected.
HeldByStranger ==
  <>[](/\ server.at = "recv" /\ server.conn[1] \in Strangers
       /\ clientEnd[server.conn] = "open")

\* on_datagram, which waits for the requester, gets its answer or its failure,
\* unless a stranger that neither sends nor leaves holds the one thread that
\* serves: no other order of calls, departures, stops and restarts hangs it.
CallsReturn ==
  HeldByStranger \/ \A r \in Requesters : client[r].at # "idle" ~> client[r].at = "idle"

\* stop() returns, on the same condition.
StopReturns == HeldByStranger \/ (stopper # "idle" ~> stopper \in {"stopped", "idle"})
=============================================================================
