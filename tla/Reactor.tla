------------------------------ MODULE Reactor ------------------------------
(***************************************************************************)
(* The TCP server under every scheduler, parameter server and tracker      *)
(* (schedule/reactor.py: _ReactorServer, _IOThread, _Conn): one thread     *)
(* accepts connections up to a cap and hands each to one of a few threads, *)
(* which read frames, call the handler and write its replies from a        *)
(* selector loop; the owner of the server stops it from another thread.    *)
(* The other end is the client of schedule/wire.py: it proves who it is,   *)
(* sends a request, waits for the reply, and sends heartbeats, which have  *)
(* none, in between.                                                       *)
(*                                                                         *)
(* A long frame is two units: a read or a write may end in its middle.     *)
(* A thread's step is one event of its selector, or a step that another    *)
(* thread can observe.  Left out: metrics; a TLS handshake's packets (it   *)
(* is pending, then completes or fails); what a handler computes; the      *)
(* tests' simulate_crash.                                                  *)
(***************************************************************************)
EXTENDS Integers, FiniteSets, Sequences, FiniteSetsExt, SequencesExt, Functions

CONSTANTS
  Conn,           \* the connections that peers may open
  IO,             \* the I/O threads
  Caps,           \* the values of max_connections
  SendSpace,      \* units that fit in a socket's send buffer
  Auth,           \* whether peers must prove who they are
  Tls,            \* whether connections are TLS
  Rude,           \* the connections whose peers may be slow to shake or to send
                  \* a frame, break the protocol, or leave
  MaxMessages,    \* bound on the messages of a rude peer after it is welcome;
                  \* a polite one sends one
  MaxAdmin,       \* bound on the calls of admit_peer and revoke_peer
  None            \* a model value

ASSUME ConstantAssumption ==
  /\ Caps \cup {SendSpace} \subseteq Nat \ {0}
  /\ {MaxMessages, MaxAdmin} \subseteq Nat
  /\ {Auth, Tls} \subseteq BOOLEAN
  /\ IO # {} /\ Rude \subseteq Conn
  /\ IsFiniteSet(Conn) /\ None \notin Conn \cup IO

VARIABLES
  max_connections,
  shut,     \* no, or how far shutdown is: stop, stopped
  admitted, \* admitted_peers, by the connections they open
  admin,    \* the number of calls of admit_peer and revoke_peer
  acceptor, \* the accept thread: [at, conn], at loop, accept (in the call),
            \* accepted, entered, added, ended
  open,     \* _open
  registry, \* _registry
  reg,      \* thread -> _reg, the connections it was handed
  woken,    \* thread -> whether a byte waits in its wake pipe
  thread,   \* thread -> [at, events, news]: at loop, wake, or ended; the events
            \* and handed connections it has still to go through
  conn,     \* connection -> the server's _Conn and socket
  peer      \* connection -> the other end

vars == <<max_connections, shut, admitted, admin, acceptor, open, registry, reg, woken, thread, conn, peer>>
accepting == <<acceptor, open, registry>>
io == <<reg, woken, thread>>
stopping == <<max_connections, shut, admitted, admin>>

-----------------------------------------------------------------------------
\* A "broken" message cannot be decoded, or its handler raises.
Kind == {"auth", "request", "heartbeat", "broken"}

\* A frame on the wire: a request and a reply are two units, other frames one.
Units(frame) == IF frame \in {"request", "reply"} THEN <<<<frame, "begun">>, <<frame, "done">>>>
                ELSE <<<<frame, "done">>>>
Done(unit) == unit[2] = "done"
Name(unit) == IF Done(unit) THEN <<unit[1]>> ELSE <<>>
Frames(units) == FlattenSeq([k \in DOMAIN units |-> Name(units[k])])
Rest(units) == IF units # <<>> /\ ~Done(Last(units)) THEN <<Last(units)>> ELSE <<>>
Stream(frames) == FlattenSeq([k \in DOMAIN frames |-> Units(frames[k])])

\* _ReactorServer.shutdown sets _stop first and _io_stop after a grace.
Stop == shut # "no"
IOStop == shut = "stopped"

Fresh ==
  [at |-> "new",          \* new, backlog, accepted, selected, closed
   io |-> None,           \* the thread it was handed to
   handshaking |-> FALSE, authed |-> FALSE, want_write |-> FALSE,
   in |-> <<>>,           \* what has arrived and is not read
   inbuf |-> <<>>, outbuf |-> <<>>,
   net |-> <<>>]          \* what the kernel has still to deliver to the peer

Caller ==
  [at |-> "new",          \* new, up, gone
   tls |-> "done",        \* pending, done, failed
   half |-> <<>>,         \* the second unit of a frame under way
   sent |-> <<>>,         \* the kinds of the frames it began to send
   got |-> <<>>]          \* the units it received

Init ==
  /\ max_connections \in Caps
  /\ shut = "no"
  /\ admitted = Conn \ Rude /\ admin = 0
  /\ acceptor = [at |-> "loop", conn |-> None]
  /\ open = 0 /\ registry = {}
  /\ reg = [i \in IO |-> <<>>]
  /\ woken = [i \in IO |-> FALSE]
  /\ thread = [i \in IO |-> [at |-> "loop", events |-> {}, news |-> <<>>]]
  /\ conn = [c \in Conn |-> Fresh]
  /\ peer = [c \in Conn |-> [Caller EXCEPT !.tls = IF Tls /\ c \in Rude THEN "pending" ELSE "done"]]

-----------------------------------------------------------------------------
\* The peer (wire.py: client_handshake, send_msg, recv_msg).

Challenged(c) == Auth => "challenge" \in Range(Frames(peer[c].got))
Welcome(c) == Auth => "welcome" \in Range(Frames(peer[c].got))
Replies(c) == Cardinality({k \in DOMAIN Frames(peer[c].got) :
                             Frames(peer[c].got)[k] \notin {"challenge", "welcome"}})
Waiting(c) == Replies(c) < Cardinality({k \in DOMAIN peer[c].sent : peer[c].sent[k] = "request"})

\* Bound: peers make no move, and admissions do not change, once the server is
\* being stopped.
Calling == shut = "no"

Connect(c) ==
  /\ peer[c].at = "new" /\ Calling
  /\ peer' = [peer EXCEPT ![c].at = "up"]
  /\ conn' = [conn EXCEPT ![c].at = "backlog"]
  /\ UNCHANGED <<stopping, accepting, io>>

\* The peer ends its side of the TLS handshake, well or not.
Shake(c) ==
  /\ Calling /\ peer[c].at = "up" /\ peer[c].tls = "pending"
  /\ \E outcome \in {"done", "failed"} : peer' = [peer EXCEPT ![c].tls = outcome]
  /\ UNCHANGED <<stopping, accepting, io, conn>>

\* A frame, or its first half: the answer to a challenge, or, when the peer is
\* welcome, a request (one at a time), a heartbeat, or a broken message.
Send(c, kind, n) ==
  /\ Calling /\ peer[c].at = "up" /\ peer[c].tls = "done" /\ peer[c].half = <<>>
  /\ conn[c].at # "closed"
  /\ n \in 1 .. Len(Units(kind)) /\ (n < Len(Units(kind)) \/ kind = "broken" => c \in Rude)
  /\ IF kind = "auth"
     THEN Auth /\ Challenged(c) /\ peer[c].sent = <<>>
     ELSE /\ Welcome(c) /\ ~Waiting(c)
          /\ Len(peer[c].sent) < (IF c \in Rude THEN MaxMessages ELSE 1) + IF Auth THEN 1 ELSE 0
  /\ peer' = [peer EXCEPT ![c] =
       [peer[c] EXCEPT !.sent = Append(peer[c].sent, kind),
                       !.half = SubSeq(Units(kind), n + 1, Len(Units(kind)))]]
  /\ conn' = [conn EXCEPT ![c].in = @ \o SubSeq(Units(kind), 1, n)]
  /\ UNCHANGED <<stopping, accepting, io>>

SendRest(c) ==
  /\ Calling /\ peer[c].at = "up" /\ peer[c].half # <<>>
  /\ peer' = [peer EXCEPT ![c].half = <<>>]
  /\ conn' = [conn EXCEPT ![c].in = @ \o peer[c].half]
  /\ UNCHANGED <<stopping, accepting, io>>

Receive(c) ==
  /\ peer[c].at = "up" /\ conn[c].net # <<>>
  /\ peer' = [peer EXCEPT ![c].got = @ \o conn[c].net]
  /\ conn' = [conn EXCEPT ![c].net = <<>>]
  /\ UNCHANGED <<stopping, accepting, io>>

\* The peer closes its socket, or dies.
Hangup(c) ==
  /\ Calling /\ c \in Rude
  /\ peer[c].at = "up"
  /\ peer' = [peer EXCEPT ![c].at = "gone", ![c].half = <<>>]
  /\ conn' = [conn EXCEPT ![c].net = <<>>]
  /\ UNCHANGED <<stopping, accepting, io>>

-----------------------------------------------------------------------------
\* The accept thread (_accept_loop).

\* The connections no one will accept any more are reset.
Reset(cs) == [c \in Conn |-> IF conn[c].at = "backlog" /\ cs
                             THEN [conn[c] EXCEPT !.at = "closed"]
                             ELSE conn[c]]

\* The loop's condition, and the call of accept().
AcceptLoop ==
  /\ acceptor.at = "loop"
  /\ acceptor' = [acceptor EXCEPT !.at = IF Stop THEN "ended" ELSE "accept"]
  /\ UNCHANGED <<stopping, open, registry, io, conn, peer>>

\* The cap is reached.
Full == open >= max_connections

\* accept() returns a connection, which is refused at the cap and takes a slot
\* below it.  A call under way when the listener is closed may still return
\* one, and is the last to hold the listener.
Accept(c) ==
  /\ acceptor.at = "accept" /\ conn[c].at = "backlog"
  /\ LET rest == Reset(shut \in {"stop", "stopped"})
     IN  IF Full
         THEN /\ conn' = [rest EXCEPT ![c].at = "closed"]
              /\ acceptor' = [acceptor EXCEPT !.at = "loop"]
              /\ UNCHANGED open
         ELSE /\ conn' = [rest EXCEPT ![c] = [conn[c] EXCEPT !.at = "accepted",
                                                             !.handshaking = Tls]]
              /\ acceptor' = [at |-> "accepted", conn |-> c]
              /\ open' = open + 1
  /\ UNCHANGED <<stopping, registry, io, peer>>

\* accept() fails: the listener is closed.
AcceptFails ==
  /\ acceptor.at = "accept" /\ shut \in {"stop", "stopped"}
  /\ acceptor' = [acceptor EXCEPT !.at = "ended"]
  /\ conn' = Reset(TRUE)
  /\ UNCHANGED <<stopping, open, registry, io, peer>>

\* Mutant of WrapFails: the slot is kept.
WrapFailsKeepingSlot ==
  /\ acceptor.at = "accepted" /\ Tls /\ peer[acceptor.conn].at = "gone"
  /\ conn' = [conn EXCEPT ![acceptor.conn].at = "closed"]
  /\ acceptor' = [at |-> "loop", conn |-> None]
  /\ UNCHANGED <<stopping, open, registry, io, peer>>

\* wrap_socket fails: the slot is given back.
WrapFails ==
  /\ acceptor.at = "accepted" /\ Tls /\ peer[acceptor.conn].at = "gone"
  /\ conn' = [conn EXCEPT ![acceptor.conn].at = "closed"]
  /\ open' = open - 1
  /\ acceptor' = [at |-> "loop", conn |-> None]
  /\ UNCHANGED <<stopping, registry, io, peer>>

EnterRegistry ==
  /\ acceptor.at = "accepted"
  /\ registry' = registry \cup {acceptor.conn}
  /\ acceptor' = [acceptor EXCEPT !.at = "entered"]
  /\ UNCHANGED <<stopping, open, io, conn, peer>>

\* _IOThread.add: the thread, any one here, finds the connection when it is
\* woken.
HandOver ==
  /\ acceptor.at = "entered"
  /\ \E i \in IO :
       /\ reg' = [reg EXCEPT ![i] = Append(@, acceptor.conn)]
       /\ conn' = [conn EXCEPT ![acceptor.conn].io = i]
  /\ acceptor' = [acceptor EXCEPT !.at = "added"]
  /\ UNCHANGED <<stopping, open, registry, woken, thread, peer>>

Wake ==
  /\ acceptor.at = "added"
  /\ woken' = [woken EXCEPT ![conn[acceptor.conn].io] = TRUE]
  /\ acceptor' = [at |-> "loop", conn |-> None]
  /\ UNCHANGED <<stopping, open, registry, reg, thread, conn, peer>>

-----------------------------------------------------------------------------
\* What an I/O thread does to one connection, from record to record.

Closed(r) == [r EXCEPT !.at = "closed", !.want_write = FALSE,
                       !.in = <<>>, !.inbuf = <<>>, !.outbuf = <<>>]

\* Mutant of Flushed: what was sent stays in the buffer while some of it did
\* not fit.
FlushedAgain(r) ==
  LET n == Min({SendSpace - Len(r.net), Len(r.outbuf)})
  IN  [r EXCEPT !.net = @ \o SubSeq(r.outbuf, 1, n),
                !.outbuf = IF n < Len(@) THEN @ ELSE <<>>,
                !.want_write = n < Len(r.outbuf)]

\* Mutant of Flushed: the selector is not asked to say when there is room.
FlushedDeaf(r) ==
  LET n == Min({SendSpace - Len(r.net), Len(r.outbuf)})
  IN  [r EXCEPT !.net = @ \o SubSeq(r.outbuf, 1, n),
                !.outbuf = SubSeq(@, n + 1, Len(@))]

\* _flush: the socket takes what fits; the selector says when there is room.
Flushed(r) ==
  LET n == Min({SendSpace - Len(r.net), Len(r.outbuf)})
  IN  [r EXCEPT !.net = @ \o SubSeq(r.outbuf, 1, n),
                !.outbuf = SubSeq(@, n + 1, Len(@)),
                !.want_write = n < Len(r.outbuf)]

\* _flush to a peer that is there, or is gone: it may find out by the error.
Sent(c, r) == IF peer[c].at = "gone" THEN {Closed(r), [r EXCEPT !.outbuf = <<>>]}
              ELSE {Flushed(r)}

\* _queue, of all the frames one event produces.
Queued(c, r, frames) ==
  IF frames = <<>> THEN {r}
  ELSE UNION {Sent(c, q) : q \in {[r EXCEPT !.outbuf = @ \o Stream(frames)]}}

\* _establish: challenge the peer, or admit it.
Established(c, r) ==
  IF Auth THEN Queued(c, [r EXCEPT !.handshaking = FALSE], <<"challenge">>)
  ELSE {[r EXCEPT !.handshaking = FALSE, !.authed = TRUE]}

\* _drive_handshake.
Shaken(c, r) ==
  CASE peer[c].at = "gone" \/ peer[c].tls = "failed" -> {Closed(r)}
    [] peer[c].at = "up" /\ peer[c].tls = "pending" -> {r}
    [] peer[c].at = "up" /\ peer[c].tls = "done" -> Established(c, r)

\* _dispatch before the peer is authed: only an answer that proves an admitted
\* identity is let in; what it sends later is handled whoever is admitted then.
Proves(c, kind) == kind = "auth" /\ c \in admitted

\* Mutant of Breaks: the identity is checked again with every message.
BreaksRevoked(c, r, frames, k) ==
  (IF ~r.authed /\ k = 1 THEN ~Proves(c, frames[k]) ELSE frames[k] = "broken") \/ c \notin admitted

\* What ends the connection: a frame that cannot be decoded, a handler that
\* raises, an answer that proves nothing.
Breaks(c, r, frames, k) ==
  IF ~r.authed /\ k = 1 THEN ~Proves(c, frames[k]) ELSE frames[k] = "broken"

\* The reply to a message, if it has one.
Reply(kind) == CASE kind = "auth" -> <<"welcome">>
                 [] kind = "request" -> <<"reply">>
                 [] kind \in {"heartbeat", "broken"} -> <<>>

\* _consume: every complete frame is dispatched in order up to one that breaks
\* the connection, if any; the replies to those before it are sent.
Consumed(c, r) ==
  UNION {LET broken == {k \in DOMAIN frames : Breaks(c, r, frames, k)}
             good == IF broken = {} THEN frames ELSE SubSeq(frames, 1, Min(broken) - 1)
             read == [r EXCEPT !.in = <<>>, !.inbuf = Rest(r.inbuf \o r.in),
                               !.authed = @ \/ good # <<>>]
             replied == UNION {Queued(c, q, FlattenSeq([k \in DOMAIN good |-> Reply(good[k])])) :
                                 q \in {read}}
         IN  IF broken = {} THEN replied ELSE {Closed(q) : q \in replied} :
         frames \in {Frames(r.inbuf \o r.in)}}

\* _on_read: what has arrived, or the end of the stream.
Read(c, r) ==
  IF r.in = <<>> /\ peer[c].at = "gone" THEN {Closed(r)}
  ELSE IF r.in = <<>> THEN {r} ELSE Consumed(c, r)

\* _flush on a socket that has room, when the read before it left it open.
Written(c, r) ==
  IF r.at = "closed" THEN {r} ELSE Sent(c, r)

-----------------------------------------------------------------------------
\* The I/O threads (_IOThread).

\* Connection c becomes r; when that closes it, so does its slot (_close,
\* _conn_closed).
Becomes(c, r) ==
  /\ conn' = [conn EXCEPT ![c] = r]
  /\ IF r.at = "closed" /\ c \in registry
     THEN registry' = registry \ {c} /\ open' = open - 1
     ELSE UNCHANGED <<registry, open>>

\* The events of the selector: the wake pipe's, and each connection's that can
\* be read or that can be written and waits for it.
CanRead(c) == IF conn[c].handshaking
              THEN peer[c].tls # "pending" \/ peer[c].at = "gone"
              ELSE conn[c].in # <<>> \/ peer[c].at = "gone"
CanWrite(c) == conn[c].want_write /\ (Len(conn[c].net) < SendSpace \/ peer[c].at = "gone")

Mine(i) == {c \in Conn : conn[c].at = "selected" /\ conn[c].io = i}

Events(i) ==
  {[conn |-> c, read |-> CanRead(c), write |-> CanWrite(c)] :
     c \in {c \in Mine(i) : CanRead(c) \/ CanWrite(c)}}
  \cup IF woken[i] THEN {[conn |-> None, read |-> TRUE, write |-> FALSE]} ELSE {}

\* _loop, round its condition: select() returns events.
Select(i) ==
  /\ thread[i].at = "loop" /\ thread[i].events = {} /\ ~IOStop
  /\ Events(i) # {}
  /\ thread' = [thread EXCEPT ![i].events = Events(i)]
  /\ UNCHANGED <<stopping, accepting, reg, woken, conn, peer>>

\* The wake pipe is emptied ...
WakeEvent(i) ==
  /\ thread[i].at = "loop" /\ thread[i].news = <<>>
  /\ \E e \in thread[i].events :
       /\ e.conn = None
       /\ thread' = [thread EXCEPT ![i].at = "wake", ![i].events = @ \ {e}]
  /\ woken' = [woken EXCEPT ![i] = FALSE]
  /\ UNCHANGED <<stopping, accepting, reg, conn, peer>>

\* ... and then the handed connections are taken (_drain_reg), one by one.
DrainReg(i) ==
  /\ thread[i].at = "wake"
  /\ thread' = [thread EXCEPT ![i].at = "loop", ![i].news = reg[i]]
  /\ reg' = [reg EXCEPT ![i] = <<>>]
  /\ UNCHANGED <<stopping, accepting, woken, conn, peer>>

TakeNew(i) ==
  /\ thread[i].news # <<>>
  /\ LET c == Head(thread[i].news)
         r == [conn[c] EXCEPT !.at = "selected"]
     IN  \E s \in IF r.handshaking THEN Shaken(c, r) ELSE Established(c, r) :
           Becomes(c, s)
  /\ thread' = [thread EXCEPT ![i].news = Tail(@)]
  /\ UNCHANGED <<stopping, acceptor, reg, woken, peer>>

\* A connection's event.
ConnEvent(i) ==
  /\ thread[i].at = "loop" /\ thread[i].news = <<>>
  /\ \E e \in thread[i].events :
       /\ e.conn # None
       /\ LET c == e.conn
          IN  IF conn[c].handshaking
              THEN \E r \in Shaken(c, conn[c]) : Becomes(c, r)
              ELSE \E r \in IF e.read THEN Read(c, conn[c]) ELSE {conn[c]} :
                     \E s \in IF e.write THEN Written(c, r) ELSE {r} : Becomes(c, s)
       /\ thread' = [thread EXCEPT ![i].events = @ \ {e}]
  /\ UNCHANGED <<stopping, acceptor, reg, woken, peer>>

\* _teardown: what the selector knows is closed, not what waits in _reg.
Teardown(i) ==
  /\ thread[i] = [at |-> "loop", events |-> {}, news |-> <<>>] /\ IOStop
  /\ thread' = [thread EXCEPT ![i].at = "ended"]
  /\ conn' = [c \in Conn |-> IF c \in Mine(i) THEN Closed(conn[c]) ELSE conn[c]]
  /\ registry' = registry \ Mine(i)
  /\ open' = open - Cardinality(registry \cap Mine(i))
  /\ UNCHANGED <<stopping, acceptor, reg, woken, peer>>

-----------------------------------------------------------------------------
\* The owner of the server.  It changes its mind on rude peers only.

AdmitPeer(c) ==
  /\ Calling /\ c \in Conn \ admitted /\ conn[c].at = "new" /\ admin < MaxAdmin /\ admin' = admin + 1
  /\ admitted' = admitted \cup {c}
  /\ UNCHANGED <<max_connections, shut, accepting, io, conn, peer>>

RevokePeer(c) ==
  /\ Calling /\ c \in Rude /\ c \in admitted /\ conn[c].at = "selected" /\ admin < MaxAdmin /\ admin' = admin + 1
  /\ admitted' = admitted \ {c}
  /\ UNCHANGED <<max_connections, shut, accepting, io, conn, peer>>

\* shutdown: the accept loop is stopped and the listener closed; ...
Shutdown ==
  /\ shut = "no" /\ shut' = "stop"
  /\ conn' = Reset(acceptor.at # "accept")
  /\ UNCHANGED <<max_connections, admitted, admin, accepting, io, peer>>

\* ... after a grace the I/O threads are stopped and woken.
StopIO ==
  /\ shut = "stop" /\ shut' = "stopped"
  /\ woken' = [i \in IO |-> TRUE]
  /\ UNCHANGED <<max_connections, admitted, admin, accepting, reg, thread, conn, peer>>

-----------------------------------------------------------------------------
AcceptStep == AcceptLoop \/ (\E c \in Conn : Accept(c)) \/ AcceptFails \/ EnterRegistry
              \/ HandOver \/ Wake
IOStep(i) == Select(i) \/ WakeEvent(i) \/ DrainReg(i) \/ TakeNew(i) \/ ConnEvent(i) \/ Teardown(i)
PeerStep(c) == Connect(c) \/ Shake(c) \/ (\E kind \in Kind, n \in 1 .. 2 : Send(c, kind, n)) \/ SendRest(c)
               \/ Receive(c) \/ Hangup(c)
OwnerStep == (\E c \in Conn : AdmitPeer(c) \/ RevokePeer(c)) \/ Shutdown \/ StopIO

Next == AcceptStep \/ WrapFails \/ (\E i \in IO : IOStep(i)) \/ (\E c \in Conn : PeerStep(c))
        \/ OwnerStep

Spec == Init /\ [][Next]_vars

\* The threads run, and peers read what is sent to them.
FairSpec == Spec /\ WF_vars(AcceptStep) /\ (\A i \in IO : WF_vars(IOStep(i)))
                 /\ (\A c \in Conn : WF_vars(Receive(c)))
-----------------------------------------------------------------------------
\* Properties.

\* Every variable has its type, and there are never more connections than the
\* cap (_accept_loop counts one before it is wrapped and registered).
TypeOK ==
  /\ shut \in {"no", "stop", "stopped"}
  /\ admitted \subseteq Conn /\ admin \in 0 .. MaxAdmin
  /\ acceptor \in [at : {"loop", "accept", "accepted", "entered", "added", "ended"},
                   conn : Conn \cup {None}]
  /\ open \in 0 .. max_connections /\ registry \subseteq Conn
  /\ reg \in [IO -> Seq(Conn)] /\ woken \in [IO -> BOOLEAN]
  /\ \A i \in IO : /\ thread[i].at \in {"loop", "wake", "ended"}
                   /\ thread[i].news \in Seq(Conn)
                   /\ \A e \in thread[i].events : e.conn \in Conn \cup {None}
  /\ \A c \in Conn :
       /\ conn[c].at \in {"new", "backlog", "accepted", "selected", "closed"}
       /\ conn[c].io \in IO \cup {None}
       /\ Len(conn[c].net) <= SendSpace /\ Len(conn[c].inbuf) <= 1
       /\ conn[c].handshaking => Tls
       /\ peer[c].at \in {"new", "up", "gone"} /\ Range(peer[c].sent) \subseteq Kind

\* A slot of the cap is held exactly by the connections that are open, from
\* the moment one is accepted, through the accept thread, the hand-over, and
\* the I/O thread that closes it or is torn down, to its close (_accept_loop,
\* _conn_closed): none is lost, which would starve the server of connections
\* over time, and none is given back twice.
SlotsAccounted ==
  LET live == {c \in Conn : conn[c].at \in {"accepted", "selected"}}
      entering == IF acceptor.at = "accepted" THEN {acceptor.conn} ELSE {}
  IN  registry = live \ entering /\ open = Cardinality(live)

\* The frames a peer is owed for what it sent.
Owed(c) ==
  Stream((IF Auth THEN <<"challenge">> ELSE <<>>)
         \o FlattenSeq([k \in DOMAIN peer[c].sent |-> Reply(peer[c].sent[k])]))

\* Whatever the partial reads and writes, and whoever else the thread serves,
\* what a peer has received, what the kernel holds and what the server still
\* has to send is, in order and without a gap, what it is owed for the messages
\* it sent (_consume, _queue, _flush): a reply always answers its request.
StreamIntact ==
  \A c \in Conn : peer[c].at = "up" =>
    IsPrefix(peer[c].got \o conn[c].net \o conn[c].outbuf, Owed(c))

\* The peer sent something that may cost it the connection.
AtFault(c) ==
  \/ peer[c].at = "gone" \/ peer[c].tls = "failed"
  \/ \E k \in DOMAIN peer[c].sent : peer[c].sent[k] = "broken"
  \/ ~conn[c].authed /\ Auth /\ c \notin admitted /\ peer[c].sent # <<>>

\* "A handler must never kill the I/O thread ... drops just this connection"
\* (_consume, _dispatch): while the server is not being stopped, an I/O thread
\* closes no connection but of a peer that broke the protocol itself or left,
\* and revoke_peer ends none that is authenticated.
Confined ==
  [][\A c \in Conn : conn[c].at = "selected" /\ conn'[c].at = "closed" /\ shut = "no"
       => AtFault(c)]_vars

\* The server owes the peer nothing: it has all replies and is being read, or
\* is closed, or it is the peer's move.
Settled(c) ==
  \/ conn[c].at \in {"new", "closed"} \/ peer[c].at = "gone"
  \/ peer[c].tls = "pending" \/ peer[c].half # <<>>
  \/ peer[c].tls = "done" /\ peer[c].got = Owed(c)
     /\ \A k \in DOMAIN peer[c].sent : peer[c].sent[k] # "broken"

\* While the server runs, the connections that are not refused at the cap are
\* again and again all served in full: no wake-up of a thread, readable socket or
\* room to write is missed, and no peer that is silent, slow or broken holds up
\* another (_accept_loop, add, _drain_reg, _drive_handshake, _flush).
Served == []<>(Stop \/ \A c \in Conn : Settled(c))
=============================================================================
