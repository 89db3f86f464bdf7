--------------------------- MODULE TransportProofs ---------------------------
(***************************************************************************)
(* What holds of the two transports: of Reactor, for every number of       *)
(* connections, I/O threads and every cap, and of P2p, for every number of *)
(* threads, servers and relays.                                            *)
(***************************************************************************)
EXTENDS Transports, FiniteSetTheorems, SequenceTheorems, WellFoundedInduction, TLAPS

\* What the assumption on the constants says of each.
LEMMA Constants ==
  /\ Caps \subseteq Nat \ {0} /\ Rude \subseteq Conn
  /\ IsFiniteSet(Conn) /\ None \notin Conn /\ None \notin IO
BY ConstantAssumption

-----------------------------------------------------------------------------
\* What an event makes of a connection's record.

\* r has the fields of a connection.
IsConn(r) ==
  r \in [at : {r.at}, io : {r.io}, handshaking : {r.handshaking}, authed : {r.authed},
         want_write : {r.want_write}, in : {r.in}, inbuf : {r.inbuf}, outbuf : {r.outbuf},
         net : {r.net}]

\* s is what r becomes by an event: it stays with its thread, open or closed.
Follows(r, s) == IsConn(s) /\ s.io = r.io /\ (s.at = r.at \/ s.at = "closed")

LEMMA FollowsOn == \A r, s, t : Follows(r, s) /\ Follows(s, t) => Follows(r, t)
BY DEF Follows

LEMMA FieldFollows ==
  ASSUME NEW r, IsConn(r), NEW x, NEW y, NEW z
  PROVE  /\ Follows(r, r)
         /\ Follows(r, [r EXCEPT !.handshaking = x])
         /\ Follows(r, [r EXCEPT !.handshaking = x, !.authed = y])
         /\ Follows(r, [r EXCEPT !.outbuf = x])
         /\ Follows(r, [r EXCEPT !.in = x, !.inbuf = y, !.authed = z])
         /\ Follows(r, [r EXCEPT !.net = x, !.outbuf = y, !.want_write = z])
BY DEF IsConn, Follows

LEMMA ClosedFollows ==
  ASSUME NEW r, IsConn(r)
  PROVE  Follows(r, Closed(r)) /\ Closed(r).at = "closed"
BY DEF IsConn, Follows, Closed

LEMMA FlushedFollows ==
  ASSUME NEW r, IsConn(r)
  PROVE  Follows(r, Flushed(r))
BY FieldFollows DEF Flushed

LEMMA SentFollows ==
  ASSUME NEW c, NEW r, IsConn(r)
  PROVE  \A s \in Sent(c, r) : Follows(r, s)
<1>1. Follows(r, [r EXCEPT !.outbuf = <<>>])
  BY FieldFollows
<1>. QED  BY <1>1, ClosedFollows, FlushedFollows DEF Sent

LEMMA QueuedFollows ==
  ASSUME NEW c, NEW r, IsConn(r), NEW frames
  PROVE  \A s \in Queued(c, r, frames) : Follows(r, s)
<1>. DEFINE q == [r EXCEPT !.outbuf = @ \o Stream(frames)]
<1>1. Follows(r, q)
  BY FieldFollows
<1>2. UNION {Sent(c, p) : p \in {q}} = Sent(c, q)
  OBVIOUS
<1>3. \A s \in Sent(c, q) : Follows(q, s)
  BY <1>1, SentFollows DEF Follows
<1>. HIDE DEF q
<1>. QED  BY <1>1, <1>2, <1>3, FieldFollows, FollowsOn DEF Queued, q

LEMMA EstablishedFollows ==
  ASSUME NEW c, NEW r, IsConn(r)
  PROVE  \A s \in Established(c, r) : Follows(r, s)
<1>1. /\ Follows(r, [r EXCEPT !.handshaking = FALSE])
      /\ Follows(r, [r EXCEPT !.handshaking = FALSE, !.authed = TRUE])
  BY FieldFollows
<1>2. ASSUME NEW q, Follows(r, q)
      PROVE  \A s \in Queued(c, q, <<"challenge">>) : Follows(r, s)
  BY <1>2, QueuedFollows, FollowsOn DEF Follows
<1>. QED  BY <1>1, <1>2 DEF Established

LEMMA ShakenFollows ==
  ASSUME NEW c, NEW r, IsConn(r),
         peer[c].at \in {"up", "gone"}, peer[c].tls \in {"pending", "done", "failed"}
  PROVE  \A s \in Shaken(c, r) : Follows(r, s)
<1>1. CASE peer[c].at = "gone" \/ peer[c].tls = "failed"
  BY <1>1, ClosedFollows DEF Shaken
<1>2. CASE peer[c].at = "up" /\ peer[c].tls = "pending"
  BY <1>2, FieldFollows DEF Shaken
<1>3. CASE peer[c].at = "up" /\ peer[c].tls = "done"
  BY <1>3, EstablishedFollows DEF Shaken
<1>. QED  BY <1>1, <1>2, <1>3

\* The replies to messages.
Replying(s) == FlattenSeq([k \in DOMAIN s |-> Reply(s[k])])

\* What reading the buffered units makes of a connection.
Broken(c, r, frames) == {k \in DOMAIN frames : Breaks(c, r, frames, k)}
Good(c, r, frames) ==
  IF Broken(c, r, frames) = {} THEN frames ELSE SubSeq(frames, 1, Min(Broken(c, r, frames)) - 1)
AfterRead(c, r, frames) ==
  [r EXCEPT !.in = <<>>, !.inbuf = Rest(r.inbuf \o r.in), !.authed = @ \/ Good(c, r, frames) # <<>>]

\* How a connection consumes.
LEMMA ConsumedIs ==
  ASSUME NEW c, NEW r, NEW frames, frames = Frames(r.inbuf \o r.in), NEW replied,
         replied = Queued(c, AfterRead(c, r, frames), Replying(Good(c, r, frames)))
  PROVE  Consumed(c, r) = IF Broken(c, r, frames) = {} THEN replied ELSE {Closed(q) : q \in replied}
<1>. DEFINE Replied(fs) ==
       LET bad == {k \in DOMAIN fs : Breaks(c, r, fs, k)}
           ok == IF bad = {} THEN fs ELSE SubSeq(fs, 1, Min(bad) - 1)
           new == [r EXCEPT !.in = <<>>, !.inbuf = Rest(r.inbuf \o r.in), !.authed = @ \/ ok # <<>>]
           out == UNION {Queued(c, q, FlattenSeq([k \in DOMAIN ok |-> Reply(ok[k])])) : q \in {new}}
       IN  IF bad = {} THEN out ELSE {Closed(q) : q \in out}
<1>1. Consumed(c, r) = UNION {Replied(fs) : fs \in {frames}}
  BY DEF Consumed
<1>2. UNION {Queued(c, q, Replying(Good(c, r, frames))) : q \in {AfterRead(c, r, frames)}} = replied
  OBVIOUS
<1>3. Replied(frames) = IF Broken(c, r, frames) = {} THEN replied ELSE {Closed(q) : q \in replied}
  BY <1>2 DEF Broken, Good, AfterRead, Replying
<1>. HIDE DEF Replied
<1>. QED  BY <1>1, <1>3

LEMMA ConsumedFollows ==
  ASSUME NEW c, NEW r, IsConn(r)
  PROVE  \A s \in Consumed(c, r) : Follows(r, s)
<1>. DEFINE frames == Frames(r.inbuf \o r.in)
            read == AfterRead(c, r, frames)
            replied == Queued(c, read, Replying(Good(c, r, frames)))
<1>. HIDE DEF frames
<1>1. Consumed(c, r) = IF Broken(c, r, frames) = {} THEN replied ELSE {Closed(q) : q \in replied}
  BY ConsumedIs DEF frames
<1>2. Follows(r, read)
  BY FieldFollows DEF AfterRead
<1>. HIDE DEF read
<1>3. \A q \in replied : Follows(r, q) /\ Follows(r, Closed(q))
  BY <1>2, QueuedFollows, ClosedFollows, FollowsOn DEF Follows
<1>. HIDE DEF replied
<1>. QED  BY <1>1, <1>3

LEMMA ReadFollows ==
  ASSUME NEW c, NEW r, IsConn(r)
  PROVE  \A s \in Read(c, r) : Follows(r, s)
BY FieldFollows, ClosedFollows, ConsumedFollows DEF Read

LEMMA WrittenFollows ==
  ASSUME NEW c, NEW r, IsConn(r)
  PROVE  \A s \in Written(c, r) : Follows(r, s)
BY FieldFollows, SentFollows DEF Written

-----------------------------------------------------------------------------
\* The shape of the state.

IsPeer(r) ==
  /\ r \in [at : {r.at}, tls : {r.tls}, half : {r.half}, sent : {r.sent}, got : {r.got}]
  /\ r.at \in {"new", "up", "gone"} /\ r.tls \in {"pending", "done", "failed"}

IsThread(r) ==
  /\ r \in [at : {r.at}, events : {r.events}, news : Seq(Conn)]
  /\ \A e \in r.events : e.conn \in Conn \cup {None}

ConnShape ==
  /\ conn = [c \in Conn |-> conn[c]]
  /\ \A c \in Conn : /\ IsConn(conn[c]) /\ conn[c].io \in IO \cup {None}
                     /\ conn[c].at \in {"new", "backlog", "accepted", "selected", "closed"}

PeerShape ==
  /\ peer = [c \in Conn |-> peer[c]]
  /\ \A c \in Conn : IsPeer(peer[c])

ThreadShape ==
  /\ acceptor \in [at : {"loop", "accept", "accepted", "entered", "added", "ended"},
                   conn : Conn \cup {None}]
  /\ reg \in [IO -> Seq(Conn)]
  /\ thread = [i \in IO |-> thread[i]]
  /\ \A i \in IO : IsThread(thread[i])

Known == \A c \in Conn : peer[c].at = "new" => conn[c].at = "new"

Shape == ConnShape /\ PeerShape /\ ThreadShape /\ Known

LEMMA InitShape == Init => Shape
<1> SUFFICES ASSUME Init PROVE Shape
  OBVIOUS
<1>1. IsConn(Fresh) /\ Fresh.at = "new" /\ Fresh.io = None
  BY DEF IsConn, Fresh
<1>2. ConnShape
  BY <1>1 DEF Init, ConnShape
<1>3. \A x \in {"pending", "done"} : IsPeer([Caller EXCEPT !.tls = x])
  BY DEF IsPeer, Caller
<1>4. PeerShape
  BY <1>3 DEF Init, PeerShape
<1>5. ThreadShape
  BY DEF Init, ThreadShape, IsThread
<1>6. Known
  BY <1>1 DEF Init, Known
<1>. QED  BY <1>2, <1>4, <1>5, <1>6 DEF Shape

\* A step that changes one connection's record.
LEMMA OneConn ==
  ASSUME ConnShape, NEW c \in Conn, NEW r, conn' = [conn EXCEPT ![c] = r],
         IsConn(r), r.io \in IO \cup {None},
         r.at \in {"new", "backlog", "accepted", "selected", "closed"}
  PROVE  /\ ConnShape'
         /\ conn'[c] = r /\ \A d \in Conn \ {c} : conn'[d] = conn[d]
BY DEF ConnShape

LEMMA OnePeer ==
  ASSUME PeerShape, NEW c \in Conn, NEW r, peer' = [peer EXCEPT ![c] = r], IsPeer(r)
  PROVE  /\ PeerShape'
         /\ peer'[c] = r /\ \A d \in Conn \ {c} : peer'[d] = peer[d]
BY DEF PeerShape

LEMMA OneThread ==
  ASSUME ThreadShape, NEW i \in IO, NEW r, thread' = [thread EXCEPT ![i] = r], IsThread(r)
  PROVE  /\ thread' = [j \in IO |-> thread'[j]] /\ \A j \in IO : IsThread(thread'[j])
         /\ thread'[i] = r /\ \A j \in IO \ {i} : thread'[j] = thread[j]
BY DEF ThreadShape

\* A step after which every connection is where it was, but that one was
\* connected, or reset before anybody accepted it.
Mild ==
  \A c \in Conn :
    /\ conn'[c].io = conn[c].io
    /\ \/ conn'[c].at = conn[c].at
       \/ conn[c].at \in {"new", "backlog"} /\ conn'[c].at \in {"backlog", "closed"}

\* Setting fields of a connection that say nothing of where it is.
LEMMA SetConn ==
  ASSUME NEW r, IsConn(r), NEW x
  PROVE  /\ IsConn([r EXCEPT !.at = x]) /\ [r EXCEPT !.at = x].at = x
         /\ [r EXCEPT !.at = x].io = r.io
         /\ Follows(r, [r EXCEPT !.in = x]) /\ [r EXCEPT !.in = x].at = r.at
         /\ Follows(r, [r EXCEPT !.net = x]) /\ [r EXCEPT !.net = x].at = r.at
         /\ IsConn([r EXCEPT !.io = x]) /\ [r EXCEPT !.io = x].at = r.at
         /\ [r EXCEPT !.io = x].io = x
BY DEF IsConn, Follows

LEMMA SetPeer ==
  ASSUME NEW r, IsPeer(r), NEW x, NEW y
  PROVE  /\ IsPeer([r EXCEPT !.sent = x, !.half = y]) /\ [r EXCEPT !.sent = x, !.half = y].at = r.at
         /\ IsPeer([r EXCEPT !.half = x]) /\ [r EXCEPT !.half = x].at = r.at
         /\ IsPeer([r EXCEPT !.got = x]) /\ [r EXCEPT !.got = x].at = r.at
         /\ x \in {"done", "failed"} =>
              IsPeer([r EXCEPT !.tls = x]) /\ [r EXCEPT !.tls = x].at = r.at
         /\ IsPeer([r EXCEPT !.at = "up"]) /\ [r EXCEPT !.at = "up"].at = "up"
         /\ IsPeer([r EXCEPT !.at = "gone", !.half = x])
         /\ [r EXCEPT !.at = "gone", !.half = x].at = "gone"
BY DEF IsPeer

LEMMA PeerShapes ==
  ASSUME Shape, NEW c \in Conn, PeerStep(c)
  PROVE  ConnShape' /\ PeerShape' /\ Known' /\ Mild
<1>. DEFINE r == conn[c]
            p == peer[c]
<1>1. ConnShape /\ PeerShape /\ Known /\ IsConn(r) /\ IsPeer(p)
  BY DEF Shape, ConnShape, PeerShape
<1>2. ASSUME NEW s, NEW q, conn' = [conn EXCEPT ![c] = s], peer' = [peer EXCEPT ![c] = q],
             IsConn(s), s.io = r.io,
             s.at = r.at \/ (r.at \in {"new", "backlog"} /\ s.at \in {"backlog", "closed"}),
             IsPeer(q), q.at = "new" => p.at = "new" /\ s.at = "new"
      PROVE  ConnShape' /\ PeerShape' /\ Known' /\ Mild
  <2>1. r.io \in IO \cup {None} /\ r.at \in {"new", "backlog", "accepted", "selected", "closed"}
    BY <1>1 DEF ConnShape
  <2>. HIDE DEF r, p
  <2>2. ConnShape' /\ conn'[c] = s /\ \A d \in Conn \ {c} : conn'[d] = conn[d]
    BY <1>1, <1>2, <2>1, OneConn
  <2>3. PeerShape' /\ peer'[c] = q /\ \A d \in Conn \ {c} : peer'[d] = peer[d]
    BY <1>1, <1>2, OnePeer
  <2>4. Known'
    BY <1>1, <1>2, <2>2, <2>3 DEF Known
  <2>5. Mild
    BY <1>2, <2>2 DEF Mild, r
  <2>. QED  BY <2>2, <2>3, <2>4, <2>5
<1>3. [conn EXCEPT ![c] = r] = conn /\ [peer EXCEPT ![c] = p] = peer
  BY <1>1 DEF ConnShape, PeerShape
<1>4. p.at = "new" => r.at = "new"
  BY <1>1 DEF Known
<1>5. CASE Connect(c)
  <2>1. /\ IsConn([r EXCEPT !.at = "backlog"]) /\ [r EXCEPT !.at = "backlog"].io = r.io
        /\ [r EXCEPT !.at = "backlog"].at = "backlog"
    BY <1>1, SetConn
  <2>2. IsPeer([p EXCEPT !.at = "up"]) /\ [p EXCEPT !.at = "up"].at = "up"
    BY <1>1, SetPeer
  <2>3. /\ conn' = [conn EXCEPT ![c] = [r EXCEPT !.at = "backlog"]]
        /\ peer' = [peer EXCEPT ![c] = [p EXCEPT !.at = "up"]]
        /\ r.at = "new"
    BY <1>4, <1>5 DEF Connect
  <2>. HIDE DEF r, p
  <2>. QED  BY <1>2, <2>1, <2>2, <2>3
<1>6. CASE Shake(c)
  <2>1. PICK x \in {"done", "failed"} : peer' = [peer EXCEPT ![c] = [p EXCEPT !.tls = x]]
    BY <1>6 DEF Shake
  <2>2. IsPeer([p EXCEPT !.tls = x]) /\ [p EXCEPT !.tls = x].at = p.at
    BY <1>1, SetPeer
  <2>3. conn' = [conn EXCEPT ![c] = r]
    BY <1>3, <1>6 DEF Shake
  <2>. HIDE DEF r, p
  <2>. QED  BY <1>1, <1>2, <1>4, <2>1, <2>2, <2>3
<1>7. ASSUME NEW m \in Kind, NEW n \in 1 .. 2, Send(c, m, n)
      PROVE  ConnShape' /\ PeerShape' /\ Known' /\ Mild
  <2>. DEFINE x == r.in \o SubSeq(Units(m), 1, n)
              y == Append(p.sent, m)
              z == SubSeq(Units(m), n + 1, Len(Units(m)))
  <2>1. conn' = [conn EXCEPT ![c] = [r EXCEPT !.in = x]]
    BY <1>7 DEF Send
  <2>2. peer' = [peer EXCEPT ![c] = [p EXCEPT !.sent = y, !.half = z]]
    BY <1>7 DEF Send
  <2>. HIDE DEF x, y, z
  <2>4. Follows(r, [r EXCEPT !.in = x]) /\ [r EXCEPT !.in = x].at = r.at
    BY <1>1, SetConn
  <2>5. IsPeer([p EXCEPT !.sent = y, !.half = z])
    BY <1>1, SetPeer, Zenon
  <2>6. [p EXCEPT !.sent = y, !.half = z].at = p.at
    BY <1>1 DEF IsPeer
  <2>. HIDE DEF r, p
  <2>. QED  BY <1>2, <1>4, <2>1, <2>2, <2>4, <2>5, <2>6 DEF Follows
<1>8. CASE SendRest(c)
  <2>. DEFINE x == r.in \o p.half
  <2>1. /\ conn' = [conn EXCEPT ![c] = [r EXCEPT !.in = x]]
        /\ peer' = [peer EXCEPT ![c] = [p EXCEPT !.half = <<>>]]
    BY <1>8 DEF SendRest
  <2>. HIDE DEF x
  <2>2. Follows(r, [r EXCEPT !.in = x]) /\ [r EXCEPT !.in = x].at = r.at
    BY <1>1, SetConn
  <2>3. IsPeer([p EXCEPT !.half = <<>>]) /\ [p EXCEPT !.half = <<>>].at = p.at
    BY <1>1, SetPeer
  <2>. HIDE DEF r, p
  <2>. QED  BY <1>2, <1>4, <2>1, <2>2, <2>3 DEF Follows
<1>9. CASE Receive(c)
  <2>. DEFINE x == p.got \o r.net
  <2>1. /\ conn' = [conn EXCEPT ![c] = [r EXCEPT !.net = <<>>]]
        /\ peer' = [peer EXCEPT ![c] = [p EXCEPT !.got = x]]
    BY <1>9 DEF Receive
  <2>. HIDE DEF x
  <2>2. Follows(r, [r EXCEPT !.net = <<>>]) /\ [r EXCEPT !.net = <<>>].at = r.at
    BY <1>1, SetConn
  <2>3. IsPeer([p EXCEPT !.got = x]) /\ [p EXCEPT !.got = x].at = p.at
    BY <1>1, SetPeer
  <2>. HIDE DEF r, p
  <2>. QED  BY <1>2, <1>4, <2>1, <2>2, <2>3 DEF Follows
<1>10. CASE Hangup(c)
  <2>1. conn' = [conn EXCEPT ![c] = [r EXCEPT !.net = <<>>]]
    BY <1>10 DEF Hangup
  <2>2. peer' = [peer EXCEPT ![c] = [p EXCEPT !.at = "gone", !.half = <<>>]]
    BY <1>1, <1>10 DEF Hangup, PeerShape, IsPeer
  <2>3. Follows(r, [r EXCEPT !.net = <<>>]) /\ [r EXCEPT !.net = <<>>].at = r.at
    BY <1>1, SetConn
  <2>4. /\ IsPeer([p EXCEPT !.at = "gone", !.half = <<>>])
        /\ [p EXCEPT !.at = "gone", !.half = <<>>].at = "gone"
    BY ZenonT(40), <1>1, SetPeer
  <2>. HIDE DEF r, p
  <2>. QED  BY <1>2, <2>1, <2>2, <2>3, <2>4 DEF Follows
<1>. QED  BY <1>5, <1>6, <1>7, <1>8, <1>9, <1>10 DEF PeerStep

-----------------------------------------------------------------------------
\* The inductive invariant.

\* The connections that wait for thread i in s are accepted and its own, each
\* once.
Waits(s, i) ==
  /\ \A k \in DOMAIN s : conn[s[k]].at = "accepted" /\ conn[s[k]].io = i
  /\ \A k, l \in DOMAIN s : s[k] = s[l] => k = l

Apart(s, t) == \A k \in DOMAIN s, l \in DOMAIN t : s[k] # t[l]

\* Where a connection is says who holds it: nobody, the accept thread, the list
\* of connections handed to its thread, or the connections the thread took.
Places ==
  /\ \A c \in Conn : conn[c].at \in {"new", "backlog"} => conn[c].io = None
  /\ acceptor.at \in {"accepted", "entered"} =>
       /\ acceptor.conn \in Conn
       /\ conn[acceptor.conn].at = "accepted" /\ conn[acceptor.conn].io = None
  /\ \A i \in IO : Waits(reg[i], i) /\ Waits(thread[i].news, i) /\ Apart(reg[i], thread[i].news)
  /\ \A i \in IO : \A e \in thread[i].events :
       e.conn \in Conn => conn[e.conn].at \in {"selected", "closed"}
  /\ open <= max_connections

Live == {c \in Conn : conn[c].at \in {"accepted", "selected"}}
Entering == IF acceptor.at = "accepted" THEN {acceptor.conn} ELSE {}

LEMMA SlotsMean == SlotsAccounted <=> registry = Live \ Entering /\ open = Cardinality(Live)
BY DEF SlotsAccounted, Live, Entering

LEMMA SlotsMeanNext ==
  SlotsAccounted' <=> registry' = Live' \ Entering' /\ open' = Cardinality(Live')
BY DEF SlotsAccounted, Live, Entering

LEMMA LiveFinite == IsFiniteSet(Live) /\ Cardinality(Live) \in Nat
<1>1. Live \in SUBSET Conn
  BY DEF Live
<1>. QED  BY <1>1, Constants, FS_Subset, FS_CardinalityType

\* A mild step that leaves the slots and the lists alone.
LEMMA MildStep ==
  ASSUME Places, SlotsAccounted, Mild,
         acceptor' = acceptor \/ {acceptor.at, acceptor'.at} \cap {"accepted", "entered"} = {},
         UNCHANGED <<max_connections, open, registry, reg>>,
         \A i \in IO : thread'[i].news = thread[i].news,
         \A i \in IO : \A e \in thread'[i].events :
           e.conn \in Conn => conn'[e.conn].at \in {"selected", "closed"},
         ThreadShape
  PROVE  Places' /\ SlotsAccounted'
<1>1. Live' = Live
  BY DEF Live, Mild
<1>2. Entering' = Entering
  BY DEF Entering
<1>3. SlotsAccounted'
  BY <1>1, <1>2, SlotsMean, SlotsMeanNext
<1>4. \A c \in Conn : conn'[c].at \in {"new", "backlog"} => conn'[c].io = None
  BY DEF Places, Mild
<1>5. acceptor'.at \in {"accepted", "entered"} =>
       /\ acceptor'.conn \in Conn
       /\ conn'[acceptor'.conn].at = "accepted" /\ conn'[acceptor'.conn].io = None
  BY DEF Places, Mild
<1>6. ASSUME NEW i \in IO, NEW q \in Seq(Conn), Waits(q, i)
      PROVE  /\ \A k \in DOMAIN q : conn'[q[k]].at = "accepted" /\ conn'[q[k]].io = i
             /\ \A k, l \in DOMAIN q : q[k] = q[l] => k = l
  <2>1. \A k \in DOMAIN q : q[k] \in Conn
    OBVIOUS
  <2>. QED  BY <1>6, <2>1 DEF Waits, Mild
<1>7. ASSUME NEW i \in IO
      PROVE  Waits(reg[i], i)' /\ Waits(thread[i].news, i)' /\ Apart(reg[i], thread[i].news)'
  <2>1. reg[i] \in Seq(Conn) /\ thread[i].news \in Seq(Conn)
    BY DEF ThreadShape, IsThread
  <2>2. Waits(reg[i], i) /\ Waits(thread[i].news, i) /\ Apart(reg[i], thread[i].news)
    BY DEF Places
  <2>3. reg'[i] = reg[i] /\ thread'[i].news = thread[i].news
    OBVIOUS
  <2>4. Waits(reg[i], i)'
    BY SMTT(30), <1>6, <2>1, <2>2, <2>3 DEF Waits
  <2>5. Waits(thread[i].news, i)'
    BY SMTT(30), <1>6, <2>1, <2>2, <2>3 DEF Waits
  <2>6. Apart(reg[i], thread[i].news)'
    BY <2>2, <2>3 DEF Apart
  <2>. QED  BY <2>4, <2>5, <2>6
<1>8. open' <= max_connections'
  BY DEF Places
<1>. QED  BY <1>3, <1>4, <1>5, <1>7, <1>8 DEF Places

Inv == Shape /\ Places /\ SlotsAccounted /\ max_connections \in Nat

LEMMA InitInv == Init => Inv
<1> SUFFICES ASSUME Init PROVE Inv
  OBVIOUS
<1>1. Shape
  BY InitShape
<1>2. \A c \in Conn : conn[c].at = "new" /\ conn[c].io = None
  BY DEF Init, Fresh
<1>3. Live = {}
  BY <1>2 DEF Live
<1>4. SlotsAccounted
  BY <1>3, SlotsMean, FS_EmptySet DEF Init
<1>5. max_connections \in Nat \ {0} /\ open = 0
  BY Constants DEF Init
<1>6. Places
  BY <1>2, <1>5 DEF Init, Places, Waits, Apart
<1>. QED  BY <1>1, <1>4, <1>5, <1>6 DEF Inv

\* No step but a peer's first makes a connection other than new.
LEMMA ShapeNext ==
  ASSUME Shape, ConnShape', ThreadShape', UNCHANGED peer,
         \A c \in Conn : conn[c].at = "new" => conn'[c].at = "new"
  PROVE  Shape'
BY DEF Shape, PeerShape, Known

-----------------------------------------------------------------------------
\* The accept thread.

LEMMA ResetConn ==
  ASSUME ConnShape, NEW b
  PROVE  /\ Reset(b) = [c \in Conn |-> Reset(b)[c]]
         /\ \A c \in Conn :
              /\ IsConn(Reset(b)[c]) /\ Reset(b)[c].io = conn[c].io
              /\ \/ Reset(b)[c].at = conn[c].at
                 \/ conn[c].at = "backlog" /\ Reset(b)[c].at = "closed"
<1>1. ASSUME NEW c \in Conn
      PROVE  /\ IsConn([conn[c] EXCEPT !.at = "closed"])
             /\ [conn[c] EXCEPT !.at = "closed"].at = "closed"
             /\ [conn[c] EXCEPT !.at = "closed"].io = conn[c].io
  BY DEF ConnShape, IsConn
<1>2. \A c \in Conn : Reset(b)[c] \in {conn[c], [conn[c] EXCEPT !.at = "closed"]}
                      /\ (Reset(b)[c] = conn[c] \/ conn[c].at = "backlog")
  BY DEF Reset
<1>. QED  BY <1>1, <1>2 DEF ConnShape, Reset

\* A reset is mild.
LEMMA ResetMild ==
  ASSUME ConnShape, NEW b, conn' = Reset(b)
  PROVE  /\ Mild /\ ConnShape'
         /\ \A c \in Conn : conn[c].at \in {"new", "accepted", "selected", "closed"} =>
                              conn'[c].at = conn[c].at
BY ResetConn DEF Mild, ConnShape

\* What a step that is mild but for connection c leaves as it was.
LEMMA OthersMild ==
  ASSUME Places, ThreadShape, NEW c \in Conn,
         conn[c].at # "accepted" \/ conn[c].io = None,
         \A d \in Conn \ {c} :
           /\ conn'[d].io = conn[d].io
           /\ \/ conn'[d].at = conn[d].at
              \/ conn[d].at \in {"new", "backlog"} /\ conn'[d].at \in {"backlog", "closed"},
         UNCHANGED <<reg, thread>>
  PROVE  /\ \A d \in Conn \ {c} : conn'[d].at \in {"new", "backlog"} => conn'[d].io = None
         /\ \A i \in IO : /\ Waits(reg[i], i)' /\ Waits(thread[i].news, i)'
                          /\ Apart(reg[i], thread[i].news)'
<1>1. \A d \in Conn \ {c} : conn'[d].at \in {"new", "backlog"} => conn'[d].io = None
  BY DEF Places
<1>2. ASSUME NEW i \in IO, NEW q \in Seq(Conn), Waits(q, i)
      PROVE  /\ \A k \in DOMAIN q : conn'[q[k]].at = "accepted" /\ conn'[q[k]].io = i
             /\ \A k, l \in DOMAIN q : q[k] = q[l] => k = l
  <2>1. \A k \in DOMAIN q : q[k] \in Conn \ {c}
    BY SMTT(30), <1>2, Constants DEF Waits
  <2>. QED  BY SMTT(30), <1>2, <2>1 DEF Waits
<1>3. ASSUME NEW i \in IO
      PROVE  Waits(reg[i], i)' /\ Waits(thread[i].news, i)' /\ Apart(reg[i], thread[i].news)'
  <2>1. reg[i] \in Seq(Conn) /\ thread[i].news \in Seq(Conn)
    BY DEF ThreadShape, IsThread
  <2>2. Waits(reg[i], i) /\ Waits(thread[i].news, i) /\ Apart(reg[i], thread[i].news)
    BY DEF Places
  <2>3. Waits(reg[i], i)'
    BY SMTT(30), <1>2, <2>1, <2>2 DEF Waits
  <2>4. Waits(thread[i].news, i)'
    BY SMTT(30), <1>2, <2>1, <2>2 DEF Waits
  <2>. QED  BY <2>2, <2>3, <2>4 DEF Apart
<1>. QED  BY <1>1, <1>3

LEMMA AcceptInv ==
  ASSUME Inv, NEW c \in Conn, Accept(c)
  PROVE  Inv'
<1>. USE DEF Inv
<1>. DEFINE rest == Reset(shut \in {"stop", "stopped"})
<1>1. ConnShape /\ ThreadShape /\ IsConn(conn[c]) /\ c \in Conn
  BY DEF Shape, ConnShape
<1>2. /\ rest = [d \in Conn |-> rest[d]]
      /\ \A d \in Conn :
           /\ IsConn(rest[d]) /\ rest[d].io = conn[d].io
           /\ \/ rest[d].at = conn[d].at
              \/ conn[d].at = "backlog" /\ rest[d].at = "closed"
  BY <1>1, ResetConn
<1>3. conn[c].at = "backlog" /\ conn[c].io = None
  BY DEF Accept, Places
<1>4. ThreadShape' /\ UNCHANGED <<max_connections, peer, registry, reg, thread>>
  BY DEF Accept, stopping, io, Shape, ThreadShape
<1>5. \A e \in UNION {thread[i].events : i \in IO} : e.conn \in Conn => e.conn # c
  BY <1>3 DEF Places
<1>6. CASE Full
  <2>. DEFINE r == [rest[c] EXCEPT !.at = "closed"]
  <2>1. /\ conn' = [rest EXCEPT ![c] = r] /\ acceptor' = [acceptor EXCEPT !.at = "loop"]
        /\ acceptor.at = "accept" /\ UNCHANGED open
    BY <1>6 DEF Accept
  <2>2. IsConn(r) /\ r.at = "closed" /\ r.io = conn[c].io
    <3>. HIDE DEF rest
    <3>1. IsConn(rest[c])
      BY <1>2
    <3>2. IsConn(r) /\ r.at = "closed" /\ r.io = rest[c].io
      BY <3>1 DEF IsConn
    <3>. QED  BY <1>2, <3>2
  <2>. HIDE DEF r, rest
  <2>3. conn' = [d \in Conn |-> IF d = c THEN r ELSE rest[d]]
    BY <1>2, <2>1
  <2>4. Mild
    BY <1>2, <1>3, <2>2, <2>3 DEF Mild
  <2>5. ConnShape'
    BY <1>1, <1>2, <2>2, <2>3 DEF ConnShape
  <2>6. \A d \in Conn : conn[d].at = "new" => conn'[d].at = "new"
    BY <1>2, <1>3, <2>3
  <2>7. acceptor'.at = "loop"
    BY <1>1, <2>1, <1>4 DEF ThreadShape, Shape
  <2>8. \A i \in IO : \A e \in thread'[i].events :
           e.conn \in Conn => conn'[e.conn].at \in {"selected", "closed"}
    BY <1>4, <2>4 DEF Places, Mild
  <2>9. Places' /\ SlotsAccounted'
    BY <1>1, <1>4, <2>1, <2>4, <2>7, <2>8, MildStep
  <2>. QED  BY <1>4, <2>5, <2>6, <2>9, ShapeNext
<1>7. CASE ~Full
  <2>. DEFINE r == [conn[c] EXCEPT !.at = "accepted", !.handshaking = Tls]
  <2>1. /\ conn' = [rest EXCEPT ![c] = r] /\ acceptor' = [at |-> "accepted", conn |-> c]
        /\ acceptor.at = "accept" /\ open' = open + 1
    BY <1>7 DEF Accept
  <2>2. IsConn(r) /\ r.at = "accepted" /\ r.io = None
    BY <1>1, <1>3 DEF IsConn
  <2>. HIDE DEF r, rest
  <2>3. conn' = [d \in Conn |-> IF d = c THEN r ELSE rest[d]]
    BY <1>2, <2>1
  <2>4. ConnShape'
    BY <1>1, <1>2, <2>2, <2>3 DEF ConnShape
  <2>5. \A d \in Conn \ {c} :
           /\ conn'[d].io = conn[d].io
           /\ \/ conn'[d].at = conn[d].at
              \/ conn[d].at \in {"new", "backlog"} /\ conn'[d].at \in {"backlog", "closed"}
    BY <1>2, <2>3
  <2>6. conn'[c].at = "accepted" /\ conn'[c].io = None
    BY <2>2, <2>3
  <2>7. /\ \A d \in Conn \ {c} : conn'[d].at \in {"new", "backlog"} => conn'[d].io = None
        /\ \A i \in IO : /\ Waits(reg[i], i)' /\ Waits(thread[i].news, i)'
                         /\ Apart(reg[i], thread[i].news)'
    BY <1>1, <1>3, <1>4, <2>5, OthersMild
  <2>8. \A i \in IO : \A e \in thread'[i].events :
           e.conn \in Conn => conn'[e.conn].at \in {"selected", "closed"}
    BY <1>4, <1>5, <2>5 DEF Places
  <2>9. Live' = Live \cup {c} /\ c \notin Live
    BY <1>2, <1>3, <2>2, <2>3 DEF Live
  <2>10. Entering = {} /\ Entering' = {c}
    BY <2>1 DEF Entering
  <2>11. open' = Cardinality(Live') /\ registry' = Live' \ Entering'
    <3>1. registry = Live /\ open = Cardinality(Live)
      BY <2>10, SlotsMean
    <3>2. Cardinality(Live \cup {c}) = Cardinality(Live) + 1
      BY <2>9, LiveFinite, FS_AddElement
    <3>. QED  BY <1>4, <2>1, <2>9, <2>10, <3>1, <3>2
  <2>12. open' <= max_connections'
    BY <1>4, <1>7, <2>1, SlotsMean, LiveFinite DEF Full
  <2>13. Places'
    BY <2>1, <2>6, <2>7, <2>8, <2>12 DEF Places
  <2>14. ThreadShape'
    BY <1>1, <1>4, <2>1 DEF ThreadShape
  <2>15. Shape'
    BY <1>3, <1>2, <1>4, <2>3, <2>4, <2>14, ShapeNext
  <2>. QED  BY <1>4, <2>11, <2>13, <2>15, SlotsMeanNext
<1>. QED  BY <1>6, <1>7

LEMMA WrapFailsInv ==
  ASSUME Inv, WrapFails
  PROVE  Inv'
<1>. USE DEF Inv
<1>. DEFINE c == acceptor.conn
            r == [conn[c] EXCEPT !.at = "closed"]
<1>1. /\ c \in Conn /\ conn[c].at = "accepted" /\ conn[c].io = None
      /\ ConnShape /\ ThreadShape
  BY DEF WrapFails, Places, Shape
<1>2. /\ conn' = [conn EXCEPT ![c] = r] /\ open' = open - 1 /\ acceptor.at = "accepted"
      /\ acceptor' = [at |-> "loop", conn |-> None]
      /\ UNCHANGED <<max_connections, registry, reg, thread, peer>>
  BY DEF WrapFails, stopping, io
<1>3. IsConn(r) /\ r.at = "closed" /\ r.io = None
  BY <1>1 DEF ConnShape, IsConn
<1>. HIDE DEF c, r
<1>4. ConnShape' /\ conn'[c] = r /\ \A d \in Conn \ {c} : conn'[d] = conn[d]
  BY <1>1, <1>2, <1>3, OneConn
<1>5. ThreadShape'
  BY <1>1, <1>2 DEF ThreadShape
<1>6. Shape'
  BY <1>1, <1>2, <1>4, <1>5, ShapeNext
<1>7. /\ \A d \in Conn \ {c} : conn'[d].at \in {"new", "backlog"} => conn'[d].io = None
      /\ \A i \in IO : /\ Waits(reg[i], i)' /\ Waits(thread[i].news, i)'
                       /\ Apart(reg[i], thread[i].news)'
  BY <1>1, <1>2, <1>4, OthersMild
<1>8. Entering = {c} /\ Entering' = {} /\ c \in Live /\ Live' = Live \ {c}
  BY <1>1, <1>2, <1>3, <1>4 DEF Entering, Live, c
<1>9. registry' = Live' \ Entering' /\ open' = Cardinality(Live')
  <2>1. Cardinality(Live \ {c}) = Cardinality(Live) - 1
    BY <1>8, LiveFinite, FS_RemoveElement
  <2>. QED  BY <1>2, <1>8, <2>1, SlotsMean
<1>10. open' <= max_connections'
  BY <1>2, SlotsMean, LiveFinite DEF Places
<1>11. Places'
  BY <1>2, <1>3, <1>4, <1>7, <1>10 DEF Places
<1>. QED  BY <1>2, <1>6, <1>9, <1>11, SlotsMeanNext

LEMMA EnterRegistryInv ==
  ASSUME Inv, EnterRegistry
  PROVE  Inv'
<1>. USE DEF Inv
<1>1. /\ acceptor.conn \in Conn /\ conn[acceptor.conn].at = "accepted" /\ ThreadShape
  BY DEF EnterRegistry, Places, Shape
<1>2. /\ acceptor.at = "accepted" /\ acceptor' = [acceptor EXCEPT !.at = "entered"]
      /\ registry' = registry \cup {acceptor.conn}
      /\ UNCHANGED <<max_connections, open, reg, thread, conn, peer>>
  BY DEF EnterRegistry, stopping, io
<1>3. acceptor'.at = "entered" /\ acceptor'.conn = acceptor.conn /\ ThreadShape'
  BY <1>1, <1>2 DEF ThreadShape
<1>4. Shape'
  BY <1>2, <1>3, ShapeNext DEF Shape, ConnShape
<1>5. Places'
  BY <1>2, <1>3 DEF Places, Waits, Apart
<1>6. acceptor.conn \in Live /\ Live' = Live
  BY <1>1, <1>2 DEF Live
<1>7. Entering = {acceptor.conn} /\ Entering' = {}
  BY <1>2, <1>3 DEF Entering
<1>. QED  BY <1>2, <1>4, <1>5, <1>6, <1>7, SlotsMean, SlotsMeanNext

LEMMA HandOverInv ==
  ASSUME Inv, HandOver
  PROVE  Inv'
<1>. USE DEF Inv
<1>. DEFINE c == acceptor.conn
<1>1. /\ c \in Conn /\ conn[c].at = "accepted" /\ conn[c].io = None
      /\ ConnShape /\ ThreadShape
  BY DEF HandOver, Places, Shape
<1>2. PICK i \in IO : /\ reg' = [reg EXCEPT ![i] = Append(reg[i], c)]
                      /\ conn' = [conn EXCEPT ![c] = [conn[c] EXCEPT !.io = i]]
  BY DEF HandOver
<1>. DEFINE r == [conn[c] EXCEPT !.io = i]
<1>3. /\ acceptor.at = "entered" /\ acceptor' = [acceptor EXCEPT !.at = "added"]
      /\ UNCHANGED <<max_connections, open, registry, thread, peer>>
  BY DEF HandOver, stopping
<1>4. IsConn(r) /\ r.at = "accepted" /\ r.io = i
  BY <1>1 DEF ConnShape, IsConn
<1>5. acceptor'.at = "added" /\ acceptor'.conn = c
  BY <1>1, <1>3 DEF ThreadShape
<1>. HIDE DEF c, r
<1>6. ConnShape' /\ conn'[c] = r /\ \A d \in Conn \ {c} : conn'[d] = conn[d]
  <2>1. conn' = [conn EXCEPT ![c] = r]
    BY <1>2 DEF r
  <2>. QED  BY <1>1, <1>4, <2>1, OneConn
<1>7. reg[i] \in Seq(Conn) /\ reg' \in [IO -> Seq(Conn)]
  <2>1. reg[i] \in Seq(Conn)
    BY <1>1 DEF ThreadShape
  <2>2. Append(reg[i], c) \in Seq(Conn)
    BY <1>1, <2>1, AppendProperties
  <2>. QED  BY <1>1, <1>2, <2>1, <2>2 DEF ThreadShape
<1>8. ThreadShape'
  BY <1>1, <1>3, <1>5, <1>7 DEF ThreadShape
<1>9. Shape'
  BY <1>1, <1>3, <1>6, <1>8, ShapeNext
<1>10. ASSUME NEW j \in IO, NEW q \in Seq(Conn), Waits(q, j)
       PROVE  /\ \A k \in DOMAIN q : q[k] # c
              /\ \A k \in DOMAIN q : conn'[q[k]].at = "accepted" /\ conn'[q[k]].io = j
              /\ \A k, l \in DOMAIN q : q[k] = q[l] => k = l
  <2>1. \A k \in DOMAIN q : q[k] \in Conn \ {c}
    BY SMTT(30), <1>1, <1>10, Constants DEF Waits
  <2>. QED  BY SMTT(30), <1>6, <1>10, <2>1 DEF Waits
<1>11. ASSUME NEW j \in IO
       PROVE  Waits(reg[j], j)' /\ Waits(thread[j].news, j)' /\ Apart(reg[j], thread[j].news)'
  <2>1. reg[j] \in Seq(Conn) /\ thread[j].news \in Seq(Conn)
    BY <1>1 DEF ThreadShape, IsThread
  <2>2. Waits(reg[j], j) /\ Waits(thread[j].news, j) /\ Apart(reg[j], thread[j].news)
    BY DEF Places
  <2>3. Waits(thread[j].news, j)'
    BY SMTT(30), <1>3, <1>10, <2>1, <2>2 DEF Waits
  <2>4. CASE j # i
    <3>1. reg'[j] = reg[j]
      BY <1>1, <1>2, <2>4 DEF ThreadShape
    <3>2. Waits(reg[j], j)'
      BY SMTT(30), <1>10, <2>1, <2>2, <3>1 DEF Waits
    <3>. QED  BY <1>3, <2>2, <2>3, <3>1, <3>2 DEF Apart
  <2>5. CASE j = i
    <3>. DEFINE q == reg[i]
                n == Len(q) + 1
    <3>1. reg'[i] = Append(q, c)
      BY <1>1, <1>2 DEF ThreadShape
    <3>2. q \in Seq(Conn) /\ Waits(q, i) /\ Len(q) \in Nat /\ DOMAIN q = 1 .. Len(q)
      BY <1>7, <2>2, <2>5
    <3>. HIDE DEF q
    <3>3. /\ DOMAIN Append(q, c) = 1 .. n
          /\ \A k \in DOMAIN q : Append(q, c)[k] = q[k]
          /\ Append(q, c)[n] = c
      BY <1>1, <3>2, AppendProperties
    <3>4. \A k \in 1 .. n : k \in DOMAIN q \/ k = n
      BY <3>2
    <3>5. conn'[c].at = "accepted" /\ conn'[c].io = i
      BY <1>4, <1>6
    <3>6. \A k \in 1 .. n : conn'[Append(q, c)[k]].at = "accepted" /\ conn'[Append(q, c)[k]].io = i
      BY <1>10, <3>2, <3>3, <3>4, <3>5
    <3>7. \A k, l \in 1 .. n : Append(q, c)[k] = Append(q, c)[l] => k = l
      BY <1>10, <3>2, <3>3, <3>4
    <3>8. Waits(reg[i], i)'
      BY SMTT(30), <3>1, <3>3, <3>6, <3>7 DEF Waits
    <3>9. \A k \in DOMAIN q, l \in DOMAIN thread[i].news : q[k] # thread[i].news[l]
      BY <2>2, <2>5 DEF Apart, q
    <3>10. \A l \in DOMAIN thread[i].news : c # thread[i].news[l]
      BY <1>10, <2>1, <2>2, <2>5
    <3>11. Apart(reg[i], thread[i].news)'
      BY <1>3, <3>1, <3>3, <3>4, <3>9, <3>10 DEF Apart
    <3>. QED  BY <2>3, <2>5, <3>8, <3>11
  <2>. QED  BY <2>4, <2>5
<1>12. \A d \in Conn : conn'[d].at = conn[d].at
                       /\ (conn'[d].at \in {"new", "backlog"} => conn'[d].io = None)
  BY <1>1, <1>4, <1>6 DEF Places
<1>13. Places'
  BY <1>3, <1>5, <1>11, <1>12 DEF Places
<1>14. Live' = Live /\ Entering = {} /\ Entering' = {}
  BY <1>3, <1>5, <1>12 DEF Live, Entering
<1>. QED  BY <1>3, <1>9, <1>13, <1>14, SlotsMean, SlotsMeanNext

LEMMA AcceptorInv ==
  ASSUME Inv, AcceptStep \/ WrapFails
  PROVE  Inv'
<1>. USE DEF Inv
<1>1. ConnShape /\ ThreadShape
  BY DEF Shape
<1>2. ASSUME Mild, ConnShape', ThreadShape', UNCHANGED peer,
             \A c \in Conn : conn[c].at \in {"new", "selected", "closed"} =>
                               conn'[c].at = conn[c].at,
             {acceptor.at, acceptor'.at} \cap {"accepted", "entered"} = {},
             UNCHANGED <<max_connections, open, registry, reg, thread>>
      PROVE  Inv'
  <2>1. \A i \in IO : \A e \in thread'[i].events :
           e.conn \in Conn => conn'[e.conn].at \in {"selected", "closed"}
    BY <1>2 DEF Places
  <2>2. Places' /\ SlotsAccounted'
    BY <1>1, <1>2, <2>1, MildStep
  <2>. QED  BY <1>2, <2>2, ShapeNext
<1>3. CASE AcceptLoop
  <2>1. /\ acceptor.at = "loop" /\ acceptor'.at \in {"ended", "accept"}
        /\ acceptor' = [at |-> acceptor'.at, conn |-> acceptor.conn]
        /\ UNCHANGED <<max_connections, open, registry, reg, thread, conn, peer>>
    BY <1>1, <1>3 DEF AcceptLoop, ThreadShape, stopping, io
  <2>2. Mild /\ ConnShape' /\ ThreadShape'
    BY <1>1, <2>1 DEF Mild, ConnShape, ThreadShape
  <2>. QED  BY <1>2, <2>1, <2>2
<1>4. CASE AcceptFails
  <2>1. /\ acceptor.at = "accept" /\ acceptor'.at = "ended" /\ conn' = Reset(TRUE)
        /\ acceptor' = [at |-> acceptor'.at, conn |-> acceptor.conn]
        /\ UNCHANGED <<max_connections, open, registry, reg, thread, peer>>
    BY <1>1, <1>4 DEF AcceptFails, ThreadShape, stopping, io
  <2>2. ThreadShape'
    BY <1>1, <2>1 DEF ThreadShape
  <2>. QED  BY <1>1, <1>2, <2>1, <2>2, ResetMild
<1>5. CASE Wake
  <2>1. /\ acceptor.at = "added" /\ acceptor' = [at |-> "loop", conn |-> None]
        /\ UNCHANGED <<max_connections, open, registry, reg, thread, conn, peer>>
    BY <1>5 DEF Wake, stopping
  <2>2. Mild /\ ConnShape' /\ ThreadShape'
    BY <1>1, <2>1 DEF Mild, ConnShape, ThreadShape
  <2>. QED  BY <1>2, <2>1, <2>2
<1>. QED  BY <1>3, <1>4, <1>5, AcceptInv, WrapFailsInv, EnterRegistryInv, HandOverInv
          DEF AcceptStep

-----------------------------------------------------------------------------
\* The I/O threads.

\* A connection that has been handed over becomes what an event makes of it,
\* and its slot is given back when that closes it.
LEMMA BecomesSlots ==
  ASSUME Inv, NEW c \in Conn, NEW s, Becomes(c, s), IsConn(s), s.io = conn[c].io,
         s.at \in {"selected", "closed"}, conn[c].at \in {"accepted", "selected", "closed"},
         conn[c].at = "closed" => s.at = "closed",
         acceptor.at \in {"accepted", "entered"} => c # acceptor.conn,
         UNCHANGED <<acceptor, max_connections>>
  PROVE  /\ ConnShape' /\ SlotsAccounted' /\ open' <= max_connections'
         /\ conn'[c] = s /\ \A d \in Conn \ {c} : conn'[d] = conn[d]
         /\ \A d \in Conn : conn[d].at = "new" => conn'[d].at = "new"
         /\ \A d \in Conn : conn'[d].at \in {"new", "backlog"} => conn'[d].io = None
         /\ acceptor'.at \in {"accepted", "entered"} =>
              /\ acceptor'.conn \in Conn
              /\ conn'[acceptor'.conn].at = "accepted" /\ conn'[acceptor'.conn].io = None
<1>. USE DEF Inv
<1>1. ConnShape /\ conn[c].io \in IO \cup {None} /\ conn' = [conn EXCEPT ![c] = s]
  BY DEF Shape, ConnShape, Becomes
<1>2. ConnShape' /\ conn'[c] = s /\ \A d \in Conn \ {c} : conn'[d] = conn[d]
  BY <1>1, OneConn
<1>3. registry = Live \ Entering /\ open = Cardinality(Live) /\ open <= max_connections
  BY SlotsMean DEF Places
<1>4. Entering' = Entering /\ c \notin Entering
  BY DEF Entering
<1>5. open \in Nat
  BY <1>3, LiveFinite
<1>6. SlotsAccounted' /\ open' <= max_connections'
  <2>1. CASE c \in Live /\ s.at = "closed"
    <3>1. c \in registry
      BY <1>3, <1>4, <2>1
    <3>2. registry' = registry \ {c} /\ open' = open - 1
      BY <2>1, <3>1 DEF Becomes
    <3>3. Live' = Live \ {c}
      BY <1>2, <2>1 DEF Live
    <3>4. Cardinality(Live \ {c}) = Cardinality(Live) - 1
      BY <2>1, LiveFinite, FS_RemoveElement
    <3>. QED  BY <1>3, <1>4, <1>5, <3>2, <3>3, <3>4, SlotsMeanNext
  <2>2. CASE c \notin Live \/ s.at # "closed"
    <3>1. UNCHANGED <<registry, open>>
      BY <1>3, <2>2 DEF Becomes
    <3>2. Live' = Live
      BY <1>2, <2>2 DEF Live
    <3>. QED  BY <1>3, <1>4, <3>1, <3>2, SlotsMeanNext
  <2>. QED  BY <2>1, <2>2
<1>. QED  BY <1>2, <1>6 DEF Places

LEMMA TakeNewInv ==
  ASSUME Inv, NEW i \in IO, TakeNew(i)
  PROVE  Inv'
<1>. USE DEF Inv
<1>. DEFINE q == thread[i].news
            c == Head(q)
            r == [conn[c] EXCEPT !.at = "selected"]
<1>1. ConnShape /\ ThreadShape /\ q \in Seq(Conn) /\ q # <<>> /\ IsThread(thread[i])
  BY DEF TakeNew, Shape, ThreadShape, IsThread
<1>2. /\ c \in Conn /\ c = q[1] /\ Tail(q) \in Seq(Conn)
      /\ DOMAIN q = 1 .. Len(q) /\ 1 \in DOMAIN q /\ DOMAIN Tail(q) = 1 .. Len(q) - 1
      /\ \A k \in DOMAIN Tail(q) : Tail(q)[k] = q[k + 1] /\ k + 1 \in DOMAIN q
      /\ Len(q) \in Nat
  BY <1>1, HeadTailProperties
<1>3. /\ thread' = [thread EXCEPT ![i] = [thread[i] EXCEPT !.news = Tail(q)]]
      /\ UNCHANGED <<max_connections, acceptor, reg, peer>>
  BY DEF TakeNew, stopping
<1>4. Waits(q, i)
  BY DEF Places
<1>5. conn[c].at = "accepted" /\ conn[c].io = i
  BY SMTT(30), <1>2, <1>4 DEF Waits
<1>6. IsConn(r) /\ r.at = "selected" /\ r.io = i
  BY <1>1, <1>2, <1>5 DEF ConnShape, IsConn
<1>7. PICK s : /\ s \in (IF r.handshaking THEN Shaken(c, r) ELSE Established(c, r))
               /\ Becomes(c, s)
  BY DEF TakeNew
<1>. HIDE DEF r
<1>8. Follows(r, s)
  <2>1. peer[c].at \in {"up", "gone"} /\ peer[c].tls \in {"pending", "done", "failed"}
    BY <1>2, <1>5 DEF Shape, PeerShape, IsPeer, Known
  <2>. QED  BY <1>6, <1>7, <2>1, ShakenFollows, EstablishedFollows
<1>9. acceptor.at \in {"accepted", "entered"} => c # acceptor.conn
  BY <1>5, Constants DEF Places
<1>10. /\ ConnShape' /\ SlotsAccounted' /\ open' <= max_connections'
       /\ conn'[c] = s /\ \A d \in Conn \ {c} : conn'[d] = conn[d]
       /\ \A d \in Conn : conn[d].at = "new" => conn'[d].at = "new"
       /\ \A d \in Conn : conn'[d].at \in {"new", "backlog"} => conn'[d].io = None
       /\ acceptor'.at \in {"accepted", "entered"} =>
            /\ acceptor'.conn \in Conn
            /\ conn'[acceptor'.conn].at = "accepted" /\ conn'[acceptor'.conn].io = None
  <2>1. IsConn(s) /\ s.io = conn[c].io /\ s.at \in {"selected", "closed"}
    BY <1>5, <1>6, <1>8 DEF Follows
  <2>. HIDE DEF c, q
  <2>. QED  BY <1>2, <1>3, <1>5, <1>7, <1>9, <2>1, BecomesSlots
<1>11. IsThread([thread[i] EXCEPT !.news = Tail(q)])
  BY <1>1, <1>2 DEF IsThread
<1>12. /\ thread' = [j \in IO |-> thread'[j]] /\ \A j \in IO : IsThread(thread'[j])
       /\ thread'[i] = [thread[i] EXCEPT !.news = Tail(q)]
       /\ \A j \in IO \ {i} : thread'[j] = thread[j]
  BY <1>1, <1>3, <1>11, OneThread
<1>13. ThreadShape'
  BY <1>1, <1>3, <1>12 DEF ThreadShape
<1>14. Shape'
  BY <1>3, <1>10, <1>13, ShapeNext
<1>15. thread'[i].news = Tail(q) /\ thread'[i].events = thread[i].events
  BY <1>1, <1>12 DEF IsThread
<1>16. \A j \in IO : \A e \in thread'[j].events :
          e.conn \in Conn => conn'[e.conn].at \in {"selected", "closed"}
  <2>1. ASSUME NEW j \in IO, NEW e \in thread'[j].events, e.conn \in Conn
        PROVE  conn'[e.conn].at \in {"selected", "closed"}
    <3>1. conn[e.conn].at \in {"selected", "closed"}
      BY <1>12, <1>15, <2>1 DEF Places
    <3>. QED  BY <1>5, <1>10, <2>1, <3>1
  <2>. QED  BY <2>1
\* Whoever waits elsewhere is not the connection taken.
<1>17. ASSUME NEW j \in IO, NEW p \in Seq(Conn), Waits(p, j), \A k \in DOMAIN p : p[k] # c
       PROVE  /\ \A k \in DOMAIN p : conn'[p[k]].at = "accepted" /\ conn'[p[k]].io = j
              /\ \A k, l \in DOMAIN p : p[k] = p[l] => k = l
  <2>1. \A k \in DOMAIN p : p[k] \in Conn \ {c}
    BY <1>17
  <2>. QED  BY SMTT(30), <1>10, <1>17, <2>1 DEF Waits
<1>18. ASSUME NEW j \in IO
       PROVE  Waits(reg[j], j)' /\ Waits(thread[j].news, j)' /\ Apart(reg[j], thread[j].news)'
  <2>1. reg[j] \in Seq(Conn) /\ thread[j].news \in Seq(Conn)
    BY <1>1 DEF ThreadShape, IsThread
  <2>2. Waits(reg[j], j) /\ Waits(thread[j].news, j) /\ Apart(reg[j], thread[j].news)
    BY DEF Places
  <2>3. CASE j # i
    <3>1. /\ \A k \in DOMAIN reg[j] : reg[j][k] # c
          /\ \A k \in DOMAIN thread[j].news : thread[j].news[k] # c
      BY SMTT(30), <1>5, <2>2, <2>3 DEF Waits
    <3>2. thread'[j] = thread[j] /\ reg'[j] = reg[j]
      BY <1>3, <1>12, <2>3
    <3>3. Waits(reg[j], j)'
      BY SMTT(30), <1>17, <2>1, <2>2, <3>1, <3>2 DEF Waits
    <3>4. Waits(thread[j].news, j)'
      BY SMTT(30), <1>17, <2>1, <2>2, <3>1, <3>2 DEF Waits
    <3>. QED  BY <2>2, <3>2, <3>3, <3>4 DEF Apart
  <2>4. CASE j = i
    <3>1. \A k \in DOMAIN reg[i] : reg[i][k] # c
      BY <1>2, <2>2, <2>4 DEF Apart
    <3>2. \A k \in DOMAIN Tail(q) : Tail(q)[k] # c
      <4>. SUFFICES ASSUME NEW k \in DOMAIN Tail(q), q[k + 1] = q[1]
                    PROVE  FALSE
        BY <1>2
      <4>1. k + 1 \in DOMAIN q /\ 1 \in DOMAIN q
        BY <1>2
      <4>2. k + 1 = 1
        BY SMTT(30), <1>4, <4>1 DEF Waits
      <4>. QED  BY <1>2, <4>2
    <3>3. Waits(Tail(q), i)
      <4>1. \A k, l \in DOMAIN Tail(q) : Tail(q)[k] = Tail(q)[l] => k = l
        <5>. SUFFICES ASSUME NEW k \in DOMAIN Tail(q), NEW l \in DOMAIN Tail(q),
                             q[k + 1] = q[l + 1]
                      PROVE  k = l
          BY <1>2
        <5>1. k + 1 = l + 1
          BY SMTT(30), <1>2, <1>4 DEF Waits
        <5>. QED  BY <1>2, <5>1
      <4>. QED  BY SMTT(30), <1>2, <1>4, <4>1 DEF Waits
    <3>4. \A k \in DOMAIN reg[i], l \in DOMAIN Tail(q) : reg[i][k] # Tail(q)[l]
      BY <1>2, <2>2, <2>4 DEF Apart
    <3>5. reg'[i] = reg[i] /\ thread'[i].news = Tail(q) /\ Tail(q) \in Seq(Conn)
      BY <1>2, <1>3, <1>15
    <3>. HIDE DEF q, c
    <3>6. Waits(reg[i], i)'
      <4>1. reg[i] \in Seq(Conn) /\ Waits(reg[i], i)
        BY <2>1, <2>2, <2>4
      <4>2. /\ \A k \in DOMAIN reg[i] : conn'[reg[i][k]].at = "accepted" /\ conn'[reg[i][k]].io = i
            /\ \A k, l \in DOMAIN reg[i] : reg[i][k] = reg[i][l] => k = l
        BY <1>17, <3>1, <4>1
      <4>. QED  BY SMTT(30), <3>5, <4>2 DEF Waits
    <3>7. Waits(thread[i].news, i)'
      <4>. DEFINE t == Tail(q)
      <4>1. t \in Seq(Conn) /\ Waits(t, i) /\ \A k \in DOMAIN t : t[k] # c
        BY <3>2, <3>3, <3>5
      <4>. HIDE DEF t
      <4>2. /\ \A k \in DOMAIN t : conn'[t[k]].at = "accepted" /\ conn'[t[k]].io = i
            /\ \A k, l \in DOMAIN t : t[k] = t[l] => k = l
        BY <1>17, <4>1
      <4>3. thread'[i].news = t
        BY <3>5 DEF t
      <4>. QED  BY SMTT(30), <4>2, <4>3 DEF Waits
    <3>8. Apart(reg[i], thread[i].news)'
      BY <3>4, <3>5 DEF Apart
    <3>. QED  BY <2>4, <3>6, <3>7, <3>8
  <2>. QED  BY <2>3, <2>4
<1>. HIDE DEF q, c
<1>19. Places'
  BY <1>10, <1>16, <1>18 DEF Places
<1>. QED  BY <1>3, <1>10, <1>14, <1>19

\* The lists and the connections are as they were, for thread i's other events.
LEMMA EventsInv ==
  ASSUME Inv, NEW i \in IO, NEW c \in Conn, NEW s, Becomes(c, s), Follows(conn[c], s),
         conn[c].at \in {"selected", "closed"}, NEW es \in SUBSET thread[i].events,
         thread' = [thread EXCEPT ![i] = [thread[i] EXCEPT !.events = es]],
         UNCHANGED <<max_connections, acceptor, reg, peer>>
  PROVE  Inv'
<1>. USE DEF Inv
<1>. DEFINE t == [thread[i] EXCEPT !.events = es]
<1>1. ConnShape /\ ThreadShape /\ IsThread(thread[i])
  BY DEF Shape, ThreadShape
<1>2. IsThread(t) /\ t.news = thread[i].news /\ t.events \subseteq thread[i].events
  BY <1>1 DEF IsThread
<1>. HIDE DEF t
<1>3. /\ thread' = [j \in IO |-> thread'[j]] /\ \A j \in IO : IsThread(thread'[j])
      /\ thread'[i] = t /\ \A j \in IO \ {i} : thread'[j] = thread[j]
  <2>1. thread' = [thread EXCEPT ![i] = t]
    BY DEF t
  <2>. QED  BY <1>1, <1>2, <2>1, OneThread
<1>4. ThreadShape'
  BY <1>1, <1>3 DEF ThreadShape
<1>5. acceptor.at \in {"accepted", "entered"} => c # acceptor.conn
  BY DEF Places
<1>6. /\ ConnShape' /\ SlotsAccounted' /\ open' <= max_connections'
      /\ conn'[c] = s /\ \A d \in Conn \ {c} : conn'[d] = conn[d]
      /\ \A d \in Conn : conn[d].at = "new" => conn'[d].at = "new"
      /\ \A d \in Conn : conn'[d].at \in {"new", "backlog"} => conn'[d].io = None
      /\ acceptor'.at \in {"accepted", "entered"} =>
           /\ acceptor'.conn \in Conn
           /\ conn'[acceptor'.conn].at = "accepted" /\ conn'[acceptor'.conn].io = None
  <2>1. IsConn(s) /\ s.io = conn[c].io /\ s.at \in {"selected", "closed"}
        /\ (conn[c].at = "closed" => s.at = "closed")
    BY DEF Follows
  <2>. QED  BY <1>5, <2>1, BecomesSlots
<1>7. Shape'
  BY <1>4, <1>6, ShapeNext
<1>8. \A j \in IO : \A e \in thread'[j].events :
         e.conn \in Conn => conn'[e.conn].at \in {"selected", "closed"}
  <2>1. ASSUME NEW j \in IO, NEW e \in thread'[j].events, e.conn \in Conn
        PROVE  conn'[e.conn].at \in {"selected", "closed"}
    <3>1. conn[e.conn].at \in {"selected", "closed"}
      BY <1>2, <1>3, <2>1 DEF Places
    <3>. QED  BY <1>6, <2>1, <3>1 DEF Follows
  <2>. QED  BY <2>1
<1>9. ASSUME NEW j \in IO, NEW q \in Seq(Conn), Waits(q, j)
      PROVE  /\ \A k \in DOMAIN q : conn'[q[k]].at = "accepted" /\ conn'[q[k]].io = j
             /\ \A k, l \in DOMAIN q : q[k] = q[l] => k = l
  <2>1. \A k \in DOMAIN q : q[k] \in Conn \ {c}
    BY SMTT(30), <1>9 DEF Waits
  <2>. QED  BY SMTT(30), <1>6, <1>9, <2>1 DEF Waits
<1>10. ASSUME NEW j \in IO
       PROVE  Waits(reg[j], j)' /\ Waits(thread[j].news, j)' /\ Apart(reg[j], thread[j].news)'
  <2>1. reg[j] \in Seq(Conn) /\ thread[j].news \in Seq(Conn)
    BY <1>1 DEF ThreadShape, IsThread
  <2>2. Waits(reg[j], j) /\ Waits(thread[j].news, j) /\ Apart(reg[j], thread[j].news)
    BY DEF Places
  <2>3. thread'[j].news = thread[j].news /\ reg'[j] = reg[j]
    BY <1>2, <1>3
  <2>4. Waits(reg[j], j)'
    BY SMTT(30), <1>9, <2>1, <2>2, <2>3 DEF Waits
  <2>5. Waits(thread[j].news, j)'
    BY SMTT(30), <1>9, <2>1, <2>2, <2>3 DEF Waits
  <2>. QED  BY <2>2, <2>3, <2>4, <2>5 DEF Apart
<1>11. Places'
  BY <1>6, <1>8, <1>10 DEF Places
<1>. QED  BY <1>6, <1>7, <1>11

LEMMA ConnEventInv ==
  ASSUME Inv, NEW i \in IO, ConnEvent(i)
  PROVE  Inv'
<1>. USE DEF Inv
<1>1. PICK e \in thread[i].events :
        /\ e.conn # None
        /\ LET c == e.conn
           IN  IF conn[c].handshaking
               THEN \E r \in Shaken(c, conn[c]) : Becomes(c, r)
               ELSE \E r \in IF e.read THEN Read(c, conn[c]) ELSE {conn[c]} :
                      \E s \in IF e.write THEN Written(c, r) ELSE {r} : Becomes(c, s)
        /\ thread' = [thread EXCEPT ![i] = [thread[i] EXCEPT !.events = thread[i].events \ {e}]]
  BY DEF ConnEvent
<1>. DEFINE c == e.conn
<1>2. c \in Conn
  BY <1>1 DEF Shape, ThreadShape, IsThread
<1>3. conn[c].at \in {"selected", "closed"} /\ IsConn(conn[c])
  BY <1>2 DEF Places, Shape, ConnShape
<1>4. UNCHANGED <<max_connections, acceptor, reg, peer>>
  BY DEF ConnEvent, stopping
<1>5. thread[i].events \ {e} \in SUBSET thread[i].events
  OBVIOUS
<1>6. PICK s : Becomes(c, s) /\ Follows(conn[c], s)
  <2>1. CASE conn[c].handshaking
    <3>1. PICK s \in Shaken(c, conn[c]) : Becomes(c, s)
      BY <1>1, <2>1
    <3>2. peer[c].at \in {"up", "gone"} /\ peer[c].tls \in {"pending", "done", "failed"}
      BY <1>2, <1>3 DEF Shape, PeerShape, IsPeer, Known
    <3>. QED  BY <1>3, <3>1, <3>2, ShakenFollows
  <2>2. CASE ~conn[c].handshaking
    <3>1. PICK r \in (IF e.read THEN Read(c, conn[c]) ELSE {conn[c]}) :
            \E s \in IF e.write THEN Written(c, r) ELSE {r} : Becomes(c, s)
      BY <1>1, <2>2
    <3>2. PICK s \in (IF e.write THEN Written(c, r) ELSE {r}) : Becomes(c, s)
      BY <3>1
    <3>3. Follows(conn[c], r)
      BY <1>3, <3>1, ReadFollows, FieldFollows
    <3>4. IsConn(r)
      BY <3>3 DEF Follows
    <3>5. Follows(r, s)
      BY <3>2, <3>4, WrittenFollows, FieldFollows
    <3>. QED  BY <3>2, <3>3, <3>5, FollowsOn
  <2>. QED  BY <2>1, <2>2
<1>. HIDE DEF c
<1>. QED  BY <1>1, <1>2, <1>3, <1>4, <1>5, <1>6, EventsInv

LEMMA SelectInv ==
  ASSUME Inv, NEW i \in IO, Select(i) \/ WakeEvent(i)
  PROVE  Inv'
<1>. USE DEF Inv
<1>1. ConnShape /\ ThreadShape /\ IsThread(thread[i])
  BY DEF Shape, ThreadShape
<1>2. UNCHANGED <<max_connections, acceptor, open, registry, reg, conn, peer>>
  BY DEF Select, WakeEvent, stopping, accepting
<1>3. PICK r : /\ thread' = [thread EXCEPT ![i] = r]
               /\ IsThread(r) /\ r.news = thread[i].news
               /\ \A e \in r.events : e.conn \in Conn => conn[e.conn].at \in {"selected", "closed"}
  <2>1. CASE Select(i)
    <3>. DEFINE r == [thread[i] EXCEPT !.events = Events(i)]
    <3>1. thread' = [thread EXCEPT ![i] = r]
      BY <2>1 DEF Select
    <3>2. \A e \in Events(i) : e.conn \in Mine(i) \/ e.conn = None
      BY DEF Events
    <3>3. Mine(i) \subseteq Conn /\ \A d \in Mine(i) : conn[d].at = "selected"
      BY DEF Mine
    <3>4. IsThread(r) /\ r.news = thread[i].news /\ r.events = Events(i)
      BY <1>1, <3>2, <3>3 DEF IsThread
    <3>. HIDE DEF r
    <3>5. \A e \in r.events : e.conn \in Conn => conn[e.conn].at \in {"selected", "closed"}
      BY <3>2, <3>3, <3>4, Constants
    <3>6. thread' = [thread EXCEPT ![i] = r]
      BY <3>1
    <3>. QED  BY <3>4, <3>5, <3>6
  <2>2. CASE WakeEvent(i)
    <3>1. PICK e \in thread[i].events :
            thread' = [thread EXCEPT ![i] = [thread[i] EXCEPT !.at = "wake",
                                                              !.events = thread[i].events \ {e}]]
      BY <1>1, <2>2 DEF WakeEvent, IsThread, ThreadShape
    <3>. DEFINE r == [thread[i] EXCEPT !.at = "wake", !.events = thread[i].events \ {e}]
    <3>2. IsThread(r) /\ r.news = thread[i].news /\ r.events \subseteq thread[i].events
      BY <1>1 DEF IsThread
    <3>. HIDE DEF r
    <3>3. thread' = [thread EXCEPT ![i] = r]
      BY <3>1 DEF r
    <3>. QED  BY <3>2, <3>3 DEF Places
  <2>. QED  BY <2>1, <2>2
<1>4. /\ thread' = [j \in IO |-> thread'[j]] /\ \A j \in IO : IsThread(thread'[j])
      /\ thread'[i] = r /\ \A j \in IO \ {i} : thread'[j] = thread[j]
  BY <1>1, <1>3, OneThread
<1>5. ThreadShape' /\ ConnShape' /\ Mild
  BY <1>1, <1>2, <1>4 DEF ThreadShape, ConnShape, Mild
<1>6. Shape'
  BY <1>2, <1>5, ShapeNext
<1>7. \A j \in IO : thread'[j].news = thread[j].news
  BY <1>3, <1>4
<1>8. \A j \in IO : \A e \in thread'[j].events :
         e.conn \in Conn => conn'[e.conn].at \in {"selected", "closed"}
  BY <1>2, <1>3, <1>4 DEF Places
<1>9. Places' /\ SlotsAccounted'
  BY <1>1, <1>2, <1>5, <1>7, <1>8, MildStep
<1>. QED  BY <1>2, <1>6, <1>9

LEMMA DrainRegInv ==
  ASSUME Inv, NEW i \in IO, DrainReg(i)
  PROVE  Inv'
<1>. USE DEF Inv
<1>. DEFINE r == [thread[i] EXCEPT !.at = "loop", !.news = reg[i]]
<1>1. ConnShape /\ ThreadShape /\ IsThread(thread[i]) /\ reg[i] \in Seq(Conn)
  BY DEF Shape, ThreadShape
<1>2. /\ UNCHANGED <<max_connections, acceptor, open, registry, conn, peer>>
      /\ reg' = [reg EXCEPT ![i] = <<>>]
  BY DEF DrainReg, stopping, accepting
<1>3. thread' = [thread EXCEPT ![i] = r]
  BY <1>1 DEF DrainReg, ThreadShape, IsThread
<1>4. IsThread(r) /\ r.news = reg[i] /\ r.events = thread[i].events
  BY <1>1 DEF IsThread
<1>. HIDE DEF r
<1>5. /\ thread' = [j \in IO |-> thread'[j]] /\ \A j \in IO : IsThread(thread'[j])
      /\ thread'[i] = r /\ \A j \in IO \ {i} : thread'[j] = thread[j]
  BY <1>1, <1>3, <1>4, OneThread
<1>6. /\ reg' \in [IO -> Seq(Conn)] /\ reg'[i] = <<>>
      /\ \A j \in IO \ {i} : reg'[j] = reg[j]
  BY <1>1, <1>2 DEF ThreadShape
<1>7. ThreadShape' /\ ConnShape'
  BY <1>1, <1>2, <1>5, <1>6 DEF ThreadShape, ConnShape
<1>8. Shape'
  BY <1>2, <1>7, ShapeNext
<1>9. \A j \in IO : Waits(reg[j], j) /\ Waits(thread[j].news, j) /\ Apart(reg[j], thread[j].news)
  BY DEF Places
<1>10. ASSUME NEW j \in IO
       PROVE  Waits(reg[j], j)' /\ Waits(thread[j].news, j)' /\ Apart(reg[j], thread[j].news)'
  <2>1. CASE j = i
    <3>1. reg'[j] = <<>> /\ thread'[j].news = reg[j]
      BY <1>4, <1>5, <1>6, <2>1
    <3>. QED  BY <1>2, <1>9, <3>1 DEF Waits, Apart
  <2>2. CASE j # i
    <3>1. reg'[j] = reg[j] /\ thread'[j] = thread[j]
      BY <1>5, <1>6, <2>2
    <3>. QED  BY <1>2, <1>9, <3>1 DEF Waits, Apart
  <2>. QED  BY <2>1, <2>2
<1>11. \A j \in IO : \A e \in thread'[j].events :
          e.conn \in Conn => conn'[e.conn].at \in {"selected", "closed"}
  BY <1>2, <1>4, <1>5 DEF Places
<1>12. Places'
  BY <1>2, <1>10, <1>11 DEF Places
<1>13. Live' = Live /\ Entering' = Entering
  BY <1>2 DEF Live, Entering
<1>. QED  BY <1>2, <1>8, <1>12, <1>13, SlotsMean, SlotsMeanNext

LEMMA TeardownInv ==
  ASSUME Inv, NEW i \in IO, Teardown(i)
  PROVE  Inv'
<1>. USE DEF Inv
<1>. DEFINE M == Mine(i)
            t == [thread[i] EXCEPT !.at = "ended"]
<1>1. ConnShape /\ ThreadShape /\ IsThread(thread[i])
  BY DEF Shape, ThreadShape
<1>2. /\ thread' = [thread EXCEPT ![i] = t]
      /\ registry' = registry \ M /\ open' = open - Cardinality(registry \cap M)
      /\ UNCHANGED <<max_connections, acceptor, reg, peer>>
  BY DEF Teardown, stopping
<1>3. conn' = [c \in Conn |-> IF c \in M THEN Closed(conn[c]) ELSE conn[c]]
  BY DEF Teardown
<1>4. \A c \in M : c \in Conn /\ conn[c].at = "selected"
  BY DEF Mine
<1>5. IsThread(t) /\ t.news = thread[i].news /\ t.events = thread[i].events
  BY <1>1 DEF IsThread
<1>. HIDE DEF M, t
<1>6. /\ thread' = [j \in IO |-> thread'[j]] /\ \A j \in IO : IsThread(thread'[j])
      /\ thread'[i] = t /\ \A j \in IO \ {i} : thread'[j] = thread[j]
  BY <1>1, <1>2, <1>5, OneThread
<1>7. /\ \A c \in Conn \ M : conn'[c] = conn[c]
      /\ \A c \in M : IsConn(conn'[c]) /\ conn'[c].at = "closed" /\ conn'[c].io = conn[c].io
  <2>1. \A c \in Conn : IsConn(conn[c])
    BY <1>1 DEF ConnShape
  <2>2. \A c \in M : Follows(conn[c], Closed(conn[c])) /\ Closed(conn[c]).at = "closed"
    BY <1>4, <2>1, ClosedFollows
  <2>3. \A c \in M : conn'[c] = Closed(conn[c])
    BY <1>3, <1>4
  <2>. QED  BY <1>3, <2>2, <2>3 DEF Follows
<1>8. ConnShape'
  BY <1>1, <1>3, <1>7 DEF ConnShape
<1>9. ThreadShape'
  BY <1>1, <1>2, <1>6 DEF ThreadShape
<1>10. Shape'
  BY <1>2, <1>4, <1>7, <1>8, <1>9, ShapeNext
<1>11. ASSUME NEW j \in IO, NEW q \in Seq(Conn), Waits(q, j)
       PROVE  /\ \A k \in DOMAIN q : conn'[q[k]].at = "accepted" /\ conn'[q[k]].io = j
              /\ \A k, l \in DOMAIN q : q[k] = q[l] => k = l
  <2>1. \A k \in DOMAIN q : q[k] \in Conn \ M
    BY SMTT(30), <1>4, <1>11 DEF Waits
  <2>. QED  BY SMTT(30), <1>7, <1>11, <2>1 DEF Waits
<1>12. ASSUME NEW j \in IO
       PROVE  Waits(reg[j], j)' /\ Waits(thread[j].news, j)' /\ Apart(reg[j], thread[j].news)'
  <2>1. reg[j] \in Seq(Conn) /\ thread[j].news \in Seq(Conn)
    BY <1>1 DEF ThreadShape, IsThread
  <2>2. Waits(reg[j], j) /\ Waits(thread[j].news, j) /\ Apart(reg[j], thread[j].news)
    BY DEF Places
  <2>3. thread'[j].news = thread[j].news /\ reg'[j] = reg[j]
    BY <1>2, <1>5, <1>6
  <2>4. Waits(reg[j], j)'
    BY SMTT(30), <1>11, <2>1, <2>2, <2>3 DEF Waits
  <2>5. Waits(thread[j].news, j)'
    BY SMTT(30), <1>11, <2>1, <2>2, <2>3 DEF Waits
  <2>. QED  BY <2>2, <2>3, <2>4, <2>5 DEF Apart
<1>13. \A j \in IO : \A e \in thread'[j].events :
          e.conn \in Conn => conn'[e.conn].at \in {"selected", "closed"}
  <2>1. ASSUME NEW j \in IO, NEW e \in thread'[j].events, e.conn \in Conn
        PROVE  conn'[e.conn].at \in {"selected", "closed"}
    <3>1. conn[e.conn].at \in {"selected", "closed"}
      BY <1>5, <1>6, <2>1 DEF Places
    <3>. QED  BY <1>7, <2>1, <3>1
  <2>. QED  BY <2>1
<1>14. M \subseteq registry /\ M \subseteq Live
  BY <1>4, SlotsMean DEF Live, Entering, Places
<1>15. Live' = Live \ M /\ Entering' = Entering
  BY <1>2, <1>4, <1>7 DEF Live, Entering
<1>16. IsFiniteSet(M) /\ Cardinality(M) \in Nat
  BY <1>14, LiveFinite, FS_Subset, FS_CardinalityType
<1>17. open' = Cardinality(Live')
  <2>1. registry \cap M = M /\ Live \cap M = M
    BY <1>14
  <2>2. Cardinality(Live \ M) = Cardinality(Live) - Cardinality(Live \cap M)
    BY <1>16, LiveFinite, FS_Difference
  <2>. QED  BY <1>2, <1>15, <2>1, <2>2, SlotsMean
<1>18. open' <= max_connections'
  <2>1. registry \cap M = M /\ open \in Nat /\ max_connections \in Nat /\ open <= max_connections
    BY <1>14, SlotsMean, LiveFinite DEF Places
  <2>. QED  BY <1>2, <1>16, <2>1
<1>19. /\ \A c \in Conn : conn'[c].at \in {"new", "backlog"} => conn'[c].io = None
       /\ acceptor.at \in {"accepted", "entered"} =>
            /\ acceptor.conn \in Conn
            /\ conn'[acceptor.conn].at = "accepted" /\ conn'[acceptor.conn].io = None
  BY <1>4, <1>7 DEF Places
<1>20. Places'
  BY <1>2, <1>12, <1>13, <1>18, <1>19 DEF Places
<1>21. SlotsAccounted'
  BY <1>2, <1>15, <1>17, SlotsMean, SlotsMeanNext
<1>. QED  BY <1>2, <1>10, <1>20, <1>21

-----------------------------------------------------------------------------
\* The peers, and the owner of the server.

LEMMA OutsideInv ==
  ASSUME Inv, OwnerStep \/ \E c \in Conn : PeerStep(c)
  PROVE  Inv'
<1>. USE DEF Inv
<1>1. ConnShape /\ ThreadShape
  BY DEF Shape
<1>2. UNCHANGED <<max_connections, acceptor, open, registry, reg, thread>>
  BY ZenonT(40) DEF OwnerStep, AdmitPeer, RevokePeer, Shutdown, StopIO, PeerStep, Connect, Shake, Send, SendRest,
         Receive, Hangup, stopping, accepting, io
<1>3. Shape' /\ Mild
  <2>1. ThreadShape'
    BY <1>1, <1>2 DEF ThreadShape
  <2>2. CASE \E c \in Conn : PeerStep(c)
    BY <2>1, <2>2, PeerShapes DEF Shape
  <2>3. CASE OwnerStep
    <3>1. UNCHANGED peer /\ (UNCHANGED conn \/ \E b \in BOOLEAN : conn' = Reset(b))
      BY <2>3 DEF OwnerStep, AdmitPeer, RevokePeer, Shutdown, StopIO
    <3>2. Mild /\ ConnShape' /\ \A c \in Conn : conn[c].at = "new" => conn'[c].at = "new"
      <4>1. CASE UNCHANGED conn
        BY <1>1, <4>1 DEF Mild, ConnShape
      <4>2. CASE \E b \in BOOLEAN : conn' = Reset(b)
        BY <1>1, <4>2, ResetMild
      <4>. QED  BY <3>1, <4>1, <4>2
    <3>. QED  BY <2>1, <3>1, <3>2, ShapeNext
  <2>. QED  BY <2>2, <2>3
<1>4. \A j \in IO : \A e \in thread'[j].events :
         e.conn \in Conn => conn'[e.conn].at \in {"selected", "closed"}
  BY <1>2, <1>3 DEF Places, Mild
<1>5. Places' /\ SlotsAccounted'
  BY <1>1, <1>2, <1>3, <1>4, MildStep
<1>. QED  BY <1>2, <1>3, <1>5

LEMMA NextInv == Inv /\ [Next]_vars => Inv'
<1> SUFFICES ASSUME Inv, [Next]_vars PROVE Inv'
  OBVIOUS
<1>1. CASE AcceptStep \/ WrapFails
  BY <1>1, AcceptorInv
<1>2. CASE \E i \in IO : IOStep(i)
  BY <1>2, SelectInv, DrainRegInv, TakeNewInv, ConnEventInv, TeardownInv DEF IOStep
<1>3. CASE OwnerStep \/ \E c \in Conn : PeerStep(c)
  BY <1>3, OutsideInv
<1>4. CASE UNCHANGED vars
  <2>1. UNCHANGED <<max_connections, acceptor, open, registry, reg, thread, conn, peer>>
    BY <1>4 DEF vars
  <2>2. Shape'
    BY <2>1 DEF Inv, Shape, ConnShape, PeerShape, ThreadShape, Known
  <2>3. \A i \in IO : Waits(reg[i], i)' /\ Waits(thread[i].news, i)' /\ Apart(reg[i], thread[i].news)'
    BY <2>1 DEF Inv, Places, Waits, Apart
  <2>4. Places'
    BY <2>1, <2>3 DEF Inv, Places
  <2>5. SlotsAccounted'
    BY <2>1 DEF Inv, SlotsAccounted
  <2>. QED  BY <2>1, <2>2, <2>4, <2>5 DEF Inv
<1>. QED  BY <1>1, <1>2, <1>3, <1>4 DEF Next

LEMMA AlwaysInv == Spec => []Inv
BY InitInv, NextInv, PTL DEF Spec

-----------------------------------------------------------------------------
\* The theorems.

\* A slot of the cap is held exactly by the connections that are open, from
\* the moment one is accepted to its close, whatever threads, peers and the
\* shutdown do meanwhile (_accept_loop, _conn_closed).
THEOREM SlotsAreAccounted == Spec => []SlotsAccounted
<1>1. Inv => SlotsAccounted
  BY DEF Inv
<1>. QED  BY <1>1, AlwaysInv, PTL

\* There are never more open connections than the cap: the connections
\* themselves, not the count that the accept thread compares (_accept_loop).
CapHeld == Cardinality({c \in Conn : conn[c].at \in {"accepted", "selected"}}) <= max_connections

\* No server holds more connections than it was configured for.
THEOREM CapIsHeld == Spec => []CapHeld
<1>1. Inv => CapHeld
  BY DEF Inv, SlotsAccounted, CapHeld, Places
<1>. QED  BY <1>1, AlwaysInv, PTL

\* A connection waits for one thread only, and once: no thread finds in what it
\* was handed a connection that another one reads, or that is closed
\* (_IOThread.add, _drain_reg).
HandedOnce ==
  \A i, j \in IO : \A k \in DOMAIN reg[i], l \in DOMAIN reg[j] :
    /\ conn[reg[i][k]].at = "accepted"
    /\ reg[i][k] = reg[j][l] => i = j /\ k = l

\* No connection is handed to two I/O threads, nor twice to one.
THEOREM HandedOverOnce == Spec => []HandedOnce
<1>1. Inv => HandedOnce
  BY DEF Inv, HandedOnce, Places, Waits
<1>. QED  BY <1>1, AlwaysInv, PTL

-----------------------------------------------------------------------------
(* Sequences that are put together: FlattenSeq, the frames of units, the      *)
(* units of frames and the replies to messages.                               *)

\* A set of numbers that is not empty has a least element.
LEMMA LeastOf ==
  ASSUME NEW N \in SUBSET Nat, N # {}
  PROVE  \E n \in N : \A m \in N : n <= m
<1>. DEFINE R == OpToRel(<, Nat)
<1>1. PICK x \in N : \A y \in N : <<y, x>> \notin R
  BY NatLessThanWellFounded, WFMin
<1>2. ASSUME NEW y \in N PROVE y < x => <<y, x>> \in R
  <2>1. x \in Nat /\ y \in Nat
    OBVIOUS
  <2>. QED  BY <2>1, SMTT(20) DEF OpToRel
<1>. HIDE DEF R
<1>3. ASSUME NEW y \in N PROVE x <= y
  <2>1. x \in Nat /\ y \in Nat
    OBVIOUS
  <2>2. <<y, x>> \notin R
    BY <1>1
  <2>3. ~(y < x)
    BY <1>2, <2>2
  <2>. QED  BY <2>1, <2>3
<1>. QED  BY <1>3

\* A set of numbers with 0 and the successor of each of its members has them all.
LEMMA CountUp ==
  ASSUME NEW N \in SUBSET Nat, 0 \in N, \A n \in N : n + 1 \in N
  PROVE  \A n \in Nat : n \in N
<1>. SUFFICES ASSUME Nat \ N # {} PROVE FALSE
  OBVIOUS
<1>1. PICK m \in Nat \ N : \A n \in Nat \ N : m <= n
  BY LeastOf
<1>2. m # 0 /\ m - 1 \in Nat /\ m - 1 \notin Nat \ N
  BY <1>1
<1>3. m - 1 \in N /\ (m - 1) + 1 = m
  BY <1>2
<1>. QED  BY <1>1, <1>3

\* Sequences put one after the other.
LEMMA Concats ==
  ASSUME NEW D
  PROVE  /\ \A a, b \in Seq(D) : a \o b \in Seq(D)
         /\ \A a, b, c \in Seq(D) : (a \o b) \o c = a \o (b \o c)
         /\ \A a \in Seq(D) : a \o <<>> = a /\ <<>> \o a = a
         /\ \A a, b \in Seq(D) : a \o b = <<>> => a = <<>> /\ b = <<>>
         /\ <<>> \in Seq(D)
<1>1. \A a, b, c \in Seq(D) : (a \o b) \o c = a \o (b \o c)
  BY ConcatAssociative
<1>2. \A a \in Seq(D) : a \o <<>> = a /\ <<>> \o a = a
  BY ConcatEmptySeq
<1>3. \A a, b \in Seq(D) : a \o b = <<>> => a = <<>> /\ b = <<>>
  BY ConcatEqualIffEmpty
<1>. QED  BY <1>1, <1>2, <1>3

\* f is the sequence of what s's beginnings flatten to.
Flattens(f, s) ==
  f = [i \in 1 .. Len(s) |-> IF i = 1 THEN s[i] ELSE f[i - 1] \o s[i]]

FlattensTo(f, s, S, n) ==
  /\ f \in [1 .. n -> Seq(S)]
  /\ \A i \in 1 .. n : f[i] = IF i = 1 THEN s[i] ELSE f[i - 1] \o s[i]

\* There is one.
LEMMA FlattenExists ==
  ASSUME NEW S, NEW s \in Seq(Seq(S))
  PROVE  \E f : FlattensTo(f, s, S, Len(s))
<1>. DEFINE N == {n \in Nat : n <= Len(s) => \E f : FlattensTo(f, s, S, n)}
<1>0. Len(s) \in Nat /\ \A i \in 1 .. Len(s) : s[i] \in Seq(S)
  OBVIOUS
<1>1. 0 \in N
  <2>1. FlattensTo([i \in 1 .. 0 |-> <<>>], s, S, 0)
    BY DEF FlattensTo
  <2>. QED  BY <2>1
<1>2. ASSUME NEW n \in N PROVE n + 1 \in N
  <2>. SUFFICES ASSUME n + 1 <= Len(s) PROVE \E f : FlattensTo(f, s, S, n + 1)
    OBVIOUS
  <2>1. n \in Nat /\ n <= Len(s) /\ n + 1 \in 1 .. Len(s)
    BY <1>0
  <2>2. PICK f : FlattensTo(f, s, S, n)
    BY <2>1
  <2>. DEFINE x == IF n = 0 THEN s[1] ELSE f[n] \o s[n + 1]
              g == [i \in 1 .. n + 1 |-> IF i = n + 1 THEN x ELSE f[i]]
  <2>3. x \in Seq(S)
    <3>1. CASE n = 0
      BY <1>0, <2>1, <3>1
    <3>2. CASE n # 0
      <4>1. n \in 1 .. n
        BY <2>1, <3>2
      <4>2. f[n] \in Seq(S) /\ s[n + 1] \in Seq(S)
        BY <1>0, <2>1, <2>2, <4>1 DEF FlattensTo
      <4>3. f[n] \o s[n + 1] \in Seq(S)
        BY <4>2, ConcatProperties
      <4>. QED  BY <3>2, <4>3
    <3>. QED  BY <3>1, <3>2
  <2>. HIDE DEF x
  <2>4. \A i \in 1 .. n : f[i] \in Seq(S)
    BY <2>2 DEF FlattensTo
  <2>5. g \in [1 .. n + 1 -> Seq(S)]
    <3>1. \A i \in 1 .. n + 1 : i = n + 1 \/ i \in 1 .. n
      BY <2>1
    <3>. QED  BY <2>3, <2>4, <3>1
  <2>6. \A i \in 1 .. n + 1 : g[i] = IF i = 1 THEN s[i] ELSE g[i - 1] \o s[i]
    <3>. SUFFICES ASSUME NEW i \in 1 .. n + 1
                  PROVE  g[i] = IF i = 1 THEN s[i] ELSE g[i - 1] \o s[i]
      OBVIOUS
    <3>1. CASE i = n + 1
      <4>1. g[i] = x
        BY <3>1
      <4>2. n # 0 => i - 1 = n /\ g[n] = f[n]
        BY <2>1, <3>1
      <4>. QED  BY <2>1, <3>1, <4>1, <4>2 DEF x
    <3>2. CASE i # n + 1
      <4>1. i \in 1 .. n /\ (i # 1 => i - 1 \in 1 .. n)
        BY <2>1, <3>2
      <4>2. g[i] = f[i] /\ (i # 1 => g[i - 1] = f[i - 1])
        BY <2>1, <4>1
      <4>3. f[i] = IF i = 1 THEN s[i] ELSE f[i - 1] \o s[i]
        BY <2>2, <4>1 DEF FlattensTo
      <4>. HIDE DEF g
      <4>. QED  BY <4>2, <4>3
    <3>. QED  BY <3>1, <3>2
  <2>. HIDE DEF g
  <2>7. FlattensTo(g, s, S, n + 1)
    BY <2>5, <2>6 DEF FlattensTo
  <2>. QED  BY <2>7
<1>3. Len(s) \in N
  <2>. HIDE DEF N
  <2>1. N \in SUBSET Nat
    BY DEF N
  <2>. QED  BY <1>0, <1>1, <1>2, <2>1, CountUp
<1>. QED  BY <1>0, <1>3

\* Two of them agree as far as the sequences do.
LEMMA FlattenAgrees ==
  ASSUME NEW S, NEW s, NEW t, NEW f, NEW g, NEW m \in Nat, NEW n \in Nat, m <= n,
         FlattensTo(f, s, S, m), FlattensTo(g, t, S, n), \A i \in 1 .. m : s[i] = t[i]
  PROVE  \A i \in 1 .. m : f[i] = g[i]
<1>. DEFINE N == {i \in Nat : i \in 1 .. m => f[i] = g[i]}
<1>1. 0 \in N
  OBVIOUS
<1>2. ASSUME NEW i \in N PROVE i + 1 \in N
  <2>. SUFFICES ASSUME i + 1 \in 1 .. m PROVE f[i + 1] = g[i + 1]
    OBVIOUS
  <2>0. i + 1 \in 1 .. n
    OBVIOUS
  <2>1. f[i + 1] = IF i + 1 = 1 THEN s[i + 1] ELSE f[(i + 1) - 1] \o s[i + 1]
    BY DEF FlattensTo
  <2>4. g[i + 1] = IF i + 1 = 1 THEN t[i + 1] ELSE g[(i + 1) - 1] \o t[i + 1]
    BY <2>0 DEF FlattensTo
  <2>2. (i + 1) - 1 = i /\ s[i + 1] = t[i + 1] /\ (i + 1 # 1 => i \in 1 .. m)
    OBVIOUS
  <2>3. i + 1 # 1 => f[i] = g[i]
    BY <2>2
  <2>. QED  BY <2>1, <2>2, <2>3, <2>4
<1>3. \A i \in Nat : i \in N
  <2>. HIDE DEF N
  <2>1. N \in SUBSET Nat
    BY DEF N
  <2>. QED  BY <1>1, <1>2, <2>1, CountUp
<1>. QED  BY <1>3

\* What flattening a sequence gives.
LEMMA FlattenIs ==
  ASSUME NEW S, NEW s \in Seq(Seq(S)), s # <<>>
  PROVE  \E f : FlattensTo(f, s, S, Len(s)) /\ FlattenSeq(s) = f[Len(s)]
<1>. DEFINE f == CHOOSE g : Flattens(g, s)
<1>1. \E g : Flattens(g, s)
  <2>1. PICK g : FlattensTo(g, s, S, Len(s))
    BY FlattenExists
  <2>2. Flattens(g, s)
    BY <2>1 DEF FlattensTo, Flattens
  <2>. QED  BY <2>2
<1>2. Flattens(f, s)
  BY <1>1
<1>3. FlattenSeq(s) = f[Len(s)]
  <2>1. Len(s) # 0
    BY EmptySeq
  <2>. QED  BY <2>1 DEF FlattenSeq, Flattens
<1>. HIDE DEF f
<1>4. PICK g : FlattensTo(g, s, S, Len(s))
  BY FlattenExists
<1>5. \A i \in 1 .. Len(s) : f[i] = IF i = 1 THEN s[i] ELSE f[i - 1] \o s[i]
  BY <1>2 DEF Flattens
<1>6. \A i \in 1 .. Len(s) : f[i] = g[i]
  <2>. DEFINE N == {i \in Nat : i \in 1 .. Len(s) => f[i] = g[i]}
  <2>1. 0 \in N
    OBVIOUS
  <2>2. ASSUME NEW i \in N PROVE i + 1 \in N
    <3>. SUFFICES ASSUME i + 1 \in 1 .. Len(s) PROVE f[i + 1] = g[i + 1]
      OBVIOUS
    <3>0. Len(s) \in Nat
      OBVIOUS
    <3>1. /\ f[i + 1] = IF i + 1 = 1 THEN s[i + 1] ELSE f[(i + 1) - 1] \o s[i + 1]
          /\ g[i + 1] = IF i + 1 = 1 THEN s[i + 1] ELSE g[(i + 1) - 1] \o s[i + 1]
      BY <1>4, <1>5 DEF FlattensTo
    <3>2. (i + 1) - 1 = i /\ (i + 1 # 1 => i \in 1 .. Len(s))
      BY <3>0
    <3>3. i + 1 # 1 => f[i] = g[i]
      BY <3>2
    <3>. QED  BY <3>1, <3>2, <3>3
  <2>3. \A i \in Nat : i \in N
    <3>. HIDE DEF N
    <3>1. N \in SUBSET Nat
      BY DEF N
    <3>. QED  BY <2>1, <2>2, <3>1, CountUp
  <2>. QED  BY <2>3
<1>7. Len(s) \in 1 .. Len(s)
  BY EmptySeq
<1>. QED  BY <1>3, <1>4, <1>6, <1>7

\* Flattening gives a sequence, of nothing if there is nothing.
LEMMA FlattenType ==
  ASSUME NEW S, NEW s \in Seq(Seq(S))
  PROVE  FlattenSeq(s) \in Seq(S) /\ (s = <<>> => FlattenSeq(s) = <<>>)
<1>1. CASE s = <<>>
  BY <1>1, EmptySeq DEF FlattenSeq
<1>2. CASE s # <<>>
  <2>1. PICK f : FlattensTo(f, s, S, Len(s)) /\ FlattenSeq(s) = f[Len(s)]
    BY <1>2, FlattenIs
  <2>2. Len(s) \in 1 .. Len(s)
    BY <1>2, EmptySeq
  <2>. QED  BY <1>2, <2>1, <2>2 DEF FlattensTo
<1>. QED  BY <1>1, <1>2

\* One more at the end.
LEMMA FlattenAppend ==
  ASSUME NEW S, NEW s \in Seq(Seq(S)), NEW x \in Seq(S)
  PROVE  FlattenSeq(Append(s, x)) = FlattenSeq(s) \o x
<1>. DEFINE t == Append(s, x)
            n == Len(s)
<1>1. /\ n \in Nat /\ t \in Seq(Seq(S)) /\ Len(t) = n + 1 /\ t[n + 1] = x
      /\ \A i \in 1 .. n : t[i] = s[i]
  BY AppendProperties
<1>. HIDE DEF t
<1>2. t # <<>>
  BY <1>1
<1>3. PICK g : FlattensTo(g, t, S, n + 1) /\ FlattenSeq(t) = g[n + 1]
  BY <1>1, <1>2, FlattenIs
<1>4. n + 1 \in 1 .. n + 1
  BY <1>1
<1>5. CASE s = <<>>
  <2>1. n = 0
    BY <1>5
  <2>2. g[1] = t[1]
    BY <1>3, <2>1 DEF FlattensTo
  <2>3. <<>> \o x = x
    BY ConcatEmptySeq
  <2>4. FlattenSeq(s) = <<>>
    BY <1>5, FlattenType
  <2>. QED  BY <1>1, <1>3, <2>1, <2>2, <2>3, <2>4 DEF t
<1>6. CASE s # <<>>
  <2>1. PICK f : FlattensTo(f, s, S, n) /\ FlattenSeq(s) = f[n]
    BY <1>6, FlattenIs
  <2>2. n \in 1 .. n /\ n + 1 # 1 /\ (n + 1) - 1 = n
    BY <1>1, <1>6, EmptySeq
  <2>. HIDE DEF n
  <2>3. \A i \in 1 .. n : f[i] = g[i]
    <3>1. n <= n + 1 /\ n + 1 \in Nat /\ n \in Nat
      BY <1>1
    <3>2. \A i \in 1 .. n : s[i] = t[i]
      BY <1>1
    <3>3. FlattensTo(f, s, S, n) /\ FlattensTo(g, t, S, n + 1)
      BY <1>3, <2>1
    <3>. QED  BY <3>1, <3>2, <3>3, FlattenAgrees
  <2>4. g[n + 1] = g[n] \o x
    BY <1>1, <1>3, <1>4, <2>2 DEF FlattensTo
  <2>. QED  BY <1>3, <2>1, <2>2, <2>3, <2>4 DEF t
<1>. QED  BY <1>5, <1>6

\* A function over 1 .. n is a sequence of length n.
LEMMA FunctionIsSeq ==
  ASSUME NEW T, NEW n \in Nat, NEW m \in [1 .. n -> T]
  PROVE  m \in Seq(T) /\ Len(m) = n
<1>1. m \in Seq(T)
  <2>1. Seq(T) = UNION {[1 .. k -> T] : k \in Nat}
    BY SeqDef
  <2>2. m \in UNION {[1 .. k -> T] : k \in Nat}
    OBVIOUS
  <2>. QED  BY <2>1, <2>2, Zenon
<1>2. Len(m) \in Nat /\ DOMAIN m = 1 .. Len(m)
  BY <1>1, LenProperties
<1>3. \A k \in Nat : k \in 1 .. n <=> k \in 1 .. Len(m)
  BY <1>2
<1>4. n \in 1 .. n => n <= Len(m)
  BY <1>2, <1>3
<1>5. Len(m) \in 1 .. Len(m) => Len(m) <= n
  BY <1>2, <1>3
<1>. QED  BY <1>1, <1>2, <1>4, <1>5

\* What F gives for the members of s, one after the other.
Maps(F, D, S) == F \in [D -> Seq(S)]

Mapped(F, s) == [k \in DOMAIN s |-> F[s[k]]]

Spread(F, s) == FlattenSeq(Mapped(F, s))

LEMMA MapType ==
  ASSUME NEW D, NEW S, NEW F, Maps(F, D, S), NEW s \in Seq(D)
  PROVE  Mapped(F, s) \in Seq(Seq(S)) /\ Len(Mapped(F, s)) = Len(s)
<1>1. Len(s) \in Nat /\ DOMAIN s = 1 .. Len(s)
  OBVIOUS
<1>2. ASSUME NEW k \in 1 .. Len(s) PROVE F[s[k]] \in Seq(S)
  <2>1. s[k] \in D
    BY ElementOfSeq
  <2>. QED  BY <2>1 DEF Maps
<1>. DEFINE T == Seq(S)
<1>3. Mapped(F, s) \in [1 .. Len(s) -> T]
  BY <1>1, <1>2 DEF Mapped
<1>. HIDE DEF T
<1>4. Mapped(F, s) \in Seq(T) /\ Len(Mapped(F, s)) = Len(s)
  BY <1>1, <1>3, FunctionIsSeq
<1>. QED  BY <1>4 DEF T

LEMMA SpreadType ==
  ASSUME NEW D, NEW S, NEW F, Maps(F, D, S), NEW s \in Seq(D)
  PROVE  Spread(F, s) \in Seq(S) /\ (s = <<>> => Spread(F, s) = <<>>)
<1>1. Mapped(F, s) \in Seq(Seq(S)) /\ Len(Mapped(F, s)) = Len(s)
  BY MapType
<1>2. s = <<>> => Mapped(F, s) = <<>>
  BY <1>1, EmptySeq
<1>. QED  BY <1>1, <1>2, FlattenType DEF Spread

LEMMA SpreadAppend ==
  ASSUME NEW D, NEW S, NEW F, Maps(F, D, S), NEW s \in Seq(D), NEW x \in D
  PROVE  Spread(F, Append(s, x)) = Spread(F, s) \o F[x]
<1>. DEFINE m == Mapped(F, s)
            t == Append(s, x)
            p == Mapped(F, t)
            n == Len(s)
<1>1. /\ n \in Nat /\ t \in Seq(D) /\ DOMAIN t = 1 .. n + 1 /\ DOMAIN s = 1 .. n
      /\ t[n + 1] = x /\ \A i \in 1 .. n : t[i] = s[i]
  BY AppendProperties
<1>2. m \in Seq(Seq(S)) /\ Len(m) = n
  BY <1>1, MapType
<1>3. p \in Seq(Seq(S)) /\ Len(p) = n + 1
  <2>1. t \in Seq(D) /\ Len(t) = n + 1
    BY AppendProperties
  <2>. HIDE DEF t
  <2>. QED  BY <2>1, MapType
<1>4. p = Append(m, F[x])
  <2>1. F[x] \in Seq(S)
    BY DEF Maps
  <2>. DEFINE q == Append(m, F[x])
  <2>2. /\ q \in Seq(Seq(S)) /\ Len(q) = n + 1 /\ q[n + 1] = F[x]
        /\ \A i \in 1 .. n : q[i] = m[i]
    BY <1>2, <2>1, AppendProperties
  <2>. HIDE DEF q
  <2>3. \A i \in 1 .. n + 1 : p[i] = q[i]
    <3>. SUFFICES ASSUME NEW i \in 1 .. n + 1 PROVE p[i] = q[i]
      OBVIOUS
    <3>1. i = n + 1 \/ i \in 1 .. n
      BY <1>1
    <3>2. p[i] = F[t[i]]
      BY <1>1 DEF Mapped
    <3>3. i \in 1 .. n => m[i] = F[s[i]]
      BY <1>1 DEF Mapped
    <3>. QED  BY <1>1, <2>2, <3>1, <3>2, <3>3
  <2>. HIDE DEF p, m, t, n
  <2>4. p = q
    BY <1>3, <2>2, <2>3, SeqEqual
  <2>. QED  BY <2>4 DEF q
<1>5. FlattenSeq(Append(m, F[x])) = FlattenSeq(m) \o F[x]
  <2>1. F[x] \in Seq(S)
    BY DEF Maps
  <2>. QED  BY <1>2, <2>1, FlattenAppend
<1>6. Spread(F, t) = FlattenSeq(p) /\ Spread(F, s) = FlattenSeq(m)
  BY DEF Spread
<1>. HIDE DEF p, m
<1>. QED  BY <1>4, <1>5, <1>6

\* By the number of members of the second sequence.
LEMMA SpreadConcat ==
  ASSUME NEW D, NEW S, NEW F, Maps(F, D, S), NEW s \in Seq(D), NEW t \in Seq(D)
  PROVE  Spread(F, s \o t) = Spread(F, s) \o Spread(F, t)
<1>. DEFINE Splits(u) == Spread(F, s \o u) = Spread(F, s) \o Spread(F, u)
            N == {n \in Nat : \A u \in Seq(D) : Len(u) = n => Splits(u)}
<1>0. \A u \in Seq(D) : Spread(F, u) \in Seq(S) /\ (u = <<>> => Spread(F, u) = <<>>)
  BY SpreadType
<1>9. \A u \in Seq(D), x \in D : Spread(F, Append(u, x)) = Spread(F, u) \o F[x]
  BY SpreadAppend
<1>1. 0 \in N
  <2>. SUFFICES ASSUME NEW u \in Seq(D), Len(u) = 0 PROVE Splits(u)
    OBVIOUS
  <2>1. u = <<>> /\ s \o u = s
    BY EmptySeq, ConcatEmptySeq
  <2>2. Spread(F, u) = <<>>
    BY <1>0, <2>1
  <2>3. Spread(F, s) \o <<>> = Spread(F, s)
    BY <1>0, ConcatEmptySeq
  <2>. QED  BY <2>1, <2>2, <2>3
<1>2. ASSUME NEW n \in N PROVE n + 1 \in N
  <2>. SUFFICES ASSUME NEW u \in Seq(D), Len(u) = n + 1 PROVE Splits(u)
    OBVIOUS
  <2>1. u # <<>>
    BY EmptySeq
  <2>2. PICK v \in Seq(D) : \E x \in D : u = Append(v, x)
    BY <2>1, SequenceEmptyOrAppend
  <2>3. PICK x \in D : u = Append(v, x)
    BY <2>2
  <2>4. Len(v) = n
    BY <2>3, AppendProperties
  <2>5. Splits(v)
    BY <2>4
  <2>6. s \o v \in Seq(D) /\ s \o Append(v, x) = Append(s \o v, x)
    <3>1. s \o v \in Seq(D) /\ Append(v, x) = v \o <<x>> /\ <<x>> \in Seq(D)
      BY ConcatProperties, AppendIsConcat
    <3>2. Append(s \o v, x) = (s \o v) \o <<x>>
      BY <3>1, AppendIsConcat
    <3>. QED  BY <3>1, <3>2, ConcatAssociative
  <2>. HIDE DEF N
  <2>7. Spread(F, u) = Spread(F, v) \o F[x]
    BY <1>9, <2>3
  <2>8. Spread(F, s \o u) = Spread(F, s \o v) \o F[x]
    BY <1>9, <2>3, <2>6
  <2>9. (Spread(F, s) \o Spread(F, v)) \o F[x] = Spread(F, s) \o (Spread(F, v) \o F[x])
    <3>1. Spread(F, s) \in Seq(S) /\ Spread(F, v) \in Seq(S) /\ F[x] \in Seq(S)
      BY <1>0 DEF Maps
    <3>2. \A a, b, c \in Seq(S) : (a \o b) \o c = a \o (b \o c)
      BY Concats, Zenon
    <3>. QED  BY <3>1, <3>2, Zenon
  <2>. QED  BY <2>5, <2>7, <2>8, <2>9, Zenon
<1>. HIDE DEF Splits
<1>3. \A n \in Nat : n \in N
  <2>. HIDE DEF N
  <2>1. N \in SUBSET Nat
    BY DEF N
  <2>. QED  BY <1>1, <1>2, <2>1, CountUp
<1>4. Splits(t)
  BY <1>3
<1>. QED  BY <1>4 DEF Splits

-----------------------------------------------------------------------------
\* The frames of the protocol, and the units they are sent in.
Frame == Kind \cup {"challenge", "welcome", "reply"}
Unit == Frame \X {"begun", "done"}

UnitsOf == [f \in Frame |-> Units(f)]
NameOf == [u \in Unit |-> Name(u)]
ReplyOf == [k \in Kind |-> Reply(k)]

LEMMA Codes ==
  /\ Maps(UnitsOf, Frame, Unit)
  /\ Maps(NameOf, Unit, Frame)
  /\ Maps(ReplyOf, Kind, Frame)
<1>1. ASSUME NEW f \in Frame PROVE Units(f) \in Seq(Unit)
  <2>1. <<f, "begun">> \in Unit /\ <<f, "done">> \in Unit
    BY DEF Unit
  <2>2. \A x, y \in Unit : <<x, y>> \in Seq(Unit) /\ <<x>> \in Seq(Unit)
    OBVIOUS
  <2>. QED  BY <2>1, <2>2 DEF Units
<1>2. ASSUME NEW u \in Unit PROVE Name(u) \in Seq(Frame)
  <2>1. u[1] \in Frame
    BY DEF Unit
  <2>2. \A x \in Frame : <<x>> \in Seq(Frame) /\ <<>> \in Seq(Frame)
    OBVIOUS
  <2>. QED  BY <2>1, <2>2 DEF Name
<1>3. ASSUME NEW k \in Kind PROVE Reply(k) \in Seq(Frame)
  <2>1. \A x \in Frame : <<x>> \in Seq(Frame) /\ <<>> \in Seq(Frame)
    OBVIOUS
  <2>2. "welcome" \in Frame /\ "reply" \in Frame
    BY DEF Frame
  <2>. QED  BY <2>1, <2>2 DEF Reply, Kind
<1>. QED  BY <1>1, <1>2, <1>3 DEF UnitsOf, NameOf, ReplyOf, Maps

LEMMA CodesSpread ==
  /\ \A s \in Seq(Frame) : Stream(s) = Spread(UnitsOf, s)
  /\ \A u \in Seq(Unit) : Frames(u) = Spread(NameOf, u)
  /\ \A s \in Seq(Kind) : Replying(s) = Spread(ReplyOf, s)
<1>1. ASSUME NEW s \in Seq(Frame) PROVE Stream(s) = Spread(UnitsOf, s)
  <2>1. [k \in DOMAIN s |-> Units(s[k])] = [k \in DOMAIN s |-> UnitsOf[s[k]]]
    BY DEF UnitsOf
  <2>. QED  BY <2>1 DEF Stream, Spread, Mapped
<1>2. ASSUME NEW u \in Seq(Unit) PROVE Frames(u) = Spread(NameOf, u)
  <2>1. [k \in DOMAIN u |-> Name(u[k])] = [k \in DOMAIN u |-> NameOf[u[k]]]
    BY DEF NameOf
  <2>. QED  BY <2>1 DEF Frames, Spread, Mapped
<1>3. ASSUME NEW s \in Seq(Kind) PROVE Replying(s) = Spread(ReplyOf, s)
  <2>1. [k \in DOMAIN s |-> Reply(s[k])] = [k \in DOMAIN s |-> ReplyOf[s[k]]]
    BY DEF ReplyOf
  <2>. QED  BY <2>1 DEF Replying, Spread, Mapped
<1>. QED  BY <1>1, <1>2, <1>3

\* The units of frames, one after the other.
LEMMA StreamFacts ==
  /\ Stream(<<>>) = <<>>
  /\ \A s \in Seq(Frame) : Stream(s) \in Seq(Unit)
  /\ \A s, t \in Seq(Frame) : Stream(s \o t) = Stream(s) \o Stream(t)
  /\ \A s \in Seq(Frame), f \in Frame : Stream(Append(s, f)) = Stream(s) \o Units(f)
<1>1. <<>> \in Seq(Frame) /\ \A s, t \in Seq(Frame) : s \o t \in Seq(Frame)
  OBVIOUS
<1>2. \A s \in Seq(Frame), f \in Frame : Append(s, f) \in Seq(Frame)
  OBVIOUS
<1>3. \A s \in Seq(Frame), f \in Frame : Spread(UnitsOf, Append(s, f)) = Spread(UnitsOf, s) \o Units(f)
  <2>. SUFFICES ASSUME NEW s \in Seq(Frame), NEW f \in Frame
                PROVE  Spread(UnitsOf, Append(s, f)) = Spread(UnitsOf, s) \o Units(f)
    OBVIOUS
  <2>1. UnitsOf[f] = Units(f)
    BY DEF UnitsOf
  <2>. QED  BY <2>1, Codes, SpreadAppend
<1>4. Maps(UnitsOf, Frame, Unit) /\ \A s \in Seq(Frame) : Stream(s) = Spread(UnitsOf, s)
  BY Codes, CodesSpread
<1>5. \A s \in Seq(Frame) : Spread(UnitsOf, s) \in Seq(Unit) /\ (s = <<>> => Spread(UnitsOf, s) = <<>>)
  BY <1>4, SpreadType
<1>6. \A s, t \in Seq(Frame) : Spread(UnitsOf, s \o t) = Spread(UnitsOf, s) \o Spread(UnitsOf, t)
  BY <1>4, SpreadConcat
<1>7. Stream(<<>>) = <<>> /\ \A s \in Seq(Frame) : Stream(s) \in Seq(Unit)
  BY <1>1, <1>4, <1>5, Zenon
<1>8. \A s, t \in Seq(Frame) : Stream(s \o t) = Stream(s) \o Stream(t)
  BY <1>1, <1>4, <1>6, Zenon
<1>9. \A s \in Seq(Frame), f \in Frame : Stream(Append(s, f)) = Stream(s) \o Units(f)
  BY <1>2, <1>3, <1>4, Zenon
<1>. QED  BY <1>7, <1>8, <1>9

\* The complete frames in units, one after the other.
LEMMA FramesFacts ==
  /\ \A u \in Seq(Unit) : Frames(u) \in Seq(Frame)
  /\ \A u, v \in Seq(Unit) : Frames(u \o v) = Frames(u) \o Frames(v)
  /\ Frames(<<>>) = <<>>
  /\ \A u \in Seq(Unit), x \in Unit : Frames(Append(u, x)) = Frames(u) \o Name(x)
<1>1. <<>> \in Seq(Unit) /\ \A s, t \in Seq(Unit) : s \o t \in Seq(Unit)
  OBVIOUS
<1>2. \A s \in Seq(Unit), f \in Unit : Append(s, f) \in Seq(Unit)
  OBVIOUS
<1>3. \A s \in Seq(Unit), f \in Unit : Spread(NameOf, Append(s, f)) = Spread(NameOf, s) \o Name(f)
  <2>. SUFFICES ASSUME NEW s \in Seq(Unit), NEW f \in Unit
                PROVE  Spread(NameOf, Append(s, f)) = Spread(NameOf, s) \o Name(f)
    OBVIOUS
  <2>1. NameOf[f] = Name(f)
    BY DEF NameOf
  <2>. QED  BY <2>1, Codes, SpreadAppend
<1>4. Maps(NameOf, Unit, Frame) /\ \A s \in Seq(Unit) : Frames(s) = Spread(NameOf, s)
  BY Codes, CodesSpread
<1>5. \A s \in Seq(Unit) : Spread(NameOf, s) \in Seq(Frame) /\ (s = <<>> => Spread(NameOf, s) = <<>>)
  BY <1>4, SpreadType
<1>6. \A s, t \in Seq(Unit) : Spread(NameOf, s \o t) = Spread(NameOf, s) \o Spread(NameOf, t)
  BY <1>4, SpreadConcat
<1>7. Frames(<<>>) = <<>> /\ \A u \in Seq(Unit) : Frames(u) \in Seq(Frame)
  BY <1>1, <1>4, <1>5, Zenon
<1>8. \A u, v \in Seq(Unit) : Frames(u \o v) = Frames(u) \o Frames(v)
  BY <1>1, <1>4, <1>6, Zenon
<1>9. \A u \in Seq(Unit), x \in Unit : Frames(Append(u, x)) = Frames(u) \o Name(x)
  BY <1>2, <1>3, <1>4, Zenon
<1>. QED  BY <1>7, <1>8, <1>9

\* The replies to messages, one after the other.
LEMMA ReplyingFacts ==
  /\ Replying(<<>>) = <<>>
  /\ \A s \in Seq(Kind) : Replying(s) \in Seq(Frame)
  /\ \A s, t \in Seq(Kind) : Replying(s \o t) = Replying(s) \o Replying(t)
<1>1. <<>> \in Seq(Kind) /\ \A s, t \in Seq(Kind) : s \o t \in Seq(Kind)
  OBVIOUS
<1>4. Maps(ReplyOf, Kind, Frame) /\ \A s \in Seq(Kind) : Replying(s) = Spread(ReplyOf, s)
  BY Codes, CodesSpread
<1>5. \A s \in Seq(Kind) : Spread(ReplyOf, s) \in Seq(Frame) /\ (s = <<>> => Spread(ReplyOf, s) = <<>>)
  BY <1>4, SpreadType
<1>6. \A s, t \in Seq(Kind) : Spread(ReplyOf, s \o t) = Spread(ReplyOf, s) \o Spread(ReplyOf, t)
  BY <1>4, SpreadConcat
<1>7. Replying(<<>>) = <<>> /\ \A s \in Seq(Kind) : Replying(s) \in Seq(Frame)
  BY <1>1, <1>4, <1>5, Zenon
<1>8. \A s, t \in Seq(Kind) : Replying(s \o t) = Replying(s) \o Replying(t)
  BY <1>1, <1>4, <1>6, Zenon
<1>. QED  BY <1>7, <1>8

\* A frame read back.
LEMMA FramesOfUnits ==
  \A f \in Frame : Units(f) \in Seq(Unit) /\ Frames(Units(f)) = <<f>>
<1>. SUFFICES ASSUME NEW f \in Frame
              PROVE  Units(f) \in Seq(Unit) /\ Frames(Units(f)) = <<f>>
  OBVIOUS
<1>. DEFINE b == <<f, "begun">>
            d == <<f, "done">>
<1>1. b \in Unit /\ d \in Unit /\ Name(b) = <<>> /\ Name(d) = <<f>>
  <2>1. b \in Unit /\ d \in Unit
    BY DEF Unit
  <2>2. b[1] = f /\ b[2] = "begun" /\ d[1] = f /\ d[2] = "done"
    OBVIOUS
  <2>. QED  BY <2>1, <2>2 DEF Name, Done
<1>. HIDE DEF b, d
<1>2. Append(<<>>, d) = <<d>> /\ Append(Append(<<>>, b), d) = <<b, d>>
  <2>1. Append(<<>>, d) = <<d>> /\ Append(<<>>, b) = <<b>>
    OBVIOUS
  <2>2. Append(<<b>>, d) = <<b, d>>
    <3>1. <<b>> \in Seq(Unit) /\ <<b, d>> \in Seq(Unit) /\ Len(<<b>>) = 1 /\ Len(<<b, d>>) = 2
      BY <1>1
    <3>2. /\ Append(<<b>>, d) \in Seq(Unit) /\ Len(Append(<<b>>, d)) = 2
          /\ Append(<<b>>, d)[1] = b /\ Append(<<b>>, d)[2] = d
      BY <1>1, <3>1, AppendProperties
    <3>3. \A i \in 1 .. 2 : Append(<<b>>, d)[i] = <<b, d>>[i]
      BY <3>2
    <3>. QED  BY <3>1, <3>2, <3>3, SeqEqual
  <2>. QED  BY <2>1, <2>2
<1>3. /\ <<>> \in Seq(Unit) /\ Append(<<>>, d) \in Seq(Unit) /\ Append(<<>>, b) \in Seq(Unit)
      /\ <<b, d>> \in Seq(Unit) /\ <<d>> \in Seq(Unit)
  BY <1>1
<1>4. Frames(Append(<<>>, d)) = Frames(<<>>) \o Name(d)
  BY <1>1, <1>3, FramesFacts
<1>5. Frames(Append(<<>>, b)) = Frames(<<>>) \o Name(b)
  BY <1>1, <1>3, FramesFacts
<1>6. Frames(Append(Append(<<>>, b), d)) = Frames(Append(<<>>, b)) \o Name(d)
  BY <1>1, <1>3, FramesFacts
<1>7. <<>> \o <<f>> = <<f>> /\ <<>> \o <<>> = <<>>
  <2>1. <<f>> \in Seq(Frame) /\ <<>> \in Seq(Frame)
    OBVIOUS
  <2>. QED  BY <2>1, ConcatEmptySeq
<1>8. Frames(<<d>>) = <<f>> /\ Frames(<<b, d>>) = <<f>>
  BY <1>1, <1>2, <1>4, <1>5, <1>6, <1>7, FramesFacts
<1>. QED  BY <1>3, <1>8 DEF Units, b, d

\* Reading the stream of frames gives the frames.
LEMMA FramesOfStream == \A s \in Seq(Frame) : Frames(Stream(s)) = s
<1>. DEFINE N == {n \in Nat : \A s \in Seq(Frame) : Len(s) = n => Frames(Stream(s)) = s}
<1>1. 0 \in N
  <2>1. \A s \in Seq(Frame) : Len(s) = 0 => s = <<>>
    BY EmptySeq
  <2>. QED  BY <2>1, StreamFacts, FramesFacts
<1>2. ASSUME NEW n \in N PROVE n + 1 \in N
  <2>. SUFFICES ASSUME NEW s \in Seq(Frame), Len(s) = n + 1 PROVE Frames(Stream(s)) = s
    OBVIOUS
  <2>1. s # <<>>
    BY EmptySeq
  <2>2. PICK t \in Seq(Frame) : \E f \in Frame : s = Append(t, f)
    BY <2>1, SequenceEmptyOrAppend
  <2>3. PICK f \in Frame : s = Append(t, f)
    BY <2>2
  <2>4. Len(t) = n
    BY <2>3, AppendProperties
  <2>5. Frames(Stream(t)) = t
    BY <2>4
  <2>. HIDE DEF N
  <2>6. Stream(s) = Stream(t) \o Units(f) /\ Stream(t) \in Seq(Unit)
    BY <2>3, StreamFacts
  <2>7. Units(f) \in Seq(Unit) /\ Frames(Units(f)) = <<f>>
    BY FramesOfUnits
  <2>8. Append(t, f) = t \o <<f>>
    BY AppendIsConcat
  <2>9. Frames(Stream(t) \o Units(f)) = Frames(Stream(t)) \o Frames(Units(f))
    BY <2>6, <2>7, FramesFacts
  <2>. QED  BY <2>3, <2>5, <2>6, <2>7, <2>8, <2>9, Zenon
<1>3. \A n \in Nat : n \in N
  <2>. HIDE DEF N
  <2>1. N \in SUBSET Nat
    BY DEF N
  <2>. QED  BY <1>1, <1>2, <2>1, CountUp
<1>. QED  BY <1>3

-----------------------------------------------------------------------------
(* Sequences put together and taken apart. *)

\* A sequence is what comes up to a place in it, then what comes after.
LEMMA Cut ==
  ASSUME NEW D, NEW a \in Seq(D), NEW n \in Nat, n <= Len(a)
  PROVE  /\ SubSeq(a, 1, n) \in Seq(D) /\ SubSeq(a, n + 1, Len(a)) \in Seq(D)
         /\ SubSeq(a, 1, n) \o SubSeq(a, n + 1, Len(a)) = a
         /\ Len(SubSeq(a, 1, n)) = n
         /\ \A i \in 1 .. n : SubSeq(a, 1, n)[i] = a[i]
<1>0. Len(a) \in Nat /\ \A i \in 1 .. Len(a) : a[i] \in D
  OBVIOUS
<1>1. 1 \in 1 .. Len(a) + 1 /\ n \in 1 - 1 .. Len(a) /\ Len(a) \in n .. Len(a)
  BY <1>0
<1>2. SubSeq(a, 1, n) \o SubSeq(a, n + 1, Len(a)) = SubSeq(a, 1, Len(a))
  BY <1>1, ConcatAdjacentSubSeq
<1>3. SubSeq(a, 1, Len(a)) = a
  BY SubSeqFull
<1>4. /\ SubSeq(a, 1, n) \in Seq(D) /\ Len(SubSeq(a, 1, n)) = n
      /\ \A i \in 1 .. n : SubSeq(a, 1, n)[i] = a[i]
  <2>1. \A i \in 1 .. n : a[i] \in D
    BY <1>0
  <2>2. /\ SubSeq(a, 1, n) \in Seq(D) /\ Len(SubSeq(a, 1, n)) = IF 1 <= n THEN n - 1 + 1 ELSE 0
        /\ \A i \in 1 .. n - 1 + 1 : SubSeq(a, 1, n)[i] = a[1 + i - 1]
    BY <2>1, SubSeqProperties
  <2>. QED  BY <2>2
<1>5. SubSeq(a, n + 1, Len(a)) \in Seq(D)
  <2>1. \A i \in n + 1 .. Len(a) : a[i] \in D
    BY <1>0
  <2>2. n + 1 \in Int /\ Len(a) \in Int
    BY <1>0
  <2>. QED  BY <2>1, <2>2, SubSeqProperties
<1>. QED  BY <1>2, <1>3, <1>4, <1>5

\* What a sequence starts with.
LEMMA Starts ==
  ASSUME NEW D, NEW a \in Seq(D), NEW b \in Seq(D)
  PROVE  IsPrefix(a, a \o b)
<1>. DEFINE c == a \o b
<1>1. /\ c \in Seq(D) /\ Len(c) = Len(a) + Len(b) /\ Len(a) \in Nat /\ Len(b) \in Nat
      /\ \A i \in 1 .. Len(a) + Len(b) : c[i] = IF i <= Len(a) THEN a[i] ELSE b[i - Len(a)]
  BY ConcatProperties
<1>. HIDE DEF c
<1>2. /\ SubSeq(c, 1, Len(a)) \in Seq(D) /\ Len(SubSeq(c, 1, Len(a))) = Len(a)
      /\ \A i \in 1 .. Len(a) : SubSeq(c, 1, Len(a))[i] = c[i]
  BY <1>1, Cut
<1>3. \A i \in 1 .. Len(a) : SubSeq(c, 1, Len(a))[i] = a[i]
  BY <1>1, <1>2
<1>4. SubSeq(c, 1, Len(a)) = a
  BY <1>2, <1>3, SeqEqual
<1>5. SubSeq(a, 1, Len(a)) = a
  BY SubSeqFull
<1>. QED  BY <1>1, <1>4, <1>5 DEF IsPrefix, c

\* Messages are frames.
LEMMA KindsAreFrames ==
  /\ Seq(Kind) \subseteq Seq(Frame)
  /\ <<"challenge">> \in Seq(Frame) /\ <<>> \in Seq(Frame) /\ <<>> \in Seq(Kind)
<1>1. Kind \subseteq Frame /\ "challenge" \in Frame
  BY DEF Frame
<1>. QED  BY <1>1, SeqMonotonic

\* What a sequence that ends with a frame's units ends with.
LEMMA LastUnit ==
  ASSUME NEW s \in Seq(Unit), NEW f \in Frame
  PROVE  s \o Units(f) # <<>> /\ Last(s \o Units(f)) = <<f, "done">>
<1>. DEFINE t == Units(f)
<1>1. t \in Seq(Unit)
  BY FramesOfUnits
<1>2. t # <<>> /\ Len(t) \in Nat /\ Len(t) >= 1 /\ t[Len(t)] = <<f, "done">>
  BY DEF Units
<1>. HIDE DEF t
<1>3. /\ Len(s \o t) = Len(s) + Len(t) /\ Len(s) \in Nat
      /\ (s \o t)[Len(s) + Len(t)] = t[Len(t)]
  BY <1>1, <1>2, ConcatProperties
<1>4. s \o t # <<>>
  BY <1>1, <1>2, Concats
<1>. QED  BY <1>2, <1>3, <1>4 DEF Last, t

\* The two halves of a request.
FirstHalf == <<"request", "begun">>
SecondHalf == <<"request", "done">>
Halves == {<<>>, <<SecondHalf>>}

LEMMA RequestUnits ==
  /\ FirstHalf \in Unit /\ SecondHalf \in Unit
  /\ <<FirstHalf>> \in Seq(Unit) /\ <<SecondHalf>> \in Seq(Unit) /\ <<>> \in Seq(Unit)
  /\ <<FirstHalf>> \o <<SecondHalf>> = Units("request")
  /\ Name(FirstHalf) = <<>> /\ Name(SecondHalf) = <<"request">>
  /\ ~Done(FirstHalf) /\ Done(SecondHalf)
<1>1. FirstHalf \in Unit /\ SecondHalf \in Unit
  BY DEF FirstHalf, SecondHalf, Unit, Frame, Kind
<1>2. Name(FirstHalf) = <<>> /\ Name(SecondHalf) = <<"request">> /\ ~Done(FirstHalf) /\ Done(SecondHalf)
  BY DEF FirstHalf, SecondHalf, Name, Done
<1>3. Units("request") = <<FirstHalf, SecondHalf>>
  BY DEF Units, FirstHalf, SecondHalf
<1>4. /\ \A x \in Unit : <<x>> \in Seq(Unit) /\ Len(<<x>>) = 1 /\ <<x>>[1] = x
      /\ \A x, y \in Unit : <<x, y>> \in Seq(Unit) /\ Len(<<x, y>>) = 2
  OBVIOUS
<1>5. ASSUME NEW x \in Unit, NEW y \in Unit PROVE <<x>> \o <<y>> = <<x, y>>
  <2>1. /\ <<x>> \o <<y>> \in Seq(Unit) /\ Len(<<x>> \o <<y>>) = 1 + 1
        /\ \A i \in 1 .. 1 + 1 : (<<x>> \o <<y>>)[i] = IF i <= 1 THEN <<x>>[i] ELSE <<y>>[i - 1]
    BY <1>4, ConcatProperties
  <2>2. \A i \in 1 .. 2 : (<<x>> \o <<y>>)[i] = <<x, y>>[i]
    BY <2>1
  <2>3. <<x, y>> \in Seq(Unit) /\ Len(<<x, y>>) = 2 /\ Len(<<x>> \o <<y>>) = 2
    BY <1>4, <2>1
  <2>. DEFINE a == <<x>> \o <<y>>
              b == <<x, y>>
  <2>4. a \in Seq(Unit) /\ b \in Seq(Unit) /\ Len(a) = 2 /\ Len(b) = 2 /\ \A i \in 1 .. 2 : a[i] = b[i]
    BY <2>1, <2>2, <2>3
  <2>. HIDE DEF a, b
  <2>5. a = b
    BY <2>4, SeqEqual
  <2>. QED  BY <2>5 DEF a, b
<1>6. <<FirstHalf>> \o <<SecondHalf>> = <<FirstHalf, SecondHalf>>
  BY <1>1, <1>5, Zenon
<1>7. <<FirstHalf>> \in Seq(Unit) /\ <<SecondHalf>> \in Seq(Unit)
  BY <1>1, <1>4, Zenon
<1>8. <<>> \in Seq(Unit)
  OBVIOUS
<1>. QED  BY <1>1, <1>2, <1>3, <1>6, <1>7, <1>8, Zenon

\* What has been read of a stream that may end in the middle of a request: whole
\* messages, and the rest with what is to come.
LEMMA Parsing ==
  ASSUME NEW u \in Seq(Unit), NEW h \in Halves, NEW l \in Seq(Kind), u \o h = Stream(l)
  PROVE  /\ Frames(u) \in Seq(Kind) /\ Rest(u) \in Seq(Unit)
         /\ \E more \in Seq(Kind) : l = Frames(u) \o more /\ Rest(u) \o h = Stream(more)
<1>0. /\ l \in Seq(Frame) /\ <<>> \in Seq(Kind)
      /\ Frames(Stream(l)) = l /\ Stream(<<>>) = <<>>
  BY KindsAreFrames, FramesOfStream, StreamFacts
<1>1. CASE l = <<>>
  <2>1. u \o h = <<>> /\ h \in Seq(Unit)
    BY <1>0, <1>1, RequestUnits DEF Halves
  <2>2. u = <<>> /\ h = <<>>
    BY <2>1, Concats
  <2>3. Frames(u) = <<>> /\ Rest(u) = <<>>
    BY <2>2, FramesFacts DEF Rest
  <2>4. <<>> \o <<>> = <<>>
    OBVIOUS
  <2>. QED  BY <1>0, <1>1, <2>2, <2>3, <2>4, RequestUnits
<1>2. CASE l # <<>>
  <2>1. PICK m \in Seq(Kind) : \E f \in Kind : l = Append(m, f)
    BY <1>2, SequenceEmptyOrAppend
  <2>2. PICK f \in Kind : l = Append(m, f)
    BY <2>1
  <2>3. m \in Seq(Frame) /\ f \in Frame
    BY KindsAreFrames DEF Frame
  <2>4. Stream(l) = Stream(m) \o Units(f) /\ Stream(m) \in Seq(Unit) /\ Units(f) \in Seq(Unit)
    BY <2>2, <2>3, StreamFacts, FramesOfUnits
  <2>5. u \o h # <<>> /\ Last(u \o h) = <<f, "done">>
    BY <2>3, <2>4, LastUnit
  <2>6. CASE h = <<>>
    <3>1. u \o h = u
      BY <2>6, Concats
    <3>2. Frames(u) = l
      BY <1>0, <3>1
    <3>3. u # <<>> /\ Last(u) = <<f, "done">>
      BY <2>5, <3>1
    <3>4. Done(Last(u))
      BY <3>3 DEF Done
    <3>5. Rest(u) = <<>>
      BY <3>4 DEF Rest
    <3>6. l \o <<>> = l /\ <<>> \o <<>> = <<>>
      BY Concats
    <3>. QED  BY <1>0, <2>6, <3>2, <3>5, <3>6, RequestUnits
  <2>7. CASE h = <<SecondHalf>>
    <3>1. u \o <<SecondHalf>> = Append(u, SecondHalf)
      BY RequestUnits, AppendIsConcat
    <3>2. Last(Append(u, SecondHalf)) = SecondHalf
      BY RequestUnits, AppendProperties DEF Last
    <3>3. f = "request"
      <4>1. <<f, "done">> = SecondHalf
        BY <2>5, <2>7, <3>1, <3>2, Zenon
      <4>. QED  BY <4>1 DEF SecondHalf
    <3>. DEFINE v == Stream(m)
    <3>4. v \in Seq(Unit) /\ Frames(v) = m
      BY <2>3, <2>4, FramesOfStream
    <3>. HIDE DEF v
    <3>5. Append(v, FirstHalf) \in Seq(Unit) /\ v \o <<FirstHalf>> = Append(v, FirstHalf)
      BY <3>4, RequestUnits, AppendIsConcat, AppendProperties
    <3>6. v \o Units("request") = Append(v, FirstHalf) \o <<SecondHalf>>
      <4>1. \A a, b, c \in Seq(Unit) : (a \o b) \o c = a \o (b \o c)
        BY Concats
      <4>2. <<FirstHalf>> \in Seq(Unit) /\ <<SecondHalf>> \in Seq(Unit)
        BY RequestUnits
      <4>3. (v \o <<FirstHalf>>) \o <<SecondHalf>> = v \o (<<FirstHalf>> \o <<SecondHalf>>)
        BY <3>4, <4>1, <4>2, Zenon
      <4>4. <<FirstHalf>> \o <<SecondHalf>> = Units("request")
        BY RequestUnits
      <4>. QED  BY <3>5, <4>3, <4>4, Zenon
    <3>7. Append(u, SecondHalf) = Append(Append(v, FirstHalf), SecondHalf)
      <4>1. Append(v, FirstHalf) \o <<SecondHalf>> = Append(Append(v, FirstHalf), SecondHalf)
        BY <3>5, RequestUnits, AppendIsConcat
      <4>2. u \o <<SecondHalf>> = v \o Units("request")
        BY <2>4, <2>7, <3>3 DEF v
      <4>. QED  BY <3>1, <3>6, <4>1, <4>2
    <3>8. u = Append(v, FirstHalf)
      <4>1. \A x \in Unit, a, b \in Seq(Unit) : Append(a, x) = Append(b, x) => a = b
        BY AppendInjective
      <4>. DEFINE w == Append(v, FirstHalf)
      <4>2. w \in Seq(Unit) /\ SecondHalf \in Unit /\ Append(u, SecondHalf) = Append(w, SecondHalf)
        BY <3>5, <3>7, RequestUnits
      <4>. HIDE DEF w
      <4>3. u = w
        BY <4>1, <4>2, Zenon
      <4>. QED  BY <4>3 DEF w
    <3>9. Frames(u) = m
      <4>1. Frames(Append(v, FirstHalf)) = Frames(v) \o Name(FirstHalf)
        BY <3>4, RequestUnits, FramesFacts
      <4>2. m \o <<>> = m
        BY Concats
      <4>. QED  BY <3>4, <3>8, <4>1, <4>2, RequestUnits
    <3>10. Rest(u) = <<FirstHalf>>
      <4>1. u # <<>> /\ Last(u) = FirstHalf
        BY <3>4, <3>8, RequestUnits, AppendProperties DEF Last
      <4>. QED  BY <4>1, RequestUnits DEF Rest
    <3>11. Stream(<<"request">>) = Units("request")
      <4>1. <<>> \in Seq(Frame) /\ "request" \in Frame /\ Append(<<>>, "request") = <<"request">>
        BY KindsAreFrames DEF Frame, Kind
      <4>2. Stream(Append(<<>>, "request")) = Stream(<<>>) \o Units("request")
        BY <4>1, StreamFacts
      <4>3. Units("request") \in Seq(Unit)
        BY <4>1, FramesOfUnits
      <4>4. <<>> \o Units("request") = Units("request")
        BY <4>3, Concats
      <4>. QED  BY <1>0, <4>1, <4>2, <4>4
    <3>12. l = m \o <<"request">> /\ <<"request">> \in Seq(Kind)
      BY <2>2, <3>3, AppendIsConcat DEF Kind
    <3>13. <<FirstHalf>> \o <<SecondHalf>> = Stream(<<"request">>)
      BY <3>11, RequestUnits
    <3>. QED  BY <2>7, <3>9, <3>10, <3>12, <3>13, RequestUnits
  <2>. QED  BY <2>6, <2>7 DEF Halves
<1>. QED  BY <1>1, <1>2

-----------------------------------------------------------------------------
(* What is on the wire between a peer and its connection. *)

Fields(r) ==
  /\ r.in \in Seq(Unit) /\ r.inbuf \in Seq(Unit) /\ r.outbuf \in Seq(Unit) /\ r.net \in Seq(Unit)
  /\ Len(r.net) <= SendSpace
  /\ r.handshaking \in BOOLEAN /\ r.authed \in BOOLEAN

PeerFields(p) == p.got \in Seq(Unit) /\ p.sent \in Seq(Kind) /\ p.half \in Halves

\* The connection was established: the peer was challenged, if peers are.
Greeted(r) == r.at = "selected" /\ ~r.handshaking
Welcoming == IF Auth THEN <<"challenge">> ELSE <<>>
Greeting(r) == IF Greeted(r) THEN Welcoming ELSE <<>>

OwedTo(p) == Stream(Welcoming \o Replying(p.sent))

\* The peer answers the challenge before it sends anything else.
AnswersFirst(p) == Auth /\ p.sent # <<>> => p.sent[1] = "auth"

\* Of what the peer sent, the server has read the messages read, and answered
\* them; left is in the server's buffer, the socket's, or still with the peer.
Answered(r, p, read) == p.got \o r.net \o r.outbuf = Stream(Greeting(r) \o Replying(read))
Unread(r, p, left) == r.inbuf \o r.in \o p.half = Stream(left)

Open(r, p, read, left) ==
  /\ p.sent = read \o left
  /\ Answered(r, p, read) /\ Unread(r, p, left)
  /\ ~Greeted(r) => read = <<>>
  /\ Greeted(r) /\ ~r.authed => Auth /\ read = <<>>
  /\ AnswersFirst(p)

\* A closed connection's peer has the beginning of what it is owed.
Over(r, p) ==
  /\ r.outbuf = <<>>
  /\ \E rest \in Seq(Unit) : p.got \o r.net \o rest = OwedTo(p)

Link(r, p) ==
  /\ Fields(r)
  /\ IF r.at = "closed" THEN Over(r, p)
     ELSE \E read, left \in Seq(Kind) : Open(r, p, read, left)

Wire == \A c \in Conn : peer[c].at # "gone" => PeerFields(peer[c]) /\ Link(conn[c], peer[c])

-----------------------------------------------------------------------------
\* What the server may do to a connection without changing what is on the wire.
Passes(q, s) ==
  /\ IsConn(s) /\ Fields(s)
  /\ s.at = q.at /\ s.io = q.io /\ s.handshaking = q.handshaking /\ s.authed = q.authed
  /\ s.in = q.in /\ s.inbuf = q.inbuf
  /\ s.net \o s.outbuf = q.net \o q.outbuf

LEMMA WelcomingFrames ==
  /\ Welcoming \in Seq(Frame)
  /\ \A r : Greeting(r) \in Seq(Frame)
BY KindsAreFrames DEF Welcoming, Greeting

LEMMA PassesOpen ==
  ASSUME NEW q, Fields(q), NEW s, Passes(q, s), NEW p, PeerFields(p),
         NEW read \in Seq(Kind), NEW left \in Seq(Kind), Open(q, p, read, left)
  PROVE  Open(s, p, read, left)
<1>1. Greeted(s) = Greeted(q) /\ Greeting(s) = Greeting(q)
  BY DEF Passes, Greeted, Greeting
<1>2. p.got \o s.net \o s.outbuf = p.got \o q.net \o q.outbuf
  <2>1. /\ p.got \in Seq(Unit) /\ s.net \in Seq(Unit) /\ s.outbuf \in Seq(Unit)
        /\ q.net \in Seq(Unit) /\ q.outbuf \in Seq(Unit) /\ s.net \o s.outbuf = q.net \o q.outbuf
    BY DEF Passes, Fields, PeerFields
  <2>2. \A a, b, c \in Seq(Unit) : (a \o b) \o c = a \o (b \o c)
    BY Concats
  <2>3. (p.got \o s.net) \o s.outbuf = p.got \o (s.net \o s.outbuf)
    BY <2>1, <2>2, Zenon
  <2>4. (p.got \o q.net) \o q.outbuf = p.got \o (q.net \o q.outbuf)
    BY <2>1, <2>2, Zenon
  <2>. QED  BY <2>1, <2>3, <2>4, Zenon
<1>3. Answered(s, p, read)
  BY <1>1, <1>2, Zenon DEF Open, Answered
<1>4. Unread(s, p, left)
  BY Zenon DEF Open, Unread, Passes
<1>5. s.authed = q.authed
  BY DEF Passes
<1>. QED  BY <1>1, <1>3, <1>4, <1>5, Zenon DEF Open

\* The smaller of two numbers.
LEMMA PairMin ==
  ASSUME NEW a \in Nat, NEW b \in Nat
  PROVE  Min({a, b}) \in Nat /\ Min({a, b}) <= a /\ Min({a, b}) <= b
<1>1. \E x \in {a, b} : \A y \in {a, b} : x <= y
  OBVIOUS
<1>2. Min({a, b}) \in {a, b} /\ \A y \in {a, b} : Min({a, b}) <= y
  BY <1>1 DEF Min
<1>. QED  BY <1>2

\* A flush hands on what fits into the socket's buffer.
LEMMA FlushedPasses ==
  ASSUME NEW r, IsConn(r), Fields(r)
  PROVE  Passes(r, Flushed(r))
<1>. DEFINE n == Min({SendSpace - Len(r.net), Len(r.outbuf)})
            head == SubSeq(r.outbuf, 1, n)
            tail == SubSeq(r.outbuf, n + 1, Len(r.outbuf))
            more == n < Len(r.outbuf)
            s == [r EXCEPT !.net = r.net \o head, !.outbuf = tail, !.want_write = more]
<1>1. Flushed(r) = s
  BY DEF Flushed, IsConn
<1>2. /\ SendSpace \in Nat /\ Len(r.net) \in Nat /\ Len(r.outbuf) \in Nat /\ Len(r.net) <= SendSpace
      /\ r.net \in Seq(Unit) /\ r.outbuf \in Seq(Unit)
  BY ConstantAssumption DEF Fields
<1>3. n \in Nat /\ n <= SendSpace - Len(r.net) /\ n <= Len(r.outbuf)
  <2>. DEFINE a == SendSpace - Len(r.net)
              b == Len(r.outbuf)
  <2>1. a \in Nat /\ b \in Nat
    BY <1>2
  <2>. HIDE DEF a, b
  <2>2. Min({a, b}) \in Nat /\ Min({a, b}) <= a /\ Min({a, b}) <= b
    BY <2>1, PairMin
  <2>. QED  BY <2>2 DEF a, b
<1>. HIDE DEF n
<1>4. /\ head \in Seq(Unit) /\ tail \in Seq(Unit) /\ head \o tail = r.outbuf /\ Len(head) = n
  BY <1>2, <1>3, Cut
<1>. HIDE DEF head, tail, more
<1>5. r.net \o head \in Seq(Unit) /\ Len(r.net \o head) = Len(r.net) + n
  BY <1>2, <1>4, ConcatProperties
<1>6. (r.net \o head) \o tail = r.net \o r.outbuf
  <2>1. \A a, b, c \in Seq(Unit) : (a \o b) \o c = a \o (b \o c)
    BY Concats
  <2>2. r.net \in Seq(Unit) /\ head \in Seq(Unit) /\ tail \in Seq(Unit) /\ head \o tail = r.outbuf
    BY <1>2, <1>4
  <2>3. (r.net \o head) \o tail = r.net \o (head \o tail)
    BY <2>1, <2>2, Zenon
  <2>. QED  BY <2>2, <2>3, Zenon
<1>7. /\ IsConn(s) /\ s.net = r.net \o head /\ s.outbuf = tail
      /\ s.at = r.at /\ s.io = r.io /\ s.handshaking = r.handshaking /\ s.authed = r.authed
      /\ s.in = r.in /\ s.inbuf = r.inbuf
  BY DEF IsConn
<1>. HIDE DEF s
<1>8. Len(s.net) <= SendSpace
  BY <1>2, <1>3, <1>5, <1>7
<1>9. Fields(s)
  BY <1>4, <1>5, <1>7, <1>8 DEF Fields
<1>. QED  BY <1>1, <1>6, <1>7, <1>9 DEF Passes

\* Frames that are queued for a peer that is there go out after what waits.
LEMMA QueuedPasses ==
  ASSUME NEW c, NEW r, IsConn(r), Fields(r), peer[c].at # "gone", NEW frames \in Seq(Frame),
         NEW s \in Queued(c, r, frames), NEW q, q = [r EXCEPT !.outbuf = r.outbuf \o Stream(frames)]
  PROVE  IsConn(q) /\ Fields(q) /\ Passes(q, s)
<1>. DEFINE out == r.outbuf \o Stream(frames)
<1>1. Stream(frames) \in Seq(Unit) /\ r.outbuf \in Seq(Unit) /\ out \in Seq(Unit)
  BY StreamFacts, ConcatProperties DEF Fields
<1>2. out = r.outbuf \/ frames # <<>>
  <2>1. r.outbuf \o <<>> = r.outbuf
    BY <1>1, ConcatEmptySeq
  <2>. QED  BY <2>1, StreamFacts
<1>. HIDE DEF out
<1>3. q = [r EXCEPT !.outbuf = out]
  BY DEF out
<1>4. /\ IsConn(q) /\ q.outbuf = out
      /\ q.at = r.at /\ q.io = r.io /\ q.handshaking = r.handshaking /\ q.authed = r.authed
      /\ q.in = r.in /\ q.inbuf = r.inbuf /\ q.net = r.net
  BY <1>3 DEF IsConn
<1>5. Fields(q)
  BY <1>1, <1>4 DEF Fields
<1>6. CASE frames = <<>>
  <2>1. s = r
    BY <1>6 DEF Queued
  <2>. QED  BY <1>2, <1>4, <1>5, <1>6, <2>1 DEF Passes
<1>7. CASE frames # <<>>
  <2>1. s \in UNION {Sent(c, x) : x \in {[r EXCEPT !.outbuf = @ \o Stream(frames)]}}
    BY <1>7 DEF Queued
  <2>2. [r EXCEPT !.outbuf = @ \o Stream(frames)] = q
    BY <1>3 DEF out
  <2>3. s \in Sent(c, q)
    BY <2>1, <2>2
  <2>4. s = Flushed(q)
    BY <2>3 DEF Sent
  <2>. QED  BY <1>4, <1>5, <2>4, FlushedPasses
<1>. QED  BY <1>4, <1>5, <1>6, <1>7

-----------------------------------------------------------------------------
\* Before it is established: nothing was read, and nothing sent.
Untold(r, p, left) ==
  /\ p.sent = left /\ Unread(r, p, left)
  /\ p.got \o r.net \o r.outbuf = <<>>
  /\ AnswersFirst(p)

LEMMA OpenUntold ==
  ASSUME NEW r, ~Greeted(r), NEW p, NEW read \in Seq(Kind), NEW left \in Seq(Kind)
  PROVE  /\ Open(r, p, read, left) => Untold(r, p, left) /\ read = <<>>
         /\ Untold(r, p, left) => Open(r, p, <<>>, left)
<1>1. Stream(<<>> \o Replying(<<>>)) = <<>>
  <2>1. <<>> \o <<>> = <<>>
    OBVIOUS
  <2>. QED  BY <2>1, ReplyingFacts, StreamFacts
<1>2. Greeting(r) = <<>>
  BY DEF Greeting
<1>3. <<>> \o left = left
  BY ConcatEmptySeq
<1>. QED  BY <1>1, <1>2, <1>3, Zenon DEF Open, Untold, Answered

\* What a peer was sent is the beginning of what it is owed.
LEMMA OwedRest ==
  ASSUME NEW r, Fields(r), NEW p, PeerFields(p), NEW read \in Seq(Kind), NEW left \in Seq(Kind),
         Answered(r, p, read), p.sent = read \o left, ~Greeted(r) => read = <<>>
  PROVE  /\ \E rest \in Seq(Unit) : (p.got \o r.net \o r.outbuf) \o rest = OwedTo(p)
         /\ \E rest \in Seq(Unit) : p.got \o r.net \o rest = OwedTo(p)
<1>1. /\ p.got \in Seq(Unit) /\ r.net \in Seq(Unit) /\ r.outbuf \in Seq(Unit)
      /\ p.got \o r.net \in Seq(Unit)
  BY ConcatProperties DEF Fields, PeerFields
<1>2. \A a, b, c \in Seq(Unit) : (a \o b) \o c = a \o (b \o c)
  BY Concats
<1>3. \A a, b, c \in Seq(Frame) : (a \o b) \o c = a \o (b \o c)
  BY Concats
<1>4. /\ Replying(read) \in Seq(Frame) /\ Replying(left) \in Seq(Frame)
      /\ Replying(read \o left) = Replying(read) \o Replying(left)
  BY ReplyingFacts
<1>5. \E rest \in Seq(Unit) : (p.got \o r.net \o r.outbuf) \o rest = OwedTo(p)
  <2>1. CASE Greeted(r)
    <3>1. p.got \o r.net \o r.outbuf = Stream(Welcoming \o Replying(read))
      BY <2>1 DEF Answered, Greeting
    <3>2. Welcoming \o Replying(read) \in Seq(Frame)
      BY <1>4, WelcomingFrames, ConcatProperties
    <3>3. Welcoming \o Replying(p.sent) = (Welcoming \o Replying(read)) \o Replying(left)
      <4>1. (Welcoming \o Replying(read)) \o Replying(left) = Welcoming \o (Replying(read) \o Replying(left))
        BY <1>3, <1>4, WelcomingFrames, Zenon
      <4>. QED  BY <1>4, <4>1, Zenon
    <3>4. Stream((Welcoming \o Replying(read)) \o Replying(left))
            = Stream(Welcoming \o Replying(read)) \o Stream(Replying(left))
      BY <1>4, <3>2, StreamFacts
    <3>5. Stream(Replying(left)) \in Seq(Unit)
      BY <1>4, StreamFacts
    <3>. QED  BY <3>1, <3>3, <3>4, <3>5, Zenon DEF OwedTo
  <2>2. CASE ~Greeted(r)
    <3>1. p.got \o r.net \o r.outbuf = <<>>
      <4>1. Stream(<<>> \o Replying(<<>>)) = <<>>
        <5>1. <<>> \o <<>> = <<>>
          OBVIOUS
        <5>. QED  BY <5>1, ReplyingFacts, StreamFacts
      <4>. QED  BY <2>2, <4>1 DEF Answered, Greeting
    <3>2. OwedTo(p) \in Seq(Unit)
      <4>1. read \o left \in Seq(Kind)
        BY ConcatProperties
      <4>2. Replying(p.sent) \in Seq(Frame)
        BY <4>1, ReplyingFacts
      <4>3. Welcoming \o Replying(p.sent) \in Seq(Frame)
        BY <4>2, WelcomingFrames, ConcatProperties
      <4>. QED  BY <4>3, StreamFacts DEF OwedTo
    <3>3. <<>> \o OwedTo(p) = OwedTo(p)
      BY <3>2, ConcatEmptySeq
    <3>. QED  BY <3>1, <3>2, <3>3, Zenon
  <2>. QED  BY <2>1, <2>2
<1>6. PICK rest \in Seq(Unit) : (p.got \o r.net \o r.outbuf) \o rest = OwedTo(p)
  BY <1>5
<1>7. r.outbuf \o rest \in Seq(Unit) /\ (p.got \o r.net) \o (r.outbuf \o rest) = OwedTo(p)
  <2>1. r.outbuf \o rest \in Seq(Unit)
    BY <1>1, ConcatProperties
  <2>2. ((p.got \o r.net) \o r.outbuf) \o rest = (p.got \o r.net) \o (r.outbuf \o rest)
    BY <1>1, <1>2, Zenon
  <2>. QED  BY <1>6, <2>1, <2>2, Zenon
<1>. QED  BY <1>5, <1>7

\* An open connection that is closed.
LEMMA ClosedLink ==
  ASSUME NEW r, IsConn(r), Fields(r), NEW p, PeerFields(p),
         NEW read \in Seq(Kind), NEW left \in Seq(Kind),
         Answered(r, p, read), p.sent = read \o left, ~Greeted(r) => read = <<>>
  PROVE  IsConn(Closed(r)) /\ Closed(r).at = "closed" /\ Link(Closed(r), p)
<1>. DEFINE s == Closed(r)
<1>1. /\ IsConn(s) /\ s.at = "closed" /\ s.in = <<>> /\ s.inbuf = <<>> /\ s.outbuf = <<>>
      /\ s.net = r.net /\ s.handshaking = r.handshaking /\ s.authed = r.authed
  BY DEF IsConn, Closed
<1>. HIDE DEF s
<1>2. Fields(s)
  <2>1. <<>> \in Seq(Unit)
    OBVIOUS
  <2>. QED  BY <1>1, <2>1 DEF Fields
<1>3. \E rest \in Seq(Unit) : p.got \o s.net \o rest = OwedTo(p)
  BY <1>1, OwedRest
<1>4. Link(s, p)
  BY <1>1, <1>2, <1>3 DEF Link, Over
<1>. QED  BY <1>1, <1>4 DEF s

\* A connection is established: the peer is challenged, or let in.
LEMMA EstablishedLink ==
  ASSUME NEW c, NEW r, IsConn(r), Fields(r), r.at = "selected", PeerFields(peer[c]),
         peer[c].at # "gone", NEW left \in Seq(Kind), Untold(r, peer[c], left),
         NEW s \in Established(c, r)
  PROVE  IsConn(s) /\ s.at = "selected" /\ Link(s, peer[c])
<1>. DEFINE p == peer[c]
<1>0. /\ p.got \in Seq(Unit) /\ r.net \in Seq(Unit) /\ r.outbuf \in Seq(Unit)
      /\ p.got \o r.net = <<>> /\ r.outbuf = <<>>
  <2>1. p.got \in Seq(Unit) /\ r.net \in Seq(Unit) /\ r.outbuf \in Seq(Unit)
    BY DEF Fields, PeerFields
  <2>2. p.got \o r.net \in Seq(Unit) /\ (p.got \o r.net) \o r.outbuf = <<>>
    BY <2>1, ConcatProperties DEF Untold
  <2>. QED  BY <2>1, <2>2, Concats
<1>1. CASE Auth
  <2>. DEFINE e == [r EXCEPT !.handshaking = FALSE]
              q == [e EXCEPT !.outbuf = e.outbuf \o Stream(<<"challenge">>)]
  <2>1. s \in Queued(c, e, <<"challenge">>)
    BY <1>1 DEF Established
  <2>2. /\ IsConn(e) /\ e.at = "selected" /\ e.handshaking = FALSE
        /\ e.authed = r.authed /\ e.in = r.in /\ e.inbuf = r.inbuf /\ e.net = r.net /\ e.outbuf = r.outbuf
    BY DEF IsConn
  <2>. HIDE DEF e
  <2>3. Fields(e)
    BY <2>2 DEF Fields
  <2>4. IsConn(q) /\ Fields(q) /\ Passes(q, s)
    BY <2>1, <2>2, <2>3, KindsAreFrames, QueuedPasses
  <2>5. /\ q.at = "selected" /\ q.handshaking = FALSE /\ q.in = r.in /\ q.inbuf = r.inbuf
        /\ q.net = r.net /\ q.outbuf = r.outbuf \o Stream(<<"challenge">>) /\ q.authed = r.authed
    BY <2>2 DEF IsConn
  <2>. HIDE DEF q
  <2>6. Greeted(q) /\ Greeting(q) = <<"challenge">>
    BY <1>1, <2>5 DEF Greeted, Greeting, Welcoming
  <2>7. Answered(q, p, <<>>)
    <3>1. Replying(<<>>) = <<>> /\ <<"challenge">> \o <<>> = <<"challenge">>
      BY ReplyingFacts, KindsAreFrames, ConcatEmptySeq
    <3>2. Stream(<<"challenge">>) \in Seq(Unit)
      BY KindsAreFrames, StreamFacts
    <3>3. <<>> \o Stream(<<"challenge">>) = Stream(<<"challenge">>)
      BY <3>2, ConcatEmptySeq
    <3>4. p.got \o q.net \o q.outbuf = Stream(<<"challenge">>)
      BY <1>0, <2>5, <3>3, Zenon
    <3>. QED  BY <2>6, <3>1, <3>4, Zenon DEF Answered
  <2>8. Unread(q, p, left) /\ p.sent = <<>> \o left /\ AnswersFirst(p)
    <3>1. <<>> \o left = left
      BY ConcatEmptySeq
    <3>. QED  BY <2>5, <3>1, Zenon DEF Untold, Unread
  <2>9. Open(q, p, <<>>, left)
    BY <1>1, <2>6, <2>7, <2>8 DEF Open
  <2>10. Open(s, p, <<>>, left)
    BY <2>4, <2>9, KindsAreFrames, PassesOpen
  <2>11. IsConn(s) /\ Fields(s) /\ s.at = "selected"
    BY <2>4, <2>5 DEF Passes
  <2>. QED  BY <2>10, <2>11, KindsAreFrames DEF Link
<1>2. CASE ~Auth
  <2>1. s = [r EXCEPT !.handshaking = FALSE, !.authed = TRUE]
    BY <1>2 DEF Established
  <2>2. /\ IsConn(s) /\ s.at = "selected" /\ s.handshaking = FALSE /\ s.authed = TRUE
        /\ s.in = r.in /\ s.inbuf = r.inbuf /\ s.net = r.net /\ s.outbuf = r.outbuf
    BY <2>1 DEF IsConn
  <2>3. Fields(s)
    BY <2>2 DEF Fields
  <2>4. Greeting(s) = <<>>
    BY <1>2 DEF Greeting, Welcoming
  <2>5. Answered(s, p, <<>>)
    <3>1. <<>> \o <<>> = <<>>
      OBVIOUS
    <3>2. Stream(<<>> \o Replying(<<>>)) = <<>>
      BY <3>1, ReplyingFacts, StreamFacts
    <3>. QED  BY <1>0, <2>2, <2>4, <3>1, <3>2 DEF Answered
  <2>6. Unread(s, p, left) /\ p.sent = <<>> \o left /\ AnswersFirst(p)
    <3>1. <<>> \o left = left
      BY ConcatEmptySeq
    <3>. QED  BY <2>2, <3>1, Zenon DEF Untold, Unread
  <2>7. Open(s, p, <<>>, left)
    BY <2>2, <2>5, <2>6 DEF Open, Greeted
  <2>. QED  BY <2>2, <2>3, <2>7, KindsAreFrames DEF Link
<1>. QED  BY <1>1, <1>2

-----------------------------------------------------------------------------
\* The first of a set of places.
LEMMA FirstPlace ==
  ASSUME NEW B \in SUBSET Nat, B # {}
  PROVE  Min(B) \in B /\ \A k \in B : Min(B) <= k
BY LeastOf DEF Min

\* Messages that begin with others.
BeginsWith(s, t) == t \in Seq(Kind) /\ \E rest \in Seq(Kind) : s = t \o rest

\* The messages read are answered up to the first that breaks the connection.
LEMMA GoodFrames ==
  ASSUME NEW c, NEW r, NEW frames \in Seq(Kind)
  PROVE  BeginsWith(frames, Good(c, r, frames))
<1>. USE DEF BeginsWith
<1>0. Len(frames) \in Nat /\ DOMAIN frames = 1 .. Len(frames)
  OBVIOUS
<1>1. CASE Broken(c, r, frames) = {}
  <2>1. frames = frames \o <<>>
    BY ConcatEmptySeq
  <2>. QED  BY <1>1, <2>1, KindsAreFrames DEF Good
<1>2. CASE Broken(c, r, frames) # {}
  <2>. DEFINE B == Broken(c, r, frames)
              n == Min(B) - 1
  <2>1. B \in SUBSET Nat /\ B # {} /\ \A k \in B : k \in 1 .. Len(frames) /\ Breaks(c, r, frames, k)
    BY <1>0, <1>2 DEF Broken
  <2>. HIDE DEF B
  <2>2. Min(B) \in B
    BY <2>1, FirstPlace
  <2>3. n \in Nat /\ n <= Len(frames)
    <3>1. Min(B) \in 1 .. Len(frames)
      BY <2>1, <2>2, Zenon
    <3>. QED  BY <1>0, <3>1
  <2>4. Good(c, r, frames) = SubSeq(frames, 1, n)
    BY <1>2 DEF Good, B
  <2>. HIDE DEF n
  <2>5. /\ SubSeq(frames, 1, n) \in Seq(Kind) /\ SubSeq(frames, n + 1, Len(frames)) \in Seq(Kind)
        /\ SubSeq(frames, 1, n) \o SubSeq(frames, n + 1, Len(frames)) = frames
    BY <2>3, Cut
  <2>. QED  BY <2>1, <2>2, <2>4, <2>5
<1>. QED  BY <1>1, <1>2

\* What a peer sent that ends its connection.
Offends(c, r, p) ==
  \/ \E k \in DOMAIN p.sent : p.sent[k] = "broken"
  \/ ~r.authed /\ Auth /\ c \notin admitted /\ p.sent # <<>>

LEMMA BreaksOffends ==
  ASSUME NEW c, NEW r, Greeted(r), NEW p, NEW read \in Seq(Kind), NEW left \in Seq(Kind),
         Open(r, p, read, left), NEW frames \in Seq(Kind), NEW more \in Seq(Kind),
         left = frames \o more, NEW k \in 1 .. Len(frames), Breaks(c, r, frames, k)
  PROVE  Offends(c, r, p)
<1>1. /\ Len(read) \in Nat /\ Len(frames) \in Nat /\ Len(more) \in Nat
      /\ Len(left) = Len(frames) + Len(more) /\ left[k] = frames[k]
  BY ConcatProperties
<1>2. /\ Len(p.sent) = Len(read) + Len(left) /\ p.sent \in Seq(Kind)
      /\ p.sent[Len(read) + k] = left[(Len(read) + k) - Len(read)]
  <2>1. p.sent = read \o left
    BY DEF Open
  <2>2. Len(read) + k \in 1 .. Len(read) + Len(left) /\ ~(Len(read) + k <= Len(read))
    BY <1>1
  <2>. QED  BY <2>1, <2>2, ConcatProperties
<1>3. Len(read) + k \in DOMAIN p.sent /\ p.sent[Len(read) + k] = frames[k]
  <2>1. (Len(read) + k) - Len(read) = k /\ DOMAIN p.sent = 1 .. Len(p.sent)
    BY <1>1, <1>2
  <2>. QED  BY <1>1, <1>2, <2>1
<1>4. CASE ~r.authed /\ k = 1
  <2>1. Auth /\ read = <<>>
    BY <1>4 DEF Open
  <2>2. Len(read) + k = 1 /\ p.sent # <<>>
    BY <1>2, <1>1, <1>4, <2>1
  <2>3. p.sent[1] = "auth"
    BY <2>1, <2>2 DEF Open, AnswersFirst
  <2>4. frames[k] = "auth"
    BY <1>3, <2>2, <2>3
  <2>5. ~Proves(c, frames[k])
    BY <1>4 DEF Breaks
  <2>. QED  BY <1>4, <2>1, <2>2, <2>4, <2>5 DEF Proves, Offends
<1>5. CASE ~(~r.authed /\ k = 1)
  <2>1. frames[k] = "broken"
    BY <1>5 DEF Breaks
  <2>. QED  BY <1>3, <2>1 DEF Offends
<1>. QED  BY <1>4, <1>5

\* What was read is answered, in order, and the rest waits for its other half.
LEMMA ConsumedLink ==
  ASSUME NEW c, NEW r, IsConn(r), Fields(r), Greeted(r), PeerFields(peer[c]), peer[c].at # "gone",
         NEW read \in Seq(Kind), NEW left \in Seq(Kind), Open(r, peer[c], read, left),
         NEW s \in Consumed(c, r)
  PROVE  /\ IsConn(s) /\ s.at \in {"selected", "closed"} /\ Link(s, peer[c])
         /\ s.at = "closed" => Offends(c, r, peer[c])
<1>. DEFINE p == peer[c]
            u == r.inbuf \o r.in
            frames == Frames(u)
            good == Good(c, r, frames)
            e == AfterRead(c, r, frames)
            q == [e EXCEPT !.outbuf = e.outbuf \o Stream(Replying(good))]
            replied == Queued(c, e, Replying(good))
<1>1. u \in Seq(Unit) /\ p.half \in Halves /\ u \o p.half = Stream(left)
  BY ConcatProperties DEF Fields, PeerFields, Open, Unread
<1>. HIDE DEF u
<1>2. /\ frames \in Seq(Kind) /\ Rest(u) \in Seq(Unit)
      /\ \E more \in Seq(Kind) : left = frames \o more /\ Rest(u) \o p.half = Stream(more)
  BY <1>1, Parsing
<1>3. PICK more \in Seq(Kind) : left = frames \o more /\ Rest(u) \o p.half = Stream(more)
  BY <1>2
<1>. HIDE DEF frames
<1>4. /\ BeginsWith(frames, good) /\ good \in Seq(Kind)
      /\ Broken(c, r, frames) # {} => \E k \in 1 .. Len(frames) : Breaks(c, r, frames, k)
  <2>1. frames \in Seq(Kind)
    BY <1>2
  <2>2. BeginsWith(frames, Good(c, r, frames))
    BY <2>1, GoodFrames, Zenon
  <2>3. Broken(c, r, frames) # {} => \E k \in 1 .. Len(frames) : Breaks(c, r, frames, k)
    <3>1. DOMAIN frames = 1 .. Len(frames)
      BY <2>1
    <3>. QED  BY <3>1, Zenon DEF Broken
  <2>. QED  BY <2>2, <2>3, Zenon DEF BeginsWith
<1>5. Consumed(c, r) = IF Broken(c, r, frames) = {} THEN replied ELSE {Closed(x) : x \in replied}
  BY ConsumedIs DEF frames, u
<1>6. /\ IsConn(e) /\ e.at = "selected" /\ e.handshaking = FALSE /\ e.in = <<>> /\ e.inbuf = Rest(u)
      /\ e.outbuf = r.outbuf /\ e.net = r.net /\ e.authed = (r.authed \/ good # <<>>)
  BY DEF IsConn, AfterRead, Greeted, Fields, u
<1>7. Fields(e)
  <2>1. <<>> \in Seq(Unit) /\ e.authed \in BOOLEAN
    BY <1>6
  <2>. QED  BY <1>2, <1>6, <2>1 DEF Fields
<1>. HIDE DEF e, good
<1>8. Replying(good) \in Seq(Frame) /\ Stream(Replying(good)) \in Seq(Unit)
  BY <1>4, ReplyingFacts, StreamFacts
<1>9. ASSUME NEW x \in replied PROVE IsConn(q) /\ Fields(q) /\ Passes(q, x)
  BY <1>6, <1>7, <1>8, QueuedPasses
<1>10. /\ q.at = "selected" /\ q.handshaking = FALSE /\ q.in = <<>> /\ q.inbuf = Rest(u)
       /\ q.outbuf = r.outbuf \o Stream(Replying(good)) /\ q.net = r.net /\ q.authed = (r.authed \/ good # <<>>)
       /\ Greeted(q) /\ Greeting(q) = Welcoming /\ Greeting(r) = Welcoming
  BY <1>6 DEF IsConn, Greeted, Greeting
<1>. HIDE DEF q
<1>11. Answered(q, p, read \o good)
  <2>1. /\ p.got \in Seq(Unit) /\ r.net \in Seq(Unit) /\ r.outbuf \in Seq(Unit)
        /\ p.got \o r.net \in Seq(Unit)
    BY ConcatProperties DEF Fields, PeerFields
  <2>2. \A a, b, d \in Seq(Unit) : (a \o b) \o d = a \o (b \o d)
    BY Concats
  <2>3. \A a, b, d \in Seq(Frame) : (a \o b) \o d = a \o (b \o d)
    BY Concats
  <2>4. /\ Replying(read) \in Seq(Frame) /\ Welcoming \in Seq(Frame)
        /\ Welcoming \o Replying(read) \in Seq(Frame)
        /\ Replying(read \o good) = Replying(read) \o Replying(good)
    BY <1>4, ReplyingFacts, WelcomingFrames, ConcatProperties
  <2>5. (Welcoming \o Replying(read)) \o Replying(good) = Welcoming \o (Replying(read) \o Replying(good))
    BY <1>8, <2>3, <2>4, Zenon
  <2>6. Stream((Welcoming \o Replying(read)) \o Replying(good))
          = Stream(Welcoming \o Replying(read)) \o Stream(Replying(good))
    BY <1>8, <2>4, StreamFacts
  <2>7. p.got \o r.net \o r.outbuf = Stream(Welcoming \o Replying(read))
    BY <1>10 DEF Open, Answered
  <2>8. ((p.got \o r.net) \o r.outbuf) \o Stream(Replying(good))
          = (p.got \o r.net) \o (r.outbuf \o Stream(Replying(good)))
    BY <1>8, <2>1, <2>2, Zenon
  <2>9. (p.got \o r.net) \o (r.outbuf \o Stream(Replying(good))) = Stream(Welcoming \o Replying(read \o good))
    BY <2>4, <2>5, <2>6, <2>7, <2>8, Zenon
  <2>. QED  BY <1>10, <2>9, Zenon DEF Answered
<1>12. read \o good \in Seq(Kind) /\ p.sent = read \o left /\ AnswersFirst(p)
  BY <1>4, ConcatProperties DEF Open
<1>13. \A a, b, d \in Seq(Kind) : (a \o b) \o d = a \o (b \o d)
  BY Concats
<1>14. CASE Broken(c, r, frames) = {}
  <2>1. s \in replied /\ good = frames
    BY <1>5, <1>14 DEF good, Good
  <2>2. IsConn(q) /\ Fields(q) /\ Passes(q, s)
    BY <1>9, <2>1
  <2>3. p.sent = (read \o good) \o more
    <3>1. (read \o good) \o more = read \o (good \o more)
      BY <1>4, <1>13, Zenon
    <3>. QED  BY <1>3, <1>12, <2>1, <3>1, Zenon
  <2>4. Unread(q, p, more)
    <3>1. Rest(u) \o <<>> = Rest(u)
      BY <1>2, ConcatEmptySeq
    <3>. QED  BY <1>3, <1>10, <3>1, Zenon DEF Unread
  <2>5. ~q.authed => Auth /\ read \o good = <<>>
    <3>. SUFFICES ASSUME ~q.authed PROVE Auth /\ read \o good = <<>>
      OBVIOUS
    <3>1. ~r.authed /\ good = <<>>
      BY <1>10
    <3>2. Auth /\ read = <<>>
      BY <3>1 DEF Open
    <3>3. <<>> \o <<>> = <<>>
      OBVIOUS
    <3>. QED  BY <3>1, <3>2, <3>3
  <2>6. Open(q, p, read \o good, more)
    BY <1>10, <1>11, <1>12, <2>3, <2>4, <2>5 DEF Open
  <2>7. Open(s, p, read \o good, more)
    BY <1>12, <2>2, <2>6, PassesOpen
  <2>8. IsConn(s) /\ Fields(s) /\ s.at = "selected"
    BY <1>10, <2>2 DEF Passes
  <2>. QED  BY <1>12, <2>7, <2>8 DEF Link
<1>15. CASE Broken(c, r, frames) # {}
  <2>1. PICK x \in replied : s = Closed(x)
    BY <1>5, <1>15
  <2>2. IsConn(q) /\ Fields(q) /\ Passes(q, x)
    BY <1>9, <2>1
  <2>3. PICK bad \in Seq(Kind) : frames = good \o bad
    BY <1>4 DEF BeginsWith
  <2>4. bad \o more \in Seq(Kind) /\ p.sent = (read \o good) \o (bad \o more)
    <3>1. bad \o more \in Seq(Kind)
      BY ConcatProperties
    <3>2. (good \o bad) \o more = good \o (bad \o more)
      BY <1>4, <1>13, Zenon
    <3>3. (read \o good) \o (bad \o more) = read \o (good \o (bad \o more))
      <4>1. \A d \in Seq(Kind) : (read \o good) \o d = read \o (good \o d)
        BY <1>4, <1>13, Zenon
      <4>. QED  BY <3>1, <4>1, Zenon
    <3>4. left = good \o (bad \o more)
      BY <1>3, <2>3, <3>2, Zenon
    <3>5. p.sent = (read \o good) \o (bad \o more)
      BY <1>12, <3>3, <3>4, Zenon
    <3>. QED  BY <3>1, <3>5
  <2>5. IsConn(x) /\ Fields(x) /\ Greeted(x) /\ Greeting(x) = Greeting(q)
    BY <1>10, <2>2 DEF Passes, Greeted, Greeting
  <2>6. Answered(x, p, read \o good)
    <3>1. x.net \o x.outbuf = q.net \o q.outbuf
      BY <2>2 DEF Passes
    <3>2. /\ p.got \in Seq(Unit) /\ x.net \in Seq(Unit) /\ x.outbuf \in Seq(Unit)
          /\ q.net \in Seq(Unit) /\ q.outbuf \in Seq(Unit)
      BY <2>2, <2>5 DEF Fields, PeerFields
    <3>3. \A a, b, d \in Seq(Unit) : (a \o b) \o d = a \o (b \o d)
      BY Concats
    <3>4. (p.got \o x.net) \o x.outbuf = p.got \o (x.net \o x.outbuf)
      BY <3>2, <3>3, Zenon
    <3>5. (p.got \o q.net) \o q.outbuf = p.got \o (q.net \o q.outbuf)
      BY <3>2, <3>3, Zenon
    <3>. QED  BY <1>11, <2>5, <3>1, <3>4, <3>5, Zenon DEF Answered
  <2>7. IsConn(s) /\ s.at = "closed" /\ Link(s, p)
    BY <1>12, <2>1, <2>4, <2>5, <2>6, ClosedLink
  <2>8. PICK k \in 1 .. Len(frames) : Breaks(c, r, frames, k)
    BY <1>4, <1>15
  <2>9. Offends(c, r, p)
    BY <1>2, <1>3, <2>8, BreaksOffends
  <2>. QED  BY <2>7, <2>9
<1>. QED  BY <1>14, <1>15

-----------------------------------------------------------------------------
\* What the events of a connection make of it.

LEMMA ShakenLink ==
  ASSUME NEW c, NEW r, IsConn(r), Fields(r), r.at = "selected", r.handshaking,
         PeerFields(peer[c]), peer[c].at = "up", peer[c].tls \in {"pending", "done", "failed"},
         NEW left \in Seq(Kind), Untold(r, peer[c], left), NEW s \in Shaken(c, r)
  PROVE  /\ IsConn(s) /\ Link(s, peer[c])
         /\ s.at = "closed" => peer[c].tls = "failed"
<1>1. ~Greeted(r)
  BY DEF Greeted
<1>2. Open(r, peer[c], <<>>, left) /\ <<>> \in Seq(Kind)
  BY <1>1, OpenUntold, KindsAreFrames
<1>3. CASE peer[c].tls = "failed"
  <2>1. s = Closed(r)
    BY <1>3 DEF Shaken
  <2>2. Answered(r, peer[c], <<>>) /\ peer[c].sent = <<>> \o left
    BY <1>2 DEF Open
  <2>. QED  BY <1>2, <1>3, <2>1, <2>2, ClosedLink
<1>4. CASE peer[c].tls = "pending"
  <2>1. s = r
    BY <1>4 DEF Shaken
  <2>. QED  BY <1>2, <2>1 DEF Link
<1>5. CASE peer[c].tls = "done"
  <2>1. s \in Established(c, r)
    BY <1>5 DEF Shaken
  <2>. QED  BY <2>1, EstablishedLink
<1>. QED  BY <1>3, <1>4, <1>5

\* A flush to a peer that is there.
LEMMA SentLink ==
  ASSUME NEW c, NEW r, IsConn(r), r.at = "selected", PeerFields(peer[c]), peer[c].at = "up",
         Link(r, peer[c]), NEW s \in Sent(c, r)
  PROVE  IsConn(s) /\ Link(s, peer[c]) /\ s.at = "selected"
<1>1. s = Flushed(r)
  BY DEF Sent
<1>2. Fields(r) /\ \E read, left \in Seq(Kind) : Open(r, peer[c], read, left)
  BY DEF Link
<1>3. Passes(r, s)
  BY <1>1, <1>2, FlushedPasses
<1>4. PICK read \in Seq(Kind), left \in Seq(Kind) : Open(r, peer[c], read, left)
  BY <1>2
<1>5. Open(s, peer[c], read, left)
  BY <1>2, <1>3, <1>4, PassesOpen
<1>6. IsConn(s) /\ Fields(s) /\ s.at = "selected"
  BY <1>3 DEF Passes
<1>. QED  BY <1>5, <1>6 DEF Link

LEMMA ReadLink ==
  ASSUME NEW c, NEW r, IsConn(r), Greeted(r), PeerFields(peer[c]), peer[c].at = "up",
         Link(r, peer[c]), NEW s \in Read(c, r)
  PROVE  /\ IsConn(s) /\ s.at \in {"selected", "closed"} /\ Link(s, peer[c])
         /\ s.at = "closed" => Offends(c, r, peer[c])
<1>1. r.at = "selected" /\ Fields(r) /\ \E read, left \in Seq(Kind) : Open(r, peer[c], read, left)
  BY DEF Link, Greeted
<1>2. PICK read \in Seq(Kind), left \in Seq(Kind) : Open(r, peer[c], read, left)
  BY <1>1
<1>3. CASE r.in = <<>>
  <2>1. s = r
    BY <1>3 DEF Read
  <2>. QED  BY <1>1, <2>1
<1>4. CASE r.in # <<>>
  <2>1. s \in Consumed(c, r)
    BY <1>4 DEF Read
  <2>. QED  BY <1>1, <1>2, <2>1, ConsumedLink
<1>. QED  BY <1>3, <1>4

\* A connection that nobody will accept.
LEMMA ResetLink ==
  ASSUME NEW r, IsConn(r), r.at = "backlog", NEW p, PeerFields(p), Link(r, p)
  PROVE  Link([r EXCEPT !.at = "closed"], p)
<1>. DEFINE s == [r EXCEPT !.at = "closed"]
<1>1. Fields(r) /\ ~Greeted(r) /\ \E read, left \in Seq(Kind) : Open(r, p, read, left)
  BY DEF Link, Greeted
<1>2. PICK read \in Seq(Kind), left \in Seq(Kind) : Open(r, p, read, left)
  BY <1>1
<1>3. Untold(r, p, left)
  BY <1>1, <1>2, OpenUntold
<1>4. r.outbuf = <<>>
  <2>1. p.got \in Seq(Unit) /\ r.net \in Seq(Unit) /\ r.outbuf \in Seq(Unit)
    BY <1>1 DEF Fields, PeerFields
  <2>2. p.got \o r.net \in Seq(Unit) /\ (p.got \o r.net) \o r.outbuf = <<>>
    BY <1>3, <2>1, ConcatProperties DEF Untold
  <2>. QED  BY <2>1, <2>2, Concats
<1>5. \E rest \in Seq(Unit) : p.got \o r.net \o rest = OwedTo(p)
  BY <1>1, <1>2, OwedRest DEF Open
<1>6. /\ s.at = "closed" /\ s.in = r.in /\ s.inbuf = r.inbuf /\ s.outbuf = r.outbuf /\ s.net = r.net
      /\ s.handshaking = r.handshaking /\ s.authed = r.authed
  BY DEF IsConn
<1>. HIDE DEF s
<1>7. Fields(s)
  BY <1>1, <1>6 DEF Fields
<1>8. Over(s, p)
  BY <1>4, <1>5, <1>6 DEF Over
<1>9. Link(s, p)
  BY <1>6, <1>7, <1>8 DEF Link
<1>. QED  BY <1>9 DEF s

\* What says nothing of the frames: where a connection is before it is
\* established, and how far the peer's handshake is.
LEMMA SameLink ==
  ASSUME NEW r, NEW s, NEW p, NEW q, Link(r, p), ~Greeted(r), ~Greeted(s), r.at # "closed", s.at # "closed",
         s.in = r.in, s.inbuf = r.inbuf, s.outbuf = r.outbuf, s.net = r.net,
         s.handshaking \in BOOLEAN, s.authed = r.authed,
         q.got = p.got, q.sent = p.sent, q.half = p.half
  PROVE  Link(s, q)
<1>1. Fields(r) /\ \E read, left \in Seq(Kind) : Open(r, p, read, left)
  BY DEF Link
<1>2. PICK read \in Seq(Kind), left \in Seq(Kind) : Open(r, p, read, left)
  BY <1>1
<1>3. Untold(r, p, left)
  BY <1>2, OpenUntold
<1>4. Untold(s, q, left)
  BY <1>3 DEF Untold, Unread, AnswersFirst
<1>5. Open(s, q, <<>>, left)
  BY <1>2, <1>4, OpenUntold
<1>6. Fields(s)
  BY <1>1 DEF Fields
<1>. QED  BY <1>5, <1>6, KindsAreFrames DEF Link

LEMMA SamePeer ==
  ASSUME NEW r, NEW p, NEW q, q.got = p.got, q.sent = p.sent, q.half = p.half
  PROVE  (Link(r, p) <=> Link(r, q)) /\ (PeerFields(p) <=> PeerFields(q))
<1>1. PeerFields(p) <=> PeerFields(q)
  BY DEF PeerFields
<1>2. Over(r, p) <=> Over(r, q)
  BY DEF Over, OwedTo
<1>3. \A read, left : Open(r, p, read, left) <=> Open(r, q, read, left)
  BY DEF Open, Answered, Unread, AnswersFirst
<1>. QED  BY <1>1, <1>2, <1>3 DEF Link

-----------------------------------------------------------------------------
\* What the peer makes of it.

\* What the kernel delivers.
LEMMA ReceiveLink ==
  ASSUME NEW r, NEW p, PeerFields(p), Link(r, p), NEW s, NEW q,
         s.at = r.at, s.handshaking = r.handshaking, s.authed = r.authed,
         s.in = r.in, s.inbuf = r.inbuf, s.outbuf = r.outbuf, s.net = <<>>,
         q.got = p.got \o r.net, q.sent = p.sent, q.half = p.half
  PROVE  PeerFields(q) /\ Link(s, q)
<1>1. /\ p.got \in Seq(Unit) /\ r.net \in Seq(Unit) /\ <<>> \in Seq(Unit) /\ SendSpace \in Nat /\ Fields(r)
  BY ConstantAssumption DEF PeerFields, Link, Fields
<1>2. q.got \in Seq(Unit) /\ q.got \o <<>> = q.got
  BY <1>1, ConcatProperties, ConcatEmptySeq
<1>3. PeerFields(q)
  BY <1>2 DEF PeerFields
<1>4. Fields(s)
  <2>1. Len(<<>>) = 0
    OBVIOUS
  <2>. QED  BY <1>1, <2>1 DEF Fields
<1>5. q.got \o s.net = p.got \o r.net
  BY <1>2
<1>6. Over(r, p) => Over(s, q)
  BY <1>5 DEF Over, OwedTo
<1>7. \A read, left : Open(r, p, read, left) => Open(s, q, read, left)
  BY <1>5 DEF Open, Answered, Unread, AnswersFirst, Greeted, Greeting
<1>. QED  BY <1>3, <1>4, <1>6, <1>7 DEF Link

\* The rest of a frame.
LEMMA RestLink ==
  ASSUME NEW r, NEW p, PeerFields(p), Link(r, p), NEW s, NEW q,
         s.at = r.at, s.handshaking = r.handshaking, s.authed = r.authed,
         s.in = r.in \o p.half, s.inbuf = r.inbuf, s.outbuf = r.outbuf, s.net = r.net,
         q.got = p.got, q.sent = p.sent, q.half = <<>>
  PROVE  PeerFields(q) /\ Link(s, q)
<1>1. /\ Fields(r) /\ r.in \in Seq(Unit) /\ r.inbuf \in Seq(Unit) /\ p.half \in Seq(Unit)
      /\ <<>> \in Seq(Unit) /\ <<>> \in Halves
  BY RequestUnits DEF PeerFields, Link, Fields, Halves
<1>2. PeerFields(q)
  BY <1>1 DEF PeerFields
<1>3. s.in \in Seq(Unit)
  BY <1>1, ConcatProperties
<1>4. Fields(s)
  BY <1>1, <1>3 DEF Fields
<1>5. (s.inbuf \o s.in) \o q.half = (r.inbuf \o r.in) \o p.half
  <2>1. \A a, b, d \in Seq(Unit) : (a \o b) \o d = a \o (b \o d)
    BY Concats
  <2>2. r.inbuf \o s.in \in Seq(Unit) /\ (r.inbuf \o s.in) \o <<>> = r.inbuf \o s.in
    BY <1>1, <1>3, ConcatProperties, ConcatEmptySeq
  <2>3. (r.inbuf \o r.in) \o p.half = r.inbuf \o (r.in \o p.half)
    BY <1>1, <2>1, Zenon
  <2>. QED  BY <2>2, <2>3, Zenon
<1>6. Over(r, p) => Over(s, q)
  BY DEF Over, OwedTo
<1>7. \A read, left : Open(r, p, read, left) => Open(s, q, read, left)
  BY <1>5 DEF Open, Answered, Unread, AnswersFirst, Greeted, Greeting
<1>. QED  BY <1>2, <1>4, <1>6, <1>7 DEF Link

\* A peer that has sent nothing was sent nothing but the challenge.
LEMMA NoWelcomeYet ==
  ASSUME NEW r, Fields(r), NEW p, PeerFields(p), NEW read \in Seq(Kind), NEW left \in Seq(Kind),
         Open(r, p, read, left), p.sent = <<>>
  PROVE  "welcome" \notin Range(Frames(p.got))
<1>1. read = <<>>
  <2>1. read \o left = <<>>
    BY DEF Open
  <2>. QED  BY <2>1, Concats
<1>2. /\ p.got \in Seq(Unit) /\ r.net \in Seq(Unit) /\ r.outbuf \in Seq(Unit)
      /\ r.net \o r.outbuf \in Seq(Unit)
  BY ConcatProperties DEF Fields, PeerFields
<1>3. p.got \o (r.net \o r.outbuf) = Stream(Greeting(r))
  <2>1. Greeting(r) \in Seq(Frame)
    BY WelcomingFrames
  <2>2. Greeting(r) \o <<>> = Greeting(r) /\ Replying(<<>>) = <<>>
    BY <2>1, ConcatEmptySeq, ReplyingFacts
  <2>3. (p.got \o r.net) \o r.outbuf = Stream(Greeting(r))
    BY <1>1, <2>2 DEF Open, Answered
  <2>4. \A a, b, d \in Seq(Unit) : (a \o b) \o d = a \o (b \o d)
    BY Concats
  <2>5. (p.got \o r.net) \o r.outbuf = p.got \o (r.net \o r.outbuf)
    BY <1>2, <2>4, Zenon
  <2>. QED  BY <2>3, <2>5, Zenon
<1>. DEFINE f == Frames(p.got)
            g == Frames(r.net \o r.outbuf)
<1>4. f \in Seq(Frame) /\ g \in Seq(Frame) /\ f \o g = Greeting(r)
  <2>1. Frames(p.got \o (r.net \o r.outbuf)) = f \o g
    BY <1>2, FramesFacts
  <2>2. Frames(Stream(Greeting(r))) = Greeting(r)
    BY WelcomingFrames, FramesOfStream
  <2>3. f \in Seq(Frame) /\ g \in Seq(Frame)
    BY <1>2, FramesFacts
  <2>. QED  BY <1>3, <2>1, <2>2, <2>3, Zenon
<1>. HIDE DEF f, g
<1>5. SUFFICES ASSUME "welcome" \in Range(f) PROVE FALSE
  BY DEF f
<1>6. PICK k \in DOMAIN f : f[k] = "welcome"
  BY <1>5 DEF Range
<1>7. /\ Len(f \o g) = Len(f) + Len(g) /\ Len(f) \in Nat /\ Len(g) \in Nat
      /\ k \in 1 .. Len(f) /\ (f \o g)[k] = f[k]
  BY <1>4, <1>6, ConcatProperties
<1>8. k \in 1 .. Len(Greeting(r)) /\ Greeting(r)[k] = "welcome"
  BY <1>4, <1>6, <1>7
<1>. QED  BY <1>8 DEF Greeting, Welcoming

\* A frame the peer sends, or begins to send.
UnitsCut(m, n, first, second) ==
  /\ first = SubSeq(Units(m), 1, n) /\ second = SubSeq(Units(m), n + 1, Len(Units(m)))

LEMMA CutUnits ==
  ASSUME NEW m \in Kind, NEW n \in 1 .. Len(Units(m)), NEW first, NEW second,
         UnitsCut(m, n, first, second)
  PROVE  first \in Seq(Unit) /\ second \in Seq(Unit) /\ second \in Halves /\ first \o second = Units(m)
<1>1. /\ Units(m) \in Seq(Unit) /\ Len(Units(m)) \in Nat /\ n \in Nat /\ n <= Len(Units(m))
  BY FramesOfUnits DEF Frame
<1>2. first \in Seq(Unit) /\ second \in Seq(Unit) /\ first \o second = Units(m)
  BY <1>1, Cut DEF UnitsCut
<1>3. second \in Halves
  <2>1. CASE m = "request" /\ n = 1
    <3>1. Units(m) = <<FirstHalf, SecondHalf>>
      BY <2>1 DEF Units, FirstHalf, SecondHalf
    <3>2. /\ Len(Units(m)) = 2 /\ Units(m)[2] = SecondHalf
          /\ <<SecondHalf>> \in Seq(Unit) /\ Len(<<SecondHalf>>) = 1 /\ <<SecondHalf>>[1] = SecondHalf
      BY <3>1, RequestUnits
    <3>. DEFINE u == Units(m)
    <3>3. u \in Seq(Unit) /\ Len(u) = 2 /\ u[2] = SecondHalf /\ second = SubSeq(u, 2, 2)
      BY <1>1, <2>1, <3>2 DEF UnitsCut
    <3>. HIDE DEF u
    <3>4. /\ second \in Seq(Unit) /\ Len(second) = IF 2 <= 2 THEN 2 - 2 + 1 ELSE 0
          /\ \A i \in 1 .. 2 - 2 + 1 : second[i] = u[2 + i - 1]
      <4>1. \A i \in 2 .. 2 : u[i] \in Unit
        BY <3>3, RequestUnits
      <4>. QED  BY <3>3, <4>1, SubSeqProperties
    <3>5. Len(second) = 1 /\ second[1] = SecondHalf
      BY <3>3, <3>4
    <3>6. \A i \in 1 .. 1 : second[i] = <<SecondHalf>>[i]
      BY <3>2, <3>5
    <3>. DEFINE b == <<SecondHalf>>
    <3>7. b \in Seq(Unit) /\ Len(b) = 1 /\ \A i \in 1 .. 1 : second[i] = b[i]
      BY <3>2, <3>6
    <3>. HIDE DEF b
    <3>8. second = b
      BY <3>4, <3>5, <3>7, SeqEqual
    <3>. QED  BY <3>8 DEF Halves, b
  <2>2. CASE n = Len(Units(m))
    <3>1. SubSeq(Units(m), n + 1, n) = <<>>
      BY <1>1
    <3>. QED  BY <2>2, <3>1 DEF UnitsCut, Halves
  <2>3. Len(Units(m)) \in {1, 2} /\ (m # "request" => Len(Units(m)) = 1)
    BY DEF Units, Kind
  <2>4. n = Len(Units(m)) \/ (m = "request" /\ n = 1)
    <3>1. CASE Len(Units(m)) = 1
      BY <3>1
    <3>2. CASE Len(Units(m)) = 2
      <4>1. n \in 1 .. 2 /\ m = "request"
        BY <2>3, <3>2
      <4>. QED  BY <3>2, <4>1
    <3>. QED  BY <2>3, <3>1, <3>2
  <2>. QED  BY <2>1, <2>2, <2>4
<1>. QED  BY <1>2, <1>3

LEMMA SendLink ==
  ASSUME NEW r, NEW p, PeerFields(p), Link(r, p), r.at # "closed", p.half = <<>>,
         NEW m \in Kind, NEW n \in 1 .. Len(Units(m)), NEW first, NEW second,
         UnitsCut(m, n, first, second),
         Auth /\ m # "auth" => "welcome" \in Range(Frames(p.got)), NEW s, NEW q,
         s.at = r.at, s.handshaking = r.handshaking, s.authed = r.authed,
         s.in = r.in \o first, s.inbuf = r.inbuf, s.outbuf = r.outbuf, s.net = r.net,
         q.got = p.got, q.sent = Append(p.sent, m), q.half = second
  PROVE  PeerFields(q) /\ Link(s, q)
<1>1. /\ first \in Seq(Unit) /\ second \in Seq(Unit) /\ second \in Halves /\ first \o second = Units(m)
  BY CutUnits
<1>2. /\ Fields(r) /\ r.in \in Seq(Unit) /\ r.inbuf \in Seq(Unit) /\ p.sent \in Seq(Kind)
      /\ \E read, left \in Seq(Kind) : Open(r, p, read, left)
  BY DEF PeerFields, Link, Fields
<1>3. PeerFields(q)
  BY <1>1, <1>2 DEF PeerFields
<1>4. s.in \in Seq(Unit)
  BY <1>1, <1>2, ConcatProperties
<1>5. Fields(s)
  BY <1>2, <1>4 DEF Fields
<1>6. PICK read \in Seq(Kind), left \in Seq(Kind) : Open(r, p, read, left)
  BY <1>2
<1>. DEFINE more == Append(left, m)
<1>7. more \in Seq(Kind) /\ q.sent = read \o more
  <2>1. more = left \o <<m>> /\ <<m>> \in Seq(Kind) /\ more \in Seq(Kind)
    BY AppendIsConcat
  <2>2. p.sent = read \o left /\ Append(p.sent, m) = p.sent \o <<m>>
    BY <1>2, <1>6, AppendIsConcat DEF Open
  <2>3. \A a, b, d \in Seq(Kind) : (a \o b) \o d = a \o (b \o d)
    BY Concats
  <2>4. (read \o left) \o <<m>> = read \o (left \o <<m>>)
    BY <2>1, <2>3, Zenon
  <2>. QED  BY <2>1, <2>2, <2>4
<1>8. Unread(s, q, more)
  <2>1. Stream(more) = Stream(left) \o Units(m)
    <3>1. left \in Seq(Frame) /\ m \in Frame
      BY KindsAreFrames DEF Frame
    <3>. QED  BY <3>1, StreamFacts
  <2>2. r.inbuf \o r.in = Stream(left)
    <3>1. r.inbuf \o r.in \in Seq(Unit)
      BY <1>2, ConcatProperties
    <3>2. (r.inbuf \o r.in) \o <<>> = Stream(left)
      BY <1>6 DEF Open, Unread
    <3>. QED  BY <3>1, <3>2, ConcatEmptySeq
  <2>3. (r.inbuf \o (r.in \o first)) \o second = (r.inbuf \o r.in) \o (first \o second)
    <3>1. \A a, b, d \in Seq(Unit) : (a \o b) \o d = a \o (b \o d)
      BY Concats
    <3>2. r.inbuf \o (r.in \o first) = (r.inbuf \o r.in) \o first
      BY <1>1, <1>2, <3>1, Zenon
    <3>3. r.inbuf \o r.in \in Seq(Unit)
      BY <1>2, ConcatProperties
    <3>4. ((r.inbuf \o r.in) \o first) \o second = (r.inbuf \o r.in) \o (first \o second)
      BY <1>1, <3>1, <3>3, Zenon
    <3>. QED  BY <3>2, <3>4, Zenon
  <2>. QED  BY <1>1, <2>1, <2>2, <2>3, Zenon DEF Unread
<1>9. AnswersFirst(q)
  <2>1. CASE p.sent = <<>>
    <3>1. Auth => m = "auth"
      BY <1>2, <1>6, <2>1, NoWelcomeYet
    <3>2. q.sent[1] = m
      BY <2>1
    <3>. QED  BY <3>1, <3>2 DEF AnswersFirst
  <2>2. CASE p.sent # <<>>
    <3>1. Auth => p.sent[1] = "auth"
      BY <1>6, <2>2 DEF Open, AnswersFirst
    <3>2. q.sent[1] = p.sent[1]
      <4>1. Len(p.sent) \in Nat /\ Len(p.sent) >= 1
        BY <1>2, <2>2, EmptySeq
      <4>. QED  BY <1>2, <4>1, AppendProperties
    <3>. QED  BY <3>1, <3>2 DEF AnswersFirst
  <2>. QED  BY <2>1, <2>2
<1>. HIDE DEF more
<1>10. Open(s, q, read, more)
  BY <1>6, <1>7, <1>8, <1>9 DEF Open, Answered, Greeted, Greeting
<1>. QED  BY <1>3, <1>5, <1>7, <1>10 DEF Link

-----------------------------------------------------------------------------
\* The steps.

\* What waits in a thread's events is selected, its own, and one event for each
\* connection.
Current ==
  \A i \in IO :
    /\ \A e \in thread[i].events : e.conn \in Conn => conn[e.conn].at = "selected" /\ conn[e.conn].io = i
    /\ \A e, f \in thread[i].events : e.conn = f.conn => e = f

\* A thread closes no connection of a peer that gave it no reason to.
Excused == \A c \in Conn : conn[c].at = "selected" /\ conn'[c].at = "closed" /\ shut = "no" => AtFault(c)

\* What is selected stays so, with its thread.
Stays == \A c \in Conn : conn[c].at = "selected" => conn'[c].at = "selected" /\ conn'[c].io = conn[c].io

Intact == Inv /\ Current /\ Wire
Keeps == Current' /\ Wire' /\ Excused

LEMMA StaysKeeps ==
  ASSUME Current, Stays, \A i \in IO : thread'[i].events \subseteq thread[i].events
  PROVE  Current' /\ Excused
<1>1. Excused
  BY DEF Excused, Stays
<1>2. Current'
  BY DEF Current, Stays
<1>. QED  BY <1>1, <1>2

\* What a step makes of each connection.
Linked(c) ==
  peer'[c].at # "gone" =>
    /\ peer[c].at # "gone"
    /\ PeerFields(peer[c]) /\ Link(conn[c], peer[c]) => PeerFields(peer'[c]) /\ Link(conn'[c], peer'[c])

LEMMA LinkedWire ==
  ASSUME Wire, \A c \in Conn : Linked(c)
  PROVE  Wire'
BY DEF Wire, Linked

\* A step that neither a connection nor its peer sees.
LEMMA QuietKeeps ==
  ASSUME Intact, UNCHANGED <<conn, peer>>, \A i \in IO : thread'[i].events \subseteq thread[i].events
  PROVE  Keeps
<1>1. Stays
  BY DEF Stays
<1>2. \A c \in Conn : Linked(c)
  BY DEF Linked
<1>. QED  BY <1>1, <1>2, StaysKeeps, LinkedWire DEF Intact, Keeps

\* A reset of what no one will accept.
LEMMA ResetLinked ==
  ASSUME ConnShape, NEW c \in Conn, NEW b, NEW p, PeerFields(p), Link(conn[c], p)
  PROVE  Link(Reset(b)[c], p)
<1>1. IsConn(conn[c])
  BY DEF ConnShape
<1>2. Reset(b)[c] = conn[c] \/ (conn[c].at = "backlog" /\ Reset(b)[c] = [conn[c] EXCEPT !.at = "closed"])
  BY DEF Reset
<1>. QED  BY <1>1, <1>2, ResetLink

LEMMA ResetStays ==
  ASSUME ConnShape, NEW c \in Conn, NEW b
  PROVE  conn[c].at # "backlog" => Reset(b)[c] = conn[c]
BY DEF Reset, ConnShape

LEMMA ResetKeeps ==
  ASSUME Intact, NEW b, conn' = Reset(b), UNCHANGED <<peer, thread>>
  PROVE  Keeps
<1>1. ConnShape
  BY DEF Intact, Inv, Shape
<1>2. Stays
  BY <1>1, ResetStays DEF Stays
<1>3. \A c \in Conn : Linked(c)
  BY <1>1, ResetLinked DEF Linked
<1>. QED  BY <1>2, <1>3, StaysKeeps, LinkedWire DEF Intact, Keeps

LEMMA AcceptKeeps ==
  ASSUME Intact, NEW c \in Conn, Accept(c)
  PROVE  Keeps
<1>. DEFINE b == shut \in {"stop", "stopped"}
            rest == Reset(b)
            r == conn[c]
<1>1. ConnShape /\ PeerShape /\ IsConn(r) /\ r.at = "backlog" /\ UNCHANGED <<peer, thread>>
  BY DEF Intact, Inv, Shape, ConnShape, Accept, io
<1>2. rest = [d \in Conn |-> rest[d]] /\ (rest[c] = r \/ rest[c] = [r EXCEPT !.at = "closed"])
  BY <1>1 DEF Reset
<1>3. \/ conn' = [rest EXCEPT ![c] = [rest[c] EXCEPT !.at = "closed"]]
      \/ conn' = [rest EXCEPT ![c] = [r EXCEPT !.at = "accepted", !.handshaking = Tls]]
  BY DEF Accept
<1>. HIDE DEF rest
<1>4. \A d \in Conn \ {c} : conn'[d] = rest[d]
  BY <1>2, <1>3
<1>5. conn'[c] = [r EXCEPT !.at = "closed"] \/ conn'[c] = [r EXCEPT !.at = "accepted", !.handshaking = Tls]
  <2>1. [[r EXCEPT !.at = "closed"] EXCEPT !.at = "closed"] = [r EXCEPT !.at = "closed"]
    BY <1>1 DEF IsConn
  <2>. HIDE DEF r
  <2>2. conn'[c] = [rest[c] EXCEPT !.at = "closed"] \/ conn'[c] = [r EXCEPT !.at = "accepted", !.handshaking = Tls]
    BY <1>2, <1>3
  <2>. QED  BY <1>2, <2>1, <2>2
<1>6. Stays
  BY <1>1, <1>4, ResetStays DEF Stays, rest
<1>7. \A d \in Conn \ {c} : Linked(d)
  BY <1>1, <1>4, ResetLinked DEF Linked, rest
<1>8. Linked(c)
  <2>. SUFFICES ASSUME PeerFields(peer[c]), Link(r, peer[c]) PROVE Link(conn'[c], peer[c])
    BY <1>1 DEF Linked
  <2>1. Link([r EXCEPT !.at = "closed"], peer[c])
    BY <1>1, ResetLink
  <2>2. Link([r EXCEPT !.at = "accepted", !.handshaking = Tls], peer[c])
    <3>. DEFINE s == [r EXCEPT !.at = "accepted", !.handshaking = Tls]
    <3>1. /\ s.at = "accepted" /\ s.handshaking = Tls /\ s.in = r.in /\ s.inbuf = r.inbuf
          /\ s.outbuf = r.outbuf /\ s.net = r.net /\ s.authed = r.authed
      BY <1>1 DEF IsConn
    <3>2. Tls \in BOOLEAN
      BY ConstantAssumption
    <3>. HIDE DEF s, r
    <3>3. ~Greeted(r) /\ ~Greeted(s)
      BY <1>1, <3>1 DEF Greeted
    <3>4. Link(s, peer[c])
      BY <1>1, <3>1, <3>2, <3>3, SameLink
    <3>. QED  BY <3>4 DEF s
  <2>. QED  BY <1>5, <2>1, <2>2
<1>. QED  BY <1>1, <1>6, <1>7, <1>8, StaysKeeps, LinkedWire DEF Intact, Keeps

LEMMA WrapFailsKeeps ==
  ASSUME Intact, WrapFails
  PROVE  Keeps
<1>. DEFINE c == acceptor.conn
<1>1. /\ conn[c].at = "accepted" /\ peer[c].at = "gone" /\ c \in Conn /\ ConnShape
      /\ \A d \in Conn \ {c} : conn'[d] = conn[d]
      /\ UNCHANGED <<peer, thread>>
  BY DEF Intact, Inv, Places, Shape, ConnShape, WrapFails, io
<1>2. Stays
  BY <1>1 DEF Stays
<1>3. \A d \in Conn : Linked(d)
  BY <1>1 DEF Linked
<1>. QED  BY <1>1, <1>2, <1>3, StaysKeeps, LinkedWire DEF Intact, Keeps

LEMMA HandOverKeeps ==
  ASSUME Intact, HandOver
  PROVE  Keeps
<1>. DEFINE c == acceptor.conn
            r == conn[c]
<1>1. /\ r.at = "accepted" /\ c \in Conn /\ ConnShape /\ IsConn(r) /\ UNCHANGED <<peer, thread>>
  BY DEF Intact, Inv, Places, Shape, ConnShape, HandOver
<1>2. PICK i \in IO : conn' = [conn EXCEPT ![c] = [r EXCEPT !.io = i]]
  BY DEF HandOver
<1>. DEFINE s == [r EXCEPT !.io = i]
<1>3. /\ s.at = "accepted" /\ s.handshaking = r.handshaking /\ s.in = r.in /\ s.inbuf = r.inbuf
      /\ s.outbuf = r.outbuf /\ s.net = r.net /\ s.authed = r.authed
  BY <1>1 DEF IsConn
<1>4. conn'[c] = s /\ \A d \in Conn \ {c} : conn'[d] = conn[d]
  BY <1>1, <1>2 DEF ConnShape
<1>. HIDE DEF c, s, r
<1>5. Stays
  BY <1>1, <1>4 DEF Stays, r
<1>6. Linked(c)
  <2>. SUFFICES ASSUME PeerFields(peer[c]), Link(r, peer[c]) PROVE Link(s, peer[c])
    BY <1>1, <1>4 DEF Linked, r
  <2>1. ~Greeted(r) /\ ~Greeted(s)
    BY <1>1, <1>3 DEF Greeted
  <2>2. s.handshaking \in BOOLEAN
    BY <1>3 DEF Link, Fields
  <2>. QED  BY <1>1, <1>3, <2>1, <2>2, SameLink
<1>7. \A d \in Conn : Linked(d)
  BY <1>1, <1>4, <1>6 DEF Linked
<1>. QED  BY <1>1, <1>5, <1>7, StaysKeeps, LinkedWire DEF Intact, Keeps

LEMMA PeerKeeps ==
  ASSUME Intact, NEW c \in Conn, PeerStep(c)
  PROVE  Keeps
<1>. DEFINE r == conn[c]
            p == peer[c]
<1>1. /\ ConnShape /\ PeerShape /\ Known /\ IsConn(r) /\ IsPeer(p) /\ Shape /\ UNCHANGED thread
  BY DEF Intact, Inv, Shape, ConnShape, PeerShape, PeerStep, Connect, Shake, Send, SendRest, Receive, Hangup, io
<1>2. Stays
  BY <1>1, PeerShapes DEF Stays, Mild
<1>3. ASSUME NEW s, NEW q, conn' = [conn EXCEPT ![c] = s], peer' = [peer EXCEPT ![c] = q],
             p.at # "gone",
             q.at # "gone" /\ PeerFields(p) /\ Link(r, p) => PeerFields(q) /\ Link(s, q)
      PROVE  \A d \in Conn : Linked(d)
  <2>1. conn'[c] = s /\ peer'[c] = q /\ \A d \in Conn \ {c} : conn'[d] = conn[d] /\ peer'[d] = peer[d]
    BY <1>1, <1>3 DEF ConnShape, PeerShape
  <2>. QED  BY <1>3, <2>1 DEF Linked
<1>4. SUFFICES \A d \in Conn : Linked(d)
  BY <1>1, <1>2, StaysKeeps, LinkedWire DEF Intact, Keeps
<1>5. CASE Connect(c)
  <2>. DEFINE s == [r EXCEPT !.at = "backlog"]
              q == [p EXCEPT !.at = "up"]
  <2>1. /\ p.at = "new" /\ r.at = "new" /\ conn' = [conn EXCEPT ![c] = s] /\ peer' = [peer EXCEPT ![c] = q]
    BY <1>1, <1>5 DEF Connect, Known
  <2>2. /\ s.at = "backlog" /\ s.handshaking = r.handshaking /\ s.in = r.in /\ s.inbuf = r.inbuf
        /\ s.outbuf = r.outbuf /\ s.net = r.net /\ s.authed = r.authed
    BY <1>1 DEF IsConn
  <2>3. q.got = p.got /\ q.sent = p.sent /\ q.half = p.half
    BY <1>1 DEF IsPeer
  <2>. HIDE DEF s, q, p, r
  <2>4. ~Greeted(r) /\ ~Greeted(s)
    BY <2>1, <2>2 DEF Greeted
  <2>5. ASSUME PeerFields(p), Link(r, p) PROVE PeerFields(q) /\ Link(s, q)
    <3>1. s.handshaking \in BOOLEAN
      BY <2>2, <2>5 DEF Link, Fields
    <3>. QED  BY <2>1, <2>2, <2>3, <2>4, <2>5, <3>1, SameLink, SamePeer
  <2>. QED  BY <1>3, <2>1, <2>5
<1>6. CASE Shake(c)
  <2>1. PICK x : /\ peer' = [peer EXCEPT ![c] = [p EXCEPT !.tls = x]] /\ p.at = "up" /\ UNCHANGED conn
    BY <1>6 DEF Shake
  <2>. DEFINE q == [p EXCEPT !.tls = x]
  <2>2. q.got = p.got /\ q.sent = p.sent /\ q.half = p.half
    BY <1>1 DEF IsPeer
  <2>3. conn' = [conn EXCEPT ![c] = r]
    BY <1>1, <2>1 DEF ConnShape
  <2>4. peer' = [peer EXCEPT ![c] = q]
    BY <2>1
  <2>. HIDE DEF q, p, r
  <2>5. ASSUME PeerFields(p), Link(r, p) PROVE PeerFields(q) /\ Link(r, q)
    BY <2>2, <2>5, SamePeer
  <2>. QED  BY <1>3, <2>1, <2>3, <2>4, <2>5
<1>7. ASSUME NEW m \in Kind, NEW n \in 1 .. 2, Send(c, m, n)
      PROVE  \A d \in Conn : Linked(d)
  <2>. DEFINE first == SubSeq(Units(m), 1, n)
              second == SubSeq(Units(m), n + 1, Len(Units(m)))
              s == [r EXCEPT !.in = r.in \o first]
              q == [p EXCEPT !.sent = Append(p.sent, m), !.half = second]
  <2>1. /\ p.at = "up" /\ r.at # "closed" /\ p.half = <<>> /\ n \in 1 .. Len(Units(m))
        /\ Auth /\ m # "auth" => "welcome" \in Range(Frames(p.got))
        /\ conn' = [conn EXCEPT ![c] = s] /\ peer' = [peer EXCEPT ![c] = q]
    <3>1. /\ p.at = "up" /\ r.at # "closed" /\ p.half = <<>> /\ n \in 1 .. Len(Units(m))
          /\ conn' = [conn EXCEPT ![c] = s] /\ peer' = [peer EXCEPT ![c] = q]
      BY <1>7 DEF Send
    <3>2. m # "auth" => Welcome(c)
      BY <1>7 DEF Send
    <3>3. Welcome(c) /\ Auth => "welcome" \in Range(Frames(p.got))
      BY DEF Welcome
    <3>. QED  BY <3>1, <3>2, <3>3
  <2>2. UnitsCut(m, n, first, second)
    BY DEF UnitsCut
  <2>. HIDE DEF first, second
  <2>3. /\ s.at = r.at /\ s.handshaking = r.handshaking /\ s.in = r.in \o first /\ s.inbuf = r.inbuf
        /\ s.outbuf = r.outbuf /\ s.net = r.net /\ s.authed = r.authed
    BY <1>1 DEF IsConn
  <2>4. q.got = p.got /\ q.sent = Append(p.sent, m) /\ q.half = second
    BY <1>1 DEF IsPeer
  <2>. HIDE DEF s, q, p, r
  <2>5. ASSUME PeerFields(p), Link(r, p) PROVE PeerFields(q) /\ Link(s, q)
    BY <2>1, <2>2, <2>3, <2>4, <2>5, SendLink
  <2>. QED  BY <1>3, <2>1, <2>5
<1>8. CASE SendRest(c)
  <2>. DEFINE s == [r EXCEPT !.in = r.in \o p.half]
              q == [p EXCEPT !.half = <<>>]
  <2>1. p.at = "up" /\ conn' = [conn EXCEPT ![c] = s] /\ peer' = [peer EXCEPT ![c] = q]
    BY <1>8 DEF SendRest
  <2>2. /\ s.at = r.at /\ s.handshaking = r.handshaking /\ s.in = r.in \o p.half /\ s.inbuf = r.inbuf
        /\ s.outbuf = r.outbuf /\ s.net = r.net /\ s.authed = r.authed
    BY <1>1 DEF IsConn
  <2>3. q.got = p.got /\ q.sent = p.sent /\ q.half = <<>>
    BY <1>1 DEF IsPeer
  <2>. HIDE DEF s, q, p, r
  <2>4. ASSUME PeerFields(p), Link(r, p) PROVE PeerFields(q) /\ Link(s, q)
    BY <2>2, <2>3, <2>4, RestLink
  <2>. QED  BY <1>3, <2>1, <2>4
<1>9. CASE Receive(c)
  <2>. DEFINE s == [r EXCEPT !.net = <<>>]
              q == [p EXCEPT !.got = p.got \o r.net]
  <2>1. p.at = "up" /\ conn' = [conn EXCEPT ![c] = s] /\ peer' = [peer EXCEPT ![c] = q]
    BY <1>9 DEF Receive
  <2>2. /\ s.at = r.at /\ s.handshaking = r.handshaking /\ s.in = r.in /\ s.inbuf = r.inbuf
        /\ s.outbuf = r.outbuf /\ s.net = <<>> /\ s.authed = r.authed
    BY <1>1 DEF IsConn
  <2>3. q.got = p.got \o r.net /\ q.sent = p.sent /\ q.half = p.half
    BY <1>1 DEF IsPeer
  <2>. HIDE DEF s, q, p, r
  <2>4. ASSUME PeerFields(p), Link(r, p) PROVE PeerFields(q) /\ Link(s, q)
    BY <2>2, <2>3, <2>4, ReceiveLink
  <2>. QED  BY <1>3, <2>1, <2>4
<1>10. CASE Hangup(c)
  <2>1. /\ peer'[c].at = "gone" /\ \A d \in Conn \ {c} : conn'[d] = conn[d] /\ peer'[d] = peer[d]
    BY <1>1, <1>10 DEF Hangup, ConnShape, PeerShape, IsPeer
  <2>. QED  BY <2>1 DEF Linked
<1>. QED  BY <1>5, <1>6, <1>7, <1>8, <1>9, <1>10 DEF PeerStep

\* A peer that is there, of a connection that was opened.
LEMMA PeerUp ==
  ASSUME Intact, NEW c \in Conn, conn[c].at # "new", peer[c].at # "gone"
  PROVE  /\ peer[c].at = "up" /\ peer[c].tls \in {"pending", "done", "failed"}
         /\ PeerFields(peer[c]) /\ Link(conn[c], peer[c]) /\ Fields(conn[c])
BY DEF Intact, Inv, Shape, PeerShape, IsPeer, Known, Wire, Link

\* A connection becomes s.
LEMMA BecomesConn ==
  ASSUME Intact, NEW c \in Conn, NEW s, Becomes(c, s)
  PROVE  conn'[c] = s /\ \A d \in Conn \ {c} : conn'[d] = conn[d]
BY DEF Intact, Inv, Shape, ConnShape, Becomes

LEMMA TakeNewKeeps ==
  ASSUME Intact, NEW i \in IO, TakeNew(i)
  PROVE  Keeps
<1>. DEFINE q == thread[i].news
            c == Head(q)
            r == [conn[c] EXCEPT !.at = "selected"]
<1>1. ConnShape /\ ThreadShape /\ q \in Seq(Conn) /\ q # <<>> /\ IsThread(thread[i])
  BY DEF Intact, Inv, TakeNew, Shape, ThreadShape, IsThread
<1>2. c \in Conn /\ c = q[1] /\ 1 \in DOMAIN q
  BY <1>1, HeadTailProperties
<1>3. Waits(q, i)
  BY DEF Intact, Inv, Places
<1>4. conn[c].at = "accepted"
  BY SMTT(30), <1>2, <1>3 DEF Waits
<1>5. PICK s : /\ s \in (IF r.handshaking THEN Shaken(c, r) ELSE Established(c, r))
               /\ Becomes(c, s)
  BY DEF TakeNew
<1>6. UNCHANGED peer /\ \A j \in IO : thread'[j].events \subseteq thread[j].events
  BY <1>1 DEF TakeNew, ThreadShape, IsThread
<1>7. IsConn(conn[c]) /\ IsConn(r) /\ r.at = "selected" /\ r.handshaking = conn[c].handshaking
      /\ r.in = conn[c].in /\ r.inbuf = conn[c].inbuf /\ r.outbuf = conn[c].outbuf
      /\ r.net = conn[c].net /\ r.authed = conn[c].authed
  BY <1>1, <1>2 DEF ConnShape, IsConn
<1>. HIDE DEF r, c, q
<1>8. conn'[c] = s /\ \A d \in Conn \ {c} : conn'[d] = conn[d]
  BY <1>2, <1>5, BecomesConn
<1>9. Stays
  BY <1>4, <1>8 DEF Stays
<1>10. Linked(c)
  <2>. SUFFICES ASSUME peer[c].at # "gone" PROVE PeerFields(peer[c]) /\ Link(s, peer[c])
    BY <1>6, <1>8 DEF Linked
  <2>1. /\ peer[c].at = "up" /\ peer[c].tls \in {"pending", "done", "failed"}
        /\ PeerFields(peer[c]) /\ Link(conn[c], peer[c]) /\ Fields(conn[c])
    BY <1>2, <1>4, PeerUp
  <2>2. \E read, left \in Seq(Kind) : Open(conn[c], peer[c], read, left)
    BY <1>4, <2>1 DEF Link
  <2>3. PICK read \in Seq(Kind), left \in Seq(Kind) : Open(conn[c], peer[c], read, left)
    BY <2>2
  <2>4. Untold(conn[c], peer[c], left)
    BY <1>4, <2>3, OpenUntold DEF Greeted
  <2>5. Untold(r, peer[c], left) /\ Fields(r)
    BY <1>7, <2>1, <2>4 DEF Untold, Unread, Fields
  <2>6. CASE r.handshaking
    <3>1. s \in Shaken(c, r)
      BY <1>5, <2>6
    <3>. QED  BY <1>7, <2>1, <2>5, <2>6, <3>1, ShakenLink
  <2>7. CASE ~r.handshaking
    <3>1. s \in Established(c, r)
      BY <1>5, <2>7
    <3>. QED  BY <1>7, <2>1, <2>5, <3>1, EstablishedLink
  <2>. QED  BY <2>6, <2>7
<1>11. \A d \in Conn : Linked(d)
  BY <1>6, <1>8, <1>10 DEF Linked
<1>. QED  BY <1>6, <1>9, <1>11, StaysKeeps, LinkedWire DEF Intact, Keeps

LEMMA ConnEventKeeps ==
  ASSUME Intact, NEW i \in IO, ConnEvent(i)
  PROVE  Keeps
<1>1. PICK e \in thread[i].events :
        /\ e.conn # None
        /\ LET c == e.conn
           IN  IF conn[c].handshaking
               THEN \E r \in Shaken(c, conn[c]) : Becomes(c, r)
               ELSE \E r \in IF e.read THEN Read(c, conn[c]) ELSE {conn[c]} :
                      \E s \in IF e.write THEN Written(c, r) ELSE {r} : Becomes(c, s)
        /\ thread' = [thread EXCEPT ![i] = [thread[i] EXCEPT !.events = thread[i].events \ {e}]]
  BY DEF ConnEvent
<1>. DEFINE c == e.conn
            r == conn[c]
            p == peer[c]
<1>2. c \in Conn /\ ConnShape /\ ThreadShape /\ IsThread(thread[i])
  BY <1>1 DEF Intact, Inv, Shape, ThreadShape, IsThread
<1>3. r.at = "selected" /\ r.io = i /\ IsConn(r)
  BY <1>1, <1>2 DEF Intact, Current, ConnShape
<1>4. UNCHANGED peer
  BY DEF ConnEvent
<1>5. PICK s : /\ Becomes(c, s)
               /\ p.at # "gone" => /\ Link(s, p)
                                   /\ s.at = "closed" => p.tls = "failed" \/ Offends(c, r, p)
  <2>1. p.at # "gone" => /\ p.at = "up" /\ p.tls \in {"pending", "done", "failed"}
                         /\ PeerFields(p) /\ Link(r, p) /\ Fields(r)
    BY <1>2, <1>3, PeerUp
  <2>2. CASE r.handshaking
    <3>1. PICK s \in Shaken(c, r) : Becomes(c, s)
      BY <1>1, <2>2
    <3>2. ASSUME p.at # "gone" PROVE Link(s, p) /\ (s.at = "closed" => p.tls = "failed")
      <4>1. \E read, left \in Seq(Kind) : Open(r, p, read, left)
        BY <1>3, <2>1, <3>2 DEF Link
      <4>2. PICK read \in Seq(Kind), left \in Seq(Kind) : Open(r, p, read, left)
        BY <4>1
      <4>3. Untold(r, p, left)
        BY <2>2, <4>2, OpenUntold DEF Greeted
      <4>. HIDE DEF c
      <4>. QED  BY <1>3, <2>1, <2>2, <3>1, <3>2, <4>3, ShakenLink
    <3>. QED  BY <3>1, <3>2
  <2>3. CASE ~r.handshaking
    <3>1. PICK x \in (IF e.read THEN Read(c, r) ELSE {r}) :
            \E s \in IF e.write THEN Written(c, x) ELSE {x} : Becomes(c, s)
      BY <1>1, <2>3
    <3>2. PICK s \in (IF e.write THEN Written(c, x) ELSE {x}) : Becomes(c, s)
      BY <3>1
    <3>3. ASSUME p.at # "gone" PROVE Link(s, p) /\ (s.at = "closed" => Offends(c, r, p))
      <4>1. Greeted(r) /\ p.at = "up" /\ PeerFields(p) /\ Link(r, p)
        BY <1>3, <2>1, <2>3, <3>3 DEF Greeted
      <4>2. /\ IsConn(x) /\ x.at \in {"selected", "closed"} /\ Link(x, p)
            /\ x.at = "closed" => Offends(c, r, p)
        <5>1. x = r \/ x \in Read(c, r)
          BY <3>1
        <5>. HIDE DEF c
        <5>. QED  BY <1>3, <4>1, <5>1, ReadLink
      <4>3. s = x \/ (x.at = "selected" /\ s \in Sent(c, x))
        BY <3>2, <4>2 DEF Written
      <4>4. ASSUME x.at = "selected", s \in Sent(c, x) PROVE Link(s, p) /\ s.at = "selected"
        <5>. HIDE DEF c
        <5>. QED  BY <4>1, <4>2, <4>4, SentLink
      <4>. QED  BY <4>2, <4>3, <4>4
    <3>. QED  BY <3>2, <3>3
  <2>. QED  BY <2>2, <2>3
<1>6. conn'[c] = s /\ \A d \in Conn \ {c} : conn'[d] = conn[d]
  <2>. HIDE DEF c
  <2>. QED  BY <1>2, <1>5, BecomesConn
<1>7. \A d \in Conn : Linked(d)
  <2>1. ASSUME p.at # "gone" PROVE PeerFields(p) /\ Link(s, p)
    BY <1>2, <1>3, <1>5, <2>1, PeerUp
  <2>2. Linked(c)
    BY <1>4, <1>6, <2>1 DEF Linked
  <2>. QED  BY <1>4, <1>6, <2>2 DEF Linked
<1>8. Excused
  <2>1. Offends(c, r, p) \/ p.tls = "failed" \/ p.at = "gone" => AtFault(c)
    BY DEF Offends, AtFault
  <2>2. s.at = "closed" => AtFault(c)
    BY <1>5, <2>1
  <2>. HIDE DEF c, r, p
  <2>. QED  BY <1>6, <2>2 DEF Excused
<1>9. Current'
  <2>1. /\ thread'[i].events = thread[i].events \ {e} /\ \A j \in IO \ {i} : thread'[j] = thread[j]
    BY <1>1, <1>2 DEF ThreadShape, IsThread
  <2>2. ASSUME NEW j \in IO, NEW f \in thread'[j].events, f.conn \in Conn
        PROVE  conn'[f.conn].at = "selected" /\ conn'[f.conn].io = j
    <3>1. f \in thread[j].events /\ conn[f.conn].at = "selected" /\ conn[f.conn].io = j
      BY <2>1, <2>2 DEF Intact, Current
    <3>2. f.conn # c
      BY <1>3, <2>1, <2>2, <3>1 DEF Intact, Current
    <3>. QED  BY <1>6, <2>2, <3>1, <3>2
  <2>3. \A j \in IO : \A f, g \in thread'[j].events : f.conn = g.conn => f = g
    BY <2>1 DEF Intact, Current
  <2>. QED  BY <2>2, <2>3 DEF Current
<1>. QED  BY <1>7, <1>8, <1>9, LinkedWire DEF Intact, Keeps

LEMMA TeardownKeeps ==
  ASSUME Intact, NEW i \in IO, Teardown(i)
  PROVE  Keeps
<1>. DEFINE M == Mine(i)
<1>1. ConnShape /\ ThreadShape /\ IsThread(thread[i]) /\ shut = "stopped" /\ UNCHANGED peer
  BY DEF Intact, Inv, Shape, ThreadShape, Teardown, IOStop
<1>2. /\ \A c \in M : c \in Conn /\ conn[c].at = "selected" /\ conn[c].io = i /\ conn'[c] = Closed(conn[c])
      /\ \A c \in Conn \ M : conn'[c] = conn[c]
  BY DEF Teardown, Mine
<1>3. /\ thread[i].events = {} /\ \A j \in IO : thread'[j].events = thread[j].events
  <2>. DEFINE t == [thread[i] EXCEPT !.at = "ended"]
  <2>1. thread[i].events = {} /\ t.events = thread[i].events
    BY <1>1 DEF Teardown, IsThread
  <2>2. thread' = [thread EXCEPT ![i] = t]
    BY DEF Teardown
  <2>. HIDE DEF t
  <2>3. thread'[i] = t /\ \A j \in IO \ {i} : thread'[j] = thread[j]
    BY <1>1, <2>2 DEF ThreadShape
  <2>. QED  BY <2>1, <2>3
<1>. HIDE DEF M
<1>4. Excused
  BY <1>1 DEF Excused
<1>5. Current'
  <2>1. ASSUME NEW j \in IO, NEW f \in thread'[j].events, f.conn \in Conn
        PROVE  conn'[f.conn].at = "selected" /\ conn'[f.conn].io = j
    <3>1. j # i /\ conn[f.conn].at = "selected" /\ conn[f.conn].io = j
      BY <1>3, <2>1 DEF Intact, Current
    <3>. QED  BY <1>2, <2>1, <3>1
  <2>2. \A j \in IO : \A f, g \in thread'[j].events : f.conn = g.conn => f = g
    BY <1>3 DEF Intact, Current
  <2>. QED  BY <2>1, <2>2 DEF Current
<1>6. ASSUME NEW c \in M, peer[c].at # "gone"
      PROVE  PeerFields(peer[c]) /\ Link(Closed(conn[c]), peer[c])
  <2>1. PeerFields(peer[c]) /\ Link(conn[c], peer[c]) /\ Fields(conn[c]) /\ IsConn(conn[c])
    BY <1>1, <1>2, <1>6, PeerUp DEF ConnShape
  <2>2. \E read, left \in Seq(Kind) : Open(conn[c], peer[c], read, left)
    BY <1>2, <2>1 DEF Link
  <2>3. PICK read \in Seq(Kind), left \in Seq(Kind) : Open(conn[c], peer[c], read, left)
    BY <2>2
  <2>. QED  BY <2>1, <2>3, ClosedLink DEF Open
<1>7. \A c \in Conn : Linked(c)
  BY <1>1, <1>2, <1>6 DEF Linked
<1>. QED  BY <1>4, <1>5, <1>7, LinkedWire DEF Intact, Keeps

LEMMA SelectKeeps ==
  ASSUME Intact, NEW i \in IO, Select(i)
  PROVE  Keeps
<1>1. ThreadShape /\ IsThread(thread[i]) /\ UNCHANGED <<conn, peer>>
  BY DEF Intact, Inv, Shape, ThreadShape, Select
<1>2. thread'[i].events = Events(i) /\ \A j \in IO \ {i} : thread'[j] = thread[j]
  BY <1>1 DEF Select, ThreadShape, IsThread
<1>3. Excused
  BY <1>1 DEF Excused
<1>4. \A c \in Conn : Linked(c)
  BY <1>1 DEF Linked
<1>5. /\ \A e \in Events(i) : e.conn \in Conn => conn[e.conn].at = "selected" /\ conn[e.conn].io = i
      /\ \A e, f \in Events(i) : e.conn = f.conn => e = f
  <2>. DEFINE read(c) == [conn |-> c, read |-> CanRead(c), write |-> CanWrite(c)]
  <2>1. \A e \in Events(i) : \/ e = [conn |-> None, read |-> TRUE, write |-> FALSE]
                            \/ \E c \in Mine(i) : e = read(c)
    BY DEF Events
  <2>2. \A c : read(c).conn = c
    OBVIOUS
  <2>3. \A c \in Mine(i) : c \in Conn /\ conn[c].at = "selected" /\ conn[c].io = i
    BY DEF Mine
  <2>. HIDE DEF read
  <2>4. \A e \in Events(i) :
          \/ e = [conn |-> None, read |-> TRUE, write |-> FALSE] /\ e.conn = None
          \/ e.conn \in Mine(i) /\ e = read(e.conn)
    BY <2>1, <2>2
  <2>. QED  BY <2>3, <2>4, Constants
<1>6. Current'
  BY <1>1, <1>2, <1>5 DEF Intact, Current
<1>. QED  BY <1>3, <1>4, <1>6, LinkedWire DEF Intact, Keeps

LEMMA InitIntact == Init => Intact
<1> SUFFICES ASSUME Init PROVE Intact
  OBVIOUS
<1>1. Inv
  BY InitInv
<1>2. Current
  BY DEF Init, Current
<1>3. ASSUME NEW c \in Conn PROVE PeerFields(peer[c]) /\ Link(conn[c], peer[c])
  <2>1. conn[c] = Fresh /\ \E x \in {"pending", "done"} : peer[c] = [Caller EXCEPT !.tls = x]
    BY DEF Init
  <2>2. /\ peer[c].got = <<>> /\ peer[c].sent = <<>> /\ peer[c].half = <<>>
        /\ conn[c].at = "new" /\ conn[c].in = <<>> /\ conn[c].inbuf = <<>> /\ conn[c].outbuf = <<>>
        /\ conn[c].net = <<>> /\ conn[c].handshaking = FALSE /\ conn[c].authed = FALSE
    BY <2>1 DEF Fresh, Caller
  <2>3. /\ <<>> \in Seq(Unit) /\ <<>> \in Seq(Kind) /\ <<>> \in Halves /\ Len(<<>>) = 0 /\ <<>> \o <<>> = <<>>
        /\ Stream(<<>>) = <<>> /\ SendSpace \in Nat
    BY RequestUnits, StreamFacts, KindsAreFrames, ConstantAssumption DEF Halves
  <2>4. PeerFields(peer[c]) /\ Fields(conn[c])
    <3>1. Len(conn[c].net) = 0
      BY <2>2, <2>3
    <3>2. Len(conn[c].net) <= SendSpace
      BY <2>3, <3>1
    <3>3. Fields(conn[c])
      BY <2>2, <2>3, <3>2 DEF Fields
    <3>. QED  BY <2>2, <2>3, <3>3 DEF PeerFields
  <2>5. ~Greeted(conn[c])
    BY <2>2 DEF Greeted
  <2>6. Untold(conn[c], peer[c], <<>>)
    BY <2>2, <2>3 DEF Untold, Unread, AnswersFirst
  <2>7. Open(conn[c], peer[c], <<>>, <<>>)
    BY <2>3, <2>5, <2>6, OpenUntold
  <2>. QED  BY <2>2, <2>3, <2>4, <2>7 DEF Link
<1>. QED  BY <1>1, <1>2, <1>3 DEF Intact, Wire

LEMMA NextKeeps == Intact /\ [Next]_vars => Keeps
<1> SUFFICES ASSUME Intact, [Next]_vars PROVE Keeps
  OBVIOUS
<1>0. ThreadShape /\ ConnShape /\ \A i \in IO : IsThread(thread[i])
  BY DEF Intact, Inv, Shape, ThreadShape
<1>1. CASE AcceptLoop \/ EnterRegistry \/ Wake
  <2>1. UNCHANGED <<conn, peer, thread>>
    BY <1>1 DEF AcceptLoop, EnterRegistry, Wake, io
  <2>. QED  BY <2>1, QuietKeeps
<1>2. CASE AcceptFails \/ Shutdown
  <2>1. UNCHANGED <<peer, thread>> /\ \E b \in BOOLEAN : conn' = Reset(b)
    BY <1>2 DEF AcceptFails, Shutdown, io
  <2>. QED  BY <2>1, ResetKeeps
<1>3. CASE AcceptStep \/ WrapFails
  BY <1>1, <1>2, <1>3, AcceptKeeps, WrapFailsKeeps, HandOverKeeps DEF AcceptStep
<1>4. ASSUME NEW i \in IO, WakeEvent(i) \/ DrainReg(i) PROVE Keeps
  <2>1. UNCHANGED <<conn, peer>>
    BY <1>4 DEF WakeEvent, DrainReg
  <2>2. \A j \in IO : thread'[j].events \subseteq thread[j].events
    <3>1. PICK t : /\ thread' = [thread EXCEPT ![i] = t]
                   /\ t.events \subseteq thread[i].events
      <4>1. CASE WakeEvent(i)
        <5>1. PICK e : thread' = [thread EXCEPT ![i] = [thread[i] EXCEPT !.at = "wake", !.events = thread[i].events \ {e}]]
          BY <4>1 DEF WakeEvent
        <5>2. [thread[i] EXCEPT !.at = "wake", !.events = thread[i].events \ {e}].events = thread[i].events \ {e}
          BY <1>0 DEF IsThread
        <5>. QED  BY <5>1, <5>2
      <4>2. CASE DrainReg(i)
        <5>1. thread' = [thread EXCEPT ![i] = [thread[i] EXCEPT !.at = "loop", !.news = reg[i]]]
          BY <4>2 DEF DrainReg
        <5>2. [thread[i] EXCEPT !.at = "loop", !.news = reg[i]].events = thread[i].events
          BY <1>0 DEF IsThread
        <5>. QED  BY <5>1, <5>2
      <4>. QED  BY <1>4, <4>1, <4>2
    <3>2. thread'[i] = t /\ \A j \in IO \ {i} : thread'[j] = thread[j]
      BY <1>0, <3>1 DEF ThreadShape
    <3>. QED  BY <3>1, <3>2
  <2>. QED  BY <2>1, <2>2, QuietKeeps
<1>5. CASE \E i \in IO : IOStep(i)
  BY <1>4, <1>5, SelectKeeps, TakeNewKeeps, ConnEventKeeps, TeardownKeeps DEF IOStep
<1>6. CASE \E c \in Conn : PeerStep(c)
  BY <1>6, PeerKeeps
<1>7. CASE OwnerStep
  <2>1. CASE (\E c \in Conn : AdmitPeer(c) \/ RevokePeer(c)) \/ StopIO
    <3>1. UNCHANGED <<conn, peer, thread>>
      BY <2>1 DEF AdmitPeer, RevokePeer, StopIO, io
    <3>. QED  BY <3>1, QuietKeeps
  <2>. QED  BY <1>2, <1>7, <2>1 DEF OwnerStep
<1>8. CASE UNCHANGED vars
  <2>1. UNCHANGED <<conn, peer, thread>>
    BY <1>8 DEF vars
  <2>. QED  BY <2>1, QuietKeeps
<1>. QED  BY <1>3, <1>5, <1>6, <1>7, <1>8 DEF Next

LEMMA AlwaysIntact == Spec => [](Intact /\ Inv)
<1>1. Intact /\ Inv /\ [Next]_vars => (Intact /\ Inv)'
  BY NextKeeps, NextInv DEF Keeps, Intact
<1>2. Init => Intact /\ Inv
  BY InitIntact, InitInv
<1>. QED  BY <1>1, <1>2, PTL DEF Spec

\* Whatever the partial reads and writes, and whoever else a thread serves,
\* what a peer has received, what the kernel holds and what the server still has
\* to send is the beginning of what the peer is owed (_consume, _queue, _flush).
THEOREM StreamsAreIntact == Spec => []StreamIntact
<1>1. Intact => StreamIntact
  <2>. SUFFICES ASSUME Intact, NEW c \in Conn, peer[c].at = "up"
                PROVE  IsPrefix(peer[c].got \o conn[c].net \o conn[c].outbuf, Owed(c))
    BY DEF StreamIntact
  <2>. DEFINE r == conn[c]
              p == peer[c]
  <2>1. PeerFields(p) /\ Link(r, p) /\ Fields(r)
    BY DEF Intact, Wire, Link
  <2>2. /\ p.got \in Seq(Unit) /\ r.net \in Seq(Unit) /\ r.outbuf \in Seq(Unit)
        /\ p.got \o r.net \in Seq(Unit) /\ (p.got \o r.net) \o r.outbuf \in Seq(Unit)
    BY <2>1, ConcatProperties DEF Fields, PeerFields
  <2>3. Owed(c) = OwedTo(p)
    BY DEF Owed, OwedTo, Welcoming, Replying
  <2>. HIDE DEF r, p
  <2>4. \E rest \in Seq(Unit) : ((p.got \o r.net) \o r.outbuf) \o rest = OwedTo(p)
    <3>1. CASE r.at = "closed"
      <4>1. r.outbuf = <<>> /\ \E rest \in Seq(Unit) : p.got \o r.net \o rest = OwedTo(p)
        BY <2>1, <3>1 DEF Link, Over
      <4>2. (p.got \o r.net) \o r.outbuf = p.got \o r.net
        BY <2>2, <4>1, ConcatEmptySeq
      <4>. QED  BY <4>1, <4>2
    <3>2. CASE r.at # "closed"
      <4>1. \E read, left \in Seq(Kind) : Open(r, p, read, left)
        BY <2>1, <3>2 DEF Link
      <4>2. PICK read \in Seq(Kind), left \in Seq(Kind) : Open(r, p, read, left)
        BY <4>1
      <4>. QED  BY <2>1, <4>2, OwedRest DEF Open
    <3>. QED  BY <3>1, <3>2
  <2>5. PICK rest \in Seq(Unit) : ((p.got \o r.net) \o r.outbuf) \o rest = OwedTo(p)
    BY <2>4
  <2>6. IsPrefix((p.got \o r.net) \o r.outbuf, ((p.got \o r.net) \o r.outbuf) \o rest)
    BY <2>2, Starts
  <2>. QED  BY <2>3, <2>5, <2>6 DEF r, p
<1>. QED  BY <1>1, AlwaysIntact, PTL

\* While the server is not being stopped, an I/O thread closes no connection
\* but of a peer that broke the protocol itself or left: whatever other peers
\* send, however frames are cut, and whomever revoke_peer names (_consume,
\* _dispatch).
THEOREM FailuresAreConfined == Spec => Confined
<1>1. Intact /\ Inv /\ [Next]_vars => Excused
  BY NextKeeps DEF Keeps
<1>2. Excused => [\A c \in Conn : conn[c].at = "selected" /\ conn'[c].at = "closed" /\ shut = "no" => AtFault(c)]_vars
  BY DEF Excused
<1>. QED  BY <1>1, <1>2, AlwaysIntact, PTL DEF Spec, Confined

-----------------------------------------------------------------------------
\* The other transport, P2p.

StreamFields == {"addr", "at", "sent", "late", "cut"}

Rpc == [at : {"idle", "lock", "dial", "send", "wait"}, call : Nat,
        targets : L!Candidates \cup {<<>>}, tried : Nat, attempt : Nat]

CallTypes ==
  /\ calls \in Seq([tried : Nat, runs : Nat])
  /\ caller \in [Dialer -> Rpc]
  /\ \A k \in DOMAIN stream : DOMAIN stream[k] = StreamFields

\* Every thread is in a call of its own, and is trying the last address counted,
\* or is about to try and count the next.
InCall ==
  \A c \in Dialer : caller[c].at # "idle" =>
    /\ caller[c].call \in DOMAIN calls
    /\ caller[c].tried # 0
    /\ caller[c].tried = calls[caller[c].call].tried + IF caller[c].at = "lock" THEN 1 ELSE 0
    /\ \A d \in Dialer \ {c} : caller[d].at # "idle" => caller[d].call # caller[c].call

\* Streams are of addresses that were tried, one that is being dialed has none.
Keyed ==
  /\ \A k \in DOMAIN stream : /\ k \in Nat \X Nat /\ k[1] \in DOMAIN calls
                              /\ k[2] \in 1 .. calls[k[1]].tried
  /\ \A c \in Dialer : caller[c].at = "dial" => L!Key(c) \notin DOMAIN stream

\* The addresses that a request may still be run for.
Reading(k) == k \in DOMAIN stream /\ stream[k].at = "reading"
Dialed(k) == \E c \in Dialer : caller[c].at = "dial" /\ L!Key(c) = k
Pending(n) == {i \in 1 .. calls[n].tried : Reading(<<n, i>>) \/ Dialed(<<n, i>>)}

\* A run takes one of them.
RunsCounted == \A n \in DOMAIN calls : calls[n].runs + Cardinality(Pending(n)) <= calls[n].tried

CallInv == CallTypes /\ InCall /\ Keyed /\ RunsCounted

-----------------------------------------------------------------------------
LEMMA CallType ==
  ASSUME CallTypes, NEW n \in DOMAIN calls
  PROVE  calls[n] \in [tried : Nat, runs : Nat] /\ calls[n].tried \in Nat /\ calls[n].runs \in Nat
<1>1. calls[n] \in [tried : Nat, runs : Nat]
  <2>1. calls \in Seq([tried : Nat, runs : Nat]) /\ n \in 1 .. Len(calls)
    BY DEF CallTypes
  <2>. QED  BY <2>1, ElementOfSeq
<1>. QED  BY <1>1

LEMMA PendingFinite ==
  ASSUME CallTypes, NEW n \in DOMAIN calls
  PROVE  IsFiniteSet(Pending(n)) /\ Cardinality(Pending(n)) \in Nat
<1>1. calls[n].tried \in Nat
  BY CallType
<1>2. IsFiniteSet(1 .. calls[n].tried)
  BY <1>1, FS_Interval
<1>3. Pending(n) \subseteq 1 .. calls[n].tried
  BY DEF Pending
<1>. QED  BY <1>2, <1>3, FS_Subset, FS_CardinalityType

\* A step after which no more requests may be run.
LEMMA FewerPending ==
  ASSUME CallTypes, RunsCounted, calls' = calls,
         \A k : Reading(k)' => Reading(k) \/ Dialed(k),
         \A c \in Dialer : caller'[c].at = "dial" =>
           caller[c].at = "dial" /\ caller'[c].call = caller[c].call /\ caller'[c].tried = caller[c].tried
  PROVE  RunsCounted'
<1>1. ASSUME NEW n \in DOMAIN calls
      PROVE  calls[n].runs + Cardinality(Pending(n)') <= calls[n].tried
  <2>1. Pending(n)' \subseteq Pending(n)
    BY DEF Pending, Dialed, L!Key
  <2>2. IsFiniteSet(Pending(n)) /\ Cardinality(Pending(n)) \in Nat
    BY PendingFinite
  <2>. DEFINE A == Pending(n)
              B == Pending(n)'
  <2>3. B \subseteq A /\ IsFiniteSet(A) /\ Cardinality(A) \in Nat
    BY <2>1, <2>2
  <2>4. calls[n].runs + Cardinality(A) <= calls[n].tried
    BY DEF RunsCounted
  <2>. HIDE DEF A, B
  <2>5. Cardinality(B) \in Nat /\ Cardinality(B) <= Cardinality(A)
    BY <2>3, FS_Subset, FS_CardinalityType
  <2>6. calls[n].runs + Cardinality(B) <= calls[n].tried
    BY <2>3, <2>4, <2>5, CallType
  <2>. QED  BY <2>6 DEF B
<1>. QED  BY <1>1 DEF RunsCounted

\* What can become of the streams but that one is opened.
Trims(s) ==
  /\ DOMAIN s \subseteq DOMAIN stream
  /\ \A k \in DOMAIN s : /\ DOMAIN s[k] = StreamFields
                         /\ s[k].at = "reading" => stream[k].at = "reading"

LEMMA StreamsTrimmed ==
  ASSUME CallTypes
  PROVE  /\ Trims(stream)
         /\ \A h : Trims(L!Cut(h))
         /\ \A c : Trims(L!Leave(c))
         /\ \A k : Trims(L!Closed(k))
<1>1. \A k \in DOMAIN stream : DOMAIN stream[k] = StreamFields
  BY DEF CallTypes
<1>2. Trims(stream)
  BY <1>1 DEF Trims
<1>3. ASSUME NEW h  PROVE Trims(L!Cut(h))
  BY <1>1 DEF Trims, L!Cut, StreamFields
<1>4. ASSUME NEW k  PROVE Trims([stream EXCEPT ![k].cut = TRUE])
  BY <1>1 DEF Trims, StreamFields
<1>5. ASSUME NEW k  PROVE Trims([stream EXCEPT ![k].at = "closed"])
  BY <1>1 DEF Trims, StreamFields
<1>6. ASSUME NEW k  PROVE Trims([j \in DOMAIN stream \ {k} |-> stream[j]])
  BY <1>1 DEF Trims
<1>7. ASSUME NEW c  PROVE Trims(L!Leave(c))
  BY <1>2, <1>4, <1>6 DEF L!Leave
<1>8. ASSUME NEW k  PROVE Trims(L!Closed(k))
  BY <1>5, <1>6 DEF L!Closed
<1>. QED  BY <1>2, <1>3, <1>7, <1>8

\* A step that neither the calls nor the callers take part in.
LEMMA TrimKeeps ==
  ASSUME CallInv, UNCHANGED <<calls, caller>>, Trims(stream')
  PROVE  CallInv'
<1>. USE DEF CallInv
<1>1. CallTypes'
  BY DEF CallTypes, Trims
<1>2. InCall'
  BY DEF InCall
<1>3. Keyed'
  BY DEF Keyed, Trims, L!Key
<1>4. RunsCounted'
  <2>1. \A k : Reading(k)' => Reading(k)
    BY DEF Reading, Trims
  <2>. QED  BY <2>1, FewerPending
<1>. QED  BY <1>1, <1>2, <1>3, <1>4

LEMMA ServerKeeps ==
  ASSUME CallInv, (\E s \in Server : L!Start(s) \/ L!Reserve(s)) \/ (\E h \in L!Host : L!Stop(h))
  PROVE  CallInv'
<1>1. UNCHANGED <<calls, caller>>
  BY DEF L!Start, L!Reserve, L!Stop
<1>2. Trims(stream')
  BY StreamsTrimmed DEF CallInv, L!Start, L!Reserve, L!Stop
<1>. QED  BY <1>1, <1>2, TrimKeeps

\* A handler that is started is one address less to run the request for.
LEMMA HandleKeeps ==
  ASSUME CallInv, NEW k \in DOMAIN stream, L!Handle(k)
  PROVE  CallInv'
<1>. USE DEF CallInv
<1>1. CASE ~enrolled
  <2>1. UNCHANGED <<calls, caller>> /\ Trims(stream')
    BY <1>1, StreamsTrimmed DEF L!Handle
  <2>. QED  BY <2>1, TrimKeeps
<1>2. CASE enrolled
  <2>1. /\ calls' = [calls EXCEPT ![k[1]].runs = @ + 1]
        /\ stream' = [stream EXCEPT ![k].at = "handling"]
        /\ caller' = caller /\ stream[k].at = "reading"
    BY <1>2 DEF L!Handle
  <2>. DEFINE n == k[1]
              i == k[2]
  <2>2. k = <<n, i>> /\ n \in DOMAIN calls /\ i \in 1 .. calls[n].tried
    BY DEF Keyed
  <2>3. calls[n].tried \in Nat /\ calls[n].runs \in Nat
    BY <2>2, CallType
  <2>. HIDE DEF n, i
  <2>4. calls' = [calls EXCEPT ![n] = [calls[n] EXCEPT !.runs = calls[n].runs + 1]]
    BY <2>1 DEF n
  <2>5. [calls[n] EXCEPT !.runs = calls[n].runs + 1] \in [tried : Nat, runs : Nat]
    <3>1. calls[n] \in [tried : Nat, runs : Nat] /\ calls[n].runs + 1 \in Nat
      BY <2>2, <2>3, CallType
    <3>. QED  BY <3>1
  <2>6. calls' \in Seq([tried : Nat, runs : Nat]) /\ DOMAIN calls' = DOMAIN calls
    <3>1. n \in 1 .. Len(calls)
      BY <2>2 DEF CallTypes
    <3>. QED  BY <2>4, <2>5, <3>1, ExceptSeq DEF CallTypes
  <2>7. /\ \A m \in DOMAIN calls : calls'[m].tried = calls[m].tried
        /\ \A m \in DOMAIN calls : m # n => calls'[m].runs = calls[m].runs
        /\ calls'[n].runs = calls[n].runs + 1
    <3>1. calls[n] \in [tried : Nat, runs : Nat]
      BY <2>2, CallType
    <3>. QED  BY <2>2, <2>4, <3>1 DEF CallTypes
  <2>8. /\ DOMAIN stream' = DOMAIN stream /\ Trims(stream') /\ stream'[k].at = "handling"
        /\ \A j \in DOMAIN stream : j # k => stream'[j] = stream[j]
    BY <2>1 DEF CallTypes, Trims, StreamFields
  <2>9. CallTypes'
    BY <2>1, <2>6, <2>8 DEF CallTypes, Trims
  <2>10. InCall'
    <3>1. /\ \A m \in DOMAIN calls : m \in DOMAIN calls' /\ calls'[m].tried = calls[m].tried
          /\ caller' = caller
      BY <2>1, <2>6, <2>7
    <3>. QED  BY <3>1 DEF InCall
  <2>11. Keyed'
    BY <2>1, <2>6, <2>7, <2>8 DEF Keyed, L!Key
  <2>12. ASSUME NEW m \in DOMAIN calls
         PROVE  calls'[m].runs + Cardinality(Pending(m)') <= calls'[m].tried
    <3>. DEFINE A == Pending(m)
                B == Pending(m)'
    <3>1. IsFiniteSet(A) /\ Cardinality(A) \in Nat
      BY <2>12, PendingFinite
    <3>2. calls[m].runs + Cardinality(A) <= calls[m].tried
      BY <2>12 DEF RunsCounted
    <3>3. \A j : Reading(j)' => Reading(j) /\ j # k
      BY <2>8 DEF Reading, Trims
    <3>4. \A j : Dialed(j)' <=> Dialed(j)
      BY <2>1 DEF Dialed, L!Key
    <3>5. B \subseteq A
      BY <2>7, <3>3, <3>4 DEF Pending
    <3>6. m = n => i \in A \ B
      <4>1. SUFFICES ASSUME m = n  PROVE i \in A \ B
        OBVIOUS
      <4>2. Reading(k) /\ ~Reading(k)' /\ ~Dialed(k)'
        <5>1. Reading(k)
          BY <2>1 DEF Reading
        <5>2. ~Dialed(k)
          BY DEF Keyed, Dialed
        <5>. QED  BY <3>3, <3>4, <5>1, <5>2
      <4>. QED  BY <2>2, <4>1, <4>2 DEF Pending
    <3>7. calls[m].runs \in Nat /\ calls[m].tried \in Nat
      BY <2>12, CallType
    <3>. HIDE DEF A, B
    <3>8. CASE m = n
      <4>1. B \subseteq A \ {i} /\ i \in A
        BY <3>5, <3>6, <3>8
      <4>2. IsFiniteSet(A \ {i}) /\ Cardinality(A \ {i}) = Cardinality(A) - 1
        BY <3>1, <4>1, FS_RemoveElement
      <4>3. Cardinality(B) \in Nat /\ Cardinality(B) <= Cardinality(A \ {i})
        BY <4>1, <4>2, FS_Subset, FS_CardinalityType
      <4>4. calls[n].runs + 1 + Cardinality(B) <= calls[n].tried
        BY <3>1, <3>2, <3>7, <3>8, <4>2, <4>3
      <4>. QED  BY <2>2, <2>7, <3>8, <4>4 DEF B
    <3>9. CASE m # n
      <4>1. Cardinality(B) \in Nat /\ Cardinality(B) <= Cardinality(A)
        BY <3>1, <3>5, FS_Subset, FS_CardinalityType
      <4>2. calls[m].runs + Cardinality(B) <= calls[m].tried
        BY <3>1, <3>2, <3>7, <4>1
      <4>. QED  BY <2>7, <3>9, <4>2 DEF B
    <3>. QED  BY <3>8, <3>9
  <2>13. RunsCounted'
    BY <2>6, <2>12 DEF RunsCounted
  <2>. QED  BY <2>9, <2>10, <2>11, <2>13
<1>. QED  BY <1>1, <1>2

LEMMA StreamStepKeeps ==
  ASSUME CallInv, NEW k \in DOMAIN stream, L!StreamStep(k)
  PROVE  CallInv'
<1>1. CASE L!ServeTimeOut(k)
  <2>1. UNCHANGED <<calls, caller>>
    BY <1>1 DEF L!ServeTimeOut
  <2>2. Trims([stream EXCEPT ![k].late = TRUE])
    BY DEF CallInv, CallTypes, Trims, StreamFields
  <2>3. Trims(stream')
    BY <1>1, <2>2, StreamsTrimmed DEF CallInv, L!ServeTimeOut
  <2>. QED  BY <2>1, <2>3, TrimKeeps
<1>2. CASE L!Finish(k)
  <2>1. UNCHANGED <<calls, caller>>
    BY <1>2 DEF L!Finish
  <2>2. Trims([stream EXCEPT ![k].at = "answered"])
    BY DEF CallInv, CallTypes, Trims, StreamFields
  <2>3. Trims(stream')
    BY <1>2, <2>2, StreamsTrimmed DEF CallInv, L!Finish
  <2>. QED  BY <2>1, <2>3, TrimKeeps
<1>. QED  BY <1>1, <1>2, HandleKeeps DEF L!StreamStep

\* A thread goes on in its call, or ends it, and dials no other address yet.
LEMMA MoveKeeps ==
  ASSUME CallInv, NEW c \in Dialer, NEW new \in Rpc, caller' = [caller EXCEPT ![c] = new],
         calls' = calls, Trims(stream'),
         new.at # "idle" =>
           /\ caller[c].at # "idle" /\ new.call = caller[c].call /\ new.tried # 0
           /\ new.tried = calls[new.call].tried + IF new.at = "lock" THEN 1 ELSE 0,
         new.at = "dial" => caller[c].at = "dial"
  PROVE  CallInv'
<1>. USE DEF CallInv
<1>1. caller'[c] = new /\ \A d \in Dialer : d # c => caller'[d] = caller[d]
  BY DEF CallTypes
<1>2. CallTypes'
  BY DEF CallTypes, Trims
<1>3. InCall'
  <2>1. ASSUME NEW d \in Dialer, caller'[d].at # "idle"
        PROVE  /\ caller[d].at # "idle" /\ caller'[d].call = caller[d].call /\ caller'[d].tried # 0
               /\ caller'[d].tried = calls[caller'[d].call].tried
                                        + IF caller'[d].at = "lock" THEN 1 ELSE 0
    <3>1. CASE d = c
      BY <1>1, <2>1, <3>1
    <3>2. CASE d # c
      BY <1>1, <2>1, <3>2 DEF InCall
    <3>. QED  BY <3>1, <3>2
  <2>2. \A d \in Dialer : caller[d].at # "idle" =>
          /\ caller[d].call \in DOMAIN calls
          /\ \A e \in Dialer \ {d} : caller[e].at # "idle" => caller[e].call # caller[d].call
    BY DEF InCall
  <2>. QED  BY <2>1, <2>2 DEF InCall
<1>4. \A d \in Dialer : caller'[d].at = "dial" =>
        caller[d].at = "dial" /\ caller'[d].call = caller[d].call /\ caller'[d].tried = caller[d].tried
  <2>1. SUFFICES ASSUME new.at = "dial"  PROVE new.tried = caller[c].tried /\ new.call = caller[c].call
    BY <1>1
  <2>2. /\ new.call = caller[c].call /\ new.tried = calls[caller[c].call].tried + 0
        /\ caller[c].tried = calls[caller[c].call].tried + 0
    BY <2>1 DEF InCall
  <2>. QED  BY <2>2
<1>5. Keyed'
  <2>1. \A d \in Dialer : caller'[d].at = "dial" => L!Key(d)' = L!Key(d)
    BY <1>4 DEF L!Key
  <2>. QED  BY <1>4, <2>1 DEF Keyed, Trims
<1>6. RunsCounted'
  <2>1. \A k : Reading(k)' => Reading(k)
    BY DEF Reading, Trims
  <2>. QED  BY <1>4, <2>1, FewerPending
<1>. QED  BY <1>2, <1>3, <1>5, <1>6

LEMMA GiveUpKeeps ==
  ASSUME CallInv, NEW c \in Dialer, caller[c].at \in {"dial", "send", "wait"},
         L!NextCandidate(c) \/ caller' = [caller EXCEPT ![c] = L!Idle],
         calls' = calls, stream' = L!Leave(c)
  PROVE  CallInv'
<1>1. Trims(stream') /\ CallTypes
  BY StreamsTrimmed DEF CallInv
<1>2. caller[c] \in Rpc
  BY <1>1 DEF CallTypes
<1>3. CASE caller' = [caller EXCEPT ![c] = L!Idle]
  <2>1. L!Idle \in Rpc /\ L!Idle.at = "idle"
    BY DEF L!Idle, Rpc
  <2>. QED  BY <1>1, <1>3, <2>1, MoveKeeps
<1>. DEFINE new == [caller[c] EXCEPT !.at = "lock", !.tried = caller[c].tried + 1, !.attempt = 0]
<1>4. CASE caller' = [caller EXCEPT ![c] = new]
  <2>1. /\ new \in Rpc /\ new.at = "lock" /\ new.call = caller[c].call
        /\ new.tried = caller[c].tried + 1 /\ new.tried # 0
    <3>1. caller[c].tried + 1 \in Nat \ {0} /\ 0 \in Nat /\ "lock" \in {"idle", "lock", "dial", "send", "wait"}
      BY <1>2 DEF Rpc
    <3>. QED  BY <1>2, <3>1 DEF Rpc
  <2>. HIDE DEF new
  <2>2. caller[c].call \in DOMAIN calls /\ caller[c].tried = calls[caller[c].call].tried + 0
    BY DEF CallInv, InCall
  <2>3. calls[caller[c].call].tried \in Nat
    BY <1>1, <2>2, CallType
  <2>4. new.tried = calls[new.call].tried + 1
    BY <2>1, <2>2, <2>3
  <2>. QED  BY <1>1, <1>4, <2>1, <2>4, MoveKeeps
<1>. QED  BY <1>3, <1>4 DEF L!NextCandidate

LEMMA FaultKeeps ==
  ASSUME CallInv, NEW c \in Dialer, L!Fault(c)
  PROVE  CallInv'
<1>1. calls' = calls /\ stream' = L!Leave(c) /\ caller[c].at \in {"dial", "send", "wait"}
  BY DEF L!Fault, L!Opened
<1>2. CASE L!Retries(c)
  <2>. DEFINE new == [caller[c] EXCEPT !.attempt = caller[c].attempt + 1, !.at = "dial"]
  <2>1. caller' = [caller EXCEPT ![c] = new] /\ caller[c].at = "dial"
    BY <1>2 DEF L!Fault, L!Retries
  <2>2. caller[c] \in Rpc
    BY DEF CallInv, CallTypes
  <2>3. /\ new \in Rpc /\ new.at = "dial" /\ new.call = caller[c].call
        /\ new.tried = caller[c].tried
    <3>1. caller[c].attempt + 1 \in Nat
      BY <2>2 DEF Rpc
    <3>. QED  BY <2>2, <3>1 DEF Rpc
  <2>. HIDE DEF new
  <2>4. new.tried = calls[new.call].tried + 0 /\ new.tried # 0
    BY <2>1, <2>3 DEF CallInv, InCall
  <2>5. Trims(stream')
    BY <1>1, StreamsTrimmed DEF CallInv
  <2>. QED  BY <1>1, <2>1, <2>3, <2>4, <2>5, MoveKeeps
<1>3. CASE ~L!Retries(c)
  <2>1. L!NextCandidate(c)
    BY <1>3 DEF L!Fault, L!Fail
  <2>. QED  BY <1>1, <2>1, GiveUpKeeps
<1>. QED  BY <1>2, <1>3

LEMMA SendKeeps ==
  ASSUME CallInv, NEW c \in Dialer, L!Send(c)
  PROVE  CallInv'
<1>. DEFINE new == [caller[c] EXCEPT !.at = "wait"]
<1>1. caller' = [caller EXCEPT ![c] = new] /\ caller[c].at = "send" /\ calls' = calls
  BY DEF L!Send
<1>2. caller[c] \in Rpc
  BY DEF CallInv, CallTypes
<1>3. new \in Rpc /\ new.at = "wait" /\ new.call = caller[c].call /\ new.tried = caller[c].tried
  BY <1>2 DEF Rpc
<1>. HIDE DEF new
<1>4. new.tried = calls[new.call].tried + 0 /\ new.tried # 0
  BY <1>1, <1>3 DEF CallInv, InCall
<1>5. Trims(stream')
  BY DEF L!Send, CallInv, CallTypes, Trims, StreamFields
<1>. QED  BY <1>1, <1>3, <1>4, <1>5, MoveKeeps

\* The address that was dialed is the one whose request may run.
LEMMA OpenKeeps ==
  ASSUME CallInv, NEW c \in Dialer, L!Open(c)
  PROVE  CallInv'
<1>. USE DEF CallInv
<1>. DEFINE new == [caller[c] EXCEPT !.at = "send"]
            key == L!Key(c)
            opened == L!NewStream(L!Target(c))
<1>1. /\ caller' = [caller EXCEPT ![c] = new] /\ caller[c].at = "dial" /\ calls' = calls
      /\ stream' = [k \in DOMAIN stream \cup {key} |-> IF k = key THEN opened ELSE stream[k]]
  BY DEF L!Open
<1>2. caller[c] \in Rpc
  BY DEF CallTypes
<1>3. new \in Rpc /\ new.at = "send" /\ new.call = caller[c].call /\ new.tried = caller[c].tried
  BY <1>2 DEF Rpc
<1>4. /\ key = <<caller[c].call, caller[c].tried>> /\ caller[c].call \in DOMAIN calls
      /\ caller[c].tried = calls[caller[c].call].tried + 0 /\ caller[c].tried # 0
  BY <1>1 DEF InCall, L!Key
<1>5. DOMAIN opened = StreamFields
  BY DEF L!NewStream, StreamFields
<1>. HIDE DEF new, key, opened
<1>6. caller'[c] = new /\ \A d \in Dialer : d # c => caller'[d] = caller[d]
  BY <1>1 DEF CallTypes
<1>7. CallTypes'
  BY <1>1, <1>3, <1>5 DEF CallTypes
<1>8. InCall'
  <2>1. \A d \in Dialer : /\ caller'[d].call = caller[d].call /\ caller'[d].tried = caller[d].tried
                          /\ caller'[d].at # "idle" => caller[d].at # "idle"
                          /\ caller'[d].at = "lock" <=> caller[d].at = "lock"
    BY <1>1, <1>3, <1>6
  <2>. QED  BY <1>1, <2>1 DEF InCall
<1>9. Keyed'
  <2>1. caller[c].call \in Nat /\ calls[caller[c].call].tried \in Nat /\ caller[c].tried \in Nat
    BY <1>2, <1>4, CallType DEF Rpc
  <2>2. ASSUME NEW k \in DOMAIN stream'
        PROVE  /\ k \in Nat \X Nat /\ k[1] \in DOMAIN calls /\ k[2] \in 1 .. calls[k[1]].tried
    <3>1. CASE k = key
      BY <1>4, <2>1, <3>1
    <3>2. CASE k # key
      BY <1>1, <2>2, <3>2 DEF Keyed
    <3>. QED  BY <3>1, <3>2
  <2>3. ASSUME NEW d \in Dialer, caller'[d].at = "dial"
        PROVE  L!Key(d)' \notin DOMAIN stream'
    <3>1. d # c /\ caller'[d] = caller[d]
      BY <1>3, <1>6, <2>3
    <3>2. caller[d].call # caller[c].call /\ L!Key(d) \notin DOMAIN stream
      BY <1>1, <2>3, <3>1 DEF InCall, Keyed
    <3>. QED  BY <1>1, <1>4, <3>1, <3>2 DEF L!Key
  <2>. QED  BY <1>1, <2>2, <2>3 DEF Keyed
<1>10. RunsCounted'
  <2>1. \A k : Reading(k)' => Reading(k) \/ Dialed(k)
    BY <1>1 DEF Reading, Dialed, key
  <2>2. \A d \in Dialer : caller'[d].at = "dial" => caller'[d] = caller[d]
    BY <1>3, <1>6
  <2>. QED  BY <1>1, <2>1, <2>2, FewerPending
<1>. QED  BY <1>7, <1>8, <1>9, <1>10

\* One address more is counted, and may be run for.
LEMMA TakeKeeps ==
  ASSUME CallInv, NEW c \in Dialer, L!Take(c)
  PROVE  CallInv'
<1>. USE DEF CallInv
<1>0. PICK n : n = caller[c].call
  OBVIOUS
<1>. DEFINE new == [caller[c] EXCEPT !.at = "dial", !.attempt = 1]
            more == [calls[n] EXCEPT !.tried = calls[n].tried + 1]
<1>1. /\ caller' = [caller EXCEPT ![c] = new] /\ caller[c].at = "lock" /\ stream' = stream
      /\ calls' = [calls EXCEPT ![n] = more]
  BY <1>0 DEF L!Take
<1>2. caller[c] \in Rpc /\ n \in DOMAIN calls /\ caller[c].tried = calls[n].tried + 1
 BY <1>0, <1>1 DEF CallTypes, InCall
<1>3. new \in Rpc /\ new.at = "dial" /\ new.call = n /\ new.tried = caller[c].tried
  BY <1>0, <1>2 DEF Rpc
<1>4. calls[n].tried \in Nat /\ calls[n].runs \in Nat /\ calls[n] \in [tried : Nat, runs : Nat]
  BY <1>2, CallType
<1>5. more \in [tried : Nat, runs : Nat] /\ more.tried = calls[n].tried + 1 /\ more.runs = calls[n].runs
  BY <1>4
<1>. HIDE DEF new, more
<1>6. caller'[c] = new /\ \A d \in Dialer : d # c => caller'[d] = caller[d]
  BY <1>1 DEF CallTypes
<1>7. /\ calls' \in Seq([tried : Nat, runs : Nat]) /\ DOMAIN calls' = DOMAIN calls
      /\ calls'[n] = more /\ \A m \in DOMAIN calls : m # n => calls'[m] = calls[m]
  <2>1. n \in 1 .. Len(calls) /\ calls \in Seq([tried : Nat, runs : Nat])
    BY <1>2 DEF CallTypes
  <2>2. calls' \in Seq([tried : Nat, runs : Nat]) /\ Len(calls') = Len(calls)
    BY <1>1, <1>5, <2>1, ExceptSeq
  <2>3. calls'[n] = more /\ \A m \in DOMAIN calls : m # n => calls'[m] = calls[m]
    BY <1>1, <1>2
  <2>. QED  BY <2>1, <2>2, <2>3
<1>8. CallTypes'
  BY <1>1, <1>3, <1>7 DEF CallTypes
<1>9. \A d \in Dialer : d # c /\ caller[d].at # "idle" => caller[d].call # n
  BY <1>0, <1>1 DEF InCall
<1>10. InCall'
  <2>1. ASSUME NEW d \in Dialer, caller'[d].at # "idle"
        PROVE  /\ caller'[d].call \in DOMAIN calls /\ caller'[d].tried # 0
               /\ caller'[d].tried = calls'[caller'[d].call].tried
                                        + IF caller'[d].at = "lock" THEN 1 ELSE 0
    <3>1. CASE d = c
      <4>1. caller'[d].tried = calls'[n].tried + 0 /\ caller'[d].tried # 0
        BY <1>2, <1>3, <1>4, <1>5, <1>6, <1>7, <3>1
      <4>. QED  BY <1>2, <1>3, <1>6, <3>1, <4>1
    <3>2. CASE d # c
      <4>1. caller'[d] = caller[d] /\ caller[d].call # n /\ caller[d].call \in DOMAIN calls
        BY <1>6, <1>9, <2>1, <3>2 DEF InCall
      <4>2. calls'[caller[d].call] = calls[caller[d].call]
        BY <1>7, <4>1
      <4>. QED  BY <2>1, <4>1, <4>2 DEF InCall
    <3>. QED  BY <3>1, <3>2
  <2>2. \A d \in Dialer : caller'[d].call = caller[d].call /\ (caller'[d].at # "idle" <=> caller[d].at # "idle")
    BY <1>0, <1>1, <1>3, <1>6
  <2>3. ASSUME NEW d \in Dialer, caller'[d].at # "idle", NEW e \in Dialer \ {d}, caller'[e].at # "idle"
        PROVE  caller'[e].call # caller'[d].call
    BY <2>2, <2>3 DEF InCall
  <2>. QED  BY <1>7, <2>1, <2>3 DEF InCall
<1>11. Keyed'
  <2>1. ASSUME NEW k \in DOMAIN stream
        PROVE  k \in Nat \X Nat /\ k[1] \in DOMAIN calls' /\ k[2] \in 1 .. calls'[k[1]].tried
    <3>1. k \in Nat \X Nat /\ k[1] \in DOMAIN calls /\ k[2] \in 1 .. calls[k[1]].tried
      BY DEF Keyed
    <3>2. CASE k[1] = n
      BY <1>4, <1>5, <1>7, <3>1, <3>2
    <3>3. CASE k[1] # n
      BY <1>7, <3>1, <3>3
    <3>. QED  BY <3>2, <3>3
  <2>2. ASSUME NEW d \in Dialer, caller'[d].at = "dial"
        PROVE  L!Key(d)' \notin DOMAIN stream
    <3>1. CASE d = c
      <4>1. L!Key(d)' = <<n, calls[n].tried + 1>>
        BY <1>2, <1>3, <1>6, <3>1 DEF L!Key
      <4>2. <<n, calls[n].tried + 1>> \notin DOMAIN stream
        <5>1. \A k \in DOMAIN stream : k[2] \in 1 .. calls[k[1]].tried
          BY DEF Keyed
        <5>2. SUFFICES ASSUME <<n, calls[n].tried + 1>> \in DOMAIN stream  PROVE FALSE
          OBVIOUS
        <5>3. calls[n].tried + 1 \in 1 .. calls[n].tried
          BY <5>1, <5>2
        <5>. QED  BY <1>4, <5>3
      <4>. QED  BY <4>1, <4>2
    <3>2. CASE d # c
      BY <1>6, <2>2, <3>2 DEF Keyed, L!Key
    <3>. QED  BY <3>1, <3>2
  <2>. QED  BY <1>1, <2>1, <2>2 DEF Keyed
<1>12. RunsCounted'
  <2>. SUFFICES ASSUME NEW m \in DOMAIN calls
                PROVE  calls'[m].runs + Cardinality(Pending(m)') <= calls'[m].tried
    BY <1>7 DEF RunsCounted
  <2>. DEFINE A == Pending(m)
              B == Pending(m)'
              i == calls[n].tried + 1
  <2>1. /\ IsFiniteSet(A) /\ Cardinality(A) \in Nat
        /\ calls[m].runs + Cardinality(A) <= calls[m].tried
        /\ calls[m].runs \in Nat /\ calls[m].tried \in Nat
    BY PendingFinite, CallType DEF RunsCounted
  <2>2. \A k : Reading(k)' <=> Reading(k)
    BY <1>1 DEF Reading
  <2>3. ASSUME NEW k, Dialed(k)'
        PROVE  Dialed(k) \/ k = <<n, i>>
    <3>1. PICK d \in Dialer : caller'[d].at = "dial" /\ L!Key(d)' = k
      BY <2>3 DEF Dialed
    <3>2. CASE d = c
      BY <1>2, <1>3, <1>6, <3>1, <3>2 DEF L!Key
    <3>3. CASE d # c
      BY <1>6, <3>1, <3>3 DEF L!Key, Dialed
    <3>. QED  BY <3>2, <3>3
  <2>4. CASE m = n
    <3>1. B \subseteq A \cup {i}
      <4>1. SUFFICES ASSUME NEW j \in B, j # i  PROVE j \in A
        OBVIOUS
      <4>2. j \in 1 .. calls[n].tried + 1 /\ (Reading(<<n, j>>)' \/ Dialed(<<n, j>>)')
        <5>1. j \in 1 .. calls'[n].tried /\ (Reading(<<n, j>>)' \/ Dialed(<<n, j>>)')
          BY <2>4, <4>1 DEF Pending
        <5>2. calls'[n].tried = calls[n].tried + 1
          BY <1>5, <1>7
        <5>. QED  BY <5>1, <5>2
      <4>3. j \in 1 .. calls[n].tried
        BY <1>4, <4>1, <4>2
      <4>4. Reading(<<n, j>>) \/ Dialed(<<n, j>>)
        <5>1. <<n, j>> # <<n, i>>
          BY <4>1
        <5>. HIDE DEF A, B, i
        <5>. QED  BY <2>2, <2>3, <4>2, <5>1
      <4>. QED  BY <2>4, <4>3, <4>4 DEF Pending
    <3>. HIDE DEF A, B, i
    <3>2. IsFiniteSet(A \cup {i}) /\ Cardinality(A \cup {i}) <= Cardinality(A) + 1
      <4>1. /\ IsFiniteSet(A \cup {i})
            /\ Cardinality(A \cup {i}) = IF i \in A THEN Cardinality(A) ELSE Cardinality(A) + 1
        BY <2>1, FS_AddElement
      <4>. QED  BY <2>1, <4>1
    <3>3. Cardinality(B) \in Nat /\ Cardinality(B) <= Cardinality(A \cup {i}) /\ Cardinality(A \cup {i}) \in Nat
      BY <3>1, <3>2, FS_Subset, FS_CardinalityType
    <3>4. calls[m].runs + Cardinality(B) <= calls[m].tried + 1
      BY <2>1, <3>2, <3>3
    <3>. QED  BY <1>5, <1>7, <2>4, <3>4 DEF B
  <2>5. CASE m # n
    <3>1. B \subseteq A
      <4>1. SUFFICES ASSUME NEW j \in B  PROVE j \in A
        OBVIOUS
      <4>. QED  BY <1>7, <2>2, <2>3, <2>5, <4>1 DEF Pending
    <3>. HIDE DEF A, B, i
    <3>2. Cardinality(B) \in Nat /\ Cardinality(B) <= Cardinality(A)
      BY <2>1, <3>1, FS_Subset, FS_CardinalityType
    <3>3. calls[m].runs + Cardinality(B) <= calls[m].tried
      BY <2>1, <3>2
    <3>. QED  BY <1>7, <2>5, <3>3 DEF B
  <2>. QED  BY <2>4, <2>5
<1>. QED  BY <1>8, <1>10, <1>11, <1>12

LEMMA CallKeeps ==
  ASSUME CallInv, NEW c \in Dialer, NEW targets \in L!Candidates, L!Call(c, targets)
  PROVE  CallInv'
<1>. USE DEF CallInv
<1>0. PICK n : n = Len(calls) + 1
  OBVIOUS
<1>. DEFINE new == [L!Idle EXCEPT !.at = "lock", !.call = n, !.targets = targets, !.tried = 1]
            fresh == [tried |-> 0, runs |-> 0]
<1>1. /\ caller' = [caller EXCEPT ![c] = new] /\ caller[c].at = "idle" /\ stream' = stream
      /\ calls' = Append(calls, fresh)
  BY <1>0 DEF L!Call
<1>2. calls \in Seq([tried : Nat, runs : Nat]) /\ DOMAIN calls = 1 .. Len(calls) /\ Len(calls) \in Nat
  BY DEF CallTypes
<1>3. new \in Rpc /\ new.at = "lock" /\ new.call = n /\ new.tried = 1
  <2>1. n \in Nat /\ targets \in L!Candidates \cup {<<>>}
    BY <1>0, <1>2
  <2>2. L!Idle \in Rpc /\ 1 \in Nat /\ "lock" \in {"idle", "lock", "dial", "send", "wait"}
    BY DEF L!Idle, Rpc
  <2>. QED  BY <2>1, <2>2 DEF Rpc
<1>4. fresh \in [tried : Nat, runs : Nat] /\ fresh.tried = 0 /\ fresh.runs = 0
  OBVIOUS
<1>. HIDE DEF new, fresh
<1>5. caller'[c] = new /\ \A d \in Dialer : d # c => caller'[d] = caller[d]
  BY <1>1 DEF CallTypes
<1>6. /\ calls' \in Seq([tried : Nat, runs : Nat]) /\ DOMAIN calls' = 1 .. n
      /\ \A m \in DOMAIN calls : calls'[m] = calls[m]
      /\ calls'[n] = fresh
  BY <1>0, <1>1, <1>2, <1>4, AppendProperties
<1>7. DOMAIN calls' = DOMAIN calls \cup {n} /\ n \notin DOMAIN calls
  BY <1>0, <1>2, <1>6
<1>8. CallTypes'
  BY <1>1, <1>3, <1>6 DEF CallTypes
<1>9. InCall'
  <2>1. ASSUME NEW d \in Dialer, caller'[d].at # "idle"
        PROVE  /\ caller'[d].call \in DOMAIN calls' /\ caller'[d].tried # 0
               /\ caller'[d].tried = calls'[caller'[d].call].tried
                                        + IF caller'[d].at = "lock" THEN 1 ELSE 0
    <3>1. CASE d = c
      <4>1. caller'[d] = new /\ n \in DOMAIN calls' /\ calls'[n].tried = 0
        BY <1>4, <1>5, <1>6, <1>7, <3>1
      <4>. QED  BY <1>3, <4>1
    <3>2. CASE d # c
      <4>1. caller'[d] = caller[d] /\ caller[d].call \in DOMAIN calls
        BY <1>5, <2>1, <3>2 DEF InCall
      <4>2. calls'[caller[d].call] = calls[caller[d].call] /\ caller[d].call \in DOMAIN calls'
        BY <1>6, <1>7, <4>1
      <4>. QED  BY <2>1, <4>1, <4>2 DEF InCall
    <3>. QED  BY <3>1, <3>2
  <2>2. ASSUME NEW d \in Dialer, caller'[d].at # "idle", NEW e \in Dialer \ {d}, caller'[e].at # "idle"
        PROVE  caller'[e].call # caller'[d].call
    <3>1. \A x \in Dialer \ {c} : caller[x].at # "idle" => caller[x].call # n
      BY <1>7 DEF InCall
    <3>2. CASE d = c \/ e = c
      BY <1>3, <1>5, <2>2, <3>1, <3>2
    <3>3. CASE d # c /\ e # c
      BY <1>5, <2>2, <3>3 DEF InCall
    <3>. QED  BY <3>2, <3>3
  <2>. QED  BY <2>1, <2>2 DEF InCall
<1>10. Keyed'
  <2>1. \A d \in Dialer : caller'[d].at = "dial" => caller'[d] = caller[d]
    BY <1>3, <1>5
  <2>. QED  BY <1>1, <1>6, <1>7, <2>1 DEF Keyed, L!Key
<1>11. RunsCounted'
  <2>1. \A k : Reading(k)' => Reading(k)
    BY <1>1 DEF Reading
  <2>2. \A k : Dialed(k)' => Dialed(k)
    BY <1>3, <1>5 DEF Dialed, L!Key
  <2>3. ASSUME NEW m \in DOMAIN calls
        PROVE  calls'[m].runs + Cardinality(Pending(m)') <= calls'[m].tried
    <3>. DEFINE A == Pending(m)
                B == Pending(m)'
    <3>1. /\ IsFiniteSet(A) /\ Cardinality(A) \in Nat
          /\ calls[m].runs + Cardinality(A) <= calls[m].tried
          /\ calls[m].runs \in Nat /\ calls[m].tried \in Nat
      BY PendingFinite, CallType DEF RunsCounted
    <3>2. B \subseteq A
      BY <1>6, <2>1, <2>2 DEF Pending
    <3>. HIDE DEF A, B
    <3>3. Cardinality(B) \in Nat /\ Cardinality(B) <= Cardinality(A)
      BY <3>1, <3>2, FS_Subset, FS_CardinalityType
    <3>4. calls[m].runs + Cardinality(B) <= calls[m].tried
      BY <3>1, <3>3
    <3>. QED  BY <1>6, <3>4 DEF B
  <2>4. calls'[n].runs + Cardinality(Pending(n)') <= calls'[n].tried
    <3>1. calls'[n].tried = 0 /\ calls'[n].runs = 0
      BY <1>4, <1>6
    <3>2. Pending(n)' = {}
      BY <3>1 DEF Pending
    <3>3. Cardinality(Pending(n)') = 0
      BY <3>2, FS_EmptySet
    <3>. QED  BY <3>1, <3>3
  <2>. QED  BY <1>7, <2>3, <2>4 DEF RunsCounted
<1>. QED  BY <1>8, <1>9, <1>10, <1>11

LEMMA InitCalls == L!Init => CallInv
<1>. SUFFICES ASSUME L!Init  PROVE CallInv
  OBVIOUS
<1>1. calls = <<>> /\ stream = <<>> /\ caller = [c \in Dialer |-> L!Idle]
  BY DEF L!Init
<1>2. L!Idle \in Rpc /\ L!Idle.at = "idle"
  BY DEF L!Idle, Rpc
<1>3. DOMAIN <<>> = {} /\ <<>> \in Seq([tried : Nat, runs : Nat])
  OBVIOUS
<1>. QED  BY <1>1, <1>2, <1>3 DEF CallInv, CallTypes, InCall, Keyed, RunsCounted

LEMMA NextCalls ==
  ASSUME CallInv, [L!Next]_(L!vars)
  PROVE  CallInv'
<1>1. CASE UNCHANGED L!vars
  <2>1. UNCHANGED <<calls, caller>> /\ Trims(stream')
    BY <1>1, StreamsTrimmed DEF L!vars, CallInv
  <2>. QED  BY <2>1, TrimKeeps
<1>2. ASSUME NEW c \in Dialer, L!CallerStep(c)  PROVE CallInv'
  <2>1. CASE L!Receive(c)
    BY <2>1, GiveUpKeeps DEF L!Receive, L!Return
  <2>2. CASE L!TimeOut(c)
    BY <2>2, GiveUpKeeps DEF L!TimeOut, L!Fail
  <2>. QED  BY <1>2, <2>1, <2>2, TakeKeeps, OpenKeeps, FaultKeeps, SendKeeps DEF L!CallerStep
<1>. QED  BY <1>1, <1>2, ServerKeeps, StreamStepKeeps, CallKeeps DEF L!Next

\* However many threads share a transport, whatever stalls, times out or is
\* retried and whichever hosts stop: a request is run at most once for each
\* address it was tried on (_rpc_async, _open_stream of schedule/p2p.py, which
\* retry what precedes the request only).
THEOREM RequestsRunOnce == EitherSpec => []RunsPerAddress
<1>1. ASSUME CallInv  PROVE RunsPerAddress
  <2>. SUFFICES ASSUME NEW n \in DOMAIN calls  PROVE calls[n].runs <= calls[n].tried
    BY DEF RunsPerAddress, L!RunsPerAddress
  <2>1. Cardinality(Pending(n)) \in Nat /\ calls[n].runs \in Nat /\ calls[n].tried \in Nat
    BY <1>1, PendingFinite, CallType DEF CallInv
  <2>2. calls[n].runs + Cardinality(Pending(n)) <= calls[n].tried
    BY <1>1 DEF CallInv, RunsCounted
  <2>. QED  BY <2>1, <2>2
<1>2. EitherInit => CallInv
  BY InitCalls DEF EitherInit
<1>3. CallInv /\ [EitherNext]_all => CallInv'
  <2>. SUFFICES ASSUME CallInv, [EitherNext]_all  PROVE CallInv'
    OBVIOUS
  <2>1. [L!Next]_(L!vars)
    BY DEF EitherNext, Tcp, Libp2p, all, libp2p, L!vars
  <2>. QED  BY <2>1, NextCalls
<1>. QED  BY <1>1, <1>2, <1>3, PTL DEF EitherSpec

=============================================================================
