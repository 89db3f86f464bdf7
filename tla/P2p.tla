-------------------------------- MODULE P2p --------------------------------
(***************************************************************************)
(* Request and reply over libp2p (schedule/p2p.py, and roles._serve_libp2p *)
(* that brings a server's host up).  The threads of one worker share a     *)
(* transport; a call goes to a server directly or through one of its       *)
(* relays, trying the addresses it is given in turn, each under that       *)
(* address's lock and a timeout.  The server reads one request from a      *)
(* stream, runs the handler in a thread, and answers on the same stream,   *)
(* within a timeout of its own.  libp2p itself (dialing, relaying, Noise,  *)
(* trio) is external.  Left out: the bytes of a frame, hole punching (it   *)
(* runs beside the call and its outcome is ignored), and what a handler    *)
(* computes.                                                               *)
(***************************************************************************)
EXTENDS Integers, Sequences, FiniteSets

CONSTANTS
  Dialer,       \* the threads that share the worker's transport
  Server,       \* peers with a handler
  Relays,       \* server -> sequence of the relays it is configured with
  MaxAttempts,  \* attempts to open a stream (6 in the code)
  Threads,      \* threads that run handlers (trio's limit, 40)
  MaxCalls,     \* BOUND: calls
  MaxDown,      \* BOUND: hosts that stop
  None          \* a model value

AllRelays == UNION {{Relays[s][i] : i \in DOMAIN Relays[s]} : s \in Server}
Host == Server \cup AllRelays

\* What the constants satisfy; the module of the run assumes it.
P2pAssumption ==
  /\ \A s \in Server : Relays[s] \in Seq(AllRelays)
  /\ Server \cap AllRelays = {}
  /\ {MaxAttempts, Threads} \subseteq Nat \ {0}
  /\ {MaxCalls, MaxDown} \subseteq Nat
  /\ None \notin Host

VARIABLES
  host,      \* host -> starting, reserving, up, or down
  launch,    \* server -> number of relays asked so far in _serve_libp2p
  circuits,  \* server -> relays that hold a reservation of it: _circuit_addrs
  enrolled,  \* whether servers know who the worker is and admit it
  caller,    \* thread -> its rpc()
  lock,      \* address -> the thread that holds _lock_for(address), or None
  stream,    \* <<call, address tried>> -> its stream, as its server sees it
  calls,     \* the calls made so far: [tried, runs], the addresses it was tried on
             \* and the times a handler ran for it
  downs      \* hosts that have stopped

vars == <<host, launch, circuits, enrolled, caller, lock, stream, calls, downs>>

-----------------------------------------------------------------------------
(* An address is a server and the relay it is reached by, or None. *)
Address == {[to |-> s, via |-> r] : s \in Server, r \in AllRelays \cup {None}}

Idle == [at |-> "idle", call |-> 0, targets |-> <<>>, tried |-> 0, attempt |-> 0]

NewStream(a) == [addr |-> a, at |-> "reading", sent |-> FALSE, late |-> FALSE, cut |-> FALSE]

Init ==
  /\ host = [h \in Host |-> IF h \in Server THEN "starting" ELSE "up"]
  /\ launch = [s \in Server |-> 0]
  /\ circuits = [s \in Server |-> {}]
  /\ enrolled \in BOOLEAN
  /\ caller = [c \in Dialer |-> Idle]
  /\ lock = [a \in Address |-> None]
  /\ stream = <<>>
  /\ calls = <<>>
  /\ downs = 0

-----------------------------------------------------------------------------
(* Bringing a server up: start(), then a reservation on each of its relays. *)

\* The host runs, and serves at once.
Start(s) ==
  /\ host[s] = "starting"
  /\ host' = [host EXCEPT ![s] = IF Relays[s] = <<>> THEN "up" ELSE "reserving"]
  /\ UNCHANGED <<launch, circuits, enrolled, caller, lock, stream, calls, downs>>

\* The streams to a host, or through it, when it is gone.
Cut(h) ==
  [k \in DOMAIN stream |->
     IF stream[k].addr.to = h THEN [stream[k] EXCEPT !.cut = TRUE, !.at = "closed"]
     ELSE IF stream[k].addr.via = h
     THEN [stream[k] EXCEPT !.cut = TRUE, !.at = IF @ = "handling" THEN @ ELSE "closed"]
     ELSE stream[k]]

\* reserve_on the next relay, which grants it or not; after the last, a server
\* without any reservation closes its host and fails.
Reserve(s) ==
  /\ host[s] = "reserving"
  /\ launch[s] < Len(Relays[s])
  /\ LET r == Relays[s][launch[s] + 1]
         last == launch[s] + 1 = Len(Relays[s])
     IN /\ \/ host[r] = "up" /\ circuits' = [circuits EXCEPT ![s] = @ \cup {r}]
           \/ UNCHANGED circuits
        /\ host' = [host EXCEPT ![s] =
             IF ~last THEN @ ELSE IF circuits'[s] = {} THEN "down" ELSE "up"]
  /\ launch' = [launch EXCEPT ![s] = @ + 1]
  /\ stream' = IF host'[s] = "down" THEN Cut(s) ELSE stream
  /\ UNCHANGED <<enrolled, caller, lock, calls, downs>>

\* A host dies or is closed; its streams go with it.
Stop(h) ==
  /\ host[h] = "up"
  /\ downs < MaxDown
  /\ downs' = downs + 1
  /\ host' = [host EXCEPT ![h] = "down"]
  /\ stream' = Cut(h)
  /\ UNCHANGED <<launch, circuits, enrolled, caller, lock, calls>>

-----------------------------------------------------------------------------
(* The calling side: rpc(), _rpc_async, _open_stream. *)

\* A call to a server's addresses: a single one, or all its candidates in turn.
Call(c, targets) ==
  /\ caller[c].at = "idle"
  /\ Len(calls) < MaxCalls
  /\ calls' = Append(calls, [tried |-> 0, runs |-> 0])
  /\ caller' = [caller EXCEPT ![c] =
       [Idle EXCEPT !.at = "lock", !.call = Len(calls) + 1, !.targets = targets, !.tried = 1]]
  /\ UNCHANGED <<host, launch, circuits, enrolled, lock, stream, downs>>

Target(c) == caller[c].targets[caller[c].tried]
Key(c) == <<caller[c].call, caller[c].tried>>
Opened(c) == caller[c].at \in {"send", "wait"}

Take(c) ==
  /\ caller[c].at = "lock"
  /\ lock[Target(c)] = None
  /\ lock' = [lock EXCEPT ![Target(c)] = c]
  /\ caller' = [caller EXCEPT ![c].at = "dial", ![c].attempt = 1]
  /\ calls' = [calls EXCEPT ![caller[c].call].tried = @ + 1]
  /\ UNCHANGED <<host, launch, circuits, enrolled, stream, downs>>

\* rpc() returns a reply, or None.
Return(c) ==
  /\ caller' = [caller EXCEPT ![c] = Idle]
  /\ lock' = [lock EXCEPT ![Target(c)] = None]

\* This candidate failed: on to the next one, or raise ConnectionError.
NextCandidate(c) ==
  caller' = [caller EXCEPT ![c] =
    IF caller[c].tried < Len(caller[c].targets)
    THEN [caller[c] EXCEPT !.at = "lock", !.tried = caller[c].tried + 1, !.attempt = 0]
    ELSE Idle]

\* Mutant of Fail: the lock is released on the way to a return only.
FailHoldingLock(c) ==
  /\ NextCandidate(c)
  /\ UNCHANGED lock

\* The lock is released in any case.
Fail(c) ==
  /\ NextCandidate(c)
  /\ lock' = [lock EXCEPT ![Target(c)] = None]

\* A stream can be opened to a host that serves, through a relay that runs and
\* holds a reservation.
Reachable(a) ==
  /\ host[a.to] \in {"reserving", "up"}
  /\ a.via # None => host[a.via] = "up" /\ a.via \in circuits[a.to]

Open(c) ==
  /\ caller[c].at = "dial"
  /\ Reachable(Target(c))
  /\ stream' = [k \in DOMAIN stream \cup {Key(c)} |->
       IF k = Key(c) THEN NewStream(Target(c)) ELSE stream[k]]
  /\ caller' = [caller EXCEPT ![c].at = "send"]
  /\ UNCHANGED <<host, launch, circuits, enrolled, lock, calls, downs>>

\* The caller closes its stream, if it has one: what is still to come on it has
\* no reader.  A server that has the whole request goes on with it.
Leave(c) ==
  IF ~Opened(c) THEN stream
  ELSE IF stream[Key(c)].at = "handling" \/ (stream[Key(c)].at = "reading" /\ stream[Key(c)].sent)
  THEN [stream EXCEPT ![Key(c)].cut = TRUE]
  ELSE [k \in DOMAIN stream \ {Key(c)} |-> stream[k]]

\* Mutant of Retries: a request that was sent is tried again like a dial.
RetriesWhole(c) == caller[c].at \in {"dial", "send", "wait"} /\ caller[c].attempt < MaxAttempts

\* What the retry loop of _open_stream covers: the dial and the new stream.
Retries(c) == caller[c].at = "dial" /\ caller[c].attempt < MaxAttempts

\* A fault of the transport: dials race, the relay or the server is gone, a frame
\* is malformed or over the cap.
Fault(c) ==
  /\ \/ caller[c].at = "dial"
     \/ Opened(c) /\ stream[Key(c)].cut
     \/ caller[c].at = "wait" /\ stream[Key(c)].at = "answered"
  /\ IF Retries(c)
     THEN /\ caller' = [caller EXCEPT ![c].attempt = @ + 1, ![c].at = "dial"]
          /\ UNCHANGED lock
     ELSE Fail(c)
  /\ stream' = Leave(c)
  /\ UNCHANGED <<host, launch, circuits, enrolled, calls, downs>>

Send(c) ==
  /\ caller[c].at = "send"
  /\ ~stream[Key(c)].cut
  /\ stream' = [stream EXCEPT ![Key(c)].sent = TRUE]
  /\ caller' = [caller EXCEPT ![c].at = "wait"]
  /\ UNCHANGED <<host, launch, circuits, enrolled, lock, calls, downs>>

\* The reply is read to its end; or the server closed the stream without one,
\* then rpc() returns None, and does not go on to another address.
Receive(c) ==
  /\ caller[c].at = "wait"
  /\ stream[Key(c)].at \in {"answered", "closed"}
  /\ Return(c)
  /\ stream' = Leave(c)
  /\ UNCHANGED <<host, launch, circuits, enrolled, calls, downs>>

\* fail_after(timeout), anywhere from the dial to the last byte of the reply.
TimeOut(c) ==
  /\ caller[c].at \in {"dial", "send", "wait"}
  /\ Fail(c)
  /\ stream' = Leave(c)
  /\ UNCHANGED <<host, launch, circuits, enrolled, calls, downs>>

-----------------------------------------------------------------------------
(* The serving side: _on_stream. *)

Handling(s) == {k \in DOMAIN stream : stream[k].addr.to = s /\ stream[k].at = "handling"}

\* A server is done with a stream, which goes unless its caller still reads it.
Closed(k) ==
  IF stream[k].cut /\ ~(\E c \in Dialer : Opened(c) /\ Key(c) = k)
  THEN [j \in DOMAIN stream \ {k} |-> stream[j]]
  ELSE [stream EXCEPT ![k].at = "closed"]

\* A whole request is handed to a thread.  A peer without an identity of ours, or
\* not enrolled, is refused there; another's request is run.
Handle(k) ==
  /\ stream[k].at = "reading" /\ stream[k].sent
  /\ Cardinality(Handling(stream[k].addr.to)) < Threads
  /\ IF enrolled
     THEN /\ calls' = [calls EXCEPT ![k[1]].runs = @ + 1]
          /\ stream' = [stream EXCEPT ![k].at = "handling"]
     ELSE /\ stream' = Closed(k)
          /\ UNCHANGED calls
  /\ UNCHANGED <<host, launch, circuits, enrolled, caller, lock, downs>>

\* The serve timeout.  A thread cannot be cancelled: its handler runs on.
ServeTimeOut(k) ==
  /\ ~stream[k].late
  /\ stream[k].at \in {"reading", "handling"}
  /\ stream' = IF stream[k].at = "reading" THEN Closed(k) ELSE [stream EXCEPT ![k].late = TRUE]
  /\ UNCHANGED <<host, launch, circuits, enrolled, caller, lock, calls, downs>>

\* The handler is done: it raised, had no reply or is too late, or it replies.
Finish(k) ==
  /\ stream[k].at = "handling"
  /\ \/ /\ ~stream[k].late /\ ~stream[k].cut
        /\ stream' = [stream EXCEPT ![k].at = "answered"]
     \/ stream' = Closed(k)
  /\ UNCHANGED <<host, launch, circuits, enrolled, caller, lock, calls, downs>>

-----------------------------------------------------------------------------
\* What a call is given: a server's own address, or its addresses by its relays,
\* to be tried in turn.
Candidates ==
  {<<[to |-> s, via |-> None]>> : s \in Server}
    \cup {[i \in DOMAIN Relays[s] |-> [to |-> s, via |-> Relays[s][i]]] :
            s \in {x \in Server : Relays[x] # <<>>}}

CallerStep(c) ==
  \/ Take(c)
  \/ Open(c)
  \/ Fault(c)
  \/ Send(c)
  \/ Receive(c)
  \/ TimeOut(c)

StreamStep(k) ==
  \/ Handle(k)
  \/ ServeTimeOut(k)
  \/ Finish(k)

Next ==
  \/ \E s \in Server : Start(s) \/ Reserve(s)
  \/ \E h \in Host : Stop(h)
  \/ \E c \in Dialer : CallerStep(c) \/ \E targets \in Candidates : Call(c, targets)
  \/ \E k \in DOMAIN stream : StreamStep(k)

Spec == Init /\ [][Next]_vars

\* Threads run, timeouts fire and handlers end.
Fairness ==
  /\ WF_vars(\E c \in Dialer : CallerStep(c))
  /\ WF_vars(\E k \in DOMAIN stream : StreamStep(k))

FairSpec == Spec /\ Fairness

-----------------------------------------------------------------------------
\* A request is run at most once for each address it was tried on, however late:
\* only what precedes the request is retried on an address.
RunsPerAddress == \A k \in DOMAIN calls : calls[k].runs <= calls[k].tried

\* Every call returns or raises, and every stream a server took on is done with,
\* whatever callers stall in the middle of a request, hosts stop and handlers
\* outlast their time (again and again nothing is pending: calls are bounded).
CallsEnd ==
  []<>(/\ \A c \in Dialer : caller[c].at = "idle"
       /\ \A k \in DOMAIN stream : stream[k].at \in {"answered", "closed"})
=============================================================================
