----------------------------- MODULE Transports -----------------------------
(***************************************************************************)
(* The two transports, one of which a deployment chooses (transport.kind): *)
(* the TCP reactor (Reactor) or libp2p hosts (P2p).                        *)
(***************************************************************************)
EXTENDS Reactor

CONSTANTS Dialer, Server, Relays, MaxAttempts, Threads, MaxCalls, MaxDown

VARIABLES kind, host, launch, circuits, enrolled, caller, lock, stream, calls, downs

L == INSTANCE P2p

ASSUME LAssumption == L!P2pAssumption

libp2p == <<host, launch, circuits, enrolled, caller, lock, stream, calls, downs>>
all == <<kind, vars, libp2p>>

EitherInit == kind \in {"tcp", "libp2p"} /\ Init /\ L!Init

Tcp(A) == kind = "tcp" /\ A /\ UNCHANGED <<kind, libp2p>>
Libp2p(A) == kind = "libp2p" /\ A /\ UNCHANGED <<kind, vars>>

EitherNext == Tcp(Next) \/ Libp2p(L!Next)

EitherSpec == EitherInit /\ [][EitherNext]_all

EitherFairness ==
  /\ WF_all(Tcp(AcceptStep))
  /\ \A i \in IO : WF_all(Tcp(IOStep(i)))
  /\ \A c \in Conn : WF_all(Tcp(Receive(c)))
  /\ WF_all(Libp2p(\E c \in Dialer : L!CallerStep(c)))
  /\ WF_all(Libp2p(\E k \in DOMAIN stream : L!StreamStep(k)))

\* A libp2p request runs at most once for each address it was tried on (P2p).
RunsPerAddress == L!RunsPerAddress

\* libp2p calls and the streams they open come to an end (P2p).
CallsEnd == L!CallsEnd
=============================================================================
