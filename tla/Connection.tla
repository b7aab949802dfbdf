------------------------------- MODULE Connection -------------------------------
(***************************************************************************)
(* The HTTP connections of the web server: BaseSocket with its reference   *)
(* count and the global map from descriptors to sockets, HttpConn with its *)
(* request state machine, HttpServer's list of connections, and the epoll  *)
(* threads.  A descriptor is served by thread fd & (n-1); with as many     *)
(* threads as descriptors each descriptor has its own, so a thread goes by *)
(* the name of its descriptor.  The listening socket has a thread, too.    *)
(*                                                                         *)
(* A request handler keeps a reference to its connection while it runs,    *)
(* but answers the connection it finds under its descriptor when it ends.  *)
(* Its RPCs, and its start on the epoll thread, are not distinguished: it  *)
(* runs until it answers, as every handler in api/ does on every path, or  *)
(* until an RPC fails, which never resumes it.                             *)
(*                                                                         *)
(* What a peer sends is a sequence of parts, each the kind of the request  *)
(* it belongs to: one for the header, and one for the body if it has one.  *)
(* Any part is long enough to pass for the body of any request.  Of the    *)
(* calls that send a response only the last is a step.  Peers that do not  *)
(* leave read what they are sent.  The idle timeout is left out.           *)
(***************************************************************************)
EXTENDS Naturals, Sequences, FiniteSets

CONSTANTS Conns,        \* the HttpConn objects, each accepted once
          Fds,          \* the descriptors the kernel hands out
          Handlers,     \* bound: request handlers in progress at a time
          None,         \* no connection
          Kinds,        \* the kinds of requests peers send
          MaxRequests   \* bound: the requests the peers send

ASSUME ConnAssumption ==
    /\ None \notin Conns /\ Fds # {} /\ Kinds # {} /\ IsFiniteSet(Handlers)
    /\ Kinds \subseteq [body : BOOLEAN, keep : BOOLEAN, bad : BOOLEAN]
    /\ MaxRequests \in Nat

VARIABLES open,         \* the connection behind each descriptor, in the kernel
          interest,     \* the events epoll watches on a descriptor; {}: not added
          wire, sent,   \* the parts the peer sent and nobody has read; requests sent
          peer,         \* "open", "closed" or "reset"
          socket_map,   \* g_socket_map
          conn_map,     \* the keys of HttpServer's conn_map
          m_socket, m_state, ref, memory,           \* of a BaseSocket
          raced,        \* history: the last reference went before an earlier look at ref
          in_buf, state, recv_str, isKeepAlive,     \* of an HttpConn
          resp,         \* the connection whose request the response answers
          accepting,    \* the acceptor: its statement and the new connection
          thread,       \* a descriptor's thread: its statement, bs and events
          handler       \* a request handler

kernelVars == <<open, interest>>
peerVars == <<wire, sent, peer>>
mapVars == <<socket_map, conn_map>>
sockVars == <<m_socket, m_state, memory>>
refVars == <<ref, raced>>
httpVars == <<in_buf, state, recv_str, isKeepAlive, resp>>
vars == <<kernelVars, peerVars, mapVars, sockVars, refVars, httpVars, accepting,
          thread, handler>>

HttpStates == {"Http_Header_Read", "Http_Header_Parser", "Http_Len_Parser",
               "HttpCallback", "Http_Error"}
ThreadPcs == {"wait", "events", "reparse", "close", "erase", "close_fd", "drop", "test"}
HandlerPcs == {"idle", "run", "lost", "found", "set", "arm", "drop_found", "test_found",
               "drop", "test"}

AnyKind == CHOOSE k \in Kinds : TRUE
Waiting == [pc |-> "wait", conn |-> None, events |-> {}]
IdleHandler == [pc |-> "idle", fd |-> CHOOSE f \in Fds : TRUE, sock |-> None,
                found |-> None]

Init ==
    /\ open = [f \in Fds |-> None] /\ interest = [f \in Fds |-> {}]
    /\ wire = [c \in Conns |-> <<>>] /\ sent = 0
    /\ peer = [c \in Conns |-> "open"]
    /\ socket_map = [f \in Fds |-> None] /\ conn_map = {}
    /\ m_socket = [c \in Conns |-> CHOOSE f \in Fds : TRUE]
    /\ m_state = [c \in Conns |-> "idle"] /\ memory = [c \in Conns |-> "none"]
    /\ ref = [c \in Conns |-> 0] /\ raced = {}
    /\ in_buf = [c \in Conns |-> <<>>]
    /\ state = [c \in Conns |-> "Http_Header_Read"]
    /\ recv_str = [c \in Conns |-> AnyKind]
    /\ isKeepAlive = [c \in Conns |-> FALSE] /\ resp = [c \in Conns |-> None]
    /\ accepting = [pc |-> "accept", conn |-> None]
    /\ thread = [f \in Fds |-> Waiting]
    /\ handler = [h \in Handlers |-> IdleHandler]

-----------------------------------------------------------------------------
(* The peer.  What it does before its descriptor is watched is noticed, and *)
(* here done, when it is.                                                  *)

Watched(c) == m_state[c] = "connected" /\ interest[m_socket[c]] # {}

PeerSends(c) ==
    /\ Watched(c) /\ peer[c] = "open" /\ sent < MaxRequests
    /\ \E k \in Kinds :
          wire' = [wire EXCEPT ![c] = @ \o IF k.body THEN <<k, k>> ELSE <<k>>]
    /\ sent' = sent + 1
    /\ UNCHANGED <<kernelVars, peer, mapVars, sockVars, refVars, httpVars, accepting,
                   thread, handler>>

PeerLeaves(c) ==
    /\ Watched(c) /\ peer[c] = "open"
    /\ \E how \in {"closed", "reset"} : peer' = [peer EXCEPT ![c] = how]
    /\ UNCHANGED <<kernelVars, wire, sent, mapVars, sockVars, refVars, httpVars,
                   accepting, thread, handler>>

-----------------------------------------------------------------------------
(* References: BaseCount, acquire and release.                             *)

Acquire(c) == ref' = [ref EXCEPT ![c] = @ + 1] /\ UNCHANGED raced

\* Somebody has released a reference to c and is about to look at the count: a
\* thread, a handler that lets its connection go, or one that lets go what it found.
Lookers(c) ==
    {<<"thread", f>> : f \in {g \in Fds : thread[g].conn = c /\ thread[g].pc = "test"}}
    \cup {<<"sock", h>> : h \in {i \in Handlers : handler[i].sock = c /\ handler[i].pc = "test"}}
    \cup {<<"found", h>> : h \in {i \in Handlers : handler[i].found = c
                                                  /\ handler[i].pc = "test_found"}}

Release(c) ==
    /\ ref' = [ref EXCEPT ![c] = @ - 1]
    /\ raced' = IF ref[c] = 1 /\ Lookers(c) # {} THEN raced \cup {c} ELSE raced

\* release reads the counter again to decide whether to delete; what it reads of an
\* object that is deleted already is undefined.  What a deleted object held is gone.
DeleteIfZero(c) ==
    \/ /\ ref[c] = 0
       /\ memory' = [memory EXCEPT ![c] = IF @ = "live" THEN "freed" ELSE "freed_twice"]
       /\ in_buf' = [in_buf EXCEPT ![c] = <<>>]
       /\ state' = [state EXCEPT ![c] = "Http_Header_Read"]
       /\ recv_str' = [recv_str EXCEPT ![c] = AnyKind]
       /\ isKeepAlive' = [isKeepAlive EXCEPT ![c] = FALSE]
       /\ resp' = [resp EXCEPT ![c] = None]
    \/ /\ ref[c] # 0 \/ memory[c] # "live"
       /\ UNCHANGED <<memory, httpVars>>

-----------------------------------------------------------------------------
(* _AcceptNewSocket.                                                       *)

\* accept and AddNew_imp, which enters the connection in conn_map.  Which of the
\* new objects it is makes no difference.
Accept(f) ==
    LET c == CHOOSE x \in Conns : memory[x] = "none" IN
    /\ accepting.pc = "accept"
    /\ \E x \in Conns : memory[x] = "none"
    /\ open[f] = None
    /\ open' = [open EXCEPT ![f] = c]
    /\ memory' = [memory EXCEPT ![c] = "live"]
    /\ ref' = [ref EXCEPT ![c] = 1]
    /\ UNCHANGED raced
    /\ m_socket' = [m_socket EXCEPT ![c] = f]
    /\ m_state' = [m_state EXCEPT ![c] = "connected"]
    /\ conn_map' = conn_map \cup {c}
    /\ accepting' = [pc |-> "register", conn |-> c]
    /\ UNCHANGED <<interest, peerVars, socket_map, httpVars, thread, handler>>

\* AddBaseSocket inserts: an entry that is there already stays.
Register ==
    /\ accepting.pc = "register"
    /\ LET f == m_socket[accepting.conn]
       IN  socket_map' = IF socket_map[f] # None THEN socket_map
                         ELSE [socket_map EXCEPT ![f] = accepting.conn]
    /\ accepting' = [accepting EXCEPT !.pc = "add_event"]
    /\ UNCHANGED <<kernelVars, peerVars, conn_map, sockVars, refVars, httpVars, thread,
                   handler>>

AddSocketEvent ==
    /\ accepting.pc = "add_event"
    /\ interest' = [interest EXCEPT ![m_socket[accepting.conn]] = {"in"}]
    /\ accepting' = [pc |-> "accept", conn |-> None]
    /\ UNCHANGED <<open, peerVars, mapVars, sockVars, refVars, httpVars, thread, handler>>

-----------------------------------------------------------------------------
(* The epoll thread of descriptor f, and its current connection.           *)

Conn(f) == thread[f].conn
ThreadAt(f, p) == thread[f].pc = p
ThreadGoes(f, p) == thread' = [thread EXCEPT ![f].pc = p]

\* Close ends the handling: OnWrite does nothing on a closed socket.
ThreadCloses(f) == thread' = [thread EXCEPT ![f].pc = "close", ![f].events = {}]

\* The event e is handled; after the last one bs goes out of scope.
ThreadHandled(f, e) ==
    LET left == thread[f].events \ {e}
    IN  thread' = [thread EXCEPT ![f].pc = IF left = {} THEN "drop" ELSE "events",
                                 ![f].events = left]

\* The events epoll reports: a hangup ("hup") counts for everything.
Ready(f) ==
    LET c == open[f]
    IN  IF c = None \/ interest[f] = {} THEN {}
        ELSE IF peer[c] = "reset" THEN {"hup"}
        ELSE {e \in interest[f] : e = "in" => wire[c] # <<>> \/ peer[c] = "closed"}

\* epoll_wait, and FindBaseSocket for the event.
Poll(f) ==
    /\ ThreadAt(f, "wait")
    /\ Ready(f) # {} /\ socket_map[f] # None
    /\ thread' = [thread EXCEPT ![f] = [pc |-> "events", conn |-> socket_map[f],
                                        events |-> Ready(f)]]
    /\ Acquire(socket_map[f])
    /\ UNCHANGED <<kernelVars, peerVars, mapVars, sockVars, httpVars, accepting, handler>>

\* A handler is between lock and unlock of h_lock in SetResponse.
Locked(c) == \E h \in Handlers : handler[h].pc \in {"set", "arm"} /\ handler[h].found = c

IdleHandlers == {h \in Handlers : handler[h].pc = "idle"}

\* api_dispatch for the request k: a handler starts, whichever is idle, with a
\* reference to the connection, or no handler is known and SetErrorResponse answers.
Dispatch(f, c, k) ==
    \/ /\ IdleHandlers # {}
       /\ handler' = [handler EXCEPT ![CHOOSE h \in IdleHandlers : TRUE] =
                        [IdleHandler EXCEPT !.pc = "run", !.fd = f, !.sock = c]]
       /\ Acquire(c)
       /\ isKeepAlive' = [isKeepAlive EXCEPT ![c] = @ \/ k.keep]
       /\ UNCHANGED <<interest, resp>>
    \/ /\ ~Locked(c)
       /\ resp' = [resp EXCEPT ![c] = c]
       /\ interest' = [interest EXCEPT ![f] = {"in", "out"}]
       /\ isKeepAlive' = [isKeepAlive EXCEPT ![c] = FALSE]
       /\ UNCHANGED <<refVars, handler>>

\* HandleRead with the input buf, while the thread handles the event e.  The cases
\* fall through from reading the header to the dispatch; a body is whatever comes
\* next in buf.
HandleRead(f, c, buf, e) ==
    LET header == (state[c] = "Http_Header_Read") /\ buf # <<>>
        parsing == header \/ (state[c] = "Http_Header_Parser")
        kind == IF header THEN Head(buf) ELSE recv_str[c]
        rest == IF header THEN Tail(buf) ELSE buf
        malformed == parsing /\ kind.bad
        body == (state[c] = "Http_Len_Parser") \/ (parsing /\ kind.body)
        waits == ~malformed /\ body /\ rest = <<>>
        ready == ~malformed /\ ~waits /\ (parsing \/ body)
    IN  /\ recv_str' = [recv_str EXCEPT ![c] = kind]
        /\ in_buf' = [in_buf EXCEPT ![c] = IF ready /\ body THEN Tail(rest) ELSE rest]
        /\ state' = [state EXCEPT ![c] = CASE malformed -> "Http_Error"
                                           [] ready -> "HttpCallback"
                                           [] waits -> "Http_Len_Parser"
                                           [] OTHER -> @]
        /\ IF malformed THEN ThreadCloses(f) ELSE ThreadHandled(f, e)
        /\ IF ready THEN Dispatch(f, c, kind)
           ELSE UNCHANGED <<interest, resp, isKeepAlive, refVars, handler>>

Handles(f, e) == ThreadAt(f, "events") /\ e \in thread[f].events

\* EPOLLERR or EPOLLHUP.
OnClose(f) ==
    /\ Handles(f, "hup")
    /\ ThreadCloses(f)
    /\ UNCHANGED <<kernelVars, peerVars, mapVars, sockVars, refVars, httpVars,
                   accepting, handler>>

\* EPOLLIN: nothing to read means that the peer has closed.  Read_imp enters the
\* connection in conn_map again, with a new expiry.
OnRead(f) ==
    LET c == Conn(f) IN
    /\ Handles(f, "in")
    /\ \/ /\ wire[c] = <<>>
          /\ ThreadCloses(f)
          /\ UNCHANGED <<interest, wire, conn_map, refVars, httpVars, handler>>
       \/ /\ wire[c] # <<>>
          /\ conn_map' = conn_map \cup {c}
          /\ wire' = [wire EXCEPT ![c] = Tail(@)]
          /\ HandleRead(f, c, Append(in_buf[c], Head(wire[c])), "in")
    /\ UNCHANGED <<open, sent, peer, socket_map, sockVars, accepting>>

\* Write_imp, when the response is sent: the connection closes, or the state
\* goes back to parsing the request it has just answered.
Written(f, c) ==
    /\ resp' = [resp EXCEPT ![c] = None]
    /\ IF isKeepAlive[c]
       THEN /\ state' = [state EXCEPT ![c] = "Http_Header_Parser"]
            /\ interest' = [interest EXCEPT ![f] = {"in"}]
            /\ ThreadGoes(f, "reparse")
       ELSE ThreadCloses(f) /\ UNCHANGED <<interest, state>>

\* EPOLLOUT.  With no response at hand the uninitialized sended_size decides
\* whether Write_imp believes it has sent one.  To a peer that has left the send may
\* fail.
OnWrite(f) ==
    LET c == Conn(f) IN
    /\ ThreadAt(f, "events") /\ thread[f].events = {"out"}
    /\ \/ Written(f, c)
       \/ /\ resp[c] = None \/ peer[c] # "open"
          /\ ThreadHandled(f, "out")
          /\ UNCHANGED <<interest, resp, state>>
    /\ UNCHANGED <<open, peerVars, mapVars, sockVars, refVars, in_buf, recv_str,
                   isKeepAlive, accepting, handler>>

\* Write_imp goes on to HandleRead.
Reparse(f) ==
    /\ ThreadAt(f, "reparse")
    /\ HandleRead(f, Conn(f), in_buf[Conn(f)], "out")
    /\ UNCHANGED <<open, peerVars, mapVars, sockVars, accepting>>

-----------------------------------------------------------------------------
(* BaseSocket::Close, on the thread of the descriptor.                     *)

RemoveFromConns(c) == conn_map \ {c}

\* The state, Close_imp and RemoveEvent.
Close(f) ==
    LET c == Conn(f) IN
    /\ ThreadAt(f, "close")
    /\ m_state' = [m_state EXCEPT ![c] = "closed"]
    /\ conn_map' = RemoveFromConns(c)
    /\ interest' = [interest EXCEPT ![f] = {}]
    /\ ThreadGoes(f, "erase")
    /\ UNCHANGED <<open, peerVars, socket_map, m_socket, memory, refVars, httpVars,
                   accepting, handler>>

\* Mutant: Close does not take the socket out of the global map.
EraseForgotten(f) ==
    /\ ThreadAt(f, "erase")
    /\ ThreadGoes(f, "close_fd")
    /\ UNCHANGED <<kernelVars, peerVars, mapVars, sockVars, refVars, httpVars,
                   accepting, handler>>

RemoveBaseSocket(f) ==
    /\ ThreadAt(f, "erase")
    /\ socket_map' = [socket_map EXCEPT ![f] = None]
    /\ ThreadGoes(f, "close_fd")
    /\ UNCHANGED <<kernelVars, peerVars, conn_map, sockVars, refVars, httpVars,
                   accepting, handler>>

\* Mutant: Close keeps the reference a connection is born with.
ReleaseForgotten(f) ==
    LET c == Conn(f) IN
    /\ ThreadAt(f, "close_fd")
    /\ open' = [open EXCEPT ![f] = None]
    /\ wire' = [wire EXCEPT ![c] = <<>>]
    /\ peer' = [peer EXCEPT ![c] = "closed"]
    /\ ThreadGoes(f, "drop")
    /\ UNCHANGED <<interest, sent, mapVars, sockVars, refVars, httpVars, accepting, handler>>

\* close drops what was not read, and Close the reference a connection is born
\* with; bs still holds another.
CloseFd(f) ==
    LET c == Conn(f) IN
    /\ ThreadAt(f, "close_fd")
    /\ open' = [open EXCEPT ![f] = None]
    /\ wire' = [wire EXCEPT ![c] = <<>>]
    /\ peer' = [peer EXCEPT ![c] = "closed"]
    /\ Release(c)
    /\ ThreadGoes(f, "drop")
    /\ UNCHANGED <<interest, sent, mapVars, sockVars, httpVars, accepting, handler>>

\* The event loop's bs goes out of scope.
Drop(f) ==
    /\ ThreadAt(f, "drop")
    /\ Release(Conn(f))
    /\ ThreadGoes(f, "test")
    /\ UNCHANGED <<kernelVars, peerVars, mapVars, sockVars, httpVars, accepting,
                   handler>>

Test(f) ==
    /\ ThreadAt(f, "test")
    /\ DeleteIfZero(Conn(f))
    /\ thread' = [thread EXCEPT ![f] = Waiting]
    /\ UNCHANGED <<kernelVars, peerVars, mapVars, m_socket, m_state, refVars,
                   accepting, handler>>

-----------------------------------------------------------------------------
(* A request handler, at its end.                                          *)

HandlerAt(h, p) == handler[h].pc = p
HandlerGoes(h, p) == handler' = [handler EXCEPT ![h].pc = p]

\* An RPC ends with an error: OnComplete does not resume the coroutine, which keeps
\* its reference for ever.
RpcFails(h) ==
    /\ HandlerAt(h, "run")
    /\ HandlerGoes(h, "lost")
    /\ UNCHANGED <<kernelVars, peerVars, mapVars, sockVars, refVars, httpVars,
                   accepting, thread>>

\* FindBaseSocket, under the map's lock.
Find(h) ==
    LET b == socket_map[handler[h].fd] IN
    /\ HandlerAt(h, "run")
    /\ IF b = None
       THEN HandlerGoes(h, "drop") /\ UNCHANGED refVars
       ELSE /\ handler' = [handler EXCEPT ![h].pc = "found", ![h].found = b]
            /\ Acquire(b)
    /\ UNCHANGED <<kernelVars, peerVars, mapVars, sockVars, httpVars, accepting,
                   thread>>

\* SetResponse takes h_lock; a closed connection, and one that awaits no answer,
\* refuse the response.
Check(h) ==
    LET b == handler[h].found IN
    /\ HandlerAt(h, "found") /\ ~Locked(b)
    /\ HandlerGoes(h, IF m_state[b] = "connected" /\ state[b] = "HttpCallback"
                      THEN "set" ELSE "drop_found")
    /\ UNCHANGED <<kernelVars, peerVars, mapVars, sockVars, refVars, httpVars, accepting,
                   thread>>

SetResponse(h) ==
    /\ HandlerAt(h, "set")
    /\ resp' = [resp EXCEPT ![handler[h].found] = handler[h].sock]
    /\ HandlerGoes(h, "arm")
    /\ UNCHANGED <<kernelVars, peerVars, mapVars, sockVars, refVars, in_buf, state,
                   recv_str, isKeepAlive, accepting, thread>>

\* Mutant: SetResponse leaves it to the next event to send the response.
ArmForgotten(h) ==
    /\ HandlerAt(h, "arm")
    /\ HandlerGoes(h, "drop_found")
    /\ UNCHANGED <<kernelVars, peerVars, mapVars, sockVars, refVars, httpVars,
                   accepting, thread>>

\* ModifyEvent changes what epoll watches on the descriptor, whoever has it now,
\* and fails when it is not watched.
Arm(h) ==
    LET f == m_socket[handler[h].found] IN
    /\ HandlerAt(h, "arm")
    /\ interest' = [interest EXCEPT ![f] = IF @ = {} THEN {} ELSE {"in", "out"}]
    /\ HandlerGoes(h, "drop_found")
    /\ UNCHANGED <<open, peerVars, mapVars, sockVars, refVars, httpVars, accepting,
                   thread>>

\* The reference from FindBaseSocket goes.
DropFound(h) ==
    /\ HandlerAt(h, "drop_found")
    /\ Release(handler[h].found)
    /\ HandlerGoes(h, "test_found")
    /\ UNCHANGED <<kernelVars, peerVars, mapVars, sockVars, httpVars, accepting,
                   thread>>

TestFound(h) ==
    /\ HandlerAt(h, "test_found")
    /\ DeleteIfZero(handler[h].found)
    /\ handler' = [handler EXCEPT ![h].pc = "drop", ![h].found = None]
    /\ UNCHANGED <<kernelVars, peerVars, mapVars, m_socket, m_state, refVars,
                   accepting, thread>>

\* The callback goes, and with it the reference it captured.
DropSock(h) ==
    /\ HandlerAt(h, "drop")
    /\ Release(handler[h].sock)
    /\ HandlerGoes(h, "test")
    /\ UNCHANGED <<kernelVars, peerVars, mapVars, sockVars, httpVars, accepting,
                   thread>>

TestSock(h) ==
    /\ HandlerAt(h, "test")
    /\ DeleteIfZero(handler[h].sock)
    /\ handler' = [handler EXCEPT ![h] = IdleHandler]
    /\ UNCHANGED <<kernelVars, peerVars, mapVars, m_socket, m_state, refVars,
                   accepting, thread>>

-----------------------------------------------------------------------------
ThreadNext(f) ==
    \/ Poll(f) \/ OnClose(f) \/ OnRead(f) \/ OnWrite(f) \/ Reparse(f)
    \/ Close(f) \/ RemoveBaseSocket(f) \/ CloseFd(f)
    \/ Drop(f) \/ Test(f)

HandlerNext(h) ==
    \/ Find(h) \/ Check(h) \/ SetResponse(h) \/ Arm(h)
    \/ DropFound(h) \/ TestFound(h) \/ DropSock(h) \/ TestSock(h)

Next ==
    \/ \E c \in Conns : PeerSends(c) \/ PeerLeaves(c)
    \/ \E f \in Fds : Accept(f)
    \/ Register \/ AddSocketEvent
    \/ \E f \in Fds : ThreadNext(f)
    \/ \E h \in Handlers : HandlerNext(h) \/ RpcFails(h)

Spec == Init /\ [][Next]_vars

\* Threads run; so do handlers whose RPCs succeed, and who get h_lock, which is
\* released again and again, in the end; and a socket that has been accepted is
\* registered.  A peer may send nothing, and never leave.
Fairness ==
    /\ WF_vars(Register \/ AddSocketEvent)
    /\ \A f \in Fds : WF_vars(ThreadNext(f))
    /\ \A h \in Handlers : SF_vars(HandlerNext(h))

FairSpec == Spec /\ Fairness

-----------------------------------------------------------------------------
\* Every variable has its type; a connection that was accepted is live or freed.
TypeOK ==
    /\ open \in [Fds -> Conns \cup {None}]
    /\ interest \in [Fds -> {{}, {"in"}, {"in", "out"}}]
    /\ wire \in [Conns -> Seq(Kinds)] /\ in_buf \in [Conns -> Seq(Kinds)]
    /\ sent \in 0..MaxRequests
    /\ peer \in [Conns -> {"open", "closed", "reset"}]
    /\ socket_map \in [Fds -> Conns \cup {None}] /\ conn_map \subseteq Conns
    /\ m_socket \in [Conns -> Fds]
    /\ m_state \in [Conns -> {"idle", "connected", "closed"}]
    /\ ref \in [Conns -> Nat] /\ raced \subseteq Conns
    /\ memory \in [Conns -> {"none", "live", "freed", "freed_twice"}]
    /\ state \in [Conns -> HttpStates] /\ recv_str \in [Conns -> Kinds]
    /\ isKeepAlive \in [Conns -> BOOLEAN] /\ resp \in [Conns -> Conns \cup {None}]
    /\ accepting \in [pc : {"accept", "register", "add_event"}, conn : Conns \cup {None}]
    /\ thread \in [Fds -> [pc : ThreadPcs, conn : Conns \cup {None},
                           events : SUBSET {"in", "out", "hup"}]]
    /\ handler \in [Handlers -> [pc : HandlerPcs, fd : Fds, sock : Conns \cup {None},
                                 found : Conns \cup {None}]]

\* Between its registration and its erasure a connection is in the global map
\* under its own descriptor, and the map holds nothing else: whoever finds a
\* socket there finds a live one with an open descriptor of that number, also
\* when descriptors are reused at once.
MapExact ==
    \A f \in Fds, c \in Conns :
        (socket_map[f] = c) <=>
            /\ m_socket[c] = f /\ memory[c] = "live" /\ open[f] = c
            /\ ~(accepting.pc = "register" /\ accepting.conn = c)
            /\ ~(ThreadAt(f, "close_fd") /\ Conn(f) = c)

\* The references to c: the one it is born with, the event loop's, and the
\* handlers', each up to the step that gives it up.
Holders(c) ==
    LET closing == {f \in Fds : Conn(f) = c /\ thread[f].pc \in
                                   {"erase", "close_fd"}}
        loops == {f \in Fds : Conn(f) = c /\ thread[f].pc # "test"}
        finders == {h \in Handlers : handler[h].found = c
                                        /\ handler[h].pc # "test_found"}
        runners == {h \in Handlers : handler[h].sock = c /\ handler[h].pc # "test"}
    IN  (IF m_state[c] = "connected" \/ closing # {} THEN 1 ELSE 0)
          + Cardinality(loops) + Cardinality(finders) + Cardinality(runners)

\* The reference count is the number of references.  A socket that somebody holds is
\* not deleted.  One that nobody holds is, as soon as those who let go have looked at
\* the count, and only once, unless the last reference was let go while an earlier
\* releaser had still to look: then both find 0, and both may delete it.  (release)
RefExact ==
    \A c \in Conns :
        /\ ref[c] = Holders(c)
        /\ Holders(c) > 0 => memory[c] = "live"
        /\ memory[c] = "live" => Holders(c) > 0 \/ Lookers(c) # {}
        /\ memory[c] = "freed_twice" => c \in raced

\* The server's list of connections holds the connections that are not closed:
\* the idle check walks over no pointer to a deleted object and misses none.
IdleListExact ==
    conn_map = {c \in Conns : m_state[c] = "connected" /\ memory[c] = "live"}

\* A connection whose request was dispatched does not wait for ever: a response is
\* found and sent, or the connection closes, unless the handler of one of its
\* requests is lost with a failed RPC.
Answered ==
    \A c \in Conns :
        (state[c] = "HttpCallback")
            ~> \/ state[c] # "HttpCallback" \/ m_state[c] = "closed"
               \/ \E h \in Handlers : handler[h].sock = c /\ HandlerAt(h, "lost")

\* "the api can find the original HttpConn through BaseFound(fd)" (HttpConn.h):
\* a handler's response reaches the connection its request came on.
ResponseOwn == \A c \in Conns : resp[c] \in {None, c}

\* What the other claims rest on: the types, the map all sockets are found in, and
\* the server's list of connections.
Consistent == TypeOK /\ MapExact /\ IdleListExact
=============================================================================
