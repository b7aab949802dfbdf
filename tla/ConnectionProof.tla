---------------------------- MODULE ConnectionProof ----------------------------
(***************************************************************************)
(* The connections of the web server, for any descriptors, connections and *)
(* handlers: the global map and the server's list hold what they should,   *)
(* and the reference count of a socket is the number of its references.    *)
(***************************************************************************)
EXTENDS Connection, FiniteSetTheorems, TLAPS

Closing == {"erase", "close_fd"}
Serving == {"events", "reparse", "close"}
Finding == {"found", "set", "arm", "drop_found", "test_found"}

\* The parts of Holders(c) and LetGo(c).
Closers(c) == {f \in Fds : Conn(f) = c /\ thread[f].pc \in Closing}
Loops(c) == {f \in Fds : Conn(f) = c /\ thread[f].pc # "test"}
Finders(c) == {h \in Handlers : handler[h].found = c /\ handler[h].pc # "test_found"}
Runners(c) == {h \in Handlers : handler[h].sock = c /\ handler[h].pc # "test"}
Born(c) == m_state[c] = "connected" \/ Closers(c) # {}

\* Somebody has released a reference to c and is about to look at the count.
LetGo(c) ==
    \/ \E f \in Fds : Conn(f) = c /\ ThreadAt(f, "test")
    \/ \E h \in Handlers : handler[h].sock = c /\ HandlerAt(h, "test")
    \/ \E h \in Handlers : handler[h].found = c /\ HandlerAt(h, "test_found")

\* What RefExact says but for races: the count, and that an object is deleted when,
\* and not before, nobody holds a reference.
RefCounted ==
    \A c \in Conns :
        /\ ref[c] = Holders(c)
        /\ Holders(c) > 0 => memory[c] = "live"
        /\ memory[c] = "live" => Holders(c) > 0 \/ LetGo(c)

\* Nobody has seen a connection that is still being accepted.
AcceptInv ==
    IF accepting.pc = "accept" THEN accepting.conn = None
    ELSE /\ accepting.conn \in Conns /\ m_state[accepting.conn] = "connected"
         /\ \A f \in Fds : Conn(f) # accepting.conn

\* A descriptor is open from its connection's acceptance to the end of Close.
OpenInv ==
    \A f \in Fds, c \in Conns :
        (open[f] = c) = (m_socket[c] = f /\ (m_state[c] = "connected" \/ f \in Closers(c)))

\* What is watched is an open descriptor whose connection the acceptor has let go.
InterestInv ==
    \A f \in Fds : interest[f] # {} =>
        \E c \in Conns : open[f] = c /\ m_state[c] = "connected" /\ accepting.conn # c

\* Nobody refers to an object that does not exist yet.
StateInv ==
    \A c \in Conns :
        /\ (memory[c] = "none") = (m_state[c] = "idle")
        /\ memory[c] = "none" => /\ \A f \in Fds : Conn(f) # c
                                 /\ \A h \in Handlers : handler[h].sock # c /\ handler[h].found # c

\* A thread serves connections of its own descriptor.
ThreadInv ==
    \A f \in Fds :
        IF thread[f].pc = "wait" THEN Conn(f) = None
        ELSE /\ Conn(f) \in Conns /\ m_socket[Conn(f)] = f
             /\ thread[f].pc \in Serving => m_state[Conn(f)] = "connected"
             /\ thread[f].pc \in Closing => m_state[Conn(f)] = "closed"

HandlerInv ==
    \A h \in Handlers : /\ (handler[h].sock \in Conns) = (handler[h].pc # "idle")
                        /\ (handler[h].found \in Conns) = (handler[h].pc \in Finding)

IInv ==
    /\ TypeOK /\ MapExact /\ IdleListExact /\ RefCounted
    /\ AcceptInv /\ OpenInv /\ InterestInv /\ StateInv /\ ThreadInv /\ HandlerInv

-----------------------------------------------------------------------------
USE ConnAssumption

USE DEF refVars

(* Counting references.                                                    *)

LEMMA HoldersParts ==
    ASSUME NEW c
    PROVE  /\ Holders(c) = (IF Born(c) THEN 1 ELSE 0) + Cardinality(Loops(c))
                             + Cardinality(Finders(c)) + Cardinality(Runners(c))
           /\ Holders(c)' = (IF Born(c)' THEN 1 ELSE 0) + Cardinality(Loops(c)')
                              + Cardinality(Finders(c)') + Cardinality(Runners(c)')
<1>1. Holders(c) = (IF Born(c) THEN 1 ELSE 0) + Cardinality(Loops(c))
                             + Cardinality(Finders(c)) + Cardinality(Runners(c))
  BY DEF Holders, Born, Closers, Loops, Finders, Runners, Closing
<1>2. Holders(c)' = (IF Born(c)' THEN 1 ELSE 0) + Cardinality(Loops(c)')
                              + Cardinality(Finders(c)') + Cardinality(Runners(c)')
  BY DEF Holders, Born, Closers, Loops, Finders, Runners, Closing
<1> QED
  BY <1>1, <1>2

\* One reference more or less, of each kind.
LEMMA Weigh ==
    ASSUME IInv, NEW c \in Conns
    PROVE  /\ Cardinality(Loops(c)) \in Nat /\ Cardinality(Finders(c)) \in Nat
           /\ Cardinality(Runners(c)) \in Nat /\ Holders(c) \in Nat
           /\ \A f : f \notin Loops(c) => Cardinality(Loops(c) \cup {f}) = Cardinality(Loops(c)) + 1
           /\ \A f \in Loops(c) : Cardinality(Loops(c) \ {f}) = Cardinality(Loops(c)) - 1
           /\ \A h : h \notin Finders(c) => Cardinality(Finders(c) \cup {h}) = Cardinality(Finders(c)) + 1
           /\ \A h \in Finders(c) : Cardinality(Finders(c) \ {h}) = Cardinality(Finders(c)) - 1
           /\ \A h : h \notin Runners(c) => Cardinality(Runners(c) \cup {h}) = Cardinality(Runners(c)) + 1
           /\ \A h \in Runners(c) : Cardinality(Runners(c) \ {h}) = Cardinality(Runners(c)) - 1
           /\ (Loops(c) # {} => Cardinality(Loops(c)) > 0)
           /\ (Finders(c) # {} => Cardinality(Finders(c)) > 0)
           /\ (Runners(c) # {} => Cardinality(Runners(c)) > 0)
<1>1. IsFiniteSet(Loops(c))
  <2>1. Loops(c) \subseteq {m_socket[c]}
    BY DEF IInv, ThreadInv, Loops
  <2> QED
    BY <2>1, FS_Singleton, FS_Subset
<1>2. IsFiniteSet(Finders(c)) /\ IsFiniteSet(Runners(c))
  <2>1. Finders(c) \subseteq Handlers /\ Runners(c) \subseteq Handlers
    BY DEF Finders, Runners
  <2> QED
    BY <2>1, FS_Subset
<1>3. \A S : IsFiniteSet(S) => /\ Cardinality(S) \in Nat
                               /\ \A x : x \notin S => Cardinality(S \cup {x}) = Cardinality(S) + 1
                               /\ \A x \in S : Cardinality(S \ {x}) = Cardinality(S) - 1
                               /\ (S # {} => Cardinality(S) > 0)
  <2> SUFFICES ASSUME NEW S, IsFiniteSet(S)
               PROVE  /\ Cardinality(S) \in Nat
                      /\ \A x : x \notin S => Cardinality(S \cup {x}) = Cardinality(S) + 1
                      /\ \A x \in S : Cardinality(S \ {x}) = Cardinality(S) - 1
                      /\ (S # {} => Cardinality(S) > 0)
    OBVIOUS
  <2>1. Cardinality(S) \in Nat /\ (S # {} => Cardinality(S) # 0)
    BY FS_CardinalityType, FS_EmptySet
  <2>2. \A x : x \notin S => Cardinality(S \cup {x}) = Cardinality(S) + 1
    BY FS_AddElement
  <2>3. \A x \in S : Cardinality(S \ {x}) = Cardinality(S) - 1
    BY FS_RemoveElement
  <2> QED
    BY <2>1, <2>2, <2>3
<1>4. Holders(c) \in Nat
  <2>1. /\ Cardinality(Loops(c)) \in Nat /\ Cardinality(Finders(c)) \in Nat
        /\ Cardinality(Runners(c)) \in Nat
    BY <1>1, <1>2, <1>3
  <2> QED
    BY <2>1, HoldersParts
<1> QED
  BY <1>1, <1>2, <1>3, <1>4

\* What each kind of reference shows.
LEMMA HeldLive ==
    ASSUME IInv, NEW c \in Conns, Born(c) \/ Loops(c) # {} \/ Finders(c) # {} \/ Runners(c) # {}
    PROVE  Holders(c) > 0 /\ memory[c] = "live" /\ ref[c] = Holders(c)
<1>1. Holders(c) > 0
  BY Weigh, HoldersParts
<1> QED
  BY <1>1 DEF IInv, RefCounted

\* A step that concerns the references to no connection but c.
LEMMA RefOthers ==
    ASSUME IInv, NEW c \in Conns,
           \A d \in Conns \ {c} :
              /\ Loops(d)' = Loops(d) /\ Finders(d)' = Finders(d) /\ Runners(d)' = Runners(d)
              /\ Born(d)' = Born(d) /\ (LetGo(d) => LetGo(d)')
              /\ ref'[d] = ref[d] /\ memory'[d] = memory[d],
           ref'[c] = Holders(c)',
           Holders(c)' > 0 => memory'[c] = "live",
           memory'[c] = "live" => Holders(c)' > 0 \/ LetGo(c)'
    PROVE  RefCounted'
<1>1. \A d \in Conns \ {c} : Holders(d)' = Holders(d)
  BY HoldersParts
<1>2. \A d \in Conns \ {c} :
         /\ ref[d] = Holders(d)
         /\ (Holders(d) > 0 => memory[d] = "live")
         /\ (memory[d] = "live" => Holders(d) > 0 \/ LetGo(d))
  BY DEF IInv, RefCounted
<1>3. \A d \in Conns \ {c} :
         /\ ref'[d] = Holders(d)'
         /\ (Holders(d)' > 0 => memory'[d] = "live")
         /\ (memory'[d] = "live" => Holders(d)' > 0 \/ LetGo(d)')
  BY <1>1, <1>2
<1> QED
  BY <1>3 DEF RefCounted

-----------------------------------------------------------------------------
(* Steps that no reference is gained or lost by.                           *)

ThreadsNear ==
    \A f \in Fds : /\ Conn(f)' = Conn(f)
                   /\ \A x \in {"wait", "close_fd"} : (thread'[f].pc = x) = (thread[f].pc = x)
                   /\ (thread'[f].pc \in Closing) = (thread[f].pc \in Closing)
                   /\ (thread'[f].pc \in Serving => thread[f].pc \in Serving)

ThreadsQuiet ==
    ThreadsNear /\ \A f \in Fds : (thread'[f].pc = "test") = (thread[f].pc = "test")

HandlersQuiet ==
    \A h \in Handlers : /\ handler'[h].sock = handler[h].sock /\ handler'[h].found = handler[h].found
                        /\ \A x \in {"idle", "test", "test_found"} :
                              (handler'[h].pc = x) = (handler[h].pc = x)
                        /\ (handler'[h].pc \in Finding) = (handler[h].pc \in Finding)

LEMMA RefQuiet ==
    ASSUME IInv, UNCHANGED <<m_state, memory, ref>>, ThreadsQuiet, HandlersQuiet
    PROVE  RefCounted' /\ \A c \in Conns : Closers(c)' = Closers(c)
<1>1. \A c \in Conns : Closers(c)' = Closers(c) /\ Loops(c)' = Loops(c)
  BY DEF ThreadsQuiet, ThreadsNear, Closers, Loops
<1>2. \A c \in Conns : Finders(c)' = Finders(c) /\ Runners(c)' = Runners(c)
  BY DEF HandlersQuiet, Finders, Runners
<1>3. \A c \in Conns : LetGo(c) => LetGo(c)'
  BY DEF ThreadsQuiet, ThreadsNear, HandlersQuiet, LetGo, ThreadAt, HandlerAt
<1>4. \A c \in Conns : Holders(c)' = Holders(c)
  BY <1>1, <1>2, HoldersParts DEF Born
<1>5. RefCounted'
  BY <1>3, <1>4 DEF IInv, RefCounted
<1> QED
  BY <1>1, <1>5

LEMMA QuietThreads ==
    ASSUME IInv, ThreadsNear,
           UNCHANGED <<open, socket_map, conn_map, m_socket, m_state, memory, accepting>>,
           \A f \in Fds : interest'[f] # {} => interest[f] # {} \/ thread[f].pc \in Serving
    PROVE  MapExact' /\ IdleListExact' /\ AcceptInv' /\ OpenInv' /\ InterestInv' /\ ThreadInv'
<1> USE DEF IInv
<1>1. \A c \in Conns : Closers(c)' = Closers(c)
  BY DEF ThreadsNear, Closers
<1>2. MapExact'
  BY DEF MapExact, ThreadsNear, ThreadAt
<1>3. IdleListExact' /\ AcceptInv' /\ OpenInv'
  BY <1>1 DEF IdleListExact, AcceptInv, OpenInv, ThreadsNear
<1>4. InterestInv'
  <2> SUFFICES ASSUME NEW f \in Fds, interest'[f] # {}
               PROVE  \E c \in Conns : open[f] = c /\ m_state[c] = "connected" /\ accepting.conn # c
    BY DEF InterestInv
  <2>1. CASE interest[f] # {}
    BY <2>1 DEF InterestInv
  <2>2. CASE thread[f].pc \in Serving
    <3>1. Conn(f) \in Conns /\ m_socket[Conn(f)] = f /\ m_state[Conn(f)] = "connected"
      BY <2>2 DEF ThreadInv, Serving
    <3>2. open[f] = Conn(f) /\ accepting.conn # Conn(f)
      BY <3>1 DEF OpenInv, AcceptInv
    <3> QED
      BY <3>1, <3>2
  <2> QED
    BY <2>1, <2>2
<1>5. ThreadInv'
  BY DEF ThreadInv, ThreadsNear
<1> QED
  BY <1>2, <1>3, <1>4, <1>5

LEMMA Quiet ==
    ASSUME IInv, TypeOK', ThreadsQuiet, HandlersQuiet,
           UNCHANGED <<open, socket_map, conn_map, m_socket, m_state, memory, ref, accepting>>,
           \A f \in Fds : interest'[f] # {} => interest[f] # {} \/ thread[f].pc \in Serving
    PROVE  IInv'
<1>1. StateInv' /\ HandlerInv'
  BY DEF IInv, StateInv, HandlerInv, ThreadsQuiet, ThreadsNear, HandlersQuiet
<1> QED
  BY <1>1, RefQuiet, QuietThreads DEF IInv, ThreadsQuiet

LEMMA InitInv == Init => IInv
<1> SUFFICES ASSUME Init PROVE IInv
  OBVIOUS
<1>1. TypeOK
  <2>1. AnyKind \in Kinds /\ (CHOOSE f \in Fds : TRUE) \in Fds
    BY DEF AnyKind
  <2>2. /\ thread \in [Fds -> [pc : ThreadPcs, conn : Conns \cup {None},
                               events : SUBSET {"in", "out", "hup"}]]
        /\ handler \in [Handlers -> [pc : HandlerPcs, fd : Fds, sock : Conns \cup {None},
                                     found : Conns \cup {None}]]
    BY <2>1 DEF Init, Waiting, IdleHandler, ThreadPcs, HandlerPcs
  <2>3. /\ accepting \in [pc : {"accept", "register", "add_event"}, conn : Conns \cup {None}]
        /\ interest \in [Fds -> {{}, {"in"}, {"in", "out"}}]
        /\ wire \in [Conns -> Seq(Kinds)] /\ in_buf \in [Conns -> Seq(Kinds)]
        /\ state \in [Conns -> HttpStates]
    BY DEF Init, HttpStates
  <2> QED
    BY <2>1, <2>2, <2>3 DEF Init, TypeOK
<1>2. /\ \A f \in Fds : thread[f].pc = "wait" /\ Conn(f) = None
      /\ \A h \in Handlers : handler[h].pc = "idle" /\ handler[h].sock = None /\ handler[h].found = None
      /\ \A c \in Conns : m_state[c] = "idle" /\ memory[c] = "none" /\ ref[c] = 0
      /\ \A f \in Fds : open[f] = None /\ interest[f] = {} /\ socket_map[f] = None
      /\ conn_map = {} /\ accepting.pc = "accept" /\ accepting.conn = None
  BY DEF Init, Waiting, IdleHandler, Conn
<1>3. \A c \in Conns : Closers(c) = {} /\ Loops(c) = {} /\ Finders(c) = {} /\ Runners(c) = {} /\ ~Born(c)
  BY <1>2 DEF Closers, Loops, Finders, Runners, Born
<1>4. RefCounted
  <2>1. \A c \in Conns : Holders(c) = 0
    <3>1. Cardinality({}) = 0
      BY FS_EmptySet
    <3> SUFFICES ASSUME NEW c \in Conns PROVE Holders(c) = 0
      OBVIOUS
    <3>2. Holders(c) = 0 + Cardinality({}) + Cardinality({}) + Cardinality({})
      BY <1>3, HoldersParts
    <3> QED
      BY <3>1, <3>2
  <2> QED
    BY <1>2, <2>1 DEF RefCounted
<1>5. MapExact /\ IdleListExact /\ AcceptInv /\ OpenInv /\ InterestInv
  BY <1>2, <1>3 DEF MapExact, IdleListExact, AcceptInv, OpenInv, InterestInv
<1>6. StateInv /\ ThreadInv /\ HandlerInv
  BY <1>2 DEF StateInv, ThreadInv, HandlerInv, Finding
<1> QED
  BY <1>1, <1>4, <1>5, <1>6 DEF IInv

-----------------------------------------------------------------------------
(* The steps of peers, and of handlers that keep what they hold.           *)

LEMMA PeerStep == ASSUME IInv, NEW c \in Conns, PeerSends(c) \/ PeerLeaves(c) PROVE IInv'
<1> USE DEF IInv
<1>1. /\ wire' \in [Conns -> Seq(Kinds)] /\ sent' \in 0 .. MaxRequests
      /\ peer' \in [Conns -> {"open", "closed", "reset"}]
  <2>1. CASE PeerSends(c)
    <3>1. PICK p \in Seq(Kinds) : wire' = [wire EXCEPT ![c] = @ \o p]
      <4>1. PICK k \in Kinds : wire' = [wire EXCEPT ![c] = @ \o IF k.body THEN <<k, k>> ELSE <<k>>]
        BY <2>1 DEF PeerSends
      <4>2. (IF k.body THEN <<k, k>> ELSE <<k>>) \in Seq(Kinds)
        OBVIOUS
      <4> QED
        BY <4>1, <4>2
    <3>2. sent' = sent + 1 /\ sent < MaxRequests /\ peer' = peer
      BY <2>1 DEF PeerSends
    <3>3. wire' \in [Conns -> Seq(Kinds)]
      BY <3>1 DEF TypeOK
    <3>4. sent' \in 0 .. MaxRequests
      BY <3>2 DEF TypeOK
    <3> QED
      BY <3>2, <3>3, <3>4 DEF TypeOK
  <2>2. CASE PeerLeaves(c)
    BY <2>2 DEF PeerLeaves, TypeOK
  <2> QED
    BY <2>1, <2>2
<1>2. UNCHANGED <<kernelVars, mapVars, sockVars, ref, raced, httpVars, accepting, thread, handler>>
  BY DEF PeerSends, PeerLeaves
<1>3. TypeOK'
  BY <1>1, <1>2 DEF TypeOK, kernelVars, mapVars, sockVars, httpVars
<1>4. ThreadsQuiet /\ HandlersQuiet
  BY <1>2 DEF ThreadsQuiet, ThreadsNear, HandlersQuiet, Conn
<1> QED
  BY <1>2, <1>3, <1>4, Quiet DEF kernelVars, mapVars, sockVars

HandlerRecords == [pc : HandlerPcs, fd : Fds, sock : Conns \cup {None}, found : Conns \cup {None}]

LEMMA HandlerSet ==
    ASSUME IInv, NEW h \in Handlers, NEW p \in HandlerPcs, HandlerGoes(h, p)
    PROVE  /\ handler' \in [Handlers -> HandlerRecords]
           /\ handler'[h].pc = p /\ handler'[h].sock = handler[h].sock /\ handler'[h].fd = handler[h].fd
           /\ handler'[h].found = handler[h].found
           /\ \A i \in Handlers \ {h} : handler'[i] = handler[i]
<1>1. handler \in [Handlers -> HandlerRecords]
  BY DEF IInv, TypeOK, HandlerRecords
<1>2. handler' = [handler EXCEPT ![h] = [handler[h] EXCEPT !.pc = p]]
  BY <1>1 DEF HandlerGoes
<1>3. [handler[h] EXCEPT !.pc = p] \in HandlerRecords
  BY <1>1 DEF HandlerRecords
<1> QED
  BY <1>1, <1>2, <1>3 DEF HandlerRecords

LEMMA KeepStep ==
    ASSUME IInv, NEW h \in Handlers, Check(h) \/ SetResponse(h) \/ Arm(h) PROVE IInv'
<1> USE DEF IInv
<1>1. PICK p \in {"set", "arm", "drop_found"} : HandlerGoes(h, p)
  BY DEF Check, SetResponse, Arm
<1>2. /\ handler[h].pc \in {"found", "set", "arm"}
      /\ UNCHANGED <<open, peerVars, mapVars, sockVars, ref, raced, in_buf, state, recv_str, isKeepAlive,
                     accepting, thread>>
  BY DEF Check, SetResponse, Arm, HandlerAt, kernelVars, httpVars
<1>3. /\ handler' \in [Handlers -> HandlerRecords]
      /\ handler'[h].pc = p /\ handler'[h].sock = handler[h].sock
      /\ handler'[h].found = handler[h].found
      /\ \A i \in Handlers \ {h} : handler'[i] = handler[i]
  BY <1>1, HandlerSet DEF HandlerPcs
<1>4. handler[h].found \in Conns /\ handler[h].sock \in Conns
  BY <1>2 DEF HandlerInv, Finding
<1>5. /\ resp' \in [Conns -> Conns \cup {None}]
      /\ interest' \in [Fds -> {{}, {"in"}, {"in", "out"}}]
      /\ \A f \in Fds : interest'[f] # {} => interest[f] # {}
  <2>1. CASE Check(h)
    BY <2>1 DEF Check, kernelVars, httpVars, TypeOK
  <2>2. CASE SetResponse(h)
    BY <2>2, <1>4 DEF SetResponse, kernelVars, TypeOK
  <2>3. CASE Arm(h)
    BY <2>3, <1>4 DEF Arm, httpVars, TypeOK
  <2> QED
    BY <2>1, <2>2, <2>3
<1>6. TypeOK'
  BY <1>2, <1>3, <1>5 DEF TypeOK, HandlerRecords, peerVars, mapVars, sockVars
<1>7. ThreadsQuiet /\ HandlersQuiet
  BY <1>2, <1>3 DEF ThreadsQuiet, ThreadsNear, HandlersQuiet, Conn, Finding
<1> QED
  BY <1>2, <1>5, <1>6, <1>7, Quiet DEF mapVars, sockVars

-----------------------------------------------------------------------------
(* The acceptor.                                                           *)

LEMMA RpcFailsStep == ASSUME IInv, NEW h \in Handlers, RpcFails(h) PROVE IInv'
<1>1. /\ handler[h].pc = "run" /\ HandlerGoes(h, "lost")
      /\ UNCHANGED <<kernelVars, peerVars, mapVars, sockVars, ref, raced, httpVars, accepting, thread>>
  BY DEF RpcFails, HandlerAt
<1>2. /\ handler' \in [Handlers -> HandlerRecords]
      /\ handler'[h].pc = "lost" /\ handler'[h].sock = handler[h].sock
      /\ handler'[h].found = handler[h].found
      /\ \A i \in Handlers \ {h} : handler'[i] = handler[i]
  BY <1>1, HandlerSet DEF HandlerPcs
<1>3. TypeOK'
  BY <1>1, <1>2 DEF IInv, TypeOK, HandlerRecords, kernelVars, peerVars, mapVars, sockVars, httpVars
<1>4. ThreadsQuiet /\ HandlersQuiet
  BY <1>1, <1>2 DEF ThreadsQuiet, ThreadsNear, HandlersQuiet, Conn, Finding
<1> QED
  BY <1>1, <1>3, <1>4, Quiet DEF kernelVars, mapVars, sockVars

LEMMA AcceptStep == ASSUME IInv, NEW f \in Fds, Accept(f) PROVE IInv'
<1> USE DEF IInv
<1>1. PICK c \in Conns :
        /\ memory[c] = "none" /\ open' = [open EXCEPT ![f] = c]
        /\ memory' = [memory EXCEPT ![c] = "live"] /\ ref' = [ref EXCEPT ![c] = 1] /\ raced' = raced
        /\ m_socket' = [m_socket EXCEPT ![c] = f] /\ m_state' = [m_state EXCEPT ![c] = "connected"]
        /\ conn_map' = conn_map \cup {c} /\ accepting' = [pc |-> "register", conn |-> c]
  <2>1. \E x \in Conns : memory[x] = "none"
    BY DEF Accept
  <2>2. PICK c \in Conns : memory[c] = "none" /\ c = CHOOSE x \in Conns : memory[x] = "none"
    BY <2>1
  <2> QED
    BY <2>2 DEF Accept
<1>2. /\ accepting.pc = "accept" /\ open[f] = None
      /\ UNCHANGED <<interest, peerVars, socket_map, httpVars, thread, handler>>
  BY DEF Accept
<1>3. /\ m_state[c] = "idle" /\ \A g \in Fds : Conn(g) # c
      /\ \A h \in Handlers : handler[h].sock # c /\ handler[h].found # c
  BY <1>1 DEF StateInv
<1>4. /\ Loops(c) = {} /\ Finders(c) = {} /\ Runners(c) = {} /\ Closers(c) = {}
      /\ \A d : /\ Loops(d)' = Loops(d) /\ Finders(d)' = Finders(d) /\ Runners(d)' = Runners(d)
                /\ Closers(d)' = Closers(d) /\ (LetGo(d) => LetGo(d)')
  BY <1>2, <1>3 DEF Loops, Finders, Runners, Closers, LetGo, Conn, ThreadAt, HandlerAt
<1>5. /\ m_state'[c] = "connected" /\ memory'[c] = "live" /\ ref'[c] = 1 /\ m_socket'[c] = f
      /\ open'[f] = c /\ \A g \in Fds \ {f} : open'[g] = open[g]
      /\ \A d \in Conns \ {c} : /\ m_state'[d] = m_state[d] /\ memory'[d] = memory[d]
                                /\ ref'[d] = ref[d] /\ m_socket'[d] = m_socket[d]
  BY <1>1 DEF TypeOK
<1>6. TypeOK'
  BY <1>1, <1>2 DEF TypeOK, peerVars, httpVars
<1>7. RefCounted'
  <2>1. Cardinality({}) = 0 /\ Born(c)'
    BY <1>5, FS_EmptySet DEF Born
  <2>2. Holders(c)' = 1
    BY <1>4, <2>1, HoldersParts
  <2>3. \A d \in Conns \ {c} : Born(d)' = Born(d)
    BY <1>4, <1>5 DEF Born
  <2> QED
    BY <1>4, <1>5, <2>2, <2>3, RefOthers
<1>8. \A g \in Fds : open[g] # c /\ socket_map[g] # c
  BY <1>3, <1>4 DEF OpenInv, MapExact
<1>9. OpenInv'
  <2>1. \A d \in Conns \ {c} : ~(m_socket[d] = f /\ (m_state[d] = "connected" \/ f \in Closers(d)))
    BY <1>2 DEF OpenInv
  <2> QED
    BY <1>4, <1>5, <1>8, <2>1 DEF OpenInv
<1>10. MapExact'
  <2>1. \A g \in Fds, d \in Conns : socket_map[g] = d => d # c /\ g # f
    BY <1>2, <1>8 DEF MapExact
  <2>2. \A g \in Fds : Conn(g)' = Conn(g) /\ thread'[g] = thread[g]
    BY <1>2 DEF Conn
  <2> QED
    BY <1>1, <1>2, <1>5, <1>8, <2>1, <2>2 DEF MapExact, ThreadAt, AcceptInv
<1>11. IdleListExact' /\ AcceptInv' /\ StateInv'
  BY <1>1, <1>2, <1>3, <1>5 DEF IdleListExact, AcceptInv, StateInv, Conn
<1>12. InterestInv'
  BY <1>1, <1>2, <1>3, <1>5 DEF InterestInv
<1>13. ThreadInv' /\ HandlerInv'
  BY <1>2, <1>3, <1>5 DEF ThreadInv, HandlerInv, Conn
<1> QED
  BY <1>6, <1>7, <1>9, <1>10, <1>11, <1>12, <1>13

\* No entry is there already: the descriptor is the new connection's.
LEMMA RegisterStep == ASSUME IInv, Register PROVE IInv'
<1> USE DEF IInv
<1>1. PICK c \in Conns : c = accepting.conn /\ m_state[c] = "connected"
  BY DEF Register, AcceptInv
<1>2. PICK f \in Fds : f = m_socket[c]
  BY DEF TypeOK
<1>3. open[f] = c /\ memory[c] = "live"
  BY <1>1, <1>2, HeldLive DEF OpenInv, Born
<1>4. socket_map[f] = None /\ \A d \in Conns : open[f] = d => d = c
  <2>1. \A d \in Conns : socket_map[f] # d
    BY <1>1, <1>3 DEF MapExact, Register
  <2> QED
    BY <1>3, <2>1 DEF TypeOK
<1>5. /\ socket_map' = [socket_map EXCEPT ![f] = c]
      /\ accepting' = [accepting EXCEPT !.pc = "add_event"] /\ accepting.pc = "register"
      /\ UNCHANGED <<kernelVars, peerVars, conn_map, sockVars, ref, raced, httpVars, thread, handler>>
  BY <1>1, <1>2, <1>4 DEF Register
<1>6. accepting'.pc = "add_event" /\ accepting'.conn = c
      /\ accepting' \in [pc : {"accept", "register", "add_event"}, conn : Conns \cup {None}]
  BY <1>1, <1>5 DEF TypeOK
<1>7. TypeOK'
  BY <1>1, <1>5, <1>6 DEF TypeOK, kernelVars, peerVars, sockVars, httpVars
<1>8. ThreadsQuiet /\ HandlersQuiet
  BY <1>5 DEF ThreadsQuiet, ThreadsNear, HandlersQuiet, Conn
<1>9. RefCounted' /\ \A d \in Conns : Closers(d)' = Closers(d)
  BY <1>5, <1>8, RefQuiet DEF sockVars
<1>10. MapExact'
  <2>1. Conn(f) # c
    BY <1>1, <1>5 DEF AcceptInv
  <2>2. \A g \in Fds : Conn(g)' = Conn(g) /\ thread'[g] = thread[g]
    BY <1>5 DEF Conn
  <2>3. socket_map'[f] = c /\ \A g \in Fds \ {f} : socket_map'[g] = socket_map[g]
    BY <1>5 DEF TypeOK
  <2> QED
    BY <1>1, <1>2, <1>3, <1>4, <1>5, <1>6, <2>1, <2>2, <2>3 DEF MapExact, ThreadAt, kernelVars, sockVars
<1>11. IdleListExact' /\ AcceptInv' /\ OpenInv'
  BY <1>1, <1>5, <1>6, <1>9 DEF IdleListExact, AcceptInv, OpenInv, Conn, kernelVars, sockVars
<1>12. InterestInv' /\ StateInv'
  BY <1>1, <1>5, <1>6 DEF InterestInv, StateInv, Conn, kernelVars, sockVars
<1>13. ThreadInv' /\ HandlerInv'
  BY <1>5 DEF ThreadInv, HandlerInv, Conn, sockVars
<1> QED
  BY <1>7, <1>9, <1>10, <1>11, <1>12, <1>13

LEMMA AddSocketEventStep == ASSUME IInv, AddSocketEvent PROVE IInv'
<1> USE DEF IInv
<1>1. PICK c \in Conns : c = accepting.conn /\ m_state[c] = "connected"
  BY DEF AddSocketEvent, AcceptInv
<1>2. PICK f \in Fds : f = m_socket[c]
  BY DEF TypeOK
<1>3. open[f] = c
  BY <1>1, <1>2 DEF OpenInv
<1>4. /\ interest' = [interest EXCEPT ![f] = {"in"}] /\ accepting.pc = "add_event"
      /\ accepting' = [pc |-> "accept", conn |-> None]
      /\ UNCHANGED <<open, peerVars, mapVars, sockVars, ref, raced, httpVars, thread, handler>>
  BY <1>1, <1>2 DEF AddSocketEvent
<1>5. TypeOK'
  BY <1>4 DEF TypeOK, peerVars, mapVars, sockVars, httpVars
<1>6. ThreadsQuiet /\ HandlersQuiet
  BY <1>4 DEF ThreadsQuiet, ThreadsNear, HandlersQuiet, Conn
<1>7. RefCounted' /\ \A d \in Conns : Closers(d)' = Closers(d)
  BY <1>4, <1>6, RefQuiet DEF sockVars
<1>8. MapExact'
  BY <1>4 DEF MapExact, ThreadAt, Conn, mapVars, sockVars
<1>9. IdleListExact' /\ AcceptInv' /\ OpenInv'
  BY <1>4, <1>7 DEF IdleListExact, AcceptInv, OpenInv, mapVars, sockVars
<1>10. InterestInv'
  <2>1. interest'[f] = {"in"} /\ \A g \in Fds \ {f} : interest'[g] = interest[g]
    BY <1>4 DEF TypeOK
  <2> QED
    BY <1>1, <1>3, <1>4, <2>1 DEF InterestInv, sockVars
<1>11. StateInv' /\ ThreadInv' /\ HandlerInv'
  BY <1>4 DEF StateInv, ThreadInv, HandlerInv, Conn, sockVars
<1> QED
  BY <1>5, <1>7, <1>8, <1>9, <1>10, <1>11

-----------------------------------------------------------------------------
(* The epoll threads.                                                      *)

ThreadRecords == [pc : ThreadPcs, conn : Conns \cup {None}, events : SUBSET {"in", "out", "hup"}]

\* A thread goes on with the connection it has.
LEMMA ThreadSet ==
    ASSUME IInv, NEW f \in Fds, NEW p \in ThreadPcs, NEW E \in SUBSET {"in", "out", "hup"},
           thread' = [thread EXCEPT ![f].pc = p, ![f].events = E]
           \/ thread' = [thread EXCEPT ![f].pc = p]
    PROVE  /\ thread' \in [Fds -> ThreadRecords]
           /\ thread'[f].pc = p /\ Conn(f)' = Conn(f)
           /\ \A g \in Fds \ {f} : thread'[g] = thread[g] /\ Conn(g)' = Conn(g)
<1>1. thread \in [Fds -> ThreadRecords]
  BY DEF IInv, TypeOK, ThreadRecords
<1>2. PICK t \in ThreadRecords : /\ t.pc = p /\ t.conn = thread[f].conn
                                 /\ thread' = [thread EXCEPT ![f] = t]
  <2>1. CASE thread' = [thread EXCEPT ![f].pc = p, ![f].events = E]
    <3>1. [thread[f] EXCEPT !.pc = p, !.events = E] \in ThreadRecords
      BY <1>1 DEF ThreadRecords
    <3>2. thread' = [thread EXCEPT ![f] = [thread[f] EXCEPT !.pc = p, !.events = E]]
      BY <1>1, <2>1
    <3> QED
      BY <1>1, <3>1, <3>2 DEF ThreadRecords
  <2>2. CASE thread' = [thread EXCEPT ![f].pc = p]
    <3>1. [thread[f] EXCEPT !.pc = p] \in ThreadRecords
      BY <1>1 DEF ThreadRecords
    <3>2. thread' = [thread EXCEPT ![f] = [thread[f] EXCEPT !.pc = p]]
      BY <1>1, <2>2
    <3> QED
      BY <1>1, <3>1, <3>2 DEF ThreadRecords
  <2> QED
    BY <2>1, <2>2
<1> QED
  BY <1>1, <1>2 DEF Conn

\* Where it is while it serves its connection is of no account to the others.
LEMMA ServingQuiet ==
    ASSUME IInv, NEW f \in Fds, thread[f].pc \in Serving,
           NEW p \in Serving \cup {"drop"}, thread'[f].pc = p, Conn(f)' = Conn(f),
           \A g \in Fds \ {f} : thread'[g] = thread[g] /\ Conn(g)' = Conn(g)
    PROVE  ThreadsQuiet /\ (UNCHANGED handler => HandlersQuiet)
<1>1. /\ \A x \in {"wait", "test", "close_fd"} : thread'[f].pc # x /\ thread[f].pc # x
      /\ thread'[f].pc \notin Closing /\ thread[f].pc \notin Closing
  BY DEF Serving, Closing
<1>2. ThreadsQuiet
  BY <1>1 DEF ThreadsQuiet, ThreadsNear
<1> QED
  BY <1>2 DEF HandlersQuiet

\* The connection a thread serves is open, live and known.
LEMMA Served ==
    ASSUME IInv, NEW f \in Fds, thread[f].pc \in Serving
    PROVE  /\ Conn(f) \in Conns /\ m_socket[Conn(f)] = f /\ m_state[Conn(f)] = "connected"
           /\ open[f] = Conn(f) /\ memory[Conn(f)] = "live" /\ Conn(f) \in conn_map
           /\ accepting.conn # Conn(f)
<1>1. /\ Conn(f) \in Conns /\ m_socket[Conn(f)] = f /\ m_state[Conn(f)] = "connected"
  BY DEF IInv, ThreadInv, Serving
<1>2. memory[Conn(f)] = "live" /\ open[f] = Conn(f)
  BY <1>1, HeldLive DEF IInv, OpenInv, Born
<1>3. Conn(f) \in conn_map /\ accepting.conn # Conn(f)
  BY <1>1, <1>2 DEF IInv, IdleListExact, AcceptInv
<1> QED
  BY <1>1, <1>2, <1>3

LEMMA PollStep == ASSUME IInv, NEW f \in Fds, Poll(f) PROVE IInv'
<1> USE DEF IInv
<1>1. PICK c \in Conns : c = socket_map[f]
  BY DEF Poll, TypeOK
<1>2. /\ thread[f].pc = "wait" /\ Ready(f) # {} /\ ref' = [ref EXCEPT ![c] = @ + 1]
      /\ thread' = [thread EXCEPT ![f] = [pc |-> "events", conn |-> c, events |-> Ready(f)]]
      /\ UNCHANGED <<raced, kernelVars, peerVars, mapVars, sockVars, httpVars, accepting, handler>>
  BY <1>1 DEF Poll, ThreadAt, Acquire
<1>3. /\ m_socket[c] = f /\ memory[c] = "live" /\ open[f] = c /\ Conn(f) = None
  BY <1>1, <1>2 DEF MapExact, ThreadInv
<1>4. m_state[c] = "connected" /\ accepting.conn # c
  BY <1>2, <1>3 DEF Ready, InterestInv
<1>5. Ready(f) \in SUBSET {"in", "out", "hup"}
  <2>1. interest[f] \in {{}, {"in"}, {"in", "out"}}
    BY DEF TypeOK
  <2> QED
    BY <2>1 DEF Ready
<1>6. /\ thread'[f].pc = "events" /\ Conn(f)' = c /\ ref'[c] = ref[c] + 1
      /\ \A g \in Fds \ {f} : thread'[g] = thread[g] /\ Conn(g)' = Conn(g)
      /\ \A d \in Conns \ {c} : ref'[d] = ref[d]
      /\ thread' \in [Fds -> ThreadRecords]
  <2>1. [pc |-> "events", conn |-> c, events |-> Ready(f)] \in ThreadRecords
    BY <1>5 DEF ThreadRecords, ThreadPcs
  <2>2. thread \in [Fds -> ThreadRecords] /\ ref \in [Conns -> Nat]
    BY DEF TypeOK, ThreadRecords
  <2> QED
    BY <1>2, <2>1, <2>2 DEF Conn
<1>7. TypeOK'
  <2>1. ref' \in [Conns -> Nat]
    BY <1>2 DEF TypeOK
  <2> QED
    BY <1>2, <1>6, <2>1 DEF TypeOK, ThreadRecords, kernelVars, peerVars, mapVars, sockVars, httpVars
<1>8. /\ f \notin Loops(c) /\ Loops(c)' = Loops(c) \cup {f}
      /\ \A d \in Conns : /\ Closers(d)' = Closers(d) /\ (d # c => Loops(d)' = Loops(d))
                          /\ (LetGo(d) => LetGo(d)') /\ Born(d)' = Born(d)
                          /\ Finders(d)' = Finders(d) /\ Runners(d)' = Runners(d)
  <2>1. f \notin Loops(c) /\ Loops(c)' = Loops(c) \cup {f}
    BY <1>3, <1>6 DEF Loops
  <2>2. \A d \in Conns : Closers(d)' = Closers(d) /\ (d # c => Loops(d)' = Loops(d))
    BY <1>2, <1>3, <1>6 DEF Closers, Loops, Closing
  <2>3. \A d \in Conns : Finders(d)' = Finders(d) /\ Runners(d)' = Runners(d)
    BY <1>2 DEF Finders, Runners
  <2>4. \A d \in Conns : (LetGo(d) => LetGo(d)') /\ Born(d)' = Born(d)
    BY <1>2, <1>6, <2>2 DEF LetGo, ThreadAt, HandlerAt, Born, sockVars
  <2> QED
    BY <2>1, <2>2, <2>3, <2>4
<1>9. RefCounted'
  <2>1. Holders(c)' = Holders(c) + 1 /\ Holders(c) \in Nat /\ ref[c] = Holders(c)
    BY <1>8, Weigh, HoldersParts DEF RefCounted
  <2> QED
    BY <1>2, <1>3, <1>6, <1>8, <2>1, RefOthers DEF sockVars
<1>10. MapExact'
  BY <1>2, <1>3, <1>6 DEF MapExact, ThreadAt, kernelVars, mapVars, sockVars
<1>11. IdleListExact' /\ AcceptInv' /\ OpenInv' /\ InterestInv'
  BY <1>2, <1>4, <1>6, <1>8 DEF IdleListExact, AcceptInv, OpenInv, InterestInv, kernelVars, mapVars, sockVars
<1>12. StateInv'
  BY <1>2, <1>3, <1>6 DEF StateInv, sockVars
<1>13. ThreadInv' /\ HandlerInv'
  BY <1>2, <1>3, <1>4, <1>6 DEF ThreadInv, HandlerInv, sockVars, Closing
<1> QED
  BY <1>7, <1>9, <1>10, <1>11, <1>12, <1>13

LEMMA ServingMove ==
    ASSUME IInv, NEW f \in Fds, thread[f].pc \in Serving,
           ThreadCloses(f) \/ (\E e : ThreadHandled(f, e)) \/ ThreadGoes(f, "reparse")
    PROVE  \E p \in Serving \cup {"drop"} :
              /\ thread' \in [Fds -> ThreadRecords] /\ thread'[f].pc = p /\ Conn(f)' = Conn(f)
              /\ \A g \in Fds \ {f} : thread'[g] = thread[g] /\ Conn(g)' = Conn(g)
<1>1. PICK p \in Serving \cup {"drop"}, E \in SUBSET {"in", "out", "hup"} :
        thread' = [thread EXCEPT ![f].pc = p, ![f].events = E] \/ thread' = [thread EXCEPT ![f].pc = p]
  <2>1. CASE ThreadCloses(f)
    BY <2>1 DEF ThreadCloses, Serving
  <2>2. ASSUME NEW e, ThreadHandled(f, e)
        PROVE  \E p \in Serving \cup {"drop"}, E \in SUBSET {"in", "out", "hup"} :
                  thread' = [thread EXCEPT ![f].pc = p, ![f].events = E]
    <3>1. thread[f].events \ {e} \in SUBSET {"in", "out", "hup"}
      BY DEF IInv, TypeOK
    <3>2. (IF thread[f].events \ {e} = {} THEN "drop" ELSE "events") \in Serving \cup {"drop"}
      BY DEF Serving
    <3> QED
      BY <2>2, <3>1, <3>2 DEF ThreadHandled
  <2>3. CASE ThreadGoes(f, "reparse")
    BY <2>3 DEF ThreadGoes, Serving
  <2> QED
    BY <2>1, <2>2, <2>3
<1>2. p \in ThreadPcs
  BY DEF Serving, ThreadPcs
<1> QED
  BY <1>1, <1>2, ThreadSet

LEMMA OnCloseStep == ASSUME IInv, NEW f \in Fds, OnClose(f) PROVE IInv'
<1>1. /\ thread[f].pc \in Serving /\ ThreadCloses(f)
      /\ UNCHANGED <<kernelVars, peerVars, mapVars, sockVars, ref, raced, httpVars, accepting, handler>>
  BY DEF OnClose, Handles, ThreadAt, Serving
<1>2. PICK p \in Serving \cup {"drop"} :
        /\ thread' \in [Fds -> ThreadRecords] /\ thread'[f].pc = p /\ Conn(f)' = Conn(f)
        /\ \A g \in Fds \ {f} : thread'[g] = thread[g] /\ Conn(g)' = Conn(g)
  BY <1>1, ServingMove
<1>3. ThreadsQuiet /\ HandlersQuiet
  BY <1>1, <1>2, ServingQuiet
<1>4. TypeOK'
  BY <1>1, <1>2 DEF IInv, TypeOK, ThreadRecords, kernelVars, peerVars, mapVars, sockVars, httpVars
<1> QED
  BY <1>1, <1>3, <1>4, Quiet DEF kernelVars, mapVars, sockVars

LEMMA OnWriteStep == ASSUME IInv, NEW f \in Fds, OnWrite(f) PROVE IInv'
<1>1. /\ thread[f].pc \in Serving
      /\ UNCHANGED <<open, peerVars, mapVars, sockVars, ref, raced, in_buf, recv_str, isKeepAlive,
                     accepting, handler>>
  BY DEF OnWrite, ThreadAt, Serving
<1>2. ThreadCloses(f) \/ (\E e : ThreadHandled(f, e)) \/ ThreadGoes(f, "reparse")
  BY DEF OnWrite, Written
<1>3. PICK p \in Serving \cup {"drop"} :
        /\ thread' \in [Fds -> ThreadRecords] /\ thread'[f].pc = p /\ Conn(f)' = Conn(f)
        /\ \A g \in Fds \ {f} : thread'[g] = thread[g] /\ Conn(g)' = Conn(g)
  BY <1>1, <1>2, ServingMove
<1>4. ThreadsQuiet /\ HandlersQuiet
  BY <1>1, <1>3, ServingQuiet
<1>5. Conn(f) \in Conns
  BY <1>1, Served
<1>6. /\ resp' \in [Conns -> Conns \cup {None}] /\ state' \in [Conns -> HttpStates]
      /\ interest' \in [Fds -> {{}, {"in"}, {"in", "out"}}]
      /\ \A g \in Fds \ {f} : interest'[g] = interest[g]
  <2>1. CASE Written(f, Conn(f))
    BY <1>5, <2>1 DEF Written, IInv, TypeOK, HttpStates
  <2>2. CASE UNCHANGED <<interest, resp, state>>
    BY <2>2 DEF IInv, TypeOK
  <2> QED
    BY <2>1, <2>2 DEF OnWrite
<1>7. TypeOK'
  BY <1>1, <1>3, <1>6 DEF IInv, TypeOK, ThreadRecords, peerVars, mapVars, sockVars
<1> QED
  BY <1>1, <1>4, <1>6, <1>7, Quiet DEF mapVars, sockVars

-----------------------------------------------------------------------------
(* HandleRead.                                                             *)

\* What it does, as far as others can tell: the thread goes on, and a handler may
\* start, which takes a reference.
ReadEffect(f, c) ==
    /\ recv_str' \in [Conns -> Kinds] /\ in_buf' \in [Conns -> Seq(Kinds)]
    /\ state' \in [Conns -> HttpStates] /\ isKeepAlive' \in [Conns -> BOOLEAN]
    /\ resp' \in [Conns -> Conns \cup {None}]
    /\ interest' \in [Fds -> {{}, {"in"}, {"in", "out"}}]
    /\ \A g \in Fds \ {f} : interest'[g] = interest[g]
    /\ ThreadCloses(f) \/ \E e : ThreadHandled(f, e)
    /\ \/ UNCHANGED <<ref, raced, handler>>
       \/ /\ Acquire(c)
          /\ \E h \in Handlers :
                /\ handler[h].pc = "idle"
                /\ handler' = [handler EXCEPT ![h] =
                                 [IdleHandler EXCEPT !.pc = "run", !.fd = f, !.sock = c]]

LEMMA HandleReadParts ==
    ASSUME IInv, NEW f \in Fds, thread[f].pc \in Serving, NEW c \in Conns, NEW buf \in Seq(Kinds),
           NEW e, HandleRead(f, c, buf, e)
    PROVE  ReadEffect(f, c)
<1> USE DEF IInv
<1> DEFINE header == (state[c] = "Http_Header_Read") /\ buf # <<>>
           parsing == header \/ (state[c] = "Http_Header_Parser")
           kind == IF header THEN Head(buf) ELSE recv_str[c]
           rest == IF header THEN Tail(buf) ELSE buf
           malformed == parsing /\ kind.bad
           body == (state[c] = "Http_Len_Parser") \/ (parsing /\ kind.body)
           waits == ~malformed /\ body /\ rest = <<>>
           ready == ~malformed /\ ~waits /\ (parsing \/ body)
<1>1. /\ recv_str' = [recv_str EXCEPT ![c] = kind]
      /\ in_buf' = [in_buf EXCEPT ![c] = IF ready /\ body THEN Tail(rest) ELSE rest]
      /\ state' = [state EXCEPT ![c] = CASE malformed -> "Http_Error"
                                         [] ready -> "HttpCallback"
                                         [] waits -> "Http_Len_Parser"
                                         [] OTHER -> @]
      /\ ThreadCloses(f) \/ ThreadHandled(f, e)
      /\ IF ready THEN Dispatch(f, c, kind)
         ELSE UNCHANGED <<interest, resp, isKeepAlive, ref, raced, handler>>
  BY DEF HandleRead
<1>2. kind \in Kinds /\ rest \in Seq(Kinds) /\ recv_str' \in [Conns -> Kinds]
  <2>1. CASE header
    <3>1. buf # <<>>
      BY <2>1
    <3>2. Head(buf) \in Kinds /\ Tail(buf) \in Seq(Kinds)
      BY <3>1
    <3>3. kind \in Kinds /\ rest \in Seq(Kinds)
      BY <2>1, <3>2
    <3> HIDE DEF kind
    <3> QED
      BY <1>1, <3>3 DEF TypeOK
  <2>2. CASE ~header
    <3>1. kind \in Kinds /\ rest \in Seq(Kinds)
      BY <2>2 DEF TypeOK
    <3> HIDE DEF kind
    <3> QED
      BY <1>1, <3>1 DEF TypeOK
  <2> QED
    BY <2>1, <2>2
<1>3. in_buf' \in [Conns -> Seq(Kinds)]
  <2>1. ready /\ body => rest # <<>>
    OBVIOUS
  <2> HIDE DEF ready, body, rest
  <2>2. (IF ready /\ body THEN Tail(rest) ELSE rest) \in Seq(Kinds)
    BY <1>2, <2>1
  <2> QED
    BY <1>1, <2>2 DEF TypeOK
<1>4. state' \in [Conns -> HttpStates]
  <2> HIDE DEF malformed, ready, waits
  <2>1. state[c] \in HttpStates
    BY DEF TypeOK
  <2>2. (CASE malformed -> "Http_Error" [] ready -> "HttpCallback" [] waits -> "Http_Len_Parser"
           [] OTHER -> state[c]) \in HttpStates
    BY <2>1 DEF HttpStates
  <2> QED
    BY <1>1, <2>2 DEF TypeOK
<1> HIDE DEF kind, ready
<1>5. CASE UNCHANGED <<interest, resp, isKeepAlive, ref, raced, handler>>
  BY <1>1, <1>2, <1>3, <1>4, <1>5 DEF TypeOK, ReadEffect
<1>6. CASE Dispatch(f, c, kind)
  <2>1. kind.keep \in BOOLEAN
    BY <1>2
  <2>2. CASE /\ IdleHandlers # {}
             /\ handler' = [handler EXCEPT ![CHOOSE h \in IdleHandlers : TRUE] =
                              [IdleHandler EXCEPT !.pc = "run", !.fd = f, !.sock = c]]
             /\ Acquire(c)
             /\ isKeepAlive' = [isKeepAlive EXCEPT ![c] = @ \/ kind.keep]
             /\ UNCHANGED <<interest, resp>>
    <3>1. PICK h \in IdleHandlers : h = CHOOSE i \in IdleHandlers : TRUE
      BY <2>2
    <3>2. h \in Handlers /\ handler[h].pc = "idle"
      BY DEF IdleHandlers
    <3>3. isKeepAlive' \in [Conns -> BOOLEAN]
      <4>1. (isKeepAlive[c] \/ kind.keep) \in BOOLEAN
        OBVIOUS
      <4> QED
        BY <2>2, <4>1 DEF TypeOK
    <3> QED
      BY <1>1, <1>2, <1>3, <1>4, <2>2, <3>1, <3>2, <3>3 DEF TypeOK, ReadEffect
  <2>3. CASE /\ resp' = [resp EXCEPT ![c] = c]
             /\ interest' = [interest EXCEPT ![f] = {"in", "out"}]
             /\ isKeepAlive' = [isKeepAlive EXCEPT ![c] = FALSE]
             /\ UNCHANGED <<ref, raced, handler>>
    BY <1>1, <1>2, <1>3, <1>4, <2>3 DEF TypeOK, ReadEffect
  <2> QED
    BY <1>6, <2>2, <2>3 DEF Dispatch
<1> QED
  BY <1>1, <1>5, <1>6

\* A handler that starts holds its connection.
LEMMA Started ==
    ASSUME IInv, TypeOK', ThreadsQuiet, NEW f \in Fds, thread[f].pc \in Serving, NEW c \in Conns, c = Conn(f),
           NEW h \in Handlers, handler[h].pc = "idle",
           handler' = [handler EXCEPT ![h] = [IdleHandler EXCEPT !.pc = "run", !.fd = f, !.sock = c]],
           Acquire(c),
           UNCHANGED <<open, socket_map, conn_map, m_socket, m_state, memory, accepting>>,
           \A g \in Fds : interest'[g] # {} => interest[g] # {} \/ thread[g].pc \in Serving
    PROVE  IInv'
<1> USE DEF IInv
<1>1. MapExact' /\ IdleListExact' /\ AcceptInv' /\ OpenInv' /\ InterestInv' /\ ThreadInv'
  BY QuietThreads DEF ThreadsQuiet
<1>2. /\ handler'[h].pc = "run" /\ handler'[h].sock = c /\ handler'[h].found = None
      /\ \A i \in Handlers \ {h} : handler'[i] = handler[i]
      /\ handler[h].sock \notin Conns /\ handler[h].found \notin Conns
  <2>1. handler[h].sock \notin Conns /\ handler[h].found \notin Conns
    BY DEF HandlerInv, Finding
  <2> QED
    BY <2>1 DEF IdleHandler, TypeOK
<1>3. memory[c] = "live" /\ m_state[c] = "connected"
  BY Served
<1>4. StateInv' /\ HandlerInv'
  BY <1>2, <1>3 DEF StateInv, HandlerInv, ThreadsQuiet, ThreadsNear, Finding
<1>5. /\ h \notin Runners(c) /\ Runners(c)' = Runners(c) \cup {h}
      /\ \A d \in Conns : /\ Loops(d)' = Loops(d) /\ Closers(d)' = Closers(d) /\ Finders(d)' = Finders(d)
                          /\ (d # c => Runners(d)' = Runners(d))
                          /\ Born(d)' = Born(d) /\ (LetGo(d) => LetGo(d)')
  <2>1. h \notin Runners(c) /\ Runners(c)' = Runners(c) \cup {h}
    BY <1>2 DEF Runners
  <2>2. \A d \in Conns : (d # c => Runners(d)' = Runners(d)) /\ Finders(d)' = Finders(d)
    BY <1>2 DEF Runners, Finders
  <2>3. \A d \in Conns : Loops(d)' = Loops(d) /\ Closers(d)' = Closers(d)
    BY DEF Loops, Closers, ThreadsQuiet, ThreadsNear
  <2>4. \A d \in Conns : LetGo(d) => LetGo(d)'
    BY <1>2 DEF LetGo, ThreadAt, HandlerAt, ThreadsQuiet, ThreadsNear
  <2> QED
    BY <2>1, <2>2, <2>3, <2>4 DEF Born
<1>6. Holders(c)' = Holders(c) + 1 /\ Holders(c) \in Nat /\ ref[c] = Holders(c)
  BY <1>5, Weigh, HoldersParts DEF RefCounted
<1>7. ref'[c] = ref[c] + 1 /\ \A d \in Conns \ {c} : ref'[d] = ref[d]
  BY DEF Acquire, TypeOK
<1>8. RefCounted'
  BY <1>3, <1>5, <1>6, <1>7, RefOthers
<1> QED
  BY <1>1, <1>4, <1>8

LEMMA ReadStep == ASSUME IInv, NEW f \in Fds, OnRead(f) \/ Reparse(f) PROVE IInv'
<1> USE DEF IInv
<1>1. /\ thread[f].pc \in Serving
      /\ UNCHANGED <<open, sent, peer, socket_map, sockVars, accepting>>
  BY DEF OnRead, Reparse, Handles, ThreadAt, Serving, peerVars, mapVars
<1>2. PICK c \in Conns : c = Conn(f) /\ c \in conn_map
  BY <1>1, Served
<1>3. conn_map' = conn_map
  BY <1>2 DEF OnRead, Reparse, mapVars
<1>4. /\ \/ /\ ThreadCloses(f)
            /\ UNCHANGED <<interest, wire, httpVars, ref, raced, handler>>
         \/ \E buf \in Seq(Kinds), e \in {"in", "out"} : HandleRead(f, c, buf, e)
      /\ wire' \in [Conns -> Seq(Kinds)]
  <2>1. CASE OnRead(f) /\ wire[c] = <<>>
    BY <1>2, <2>1 DEF OnRead, TypeOK
  <2>2. CASE OnRead(f) /\ wire[c] # <<>>
    <3>1. /\ wire' = [wire EXCEPT ![c] = Tail(@)]
          /\ HandleRead(f, c, Append(in_buf[c], Head(wire[c])), "in")
      BY <1>2, <2>2 DEF OnRead
    <3>2. Append(in_buf[c], Head(wire[c])) \in Seq(Kinds) /\ Tail(wire[c]) \in Seq(Kinds)
      BY <2>2 DEF TypeOK
    <3> QED
      BY <3>1, <3>2 DEF TypeOK
  <2>3. CASE Reparse(f)
    <3>1. HandleRead(f, c, in_buf[c], "out") /\ UNCHANGED wire
      BY <1>2, <2>3 DEF Reparse, peerVars
    <3> QED
      BY <3>1 DEF TypeOK
  <2> QED
    BY <2>1, <2>2, <2>3
<1>5. ReadEffect(f, c)
  <2>1. CASE ThreadCloses(f) /\ UNCHANGED <<interest, wire, httpVars, ref, raced, handler>>
    BY <2>1 DEF TypeOK, httpVars, ReadEffect
  <2>2. CASE \E buf \in Seq(Kinds), e \in {"in", "out"} : HandleRead(f, c, buf, e)
    BY <1>1, <2>2, HandleReadParts
  <2> QED
    BY <1>4, <2>1, <2>2
<1>6. PICK p \in Serving \cup {"drop"} :
        /\ thread' \in [Fds -> ThreadRecords] /\ thread'[f].pc = p /\ Conn(f)' = Conn(f)
        /\ \A g \in Fds \ {f} : thread'[g] = thread[g] /\ Conn(g)' = Conn(g)
  BY <1>1, <1>5, ServingMove DEF ReadEffect
<1>7. ThreadsQuiet /\ (UNCHANGED handler => HandlersQuiet)
  BY <1>1, <1>6, ServingQuiet
<1>8. CASE UNCHANGED <<ref, raced, handler>>
  <2>1. TypeOK'
    BY <1>1, <1>3, <1>4, <1>5, <1>6, <1>8 DEF TypeOK, ThreadRecords, ReadEffect, sockVars
  <2> QED
    BY <1>1, <1>3, <1>5, <1>7, <1>8, <2>1, Quiet DEF ReadEffect, sockVars
<1>9. ASSUME Acquire(c), NEW h \in Handlers, handler[h].pc = "idle",
             handler' = [handler EXCEPT ![h] = [IdleHandler EXCEPT !.pc = "run", !.fd = f, !.sock = c]]
      PROVE  IInv'
  <2>1. [IdleHandler EXCEPT !.pc = "run", !.fd = f, !.sock = c] \in HandlerRecords
    BY DEF IdleHandler, HandlerRecords, HandlerPcs
  <2>2. handler' \in [Handlers -> HandlerRecords] /\ ref' \in [Conns -> Nat] /\ raced' = raced
    BY <1>9, <2>1 DEF TypeOK, HandlerRecords, Acquire
  <2>3. TypeOK'
    BY <1>1, <1>3, <1>4, <1>5, <1>6, <2>2 DEF TypeOK, ThreadRecords, HandlerRecords, ReadEffect, sockVars
  <2> QED
    BY <1>1, <1>2, <1>3, <1>5, <1>7, <1>9, <2>3, Started DEF ReadEffect, sockVars
<1> QED
  BY <1>5, <1>8, <1>9 DEF ReadEffect

-----------------------------------------------------------------------------
(* BaseSocket::Close.                                                      *)

LEMMA CloseStep == ASSUME IInv, NEW f \in Fds, Close(f) PROVE IInv'
<1> USE DEF IInv
<1>1. PICK c \in Conns :
        /\ c = Conn(f) /\ m_socket[c] = f /\ m_state[c] = "connected" /\ open[f] = c
        /\ memory[c] = "live" /\ accepting.conn # c
  BY Served DEF Close, ThreadAt, Serving
<1>2. /\ thread[f].pc = "close" /\ ThreadGoes(f, "erase")
      /\ m_state' = [m_state EXCEPT ![c] = "closed"] /\ conn_map' = conn_map \ {c}
      /\ interest' = [interest EXCEPT ![f] = {}]
      /\ UNCHANGED <<open, peerVars, socket_map, m_socket, memory, ref, raced, httpVars, accepting, handler>>
  BY <1>1 DEF Close, ThreadAt, RemoveFromConns
<1>3. /\ thread' \in [Fds -> ThreadRecords] /\ thread'[f].pc = "erase" /\ Conn(f)' = Conn(f)
      /\ \A g \in Fds \ {f} : thread'[g] = thread[g] /\ Conn(g)' = Conn(g)
  BY <1>2, ThreadSet DEF ThreadGoes, ThreadPcs
<1>4. /\ m_state'[c] = "closed" /\ interest'[f] = {}
      /\ \A d \in Conns \ {c} : m_state'[d] = m_state[d]
      /\ \A g \in Fds \ {f} : interest'[g] = interest[g]
  BY <1>2 DEF TypeOK
<1>5. TypeOK'
  BY <1>2, <1>3 DEF TypeOK, ThreadRecords, peerVars, httpVars
<1>6. /\ Born(c) /\ Born(c)' /\ f \in Closers(c)'
      /\ \A d \in Conns : /\ Loops(d)' = Loops(d) /\ Finders(d)' = Finders(d) /\ Runners(d)' = Runners(d)
                          /\ (d # c => Closers(d)' = Closers(d) /\ Born(d)' = Born(d))
                          /\ (LetGo(d) => LetGo(d)')
  <2>1. f \in Closers(c)'
    BY <1>1, <1>3 DEF Closers, Closing
  <2>2. \A d \in Conns : Loops(d)' = Loops(d) /\ (d # c => Closers(d)' = Closers(d))
    BY <1>1, <1>2, <1>3 DEF Loops, Closers
  <2>3. \A d \in Conns : Finders(d)' = Finders(d) /\ Runners(d)' = Runners(d)
    BY <1>2 DEF Finders, Runners
  <2>4. \A d \in Conns : LetGo(d) => LetGo(d)'
    BY <1>2, <1>3 DEF LetGo, ThreadAt, HandlerAt
  <2> QED
    BY <1>1, <1>4, <2>1, <2>2, <2>3, <2>4 DEF Born
<1>7. RefCounted'
  <2>1. Holders(c)' = Holders(c)
    BY <1>6, HoldersParts
  <2> QED
    BY <1>2, <1>6, <2>1, RefOthers DEF RefCounted
<1>8. MapExact'
  BY <1>1, <1>2, <1>3 DEF MapExact, ThreadAt
<1>9. IdleListExact' /\ AcceptInv'
  BY <1>1, <1>2, <1>3, <1>4 DEF IdleListExact, AcceptInv
<1>10. OpenInv'
  <2>1. \A g \in Fds : g \in Closers(c)' => g = f
    BY <1>1, <1>2, <1>3 DEF Closers, ThreadInv
  <2> QED
    BY <1>1, <1>2, <1>4, <1>6, <2>1 DEF OpenInv
<1>11. InterestInv'
  <2> SUFFICES ASSUME NEW g \in Fds, interest'[g] # {}
               PROVE  \E d \in Conns : open'[g] = d /\ m_state'[d] = "connected" /\ accepting'.conn # d
    BY DEF InterestInv
  <2>1. g # f /\ interest[g] # {}
    BY <1>4
  <2>2. PICK d \in Conns : open[g] = d /\ m_state[d] = "connected" /\ accepting.conn # d
    BY <2>1 DEF InterestInv
  <2>3. d # c
    BY <1>1, <2>1, <2>2 DEF OpenInv
  <2> QED
    BY <1>2, <1>4, <2>2, <2>3
<1>12. StateInv' /\ HandlerInv'
  BY <1>1, <1>2, <1>3, <1>4 DEF StateInv, HandlerInv
<1>13. ThreadInv'
  <2>1. \A g \in Fds \ {f} : Conn(g) # c
    BY <1>1 DEF ThreadInv
  <2> QED
    BY <1>1, <1>2, <1>3, <1>4, <2>1 DEF ThreadInv, Serving, Closing
<1> QED
  BY <1>5, <1>7, <1>8, <1>9, <1>10, <1>11, <1>12, <1>13

LEMMA RemoveBaseSocketStep == ASSUME IInv, NEW f \in Fds, RemoveBaseSocket(f) PROVE IInv'
<1> USE DEF IInv
<1>1. PICK c \in Conns : c = Conn(f) /\ m_socket[c] = f /\ m_state[c] = "closed" /\ open[f] = c
  BY DEF RemoveBaseSocket, ThreadAt, ThreadInv, OpenInv, Closers, Closing
<1>2. /\ thread[f].pc = "erase" /\ ThreadGoes(f, "close_fd")
      /\ socket_map' = [socket_map EXCEPT ![f] = None]
      /\ UNCHANGED <<kernelVars, peerVars, conn_map, sockVars, ref, raced, httpVars, accepting, handler>>
  BY DEF RemoveBaseSocket, ThreadAt
<1>3. /\ thread' \in [Fds -> ThreadRecords] /\ thread'[f].pc = "close_fd" /\ Conn(f)' = Conn(f)
      /\ \A g \in Fds \ {f} : thread'[g] = thread[g] /\ Conn(g)' = Conn(g)
  BY <1>2, ThreadSet DEF ThreadGoes, ThreadPcs
<1>4. TypeOK'
  BY <1>2, <1>3 DEF TypeOK, ThreadRecords, kernelVars, peerVars, sockVars, httpVars
<1>5. \A d \in Conns : /\ Loops(d)' = Loops(d) /\ Finders(d)' = Finders(d) /\ Runners(d)' = Runners(d)
                       /\ Closers(d)' = Closers(d) /\ Born(d)' = Born(d) /\ (LetGo(d) => LetGo(d)')
  <2>1. \A d \in Conns : Loops(d)' = Loops(d) /\ Closers(d)' = Closers(d)
    BY <1>2, <1>3 DEF Loops, Closers, Closing
  <2>2. \A d \in Conns : Finders(d)' = Finders(d) /\ Runners(d)' = Runners(d)
    BY <1>2 DEF Finders, Runners
  <2>3. \A d \in Conns : LetGo(d) => LetGo(d)'
    BY <1>2, <1>3 DEF LetGo, ThreadAt, HandlerAt
  <2> QED
    BY <1>2, <2>1, <2>2, <2>3 DEF Born, sockVars
<1>6. RefCounted'
  <2>1. Holders(c)' = Holders(c)
    BY <1>5, HoldersParts
  <2> QED
    BY <1>2, <1>5, <2>1, RefOthers DEF RefCounted, sockVars
<1>7. MapExact'
  <2>1. socket_map'[f] = None /\ \A g \in Fds \ {f} : socket_map'[g] = socket_map[g]
    BY <1>2 DEF TypeOK
  <2> QED
    BY <1>1, <1>2, <1>3, <2>1 DEF MapExact, ThreadAt, kernelVars, sockVars
<1>8. IdleListExact' /\ AcceptInv' /\ OpenInv' /\ InterestInv' /\ StateInv' /\ HandlerInv'
  BY <1>2, <1>3, <1>5 DEF IdleListExact, AcceptInv, OpenInv, InterestInv, StateInv, HandlerInv,
                          kernelVars, sockVars
<1>9. ThreadInv'
  BY <1>1, <1>2, <1>3 DEF ThreadInv, Serving, Closing, sockVars
<1> QED
  BY <1>4, <1>6, <1>7, <1>8, <1>9

LEMMA CloseFdStep == ASSUME IInv, NEW f \in Fds, CloseFd(f) PROVE IInv'
<1> USE DEF IInv
<1>1. PICK c \in Conns : /\ c = Conn(f) /\ m_socket[c] = f /\ m_state[c] = "closed" /\ open[f] = c
                         /\ f \in Closers(c)
  BY DEF CloseFd, ThreadAt, ThreadInv, OpenInv, Closers, Closing
<1>2. /\ thread[f].pc = "close_fd" /\ ThreadGoes(f, "drop")
      /\ open' = [open EXCEPT ![f] = None] /\ wire' = [wire EXCEPT ![c] = <<>>]
      /\ peer' = [peer EXCEPT ![c] = "closed"] /\ ref' = [ref EXCEPT ![c] = @ - 1]
      /\ raced' \in {raced, raced \cup {c}}
      /\ UNCHANGED <<interest, sent, mapVars, sockVars, httpVars, accepting, handler>>
  BY <1>1 DEF CloseFd, ThreadAt, Release
<1>3. /\ thread' \in [Fds -> ThreadRecords] /\ thread'[f].pc = "drop" /\ Conn(f)' = Conn(f)
      /\ \A g \in Fds \ {f} : thread'[g] = thread[g] /\ Conn(g)' = Conn(g)
  BY <1>2, ThreadSet DEF ThreadGoes, ThreadPcs
<1>4. /\ open'[f] = None /\ ref'[c] = ref[c] - 1
      /\ \A g \in Fds \ {f} : open'[g] = open[g]
      /\ \A d \in Conns \ {c} : ref'[d] = ref[d]
  BY <1>2 DEF TypeOK
<1>5. /\ Born(c) /\ ~Born(c)' /\ Closers(c)' = {} /\ Loops(c) # {}
      /\ \A d \in Conns : /\ Loops(d)' = Loops(d) /\ Finders(d)' = Finders(d) /\ Runners(d)' = Runners(d)
                          /\ (d # c => Closers(d)' = Closers(d) /\ Born(d)' = Born(d))
                          /\ (LetGo(d) => LetGo(d)')
  <2>1. Closers(c)' = {}
    BY <1>1, <1>2, <1>3 DEF Closers, Closing, ThreadInv
  <2>2. f \in Loops(c)
    BY <1>1, <1>2 DEF Loops
  <2>3. \A d \in Conns : Loops(d)' = Loops(d) /\ (d # c => Closers(d)' = Closers(d))
    BY <1>1, <1>2, <1>3 DEF Loops, Closers
  <2>4. \A d \in Conns : Finders(d)' = Finders(d) /\ Runners(d)' = Runners(d)
    BY <1>2 DEF Finders, Runners
  <2>5. \A d \in Conns : LetGo(d) => LetGo(d)'
    BY <1>2, <1>3 DEF LetGo, ThreadAt, HandlerAt
  <2> QED
    BY <1>1, <1>2, <2>1, <2>2, <2>3, <2>4, <2>5 DEF Born, sockVars
<1>6. Holders(c)' = Holders(c) - 1 /\ Holders(c)' > 0 /\ ref[c] = Holders(c) /\ memory[c] = "live"
  <2>1. ref[c] = Holders(c) /\ memory[c] = "live"
    BY <1>5, HeldLive
  <2> QED
    BY <1>5, <2>1, Weigh, HoldersParts
<1>7. RefCounted'
  BY <1>2, <1>4, <1>5, <1>6, RefOthers DEF sockVars
<1>8. TypeOK'
  <2>1. ref' \in [Conns -> Nat] /\ raced' \subseteq Conns
    BY <1>2, <1>6, Weigh DEF TypeOK
  <2>2. /\ open' \in [Fds -> Conns \cup {None}] /\ wire' \in [Conns -> Seq(Kinds)]
        /\ peer' \in [Conns -> {"open", "closed", "reset"}]
    BY <1>2 DEF TypeOK
  <2> QED
    BY <1>2, <1>3, <2>1, <2>2 DEF TypeOK, ThreadRecords, mapVars, sockVars, httpVars
<1>9. MapExact'
  BY <1>1, <1>2, <1>3, <1>4 DEF MapExact, ThreadAt, mapVars, sockVars
<1>10. OpenInv'
  BY <1>1, <1>2, <1>4, <1>5 DEF OpenInv, sockVars
<1>11. InterestInv'
  BY <1>1, <1>2, <1>4 DEF InterestInv, sockVars
<1>12. IdleListExact' /\ AcceptInv' /\ StateInv' /\ HandlerInv'
  BY <1>2, <1>3 DEF IdleListExact, AcceptInv, StateInv, HandlerInv, mapVars, sockVars
<1>13. ThreadInv'
  BY <1>1, <1>2, <1>3 DEF ThreadInv, Serving, Closing, sockVars
<1> QED
  BY <1>7, <1>8, <1>9, <1>10, <1>11, <1>12, <1>13

LEMMA DropStep == ASSUME IInv, NEW f \in Fds, Drop(f) PROVE IInv'
<1> USE DEF IInv
<1>1. PICK c \in Conns : c = Conn(f) /\ m_socket[c] = f /\ f \in Loops(c)
  BY DEF Drop, ThreadAt, ThreadInv, Loops
<1>2. /\ thread[f].pc = "drop" /\ ThreadGoes(f, "test") /\ ref' = [ref EXCEPT ![c] = @ - 1]
      /\ raced' \in {raced, raced \cup {c}}
      /\ UNCHANGED <<kernelVars, peerVars, mapVars, sockVars, httpVars, accepting, handler>>
  BY <1>1 DEF Drop, ThreadAt, Release
<1>3. /\ thread' \in [Fds -> ThreadRecords] /\ thread'[f].pc = "test" /\ Conn(f)' = Conn(f)
      /\ \A g \in Fds \ {f} : thread'[g] = thread[g] /\ Conn(g)' = Conn(g)
  BY <1>2, ThreadSet DEF ThreadGoes, ThreadPcs
<1>4. ref'[c] = ref[c] - 1 /\ \A d \in Conns \ {c} : ref'[d] = ref[d]
  BY <1>2 DEF TypeOK
<1>5. /\ Loops(c)' = Loops(c) \ {f} /\ LetGo(c)'
      /\ \A d \in Conns : /\ (d # c => Loops(d)' = Loops(d)) /\ Finders(d)' = Finders(d)
                          /\ Runners(d)' = Runners(d) /\ Born(d)' = Born(d)
                          /\ (LetGo(d) => LetGo(d)')
  <2>1. Loops(c)' = Loops(c) \ {f} /\ \A d \in Conns : d # c => Loops(d)' = Loops(d)
    BY <1>1, <1>2, <1>3 DEF Loops
  <2>2. \A d \in Conns : Finders(d)' = Finders(d) /\ Runners(d)' = Runners(d)
    BY <1>2 DEF Finders, Runners
  <2>3. LetGo(c)' /\ \A d \in Conns : LetGo(d) => LetGo(d)'
    BY <1>1, <1>2, <1>3 DEF LetGo, ThreadAt, HandlerAt
  <2>4. \A d \in Conns : Closers(d)' = Closers(d)
    BY <1>2, <1>3 DEF Closers, Closing
  <2> QED
    BY <1>2, <2>1, <2>2, <2>3, <2>4 DEF Born, sockVars
<1>6. Holders(c)' = Holders(c) - 1 /\ Holders(c) > 0 /\ ref[c] = Holders(c) /\ memory[c] = "live"
  <2>1. Holders(c) > 0 /\ ref[c] = Holders(c) /\ memory[c] = "live"
    BY <1>1, HeldLive
  <2> QED
    BY <1>1, <1>5, <2>1, Weigh, HoldersParts
<1>7. RefCounted'
  BY <1>2, <1>4, <1>5, <1>6, RefOthers DEF sockVars
<1>8. TypeOK'
  <2>1. ref' \in [Conns -> Nat] /\ raced' \subseteq Conns
    BY <1>2, <1>6, Weigh DEF TypeOK
  <2> QED
    BY <1>2, <1>3, <2>1 DEF TypeOK, ThreadRecords, kernelVars, peerVars, mapVars, sockVars, httpVars
<1>9. ThreadsNear
  BY <1>2, <1>3 DEF ThreadsNear, Closing, Serving
<1>10. MapExact' /\ IdleListExact' /\ AcceptInv' /\ OpenInv' /\ InterestInv' /\ ThreadInv'
  BY <1>2, <1>9, QuietThreads DEF kernelVars, mapVars, sockVars
<1>11. StateInv' /\ HandlerInv'
  BY <1>2, <1>3 DEF StateInv, HandlerInv, sockVars
<1> QED
  BY <1>7, <1>8, <1>10, <1>11

-----------------------------------------------------------------------------
(* Whoever has let go looks at the count, and deletes the object.          *)

LEMMA LastLook ==
    ASSUME IInv, NEW c \in Conns, memory[c] # "none", DeleteIfZero(c),
           UNCHANGED <<kernelVars, peerVars, mapVars, m_socket, m_state, ref, raced, accepting>>,
           thread' \in [Fds -> ThreadRecords], handler' \in [Handlers -> HandlerRecords],
           ThreadInv', HandlerInv',
           \A f \in Fds : /\ Conn(f)' \in {Conn(f), None}
                          /\ (thread[f].pc \in Closing \/ thread'[f].pc \in Closing => thread'[f] = thread[f]),
           \A h \in Handlers : /\ handler'[h].sock \in {handler[h].sock, None}
                               /\ handler'[h].found \in {handler[h].found, None},
           \A d \in Conns : /\ Loops(d)' = Loops(d) /\ Finders(d)' = Finders(d) /\ Runners(d)' = Runners(d)
                            /\ (d # c /\ LetGo(d) => LetGo(d)')
    PROVE  IInv'
<1> USE DEF IInv
<1>1. /\ memory' \in [Conns -> {"none", "live", "freed", "freed_twice"}]
      /\ memory'[c] = memory[c] \/ (ref[c] = 0 /\ memory'[c] \in {"freed", "freed_twice"})
      /\ ref[c] = 0 => memory'[c] \in {"freed", "freed_twice"}
      /\ \A d \in Conns \ {c} : memory'[d] = memory[d]
  <2>1. memory \in [Conns -> {"none", "live", "freed", "freed_twice"}]
    BY DEF TypeOK
  <2>2. CASE UNCHANGED memory /\ (ref[c] # 0 \/ memory[c] # "live")
    BY <2>1, <2>2
  <2>3. CASE /\ ref[c] = 0
             /\ memory' = [memory EXCEPT ![c] = IF @ = "live" THEN "freed" ELSE "freed_twice"]
    BY <2>1, <2>3
  <2> QED
    BY <2>2, <2>3 DEF DeleteIfZero
<1>2. /\ in_buf' \in [Conns -> Seq(Kinds)] /\ state' \in [Conns -> HttpStates]
      /\ recv_str' \in [Conns -> Kinds] /\ isKeepAlive' \in [Conns -> BOOLEAN]
      /\ resp' \in [Conns -> Conns \cup {None}]
  <2>1. CASE ~UNCHANGED httpVars
    <3>1. AnyKind \in Kinds /\ "Http_Header_Read" \in HttpStates
      BY DEF AnyKind, HttpStates
    <3>2. /\ in_buf' = [in_buf EXCEPT ![c] = <<>>] /\ state' = [state EXCEPT ![c] = "Http_Header_Read"]
          /\ recv_str' = [recv_str EXCEPT ![c] = AnyKind]
          /\ isKeepAlive' = [isKeepAlive EXCEPT ![c] = FALSE] /\ resp' = [resp EXCEPT ![c] = None]
      BY <2>1 DEF DeleteIfZero
    <3> QED
      BY <3>1, <3>2 DEF TypeOK
  <2>2. CASE UNCHANGED httpVars
    BY <2>2 DEF httpVars, TypeOK
  <2> QED
    BY <2>1, <2>2
<1>3. TypeOK'
  BY <1>1, <1>2 DEF TypeOK, ThreadRecords, HandlerRecords, kernelVars, peerVars, mapVars
<1>4. \A d \in Conns : Closers(d)' = Closers(d) /\ Born(d)' = Born(d)
  <2>1. \A d \in Conns : Closers(d)' = Closers(d)
    BY DEF Closers, Conn
  <2> QED
    BY <2>1 DEF Born
<1>5. ref[c] = 0 => Holders(c) = 0 /\ ~Born(c) /\ m_state[c] # "connected" /\ \A f \in Fds : open[f] # c
  <2> SUFFICES ASSUME ref[c] = 0
               PROVE  Holders(c) = 0 /\ ~Born(c) /\ m_state[c] # "connected" /\ \A f \in Fds : open[f] # c
    OBVIOUS
  <2>1. Holders(c) = 0 /\ ~Born(c)
    BY HeldLive DEF RefCounted
  <2> QED
    BY <2>1 DEF Born, OpenInv
<1>6. RefCounted'
  <2>1. Holders(c)' = Holders(c) /\ Holders(c) \in Nat /\ ref[c] = Holders(c)
    BY <1>4, HoldersParts, Weigh DEF RefCounted
  <2>2. Holders(c) > 0 => memory[c] = "live"
    BY DEF RefCounted
  <2> QED
    BY <1>1, <1>4, <2>1, <2>2, RefOthers
<1>7. MapExact'
  <2>1. \A f \in Fds, d \in Conns :
           (ThreadAt(f, "close_fd") /\ Conn(f) = d) = (ThreadAt(f, "close_fd") /\ Conn(f) = d)'
    BY DEF ThreadAt, Conn, Closing
  <2>2. \A d \in Conns : memory'[d] # memory[d] => d = c /\ ref[c] = 0 /\ memory'[c] # "live"
    BY <1>1
  <2>3. \A d \in Conns, g \in Fds : open[g] = d => (memory'[d] = "live") = (memory[d] = "live")
    BY <1>5, <2>2
  <2> QED
    BY <2>1, <2>3 DEF MapExact, kernelVars, mapVars
<1>8. IdleListExact' /\ OpenInv' /\ InterestInv'
  BY <1>1, <1>4, <1>5 DEF IdleListExact, OpenInv, InterestInv, kernelVars, mapVars
<1>9. AcceptInv' /\ StateInv'
  <2>1. \A d \in Conns : (memory'[d] = "none") = (memory[d] = "none")
    BY <1>1 DEF TypeOK
  <2> QED
    BY <2>1 DEF AcceptInv, StateInv
<1> QED
  BY <1>3, <1>6, <1>7, <1>8, <1>9

LEMMA TestStep == ASSUME IInv, NEW f \in Fds, Test(f) PROVE IInv'
<1> USE DEF IInv
<1>1. PICK c \in Conns : c = Conn(f) /\ memory[c] # "none"
  BY DEF Test, ThreadAt, ThreadInv, StateInv
<1>2. /\ thread[f].pc = "test" /\ DeleteIfZero(c) /\ thread' = [thread EXCEPT ![f] = Waiting]
      /\ UNCHANGED <<kernelVars, peerVars, mapVars, m_socket, m_state, ref, raced, accepting, handler>>
  BY <1>1 DEF Test, ThreadAt
<1>3. /\ thread' \in [Fds -> ThreadRecords] /\ thread'[f].pc = "wait" /\ Conn(f)' = None
      /\ \A g \in Fds \ {f} : thread'[g] = thread[g] /\ Conn(g)' = Conn(g)
  <2>1. Waiting \in ThreadRecords /\ thread \in [Fds -> ThreadRecords]
    BY DEF Waiting, ThreadRecords, ThreadPcs, TypeOK
  <2> QED
    BY <1>2, <2>1 DEF Waiting, Conn
<1>4. handler' \in [Handlers -> HandlerRecords] /\ HandlerInv'
  BY <1>2 DEF HandlerInv, TypeOK, HandlerRecords
<1>5. ThreadInv'
  BY <1>2, <1>3 DEF ThreadInv
<1>6. \A d \in Conns : /\ Loops(d)' = Loops(d) /\ Finders(d)' = Finders(d) /\ Runners(d)' = Runners(d)
                       /\ (d # c /\ LetGo(d) => LetGo(d)')
  <2>1. \A d \in Conns : Loops(d)' = Loops(d)
    BY <1>2, <1>3 DEF Loops
  <2>2. \A d \in Conns : Finders(d)' = Finders(d) /\ Runners(d)' = Runners(d)
    BY <1>2 DEF Finders, Runners
  <2>3. \A d \in Conns : d # c /\ LetGo(d) => LetGo(d)'
    BY <1>1, <1>2, <1>3 DEF LetGo, ThreadAt, HandlerAt
  <2> QED
    BY <2>1, <2>2, <2>3
<1>7. \A g \in Fds : /\ Conn(g)' \in {Conn(g), None}
                     /\ (thread[g].pc \in Closing \/ thread'[g].pc \in Closing => thread'[g] = thread[g])
  BY <1>2, <1>3 DEF Closing
<1> QED
  BY <1>1, <1>2, <1>3, <1>4, <1>5, <1>6, <1>7, LastLook

-----------------------------------------------------------------------------
(* A handler finds a connection and lets go of what it holds.              *)

LEMMA FindStep == ASSUME IInv, NEW h \in Handlers, Find(h) PROVE IInv'
<1> USE DEF IInv
<1>1. /\ handler[h].pc = "run" /\ handler[h].fd \in Fds
      /\ UNCHANGED <<kernelVars, peerVars, mapVars, sockVars, httpVars, accepting, thread>>
  BY DEF Find, HandlerAt, TypeOK
<1>2. CASE HandlerGoes(h, "drop") /\ UNCHANGED <<ref, raced>>
  <2>1. /\ handler' \in [Handlers -> HandlerRecords]
        /\ handler'[h].pc = "drop" /\ handler'[h].sock = handler[h].sock
        /\ handler'[h].found = handler[h].found
        /\ \A i \in Handlers \ {h} : handler'[i] = handler[i]
    BY <1>2, HandlerSet DEF HandlerPcs
  <2>2. TypeOK'
    BY <1>1, <1>2, <2>1 DEF TypeOK, HandlerRecords, kernelVars, peerVars, mapVars, sockVars, httpVars
  <2>3. ThreadsQuiet /\ HandlersQuiet
    BY <1>1, <2>1 DEF ThreadsQuiet, ThreadsNear, HandlersQuiet, Conn, Finding
  <2> QED
    BY <1>1, <1>2, <2>2, <2>3, Quiet DEF kernelVars, mapVars, sockVars
<1>3. ASSUME NEW b \in Conns, b = socket_map[handler[h].fd],
             handler' = [handler EXCEPT ![h].pc = "found", ![h].found = b], Acquire(b)
      PROVE  IInv'
  <2>1. memory[b] = "live"
    BY <1>1, <1>3 DEF MapExact
  <2>2. /\ handler' \in [Handlers -> HandlerRecords]
        /\ handler'[h].pc = "found" /\ handler'[h].sock = handler[h].sock /\ handler'[h].found = b
        /\ \A i \in Handlers \ {h} : handler'[i] = handler[i]
    <3>1. handler \in [Handlers -> HandlerRecords]
      BY DEF TypeOK, HandlerRecords
    <3>2. [handler[h] EXCEPT !.pc = "found", !.found = b] \in HandlerRecords
      BY <3>1 DEF HandlerRecords, HandlerPcs
    <3>3. handler' = [handler EXCEPT ![h] = [handler[h] EXCEPT !.pc = "found", !.found = b]]
      BY <1>3, <3>1
    <3> QED
      BY <3>1, <3>2, <3>3 DEF HandlerRecords
  <2>3. ref'[b] = ref[b] + 1 /\ ref' \in [Conns -> Nat] /\ raced' = raced /\ \A d \in Conns \ {b} : ref'[d] = ref[d]
    BY <1>3 DEF Acquire, TypeOK
  <2>4. TypeOK'
    BY <1>1, <2>2, <2>3 DEF TypeOK, HandlerRecords, kernelVars, peerVars, mapVars, sockVars, httpVars
  <2>5. handler[h].found \notin Conns /\ handler[h].sock \in Conns
    BY <1>1 DEF HandlerInv, Finding
  <2>6. /\ h \notin Finders(b) /\ Finders(b)' = Finders(b) \cup {h}
        /\ \A d \in Conns : /\ Loops(d)' = Loops(d) /\ (d # b => Finders(d)' = Finders(d))
                            /\ Runners(d)' = Runners(d) /\ Born(d)' = Born(d)
                            /\ (LetGo(d) => LetGo(d)')
    <3>1. h \notin Finders(b) /\ Finders(b)' = Finders(b) \cup {h}
      BY <2>2, <2>5 DEF Finders
    <3>2. \A d \in Conns : (d # b => Finders(d)' = Finders(d)) /\ Runners(d)' = Runners(d)
      BY <1>1, <2>2, <2>5 DEF Finders, Runners
    <3>3. \A d \in Conns : LetGo(d) => LetGo(d)'
      BY <1>1, <2>2 DEF LetGo, ThreadAt, HandlerAt, Conn
    <3>4. \A d \in Conns : Loops(d)' = Loops(d) /\ Born(d)' = Born(d)
      BY <1>1 DEF Loops, Born, Closers, Conn, sockVars
    <3> QED
      BY <3>1, <3>2, <3>3, <3>4
  <2>7. RefCounted'
    <3>1. Holders(b)' = Holders(b) + 1 /\ Holders(b) \in Nat /\ ref[b] = Holders(b)
      BY <2>6, Weigh, HoldersParts DEF RefCounted
    <3> QED
      BY <1>1, <2>1, <2>3, <2>6, <3>1, RefOthers DEF sockVars
  <2>8. ThreadsNear
    BY <1>1 DEF ThreadsNear, Conn
  <2>9. MapExact' /\ IdleListExact' /\ AcceptInv' /\ OpenInv' /\ InterestInv' /\ ThreadInv'
    BY <1>1, <2>8, QuietThreads DEF kernelVars, mapVars, sockVars
  <2>10. StateInv' /\ HandlerInv'
    BY <1>1, <2>1, <2>2, <2>5 DEF StateInv, HandlerInv, Finding, Conn, sockVars
  <2> QED
    BY <2>4, <2>7, <2>9, <2>10
<1> QED
  BY <1>1, <1>2, <1>3 DEF Find, TypeOK

LEMMA HandlerDropStep ==
    ASSUME IInv, NEW h \in Handlers, DropFound(h) \/ DropSock(h) PROVE IInv'
<1> USE DEF IInv
<1>1. PICK c \in Conns, p \in {"test_found", "test"} :
        /\ IF p = "test_found" THEN handler[h].pc = "drop_found" /\ c = handler[h].found
           ELSE handler[h].pc = "drop" /\ c = handler[h].sock
        /\ HandlerGoes(h, p) /\ ref' = [ref EXCEPT ![c] = @ - 1]
        /\ raced' \in {raced, raced \cup {c}}
  <2>1. CASE DropFound(h)
    <3>1. handler[h].pc = "drop_found" /\ handler[h].found \in Conns
      BY <2>1 DEF DropFound, HandlerAt, HandlerInv, Finding
    <3> QED
      BY <2>1, <3>1 DEF DropFound, Release
  <2>2. CASE DropSock(h)
    <3>1. handler[h].pc = "drop" /\ handler[h].sock \in Conns
      BY <2>2 DEF DropSock, HandlerAt, HandlerInv
    <3> QED
      BY <2>2, <3>1 DEF DropSock, Release
  <2> QED
    BY <2>1, <2>2
<1>2. UNCHANGED <<kernelVars, peerVars, mapVars, sockVars, httpVars, accepting, thread>>
  BY DEF DropFound, DropSock
<1>3. /\ handler' \in [Handlers -> HandlerRecords]
      /\ handler'[h].pc = p /\ handler'[h].sock = handler[h].sock
      /\ handler'[h].found = handler[h].found
      /\ \A i \in Handlers \ {h} : handler'[i] = handler[i]
  BY <1>1, HandlerSet DEF HandlerPcs
<1>4. ref'[c] = ref[c] - 1 /\ \A d \in Conns \ {c} : ref'[d] = ref[d]
  BY <1>1 DEF TypeOK
<1>5. /\ LetGo(c)'
      /\ \A d \in Conns : /\ Loops(d)' = Loops(d) /\ Born(d)' = Born(d) /\ (LetGo(d) => LetGo(d)')
                          /\ (d # c => Finders(d)' = Finders(d) /\ Runners(d)' = Runners(d))
  <2>1. \A d \in Conns : Loops(d)' = Loops(d) /\ Born(d)' = Born(d)
    BY <1>2 DEF Loops, Born, Closers, Conn, sockVars
  <2>2. LetGo(c)' /\ \A d \in Conns : LetGo(d) => LetGo(d)'
    BY <1>1, <1>2, <1>3 DEF LetGo, ThreadAt, HandlerAt, Conn
  <2>3. \A d \in Conns \ {c} : Finders(d)' = Finders(d) /\ Runners(d)' = Runners(d)
    BY <1>1, <1>3 DEF Finders, Runners
  <2> QED
    BY <2>1, <2>2, <2>3
<1>6. Holders(c)' = Holders(c) - 1 /\ Holders(c) > 0 /\ ref[c] = Holders(c) /\ memory[c] = "live"
  <2>1. CASE p = "test_found"
    <3>1. h \in Finders(c) /\ Finders(c)' = Finders(c) \ {h} /\ Runners(c)' = Runners(c)
      BY <1>1, <1>3, <2>1 DEF Finders, Runners
    <3>2. Holders(c) > 0 /\ ref[c] = Holders(c) /\ memory[c] = "live"
      BY <3>1, HeldLive
    <3> QED
      BY <1>5, <3>1, <3>2, Weigh, HoldersParts
  <2>2. CASE p = "test"
    <3>1. h \in Runners(c) /\ Runners(c)' = Runners(c) \ {h} /\ Finders(c)' = Finders(c)
      BY <1>1, <1>3, <2>2 DEF Finders, Runners
    <3>2. Holders(c) > 0 /\ ref[c] = Holders(c) /\ memory[c] = "live"
      BY <3>1, HeldLive
    <3> QED
      BY <1>5, <3>1, <3>2, Weigh, HoldersParts
  <2> QED
    BY <2>1, <2>2
<1>7. RefCounted'
  BY <1>2, <1>4, <1>5, <1>6, RefOthers DEF sockVars
<1>8. TypeOK'
  <2>1. ref' \in [Conns -> Nat] /\ raced' \subseteq Conns
    BY <1>1, <1>6, Weigh DEF TypeOK
  <2> QED
    BY <1>2, <1>3, <2>1 DEF TypeOK, HandlerRecords, kernelVars, peerVars, mapVars, sockVars, httpVars
<1>9. ThreadsNear
  BY <1>2 DEF ThreadsNear, Conn
<1>10. MapExact' /\ IdleListExact' /\ AcceptInv' /\ OpenInv' /\ InterestInv' /\ ThreadInv'
  BY <1>2, <1>9, QuietThreads DEF kernelVars, mapVars, sockVars
<1>11. StateInv' /\ HandlerInv'
  BY <1>1, <1>2, <1>3 DEF StateInv, HandlerInv, Finding, Conn, sockVars
<1> QED
  BY <1>7, <1>8, <1>10, <1>11

LEMMA HandlerTestStep ==
    ASSUME IInv, NEW h \in Handlers, TestFound(h) \/ TestSock(h) PROVE IInv'
<1> USE DEF IInv
<1>1. PICK c \in Conns, r \in HandlerRecords :
        /\ IF handler[h].pc = "test_found"
           THEN c = handler[h].found /\ r.pc = "drop" /\ r.sock = handler[h].sock /\ r.found = None
           ELSE /\ handler[h].pc = "test" /\ c = handler[h].sock
                /\ r.pc = "idle" /\ r.sock = None /\ r.found = None
        /\ DeleteIfZero(c) /\ handler' = [handler EXCEPT ![h] = r]
  <2>1. handler \in [Handlers -> HandlerRecords]
    BY DEF TypeOK, HandlerRecords
  <2>2. CASE TestFound(h)
    <3>1. handler[h].pc = "test_found" /\ handler[h].found \in Conns
      BY <2>2 DEF TestFound, HandlerAt, HandlerInv, Finding
    <3>2. [handler[h] EXCEPT !.pc = "drop", !.found = None] \in HandlerRecords
      BY <2>1 DEF HandlerRecords, HandlerPcs
    <3>3. handler' = [handler EXCEPT ![h] = [handler[h] EXCEPT !.pc = "drop", !.found = None]]
      BY <2>1, <2>2 DEF TestFound
    <3> QED
      BY <2>1, <2>2, <3>1, <3>2, <3>3 DEF TestFound, HandlerRecords
  <2>3. CASE TestSock(h)
    <3>1. handler[h].pc = "test" /\ handler[h].sock \in Conns
      BY <2>3 DEF TestSock, HandlerAt, HandlerInv
    <3>2. IdleHandler \in HandlerRecords
      BY DEF IdleHandler, HandlerRecords, HandlerPcs
    <3> QED
      BY <2>3, <3>1, <3>2 DEF TestSock, IdleHandler
  <2> QED
    BY <2>2, <2>3
<1>2. UNCHANGED <<kernelVars, peerVars, mapVars, m_socket, m_state, ref, raced, accepting, thread>>
  BY DEF TestFound, TestSock
<1>3. /\ handler' \in [Handlers -> HandlerRecords] /\ handler'[h] = r
      /\ \A i \in Handlers \ {h} : handler'[i] = handler[i]
  <2>1. handler \in [Handlers -> HandlerRecords]
    BY DEF TypeOK, HandlerRecords
  <2> QED
    BY <1>1, <2>1
<1>4. memory[c] # "none" /\ ThreadInv' /\ thread' \in [Fds -> ThreadRecords]
  BY <1>1, <1>2 DEF StateInv, ThreadInv, Conn, TypeOK, ThreadRecords
<1>5. HandlerInv'
  <2>1. handler[h].pc = "test_found" => handler[h].sock \in Conns
    BY DEF HandlerInv
  <2> QED
    BY <1>1, <1>3, <2>1 DEF HandlerInv, Finding
<1>6. \A d \in Conns : /\ Loops(d)' = Loops(d) /\ Finders(d)' = Finders(d) /\ Runners(d)' = Runners(d)
                       /\ (d # c /\ LetGo(d) => LetGo(d)')
  <2>1. \A d \in Conns : Loops(d)' = Loops(d)
    BY <1>2 DEF Loops, Conn
  <2>2. handler[h].pc = "test" => handler[h].found \notin Conns
    BY DEF HandlerInv, Finding
  <2>3. \A d \in Conns : Finders(d)' = Finders(d) /\ Runners(d)' = Runners(d)
    BY <1>1, <1>3, <2>2 DEF Finders, Runners
  <2>4. \A d \in Conns : d # c /\ LetGo(d) => LetGo(d)'
    BY <1>1, <1>2, <1>3 DEF LetGo, ThreadAt, HandlerAt, Conn
  <2> QED
    BY <2>1, <2>3, <2>4
<1>7. /\ \A f \in Fds : Conn(f)' \in {Conn(f), None} /\ thread'[f] = thread[f]
      /\ \A i \in Handlers : /\ handler'[i].sock \in {handler[i].sock, None}
                             /\ handler'[i].found \in {handler[i].found, None}
  BY <1>1, <1>2, <1>3 DEF Conn
<1> QED
  BY <1>1, <1>2, <1>3, <1>4, <1>5, <1>6, <1>7, LastLook

-----------------------------------------------------------------------------
LEMMA NextInv == ASSUME IInv, [Next]_vars PROVE IInv'
<1>1. CASE \E c \in Conns : PeerSends(c) \/ PeerLeaves(c)
  BY <1>1, PeerStep
<1>2. CASE (\E f \in Fds : Accept(f)) \/ Register \/ AddSocketEvent
  BY <1>2, AcceptStep, RegisterStep, AddSocketEventStep
<1>3. ASSUME NEW f \in Fds, ThreadNext(f) PROVE IInv'
  BY <1>3, PollStep, OnCloseStep, ReadStep, OnWriteStep, CloseStep, RemoveBaseSocketStep,
     CloseFdStep, DropStep, TestStep DEF ThreadNext
<1>4. ASSUME NEW h \in Handlers, HandlerNext(h) \/ RpcFails(h) PROVE IInv'
  BY <1>4, RpcFailsStep, FindStep, KeepStep, HandlerDropStep, HandlerTestStep DEF HandlerNext
<1>5. CASE UNCHANGED vars
  <2>1. TypeOK'
    BY <1>5 DEF IInv, TypeOK, vars, kernelVars, peerVars, mapVars, sockVars, httpVars
  <2>2. ThreadsQuiet /\ HandlersQuiet
    BY <1>5 DEF ThreadsQuiet, ThreadsNear, HandlersQuiet, Conn, vars
  <2> QED
    BY <1>5, <2>1, <2>2, Quiet DEF vars, kernelVars, mapVars, sockVars
<1> QED
  BY <1>1, <1>2, <1>3, <1>4, <1>5 DEF Next

\* The inductive invariant holds of every behaviour of the web server.
THEOREM Inductive == Spec => []IInv
<1> QED
  BY InitInv, NextInv, PTL DEF Spec

\* Whoever finds a socket in the global map finds a live one with an open descriptor
\* of that number, and the server's list holds the connections that are not closed.
THEOREM ConnectionConsistent == Spec => []Consistent
<1>1. IInv => Consistent
  BY DEF IInv, Consistent
<1> QED
  BY <1>1, Inductive, PTL

-----------------------------------------------------------------------------
(* Deleting twice.                                                         *)

\* Without a race at most one releaser has still to look when the count is 0, and
\* none has when the object is deleted.
RaceInv ==
    \A c \in Conns \ raced :
        /\ memory[c] # "freed_twice"
        /\ memory[c] = "freed" => Lookers(c) = {}
        /\ ref[c] = 0 => \A x, y \in Lookers(c) : x = y

\* A step after which those who have still to look are the same.
LEMMA RaceKeep ==
    ASSUME RaceInv, UNCHANGED raced,
           \A c \in Conns : /\ Lookers(c)' = Lookers(c)
                            /\ memory'[c] = memory[c] \/ memory'[c] = "live"
                            /\ ref'[c] = 0 => ref[c] = 0
    PROVE  RaceInv'
BY DEF RaceInv

\* Someone gives up a reference and has yet to look ...
LEMMA RaceRelease ==
    ASSUME IInv, RaceInv, NEW c \in Conns, NEW x, Release(c), memory[c] = "live",
           Lookers(c)' = Lookers(c) \cup {x}, UNCHANGED memory,
           \A d \in Conns \ {c} : Lookers(d)' = Lookers(d)
    PROVE  RaceInv'
<1>1. /\ ref'[c] = ref[c] - 1 /\ (\A d \in Conns \ {c} : ref'[d] = ref[d]) /\ ref[c] \in Nat
      /\ raced' = IF ref[c] = 1 /\ Lookers(c) # {} THEN raced \cup {c} ELSE raced
  BY DEF Release, IInv, TypeOK
<1>2. c \in Conns \ raced' /\ ref'[c] = 0 => \A y, z \in Lookers(c)' : y = z
  <2>1. c \in Conns \ raced' /\ ref'[c] = 0 => Lookers(c) = {}
    BY <1>1
  <2> QED
    BY <2>1
<1>3. raced \subseteq raced'
  BY <1>1
<1> QED
  BY <1>1, <1>2, <1>3 DEF RaceInv

\* ... and looks, and deletes the object if the count is 0.
LEMMA RaceLook ==
    ASSUME IInv, RaceInv, NEW c \in Conns, NEW l, l \in Lookers(c), DeleteIfZero(c),
           Lookers(c)' = Lookers(c) \ {l}, ref' = ref, raced' = raced, memory[c] # "none",
           \A d \in Conns \ {c} : Lookers(d)' = Lookers(d)
    PROVE  RaceInv'
<1>1. /\ memory \in [Conns -> {"none", "live", "freed", "freed_twice"}]
      /\ \A d \in Conns \ {c} : memory'[d] = memory[d]
  BY DEF DeleteIfZero, IInv, TypeOK
<1>2. c \notin raced =>
        /\ memory'[c] # "freed_twice"
        /\ memory'[c] = "freed" => Lookers(c)' = {}
        /\ ref'[c] = 0 => \A y, z \in Lookers(c)' : y = z
  <2> SUFFICES ASSUME c \notin raced
               PROVE  /\ memory'[c] # "freed_twice"
                      /\ memory'[c] = "freed" => Lookers(c)' = {}
                      /\ ref'[c] = 0 => \A y, z \in Lookers(c)' : y = z
    OBVIOUS
  <2>1. memory[c] = "live"
    BY <1>1 DEF RaceInv
  <2>2. ref[c] = 0 => Lookers(c)' = {}
    BY DEF RaceInv
  <2>3. IF ref[c] = 0 THEN memory'[c] = "freed" ELSE memory'[c] = "live"
    BY <1>1, <2>1 DEF DeleteIfZero
  <2> QED
    BY <2>2, <2>3
<1>3. \A d \in Conns \ raced : d # c =>
        /\ memory'[d] # "freed_twice"
        /\ memory'[d] = "freed" => Lookers(d)' = {}
        /\ ref'[d] = 0 => \A y, z \in Lookers(d)' : y = z
  BY <1>1 DEF RaceInv
<1> QED
  BY <1>2, <1>3 DEF RaceInv

\* Threads and handlers go on that are not about to look, before or after.
ThreadsApart ==
    \A f \in Fds : thread'[f] = thread[f] \/ (thread[f].pc # "test" /\ thread'[f].pc # "test")

HandlersApart ==
    \A h \in Handlers : \/ handler'[h] = handler[h]
                       \/ /\ handler[h].pc \notin {"test", "test_found"}
                          /\ handler'[h].pc \notin {"test", "test_found"}

LookersSame == \A c \in Conns : Lookers(c)' = Lookers(c)

LEMMA Apart == ASSUME ThreadsApart, HandlersApart PROVE LookersSame
<1> SUFFICES ASSUME NEW c \in Conns PROVE Lookers(c)' = Lookers(c)
  BY DEF LookersSame
<1>1. {g \in Fds : thread'[g].conn = c /\ thread'[g].pc = "test"}
        = {g \in Fds : thread[g].conn = c /\ thread[g].pc = "test"}
  BY DEF ThreadsApart
<1>2. {i \in Handlers : handler'[i].sock = c /\ handler'[i].pc = "test"}
        = {i \in Handlers : handler[i].sock = c /\ handler[i].pc = "test"}
  BY DEF HandlersApart
<1>3. {i \in Handlers : handler'[i].found = c /\ handler'[i].pc = "test_found"}
        = {i \in Handlers : handler[i].found = c /\ handler[i].pc = "test_found"}
  BY DEF HandlersApart
<1>4. Lookers(c)' =
        {<<"thread", f>> : f \in {g \in Fds : thread'[g].conn = c /\ thread'[g].pc = "test"}}
        \cup {<<"sock", h>> : h \in {i \in Handlers : handler'[i].sock = c /\ handler'[i].pc = "test"}}
        \cup {<<"found", h>> : h \in {i \in Handlers : handler'[i].found = c
                                                      /\ handler'[i].pc = "test_found"}}
  BY DEF Lookers
<1> QED
  BY <1>1, <1>2, <1>3, <1>4 DEF Lookers

\* A step that takes a reference, or none.
LEMMA RaceMove ==
    ASSUME IInv, RaceInv, UNCHANGED raced, LookersSame,
           \A c \in Conns : memory'[c] = memory[c] \/ memory'[c] = "live",
           ref' = ref \/ (\E c \in Conns : ref' = [ref EXCEPT ![c] = @ + 1])
                      \/ (\E c \in Conns : ref' = [ref EXCEPT ![c] = 1])
    PROVE  RaceInv'
<1>1. \A c \in Conns : ref'[c] = 0 => ref[c] = 0
  BY DEF IInv, TypeOK
<1> QED
  BY <1>1, RaceKeep DEF LookersSame

\* A thread or a handler goes on.
LEMMA ThreadApart ==
    ASSUME IInv, NEW f \in Fds, NEW p \in ThreadPcs \ {"test"}, NEW E \in SUBSET {"in", "out", "hup"},
           \/ thread' = [thread EXCEPT ![f].pc = p, ![f].events = E]
           \/ thread' = [thread EXCEPT ![f].pc = p],
           thread[f].pc # "test", UNCHANGED handler
    PROVE  LookersSame
<1>1. thread'[f].pc = p /\ \A g \in Fds \ {f} : thread'[g] = thread[g]
  BY ThreadSet
<1>2. ThreadsApart /\ HandlersApart
  BY <1>1 DEF ThreadsApart, HandlersApart
<1> QED
  BY <1>2, Apart

LEMMA HandlerApart ==
    ASSUME IInv, NEW h \in Handlers, NEW p \in HandlerPcs \ {"test", "test_found"}, HandlerGoes(h, p),
           handler[h].pc \notin {"test", "test_found"}, UNCHANGED thread
    PROVE  LookersSame
<1>1. handler'[h].pc = p /\ \A i \in Handlers \ {h} : handler'[i] = handler[i]
  BY HandlerSet
<1>2. ThreadsApart /\ HandlersApart
  BY <1>1 DEF ThreadsApart, HandlersApart
<1> QED
  BY <1>2, Apart

LEMMA RaceOthers ==
    ASSUME IInv, RaceInv,
           \/ \E c \in Conns : PeerSends(c) \/ PeerLeaves(c)
           \/ \E f \in Fds : Accept(f)
           \/ Register \/ AddSocketEvent
           \/ \E f \in Fds : \/ Poll(f) \/ OnClose(f) \/ OnRead(f) \/ OnWrite(f) \/ Reparse(f)
                            \/ Close(f) \/ RemoveBaseSocket(f)
           \/ \E h \in Handlers : \/ RpcFails(h) \/ Find(h) \/ Check(h) \/ SetResponse(h) \/ Arm(h)
    PROVE  RaceInv'
<1>1. CASE (\E c \in Conns : PeerSends(c) \/ PeerLeaves(c)) \/ Register \/ AddSocketEvent
  <2>1. UNCHANGED <<raced, memory, ref, thread, handler>>
    BY <1>1 DEF PeerSends, PeerLeaves, Register, AddSocketEvent, sockVars
  <2>2. LookersSame
    BY <2>1, Apart DEF ThreadsApart, HandlersApart
  <2> QED
    BY <2>1, <2>2, RaceMove
<1>2. ASSUME NEW f \in Fds, Accept(f) PROVE RaceInv'
  <2>1. PICK c \in Conns : memory[c] = "none" /\ c = CHOOSE x \in Conns : memory[x] = "none"
    BY <1>2 DEF Accept
  <2>2. /\ memory' = [memory EXCEPT ![c] = "live"] /\ ref' = [ref EXCEPT ![c] = 1]
        /\ UNCHANGED <<raced, thread, handler>>
    BY <1>2, <2>1 DEF Accept
  <2>3. \A d \in Conns : memory'[d] = memory[d] \/ memory'[d] = "live"
    BY <2>2 DEF IInv, TypeOK
  <2>4. LookersSame
    BY <2>2, Apart DEF ThreadsApart, HandlersApart
  <2> QED
    BY <2>2, <2>3, <2>4, RaceMove
<1>3. ASSUME NEW f \in Fds, OnRead(f) \/ Reparse(f) PROVE RaceInv'
  <2>1. thread[f].pc \in {"events", "reparse"} /\ UNCHANGED sockVars
    BY <1>3 DEF OnRead, Reparse, Handles, ThreadAt
  <2>2. ThreadCloses(f) \/ \E e : ThreadHandled(f, e)
    BY <1>3 DEF OnRead, Reparse, HandleRead
  <2>3. UNCHANGED <<ref, raced, handler>> \/ \E k : Dispatch(f, Conn(f), k)
    BY <1>3 DEF OnRead, Reparse, HandleRead
  <2>4. /\ thread' \in [Fds -> ThreadRecords] /\ Conn(f)' = Conn(f)
        /\ thread'[f].pc \in Serving \cup {"drop"}
        /\ \A g \in Fds \ {f} : thread'[g] = thread[g] /\ Conn(g)' = Conn(g)
    BY <2>1, <2>2, ServingMove DEF Serving
  <2>5. ThreadsApart
    BY <2>1, <2>4 DEF ThreadsApart, Serving
  <2>6. CASE UNCHANGED <<ref, raced, handler>>
    <3>1. LookersSame
      BY <2>5, <2>6, Apart DEF HandlersApart
    <3> QED
      BY <2>1, <2>6, <3>1, RaceMove DEF sockVars
  <2>7. ASSUME NEW k, Dispatch(f, Conn(f), k) PROVE RaceInv'
    <3>1. CASE UNCHANGED <<ref, raced, handler>>
      BY <2>6, <3>1
    <3>2. ASSUME IdleHandlers # {}, Acquire(Conn(f)),
                 handler' = [handler EXCEPT ![CHOOSE h \in IdleHandlers : TRUE] =
                               [IdleHandler EXCEPT !.pc = "run", !.fd = f, !.sock = Conn(f)]]
          PROVE  RaceInv'
      <4>1. PICK h \in Handlers : h = (CHOOSE i \in IdleHandlers : TRUE) /\ handler[h].pc = "idle"
        BY <3>2 DEF IdleHandlers
      <4>2. [IdleHandler EXCEPT !.pc = "run", !.fd = f, !.sock = Conn(f)].pc = "run"
        BY DEF IdleHandler
      <4>3. handler'[h].pc = "run" /\ \A i \in Handlers \ {h} : handler'[i] = handler[i]
        BY <3>2, <4>1, <4>2 DEF IInv, TypeOK
      <4>4. LookersSame
        BY <2>5, <4>1, <4>3, Apart DEF HandlersApart
      <4>5. Conn(f) \in Conns
        BY <2>1 DEF IInv, ThreadInv
      <4> QED
        BY <2>1, <3>2, <4>4, <4>5, RaceMove DEF sockVars, Acquire
    <3> QED
      BY <2>7, <3>1, <3>2 DEF Dispatch
  <2> QED
    BY <2>3, <2>6, <2>7
<1>4. ASSUME NEW f \in Fds, OnClose(f) \/ OnWrite(f) \/ Close(f) \/ RemoveBaseSocket(f)
      PROVE  RaceInv'
  <2>1. UNCHANGED <<raced, memory, ref, handler>> /\ thread[f].pc # "test"
    BY <1>4 DEF OnClose, OnWrite, Close, RemoveBaseSocket, Handles, ThreadAt, sockVars
  <2>2. CASE OnClose(f) \/ OnWrite(f)
    <3>1. thread[f].pc \in Serving
      BY <2>2 DEF OnClose, OnWrite, Handles, ThreadAt, Serving
    <3>2. ThreadCloses(f) \/ (\E e : ThreadHandled(f, e)) \/ ThreadGoes(f, "reparse")
      BY <2>2 DEF OnClose, OnWrite, Written
    <3>3. thread'[f].pc \in Serving \cup {"drop"} /\ \A g \in Fds \ {f} : thread'[g] = thread[g]
      BY <3>1, <3>2, ServingMove
    <3>4. ThreadsApart /\ HandlersApart
      BY <2>1, <3>3 DEF ThreadsApart, HandlersApart, Serving
    <3> QED
      BY <2>1, <3>4, Apart, RaceMove
  <2>3. CASE Close(f) \/ RemoveBaseSocket(f)
    <3>1. \E p \in ThreadPcs \ {"test"} : thread' = [thread EXCEPT ![f].pc = p]
      BY <2>3 DEF Close, RemoveBaseSocket, ThreadGoes, ThreadPcs
    <3>2. LookersSame
      BY <2>1, <3>1, ThreadApart
    <3> QED
      BY <2>1, <3>2, RaceMove
  <2> QED
    BY <1>4, <2>2, <2>3
<1>5. ASSUME NEW f \in Fds, Poll(f) PROVE RaceInv'
  <2>1. thread[f].pc = "wait" /\ Acquire(socket_map[f]) /\ socket_map[f] \in Conns
    BY <1>5 DEF Poll, ThreadAt, IInv, TypeOK
  <2>2. /\ UNCHANGED <<memory, handler>>
        /\ thread' = [thread EXCEPT ![f] = [pc |-> "events", conn |-> socket_map[f],
                                            events |-> Ready(f)]]
    BY <1>5 DEF Poll, sockVars
  <2>3. thread'[f].pc = "events" /\ \A g \in Fds \ {f} : thread'[g] = thread[g]
    BY <2>2 DEF IInv, TypeOK
  <2>4. ThreadsApart /\ HandlersApart
    BY <2>1, <2>2, <2>3 DEF ThreadsApart, HandlersApart
  <2> QED
    BY <2>1, <2>2, <2>4, Apart, RaceMove DEF Acquire
<1>6. ASSUME NEW h \in Handlers, RpcFails(h) \/ Check(h) \/ SetResponse(h) \/ Arm(h)
      PROVE  RaceInv'
  <2>1. UNCHANGED <<raced, memory, ref, thread>> /\ handler[h].pc \notin {"test", "test_found"}
    BY <1>6 DEF RpcFails, Check, SetResponse, Arm, HandlerAt, sockVars
  <2>2. \E p \in HandlerPcs \ {"test", "test_found"} : HandlerGoes(h, p)
    BY <1>6 DEF RpcFails, Check, SetResponse, Arm, HandlerPcs
  <2>3. LookersSame
    BY <2>1, <2>2, HandlerApart
  <2> QED
    BY <2>1, <2>3, RaceMove
<1>7. ASSUME NEW h \in Handlers, Find(h) PROVE RaceInv'
  <2>1. handler[h].pc = "run" /\ handler[h].fd \in Fds /\ UNCHANGED <<memory, thread>>
    BY <1>7 DEF Find, HandlerAt, sockVars, IInv, TypeOK
  <2>2. CASE HandlerGoes(h, "drop") /\ UNCHANGED refVars
    <3>1. LookersSame
      BY <2>1, <2>2, HandlerApart DEF HandlerPcs
    <3> QED
      BY <2>1, <2>2, <3>1, RaceMove
  <2>3. ASSUME NEW b \in Conns, Acquire(b),
               handler' = [handler EXCEPT ![h].pc = "found", ![h].found = b]
        PROVE  RaceInv'
    <3>1. handler'[h].pc = "found" /\ \A i \in Handlers \ {h} : handler'[i] = handler[i]
      BY <2>3 DEF IInv, TypeOK
    <3>2. ThreadsApart /\ HandlersApart
      BY <2>1, <3>1 DEF ThreadsApart, HandlersApart
    <3> QED
      BY <2>1, <2>3, <3>2, Apart, RaceMove DEF Acquire
  <2> QED
    BY <1>7, <2>1, <2>2, <2>3 DEF Find, IInv, TypeOK
<1> QED
  BY <1>1, <1>2, <1>3, <1>4, <1>5, <1>6, <1>7

LEMMA RaceStep == ASSUME IInv, RaceInv, [Next]_vars PROVE RaceInv'
<1>1. CASE UNCHANGED vars
  <2>1. /\ UNCHANGED raced /\ (\A c \in Conns : Lookers(c)' = Lookers(c))
        /\ \A c \in Conns : memory'[c] = memory[c] /\ ref'[c] = ref[c]
    BY <1>1 DEF vars, sockVars, Lookers
  <2> QED
    BY <2>1, RaceKeep
<1>2. ASSUME NEW f \in Fds, CloseFd(f) PROVE RaceInv'
  <2>1. PICK c \in Conns : c = Conn(f) /\ thread[f].pc = "close_fd"
    BY <1>2 DEF CloseFd, ThreadAt, IInv, ThreadInv
  <2>2. Release(c) /\ ThreadGoes(f, "drop") /\ UNCHANGED <<memory, handler>>
    BY <1>2, <2>1 DEF CloseFd, sockVars
  <2>3. f \in Closers(c) /\ f \in Loops(c)
    BY <2>1 DEF Closers, Loops, Closing
  <2>4. ref[c] > 1 /\ ref[c] = Holders(c) /\ ref[c] \in Nat
    BY <2>3, HeldLive, Weigh, HoldersParts DEF Born
  <2>5. /\ UNCHANGED raced /\ ref'[c] = ref[c] - 1
        /\ \A d \in Conns \ {c} : ref'[d] = ref[d]
    BY <2>2, <2>4 DEF Release, IInv, TypeOK
  <2>6. LookersSame
    BY <2>1, <2>2, ThreadApart DEF ThreadGoes, ThreadPcs
  <2> QED
    BY <2>2, <2>4, <2>5, <2>6, RaceKeep DEF LookersSame
<1>3. ASSUME NEW f \in Fds, Drop(f) PROVE RaceInv'
  <2>1. PICK c \in Conns : c = Conn(f) /\ thread[f].pc = "drop"
    BY <1>3 DEF Drop, ThreadAt, IInv, ThreadInv
  <2>2. Release(c) /\ ThreadGoes(f, "test") /\ UNCHANGED <<memory, handler>>
    BY <1>3, <2>1 DEF Drop, sockVars
  <2>3. memory[c] = "live"
    BY <2>1, HeldLive DEF Loops
  <2>4. thread'[f].pc = "test" /\ thread'[f].conn = c /\ \A g \in Fds \ {f} : thread'[g] = thread[g]
    BY <2>1, <2>2, ThreadSet DEF ThreadGoes, ThreadPcs, Conn
  <2>5. Lookers(c)' = Lookers(c) \cup {<<"thread", f>>}
    BY <2>2, <2>4 DEF Lookers
  <2>6. \A d \in Conns \ {c} : Lookers(d)' = Lookers(d)
    BY <2>1, <2>2, <2>4 DEF Lookers
  <2> QED
    BY <2>2, <2>3, <2>5, <2>6, RaceRelease
<1>4. ASSUME NEW f \in Fds, Test(f) PROVE RaceInv'
  <2>1. PICK c \in Conns : c = Conn(f) /\ thread[f].pc = "test" /\ memory[c] # "none"
    BY <1>4 DEF Test, ThreadAt, IInv, ThreadInv, StateInv
  <2>2. /\ DeleteIfZero(c) /\ UNCHANGED <<ref, raced, handler>>
        /\ thread' = [thread EXCEPT ![f] = Waiting]
    BY <1>4, <2>1 DEF Test
  <2>3. thread'[f].pc = "wait" /\ \A g \in Fds \ {f} : thread'[g] = thread[g]
    BY <2>2 DEF Waiting, IInv, TypeOK
  <2>4. <<"thread", f>> \in Lookers(c) /\ Lookers(c)' = Lookers(c) \ {<<"thread", f>>}
    BY <2>1, <2>2, <2>3 DEF Lookers, Conn
  <2>5. \A d \in Conns \ {c} : Lookers(d)' = Lookers(d)
    BY <2>1, <2>2, <2>3 DEF Lookers, Conn
  <2> QED
    BY <2>1, <2>2, <2>4, <2>5, RaceLook
<1>5. ASSUME NEW h \in Handlers, DropFound(h) PROVE RaceInv'
  <2>1. PICK c \in Conns : c = handler[h].found /\ handler[h].pc = "drop_found"
    BY <1>5 DEF DropFound, HandlerAt, IInv, HandlerInv, Finding
  <2>2. Release(c) /\ HandlerGoes(h, "test_found") /\ UNCHANGED <<memory, thread>>
    BY <1>5, <2>1 DEF DropFound, sockVars
  <2>3. memory[c] = "live"
    BY <2>1, HeldLive DEF Finders, Runners
  <2>4. /\ handler'[h].pc = "test_found" /\ handler'[h].found = c
        /\ \A i \in Handlers \ {h} : handler'[i] = handler[i]
    BY <2>1, <2>2, HandlerSet DEF HandlerPcs
  <2>5. Lookers(c)' = Lookers(c) \cup {<<"found", h>>}
    BY <2>1, <2>2, <2>4 DEF Lookers
  <2>6. \A d \in Conns \ {c} : Lookers(d)' = Lookers(d)
    BY <2>1, <2>2, <2>4 DEF Lookers
  <2> QED
    BY <2>2, <2>3, <2>5, <2>6, RaceRelease
<1>6. ASSUME NEW h \in Handlers, TestFound(h) PROVE RaceInv'
  <2>1. PICK c \in Conns : c = handler[h].found /\ handler[h].pc = "test_found" /\ memory[c] # "none"
    BY <1>6 DEF TestFound, HandlerAt, IInv, HandlerInv, StateInv, Finding
  <2>2. /\ DeleteIfZero(c) /\ UNCHANGED <<ref, raced, thread>>
        /\ handler' = [handler EXCEPT ![h].pc = "drop", ![h].found = None]
    BY <1>6, <2>1 DEF TestFound
  <2>3. handler'[h].pc = "drop" /\ \A i \in Handlers \ {h} : handler'[i] = handler[i]
    BY <2>2 DEF IdleHandler, IInv, TypeOK
  <2>4. <<"found", h>> \in Lookers(c) /\ Lookers(c)' = Lookers(c) \ {<<"found", h>>}
    <3> DEFINE F == {i \in Handlers : handler[i].found = c /\ handler[i].pc = "test_found"}
               S == {i \in Handlers : handler[i].sock = c /\ handler[i].pc = "test"}
               T == {g \in Fds : thread[g].conn = c /\ thread[g].pc = "test"}
    <3>1. F' = F \ {h} /\ h \in F
      BY <2>1, <2>3
    <3>2. S' = S /\ T' = T
      BY <2>1, <2>2, <2>3
    <3>3. /\ Lookers(c) = {<<"thread", f>> : f \in T} \cup {<<"sock", i>> : i \in S}
                            \cup {<<"found", i>> : i \in F}
          /\ Lookers(c)' = {<<"thread", f>> : f \in T'} \cup {<<"sock", i>> : i \in S'}
                             \cup {<<"found", i>> : i \in F'}
      BY DEF Lookers
    <3> HIDE DEF F, S, T
    <3> QED
      BY <3>1, <3>2, <3>3
  <2>5. \A d \in Conns \ {c} : Lookers(d)' = Lookers(d)
    <3> SUFFICES ASSUME NEW d \in Conns \ {c} PROVE Lookers(d)' = Lookers(d)
      OBVIOUS
    <3>1. {i \in Handlers : handler'[i].found = d /\ handler'[i].pc = "test_found"}
            = {i \in Handlers : handler[i].found = d /\ handler[i].pc = "test_found"}
      BY <2>1, <2>3
    <3>2. {i \in Handlers : handler'[i].sock = d /\ handler'[i].pc = "test"}
            = {i \in Handlers : handler[i].sock = d /\ handler[i].pc = "test"}
      BY <2>1, <2>3
    <3> QED
      BY <2>2, <3>1, <3>2 DEF Lookers
  <2> QED
    BY <2>1, <2>2, <2>4, <2>5, RaceLook
<1>7. ASSUME NEW h \in Handlers, DropSock(h) PROVE RaceInv'
  <2>1. PICK c \in Conns : c = handler[h].sock /\ handler[h].pc = "drop"
    BY <1>7 DEF DropSock, HandlerAt, IInv, HandlerInv, Finding
  <2>2. Release(c) /\ HandlerGoes(h, "test") /\ UNCHANGED <<memory, thread>>
    BY <1>7, <2>1 DEF DropSock, sockVars
  <2>3. memory[c] = "live"
    BY <2>1, HeldLive DEF Finders, Runners
  <2>4. /\ handler'[h].pc = "test" /\ handler'[h].sock = c
        /\ \A i \in Handlers \ {h} : handler'[i] = handler[i]
    BY <2>1, <2>2, HandlerSet DEF HandlerPcs
  <2>5. Lookers(c)' = Lookers(c) \cup {<<"sock", h>>}
    BY <2>1, <2>2, <2>4 DEF Lookers
  <2>6. \A d \in Conns \ {c} : Lookers(d)' = Lookers(d)
    BY <2>1, <2>2, <2>4 DEF Lookers
  <2> QED
    BY <2>2, <2>3, <2>5, <2>6, RaceRelease
<1>8. ASSUME NEW h \in Handlers, TestSock(h) PROVE RaceInv'
  <2>1. PICK c \in Conns : c = handler[h].sock /\ handler[h].pc = "test" /\ memory[c] # "none"
    BY <1>8 DEF TestSock, HandlerAt, IInv, HandlerInv, StateInv, Finding
  <2>2. /\ DeleteIfZero(c) /\ UNCHANGED <<ref, raced, thread>>
        /\ handler' = [handler EXCEPT ![h] = IdleHandler]
    BY <1>8, <2>1 DEF TestSock
  <2>3. handler'[h].pc = "idle" /\ \A i \in Handlers \ {h} : handler'[i] = handler[i]
    BY <2>2 DEF IdleHandler, IInv, TypeOK
  <2>4. <<"sock", h>> \in Lookers(c) /\ Lookers(c)' = Lookers(c) \ {<<"sock", h>>}
    BY <2>1, <2>2, <2>3 DEF Lookers
  <2>5. \A d \in Conns \ {c} : Lookers(d)' = Lookers(d)
    BY <2>1, <2>2, <2>3 DEF Lookers
  <2> QED
    BY <2>1, <2>2, <2>4, <2>5, RaceLook
<1> QED
  BY <1>1, <1>2, <1>3, <1>4, <1>5, <1>6, <1>7, <1>8, RaceOthers DEF Next, ThreadNext, HandlerNext

\* The reference count of a socket is the number of its references.  It is not deleted
\* while somebody holds one, it is deleted when nobody does and those who let go have
\* looked at the count, and only where two let go at a time can it be deleted twice.
THEOREM ReferencesCounted == Spec => []RefExact
<1>1. Init => RaceInv
  BY DEF Init, RaceInv, Lookers, Waiting, IdleHandler
<1>2. IInv /\ RaceInv => RefExact
  <2> SUFFICES ASSUME IInv, RaceInv, NEW c \in Conns
               PROVE  /\ ref[c] = Holders(c)
                      /\ Holders(c) > 0 => memory[c] = "live"
                      /\ memory[c] = "live" => Holders(c) > 0 \/ Lookers(c) # {}
                      /\ memory[c] = "freed_twice" => c \in raced
    BY DEF RefExact
  <2>1. LetGo(c) => \E x : x \in Lookers(c)
    <3>1. ASSUME NEW f \in Fds, thread[f].conn = c, thread[f].pc = "test"
          PROVE  <<"thread", f>> \in Lookers(c)
      BY <3>1 DEF Lookers
    <3>2. ASSUME NEW h \in Handlers, handler[h].sock = c, handler[h].pc = "test"
          PROVE  <<"sock", h>> \in Lookers(c)
      BY <3>2 DEF Lookers
    <3>3. ASSUME NEW h \in Handlers, handler[h].found = c, handler[h].pc = "test_found"
          PROVE  <<"found", h>> \in Lookers(c)
      BY <3>3 DEF Lookers
    <3> QED
      BY <3>1, <3>2, <3>3 DEF LetGo, Conn, ThreadAt, HandlerAt
  <2> QED
    BY <2>1 DEF IInv, RefCounted, RaceInv
<1>3. IInv /\ RaceInv /\ [Next]_vars => RaceInv'
  BY RaceStep
<1> QED
  BY <1>1, <1>2, <1>3, Inductive, PTL DEF Spec
================================================================================
