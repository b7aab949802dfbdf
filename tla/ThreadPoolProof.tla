--------------------------- MODULE ThreadPoolProof ---------------------------
(***************************************************************************)
(* The thread pool, for any threads and tasks: nthreads counts the threads *)
(* that run, every thread that exits is joined once, the pool's memory     *)
(* outlives its users, and nothing scheduled is left behind.               *)
(***************************************************************************)
EXTENDS ThreadPool, FiniteSetTheorems, TLAPS

Locked == Terminating \ {"term_lock", "term_stuck"}
Running == {w \in Workers \ detached : pc[w] \notin {"new", "exit_join", "done"}}
Exited == {w \in Workers \ detached : pc[w] \in {"exit_join", "done"}}
Joiners == {w \in Workers : pc[w] = "exit_join"}
JoinedAll == memory # "live" \/ \E a \in Actors : pc[a] = "drain"

PcInv ==
    /\ pc[Owner] \in {"create", "client", "gone"} \cup Stuck \cup Terminating
    /\ \A w \in Workers : pc[w] \in WorkerPcs \cup Terminating
    /\ pc[Owner] = "create" =>
          queue = <<>> /\ ~nonblock /\ memory = "live" /\ \A w \in Workers : pc[w] \in {"new", "loop", "get"}

\* One actor destroys the pool, and only when the owner has no more to do with it.
TermInv ==
    /\ \A a, b \in Actors : pc[a] \in Terminating /\ pc[b] \in Terminating => a = b
    /\ \A w \in Workers : pc[w] \in Terminating => pc[Owner] = "gone"
    /\ pc[Owner] \in {"create", "client"} => ~terminate
    /\ \A a \in Actors : pc[a] \in {"term_lock", "term_stuck"} => ~terminate
    /\ \A a \in Actors : pc[a] \in Locked => terminate /\ memory = "live"
    /\ memory # "live" => terminate

\* A task that destroys the pool is the one detached thread, until it has ended.
DetachInv ==
    /\ \A w \in detached : IF memory = "live" THEN pc[w] \in Locked
                           ELSE pc[w] = (IF memory = "disposed" THEN "after" ELSE "done")
    /\ \A w \in Workers : pc[w] \in Locked => w \in detached
    /\ \A v, w \in detached : v = w
    /\ memory = "disposed" => detached # {}

CountInv == IsFiniteSet(Running) /\ CountExact
ZeroInv == memory # "live" \/ (\E a \in Actors : pc[a] \in {"term_join", "drain"}) => nthreads = 0

\* Every thread that has exited is joined, or its id is in one place: the pool's
\* tid, or the joinee of a thread that exited after it.  No joiners wait for each
\* other in a ring: of any, one (the last to exit) is waited for by none of them.
JoinInv ==
    /\ tid # NoThread => tid \in Exited
    /\ \A w \in Joiners : joinee[w] # NoThread => joinee[w] \in Exited
    /\ joined \subseteq {w \in Exited : pc[w] = "done"}
    /\ \A w \in Exited : w \in joined \/ tid = w \/ \E v \in Joiners : joinee[v] = w
    /\ \A S \in SUBSET Joiners : S # {} => \E v \in S : \A u \in S : joinee[u] # v
    /\ JoinedAll => Joiners = {} /\ Exited \subseteq joined

\* A task that is queued is in the queue, one that runs is with a thread.
FateInv ==
    /\ \A k \in Tasks : fate[k] = "queued" => \E i \in 1..Len(queue) : queue[i] = k
    /\ \A k \in Tasks : fate[k] = "running" =>
          \E w \in Workers : task[w] = k /\ pc[w] \in Terminating \cup Stuck \cup {"task"}
    /\ memory # "live" => queue = <<>> /\ \A k \in Tasks : fate[k] # "running"

IInv ==
    /\ TypeOK /\ PcInv /\ TermInv /\ DetachInv /\ CountInv /\ ZeroInv
    /\ JoinInv /\ JoinChain /\ FateInv

-----------------------------------------------------------------------------
USE PoolAssumption

(* Counting the threads that run.                                          *)

LEMMA CountSame == ASSUME CountInv, UNCHANGED nthreads, Running' = Running PROVE CountInv'
BY DEF CountInv, CountExact, Running

LEMMA CountUp ==
    ASSUME CountInv, NEW w, w \notin Running, Running' = Running \cup {w}, nthreads' = nthreads + 1
    PROVE  CountInv'
BY FS_AddElement DEF CountInv, CountExact, Running

LEMMA CountDown ==
    ASSUME CountInv, NEW w \in Running, Running' = Running \ {w}, nthreads' = nthreads - 1
    PROVE  CountInv' /\ nthreads' \in Nat
<1>1. IsFiniteSet(Running') /\ Cardinality(Running') = Cardinality(Running) - 1
  BY FS_RemoveElement DEF CountInv
<1>2. nthreads = Cardinality(Running)
  BY DEF CountInv, CountExact, Running
<1>3. nthreads' = Cardinality(Running')
  BY <1>1, <1>2
<1>4. nthreads' \in Nat
  BY <1>1, <1>3, FS_CardinalityType
<1> QED
  BY <1>1, <1>3, <1>4 DEF CountInv, CountExact, Running

LEMMA CountZero == ASSUME CountInv PROVE nthreads = 0 <=> Running = {}
<1>1. nthreads = Cardinality(Running)
  BY DEF CountInv, CountExact, Running
<1> QED
  BY <1>1, FS_EmptySet DEF CountInv

\* A thread that is about its own business keeps the pool alive.
LEMMA RunnerLive ==
    ASSUME IInv, NEW w \in Workers, pc[w] \notin Locked \cup {"new", "exit_join", "done", "after"}
    PROVE  /\ w \in Running /\ nthreads # 0 /\ memory = "live"
           /\ \A a \in Actors : pc[a] \notin {"term_join", "drain"}
<1>1. w \in Running
  BY DEF IInv, DetachInv, Running
<1>2. nthreads # 0
  BY <1>1, CountZero DEF IInv
<1> QED
  BY <1>1, <1>2 DEF IInv, ZeroInv

\* So does one that may call it.
LEMMA CallerLive ==
    ASSUME IInv, NEW a \in Actors, MayCall(a)
    PROVE  /\ memory = "live" /\ pc[Owner] # "create"
           /\ \A b \in Actors : pc[b] \notin {"term_join", "drain"}
           /\ a \in Workers => a \in Running
<1>1. CASE a = Owner
  BY <1>1 DEF IInv, PcInv, TermInv, MayCall, Actors, Terminating, Stuck
<1>2. CASE a \in Workers
  BY <1>2, RunnerLive DEF IInv, PcInv, MayCall, Locked, Terminating, Stuck
<1> QED
  BY <1>1, <1>2 DEF Actors

-----------------------------------------------------------------------------
(* What most steps leave alone.                                            *)

LEMMA JoinSame ==
    ASSUME JoinInv, JoinChain, UNCHANGED <<tid, joinee, joined, detached, memory>>,
           \A w \in Workers : /\ pc'[w] = "exit_join" <=> pc[w] = "exit_join"
                              /\ pc'[w] = "done" <=> pc[w] = "done",
           (\E a \in Actors : pc'[a] = "drain") <=> (\E a \in Actors : pc[a] = "drain")
    PROVE  JoinInv' /\ JoinChain'
<1>1. Joiners' = Joiners /\ Exited' = Exited /\ JoinedAll' = JoinedAll
  BY DEF Joiners, Exited, JoinedAll
<1>2. {w \in Exited : pc'[w] = "done"} = {w \in Exited : pc[w] = "done"}
  BY DEF Exited
<1>3. JoinInv'
  BY <1>1, <1>2 DEF JoinInv
<1>4. JoinChain'
  BY DEF JoinChain
<1> QED
  BY <1>3, <1>4

\* An actor moves between places of no account.
Odd == {"new", "exit_join", "done", "drain"}

LEMMA QuietMove ==
    ASSUME IInv, NEW a \in Actors, NEW x, pc' = [pc EXCEPT ![a] = x], pc[a] \notin Odd, x \notin Odd,
           UNCHANGED <<nthreads, tid, memory, threadVars>>
    PROVE  CountInv' /\ JoinInv' /\ JoinChain'
<1>1. pc \in [Actors -> Pcs] /\ Workers \subseteq Actors
  BY DEF IInv, TypeOK, Actors
<1>2. Running' = Running
  BY <1>1 DEF Running, Odd, threadVars
<1>3. \A b \in Actors : \A y \in Odd : pc'[b] = y <=> pc[b] = y
  BY <1>1 DEF Odd
<1>4. /\ \A w \in Workers : /\ pc'[w] = "exit_join" <=> pc[w] = "exit_join"
                            /\ pc'[w] = "done" <=> pc[w] = "done"
      /\ (\E b \in Actors : pc'[b] = "drain") <=> (\E b \in Actors : pc[b] = "drain")
  BY <1>1, <1>3 DEF Odd
<1>5. JoinInv' /\ JoinChain'
  BY <1>4, JoinSame DEF IInv, threadVars
<1> QED
  BY <1>2, <1>5, CountSame DEF IInv

LEMMA QuietCalls ==
    ASSUME IInv, UNCHANGED <<pc, poolVars, threadVars>>
    PROVE  CountInv' /\ JoinInv' /\ JoinChain' /\ TermInv' /\ DetachInv' /\ ZeroInv'
<1>1. Running' = Running /\ JoinInv' /\ JoinChain'
  BY JoinSame DEF IInv, poolVars, threadVars, Running
<1>2. CountInv'
  BY <1>1, CountSame DEF IInv, poolVars
<1>3. TermInv' /\ DetachInv' /\ ZeroInv'
  BY DEF IInv, TermInv, DetachInv, ZeroInv, poolVars, threadVars
<1> QED
  BY <1>1, <1>2, <1>3

LEMMA FetchedType == ASSUME TypeOK, Dequeue PROVE fetched' \in Nat
<1>1. Len(queue) \in Nat \ {0}
  BY DEF TypeOK, Dequeue
<1> QED
  BY <1>1 DEF TypeOK, Dequeue

LEMMA InitInv == Init => IInv
<1> SUFFICES ASSUME Init PROVE IInv
  OBVIOUS
<1>1. TypeOK
  <2>1. pc \in [Actors -> Pcs]
    BY DEF Init, Pcs, WorkerPcs, Stuck
  <2>2. fate \in [Tasks -> Fates]
    BY DEF Init, Fates
  <2>3. joinee \in [Workers -> Workers \cup {NoThread}] /\ task \in [Workers -> Tasks \cup {ExitTask}]
    BY DEF Init
  <2>4. queue \in Seq(Tasks \cup {ExitTask}) /\ tid \in Workers \cup {NoThread} /\ nthreads \in Nat
    BY DEF Init
  <2> QED
    BY <2>1, <2>2, <2>3, <2>4 DEF Init, TypeOK
<1>2. PcInv
  BY DEF Init, PcInv, WorkerPcs, Actors, Stuck
<1>7. TermInv /\ DetachInv
  BY DEF Init, TermInv, DetachInv, Terminating, Locked, Actors
<1>3. Running = {} /\ Joiners = {} /\ Exited = {} /\ ~JoinedAll
  BY DEF Init, Running, Joiners, Exited, JoinedAll, Actors
<1>4. CountInv /\ ZeroInv
  <2>1. IsFiniteSet(Running) /\ Cardinality(Running) = 0
    BY <1>3, FS_EmptySet
  <2> QED
    BY <2>1 DEF Init, CountInv, CountExact, Running, ZeroInv, Actors
<1>5. JoinInv /\ JoinChain
  BY <1>3 DEF Init, JoinInv, JoinChain, Actors
<1>6. FateInv
  BY DEF Init, FateInv, Stuck
<1> QED
  BY <1>1, <1>2, <1>4, <1>5, <1>6, <1>7 DEF IInv

\* The actor that ends the pool is alone in it.
LEMMA Destroyer ==
    ASSUME IInv, NEW a \in Actors, pc[a] \in Terminating
    PROVE  /\ memory = "live" /\ pc[Owner] \notin {"create", "client"}
           /\ (a \in Workers => pc[Owner] = "gone") /\ (a \notin Workers => a = Owner)
           /\ \A b \in Actors \ {a} : pc[b] \notin Terminating
           /\ \A w \in detached : w = a /\ pc[a] # "term_lock"
<1> USE DEF IInv
<1>1. \A b \in Actors \ {a} : pc[b] \notin Terminating
  BY DEF TermInv
<1>2. memory = "live"
  <2>1. pc[a] \in Locked \/ pc[a] \in {"term_lock", "term_stuck"}
    BY DEF Locked
  <2> QED
    BY <2>1 DEF TermInv
<1>3. pc[Owner] \notin {"create", "client"} /\ (a \in Workers => pc[Owner] = "gone")
  BY DEF TermInv, Actors, Terminating
<1>4. \A w \in detached : w = a /\ pc[a] # "term_lock"
  <2> SUFFICES ASSUME NEW w \in detached PROVE w = a /\ pc[a] # "term_lock"
    OBVIOUS
  <2>1. pc[w] \in Locked /\ w \in Actors
    BY <1>2 DEF DetachInv, TypeOK, Actors
  <2>2. pc[w] \in Terminating /\ pc[w] # "term_lock"
    BY <2>1 DEF Locked
  <2> QED
    BY <1>1, <2>1, <2>2
<1> QED
  BY <1>1, <1>2, <1>3, <1>4 DEF Actors

-----------------------------------------------------------------------------
(* The calls.                                                              *)

LEMMA CreateThreadStep == ASSUME IInv, CreateThread PROVE IInv'
<1> USE DEF IInv
<1>1. PICK w \in Workers, x \in {"create", "client"} :
        pc[w] = "new" /\ pc[Owner] = "create" /\ pc' = [pc EXCEPT ![w] = "loop", ![Owner] = x]
  BY DEF CreateThread
<1>2. /\ pc \in [Actors -> Pcs] /\ w \in Actors /\ Owner \in Actors /\ w # Owner
      /\ nthreads' = nthreads + 1
      /\ UNCHANGED <<queue, nonblock, fetched, terminate, tid, memory, task, fate, threadVars>>
  BY DEF CreateThread, TypeOK, Actors
<1>3. /\ pc'[w] = "loop" /\ pc'[Owner] = x /\ \A a \in Actors \ {w, Owner} : pc'[a] = pc[a]
      /\ pc' \in [Actors -> Pcs]
  BY <1>1, <1>2 DEF Pcs, WorkerPcs, Stuck
<1>4. /\ memory = "live" /\ \A a \in Actors : pc[a] \notin Terminating /\ pc'[a] \notin Terminating
      /\ \A v \in Workers : pc[v] \in {"new", "loop", "get"} /\ pc'[v] \in {"new", "loop", "get"}
      /\ detached = {}
  BY <1>1, <1>2, <1>3 DEF PcInv, DetachInv, TypeOK, Actors, Terminating, Locked, Stuck
<1>5. TypeOK' /\ PcInv'
  <2>1. TypeOK'
    BY <1>2, <1>3 DEF TypeOK, threadVars
  <2>2. queue = <<>> /\ ~nonblock /\ \A v \in Workers : pc'[v] \in WorkerPcs
    BY <1>1, <1>4 DEF PcInv, WorkerPcs, Stuck
  <2> QED
    BY <1>2, <1>3, <1>4, <2>1, <2>2 DEF PcInv, Stuck
<1>6. TermInv' /\ DetachInv'
  BY <1>1, <1>2, <1>3, <1>4 DEF TermInv, DetachInv, threadVars, Locked, Terminating
<1>7. CountInv'
  <2>1. w \notin Running /\ Running' = Running \cup {w}
    BY <1>1, <1>2, <1>3, <1>4 DEF Running, threadVars, Actors
  <2> QED
    BY <1>2, <2>1, CountUp
<1>8. JoinInv' /\ JoinChain'
  <2>1. /\ \A v \in Workers : /\ pc'[v] = "exit_join" <=> pc[v] = "exit_join"
                              /\ pc'[v] = "done" <=> pc[v] = "done"
        /\ (\E b \in Actors : pc'[b] = "drain") <=> (\E b \in Actors : pc[b] = "drain")
    BY <1>4 DEF Terminating
  <2> QED
    BY <1>2, <2>1, JoinSame DEF threadVars
<1>9. ZeroInv' /\ FateInv'
  BY <1>2, <1>3, <1>4 DEF ZeroInv, FateInv, Terminating, Stuck
<1> QED
  BY <1>5, <1>6, <1>7, <1>8, <1>9

LEMMA CreateFailsStep == ASSUME IInv, CreateFails PROVE IInv'
<1> USE DEF IInv
<1>1. /\ pc[Owner] = "create" /\ pc' = [pc EXCEPT ![Owner] = "term_lock"] /\ Owner \in Actors
      /\ UNCHANGED <<queue, nonblock, fetched, poolVars, task, fate, threadVars>>
      /\ pc \in [Actors -> Pcs]
  BY DEF CreateFails, Actors, TypeOK
<1>2. CountInv' /\ JoinInv' /\ JoinChain'
  BY <1>1, QuietMove DEF Odd, poolVars
<1>3. \A w \in Workers : w \in Actors /\ pc'[w] = pc[w] /\ pc[w] \in {"new", "loop", "get"}
  BY <1>1 DEF Actors, PcInv, Stuck
<1>4. TypeOK' /\ PcInv'
  BY <1>1, <1>3 DEF TypeOK, PcInv, threadVars, poolVars, Pcs, Terminating, Stuck
<1>5. TermInv' /\ DetachInv'
  BY <1>1, <1>3 DEF TermInv, DetachInv, PcInv, TypeOK, poolVars, threadVars, Terminating, Locked, Actors, Stuck
<1>6. ZeroInv' /\ FateInv'
  BY <1>1, <1>3 DEF ZeroInv, FateInv, poolVars, Terminating, PcInv, Actors, Stuck
<1> QED
  BY <1>2, <1>4, <1>5, <1>6

LEMMA ScheduleStep == ASSUME IInv, NEW a \in Actors, Schedule(a) PROVE IInv'
<1> USE DEF IInv
<1>1. PICK k \in Tasks : /\ fate[k] = "new" /\ queue' = Append(queue, k)
                         /\ fate' = [fate EXCEPT ![k] = "queued"]
  BY DEF Schedule
<1>2. /\ MayCall(a) /\ UNCHANGED <<nonblock, fetched, poolVars, pc, task, threadVars>>
      /\ memory = "live" /\ pc[Owner] # "create"
  BY CallerLive DEF Schedule
<1>3. CountInv' /\ JoinInv' /\ JoinChain' /\ TermInv' /\ DetachInv' /\ ZeroInv'
  BY <1>2, QuietCalls
<1>4. TypeOK' /\ PcInv'
  BY <1>1, <1>2 DEF TypeOK, PcInv, Fates, poolVars, threadVars, Stuck
<1>5. FateInv'
  <2>1. /\ queue \in Seq(Tasks \cup {ExitTask}) /\ Len(queue') = Len(queue) + 1
        /\ queue'[Len(queue')] = k /\ Len(queue') \in 1..Len(queue')
        /\ \A i \in 1..Len(queue) : i \in 1..Len(queue') /\ queue'[i] = queue[i]
    BY <1>1 DEF TypeOK
  <2>2. \A j \in Tasks : fate'[j] = IF j = k THEN "queued" ELSE fate[j]
    BY <1>1 DEF TypeOK
  <2>3. \A j \in Tasks : fate'[j] = "queued" => \E i \in 1..Len(queue') : queue'[i] = j
    BY <2>1, <2>2 DEF FateInv, Stuck
  <2> QED
    BY <1>2, <2>2, <2>3 DEF FateInv, poolVars, Stuck
<1> QED
  BY <1>3, <1>4, <1>5

LEMMA IncreaseStep == ASSUME IInv, NEW a \in Actors, Increase(a) PROVE IInv'
<1> USE DEF IInv
<1>1. PICK w \in Workers : pc[w] = "new" /\ pc' = [pc EXCEPT ![w] = "loop"]
  BY DEF Increase
<1>2. /\ w \in Actors /\ w # Owner /\ Owner \in Actors /\ pc \in [Actors -> Pcs]
      /\ nthreads' = nthreads + 1 /\ memory = "live" /\ pc[Owner] # "create"
      /\ \A b \in Actors : pc[b] \notin {"term_join", "drain"}
      /\ UNCHANGED <<queue, nonblock, fetched, terminate, tid, memory, task, fate, threadVars>>
  BY CallerLive DEF Increase, Actors, TypeOK
<1>3. pc'[w] = "loop" /\ (\A b \in Actors \ {w} : pc'[b] = pc[b]) /\ pc' \in [Actors -> Pcs]
  BY <1>1, <1>2 DEF Pcs, WorkerPcs, Stuck
<1>4. TypeOK' /\ PcInv'
  BY <1>2, <1>3 DEF TypeOK, PcInv, threadVars, WorkerPcs, Actors, Stuck
<1>5. TermInv' /\ DetachInv'
  BY <1>1, <1>2, <1>3 DEF TermInv, DetachInv, TypeOK, threadVars, Terminating, Locked, Actors
<1>6. CountInv'
  <2>1. w \notin detached
    BY <1>1, <1>2 DEF DetachInv, Locked, Terminating
  <2>2. w \notin Running /\ Running' = Running \cup {w}
    BY <1>1, <1>2, <1>3, <2>1 DEF Running, threadVars, Actors
  <2> QED
    BY <1>2, <2>2, CountUp
<1>7. JoinInv' /\ JoinChain'
  <2>1. /\ \A v \in Workers : /\ pc'[v] = "exit_join" <=> pc[v] = "exit_join"
                              /\ pc'[v] = "done" <=> pc[v] = "done"
        /\ (\E b \in Actors : pc'[b] = "drain") <=> (\E b \in Actors : pc[b] = "drain")
    BY <1>1, <1>2, <1>3 DEF Actors
  <2> QED
    BY <1>2, <2>1, JoinSame DEF threadVars
<1>8. ZeroInv' /\ FateInv'
  BY <1>1, <1>2, <1>3 DEF ZeroInv, FateInv, Terminating, Actors, Stuck
<1> QED
  BY <1>4, <1>5, <1>6, <1>7, <1>8

LEMMA DecreaseStep == ASSUME IInv, NEW a \in Actors, Decrease(a) PROVE IInv'
<1> USE DEF IInv
<1>1. /\ queue' = <<ExitTask>> \o queue /\ UNCHANGED <<nonblock, poolVars, pc, task, fate, threadVars>>
      /\ fetched' = (IF fetched > 0 THEN fetched + 1 ELSE 0) /\ memory = "live" /\ pc[Owner] # "create"
  BY CallerLive DEF Decrease
<1>2. CountInv' /\ JoinInv' /\ JoinChain' /\ TermInv' /\ DetachInv' /\ ZeroInv'
  BY <1>1, QuietCalls
<1>3. TypeOK' /\ PcInv'
  BY <1>1 DEF TypeOK, PcInv, poolVars, threadVars, Stuck
<1>4. FateInv'
  <2>1. /\ queue \in Seq(Tasks \cup {ExitTask}) /\ Len(queue') = Len(queue) + 1
        /\ \A i \in 1..Len(queue) : i + 1 \in 1..Len(queue') /\ queue'[i + 1] = queue[i]
    BY <1>1 DEF TypeOK
  <2> QED
    BY <1>1, <2>1 DEF FateInv, poolVars, Stuck
<1> QED
  BY <1>2, <1>3, <1>4

\* A caller, or the destroyer before it has begun, waits for ever.
LEMMA StuckStep == ASSUME IInv, NEW a \in Actors, DecreaseJams(a) \/ Block(a) PROVE IInv'
<1> USE DEF IInv
<1>1. /\ pc \in [Actors -> Pcs] /\ Owner \in Actors /\ Workers \subseteq Actors
      /\ nonblock' \in BOOLEAN /\ UNCHANGED <<queue, fetched, poolVars, task, fate, threadVars>>
  BY DEF DecreaseJams, Block, TypeOK, Actors
<1>2. CASE MayCall(a) /\ \E x \in Stuck : pc' = [pc EXCEPT ![a] = x]
  <2>1. PICK x \in Stuck : pc' = [pc EXCEPT ![a] = x]
    BY <1>2
  <2>2. /\ pc[a] \in {"client", "task"} /\ memory = "live" /\ pc[Owner] # "create"
        /\ (pc[a] = "client" => a = Owner) /\ (a = Owner => pc[a] = "client")
    BY <1>2, CallerLive DEF MayCall, PcInv, WorkerPcs, Terminating, Stuck, Actors
  <2>3. CountInv' /\ JoinInv' /\ JoinChain'
    BY <1>1, <2>1, <2>2, QuietMove DEF Odd, poolVars, Stuck
  <2>4. /\ pc'[a] = x /\ (\A b \in Actors \ {a} : pc'[b] = pc[b]) /\ pc' \in [Actors -> Pcs]
        /\ x \notin Terminating /\ x \notin {"create", "client", "gone"}
    BY <1>1, <2>1 DEF Pcs, WorkerPcs, Stuck, Terminating
  <2>5. TypeOK' /\ PcInv'
    BY <1>1, <2>2, <2>4 DEF TypeOK, PcInv, WorkerPcs, poolVars, threadVars
  <2>6. TermInv' /\ DetachInv'
    BY <1>1, <2>2, <2>4 DEF TermInv, DetachInv, TypeOK, poolVars, threadVars, Terminating, Locked, Actors
  <2>7. ZeroInv'
    BY <1>1, <2>2, <2>4 DEF ZeroInv, poolVars, Terminating
  <2>8. FateInv'
    BY <1>1, <2>2, <2>4 DEF FateInv, poolVars, Terminating, Actors
  <2> QED
    BY <2>3, <2>5, <2>6, <2>7, <2>8
<1>3. CASE pc[a] = "term_lock" /\ pc' = [pc EXCEPT ![a] = "term_stuck"]
  <2>1. CountInv' /\ JoinInv' /\ JoinChain'
    BY <1>1, <1>3, QuietMove DEF Odd, poolVars
  <2>2. /\ pc'[a] = "term_stuck" /\ (\A b \in Actors \ {a} : pc'[b] = pc[b]) /\ pc' \in [Actors -> Pcs]
        /\ pc[Owner] # "create" /\ memory = "live" /\ ~terminate
    <3>1. pc[a] \in Terminating /\ "term_stuck" \in Pcs
      BY <1>3 DEF Pcs, Terminating
    <3>2. ~terminate
      BY <1>3 DEF TermInv
    <3> QED
      BY <1>1, <1>3, <3>1, <3>2, Destroyer DEF TermInv
  <2>3. TypeOK' /\ PcInv'
    BY <1>1, <1>3, <2>2 DEF TypeOK, PcInv, Terminating, poolVars, threadVars
  <2>4. TermInv' /\ DetachInv'
    BY <1>1, <1>3, <2>2 DEF TermInv, DetachInv, TypeOK, poolVars, threadVars, Terminating, Locked, Actors
  <2>5. ZeroInv' /\ FateInv'
    BY <1>1, <1>3, <2>2 DEF ZeroInv, FateInv, poolVars, Terminating, Actors
  <2> QED
    BY <2>1, <2>3, <2>4, <2>5
<1> QED
  BY <1>2, <1>3 DEF DecreaseJams, Block, Stuck

LEMMA LetGoStep == ASSUME IInv, LetGo PROVE IInv'
<1> USE DEF IInv
<1>1. /\ pc[Owner] = "client" /\ pc' = [pc EXCEPT ![Owner] = "gone"] /\ Owner \in Actors
      /\ UNCHANGED <<queue, nonblock, fetched, poolVars, task, fate, threadVars>>
      /\ pc \in [Actors -> Pcs]
  BY DEF LetGo, Actors, TypeOK
<1>2. CountInv' /\ JoinInv' /\ JoinChain'
  BY <1>1, QuietMove DEF Odd, poolVars
<1>3. pc'[Owner] = "gone" /\ \A w \in Workers : w \in Actors /\ pc'[w] = pc[w]
  BY <1>1 DEF Actors
<1>4. TypeOK' /\ PcInv'
  BY <1>1, <1>3 DEF TypeOK, PcInv, threadVars, poolVars, Pcs, Stuck
<1>5. TermInv' /\ DetachInv'
  BY <1>1, <1>3 DEF TermInv, DetachInv, TypeOK, poolVars, threadVars, Terminating, Locked, Actors
<1>6. ZeroInv' /\ FateInv'
  BY <1>1, <1>3 DEF ZeroInv, FateInv, poolVars, Actors, Stuck
<1> QED
  BY <1>2, <1>4, <1>5, <1>6

LEMMA DestroyStep == ASSUME IInv, NEW a \in Actors, Destroy(a) PROVE IInv'
<1> USE DEF IInv
<1>1. /\ MayCall(a)
      /\ a # Owner => pc[Owner] = "gone"
      /\ ~terminate /\ \A b \in Actors : pc[b] \notin Terminating
      /\ pc' = [pc EXCEPT ![a] = "term_lock"] /\ pc \in [Actors -> Pcs] /\ Owner \in Actors
      /\ UNCHANGED <<queue, nonblock, fetched, poolVars, task, fate, threadVars>>
      /\ pc[a] \in {"client", "task"} /\ memory = "live" /\ pc[Owner] # "create"
  BY CallerLive DEF Destroy, TypeOK, Actors, MayCall
<1>2. CountInv' /\ JoinInv' /\ JoinChain'
  BY <1>1, QuietMove DEF Odd, poolVars
<1>3. pc'[a] = "term_lock" /\ (\A b \in Actors \ {a} : pc'[b] = pc[b]) /\ Workers \subseteq Actors
  BY <1>1 DEF Actors
<1>4. TypeOK' /\ PcInv'
  <2>1. TypeOK'
    BY <1>1, <1>3 DEF TypeOK, threadVars, poolVars, Pcs, Terminating, Stuck
  <2>2. PcInv'
    BY <1>1, <1>3 DEF PcInv, Terminating, Actors, Stuck
  <2> QED
    BY <2>1, <2>2
<1>5. TermInv'
  <2>1. \A b \in Actors : pc'[b] \in Terminating => b = a /\ pc'[b] \notin Locked
    BY <1>1, <1>3 DEF Terminating, Locked
  <2>2. a # Owner => pc'[Owner] = "gone"
    BY <1>1, <1>3
  <2>3. Owner \notin Workers
    OBVIOUS
  <2> QED
    BY <1>1, <1>3, <2>1, <2>2, <2>3 DEF TermInv, poolVars, Terminating
<1>6. DetachInv'
  BY <1>1, <1>3 DEF DetachInv, TypeOK, poolVars, threadVars, Terminating, Locked
<1>7. ZeroInv'
  BY <1>1, <1>3 DEF ZeroInv, poolVars
<1>8. FateInv'
  BY <1>1, <1>3 DEF FateInv, poolVars, Terminating, Actors, Stuck
<1> QED
  BY <1>2, <1>4, <1>5, <1>6, <1>7, <1>8

-----------------------------------------------------------------------------
(* The routine of a thread.                                                *)

Plain == {"loop", "get", "task", "after", "exit"}

LEMMA PlainMove ==
    ASSUME IInv, NEW w \in Workers, NEW x \in Plain, pc[w] \in Plain, memory = "live",
           pc' = [pc EXCEPT ![w] = x], UNCHANGED <<poolVars, threadVars>>
    PROVE  /\ CountInv' /\ JoinInv' /\ JoinChain' /\ TermInv' /\ DetachInv' /\ ZeroInv'
           /\ pc' \in [Actors -> Pcs] /\ pc'[w] = x /\ \A a \in Actors \ {w} : pc'[a] = pc[a]
           /\ pc'[Owner] = pc[Owner] /\ \A v \in Workers : pc'[v] \in WorkerPcs \cup Terminating
<1> USE DEF IInv
<1>1. w \in Actors /\ w # Owner /\ Owner \in Actors /\ Workers \subseteq Actors /\ pc \in [Actors -> Pcs]
  BY DEF Actors, TypeOK
<1>2. CountInv' /\ JoinInv' /\ JoinChain'
  BY <1>1, QuietMove DEF Odd, Plain, poolVars
<1>3. /\ pc' \in [Actors -> Pcs] /\ pc'[w] = x /\ (\A a \in Actors \ {w} : pc'[a] = pc[a])
      /\ pc'[Owner] = pc[Owner]
  BY <1>1 DEF Plain, Pcs, WorkerPcs, Stuck
<1>4. \A v \in Workers : pc'[v] \in WorkerPcs \cup Terminating
  BY <1>1, <1>3 DEF PcInv, Plain, WorkerPcs, Stuck
<1>5. TermInv'
  BY <1>1, <1>3 DEF TermInv, poolVars, Terminating, Locked, Plain
<1>6. DetachInv'
  BY <1>1, <1>3 DEF DetachInv, TypeOK, poolVars, threadVars, Terminating, Locked, Plain
<1>7. ZeroInv'
  BY <1>1, <1>3 DEF ZeroInv, poolVars, Plain
<1> QED
  BY <1>2, <1>3, <1>4, <1>5, <1>6, <1>7

LEMMA LoopStep == ASSUME IInv, NEW w \in Workers, Loop(w) PROVE IInv'
<1> USE DEF IInv
<1>1. PICK x \in {"exit", "get"} : pc' = [pc EXCEPT ![w] = x] /\ (x = "exit" => terminate)
  BY DEF Loop
<1>2. pc[w] = "loop" /\ UNCHANGED <<queue, nonblock, fetched, poolVars, task, fate, threadVars>>
  BY DEF Loop
<1>3. /\ CountInv' /\ JoinInv' /\ JoinChain' /\ TermInv' /\ DetachInv' /\ ZeroInv'
      /\ pc' \in [Actors -> Pcs] /\ pc'[w] = x /\ \A a \in Actors \ {w} : pc'[a] = pc[a]
      /\ pc'[Owner] = pc[Owner] /\ \A v \in Workers : pc'[v] \in WorkerPcs \cup Terminating
  BY <1>1, <1>2, PlainMove, RunnerLive DEF Plain, Locked, Terminating
<1>4. TypeOK' /\ PcInv'
  BY <1>1, <1>2, <1>3 DEF TypeOK, PcInv, TermInv, Actors, poolVars, threadVars, Stuck
<1>5. FateInv'
  BY <1>1, <1>2, <1>3 DEF FateInv, Terminating, Actors, poolVars, Stuck
<1> QED
  BY <1>3, <1>4, <1>5

LEMMA GetTaskStep == ASSUME IInv, NEW w \in Workers, GetTask(w) PROVE IInv'
<1> USE DEF IInv
<1>1. /\ pc[w] = "get" /\ queue # <<>> /\ queue' = Tail(queue)
      /\ UNCHANGED <<nonblock, poolVars, threadVars>> /\ memory = "live" /\ pc[Owner] # "create"
  BY RunnerLive DEF GetTask, Dequeue, PcInv, Locked, Terminating, Stuck
<1>2. PICK k \in Tasks \cup {ExitTask} : k = Head(queue) /\ k = queue[1]
  BY <1>1 DEF TypeOK
<1>3. /\ queue \in Seq(Tasks \cup {ExitTask}) /\ queue' \in Seq(Tasks \cup {ExitTask})
      /\ \A i \in 1..Len(queue) : i = 1 \/ (i - 1 \in 1..Len(queue') /\ queue'[i - 1] = queue[i])
  BY <1>1 DEF TypeOK
<1>4. PICK x \in {"exit", "task"} :
        /\ pc' = [pc EXCEPT ![w] = x]
        /\ IF x = "exit" THEN k = ExitTask /\ UNCHANGED <<task, fate>>
           ELSE /\ k \in Tasks /\ task' = [task EXCEPT ![w] = k]
                /\ fate' = [fate EXCEPT ![k] = "running"]
  BY <1>2 DEF GetTask
<1>5. /\ CountInv' /\ JoinInv' /\ JoinChain' /\ TermInv' /\ DetachInv' /\ ZeroInv'
      /\ pc' \in [Actors -> Pcs] /\ pc'[w] = x /\ \A a \in Actors \ {w} : pc'[a] = pc[a]
      /\ pc'[Owner] = pc[Owner] /\ \A v \in Workers : pc'[v] \in WorkerPcs \cup Terminating
  BY <1>1, <1>4, PlainMove DEF Plain
<1>6. TypeOK' /\ PcInv'
  <2>1. fetched' \in Nat
    BY FetchedType DEF GetTask
  <2> QED
    BY <1>1, <1>3, <1>4, <1>5, <2>1 DEF TypeOK, PcInv, Fates, poolVars, threadVars, Stuck
<1>7. /\ \A j \in Tasks : fate'[j] = IF x = "task" /\ j = k THEN "running" ELSE fate[j]
      /\ \A v \in Workers : v # w => task'[v] = task[v]
      /\ x = "task" => task'[w] = k
  BY <1>4 DEF TypeOK
<1>8. FateInv'
  <2>1. ASSUME NEW j \in Tasks, fate'[j] = "queued" PROVE \E i \in 1..Len(queue') : queue'[i] = j
    <3>1. PICK i \in 1..Len(queue) : queue[i] = j
      BY <1>7, <2>1 DEF FateInv, Stuck
    <3>2. i # 1
      BY <1>2, <1>4, <1>7, <2>1, <3>1
    <3> QED
      BY <1>3, <3>1, <3>2
  <2>2. ASSUME NEW j \in Tasks, fate'[j] = "running"
        PROVE  \E v \in Workers : task'[v] = j /\ pc'[v] \in Terminating \cup Stuck \cup {"task"}
    <3>1. CASE x = "task" /\ j = k
      BY <1>5, <1>7, <3>1
    <3>2. CASE fate[j] = "running"
      <4>1. PICK v \in Workers : task[v] = j /\ pc[v] \in Terminating \cup Stuck \cup {"task"}
        BY <3>2 DEF FateInv, Stuck
      <4>2. v # w
        BY <1>1, <4>1 DEF Terminating, Stuck
      <4> QED
        BY <1>5, <1>7, <4>1, <4>2 DEF Actors
    <3> QED
      BY <1>7, <2>2, <3>1, <3>2
  <2> QED
    BY <1>1, <2>1, <2>2 DEF FateInv, poolVars, Stuck
<1> QED
  BY <1>5, <1>6, <1>8

LEMMA GetNullStep == ASSUME IInv, NEW w \in Workers, GetNull(w) PROVE IInv'
<1> USE DEF IInv
<1>1. /\ pc[w] = "get" /\ nonblock /\ pc' = [pc EXCEPT ![w] = "exit"]
      /\ UNCHANGED <<queue, nonblock, fetched, poolVars, task, fate, threadVars>>
  BY DEF GetNull
<1>2. /\ CountInv' /\ JoinInv' /\ JoinChain' /\ TermInv' /\ DetachInv' /\ ZeroInv'
      /\ pc' \in [Actors -> Pcs] /\ pc'[w] = "exit" /\ \A a \in Actors \ {w} : pc'[a] = pc[a]
      /\ pc'[Owner] = pc[Owner] /\ \A v \in Workers : pc'[v] \in WorkerPcs \cup Terminating
  BY <1>1, PlainMove, RunnerLive DEF Plain, Locked, Terminating
<1>3. TypeOK' /\ PcInv'
  BY <1>1, <1>2 DEF TypeOK, PcInv, poolVars, threadVars, Stuck
<1>4. FateInv'
  BY <1>1, <1>2 DEF FateInv, Terminating, Actors, poolVars, Stuck
<1> QED
  BY <1>2, <1>3, <1>4

\* A task ends, with or without its thread.
LEMMA TaskEndStep ==
    ASSUME IInv, NEW w \in Workers, FinishTask(w) \/ ExitFromTask(w) PROVE IInv'
<1> USE DEF IInv
<1>1. /\ pc[w] = "task" /\ fate' = [fate EXCEPT ![task[w]] = "run"]
      /\ UNCHANGED <<queue, nonblock, fetched, poolVars, task, threadVars>>
      /\ memory = "live" /\ pc[Owner] # "create"
  BY RunnerLive DEF FinishTask, ExitFromTask, PcInv, Locked, Terminating, Stuck
<1>2. PICK x \in {"after", "exit"} : pc' = [pc EXCEPT ![w] = x]
  BY DEF FinishTask, ExitFromTask
<1>3. /\ CountInv' /\ JoinInv' /\ JoinChain' /\ TermInv' /\ DetachInv' /\ ZeroInv'
      /\ pc' \in [Actors -> Pcs] /\ pc'[w] = x /\ \A a \in Actors \ {w} : pc'[a] = pc[a]
      /\ pc'[Owner] = pc[Owner] /\ \A v \in Workers : pc'[v] \in WorkerPcs \cup Terminating
  BY <1>1, <1>2, PlainMove DEF Plain
<1>4. TypeOK' /\ PcInv'
  BY <1>1, <1>3 DEF TypeOK, PcInv, Fates, poolVars, threadVars, Stuck
<1>5. \A j \in Tasks : fate'[j] = IF j = task[w] THEN "run" ELSE fate[j]
  BY <1>1 DEF TypeOK
<1>6. FateInv'
  BY <1>1, <1>3, <1>5 DEF FateInv, Actors, poolVars, Stuck
<1> QED
  BY <1>3, <1>4, <1>6

LEMMA AfterTaskStep == ASSUME IInv, NEW w \in Workers, AfterTask(w) PROVE IInv'
<1> USE DEF IInv
<1>1. /\ pc[w] = "after" /\ w \in Actors /\ w # Owner /\ Owner \in Actors /\ pc \in [Actors -> Pcs]
      /\ UNCHANGED <<queue, nonblock, fetched, nthreads, terminate, tid, task, fate, threadVars>>
  BY DEF AfterTask, Actors, TypeOK
<1>2. CASE nthreads # 0 /\ pc' = [pc EXCEPT ![w] = "loop"] /\ UNCHANGED memory
  <2>1. memory = "live"
    BY <1>2 DEF ZeroInv
  <2>2. /\ CountInv' /\ JoinInv' /\ JoinChain' /\ TermInv' /\ DetachInv' /\ ZeroInv'
        /\ pc' \in [Actors -> Pcs] /\ pc'[w] = "loop" /\ \A a \in Actors \ {w} : pc'[a] = pc[a]
        /\ pc'[Owner] = pc[Owner] /\ \A v \in Workers : pc'[v] \in WorkerPcs \cup Terminating
    BY <1>1, <1>2, <2>1, PlainMove DEF Plain, poolVars
  <2>3. TypeOK' /\ PcInv'
    BY <1>1, <1>2, <2>2 DEF TypeOK, PcInv, threadVars, Stuck
  <2>4. FateInv'
    BY <1>1, <1>2, <2>2 DEF FateInv, Terminating, Actors, Stuck
  <2> QED
    BY <2>2, <2>3, <2>4
<1>3. CASE nthreads = 0 /\ memory' = "freed" /\ pc' = [pc EXCEPT ![w] = "done"]
  <2>1. Running = {} /\ w \in detached
    BY <1>1, <1>3, CountZero DEF Running
  <2>2. memory = "disposed" /\ terminate /\ \A v \in detached : v = w
    BY <1>1, <2>1 DEF DetachInv, Locked, Terminating, TypeOK, TermInv
  <2>3. pc'[w] = "done" /\ (\A a \in Actors \ {w} : pc'[a] = pc[a]) /\ pc' \in [Actors -> Pcs]
        /\ Workers \subseteq Actors /\ pc'[Owner] = pc[Owner]
    BY <1>1, <1>3 DEF Actors, Pcs, WorkerPcs, Stuck
  <2>4. Running' = Running /\ Exited' = Exited /\ Joiners' = Joiners
        /\ UNCHANGED <<detached, joinee, joined>>
    BY <1>1, <2>1, <2>3 DEF Running, Exited, Joiners, threadVars
  <2>5. TypeOK'
    BY <1>1, <1>3, <2>3 DEF TypeOK, threadVars
  <2>6. PcInv'
    BY <1>1, <2>3 DEF PcInv, WorkerPcs, Stuck
  <2>7. TermInv'
    BY <1>1, <1>3, <2>2, <2>3 DEF TermInv, Locked, Terminating
  <2>8. DetachInv'
    BY <1>3, <2>1, <2>2, <2>3, <2>4 DEF DetachInv, Locked, Terminating
  <2>9. CountInv' /\ ZeroInv'
    BY <1>1, <1>3, <2>4, CountSame DEF ZeroInv
  <2>10. JoinInv'
    <3>1. JoinedAll /\ JoinedAll'
      BY <1>3, <2>2 DEF JoinedAll
    <3>2. \A v \in Exited : pc[v] = "done" => pc'[v] = "done"
      BY <2>3 DEF Exited
    <3> QED
      BY <1>1, <2>4, <3>1, <3>2 DEF JoinInv
  <2>11. JoinChain'
    <3>1. {v \in Workers : pc'[v] = "exit_join" /\ joinee'[v] # NoThread} = {}
      BY <2>2, <2>4 DEF JoinInv, JoinedAll, Joiners
    <3> QED
      BY <1>3, <3>1 DEF JoinChain
  <2>12. FateInv'
    BY <1>1, <2>2 DEF FateInv, Stuck
  <2> QED
    BY <2>5, <2>6, <2>7, <2>8, <2>9, <2>10, <2>11, <2>12
<1> QED
  BY <1>2, <1>3 DEF AfterTask

\* The destroyer may be woken on the way: other threads stay where they are, but for that.
LEMMA ExitStep == ASSUME IInv, NEW w \in Workers, Exit(w) PROVE IInv'
<1> USE DEF IInv
<1>1. /\ pc[w] = "exit" /\ joinee' = [joinee EXCEPT ![w] = tid] /\ tid' = w
      /\ nthreads' = nthreads - 1
      /\ UNCHANGED <<queue, nonblock, fetched, terminate, memory, task, fate, joined, detached>>
      /\ w \in Running /\ memory = "live" /\ w # NoThread
      /\ \A a \in Actors : pc[a] \notin {"term_join", "drain"}
  BY RunnerLive DEF Exit, Locked, Terminating
<1>2. /\ w \in Actors /\ w # Owner /\ Owner \in Actors /\ Workers \subseteq Actors
      /\ pc \in [Actors -> Pcs] /\ joinee \in [Workers -> Workers \cup {NoThread}]
      /\ pc[Owner] # "create"
  BY <1>1 DEF Actors, TypeOK, PcInv, Stuck
<1>3. /\ pc'[w] = "exit_join"
      /\ \A a \in Actors : a # w => pc'[a] = pc[a] \/ (pc[a] = "term_wait" /\ pc'[a] = "term_check")
      /\ pc' \in [Actors -> Pcs]
  <2>1. pc' = [a \in Actors |-> IF a = w THEN "exit_join"
                                ELSE IF pc[a] = "term_wait" /\ nthreads = 1 THEN "term_check"
                                ELSE pc[a]]
    BY DEF Exit
  <2> QED
    BY <1>2, <2>1 DEF Pcs, WorkerPcs, Terminating, Stuck
<1>4. \A a \in Actors \ {w} : /\ (pc'[a] \in Terminating) = (pc[a] \in Terminating)
                             /\ (pc'[a] \in Locked) = (pc[a] \in Locked)
                             /\ (pc'[a] \notin Locked => pc'[a] = pc[a])
                             /\ (pc[a] \notin Locked => pc'[a] = pc[a])
                             /\ pc'[a] \notin {"term_join", "drain"}
  BY <1>1, <1>3 DEF Terminating, Locked
<1>5. /\ joinee'[w] = tid /\ \A v \in Workers : v # w => joinee'[v] = joinee[v]
      /\ joinee' \in [Workers -> Workers \cup {NoThread}] /\ tid \in Workers \cup {NoThread}
  BY <1>1, <1>2 DEF TypeOK
<1>6. /\ Running' = Running \ {w} /\ Exited' = Exited \cup {w} /\ Joiners' = Joiners \cup {w}
      /\ w \notin Exited /\ w \notin Joiners /\ w \notin detached /\ w \notin joined /\ ~JoinedAll'
  <2>1. Running' = Running \ {w} /\ Exited' = Exited \cup {w} /\ Joiners' = Joiners \cup {w}
    BY <1>1, <1>2, <1>3, <1>4 DEF Running, Exited, Joiners, Locked, Terminating
  <2>2. w \notin Exited /\ w \notin Joiners /\ w \notin detached
    BY <1>1 DEF Running, Exited, Joiners
  <2>3. ~JoinedAll'
    BY <1>1, <1>3, <1>4 DEF JoinedAll
  <2> QED
    BY <2>1, <2>2, <2>3 DEF JoinInv
<1>7. CountInv' /\ nthreads' \in Nat
  BY <1>1, <1>6, CountDown
<1>8. TypeOK' /\ PcInv'
  <2>1. TypeOK'
    BY <1>1, <1>3, <1>5, <1>7 DEF TypeOK
  <2>2. PcInv'
    BY <1>1, <1>2, <1>3, <1>4 DEF PcInv, WorkerPcs, Locked, Terminating, Stuck
  <2> QED
    BY <2>1, <2>2
<1>9. TermInv'
  <2>1. pc[w] \notin Terminating /\ pc'[w] \notin Terminating
    BY <1>1, <1>3 DEF Terminating
  <2>2. (pc'[Owner] = "gone" <=> pc[Owner] = "gone")
        /\ (pc'[Owner] \in {"create", "client"} <=> pc[Owner] \in {"create", "client"})
        /\ \A a \in Actors : pc'[a] \in {"term_lock", "term_stuck"} <=> pc[a] \in {"term_lock", "term_stuck"}
    BY <1>1, <1>2, <1>3
  <2>3. \A a \in Actors : /\ (pc'[a] \in Terminating => pc[a] \in Terminating)
                         /\ (pc'[a] \in Locked => pc[a] \in Locked)
    BY <1>4, <2>1 DEF Locked
  <2>4. (\A a, b \in Actors : pc'[a] \in Terminating /\ pc'[b] \in Terminating => a = b)
        /\ \A v \in Workers : pc'[v] \in Terminating => pc'[Owner] = "gone"
    BY <1>2, <2>2, <2>3 DEF TermInv
  <2> QED
    BY <1>1, <2>2, <2>3, <2>4 DEF TermInv
<1>10. DetachInv' /\ ZeroInv'
  BY <1>1, <1>2, <1>3, <1>4, <1>6 DEF DetachInv, ZeroInv, Locked, Terminating, TypeOK
<1>11. JoinInv'
  <2>1. /\ tid' # NoThread => tid' \in Exited'
        /\ \A v \in Joiners' : joinee'[v] # NoThread => joinee'[v] \in Exited'
    BY <1>1, <1>5, <1>6 DEF JoinInv, Joiners
  <2>2. joined' \subseteq {v \in Exited' : pc'[v] = "done"}
    <3>1. ASSUME NEW v \in joined PROVE v \in Exited' /\ pc'[v] = "done"
      <4>1. v \in Exited /\ pc[v] = "done" /\ v \in Actors \ {w}
        BY <1>2, <1>6 DEF JoinInv, Exited
      <4> QED
        BY <1>4, <1>6, <4>1 DEF Locked, Terminating
    <3> QED
      BY <1>1, <3>1
  <2>3. \A v \in Exited' : v \in joined' \/ tid' = v \/ \E u \in Joiners' : joinee'[u] = v
    BY <1>1, <1>5, <1>6 DEF JoinInv, Joiners
  <2>4. ASSUME NEW S \in SUBSET Joiners', S # {} PROVE \E v \in S : \A u \in S : joinee'[u] # v
    <3>1. CASE w \in S
      <4>1. \A u \in Joiners' : joinee'[u] # w
        BY <1>1, <1>5, <1>6 DEF JoinInv, Joiners
      <4> QED
        BY <3>1, <4>1
    <3>2. CASE w \notin S
      <4>1. S \in SUBSET Joiners
        BY <1>6, <3>2
      <4>2. PICK v \in S : \A u \in S : joinee[u] # v
        BY <2>4, <4>1 DEF JoinInv
      <4>3. \A u \in S : joinee'[u] = joinee[u]
        BY <1>5, <3>2, <4>1 DEF Joiners
      <4> QED
        BY <4>2, <4>3
    <3> QED
      BY <3>1, <3>2
  <2> QED
    BY <1>6, <2>1, <2>2, <2>3, <2>4 DEF JoinInv
<1>12. JoinChain'
  <2>1. tid # NoThread => tid \notin joined \cup detached /\ \A v \in Joiners : joinee[v] # tid
    BY <1>1, <1>5 DEF JoinChain, Joiners
  <2>2. \A v \in Workers : pc'[v] = "exit_join" /\ joinee'[v] # NoThread =>
           v = w \/ (pc[v] = "exit_join" /\ joinee[v] # NoThread)
    BY <1>3, <1>5, <1>2
  <2>3. \A u, v \in Workers :
           /\ pc'[u] = "exit_join" /\ joinee'[u] # NoThread
           /\ pc'[v] = "exit_join" /\ joinee'[v] # NoThread
           /\ u # v
           => joinee'[u] # joinee'[v]
    BY <1>5, <2>1, <2>2 DEF JoinChain, Joiners
  <2>4. \A v \in Workers : pc'[v] = "exit_join" /\ joinee'[v] # NoThread =>
           joinee'[v] \notin joined' \cup detached' /\ joinee'[v] # tid'
    BY <1>1, <1>5, <1>6, <2>1, <2>2 DEF JoinChain, JoinInv, Joiners
  <2> QED
    BY <1>1, <1>6, <2>3, <2>4 DEF JoinChain
<1>13. FateInv'
  BY <1>1, <1>3, <1>4, <1>2 DEF FateInv, Terminating, Stuck
<1> QED
  BY <1>7, <1>8, <1>9, <1>10, <1>11, <1>12, <1>13

LEMMA ExitJoinStep == ASSUME IInv, NEW w \in Workers, ExitJoin(w) PROVE IInv'
<1> USE DEF IInv
<1>1. /\ pc[w] = "exit_join" /\ (joinee[w] # NoThread => pc[joinee[w]] = "done")
      /\ joined' = joined \cup (IF joinee[w] = NoThread THEN {} ELSE {joinee[w]})
      /\ pc' = [pc EXCEPT ![w] = "done"]
      /\ UNCHANGED <<queue, nonblock, fetched, nthreads, terminate, tid, memory, task, fate, joinee, detached>>
  BY DEF ExitJoin, Joinable, JoinedWith, poolVars
<1>2. /\ w \in Actors /\ w # Owner /\ Owner \in Actors /\ Workers \subseteq Actors
      /\ pc \in [Actors -> Pcs] /\ joinee \in [Workers -> Workers \cup {NoThread}]
      /\ pc[Owner] # "create" /\ w \in Joiners /\ ~JoinedAll /\ memory = "live"
  BY <1>1 DEF Actors, TypeOK, PcInv, JoinInv, Joiners, JoinedAll, Stuck
<1>3. /\ pc'[w] = "done" /\ (\A a \in Actors \ {w} : pc'[a] = pc[a]) /\ pc' \in [Actors -> Pcs]
      /\ \A a \in Actors : pc[a] # "drain" /\ pc'[a] # "drain"
  BY <1>1, <1>2 DEF Pcs, WorkerPcs, JoinedAll, Stuck
<1>4. /\ Running' = Running /\ Exited' = Exited /\ Joiners' = Joiners \ {w} /\ ~JoinedAll'
      /\ w \notin detached /\ w \in Exited
  <2>1. w \notin detached
    BY <1>1, <1>2 DEF DetachInv, Locked, Terminating
  <2>2. Running' = Running /\ Exited' = Exited /\ Joiners' = Joiners \ {w}
    BY <1>1, <1>2, <1>3 DEF Running, Exited, Joiners
  <2> QED
    BY <1>1, <1>2, <1>3, <2>1, <2>2 DEF JoinedAll, Exited
<1>5. TypeOK' /\ PcInv'
  <2>1. TypeOK'
    BY <1>1, <1>2, <1>3 DEF TypeOK
  <2>2. PcInv'
    BY <1>1, <1>2, <1>3 DEF PcInv, WorkerPcs, Stuck
  <2> QED
    BY <2>1, <2>2
<1>6. TermInv'
  BY <1>1, <1>2, <1>3 DEF TermInv, Locked, Terminating
<1>7. DetachInv' /\ ZeroInv'
  BY <1>1, <1>2, <1>3, <1>4 DEF DetachInv, ZeroInv, Locked, Terminating
<1>8. CountInv'
  BY <1>1, <1>4, CountSame
<1>9. JoinInv'
  <2>1. /\ tid' # NoThread => tid' \in Exited'
        /\ \A v \in Joiners' : joinee'[v] # NoThread => joinee'[v] \in Exited'
    BY <1>1, <1>4 DEF JoinInv
  <2>2. joined' \subseteq {v \in Exited' : pc'[v] = "done"}
    BY <1>1, <1>2, <1>3, <1>4 DEF JoinInv
  <2>3. \A v \in Exited' : v \in joined' \/ tid' = v \/ \E u \in Joiners' : joinee'[u] = v
    BY <1>1, <1>2, <1>4 DEF JoinInv, Exited
  <2>4. \A S \in SUBSET Joiners' : S # {} => \E v \in S : \A u \in S : joinee'[u] # v
    BY <1>1, <1>4 DEF JoinInv
  <2> QED
    BY <1>4, <2>1, <2>2, <2>3, <2>4 DEF JoinInv
<1>10. JoinChain'
  BY <1>1, <1>2, <1>3 DEF JoinChain
<1>11. FateInv'
  BY <1>1, <1>2, <1>3 DEF FateInv, Terminating, Stuck
<1> QED
  BY <1>5, <1>6, <1>7, <1>8, <1>9, <1>10, <1>11

-----------------------------------------------------------------------------
(* The end of the pool.                                                    *)

\* It moves on, alone.
LEMMA TermMove ==
    ASSUME IInv, NEW a \in Actors, pc[a] \in Terminating, NEW x \in Locked, pc' = [pc EXCEPT ![a] = x],
           terminate', memory' = "live", x \in {"term_join", "drain"} => nthreads' = 0,
           detached' = IF a \in Workers THEN {a} ELSE {}
    PROVE  /\ PcInv' /\ TermInv' /\ DetachInv' /\ ZeroInv'
           /\ pc'[a] = x /\ (\A b \in Actors \ {a} : pc'[b] = pc[b]) /\ pc' \in [Actors -> Pcs]
<1> USE DEF IInv
<1>1. /\ memory = "live" /\ pc[Owner] \notin {"create", "client"}
      /\ (a \in Workers => pc[Owner] = "gone") /\ (a \notin Workers => a = Owner)
      /\ \A b \in Actors \ {a} : pc[b] \notin Terminating
      /\ Owner \in Actors /\ Workers \subseteq Actors /\ Owner \notin Workers
  BY Destroyer DEF Actors
<1>2. pc'[a] = x /\ (\A b \in Actors \ {a} : pc'[b] = pc[b]) /\ pc' \in [Actors -> Pcs]
  BY DEF TypeOK, Pcs, Locked, Stuck
<1>3. x \in Terminating /\ x # "term_lock" /\ x # "create" /\ x # "client"
  BY DEF Locked, Terminating
<1>4. \A b \in Actors \ {a} : pc'[b] \notin Terminating /\ pc'[b] \notin Locked
  BY <1>1, <1>2 DEF Locked
<1>5. PcInv'
  <2>1. \A w \in Workers : pc'[w] \in WorkerPcs \cup Terminating
    BY <1>1, <1>2, <1>3 DEF PcInv, Stuck
  <2>2. pc'[Owner] \in {"gone"} \cup Terminating
    BY <1>1, <1>2, <1>3 DEF PcInv, Stuck
  <2> QED
    BY <2>1, <2>2 DEF PcInv, Terminating, Stuck
<1>6. TermInv'
  <2>1. /\ \A b, c \in Actors : pc'[b] \in Terminating /\ pc'[c] \in Terminating => b = c
        /\ \A w \in Workers : pc'[w] \in Terminating => pc'[Owner] = "gone"
    BY <1>1, <1>2, <1>4
  <2>2. pc'[Owner] \notin {"create", "client"}
    BY <1>1, <1>2, <1>3
  <2>3. \A b \in Actors : pc'[b] \notin {"term_lock", "term_stuck"}
    BY <1>2, <1>4 DEF Terminating, Locked
  <2> QED
    BY <2>1, <2>2, <2>3 DEF TermInv
<1>7. DetachInv'
  BY <1>1, <1>2, <1>4 DEF DetachInv
<1>8. ZeroInv'
  <2>1. \A b \in Actors \ {a} : pc'[b] \notin {"term_join", "drain"}
    BY <1>4 DEF Terminating
  <2> QED
    BY <1>2, <2>1 DEF ZeroInv
<1> QED
  BY <1>2, <1>5, <1>6, <1>7, <1>8

LEMMA TermLockStep == ASSUME IInv, NEW a \in Actors, TermLock(a) PROVE IInv'
<1> USE DEF IInv
<1>1. /\ pc[a] = "term_lock" /\ nonblock' = TRUE /\ terminate' = TRUE
      /\ IF a \in Workers THEN nthreads' = nthreads - 1 /\ detached' = detached \cup {a}
         ELSE UNCHANGED <<nthreads, detached>>
      /\ UNCHANGED <<queue, fetched, tid, memory, task, fate, joinee, joined>>
      /\ pc[a] \in Terminating
  BY DEF TermLock, Terminating
<1>2. /\ memory = "live" /\ detached = {} /\ (a \notin Workers => a = Owner)
      /\ \A b \in Actors \ {a} : pc[b] \notin Terminating
      /\ Workers \subseteq Actors /\ Owner \notin Workers
  BY <1>1, Destroyer DEF Actors
<1>3. PICK x \in {"term_wait", "term_join"} :
        pc' = [pc EXCEPT ![a] = x] /\ (x = "term_join" => ~(nthreads' > 0))
  BY DEF TermLock
<1>4. /\ pc \in [Actors -> Pcs] /\ pc'[a] = x /\ \A b \in Actors \ {a} : pc'[b] = pc[b]
  BY <1>3 DEF TypeOK
<1>5. CountInv' /\ nthreads' \in Nat
  <2>1. CASE a \in Workers
    <3>1. a \in Running /\ Running' = Running \ {a}
      BY <1>1, <1>2, <1>3, <1>4, <2>1 DEF Running
    <3> QED
      BY <1>1, <2>1, <3>1, CountDown
  <2>2. CASE a \notin Workers
    <3>1. Running' = Running
      BY <1>1, <1>2, <1>4, <2>2 DEF Running
    <3> QED
      BY <1>1, <2>2, <3>1, CountSame DEF TypeOK
  <2> QED
    BY <2>1, <2>2
<1>6. /\ PcInv' /\ TermInv' /\ DetachInv' /\ ZeroInv' /\ pc' \in [Actors -> Pcs]
  <2>1. x \in Locked /\ (x \in {"term_join", "drain"} => nthreads' = 0)
    BY <1>3, <1>5 DEF Locked, Terminating
  <2>2. detached' = IF a \in Workers THEN {a} ELSE {}
    BY <1>1, <1>2
  <2> QED
    BY <1>1, <1>2, <1>3, <2>1, <2>2, TermMove
<1>7. TypeOK'
  BY <1>1, <1>5, <1>6, <1>2 DEF TypeOK
<1>8. /\ Exited' = Exited /\ Joiners' = Joiners /\ ~JoinedAll' /\ a \notin Exited
      /\ \A w \in Workers : (pc'[w] = "done") = (pc[w] = "done")
  <2>1. \A b \in Actors : /\ (pc'[b] = "done") = (pc[b] = "done")
                          /\ (pc'[b] = "exit_join") = (pc[b] = "exit_join")
                          /\ pc'[b] # "drain"
    BY <1>1, <1>2, <1>3, <1>4 DEF Terminating
  <2> QED
    BY <1>1, <1>2, <2>1 DEF Exited, Joiners, JoinedAll
<1>9. JoinInv'
  <2>1. joined' \subseteq {w \in Exited' : pc'[w] = "done"}
    BY <1>1, <1>8 DEF JoinInv, Exited
  <2> QED
    BY <1>1, <1>8, <2>1 DEF JoinInv
<1>10. JoinChain'
  <2>1. \A w \in Workers : (pc'[w] = "exit_join") = (w \in Joiners)
    BY <1>8 DEF Joiners
  <2>2. tid # NoThread => tid # a /\ tid \notin joined \cup detached
           /\ \A w \in Joiners : joinee[w] # NoThread => joinee[w] # tid
    BY <1>1, <1>2, <1>8 DEF JoinInv, JoinChain, Joiners, Terminating
  <2>3. \A w \in Joiners : joinee[w] # NoThread => joinee[w] # a /\ joinee[w] \notin joined \cup detached
    BY <1>8 DEF JoinInv, JoinChain, Joiners
  <2>4. \A v, w \in Joiners : joinee[v] # NoThread /\ joinee[w] # NoThread /\ v # w => joinee[v] # joinee[w]
    BY DEF JoinChain, Joiners
  <2> QED
    BY <1>1, <1>2, <2>1, <2>2, <2>3, <2>4 DEF JoinChain
<1>11. FateInv'
  BY <1>1, <1>2, <1>3, <1>4 DEF FateInv, Terminating, Stuck
<1> QED
  BY <1>5, <1>6, <1>7, <1>9, <1>10, <1>11

\* The condition wait returns, with a signal or without, or is taken up again.
LEMMA TermWaitStep == ASSUME IInv, NEW a \in Actors, TermSpurious(a) \/ TermCheck(a) PROVE IInv'
<1> USE DEF IInv
<1>1. /\ pc[a] \in {"term_wait", "term_check"} /\ pc[a] \in Locked /\ pc[a] \in Terminating
      /\ UNCHANGED <<queue, nonblock, fetched, poolVars, task, fate, threadVars>>
  BY DEF TermSpurious, TermCheck, Locked, Terminating
<1>2. PICK x \in {"term_wait", "term_check", "term_join"} :
        pc' = [pc EXCEPT ![a] = x] /\ (x = "term_join" => ~(nthreads > 0))
  BY DEF TermSpurious, TermCheck
<1>3. CountInv' /\ JoinInv' /\ JoinChain'
  BY <1>1, <1>2, QuietMove DEF Odd, poolVars
<1>4. /\ memory = "live" /\ terminate /\ detached = IF a \in Workers THEN {a} ELSE {}
      /\ (x \in {"term_join", "drain"} => nthreads = 0)
  <2>1. memory = "live" /\ terminate /\ \A w \in detached : w = a
    BY <1>1, Destroyer DEF TermInv
  <2>2. (a \in Workers => a \in detached) /\ detached \subseteq Workers
    BY <1>1 DEF DetachInv, TypeOK
  <2>3. x \in {"term_join", "drain"} => nthreads = 0
    BY <1>2 DEF TypeOK
  <2> QED
    BY <2>1, <2>2, <2>3
<1>5. PcInv' /\ TermInv' /\ DetachInv' /\ ZeroInv' /\ pc' \in [Actors -> Pcs]
      /\ pc'[a] = x /\ \A b \in Actors \ {a} : pc'[b] = pc[b]
  <2>1. x \in Locked
    BY DEF Locked, Terminating
  <2> QED
    BY <1>1, <1>2, <1>4, <2>1, TermMove DEF poolVars, threadVars
<1>6. TypeOK'
  BY <1>1, <1>5 DEF TypeOK, poolVars, threadVars
<1>7. FateInv'
  BY <1>1, <1>4, <1>5 DEF FateInv, Terminating, poolVars, Actors, Stuck
<1> QED
  BY <1>3, <1>5, <1>6, <1>7

\* No thread runs any more.  The joiners that might still be there would wait for
\* each other in a ring: so there is none, and the last id is that of the last thread.
LEMMA TermJoinStep == ASSUME IInv, NEW a \in Actors, TermJoin(a) PROVE IInv'
<1> USE DEF IInv
<1>1. /\ pc[a] = "term_join" /\ (tid # NoThread => pc[tid] = "done")
      /\ joined' = joined \cup (IF tid = NoThread THEN {} ELSE {tid})
      /\ pc' = [pc EXCEPT ![a] = "drain"]
      /\ UNCHANGED <<queue, nonblock, fetched, nthreads, terminate, tid, memory, task, fate, joinee, detached>>
      /\ pc[a] \in Terminating /\ pc[a] \in Locked
  BY DEF TermJoin, Joinable, JoinedWith, poolVars, Terminating, Locked
<1>2. /\ memory = "live" /\ terminate /\ nthreads = 0 /\ Running = {}
      /\ detached = IF a \in Workers THEN {a} ELSE {}
      /\ \A b \in Actors \ {a} : pc[b] \notin Terminating
      /\ Workers \subseteq Actors
  <2>1. memory = "live" /\ terminate /\ nthreads = 0 /\ \A w \in detached : w = a
    BY <1>1, Destroyer DEF TermInv, ZeroInv
  <2>2. (a \in Workers => a \in detached) /\ detached \subseteq Workers
    BY <1>1 DEF DetachInv, TypeOK
  <2>3. Running = {} /\ \A b \in Actors \ {a} : pc[b] \notin Terminating
    BY <1>1, <2>1, CountZero, Destroyer
  <2> QED
    BY <2>1, <2>2, <2>3 DEF Actors
<1>3. PcInv' /\ TermInv' /\ DetachInv' /\ ZeroInv' /\ pc' \in [Actors -> Pcs]
      /\ pc'[a] = "drain" /\ \A b \in Actors \ {a} : pc'[b] = pc[b]
  <2>1. "drain" \in Locked
    BY DEF Locked, Terminating
  <2> QED
    BY <1>1, <1>2, <2>1, TermMove
<1>4. Joiners = {}
  <2> SUFFICES ASSUME Joiners # {} PROVE FALSE
    OBVIOUS
  <2>1. PICK v \in Joiners : \A u \in Joiners : joinee[u] # v
    BY DEF JoinInv
  <2>2. v \in Exited /\ v \notin joined /\ tid # v
    <3>1. v \notin detached
      BY <1>1, <1>2 DEF Joiners
    <3> QED
      BY <1>1, <3>1 DEF Joiners, Exited, JoinInv
  <2> QED
    BY <2>1, <2>2 DEF JoinInv
<1>5. Exited \subseteq joined'
  BY <1>1, <1>4 DEF JoinInv, Exited
<1>6. Exited' = Exited /\ Joiners' = {} /\ tid \in Workers \cup {NoThread}
  BY <1>1, <1>2, <1>3, <1>4 DEF Exited, Joiners, TypeOK
<1>7. TypeOK'
  BY <1>1, <1>3, <1>6 DEF TypeOK
<1>8. CountInv'
  <2>1. Running' = Running
    BY <1>1, <1>2, <1>3 DEF Running
  <2> QED
    BY <1>1, <2>1, CountSame
<1>9. JoinInv'
  <2>1. ASSUME NEW v \in joined' PROVE v \in Exited' /\ pc'[v] = "done"
    <3>1. v \in Exited /\ pc[v] = "done" /\ v \in Actors
      BY <1>1, <1>2 DEF JoinInv, Exited
    <3> QED
      BY <1>1, <1>3, <1>6, <3>1
  <2> QED
    BY <1>1, <1>5, <1>6, <2>1 DEF JoinInv
<1>10. JoinChain'
  <2>1. {w \in Workers : pc'[w] = "exit_join" /\ joinee'[w] # NoThread} = {}
    BY <1>6 DEF Joiners
  <2> QED
    BY <1>3, <2>1 DEF JoinChain
<1>11. FateInv'
  BY <1>1, <1>2, <1>3 DEF FateInv, Terminating, Stuck
<1> QED
  BY <1>3, <1>7, <1>8, <1>9, <1>10, <1>11

LEMMA DrainStep == ASSUME IInv, NEW a \in Actors, Drain(a) PROVE IInv'
<1> USE DEF IInv
<1>1. /\ pc[a] = "drain" /\ queue # <<>> /\ queue' = Tail(queue) /\ pc[a] \in Terminating
      /\ UNCHANGED <<nonblock, poolVars, pc, task, threadVars>>
  BY DEF Drain, Dequeue, Terminating
<1>2. PICK k \in Tasks \cup {ExitTask} : k = Head(queue) /\ k = queue[1]
  BY <1>1 DEF TypeOK
<1>3. fate' = IF k = ExitTask THEN fate ELSE [fate EXCEPT ![k] = "pended"]
  BY <1>2 DEF Drain
<1>4. /\ queue \in Seq(Tasks \cup {ExitTask}) /\ queue' \in Seq(Tasks \cup {ExitTask})
      /\ \A i \in 1..Len(queue) : i = 1 \/ (i - 1 \in 1..Len(queue') /\ queue'[i - 1] = queue[i])
  BY <1>1 DEF TypeOK
<1>5. CountInv' /\ JoinInv' /\ JoinChain' /\ TermInv' /\ DetachInv' /\ ZeroInv'
  BY <1>1, QuietCalls
<1>6. pc[Owner] # "create" /\ memory = "live"
  BY <1>1, Destroyer
<1>7. TypeOK' /\ PcInv'
  <2>1. fetched' \in Nat
    BY FetchedType DEF Drain
  <2> QED
    BY <1>1, <1>3, <1>4, <1>6, <2>1 DEF TypeOK, PcInv, Fates, poolVars, threadVars, Stuck
<1>8. \A j \in Tasks : fate'[j] = IF j = k THEN "pended" ELSE fate[j]
  BY <1>3 DEF TypeOK
<1>9. FateInv'
  <2>1. ASSUME NEW j \in Tasks, fate'[j] = "queued" PROVE \E i \in 1..Len(queue') : queue'[i] = j
    <3>1. PICK i \in 1..Len(queue) : queue[i] = j
      BY <1>8, <2>1 DEF FateInv, Stuck
    <3>2. i # 1
      BY <1>2, <1>8, <2>1, <3>1
    <3> QED
      BY <1>4, <3>1, <3>2
  <2>2. \A j \in Tasks : fate'[j] = "running" => fate[j] = "running"
    BY <1>8
  <2> QED
    BY <1>1, <1>6, <2>1, <2>2 DEF FateInv, poolVars, Stuck
<1> QED
  BY <1>5, <1>7, <1>9

LEMMA DisposeStep == ASSUME IInv, NEW a \in Actors, Dispose(a) PROVE IInv'
<1> USE DEF IInv
<1>1. /\ pc[a] = "drain" /\ queue = <<>> /\ pc[a] \in Terminating /\ pc[a] \in Locked
      /\ UNCHANGED <<queue, nonblock, fetched, nthreads, terminate, tid, task, threadVars>>
  BY DEF Dispose, Terminating, Locked
<1>2. /\ memory = "live" /\ terminate /\ nthreads = 0 /\ Running = {}
      /\ detached = IF a \in Workers THEN {a} ELSE {}
      /\ \A b \in Actors \ {a} : pc[b] \notin Terminating
      /\ Workers \subseteq Actors /\ Owner \in Actors /\ Owner \notin Workers
      /\ (a \in Workers => pc[Owner] = "gone") /\ (a \notin Workers => a = Owner)
  <2>1. memory = "live" /\ terminate /\ nthreads = 0 /\ \A w \in detached : w = a
    BY <1>1, Destroyer DEF TermInv, ZeroInv
  <2>2. (a \in Workers => a \in detached) /\ detached \subseteq Workers
    BY <1>1 DEF DetachInv, TypeOK
  <2>3. Running = {} /\ \A b \in Actors \ {a} : pc[b] \notin Terminating
    BY <1>1, <2>1, CountZero, Destroyer
  <2>4. (a \in Workers => pc[Owner] = "gone") /\ (a \notin Workers => a = Owner)
    BY <1>1, Destroyer
  <2> QED
    BY <2>1, <2>2, <2>3, <2>4 DEF Actors
<1>3. PICK x \in {"after", "gone"}, m \in {"disposed", "freed"} :
        /\ pc' = [pc EXCEPT ![a] = x] /\ memory' = m
        /\ IF a \in Workers THEN x = "after" /\ m = "disposed" /\ fate' = [fate EXCEPT ![task[a]] = "run"]
           ELSE x = "gone" /\ m = "freed" /\ fate' = fate
  BY DEF Dispose
<1>4. /\ pc'[a] = x /\ (\A b \in Actors \ {a} : pc'[b] = pc[b]) /\ pc' \in [Actors -> Pcs]
      /\ pc'[Owner] = "gone" /\ \A b \in Actors : pc'[b] \notin Terminating
  BY <1>2, <1>3 DEF TypeOK, Pcs, WorkerPcs, Terminating, Stuck
<1>5. TypeOK' /\ PcInv'
  <2>1. fate' \in [Tasks -> Fates]
    BY <1>3 DEF TypeOK, Fates
  <2>2. TypeOK'
    BY <1>1, <1>3, <1>4, <2>1 DEF TypeOK, threadVars
  <2>3. \A w \in Workers : pc'[w] \in WorkerPcs \cup Terminating
    BY <1>2, <1>3, <1>4 DEF PcInv, WorkerPcs, Stuck
  <2> QED
    BY <1>4, <2>2, <2>3 DEF PcInv, Stuck
<1>6. TermInv'
  <2>1. \A b \in Actors : pc'[b] \notin Locked /\ pc'[b] \notin {"term_lock", "term_stuck"}
    BY <1>4 DEF Locked, Terminating
  <2> QED
    BY <1>1, <1>2, <1>4, <2>1 DEF TermInv
<1>7. DetachInv' /\ ZeroInv'
  BY <1>1, <1>2, <1>3, <1>4 DEF DetachInv, ZeroInv, threadVars, Locked
<1>8. Running' = Running /\ Exited' = Exited /\ Joiners' = Joiners /\ UNCHANGED <<detached, joinee, joined>>
  BY <1>1, <1>2, <1>3, <1>4 DEF Running, Exited, Joiners, threadVars
<1>9. CountInv'
  BY <1>1, <1>8, CountSame
<1>10. JoinInv' /\ JoinChain'
  <2>1. JoinedAll /\ JoinedAll'
    BY <1>1, <1>3 DEF JoinedAll
  <2>2. \A v \in Exited : pc[v] = "done" => pc'[v] = "done"
    BY <1>1, <1>2, <1>4 DEF Exited
  <2>3. JoinInv'
    BY <1>1, <1>8, <2>1, <2>2 DEF JoinInv
  <2>4. {w \in Workers : pc'[w] = "exit_join" /\ joinee'[w] # NoThread} = {}
    BY <1>8, <2>1 DEF JoinInv, Joiners
  <2> QED
    BY <1>3, <2>3, <2>4 DEF JoinChain
<1>11. FateInv'
  <2>1. \A k \in Tasks : fate[k] # "queued"
    BY <1>1 DEF FateInv, Stuck
  <2>2. ASSUME NEW k \in Tasks, fate[k] = "running" PROVE a \in Workers /\ task[a] = k
    <3>1. PICK w \in Workers : task[w] = k /\ pc[w] \in Terminating \cup Stuck \cup {"task"}
      BY <2>2 DEF FateInv, Stuck
    <3>2. pc[w] \notin {"task"} \cup Stuck
      BY <1>1, <1>2 DEF Running, Stuck
    <3> QED
      BY <1>2, <3>1, <3>2
  <2>3. \A k \in Tasks : fate'[k] = IF a \in Workers /\ task[a] = k THEN "run" ELSE fate[k]
    BY <1>3 DEF TypeOK
  <2> QED
    BY <1>1, <2>1, <2>2, <2>3 DEF FateInv, Stuck
<1> QED
  BY <1>5, <1>6, <1>7, <1>9, <1>10, <1>11

-----------------------------------------------------------------------------
LEMMA NextInv == ASSUME IInv, [Next]_vars PROVE IInv'
<1>1. CASE CreateThread \/ CreateFails \/ LetGo
  BY <1>1, CreateThreadStep, CreateFailsStep, LetGoStep
<1>2. CASE \E a \in Actors : Calls(a)
  BY <1>2, ScheduleStep, IncreaseStep, DecreaseStep, StuckStep, DestroyStep DEF Calls
<1>3. CASE \E a \in Actors : Shutdown(a) \/ TermSpurious(a)
  BY <1>3, TermLockStep, TermWaitStep, TermJoinStep, DrainStep, DisposeStep DEF Shutdown
<1>4. CASE \E w \in Workers : Work(w) \/ ExitFromTask(w)
  BY <1>4, LoopStep, GetTaskStep, GetNullStep, TaskEndStep, AfterTaskStep, ExitStep, ExitJoinStep DEF Work
<1>5. CASE UNCHANGED vars
  <2>1. CountInv' /\ JoinInv' /\ JoinChain' /\ TermInv' /\ DetachInv' /\ ZeroInv'
    BY <1>5, QuietCalls DEF vars, poolVars, threadVars
  <2>2. TypeOK' /\ PcInv' /\ FateInv'
    BY <1>5 DEF IInv, TypeOK, PcInv, FateInv, vars, Stuck
  <2> QED
    BY <2>1, <2>2 DEF IInv
<1> QED
  BY <1>1, <1>2, <1>3, <1>4, <1>5 DEF Next

\* The inductive invariant holds of every behaviour of the pool.
THEOREM Inductive == Spec => []IInv
<1> QED
  BY InitInv, NextInv, PTL DEF Spec

\* The types, the count of the running threads, and the chain in which exiting
\* threads join one another: no thread is joined twice, or after it was detached.
THEOREM PoolConsistent == Spec => []Consistent
<1>1. IInv => Consistent
  BY DEF IInv, Consistent, CountInv
<1> QED
  BY <1>1, Inductive, PTL

\* Once the queue and the mutex are destroyed no thread touches the pool, but for the
\* one task that destroyed it, and after the pool is freed not that one either.
THEOREM MemoryOutlivesUsers == Spec => []NoUseAfterFree
<1>1. IInv => NoUseAfterFree
  <2> SUFFICES ASSUME IInv, memory # "live" PROVE NoUseAfterFree
    BY DEF NoUseAfterFree
  <2>1. nthreads = 0 /\ Running = {} /\ Joiners = {}
    BY CountZero DEF IInv, ZeroInv, JoinInv, JoinedAll
  <2>2. \A w \in Workers : w \notin detached => pc[w] \in {"new", "done"}
    BY <2>1 DEF Running, Joiners
  <2>3. \A w \in detached : w \in Workers /\ pc[w] = (IF memory = "disposed" THEN "after" ELSE "done")
    BY DEF IInv, DetachInv, TypeOK
  <2>4. memory = "disposed" => Cardinality({w \in Workers : pc[w] = "after"}) = 1
    <3> SUFFICES ASSUME memory = "disposed" PROVE Cardinality({w \in Workers : pc[w] = "after"}) = 1
      OBVIOUS
    <3>1. PICK w \in detached : \A v \in detached : v = w
      BY DEF IInv, DetachInv
    <3>2. {v \in Workers : pc[v] = "after"} = {w}
      BY <2>2, <2>3, <3>1
    <3> QED
      BY <3>2, FS_Singleton
  <2> QED
    BY <2>2, <2>3, <2>4 DEF NoUseAfterFree, IInv, TypeOK
<1> QED
  BY <1>1, Inductive, PTL

\* When the pool has been destroyed each of its threads has been joined or detached,
\* and each task that was scheduled has been run or handed to the pending callback.
THEOREM NobodyLeftBehind == Spec => []NothingLeftBehind
<1>1. IInv => NothingLeftBehind
  <2> SUFFICES ASSUME IInv, memory # "live" PROVE NothingLeftBehind
    BY DEF NothingLeftBehind
  <2>1. Running = {} /\ Joiners = {} /\ Exited \subseteq joined
    BY CountZero DEF IInv, ZeroInv, JoinInv, JoinedAll
  <2>2. \A w \in Workers : pc[w] # "new" => w \in joined \cup detached
    BY <2>1 DEF Running, Exited
  <2>3. \A k \in Tasks : fate[k] \in {"new", "run", "pended"}
    <3>1. \A k \in Tasks : fate[k] \in Fates /\ fate[k] # "running" /\ fate[k] # "queued"
      BY DEF IInv, FateInv, TypeOK, Stuck
    <3> QED
      BY <3>1 DEF Fates
  <2> QED
    BY <2>2, <2>3 DEF NothingLeftBehind
<1> QED
  BY <1>1, Inductive, PTL

=============================================================================
