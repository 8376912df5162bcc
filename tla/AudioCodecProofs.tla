-------------------------- MODULE AudioCodecProofs --------------------------
(***************************************************************************)
(* Proofs about AudioCodec, for every size of the buffer, every set of     *)
(* paths and every number of starts; the threads may quit at any time.     *)
(* The types hold throughout; that the circular buffer is a FrameQueue,    *)
(* that one thread works at a time and that frames are fresh hold until a  *)
(* join fails and leaves a thread behind.                                  *)
(*                                                                         *)
(* The inductive invariant ties the write position to the read position    *)
(* and the number of elements: without it the frame that a push stores     *)
(* could be any of the buffer, not the next one.  The reset breaks the tie *)
(* between its stores, and only there; that nobody looks then is what the  *)
(* part about the threads says.                                            *)
(***************************************************************************)
EXTENDS AudioCodec, SequenceTheorems, TLAPS

RingAgrees ==
  writePos = IF readPos + numElements < BufSize
             THEN readPos + numElements ELSE readPos + numElements - BufSize

(* A call that starts the codec has a session left to start. *)
SessionsLeft ==
  /\ task.pc \in {"start"} \cup Starting => task.starting
  /\ task.starting => codecThread < MaxSessions

(* Until one is left behind, the only thread alive is the last one made,   *)
(* running says so, and it is gone while another is being started.         *)
ThreadsAgree ==
  ~abandoned =>
    /\ \A s \in Alive : s = codecThread /\ running /\ task.pc \notin Starting
    /\ task.pc \in Starting \ {"begin"} => running

(* How far the reset has come. *)
ResetAgrees ==
  ~abandoned =>
    /\ task.pc \notin Resetting => RingAgrees
    /\ task.pc \in Resetting => readPos = 0
    /\ task.pc = "numElements" => writePos = 0
    /\ task.pc \in {"reqStop", "create"} => numElements = 0

IInv == TypeOK /\ SessionsLeft /\ ThreadsAgree /\ ResetAgrees

(* What a critical section may do to the circular buffer, and the stores   *)
(* of the reset.                                                           *)
RingStep ==
  \/ numElements < BufSize /\ \E f \in Frame : PushElement(f)
  \/ \E f \in Frame : EncodeElement(f)
  \/ numElements > 0 /\ PopElement
  \/ UNCHANGED ring

ResetStep == StartResetsReadPos \/ StartResetsWritePos \/ StartEmpties

-----------------------------------------------------------------------------
(* The types of what is held. *)
HeldIsSeq ==
  /\ Held \in Seq(Frame)
  /\ Len(Held) = numElements
  /\ \A i \in 1 .. numElements : Held[i] = dataBuffer[Place(i)]

LEMMA HeldSeq == TypeOK => HeldIsSeq
<1> SUFFICES ASSUME TypeOK PROVE HeldIsSeq
  OBVIOUS
<1> USE BufAssumption DEF TypeOK
<1>1. \A i \in 1 .. numElements : Place(i) \in 0 .. BufSize - 1
  BY DEF Place
<1>2. Held \in [1 .. numElements -> Frame]
  BY <1>1 DEF Held
<1>3. Held \in Seq(Frame)
  BY <1>2, SeqDef
<1>4. Len(Held) = numElements
  BY <1>2, <1>3, LenProperties
<1> QED
  BY <1>3, <1>4 DEF Held, HeldIsSeq

RingTypes ==
  /\ readPos \in 0 .. BufSize - 1 /\ writePos \in 0 .. BufSize - 1
  /\ numElements \in 0 .. BufSize
  /\ dataBuffer \in [0 .. BufSize - 1 -> Frame]

(* A step of the ring keeps its positions in range and in agreement. *)
LEMMA RingKept ==
  ASSUME RingTypes, RingStep
  PROVE  RingTypes' /\ (RingAgrees => RingAgrees')
<1> USE BufAssumption DEF RingTypes, RingAgrees, ring, Succ, Stored
<1>1. CASE numElements < BufSize /\ \E f \in Frame : PushElement(f)
  BY <1>1 DEF PushElement
<1>2. CASE \E f \in Frame : EncodeElement(f)
  BY <1>2 DEF EncodeElement
<1>3. CASE numElements > 0 /\ PopElement
  BY <1>3 DEF PopElement
<1>5. CASE UNCHANGED ring
  BY <1>5
<1> QED
  BY <1>1, <1>2, <1>3, <1>5 DEF RingStep

-----------------------------------------------------------------------------
(* What the steps of the ring do to the frames it holds. *)

LEMMA PushAppends ==
  ASSUME TypeOK, RingAgrees, TypeOK', numElements < BufSize, NEW f \in Frame, PushElement(f)
  PROVE  Held' = Append(Held, f)
<1>1. HeldIsSeq /\ HeldIsSeq'
  BY HeldSeq, PTL
<1>2. /\ Append(Held, f) \in Seq(Frame)
      /\ Len(Append(Held, f)) = numElements + 1
      /\ \A i \in 1 .. numElements : Append(Held, f)[i] = Held[i]
      /\ Append(Held, f)[numElements + 1] = f
  BY <1>1, AppendProperties DEF HeldIsSeq
<1>3. ASSUME NEW i \in 1 .. numElements + 1
      PROVE  Held'[i] = Append(Held, f)[i]
  <2>1. Held'[i] = dataBuffer'[Place(i)]
    BY <1>1 DEF HeldIsSeq, PushElement, Place, TypeOK
  <2>2. Place(i) \in 0 .. BufSize - 1 /\ (Place(i) = writePos <=> i = numElements + 1)
    BY BufAssumption DEF Place, RingAgrees, TypeOK
  <2>3. dataBuffer'[Place(i)] = IF i = numElements + 1 THEN f ELSE dataBuffer[Place(i)]
    BY <2>2 DEF PushElement, Stored, TypeOK
  <2>4. CASE i = numElements + 1
    BY <1>2, <2>1, <2>3, <2>4
  <2>5. CASE i # numElements + 1
    <3>1. i \in 1 .. numElements
      BY <2>5 DEF TypeOK
    <3> QED
      BY <1>1, <1>2, <2>1, <2>3, <3>1, <2>5 DEF HeldIsSeq
  <2> QED
    BY <2>4, <2>5
<1> QED
  BY <1>1, <1>2, <1>3, SeqEqual DEF HeldIsSeq, PushElement

LEMMA PopIsTail ==
  ASSUME TypeOK, TypeOK', numElements > 0, PopElement
  PROVE  Held # <<>> /\ Held' = Tail(Held)
<1>1. HeldIsSeq /\ HeldIsSeq'
  BY HeldSeq, PTL
<1>2. Held # <<>>
  BY <1>1 DEF HeldIsSeq, TypeOK
<1>3. /\ Tail(Held) \in Seq(Frame)
      /\ Len(Tail(Held)) = numElements - 1
      /\ \A i \in 1 .. numElements - 1 : Tail(Held)[i] = Held[i + 1]
  BY <1>1, <1>2, HeadTailProperties DEF HeldIsSeq
<1>4. ASSUME NEW i \in 1 .. numElements - 1
      PROVE  Held'[i] = Tail(Held)[i]
  <2>1. Held'[i] = dataBuffer[Place(i)']
    BY <1>1 DEF HeldIsSeq, PopElement, TypeOK
  <2>2. Place(i)' = Place(i + 1)
    BY BufAssumption DEF Place, PopElement, Succ, TypeOK
  <2>3. i + 1 \in 1 .. numElements
    BY DEF TypeOK
  <2> QED
    BY <1>1, <1>3, <2>1, <2>2, <2>3 DEF HeldIsSeq
<1> QED
  BY <1>1, <1>2, <1>3, <1>4, SeqEqual DEF HeldIsSeq, PopElement

(* The encoder stores into a full buffer: the oldest frame leaves. *)
LEMMA EncodeReplaces ==
  ASSUME TypeOK, RingAgrees, TypeOK', numElements = BufSize, NEW f \in Frame, EncodeElement(f)
  PROVE  Held' = Append(Tail(Held), f)
<1>1. HeldIsSeq /\ HeldIsSeq'
  BY HeldSeq, PTL
<1>2. Held # <<>>
  BY <1>1, BufAssumption DEF HeldIsSeq, TypeOK
<1>3. /\ Tail(Held) \in Seq(Frame)
      /\ Len(Tail(Held)) = BufSize - 1
      /\ \A i \in 1 .. BufSize - 1 : Tail(Held)[i] = Held[i + 1]
  BY <1>1, <1>2, HeadTailProperties DEF HeldIsSeq
<1>4. /\ Append(Tail(Held), f) \in Seq(Frame)
      /\ Len(Append(Tail(Held), f)) = BufSize
      /\ \A i \in 1 .. BufSize - 1 : Append(Tail(Held), f)[i] = Held[i + 1]
      /\ Append(Tail(Held), f)[BufSize] = f
  <2>1. /\ Append(Tail(Held), f) \in Seq(Frame)
        /\ Len(Append(Tail(Held), f)) = BufSize - 1 + 1
        /\ \A i \in 1 .. BufSize - 1 : Append(Tail(Held), f)[i] = Tail(Held)[i]
        /\ Append(Tail(Held), f)[BufSize - 1 + 1] = f
    BY <1>3, AppendProperties
  <2>2. BufSize - 1 + 1 = BufSize
    BY BufAssumption
  <2> QED
    BY <1>3, <2>1, <2>2
<1>5. ASSUME NEW i \in 1 .. BufSize
      PROVE  Held'[i] = Append(Tail(Held), f)[i]
  <2> DEFINE p == Place(i)'
  <2>1. Held'[i] = dataBuffer'[p]
    BY <1>1 DEF HeldIsSeq, EncodeElement, TypeOK
  <2>2. p \in 0 .. BufSize - 1 /\ (p = writePos <=> i = BufSize)
    BY BufAssumption DEF Place, EncodeElement, Succ, RingAgrees, TypeOK
  <2>3. dataBuffer'[p] = IF i = BufSize THEN f ELSE dataBuffer[p]
    BY <2>2 DEF EncodeElement, Stored, TypeOK
  <2>4. CASE i = BufSize
    BY <1>4, <2>1, <2>3, <2>4
  <2>5. CASE i # BufSize
    <3>1. i + 1 \in 1 .. numElements /\ i \in 1 .. BufSize - 1
      BY <2>5, BufAssumption
    <3>2. p = Place(i + 1)
      BY <3>1, BufAssumption DEF Place, EncodeElement, Succ, TypeOK
    <3>3. Held[i + 1] = dataBuffer[p]
      BY <1>1, <3>1, <3>2 DEF HeldIsSeq
    <3> QED
      BY <1>4, <2>1, <2>3, <2>5, <3>1, <3>3
  <2> QED
    BY <2>4, <2>5
<1>6. numElements' = BufSize
  BY BufAssumption DEF EncodeElement
<1> QED
  BY <1>1, <1>4, <1>5, <1>6, SeqEqual DEF HeldIsSeq

-----------------------------------------------------------------------------
(* The type invariant. *)

LEMMA InitIInv == Init => IInv
<1> SUFFICES ASSUME Init PROVE IInv
  OBVIOUS
<1>1. task \in TaskState
  BY BufAssumption DEF Init, TaskState, Func
<1>2. NoThread \in ThreadState
  BY BufAssumption DEF NoThread, ThreadState, Func
<1>3. dataBuffer \in [0 .. BufSize - 1 -> Frame]
  BY BufAssumption, SessionsAssumption DEF Init, Frame, NoFrame
<1>4. thread \in [Threads -> ThreadState]
  BY <1>2 DEF Init
<1>5. 0 \in 0 .. BufSize - 1 /\ 0 \in 0 .. BufSize /\ 0 \in 0 .. MaxSessions
  BY BufAssumption, SessionsAssumption
<1>6. TypeOK
  BY <1>1, <1>3, <1>4, <1>5 DEF Init, TypeOK
<1>7. task.pc = "idle" /\ ~task.starting
  BY DEF Init
<1>8. Alive = {}
  BY DEF Init, Alive, NoThread
<1>9. RingAgrees
  BY BufAssumption DEF Init, RingAgrees
<1> QED
  BY <1>6, <1>7, <1>8, <1>9 DEF IInv, SessionsLeft, ThreadsAgree, ResetAgrees,
     Starting, Resetting

(* Every step is a critical section, a store of the reset, or leaves the   *)
(* ring alone.                                                             *)
LEMMA NextRing ==
  ASSUME TypeOK, [Next]_vars
  PROVE  RingStep \/ ResetStep
<1>1. CASE UNCHANGED vars
  BY <1>1 DEF vars, RingStep, ring
<1>2. CASE TaskCalls
  BY <1>2 DEF TaskCalls, StartCalled, StopCalled, TransferCalled, RingStep
<1>3. CASE PushPuts
  <2>1. [session |-> codecThread, n |-> task.n] \in Frame
    BY DEF TypeOK, Frame, TaskState
  <2> QED
    BY <1>3, <2>1 DEF PushPuts, RingStep
<1>4. CASE TaskStep /\ ~PushPuts
  BY <1>4 DEF TaskStep, StartDecided, StartBegins, StartClearsRequest, StartCreates,
              StopRequests, StopJoins, PopLooks, PopWaits, PopTakes, PushLooks,
              PushWaits, RingStep, ResetStep
<1>5. ASSUME NEW s \in Threads, ThreadEncodes(s)
      PROVE  RingStep
  <2>1. [session |-> s, n |-> thread[s].n] \in Frame
    BY SessionsAssumption DEF TypeOK, Frame, ThreadState, Threads
  <2> QED
    BY <1>5, <2>1 DEF ThreadEncodes, RingStep
<1>6. ASSUME NEW s \in Threads, ThreadDecodes(s)
      PROVE  RingStep
  BY <1>6 DEF ThreadDecodes, RingStep, ring, TypeOK
<1>7. ASSUME NEW s \in Threads, ThreadStep(s), ~ThreadEncodes(s), ~ThreadDecodes(s)
      PROVE  RingStep
  BY <1>7 DEF ThreadStep, ThreadOpens, ThreadLoops, ThreadChecksPath, ThreadData,
              ThreadQuits, ThreadDetaches, ThreadClears, RingStep
<1> QED
  BY <1>1, <1>2, <1>3, <1>4, <1>5, <1>6, <1>7 DEF Next

LEMMA NextRingTypes ==
  ASSUME TypeOK, [Next]_vars
  PROVE  RingTypes'
<1>1. RingTypes
  BY DEF TypeOK, RingTypes
<1>2. CASE RingStep
  BY <1>1, <1>2, RingKept
<1>3. CASE ResetStep
  BY <1>1, <1>3, BufAssumption
  DEF ResetStep, StartResetsReadPos, StartResetsWritePos, StartEmpties, Emptied, RingTypes
<1> QED
  BY <1>2, <1>3, NextRing

LEMMA NextTypes ==
  ASSUME TypeOK, SessionsLeft, [Next]_vars
  PROVE  TypeOK' /\ SessionsLeft'
<1> DEFINE Rest == /\ running' \in BOOLEAN /\ reqStop' \in BOOLEAN /\ waiting' \in BOOLEAN
                   /\ audioPath' \in Paths
                   /\ codecThread' \in 0 .. MaxSessions
                   /\ task' \in TaskState /\ thread' \in [Threads -> ThreadState]
                   /\ abandoned' \in BOOLEAN
                   /\ SessionsLeft'
<1>0. SUFFICES Rest
  BY NextRingTypes DEF TypeOK, RingTypes
<1> USE BufAssumption, SessionsAssumption
    DEF TypeOK, SessionsLeft, TaskState, TaskAt, Starting, Resetting
<1>1. CASE UNCHANGED vars
  BY <1>1 DEF vars, control
<1>2. CASE StartCalled
  <2>1. CASE UNCHANGED task
    BY <1>2, <2>1 DEF StartCalled, control
  <2>2. ASSUME NEW p \in Paths, NEW f \in Func,
               task' = [task EXCEPT !.pc = "start", !.path = p, !.wanted = f,
                                    !.starting = TRUE]
        PROVE  Rest
    BY <1>2, <2>2 DEF StartCalled, control
  <2> QED
    BY <1>2, <2>1, <2>2 DEF StartCalled
<1>3. CASE StartDecided
  <2>1. \/ task' = [task EXCEPT !.pc = "idle", !.starting = FALSE]
        \/ task' = [task EXCEPT !.pc = "stop", !.starting = TRUE]
        \/ task' = [task EXCEPT !.pc = "begin", !.starting = TRUE]
    BY <1>3 DEF StartDecided
  <2>2. codecThread < MaxSessions /\ UNCHANGED <<control, ring, waiting, thread, abandoned>>
    BY <1>3 DEF StartDecided
  <2>3. task' \in TaskState /\ (task'.pc \in {"start"} \cup Starting => task'.starting)
    <3>1. CASE task' = [task EXCEPT !.pc = "idle", !.starting = FALSE]
      BY <3>1
    <3>2. CASE task' = [task EXCEPT !.pc = "stop", !.starting = TRUE]
      BY <3>2
    <3>3. CASE task' = [task EXCEPT !.pc = "begin", !.starting = TRUE]
      BY <3>3
    <3> QED
      BY <2>1, <3>1, <3>2, <3>3
  <2> QED
    BY <2>2, <2>3 DEF control
<1>4. CASE StartBegins
  BY <1>4 DEF StartBegins
<1>5. CASE StartCreates
  <2>2. task' \in TaskState /\ ~task'.starting /\ task'.pc = "idle"
    <3>1. task' = [task EXCEPT !.pc = "idle", !.starting = FALSE,
                               !.func = task.wanted, !.n = 0]
      BY <1>5 DEF StartCreates
    <3>2. task.wanted \in Func /\ 0 \in 0 .. BufSize
      OBVIOUS
    <3> QED
      BY <3>1, <3>2
  <2>3. codecThread + 1 \in 0 .. MaxSessions
    BY <1>5 DEF StartCreates
  <2>4. [pc |-> "open", func |-> task.wanted, n |-> 0, detached |-> FALSE] \in ThreadState
    BY DEF ThreadState
  <2>5. thread' \in [Threads -> ThreadState] /\ codecThread' \in 0 .. MaxSessions
    BY <1>5, <2>3, <2>4 DEF StartCreates
  <2> QED
    BY <1>5, <2>2, <2>3, <2>5 DEF StartCreates
<1>18. CASE StartResetsReadPos \/ StartResetsWritePos \/ StartEmpties \/ StartClearsRequest
  <2>1. /\ task' \in TaskState
        /\ task'.starting = task.starting /\ task.starting
        /\ UNCHANGED <<running, audioPath, codecThread, waiting, thread, abandoned>>
        /\ reqStop' \in BOOLEAN
    BY <1>18 DEF StartResetsReadPos, StartResetsWritePos, StartEmpties, StartClearsRequest, control
  <2> QED
    BY <2>1
<1>6. CASE StopCalled
  BY <1>6 DEF StopCalled, control
<1>7. CASE StopRequests
  BY <1>7 DEF StopRequests
<1>8. CASE StopJoins
  BY <1>8 DEF StopJoins, LeavesBehind, Alive, ThreadState
<1>9. CASE TransferCalled("encode", "pop")
  <2>1. task' \in TaskState /\ task'.starting = task.starting
        /\ (task'.pc = "idle" \/ task'.pc = "pop")
    BY <1>9 DEF TransferCalled
  <2> QED
    BY <1>9, <2>1 DEF TransferCalled, control
<1>10. CASE TransferCalled("decode", "push")
  <2>1. task' \in TaskState /\ task'.starting = task.starting
        /\ (task'.pc = "idle" \/ task'.pc = "push")
    BY <1>10 DEF TransferCalled
  <2> QED
    BY <1>10, <2>1 DEF TransferCalled, control
<1>11. CASE PopLooks
  BY <1>11 DEF PopLooks, control
<1>12. CASE PopWaits
  BY <1>12 DEF PopWaits, control
<1>13. CASE PopTakes
  BY <1>13 DEF PopTakes, control
<1>14. CASE PushLooks
  BY <1>14 DEF PushLooks, control
<1>15. CASE PushWaits
  BY <1>15 DEF PushWaits, control
<1>16. CASE PushPuts
  <2>1. Following(task.n) \in 0 .. BufSize
    BY DEF Following
  <2>2. task' = [task EXCEPT !.pc = "idle", !.n = Following(task.n)]
    BY <1>16 DEF PushPuts
  <2>3. task' \in TaskState
    BY <2>1, <2>2
  <2>4. UNCHANGED <<control, waiting, thread, abandoned>>
    BY <1>16 DEF PushPuts
  <2> QED
    BY <2>2, <2>3, <2>4 DEF control
<1>17. ASSUME NEW s \in Threads, ThreadStep(s)
      PROVE  Rest
  <2> USE DEF ThreadState, ThreadAt
  <2>0. thread' \in [Threads -> ThreadState]
    <3>0. ASSUME NEW to \in {"loop", "path", "data", "frame", "quit", "detach", "clear"},
                 thread' = [thread EXCEPT ![s].pc = to]
          PROVE  thread' \in [Threads -> ThreadState]
      <4> DEFINE t == [thread[s] EXCEPT !.pc = to]
      <4>1. thread[s] \in ThreadState
        OBVIOUS
      <4>2. t \in ThreadState
        BY <4>1, <3>0
      <4>3. thread' = [thread EXCEPT ![s] = t]
        BY <3>0
      <4> HIDE DEF t, ThreadState
      <4> QED
        BY <4>2, <4>3
    <3>1. CASE ThreadOpens(s)
      <4>1. \E to \in {"loop", "quit", "detach"} : thread' = [thread EXCEPT ![s].pc = to]
        BY <3>1 DEF ThreadOpens
      <4> QED
        BY <3>0, <4>1
    <3>2. CASE ThreadLoops(s)
      <4>1. \E to \in {"path", "quit"} : thread' = [thread EXCEPT ![s].pc = to]
        BY <3>2 DEF ThreadLoops
      <4> QED
        BY <3>0, <4>1
    <3>3. CASE ThreadChecksPath(s)
      <4>1. \E to \in {"data", "frame", "quit"} : thread' = [thread EXCEPT ![s].pc = to]
        BY <3>3 DEF ThreadChecksPath
      <4> QED
        BY <3>0, <4>1
    <3>4. CASE ThreadData(s)
      <4>1. \E to \in {"frame", "loop", "quit"} : thread' = [thread EXCEPT ![s].pc = to]
        BY <3>4 DEF ThreadData
      <4> QED
        BY <3>0, <4>1
    <3>5. CASE ThreadEncodes(s)
      BY <3>5 DEF ThreadEncodes, Following
    <3>6. CASE ThreadDecodes(s)
      <4>1. \E to \in {"data"} : thread' = [thread EXCEPT ![s].pc = to]
        BY <3>6 DEF ThreadDecodes
      <4> QED
        BY <3>0, <4>1
    <3>7. CASE ThreadQuits(s)
      <4>1. \E to \in {"clear", "detach"} : thread' = [thread EXCEPT ![s].pc = to]
        BY <3>7 DEF ThreadQuits
      <4> QED
        BY <3>0, <4>1
    <3>9. CASE ThreadDetaches(s)
      <4> DEFINE t == [thread[s] EXCEPT !.pc = "clear", !.detached = TRUE]
      <4>1. thread[s] \in ThreadState
        OBVIOUS
      <4>2. t \in ThreadState
        BY <4>1
      <4>3. thread' = [thread EXCEPT ![s] = t]
        BY <3>9 DEF ThreadDetaches
      <4> HIDE DEF t
      <4> QED
        BY <4>2, <4>3
    <3>8. CASE ThreadClears(s)
      BY <3>8 DEF ThreadClears, NoThread, Func
    <3> QED
      BY <1>17, <3>1, <3>2, <3>3, <3>4, <3>5, <3>6, <3>7, <3>8, <3>9 DEF ThreadStep
  <2>1. /\ UNCHANGED <<reqStop, audioPath, codecThread, task, abandoned>>
        /\ running' \in BOOLEAN /\ waiting' \in BOOLEAN
    BY <1>17 DEF ThreadStep, ThreadOpens, ThreadLoops, ThreadChecksPath, ThreadData,
           ThreadEncodes, ThreadDecodes, ThreadQuits, ThreadDetaches, ThreadClears,
           control, Signal
  <2> QED
    BY <2>0, <2>1
<1> QED
  BY <1>1, <1>2, <1>3, <1>4, <1>5, <1>6, <1>7, <1>8, <1>9, <1>10, <1>11, <1>12, <1>13, <1>14, <1>15, <1>16, <1>17, <1>18
  DEF Next, TaskCalls, TaskStep

-----------------------------------------------------------------------------
(* The threads.  Only a join that fails leaves one behind: after any other *)
(* the thread is gone, and it stays the only one.                          *)

(* A step that leaves the threads and what they agree with alone. *)
LEMMA ThreadsUntouched ==
  ASSUME ThreadsAgree, UNCHANGED <<running, codecThread, thread, abandoned>>,
         task'.pc \in Starting => task'.pc = task.pc
  PROVE  ThreadsAgree'
  BY DEF ThreadsAgree, Alive

LEMMA NextThreadsAgree ==
  ASSUME TypeOK, SessionsLeft, ThreadsAgree, [Next]_vars
  PROVE  ThreadsAgree'
<1> USE DEF TypeOK, TaskState, TaskAt
<1>1. CASE UNCHANGED vars
  BY <1>1, ThreadsUntouched DEF vars, control
<1>2. CASE StartCalled
  <2>1. task'.pc \in {"start", "idle"}
    BY <1>2 DEF StartCalled
  <2> QED
    BY <1>2, <2>1, ThreadsUntouched DEF StartCalled, control, Starting, Resetting
<1>3. CASE StartDecided
  <2>1. task'.pc = "begin" => ~running
    BY <1>3 DEF StartDecided
  <2>2. task'.pc \in {"idle", "stop", "begin"} /\ UNCHANGED <<control, thread, abandoned>>
    BY <1>3 DEF StartDecided
  <2> QED
    BY <2>1, <2>2 DEF ThreadsAgree, Alive, control, Starting, Resetting
<1>4. CASE StartBegins
  <2>1. task.pc \in Starting /\ running' = TRUE /\ UNCHANGED <<thread, abandoned>>
    BY <1>4 DEF StartBegins, Starting
  <2> QED
    BY <2>1 DEF ThreadsAgree, Alive
<1>5. CASE StartResetsReadPos \/ StartResetsWritePos \/ StartEmpties \/ StartClearsRequest
  <2>1. /\ task.pc \in Starting \ {"begin"}
        /\ UNCHANGED <<running, codecThread, thread, abandoned>>
    BY <1>5 DEF StartResetsReadPos, StartResetsWritePos, StartEmpties, StartClearsRequest,
                control, Starting, Resetting
  <2> QED
    BY <2>1 DEF ThreadsAgree, Alive
<1>6. CASE StartCreates
  <2>1. task.pc \in Starting \ {"begin"} /\ task.pc = "create"
    BY <1>6 DEF StartCreates, Starting
  <2>2. /\ UNCHANGED <<running, abandoned>> /\ task'.pc = "idle"
        /\ codecThread' = codecThread + 1
        /\ \A s \in Threads : s # codecThread' => thread'[s] = thread[s]
    BY <1>6 DEF StartCreates
  <2> QED
    BY <2>1, <2>2 DEF ThreadsAgree, Alive, Starting, Resetting
<1>7. CASE StopCalled
  <2>1. task'.pc \in {"stop", "idle"}
    BY <1>7 DEF StopCalled
  <2> QED
    BY <1>7, <2>1, ThreadsUntouched DEF StopCalled, control, Starting, Resetting
<1>8. CASE StopRequests
  BY <1>8, ThreadsUntouched DEF StopRequests, Starting, Resetting
<1>9. CASE StopJoins
  <2>1. task'.pc \in {"idle", "begin"} /\ thread' = thread
    BY <1>9 DEF StopJoins
  <2>2. codecThread \in Alive => abandoned'
    BY <1>9 DEF StopJoins, Joined, LeavesBehind
  <2>3. abandoned => abandoned'
    BY <1>9 DEF StopJoins
  <2> QED
    BY <2>1, <2>2, <2>3 DEF ThreadsAgree, Alive, Starting, Resetting
<1>10. CASE TransferCalled("encode", "pop") \/ TransferCalled("decode", "push")
  <2>1. task'.pc \in {"pop", "push", "idle"}
    BY <1>10 DEF TransferCalled
  <2> QED
    BY <1>10, <2>1, ThreadsUntouched DEF TransferCalled, control, Starting, Resetting
<1>11. CASE PopLooks \/ PopWaits \/ PopTakes \/ PushLooks \/ PushWaits \/ PushPuts
  <2>1. task'.pc \in {"idle", "popping", "pushing"}
    BY <1>11 DEF PopLooks, PopWaits, PopTakes, PushLooks, PushWaits, PushPuts
  <2>2. UNCHANGED <<control, thread, abandoned>>
    BY <1>11 DEF PopLooks, PopWaits, PopTakes, PushLooks, PushWaits, PushPuts
  <2> QED
    BY <2>1, <2>2, ThreadsUntouched DEF control, Starting, Resetting
<1>12. ASSUME NEW s \in Threads, ThreadStep(s), ~ThreadClears(s)
       PROVE  ThreadsAgree'
  <2>1. /\ UNCHANGED <<control, task, abandoned>>
        /\ thread[s].pc # "none"
        /\ \A r \in Threads : r # s => thread'[r] = thread[r]
    BY <1>12 DEF ThreadStep, ThreadOpens, ThreadLoops, ThreadChecksPath, ThreadData,
                 ThreadEncodes, ThreadDecodes, ThreadQuits, ThreadDetaches, ThreadAt
  <2>2. Alive' \subseteq Alive
    BY <2>1 DEF Alive
  <2> QED
    BY <2>1, <2>2 DEF ThreadsAgree, control
<1>13. ASSUME NEW s \in Threads, ThreadClears(s)
       PROVE  ThreadsAgree'
  <2>1. /\ s \in Alive /\ thread'[s].pc = "none"
        /\ UNCHANGED <<task, abandoned>>
    BY <1>13 DEF ThreadClears, Alive, NoThread
  <2>2. \A r \in Threads : r # s => thread'[r] = thread[r]
    BY <1>13 DEF ThreadClears
  <2>3. Alive' = Alive \ {s}
    BY <2>1, <2>2 DEF Alive
  <2> QED
    BY <2>1, <2>3 DEF ThreadsAgree
<1> QED
  BY <1>1, <1>2, <1>3, <1>4, <1>5, <1>6, <1>7, <1>8, <1>9, <1>10, <1>11, <1>12, <1>13
  DEF Next, TaskCalls, TaskStep

(* A step which is no store of the reset neither starts nor ends it, and   *)
(* while a start is under way it leaves the ring alone.                    *)
Otherwise ==
  /\ task.pc \in Resetting <=> task'.pc \in Resetting
  /\ task.pc \in Resetting => UNCHANGED <<ring, task>>
  /\ task'.pc \in {"reqStop", "create"} =>
       task.pc \in {"reqStop", "create"} /\ UNCHANGED ring
  /\ RingStep

LEMMA NextOtherwise ==
  ASSUME TypeOK, ThreadsAgree, ~abandoned, [Next]_vars, ~ResetStep
  PROVE  Otherwise
<1> USE DEF TaskAt, TypeOK, TaskState
<1>0. RingStep
  BY NextRing
<1>1. CASE UNCHANGED vars
  BY <1>0, <1>1 DEF vars, Otherwise
<1>2. CASE TaskCalls
  <2>1. task.pc = "idle" /\ task'.pc \in {"idle", "start", "stop", "pop", "push"}
    BY <1>2 DEF TaskCalls, StartCalled, StopCalled, TransferCalled
  <2> QED
    BY <1>0, <2>1 DEF Otherwise, Resetting
<1>3. CASE TaskStep /\ ~StartClearsRequest
  <2>1. /\ task.pc \notin Resetting
        /\ task'.pc \in {"idle", "stop", "join", "begin", "readPos", "popping", "pushing"}
    BY <1>3 DEF TaskStep, ResetStep, StartDecided, StartBegins, StartCreates, StopRequests,
                StopJoins, PopLooks, PopWaits, PopTakes, PushLooks, PushWaits, PushPuts,
                Resetting
  <2> QED
    BY <1>0, <2>1 DEF Otherwise, Resetting
<1>4. CASE StartClearsRequest
  BY <1>0, <1>4 DEF StartClearsRequest, Otherwise, Resetting
<1>5. ASSUME NEW s \in Threads, ThreadStep(s)
      PROVE  Otherwise
  <2>1. thread[s].pc # "none" /\ UNCHANGED task
    BY <1>5 DEF ThreadStep, ThreadOpens, ThreadLoops, ThreadChecksPath, ThreadData,
                ThreadEncodes, ThreadDecodes, ThreadQuits, ThreadDetaches, ThreadClears,
                ThreadAt
  <2>2. task.pc \notin Starting
    BY <2>1 DEF ThreadsAgree, Alive
  <2> QED
    BY <1>0, <2>1, <2>2 DEF Otherwise, Starting
<1> QED
  BY <1>1, <1>2, <1>3, <1>4, <1>5 DEF Next

LEMMA AbandonedStays ==
  ASSUME [Next]_vars, abandoned
  PROVE  abandoned'
<1>1. CASE UNCHANGED vars
  BY <1>1 DEF vars
<1>2. CASE TaskCalls
  BY <1>2 DEF TaskCalls, StartCalled, StopCalled, TransferCalled
<1>3. CASE TaskStep
  BY <1>3 DEF TaskStep, StartDecided, StartBegins, StartResetsReadPos, StartResetsWritePos,
              StartEmpties, StartClearsRequest, StartCreates, StopRequests, StopJoins,
              PopLooks, PopWaits, PopTakes, PushLooks, PushWaits, PushPuts
<1>4. ASSUME NEW s \in Threads, ThreadStep(s)
      PROVE  abandoned'
  BY <1>4 DEF ThreadStep, ThreadOpens, ThreadLoops, ThreadChecksPath, ThreadData,
              ThreadEncodes, ThreadDecodes, ThreadQuits, ThreadDetaches, ThreadClears
<1> QED
  BY <1>1, <1>2, <1>3, <1>4 DEF Next

LEMMA NextResetAgrees ==
  ASSUME TypeOK, ThreadsAgree, ResetAgrees, [Next]_vars
  PROVE  ResetAgrees'
<1> SUFFICES ASSUME ~abandoned' PROVE ResetAgrees'
  BY DEF ResetAgrees
<1>0. ~abandoned
  BY AbandonedStays DEF TypeOK
<1> USE DEF ResetAgrees, Resetting
<1>1. CASE StartResetsReadPos
  BY <1>0, <1>1 DEF StartResetsReadPos, TaskAt, TypeOK, TaskState
<1>2. CASE StartResetsWritePos
  BY <1>0, <1>2 DEF StartResetsWritePos, TaskAt, TypeOK, TaskState
<1>3. CASE StartEmpties
  <2>1. /\ task'.pc = "reqStop" /\ numElements' = 0 /\ readPos' = 0 /\ writePos' = 0
    BY <1>0, <1>3 DEF StartEmpties, Emptied, TaskAt, TypeOK, TaskState
  <2> QED
    BY <2>1, BufAssumption DEF RingAgrees
<1>4. CASE ~ResetStep
  <2>1. Otherwise
    BY <1>0, <1>4, NextOtherwise
  <2>2. CASE task.pc \in Resetting
    BY <1>0, <2>1, <2>2 DEF Otherwise, ring, TypeOK, TaskState
  <2>3. CASE task.pc \notin Resetting
    <3>1. RingAgrees'
      <4>1. RingTypes /\ RingAgrees
        BY <1>0, <2>3 DEF TypeOK, RingTypes
      <4> QED
        BY <2>1, <4>1, RingKept DEF Otherwise
    <3>2. task'.pc \notin Resetting
      BY <2>1, <2>3 DEF Otherwise
    <3>3. task'.pc \in {"reqStop", "create"} => numElements' = 0
      BY <1>0, <2>1 DEF Otherwise, ring
    <3> QED
      BY <3>1, <3>2, <3>3
  <2> QED
    BY <2>2, <2>3
<1> QED
  BY <1>1, <1>2, <1>3, <1>4 DEF ResetStep

LEMMA Invariance == Spec => []IInv
<1>1. IInv /\ [Next]_vars => IInv'
  BY NextTypes, NextThreadsAgree, NextResetAgrees DEF IInv
<1> QED
  BY <1>1, InitIInv, PTL DEF Spec

(* Every variable keeps its type in every behaviour, whenever the threads  *)
(* quit; above all the positions stay in the buffer and numElements never  *)
(* passes BUF_SIZE, whatever the task and the threads do between two       *)
(* critical sections and two stores of the reset.                          *)
THEOREM TypeCorrect == Spec => []TypeOK
  BY Invariance, PTL DEF IInv

-----------------------------------------------------------------------------
(* The circular buffer implements the queue. *)

(* A step of the ring is a step of the queue. *)
LEMMA RingImplements ==
  ASSUME TypeOK, RingAgrees, TypeOK', RingStep, Shown = Held, Shown' = Held'
  PROVE  [Queue!Next]_Shown
<1>1. Len(Held) = numElements
  BY HeldSeq DEF HeldIsSeq
<1>2. ASSUME numElements < BufSize, NEW f \in Frame, PushElement(f)
      PROVE  Queue!Put(f)
  BY <1>1, <1>2, PushAppends DEF Queue!Put
<1>3. ASSUME NEW f \in Frame, EncodeElement(f), numElements < BufSize
      PROVE  Queue!Put(f)
  <2>1. PushElement(f)
    BY <1>3, BufAssumption DEF EncodeElement, PushElement, TypeOK
  <2> QED
    BY <1>2, <1>3, <2>1
<1>4. ASSUME NEW f \in Frame, EncodeElement(f), ~(numElements < BufSize)
      PROVE  Queue!PutOver(f)
  <2>1. numElements = BufSize
    BY <1>4, BufAssumption DEF TypeOK
  <2> QED
    BY <1>1, <1>4, <2>1, EncodeReplaces DEF Queue!PutOver
<1>5. CASE numElements > 0 /\ PopElement
  BY <1>5, PopIsTail DEF Queue!Next, Queue!Take
<1>6. CASE UNCHANGED ring
  <2>1. Held' = Held
    BY <1>6 DEF ring, Held, Place
  <2> QED
    BY <2>1
<1> QED
  BY <1>2, <1>3, <1>4, <1>5, <1>6 DEF RingStep, Queue!Next

LEMMA NextImplements ==
  ASSUME IInv, IInv', [Next]_vars
  PROVE  [Queue!Next]_Shown
<1>1. CASE abandoned' \/ task'.pc \in Resetting
  BY <1>1 DEF Shown, Queue!Next, Queue!Clear
<1>2. CASE ~abandoned' /\ task'.pc \notin Resetting
  <2>1. ~abandoned
    BY <1>2, AbandonedStays DEF IInv, TypeOK
  <2>2. Shown' = Held'
    BY <1>2 DEF Shown
  <2>3. CASE ResetStep
    <3>1. numElements' = 0
      BY <1>2, <2>3 DEF ResetStep, StartResetsReadPos, StartResetsWritePos, StartEmpties,
                        Emptied, TaskAt, Resetting, IInv, TypeOK, TaskState
    <3>2. HeldIsSeq'
      BY HeldSeq, PTL DEF IInv
    <3>3. Held' = <<>>
      BY <3>1, <3>2, EmptySeq DEF HeldIsSeq
    <3> QED
      BY <2>2, <3>3 DEF Queue!Next, Queue!Clear
  <2>4. CASE ~ResetStep
    <3>1. Otherwise
      BY <2>1, <2>4, NextOtherwise DEF IInv
    <3>2. task.pc \notin Resetting
      BY <1>2, <3>1 DEF Otherwise
    <3>3. Shown = Held /\ RingAgrees /\ RingStep
      BY <2>1, <3>1, <3>2 DEF Shown, IInv, ResetAgrees, Otherwise
    <3> QED
      BY <2>2, <3>3, RingImplements DEF IInv
  <2> QED
    BY <2>3, <2>4
<1> QED
  BY <1>1, <1>2

(* For every buffer size, until a thread is left behind, the frames leave  *)
(* the circular buffer in the order they came, and only the oldest of a    *)
(* full buffer, or all of them when the codec is started anew, are lost;   *)
(* the threads may quit, and nobody sees the half done reset.              *)
THEOREM QueueOfFramesAlways == Spec => QueueOfFrames
<1>1. Init => Queue!Init
  <2>1. Init => HeldIsSeq /\ numElements = 0 /\ Shown = Held
    BY InitIInv, HeldSeq DEF IInv, Init, Shown, Resetting
  <2> QED
    BY <2>1, EmptySeq DEF Queue!Init, HeldIsSeq
<1>2. IInv /\ IInv' /\ [Next]_vars => [Queue!Next]_Shown
  BY NextImplements
<1> QED
  BY <1>1, <1>2, Invariance, PTL DEF Spec, QueueOfFrames, Queue!Spec

-----------------------------------------------------------------------------
(* For every buffer, set of paths and number of starts, whenever paths are *)
(* suspended or streams fail: until a join fails and leaves a thread       *)
(* behind, at most one codec thread is alive, and none when the task is    *)
(* between two calls and the codec does not run.                           *)
THEOREM OneThreadAlways == Spec => []OneThread
<1>1. IInv => OneThread
  BY DEF IInv, ThreadsAgree, OneThread
<1> QED
  BY <1>1, Invariance, PTL

(* Until a thread is left behind no frame of an earlier session is left in *)
(* the buffer or enters it, and no thread is alive while the buffer is     *)
(* reset store by store: the thread that made the old frames is gone.      *)
THEOREM FreshFramesAlways == Spec => []FreshFrames
<1>1. Init => FreshFrames
  BY DEF Init, FreshFrames, Resetting
<1>2. ASSUME IInv, IInv', FreshFrames, [Next]_vars
      PROVE  FreshFrames'
  <2> DEFINE Fresh == \A i \in 1 .. numElements : Held[i].session = codecThread
  <2>0. SUFFICES ASSUME ~abandoned', task'.pc \notin Resetting
                 PROVE  Fresh'
    BY <1>2 DEF FreshFrames, IInv, ThreadsAgree, Starting
  <2>a. ~abandoned
    BY <1>2, <2>0, AbandonedStays DEF IInv, TypeOK
  <2>1. HeldIsSeq
    BY <1>2, HeldSeq DEF IInv
  <2>2. CASE ResetStep \/ StartCreates
    <3>1. numElements' = 0
      <4>1. CASE ResetStep
        BY <1>2, <2>0, <4>1
        DEF ResetStep, StartResetsReadPos, StartResetsWritePos, StartEmpties,
            Emptied, TaskAt, Resetting, IInv, TypeOK, TaskState
      <4>2. CASE StartCreates
        BY <1>2, <2>a, <4>2 DEF StartCreates, ring, IInv, ResetAgrees
      <4> QED
        BY <2>2, <4>1, <4>2
    <3> QED
      BY <3>1
  <2>b. CASE ~ResetStep /\ ~StartCreates
    <3>1. Otherwise
      BY <1>2, <2>a, <2>b, NextOtherwise DEF IInv
    <3>2. task.pc \notin Resetting
      BY <2>0, <3>1 DEF Otherwise
    <3>3. Fresh /\ RingAgrees
      BY <1>2, <2>a, <3>2 DEF FreshFrames, IInv, ResetAgrees
    <3>4. codecThread' = codecThread
      <4>1. CASE UNCHANGED vars
        BY <4>1 DEF vars, control
      <4>2. CASE TaskCalls
        BY <4>2 DEF TaskCalls, StartCalled, StopCalled, TransferCalled, control
      <4>3. CASE TaskStep
        BY <2>b, <4>3
        DEF ResetStep, TaskStep, StartDecided, StartBegins, StartClearsRequest, StopRequests,
            StopJoins, PopLooks, PopWaits, PopTakes, PushLooks, PushWaits, PushPuts, control
      <4>4. ASSUME NEW s \in Threads, ThreadStep(s)
            PROVE  codecThread' = codecThread
        BY <4>4 DEF ThreadStep, ThreadOpens, ThreadLoops, ThreadChecksPath, ThreadData,
                    ThreadEncodes, ThreadDecodes, ThreadQuits, ThreadDetaches, ThreadClears,
                    control
      <4> QED
        BY <1>2, <4>1, <4>2, <4>3, <4>4 DEF Next
    <3>5. ASSUME NEW f \in Frame, f.session = codecThread, PushElement(f),
                 numElements < BufSize
          PROVE  Fresh'
      <4>1. Held' = Append(Held, f) /\ numElements' = numElements + 1
        BY <1>2, <3>3, <3>5, PushAppends DEF IInv, PushElement
      <4>2. Held \in Seq(Frame) /\ Len(Held) = numElements /\ numElements \in Nat
        BY <1>2, <2>1 DEF HeldIsSeq, IInv, TypeOK
      <4>3. ASSUME NEW i \in 1 .. numElements + 1
            PROVE  Append(Held, f)[i] = IF i = numElements + 1 THEN f ELSE Held[i]
        BY <4>2
      <4> QED
        BY <3>3, <3>4, <3>5, <4>1, <4>2, <4>3
    <3>6. ASSUME NEW f \in Frame, f.session = codecThread, EncodeElement(f)
          PROVE  Fresh'
      <4>1. CASE numElements < BufSize
        <5>1. PushElement(f)
          BY <1>2, <3>6, <4>1, BufAssumption DEF EncodeElement, PushElement, IInv, TypeOK
        <5> QED
          BY <3>5, <3>6, <4>1, <5>1
      <4>2. CASE ~(numElements < BufSize)
        <5>1. numElements = BufSize /\ numElements' = numElements /\ numElements > 0
          BY <1>2, <3>6, <4>2, BufAssumption DEF EncodeElement, IInv, TypeOK
        <5>2. Held' = Append(Tail(Held), f)
          BY <1>2, <3>3, <3>6, <5>1, EncodeReplaces DEF IInv
        <5> QED
          BY <1>2, <2>1, <3>3, <3>4, <3>6, <5>1, <5>2 DEF HeldIsSeq, IInv, TypeOK
      <4> QED
        BY <4>1, <4>2
    <3>7. CASE PushPuts
      <4> DEFINE f == [session |-> codecThread, n |-> task.n]
      <4>1. f \in Frame /\ f.session = codecThread
        BY <1>2 DEF IInv, TypeOK, Frame, TaskState
      <4>2. PushElement(f) /\ numElements < BufSize
        BY <3>7 DEF PushPuts
      <4> HIDE DEF f
      <4> QED
        BY <3>5, <4>1, <4>2
    <3>8. ASSUME NEW s \in Threads, ThreadEncodes(s)
          PROVE  Fresh'
      <4> DEFINE f == [session |-> s, n |-> thread[s].n]
      <4>1. s = codecThread
        BY <1>2, <2>a, <3>8 DEF IInv, ThreadsAgree, Alive, ThreadEncodes
      <4>2. f \in Frame /\ f.session = codecThread
        BY <1>2, <4>1 DEF IInv, TypeOK, Frame, ThreadState
      <4>3. EncodeElement(f)
        BY <3>8 DEF ThreadEncodes
      <4> HIDE DEF f
      <4> QED
        BY <3>6, <4>2, <4>3
    <3>9. CASE numElements > 0 /\ PopElement
      <4>1. Held # <<>> /\ Held' = Tail(Held) /\ numElements' = numElements - 1
        BY <1>2, <3>9, PopIsTail DEF IInv, PopElement
      <4> QED
        BY <1>2, <2>1, <3>3, <3>4, <3>9, <4>1 DEF HeldIsSeq, IInv, TypeOK
    <3>10. CASE UNCHANGED ring
      BY <3>3, <3>4, <3>10 DEF ring, Held, Place
    <3>11. CASE TaskStep \/ TaskCalls
      BY <2>b, <3>7, <3>9, <3>10, <3>11
      DEF ResetStep, TaskStep, TaskCalls, StartCalled, StartDecided, StartBegins,
          StartClearsRequest, StopCalled, StopRequests, StopJoins, TransferCalled,
          PopLooks, PopWaits, PopTakes, PushLooks, PushWaits, TaskAt
    <3>12. ASSUME NEW s \in Threads, ThreadStep(s)
           PROVE  Fresh'
      BY <1>2, <3>8, <3>9, <3>10, <3>12
      DEF ThreadStep, ThreadOpens, ThreadLoops, ThreadChecksPath, ThreadData,
          ThreadDecodes, ThreadQuits, ThreadDetaches, ThreadClears, IInv, TypeOK
    <3> HIDE DEF Fresh
    <3> QED
      BY <1>2, <3>10, <3>11, <3>12 DEF Next, vars
  <2> QED
    BY <2>2, <2>b
<1> QED
  BY <1>1, <1>2, Invariance, PTL DEF Spec
=============================================================================
