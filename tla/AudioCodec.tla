----------------------------- MODULE AudioCodec -----------------------------
(***************************************************************************)
(* The audio codec (audio_codec.c): a task starts the encoder or the       *)
(* decoder for an audio path, a thread made for it moves frames between    *)
(* the audio stream and a circular buffer, and the task pops or pushes     *)
(* frames and stops the thread again.                                      *)
(*                                                                         *)
(* One task uses the codec here.  A step reads or writes the variables     *)
(* shared with the thread once, or is a critical section of data_mutex,    *)
(* which is one step since what is touched outside of it (the unlocked     *)
(* looks at numElements, each store of the reset at the start) has steps   *)
(* of its own.                                                             *)
(*                                                                         *)
(* A thread may quit by itself: its path is closed or suspended under it,  *)
(* or its stream fails.  It detaches, and only then clears running.  When  *)
(* codec_stop or a takeover tries to join it in between, the join fails    *)
(* and the thread is left behind; once it clears running the codec can be  *)
(* started over a thread that works and that nobody can stop.  abandoned   *)
(* remembers that a thread was left behind, and the properties say what    *)
(* they say until then; afterwards a reset may even fall into the middle   *)
(* of a critical section, which is no longer told apart here.              *)
(***************************************************************************)
EXTENDS Naturals, Sequences

CONSTANTS
  BufSize,      \* BUF_SIZE
  Paths,        \* audio paths the task has open
  Prio,         \* their priorities
  MaxSessions   \* bound on the times the codec is started

ASSUME BufAssumption == BufSize \in Nat \ {0}
ASSUME PrioAssumption == Prio \in [Paths -> Nat]
ASSUME SessionsAssumption == MaxSessions \in Nat

VARIABLES
  running, audioPath, reqStop,
  codecThread,  \* the last thread made; they are numbered, 0 is none yet
  readPos, writePos, numElements, dataBuffer,
  waiting,  \* the task waits for wakeup_cond
  task,     \* what the task does, with the arguments of its call
  thread,   \* thread -> what it does
  abandoned \* has a thread been left behind by a join that failed?

control == <<running, audioPath, reqStop, codecThread>>
ring == <<readPos, writePos, numElements, dataBuffer>>
vars == <<control, ring, waiting, task, thread, abandoned>>

Func == {"encode", "decode"}

Threads == 1 .. MaxSessions

(* A frame is known by the session it was made in, which is the number of  *)
(* the session's thread, and by its own number, which starts again when    *)
(* the frames before it have left the buffer.                              *)
Frame == [session : 0 .. MaxSessions, n : 0 .. BufSize]

NoFrame == [session |-> 0, n |-> 0]

Following(n) == IF n = BufSize THEN 0 ELSE n + 1

ThreadState ==
  [pc : {"none", "open", "loop", "path", "data", "frame", "quit", "detach", "clear"},
   func : Func, n : 0 .. BufSize, detached : BOOLEAN]

NoThread ==
  [pc |-> "none", func |-> "encode", n |-> 0, detached |-> FALSE]

(* The task makes the thread: what is left of startThread. *)
Resetting == {"writePos", "numElements"}
Starting == {"begin", "readPos", "reqStop", "create"} \cup Resetting

TaskState ==
  [pc : {"idle", "start", "stop", "join", "pop", "popping", "push", "pushing"}
        \cup Starting,
   path : Paths, wanted : Func, func : Func, blocking : BOOLEAN,
   starting : BOOLEAN, n : 0 .. BufSize]

Alive == {s \in Threads : thread[s].pc # "none"}

-----------------------------------------------------------------------------
(* The circular buffer. *)

Succ(pos) == IF pos = BufSize - 1 THEN 0 ELSE pos + 1

Stored(f) == dataBuffer' = [dataBuffer EXCEPT ![writePos] = f]

(* codec_pushFrame, when there is room. *)
PushElement(f) ==
  /\ Stored(f)
  /\ writePos' = Succ(writePos) /\ numElements' = numElements + 1
  /\ UNCHANGED readPos

(* Mutants of the encoder's store: the oldest frame is not skipped, and    *)
(* the frames are counted when the buffer is full.                         *)
EncodeElement_KeepOldest(f) ==
  /\ Stored(f)
  /\ writePos' = Succ(writePos)
  /\ numElements' = IF numElements < BufSize THEN numElements + 1 ELSE numElements
  /\ UNCHANGED readPos

EncodeElement_CountAll(f) ==
  /\ Stored(f)
  /\ writePos' = Succ(writePos)
  /\ readPos' = IF numElements >= BufSize THEN Succ(readPos) ELSE readPos
  /\ numElements' = numElements + 1

EncodeElement(f) ==
  /\ Stored(f)
  /\ writePos' = Succ(writePos)
  /\ readPos' = IF numElements >= BufSize THEN Succ(readPos) ELSE readPos
  /\ numElements' = IF numElements < BufSize THEN numElements + 1 ELSE numElements

PopElement ==
  /\ readPos' = Succ(readPos) /\ numElements' = numElements - 1
  /\ UNCHANGED <<writePos, dataBuffer>>

(* The count is reset at the start of a session; the mutant leaves the     *)
(* frames of the session before.                                           *)
Emptied_Not == UNCHANGED numElements

Emptied == numElements' = 0

(* pthread_cond_signal: by the encoder if the buffer was empty, by the     *)
(* decoder if it was full.  The mutant leaves the signal out.              *)
EncodeWakes == numElements = 0

DecodeWakes == numElements >= BufSize

Signal_Not(wakes) == UNCHANGED waiting

Signal(wakes) == waiting' = IF wakes THEN FALSE ELSE waiting

-----------------------------------------------------------------------------
Init ==
  /\ running = FALSE /\ reqStop = FALSE
  /\ audioPath \in Paths /\ codecThread = 0
  /\ readPos = 0 /\ writePos = 0 /\ numElements = 0
  /\ dataBuffer = [p \in 0 .. BufSize - 1 |-> NoFrame]
  /\ waiting = FALSE
  /\ task = [pc |-> "idle", path |-> audioPath, wanted |-> "encode",
             func |-> "encode", blocking |-> FALSE, starting |-> FALSE, n |-> 0]
  /\ thread = [s \in Threads |-> NoThread]
  /\ abandoned = FALSE

TaskAt(from, to) == task.pc = from /\ task' = [task EXCEPT !.pc = to]

(* startThread: a path which is not open is refused. *)
StartCalled ==
  /\ task.pc = "idle" /\ codecThread < MaxSessions
  /\ \E open \in BOOLEAN :
       IF open THEN \E p \in Paths, f \in Func :
                      task' = [task EXCEPT !.pc = "start", !.path = p, !.wanted = f,
                                           !.starting = TRUE]
               ELSE UNCHANGED task
  /\ UNCHANGED <<control, ring, waiting, thread, abandoned>>

(* With init_mutex: the same path again is a success, another one takes    *)
(* over if it has a higher priority or the current one is not open.        *)
StartDecided ==
  /\ task.pc = "start"
  /\ \E open \in BOOLEAN :
       LET refused == running /\ task.path # audioPath
                        /\ open /\ Prio[audioPath] >= Prio[task.path]
           already == running /\ task.path = audioPath
       IN task' = [task EXCEPT !.pc = IF refused \/ already THEN "idle"
                                      ELSE IF running THEN "stop" ELSE "begin",
                               !.starting = ~(refused \/ already)]
  /\ UNCHANGED <<control, ring, waiting, thread, abandoned>>

StartBegins ==
  /\ TaskAt("begin", "readPos")
  /\ running' = TRUE /\ audioPath' = task.path
  /\ UNCHANGED <<reqStop, codecThread, ring, waiting, thread, abandoned>>

(* The reset, store by store and without a mutex. *)
StartResetsReadPos ==
  /\ TaskAt("readPos", "writePos")
  /\ readPos' = 0
  /\ UNCHANGED <<control, writePos, numElements, dataBuffer, waiting, thread, abandoned>>

StartResetsWritePos ==
  /\ TaskAt("writePos", "numElements")
  /\ writePos' = 0
  /\ UNCHANGED <<control, readPos, numElements, dataBuffer, waiting, thread, abandoned>>

StartEmpties ==
  /\ TaskAt("numElements", "reqStop")
  /\ Emptied
  /\ UNCHANGED <<control, readPos, writePos, dataBuffer, waiting, thread, abandoned>>

StartClearsRequest ==
  /\ TaskAt("reqStop", "create")
  /\ reqStop' = FALSE
  /\ UNCHANGED <<running, audioPath, codecThread, ring, waiting, thread, abandoned>>

StartCreates ==
  /\ task.pc = "create"
  /\ task' = [task EXCEPT !.pc = "idle", !.starting = FALSE,
                          !.func = task.wanted, !.n = 0]
  /\ codecThread' = codecThread + 1
  /\ thread' = [thread EXCEPT ![codecThread + 1] =
                  [pc |-> "open", func |-> task.wanted, n |-> 0, detached |-> FALSE]]
  /\ UNCHANGED <<running, audioPath, reqStop, ring, waiting, abandoned>>

(* codec_stop of a path. *)
StopCalled ==
  /\ task.pc = "idle"
  /\ \E p \in Paths :
       task' = [task EXCEPT !.pc = IF running /\ audioPath = p THEN "stop" ELSE "idle"]
  /\ UNCHANGED <<control, ring, waiting, thread, abandoned>>

(* stopThread: the request, then the join. *)
StopRequests ==
  /\ TaskAt("stop", "join")
  /\ reqStop' = TRUE
  /\ UNCHANGED <<running, audioPath, codecThread, ring, waiting, thread, abandoned>>

(* pthread_join waits for the end of the thread.  It may fail at once for  *)
(* one that has detached: that one is left behind.  The mutant does not    *)
(* wait.                                                                   *)
Joined_Always == TRUE

Joined == codecThread \in Alive => thread[codecThread].detached

LeavesBehind == codecThread \in Alive /\ thread[codecThread].detached

StopJoins ==
  /\ TaskAt("join", IF task.starting THEN "begin" ELSE "idle")
  /\ Joined
  /\ running' = FALSE
  /\ abandoned' = (abandoned \/ LeavesBehind)
  /\ UNCHANGED <<audioPath, reqStop, codecThread, ring, waiting, thread>>

-----------------------------------------------------------------------------
(* codec_popFrame while encoding, codec_pushFrame while decoding. *)

TransferCalled(func, pc) ==
  /\ task.pc = "idle" /\ task.func = func
  /\ IF running THEN \E blocking \in BOOLEAN :
                        task' = [task EXCEPT !.pc = pc, !.blocking = blocking]
                ELSE UNCHANGED task
  /\ UNCHANGED <<control, ring, waiting, thread, abandoned>>

(* The look at the buffer without the mutex. *)
PopLooks ==
  /\ TaskAt("pop", IF numElements = 0 /\ ~task.blocking THEN "idle" ELSE "popping")
  /\ UNCHANGED <<control, ring, waiting, thread, abandoned>>

PushLooks ==
  /\ TaskAt("push", IF numElements >= BufSize /\ ~task.blocking THEN "idle" ELSE "pushing")
  /\ UNCHANGED <<control, ring, waiting, thread, abandoned>>

PopWaits ==
  /\ task.pc = "popping" /\ ~waiting /\ numElements = 0
  /\ waiting' = TRUE
  /\ UNCHANGED <<control, ring, task, thread, abandoned>>

PopTakes ==
  /\ TaskAt("popping", "idle") /\ ~waiting /\ numElements > 0
  /\ PopElement
  /\ UNCHANGED <<control, waiting, thread, abandoned>>

PushWaits ==
  /\ task.pc = "pushing" /\ ~waiting /\ numElements >= BufSize
  /\ waiting' = TRUE
  /\ UNCHANGED <<control, ring, task, thread, abandoned>>

PushPuts ==
  /\ task.pc = "pushing" /\ ~waiting /\ numElements < BufSize
  /\ PushElement([session |-> codecThread, n |-> task.n])
  /\ task' = [task EXCEPT !.pc = "idle", !.n = Following(@)]
  /\ UNCHANGED <<control, waiting, thread, abandoned>>

TaskStep ==
  \/ StartDecided \/ StartBegins \/ StartResetsReadPos \/ StartResetsWritePos
  \/ StartEmpties \/ StartClearsRequest \/ StartCreates \/ StopRequests \/ StopJoins
  \/ PopLooks \/ PopWaits \/ PopTakes \/ PushLooks \/ PushWaits \/ PushPuts

TaskCalls ==
  StartCalled \/ StopCalled \/ TransferCalled("encode", "pop")
                            \/ TransferCalled("decode", "push")

-----------------------------------------------------------------------------
(* encodeFunc and decodeFunc. *)

ThreadAt(s, from, to) ==
  thread[s].pc = from /\ thread' = [thread EXCEPT ![s].pc = to]

(* The stream is opened, and the decoder waits for its first period.  If   *)
(* the stream fails the decoder detaches whether or not it is to stop.     *)
ThreadOpens(s) ==
  /\ \E ok \in BOOLEAN :
       ThreadAt(s, "open", IF ok THEN "loop"
                           ELSE IF thread[s].func = "encode" THEN "quit" ELSE "detach")
  /\ UNCHANGED <<control, ring, waiting, task, abandoned>>

ThreadLoops(s) ==
  /\ ThreadAt(s, "loop", IF reqStop THEN "quit" ELSE "path")
  /\ UNCHANGED <<control, ring, waiting, task, abandoned>>

ThreadChecksPath(s) ==
  /\ \E open \in BOOLEAN :
       ThreadAt(s, "path", IF ~open THEN "quit"
                           ELSE IF thread[s].func = "encode" THEN "data" ELSE "frame")
  /\ UNCHANGED <<control, ring, waiting, task, abandoned>>

(* The next half of the audio buffer: read before a frame is encoded,      *)
(* written after one was decoded.                                          *)
ThreadData(s) ==
  /\ \E ok \in BOOLEAN :
       ThreadAt(s, "data", IF ~ok THEN "quit"
                           ELSE IF thread[s].func = "encode" THEN "frame" ELSE "loop")
  /\ UNCHANGED <<control, ring, waiting, task, abandoned>>

ThreadEncodes(s) ==
  /\ thread[s].pc = "frame" /\ thread[s].func = "encode"
  /\ EncodeElement([session |-> s, n |-> thread[s].n])
  /\ Signal(EncodeWakes)
  /\ thread' = [thread EXCEPT ![s].pc = "loop", ![s].n = Following(@)]
  /\ UNCHANGED <<control, task, abandoned>>

ThreadDecodes(s) ==
  /\ thread[s].func = "decode" /\ ThreadAt(s, "frame", "data")
  /\ IF numElements # 0 THEN PopElement /\ Signal(DecodeWakes)
                        ELSE UNCHANGED <<ring, waiting>>
  /\ UNCHANGED <<control, task, abandoned>>

(* A thread that was not asked to stop detaches: the look at reqStop and   *)
(* the call of pthread_detach are two steps, and the request may come in   *)
(* between.                                                                *)
ThreadQuits(s) ==
  /\ ThreadAt(s, "quit", IF reqStop THEN "clear" ELSE "detach")
  /\ UNCHANGED <<control, ring, waiting, task, abandoned>>

ThreadDetaches(s) ==
  /\ thread[s].pc = "detach"
  /\ thread' = [thread EXCEPT ![s].pc = "clear", ![s].detached = TRUE]
  /\ UNCHANGED <<control, ring, waiting, task, abandoned>>

(* The last that a thread does to what it shares. *)
ThreadClears(s) ==
  /\ thread[s].pc = "clear" /\ thread' = [thread EXCEPT ![s] = NoThread]
  /\ running' = FALSE
  /\ UNCHANGED <<audioPath, reqStop, codecThread, ring, waiting, task, abandoned>>

ThreadStep(s) ==
  \/ ThreadOpens(s) \/ ThreadLoops(s) \/ ThreadChecksPath(s) \/ ThreadData(s)
  \/ ThreadEncodes(s) \/ ThreadDecodes(s) \/ ThreadQuits(s) \/ ThreadDetaches(s)
  \/ ThreadClears(s)

Next == TaskCalls \/ TaskStep \/ \E s \in Threads : ThreadStep(s)

Spec == Init /\ [][Next]_vars

(* The task and the threads are scheduled; the stream delivers a period of *)
(* audio after another.  Nothing makes the task call the codec.            *)
FairSpec == Spec /\ WF_vars(TaskStep) /\ \A s \in Threads : WF_vars(ThreadStep(s))

-----------------------------------------------------------------------------
TypeOK ==
  /\ running \in BOOLEAN /\ reqStop \in BOOLEAN /\ waiting \in BOOLEAN
  /\ audioPath \in Paths /\ codecThread \in 0 .. MaxSessions
  /\ readPos \in 0 .. BufSize - 1 /\ writePos \in 0 .. BufSize - 1
  /\ numElements \in 0 .. BufSize
  /\ dataBuffer \in [0 .. BufSize - 1 -> Frame]
  /\ task \in TaskState /\ thread \in [Threads -> ThreadState]
  /\ abandoned \in BOOLEAN

(* What the ring holds, the oldest frame first. *)
Place(i) ==
  IF readPos + i - 1 < BufSize THEN readPos + i - 1 ELSE readPos + i - 1 - BufSize

Held == [i \in 1 .. numElements |-> dataBuffer[Place(i)]]

(* A start empties the queue with its first store, and nothing is said of  *)
(* the queue once a thread has been left behind: it counts as emptied.     *)
Shown == IF abandoned \/ task.pc \in Resetting THEN <<>> ELSE Held

Queue == INSTANCE FrameQueue WITH frames <- Shown, Frames <- Frame, Capacity <- BufSize

(* Until a thread is left behind the circular buffer, filled and emptied   *)
(* by two threads, is the queue of FrameQueue: frames in order, only the   *)
(* oldest or a whole session lost, and the half done reset seen by nobody. *)
QueueOfFrames == Queue!Spec

(* Until a thread is left behind at most one encodes or decodes, also when *)
(* threads quit by themselves, and one that codec_stop has waited for, or  *)
(* for which another has started, is gone: when the codec does not run and *)
(* the task has nothing to do, no thread is alive.  (A thread that has     *)
(* detached but not yet cleared running is left behind by the join, and    *)
(* then neither holds: audio_codec.c:257-259.)                             *)
OneThread ==
  ~abandoned =>
    /\ \A s, t \in Alive : s = t
    /\ (task.pc = "idle" /\ ~running) => Alive = {}

(* Until a thread is left behind no frame of an earlier session is popped  *)
(* or heard in a later one: what the buffer holds was made since the last  *)
(* start, and while a start resets it store by store no thread is alive.   *)
FreshFrames ==
  ~abandoned =>
    IF task.pc \in Resetting THEN Alive = {}
    ELSE \A i \in 1 .. numElements : Held[i].session = codecThread

(* A blocking codec_popFrame or codec_pushFrame returns unless the thread  *)
(* has quit by itself, which wakes nobody (audio_codec.c:125 and 157), or  *)
(* one was left behind before: the signal of a thread that works is not    *)
(* lost between the look at the buffer and the wait.  codec_stop and the   *)
(* takeover always return, as the thread sees the request or is gone.      *)
CallsReturn ==
  /\ task.pc \in {"popping", "pushing"}
       ~> (task.pc = "idle" \/ codecThread \notin Alive \/ abandoned)
  /\ task.pc = "stop" ~> task.pc \in {"idle", "begin"}
=============================================================================
