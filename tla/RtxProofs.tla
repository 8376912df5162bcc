------------------------------ MODULE RtxProofs ------------------------------
(***************************************************************************)
(* Proofs about Rtx, for every set of modes, every compatibility relation  *)
(* of the driver and all the bounds: the audio steps of the three threads  *)
(* are steps of the arbiter, so what is proved of AudioPath holds for the  *)
(* whole system; no path is leaked; a mode that is left leaves nothing     *)
(* behind; and the last configuration is the one applied.                  *)
(*                                                                         *)
(* No path is leaked because every request of an owner comes when its      *)
(* last path is closed.  Which owners are closed depends on the mode, its  *)
(* status and the place of the task: PlacesAgree and ShutPaths say how.    *)
(* The second part is about what is open while a mode talks or listens.    *)
(***************************************************************************)
EXTENDS Rtx, AudioPathProofs

Shut(o) == path[o] \notin Live

(* The ids of owners and of live paths have been given out. *)
PathsKnown ==
  /\ path \in [Owner -> Int]
  /\ \A o \in Owner : path[o] \in -1 .. (pathCounter - 1)
  /\ pathCounter \in 1 .. (MaxPathId + 1)
  /\ Live \subseteq 1 .. (pathCounter - 1)

LEMMA RequestStep ==
  ASSUME PathsKnown, NoPathLeaked, NEW o \in Owner, NEW r \in Requests,
         RequestFor(o, r[1], r[2]), Shut(o)
  PROVE  /\ PathsKnown' /\ NoPathLeaked' /\ Next
         /\ \A q \in Owner \ {o} : Shut(q) => Shut(q)'
         /\ ~Granted(r[1], r[2]) => Shut(o)'
<1> DEFINE pair == r[1]  prio == r[2]
<1>1. CASE Open(pair, prio)
  <2>1. /\ Granted(pair, prio) /\ Live' = Live \cup {pathCounter}
        /\ pathCounter' = pathCounter + 1
        /\ pathCounter \in 1 .. MaxPathId
        /\ path' = [path EXCEPT ![o] = pathCounter]
    BY <1>1, MaxPathIdAssumption DEF Open, Live, RequestFor, Request, PathsKnown
  <2>2. path'[o] = pathCounter /\ \A q \in Owner \ {o} : path'[q] = path[q]
    BY <2>1 DEF PathsKnown
  <2>3. PathsKnown'
    BY <2>1, <2>2, MaxPathIdAssumption DEF PathsKnown
  <2>4. NoPathLeaked'
    BY <2>1, <2>2 DEF NoPathLeaked, Shut
  <2>5. \A q \in Owner \ {o} : Shut(q) => Shut(q)'
    BY <2>1, <2>2 DEF PathsKnown, Shut
  <2> QED
    BY <2>1, <2>3, <2>4, <2>5 DEF RequestFor, Next
<1>2. CASE Deny(pair, prio)
  <2>1. /\ ~Granted(pair, prio) /\ UNCHANGED vars /\ UNCHANGED <<Live, pathCounter>>
        /\ path' = [path EXCEPT ![o] = -1]
    BY <1>2 DEF Deny, vars, Live, RequestFor
  <2>2. path'[o] = -1 /\ \A q \in Owner \ {o} : path'[q] = path[q]
    BY <2>1 DEF PathsKnown
  <2>3. PathsKnown'
    BY <2>1, <2>2 DEF PathsKnown
  <2>4. NoPathLeaked'
    BY <2>1, <2>2 DEF NoPathLeaked, Shut
  <2>5. \A q \in Owner : Shut(q) => Shut(q)'
    BY <2>1, <2>2, <2>3 DEF PathsKnown, Shut
  <2>6. Shut(o)'
    BY <2>1, <2>2 DEF PathsKnown, Shut
  <2> QED
    BY <2>3, <2>4, <2>5, <2>6 DEF RequestFor, Next
<1> QED
  BY <1>1, <1>2 DEF RequestFor, Request

(* A release, after which the owner keeps the id or not. *)
Frees(o) ==
  /\ Release(path[o])
  /\ path' = path \/ path' = [path EXCEPT ![o] = -1]

LEMMA ReleaseStep ==
  ASSUME PathsKnown, NoPathLeaked, NEW o \in Owner, Frees(o)
  PROVE  /\ PathsKnown' /\ NoPathLeaked' /\ Next
         /\ Shut(o)' /\ \A q \in Owner : Shut(q) => Shut(q)'
<1>1. Live' = Live \ {path[o]} /\ pathCounter' = pathCounter
  <2>1. CASE Close(path[o])
    BY <2>1 DEF Close, Live
  <2>2. CASE CloseUnknown(path[o])
    BY <2>2 DEF CloseUnknown, vars, Live
  <2> QED
    BY <2>1, <2>2 DEF Frees, Release
<1>2. /\ path'[o] \in {path[o], -1} /\ \A q \in Owner \ {o} : path'[q] = path[q]
      /\ path' \in [Owner -> Int]
  BY DEF Frees, PathsKnown
<1>3. PathsKnown'
  <2>1. pathCounter' = pathCounter /\ Live' \subseteq 1 .. (pathCounter - 1)
    BY <1>1 DEF PathsKnown
  <2>2. \A q \in Owner : path'[q] = path[q] \/ path'[q] = -1
    BY <1>2
  <2>3. \A q \in Owner : path'[q] \in -1 .. (pathCounter - 1)
    BY <2>2 DEF PathsKnown
  <2> QED
    BY <1>2, <2>1, <2>3 DEF PathsKnown
<1>4. NoPathLeaked'
  BY <1>1, <1>2 DEF NoPathLeaked
<1>5. Shut(o)' /\ \A q \in Owner : Shut(q) => Shut(q)'
  BY <1>1, <1>2, <1>3 DEF PathsKnown, Shut
<1>6. path[o] \in -1 .. MaxPathId
  BY MaxPathIdAssumption DEF PathsKnown
<1> QED
  BY <1>3, <1>4, <1>5, <1>6 DEF Frees, Next

LEMMA QuietStep ==
  ASSUME PathsKnown, NoPathLeaked, UNCHANGED audio
  PROVE  /\ PathsKnown' /\ NoPathLeaked' /\ UNCHANGED vars
         /\ \A q \in Owner : Shut(q)' <=> Shut(q)
<1>1. UNCHANGED <<vars, path, pathCounter, Live>>
  BY DEF audio, vars, Live
<1> QED
  BY <1>1 DEF PathsKnown, NoPathLeaked, Shut

-----------------------------------------------------------------------------
(* Where the task is agrees with the mode it runs and with its status. *)
FmPlaces == {"fmRx", "fmTx", "fmTalk", "fmEnd"}
M17Receives == {"m17Rx", "m17Open", "m17Status", "m17Decode", "m17Push", "m17Ptt"}
M17Sends == {"m17Encode", "m17Modulate", "m17TxFrame"}
M17Places ==
  M17Receives \cup M17Sends \cup
  {"m17Off", "m17Leave", "m17RxStart", "m17Stop", "m17Close", "m17TxStart", "m17TxEnd"}

PlacesAgree ==
  /\ pc \in FmPlaces => rtx.mode = "FM"
  /\ pc \in M17Places => rtx.mode = "M17"
  /\ pc \in {"m17Off", "m17Leave", "m17TxEnd"} => rtx.opStatus = "OFF"
  /\ pc = "m17RxStart" => rtx.opStatus = "RX" /\ rtx.startRx
  /\ pc \in M17Receives => rtx.opStatus = "RX" /\ ~rtx.startRx
  /\ pc = "m17TxStart" => rtx.opStatus = "TX" /\ rtx.startTx
  /\ pc \in M17Sends => rtx.opStatus = "TX" /\ ~rtx.startTx
  /\ pc = "fmTalk" => rtx.opStatus # "TX"

(* The places of disable() and enable(), in their order. *)
Leaving == {"disableRx", "disableTx", "disableOut", "disableIn", "enable"}

(* Which paths are closed: in FM, in M17, and on the way out of a mode. *)
ShutInFm ==
  /\ ~rtx.sqlOpen \/ rtx.opStatus = "TX" \/ pc = "fmTalk" => Shut("rx")
  /\ rtx.opStatus # "TX" => Shut("tx")

ShutInM17 ==
  /\ ~(rtx.opStatus = "RX" /\ ~rtx.startRx) => Shut("in")
  /\ rtx.opStatus # "TX" /\ pc # "m17TxEnd" => Shut("out")
  /\ rtx.opStatus = "TX" /\ rtx.startTx => Shut("tx") /\ Shut("out")
  /\ pc \in {"m17Encode", "m17Modulate"} => Shut("out")

ShutOnLeaving ==
  /\ pc \in {"disableTx", "disableOut", "disableIn", "enable"} => Shut("rx")
  /\ pc \in {"disableOut", "disableIn", "enable"} => Shut("tx") /\ rtx.radio = "off"
  /\ pc \in {"disableIn", "enable"} => Shut("out")
  /\ pc = "enable" => Shut("in")

ShutPaths ==
  /\ rtx.mode # "M17" => Shut("in") /\ Shut("out")
  /\ rtx.mode = "NONE" => Shut("rx") /\ Shut("tx") /\ rtx.radio = "off"
  /\ rtx.mode = "FM" /\ pc \notin Leaving => ShutInFm
  /\ rtx.mode = "M17" /\ pc \notin Leaving => ShutInM17
  /\ ShutOnLeaving

RInv == RtxTypeOK /\ PathsKnown /\ NoPathLeaked /\ PlacesAgree /\ ShutPaths

-----------------------------------------------------------------------------
(* The first step of a mode's update fits its status. *)
FirstPlaces ==
  {"config", "fmRx", "m17Off", "m17RxStart", "m17Rx", "m17TxStart", "m17TxFrame"}

LEMMA FirstStepAgrees ==
  ASSUME rtx' \in RtxState, pc' = FirstStep(rtx'.mode, rtx')
  PROVE  PlacesAgree' /\ pc' \in FirstPlaces
<1> USE DEF PlacesAgree, FmPlaces, M17Places, M17Receives, M17Sends, FirstPlaces
<1>1. /\ rtx'.mode \in {"NONE", "FM", "M17"} /\ rtx'.opStatus \in {"OFF", "RX", "TX"}
      /\ rtx'.startRx \in BOOLEAN /\ rtx'.startTx \in BOOLEAN
  BY ModesAssumption DEF RtxState
<1>2. CASE rtx'.mode = "NONE"
  <2>1. pc' = "config"
    BY <1>2 DEF FirstStep
  <2> QED
    BY <2>1
<1>3. CASE rtx'.mode = "FM"
  <2>1. pc' = "fmRx"
    BY <1>3 DEF FirstStep
  <2> QED
    BY <1>3, <2>1
<1>4. CASE rtx'.mode = "M17" /\ rtx'.opStatus = "OFF"
  <2>1. pc' = "m17Off"
    BY <1>4 DEF FirstStep
  <2> QED
    BY <1>4, <2>1
<1>5. CASE rtx'.mode = "M17" /\ rtx'.opStatus = "RX"
  <2>1. pc' = IF rtx'.startRx THEN "m17RxStart" ELSE "m17Rx"
    BY <1>5 DEF FirstStep
  <2> QED
    BY <1>5, <2>1
<1>6. CASE rtx'.mode = "M17" /\ rtx'.opStatus = "TX"
  <2>1. pc' = IF rtx'.startTx THEN "m17TxStart" ELSE "m17TxFrame"
    BY <1>6 DEF FirstStep
  <2> QED
    BY <1>6, <2>1
<1> QED
  BY <1>1, <1>2, <1>3, <1>4, <1>5, <1>6

LEMMA InitRInv == RtxInit => RInv
<1> SUFFICES ASSUME RtxInit PROVE RInv
  OBVIOUS
<1>1. Live = {} /\ pathCounter = 1
  BY DEF RtxInit, Init, Live
<1>2. path \in [Owner -> Int] /\ \A o \in Owner : path[o] \in -1 .. 0
  BY DEF RtxInit, Owner
<1>3. PathsKnown /\ NoPathLeaked /\ \A o \in Owner : Shut(o)
  BY <1>1, <1>2, MaxPathIdAssumption DEF PathsKnown, NoPathLeaked, Shut
<1>4. RtxTypeOK
  <2>1. rtx \in RtxState /\ codec \in [path : Int, dir : {"stopped", "decode", "encode"}]
    BY DEF RtxInit, RtxState, Config, Stopped
  <2>2. ui \in UiState
    BY SizesAssumption DEF RtxInit, UiState, Config
  <2>3. queue \in Seq({"speech", "call", "prompt"}) /\ Len(queue) <= BufSize
    BY SizesAssumption DEF RtxInit
  <2>4. {pending, ptt, calling} \subseteq BOOLEAN
    BY Zenon DEF RtxInit
  <2>5. budget \in 0 .. MaxEvents
    BY SizesAssumption DEF RtxInit
  <2> QED
    BY <1>2, <2>1, <2>2, <2>3, <2>4, <2>5 DEF RtxTypeOK
<1>5. PlacesAgree
  BY DEF RtxInit, PlacesAgree, FmPlaces, M17Places, M17Receives, M17Sends
<1>6. ShutPaths
  BY <1>3 DEF RtxInit, ShutPaths, ShutOnLeaving, ShutInFm, ShutInM17, Owner
<1> QED
  BY <1>3, <1>4, <1>5, <1>6 DEF RInv

-----------------------------------------------------------------------------
(* What every step has to keep of the audio paths. *)
PathsKept == PathsKnown' /\ NoPathLeaked' /\ [Next]_vars

(* The ways a step of the task treats the paths. *)
LEMMA TaskQuiet ==
  ASSUME RInv, UNCHANGED audio
  PROVE  PathsKept /\ \A q \in Owner : Shut(q) => Shut(q)'
  BY QuietStep DEF RInv, PathsKept

LEMMA TaskFrees ==
  ASSUME RInv, NEW o \in Owner, Frees(o)
  PROVE  PathsKept /\ Shut(o)' /\ \A q \in Owner : Shut(q) => Shut(q)'
  BY ReleaseStep DEF RInv, PathsKept

LEMMA TaskAsks ==
  ASSUME RInv, NEW o \in Owner, NEW pair, NEW prio, <<pair, prio>> \in Asked,
         RequestFor(o, pair, prio), Shut(o)
  PROVE  /\ PathsKept /\ \A q \in Owner \ {o} : Shut(q) => Shut(q)'
         /\ ~Granted(pair, prio) => Shut(o)'
<1> DEFINE r == <<pair, prio>>
<1>1. r \in Requests /\ r[1] = pair /\ r[2] = prio
  BY AskedAssumption
<1>2. RequestFor(o, r[1], r[2])
  BY <1>1
<1> HIDE DEF r
<1> QED
  BY <1>1, <1>2, RequestStep DEF RInv, PathsKept

(* Taking a configuration and changing the mode. *)
LEMMA ConfigSteps ==
  ASSUME RInv, TakeConfig \/ NoConfig \/ Enable
         \/ Disable("disableRx", "rx") \/ Disable("disableTx", "tx")
         \/ Disable("disableOut", "out") \/ Disable("disableIn", "in")
  PROVE  PathsKept /\ rtx' \in RtxState /\ PlacesAgree' /\ ShutPaths'
<1> USE DEF RInv, RtxTypeOK, RtxState, Config, PlacesAgree, FmPlaces, M17Places,
            M17Receives, M17Sends
<1>1. CASE TakeConfig
  <2>1. PathsKept /\ \A q \in Owner : Shut(q) => Shut(q)'
    BY <1>1, TaskQuiet DEF TakeConfig
  <2>2. rtx' \in RtxState
    BY <1>1 DEF TakeConfig, UiState
  <2>3. CASE rtx'.cfg.opMode = rtx.mode
    <3>1. /\ rtx'.mode = rtx.mode /\ rtx'.opStatus = rtx.opStatus
          /\ rtx'.startRx = rtx.startRx /\ rtx'.startTx = rtx.startTx
          /\ rtx'.sqlOpen = rtx.sqlOpen /\ rtx'.radio = rtx.radio
          /\ pc = "config" /\ pc' = FirstStep(rtx.mode, rtx)
      BY <1>1, <2>2, <2>3 DEF TakeConfig
    <3>2. PlacesAgree' /\ pc' \in FirstPlaces
      <4>1. FirstStep(rtx.mode, rtx) = FirstStep(rtx'.mode, rtx')
        BY <3>1 DEF FirstStep
      <4> QED
        BY <2>2, <3>1, <4>1, FirstStepAgrees
    <3>3. ShutPaths'
      BY <2>1, <3>1, <3>2
      DEF FirstPlaces, ShutPaths, ShutOnLeaving, ShutInFm, ShutInM17, Leaving, Owner
    <3> QED
      BY <2>1, <2>2, <3>2, <3>3
  <2>4. CASE rtx'.cfg.opMode # rtx.mode
    <3>1. /\ rtx'.mode = rtx.mode /\ rtx'.radio = rtx.radio
          /\ pc' = IF rtx.mode = "NONE" THEN "enable" ELSE "disableRx"
      BY <1>1, <2>2, <2>4 DEF TakeConfig
    <3>2. PlacesAgree'
      BY <3>1
    <3>3. ShutPaths'
      BY <2>1, <3>1
      DEF ShutPaths, ShutOnLeaving, ShutInFm, ShutInM17, Leaving, Owner
    <3> QED
      BY <2>1, <2>2, <3>2, <3>3
  <2> QED
    BY <2>3, <2>4
<1>2. CASE NoConfig
  <2>1. PathsKept /\ \A q \in Owner : Shut(q) => Shut(q)'
    BY <1>2, TaskQuiet DEF NoConfig
  <2>2. rtx' \in RtxState
    BY <1>2 DEF NoConfig
  <2>3. rtx' = rtx /\ pc = "config" /\ pc' = FirstStep(rtx.mode, rtx)
    BY <1>2 DEF NoConfig
  <2>4. PlacesAgree' /\ pc' \in FirstPlaces
    BY <2>2, <2>3, FirstStepAgrees
  <2>5. ShutPaths'
    BY <2>1, <2>3, <2>4
    DEF FirstPlaces, ShutPaths, ShutOnLeaving, ShutInFm, ShutInM17, Leaving, Owner
  <2> QED
    BY <2>1, <2>2, <2>4, <2>5
<1>3. CASE Enable
  <2>1. PathsKept /\ \A q \in Owner : Shut(q) => Shut(q)'
    BY <1>3, TaskQuiet DEF Enable
  <2>2. rtx' \in RtxState
    BY <1>3 DEF Enable
  <2>3. /\ pc = "enable" /\ pc' = FirstStep(rtx'.mode, rtx')
        /\ rtx'.opStatus = "OFF" /\ rtx'.radio = rtx.radio
    BY <1>3 DEF Enable
  <2>4. PlacesAgree' /\ pc' \in FirstPlaces
    BY <2>2, <2>3, FirstStepAgrees
  <2>5. ShutPaths'
    BY <2>1, <2>3, <2>4
    DEF FirstPlaces, ShutPaths, ShutOnLeaving, ShutInFm, ShutInM17, Leaving, Owner
  <2> QED
    BY <2>1, <2>2, <2>4, <2>5
<1>4. CASE Disable("disableRx", "rx")
  <2>1. PathsKept /\ Shut("rx")' /\ \A q \in Owner : Shut(q) => Shut(q)'
    BY <1>4, TaskFrees DEF Disable, Frees, Owner
  <2>2. rtx' \in RtxState
    BY <1>4 DEF Disable, NextDisable
  <2>3. PlacesAgree'
    BY <1>4, <2>2 DEF Disable, NextDisable
  <2>4. ShutPaths'
    BY <1>4, <2>1, <2>2
    DEF Disable, NextDisable, ShutPaths, ShutOnLeaving, ShutInFm,
        ShutInM17, Leaving, Owner
  <2> QED
    BY <2>1, <2>2, <2>3, <2>4
<1>5. CASE Disable("disableTx", "tx")
  <2>1. PathsKept /\ Shut("tx")' /\ \A q \in Owner : Shut(q) => Shut(q)'
    BY <1>5, TaskFrees DEF Disable, Frees, Owner
  <2>2. rtx' \in RtxState
    BY <1>5 DEF Disable, NextDisable
  <2>3. PlacesAgree'
    BY <1>5, <2>2 DEF Disable, NextDisable
  <2>4. ShutPaths'
    BY <1>5, <2>1, <2>2
    DEF Disable, NextDisable, ShutPaths, ShutOnLeaving, ShutInFm,
        ShutInM17, Leaving, Owner
  <2> QED
    BY <2>1, <2>2, <2>3, <2>4
<1>6. CASE Disable("disableOut", "out")
  <2>1. PathsKept /\ Shut("out")' /\ \A q \in Owner : Shut(q) => Shut(q)'
    BY <1>6, TaskFrees DEF Disable, Frees, Owner
  <2>2. rtx' \in RtxState
    BY <1>6 DEF Disable, NextDisable
  <2>3. PlacesAgree'
    BY <1>6, <2>2 DEF Disable, NextDisable
  <2>4. ShutPaths'
    BY <1>6, <2>1, <2>2
    DEF Disable, NextDisable, ShutPaths, ShutOnLeaving, ShutInFm,
        ShutInM17, Leaving, Owner
  <2> QED
    BY <2>1, <2>2, <2>3, <2>4
<1>7. CASE Disable("disableIn", "in")
  <2>1. PathsKept /\ Shut("in")' /\ \A q \in Owner : Shut(q) => Shut(q)'
    BY <1>7, TaskFrees DEF Disable, Frees, Owner
  <2>2. rtx' \in RtxState
    BY <1>7 DEF Disable, NextDisable
  <2>3. PlacesAgree'
    BY <1>7, <2>2 DEF Disable, NextDisable
  <2>4. ShutPaths'
    BY <1>7, <2>1, <2>2
    DEF Disable, NextDisable, ShutPaths, ShutOnLeaving, ShutInFm,
        ShutInM17, Leaving, Owner
  <2> QED
    BY <2>1, <2>2, <2>3, <2>4
<1> QED
  BY <1>1, <1>2, <1>3, <1>4, <1>5, <1>6, <1>7

(* The FM mode. *)
LEMMA FmSteps ==
  ASSUME RInv, FmRx \/ FmTx \/ FmTalk \/ FmEnd
  PROVE  PathsKept /\ rtx' \in RtxState /\ PlacesAgree' /\ ShutPaths'
<1> USE DEF RInv, RtxTypeOK, RtxState, Config, PlacesAgree, FmPlaces, M17Places,
            M17Receives, M17Sends
<1>1. CASE /\ FmRx /\ rtx.opStatus = "RX" /\ ~rtx.sqlOpen
            /\ RequestFor("rx", <<"RTX", "SPK">>, 2)
            /\ rtx' = [rtx EXCEPT !.sqlOpen = Opened(<<"RTX", "SPK">>, 2)]
  <2>0. Shut("rx")
    BY <1>1 DEF FmRx, ShutPaths, ShutOnLeaving, ShutInFm,
        ShutInM17, Leaving
  <2>1. /\ PathsKept /\ \A q \in Owner \ {"rx"} : Shut(q) => Shut(q)'
        /\ ~Granted(<<"RTX", "SPK">>, 2) => Shut("rx")'
    BY <1>1, <2>0, TaskAsks DEF FmRx, Owner, Asked
  <2>2. rtx' \in RtxState
    BY <1>1 DEF FmRx, Opened, Granted
  <2>5. ~rtx'.sqlOpen => Shut("rx")'
    <3>1. rtx'.sqlOpen = Opened(<<"RTX", "SPK">>, 2)
      BY <1>1
    <3>2. CASE Granted(<<"RTX", "SPK">>, 2)
      BY <3>1, <3>2 DEF Opened, Granted
    <3>3. CASE ~Granted(<<"RTX", "SPK">>, 2)
      BY <2>1, <3>3
    <3> QED
      BY <3>2, <3>3
  <2>6. /\ rtx'.mode = "FM" /\ rtx'.opStatus = "RX" /\ pc' = "fmTx"
        /\ Shut("tx") /\ Shut("in") /\ Shut("out")
    BY <1>1 DEF FmRx, ShutPaths, ShutInFm, Leaving
  <2>3. PlacesAgree'
    BY <1>1, <2>2 DEF FmRx
  <2>4. ShutPaths'
    BY <2>1, <2>5, <2>6 DEF ShutPaths, ShutOnLeaving, ShutInFm,
        ShutInM17, Leaving, Owner
  <2> QED
    BY <2>1, <2>2, <2>3, <2>4
<1>2. CASE /\ FmRx /\ rtx.opStatus = "RX" /\ rtx.sqlOpen
            /\ ReleaseOf("rx") /\ rtx' = [rtx EXCEPT !.sqlOpen = FALSE]
  <2>1. PathsKept /\ Shut("rx")' /\ \A q \in Owner : Shut(q) => Shut(q)'
    BY <1>2, TaskFrees DEF FmRx, Frees, Owner, ReleaseOf
  <2>2. rtx' \in RtxState
    BY <1>2 DEF FmRx
  <2>3. PlacesAgree'
    BY <1>2, <2>2 DEF FmRx
  <2>4. ShutPaths'
    BY <1>2, <2>1, <2>2
    DEF FmRx, ShutPaths, ShutOnLeaving, ShutInFm,
        ShutInM17, Leaving, Owner
  <2> QED
    BY <2>1, <2>2, <2>3, <2>4
<1>3. CASE FmRx /\ UNCHANGED <<audio, rtx>>
  <2>1. PathsKept /\ \A q \in Owner : Shut(q) => Shut(q)'
    BY <1>3, TaskQuiet DEF FmRx
  <2>2. rtx' \in RtxState
    BY <1>3 DEF FmRx
  <2>3. PlacesAgree'
    BY <1>3, <2>2 DEF FmRx
  <2>4. ShutPaths'
    BY <1>3, <2>1, <2>2
    DEF FmRx, ShutPaths, ShutOnLeaving, ShutInFm,
        ShutInM17, Leaving, Owner
  <2> QED
    BY <2>1, <2>2, <2>3, <2>4
<1>4. CASE /\ FmRx /\ UNCHANGED audio /\ rtx.opStatus = "OFF"
            /\ rtx' = [rtx EXCEPT !.opStatus = "RX", !.radio = "rx", !.startRx = FALSE]
  <2>1. PathsKept /\ \A q \in Owner : Shut(q) => Shut(q)'
    BY <1>4, TaskQuiet DEF FmRx
  <2>2. rtx' \in RtxState
    BY <1>4 DEF FmRx
  <2>3. PlacesAgree'
    BY <1>4, <2>2 DEF FmRx
  <2>4. ShutPaths'
    BY <1>4, <2>1, <2>2
    DEF FmRx, ShutPaths, ShutOnLeaving, ShutInFm,
        ShutInM17, Leaving, Owner
  <2> QED
    BY <2>1, <2>2, <2>3, <2>4
<1>5. CASE FmTx /\ MayTalk /\ rtx.opStatus # "TX"
  <2>1. PathsKept /\ Shut("rx")' /\ \A q \in Owner : Shut(q) => Shut(q)'
    BY <1>5, TaskFrees DEF FmTx, Frees, Owner, ReleaseOf
  <2>2. rtx' \in RtxState
    BY <1>5 DEF FmTx
  <2>3. PlacesAgree'
    BY <1>5, <2>2 DEF FmTx
  <2>4. ShutPaths'
    BY <1>5, <2>1, <2>2
    DEF FmTx, ShutPaths, ShutOnLeaving, ShutInFm,
        ShutInM17, Leaving, Owner
  <2> QED
    BY <2>1, <2>2, <2>3, <2>4
<1>6. CASE FmTx /\ ~(MayTalk /\ rtx.opStatus # "TX")
  <2>1. PathsKept /\ \A q \in Owner : Shut(q) => Shut(q)'
    BY <1>6, TaskQuiet DEF FmTx
  <2>2. rtx' \in RtxState
    BY <1>6 DEF FmTx
  <2>3. PlacesAgree'
    BY <1>6, <2>2 DEF FmTx
  <2>4. ShutPaths'
    BY <1>6, <2>1, <2>2
    DEF FmTx, ShutPaths, ShutOnLeaving, ShutInFm,
        ShutInM17, Leaving, Owner
  <2> QED
    BY <2>1, <2>2, <2>3, <2>4
<1>7. CASE FmTalk
  <2>0. Shut("tx")
    BY <1>7 DEF FmTalk, ShutPaths, ShutOnLeaving, ShutInFm,
        ShutInM17, Leaving
  <2>1. /\ PathsKept /\ \A q \in Owner \ {"tx"} : Shut(q) => Shut(q)'
    BY <1>7, <2>0, TaskAsks DEF FmTalk, Owner, Asked
  <2>2. rtx' \in RtxState
    BY <1>7 DEF FmTalk
  <2>3. PlacesAgree'
    BY <1>7, <2>2 DEF FmTalk
  <2>4. ShutPaths'
    BY <1>7, <2>1, <2>2
    DEF FmTalk, ShutPaths, ShutOnLeaving, ShutInFm,
        ShutInM17, Leaving, Owner
  <2> QED
    BY <2>1, <2>2, <2>3, <2>4
<1>8. CASE FmEnd /\ ~ptt /\ rtx.opStatus = "TX"
  <2>1. PathsKept /\ Shut("tx")' /\ \A q \in Owner : Shut(q) => Shut(q)'
    BY <1>8, TaskFrees DEF FmEnd, Frees, Owner, EndTalk, ReleaseOf
  <2>2. rtx' = AfterTalk /\ pc = "fmEnd" /\ pc' = "config" /\ rtx.opStatus = "TX"
    BY <1>8 DEF FmEnd
  <2>3. rtx' \in RtxState
    BY <2>2 DEF AfterTalk
  <2>4. rtx'.mode = "FM" /\ Shut("rx") /\ Shut("in") /\ Shut("out")
    BY <2>2 DEF AfterTalk, ShutPaths, ShutInFm, Leaving
  <2>5. PlacesAgree' /\ ShutPaths'
    BY <2>1, <2>2, <2>4
    DEF ShutPaths, ShutOnLeaving, ShutInFm, ShutInM17, Leaving, Owner
  <2> QED
    BY <2>1, <2>3, <2>5
<1>9. CASE FmEnd /\ ~(~ptt /\ rtx.opStatus = "TX")
  <2>1. PathsKept /\ \A q \in Owner : Shut(q) => Shut(q)'
    BY <1>9, TaskQuiet DEF FmEnd
  <2>2. rtx' \in RtxState
    BY <1>9 DEF FmEnd
  <2>3. PlacesAgree'
    BY <1>9, <2>2 DEF FmEnd
  <2>4. ShutPaths'
    BY <1>9, <2>1, <2>2
    DEF FmEnd, ShutPaths, ShutOnLeaving, ShutInFm,
        ShutInM17, Leaving, Owner
  <2> QED
    BY <2>1, <2>2, <2>3, <2>4
<1> QED
  BY <1>1, <1>2, <1>3, <1>4, <1>5, <1>6, <1>7, <1>8, <1>9 DEF FmRx

(* The M17 mode: between states and receiving. *)
LEMMA M17ReceiveSteps ==
  ASSUME RInv, \/ M17Off \/ M17Leave \/ M17RxStart \/ M17Rx \/ M17Open \/ M17Status
         \/ M17Decode \/ M17Push \/ M17Ptt \/ M17Stop \/ M17Close
  PROVE  PathsKept /\ rtx' \in RtxState /\ PlacesAgree' /\ ShutPaths'
<1> USE DEF RInv, RtxTypeOK, RtxState, Config, PlacesAgree, FmPlaces, M17Places,
            M17Receives, M17Sends
<1>1. CASE M17Off
  <2>1. PathsKept /\ \A q \in Owner : Shut(q) => Shut(q)'
    BY <1>1, TaskQuiet DEF M17Off
  <2>2. rtx' \in RtxState
    BY <1>1 DEF M17Off
  <2>3. PlacesAgree'
    BY <1>1, <2>2 DEF M17Off
  <2>4. ShutPaths'
    BY <1>1, <2>1, <2>2
    DEF M17Off, ShutPaths, ShutOnLeaving, ShutInFm,
        ShutInM17, Leaving, Owner
  <2> QED
    BY <2>1, <2>2, <2>3, <2>4
<1>2. CASE M17Leave /\ rtx.startRx
  <2>1. PathsKept /\ Shut("tx")' /\ \A q \in Owner : Shut(q) => Shut(q)'
    BY <1>2, TaskFrees DEF M17Leave, Frees, Owner, ReleaseOf
  <2>2. rtx' \in RtxState
    BY <1>2 DEF M17Leave
  <2>3. PlacesAgree'
    BY <1>2, <2>2 DEF M17Leave
  <2>4. ShutPaths'
    BY <1>2, <2>1, <2>2
    DEF M17Leave, ShutPaths, ShutOnLeaving, ShutInFm,
        ShutInM17, Leaving, Owner
  <2> QED
    BY <2>1, <2>2, <2>3, <2>4
<1>3. CASE M17Leave /\ ~rtx.startRx /\ MayTalk
  <2>1. PathsKept /\ Shut("tx")' /\ \A q \in Owner : Shut(q) => Shut(q)'
    BY <1>3, TaskFrees DEF M17Leave, Frees, Owner, ReleaseOf
  <2>2. rtx' \in RtxState
    BY <1>3 DEF M17Leave
  <2>3. PlacesAgree'
    BY <1>3, <2>2 DEF M17Leave
  <2>4. ShutPaths'
    BY <1>3, <2>1, <2>2
    DEF M17Leave, ShutPaths, ShutOnLeaving, ShutInFm,
        ShutInM17, Leaving, Owner
  <2> QED
    BY <2>1, <2>2, <2>3, <2>4
<1>4. CASE M17Leave /\ ~rtx.startRx /\ ~MayTalk
  <2>1. PathsKept /\ Shut("tx")' /\ \A q \in Owner : Shut(q) => Shut(q)'
    BY <1>4, TaskFrees DEF M17Leave, Frees, Owner, ReleaseOf
  <2>2. rtx' \in RtxState
    BY <1>4 DEF M17Leave
  <2>3. PlacesAgree'
    BY <1>4, <2>2 DEF M17Leave
  <2>4. ShutPaths'
    BY <1>4, <2>1, <2>2
    DEF M17Leave, ShutPaths, ShutOnLeaving, ShutInFm,
        ShutInM17, Leaving, Owner
  <2> QED
    BY <2>1, <2>2, <2>3, <2>4
<1>5. CASE M17RxStart
  <2>0. Shut("in")
    BY <1>5 DEF M17RxStart, ShutPaths, ShutOnLeaving, ShutInFm,
        ShutInM17, Leaving
  <2>1. /\ PathsKept /\ \A q \in Owner \ {"in"} : Shut(q) => Shut(q)'
    BY <1>5, <2>0, TaskAsks DEF M17RxStart, Owner, Asked
  <2>2. rtx' \in RtxState
    BY <1>5 DEF M17RxStart
  <2>3. PlacesAgree'
    BY <1>5, <2>2 DEF M17RxStart
  <2>4. ShutPaths'
    BY <1>5, <2>1, <2>2
    DEF M17RxStart, ShutPaths, ShutOnLeaving, ShutInFm,
        ShutInM17, Leaving, Owner
  <2> QED
    BY <2>1, <2>2, <2>3, <2>4
<1>6. CASE M17Rx
  <2>1. PathsKept /\ \A q \in Owner : Shut(q) => Shut(q)'
    BY <1>6, TaskQuiet DEF M17Rx
  <2>5. \A d \in Demodulated : d[1] \in BOOLEAN
    <3>1. rtx.locked \in BOOLEAN
      OBVIOUS
    <3>2. CASE Status("in") # "OPEN"
      BY <3>1, <3>2 DEF Demodulated
    <3>3. CASE Status("in") = "OPEN"
      <4>1. Demodulated \subseteq BOOLEAN \X BOOLEAN
        BY <3>3 DEF Demodulated
      <4> QED
        BY <4>1
    <3> QED
      BY <3>2, <3>3
  <2>2. rtx' \in RtxState
    BY <1>6, <2>5 DEF M17Rx
  <2>3. PlacesAgree'
    BY <1>6, <2>2 DEF M17Rx
  <2>4. ShutPaths'
    BY <1>6, <2>1, <2>2
    DEF M17Rx, ShutPaths, ShutOnLeaving, ShutInFm,
        ShutInM17, Leaving, Owner
  <2> QED
    BY <2>1, <2>2, <2>3, <2>4
<1>7. CASE M17Open /\ Status("rx") = "CLOSED"
  <2>0. Shut("rx")
    BY <1>7 DEF M17Open, ShutPaths, ShutOnLeaving, ShutInFm,
        ShutInM17, Leaving, Status, getStatus, Shut
  <2>1. /\ PathsKept /\ \A q \in Owner \ {"rx"} : Shut(q) => Shut(q)'
    BY <1>7, <2>0, TaskAsks DEF M17Open, Owner, Asked
  <2>2. rtx' \in RtxState
    BY <1>7 DEF M17Open
  <2>3. PlacesAgree'
    BY <1>7, <2>2 DEF M17Open
  <2>4. ShutPaths'
    BY <1>7, <2>1, <2>2
    DEF M17Open, ShutPaths, ShutOnLeaving, ShutInFm,
        ShutInM17, Leaving, Owner
  <2> QED
    BY <2>1, <2>2, <2>3, <2>4
<1>8. CASE M17Open /\ Status("rx") # "CLOSED"
  <2>1. PathsKept /\ \A q \in Owner : Shut(q) => Shut(q)'
    BY <1>8, TaskQuiet DEF M17Open
  <2>2. rtx' \in RtxState
    BY <1>8 DEF M17Open
  <2>3. PlacesAgree'
    BY <1>8, <2>2 DEF M17Open
  <2>4. ShutPaths'
    BY <1>8, <2>1, <2>2
    DEF M17Open, ShutPaths, ShutOnLeaving, ShutInFm,
        ShutInM17, Leaving, Owner
  <2> QED
    BY <2>1, <2>2, <2>3, <2>4
<1>9. CASE M17Status
  <2>1. PathsKept /\ \A q \in Owner : Shut(q) => Shut(q)'
    BY <1>9, TaskQuiet DEF M17Status
  <2>2. rtx' \in RtxState
    BY <1>9 DEF M17Status
  <2>3. PlacesAgree'
    BY <1>9, <2>2 DEF M17Status
  <2>4. ShutPaths'
    BY <1>9, <2>1, <2>2
    DEF M17Status, ShutPaths, ShutOnLeaving, ShutInFm,
        ShutInM17, Leaving, Owner
  <2> QED
    BY <2>1, <2>2, <2>3, <2>4
<1>10. CASE M17Decode
  <2>1. PathsKept /\ \A q \in Owner : Shut(q) => Shut(q)'
    BY <1>10, TaskQuiet DEF M17Decode
  <2>2. rtx' \in RtxState
    BY <1>10 DEF M17Decode
  <2>3. PlacesAgree'
    BY <1>10, <2>2 DEF M17Decode
  <2>4. ShutPaths'
    BY <1>10, <2>1, <2>2
    DEF M17Decode, ShutPaths, ShutOnLeaving, ShutInFm,
        ShutInM17, Leaving, Owner
  <2> QED
    BY <2>1, <2>2, <2>3, <2>4
<1>11. CASE M17Push
  <2>1. PathsKept /\ \A q \in Owner : Shut(q) => Shut(q)'
    BY <1>11, TaskQuiet DEF M17Push
  <2>2. rtx' \in RtxState
    BY <1>11 DEF M17Push
  <2>3. PlacesAgree'
    BY <1>11, <2>2 DEF M17Push
  <2>4. ShutPaths'
    BY <1>11, <2>1, <2>2
    DEF M17Push, ShutPaths, ShutOnLeaving, ShutInFm,
        ShutInM17, Leaving, Owner
  <2> QED
    BY <2>1, <2>2, <2>3, <2>4
<1>12. CASE M17Ptt /\ ptt
  <2>1. PathsKept /\ Shut("in")' /\ \A q \in Owner : Shut(q) => Shut(q)'
    BY <1>12, TaskFrees DEF M17Ptt, Frees, Owner, StopSampling
  <2>2. /\ pc = "m17Ptt" /\ pc' = IF rtx'.locked THEN "config" ELSE "m17Stop"
        /\ rtx' = [rtx EXCEPT !.locked = FALSE, !.opStatus = "OFF"]
    BY <1>12 DEF M17Ptt
  <2>3. rtx' \in RtxState
    BY <2>2
  <2>4. PlacesAgree'
    BY <2>2
  <2>5. ShutPaths'
    BY <2>1, <2>2
    DEF ShutPaths, ShutOnLeaving, ShutInFm, ShutInM17, Leaving, Owner
  <2> QED
    BY <2>1, <2>3, <2>4, <2>5
<1>13. CASE M17Ptt /\ ~ptt
  <2>1. PathsKept /\ \A q \in Owner : Shut(q) => Shut(q)'
    BY <1>13, TaskQuiet DEF M17Ptt
  <2>2. rtx' \in RtxState
    BY <1>13 DEF M17Ptt
  <2>3. PlacesAgree'
    BY <1>13, <2>2 DEF M17Ptt
  <2>4. ShutPaths'
    BY <1>13, <2>1, <2>2
    DEF M17Ptt, ShutPaths, ShutOnLeaving, ShutInFm,
        ShutInM17, Leaving, Owner
  <2> QED
    BY <2>1, <2>2, <2>3, <2>4
<1>14. CASE M17Stop
  <2>1. PathsKept /\ \A q \in Owner : Shut(q) => Shut(q)'
    BY <1>14, TaskQuiet DEF M17Stop
  <2>2. rtx' \in RtxState
    BY <1>14 DEF M17Stop
  <2>3. PlacesAgree'
    BY <1>14, <2>2 DEF M17Stop
  <2>4. ShutPaths'
    BY <1>14, <2>1, <2>2
    DEF M17Stop, ShutPaths, ShutOnLeaving, ShutInFm,
        ShutInM17, Leaving, Owner
  <2> QED
    BY <2>1, <2>2, <2>3, <2>4
<1>15. CASE M17Close
  <2>1. PathsKept /\ Shut("rx")' /\ \A q \in Owner : Shut(q) => Shut(q)'
    BY <1>15, TaskFrees DEF M17Close, Frees, Owner, ReleaseOf
  <2>2. rtx' \in RtxState
    BY <1>15 DEF M17Close
  <2>3. PlacesAgree'
    BY <1>15, <2>2 DEF M17Close
  <2>4. ShutPaths'
    BY <1>15, <2>1, <2>2
    DEF M17Close, ShutPaths, ShutOnLeaving, ShutInFm,
        ShutInM17, Leaving, Owner
  <2> QED
    BY <2>1, <2>2, <2>3, <2>4
<1> QED
  BY <1>1, <1>2, <1>3, <1>4, <1>5, <1>6, <1>7, <1>8, <1>9, <1>10, <1>11, <1>12, <1>13, <1>14, <1>15

(* The M17 mode: sending. *)
LEMMA M17SendSteps ==
  ASSUME RInv, M17TxStart \/ M17Encode \/ M17Modulate \/ M17TxFrame \/ M17TxEnd
  PROVE  PathsKept /\ rtx' \in RtxState /\ PlacesAgree' /\ ShutPaths'
<1> USE DEF RInv, RtxTypeOK, RtxState, Config, PlacesAgree, FmPlaces, M17Places,
            M17Receives, M17Sends
<1>1. CASE M17TxStart
  <2>0. Shut("tx")
    BY <1>1 DEF M17TxStart, ShutPaths, ShutOnLeaving, ShutInFm,
        ShutInM17, Leaving
  <2>1. /\ PathsKept /\ \A q \in Owner \ {"tx"} : Shut(q) => Shut(q)'
    BY <1>1, <2>0, TaskAsks DEF M17TxStart, Owner, Asked
  <2>2. rtx' \in RtxState
    BY <1>1 DEF M17TxStart
  <2>3. PlacesAgree'
    BY <1>1, <2>2 DEF M17TxStart
  <2>4. ShutPaths'
    BY <1>1, <2>1, <2>2
    DEF M17TxStart, ShutPaths, ShutOnLeaving, ShutInFm,
        ShutInM17, Leaving, Owner
  <2> QED
    BY <2>1, <2>2, <2>3, <2>4
<1>2. CASE M17Encode
  <2>1. PathsKept /\ \A q \in Owner : Shut(q) => Shut(q)'
    BY <1>2, TaskQuiet DEF M17Encode
  <2>2. rtx' \in RtxState
    BY <1>2 DEF M17Encode
  <2>3. PlacesAgree'
    BY <1>2, <2>2 DEF M17Encode
  <2>4. ShutPaths'
    BY <1>2, <2>1, <2>2
    DEF M17Encode, ShutPaths, ShutOnLeaving, ShutInFm,
        ShutInM17, Leaving, Owner
  <2> QED
    BY <2>1, <2>2, <2>3, <2>4
<1>3. CASE M17Modulate
  <2>0. Shut("out")
    BY <1>3 DEF M17Modulate, ShutPaths, ShutOnLeaving, ShutInFm,
        ShutInM17, Leaving
  <2>1. /\ PathsKept /\ \A q \in Owner \ {"out"} : Shut(q) => Shut(q)'
    BY <1>3, <2>0, TaskAsks DEF M17Modulate, Owner, Asked
  <2>2. rtx' \in RtxState
    BY <1>3 DEF M17Modulate
  <2>3. PlacesAgree'
    BY <1>3, <2>2 DEF M17Modulate
  <2>4. ShutPaths'
    BY <1>3, <2>1, <2>2
    DEF M17Modulate, ShutPaths, ShutOnLeaving, ShutInFm,
        ShutInM17, Leaving, Owner
  <2> QED
    BY <2>1, <2>2, <2>3, <2>4
<1>4. CASE M17TxFrame
  <2>1. PathsKept /\ \A q \in Owner : Shut(q) => Shut(q)'
    BY <1>4, TaskQuiet DEF M17TxFrame
  <2>2. /\ pc = "m17TxFrame"
        /\ \/ pc' = "config" /\ rtx' = rtx
           \/ /\ pc' = "m17TxEnd"
              /\ rtx' = [rtx EXCEPT !.startRx = TRUE, !.opStatus = "OFF"]
    BY <1>4 DEF M17TxFrame
  <2>3. CASE pc' = "config" /\ rtx' = rtx
    <3>1. rtx' \in RtxState
      BY <2>3
    <3>2. PlacesAgree'
      BY <2>2, <2>3
    <3>3. ShutPaths'
      BY <2>1, <2>2, <2>3
      DEF ShutPaths, ShutOnLeaving, ShutInFm, ShutInM17, Leaving, Owner
    <3> QED
      BY <2>1, <3>1, <3>2, <3>3
  <2>4. CASE /\ pc' = "m17TxEnd"
             /\ rtx' = [rtx EXCEPT !.startRx = TRUE, !.opStatus = "OFF"]
    <3>1. rtx' \in RtxState
      BY <2>4
    <3>2. PlacesAgree'
      BY <2>2, <2>4
    <3>3. ShutPaths'
      BY <2>1, <2>2, <2>4
      DEF ShutPaths, ShutOnLeaving, ShutInFm, ShutInM17, Leaving, Owner
    <3> QED
      BY <2>1, <3>1, <3>2, <3>3
  <2> QED
    BY <2>2, <2>3, <2>4
<1>5. CASE M17TxEnd
  <2>1. PathsKept /\ Shut("out")' /\ \A q \in Owner : Shut(q) => Shut(q)'
    BY <1>5, TaskFrees DEF M17TxEnd, Frees, Owner, ReleaseOf
  <2>2. rtx' \in RtxState
    BY <1>5 DEF M17TxEnd
  <2>3. PlacesAgree'
    BY <1>5, <2>2 DEF M17TxEnd
  <2>4. ShutPaths'
    BY <1>5, <2>1, <2>2
    DEF M17TxEnd, ShutPaths, ShutOnLeaving, ShutInFm,
        ShutInM17, Leaving, Owner
  <2> QED
    BY <2>1, <2>2, <2>3, <2>4
<1> QED
  BY <1>1, <1>2, <1>3, <1>4, <1>5

LEMMA TaskSteps ==
  ASSUME RInv, RtxStep
  PROVE  PathsKept /\ rtx' \in RtxState /\ PlacesAgree' /\ ShutPaths'
  BY ConfigSteps, FmSteps, M17ReceiveSteps, M17SendSteps DEF RtxStep

-----------------------------------------------------------------------------
(* The other threads and the world only touch the path of the prompts.     *)
PromptOnly == UNCHANGED audio \/ Frees("prompt") \/ EnableSpk

LEMMA OthersTouchPrompt ==
  ASSUME UiStep \/ UiEvent \/ CodecStep \/ World
  PROVE  UNCHANGED <<rtx, pc>> /\ PromptOnly
<1>1. CASE UiStep
  BY <1>1 DEF UiStep, UiIdle, UiRelease, TickPtt, TickBeep, TickStart, TickDecode,
       TickOther, TickPush, TickFinish, UiNoSync, UiFill, UiPost, PromptOnly, Frees,
       ReleaseOf
<1>2. CASE UiEvent
  BY <1>2 DEF UiEvent, UiAnnounce, UiBeep, UiFlush, UiLock, PromptOnly
<1>3. CASE CodecStep
  BY <1>3 DEF CodecStep, CodecQuits, CodecDecodes, CodecEncodes, PromptOnly
<1>4. CASE World
  BY <1>4 DEF World, PressPtt, ReleasePtt, CallStarts, CallEnds, PromptOnly
<1> QED
  BY <1>1, <1>2, <1>3, <1>4

LEMMA OtherSteps ==
  ASSUME RInv, UiStep \/ UiEvent \/ CodecStep \/ World
  PROVE  PathsKept /\ rtx' \in RtxState /\ PlacesAgree' /\ ShutPaths'
<1>1. UNCHANGED <<rtx, pc>> /\ PromptOnly
  BY OthersTouchPrompt
<1>2. PathsKept /\ \A q \in Owner \ {"prompt"} : Shut(q) => Shut(q)'
  <2>1. CASE UNCHANGED audio
    BY <2>1, TaskQuiet
  <2>2. CASE Frees("prompt")
    BY <2>2, TaskFrees DEF Owner
  <2>3. CASE EnableSpk /\ ~UNCHANGED audio
    <3>1. Shut("prompt") /\ RequestFor("prompt", <<"MCU", "SPK">>, 3)
      BY <2>3 DEF EnableSpk, Status, getStatus, Shut
    <3> QED
      BY <3>1, TaskAsks DEF Owner, Asked
  <2> QED
    BY <1>1, <2>1, <2>2, <2>3 DEF PromptOnly
<1>3. PlacesAgree' /\ rtx' \in RtxState
  BY <1>1 DEF RInv, RtxTypeOK, PlacesAgree
<1>4. ShutPaths'
  BY <1>1, <1>2
  DEF RInv, ShutPaths, ShutOnLeaving, ShutInFm, ShutInM17, Owner
<1> QED
  BY <1>2, <1>3, <1>4

-----------------------------------------------------------------------------
(* The types of the rest: the codec seen from outside, the UI thread and   *)
(* the world.                                                              *)
CodecTyped ==
  /\ codec \in [path : Int, dir : {"stopped", "decode", "encode"}]
  /\ queue \in Seq({"speech", "call", "prompt"}) /\ Len(queue) <= BufSize

WorldTyped == {pending, ptt, calling} \subseteq BOOLEAN /\ budget \in 0 .. MaxEvents

LEMMA QueueGrows ==
  ASSUME CodecTyped, Len(queue) < BufSize, codec' = codec,
         NEW k \in {"speech", "call", "prompt"}, queue' = Append(queue, k)
  PROVE  CodecTyped'
<1>1. queue' \in Seq({"speech", "call", "prompt"}) /\ Len(queue') = Len(queue) + 1
  BY DEF CodecTyped
<1>2. Len(queue) \in Nat
  BY DEF CodecTyped
<1> QED
  BY <1>1, <1>2, SizesAssumption DEF CodecTyped

LEMMA QueueShrinks ==
  ASSUME CodecTyped, queue # <<>>, codec' = codec, queue' = Tail(queue)
  PROVE  CodecTyped'
<1>1. queue' \in Seq({"speech", "call", "prompt"}) /\ Len(queue') = Len(queue) - 1
  BY DEF CodecTyped
<1>2. Len(queue) \in Nat
  BY DEF CodecTyped
<1> QED
  BY <1>1, <1>2, SizesAssumption DEF CodecTyped

LEMMA CodecCalls ==
  ASSUME CodecTyped, PathsKnown, NEW o \in Owner,
         \/ StartCodec(o, "decode") \/ StartCodec(o, "encode")
         \/ StopCodec(o) \/ UNCHANGED codecs
  PROVE  CodecTyped'
<1>1. path[o] \in Int
  BY DEF PathsKnown
<1>2. <<>> \in Seq({"speech", "call", "prompt"}) /\ Len(<<>>) <= BufSize
  BY SizesAssumption
<1>3. CASE StartCodec(o, "decode") \/ StartCodec(o, "encode")
  <2>1. CASE UNCHANGED codecs
    BY <2>1 DEF codecs, CodecTyped
  <2>2. CASE /\ codec' \in {[path |-> path[o], dir |-> d] : d \in {"decode", "encode"}}
             /\ queue' = <<>>
    BY <1>1, <1>2, <2>2 DEF CodecTyped
  <2> QED
    BY <1>3, <2>1, <2>2 DEF StartCodec
<1>4. CASE StopCodec(o)
  BY <1>4 DEF StopCodec, Stopped, CodecTyped
<1>5. CASE UNCHANGED codecs
  BY <1>5 DEF codecs, CodecTyped
<1> QED
  BY <1>3, <1>4, <1>5

LEMMA TaskTypes ==
  ASSUME RInv, RtxStep
  PROVE  CodecTyped' /\ WorldTyped' /\ ui' \in UiState
<1>1. CodecTyped /\ WorldTyped /\ ui \in UiState /\ PathsKnown
  BY DEF RInv, RtxTypeOK, CodecTyped, WorldTyped
<1>2. UNCHANGED <<ui, world>> /\ pending' \in {pending, FALSE}
  BY DEF RtxStep, TakeConfig, NoConfig, Enable, Disable, FmRx, FmTx, FmTalk, FmEnd,
       M17Off, M17Leave, M17RxStart, M17Rx, M17Open, M17Status, M17Decode, M17Push,
       M17Ptt, M17Stop, M17Close, M17TxStart, M17Encode, M17Modulate, M17TxFrame,
       M17TxEnd
<1>3. CodecTyped'
  <2>1. CASE M17Push
    <3>1. codec' = codec /\ queue' = IF CanPush THEN Append(queue, "call") ELSE queue
      BY <2>1 DEF M17Push
    <3>2. CASE CanPush
      <4>1. Len(queue) < BufSize
        BY <3>2 DEF CanPush
      <4> QED
        BY <1>1, <3>1, <3>2, <4>1, QueueGrows
    <3> QED
      BY <1>1, <3>1, <3>2 DEF CodecTyped
  <2>2. CASE M17TxFrame
    <3>1. codec' = codec
      BY <2>2 DEF M17TxFrame
    <3>2. CASE codec.dir = "stopped"
      BY <1>1, <2>2, <3>1, <3>2 DEF M17TxFrame, CodecTyped
    <3>3. CASE codec.dir # "stopped"
      <4>1. queue # <<>> /\ queue' = Tail(queue)
        BY <2>2, <3>3 DEF M17TxFrame
      <4> QED
        BY <1>1, <3>1, <4>1, QueueShrinks
    <3> QED
      BY <3>2, <3>3
  <2>3. CASE ~(M17Push \/ M17TxFrame)
    <3>1. \E o \in Owner : \/ StartCodec(o, "decode") \/ StartCodec(o, "encode")
                           \/ StopCodec(o) \/ UNCHANGED codecs
      BY <2>3 DEF Owner, RtxStep, TakeConfig, NoConfig, Enable, Disable, FmRx, FmTx,
           FmTalk, FmEnd, M17Off, M17Leave, M17RxStart, M17Rx, M17Open, M17Status,
           M17Decode, M17Ptt, M17Stop, M17Close, M17TxStart, M17Encode, M17Modulate,
           M17TxEnd
    <3> QED
      BY <1>1, <3>1, CodecCalls
  <2> QED
    BY <2>1, <2>2, <2>3
<1>4. WorldTyped'
  BY <1>1, <1>2 DEF WorldTyped, world
<1> QED
  BY <1>1, <1>2, <1>3, <1>4

LEMMA UiTypes ==
  ASSUME RInv, UiStep \/ UiEvent
  PROVE  CodecTyped' /\ WorldTyped' /\ ui' \in UiState
<1>1. CodecTyped /\ WorldTyped /\ ui \in UiState /\ PathsKnown
  BY DEF RInv, RtxTypeOK, CodecTyped, WorldTyped
<1> DEFINE Left == 0 .. PromptFrames  Beeps == 0 .. BeepTicks
<1>2. {0, PromptFrames} \subseteq Left /\ {0, BeepTicks} \subseteq Beeps
  BY SizesAssumption
<1>3. \A n \in Beeps : n > 0 => n - 1 \in Beeps
  BY SizesAssumption
<1> HIDE DEF Left, Beeps
<1>4. UiState =
        [pc : {"fsm", "flush", "tick", "decode", "push", "release", "sync",
               "filling", "post"},
         cfg : Config, prompt : {"none", "due", "playing"}, left : Left, beep : Beeps]
  BY DEF UiState, Left, Beeps
<1>5. ui' \in UiState
  <2>1. CASE UiIdle \/ UiNoSync \/ UiPost \/ UiLock
    BY <1>1, <2>1 DEF UiIdle, UiNoSync, UiPost, UiLock, UiState
  <2>2. CASE UiRelease
    BY <1>1, <2>2 DEF UiRelease, UiState
  <2>3. CASE TickPtt \/ UiFlush
    BY <1>1, <1>2, <1>4, <2>3 DEF TickPtt, UiFlush, StopPrompt
  <2>4. CASE TickBeep
    BY <1>1, <1>3, <1>4, <2>4 DEF TickBeep
  <2>5. CASE TickStart \/ TickDecode \/ TickOther
    BY <1>1, <2>5 DEF TickStart, TickDecode, TickOther, UiState
  <2>6. CASE TickPush
    BY <1>1, <2>6, SizesAssumption DEF TickPush, UiState
  <2>7. CASE TickFinish
    BY <1>1, <2>7 DEF TickFinish, UiState
  <2>8. CASE UiFill
    BY <1>1, <2>8 DEF UiFill, UiState, Config
  <2>9. CASE UiAnnounce \/ UiBeep
    BY <1>1, <1>2, <1>4, <2>9 DEF UiAnnounce, UiBeep
  <2> QED
    BY <2>1, <2>2, <2>3, <2>4, <2>5, <2>6, <2>7, <2>8, <2>9 DEF UiStep, UiEvent
<1>6. CodecTyped'
  <2>1. CASE TickPush
    <3>1. codec' = codec /\ (queue' = queue \/ (CanPush /\ queue' = Append(queue, "prompt")))
      BY <2>1 DEF TickPush
    <3>2. CASE CanPush /\ queue' = Append(queue, "prompt")
      <4>1. Len(queue) < BufSize
        BY <3>2 DEF CanPush
      <4> QED
        BY <1>1, <3>1, <3>2, <4>1, QueueGrows
    <3> QED
      BY <1>1, <3>1, <3>2 DEF CodecTyped
  <2>2. CASE ~TickPush
    <3>1. \E o \in Owner : \/ StartCodec(o, "decode") \/ StartCodec(o, "encode")
                           \/ StopCodec(o) \/ UNCHANGED codecs
      BY <2>2 DEF Owner, UiStep, UiIdle, UiRelease, TickPtt, TickBeep, TickStart,
           TickDecode, TickOther, TickFinish, UiNoSync, UiFill, UiPost, UiEvent,
           UiAnnounce, UiBeep, UiFlush, UiLock
    <3> QED
      BY <1>1, <3>1, CodecCalls
  <2> QED
    BY <2>1, <2>2
<1>7. WorldTyped'
  <2>1. UNCHANGED <<ptt, calling>> /\ pending' \in {pending, TRUE}
    BY DEF UiStep, UiIdle, UiRelease, TickPtt, TickBeep, TickStart, TickDecode,
         TickOther, TickPush, TickFinish, UiNoSync, UiFill, UiPost, Posted, UiEvent,
         UiAnnounce, UiBeep, UiFlush, UiLock, world
  <2>2. budget' = budget \/ Spend
    BY DEF UiStep, UiIdle, UiRelease, TickPtt, TickBeep, TickStart, TickDecode,
         TickOther, TickPush, TickFinish, UiNoSync, UiFill, UiPost, UiEvent,
         UiAnnounce, UiBeep, UiFlush, UiLock, world
  <2>3. budget' \in 0 .. MaxEvents
    BY <1>1, <2>2, SizesAssumption DEF WorldTyped, Spend
  <2> QED
    BY <1>1, <2>1, <2>3 DEF WorldTyped
<1> QED
  BY <1>5, <1>6, <1>7

LEMMA CodecTypes ==
  ASSUME RInv, CodecStep
  PROVE  CodecTyped' /\ WorldTyped' /\ ui' \in UiState
<1>1. CodecTyped /\ WorldTyped /\ ui \in UiState
  BY DEF RInv, RtxTypeOK, CodecTyped, WorldTyped
<1>2. CASE CodecQuits
  BY <1>1, <1>2 DEF CodecQuits, CodecTyped, WorldTyped, Stopped, world
<1>3. CASE CodecDecodes
  <2>1. CodecTyped'
    BY <1>1, <1>3, QueueShrinks DEF CodecDecodes
  <2> QED
    BY <1>1, <1>3, <2>1 DEF CodecDecodes, WorldTyped, world
<1>4. CASE CodecEncodes
  <2> DEFINE rest == IF Len(queue) < BufSize THEN queue ELSE Tail(queue)
  <2>1. /\ queue \in Seq({"speech", "call", "prompt"})
        /\ Len(queue) \in Nat /\ Len(queue) <= BufSize
    BY <1>1 DEF CodecTyped
  <2>2. rest \in Seq({"speech", "call", "prompt"}) /\ Len(rest) < BufSize
    <3>1. CASE Len(queue) < BufSize
      BY <2>1, <3>1
    <3>2. CASE ~(Len(queue) < BufSize)
      <4>1. queue # <<>>
        BY <2>1, <3>2, SizesAssumption
      <4>2. Tail(queue) \in Seq({"speech", "call", "prompt"})
            /\ Len(Tail(queue)) = Len(queue) - 1
        BY <2>1, <4>1
      <4> QED
        BY <2>1, <3>2, <4>2, SizesAssumption
    <3> QED
      BY <3>1, <3>2
  <2>3. codec' = codec /\ queue' = Append(rest, "speech")
    BY <1>4 DEF CodecEncodes
  <2> HIDE DEF rest
  <2>4. Len(rest) \in Nat /\ Len(queue') = Len(rest) + 1
        /\ queue' \in Seq({"speech", "call", "prompt"})
    BY <2>2, <2>3
  <2>5. CodecTyped'
    BY <1>1, <2>2, <2>3, <2>4, SizesAssumption DEF CodecTyped
  <2> QED
    BY <1>1, <1>4, <2>5 DEF CodecEncodes, WorldTyped, world
<1> QED
  BY <1>2, <1>3, <1>4 DEF CodecStep

LEMMA WorldTypes ==
  ASSUME RInv, World
  PROVE  CodecTyped' /\ WorldTyped' /\ ui' \in UiState
<1>1. CodecTyped /\ WorldTyped /\ ui \in UiState
  BY DEF RInv, RtxTypeOK, CodecTyped, WorldTyped
<1>2. UNCHANGED <<codec, queue, ui, pending>>
  BY DEF World, PressPtt, ReleasePtt, CallStarts, CallEnds, codecs
<1>3. /\ ptt' \in {ptt, TRUE, FALSE} /\ calling' \in {calling, TRUE, FALSE}
      /\ budget' = budget \/ Spend
  BY DEF World, PressPtt, ReleasePtt, CallStarts, CallEnds
<1>4. budget' \in 0 .. MaxEvents
  BY <1>1, <1>3, SizesAssumption DEF WorldTyped, Spend
<1>5. WorldTyped'
  BY <1>1, <1>2, <1>3, <1>4 DEF WorldTyped
<1> QED
  BY <1>1, <1>2, <1>5 DEF CodecTyped

-----------------------------------------------------------------------------
LEMMA NextRInv == RInv /\ [RtxNext]_rtxVars => RInv' /\ [Next]_vars
<1>1. ASSUME RInv, RtxNext PROVE RInv' /\ [Next]_vars
  <2>1. PathsKept /\ rtx' \in RtxState /\ PlacesAgree' /\ ShutPaths'
    BY <1>1, TaskSteps, OtherSteps DEF RtxNext
  <2>2. CodecTyped' /\ WorldTyped' /\ ui' \in UiState
    BY <1>1, TaskTypes, UiTypes, CodecTypes, WorldTypes DEF RtxNext
  <2>3. RtxTypeOK'
    BY <2>1, <2>2 DEF RtxTypeOK, CodecTyped, WorldTyped, PathsKept, PathsKnown
  <2> QED
    BY <2>1, <2>3 DEF RInv, PathsKept
<1>2. ASSUME RInv, UNCHANGED rtxVars PROVE RInv' /\ [Next]_vars
  <2>1. UNCHANGED <<audio, rtx, pc, codec, queue, ui, pending, ptt, calling, budget>>
    BY <1>2 DEF rtxVars, codecs, world
  <2>2. PathsKept /\ \A q \in Owner : Shut(q)' <=> Shut(q)
    BY <1>2, <2>1, QuietStep DEF RInv, PathsKept
  <2>3. RtxTypeOK'
    BY <1>2, <2>1, <2>2 DEF RInv, RtxTypeOK, PathsKept, PathsKnown
  <2>4. PlacesAgree'
    BY <1>2, <2>1 DEF RInv, PlacesAgree
  <2>5. ShutPaths'
    BY <1>2, <2>1, <2>2
    DEF RInv, ShutPaths, ShutOnLeaving, ShutInFm, ShutInM17, Owner
  <2> QED
    BY <2>2, <2>3, <2>4, <2>5 DEF RInv, PathsKept
<1> QED
  BY <1>1, <1>2

LEMMA RtxInductive == RtxSpec => []RInv
  BY InitRInv, NextRInv, PTL DEF RtxSpec

(* The types of the composed system, for every choice of modes and bounds. *)
THEOREM RtxTypeCorrect == RtxSpec => []RtxTypeOK
<1>1. RInv => RtxTypeOK
  BY DEF RInv
<1> QED
  BY <1>1, RtxInductive, PTL

(* Whatever the three threads do, the audio paths behave as AudioPath      *)
(* says: its specification is implemented by the composed system.          *)
THEOREM PathsImplemented == RtxSpec => Spec
<1>1. RtxInit => Init
  BY DEF RtxInit
<1>2. RInv /\ [RtxNext]_rtxVars => [Next]_vars
  BY NextRInv
<1> QED
  BY <1>1, <1>2, RtxInductive, PTL DEF RtxSpec, Spec

(* In the composed system no suspended path is orphaned: below what the    *)
(* radio task and the prompts ask for, one that waits always waits for an  *)
(* active path of a higher priority.                                       *)
THEOREM SuspendedWaitsInRtx == RtxSpec => []SuspendedWaitsForActive
  BY PathsImplemented, SuspendedWaitsAlways, PTL

(* Every live path is known to its owner: enabling, transmitting, denied   *)
(* requests and changes of mode never lose the id of a path.               *)
THEOREM NoPathLeakedAlways == RtxSpec => []NoPathLeaked
<1>1. RInv => NoPathLeaked
  BY DEF RInv
<1> QED
  BY <1>1, RtxInductive, PTL

(* A mode that has been left has its radio off and all its paths closed,   *)
(* in the middle of whatever it was disabled.                              *)
THEOREM OffAfterDisableAlways == RtxSpec => []OffAfterDisable
<1>1. RInv => OffAfterDisable
  BY DEF RInv, ShutPaths, ShutOnLeaving, OffAfterDisable, Owner, Status, getStatus, Shut
<1> QED
  BY <1>1, RtxInductive, PTL

(* The configuration the task works with is the last one posted, though    *)
(* the buffer is handed over in two critical sections.                     *)
THEOREM AppliedIsLatestAlways == RtxSpec => []AppliedIsLatest
<1>1. RtxInit => AppliedIsLatest
  BY DEF RtxInit, AppliedIsLatest
<1>2. RInv /\ AppliedIsLatest /\ [RtxNext]_rtxVars => AppliedIsLatest'
  <2> SUFFICES ASSUME RInv, AppliedIsLatest, [RtxNext]_rtxVars
               PROVE  AppliedIsLatest'
    OBVIOUS
  <2> USE DEF AppliedIsLatest
  <2>1. rtx \in RtxState /\ ui \in UiState
    BY DEF RInv, RtxTypeOK
  <2>2. CASE TakeConfig
    BY <2>1, <2>2 DEF TakeConfig, RtxState
  <2>3. CASE RtxStep /\ ~TakeConfig
    <3>1. rtx'.cfg = rtx.cfg
      BY <2>1, <2>3
      DEF RtxState, RtxStep, NoConfig, Enable, Disable, FmRx, FmTx, FmTalk, FmEnd,
          AfterTalk, M17Off, M17Leave, M17RxStart, M17Rx, M17Open, M17Status,
          M17Decode, M17Push, M17Ptt, M17Stop, M17Close, M17TxStart, M17Encode,
          M17Modulate, M17TxFrame, M17TxEnd
    <3>2. UNCHANGED <<ui, pending>>
      BY <2>3
      DEF RtxStep, NoConfig, Enable, Disable, FmRx, FmTx, FmTalk, FmEnd, M17Off,
          M17Leave, M17RxStart, M17Rx, M17Open, M17Status, M17Decode, M17Push,
          M17Ptt, M17Stop, M17Close, M17TxStart, M17Encode, M17Modulate,
          M17TxFrame, M17TxEnd
    <3> QED
      BY <3>1, <3>2
  <2>4. CASE UiLock \/ UiFill \/ UiPost
    BY <2>1, <2>4 DEF UiLock, UiFill, UiPost, Posted, UiState
  <2>5. CASE (UiStep \/ UiEvent) /\ ~(UiLock \/ UiFill \/ UiPost)
    <3>1. UNCHANGED <<rtx, pending>> /\ ui'.cfg = ui.cfg
      BY <2>1, <2>5
      DEF UiStep, UiEvent, UiIdle, UiRelease, TickPtt, TickBeep, TickStart, TickDecode,
          TickOther, TickPush, TickFinish, UiNoSync, UiAnnounce, UiBeep, UiFlush,
          StopPrompt, UiState
    <3>2. ui.pc \notin {"filling", "post"}
      BY <2>5
      DEF UiStep, UiEvent, UiIdle, UiRelease, TickPtt, TickBeep, TickStart, TickDecode,
          TickOther, TickPush, TickFinish, UiNoSync, UiAnnounce, UiBeep, UiFlush
    <3> QED
      BY <3>1, <3>2
  <2>6. CASE CodecStep \/ World \/ UNCHANGED rtxVars
    BY <2>6 DEF CodecStep, CodecQuits, CodecDecodes, CodecEncodes, World, PressPtt,
         ReleasePtt, CallStarts, CallEnds, rtxVars
  <2> QED
    BY <2>2, <2>3, <2>4, <2>5, <2>6 DEF RtxNext
<1> QED
  BY <1>1, <1>2, RtxInductive, PTL DEF RtxSpec

-----------------------------------------------------------------------------
(* What FM and M17 need to talk and to listen stays open, although they    *)
(* look neither at the result of a request nor at the prompts of the other *)
(* thread.  In FM this holds for every rule of the driver; M17 needs of    *)
(* the rule that the paths it uses together accept one another.            *)
(*                                                                         *)
(* It follows from the priorities: each live path has one owner, and the   *)
(* priority of that owner (OneOwner, Ranked).  Nothing outranks a          *)
(* transmission, and when M17 starts to listen the transmission is over.   *)
(* That active paths accept one another rests on the same facts.           *)

(* The priority an owner asks with, and the pair in the present mode. *)
Rank(o) == CASE o \in {"rx", "in"} -> 2 [] o = "prompt" -> 3 [] o \in {"tx", "out"} -> 4
PairOf(o, mode) ==
  CASE o = "rx" -> IF mode = "FM" THEN <<"RTX", "SPK">> ELSE <<"MCU", "SPK">>
    [] o = "tx" -> IF mode = "FM" THEN <<"MIC", "RTX">> ELSE <<"MIC", "MCU">>
    [] o = "in" -> <<"RTX", "MCU">>
    [] o = "out" -> <<"MCU", "RTX">>
    [] o = "prompt" -> <<"MCU", "SPK">>

OneOwner == \A o, q \in Owner : path[o] = path[q] /\ path[o] \in Live => o = q
Ranked ==
  \A o \in Owner :
    path[o] \in Live =>
      routes[path[o]].prio = Rank(o) /\ routes[path[o]].pair = PairOf(o, rtx.mode)

(* What the M17 mode needs of the driver to listen, and to talk. *)
DriverListens ==
  /\ <<<<"RTX", "MCU">>, <<"MCU", "SPK">>>> \in Compatible
  /\ <<<<"MCU", "SPK">>, <<"RTX", "MCU">>>> \in Compatible
DriverTalks == <<<<"MCU", "RTX">>, <<"MIC", "MCU">>>> \in Compatible

FmTalking ==
  rtx.mode = "FM" /\ rtx.radio = "tx" =>
    rtx.opStatus = "TX" /\ Status("tx") = "OPEN" /\ Shut("rx")

M17Listening ==
  rtx.mode = "M17" /\ rtx.opStatus = "RX" =>
    /\ Shut("tx")
    /\ DriverListens /\ ~rtx.startRx /\ pc \notin Leaving => Status("in") = "OPEN"

M17Talking ==
  rtx.mode = "M17" /\ rtx.opStatus = "TX" /\ ~rtx.startTx /\ pc \notin Leaving =>
    /\ Status("tx") = "OPEN"
    /\ pc = "m17Encode" => codec.path # path["tx"]
    /\ pc # "m17Encode" => codec = [path |-> path["tx"], dir |-> "encode"]
    /\ DriverTalks /\ pc \notin {"m17Encode", "m17Modulate"} => Status("out") = "OPEN"

(* The rounds of reception that end with the speaker closed. *)
Closing == pc \in {"m17Stop", "m17Close"} => rtx.opStatus # "TX"

CodecKnown == codec.path < pathCounter

TInv ==
  /\ OneOwner /\ Ranked /\ CodecKnown /\ Closing
  /\ FmTalking /\ M17Listening /\ M17Talking

-----------------------------------------------------------------------------
(* What a call of the arbiter does to the paths of its owner and of the    *)
(* others.                                                                 *)
KeepsOthers(o) ==
  \A q \in Owner \ {o} :
    /\ path'[q] = path[q]
    /\ path[q] \in Live' <=> path[q] \in Live
    /\ path[q] \in Live => /\ routes'[path[q]].prio = routes[path[q]].prio
                           /\ routes'[path[q]].pair = routes[path[q]].pair

LEMMA OpenStatus ==
  ASSUME NEW q \in Owner
  PROVE  /\ Status(q) = "OPEN" <=> (path[q] \in Live /\ routes[path[q]].suspendedBy = {})
         /\ Status(q) = "CLOSED" <=> path[q] \notin Live
  BY DEF Status, getStatus, isActive

LEMMA OpenStatusNext ==
  ASSUME NEW q \in Owner
  PROVE  Status(q)' = "OPEN" <=> (path'[q] \in Live' /\ routes'[path'[q]].suspendedBy = {})
  BY DEF Status, getStatus, isActive

LEMMA AskEffect ==
  ASSUME IInv, PathsKnown, OneOwner, NEW o \in Owner, NEW pair, NEW prio, <<pair, prio>> \in Asked,
         RequestFor(o, pair, prio), Shut(o)
  PROVE  /\ OneOwner' /\ KeepsOthers(o) /\ pathCounter' \in {pathCounter, pathCounter + 1}
         /\ path'[o] \in Live' => /\ routes'[path'[o]].prio = prio
                                  /\ routes'[path'[o]].pair = pair
         /\ Granted(pair, prio) => Status(o)' = "OPEN" /\ path'[o] = pathCounter
         /\ \A q \in Owner \ {o} :
              /\ Status(q) = "OPEN"
              /\ \/ routes[path[q]].prio >= prio
                 \/ <<pair, routes[path[q]].pair>> \in Compatible
              => Status(q)' = "OPEN"
<1>0. /\ pair \in Pairs /\ prio \in Priority /\ path \in [Owner -> Int]
      /\ \A q \in Owner : path[q] < pathCounter
      /\ path' = [path EXCEPT ![o] = IF Granted(pair, prio) THEN pathCounter ELSE -1]
  BY AskedAssumption, RequestsAssumption DEF PathsKnown, RequestFor
<1>1. /\ path'[o] = IF Granted(pair, prio) THEN pathCounter ELSE -1
      /\ \A q \in Owner \ {o} : path'[q] = path[q]
  BY <1>0
<1>2. CASE Open(pair, prio)
  <2>1. /\ pathCounter \notin Live /\ Live' = Live \cup {pathCounter}
        /\ routes'[pathCounter] = [pair |-> pair, prio |-> prio,
             suspendList |-> Conflicting(pair), suspendedBy |-> {}]
        /\ \A i \in Live :
             /\ routes'[i].pair = routes[i].pair
             /\ routes'[i].prio = routes[i].prio
             /\ \A j : j \in routes'[i].suspendedBy <=>
                  \/ j \in routes[i].suspendedBy
                  \/ i \in Conflicting(pair) /\ j = pathCounter
    BY <1>0, <1>2, OpenRoutes
  <2>2. Granted(pair, prio) /\ pathCounter' = pathCounter + 1 /\ path'[o] = pathCounter
    BY <1>1, <1>2 DEF Open
  <2>3. KeepsOthers(o)
    BY <1>0, <1>1, <2>1 DEF KeepsOthers, PathsKnown
  <2>4. OneOwner'
    BY <1>0, <1>1, <2>1, <2>2 DEF OneOwner, PathsKnown
  <2>5. Status(o)' = "OPEN"
    BY <2>1, <2>2, OpenStatusNext
  <2>6. ASSUME NEW q \in Owner \ {o}, Status(q) = "OPEN",
               \/ routes[path[q]].prio >= prio
               \/ <<pair, routes[path[q]].pair>> \in Compatible
        PROVE  Status(q)' = "OPEN"
    <3>1. path[q] \in Live /\ routes[path[q]].suspendedBy = {}
      BY <2>6, OpenStatus
    <3>2. path[q] \notin Conflicting(pair)
      <4>1. CASE routes[path[q]].prio >= prio
        <5> SUFFICES ASSUME path[q] \in Conflicting(pair) PROVE FALSE
          OBVIOUS
        <5>1. routes[path[q]].prio < prio
          BY <2>2 DEF Granted
        <5>2. routes[path[q]].prio \in Priority
          BY <3>1 DEF IInv, TypeOK, Route
        <5> QED BY <1>0, <4>1, <5>1, <5>2 DEF Priority
      <4>2. CASE <<pair, routes[path[q]].pair>> \in Compatible
        BY <4>2 DEF Conflicting
      <4> QED BY <2>6, <4>1, <4>2
    <3>3. path[q] \in Live' /\ routes'[path[q]].suspendedBy = {}
      BY <2>1, <3>1, <3>2
    <3> QED BY <1>1, <3>3, OpenStatusNext
  <2> QED BY <2>1, <2>2, <2>3, <2>4, <2>5, <2>6
<1>3. CASE Deny(pair, prio)
  <2>1. ~Granted(pair, prio) /\ UNCHANGED <<routes, Live, pathCounter>> /\ path'[o] = -1
    BY <1>1, <1>3 DEF Deny, vars, Live
  <2>2. -1 \notin Live
    BY DEF PathsKnown
  <2>3. KeepsOthers(o) /\ OneOwner'
    BY <1>1, <2>1, <2>2 DEF KeepsOthers, OneOwner
  <2>4. \A q \in Owner \ {o} : Status(q) = "OPEN" => Status(q)' = "OPEN"
    BY <1>1, <2>1, OpenStatus, OpenStatusNext
  <2> QED BY <2>1, <2>2, <2>3, <2>4
<1> QED BY <1>2, <1>3 DEF RequestFor, Request

LEMMA FreeEffect ==
  ASSUME IInv, PathsKnown, OneOwner, NEW o \in Owner, Frees(o)
  PROVE  /\ OneOwner' /\ KeepsOthers(o) /\ pathCounter' = pathCounter /\ Shut(o)'
         /\ \A q \in Owner \ {o} : Status(q) = "OPEN" => Status(q)' = "OPEN"
<1>1. /\ path'[o] \in {path[o], -1} /\ \A q \in Owner \ {o} : path'[q] = path[q]
      /\ -1 \notin Live
  BY DEF Frees, PathsKnown
<1>2. CASE Close(path[o])
  <2>1. /\ path[o] \in Live /\ Live' = Live \ {path[o]}
        /\ \A i \in Live' :
             /\ routes'[i].pair = routes[i].pair
             /\ routes'[i].prio = routes[i].prio
             /\ \A j : j \in routes'[i].suspendedBy <=>
                  IF i \in routes[path[o]].suspendList
                  THEN (j \in routes[i].suspendedBy /\ j # path[o]) \/ j \in routes[path[o]].suspendedBy
                  ELSE j \in routes[i].suspendedBy
    BY <1>2, CloseRoutes
  <2>2. pathCounter' = pathCounter
    BY <1>2 DEF Close
  <2>3. \A q \in Owner \ {o} : path[q] # path[o]
    BY <2>1 DEF OneOwner
  <2>4. KeepsOthers(o) /\ OneOwner' /\ Shut(o)'
    BY <1>1, <2>1, <2>3 DEF KeepsOthers, OneOwner, Shut
  <2>5. ASSUME NEW q \in Owner \ {o}, Status(q) = "OPEN" PROVE Status(q)' = "OPEN"
    <3>1. path[q] \in Live' /\ path[q] \in Live /\ routes[path[q]].suspendedBy = {}
      BY <2>1, <2>3, <2>5, OpenStatus
    <3>2. path[q] \notin routes[path[o]].suspendList
      BY <2>1, <3>1 DEF IInv, ListsMirror
    <3>3. routes'[path[q]].suspendedBy = {}
      BY <2>1, <3>1, <3>2
    <3> QED BY <1>1, <3>1, <3>3, OpenStatusNext
  <2> QED BY <2>2, <2>4, <2>5
<1>3. CASE CloseUnknown(path[o])
  <2>1. path[o] \notin Live /\ UNCHANGED <<routes, Live, pathCounter>>
    BY <1>3 DEF CloseUnknown, vars, Live
  <2>2. KeepsOthers(o) /\ OneOwner' /\ Shut(o)'
    BY <1>1, <2>1 DEF KeepsOthers, OneOwner, Shut
  <2>3. \A q \in Owner \ {o} : Status(q) = "OPEN" => Status(q)' = "OPEN"
    BY <1>1, <2>1, OpenStatus, OpenStatusNext
  <2> QED BY <2>1, <2>2, <2>3
<1> QED BY <1>2, <1>3 DEF Frees, Release

LEMMA QuietEffect ==
  ASSUME OneOwner, UNCHANGED audio
  PROVE  /\ OneOwner' /\ pathCounter' = pathCounter /\ path' = path
         /\ \A o \in Owner : KeepsOthers(o) /\ (Status(o) = "OPEN" => Status(o)' = "OPEN")
<1>1. UNCHANGED <<routes, path, pathCounter, Live>>
  BY DEF audio, vars, Live
<1> QED BY <1>1, OpenStatus, OpenStatusNext DEF OneOwner, KeepsOthers

(* A request is granted when nothing open is of its priority or above and  *)
(* in its way.                                                             *)
LEMMA GrantedWhen ==
  ASSUME IInv, PathsKnown, NoPathLeaked, OneOwner, Ranked, NEW pair \in Pairs, NEW prio \in Priority,
         \A q \in Owner : \/ Shut(q) \/ Rank(q) < prio
                          \/ <<pair, PairOf(q, rtx.mode)>> \in Compatible
  PROVE  Granted(pair, prio)
<1> SUFFICES ASSUME NEW i \in Conflicting(pair) PROVE routes[i].prio < prio
  BY DEF Granted
<1>1. i \in Live /\ <<pair, routes[i].pair>> \notin Compatible
  BY DEF Conflicting, IInv, TypeOK
<1>2. PICK q \in Owner : path[q] = i
  BY <1>1 DEF NoPathLeaked
<1>3. routes[i].prio = Rank(q) /\ routes[i].pair = PairOf(q, rtx.mode) /\ ~Shut(q)
  BY <1>1, <1>2 DEF Ranked, Shut
<1> QED BY <1>1, <1>3

LEMMA RankedKept ==
  ASSUME Ranked, NEW o \in Owner, KeepsOthers(o), rtx'.mode = rtx.mode,
         path'[o] \in Live' => /\ routes'[path'[o]].prio = Rank(o)
                              /\ routes'[path'[o]].pair = PairOf(o, rtx.mode)
  PROVE  Ranked'
<1> SUFFICES ASSUME NEW q \in Owner, path'[q] \in Live'
             PROVE  /\ routes'[path'[q]].prio = Rank(q)
                    /\ routes'[path'[q]].pair = PairOf(q, rtx'.mode)
  BY DEF Ranked, Rank, PairOf
<1>1. CASE q = o
  BY <1>1
<1>2. CASE q # o
  BY <1>2 DEF Ranked, KeepsOthers
<1> QED BY <1>1, <1>2

(* Before each step: the invariants of the arbiter, of the task and these. *)
Before == IInv /\ RInv /\ TInv

LEMMA RtxTyped ==
  RInv => /\ PathsKnown /\ NoPathLeaked /\ PlacesAgree /\ ShutPaths
          /\ rtx \in RtxState
          /\ rtx.mode \in {"NONE", "FM", "M17"} /\ rtx.opStatus \in {"OFF", "RX", "TX"}
          /\ rtx.startRx \in BOOLEAN /\ rtx.startTx \in BOOLEAN
  BY ModesAssumption DEF RInv, RtxTypeOK, RtxState

(* Which path each step of the task asks for or releases. *)
Asks(o, pair, prio) == RequestFor(o, pair, prio) /\ Shut(o) /\ <<pair, prio>> \in Asked

LEMMA AsksEffect ==
  ASSUME Before, NEW o \in Owner, NEW pair, NEW prio, Asks(o, pair, prio)
  PROVE  /\ OneOwner' /\ KeepsOthers(o) /\ pathCounter' \in {pathCounter, pathCounter + 1}
         /\ path'[o] \in Live' => /\ routes'[path'[o]].prio = prio
                                  /\ routes'[path'[o]].pair = pair
         /\ Granted(pair, prio) => Status(o)' = "OPEN" /\ path'[o] = pathCounter
         /\ \A q \in Owner \ {o} :
              /\ Status(q) = "OPEN"
              /\ \/ routes[path[q]].prio >= prio
                 \/ <<pair, routes[path[q]].pair>> \in Compatible
              => Status(q)' = "OPEN"
<1>1. PathsKnown /\ OneOwner /\ IInv
  BY DEF Before, RInv, TInv
<1> QED BY <1>1, AskEffect DEF Asks

(* A path of the transmission is not disturbed by anyone else. *)
LEMMA NothingOutranks ==
  ASSUME Before, NEW t \in {"tx", "out"}, Status(t) = "OPEN",
         \/ UNCHANGED audio
         \/ \E o \in Owner \ {t} : Frees(o)
         \/ \E o \in Owner \ {t} : \E r \in Asked : Asks(o, r[1], r[2])
  PROVE  Status(t)' = "OPEN" /\ path'[t] = path[t]
<1>0. IInv /\ OneOwner /\ Ranked /\ PathsKnown /\ t \in Owner
  BY DEF Before, RInv, TInv, Owner
<1>1. CASE UNCHANGED audio
  BY <1>0, <1>1, QuietEffect
<1>2. ASSUME NEW o \in Owner \ {t}, Frees(o)
      PROVE  Status(t)' = "OPEN" /\ path'[t] = path[t]
  BY <1>0, <1>2, FreeEffect DEF KeepsOthers
<1>3. ASSUME NEW o \in Owner \ {t}, NEW r \in Asked, Asks(o, r[1], r[2])
      PROVE  Status(t)' = "OPEN" /\ path'[t] = path[t]
  <2>1. routes[path[t]].prio = 4
    BY <1>0, OpenStatus DEF Ranked, Rank
  <2>2. r[2] \in {2, 3, 4}
    BY DEF Asked
  <2>3. routes[path[t]].prio >= r[2]
    BY <2>1, <2>2
  <2>4. KeepsOthers(o) /\ (routes[path[t]].prio >= r[2] => Status(t)' = "OPEN")
    <3> DEFINE pair == r[1]  prio == r[2]
    <3>1. Asks(o, pair, prio)
      BY <1>3
    <3> HIDE DEF pair, prio
    <3>2. /\ KeepsOthers(o)
          /\ \A q \in Owner \ {o} :
               Status(q) = "OPEN" /\ routes[path[q]].prio >= prio => Status(q)' = "OPEN"
      BY <3>1, AsksEffect
    <3>3. routes[path[t]].prio >= prio => Status(t)' = "OPEN"
      BY <1>0, <3>2
    <3> QED BY <3>2, <3>3 DEF prio
  <2> QED BY <1>0, <2>3, <2>4 DEF KeepsOthers
<1> QED BY <1>1, <1>2, <1>3

(* Which paths the steps of the task touch. *)
LEMMA TaskTouches ==
  ASSUME Before, RtxStep
  PROVE  /\ ~(FmRx \/ FmTx \/ FmTalk \/ FmEnd \/ M17Leave \/ M17RxStart \/ M17Open \/ M17Ptt \/ M17Close
             \/ M17TxStart \/ M17Modulate \/ M17TxEnd) /\ pc \notin Leaving \ {"enable"}
           => UNCHANGED audio
         /\ Disable("disableRx", "rx") => Frees("rx")
         /\ Disable("disableTx", "tx") => Frees("tx")
         /\ Disable("disableOut", "out") => Frees("out")
         /\ Disable("disableIn", "in") => Frees("in")
         /\ FmRx => \/ UNCHANGED audio
                    \/ rtx.opStatus = "RX" /\ (Frees("rx") \/ Asks("rx", <<"RTX", "SPK">>, 2))
         /\ FmTx => UNCHANGED audio \/ (rtx.opStatus # "TX" /\ Frees("rx"))
         /\ FmTalk => Asks("tx", <<"MIC", "RTX">>, 4)
         /\ FmEnd => UNCHANGED <<audio, rtx>> \/ (Frees("tx") /\ rtx'.radio = "off")
         /\ M17Leave => Frees("tx")
         /\ M17RxStart => Asks("in", <<"RTX", "MCU">>, 2)
         /\ M17Open => UNCHANGED audio \/ Asks("rx", <<"MCU", "SPK">>, 2)
         /\ M17Ptt => UNCHANGED <<audio, rtx>> \/ (Frees("in") /\ rtx'.opStatus = "OFF")
         /\ M17Close => Frees("rx")
         /\ M17TxStart => Asks("tx", <<"MIC", "MCU">>, 4)
         /\ M17Modulate => Asks("out", <<"MCU", "RTX">>, 4)
         /\ M17TxEnd => Frees("out")
<1>0. RInv /\ PlacesAgree /\ ShutPaths /\ rtx \in RtxState
  BY RtxTyped DEF Before
<1>1. ~(FmRx \/ FmTx \/ FmTalk \/ FmEnd \/ M17Leave \/ M17RxStart \/ M17Open \/ M17Ptt \/ M17Close
        \/ M17TxStart \/ M17Modulate \/ M17TxEnd) /\ pc \notin Leaving \ {"enable"}
        => UNCHANGED audio
  BY DEF RtxStep, TakeConfig, NoConfig, Enable, Disable, M17Off, M17Rx, M17Status,
       M17Decode, M17Push, M17Stop, M17Encode, M17TxFrame, Leaving
<1>2. /\ Disable("disableRx", "rx") => Frees("rx")
      /\ Disable("disableTx", "tx") => Frees("tx")
      /\ Disable("disableOut", "out") => Frees("out")
      /\ Disable("disableIn", "in") => Frees("in")
  BY DEF Disable, Frees
<1>3. FmRx => \/ UNCHANGED audio
              \/ rtx.opStatus = "RX" /\ (Frees("rx") \/ Asks("rx", <<"RTX", "SPK">>, 2))
  <2>1. FmRx /\ rtx.opStatus = "RX" /\ ~rtx.sqlOpen => Shut("rx")
    BY <1>0 DEF FmRx, PlacesAgree, FmPlaces, ShutPaths, ShutInFm, Leaving
  <2> QED BY <2>1 DEF FmRx, Asks, Asked, ReleaseOf, Frees
<1>4. FmTx => UNCHANGED audio \/ (rtx.opStatus # "TX" /\ Frees("rx"))
  BY DEF FmTx, ReleaseOf, Frees
<1>5. FmTalk => Asks("tx", <<"MIC", "RTX">>, 4)
  BY <1>0
  DEF FmTalk, PlacesAgree, FmPlaces, ShutPaths, ShutInFm, Leaving, Asks, Asked
<1>6. FmEnd => UNCHANGED <<audio, rtx>> \/ (Frees("tx") /\ rtx'.radio = "off")
  BY <1>0 DEF FmEnd, EndTalk, AfterTalk, ReleaseOf, Frees, RtxState
<1>7. /\ M17Leave => Frees("tx")
      /\ M17Close => Frees("rx")
      /\ M17TxEnd => Frees("out")
  BY DEF M17Leave, M17Close, M17TxEnd, ReleaseOf, Frees
<1>8. M17RxStart => Asks("in", <<"RTX", "MCU">>, 2)
  BY <1>0
  DEF M17RxStart, PlacesAgree, M17Places, ShutPaths, ShutInM17, Leaving, Asks, Asked
<1>9. M17Open => UNCHANGED audio \/ Asks("rx", <<"MCU", "SPK">>, 2)
  BY OpenStatus DEF M17Open, Shut, Asks, Asked, Owner
<1>10. M17Ptt => UNCHANGED <<audio, rtx>> \/ (Frees("in") /\ rtx'.opStatus = "OFF")
  BY <1>0 DEF M17Ptt, StopSampling, Frees, RtxState
<1>11. M17TxStart => Asks("tx", <<"MIC", "MCU">>, 4)
  BY <1>0
  DEF M17TxStart, PlacesAgree, M17Places, ShutPaths, ShutInM17, Leaving, Asks, Asked
<1>12. M17Modulate => Asks("out", <<"MCU", "RTX">>, 4)
  BY <1>0
  DEF M17Modulate, PlacesAgree, M17Places, M17Sends, ShutPaths, ShutInM17, Leaving,
      Asks, Asked
<1> QED BY <1>1, <1>2, <1>3, <1>4, <1>5, <1>6, <1>7, <1>8, <1>9, <1>10, <1>11,
       <1>12, Zenon

LEMMA OthersTouch ==
  ASSUME Before, UiStep \/ UiEvent \/ CodecStep \/ World
  PROVE  /\ UNCHANGED <<rtx, pc>>
         /\ UNCHANGED audio \/ Frees("prompt") \/ Asks("prompt", <<"MCU", "SPK">>, 3)
  BY OthersTouchPrompt, OpenStatus
  DEF PromptOnly, EnableSpk, Shut, Asks, Asked, Owner

-----------------------------------------------------------------------------
(* The steps of the M17 mode are taken in M17. *)
M17Step ==
  \/ M17Off \/ M17Leave \/ M17RxStart \/ M17Rx \/ M17Open \/ M17Status
  \/ M17Decode \/ M17Push \/ M17Ptt \/ M17Stop \/ M17Close
  \/ M17TxStart \/ M17Encode \/ M17Modulate \/ M17TxFrame \/ M17TxEnd

LEMMA M17StepPlace == M17Step => pc \in M17Places
  BY DEF M17Step, M17Off, M17Leave, M17RxStart, M17Rx, M17Open, M17Status,
       M17Decode, M17Push, M17Ptt, M17Stop, M17Close, M17TxStart, M17Encode,
       M17Modulate, M17TxFrame, M17TxEnd, M17Places, M17Receives, M17Sends

(* The mode changes only in enable(), and the places of disable() lead to  *)
(* it.                                                                     *)
LEMMA TaskControl ==
  ASSUME Before, RtxStep, ~Enable
  PROVE  /\ rtx'.mode = rtx.mode /\ rtx' \in RtxState
         /\ pc \in Leaving => pc' \in Leaving
<1>0. RInv /\ rtx \in RtxState
  BY RtxTyped DEF Before
<1>1. rtx' \in RtxState
  BY <1>0, TaskSteps
<1>2. rtx'.mode = rtx.mode
  <2>1. CASE TakeConfig \/ NoConfig \/ Disable("disableRx", "rx") \/ Disable("disableTx", "tx")
             \/ Disable("disableOut", "out") \/ Disable("disableIn", "in")
    BY <1>0, <2>1 DEF TakeConfig, NoConfig, Disable, RtxState
  <2>2. CASE FmRx \/ FmTx \/ FmTalk \/ FmEnd
    BY <1>0, <2>2 DEF FmRx, FmTx, FmTalk, FmEnd, AfterTalk, RtxState
  <2>3. CASE M17Off \/ M17Leave \/ M17RxStart \/ M17Rx \/ M17Open \/ M17Status
             \/ M17Decode \/ M17Push \/ M17Ptt \/ M17Stop \/ M17Close
    BY <1>0, <2>3
    DEF M17Off, M17Leave, M17RxStart, M17Rx, M17Open, M17Status, M17Decode, M17Push,
        M17Ptt, M17Stop, M17Close, RtxState
  <2>4. CASE M17TxStart \/ M17Encode \/ M17Modulate \/ M17TxFrame \/ M17TxEnd
    BY <1>0, <2>4
    DEF M17TxStart, M17Encode, M17Modulate, M17TxFrame, M17TxEnd, RtxState
  <2> QED BY <2>1, <2>2, <2>3, <2>4 DEF RtxStep
<1>3. pc \in Leaving => pc' \in Leaving
  BY DEF Leaving, RtxStep, Disable, NextDisable, TakeConfig, NoConfig, FmRx, FmTx,
       FmTalk, FmEnd, M17Off, M17Leave, M17RxStart, M17Rx, M17Open, M17Status,
       M17Decode, M17Push, M17Ptt, M17Stop, M17Close, M17TxStart, M17Encode,
       M17Modulate, M17TxFrame, M17TxEnd
<1> QED BY <1>1, <1>2, <1>3

LEMMA FmTalkingKept == ASSUME Before, RtxNext PROVE FmTalking'
<1>0. /\ IInv /\ PathsKnown /\ NoPathLeaked /\ OneOwner /\ Ranked /\ FmTalking
      /\ PlacesAgree /\ ShutPaths /\ rtx \in RtxState
  BY RtxTyped DEF Before, TInv
<1> SUFFICES ASSUME rtx'.mode = "FM", rtx'.radio = "tx"
             PROVE  rtx'.opStatus = "TX" /\ Status("tx")' = "OPEN" /\ Shut("rx")'
  BY DEF FmTalking
<1>1. CASE FmTalk
  <2>1. Asks("tx", <<"MIC", "RTX">>, 4)
    BY <1>1, TaskTouches DEF RtxStep
  <2>2. rtx.mode = "FM" /\ Shut("rx") /\ Shut("in") /\ Shut("out") /\ Shut("tx")
    BY <1>0, <1>1 DEF FmTalk, PlacesAgree, FmPlaces, ShutPaths, ShutInFm, Leaving
  <2>3. Granted(<<"MIC", "RTX">>, 4)
    <3>1. <<"MIC", "RTX">> \in Pairs /\ 4 \in Priority
      BY AskedAssumption, RequestsAssumption DEF Asked
    <3>2. \A q \in Owner : Shut(q) \/ Rank(q) < 4
      BY <2>2 DEF Owner, Rank
    <3> QED BY <1>0, <3>1, <3>2, GrantedWhen
  <2>4. Status("tx")' = "OPEN" /\ KeepsOthers("tx")
    BY <2>1, <2>3, AsksEffect DEF Owner
  <2>5. Shut("rx")'
    BY <2>2, <2>4 DEF Shut, KeepsOthers, Owner
  <2> QED BY <1>0, <1>1, <2>4, <2>5 DEF FmTalk, RtxState
<1>2. CASE RtxStep /\ ~FmTalk
  <2>1. ~Enable /\ rtx.mode = "FM" /\ rtx' \in RtxState
    <3>1. ~Enable
      BY <1>0 DEF Enable, ShutPaths, ShutOnLeaving, RtxState
    <3> QED BY <1>2, <3>1, TaskControl
  <2>2. \/ TakeConfig \/ NoConfig \/ Disable("disableRx", "rx")
        \/ FmRx \/ FmTx \/ FmEnd
    <3>1. ~M17Step
      BY <1>0, <2>1, M17StepPlace DEF PlacesAgree
    <3>2. ~Disable("disableTx", "tx") /\ ~Disable("disableOut", "out") /\ ~Disable("disableIn", "in")
      BY <1>0 DEF Disable, ShutPaths, ShutOnLeaving, RtxState
    <3> QED BY <1>2, <2>1, <3>1, <3>2 DEF RtxStep, M17Step
  <2>3. rtx.radio = "tx" /\ rtx'.opStatus = rtx.opStatus
    BY <1>0, <2>2
    DEF TakeConfig, NoConfig, Disable, FmRx, FmTx, FmEnd, AfterTalk, FmTalking,
        RtxState
  <2>4. rtx.opStatus = "TX" /\ Status("tx") = "OPEN" /\ Shut("rx")
    BY <1>0, <2>1, <2>3 DEF FmTalking
  <2>5. UNCHANGED audio \/ Frees("rx")
    <3>1. TakeConfig \/ NoConfig => UNCHANGED audio
      BY DEF TakeConfig, NoConfig
    <3>2. FmEnd => UNCHANGED audio
      BY <1>0 DEF FmEnd, AfterTalk, RtxState
    <3> QED BY <1>2, <2>2, <2>4, <3>1, <3>2, TaskTouches
  <2>6. Status("tx")' = "OPEN"
    BY <2>4, <2>5, NothingOutranks DEF Owner
  <2>7. Shut("rx")'
    BY <1>0, <2>4, <2>5, QuietEffect, FreeEffect DEF KeepsOthers, Shut, Owner
  <2> QED BY <2>1, <2>3, <2>4, <2>6, <2>7
<1>3. CASE UiStep \/ UiEvent \/ CodecStep \/ World
  <2>1. /\ UNCHANGED <<rtx, pc>>
        /\ UNCHANGED audio \/ Frees("prompt") \/ Asks("prompt", <<"MCU", "SPK">>, 3)
    BY <1>3, OthersTouch
  <2>2. rtx.opStatus = "TX" /\ Status("tx") = "OPEN" /\ Shut("rx")
    BY <1>0, <2>1 DEF FmTalking
  <2>3. Status("tx")' = "OPEN"
    <3>1. <<<<"MCU", "SPK">>, 3>> \in Asked /\ "prompt" \in Owner \ {"tx"}
      BY DEF Asked, Owner
    <3>2. Asks("prompt", <<"MCU", "SPK">>, 3) => \E o \in Owner \ {"tx"} : \E r \in Asked : Asks(o, r[1], r[2])
      BY <3>1
    <3> QED BY <2>1, <2>2, <3>1, <3>2, NothingOutranks
  <2>4. Shut("rx")'
    <3>1. KeepsOthers("prompt")
      BY <1>0, <2>1, QuietEffect, FreeEffect, AsksEffect DEF Owner
    <3> QED BY <2>2, <3>1 DEF KeepsOthers, Shut, Owner
  <2> QED BY <2>1, <2>2, <2>3, <2>4
<1> QED BY <1>1, <1>2, <1>3 DEF RtxNext

-----------------------------------------------------------------------------
(* Every step leaves the paths, releases one, or asks for one with the     *)
(* pair and the priority of its owner.                                     *)
LEMMA StepTouches ==
  ASSUME Before, RtxNext
  PROVE  \/ UNCHANGED audio
         \/ \E o \in Owner : Frees(o) \/ Asks(o, PairOf(o, rtx.mode), Rank(o))
<1>0. /\ RInv /\ PlacesAgree
      /\ \A o \in Owner, r \in Asked :
           r = <<PairOf(o, rtx.mode), Rank(o)>> /\ Asks(o, r[1], r[2])
             => Asks(o, PairOf(o, rtx.mode), Rank(o))
  BY RtxTyped DEF Before
<1>1. CASE UiStep \/ UiEvent \/ CodecStep \/ World
  BY <1>1, OthersTouch DEF Owner, PairOf, Rank
<1>2. CASE RtxStep
  <2> USE DEF Owner, PairOf, Rank
  <2>1. CASE FmRx \/ FmTx \/ FmTalk \/ FmEnd
    <3>1. rtx.mode = "FM"
      BY <1>0, <2>1 DEF PlacesAgree, FmPlaces, FmRx, FmTx, FmTalk, FmEnd
    <3>2. \/ UNCHANGED audio \/ Frees("rx") \/ Frees("tx")
          \/ Asks("rx", <<"RTX", "SPK">>, 2) \/ Asks("tx", <<"MIC", "RTX">>, 4)
      BY <1>2, <2>1, TaskTouches
    <3> QED BY <3>1, <3>2
  <2>2. CASE M17Leave \/ M17RxStart \/ M17Open \/ M17Ptt \/ M17Close \/ M17TxStart \/ M17Modulate \/ M17TxEnd
    <3>1. rtx.mode = "M17"
      BY <1>0, <2>2
      DEF PlacesAgree, M17Places, M17Receives, M17Sends, M17Leave, M17RxStart,
          M17Open, M17Ptt, M17Close, M17TxStart, M17Modulate, M17TxEnd
    <3>2. \/ UNCHANGED audio \/ Frees("rx") \/ Frees("tx") \/ Frees("in") \/ Frees("out")
          \/ Asks("in", <<"RTX", "MCU">>, 2) \/ Asks("rx", <<"MCU", "SPK">>, 2)
          \/ Asks("tx", <<"MIC", "MCU">>, 4) \/ Asks("out", <<"MCU", "RTX">>, 4)
      BY <1>2, <2>2, TaskTouches
    <3> QED BY <3>1, <3>2
  <2>3. CASE Disable("disableRx", "rx") \/ Disable("disableTx", "tx")
             \/ Disable("disableOut", "out") \/ Disable("disableIn", "in")
    BY <1>2, <2>3, TaskTouches
  <2>4. CASE TakeConfig \/ NoConfig \/ Enable \/ M17Off \/ M17Rx \/ M17Status \/ M17Decode \/ M17Push
             \/ M17Stop \/ M17Encode \/ M17TxFrame
    BY <2>4
    DEF TakeConfig, NoConfig, Enable, M17Off, M17Rx, M17Status, M17Decode, M17Push,
        M17Stop, M17Encode, M17TxFrame
  <2> QED BY <1>2, <2>1, <2>2, <2>3, <2>4 DEF RtxStep
<1> QED BY <1>1, <1>2 DEF RtxNext

LEMMA OwnersKept ==
  ASSUME Before, RtxNext
  PROVE  OneOwner' /\ Ranked' /\ pathCounter' \in {pathCounter, pathCounter + 1}
<1>0. /\ IInv /\ PathsKnown /\ OneOwner /\ Ranked /\ PlacesAgree /\ ShutPaths
  BY RtxTyped DEF Before, TInv
<1>1. CASE UNCHANGED audio
  <2>1. OneOwner' /\ pathCounter' = pathCounter /\ \A o \in Owner : KeepsOthers(o)
    BY <1>0, <1>1, QuietEffect
  <2>2. path' = path /\ UNCHANGED <<routes, Live>>
    BY <1>1 DEF audio, vars, Live
  <2>3. CASE rtx'.mode = rtx.mode
    BY <1>0, <2>1, <2>2, <2>3 DEF Ranked, Rank, PairOf
  <2>4. CASE Enable
    <3>1. \A o \in Owner \ {"prompt"} : path'[o] \notin Live'
      BY <1>0, <2>2, <2>4 DEF Enable, ShutPaths, ShutOnLeaving, Shut, Owner
    <3>2. PairOf("prompt", rtx'.mode) = PairOf("prompt", rtx.mode)
      BY DEF PairOf
    <3>3. ASSUME NEW o \in Owner, path'[o] \in Live'
          PROVE  routes'[path'[o]].prio = Rank(o) /\ routes'[path'[o]].pair = PairOf(o, rtx'.mode)
      <4>1. o = "prompt"
        BY <3>1, <3>3
      <4> QED BY <1>0, <2>2, <3>2, <3>3, <4>1 DEF Ranked
    <3>4. Ranked'
      BY <3>3 DEF Ranked, Rank, PairOf
    <3> QED BY <2>1, <3>4
  <2> QED BY <2>1, <2>3, <2>4, TaskControl, OthersTouch DEF RtxNext
<1>2. ASSUME NEW o \in Owner, Frees(o) \/ Asks(o, PairOf(o, rtx.mode), Rank(o)),
             rtx'.mode = rtx.mode
      PROVE  OneOwner' /\ Ranked' /\ pathCounter' \in {pathCounter, pathCounter + 1}
  <2>1. CASE Frees(o)
    <3>1. OneOwner' /\ KeepsOthers(o) /\ pathCounter' = pathCounter /\ path'[o] \notin Live'
      BY <1>0, <2>1, FreeEffect DEF Shut
    <3> QED BY <1>0, <1>2, <3>1, RankedKept
  <2>2. CASE Asks(o, PairOf(o, rtx.mode), Rank(o))
    <3> DEFINE pair == PairOf(o, rtx.mode)  prio == Rank(o)
    <3>1. Asks(o, pair, prio)
      BY <2>2
    <3> HIDE DEF pair, prio
    <3>2. /\ OneOwner' /\ KeepsOthers(o) /\ pathCounter' \in {pathCounter, pathCounter + 1}
          /\ path'[o] \in Live' => routes'[path'[o]].prio = prio /\ routes'[path'[o]].pair = pair
      BY <3>1, AsksEffect
    <3>3. Ranked'
      BY <1>0, <1>2, <3>2, RankedKept DEF pair, prio
    <3> QED BY <3>2, <3>3
  <2> QED BY <1>2, <2>1, <2>2
<1>3. CASE ~(UNCHANGED audio)
  <2>1. rtx'.mode = rtx.mode
    <3>1. ~Enable
      BY <1>3 DEF Enable
    <3> QED BY <3>1, TaskControl, OthersTouch DEF RtxNext
  <2> QED BY <1>2, <1>3, <2>1, StepTouches
<1> QED BY <1>1, <1>3

-----------------------------------------------------------------------------
(* What the codec does beside the steps of the task: it quits when its     *)
(* path is not open, or a prompt stops it or takes it.                     *)
LEMMA CodecTouch ==
  ASSUME UiStep \/ UiEvent \/ CodecStep \/ World
  PROVE  \/ codec' = codec
         \/ codec' = Stopped /\ getStatus(codec.path) # "OPEN" /\ UNCHANGED audio
         \/ StopCodec("prompt") /\ UNCHANGED audio
         \/ StartCodec("prompt", "decode") /\ UNCHANGED audio
  BY DEF UiStep, UiEvent, UiIdle, UiRelease, TickPtt, TickBeep, TickStart,
       TickDecode, TickOther, TickPush, TickFinish, UiNoSync, UiFill, UiPost,
       UiAnnounce, UiBeep, UiFlush, UiLock, CodecStep, CodecQuits, CodecDecodes,
       CodecEncodes, World, PressPtt, ReleasePtt, CallStarts, CallEnds, codecs

LEMMA CodecKnownKept == ASSUME Before, RtxNext PROVE CodecKnown'
<1>1. /\ CodecKnown /\ pathCounter \in Nat \ {0} /\ \A o \in Owner : path[o] < pathCounter
      /\ codec \in [path : Int, dir : {"stopped", "decode", "encode"}] /\ path \in [Owner -> Int]
  BY DEF Before, TInv, RInv, PathsKnown, RtxTypeOK
<1>2. pathCounter' \in {pathCounter, pathCounter + 1}
  BY OwnersKept
<1>3. codec' \in {codec, Stopped} \/ \E o \in Owner : codec'.path = path[o]
  <2>1. CASE RtxStep
    BY <2>1
    DEF Owner, RtxStep, TakeConfig, NoConfig, Enable, Disable, FmRx, FmTx, FmTalk,
        FmEnd, M17Off, M17Leave, M17RxStart, M17Rx, M17Open, M17Status, M17Decode,
        M17Push, M17Ptt, M17Stop, M17Close, M17TxStart, M17Encode, M17Modulate,
        M17TxFrame, M17TxEnd, StartCodec, StopCodec, codecs
  <2>2. CASE UiStep \/ UiEvent \/ CodecStep \/ World
    BY <2>2, CodecTouch DEF Owner, StartCodec, StopCodec, codecs
  <2> QED BY <2>1, <2>2 DEF RtxNext
<1>4. codec'.path < pathCounter
  BY <1>1, <1>3 DEF CodecKnown, Stopped
<1>5. codec'.path \in Int
  BY <1>1, <1>3 DEF Stopped
<1> QED BY <1>1, <1>2, <1>4, <1>5 DEF CodecKnown

LEMMA ClosingKept == ASSUME Before, RtxNext PROVE Closing'
<1>0. RInv /\ rtx \in RtxState /\ PlacesAgree /\ Closing
  BY RtxTyped DEF Before, TInv
<1> SUFFICES ASSUME pc' \in {"m17Stop", "m17Close"} PROVE rtx'.opStatus # "TX"
  BY DEF Closing
<1>1. CASE M17Ptt
  BY <1>0, <1>1 DEF M17Ptt, PlacesAgree, M17Receives, RtxState
<1>2. CASE M17Stop
  BY <1>0, <1>2 DEF M17Stop, Closing
<1>3. CASE RtxStep /\ ~M17Ptt /\ ~M17Stop
  <2>1. ASSUME NEW mode, NEW r, pc' = FirstStep(mode, r), mode \in {"NONE", "FM", "M17"},
               r.opStatus \in {"OFF", "RX", "TX"}
        PROVE  FALSE
    <3>1. FirstStep(mode, r) \in FirstPlaces
      BY <2>1 DEF FirstStep, FirstPlaces
    <3> QED BY <2>1, <3>1 DEF FirstPlaces
  <2>2. rtx' \in RtxState /\ rtx.mode \in {"NONE", "FM", "M17"} /\ rtx.opStatus \in {"OFF", "RX", "TX"}
        /\ rtx'.mode \in {"NONE", "FM", "M17"} /\ rtx'.opStatus \in {"OFF", "RX", "TX"}
    BY <1>0, <1>3, TaskSteps, ModesAssumption DEF RtxState
  <2>3. ~Enable /\ ~NoConfig /\ ~TakeConfig
    BY <2>1, <2>2 DEF Enable, NoConfig, TakeConfig
  <2> QED BY <1>3, <2>3
    DEF RtxStep, Disable, NextDisable, FmRx, FmTx, FmTalk, FmEnd, M17Off, M17Leave,
        M17RxStart, M17Rx, M17Open, M17Status, M17Decode, M17Push, M17Close,
        M17TxStart, M17Encode, M17Modulate, M17TxFrame, M17TxEnd
<1>4. CASE UiStep \/ UiEvent \/ CodecStep \/ World
  BY <1>0, <1>4, OthersTouch DEF Closing
<1> QED BY <1>1, <1>2, <1>3, <1>4 DEF RtxNext

-----------------------------------------------------------------------------
LEMMA M17ListeningKept == ASSUME Before, RtxNext PROVE M17Listening'
<1>0. /\ IInv /\ PathsKnown /\ NoPathLeaked /\ OneOwner /\ Ranked /\ M17Listening
      /\ RInv /\ PlacesAgree /\ ShutPaths /\ rtx \in RtxState
  BY RtxTyped DEF Before, TInv
<1>t. /\ <<"RTX", "MCU">> \in Pairs /\ 2 \in Priority
  BY AskedAssumption, RequestsAssumption DEF Asked
<1> SUFFICES ASSUME rtx'.mode = "M17", rtx'.opStatus = "RX"
             PROVE  /\ Shut("tx")'
                    /\ DriverListens /\ ~rtx'.startRx /\ pc' \notin Leaving => Status("in")' = "OPEN"
  BY DEF M17Listening
<1>1. CASE M17Leave
  <2>1. Shut("tx")'
    <3>1. Frees("tx")
      BY <1>1, TaskTouches DEF RtxStep
    <3> QED BY <1>0, <3>1, FreeEffect DEF Owner
  <2>2. rtx'.startRx
    BY <1>0, <1>1 DEF M17Leave, PlacesAgree, RtxState
  <2> QED BY <2>1, <2>2
<1>2. CASE M17RxStart
  <2>1. Asks("in", <<"RTX", "MCU">>, 2)
    BY <1>2, TaskTouches DEF RtxStep
  <2>2. rtx.mode = "M17" /\ rtx.opStatus = "RX" /\ Shut("in") /\ Shut("out") /\ Shut("tx")
    BY <1>0, <1>2
    DEF M17RxStart, PlacesAgree, M17Places, ShutPaths, ShutInM17, Leaving,
        M17Listening
  <2>3. KeepsOthers("in") /\ (Granted(<<"RTX", "MCU">>, 2) => Status("in")' = "OPEN")
    BY <2>1, AsksEffect DEF Owner
  <2>4. Shut("tx")'
    BY <2>2, <2>3 DEF KeepsOthers, Shut, Owner
  <2>5. DriverListens => Granted(<<"RTX", "MCU">>, 2)
    <3> SUFFICES ASSUME DriverListens PROVE Granted(<<"RTX", "MCU">>, 2)
      OBVIOUS
    <3>1. \A q \in Owner : Shut(q) \/ <<<<"RTX", "MCU">>, PairOf(q, rtx.mode)>> \in Compatible
      BY <2>2 DEF Owner, PairOf, DriverListens
    <3> QED BY <1>0, <1>t, <3>1, GrantedWhen
  <2> QED BY <2>3, <2>4, <2>5
<1>3. CASE RtxStep /\ ~M17Leave /\ ~M17RxStart
  <2>0. ~Enable
    BY <1>0, <1>3 DEF Enable, RtxState
  <2>1. rtx.mode = "M17" /\ (pc \in Leaving => pc' \in Leaving)
    BY <1>3, <2>0, TaskControl
  <2>2. pc \notin FmPlaces
    BY <1>0, <2>1 DEF PlacesAgree
  <2>3. ~FmRx /\ ~FmTx /\ ~FmTalk /\ ~FmEnd
    BY <2>2 DEF FmPlaces, FmRx, FmTx, FmTalk, FmEnd
  <2>4. rtx.opStatus = "RX" /\ (rtx.startRx => rtx'.startRx \/ pc' \in Leaving)
    <3>1. CASE TakeConfig \/ NoConfig
      BY <1>0, <3>1 DEF TakeConfig, NoConfig, RtxState
    <3>2. CASE Disable("disableRx", "rx") \/ Disable("disableTx", "tx")
               \/ Disable("disableOut", "out") \/ Disable("disableIn", "in")
      BY <1>0, <2>1, <3>2 DEF Disable, Leaving, RtxState
    <3>3. CASE M17Off \/ M17Rx \/ M17Open \/ M17Status \/ M17Decode \/ M17Push \/ M17Ptt
               \/ M17Stop \/ M17Close
      BY <1>0, <3>3
      DEF M17Off, M17Rx, M17Open, M17Status, M17Decode, M17Push, M17Ptt, M17Stop,
          M17Close, RtxState
    <3>4. CASE M17TxStart \/ M17Encode \/ M17Modulate \/ M17TxFrame \/ M17TxEnd
      BY <1>0, <3>4
      DEF M17TxStart, M17Encode, M17Modulate, M17TxFrame, M17TxEnd, RtxState
    <3> QED BY <1>3, <2>0, <2>3, <3>1, <3>2, <3>3, <3>4 DEF RtxStep
  <2>5. \/ UNCHANGED audio \/ Frees("rx") \/ Frees("tx") \/ Frees("out")
        \/ Asks("rx", <<"MCU", "SPK">>, 2) \/ pc' \in Leaving
    <3>1. ~M17TxStart /\ ~M17Modulate
      BY <1>0, <2>4 DEF M17TxStart, M17Modulate, PlacesAgree, M17Sends
    <3>2. M17Ptt => UNCHANGED audio
      BY <1>3, TaskTouches
    <3>3. Disable("disableIn", "in") => pc' \in Leaving
      BY DEF Disable, NextDisable, Leaving
    <3>4. TakeConfig \/ NoConfig \/ M17Off \/ M17Rx \/ M17Status \/ M17Decode \/ M17Push
          \/ M17Stop \/ M17Encode \/ M17TxFrame => UNCHANGED audio
      BY DEF TakeConfig, NoConfig, M17Off, M17Rx, M17Status, M17Decode, M17Push,
           M17Stop, M17Encode, M17TxFrame
    <3> QED BY <1>3, <2>0, <2>3, <3>1, <3>2, <3>3, <3>4, TaskTouches DEF RtxStep
  <2>6. Shut("tx")'
    <3>1. Shut("tx")
      BY <1>0, <2>1, <2>4 DEF M17Listening
    <3>2. CASE UNCHANGED audio
      BY <1>0, <3>1, <3>2, QuietEffect DEF KeepsOthers, Shut, Owner
    <3>3. ASSUME NEW o \in Owner, KeepsOthers(o) \/ (o = "tx" /\ Shut(o)'), o = "tx" => Shut(o)'
          PROVE  Shut("tx")'
      BY <3>1, <3>3 DEF KeepsOthers, Shut, Owner
    <3>4. ASSUME NEW o \in Owner, Frees(o) PROVE Shut("tx")'
      BY <1>0, <3>3, <3>4, FreeEffect
    <3>5. CASE Asks("rx", <<"MCU", "SPK">>, 2)
      BY <3>3, <3>5, AsksEffect DEF Owner
    <3>6. CASE Disable("disableRx", "rx") \/ Disable("disableTx", "tx")
               \/ Disable("disableOut", "out") \/ Disable("disableIn", "in")
      BY <1>3, <3>4, <3>6, TaskTouches DEF Owner
    <3>7. CASE pc' \in Leaving /\ ~UNCHANGED audio
      BY <1>3, <2>0, <2>3, <3>6, <3>7
      DEF RtxStep, Leaving, TakeConfig, NoConfig, M17Off, M17Rx, M17Open, M17Status,
          M17Decode, M17Push, M17Ptt, M17Stop, M17Close, M17TxStart, M17Encode,
          M17Modulate, M17TxFrame, M17TxEnd
    <3> QED BY <2>5, <3>2, <3>4, <3>5, <3>7 DEF Owner
  <2>7. ASSUME DriverListens, ~rtx'.startRx, pc' \notin Leaving
        PROVE  Status("in")' = "OPEN"
    <3>1. Status("in") = "OPEN"
      BY <1>0, <2>1, <2>4, <2>7 DEF M17Listening
    <3>2. CASE UNCHANGED audio
      BY <1>0, <3>1, <3>2, QuietEffect DEF Owner
    <3>3. CASE Frees("rx") \/ Frees("tx") \/ Frees("out")
      BY <1>0, <3>1, <3>3, FreeEffect DEF Owner
    <3>4. CASE Asks("rx", <<"MCU", "SPK">>, 2)
      <4>1. routes[path["in"]].pair = <<"RTX", "MCU">>
        BY <1>0, <3>1, OpenStatus DEF Ranked, PairOf, Owner
      <4>2. <<<<"MCU", "SPK">>, routes[path["in"]].pair>> \in Compatible
        BY <2>7, <4>1 DEF DriverListens
      <4> QED BY <3>1, <3>4, <4>2, AsksEffect DEF Owner
    <3> QED BY <2>5, <2>7, <3>2, <3>3, <3>4
  <2> QED BY <2>6, <2>7
<1>4. CASE UiStep \/ UiEvent \/ CodecStep \/ World
  <2>1. /\ UNCHANGED <<rtx, pc>>
        /\ UNCHANGED audio \/ Frees("prompt") \/ Asks("prompt", <<"MCU", "SPK">>, 3)
    BY <1>4, OthersTouch
  <2>2. KeepsOthers("prompt")
    BY <1>0, <2>1, QuietEffect, FreeEffect, AsksEffect DEF Owner
  <2>3. Shut("tx")'
    BY <1>0, <2>1, <2>2 DEF M17Listening, KeepsOthers, Shut, Owner
  <2>4. ASSUME DriverListens, ~rtx'.startRx, pc' \notin Leaving
        PROVE  Status("in")' = "OPEN"
    <3>1. Status("in") = "OPEN"
      BY <1>0, <2>1, <2>4 DEF M17Listening
    <3>2. CASE UNCHANGED audio
      BY <1>0, <3>1, <3>2, QuietEffect DEF Owner
    <3>3. CASE Frees("prompt")
      BY <1>0, <3>1, <3>3, FreeEffect DEF Owner
    <3>4. CASE Asks("prompt", <<"MCU", "SPK">>, 3)
      <4>1. routes[path["in"]].pair = <<"RTX", "MCU">>
        BY <1>0, <3>1, OpenStatus DEF Ranked, PairOf, Owner
      <4>2. <<<<"MCU", "SPK">>, routes[path["in"]].pair>> \in Compatible
        BY <2>4, <4>1 DEF DriverListens
      <4> QED BY <3>1, <3>4, <4>2, AsksEffect DEF Owner
    <3> QED BY <2>1, <3>2, <3>3, <3>4
  <2> QED BY <2>3, <2>4
<1> QED BY <1>1, <1>2, <1>3, <1>4 DEF RtxNext

-----------------------------------------------------------------------------
(* The codec encodes for a transmission until the task stops it: the path  *)
(* of the microphone is open, and no prompt is of its priority.            *)
LEMMA PromptLeavesCodec ==
  ASSUME Before, Status("tx") = "OPEN", UiStep \/ UiEvent \/ CodecStep \/ World
  PROVE  /\ codec.path # path["tx"] => codec'.path # path["tx"]
         /\ codec = [path |-> path["tx"], dir |-> "encode"] => codec' = codec
<1>0. /\ PathsKnown /\ OneOwner /\ Ranked /\ path["tx"] \in Live /\ path["tx"] # 0
      /\ path["prompt"] # path["tx"] /\ routes[path["tx"]].prio = 4
  <2>1. PathsKnown /\ OneOwner /\ Ranked /\ path["tx"] \in Live
    BY OpenStatus DEF Before, RInv, TInv, Owner
  <2>2. path["tx"] # 0 /\ path["prompt"] # path["tx"]
    BY <2>1 DEF PathsKnown, OneOwner, Owner
  <2>3. routes[path["tx"]].prio = 4
    BY <2>1 DEF Ranked, Rank, Owner
  <2> QED BY <2>1, <2>2, <2>3
<1>1. CASE codec' = codec
  BY <1>1
<1>2. CASE codec' = Stopped /\ getStatus(codec.path) # "OPEN"
  BY <1>0, <1>2 DEF Stopped, Status
<1>3. CASE StopCodec("prompt")
  BY <1>0, <1>3 DEF StopCodec, Stopped
<1>4. CASE StartCodec("prompt", "decode")
  <2>1. codec = [path |-> path["tx"], dir |-> "encode"] => ~TakesOver("prompt")
    <3> SUFFICES ASSUME codec = [path |-> path["tx"], dir |-> "encode"], TakesOver("prompt")
                 PROVE  FALSE
      OBVIOUS
    <3>1. codec.path = path["tx"] /\ codec.dir = "encode"
      OBVIOUS
    <3>2. Status("prompt") = "OPEN" /\ routes[path["tx"]].prio < routes[path["prompt"]].prio
      BY <3>1 DEF TakesOver, Status
    <3>3. routes[path["prompt"]].prio = 3
      BY <1>0, <3>2, OpenStatus DEF Ranked, Rank, Owner
    <3> QED BY <1>0, <3>2, <3>3
  <2> QED BY <1>0, <1>4, <2>1 DEF StartCodec, codecs
<1> QED BY <1>1, <1>2, <1>3, <1>4, CodecTouch

LEMMA M17TalkingKept == ASSUME Before, RtxNext PROVE M17Talking'
<1>0. /\ IInv /\ PathsKnown /\ NoPathLeaked /\ OneOwner /\ Ranked /\ CodecKnown /\ Closing
      /\ M17Talking /\ RInv /\ PlacesAgree /\ ShutPaths /\ rtx \in RtxState
  BY RtxTyped DEF Before, TInv
<1>t. <<"MIC", "MCU">> \in Pairs /\ <<"MCU", "RTX">> \in Pairs /\ 4 \in Priority
  BY AskedAssumption, RequestsAssumption DEF Asked
<1> SUFFICES ASSUME rtx'.mode = "M17", rtx'.opStatus = "TX", ~rtx'.startTx, pc' \notin Leaving
             PROVE  /\ Status("tx")' = "OPEN"
                    /\ pc' = "m17Encode" => codec'.path # path'["tx"]
                    /\ pc' # "m17Encode" => codec' = [path |-> path'["tx"], dir |-> "encode"]
                    /\ DriverTalks /\ pc' \notin {"m17Encode", "m17Modulate"} => Status("out")' = "OPEN"
  BY DEF M17Talking
<1>1. CASE M17TxStart
  <2>1. Asks("tx", <<"MIC", "MCU">>, 4)
    BY <1>1, TaskTouches DEF RtxStep
  <2>2. rtx.mode = "M17" /\ Shut("tx") /\ Shut("out")
    BY <1>0, <1>1
    DEF M17TxStart, PlacesAgree, M17Places, ShutPaths, ShutInM17, Leaving
  <2>3. Granted(<<"MIC", "MCU">>, 4)
    <3>1. \A q \in Owner : Shut(q) \/ Rank(q) < 4
      BY <2>2 DEF Owner, Rank
    <3> QED BY <1>0, <1>t, <3>1, GrantedWhen
  <2>4. Status("tx")' = "OPEN" /\ path'["tx"] = pathCounter
    BY <2>1, <2>3, AsksEffect DEF Owner
  <2>5. pc' = "m17Encode" /\ codec' = codec /\ codec.path < pathCounter /\ pathCounter \in Int
        /\ codec.path \in Int
    BY <1>0, <1>1 DEF M17TxStart, codecs, CodecKnown, PathsKnown, RInv, RtxTypeOK
  <2>6. codec'.path # path'["tx"]
    BY <2>4, <2>5
  <2> QED BY <2>4, <2>5, <2>6
<1>2. CASE M17Encode
  <2>1. rtx.mode = "M17" /\ rtx.opStatus = "TX" /\ ~rtx.startTx /\ pc = "m17Encode" /\ pc' = "m17Modulate"
    BY <1>0, <1>2 DEF M17Encode, PlacesAgree, M17Places, M17Sends
  <2>2. Status("tx") = "OPEN" /\ codec.path # path["tx"] /\ Shut("out")
    BY <1>0, <2>1 DEF M17Talking, Leaving, ShutPaths, ShutInM17
  <2>3. Status("tx")' = "OPEN" /\ path' = path
    BY <1>0, <1>2, <2>2, QuietEffect DEF M17Encode, Owner
  <2>4. routes[path["tx"]].prio = 4
    BY <1>0, <2>2, OpenStatus DEF Ranked, Rank, Owner
  <2>5. TakesOver("tx")
    <3> SUFFICES ASSUME getStatus(codec.path) = "OPEN"
                 PROVE  routes[codec.path].prio < 4
      BY <2>2, <2>4 DEF TakesOver
    <3>1. codec.path \in Live
      BY DEF getStatus, isActive
    <3>2. PICK q \in Owner : path[q] = codec.path
      BY <1>0, <3>1 DEF NoPathLeaked
    <3>3. q \notin {"tx", "out"}
      BY <2>2, <3>1, <3>2 DEF Shut
    <3>4. routes[codec.path].prio = Rank(q)
      BY <1>0, <3>1, <3>2 DEF Ranked
    <3> QED BY <3>3, <3>4 DEF Rank, Owner
  <2>6. codec' = [path |-> path["tx"], dir |-> "encode"]
    BY <1>2, <2>5 DEF M17Encode, StartCodec
  <2> QED BY <2>1, <2>3, <2>6
<1>3. CASE M17Modulate
  <2>1. Asks("out", <<"MCU", "RTX">>, 4)
    BY <1>3, TaskTouches DEF RtxStep
  <2>2. rtx.mode = "M17" /\ rtx.opStatus = "TX" /\ ~rtx.startTx /\ pc = "m17Modulate" /\ codec' = codec
    BY <1>0, <1>3 DEF M17Modulate, PlacesAgree, M17Places, M17Sends, codecs
  <2>3. Status("tx") = "OPEN" /\ codec = [path |-> path["tx"], dir |-> "encode"] /\ Shut("out")
    BY <1>0, <2>2 DEF M17Talking, Leaving, ShutPaths, ShutInM17
  <2>4. Status("tx")' = "OPEN" /\ path'["tx"] = path["tx"]
    <3>1. <<<<"MCU", "RTX">>, 4>> \in Asked /\ "out" \in Owner \ {"tx"}
      BY DEF Asked, Owner
    <3>2. \E o \in Owner \ {"tx"} : \E r \in Asked : Asks(o, r[1], r[2])
      BY <2>1, <3>1
    <3> QED BY <2>3, <3>2, NothingOutranks
  <2>5. ASSUME DriverTalks PROVE Status("out")' = "OPEN"
    <3>1. \A q \in Owner : \/ Shut(q) \/ Rank(q) < 4
                           \/ <<<<"MCU", "RTX">>, PairOf(q, rtx.mode)>> \in Compatible
      BY <2>2, <2>3, <2>5 DEF Owner, Rank, PairOf, DriverTalks
    <3>2. Granted(<<"MCU", "RTX">>, 4)
      BY <1>0, <1>t, <3>1, GrantedWhen
    <3> QED BY <2>1, <3>2, AsksEffect DEF Owner
  <2>6. pc' = "m17TxFrame"
    BY <1>3 DEF M17Modulate
  <2> QED BY <2>2, <2>3, <2>4, <2>5, <2>6
<1>4. CASE RtxStep /\ ~M17TxStart /\ ~M17Encode /\ ~M17Modulate
  <2>0. ~Enable
    BY <1>0, <1>4 DEF Enable, RtxState
  <2>1. rtx.mode = "M17" /\ pc \notin Leaving
    BY <1>4, <2>0, TaskControl
  <2>2. pc \notin FmPlaces
    BY <1>0, <2>1 DEF PlacesAgree
  <2>3. ~FmRx /\ ~FmTx /\ ~FmTalk /\ ~FmEnd
    BY <2>2 DEF FmPlaces, FmRx, FmTx, FmTalk, FmEnd
  <2>4. TakeConfig \/ NoConfig \/ M17TxFrame
    <3>1. ~M17Off /\ ~M17Leave /\ ~M17TxEnd
      BY <1>0 DEF M17Off, M17Leave, M17TxEnd, PlacesAgree, RtxState
    <3>2. ~M17RxStart /\ ~M17Rx /\ ~M17Open /\ ~M17Status /\ ~M17Decode /\ ~M17Push /\ ~M17Ptt
      BY <1>0
      DEF M17RxStart, M17Rx, M17Open, M17Status, M17Decode, M17Push, M17Ptt,
          PlacesAgree, M17Receives, RtxState
    <3>3. ~M17Stop /\ ~M17Close
      BY <1>0 DEF M17Stop, M17Close, Closing
    <3>4. ~Disable("disableRx", "rx") /\ ~Disable("disableTx", "tx")
          /\ ~Disable("disableOut", "out") /\ ~Disable("disableIn", "in")
      BY <2>1 DEF Disable, Leaving
    <3> QED BY <1>4, <2>0, <2>3, <3>1, <3>2, <3>3, <3>4 DEF RtxStep
  <2>5. rtx.opStatus = "TX" /\ ~rtx.startTx /\ pc \in {"config", "m17TxFrame"}
        /\ UNCHANGED audio /\ codec' = codec
    BY <1>0, <2>4 DEF TakeConfig, NoConfig, M17TxFrame, RtxState, codecs
  <2>6. pc' \notin {"m17Encode", "m17Modulate"}
    <3>1. rtx.mode = "M17" /\ rtx.opStatus = "TX" /\ ~rtx.startTx
      BY <2>1, <2>5
    <3>2. FirstStep(rtx.mode, rtx) = "m17TxFrame"
      BY <3>1 DEF FirstStep
    <3> QED BY <2>4, <3>2 DEF TakeConfig, NoConfig, M17TxFrame
  <2>7. path' = path /\ \A q \in Owner : Status(q) = "OPEN" => Status(q)' = "OPEN"
    BY <1>0, <2>5, QuietEffect
  <2> QED BY <1>0, <2>1, <2>5, <2>6, <2>7 DEF M17Talking, Owner
<1>5. CASE UiStep \/ UiEvent \/ CodecStep \/ World
  <2>1. /\ UNCHANGED <<rtx, pc>>
        /\ UNCHANGED audio \/ Frees("prompt") \/ Asks("prompt", <<"MCU", "SPK">>, 3)
    BY <1>5, OthersTouch
  <2>2. /\ Status("tx") = "OPEN"
        /\ pc = "m17Encode" => codec.path # path["tx"]
        /\ pc # "m17Encode" => codec = [path |-> path["tx"], dir |-> "encode"]
        /\ DriverTalks /\ pc \notin {"m17Encode", "m17Modulate"} => Status("out") = "OPEN"
    BY <1>0, <2>1 DEF M17Talking
  <2>3. ASSUME NEW t \in {"tx", "out"}, Status(t) = "OPEN"
        PROVE  Status(t)' = "OPEN" /\ path'[t] = path[t]
    <3>1. <<<<"MCU", "SPK">>, 3>> \in Asked /\ "prompt" \in Owner \ {t}
      BY DEF Asked, Owner
    <3>2. Asks("prompt", <<"MCU", "SPK">>, 3) => \E o \in Owner \ {t} : \E r \in Asked : Asks(o, r[1], r[2])
      BY <3>1
    <3> QED BY <2>1, <2>3, <3>1, <3>2, NothingOutranks
  <2>4. Status("tx")' = "OPEN" /\ path'["tx"] = path["tx"]
    BY <2>2, <2>3
  <2>5. /\ codec.path # path["tx"] => codec'.path # path["tx"]
        /\ codec = [path |-> path["tx"], dir |-> "encode"] => codec' = codec
    BY <1>5, <2>2, PromptLeavesCodec
  <2>6. DriverTalks /\ pc \notin {"m17Encode", "m17Modulate"} => Status("out")' = "OPEN"
    BY <2>2, <2>3
  <2> QED BY <2>1, <2>2, <2>4, <2>5, <2>6
<1> QED BY <1>1, <1>2, <1>3, <1>4, <1>5 DEF RtxNext

-----------------------------------------------------------------------------
LEMMA InitTInv == RtxInit => TInv
<1> SUFFICES ASSUME RtxInit PROVE TInv
  OBVIOUS
<1>1. Live = {} /\ pathCounter = 1 /\ codec.path = 0
  BY DEF RtxInit, Init, Live, Stopped
<1>2. rtx.mode = "NONE" /\ rtx.opStatus = "OFF"
  BY DEF RtxInit
<1> QED BY <1>1, <1>2
  DEF TInv, OneOwner, Ranked, CodecKnown, Closing, FmTalking, M17Listening,
      M17Talking

LEMMA QuietTInv == ASSUME TInv, UNCHANGED rtxVars PROVE TInv'
<1>1. UNCHANGED <<routes, Live, path, pathCounter, codec, rtx, pc>>
  BY DEF rtxVars, audio, codecs, vars, Live
<1>2. \A o \in Owner : Status(o) = "OPEN" => Status(o)' = "OPEN"
  BY <1>1, OpenStatus, OpenStatusNext
<1> QED BY <1>1, <1>2
  DEF TInv, OneOwner, Ranked, CodecKnown, Closing, FmTalking, M17Listening,
      M17Talking, Shut, Owner

LEMMA TalkInductive == RtxSpec => []Before
<1>1. RtxSpec => []IInv
  BY PathsImplemented, Inductive, PTL
<1>2. IInv /\ RInv /\ TInv /\ [RtxNext]_rtxVars => TInv'
  <2>1. ASSUME IInv, RInv, TInv, RtxNext PROVE TInv'
    <3>1. Before
      BY <2>1 DEF Before
    <3> QED BY <2>1, <3>1, OwnersKept, CodecKnownKept, ClosingKept, FmTalkingKept,
           M17ListeningKept, M17TalkingKept DEF TInv
  <2> QED BY <2>1, QuietTInv
<1>3. IInv /\ RInv /\ TInv <=> Before
  BY DEF Before
<1> QED BY <1>1, <1>2, <1>3, InitTInv, RtxInductive, PTL DEF RtxSpec

(* FM talks with the microphone connected and its own speaker closed, for  *)
(* every rule of the driver, whatever the prompts of the UI thread do.     *)
THEOREM FmTalksAloneAlways == RtxSpec => []FmTalksAlone
<1>1. Before => FmTalksAlone
  <2> SUFFICES ASSUME Before PROVE FmTalksAlone
    OBVIOUS
  <2>1. FmTalking /\ \A o \in Owner : Shut(o) => Status(o) # "OPEN"
    BY OpenStatus DEF Before, TInv, Shut
  <2> QED BY <2>1 DEF FmTalksAlone, FmTalking, Owner
<1> QED BY <1>1, TalkInductive, PTL

(* M17 listens with its baseband path open, when the driver lets the       *)
(* speaker sound beside it.                                                *)
THEOREM M17ReceiverFedAlways == ASSUME DriverListens
                                PROVE  RtxSpec => []M17ReceiverFed
<1>1. Before => M17ReceiverFed
  <2> SUFFICES ASSUME Before PROVE M17ReceiverFed
    OBVIOUS
  <2>1. M17Listening /\ PlacesAgree
    BY DEF Before, TInv, RInv
  <2> QED BY <2>1
    DEF M17ReceiverFed, M17Listening, PlacesAgree, M17Receives, Leaving
<1> QED BY <1>1, TalkInductive, PTL

(* M17 sends with the microphone and the baseband output open and the      *)
(* codec encoding its own path, when the driver lets the output be used    *)
(* beside the microphone.                                                  *)
THEOREM M17TransmitterFedAlways == ASSUME DriverTalks
                                   PROVE  RtxSpec => []M17TransmitterFed
<1>1. Before => M17TransmitterFed
  <2> SUFFICES ASSUME Before PROVE M17TransmitterFed
    OBVIOUS
  <2>1. M17Talking /\ PlacesAgree
    BY DEF Before, TInv, RInv
  <2> QED BY <2>1
    DEF M17TransmitterFed, M17Talking, PlacesAgree, M17Places, M17Sends, Leaving
<1> QED BY <1>1, TalkInductive, PTL

-----------------------------------------------------------------------------
(* Active paths accept one another, though a release resumes paths without *)
(* asking the driver.  A path that is opened suspends the active paths in  *)
(* its way and does not see the suspended ones: what is proved from here   *)
(* on is that none of these is in its way, so that the conflicts of the    *)
(* live paths are all listed (ConflictsListed).                            *)

(* What M17 needs of the driver besides: the microphone beside a prompt.   *)
DriverPrompts == <<<<"MIC", "MCU">>, <<"MCU", "SPK">>>> \in Compatible

(* The later of two paths the driver does not accept together suspends the *)
(* earlier one.                                                            *)
ConflictsListed ==
  \A i, j \in Live :
    i < j /\ <<routes[j].pair, routes[i].pair>> \notin Compatible
      => j \in routes[i].suspendedBy

(* The speaker of a mode and its transmission are never live together.     *)
Apart == Shut("rx") \/ (Shut("tx") /\ Shut("out"))

RxSilent ==
  rtx.mode = "M17" /\ rtx.opStatus # "RX" /\ pc \notin Leaving \cup {"m17Stop", "m17Close"}
    => Shut("rx")

TxSparesPrompt ==
  rtx.mode = "M17" /\ path["prompt"] \in Live =>
    path["tx"] \notin routes[path["prompt"]].suspendedBy

CInv == ConflictsListed /\ Apart /\ RxSilent /\ TxSparesPrompt

-----------------------------------------------------------------------------
(* Suspended paths wait for a live path of a higher rank. *)
LEMMA WhoSuspends ==
  ASSUME Before, NEW q \in Owner, ~Shut(q), Status(q) # "OPEN"
  PROVE  \E s \in Owner : /\ ~Shut(s) /\ Rank(q) < Rank(s)
                          /\ path[s] \in routes[path[q]].suspendedBy
<1>1. /\ path[q] \in Live /\ routes[path[q]].suspendedBy # {}
      /\ IInv /\ NoPathLeaked /\ Ranked
  BY OpenStatus DEF Before, RInv, TInv, Shut
<1>2. PICK i : i \in routes[path[q]].suspendedBy
  BY <1>1
<1>3. i \in Live /\ routes[path[q]].prio < routes[i].prio
  BY <1>1, <1>2 DEF IInv, TypeOK, SuspendersOutrank
<1>4. PICK s \in Owner : path[s] = i
  BY <1>1, <1>3 DEF NoPathLeaked
<1> QED BY <1>1, <1>2, <1>3, <1>4 DEF Ranked, Shut

(* What matters here of a path that is opened. *)
LEMMA OpenFields ==
  ASSUME IInv, NEW pair \in Pairs, NEW prio \in Priority, Open(pair, prio)
  PROVE  /\ pathCounter \notin Live /\ Live' = Live \cup {pathCounter}
         /\ routes'[pathCounter].pair = pair /\ routes'[pathCounter].suspendedBy = {}
         /\ \A i \in Live :
              /\ routes'[i].pair = routes[i].pair
              /\ \A j : j \in routes'[i].suspendedBy <=>
                   \/ j \in routes[i].suspendedBy
                   \/ i \in Conflicting(pair) /\ j = pathCounter
<1>1. routes'[pathCounter] = [pair |-> pair, prio |-> prio,
         suspendList |-> Conflicting(pair), suspendedBy |-> {}]
  BY OpenRoutes
<1>2. routes'[pathCounter].pair = pair /\ routes'[pathCounter].suspendedBy = {}
  BY <1>1
<1>3. pathCounter \notin Live /\ Live' = Live \cup {pathCounter}
  BY OpenRoutes
<1>4. ASSUME NEW i \in Live
      PROVE  /\ routes'[i].pair = routes[i].pair
             /\ \A j : j \in routes'[i].suspendedBy <=>
                  \/ j \in routes[i].suspendedBy
                  \/ i \in Conflicting(pair) /\ j = pathCounter
  BY OpenRoutes
<1> QED BY <1>2, <1>3, <1>4

LEMMA ListedByAsk ==
  ASSUME Before, ConflictsListed, NEW o \in Owner, NEW pair, NEW prio,
         Asks(o, pair, prio),
         \A q \in Owner \ {o} : \/ Shut(q) \/ Status(q) = "OPEN"
                                \/ <<pair, PairOf(q, rtx.mode)>> \in Compatible
  PROVE  ConflictsListed'
<1>0. /\ IInv /\ PathsKnown /\ NoPathLeaked /\ Ranked /\ path[o] \notin Live
      /\ pair \in Pairs /\ prio \in Priority /\ RequestFor(o, pair, prio)
  BY AskedAssumption, RequestsAssumption DEF Before, RInv, TInv, Asks, Shut
<1>1. CASE Open(pair, prio)
  <2>1. /\ pathCounter \notin Live /\ Live' = Live \cup {pathCounter}
        /\ routes'[pathCounter].pair = pair
        /\ \A i \in Live :
             /\ routes'[i].pair = routes[i].pair
             /\ \A j : j \in routes'[i].suspendedBy <=>
                  \/ j \in routes[i].suspendedBy
                  \/ i \in Conflicting(pair) /\ j = pathCounter
    BY <1>0, <1>1, OpenFields
  <2> SUFFICES ASSUME NEW i \in Live', NEW j \in Live', i < j,
                      <<routes'[j].pair, routes'[i].pair>> \notin Compatible
               PROVE  j \in routes'[i].suspendedBy
    BY DEF ConflictsListed
  <2>2. i \in Live
    <3>1. \A k \in Live : k \in Int /\ k < pathCounter
      BY <1>0 DEF PathsKnown
    <3>2. pathCounter \in Int
      BY <1>0 DEF PathsKnown
    <3>3. i # pathCounter
      BY <2>1, <3>1, <3>2
    <3> QED BY <2>1, <3>3
  <2>3. CASE j \in Live
    BY <2>1, <2>2, <2>3 DEF ConflictsListed
  <2>4. CASE j = pathCounter
    <3>1. <<pair, routes[i].pair>> \notin Compatible
      BY <2>1, <2>2, <2>4
    <3>2. PICK q \in Owner : path[q] = i
      BY <1>0, <2>2 DEF NoPathLeaked
    <3>3. q # o /\ ~Shut(q) /\ routes[i].pair = PairOf(q, rtx.mode)
      BY <1>0, <2>2, <3>2 DEF Ranked, Shut
    <3>4. Status(q) = "OPEN"
      BY <3>1, <3>3
    <3>5. i \in activePaths
      BY <1>0, <3>2, <3>4, OpenStatus DEF IInv, ActiveAgrees, isActive
    <3>6. i \in Conflicting(pair)
      BY <3>1, <3>5 DEF Conflicting
    <3> QED BY <2>1, <2>2, <2>4, <3>6
  <2> QED BY <2>1, <2>3, <2>4
<1>2. CASE Deny(pair, prio)
  BY <1>2 DEF Deny, vars, Live, ConflictsListed
<1> QED BY <1>0, <1>1, <1>2 DEF RequestFor, Request

LEMMA ListedByFree ==
  ASSUME Before, ConflictsListed, NEW o \in Owner, Frees(o)
  PROVE  ConflictsListed'
<1>1. CASE Close(path[o])
  <2>1. /\ Live' = Live \ {path[o]}
        /\ \A i \in Live' :
             /\ routes'[i].pair = routes[i].pair
             /\ \A j : j \in routes'[i].suspendedBy <=>
                  IF i \in routes[path[o]].suspendList
                  THEN \/ j \in routes[i].suspendedBy /\ j # path[o]
                       \/ j \in routes[path[o]].suspendedBy
                  ELSE j \in routes[i].suspendedBy
    BY <1>1, CloseRoutes DEF Before
  <2> QED BY <2>1 DEF ConflictsListed
<1>2. CASE CloseUnknown(path[o])
  BY <1>2 DEF CloseUnknown, vars, Live, ConflictsListed
<1> QED BY <1>1, <1>2 DEF Frees, Release

LEMMA ListedQuiet == ASSUME ConflictsListed, UNCHANGED audio PROVE ConflictsListed'
<1>1. UNCHANGED <<routes, Live>>
  BY DEF audio, vars, Live
<1> QED BY <1>1 DEF ConflictsListed

(* The six steps of the task that ask for a path; the others ask for none. *)
TaskAsk == FmRx \/ FmTalk \/ M17RxStart \/ M17Open \/ M17TxStart \/ M17Modulate

LEMMA RestAsksNothing ==
  ASSUME Before, RtxStep, ~TaskAsk
  PROVE  UNCHANGED audio \/ \E o \in Owner : Frees(o)
<1>1. CASE FmTx \/ FmEnd \/ M17Leave \/ M17Ptt \/ M17Close \/ M17TxEnd
           \/ Disable("disableRx", "rx") \/ Disable("disableTx", "tx")
           \/ Disable("disableOut", "out") \/ Disable("disableIn", "in")
  BY <1>1, TaskTouches DEF Owner
<1>2. CASE TakeConfig \/ NoConfig \/ Enable \/ M17Off \/ M17Rx \/ M17Status
           \/ M17Decode \/ M17Push \/ M17Stop \/ M17Encode \/ M17TxFrame
  BY <1>2
  DEF TakeConfig, NoConfig, Enable, M17Off, M17Rx, M17Status, M17Decode, M17Push,
      M17Stop, M17Encode, M17TxFrame
<1> QED BY <1>1, <1>2 DEF RtxStep, TaskAsk

(* What is known at each of the places that ask. *)
LEMMA AskingPlaces ==
  ASSUME Before, CInv
  PROVE  /\ FmRx /\ rtx.opStatus = "RX" =>
              rtx.mode = "FM" /\ Shut("tx") /\ Shut("in") /\ Shut("out")
         /\ FmTalk => rtx.mode = "FM" /\ Shut("rx") /\ Shut("in") /\ Shut("out")
         /\ M17RxStart \/ M17Open => rtx.mode = "M17" /\ Shut("tx") /\ Shut("out")
         /\ M17TxStart \/ M17Modulate =>
              rtx.mode = "M17" /\ Shut("rx") /\ Shut("in") /\ Shut("out")
<1>0. PlacesAgree /\ ShutPaths /\ M17Listening /\ RxSilent
  BY DEF Before, RInv, TInv, CInv
<1>1. FmRx /\ rtx.opStatus = "RX" =>
        rtx.mode = "FM" /\ Shut("tx") /\ Shut("in") /\ Shut("out")
  BY <1>0 DEF FmRx, PlacesAgree, FmPlaces, ShutPaths, ShutInFm, Leaving
<1>2. FmTalk => rtx.mode = "FM" /\ Shut("rx") /\ Shut("in") /\ Shut("out")
  BY <1>0 DEF FmTalk, PlacesAgree, FmPlaces, ShutPaths, ShutInFm, Leaving
<1>3. M17RxStart \/ M17Open => rtx.mode = "M17" /\ Shut("tx") /\ Shut("out")
  BY <1>0
  DEF M17RxStart, M17Open, PlacesAgree, M17Places, M17Receives, ShutPaths, ShutInM17,
      Leaving, M17Listening
<1>4. M17TxStart \/ M17Modulate =>
        rtx.mode = "M17" /\ Shut("rx") /\ Shut("in") /\ Shut("out")
  BY <1>0
  DEF M17TxStart, M17Modulate, PlacesAgree, M17Places, M17Sends, ShutPaths, ShutInM17,
      Leaving, RxSilent
<1> QED BY <1>1, <1>2, <1>3, <1>4

LEMMA ListedKept ==
  ASSUME Before, CInv, DriverListens, DriverTalks, DriverPrompts, RtxNext
  PROVE  ConflictsListed'
<1>0. ConflictsListed /\ Apart /\ TxSparesPrompt
  BY DEF CInv
<1>q. CASE UNCHANGED audio \/ \E o \in Owner : Frees(o)
  BY <1>0, <1>q, ListedQuiet, ListedByFree
<1>1. CASE FmRx
  <2>1. CASE UNCHANGED audio \/ Frees("rx")
    BY <1>q, <2>1 DEF Owner
  <2>2. CASE rtx.opStatus = "RX" /\ Asks("rx", <<"RTX", "SPK">>, 2)
    <3>1. Shut("tx") /\ Shut("in") /\ Shut("out")
      BY <1>1, <2>2, AskingPlaces
    <3>2. Shut("prompt") \/ Status("prompt") = "OPEN"
      BY <3>1, WhoSuspends DEF Owner, Rank
    <3> QED BY <1>0, <2>2, <3>1, <3>2, ListedByAsk DEF Owner
  <2> QED BY <1>1, <2>1, <2>2, TaskTouches DEF RtxStep
<1>2. CASE FmTalk
  <2>1. Asks("tx", <<"MIC", "RTX">>, 4)
    BY <1>2, TaskTouches DEF RtxStep
  <2>2. Shut("rx") /\ Shut("in") /\ Shut("out") /\ Shut("tx")
    BY <1>2, <2>1, AskingPlaces DEF Asks
  <2>3. Shut("prompt") \/ Status("prompt") = "OPEN"
    BY <2>2, WhoSuspends DEF Owner, Rank
  <2> QED BY <1>0, <2>1, <2>2, <2>3, ListedByAsk DEF Owner
<1>3. CASE M17RxStart
  <2>1. Asks("in", <<"RTX", "MCU">>, 2) /\ rtx.mode = "M17" /\ Shut("tx") /\ Shut("out")
    BY <1>3, TaskTouches, AskingPlaces DEF RtxStep
  <2>2. \A q \in {"rx", "prompt"} :
          <<<<"RTX", "MCU">>, PairOf(q, rtx.mode)>> \in Compatible
    BY <2>1 DEF PairOf, DriverListens
  <2> QED BY <1>0, <2>1, <2>2, ListedByAsk DEF Owner
<1>4. CASE M17Open
  <2>1. CASE UNCHANGED audio
    BY <1>q, <2>1
  <2>2. CASE Asks("rx", <<"MCU", "SPK">>, 2)
    <3>1. rtx.mode = "M17" /\ Shut("tx") /\ Shut("out") /\ Shut("rx")
      BY <1>4, <2>2, AskingPlaces DEF Asks
    <3>2. Shut("prompt") \/ Status("prompt") = "OPEN"
      <4>1. \A s \in Owner : ~Shut(s) => ~(Rank("prompt") < Rank(s))
        BY <3>1 DEF Owner, Rank
      <4> QED BY <4>1, WhoSuspends DEF Owner
    <3>3. <<<<"MCU", "SPK">>, PairOf("in", rtx.mode)>> \in Compatible
      BY DEF PairOf, DriverListens
    <3> QED BY <1>0, <2>2, <3>1, <3>2, <3>3, ListedByAsk DEF Owner
  <2> QED BY <1>4, <2>1, <2>2, TaskTouches DEF RtxStep
<1>5. CASE M17TxStart
  <2>1. Asks("tx", <<"MIC", "MCU">>, 4) /\ Shut("rx") /\ Shut("in") /\ Shut("out")
    BY <1>5, TaskTouches, AskingPlaces DEF RtxStep
  <2>2. <<<<"MIC", "MCU">>, PairOf("prompt", rtx.mode)>> \in Compatible
    BY DEF PairOf, DriverPrompts
  <2> QED BY <1>0, <2>1, <2>2, ListedByAsk DEF Owner
<1>6. CASE M17Modulate
  <2>1. /\ Asks("out", <<"MCU", "RTX">>, 4) /\ rtx.mode = "M17"
        /\ Shut("rx") /\ Shut("in") /\ Shut("out")
    BY <1>6, TaskTouches, AskingPlaces DEF RtxStep
  <2>2. <<<<"MCU", "RTX">>, PairOf("tx", rtx.mode)>> \in Compatible
    BY <2>1 DEF PairOf, DriverTalks
  <2>3. Shut("prompt") \/ Status("prompt") = "OPEN"
    <3>1. \A s \in Owner : ~Shut(s) /\ Rank("prompt") < Rank(s) => s = "tx"
      BY <2>1 DEF Owner, Rank
    <3>2. ~Shut("prompt") => path["tx"] \notin routes[path["prompt"]].suspendedBy
      BY <1>0, <2>1 DEF TxSparesPrompt, Shut
    <3> QED BY <3>1, <3>2, WhoSuspends DEF Owner
  <2> QED BY <1>0, <2>1, <2>2, <2>3, ListedByAsk DEF Owner
<1>7. CASE RtxStep /\ ~TaskAsk
  BY <1>q, <1>7, RestAsksNothing
<1>8. CASE UiStep \/ UiEvent \/ CodecStep \/ World
  <2>1. CASE UNCHANGED audio \/ Frees("prompt")
    BY <1>q, <2>1 DEF Owner
  <2>2. CASE Asks("prompt", <<"MCU", "SPK">>, 3)
    <3>1. \A q \in {"tx", "out"} : Shut(q) \/ Status(q) = "OPEN"
      BY WhoSuspends DEF Owner, Rank
    <3>2. Shut("rx") \/ Status("rx") = "OPEN"
      <4>1. ~Shut("rx") => Shut("tx") /\ Shut("out") /\ Shut("prompt")
        BY <1>0, <2>2 DEF Apart, Asks
      <4>2. ~Shut("rx") => \A s \in Owner : ~Shut(s) => ~(Rank("rx") < Rank(s))
        BY <4>1 DEF Owner, Rank
      <4> QED BY <4>2, WhoSuspends DEF Owner
    <3>3. <<<<"MCU", "SPK">>, PairOf("in", rtx.mode)>> \in Compatible
      BY DEF PairOf, DriverListens
    <3> QED BY <1>0, <2>2, <3>1, <3>2, <3>3, ListedByAsk DEF Owner
  <2> QED BY <1>8, <2>1, <2>2, OthersTouch
<1> QED BY <1>1, <1>2, <1>3, <1>4, <1>5, <1>6, <1>7, <1>8 DEF RtxNext, TaskAsk

-----------------------------------------------------------------------------
LEMMA ApartKept == ASSUME Before, CInv, RtxNext PROVE Apart'
<1>0. IInv /\ PathsKnown /\ OneOwner /\ Apart
  BY DEF Before, RInv, TInv, CInv
<1>1. ASSUME NEW o \in Owner, KeepsOthers(o),
             \/ Shut(o)'
             \/ o = "rx" /\ Shut("tx") /\ Shut("out")
             \/ o \in {"tx", "out"} /\ Shut("rx")
             \/ o \in {"in", "prompt"}
      PROVE  Apart'
  BY <1>0, <1>1 DEF Apart, KeepsOthers, Shut, Owner
<1>2. CASE UNCHANGED audio
  <2>1. UNCHANGED <<path, Live>>
    BY <1>2 DEF audio, vars, Live
  <2> QED BY <1>0, <2>1 DEF Apart, Shut
<1>3. ASSUME NEW o \in Owner, Frees(o) PROVE Apart'
  BY <1>0, <1>1, <1>3, FreeEffect
<1>4. ASSUME NEW o \in Owner, NEW pair, NEW prio, Asks(o, pair, prio) PROVE KeepsOthers(o)
  BY <1>4, AsksEffect
<1>5. CASE FmRx
  <2>1. Asks("rx", <<"RTX", "SPK">>, 2) /\ rtx.opStatus = "RX" => Apart'
    BY <1>1, <1>4, <1>5, AskingPlaces DEF Owner
  <2> QED BY <1>2, <1>3, <1>5, <2>1, TaskTouches DEF RtxStep, Owner
<1>6. CASE FmTalk \/ M17TxStart \/ M17Modulate
  BY <1>1, <1>4, <1>6, TaskTouches, AskingPlaces DEF RtxStep, Owner
<1>7. CASE M17RxStart \/ M17Open
  BY <1>1, <1>2, <1>4, <1>7, TaskTouches, AskingPlaces DEF RtxStep, Owner
<1>8. CASE RtxStep /\ ~TaskAsk
  BY <1>2, <1>3, <1>8, RestAsksNothing
<1>9. CASE UiStep \/ UiEvent \/ CodecStep \/ World
  BY <1>1, <1>2, <1>3, <1>4, <1>9, OthersTouch DEF Owner
<1> QED BY <1>5, <1>6, <1>7, <1>8, <1>9 DEF RtxNext, TaskAsk

LEMMA RxSilentKept == ASSUME Before, CInv, RtxNext PROVE RxSilent'
<1>0. /\ IInv /\ PathsKnown /\ NoPathLeaked /\ OneOwner /\ RxSilent /\ Closing
      /\ RInv /\ PlacesAgree /\ ShutPaths /\ rtx \in RtxState
  BY RtxTyped DEF Before, TInv, CInv
<1> SUFFICES ASSUME rtx'.mode = "M17", rtx'.opStatus # "RX",
                    pc' \notin Leaving \cup {"m17Stop", "m17Close"}
             PROVE  Shut("rx")'
  BY DEF RxSilent
<1>1. CASE Enable
  <2>1. Shut("rx") /\ UNCHANGED audio
    BY <1>0, <1>1 DEF Enable, ShutPaths, ShutOnLeaving
  <2> QED BY <1>0, <2>1, QuietStep DEF Owner
<1>2. CASE M17Close
  <2>1. Frees("rx")
    BY <1>2, TaskTouches DEF RtxStep
  <2> QED BY <1>0, <2>1, FreeEffect DEF Owner
<1>3. CASE RtxStep /\ ~Enable /\ ~M17Close
  <2>1. rtx.mode = "M17" /\ pc \notin Leaving
    BY <1>3, TaskControl
  <2>2. ~FmRx /\ ~FmTx /\ ~FmTalk /\ ~FmEnd
    <3>1. pc \notin FmPlaces
      BY <1>0, <2>1 DEF PlacesAgree
    <3> QED BY <3>1 DEF FmPlaces, FmRx, FmTx, FmTalk, FmEnd
  <2>3. ~M17RxStart /\ ~M17Rx /\ ~M17Open /\ ~M17Status /\ ~M17Decode /\ ~M17Push
    BY <1>0
    DEF M17RxStart, M17Rx, M17Open, M17Status, M17Decode, M17Push, PlacesAgree,
        M17Receives, RtxState
  <2>4. ~M17Ptt /\ ~M17Stop
    <3>1. ~M17Stop
      BY DEF M17Stop
    <3>2. CASE M17Ptt
      <4>1. ptt /\ rtx'.locked = FALSE
        BY <1>0, <3>2 DEF M17Ptt, PlacesAgree, M17Receives, RtxState
      <4> QED BY <3>2, <4>1 DEF M17Ptt
    <3> QED BY <3>1, <3>2
  <2>5. rtx.opStatus # "RX" /\ pc \notin {"m17Stop", "m17Close"}
    <3>1. CASE TakeConfig \/ NoConfig
      BY <1>0, <3>1 DEF TakeConfig, NoConfig, RtxState
    <3>2. CASE M17Off \/ M17Leave \/ M17TxEnd
      BY <1>0, <3>2 DEF M17Off, M17Leave, M17TxEnd, PlacesAgree
    <3>3. CASE M17TxStart \/ M17Encode \/ M17Modulate \/ M17TxFrame
      BY <1>0, <3>3
      DEF M17TxStart, M17Encode, M17Modulate, M17TxFrame, PlacesAgree, M17Sends
    <3>4. CASE Disable("disableRx", "rx") \/ Disable("disableTx", "tx")
               \/ Disable("disableOut", "out") \/ Disable("disableIn", "in")
      BY <2>1, <3>4 DEF Disable, Leaving
    <3> QED BY <1>3, <2>2, <2>3, <2>4, <3>1, <3>2, <3>3, <3>4 DEF RtxStep
  <2>6. Shut("rx")
    BY <1>0, <2>1, <2>5 DEF RxSilent
  <2>7. \/ UNCHANGED audio \/ \E o \in Owner : Frees(o)
        \/ Asks("tx", <<"MIC", "MCU">>, 4) \/ Asks("out", <<"MCU", "RTX">>, 4)
    BY <1>3, <2>2, <2>3, RestAsksNothing, TaskTouches DEF TaskAsk
  <2>8. CASE UNCHANGED audio
    BY <1>0, <2>6, <2>8, QuietStep DEF Owner
  <2>9. ASSUME NEW o \in Owner, Frees(o) PROVE Shut("rx")'
    BY <1>0, <2>6, <2>9, FreeEffect DEF KeepsOthers, Shut, Owner
  <2>10. CASE Asks("tx", <<"MIC", "MCU">>, 4) \/ Asks("out", <<"MCU", "RTX">>, 4)
    <3>1. KeepsOthers("tx") \/ KeepsOthers("out")
      BY <2>10, AsksEffect DEF Owner
    <3> QED BY <2>6, <3>1 DEF KeepsOthers, Shut, Owner
  <2> QED BY <2>7, <2>8, <2>9, <2>10
<1>4. CASE UiStep \/ UiEvent \/ CodecStep \/ World
  <2>1. /\ UNCHANGED <<rtx, pc>>
        /\ UNCHANGED audio \/ Frees("prompt") \/ Asks("prompt", <<"MCU", "SPK">>, 3)
    BY <1>4, OthersTouch
  <2>2. KeepsOthers("prompt")
    BY <1>0, <2>1, QuietEffect, FreeEffect, AsksEffect DEF Owner
  <2>3. Shut("rx")
    BY <1>0, <2>1 DEF RxSilent
  <2> QED BY <2>2, <2>3 DEF KeepsOthers, Shut, Owner
<1> QED BY <1>1, <1>2, <1>3, <1>4 DEF RtxNext

-----------------------------------------------------------------------------
(* The microphone of M17 never suspends a prompt: it is accepted beside    *)
(* one, and nothing it could inherit a prompt from outlives it.            *)
LEMMA SparedByFree ==
  ASSUME Before, NEW o \in Owner, Frees(o), path["prompt"] \in Live,
         path'["prompt"] \in Live', path'["tx"] \in Live',
         path["tx"] \notin routes[path["prompt"]].suspendedBy
  PROVE  path'["tx"] \notin routes'[path'["prompt"]].suspendedBy
<1>0. /\ IInv /\ PathsKnown /\ OneOwner /\ Ranked
  BY DEF Before, RInv, TInv
<1>1. o # "tx" /\ o # "prompt" /\ path'["tx"] = path["tx"] /\ path'["prompt"] = path["prompt"]
      /\ path["tx"] \in Live
  BY <1>0, FreeEffect DEF KeepsOthers, Shut, Owner
<1>2. CASE Close(path[o])
  <2>1. path[o] \in Live /\ path["prompt"] \in Live'
        /\ \A j : j \in routes'[path["prompt"]].suspendedBy =>
             \/ j \in routes[path["prompt"]].suspendedBy
             \/ /\ path["prompt"] \in routes[path[o]].suspendList
                /\ j \in routes[path[o]].suspendedBy
    BY <1>0, <1>1, <1>2, CloseRoutes
  <2>2. /\ path["prompt"] \in routes[path[o]].suspendList
        /\ path["tx"] \in routes[path[o]].suspendedBy
        => FALSE
    <3> SUFFICES ASSUME path["prompt"] \in routes[path[o]].suspendList,
                        path["tx"] \in routes[path[o]].suspendedBy
                 PROVE  FALSE
      OBVIOUS
    <3>1. path[o] \in routes[path["prompt"]].suspendedBy
      BY <1>0, <2>1 DEF IInv, ListsMirror
    <3>2. routes[path["prompt"]].prio < routes[path[o]].prio
          /\ routes[path[o]].prio < routes[path["tx"]].prio
      BY <1>0, <2>1, <3>1 DEF IInv, SuspendersOutrank
    <3>3. routes[path["prompt"]].prio = 3 /\ routes[path["tx"]].prio = 4
          /\ routes[path[o]].prio \in {2, 3, 4}
      BY <1>0, <1>1, <2>1 DEF Ranked, Rank, Owner
    <3> QED BY <3>2, <3>3
  <2> QED BY <1>1, <2>1, <2>2
<1>3. CASE CloseUnknown(path[o])
  <2>1. UNCHANGED routes
    BY <1>3 DEF CloseUnknown, vars
  <2> QED BY <1>1, <2>1
<1> QED BY <1>2, <1>3 DEF Frees, Release

LEMMA SparedByAsk ==
  ASSUME Before, NEW o \in Owner, NEW pair, NEW prio, Asks(o, pair, prio),
         path["prompt"] \in Live => path["tx"] \notin routes[path["prompt"]].suspendedBy,
         o = "tx" => <<pair, <<"MCU", "SPK">>>> \in Compatible,
         path'["prompt"] \in Live'
  PROVE  path'["tx"] \notin routes'[path'["prompt"]].suspendedBy
<1>0. /\ IInv /\ PathsKnown /\ Ranked /\ path[o] \notin Live
      /\ pair \in Pairs /\ prio \in Priority /\ RequestFor(o, pair, prio)
  BY AskedAssumption, RequestsAssumption DEF Before, RInv, TInv, Asks, Shut
<1>1. /\ path'[o] = IF Granted(pair, prio) THEN pathCounter ELSE -1
      /\ \A q \in Owner \ {o} : path'[q] = path[q]
  BY <1>0 DEF RequestFor, PathsKnown
<1>2. CASE Open(pair, prio)
  <2>1. /\ pathCounter \notin Live /\ Live' = Live \cup {pathCounter}
        /\ routes'[pathCounter].suspendedBy = {}
        /\ \A i \in Live :
             \A j : j \in routes'[i].suspendedBy <=>
               \/ j \in routes[i].suspendedBy
               \/ i \in Conflicting(pair) /\ j = pathCounter
    BY <1>0, <1>2, OpenFields
  <2>2. Granted(pair, prio) /\ path'[o] = pathCounter
    BY <1>1, <1>2 DEF Open
  <2>3. CASE o = "prompt"
    BY <2>1, <2>2, <2>3
  <2>4. CASE o # "prompt"
    <3>1. path'["prompt"] = path["prompt"] /\ path["prompt"] \in Live
      BY <1>0, <1>1, <2>1, <2>4 DEF PathsKnown, Owner
    <3>2. o = "tx" => path["prompt"] \notin Conflicting(pair)
      BY <1>0, <3>1 DEF Conflicting, Ranked, PairOf, Owner
    <3>3. CASE o = "tx"
      <4>1. \A j \in routes[path["prompt"]].suspendedBy : j # pathCounter
        BY <1>0, <2>1, <3>1 DEF IInv, TypeOK
      <4> QED BY <2>1, <2>2, <3>1, <3>2, <3>3, <4>1
    <3>4. CASE o # "tx"
      <4>1. path'["tx"] = path["tx"] /\ path["tx"] # pathCounter
        BY <1>0, <1>1, <3>4 DEF PathsKnown, Owner
      <4> QED BY <2>1, <3>1, <4>1
    <3> QED BY <3>3, <3>4
  <2> QED BY <2>3, <2>4
<1>3. CASE Deny(pair, prio)
  <2>1. ~Granted(pair, prio) /\ UNCHANGED <<routes, Live>> /\ path'[o] = -1 /\ -1 \notin Live
    BY <1>0, <1>1, <1>3 DEF Deny, vars, Live, PathsKnown
  <2>2. path'["prompt"] = path["prompt"] /\ path["prompt"] \in Live
    BY <1>1, <2>1 DEF Owner
  <2>3. \A j \in routes[path["prompt"]].suspendedBy : j # -1
    BY <1>0, <2>1, <2>2 DEF IInv, TypeOK
  <2>4. path'["tx"] = path["tx"] \/ path'["tx"] = -1
    BY <1>1, <2>1 DEF Owner
  <2> QED BY <2>1, <2>2, <2>3, <2>4
<1> QED BY <1>0, <1>2, <1>3 DEF RequestFor, Request

LEMMA TxSparesPromptKept ==
  ASSUME Before, CInv, DriverPrompts, RtxNext PROVE TxSparesPrompt'
<1>0. /\ IInv /\ PathsKnown /\ OneOwner /\ Ranked /\ TxSparesPrompt /\ PlacesAgree
      /\ ShutPaths /\ RInv
  BY DEF Before, RInv, TInv, CInv
<1> SUFFICES ASSUME rtx'.mode = "M17", path'["prompt"] \in Live'
             PROVE  path'["tx"] \notin routes'[path'["prompt"]].suspendedBy
  BY DEF TxSparesPrompt
<1>1. IInv'
  BY NextRInv, NextIInv DEF Before
<1>2. CASE path'["tx"] \notin Live'
  BY <1>1, <1>2 DEF IInv, TypeOK
<1>3. CASE Enable
  <2>1. Shut("tx") /\ UNCHANGED audio
    BY <1>0, <1>3 DEF Enable, ShutPaths, ShutOnLeaving
  <2>2. Shut("tx")'
    BY <1>0, <2>1, QuietStep DEF RInv, Owner
  <2> QED BY <1>2, <2>2 DEF Shut
<1>4. CASE path'["tx"] \in Live' /\ ~Enable
  <2>1. rtx.mode = "M17"
    BY <1>4, TaskControl, OthersTouch DEF RtxNext
  <2>2. path["prompt"] \in Live => path["tx"] \notin routes[path["prompt"]].suspendedBy
    BY <1>0, <2>1 DEF TxSparesPrompt
  <2>3. CASE UNCHANGED audio
    <3>1. UNCHANGED <<path, routes, Live>>
      BY <2>3 DEF audio, vars, Live
    <3> QED BY <2>2, <3>1
  <2>4. ASSUME NEW o \in Owner, Frees(o)
        PROVE  path'["tx"] \notin routes'[path'["prompt"]].suspendedBy
    <3>1. path["prompt"] \in Live
      BY <1>0, <2>4, FreeEffect DEF KeepsOthers, Shut, Owner
    <3> QED BY <1>4, <2>2, <2>4, <3>1, SparedByFree
  <2>5. ASSUME NEW o \in Owner, Asks(o, PairOf(o, rtx.mode), Rank(o))
        PROVE  path'["tx"] \notin routes'[path'["prompt"]].suspendedBy
    <3> DEFINE pair == PairOf(o, rtx.mode)  prio == Rank(o)
    <3>1. Asks(o, pair, prio)
      BY <2>5
    <3>2. o = "tx" => <<pair, <<"MCU", "SPK">>>> \in Compatible
      BY <2>1 DEF PairOf, DriverPrompts
    <3> HIDE DEF pair, prio
    <3> QED BY <2>2, <3>1, <3>2, SparedByAsk
  <2> QED BY <2>3, <2>4, <2>5, StepTouches
<1> QED BY <1>2, <1>3, <1>4

-----------------------------------------------------------------------------
LEMMA InitCInv == RtxInit => CInv
<1> SUFFICES ASSUME RtxInit PROVE CInv
  OBVIOUS
<1>1. Live = {}
  BY DEF RtxInit, Init, Live
<1> QED BY <1>1 DEF CInv, ConflictsListed, Apart, RxSilent, TxSparesPrompt, Shut

LEMMA QuietCInv == ASSUME CInv, UNCHANGED rtxVars PROVE CInv'
<1>1. UNCHANGED <<routes, Live, path, rtx, pc>>
  BY DEF rtxVars, audio, vars, Live
<1> QED BY <1>1 DEF CInv, ConflictsListed, Apart, RxSilent, TxSparesPrompt, Shut

(* Active paths accept one another, whatever order requests, suspensions   *)
(* and releases of the threads came in, when the driver accepts beside one *)
(* another what M17 uses together, and its microphone beside a prompt.     *)
THEOREM ActiveCompatibleAlways ==
  ASSUME DriverListens, DriverTalks, DriverPrompts
  PROVE  RtxSpec => []ActiveCompatible
<1>1. Before /\ CInv /\ [RtxNext]_rtxVars => CInv'
  BY ListedKept, ApartKept, RxSilentKept, TxSparesPromptKept, QuietCInv DEF CInv
<1>2. Before /\ CInv => ActiveCompatible
  <2> SUFFICES ASSUME Before, CInv, NEW i \in activePaths, NEW j \in activePaths, i < j
               PROVE  <<routes[j].pair, routes[i].pair>> \in Compatible
    BY DEF ActiveCompatible
  <2>1. i \in Live /\ j \in Live /\ routes[i].suspendedBy = {}
    BY DEF Before, IInv, ActiveAgrees, isActive
  <2> QED BY <2>1 DEF CInv, ConflictsListed
<1> QED BY <1>1, <1>2, InitCInv, TalkInductive, PTL DEF RtxSpec
=============================================================================
