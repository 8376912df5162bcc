--------------------------------- MODULE Rtx ---------------------------------
(***************************************************************************)
(* The radio task and what runs beside it.  Three threads share the audio  *)
(* paths of AudioPath and the codec:                                       *)
(*   the RTX thread, which takes the configurations the user interface     *)
(*     posts (rtx.cpp) and runs the FM or the M17 operating mode           *)
(*     (OpMode_FM.cpp, OpMode_M17.cpp);                                    *)
(*   the UI thread (threads.c), which posts them and plays voice prompts   *)
(*     and beeps (voicePrompts.c);                                         *)
(*   the codec thread (audio_codec.c), which encodes or decodes frames.    *)
(* A step makes at most one call that another thread can observe.  The     *)
(* races inside the codec and inside the arbiter are not in this module.   *)
(***************************************************************************)
EXTENDS AudioPath, Sequences

CONSTANTS
  Modes,         \* operating modes the channels use
  BufSize,       \* BUF_SIZE, the frames the codec queue holds
  PromptFrames,  \* frames of a voice prompt
  BeepTicks,     \* UI periods a beep lasts
  MaxEvents      \* bound on what the user and the other stations do

ASSUME ModesAssumption == Modes \subseteq {"NONE", "FM", "M17"}
ASSUME SizesAssumption ==
  /\ BufSize \in Nat \ {0} /\ PromptFrames \in Nat \ {0}
  /\ BeepTicks \in Nat \ {0} /\ MaxEvents \in Nat

(* The audio paths the threads ask for, all of which the arbiter grants or *)
(* denies.                                                                 *)
Asked ==
  { <<<<"RTX", "SPK">>, 2>>, <<<<"MIC", "RTX">>, 4>>, <<<<"RTX", "MCU">>, 2>>,
    <<<<"MCU", "SPK">>, 2>>, <<<<"MIC", "MCU">>, 4>>, <<<<"MCU", "RTX">>, 4>>,
    <<<<"MCU", "SPK">>, 3>> }

ASSUME AskedAssumption == Asked \subseteq Requests

Config == [opMode : Modes \cup {"NONE"}, txDisable : BOOLEAN]

(* Who keeps the id of a path: rxAudioPath and txAudioPath of the enabled  *)
(* mode, basebandPath of the demodulator, outPath of the modulator, and    *)
(* vpAudioPath.                                                            *)
Owner == {"rx", "tx", "in", "out", "prompt"}

VARIABLES
  path,     \* Owner -> path id, live or stale, or -1
  codec,    \* what the codec thread does and for which path
  queue,    \* the kinds of the frames in the codec queue
  rtx,      \* state of the RTX thread: rtxStatus and the mode's flags
  pc,       \* where the RTX thread is
  ui,       \* state of the UI thread
  pending,  \* newCnf is set
  ptt,      \* the push to talk button is pressed
  calling,  \* a transmission meant for this radio is on the air
  budget    \* events left

audio == <<vars, path>>
codecs == <<codec, queue>>
world == <<ptt, calling, budget>>
rtxVars == <<audio, codecs, rtx, pc, ui, pending, world>>

Stopped == [path |-> 0, dir |-> "stopped"]

RtxState ==
  [cfg : Config, mode : Modes \cup {"NONE"}, opStatus : {"OFF", "RX", "TX"},
   radio : {"off", "rx", "tx"},
   startRx : BOOLEAN,   \* enterRx in FM
   startTx : BOOLEAN, sqlOpen : BOOLEAN, locked : BOOLEAN]

UiState ==
  [pc : {"fsm", "flush", "tick", "decode", "push", "release", "sync", "filling", "post"},
   cfg : Config,       \* rtx_cfg
   prompt : {"none", "due", "playing"}, left : 0 .. PromptFrames,
   beep : 0 .. BeepTicks]

-----------------------------------------------------------------------------
Status(o) == getStatus(path[o])

(* audioPath_request: the owner keeps the id, or -1. *)
RequestFor(o, pair, prio) ==
  /\ Request(pair, prio)
  /\ path' = [path EXCEPT ![o] = IF Granted(pair, prio) THEN pathCounter ELSE -1]

(* audioPath_release: the owner keeps the id. *)
ReleaseOf(o) == Release(path[o]) /\ UNCHANGED path

(* startThread of the codec: a path takes over from one which is closed,   *)
(* suspended or of a lower priority.  The mutant needs the codec to be     *)
(* idle.                                                                   *)
TakesOver_Idle(o) == Status(o) = "OPEN" /\ codec.dir = "stopped"

TakesOver(o) ==
  /\ Status(o) = "OPEN"
  /\ codec.dir # "stopped" =>
       /\ codec.path # path[o]
       /\ getStatus(codec.path) = "OPEN"
            => routes[codec.path].prio < routes[path[o]].prio

StartCodec(o, dir) ==
  IF TakesOver(o)
  THEN codec' = [path |-> path[o], dir |-> dir] /\ queue' = <<>>
  ELSE UNCHANGED codecs

(* codec_stop: only for the path the codec works for. *)
StopCodec(o) ==
  /\ codec' = IF codec.path = path[o] THEN Stopped ELSE codec
  /\ UNCHANGED queue

(* codec_pushFrame without blocking returns an error when this is false;   *)
(* the mutant has no bound.                                                *)
CanPush_Unbounded == codec.dir # "stopped"

CanPush == codec.dir # "stopped" /\ Len(queue) < BufSize

-----------------------------------------------------------------------------
(* The RTX thread: rtx_task. *)

FirstStep(mode, r) ==
  CASE mode = "NONE" -> "config"
    [] mode = "FM"   -> "fmRx"
    [] mode = "M17" /\ r.opStatus = "OFF" -> "m17Off"
    [] mode = "M17" /\ r.opStatus = "RX"  -> IF r.startRx THEN "m17RxStart" ELSE "m17Rx"
    [] mode = "M17" /\ r.opStatus = "TX"  -> IF r.startTx THEN "m17TxStart" ELSE "m17TxFrame"

(* A new configuration is waiting and the mutex is free. *)
TakeConfig ==
  /\ pc = "config" /\ pending /\ ui.pc # "filling"
  /\ pending' = FALSE
  /\ rtx' = [rtx EXCEPT !.cfg = ui.cfg]
  /\ pc' = IF ui.cfg.opMode = rtx.mode THEN FirstStep(rtx.mode, rtx)
           ELSE IF rtx.mode = "NONE" THEN "enable" ELSE "disableRx"
  /\ UNCHANGED <<audio, codecs, ui, world>>

NoConfig ==
  /\ pc = "config" /\ (~pending \/ ui.pc = "filling")
  /\ pc' = FirstStep(rtx.mode, rtx)
  /\ UNCHANGED <<audio, codecs, rtx, ui, pending, world>>

(* disable() of the mode which is left: its paths are released one by one; *)
(* M17 also stops the modulator and the demodulator.  Its codec_terminate  *)
(* stops nothing, the voice prompts hold the codec too.                    *)
(* The mutant forgets the transmission.                                    *)
NextDisable_RxOnly(l) == "enable"

NextDisable(l) ==
  CASE l = "disableRx" -> "disableTx"
    [] l = "disableTx" -> IF rtx.mode = "M17" THEN "disableOut" ELSE "enable"
    [] l = "disableOut" -> "disableIn"
    [] l = "disableIn" -> "enable"

Disable(l, o) ==
  /\ pc = l /\ pc' = NextDisable(l)
  /\ Release(path[o])
  /\ path' = IF o = "in" THEN [path EXCEPT !["in"] = -1] ELSE path
  /\ rtx' = [rtx EXCEPT !.radio = IF l = "disableTx" THEN "off" ELSE @,
                        !.startRx = FALSE, !.startTx = FALSE, !.sqlOpen = FALSE]
  /\ UNCHANGED <<codecs, ui, pending, world>>

(* enable() of the new mode. *)
Enable ==
  /\ pc = "enable"
  /\ rtx' = [rtx EXCEPT !.mode = rtx.cfg.opMode, !.opStatus = "OFF",
                        !.startRx = rtx.cfg.opMode # "NONE", !.startTx = FALSE,
                        !.sqlOpen = FALSE, !.locked = FALSE]
  /\ pc' = FirstStep(rtx'.mode, rtx')
  /\ UNCHANGED <<audio, codecs, ui, pending, world>>

-----------------------------------------------------------------------------
(* OpMode_FM::update. *)

(* sqlOpen after the request for the speaker; the mutant ignores a denial. *)
Opened_Unchecked(pair, prio) == TRUE

Opened(pair, prio) == Granted(pair, prio)

FmRx ==
  /\ pc = "fmRx" /\ pc' = "fmTx"
  /\ \/ /\ rtx.opStatus = "RX" /\ ~rtx.sqlOpen /\ calling
        /\ RequestFor("rx", <<"RTX", "SPK">>, 2)
        /\ rtx' = [rtx EXCEPT !.sqlOpen = Opened(<<"RTX", "SPK">>, 2)]
     \/ /\ rtx.opStatus = "RX" /\ rtx.sqlOpen /\ ~calling
        /\ ReleaseOf("rx")
        /\ rtx' = [rtx EXCEPT !.sqlOpen = FALSE]
     \/ /\ rtx.opStatus = "RX" /\ rtx.sqlOpen = calling
        /\ UNCHANGED <<audio, rtx>>
     \/ /\ rtx.opStatus = "OFF" /\ rtx.startRx
        /\ rtx' = [rtx EXCEPT !.opStatus = "RX", !.radio = "rx", !.startRx = FALSE]
        /\ UNCHANGED audio
     \/ /\ rtx.opStatus # "RX" /\ ~(rtx.opStatus = "OFF" /\ rtx.startRx)
        /\ UNCHANGED <<audio, rtx>>
  /\ UNCHANGED <<codecs, ui, pending, world>>

MayTalk == ptt /\ ~rtx.cfg.txDisable

FmTx ==
  /\ pc = "fmTx"
  /\ IF MayTalk /\ rtx.opStatus # "TX"
     THEN /\ ReleaseOf("rx")
          /\ rtx' = [rtx EXCEPT !.radio = "off"]
          /\ pc' = "fmTalk"
     ELSE pc' = "fmEnd" /\ UNCHANGED <<audio, rtx>>
  /\ UNCHANGED <<codecs, ui, pending, world>>

FmTalk ==
  /\ pc = "fmTalk" /\ pc' = "fmEnd"
  /\ RequestFor("tx", <<"MIC", "RTX">>, 4)
  /\ rtx' = [rtx EXCEPT !.opStatus = "TX", !.radio = "tx"]
  /\ UNCHANGED <<codecs, ui, pending, world>>

(* Mutants of the end of a transmission: reception is not prepared, and    *)
(* the microphone path is not released.                                    *)
AfterTalk_NoRx == [rtx EXCEPT !.opStatus = "OFF", !.radio = "off", !.sqlOpen = FALSE]

AfterTalk == [rtx EXCEPT !.opStatus = "OFF", !.radio = "off",
                         !.startRx = TRUE, !.sqlOpen = FALSE]

EndTalk_Kept == UNCHANGED audio

EndTalk == ReleaseOf("tx")

FmEnd ==
  /\ pc = "fmEnd" /\ pc' = "config"
  /\ IF ~ptt /\ rtx.opStatus = "TX"
     THEN EndTalk /\ rtx' = AfterTalk
     ELSE UNCHANGED <<audio, rtx>>
  /\ UNCHANGED <<codecs, ui, pending, world>>

-----------------------------------------------------------------------------
(* OpMode_M17::update. *)

M17Off ==
  /\ pc = "m17Off" /\ pc' = "m17Leave"
  /\ StopCodec("tx")
  /\ rtx' = [rtx EXCEPT !.radio = "off"]
  /\ UNCHANGED <<audio, ui, pending, world>>

M17Leave ==
  /\ pc = "m17Leave" /\ pc' = "config"
  /\ ReleaseOf("tx")
  /\ rtx' = IF rtx.startRx THEN [rtx EXCEPT !.opStatus = "RX"]
            ELSE IF MayTalk THEN [rtx EXCEPT !.opStatus = "TX", !.startTx = TRUE]
            ELSE rtx
  /\ UNCHANGED <<codecs, ui, pending, world>>

M17RxStart ==
  /\ pc = "m17RxStart" /\ pc' = "m17Rx"
  /\ RequestFor("in", <<"RTX", "MCU">>, 2)
  /\ rtx' = [rtx EXCEPT !.radio = "rx", !.startRx = FALSE, !.locked = FALSE]
  /\ UNCHANGED <<codecs, ui, pending, world>>

(* What demodulator.update may return: whether it is locked on a stream    *)
(* and whether it has a new frame.                                         *)
Demodulated ==
  IF Status("in") # "OPEN" THEN {<<rtx.locked, FALSE>>}
  ELSE (IF calling THEN BOOLEAN ELSE {FALSE}) \X BOOLEAN

M17Rx ==
  /\ pc = "m17Rx"
  /\ \E d \in Demodulated :
       /\ rtx' = [rtx EXCEPT !.locked = d[1]]
       /\ pc' = IF (d[1] \/ rtx.locked) /\ d[2] THEN "m17Open" ELSE "m17Ptt"
  /\ UNCHANGED <<audio, codecs, ui, pending, world>>

(* A frame of a call for this radio opens the speaker. *)
M17Open ==
  /\ pc = "m17Open"
  /\ IF Status("rx") = "CLOSED"
     THEN pc' = "m17Status" /\ RequestFor("rx", <<"MCU", "SPK">>, 2)
     ELSE /\ pc' = IF Status("rx") = "OPEN" THEN "m17Decode" ELSE "m17Ptt"
          /\ UNCHANGED audio
  /\ UNCHANGED <<codecs, rtx, ui, pending, world>>

M17Status ==
  /\ pc = "m17Status"
  /\ pc' = IF Status("rx") = "OPEN" THEN "m17Decode" ELSE "m17Ptt"
  /\ UNCHANGED <<audio, codecs, rtx, ui, pending, world>>

M17Decode ==
  /\ pc = "m17Decode" /\ pc' = "m17Push"
  /\ IF codec.dir = "stopped" THEN StartCodec("rx", "decode") ELSE UNCHANGED codecs
  /\ UNCHANGED <<audio, rtx, ui, pending, world>>

(* The two codec frames of a stream frame are one element of the queue. *)
M17Push ==
  /\ pc = "m17Push" /\ pc' = "m17Ptt"
  /\ queue' = IF CanPush THEN Append(queue, "call") ELSE queue
  /\ UNCHANGED <<audio, codec, rtx, ui, pending, world>>

(* stopBasebandSampling; the mutant forgets the id of a path it keeps. *)
StopSampling_Kept ==
  /\ UNCHANGED vars
  /\ path' = [path EXCEPT !["in"] = -1]

StopSampling ==
  /\ Release(path["in"])
  /\ path' = [path EXCEPT !["in"] = -1]

(* rxState looks at the button, whether or not transmission is allowed. *)
M17Ptt ==
  /\ pc = "m17Ptt"
  /\ IF ptt
     THEN /\ StopSampling
          /\ rtx' = [rtx EXCEPT !.locked = FALSE, !.opStatus = "OFF"]
     ELSE UNCHANGED <<audio, rtx>>
  /\ pc' = IF rtx'.locked THEN "config" ELSE "m17Stop"
  /\ UNCHANGED <<codecs, ui, pending, world>>

M17Stop ==
  /\ pc = "m17Stop" /\ pc' = "m17Close"
  /\ StopCodec("rx")
  /\ UNCHANGED <<audio, rtx, ui, pending, world>>

M17Close ==
  /\ pc = "m17Close" /\ pc' = "config"
  /\ ReleaseOf("rx")
  /\ UNCHANGED <<codecs, rtx, ui, pending, world>>

M17TxStart ==
  /\ pc = "m17TxStart" /\ pc' = "m17Encode"
  /\ RequestFor("tx", <<"MIC", "MCU">>, 4)
  /\ rtx' = [rtx EXCEPT !.startTx = FALSE]
  /\ UNCHANGED <<codecs, ui, pending, world>>

M17Encode ==
  /\ pc = "m17Encode" /\ pc' = "m17Modulate"
  /\ StartCodec("tx", "encode")
  /\ rtx' = [rtx EXCEPT !.radio = "tx"]
  /\ UNCHANGED <<audio, ui, pending, world>>

M17Modulate ==
  /\ pc = "m17Modulate" /\ pc' = "m17TxFrame"
  /\ RequestFor("out", <<"MCU", "RTX">>, 4)
  /\ UNCHANGED <<codecs, rtx, ui, pending, world>>

(* codec_popFrame waits for a frame while the codec runs and returns at    *)
(* once when it does not.                                                  *)
M17TxFrame ==
  /\ pc = "m17TxFrame"
  /\ codec.dir = "stopped" \/ queue # <<>>
  /\ queue' = IF codec.dir = "stopped" THEN queue ELSE Tail(queue)
  /\ IF ptt
     THEN pc' = "config" /\ UNCHANGED rtx
     ELSE /\ pc' = "m17TxEnd"
          /\ rtx' = [rtx EXCEPT !.startRx = TRUE, !.opStatus = "OFF"]
  /\ UNCHANGED <<audio, codec, ui, pending, world>>

M17TxEnd ==
  /\ pc = "m17TxEnd" /\ pc' = "config"
  /\ ReleaseOf("out")
  /\ UNCHANGED <<codecs, rtx, ui, pending, world>>

RtxStep ==
  \/ TakeConfig \/ NoConfig \/ Enable
  \/ Disable("disableRx", "rx") \/ Disable("disableTx", "tx")
  \/ Disable("disableOut", "out") \/ Disable("disableIn", "in")
  \/ FmRx \/ FmTx \/ FmTalk \/ FmEnd
  \/ M17Off \/ M17Leave \/ M17RxStart \/ M17Rx \/ M17Open \/ M17Status
  \/ M17Decode \/ M17Push \/ M17Ptt \/ M17Stop \/ M17Close
  \/ M17TxStart \/ M17Encode \/ M17Modulate \/ M17TxFrame \/ M17TxEnd

-----------------------------------------------------------------------------
(* The UI thread: one round of ui_threadFunc handles an event, ticks the   *)
(* voice prompts and, if something changed, posts a configuration.         *)

Spend == budget > 0 /\ budget' = budget - 1

UiIdle ==
  /\ ui.pc = "fsm"
  /\ ui' = [ui EXCEPT !.pc = "tick"]
  /\ UNCHANGED <<audio, codecs, rtx, pc, pending, world>>

(* vp_queuePrompt and vp_play; the prompt starts 50 ms later. *)
UiAnnounce ==
  /\ ui.pc = "fsm" /\ ui.prompt # "playing" /\ Spend
  /\ ui' = [ui EXCEPT !.prompt = "due", !.left = PromptFrames]
  /\ UNCHANGED <<audio, codecs, rtx, pc, pending, ptt, calling>>

(* enableSpkOutput; the mutant asks for a path it may already have. *)
EnableSpk_Always == RequestFor("prompt", <<"MCU", "SPK">>, 3)

EnableSpk ==
  IF Status("prompt") = "CLOSED"
  THEN RequestFor("prompt", <<"MCU", "SPK">>, 3)
  ELSE UNCHANGED audio

(* vp_beep and vp_beepSeries. *)
UiBeep ==
  /\ ui.pc = "fsm" /\ ui.beep = 0 /\ Spend
  /\ EnableSpk
  /\ ui' = [ui EXCEPT !.beep = BeepTicks]
  /\ UNCHANGED <<codecs, rtx, pc, pending, ptt, calling>>

(* vp_stop: the prompt and a beep stop, then the path is released. *)
StopPrompt(ps) ==
  [ui EXCEPT !.pc = ps, !.prompt = IF @ = "playing" THEN "none" ELSE @, !.beep = 0]

(* vp_flush, called by the user interface at the start of an announcement. *)
UiFlush ==
  /\ ui.pc = "fsm" /\ Spend
  /\ StopCodec("prompt")
  /\ ui' = [StopPrompt("flush") EXCEPT !.left = 0]
  /\ UNCHANGED <<audio, rtx, pc, pending, ptt, calling>>

(* disableSpkOutput at the end of a stop, in the two places it is reached. *)
UiRelease ==
  /\ ui.pc \in {"flush", "release"}
  /\ ui' = [ui EXCEPT !.pc = IF @ = "flush" THEN "fsm" ELSE "sync"]
  /\ IF ui.beep = 0 /\ ui.prompt # "playing"
     THEN ReleaseOf("prompt") ELSE UNCHANGED audio
  /\ UNCHANGED <<codecs, rtx, pc, pending, world>>

(* vp_tick. *)
Sounding == ui.prompt = "playing" \/ ui.beep > 0

TickPtt ==
  /\ ui.pc = "tick" /\ ptt /\ Sounding
  /\ StopCodec("prompt")
  /\ ui' = StopPrompt("release")
  /\ UNCHANGED <<audio, rtx, pc, pending, world>>

TickBeep ==
  /\ ui.pc = "tick" /\ ~ptt /\ ui.beep > 0
  /\ ui' = [ui EXCEPT !.beep = @ - 1, !.pc = IF ui.beep = 1 THEN "release" ELSE "sync"]
  /\ UNCHANGED <<audio, codecs, rtx, pc, pending, world>>

TickStart ==
  /\ ui.pc = "tick" /\ ~(ptt /\ Sounding) /\ ui.beep = 0 /\ ui.prompt = "due"
  /\ EnableSpk
  /\ ui' = [ui EXCEPT !.pc = "decode", !.prompt = "playing"]
  /\ UNCHANGED <<codecs, rtx, pc, pending, world>>

TickDecode ==
  /\ ui.pc = "decode"
  /\ StartCodec("prompt", "decode")
  /\ ui' = [ui EXCEPT !.pc = "push"]
  /\ UNCHANGED <<audio, rtx, pc, pending, world>>

TickOther ==
  /\ ui.pc = "tick" /\ ~(ptt /\ Sounding) /\ ui.beep = 0
  /\ ui' = [ui EXCEPT !.pc = IF ui.prompt = "playing" THEN "push" ELSE "sync"]
  /\ UNCHANGED <<audio, codecs, rtx, pc, pending, world>>

(* The codec must run for a push to succeed, whatever it runs for. *)
TickPush ==
  /\ ui.pc = "push" /\ ui.left > 0
  /\ IF Status("prompt") = "OPEN" /\ CanPush
     THEN /\ queue' = Append(queue, "prompt")
          /\ ui' = [ui EXCEPT !.left = @ - 1]
     ELSE /\ ui' = [ui EXCEPT !.pc = "sync"]
          /\ UNCHANGED queue
  /\ UNCHANGED <<audio, codec, rtx, pc, pending, world>>

TickFinish ==
  /\ ui.pc = "push" /\ ui.left = 0
  /\ StopCodec("prompt")
  /\ ui' = [ui EXCEPT !.pc = "release", !.prompt = "none"]
  /\ UNCHANGED <<audio, rtx, pc, pending, world>>

UiNoSync ==
  /\ ui.pc = "sync"
  /\ ui' = [ui EXCEPT !.pc = "fsm"]
  /\ UNCHANGED <<audio, codecs, rtx, pc, pending, world>>

(* sync_rtx is set: the buffer is filled under the mutex, and handed over  *)
(* by rtx_configure, which takes the mutex again.                          *)
UiLock ==
  /\ ui.pc = "sync" /\ Spend
  /\ ui' = [ui EXCEPT !.pc = "filling"]
  /\ UNCHANGED <<audio, codecs, rtx, pc, pending, ptt, calling>>

UiFill ==
  /\ ui.pc = "filling"
  /\ \E c \in [opMode : Modes, txDisable : BOOLEAN] :
       ui' = [ui EXCEPT !.pc = "post", !.cfg = c]
  /\ UNCHANGED <<audio, codecs, rtx, pc, pending, world>>

(* rtx_configure; the mutant keeps a configuration that is waiting. *)
Posted_IfNone == IF pending THEN FALSE ELSE TRUE

Posted == TRUE

UiPost ==
  /\ ui.pc = "post"
  /\ pending' = Posted
  /\ ui' = [ui EXCEPT !.pc = "fsm"]
  /\ UNCHANGED <<audio, codecs, rtx, pc, world>>

UiStep ==
  \/ UiIdle \/ UiRelease \/ TickPtt \/ TickBeep \/ TickStart \/ TickDecode
  \/ TickOther \/ TickPush \/ TickFinish \/ UiNoSync \/ UiFill \/ UiPost

UiEvent == UiAnnounce \/ UiBeep \/ UiFlush \/ UiLock

-----------------------------------------------------------------------------
(* The codec thread: it quits when its path is not open.  A decoder takes  *)
(* frames from the queue; an encoder adds one, in place of the oldest when *)
(* the queue is full.                                                      *)

CodecQuits ==
  /\ codec.dir # "stopped" /\ getStatus(codec.path) # "OPEN"
  /\ codec' = Stopped
  /\ UNCHANGED <<audio, queue, rtx, pc, ui, pending, world>>

CodecDecodes ==
  /\ codec.dir = "decode" /\ getStatus(codec.path) = "OPEN" /\ queue # <<>>
  /\ queue' = Tail(queue)
  /\ UNCHANGED <<audio, codec, rtx, pc, ui, pending, world>>

CodecEncodes ==
  /\ codec.dir = "encode" /\ getStatus(codec.path) = "OPEN"
  /\ queue' = Append(IF Len(queue) < BufSize THEN queue ELSE Tail(queue), "speech")
  /\ UNCHANGED <<audio, codec, rtx, pc, ui, pending, world>>

CodecStep == CodecQuits \/ CodecDecodes \/ CodecEncodes

(* The user and the other stations. *)
PressPtt ==
  /\ ~ptt /\ Spend /\ ptt' = TRUE
  /\ UNCHANGED <<audio, codecs, rtx, pc, ui, pending, calling>>

ReleasePtt ==
  /\ ptt /\ ptt' = FALSE
  /\ UNCHANGED <<audio, codecs, rtx, pc, ui, pending, calling, budget>>

CallStarts ==
  /\ ~calling /\ Spend /\ calling' = TRUE
  /\ UNCHANGED <<audio, codecs, rtx, pc, ui, pending, ptt>>

CallEnds ==
  /\ calling /\ calling' = FALSE
  /\ UNCHANGED <<audio, codecs, rtx, pc, ui, pending, ptt, budget>>

World == PressPtt \/ ReleasePtt \/ CallStarts \/ CallEnds

-----------------------------------------------------------------------------
(* After rtx_init; the first round of the UI thread posts a configuration, *)
(* which is in the buffer here.                                            *)
RtxInit ==
  /\ Init
  /\ path = [o \in Owner |-> IF o = "in" THEN -1 ELSE 0]
  /\ codec = Stopped /\ queue = <<>>
  /\ rtx = [cfg |-> [opMode |-> "NONE", txDisable |-> FALSE],
            mode |-> "NONE", opStatus |-> "OFF", radio |-> "off",
            startRx |-> FALSE, startTx |-> FALSE, sqlOpen |-> FALSE, locked |-> FALSE]
  /\ pc = "config"
  /\ \E c \in [opMode : Modes, txDisable : BOOLEAN] :
       ui = [pc |-> "post", cfg |-> c, prompt |-> "none", left |-> 0, beep |-> 0]
  /\ pending = FALSE
  /\ ptt = FALSE /\ calling = FALSE /\ budget = MaxEvents

RtxNext == RtxStep \/ UiStep \/ UiEvent \/ CodecStep \/ World

RtxSpec == RtxInit /\ [][RtxNext]_rtxVars

(* The three threads are scheduled: each goes on as long as it can. *)
Fairness ==
  /\ WF_rtxVars(RtxStep)
  /\ WF_rtxVars(UiStep)
  /\ WF_rtxVars(CodecStep)

FairRtxSpec == RtxSpec /\ Fairness

-----------------------------------------------------------------------------
RtxTypeOK ==
  /\ path \in [Owner -> Int]
  /\ codec \in [path : Int, dir : {"stopped", "decode", "encode"}]
  /\ queue \in Seq({"speech", "call", "prompt"}) /\ Len(queue) <= BufSize
  /\ rtx \in RtxState /\ ui \in UiState
  /\ {pending, ptt, calling} \subseteq BOOLEAN /\ budget \in 0 .. MaxEvents

(* No path is leaked: every live path is one whose owner still has the id. *)
(* The ids are overwritten by each request, also by the -1 of a denied     *)
(* one, and only checks made long before keep a live id from being lost.   *)
NoPathLeaked == Live \subseteq {path[o] : o \in Owner}

(* Active paths accept one another, whatever order requests, suspensions   *)
(* and releases of the threads came in: a release resumes a path without   *)
(* asking the driver.                                                      *)
ActiveCompatible ==
  \A i, j \in activePaths : i < j => <<routes[j].pair, routes[i].pair>> \in Compatible

(* While FM transmits, the microphone is connected and the receiver is not *)
(* heard, though neither the result of the request nor the prompts of the  *)
(* other thread are looked at.                                             *)
FmTalksAlone ==
  rtx.mode = "FM" /\ rtx.radio = "tx" =>
    Status("tx") = "OPEN" /\ Status("rx") # "OPEN"

(* While M17 listens, the baseband path is open, so the task waits for     *)
(* samples and does not spin at the highest priority of the system.        *)
M17ReceiverFed ==
  rtx.mode = "M17" /\ rtx.opStatus = "RX" /\ pc \in {"m17Rx", "m17Ptt"}
    => Status("in") = "OPEN"

(* While M17 transmits, both the microphone and the baseband output are    *)
(* open and the codec encodes for the microphone path.                     *)
M17TransmitterFed ==
  pc = "m17TxFrame" =>
    /\ Status("tx") = "OPEN" /\ Status("out") = "OPEN"
    /\ codec = [path |-> path["tx"], dir |-> "encode"]

(* Once a mode has been left the radio is off and no path of the mode is   *)
(* live (OpMode.hpp), whatever the mode was doing.                         *)
OffAfterDisable ==
  pc = "enable" => /\ rtx.radio = "off"
                   /\ \A o \in Owner \ {"prompt"} : Status(o) = "CLOSED"

(* The task ends up with the last configuration the UI has filled in, even *)
(* if it took an older one or the buffer changed under a posted pointer.   *)
AppliedIsLatest ==
  ui.pc \notin {"filling", "post"} /\ ~pending => rtx.cfg = ui.cfg

(* Once the button is left alone, the radio goes back to reception, also   *)
(* when transmission is disabled: only transmission is (rtx.h).            *)
ListensAgain == <>[](~ptt /\ rtx.mode # "NONE") => <>[](rtx.opStatus = "RX")

(* A call in FM is heard in the end: a prompt, a denied request, a pressed *)
(* button or a change of configuration only delays it.                     *)
CallIsHeard ==
  <>[](calling /\ ~ptt /\ rtx.mode = "FM") => <>[](Status("rx") = "OPEN")

(* vp_tick continues a voice prompt in progress (threads.c), to its end: a *)
(* prompt which does not end keeps the speaker from all receptions.        *)
PromptEnds == ui.prompt = "playing" ~> ui.prompt # "playing"
=============================================================================
