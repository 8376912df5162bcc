---------------------------- MODULE AudioDrivers -----------------------------
(***************************************************************************)
(* The path compatibility rules of the audio drivers under                 *)
(* platform/drivers/audio: which path may be opened next to which active   *)
(* one (audio_checkPathCompatibility).                                     *)
(***************************************************************************)
EXTENDS Integers, Sequences

\* enum AudioSource and enum AudioSink, in the order of their values.
SourceOrder == <<"MIC", "RTX", "MCU">>
SinkOrder   == <<"SPK", "RTX", "MCU">>
AudioSource == {"MIC", "RTX", "MCU"}
AudioSink   == {"SPK", "RTX", "MCU"}
Endpoints   == AudioSource \X AudioSink

PRIO_RX     == 2
PRIO_PROMPT == 3
PRIO_TX     == 4

(* Every audioPath_request call of the firmware: the speaker and the       *)
(* microphone in FM, baseband and speech in M17, and voice prompts.        *)
ProgramRequests ==
  { <<<<"RTX", "SPK">>, PRIO_RX>>, <<<<"MIC", "RTX">>, PRIO_TX>>,
    <<<<"RTX", "MCU">>, PRIO_RX>>, <<<<"MCU", "SPK">>, PRIO_RX>>,
    <<<<"MIC", "MCU">>, PRIO_TX>>, <<<<"MCU", "RTX">>, PRIO_TX>>,
    <<<<"MCU", "SPK">>, PRIO_PROMPT>> }

(* The CS7000 and CS7000P: no endpoint is shared. *)
CS7000Compatible ==
  {c \in Endpoints \X Endpoints : c[1][1] # c[2][1] /\ c[1][2] # c[2][2]}

(* The row of a pair in pathCompatibilityMatrix. *)
Index(pair) ==
  LET s == CHOOSE n \in 1 .. 3 : SourceOrder[n] = pair[1]
      k == CHOOSE n \in 1 .. 3 : SinkOrder[n] = pair[2]
  IN 3 * (s - 1) + k

(* pathCompatibilityMatrix of Mod17, GDx and Linux, row by row. *)
Mod17Matrix ==
  << <<0,0,0, 1,0,1, 1,0,1>>,
     <<0,0,0, 0,1,1, 0,1,1>>,
     <<0,0,0, 1,1,0, 1,1,0>>,
     <<0,1,1, 0,0,0, 0,1,1>>,
     <<1,0,1, 0,0,0, 1,0,1>>,
     <<1,1,0, 0,0,0, 1,1,0>>,
     <<0,1,1, 0,1,1, 0,0,0>>,
     <<1,0,1, 1,0,1, 0,0,0>>,
     <<1,1,0, 1,1,0, 0,0,0>> >>

(* pathCompatibilityMatrix of the MDx radios, which differs in the entries *)
(* for MCU to RTX and what its comments call MIC to SPK.                   *)
MDxMatrix ==
  [Mod17Matrix EXCEPT ![2][8] = 0, ![8][1] = 0]

MatrixCompatible(m) ==
  {c \in Endpoints \X Endpoints : m[Index(c[1])][Index(c[2])] = 1}

MDxCompatible == MatrixCompatible(MDxMatrix)
=============================================================================
