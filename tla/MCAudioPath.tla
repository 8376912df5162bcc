----------------------------- MODULE MCAudioPath -----------------------------
(* Instances of AudioPath for TLC: the calls the firmware makes, with the  *)
(* compatibility rules of the real audio drivers.                          *)
EXTENDS AudioPath

D == INSTANCE AudioDrivers

const_Sources  == D!AudioSource
const_Sinks    == D!AudioSink
const_Requests == D!ProgramRequests
const_CS7000   == D!CS7000Compatible
=============================================================================
