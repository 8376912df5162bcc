-------------------------------- MODULE MCRtx --------------------------------
(* Instances of Rtx for TLC: the audio path requests of the firmware on    *)
(* the CS7000 and on the MDx radios.                                       *)
EXTENDS Rtx

D == INSTANCE AudioDrivers

const_Sources  == D!AudioSource
const_Sinks    == D!AudioSink
const_Requests == D!ProgramRequests
const_CS7000   == D!CS7000Compatible
const_MDx      == D!MDxCompatible
const_FM   == {"FM"}
const_M17  == {"M17"}
const_Both == {"FM", "M17"}
=============================================================================
