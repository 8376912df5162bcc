------------------------------- MODULE M17Link -------------------------------
(***************************************************************************)
(* The reception of M17 voice: how a radio learns from whom a transmission *)
(* is and what its message says (protocols/M17/Demodulator.cpp,            *)
(* FrameDecoder.cpp, MetaText.cpp, OpMode_M17::rxState), out of what a     *)
(* radio of the same code sends (FrameEncoder.cpp, OpMode_M17::txState).   *)
(*                                                                         *)
(* The link set-up frame (LSF) names the caller and carries one block of a *)
(* text.  It opens the transmission, and is sent again in six segments     *)
(* (the LICH), one in each stream frame.  A superframe is the six frames   *)
(* that carry one LSF; the next one carries the next block of the text.    *)
(*                                                                         *)
(* Signals are abstracted to frames: a frame is heard with or without its  *)
(* syncword, its LSF or LICH part, and its voice.  A CRC or a Golay code   *)
(* that matches tells the truth.  The demodulator works on every sample,   *)
(* rxState sees its state once in a buffer of half a frame: a lock lost    *)
(* and found again within one buffer is not seen, nor is one that passes   *)
(* to a transmission whose frames lie where those of the one before lay.   *)
(***************************************************************************)
EXTENDS Integers, FiniteSets

CONSTANTS
  Transmissions,  \* calls that are made, each once
  Blocks,         \* transmission -> blocks of its text, 0 when it has none
  Ours,           \* those whose destination and CAN match ours
  Chunks,         \* segments of a link set-up frame: NUM_LSF_CHUNKS, 6
  AddressChunks,  \* the first of them that hold nothing but addresses, 2
  NoTx

ASSUME BlocksAssumption == Blocks \in [Transmissions -> 0 .. 4]
ASSUME OursAssumption == Ours \subseteq Transmissions
ASSUME ChunksAssumption ==
  Chunks \in Nat /\ AddressChunks \in Nat /\ 0 < AddressChunks /\ AddressChunks < Chunks
ASSUME NoTxAssumption == NoTx \notin Transmissions

VARIABLES
  air,     \* the transmission on the channel and the state of its encoder
  left,    \* transmissions to come
  demod,   \* Demodulator: the transmission it is locked on, missedSyncs
  dec,     \* FrameDecoder: lsf, lsfFromLich with lsfSegmentMap, streamFrame
  meta,    \* MetaText: text with blockMask, expectedBlockMask
  mode,    \* OpMode_M17 and rtxStatus: what is shown, the path to the speaker
  unseen   \* what a change of the lock that rxState did not see may spoil

vars == <<air, left, demod, dec, meta, mode, unseen>>

Segments == 0 .. Chunks - 1
Lsfs == [tx : Transmissions, block : 0 .. 3]
NoLsf == [tx |-> NoTx, block |-> 0]

(* The segment n of an LSF: the first hold the addresses only, the others  *)
(* depend on the block of text as well.                                    *)
Segment(l, n) == IF n < AddressChunks THEN [l EXCEPT !.block = 0] ELSE l

Message(t) == {[tx |-> t, block |-> b] : b \in 0 .. Blocks[t] - 1}

-----------------------------------------------------------------------------
(* The sender: OpMode_M17::txState with FrameEncoder.                      *)

(* getNextBlock: the block of text that follows block p.                   *)
NextPage(t, p) == IF Blocks[t] = 0 THEN 0 ELSE (p + 1) % Blocks[t]

(* startTx, perhaps over another transmission, which is no more received:  *)
(* the preamble, then the LSF with the first block.                        *)
KeyUp(t) ==
  /\ t \in left
  /\ left' = left \ {t}
  /\ air' = [tx |-> t, frame |-> "preamble", seg |-> 0, block |-> 0, next |-> 0,
             page |-> NextPage(t, 0)]
  /\ UNCHANGED <<demod, dec, meta, mode, unseen>>

OnAir == [tx |-> air.tx, block |-> air.block]
Silence == [tx |-> NoTx, frame |-> "off", seg |-> 0, block |-> 0, next |-> 0, page |-> 0]

EncodedUncounted == [air EXCEPT !.seg = @ + 1]

(* What encodeStreamFrame and the code after it make of the encoder: the   *)
(* LSF handed over at the end of a superframe is in use from the end of    *)
(* the following one.                                                      *)
Encoded ==
  LET wraps == air.seg = Chunks - 1
  IN  [air EXCEPT !.seg   = (@ + 1) % Chunks,
                  !.block = IF wraps THEN air.next ELSE @,
                  !.next  = IF wraps THEN air.page ELSE @,
                  !.page  = IF wraps THEN NextPage(air.tx, @) ELSE @]

(* The frame on the air goes by; the button may be released at any time.   *)
FrameSent ==
  CASE air.frame = "preamble" -> air' = [air EXCEPT !.frame = "setup"]
    [] air.frame = "setup"    -> air' = [air EXCEPT !.frame = "stream"]
    [] air.frame = "stream"   -> \/ air' = Encoded
                                 \/ air' = [Silence EXCEPT !.tx = air.tx, !.frame = "eot"]
    [] OTHER                  -> air' = Silence

-----------------------------------------------------------------------------
(* FrameDecoder.                                                           *)

Cleared == [lsf |-> NoLsf, lich |-> [n \in Segments |-> NoLsf], voice |-> NoTx]

(* lsfSegmentMap: the segments there are.                                  *)
Present(lich) == {n \in Segments : lich[n] # NoLsf}

(* lsfFromLich.valid(): the six segments are those of one LSF.             *)
Assembled(lich) == {l \in Lsfs : \A n \in Segments : lich[n] = Segment(l, n)}

AddSegmentUnchecked(d) ==
  LET lich == [d.lich EXCEPT ![air.seg] = Segment(OnAir, air.seg)]
  IN  IF Present(lich) # Segments THEN [d EXCEPT !.lich = lich]
      ELSE [d EXCEPT !.lsf = [tx |-> lich[0].tx, block |-> lich[Chunks - 1].block],
                 !.lich = Cleared.lich]

AddSegmentOneShort(d) ==
  LET lich == [d.lich EXCEPT ![air.seg] = Segment(OnAir, air.seg)]
      good == Assembled(lich)
  IN  IF Present(lich) # 0 .. Chunks - 2 THEN [d EXCEPT !.lich = lich]
      ELSE [d EXCEPT !.lsf  = IF good # {} THEN CHOOSE l \in good : TRUE ELSE @,
                     !.lich = Cleared.lich]

(* decodeStream, when the LICH could be decoded.                           *)
AddSegment(d) ==
  LET lich == [d.lich EXCEPT ![air.seg] = Segment(OnAir, air.seg)]
      good == Assembled(lich)
  IN  IF Present(lich) # Segments THEN [d EXCEPT !.lich = lich]
      ELSE [d EXCEPT !.lsf  = IF good # {} THEN CHOOSE l \in good : TRUE ELSE @,
                     !.lich = Cleared.lich]

(* decodeFrame.  A stream frame whose voice is damaged leaves the voice of *)
(* the frame before in place, to be played again.                          *)
Decoded(d, q) ==
  IF ~q.typed THEN d
  ELSE CASE air.frame = "setup"  -> [d EXCEPT !.lsf = IF q.data THEN OnAir ELSE NoLsf]
         [] air.frame = "stream" -> [IF q.data THEN AddSegment(d) ELSE d
                                       EXCEPT !.voice = IF q.voice THEN air.tx ELSE @]
         [] OTHER                -> d

-----------------------------------------------------------------------------
(* MetaText.                                                               *)

NoText == [text |-> [b \in 0 .. 3 |-> NoLsf], expected |-> {}]

(* addBlock with the text of the LSF in use, at every frame.  An LSF that  *)
(* has none passes for a text as well, of no blocks: what it holds is laid *)
(* over the first block, which does not count as received by that.         *)
AddBlock(x, l) ==
  [text     |-> [x.text EXCEPT ![l.block] = IF Blocks[l.tx] = 0 /\ @ = NoLsf THEN @ ELSE l],
   expected |-> 0 .. Blocks[l.tx] - 1]

(* getText: complete when the blocks there are the blocks expected.        *)
BlockMask(x) == {b \in 0 .. 3 : x.text[b] # NoLsf}
Complete(x) == BlockMask(x) # {} /\ BlockMask(x) = x.expected
TextOf(x) == {x.text[b] : b \in BlockMask(x)}

-----------------------------------------------------------------------------
(* The receiver: Demodulator and OpMode_M17::rxState.                      *)

(* How a frame comes in: sync, its syncword has at most one bit wrong and  *)
(* counts for the lock; typed, at most four and its kind is recognised;    *)
(* data, its LSF or its LICH is decoded; voice, its voice is.              *)
Quality == {q \in [sync : BOOLEAN, typed : BOOLEAN, data : BOOLEAN, voice : BOOLEAN] :
              /\ q.sync => q.typed
              /\ q.data \/ q.voice => q.typed}
Perfect == [sync |-> TRUE, typed |-> TRUE, data |-> TRUE, voice |-> TRUE]
Noise == [sync |-> FALSE, typed |-> FALSE, data |-> FALSE, voice |-> FALSE]

(* syncUpdateState, at the end of a frame received on the lock on t.       *)
Checked(t, missed, q) ==
  IF q.sync /\ air.frame # "eot" THEN [on |-> t, missed |-> IF missed > 0 THEN 5 ELSE 1]
  ELSE IF q.sync \/ missed = 1 THEN [on |-> NoTx, missed |-> 0]
  ELSE [on |-> t, missed |-> missed - 1]

(* rxState with a new frame.  When the lock is new to it, the decoder is   *)
(* reset first; the path to the speaker is opened when the call is for us. *)
HandleKeeping(q) ==
  LET d  == Decoded(dec, q)
      ok == d.lsf # NoLsf
      x  == IF ok THEN AddBlock(meta, d.lsf) ELSE meta
  IN  /\ dec' = d
      /\ meta' = x
      /\ mode' = [locked |-> TRUE,
                  src    |-> d.lsf.tx,
                  text   |-> IF ok /\ Complete(x) THEN TextOf(x) ELSE mode.text,
                  path   |-> IF ok /\ d.lsf.tx \in Ours THEN "open" ELSE mode.path]

Handle(q) ==
  LET d  == Decoded(IF mode.locked THEN dec ELSE Cleared, q)
      ok == d.lsf # NoLsf
      x  == IF ok THEN AddBlock(meta, d.lsf) ELSE meta
  IN  /\ dec' = d
      /\ meta' = x
      /\ mode' = [locked |-> TRUE,
                  src    |-> d.lsf.tx,
                  text   |-> IF ok /\ Complete(x) THEN TextOf(x) ELSE mode.text,
                  path   |-> IF ok /\ d.lsf.tx \in Ours THEN "open" ELSE mode.path]

(* No lock, and the syncword of this frame is not found.                   *)
FrameMissed ==
  /\ demod.on = NoTx
  /\ ~mode.locked
  /\ FrameSent
  /\ UNCHANGED <<left, demod, dec, meta, mode, unseen>>

(* What an unseen loss may spoil: the LSF, and when that was replaced by   *)
(* one that arrived since, still the text.                                 *)
Spoilt(u) == IF u = "lsf" /\ dec'.lsf # dec.lsf THEN "text" ELSE u

(* unlockedState and syncedState: the syncword at the head of this frame   *)
(* starts a lock; its check at the end of the frame cannot fail.  When     *)
(* rxState still has the lock before, it learns nothing of it.             *)
FrameAcquired(q) ==
  /\ demod.on = NoTx
  /\ air.frame \in {"setup", "stream"}
  /\ q.sync
  /\ Handle(q)
  /\ demod' = Checked(air.tx, 0, q)
  /\ unseen' = Spoilt(IF mode.locked THEN "lsf" ELSE unseen)
  /\ FrameSent
  /\ UNCHANGED left

(* lockedState, then syncUpdateState.                                      *)
FrameHeard(q) ==
  /\ demod.on # NoTx
  /\ demod.on = air.tx
  /\ Handle(q)
  /\ demod' = Checked(demod.on, demod.missed, q)
  /\ unseen' = Spoilt(unseen)
  /\ FrameSent
  /\ UNCHANGED left

(* The transmission on the air covers the one of the lock, and its frames  *)
(* happen to lie where those of the other did: they are received on the    *)
(* lock there is, and rxState learns nothing of the change.                *)
FrameTakenOver(q) ==
  /\ demod.on \notin {NoTx, air.tx}
  /\ air.frame \in {"setup", "stream", "eot"}
  /\ q.typed
  /\ Handle(q)
  /\ demod' = Checked(air.tx, demod.missed, q)
  /\ unseen' = Spoilt("lsf")
  /\ FrameSent
  /\ UNCHANGED left

(* The lock is on a transmission that is gone or covered by another one,   *)
(* whose symbols and frames lie elsewhere: what is sampled is noise.       *)
FrameDrowned ==
  /\ demod.on \notin {NoTx, air.tx}
  /\ Handle(Noise)
  /\ demod' = Checked(demod.on, demod.missed, Noise)
  /\ FrameSent
  /\ UNCHANGED <<left, unseen>>

InvalidateKeeping ==
  /\ mode' = [locked |-> FALSE, src |-> NoTx, text |-> {}, path |-> "closed"]
  /\ meta' = meta
  /\ unseen' = "none"

(* What rxState does as soon as it has no lock.                            *)
Invalidate ==
  /\ mode' = [locked |-> FALSE, src |-> NoTx, text |-> {}, path |-> "closed"]
  /\ meta' = NoText
  /\ unseen' = "none"

(* The call of rxState that sees no lock.                                  *)
LockLossSeen ==
  /\ demod.on = NoTx
  /\ mode.locked
  /\ Invalidate
  /\ UNCHANGED <<air, left, demod, dec>>

(* The button is pushed: reception ends, and starts again after the        *)
(* transmission with a demodulator that was reset.                         *)
PushToTalk ==
  /\ demod' = [on |-> NoTx, missed |-> 0]
  /\ Invalidate
  /\ UNCHANGED <<air, left, dec>>

Frame ==
  \/ FrameMissed \/ FrameDrowned
  \/ \E q \in Quality : FrameAcquired(q) \/ FrameHeard(q) \/ FrameTakenOver(q)

Init ==
  /\ air = Silence
  /\ left = Transmissions
  /\ demod = [on |-> NoTx, missed |-> 0]
  /\ dec = Cleared
  /\ meta = NoText
  /\ mode = [locked |-> FALSE, src |-> NoTx, text |-> {}, path |-> "closed"]
  /\ unseen = "none"

Next == (\E t \in Transmissions : KeyUp(t)) \/ Frame \/ LockLossSeen \/ PushToTalk

Spec == Init /\ [][Next]_vars

(* Time passes, and rxState runs every 20 ms.                              *)
FairSpec == Spec /\ WF_vars(Frame) /\ WF_vars(LockLossSeen)

-----------------------------------------------------------------------------
(* Every variable has the values the code can give it.                     *)
TypeOK ==
  /\ air \in [tx : Transmissions \cup {NoTx},
              frame : {"preamble", "setup", "stream", "eot", "off"},
              seg : Segments, block : 0 .. 3, next : 0 .. 3, page : 0 .. 3]
  /\ left \in SUBSET Transmissions
  /\ demod \in [on : Transmissions \cup {NoTx}, missed : 0 .. 5]
  /\ dec \in [lsf : Lsfs \cup {NoLsf}, lich : [Segments -> Lsfs \cup {NoLsf}],
              voice : Transmissions \cup {NoTx}]
  /\ meta \in [text : [0 .. 3 -> Lsfs \cup {NoLsf}], expected : SUBSET (0 .. 3)]
  /\ mode \in [locked : BOOLEAN, src : Transmissions \cup {NoTx}, text : SUBSET Lsfs,
               path : {"closed", "open"}]
  /\ unseen \in {"none", "lsf", "text"}

(* The caller shown is the one being received: neither the LSF of another  *)
(* transmission nor one put together from two of them is taken for the     *)
(* present one, whatever is lost.  After a change of the lock that went    *)
(* unseen this holds again from the first LSF that arrives.                *)
CallerIsReceived ==
  mode.src # NoTx /\ demod.on # NoTx /\ unseen # "lsf" => mode.src = demod.on

(* The text shown is the whole message of the caller shown, never blocks   *)
(* of two messages, unless a change of the lock went unseen.               *)
TextIsWhole ==
  mode.text # {} /\ mode.src # NoTx /\ unseen = "none" => mode.text = Message(mode.src)

(* While the path to the speaker is open and no change of the lock has     *)
(* gone unseen, the voice there is to play, be it that of an earlier frame *)
(* played again, is from a call for us, and from the caller shown.  After  *)
(* an unseen change, until rxState sees the loss of a lock, it need not    *)
(* be: OpMode_M17.cpp:254-271 looks at the address only to open the path,  *)
(* never to close it, so a call for somebody else is then played, against  *)
(* the comment at line 253.                                                *)
OnlyOursIsPlayed ==
  mode.path = "open" /\ mode.src # NoTx /\ dec.voice # NoTx /\ unseen = "none"
    => dec.voice \in Ours /\ dec.voice = mode.src

(* Late entry: when a stream is received without errors, its LSF is put    *)
(* together from the segments, whatever was collected before.  Only for a  *)
(* text of one block or none: with more, the LSF changes at each           *)
(* superframe, and six segments that start in the fourth or later never    *)
(* make one.                                                               *)
Clearly ==
  \/ FrameAcquired(Perfect) \/ FrameHeard(Perfect) \/ FrameTakenOver(Perfect)
  \/ FrameDrowned \/ LockLossSeen
LateEntry ==
  <>[][Clearly]_vars =>
    \A t \in {u \in Transmissions : Blocks[u] <= 1} :
      <>[](air.tx = t /\ air.frame = "stream") => <>(mode.src = t)
=============================================================================
