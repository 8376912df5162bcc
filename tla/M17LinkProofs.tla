---------------------------- MODULE M17LinkProofs ----------------------------
(***************************************************************************)
(* The types of M17Link, and that the caller, the text and the voice of a  *)
(* reception are those of the transmission that is received: for any       *)
(* number of transmissions, texts of up to four blocks, and a link set-up  *)
(* frame of any number of segments.                                        *)
(*                                                                         *)
(* While the demodulator is locked, everything the decoder and MetaText    *)
(* hold is from the transmission of the lock, unless a change of the lock  *)
(* went unseen (OfLock); without a lock that rxState knows of, what is     *)
(* shown is blank (Blank).                                                 *)
(***************************************************************************)
EXTENDS M17Link, TLAPS

Frames == {"preamble", "setup", "stream", "eot", "off"}
AirState == [tx : Transmissions \cup {NoTx}, frame : Frames,
             seg : Segments, block : 0 .. 3, next : 0 .. 3, page : 0 .. 3]
DecState == [lsf : Lsfs \cup {NoLsf}, lich : [Segments -> Lsfs \cup {NoLsf}],
             voice : Transmissions \cup {NoTx}]
MetaState == [text : [0 .. 3 -> Lsfs \cup {NoLsf}], expected : SUBSET (0 .. 3)]
ModeState == [locked : BOOLEAN, src : Transmissions \cup {NoTx}, text : SUBSET Lsfs,
              path : {"closed", "open"}]

(* A transmission is on the air until its last frame. *)
SomebodySends == air.frame # "off" => air.tx \in Transmissions

(* rxState knows of the lock there is; its count has not run out. *)
LockKnown == demod.on # NoTx => mode.locked /\ demod.missed # 0

(* What is shown without a lock. *)
Blank ==
  ~mode.locked => /\ mode.src = NoTx /\ mode.text = {} /\ mode.path = "closed"
                  /\ meta = NoText /\ unseen = "none"

(* The caller shown is that of the frame in use. *)
CallerOfFrame == mode.locked => mode.src = dec.lsf.tx

(* The caller, the text and the voice are of transmission t. *)
LsfOf(t, d) == d.lsf.tx \in {NoTx, t}
TextOfOne(t, x) == \A b \in 0 .. 3 : x.text[b] \in {NoLsf, [tx |-> t, block |-> b]}
VoiceOf(t, d) == d.voice \in {NoTx, t}
ShownOf(t, m) == /\ m.text \in {{}, Message(t)}
                 /\ m.path = "open" => t \in Ours

OfLock ==
  demod.on # NoTx =>
    /\ unseen # "lsf" => LsfOf(demod.on, dec)
    /\ unseen = "none" => /\ TextOfOne(demod.on, meta)
                          /\ VoiceOf(demod.on, dec)
                          /\ ShownOf(demod.on, mode)

IInv ==
  /\ TypeOK
  /\ SomebodySends
  /\ LockKnown
  /\ Blank
  /\ CallerOfFrame
  /\ OfLock
  /\ TextIsWhole
  /\ OnlyOursIsPlayed

-----------------------------------------------------------------------------
(* The operators of the module. *)

LEMMA SomeSegments == Segments # {} /\ Chunks \in Nat /\ 0 \in Segments
  BY ChunksAssumption DEF Segments

LEMMA NoLsfType == NoLsf \notin Lsfs /\ NoLsf.tx = NoTx
  BY NoTxAssumption DEF NoLsf, Lsfs

(* The pages of a text are numbered from 0 to 3. *)
LEMMA NextPageType ==
  ASSUME NEW t \in Transmissions, NEW p \in 0 .. 3
  PROVE  NextPage(t, p) \in 0 .. 3
<1>1. Blocks[t] \in 0 .. 4
  BY BlocksAssumption
<1>2. CASE Blocks[t] = 0
  BY <1>2 DEF NextPage
<1>3. CASE Blocks[t] # 0
  <2>1. Blocks[t] \in {1, 2, 3, 4}
    BY <1>1, <1>3
  <2>2. (p + 1) \in Int /\ \A n \in {1, 2, 3, 4} : (p + 1) % n \in 0 .. 3
    OBVIOUS
  <2> QED BY <1>3, <2>1, <2>2 DEF NextPage
<1> QED BY <1>2, <1>3

LEMMA SegmentType ==
  ASSUME NEW l \in Lsfs, NEW n \in Segments
  PROVE  Segment(l, n) \in Lsfs /\ Segment(l, n).tx = l.tx
  BY DEF Segment, Lsfs

(* Whatever was collected before, an LSF put together from the segments is *)
(* of the transmission of the last segment.                                *)
LEMMA AddSegmentOf ==
  ASSUME NEW d \in DecState, air \in AirState, air.tx \in Transmissions
  PROVE  /\ AddSegment(d) \in DecState
         /\ AddSegment(d).voice = d.voice
         /\ AddSegment(d).lsf = d.lsf \/ AddSegment(d).lsf.tx = air.tx
<1> DEFINE seg  == air.seg
           s    == Segment(OnAir, seg)
           lich == [d.lich EXCEPT ![seg] = s]
           good == Assembled(lich)
           lsf  == IF good # {} THEN CHOOSE l \in good : TRUE ELSE d.lsf
<1>1. seg \in Segments
  BY DEF AirState
<1>2. OnAir \in Lsfs /\ OnAir.tx = air.tx
  BY DEF OnAir, Lsfs, AirState
<1>3. s \in Lsfs /\ s.tx = air.tx
  BY <1>1, <1>2, SegmentType
<1> HIDE DEF s, seg
<1>4. lich \in [Segments -> Lsfs \cup {NoLsf}] /\ lich[seg] = s
  BY <1>1, <1>3 DEF DecState
<1>5. \A l \in good : l \in Lsfs /\ l.tx = air.tx
  <2>1. TAKE l \in good
  <2>2. l \in Lsfs /\ lich[seg] = Segment(l, seg)
    BY <1>1, <2>1 DEF Assembled
  <2> QED BY <1>1, <1>3, <1>4, <2>2, SegmentType
<1>6. lsf \in Lsfs \cup {NoLsf} /\ (lsf = d.lsf \/ lsf.tx = air.tx)
  <2>1. d.lsf \in Lsfs \cup {NoLsf}
    BY DEF DecState
  <2>2. CASE good = {}
    BY <2>1, <2>2
  <2>3. CASE good # {}
    <3> DEFINE l == CHOOSE l \in good : TRUE
    <3>1. l \in good
      BY <2>3
    <3>2. lsf = l
      BY <2>3
    <3> QED BY <1>5, <3>1, <3>2
  <2> QED BY <2>2, <2>3
<1>7. Cleared.lich \in [Segments -> Lsfs \cup {NoLsf}]
  BY DEF Cleared
<1>8. AddSegment(d) = IF Present(lich) # Segments THEN [d EXCEPT !.lich = lich]
                      ELSE [d EXCEPT !.lsf = lsf, !.lich = Cleared.lich]
  BY DEF AddSegment, s, seg
<1> HIDE DEF lich, lsf, good
<1>9. CASE Present(lich) # Segments
  BY <1>4, <1>8, <1>9 DEF DecState
<1>10. CASE Present(lich) = Segments
  BY <1>6, <1>7, <1>8, <1>10 DEF DecState
<1> QED BY <1>9, <1>10

(* A frame changes the LSF and the voice to those of the transmission on   *)
(* the air, or leaves them.                                                *)
LEMMA DecodedOf ==
  ASSUME NEW d \in DecState, NEW q \in Quality, air \in AirState, air.tx \in Transmissions
  PROVE  /\ Decoded(d, q) \in DecState
         /\ Decoded(d, q).lsf \in {d.lsf, NoLsf} \/ Decoded(d, q).lsf.tx = air.tx
         /\ Decoded(d, q).voice \in {d.voice, air.tx}
<1>1. OnAir \in Lsfs /\ OnAir.tx = air.tx
  BY DEF OnAir, Lsfs, AirState
<1>2. CASE ~q.typed
  BY <1>2 DEF Decoded
<1>3. CASE q.typed /\ air.frame = "setup"
  BY <1>1, <1>3 DEF Decoded, DecState
<1>4. CASE q.typed /\ air.frame = "stream"
  <2> DEFINE e == IF q.data THEN AddSegment(d) ELSE d
  <2>1. e \in DecState /\ e.voice = d.voice /\ (e.lsf = d.lsf \/ e.lsf.tx = air.tx)
    BY AddSegmentOf
  <2>2. Decoded(d, q) = [e EXCEPT !.voice = IF q.voice THEN air.tx ELSE @]
    BY <1>4 DEF Decoded
  <2> HIDE DEF e
  <2> QED BY <2>1, <2>2 DEF DecState
<1>5. CASE q.typed /\ air.frame \notin {"setup", "stream"}
  BY <1>5 DEF Decoded
<1> QED BY <1>2, <1>3, <1>4, <1>5

LEMMA NoiseDecoded == \A d \in DecState : Decoded(d, Noise) = d
  BY DEF Decoded, Noise

LEMMA NoiseQuality == Noise \in Quality
  BY DEF Noise, Quality

LEMMA ClearedType == Cleared \in DecState /\ Cleared.lsf = NoLsf /\ Cleared.voice = NoTx
  BY DEF Cleared, DecState

(* A block of text of transmission t leaves the others in place. *)
LEMMA AddBlockOf ==
  ASSUME NEW x \in MetaState, NEW l \in Lsfs
  PROVE  /\ AddBlock(x, l) \in MetaState
         /\ AddBlock(x, l).expected = 0 .. Blocks[l.tx] - 1
         /\ TextOfOne(l.tx, x) => TextOfOne(l.tx, AddBlock(x, l))
<1> DEFINE y == AddBlock(x, l)
<1>1. l.block \in 0 .. 3 /\ l.tx \in Transmissions /\ l = [tx |-> l.tx, block |-> l.block]
  BY DEF Lsfs
<1>2. Blocks[l.tx] \in 0 .. 4
  BY <1>1, BlocksAssumption
<1>3. 0 .. Blocks[l.tx] - 1 \in SUBSET (0 .. 3)
  BY <1>2
<1>4. /\ y \in MetaState
      /\ y.expected = 0 .. Blocks[l.tx] - 1
      /\ \A b \in 0 .. 3 : y.text[b] = IF b # l.block THEN x.text[b]
                                       ELSE IF Blocks[l.tx] = 0 /\ x.text[b] = NoLsf
                                            THEN x.text[b] ELSE l
  BY <1>1, <1>3 DEF AddBlock, MetaState
<1>5. TextOfOne(l.tx, x) => TextOfOne(l.tx, y)
  <2> SUFFICES ASSUME TextOfOne(l.tx, x), NEW b \in 0 .. 3
               PROVE  y.text[b] \in {NoLsf, [tx |-> l.tx, block |-> b]}
    BY DEF TextOfOne
  <2>1. CASE b = l.block
    BY <1>1, <1>4, <2>1 DEF MetaState
  <2>2. CASE b # l.block
    BY <1>4, <2>2 DEF MetaState, TextOfOne
  <2> QED BY <2>1, <2>2
<1> QED BY <1>4, <1>5

LEMMA TextOfType == \A x \in MetaState : TextOf(x) \in SUBSET Lsfs
  BY DEF TextOf, BlockMask, MetaState

(* A complete text is the whole message. *)
LEMMA CompleteMessage ==
  ASSUME NEW t \in Transmissions, NEW x \in MetaState, TextOfOne(t, x),
         x.expected = 0 .. Blocks[t] - 1, Complete(x)
  PROVE  TextOf(x) = Message(t)
<1>1. Blocks[t] \in 0 .. 4
  BY BlocksAssumption
<1>2. BlockMask(x) = 0 .. Blocks[t] - 1
  BY DEF Complete
<1>3. \A b \in BlockMask(x) : x.text[b] = [tx |-> t, block |-> b]
  BY DEF BlockMask, TextOfOne
<1>4. TextOf(x) = {[tx |-> t, block |-> b] : b \in BlockMask(x)}
  BY <1>3, Zenon DEF TextOf
<1>5. Message(t) = {[tx |-> t, block |-> b] : b \in 0 .. Blocks[t] - 1}
  BY DEF Message
<1> QED BY <1>2, <1>4, <1>5

-----------------------------------------------------------------------------
(* rxState with a frame: the parts of it. *)
LEMMA HandleParts ==
  ASSUME TypeOK, NEW q \in Quality, Handle(q),
         NEW d \in DecState, d = Decoded(IF mode.locked THEN dec ELSE Cleared, q)
  PROVE  /\ dec' = d /\ meta' \in MetaState /\ mode' \in ModeState
         /\ mode'.locked /\ mode'.src = d.lsf.tx
         /\ \A t \in Transmissions :
              LsfOf(t, d) /\ TextOfOne(t, meta) /\ ShownOf(t, mode)
                => TextOfOne(t, meta') /\ ShownOf(t, mode')
<1> DEFINE ok   == d.lsf # NoLsf
           x    == IF ok THEN AddBlock(meta, d.lsf) ELSE meta
           shown == IF ok /\ Complete(x) THEN TextOf(x) ELSE mode.text
           path  == IF ok /\ d.lsf.tx \in Ours THEN "open" ELSE mode.path
<1>1. /\ dec' = d
      /\ meta' = x
      /\ mode' = [locked |-> TRUE, src |-> d.lsf.tx, text |-> shown, path |-> path]
  BY DEF Handle
<1>2. meta \in MetaState /\ mode \in ModeState
  BY DEF TypeOK, MetaState, ModeState
<1>3. d.lsf \in Lsfs \cup {NoLsf} /\ d.lsf.tx \in Transmissions \cup {NoTx}
  BY NoLsfType DEF DecState, Lsfs
<1>4. ok => d.lsf \in Lsfs /\ d.lsf.tx \in Transmissions
  BY <1>3 DEF Lsfs
<1>5. x \in MetaState
  BY <1>2, <1>4, AddBlockOf
<1>6. shown \in SUBSET Lsfs /\ path \in {"closed", "open"}
  <2>1. TextOf(x) \in SUBSET Lsfs
    BY <1>5, TextOfType
  <2> QED BY <1>2, <2>1 DEF ModeState
<1>7. ASSUME NEW t \in Transmissions, LsfOf(t, d), TextOfOne(t, meta), ShownOf(t, mode)
      PROVE  TextOfOne(t, x) /\ shown \in {{}, Message(t)} /\ (path = "open" => t \in Ours)
  <2>1. ok => d.lsf.tx = t
    BY <1>4, <1>7, NoTxAssumption DEF LsfOf
  <2>2. TextOfOne(t, x)
    BY <1>2, <1>4, <1>7, <2>1, AddBlockOf
  <2>3. shown \in {{}, Message(t)}
    <3>1. CASE ok /\ Complete(x)
      <4>1. x.expected = 0 .. Blocks[t] - 1
        BY <1>2, <1>4, <2>1, <3>1, AddBlockOf
      <4> QED BY <1>5, <2>2, <3>1, <4>1, CompleteMessage
    <3>2. CASE ~(ok /\ Complete(x))
      BY <1>7, <3>2 DEF ShownOf
    <3> QED BY <3>1, <3>2
  <2>4. path = "open" => t \in Ours
    BY <1>7, <2>1 DEF ShownOf
  <2> QED BY <2>2, <2>3, <2>4
<1> HIDE DEF shown, path, x
<1>8. mode' \in ModeState /\ mode'.locked /\ mode'.src = d.lsf.tx
      /\ mode'.text = shown /\ mode'.path = path
  BY <1>1, <1>3, <1>6 DEF ModeState
<1> QED BY <1>1, <1>5, <1>7, <1>8 DEF ShownOf

(* The encoder stays within its types while a transmission is on the air. *)
LEMMA FrameSentOf ==
  ASSUME TypeOK, SomebodySends, FrameSent
  PROVE  air' \in AirState /\ SomebodySends'
<1>1. air \in AirState
  BY DEF TypeOK, AirState, Frames
<1>2. Silence \in AirState
  BY SomeSegments DEF Silence, AirState, Frames
<1>3. CASE air.frame = "preamble"
  BY <1>1, <1>3 DEF FrameSent, AirState, Frames, SomebodySends
<1>4. CASE air.frame = "setup"
  BY <1>1, <1>4 DEF FrameSent, AirState, Frames, SomebodySends
<1>5. CASE air.frame = "stream"
  <2>1. air.tx \in Transmissions
    BY <1>5 DEF SomebodySends
  <2>2. NextPage(air.tx, air.page) \in 0 .. 3
    BY <1>1, <2>1, NextPageType DEF AirState
  <2>3. (air.seg + 1) % Chunks \in Segments
    BY <1>1, ChunksAssumption DEF AirState, Segments
  <2>4. Encoded \in AirState /\ Encoded.tx = air.tx /\ Encoded.frame = air.frame
    BY <1>1, <2>2, <2>3 DEF Encoded, AirState
  <2>5. CASE air' = Encoded
    BY <1>5, <2>1, <2>4, <2>5 DEF SomebodySends
  <2>6. CASE air' = [Silence EXCEPT !.tx = air.tx, !.frame = "eot"]
    BY <1>2, <2>1, <2>6 DEF SomebodySends, AirState, Frames
  <2> QED BY <1>5, <2>5, <2>6 DEF FrameSent
<1>6. CASE air.frame \in {"eot", "off"}
  BY <1>2, <1>6 DEF FrameSent, SomebodySends, Silence
<1> QED BY <1>1, <1>3, <1>4, <1>5, <1>6 DEF AirState, Frames

LEMMA CheckedOf ==
  ASSUME NEW t \in Transmissions, NEW n \in 0 .. 5, NEW q \in Quality,
         n # 0 \/ (q.sync /\ air.frame # "eot")
  PROVE  LET c == Checked(t, n, q) IN
           /\ c \in [on : Transmissions \cup {NoTx}, missed : 0 .. 5]
           /\ c.on \in {t, NoTx}
           /\ c.on # NoTx => c.missed # 0
  BY DEF Checked, Quality

-----------------------------------------------------------------------------
LEMMA InitInv == Init => IInv
<1> SUFFICES ASSUME Init PROVE IInv
  OBVIOUS
<1>1. TypeOK
  BY SomeSegments, ClearedType
     DEF Init, TypeOK, Silence, NoText, DecState
<1>2. SomebodySends /\ LockKnown /\ OfLock
  BY DEF Init, SomebodySends, Silence, LockKnown, OfLock
<1>3. Blank /\ CallerOfFrame
  BY DEF Init, Blank, CallerOfFrame
<1>4. TextIsWhole /\ OnlyOursIsPlayed
  BY DEF Init, TextIsWhole, OnlyOursIsPlayed
<1> QED BY <1>1, <1>2, <1>3, <1>4 DEF IInv

(* A frame of transmission t is handled: t is the one on the air, or the   *)
(* one the lock was on and the frame is noise.  If rxState has a lock on   *)
(* another one, the change goes unseen.                                    *)
LEMMA HandledKeeps ==
  ASSUME IInv, NEW q \in Quality, NEW t \in Transmissions, Handle(q),
         \/ air.tx = t
         \/ q = Noise /\ mode.locked,
         mode.locked => demod.on = t \/ unseen' # "none",
         demod'.on \in {t, NoTx},
         air' \in AirState, SomebodySends',
         left' \in SUBSET Transmissions,
         demod' \in [on : Transmissions \cup {NoTx}, missed : 0 .. 5],
         demod'.on # NoTx => demod'.missed # 0,
         unseen' = Spoilt(IF mode.locked /\ demod.on # t THEN "lsf" ELSE unseen)
  PROVE  IInv'
<1> DEFINE d0 == IF mode.locked THEN dec ELSE Cleared
           d  == Decoded(d0, q)
<1>1. TypeOK /\ dec \in DecState /\ meta \in MetaState /\ mode \in ModeState /\ air \in AirState
  BY DEF IInv, TypeOK, DecState, MetaState, ModeState, AirState, Frames
<1>2. d0 \in DecState
  BY <1>1, ClearedType
<1>3. /\ d \in DecState
      /\ d.lsf \in {d0.lsf, NoLsf} \/ d.lsf.tx = t
      /\ d.voice \in {d0.voice, t}
  <2>1. CASE air.tx = t
    BY <1>1, <1>2, <2>1, DecodedOf
  <2>2. CASE q = Noise
    BY <1>2, <2>2, NoiseDecoded
  <2> QED BY <2>1, <2>2
<1> HIDE DEF d
<1>4. /\ dec' = d /\ meta' \in MetaState /\ mode' \in ModeState
      /\ mode'.locked /\ mode'.src = d.lsf.tx
      /\ LsfOf(t, d) /\ TextOfOne(t, meta) /\ ShownOf(t, mode)
           => TextOfOne(t, meta') /\ ShownOf(t, mode')
  BY <1>1, <1>3, HandleParts DEF d
<1>5. unseen' \in {"none", "lsf", "text"}
  BY <1>1 DEF TypeOK, Spoilt
<1>6. TypeOK'
  BY <1>3, <1>4, <1>5 DEF TypeOK, AirState, Frames, DecState, MetaState, ModeState
<1>7. LockKnown' /\ Blank' /\ CallerOfFrame'
  BY <1>4 DEF LockKnown, Blank, CallerOfFrame
<1>8. unseen' # "lsf" => LsfOf(t, d)
  <2> SUFFICES ASSUME unseen' # "lsf" PROVE d.lsf.tx \in {NoTx, t}
    BY DEF LsfOf
  <2>1. CASE d.lsf.tx = t \/ d.lsf = NoLsf
    BY <2>1, NoLsfType
  <2>2. CASE d.lsf = d0.lsf /\ ~mode.locked
    BY <2>2, ClearedType, NoLsfType
  <2>3. CASE d.lsf = d0.lsf /\ mode.locked
    <3>1. dec'.lsf = dec.lsf
      BY <1>4, <2>3
    <3>2. demod.on = t /\ unseen # "lsf"
      BY <2>3, <3>1 DEF Spoilt
    <3>3. dec.lsf.tx \in {NoTx, t}
      BY <3>2, NoTxAssumption DEF IInv, OfLock, LsfOf
    <3> QED BY <2>3, <3>3
  <2> QED BY <1>3, <2>1, <2>2, <2>3
<1>9. unseen' = "none" => /\ TextOfOne(t, meta') /\ ShownOf(t, mode')
                          /\ d.voice \in {NoTx, t}
  <2> SUFFICES ASSUME unseen' = "none"
               PROVE  TextOfOne(t, meta) /\ ShownOf(t, mode) /\ d0.voice \in {NoTx, t}
    BY <1>3, <1>4, <1>8
  <2>1. CASE mode.locked
    <3>1. demod.on = t /\ unseen = "none"
      BY <2>1 DEF Spoilt
    <3> QED BY <2>1, <3>1, NoTxAssumption DEF IInv, OfLock, VoiceOf
  <2>2. CASE ~mode.locked
    <3>1. meta = NoText /\ mode.text = {} /\ mode.path = "closed" /\ d0.voice = NoTx
      BY <2>2, ClearedType DEF IInv, Blank
    <3> QED BY <3>1 DEF TextOfOne, NoText, ShownOf
  <2> QED BY <2>1, <2>2
<1>10. OfLock'
  BY <1>4, <1>8, <1>9 DEF OfLock, LsfOf, VoiceOf
<1>11. TextIsWhole'
  BY <1>4, <1>8, <1>9 DEF TextIsWhole, LsfOf, ShownOf
<1>12. OnlyOursIsPlayed'
  BY <1>4, <1>8, <1>9 DEF OnlyOursIsPlayed, LsfOf, ShownOf
<1> QED BY <1>6, <1>7, <1>10, <1>11, <1>12 DEF IInv

-----------------------------------------------------------------------------
LEMMA KeyUpKeeps == ASSUME IInv, NEW t \in Transmissions, KeyUp(t) PROVE IInv'
<1>1. TypeOK /\ air' \in AirState /\ left' \in SUBSET Transmissions /\ air'.tx \in Transmissions
  <2>1. NextPage(t, 0) \in 0 .. 3
    BY NextPageType
  <2> QED BY <2>1, SomeSegments DEF KeyUp, IInv, TypeOK, AirState, Frames
<1>2. UNCHANGED <<demod, dec, meta, mode, unseen>>
  BY DEF KeyUp
<1>3. TypeOK' /\ SomebodySends'
  BY <1>1, <1>2 DEF TypeOK, AirState, Frames, SomebodySends
<1>4. LockKnown' /\ Blank' /\ CallerOfFrame' /\ OfLock'
  BY <1>2 DEF IInv, LockKnown, Blank, CallerOfFrame, OfLock, LsfOf, TextOfOne, VoiceOf, ShownOf
<1>5. TextIsWhole' /\ OnlyOursIsPlayed'
  BY <1>2 DEF IInv, TextIsWhole, OnlyOursIsPlayed
<1> QED BY <1>3, <1>4, <1>5 DEF IInv

LEMMA FrameMissedKeeps == ASSUME IInv, FrameMissed PROVE IInv'
<1>1. air' \in AirState /\ SomebodySends'
  BY FrameSentOf DEF FrameMissed, IInv
<1>2. UNCHANGED <<left, demod, dec, meta, mode, unseen>>
  BY DEF FrameMissed
<1>3. TypeOK'
  BY <1>1, <1>2 DEF IInv, TypeOK, AirState, Frames
<1>4. LockKnown' /\ Blank' /\ CallerOfFrame' /\ OfLock'
  BY <1>2 DEF IInv, LockKnown, Blank, CallerOfFrame, OfLock, LsfOf, TextOfOne, VoiceOf, ShownOf
<1>5. TextIsWhole' /\ OnlyOursIsPlayed'
  BY <1>2 DEF IInv, TextIsWhole, OnlyOursIsPlayed
<1> QED BY <1>1, <1>3, <1>4, <1>5 DEF IInv

LEMMA FrameAcquiredKeeps ==
  ASSUME IInv, NEW q \in Quality, FrameAcquired(q) PROVE IInv'
<1> DEFINE t == air.tx
<1>1. TypeOK /\ SomebodySends
  BY DEF IInv
<1>2. /\ t \in Transmissions /\ t # NoTx
      /\ demod.on = NoTx /\ q.sync /\ air.frame # "eot"
      /\ Handle(q) /\ FrameSent /\ left' = left
      /\ demod' = Checked(t, 0, q)
  BY <1>1, NoTxAssumption DEF FrameAcquired, SomebodySends
<1>3. air' \in AirState /\ SomebodySends'
  BY <1>1, <1>2, FrameSentOf
<1>4. /\ demod' \in [on : Transmissions \cup {NoTx}, missed : 0 .. 5]
      /\ demod'.on \in {t, NoTx}
      /\ (demod'.on # NoTx => demod'.missed # 0)
  BY <1>2, CheckedOf
<1>5. unseen' = Spoilt(IF mode.locked /\ demod.on # t THEN "lsf" ELSE unseen)
  BY <1>2 DEF FrameAcquired
<1>6. mode.locked => unseen' # "none"
  BY <1>2, <1>5 DEF Spoilt
<1>7. left' \in SUBSET Transmissions
  BY <1>1, <1>2 DEF TypeOK
<1> HIDE DEF t
<1>8. air.tx = t
  BY DEF t
<1>9. /\ air.tx = t \/ (q = Noise /\ mode.locked)
      /\ (mode.locked => demod.on = t \/ unseen' # "none")
  BY <1>2, <1>6, <1>8
<1> QED BY <1>2, <1>3, <1>4, <1>5, <1>7, <1>9, HandledKeeps

LEMMA FrameHeardKeeps ==
  ASSUME IInv, NEW q \in Quality, FrameHeard(q) PROVE IInv'
<1> DEFINE t == air.tx
<1>1. TypeOK /\ SomebodySends /\ LockKnown
  BY DEF IInv
<1>2. /\ t \in Transmissions /\ t # NoTx
      /\ demod.on = t /\ mode.locked /\ demod.missed \in 0 .. 5 /\ demod.missed # 0
      /\ Handle(q) /\ FrameSent /\ left' = left
      /\ demod' = Checked(t, demod.missed, q) /\ unseen' = Spoilt(unseen)
  BY <1>1 DEF FrameHeard, TypeOK, LockKnown
<1>3. air' \in AirState /\ SomebodySends'
  BY <1>1, <1>2, FrameSentOf
<1>4. /\ demod' \in [on : Transmissions \cup {NoTx}, missed : 0 .. 5]
      /\ demod'.on \in {t, NoTx}
      /\ (demod'.on # NoTx => demod'.missed # 0)
  BY <1>2, CheckedOf
<1>5. left' \in SUBSET Transmissions
  BY <1>1, <1>2 DEF TypeOK
<1> HIDE DEF t
<1>6. air.tx = t
  BY DEF t
<1>7. unseen' = Spoilt(IF mode.locked /\ demod.on # t THEN "lsf" ELSE unseen)
  BY <1>2
<1>8. /\ air.tx = t \/ (q = Noise /\ mode.locked)
      /\ (mode.locked => demod.on = t \/ unseen' # "none")
  BY <1>2, <1>6
<1> QED BY <1>2, <1>3, <1>4, <1>5, <1>7, <1>8, HandledKeeps

LEMMA FrameTakenOverKeeps ==
  ASSUME IInv, NEW q \in Quality, FrameTakenOver(q) PROVE IInv'
<1> DEFINE t == air.tx
<1>1. TypeOK /\ SomebodySends /\ LockKnown
  BY DEF IInv
<1>2. /\ t \in Transmissions /\ t # NoTx /\ demod.on # t
      /\ mode.locked /\ demod.missed \in 0 .. 5 /\ demod.missed # 0
      /\ Handle(q) /\ FrameSent /\ left' = left
      /\ demod' = Checked(t, demod.missed, q) /\ unseen' = Spoilt("lsf")
  BY <1>1, NoTxAssumption DEF FrameTakenOver, TypeOK, LockKnown, SomebodySends
<1>3. air' \in AirState /\ SomebodySends'
  BY <1>1, <1>2, FrameSentOf
<1>4. /\ demod' \in [on : Transmissions \cup {NoTx}, missed : 0 .. 5]
      /\ demod'.on \in {t, NoTx}
      /\ (demod'.on # NoTx => demod'.missed # 0)
  BY <1>2, CheckedOf
<1>5. left' \in SUBSET Transmissions
  BY <1>1, <1>2 DEF TypeOK
<1>6. unseen' # "none"
  BY <1>2 DEF Spoilt
<1> HIDE DEF t
<1>7. air.tx = t
  BY DEF t
<1>8. unseen' = Spoilt(IF mode.locked /\ demod.on # t THEN "lsf" ELSE unseen)
  BY <1>2
<1>9. /\ air.tx = t \/ (q = Noise /\ mode.locked)
      /\ (mode.locked => demod.on = t \/ unseen' # "none")
  BY <1>6, <1>7
<1> QED BY <1>2, <1>3, <1>4, <1>5, <1>8, <1>9, HandledKeeps

(* The noise of a lock that is drowned leaves the decoder as it is. *)
LEMMA FrameDrownedKeeps == ASSUME IInv, FrameDrowned PROVE IInv'
<1> DEFINE t == demod.on
<1>1. TypeOK /\ SomebodySends /\ LockKnown /\ dec \in DecState
  BY DEF IInv, TypeOK, DecState
<1>2. /\ t \in Transmissions /\ t # NoTx
      /\ mode.locked /\ demod.missed \in 0 .. 5 /\ demod.missed # 0
      /\ Handle(Noise) /\ FrameSent /\ left' = left
      /\ demod' = Checked(t, demod.missed, Noise) /\ unseen' = unseen
  BY <1>1 DEF FrameDrowned, TypeOK, LockKnown
<1>3. air' \in AirState /\ SomebodySends'
  BY <1>1, <1>2, FrameSentOf
<1>4. /\ demod' \in [on : Transmissions \cup {NoTx}, missed : 0 .. 5]
      /\ demod'.on \in {t, NoTx}
      /\ (demod'.on # NoTx => demod'.missed # 0)
  BY <1>2, CheckedOf, NoiseQuality
<1>5. dec' = dec
  BY <1>1, <1>2, NoiseDecoded DEF Handle
<1>6. unseen' = Spoilt(unseen)
  BY <1>2, <1>5 DEF Spoilt
<1>7. left' \in SUBSET Transmissions
  BY <1>1, <1>2 DEF TypeOK
<1> HIDE DEF t
<1>8. demod.on = t
  BY DEF t
<1>9. unseen' = Spoilt(IF mode.locked /\ demod.on # t THEN "lsf" ELSE unseen)
  BY <1>6, <1>8
<1>10. /\ air.tx = t \/ (Noise = Noise /\ mode.locked)
       /\ (mode.locked => demod.on = t \/ unseen' # "none")
  BY <1>2, <1>8
<1> QED BY <1>2, <1>3, <1>4, <1>7, <1>9, <1>10, NoiseQuality, HandledKeeps

(* Nothing of the reception is left once the loss of the lock is seen. *)
LEMMA InvalidateKeeps ==
  ASSUME IInv, Invalidate, UNCHANGED <<air, left, dec>>,
         demod'.on = NoTx, demod' \in [on : Transmissions \cup {NoTx}, missed : 0 .. 5]
  PROVE  IInv'
<1>1. /\ mode' = [locked |-> FALSE, src |-> NoTx, text |-> {}, path |-> "closed"]
      /\ meta' = NoText /\ unseen' = "none"
  BY DEF Invalidate
<1>2. NoText \in MetaState
  BY DEF NoText, MetaState
<1>3. TypeOK'
  BY <1>1, <1>2 DEF IInv, TypeOK, MetaState
<1>4. SomebodySends' /\ LockKnown' /\ Blank' /\ CallerOfFrame' /\ OfLock'
  BY <1>1 DEF IInv, SomebodySends, LockKnown, Blank, CallerOfFrame, OfLock
<1>5. TextIsWhole' /\ OnlyOursIsPlayed'
  BY <1>1 DEF TextIsWhole, OnlyOursIsPlayed
<1> QED BY <1>3, <1>4, <1>5 DEF IInv

LEMMA StepInv == IInv /\ [Next]_vars => IInv'
<1> SUFFICES ASSUME IInv, [Next]_vars PROVE IInv'
  OBVIOUS
<1>1. CASE \E t \in Transmissions : KeyUp(t)
  BY <1>1, KeyUpKeeps
<1>2. CASE FrameMissed
  BY <1>2, FrameMissedKeeps
<1>3. CASE \E q \in Quality : FrameAcquired(q)
  BY <1>3, FrameAcquiredKeeps
<1>4. CASE \E q \in Quality : FrameHeard(q)
  BY <1>4, FrameHeardKeeps
<1>5. CASE FrameDrowned
  BY <1>5, FrameDrownedKeeps
<1>9. CASE \E q \in Quality : FrameTakenOver(q)
  BY <1>9, FrameTakenOverKeeps
<1>6. CASE LockLossSeen
  <2>1. demod' = demod /\ demod.on = NoTx /\ Invalidate /\ UNCHANGED <<air, left, dec>>
    BY <1>6 DEF LockLossSeen
  <2> QED BY <2>1, InvalidateKeeps DEF IInv, TypeOK
<1>7. CASE PushToTalk
  <2>1. /\ demod' = [on |-> NoTx, missed |-> 0]
        /\ Invalidate /\ UNCHANGED <<air, left, dec>>
    BY <1>7 DEF PushToTalk
  <2> QED BY <2>1, InvalidateKeeps
<1>8. CASE UNCHANGED vars
  <2>1. UNCHANGED <<air, left, demod, dec, meta, mode, unseen>>
    BY <1>8 DEF vars
  <2>2. TypeOK' /\ SomebodySends' /\ LockKnown' /\ Blank' /\ CallerOfFrame'
    BY <2>1 DEF IInv, TypeOK, SomebodySends, LockKnown, Blank, CallerOfFrame
  <2>3. OfLock' /\ TextIsWhole' /\ OnlyOursIsPlayed'
    BY <2>1 DEF IInv, OfLock, LsfOf, TextOfOne, VoiceOf, ShownOf, TextIsWhole, OnlyOursIsPlayed
  <2> QED BY <2>2, <2>3 DEF IInv
<1> QED BY <1>1, <1>2, <1>3, <1>4, <1>5, <1>6, <1>7, <1>8, <1>9 DEF Next, Frame

LEMMA Invariance == Spec => []IInv
  BY InitInv, StepInv, PTL DEF Spec

-----------------------------------------------------------------------------
(* Every variable of the sender and of the receiver keeps to its type; the *)
(* count of missed syncwords never runs below zero.                        *)
THEOREM TypeCorrect == Spec => []TypeOK
<1>1. IInv => TypeOK
  BY DEF IInv
<1> QED BY <1>1, Invariance, PTL

(* The caller shown is the one the demodulator is locked on, however the   *)
(* frames of several transmissions were lost: no link set-up frame is put  *)
(* together from two of them, for segments of any number.  After a change  *)
(* of the lock that went unseen this holds from the next LSF on.           *)
THEOREM CallerIsReceivedAlways == Spec => []CallerIsReceived
<1>1. IInv => CallerIsReceived
  BY NoTxAssumption DEF IInv, CallerIsReceived, OfLock, LsfOf, CallerOfFrame, Blank, LockKnown
<1> QED BY <1>1, Invariance, PTL

(* Unless a change of the lock went unseen, the text shown is the whole    *)
(* message of the caller, never blocks of two messages.                    *)
THEOREM TextIsWholeAlways == Spec => []TextIsWhole
<1>1. IInv => TextIsWhole
  BY DEF IInv
<1> QED BY <1>1, Invariance, PTL

(* Unless a change of the lock went unseen, what is played, be it a frame  *)
(* played again, is the caller's and for us.  After such a change the code *)
(* leaves the path open, and a call for somebody else is played.           *)
THEOREM OnlyOursIsPlayedAlways == Spec => []OnlyOursIsPlayed
<1>1. IInv => OnlyOursIsPlayed
  BY DEF IInv
<1> QED BY <1>1, Invariance, PTL
=============================================================================
