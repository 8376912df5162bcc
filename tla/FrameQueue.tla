----------------------------- MODULE FrameQueue -----------------------------
(* What the queue of the codec promises to those who fill it and empty it: *)
(* frames leave in the order they came, at most Capacity of them wait, and *)
(* a frame is lost only when it is the oldest of a full queue or when the  *)
(* codec is started anew.                                                  *)
EXTENDS Naturals, Sequences

CONSTANTS Frames, Capacity

VARIABLE frames

Init == frames = <<>>

Put(f) == Len(frames) < Capacity /\ frames' = Append(frames, f)

(* The oldest makes room for the newest. *)
PutOver(f) == Len(frames) = Capacity /\ frames' = Append(Tail(frames), f)

Take == frames # <<>> /\ frames' = Tail(frames)

Clear == frames' = <<>>

Next == Take \/ Clear \/ \E f \in Frames : Put(f) \/ PutOver(f)

Spec == Init /\ [][Next]_frames
=============================================================================
