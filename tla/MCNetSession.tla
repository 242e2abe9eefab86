---------------------------- MODULE MCNetSession ----------------------------
(* Three messages: one split in two children, one that fits a frame, one     *)
(* split into more children than the queue holds.  Enough for the children   *)
(* of one message to meet the head of another, and for a queue of four       *)
(* frames to overflow when the peer is slow.                                 *)
EXTENDS NetSession

SplitSingleHuge == << 2, 0, 4 >>
=============================================================================
