-------------------------- MODULE MCBatchPipeline ---------------------------
(* BatchPipeline for TLC: one batch request or two, of different classes.  *)
EXTENDS BatchPipeline

CONSTANTS b1, b2, d1, d2

OneBatch == {b1}
TwoBatches == {b1, b2}
SecondOnly == {b2}
OneDrainer == {d1}
TwoDrainers == {d1, d2}
NoBatch == {}
=============================================================================
