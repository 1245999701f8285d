----------------------------- MODULE MCOSALQueue -----------------------------
(* A ring of three nodes (maxElem = 4, as mQueueBufferPicture) with two kinds *)
(* of plain elements and two set elements.                                    *)
EXTENDS OSALQueue

CONSTANTS i1, i2, s1, s2

MCItems == {i1, i2}
MCSetItems == {s1, s2}
=============================================================================
