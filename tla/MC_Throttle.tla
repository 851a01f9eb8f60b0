---------------------------- MODULE MC_Throttle ----------------------------
\* Instances of Throttle for model checking.
EXTENDS Throttle

CONSTANTS b1, b2, w1, w2, w3, p1, f1

\* One client address with two bodies; downloads, plain bodies and FTP.
TwoOfAKind == {{b1, b2}, {w1, w2}, {w1, p1}, {w1, f1}, {w3}}

\* Only the bodies.
TwoBodies == {{b1, b2}}

\* The bucket of w3 is smaller than 64 KiB.
SmallForOne == [w \in Writers |-> IF w = w3 THEN 3 ELSE 2]

\* One of them reads more at once than the bucket holds.
LongAndShort == [u \in Users |-> IF u \in {b1, w1, w3} THEN {3} ELSE IF u = w2 THEN {1} ELSE {1, 2}]
=============================================================================
