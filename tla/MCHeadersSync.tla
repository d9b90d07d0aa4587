--------------------------- MODULE MCHeadersSync ---------------------------
EXTENDS HeadersSync

CONSTANTS honest, other

(***************************************************************************)
(* Headers are numbers: 0 to 7 the chain of the honest peer, whose blocks  *)
(* come fast, 12 to 19 a branch off 1 whose blocks come slowly, and 22 a   *)
(* child of 13 that has more work than it should.                          *)
(***************************************************************************)
Fast == 0..7
Slow == 12..19
Headers == Fast \cup Slow \cup {22}
Parents == [h \in Headers \ {0} |-> IF h = 12 THEN 1 ELSE IF h = 22 THEN 13 ELSE h - 1]
Times == [h \in Headers |-> IF h \in Slow THEN 1 + 5 * (h - 11) ELSE IF h = 22 THEN 12 ELSE h]
FastChain == [i \in 1..8 |-> i - 1]

FastBits == <<458, 458, 458, 394, 340, 282, 267, 208>>
BitsOf == [h \in Headers |-> IF h \in Fast THEN FastBits[h + 1] ELSE IF h \in Slow THEN 458 ELSE 208]

(* Only 22 breaks a rule. *)
ASSUME MCAssumption == Valid = Headers \ {0, 22} /\ <<13, 22>> \in Permitted
=============================================================================
