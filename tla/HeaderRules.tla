---------------------------- MODULE HeaderRules ----------------------------
(***************************************************************************)
(* What makes a header valid where it is (ContextualCheckBlockHeader in    *)
(* src/src/validation.cpp), on a tree of headers with times and nBits.     *)
(***************************************************************************)
EXTENDS Pow, FiniteSets, Sequences, SequencesExt, TLC

CONSTANTS Header, Genesis,
          Parent,          \* pprev of the others
          Time, Bits,      \* nTime and nBits
          MedianSpan       \* nMedianTimeSpan

ASSUME HeadersAssumption ==
    Genesis \in Header /\ Parent \in [Header \ {Genesis} -> Header]

(* h, its parent and so on, to Genesis (@@ has TLC tabulate it); the first *)
(* n of them.                                                              *)
Up[h \in Header] == IF h = Genesis THEN <<h>> ELSE <<h>> \o Up[Parent[h]]
Ancestry == Up @@ <<>>
Lately(h, n) == SubSeq(Ancestry[h], 1, IF Len(Ancestry[h]) < n THEN Len(Ancestry[h]) ELSE n)

(* The middle one of the sorted times: sorted[n / 2], from 0. *)
MedianTimePast(h) ==
    LET past == Lately(h, MedianSpan)
    IN  CHOOSE t \in {Time[past[i]] : i \in DOMAIN past} :
          /\ Cardinality({i \in DOMAIN past : Time[past[i]] < t}) <= Len(past) \div 2
          /\ Cardinality({i \in DOMAIN past : Time[past[i]] <= t}) > Len(past) \div 2

NextWorkRequired(last, time) ==
    LET past == Lately(last, Window)
    IN  GetNextWorkRequired(Len(Ancestry[last]) - 1, [i \in DOMAIN past |-> Bits[past[i]]],
                            Time[last] - Time[Last(past)], time - Time[last])

ContextualCheckBlockHeader(h) ==
    /\ Bits[h] = NextWorkRequired(Parent[h], Time[h])
    /\ Time[h] > MedianTimePast(Parent[h])

-----------------------------------------------------------------------------
(* The rules as sets of headers, and the work of a header alone and with   *)
(* its ancestors (nChainWork).                                             *)
Valid == {h \in Header \ {Genesis} : ContextualCheckBlockHeader(h)}
Permitted == UNION {{h} \X {x \in Header : PermittedDifficultyTransition(Bits[h], Bits[x])} : h \in Header}
Work == [h \in Header |-> GetBlockProof(Bits[h])] @@ <<>>

WorkUpTo[h \in Header] == IF h = Genesis THEN Work[h] ELSE WorkUpTo[Parent[h]] + Work[h]
ChainWork == WorkUpTo @@ <<>>
=============================================================================
