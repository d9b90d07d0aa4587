----------------------------- MODULE TxRequest -----------------------------
(***************************************************************************)
(* What TxRequestTracker (src/src/txrequest.h) promises about one          *)
(* transaction hash: a candidate is asked only when its time has come, no  *)
(* other request is outstanding that has not expired, and no better        *)
(* candidate could be asked instead; a peer that failed is not asked       *)
(* again; a hash with nothing but failures is forgotten.                   *)
(***************************************************************************)
EXTENDS Integers

CONSTANTS Peer,
          Priority   \* of every peer for this hash

VARIABLES state,     \* of the announcement of every peer
          due        \* whether its reqtime or expiry has come

vars == <<state, due>>

Present == {p \in Peer : state[p] # "none"}
Init == state = [p \in Peer |-> "none"] /\ due = [p \in Peer |-> FALSE]

(* The announcement of p leaves the race, or all of them do. *)
Only(p) == \A q \in Present \ {p} : state[q] = "COMPLETED"

Announce(p) ==
    /\ state[p] = "none"
    /\ state' = [state EXCEPT ![p] = "CANDIDATE"]

Request(p) ==
    /\ state[p] = "CANDIDATE" /\ due[p]
    /\ \A q \in Peer : /\ state[q] = "REQUESTED" => due[q]
                       /\ state[q] = "CANDIDATE" /\ due[q] => Priority[p] >= Priority[q]
    /\ state' = [q \in Peer |-> IF q = p THEN "REQUESTED"
                                ELSE IF state[q] = "REQUESTED" THEN "COMPLETED" ELSE state[q]]

Fail(p) ==
    /\ state[p] \in {"CANDIDATE", "REQUESTED"} /\ ~Only(p)
    /\ state' = [state EXCEPT ![p] = "COMPLETED"]

Leave(p) ==
    /\ p \in Present /\ (state[p] # "COMPLETED" => ~Only(p))
    /\ state' = [state EXCEPT ![p] = "none"]

Forget == state' = [p \in Peer |-> "none"]

(* Time passes for all, and a new announcement or request has a time.      *)
Next ==
    \/ UNCHANGED state
    \/ Forget
    \/ \E p \in Peer : Announce(p) \/ Request(p) \/ Fail(p) \/ Leave(p)

Spec == Init /\ [][Next]_vars
=============================================================================
