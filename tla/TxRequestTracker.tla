-------------------------- MODULE TxRequestTracker --------------------------
(***************************************************************************)
(* TxRequestTracker (src/src/txrequest.cpp), hash by hash: s gives the     *)
(* announcement of every peer for one hash and r the priority the          *)
(* PriorityComputer gives to every peer.  The three indexes of the         *)
(* container are ways to find what is quantified over here.  A time is     *)
(* kept relative to the clock: it has come when left <= 0.                 *)
(***************************************************************************)
EXTENDS Integers, FiniteSets

CONSTANT Peer

State == {"none", "DELAYED", "READY", "BEST", "REQUESTED", "COMPLETED"}
Announcement == [state : State, left : Int]

None == [state |-> "none", left |-> 0]
Nothing == [p \in Peer |-> None]

In(s, p, S) == s[p].state \in S
IsSelected(s, p) == In(s, p, {"BEST", "REQUESTED"})
IsWaiting(s, p) == In(s, p, {"DELAYED", "REQUESTED"})
IsSelectable(s, p) == In(s, p, {"READY", "BEST"})

SetState(s, p, state) ==
    [s EXCEPT ![p] = [state |-> state, left |-> IF state = "COMPLETED" THEN 0 ELSE @.left]]

(* The last CANDIDATE_READY in the order of ByTxHash. *)
BestReady(s, r, p) == In(s, p, {"READY"}) /\ \A q \in Peer : In(s, q, {"READY"}) => r[p] >= r[q]

(* PromoteCandidateReady: p becomes CANDIDATE_READY, and CANDIDATE_BEST if *)
(* what follows it in ByTxHash is nothing, or a COMPLETED, or a            *)
(* CANDIDATE_BEST of a lower priority.                                     *)
PromoteCandidateReady(s, r, p) ==
    LET best == {q \in Peer : In(s, q, {"BEST"})}
        wins == /\ \A q \in Peer : In(s, q, {"READY"}) => r[p] >= r[q]
                /\ IF best # {} THEN \E q \in best : r[p] > r[q]
                   ELSE \A q \in Peer : ~IsSelected(s, q)
    IN  [q \in Peer |-> CASE q = p -> [s[q] EXCEPT !.state = IF wins THEN "BEST" ELSE "READY"]
                          [] q # p /\ q \in best /\ wins -> [s[q] EXCEPT !.state = "READY"]
                          [] OTHER -> s[q]]

(* Mutant of ChangeAndReselect: nobody takes the place of p. *)
ChangeOnly(s, r, p, state) == SetState(s, p, state)

(* ChangeAndReselect: the best CANDIDATE_READY takes the place of p. *)
ChangeAndReselect(s, r, p, state) ==
    LET next == {q \in Peer : BestReady(s, r, q)}
        t == IF IsSelected(s, p) /\ next # {} THEN SetState(s, CHOOSE q \in next : TRUE, "BEST") ELSE s
    IN  SetState(t, p, state)

IsOnlyNonCompleted(s, p) == \A q \in Peer \ {p} : In(s, q, {"none", "COMPLETED"})

MakeCompleted(s, r, p) ==
    IF In(s, p, {"COMPLETED"}) THEN s
    ELSE IF IsOnlyNonCompleted(s, p) THEN Nothing
    ELSE ChangeAndReselect(s, r, p, "COMPLETED")

(* Mutant of DisconnectedPeer: the announcement stays as a failed one. *)
DisconnectedOnly(s, r, p) == IF In(s, p, {"none"}) THEN s ELSE MakeCompleted(s, r, p)

DisconnectedPeer(s, r, p) ==
    IF In(s, p, {"none"}) THEN s ELSE [MakeCompleted(s, r, p) EXCEPT ![p] = None]

ForgetTxHash(s) == Nothing

(* Mutant of ReceivedInv: a peer that failed may announce again. *)
ReceivedInvAgain(s, p, delay) ==
    IF In(s, p, {"none", "COMPLETED"}) THEN [s EXCEPT ![p] = [state |-> "DELAYED", left |-> delay]] ELSE s

ReceivedInv(s, p, delay) ==
    IF In(s, p, {"none"}) THEN [s EXCEPT ![p] = [state |-> "DELAYED", left |-> delay]] ELSE s

ReceivedResponse(s, r, p) == IF In(s, p, {"none"}) THEN s ELSE MakeCompleted(s, r, p)

(* RequestedTx.  Asked for another candidate than the best one, the latter *)
(* steps back, and an earlier request counts as failed.                    *)
RequestedTx(s, p, expiry) ==
    LET t == IF In(s, p, {"BEST"}) THEN s
             ELSE [q \in Peer |-> CASE In(s, q, {"BEST"}) -> [s[q] EXCEPT !.state = "READY"]
                                    [] In(s, q, {"REQUESTED"}) -> [state |-> "COMPLETED", left |-> 0]
                                    [] OTHER -> s[q]]
    IN  IF In(s, p, {"DELAYED", "READY", "BEST"})
        THEN [t EXCEPT ![p] = [state |-> "REQUESTED", left |-> expiry]] ELSE s

(* Mutant of Passing: a request does not expire. *)
PassingCandidates(s) == {p \in Peer : In(s, p, {"DELAYED"}) /\ s[p].left <= 0}

(* One step of SetTimePoint. *)
Passed(s, r, p) == IF In(s, p, {"DELAYED"}) THEN PromoteCandidateReady(s, r, p) ELSE MakeCompleted(s, r, p)
Demoted(s, r, p) == ChangeAndReselect(s, r, p, "DELAYED")

Passing(s) == {p \in Peer : IsWaiting(s, p) /\ s[p].left <= 0}
Early(s) == {p \in Peer : IsSelectable(s, p) /\ s[p].left > 0}

(* One turn of the loops of SetTimePoint: in the order of ByTime those     *)
(* whose time has come, from the first, then those that are early if the   *)
(* clock went back, from the last.                                         *)
First(s) == CHOOSE p \in Passing(s) : \A q \in Passing(s) : s[p].left <= s[q].left
Latest(s) == CHOOSE p \in Early(s) : \A q \in Early(s) : s[p].left >= s[q].left

Turn(s, r) ==
    IF Passing(s) # {} THEN Passed(s, r, First(s))
    ELSE IF Early(s) # {} THEN Demoted(s, r, Latest(s))
    ELSE s

(* SetTimePoint: no announcement has more than one turn.  The sets of one  *)
(* element make TLC evaluate every intermediate result once.               *)
SetTimePoint(s, r) ==
    LET after[n \in Nat] == IF n = 0 THEN {s} ELSE {Turn(x, r) : x \in after[n - 1]}
    IN  CHOOSE x \in after[Cardinality(Peer)] : TRUE

(* The clock moves by d. *)
Shifted(s, d, floor) ==
    [p \in Peer |-> IF In(s, p, {"none", "COMPLETED"}) THEN s[p]
                    ELSE [s[p] EXCEPT !.left = IF @ - d < floor THEN floor ELSE @ - d]]

-----------------------------------------------------------------------------
(* Properties of the announcements of one hash. *)

(***************************************************************************)
(* SanityCheck: not only COMPLETED announcements; at most one is selected; *)
(* if one is ready one is selected; the best one is the best.              *)
(***************************************************************************)
Sane(s, r) ==
    /\ (\E p \in Peer : In(s, p, {"COMPLETED"})) => \E p \in Peer : ~In(s, p, {"none", "COMPLETED"})
    /\ \A p, q \in Peer : IsSelected(s, p) /\ IsSelected(s, q) => p = q
    /\ \A p \in Peer : In(s, p, {"READY"}) => \E q \in Peer : IsSelected(s, q)
    /\ \A p, q \in Peer : In(s, p, {"BEST"}) /\ In(s, q, {"READY"}) => r[p] >= r[q]
=============================================================================
