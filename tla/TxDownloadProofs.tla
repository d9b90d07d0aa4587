-------------------------- MODULE TxDownloadProofs --------------------------
(***************************************************************************)
(* Theorems about TxDownload, for any peers and transactions: orphans with *)
(* all their parents are queued, the tracker is as its SanityCheck wants   *)
(* it and implements the rule of txrequest.h, and nothing is left of peers *)
(* that are gone.                                                          *)
(***************************************************************************)
EXTENDS TxDownload, FiniteSetTheorems, WellFoundedInduction, TLAPS

(* Time for the provers on a busy machine. *)
USE SMTT(60)

-----------------------------------------------------------------------------
(* The orphanage.  An orphan has a peer, and a parent to wait for.         *)

OrphansOK ==
    /\ orphans \subseteq Tx /\ from \in [Tx -> Peer \cup {NoPeer}]
    /\ workset \in [Peer -> SUBSET Tx]
    /\ \A t \in orphans : from[t] \in Peer /\ Parents[t] # {}

OrphanInv == OrphansOK /\ ReadyOrphansQueued

(* Orphans that stay keep their peer, and what is queued stays queued,     *)
(* unless it is dropped.                                                   *)
LEMMA KeepGood ==
    ASSUME OrphanInv, NEW S \in SUBSET orphans, Keep(S)
    PROVE  /\ orphans' = S /\ orphans' \subseteq Tx /\ from' \in [Tx -> Peer \cup {NoPeer}]
           /\ \A t \in S : from'[t] = from[t] /\ from'[t] \in Peer /\ Parents[t] # {}
BY DEF OrphanInv, OrphansOK, Keep

(* AddChildrenToWorkSet only adds, and adds every child. *)
LEMMA ChildrenQueued ==
    ASSUME OrphanInv, NEW ws \in [Peer -> SUBSET Tx], NEW t
    PROVE  /\ WithChildren(ws, t) \in [Peer -> SUBSET Tx]
           /\ \A p \in Peer : ws[p] \subseteq WithChildren(ws, t)[p]
           /\ \A c \in orphans : t \in Parents[c] => c \in WithChildren(ws, t)[from[c]]
BY Zenon DEF OrphanInv, OrphansOK, WithChildren

(* Whatever leaves the orphanage alone and adds nothing that peers sent to *)
(* the mempool.                                                            *)
LEMMA OthersGood ==
    ASSUME OrphanInv, UNCHANGED <<orphans, from, workset>>, mempool' \ MaySubmit \subseteq mempool
    PROVE  OrphanInv'
<1>1. OrphansOK'
  BY DEF OrphanInv, OrphansOK
<1>2. ReadyOrphansQueued'
  BY DEF OrphanInv, ReadyOrphansQueued
<1> QED
  BY <1>1, <1>2 DEF OrphanInv

(* A transaction is accepted: its children are queued. *)
LEMMA TxAcceptedGood ==
    ASSUME OrphanInv, NEW a, NEW t \in Tx, TxAccepted(a, t)
    PROVE  OrphanInv'
<1>1. mempool' = mempool \cup {t} /\ workset' = WithChildren(workset, t) /\ UNCHANGED <<orphans, from>>
  BY DEF TxAccepted
<1>2. workset \in [Peer -> SUBSET Tx] /\ \A c \in orphans : from[c] \in Peer
  BY DEF OrphanInv, OrphansOK
<1>3. OrphansOK'
  BY <1>1, <1>2, ChildrenQueued DEF OrphanInv, OrphansOK
<1>4. ASSUME NEW c \in orphans, Parents[c] \subseteq (mempool \cup {t}) \ MaySubmit
      PROVE  c \in workset'[from[c]]
  <2>1. CASE t \in Parents[c]
    BY <1>1, <1>2, <2>1, ChildrenQueued
  <2>2. CASE t \notin Parents[c]
    <3>1. c \in workset[from[c]]
      BY <1>4, <2>2 DEF OrphanInv, ReadyOrphansQueued
    <3> QED
      BY <1>1, <1>2, <3>1, ChildrenQueued
  <2> QED
    BY <2>1, <2>2
<1>5. ReadyOrphansQueued'
  BY <1>1, <1>4 DEF ReadyOrphansQueued
<1> QED
  BY <1>3, <1>5 DEF OrphanInv

(* An orphan is added: a parent of it is missing. *)
LEMMA TxOrphanedGood ==
    ASSUME OrphanInv, NEW a, NEW p \in Peer, NEW t \in Tx, TxOrphaned(a, p, t)
    PROVE  OrphanInv'
<1>1. MissingInputs(t) /\ LimitOrphans(t, p) /\ UNCHANGED <<mempool, workset>>
  BY DEF TxOrphaned
<1>2. PICK kept \in SUBSET AddTx(t) :
        /\ orphans' = kept
        /\ from' = [x \in Tx |-> IF x \notin kept THEN NoPeer ELSE IF x = t THEN p ELSE from[x]]
  BY <1>1 DEF LimitOrphans
<1>3. kept \subseteq orphans \cup {t}
  BY <1>2 DEF AddTx
<1>4. PICK q \in Parents[t] : q \notin mempool
  BY <1>1 DEF MissingInputs, Known
<1>5. \A x \in kept : x \in Tx /\ from'[x] = (IF x = t THEN p ELSE from[x])
  BY <1>2, <1>3 DEF OrphanInv, OrphansOK
<1>6. OrphansOK'
  <2>1. from' \in [Tx -> Peer \cup {NoPeer}]
    BY <1>2 DEF OrphanInv, OrphansOK
  <2>2. \A x \in kept : from'[x] \in Peer /\ Parents[x] # {}
    BY <1>3, <1>4, <1>5, Zenon DEF OrphanInv, OrphansOK
  <2> QED
    BY <1>1, <1>2, <1>5, <2>1, <2>2, Zenon DEF OrphanInv, OrphansOK
<1>7. ReadyOrphansQueued'
  BY <1>1, <1>2, <1>3, <1>4, <1>5 DEF OrphanInv, ReadyOrphansQueued
<1> QED
  BY <1>6, <1>7 DEF OrphanInv

(* TX. *)
LEMMA ReceiveTxGood ==
    ASSUME OrphanInv, NEW p \in Peer, NEW t \in Tx, ReceiveTx(p, t)
    PROVE  OrphanInv'
<1>1. PICK a : IF AlreadyHaveTx(t)
               THEN ann' = a /\ UNCHANGED <<mempool, rejects, orphans, from, workset>>
               ELSE TxAccepted(a, t) \/ TxOrphaned(a, p, t) \/ TxRejected(a, t)
  BY Zenon DEF ReceiveTx
<1>2. CASE TxRejected(a, t)
  BY <1>2, OthersGood DEF TxRejected
<1>3. CASE UNCHANGED <<mempool, orphans, from, workset>>
  BY <1>3, OthersGood
<1> QED
  BY <1>1, <1>2, <1>3, TxAcceptedGood, TxOrphanedGood, Zenon

(* A round of ProcessOrphanTx takes t from the work set of p. *)
LEMMA ProcessOrphanTxGood ==
    ASSUME OrphanInv, NEW p \in Peer, ProcessOrphanTx(p)
    PROVE  OrphanInv'
<1>1. PICK t \in workset[p] :
        LET ws == [workset EXCEPT ![p] = @ \ {t}]
        IN  \/ /\ t \in orphans /\ mempool' = mempool \cup {t} /\ workset' = WithChildren(ws, t)
               /\ Keep(orphans \ {t})
            \/ /\ t \in orphans /\ workset' = ws /\ Keep(orphans \ {t}) /\ UNCHANGED mempool
            \/ /\ t \in orphans => MissingInputs(t)
               /\ workset' = ws /\ UNCHANGED <<mempool, orphans, from>>
  BY Zenon DEF ProcessOrphanTx
<1> DEFINE ws == [workset EXCEPT ![p] = @ \ {t}]
<1>2. /\ ws \in [Peer -> SUBSET Tx]
      /\ \A x, q : q \in Peer /\ x \in workset[q] /\ x # t => x \in ws[q]
  BY DEF OrphanInv, OrphansOK
<1>3. \A c \in orphans : from[c] \in Peer /\ c \in Tx
  BY DEF OrphanInv, OrphansOK
<1> HIDE DEF ws
<1>4. CASE /\ t \in orphans /\ mempool' = mempool \cup {t} /\ workset' = WithChildren(ws, t)
           /\ Keep(orphans \ {t})
  <2>1. OrphansOK'
    BY <1>2, <1>4, KeepGood, ChildrenQueued DEF OrphansOK
  <2>2. ASSUME NEW c \in orphans, c # t, Parents[c] \subseteq (mempool \cup {t}) \ MaySubmit
        PROVE  c \in workset'[from[c]]
    <3>1. CASE t \in Parents[c]
      BY <1>2, <1>4, <3>1, ChildrenQueued
    <3>2. CASE t \notin Parents[c]
      <4>1. c \in workset[from[c]]
        BY <2>2, <3>2, Zenon DEF OrphanInv, ReadyOrphansQueued
      <4>2. c \in ws[from[c]]
        BY <1>2, <1>3, <2>2, <4>1, Zenon
      <4> QED
        BY <1>2, <1>3, <1>4, <4>2, ChildrenQueued
    <3> QED
      BY <3>1, <3>2, Zenon
  <2>3. ReadyOrphansQueued'
    BY <1>4, <2>2, KeepGood DEF ReadyOrphansQueued
  <2> QED
    BY <2>1, <2>3 DEF OrphanInv
<1>5. CASE t \in orphans /\ workset' = ws /\ Keep(orphans \ {t}) /\ UNCHANGED mempool
  <2>1. OrphansOK'
    BY <1>2, <1>5, KeepGood, Zenon DEF OrphansOK
  <2>2. ReadyOrphansQueued'
    BY <1>2, <1>3, <1>5, KeepGood DEF OrphanInv, ReadyOrphansQueued
  <2> QED
    BY <2>1, <2>2 DEF OrphanInv
<1>6. CASE /\ t \in orphans => MissingInputs(t)
           /\ workset' = ws /\ UNCHANGED <<mempool, orphans, from>>
  <2>1. OrphansOK'
    BY <1>2, <1>6 DEF OrphanInv, OrphansOK
  <2>2. t \in orphans => \E q \in Parents[t] : q \notin mempool
    BY <1>6, Zenon DEF MissingInputs, Known
  <2>3. ReadyOrphansQueued'
    BY <1>2, <1>3, <1>6, <2>2 DEF OrphanInv, ReadyOrphansQueued
  <2> QED
    BY <2>1, <2>3 DEF OrphanInv
<1> QED
  BY <1>1, <1>4, <1>5, <1>6 DEF ws

(* FinalizeNode. *)
LEMMA FinalizeNodeGood ==
    ASSUME OrphanInv, NEW p \in Peer, FinalizeNode(p)
    PROVE  OrphanInv'
<1> DEFINE S == {t \in orphans : from[t] # p}
<1>1. workset' = [workset EXCEPT ![p] = {}] /\ Keep(S) /\ UNCHANGED mempool
  BY DEF FinalizeNode
<1>2. S \in SUBSET orphans
  OBVIOUS
<1>3. \A t \in S : from[t] # p
  BY Zenon
<1> HIDE DEF S
<1>4. OrphansOK'
  BY <1>1, <1>2, KeepGood DEF OrphanInv, OrphansOK
<1>5. ReadyOrphansQueued'
  BY <1>1, <1>2, <1>3, KeepGood DEF OrphanInv, OrphansOK, ReadyOrphansQueued
<1> QED
  BY <1>4, <1>5 DEF OrphanInv

(* BlockConnected. *)
LEMMA BlockConnectedGood ==
    ASSUME OrphanInv, NEW B, BlockConnected(B)
    PROVE  OrphanInv'
<1>1. Keep(orphans \ B) /\ UNCHANGED <<mempool, workset>>
  BY Zenon DEF BlockConnected
<1>2. OrphansOK'
  BY <1>1, KeepGood, Zenon DEF OrphanInv, OrphansOK
<1>3. ReadyOrphansQueued'
  BY <1>1, KeepGood DEF OrphanInv, ReadyOrphansQueued
<1> QED
  BY <1>2, <1>3 DEF OrphanInv

LEMMA OrphanInvInit == Init => OrphanInv
BY DEF Init, OrphanInv, OrphansOK, ReadyOrphansQueued

LEMMA OrphanInvStep ==
    ASSUME OrphanInv, [Next]_vars
    PROVE  OrphanInv'
<1>1. ASSUME NEW p \in Peer, NEW t \in Tx, Inv(p, t) \/ NotFound(p, t) PROVE OrphanInv'
  BY <1>1, OthersGood, Zenon DEF Inv, NotFound
<1>2. ASSUME NEW p \in Peer, SendMessages(p) PROVE OrphanInv'
  BY <1>2, OthersGood DEF SendMessages
<1>3. ASSUME NEW d, Clock(d) PROVE OrphanInv'
  BY <1>3, OthersGood, Zenon DEF Clock
<1>4. ASSUME NEW B, ConnectTip(B) PROVE OrphanInv'
  BY <1>4, OthersGood, Zenon DEF ConnectTip
<1>5. ASSUME NEW t \in MaySubmit, Submit(t) PROVE OrphanInv'
  BY <1>5, OthersGood DEF Submit
<1>6. CASE UNCHANGED vars
  BY <1>6, OthersGood DEF vars
<1> QED
  BY <1>1, <1>2, <1>3, <1>4, <1>5, <1>6, ReceiveTxGood, ProcessOrphanTxGood, FinalizeNodeGood,
     BlockConnectedGood, Zenon DEF Next

(* AddChildrenToWorkSet reaches every orphan: one whose parents have all   *)
(* come from peers is in the work set of the peer it came from, whatever   *)
(* is evicted, sent again, mined or submitted in between.                  *)
THEOREM OrphansQueued == SafetySpec => []ReadyOrphansQueued
<1>1. OrphanInv /\ [Next]_vars => OrphanInv'
  BY OrphanInvStep, Zenon
<1>2. OrphanInv => ReadyOrphansQueued
  BY DEF OrphanInv
<1> QED
  BY <1>1, <1>2, OrphanInvInit, PTL DEF SafetySpec

-----------------------------------------------------------------------------
(* Induction over data, by way of the least counterexample. *)

(* A set of numbers has a least one. *)
LEMMA Minimum ==
    ASSUME NEW S, S \subseteq Nat, S # {}
    PROVE  \E m \in S : \A n \in S : m <= n
<1> DEFINE R == OpToRel(<, Nat)
<1>1. IsWellFoundedOn(R, Nat)
  BY NatLessThanWellFounded, Zenon
<1>2. PICK m \in S : \A n \in S : ~(<<n, m>> \in R)
  <2> HIDE DEF R
  <2> QED
    BY <1>1, WFMin, Zenon
<1>3. ASSUME NEW n \in S PROVE m <= n
  <2>1. ~(n < m)
    BY <1>2, Zenon DEF OpToRel
  <2> QED
    BY <2>1
<1> QED
  BY <1>3

(* A finite set has a member with the smallest value. *)
LEMMA SmallestExists ==
    ASSUME NEW T, IsFiniteSet(T), T # {}, NEW v \in [T -> Int]
    PROVE  \E p \in T : \A q \in T : v[p] <= v[q]
<1> DEFINE Small(U) == \E p \in U : \A q \in U : v[p] <= v[q]
           Bad == {n \in Nat : \E U \in SUBSET T : U # {} /\ Cardinality(U) = n /\ ~Small(U)}
<1>1. \A U \in SUBSET T : IsFiniteSet(U) /\ Cardinality(U) \in Nat
  BY FS_Subset, FS_CardinalityType, Zenon
<1> SUFFICES ASSUME Bad # {} PROVE FALSE
  BY <1>1, Zenon
<1>2. PICK n \in Bad : \A m \in Bad : n <= m
  <2>1. Bad \subseteq Nat
    BY Zenon
  <2> HIDE DEF Bad
  <2> QED
    BY <2>1, Minimum, Zenon
<1>3. PICK U \in SUBSET T : U # {} /\ Cardinality(U) = n /\ ~Small(U)
  BY <1>2, Zenon
<1>4. PICK x \in U : TRUE
  BY <1>3, Zenon
<1> DEFINE W == U \ {x}
<1>5. Cardinality(W) = n - 1 /\ Cardinality(W) \in Nat /\ W \in SUBSET T
  BY <1>1, <1>3, <1>4, FS_RemoveElement, Zenon
<1>6. ~(n <= n - 1)
  BY <1>2
<1>7. W = {} \/ Small(W)
  <2>1. Cardinality(W) \notin Bad
    <3> HIDE DEF Bad, W
    <3> QED
      BY <1>2, <1>5, <1>6, Zenon
  <2> QED
    BY <1>5, <2>1, Zenon
<1>8. CASE W = {}
  <2>1. \A q \in U : q = x
    BY <1>8, Zenon
  <2>2. v[x] <= v[x]
    BY <1>3, <1>4
  <2> QED
    BY <1>3, <1>4, <2>1, <2>2, Zenon
<1>9. CASE Small(W)
  <2>1. PICK p \in W : \A q \in W : v[p] <= v[q]
    BY <1>9, Zenon
  <2>2. \A q \in U : v[q] \in Int
    BY <1>3
  <2>3. p \in U /\ \A q \in U : q # x => v[p] <= v[q]
    BY <2>1, Zenon
  <2>4. CASE v[p] <= v[x]
    <3>1. \A q \in U : v[p] <= v[q]
      BY <2>3, <2>4, Zenon
    <3> QED
      BY <1>3, <2>3, <3>1, Zenon
  <2>5. CASE ~(v[p] <= v[x])
    <3>1. \A q \in U : v[x] <= v[q]
      BY <1>4, <2>2, <2>3, <2>5
    <3> QED
      BY <1>3, <1>4, <3>1, Zenon
  <2> QED
    BY <2>4, <2>5
<1> QED
  BY <1>7, <1>8, <1>9

-----------------------------------------------------------------------------
(* The tracker, hash by hash.  Priorities are different. *)

Ranking(r) ==
    /\ r \in [Peer -> Nat]
    /\ \A p, q \in Peer : r[p] = r[q] => p = q

Announcements == [Peer -> Announcement]

(* If a candidate is ready, one of them is the best ... *)
LEMMA BestExists ==
    ASSUME NEW s, NEW r, Ranking(r), NEW p \in Peer, In(s, p, {"READY"})
    PROVE  \E b \in Peer : BestReady(s, r, b)
<1> DEFINE T == {q \in Peer : In(s, q, {"READY"})}
           v == [q \in T |-> 0 - r[q]]
<1>1. IsFiniteSet(T)
  BY TxAssumption, FS_Subset, Zenon
<1>2. T # {}
  BY Zenon
<1>3. v \in [T -> Int] /\ \A q \in T : v[q] = 0 - r[q] /\ r[q] \in Nat
  BY DEF Ranking
<1>4. PICK b \in T : \A q \in T : v[b] <= v[q]
  <2> HIDE DEF T, v
  <2> QED
    BY <1>1, <1>2, <1>3, SmallestExists, Zenon
<1>5. \A q \in T : r[b] >= r[q]
  <2> HIDE DEF T, v
  <2> QED
    BY <1>3, <1>4
<1> QED
  BY <1>4, <1>5, Zenon DEF BestReady

(* ... and only one. *)
LEMMA BestUnique ==
    ASSUME NEW s, NEW r, Ranking(r), NEW a \in Peer, NEW b \in Peer, BestReady(s, r, a), BestReady(s, r, b)
    PROVE  a = b
BY DEF BestReady, Ranking

(* The states after SetState and after ChangeAndReselect. *)
LEMMA StateSet ==
    ASSUME NEW s \in Announcements, NEW p \in Peer, NEW c \in State
    PROVE  /\ SetState(s, p, c) \in Announcements
           /\ \A q \in Peer :
                /\ SetState(s, p, c)[q].state = IF q = p THEN c ELSE s[q].state
                /\ SetState(s, p, c)[q].left = IF q = p /\ c = "COMPLETED" THEN 0 ELSE s[q].left
BY DEF SetState, Announcements, Announcement

(* The best of the others takes the place of a selected one. *)
LEMMA Reselected ==
    ASSUME NEW s \in Announcements, NEW r, Ranking(r), NEW p \in Peer, NEW c \in State
    PROVE  LET t == ChangeAndReselect(s, r, p, c)
           IN  /\ t \in Announcements
               /\ \A q \in Peer :
                    /\ t[q].state = IF q = p THEN c
                                    ELSE IF IsSelected(s, p) /\ BestReady(s, r, q) THEN "BEST"
                                    ELSE s[q].state
                    /\ t[q].left = IF q = p /\ c = "COMPLETED" THEN 0 ELSE s[q].left
<1> DEFINE next == {q \in Peer : BestReady(s, r, q)}
           t == IF IsSelected(s, p) /\ next # {} THEN SetState(s, CHOOSE q \in next : TRUE, "BEST") ELSE s
<1>1. /\ t \in Announcements
      /\ \A q \in Peer :
           /\ t[q].state = IF IsSelected(s, p) /\ BestReady(s, r, q) THEN "BEST" ELSE s[q].state
           /\ t[q].left = s[q].left
  <2>1. CASE IsSelected(s, p) /\ next # {}
    <3>1. PICK b \in next : b = CHOOSE q \in next : TRUE
      BY <2>1, Zenon
    <3>2. b \in Peer /\ \A q \in Peer : BestReady(s, r, q) <=> q = b
      BY <3>1, BestUnique
    <3>3. t = SetState(s, b, "BEST")
      BY <2>1, <3>1, Zenon
    <3> HIDE DEF next, t
    <3>4. "BEST" \in State /\ "BEST" # "COMPLETED"
      BY DEF State
    <3>5. /\ SetState(s, b, "BEST") \in Announcements
          /\ \A q \in Peer :
               /\ SetState(s, b, "BEST")[q].state = IF q = b THEN "BEST" ELSE s[q].state
               /\ SetState(s, b, "BEST")[q].left = IF q = b /\ "BEST" = "COMPLETED" THEN 0 ELSE s[q].left
      BY <3>2, <3>4, StateSet
    <3>6. \A q \in Peer : /\ t[q].state = IF q = b THEN "BEST" ELSE s[q].state
                          /\ t[q].left = s[q].left
      BY <3>3, <3>4, <3>5
    <3> QED
      BY <2>1, <3>2, <3>3, <3>5, <3>6
  <2>2. CASE ~(IsSelected(s, p) /\ next # {})
    BY <2>2, Zenon
  <2> QED
    BY <2>1, <2>2
<1>2. ChangeAndReselect(s, r, p, c) = SetState(t, p, c)
  BY Zenon DEF ChangeAndReselect
<1> HIDE DEF t
<1>3. /\ SetState(t, p, c) \in Announcements
      /\ \A q \in Peer :
           /\ SetState(t, p, c)[q].state = IF q = p THEN c ELSE t[q].state
           /\ SetState(t, p, c)[q].left = IF q = p /\ c = "COMPLETED" THEN 0 ELSE t[q].left
  BY <1>1, StateSet
<1> QED
  BY <1>1, <1>2, <1>3, Zenon

(* What an announcement has to be like for the operations, and stays. *)
Good(r) == {s \in Announcements : Sane(s, r)}

(* ChangeAndReselect. *)
LEMMA ReselectGood ==
    ASSUME NEW r, Ranking(r), NEW s \in Good(r), NEW p \in Peer, NEW c \in {"DELAYED", "COMPLETED"},
           c = "COMPLETED" => ~IsOnlyNonCompleted(s, p)
    PROVE  ChangeAndReselect(s, r, p, c) \in Good(r)
<1> DEFINE t == ChangeAndReselect(s, r, p, c)
<1>1. s \in Announcements /\ Sane(s, r) /\ c \in State
  BY Zenon DEF Good, State
<1>2. t \in Announcements
  BY <1>1, Reselected, Zenon
<1>3. \A q \in Peer : t[q].state = IF q = p THEN c
                                   ELSE IF IsSelected(s, p) /\ BestReady(s, r, q) THEN "BEST" ELSE s[q].state
  BY <1>1, Reselected
<1> HIDE DEF t
<1>4. (\E q \in Peer : In(t, q, {"COMPLETED"})) => \E q \in Peer : ~In(t, q, {"none", "COMPLETED"})
  <2>1. CASE c = "DELAYED"
    BY <1>3, <2>1, Zenon DEF In
  <2>2. CASE c = "COMPLETED"
    <3>1. PICK q \in Peer \ {p} : ~In(s, q, {"none", "COMPLETED"})
      BY <2>2 DEF IsOnlyNonCompleted
    <3> QED
      BY <1>3, <3>1 DEF In
  <2> QED
    BY <2>1, <2>2, Zenon
<1>5. ASSUME NEW a \in Peer, NEW b \in Peer, IsSelected(t, a), IsSelected(t, b) PROVE a = b
  <2>1. a # p /\ b # p
    BY <1>3, <1>5, Zenon DEF IsSelected, In
  <2>2. CASE IsSelected(s, p)
    <3>1. BestReady(s, r, a) /\ BestReady(s, r, b)
      BY <1>1, <1>3, <1>5, <2>1, <2>2, Zenon DEF Sane, IsSelected, In
    <3> QED
      BY <3>1, BestUnique, Zenon
  <2>3. CASE ~IsSelected(s, p)
    BY <1>1, <1>3, <1>5, <2>1, <2>3 DEF Sane, IsSelected, In
  <2> QED
    BY <2>2, <2>3, Zenon
<1>6. ASSUME NEW a \in Peer, In(t, a, {"READY"}) PROVE \E b \in Peer : IsSelected(t, b)
  <2>1. a # p /\ In(s, a, {"READY"})
    BY <1>3, <1>6, Zenon DEF In
  <2>2. CASE IsSelected(s, p)
    <3>1. PICK b \in Peer : BestReady(s, r, b)
      BY <2>1, BestExists, Zenon
    <3>2. b # p
      BY <2>2, <3>1, Zenon DEF BestReady, IsSelected, In
    <3> QED
      BY <1>3, <2>2, <3>1, <3>2 DEF IsSelected, In
  <2>3. CASE ~IsSelected(s, p)
    BY <1>1, <1>3, <2>1, <2>3, Zenon DEF Sane, IsSelected, In
  <2> QED
    BY <2>2, <2>3, Zenon
<1>7. ASSUME NEW a \in Peer, NEW b \in Peer, In(t, a, {"BEST"}), In(t, b, {"READY"}) PROVE r[a] >= r[b]
  <2>1. a # p /\ b # p /\ In(s, b, {"READY"}) /\ (BestReady(s, r, a) \/ In(s, a, {"BEST"}))
    BY <1>3, <1>7, Zenon DEF In
  <2> QED
    BY <1>1, <2>1, Zenon DEF BestReady, Sane
<1>8. Sane(t, r)
  BY <1>4, <1>5, <1>6, <1>7, Zenon DEF Sane
<1> QED
  BY <1>2, <1>8, Zenon DEF Good, t

(* A hash that is forgotten. *)
LEMMA NothingGood ==
    \A r : Nothing \in Good(r)
BY DEF Good, Sane, Nothing, None, In, IsSelected, Announcements, Announcement, State

(* MakeCompleted. *)
LEMMA MakeCompletedGood ==
    ASSUME NEW r, Ranking(r), NEW s \in Good(r), NEW p \in Peer
    PROVE  /\ MakeCompleted(s, r, p) \in Good(r)
           /\ In(MakeCompleted(s, r, p), p, {"none", "COMPLETED"})
<1>1. CASE In(s, p, {"COMPLETED"})
  BY <1>1, Zenon DEF MakeCompleted, In
<1>2. CASE ~In(s, p, {"COMPLETED"}) /\ IsOnlyNonCompleted(s, p)
  BY <1>2, NothingGood, Zenon DEF MakeCompleted, In, Nothing, None
<1>3. CASE ~In(s, p, {"COMPLETED"}) /\ ~IsOnlyNonCompleted(s, p)
  <2>1. MakeCompleted(s, r, p) = ChangeAndReselect(s, r, p, "COMPLETED")
    BY <1>3, Zenon DEF MakeCompleted
  <2>2. ChangeAndReselect(s, r, p, "COMPLETED")[p].state = "COMPLETED"
    <3>1. s \in Announcements /\ "COMPLETED" \in State
      BY Zenon DEF Good, State
    <3> QED
      BY <3>1, Reselected
  <2> QED
    BY <1>3, <2>1, <2>2, ReselectGood DEF In
<1> QED
  BY <1>1, <1>2, <1>3, Zenon

(* DisconnectedPeer. *)
LEMMA DisconnectedGood ==
    ASSUME NEW r, Ranking(r), NEW s \in Good(r), NEW p \in Peer
    PROVE  DisconnectedPeer(s, r, p) \in Good(r)
<1>1. ASSUME NEW t \in Good(r), In(t, p, {"none", "COMPLETED"})
      PROVE  [t EXCEPT ![p] = None] \in Good(r)
  <2> DEFINE u == [t EXCEPT ![p] = None]
  <2>1. t \in Announcements /\ Sane(t, r)
    BY Zenon DEF Good
  <2>2. u \in Announcements /\ \A q \in Peer : u[q].state = IF q = p THEN "none" ELSE t[q].state
    BY <2>1 DEF Announcements, Announcement, State, None
  <2> HIDE DEF u
  <2>3. \A q \in Peer : /\ IsSelected(u, q) <=> IsSelected(t, q)
                        /\ In(u, q, {"READY"}) <=> In(t, q, {"READY"})
                        /\ In(u, q, {"BEST"}) <=> In(t, q, {"BEST"})
                        /\ In(u, q, {"COMPLETED"}) => In(t, q, {"COMPLETED"})
                        /\ In(u, q, {"none", "COMPLETED"}) <=> In(t, q, {"none", "COMPLETED"})
    BY <1>1, <2>2, Zenon DEF IsSelected, In
  <2>4. Sane(u, r)
    BY <2>1, <2>3, Zenon DEF Sane
  <2> QED
    BY <2>2, <2>4, Zenon DEF Good, u
<1> QED
  BY <1>1, MakeCompletedGood, Zenon DEF DisconnectedPeer

(* ReceivedInv. *)
LEMMA ReceivedInvGood ==
    ASSUME NEW r, NEW s \in Good(r), NEW p \in Peer, NEW d \in Int
    PROVE  ReceivedInv(s, p, d) \in Good(r)
<1>1. CASE In(s, p, {"none"})
  <2> DEFINE t == ReceivedInv(s, p, d)
  <2>1. s \in Announcements /\ Sane(s, r)
    BY Zenon DEF Good
  <2>2. t \in Announcements /\ \A q \in Peer : t[q].state = IF q = p THEN "DELAYED" ELSE s[q].state
    BY <1>1, <2>1, Zenon DEF ReceivedInv, Announcements, Announcement, State
  <2> HIDE DEF t
  <2>3. \A q \in Peer : /\ IsSelected(t, q) <=> IsSelected(s, q)
                        /\ In(t, q, {"READY"}) <=> In(s, q, {"READY"})
                        /\ In(t, q, {"BEST"}) <=> In(s, q, {"BEST"})
                        /\ In(t, q, {"COMPLETED"}) <=> In(s, q, {"COMPLETED"})
                        /\ In(t, q, {"none", "COMPLETED"}) => In(s, q, {"none", "COMPLETED"})
    BY <1>1, <2>2, Zenon DEF IsSelected, In
  <2>4. Sane(t, r)
    BY <2>1, <2>3 DEF Sane
  <2> QED
    BY <2>2, <2>4 DEF Good, t
<1> QED
  BY <1>1, Zenon DEF ReceivedInv

(* RequestedTx. *)
LEMMA RequestedGood ==
    ASSUME NEW r, NEW s \in Good(r), NEW p \in Peer, NEW d \in Int
    PROVE  RequestedTx(s, p, d) \in Good(r)
<1>1. CASE In(s, p, {"DELAYED", "READY", "BEST"})
  <2> DEFINE t == RequestedTx(s, p, d)
  <2>1. s \in Announcements /\ Sane(s, r)
    BY DEF Good
  <2>2. CASE In(s, p, {"BEST"})
    <3>1. t = [s EXCEPT ![p] = [state |-> "REQUESTED", left |-> d]]
      BY <1>1, <2>2, Zenon DEF RequestedTx
    <3>2. t \in Announcements /\ \A q \in Peer : t[q].state = IF q = p THEN "REQUESTED" ELSE s[q].state
      BY <2>1, <3>1 DEF Announcements, Announcement, State
    <3> HIDE DEF t
    <3>3. \A q \in Peer : /\ IsSelected(t, q) <=> IsSelected(s, q)
                          /\ In(t, q, {"READY"}) <=> In(s, q, {"READY"})
                          /\ In(t, q, {"BEST"}) => In(s, q, {"BEST"})
                          /\ In(t, q, {"COMPLETED"}) <=> In(s, q, {"COMPLETED"})
                          /\ In(t, q, {"none", "COMPLETED"}) <=> In(s, q, {"none", "COMPLETED"})
      BY <2>2, <3>2, Zenon DEF IsSelected, In
    <3>4. Sane(t, r)
      BY <2>1, <3>3, Zenon DEF Sane
    <3> QED
      BY <3>2, <3>4 DEF Good, t
  <2>3. CASE ~In(s, p, {"BEST"})
    <3> DEFINE u == [q \in Peer |-> CASE In(s, q, {"BEST"}) -> [s[q] EXCEPT !.state = "READY"]
                                      [] In(s, q, {"REQUESTED"}) -> [state |-> "COMPLETED", left |-> 0]
                                      [] OTHER -> s[q]]
    <3>1. t = [u EXCEPT ![p] = [state |-> "REQUESTED", left |-> d]]
      BY <1>1, <2>3, Zenon DEF RequestedTx
    <3>2. ASSUME NEW q \in Peer
          PROVE  u[q] \in Announcement /\ u[q].state \notin {"BEST", "REQUESTED"}
      BY <2>1 DEF Announcements, Announcement, State, In
    <3>3. u \in Announcements
      BY <3>2 DEF Announcements
    <3>4. \A q \in Peer : u[q].state \notin {"BEST", "REQUESTED"}
      BY <3>2, Zenon
    <3> HIDE DEF u
    <3>5. t \in Announcements /\ t[p].state = "REQUESTED" /\ \A q \in Peer \ {p} : t[q].state = u[q].state
      BY <3>1, <3>3 DEF Announcements, Announcement, State
    <3> HIDE DEF t
    <3>6. Sane(t, r)
      BY <3>4, <3>5, Zenon DEF Sane, IsSelected, In
    <3> QED
      BY <3>5, <3>6 DEF Good, t
  <2> QED
    BY <2>2, <2>3, Zenon
<1> QED
  BY <1>1, Zenon DEF RequestedTx

(* PromoteCandidateReady, by which a due candidate may become the best. *)
LEMMA PromoteGood ==
    ASSUME NEW r, Ranking(r), NEW s \in Good(r), NEW p \in Peer, In(s, p, {"DELAYED"})
    PROVE  PromoteCandidateReady(s, r, p) \in Good(r)
<1> DEFINE best == {q \in Peer : In(s, q, {"BEST"})}
           wins == /\ \A q \in Peer : In(s, q, {"READY"}) => r[p] >= r[q]
                   /\ IF best # {} THEN \E q \in best : r[p] > r[q]
                      ELSE \A q \in Peer : ~IsSelected(s, q)
           t == PromoteCandidateReady(s, r, p)
<1>1. s \in Announcements /\ Sane(s, r)
  BY DEF Good
<1>2. t = [q \in Peer |-> CASE q = p -> [s[q] EXCEPT !.state = IF wins THEN "BEST" ELSE "READY"]
                            [] q # p /\ q \in best /\ wins -> [s[q] EXCEPT !.state = "READY"]
                            [] OTHER -> s[q]]
  BY Zenon DEF PromoteCandidateReady
<1>3. ASSUME NEW q \in Peer
      PROVE  /\ t[q] \in Announcement
             /\ t[q].state = IF q = p THEN (IF wins THEN "BEST" ELSE "READY")
                             ELSE IF In(s, q, {"BEST"}) /\ wins THEN "READY" ELSE s[q].state
  <2> DEFINE w == wins
  <2>1. t[q] = CASE q = p -> [s[q] EXCEPT !.state = IF w THEN "BEST" ELSE "READY"]
                 [] q # p /\ q \in best /\ w -> [s[q] EXCEPT !.state = "READY"]
                 [] OTHER -> s[q]
    BY <1>2, Zenon
  <2>2. s[q] \in Announcement /\ (q \in best <=> In(s, q, {"BEST"}))
    BY <1>1, Zenon DEF Announcements
  <2> HIDE DEF w, t, best
  <2> QED
    BY <2>1, <2>2, Zenon DEF Announcement, State, w
<1>4. t \in Announcements
  <2>1. t = [q \in Peer |-> t[q]]
    BY <1>2, Zenon
  <2> HIDE DEF t
  <2> QED
    BY <1>3, <2>1, Zenon DEF Announcements
<1>5. \E q \in Peer : ~In(t, q, {"none", "COMPLETED"})
  <2> HIDE DEF t, wins
  <2> QED
    BY <1>3, Zenon DEF In
<1>6. CASE wins
  <2>1. /\ \A q \in Peer : In(s, q, {"READY"}) => r[p] >= r[q]
        /\ \A q \in Peer : In(s, q, {"BEST"}) => r[p] > r[q]
        /\ \A q \in Peer : IsSelected(s, q) => In(s, q, {"BEST"})
    <3>1. CASE best # {}
      <4>1. PICK b \in best : r[p] > r[b]
        BY <1>6, <3>1, Zenon
      <4>2. \A q \in Peer : IsSelected(s, q) => q = b
        BY <1>1, <4>1, Zenon DEF Sane, IsSelected, In
      <4>3. \A q \in Peer : In(s, q, {"BEST"}) => IsSelected(s, q)
        BY DEF IsSelected, In
      <4>4. In(s, b, {"BEST"})
        BY <4>1, Zenon
      <4> QED
        BY <1>6, <4>1, <4>2, <4>3, <4>4, Zenon
    <3>2. CASE best = {}
      BY <1>6, <3>2, Zenon
    <3> QED
      BY <3>1, <3>2, Zenon
  <2>2. \A q \in Peer : t[q].state = IF q = p THEN "BEST"
                                     ELSE IF In(s, q, {"BEST"}) THEN "READY" ELSE s[q].state
    BY <1>3, <1>6, Zenon
  <2> HIDE DEF t, wins
  <2>3. \A q \in Peer : IsSelected(t, q) <=> q = p
    BY <2>1, <2>2, Zenon DEF IsSelected, In
  <2>4. \A q \in Peer : In(t, q, {"READY"}) => In(s, q, {"READY"}) \/ In(s, q, {"BEST"})
    BY <2>2, Zenon DEF In
  <2>5. \A a \in Peer : In(t, a, {"BEST"}) => a = p
    BY <2>3, Zenon DEF IsSelected, In
  <2>6. \A b \in Peer : In(t, b, {"READY"}) => r[p] >= r[b]
    BY <2>1, <2>4 DEF Ranking
  <2>7. Sane(t, r)
    BY <1>5, <2>3, <2>5, <2>6, Zenon DEF Sane
  <2> QED
    BY <1>4, <2>7, Zenon DEF Good, t
<1>7. CASE ~wins
  <2>1. \E q \in Peer : IsSelected(s, q)
    <3>1. CASE \E q \in Peer : In(s, q, {"READY"})
      BY <1>1, <3>1, Zenon DEF Sane
    <3>2. CASE best # {}
      BY <3>2, Zenon DEF IsSelected, In
    <3> QED
      BY <1>7, <3>1, <3>2, Zenon
  <2>2. ASSUME NEW b \in Peer, In(s, b, {"BEST"}) PROVE r[b] >= r[p]
    <3>1. CASE \E q \in Peer : In(s, q, {"READY"}) /\ ~(r[p] >= r[q])
      <4>1. PICK q \in Peer : In(s, q, {"READY"}) /\ ~(r[p] >= r[q])
        BY <3>1, Zenon
      <4>2. r[b] >= r[q]
        BY <1>1, <2>2, <4>1, Zenon DEF Sane
      <4> QED
        BY <4>1, <4>2 DEF Ranking
    <3>2. CASE \A q \in Peer : In(s, q, {"READY"}) => r[p] >= r[q]
      <4>1. b \in best
        BY <2>2, Zenon
      <4>2. ~(r[p] > r[b])
        BY <1>7, <3>2, <4>1, Zenon
      <4> QED
        BY <4>2 DEF Ranking
    <3> QED
      BY <3>1, <3>2, Zenon
  <2>3. \A q \in Peer : t[q].state = IF q = p THEN "READY" ELSE s[q].state
    BY <1>3, <1>7, Zenon
  <2> HIDE DEF t, wins, best
  <2>4. \A q \in Peer : /\ IsSelected(t, q) <=> IsSelected(s, q)
                        /\ In(t, q, {"BEST"}) <=> In(s, q, {"BEST"})
                        /\ In(t, q, {"READY"}) => In(s, q, {"READY"}) \/ q = p
    BY <2>3, Zenon DEF IsSelected, In
  <2>5. Sane(t, r)
    BY <1>1, <1>5, <2>1, <2>2, <2>4, Zenon DEF Sane
  <2> QED
    BY <1>4, <2>5 DEF Good, t
<1> QED
  BY <1>6, <1>7, Zenon

(* Time passes. *)
LEMMA ShiftedGood ==
    ASSUME NEW r, NEW s \in Good(r), NEW d \in Int, NEW floor \in Int
    PROVE  Shifted(s, d, floor) \in Good(r)
<1> DEFINE t == Shifted(s, d, floor)
<1>1. s \in Announcements /\ Sane(s, r)
  BY DEF Good
<1>2. t \in Announcements /\ \A q \in Peer : t[q].state = s[q].state
  BY <1>1 DEF Shifted, Announcements, Announcement
<1> HIDE DEF t
<1>3. Sane(t, r)
  BY <1>1, <1>2, Zenon DEF Sane, IsSelected, In
<1> QED
  BY <1>2, <1>3 DEF Good, t

-----------------------------------------------------------------------------
(* SetTimePoint. *)

(* What is left to do, and how the announcements x of a hash may differ    *)
(* from s, those before: all are forgotten, or only the kind of candidate  *)
(* changed and a request that expired has failed.                          *)
Pending(s) == Passing(s) \cup Early(s)

Kept(s, x, p) == x[p].state = s[p].state /\ x[p].left = s[p].left
Candidate(s, p) == In(s, p, {"DELAYED", "READY", "BEST"})
Follows(s, x) ==
    \/ \A p \in Peer : In(x, p, {"none"})
    \/ \A p \in Peer :
         \/ Kept(s, x, p)
         \/ Candidate(s, p) /\ Candidate(x, p) /\ x[p].left = s[p].left
         \/ In(s, p, {"REQUESTED"}) /\ s[p].left <= 0 /\ In(x, p, {"COMPLETED"})

LEMMA FollowsTransitive ==
    ASSUME NEW s, NEW x, NEW y, Follows(s, x), Follows(x, y)
    PROVE  Follows(s, y)
<1>1. CASE \A p \in Peer : In(y, p, {"none"})
  BY <1>1, Zenon DEF Follows
<1>2. CASE \A p \in Peer : In(x, p, {"none"})
  <2>1. \A p \in Peer : In(y, p, {"none"})
    BY <1>2 DEF Follows, Kept, Candidate, In
  <2> QED
    BY <2>1, Zenon DEF Follows
<1>3. CASE /\ ~\A p \in Peer : In(x, p, {"none"})
           /\ ~\A p \in Peer : In(y, p, {"none"})
  <2>1. ASSUME NEW p \in Peer
        PROVE  \/ Kept(s, y, p)
               \/ Candidate(s, p) /\ Candidate(y, p) /\ y[p].left = s[p].left
               \/ In(s, p, {"REQUESTED"}) /\ s[p].left <= 0 /\ In(y, p, {"COMPLETED"})
    BY <1>3 DEF Follows, Kept, Candidate, In
  <2> QED
    BY <2>1, Zenon DEF Follows
<1> QED
  BY <1>1, <1>2, <1>3

(* A turn changes the state of p, and which of the others that are ready   *)
(* is the best.                                                            *)
OthersKept(s, t, p) ==
    \A q \in Peer \ {p} : /\ t[q].left = s[q].left
                          /\ \/ t[q].state = s[q].state
                             \/ In(s, q, {"READY", "BEST"}) /\ In(t, q, {"READY", "BEST"})

LEMMA PromoteKeeps ==
    ASSUME NEW r, NEW s \in Announcements, NEW p \in Peer
    PROVE  LET t == PromoteCandidateReady(s, r, p)
           IN  /\ OthersKept(s, t, p)
               /\ In(t, p, {"READY", "BEST"}) /\ t[p].left = s[p].left
<1> DEFINE best == {q \in Peer : In(s, q, {"BEST"})}
           wins == /\ \A q \in Peer : In(s, q, {"READY"}) => r[p] >= r[q]
                   /\ IF best # {} THEN \E q \in best : r[p] > r[q]
                      ELSE \A q \in Peer : ~IsSelected(s, q)
           t == PromoteCandidateReady(s, r, p)
<1>1. t = [q \in Peer |-> CASE q = p -> [s[q] EXCEPT !.state = IF wins THEN "BEST" ELSE "READY"]
                            [] q # p /\ q \in best /\ wins -> [s[q] EXCEPT !.state = "READY"]
                            [] OTHER -> s[q]]
  BY Zenon DEF PromoteCandidateReady
<1>2. ASSUME NEW q \in Peer
      PROVE  /\ t[q].left = s[q].left
             /\ t[q].state = IF q = p THEN (IF wins THEN "BEST" ELSE "READY")
                             ELSE IF In(s, q, {"BEST"}) /\ wins THEN "READY" ELSE s[q].state
  <2> DEFINE w == wins
  <2>1. t[q] = CASE q = p -> [s[q] EXCEPT !.state = IF w THEN "BEST" ELSE "READY"]
                 [] q # p /\ q \in best /\ w -> [s[q] EXCEPT !.state = "READY"]
                 [] OTHER -> s[q]
    BY <1>1, Zenon
  <2>2. s[q] \in Announcement /\ (q \in best <=> In(s, q, {"BEST"}))
    BY Zenon DEF Announcements
  <2> HIDE DEF w, t, best
  <2> QED
    BY <2>1, <2>2, Zenon DEF Announcement, State, w
<1> HIDE DEF wins, t, best
<1>3. t[p].left = s[p].left /\ In(t, p, {"READY", "BEST"})
  BY <1>2, Zenon DEF In
<1>4. OthersKept(s, t, p)
  BY <1>2, Zenon DEF OthersKept, In
<1> QED
  BY <1>3, <1>4, Zenon DEF t

LEMMA ReselectKeeps ==
    ASSUME NEW r, Ranking(r), NEW s \in Announcements, NEW p \in Peer, NEW c \in State
    PROVE  LET t == ChangeAndReselect(s, r, p, c)
           IN  /\ OthersKept(s, t, p)
               /\ t[p].state = c /\ (c # "COMPLETED" => t[p].left = s[p].left)
<1> DEFINE t == ChangeAndReselect(s, r, p, c)
<1>1. \A q \in Peer :
        /\ t[q].state = IF q = p THEN c
                        ELSE IF IsSelected(s, p) /\ BestReady(s, r, q) THEN "BEST" ELSE s[q].state
        /\ t[q].left = IF q = p /\ c = "COMPLETED" THEN 0 ELSE s[q].left
  BY Reselected
<1> HIDE DEF t
<1>2. t[p].state = c /\ (c # "COMPLETED" => t[p].left = s[p].left)
  BY <1>1
<1>3. \A q \in Peer : BestReady(s, r, q) => In(s, q, {"READY", "BEST"})
  BY DEF BestReady, In
<1>4. OthersKept(s, t, p)
  BY <1>1, <1>3 DEF OthersKept, In
<1> QED
  BY <1>2, <1>4, Zenon DEF t

(* What the turn of p means for the rest: it is done, and the rest stays. *)
LEMMA TurnOf ==
    ASSUME NEW s \in Announcements, NEW t, NEW p \in Peer, OthersKept(s, t, p), p \notin Pending(t),
           \/ Candidate(s, p) /\ Candidate(t, p) /\ t[p].left = s[p].left
           \/ In(s, p, {"REQUESTED"}) /\ s[p].left <= 0 /\ In(t, p, {"COMPLETED"})
    PROVE  Follows(s, t) /\ Pending(t) \subseteq Pending(s) \ {p}
<1>1. ASSUME NEW q \in Peer \ {p}
      PROVE  \/ Kept(s, t, q)
             \/ Candidate(s, q) /\ Candidate(t, q) /\ t[q].left = s[q].left
  BY <1>1 DEF OthersKept, Kept, Candidate, In
<1>2. Follows(s, t)
  BY <1>1, Zenon DEF Follows
<1>3. ASSUME NEW q \in Pending(t) PROVE q \in Pending(s) \ {p}
  <2>1. q \in Peer \ {p}
    BY <1>3 DEF Pending, Passing, Early
  <2>2. t[q].left = s[q].left
    BY <2>1 DEF OthersKept
  <2>3. IsWaiting(t, q) <=> IsWaiting(s, q)
    BY <2>1 DEF OthersKept, IsWaiting, In
  <2>4. IsSelectable(t, q) <=> IsSelectable(s, q)
    BY <2>1 DEF OthersKept, IsSelectable, In
  <2> QED
    BY <1>3, <2>1, <2>2, <2>3, <2>4, Zenon DEF Pending, Passing, Early
<1> QED
  BY <1>2, <1>3

(* The first of those whose time has come, and the last of the early ones. *)
LEMMA FirstExists ==
    ASSUME NEW s \in Announcements, Passing(s) # {}
    PROVE  First(s) \in Passing(s)
<1> DEFINE T == Passing(s)
           v == [p \in T |-> s[p].left]
<1>1. IsFiniteSet(T)
  BY TxAssumption, FS_Subset, Zenon DEF Passing
<1>2. v \in [T -> Int] /\ \A p \in T : v[p] = s[p].left
  BY DEF Announcements, Announcement, Passing
<1>3. \E p \in T : \A q \in T : v[p] <= v[q]
  <2> HIDE DEF T, v
  <2> QED
    BY <1>1, <1>2, SmallestExists, Zenon DEF T
<1>4. \E p \in T : \A q \in T : s[p].left <= s[q].left
  BY <1>2, <1>3, Zenon
<1> QED
  BY <1>4, Zenon DEF First

LEMMA LatestExists ==
    ASSUME NEW s \in Announcements, Early(s) # {}
    PROVE  Latest(s) \in Early(s)
<1> DEFINE T == Early(s)
           v == [p \in T |-> 0 - s[p].left]
<1>1. IsFiniteSet(T)
  BY TxAssumption, FS_Subset, Zenon DEF Early
<1>2. v \in [T -> Int] /\ \A p \in T : v[p] = 0 - s[p].left /\ s[p].left \in Int
  BY DEF Announcements, Announcement, Early
<1>3. PICK p \in T : \A q \in T : v[p] <= v[q]
  <2> HIDE DEF T, v
  <2> QED
    BY <1>1, <1>2, SmallestExists, Zenon DEF T
<1>4. \A q \in T : s[p].left >= s[q].left
  <2> HIDE DEF T, v
  <2> QED
    BY <1>2, <1>3
<1> QED
  BY <1>3, <1>4, Zenon DEF Latest

(* A turn keeps what it should, and something less is left to do. *)
LEMMA TurnMoves ==
    ASSUME NEW r, Ranking(r), NEW s \in Good(r)
    PROVE  /\ Turn(s, r) \in Good(r) /\ Follows(s, Turn(s, r))
           /\ Pending(s) = {} => Turn(s, r) = s
           /\ Pending(s) # {} => \E p \in Pending(s) : Pending(Turn(s, r)) \subseteq Pending(s) \ {p}
<1> DEFINE t == Turn(s, r)
<1>1. s \in Announcements /\ Sane(s, r) /\ \A p \in Peer : s[p].left \in Int
  BY DEF Good, Announcements, Announcement
<1>2. ASSUME NEW p \in Peer, In(s, p, {"DELAYED"}), s[p].left <= 0, t = PromoteCandidateReady(s, r, p)
      PROVE  t \in Good(r) /\ Follows(s, t) /\ Pending(t) \subseteq Pending(s) \ {p}
  <2>1. t \in Good(r)
    BY <1>2, PromoteGood, Zenon
  <2>2. OthersKept(s, t, p) /\ In(t, p, {"READY", "BEST"}) /\ t[p].left = s[p].left
    BY <1>1, <1>2, PromoteKeeps
  <2>3. p \notin Pending(t)
    BY <1>1, <1>2, <2>2 DEF Pending, Passing, Early, IsWaiting, IsSelectable, In
  <2>4. Candidate(s, p) /\ Candidate(t, p)
    BY <1>2, <2>2, Zenon DEF Candidate, In
  <2> HIDE DEF t
  <2> QED
    BY <1>1, <2>1, <2>2, <2>3, <2>4, TurnOf, Zenon
<1>3. ASSUME NEW p \in Peer, In(s, p, {"REQUESTED"}), s[p].left <= 0, t = MakeCompleted(s, r, p)
      PROVE  t \in Good(r) /\ Follows(s, t) /\ Pending(t) \subseteq Pending(s) \ {p}
  <2>1. t \in Good(r)
    BY <1>3, MakeCompletedGood, Zenon
  <2>2. CASE IsOnlyNonCompleted(s, p)
    <3>1. t = Nothing
      BY <1>3, <2>2, Zenon DEF MakeCompleted, In
    <3>2. \A q \in Peer : t[q].state = "none"
      BY <3>1 DEF Nothing, None
    <3> HIDE DEF t
    <3>3. Follows(s, t)
      BY <3>2, Zenon DEF Follows, In
    <3>4. Pending(t) = {}
      BY <3>2, Zenon DEF Pending, Passing, Early, IsWaiting, IsSelectable, In
    <3> QED
      BY <2>1, <3>3, <3>4, Zenon
  <2>3. CASE ~IsOnlyNonCompleted(s, p)
    <3>1. t = ChangeAndReselect(s, r, p, "COMPLETED")
      BY <1>3, <2>3, Zenon DEF MakeCompleted, In
    <3>2. "COMPLETED" \in State
      BY DEF State
    <3> HIDE DEF t
    <3>3. OthersKept(s, t, p) /\ t[p].state = "COMPLETED"
      BY <1>1, <3>1, <3>2, ReselectKeeps
    <3>4. p \notin Pending(t) /\ In(t, p, {"COMPLETED"})
      BY <3>3, Zenon DEF Pending, Passing, Early, IsWaiting, IsSelectable, In
    <3> QED
      BY <1>1, <1>3, <2>1, <3>3, <3>4, TurnOf, Zenon
  <2> QED
    BY <2>2, <2>3
<1>4. ASSUME NEW p \in Early(s), t = ChangeAndReselect(s, r, p, "DELAYED")
      PROVE  t \in Good(r) /\ Follows(s, t) /\ Pending(t) \subseteq Pending(s) \ {p}
  <2>1. p \in Peer /\ IsSelectable(s, p) /\ s[p].left > 0 /\ "DELAYED" \in State
    BY DEF Early, State
  <2>2. t \in Good(r)
    BY <1>4, <2>1, ReselectGood, Zenon
  <2> HIDE DEF t
  <2>3. OthersKept(s, t, p) /\ t[p].state = "DELAYED" /\ t[p].left = s[p].left
    BY <1>1, <1>4, <2>1, ReselectKeeps
  <2>4. p \notin Pending(t)
    BY <1>1, <2>1, <2>3 DEF Pending, Passing, Early, IsWaiting, IsSelectable, In
  <2>5. Candidate(s, p) /\ Candidate(t, p)
    BY <2>1, <2>3, Zenon DEF Candidate, IsSelectable, In
  <2> QED
    BY <1>1, <2>1, <2>2, <2>3, <2>4, <2>5, TurnOf, Zenon
<1>5. CASE Passing(s) # {}
  <2>1. PICK p \in Passing(s) : t = Passed(s, r, p)
    BY <1>1, <1>5, FirstExists, Zenon DEF Turn
  <2>2. p \in Pending(s) /\ p \in Peer /\ s[p].left <= 0 /\ (In(s, p, {"DELAYED"}) \/ In(s, p, {"REQUESTED"}))
    BY <2>1, Zenon DEF Pending, Passing, IsWaiting, In
  <2>3. CASE In(s, p, {"DELAYED"})
    <3>1. t = PromoteCandidateReady(s, r, p)
      BY <2>1, <2>3, Zenon DEF Passed
    <3> QED
      BY <1>2, <2>2, <2>3, <3>1, Zenon
  <2>4. CASE In(s, p, {"REQUESTED"})
    <3>1. t = MakeCompleted(s, r, p)
      BY <2>1, <2>4, Zenon DEF Passed, In
    <3> QED
      BY <1>3, <2>2, <2>4, <3>1, Zenon
  <2> QED
    BY <2>2, <2>3, <2>4, Zenon
<1>6. CASE Passing(s) = {} /\ Early(s) # {}
  <2>1. PICK p \in Early(s) : t = ChangeAndReselect(s, r, p, "DELAYED")
    BY <1>1, <1>6, LatestExists, Zenon DEF Turn, Demoted
  <2>2. p \in Pending(s)
    BY <2>1, Zenon DEF Pending
  <2> QED
    BY <1>4, <2>1, <2>2, Zenon
<1>7. CASE Pending(s) = {}
  <2>1. t = s
    BY <1>7, Zenon DEF Turn, Pending
  <2>2. Follows(s, s)
    BY Zenon DEF Follows, Kept
  <2> QED
    BY <1>7, <2>1, <2>2, Zenon
<1> QED
  BY <1>5, <1>6, <1>7, Zenon DEF Pending

(* The sets of SetTimePoint after 0, 1, ... turns. *)
After(f, s, r, n) == IF n = 0 THEN {s} ELSE {Turn(x, r) : x \in f[n - 1]}
Approximates(f, s, r, n) == \A i \in 0..n : f[i] = After(f, s, r, i)

LEMMA ApproximationExists ==
    ASSUME NEW s, NEW r
    PROVE  \A n \in Nat : \E f : Approximates(f, s, r, n)
<1> DEFINE Bad == {n \in Nat : ~\E f : Approximates(f, s, r, n)}
<1> SUFFICES ASSUME Bad # {} PROVE FALSE
  BY Zenon
<1>1. PICK m \in Bad : \A n \in Bad : m <= n
  <2>1. Bad \subseteq Nat
    BY Zenon
  <2> HIDE DEF Bad
  <2> QED
    BY <2>1, Minimum, Zenon
<1>2. m # 0
  <2> DEFINE f == [i \in {0} |-> {s}]
  <2>1. \A i \in 0..0 : f[i] = After(f, s, r, i)
    BY DEF After
  <2> QED
    BY <1>1, <2>1, Zenon DEF Approximates
<1>3. m - 1 \in Nat /\ ~(m <= m - 1)
  BY <1>1, <1>2
<1>4. PICK f : Approximates(f, s, r, m - 1)
  BY <1>1, <1>3, Zenon
<1> DEFINE g == [i \in 0..m |-> IF i = m THEN After(f, s, r, m) ELSE f[i]]
<1>5. ASSUME NEW i \in 0..m PROVE g[i] = After(g, s, r, i)
  <2>1. i # 0 => i - 1 \in 0..(m - 1) /\ g[i - 1] = f[i - 1]
    BY <1>1
  <2>2. After(g, s, r, i) = After(f, s, r, i)
    <3> HIDE DEF g
    <3> QED
      BY <2>1, Zenon DEF After
  <2>3. CASE i = m
    BY <2>2, <2>3, Zenon
  <2>4. CASE i # m
    <3>1. i \in 0..(m - 1) /\ g[i] = f[i]
      BY <1>1, <2>4
    <3>2. f[i] = After(f, s, r, i)
      BY <1>4, <3>1, Zenon DEF Approximates
    <3> QED
      BY <2>2, <3>1, <3>2, Zenon
  <2> QED
    BY <2>3, <2>4
<1>6. Approximates(g, s, r, m)
  BY <1>5, Zenon DEF Approximates
<1> QED
  BY <1>1, <1>6, Zenon

LEMMA ApproximationsAgree ==
    ASSUME NEW s, NEW r, NEW m \in Nat, NEW n \in Nat, NEW f, NEW g,
           Approximates(f, s, r, m), Approximates(g, s, r, n)
    PROVE  \A i \in Nat : i <= m /\ i <= n => f[i] = g[i]
<1> DEFINE Bad == {i \in Nat : i <= m /\ i <= n /\ f[i] # g[i]}
<1> SUFFICES ASSUME Bad # {} PROVE FALSE
  BY Zenon
<1>1. PICK i \in Bad : \A j \in Bad : i <= j
  <2> HIDE DEF Bad
  <2>1. Bad \subseteq Nat
    BY DEF Bad
  <2> QED
    BY <2>1, Minimum, Zenon
<1>2. f[i] = After(f, s, r, i) /\ g[i] = After(g, s, r, i)
  BY <1>1 DEF Approximates
<1>3. CASE i = 0
  BY <1>1, <1>2, <1>3, Zenon DEF After
<1>4. CASE i # 0
  <2>1. i - 1 \in Nat /\ i - 1 <= m /\ i - 1 <= n /\ ~(i <= i - 1)
    BY <1>1, <1>4
  <2>2. f[i - 1] = g[i - 1]
    BY <1>1, <2>1, Zenon
  <2> QED
    BY <1>1, <1>2, <1>4, <2>2, Zenon DEF After
<1> QED
  BY <1>3, <1>4

(* The function that SetTimePoint defines exists. *)
LEMMA TurnsDefined ==
    ASSUME NEW s, NEW r
    PROVE  \E f : /\ f = [n \in Nat |-> IF n = 0 THEN {s} ELSE {Turn(x, r) : x \in f[n - 1]}]
                  /\ SetTimePoint(s, r) = CHOOSE x \in f[Cardinality(Peer)] : TRUE
<1> DEFINE g(n) == CHOOSE f : Approximates(f, s, r, n)
           F == [n \in Nat |-> g(n)[n]]
           G == CHOOSE f : f = [n \in Nat |-> IF n = 0 THEN {s} ELSE {Turn(x, r) : x \in f[n - 1]}]
<1>1. \A n \in Nat : Approximates(g(n), s, r, n)
  BY ApproximationExists, Zenon
<1>2. ASSUME NEW n \in Nat PROVE F[n] = IF n = 0 THEN {s} ELSE {Turn(x, r) : x \in F[n - 1]}
  <2>1. F[n] = g(n)[n]
    OBVIOUS
  <2>2. n \in 0..n
    OBVIOUS
  <2>3. g(n)[n] = After(g(n), s, r, n)
    BY <1>1, <2>2, Zenon DEF Approximates
  <2>4. CASE n = 0
    BY <2>1, <2>3, <2>4, Zenon DEF After
  <2>5. CASE n # 0
    <3>1. n - 1 \in Nat /\ n - 1 <= n /\ n - 1 <= n - 1
      BY <2>5
    <3>2. g(n)[n - 1] = g(n - 1)[n - 1]
      <4> DEFINE a == g(n)
                 b == g(n - 1)
      <4>1. Approximates(a, s, r, n) /\ Approximates(b, s, r, n - 1)
        BY <1>1, <3>1, Zenon
      <4> HIDE DEF a, b
      <4>2. \A i \in Nat : i <= n /\ i <= n - 1 => a[i] = b[i]
        BY <3>1, <4>1, ApproximationsAgree
      <4>3. a[n - 1] = b[n - 1]
        BY <3>1, <4>2, Zenon
      <4> QED
        BY <4>3, Zenon DEF a, b
    <3>3. F[n - 1] = g(n - 1)[n - 1]
      BY <3>1, Zenon
    <3> HIDE DEF F, g
    <3> QED
      BY <2>1, <2>3, <2>5, <3>2, <3>3, Zenon DEF After
  <2> QED
    BY <2>4, <2>5
<1>3. F = [n \in Nat |-> IF n = 0 THEN {s} ELSE {Turn(x, r) : x \in F[n - 1]}]
  <2>1. F = [n \in Nat |-> F[n]]
    OBVIOUS
  <2> HIDE DEF F
  <2> QED
    BY <1>2, <2>1, Zenon
<1>4. G = [n \in Nat |-> IF n = 0 THEN {s} ELSE {Turn(x, r) : x \in G[n - 1]}]
  <2> HIDE DEF F
  <2> QED
    BY <1>3, Zenon
<1>5. SetTimePoint(s, r) = CHOOSE x \in G[Cardinality(Peer)] : TRUE
  BY Zenon DEF SetTimePoint
<1> HIDE DEF G
<1> QED
  BY <1>4, <1>5, Zenon

(* SetTimePoint ends with nothing left to do. *)
LEMMA SetTimePointDone ==
    ASSUME NEW r, Ranking(r), NEW s \in Good(r)
    PROVE  LET x == SetTimePoint(s, r)
           IN  x \in Good(r) /\ Follows(s, x) /\ Pending(x) = {}
<1> DEFINE N == Cardinality(Peer)
<1>1. PICK f : /\ f = [n \in Nat |-> IF n = 0 THEN {s} ELSE {Turn(x, r) : x \in f[n - 1]}]
               /\ SetTimePoint(s, r) = CHOOSE x \in f[N] : TRUE
  BY TurnsDefined, Zenon
<1>2. f[0] = {s} /\ \A n \in Nat : n # 0 => f[n] = {Turn(x, r) : x \in f[n - 1]}
  BY <1>1
<1>3. N \in Nat /\ \A S \in SUBSET Peer : /\ IsFiniteSet(S) /\ Cardinality(S) \in Nat
                                         /\ Cardinality(S) <= N
  BY TxAssumption, FS_CardinalityType, FS_Subset, Zenon
<1>4. \A x : Pending(x) \in SUBSET Peer
  BY Zenon DEF Pending, Passing, Early
<1> DEFINE Done(x, n) == Pending(x) = {} \/ Cardinality(Pending(x)) + n <= N
           Right(n) == f[n] # {} /\ \A x \in f[n] : x \in Good(r) /\ Follows(s, x) /\ Done(x, n)
           Bad == {n \in Nat : ~Right(n)}
<1> HIDE DEF N
<1>5. Right(0)
  <2>1. Follows(s, s)
    BY Zenon DEF Follows, Kept
  <2>2. Done(s, 0)
    BY <1>3, <1>4
  <2> HIDE DEF Done
  <2> QED
    BY <1>2, <2>1, <2>2, Zenon
<1>6. ASSUME NEW n \in Nat, n # 0, Right(n - 1) PROVE Right(n)
  <2>1. ASSUME NEW x \in f[n - 1]
        PROVE  Turn(x, r) \in Good(r) /\ Follows(s, Turn(x, r)) /\ Done(Turn(x, r), n)
    <3> DEFINE y == Turn(x, r)
    <3>1. x \in Good(r) /\ Follows(s, x) /\ Done(x, n - 1)
      BY <1>6, Zenon
    <3>2. /\ y \in Good(r) /\ Follows(x, y)
          /\ Pending(x) = {} => y = x
          /\ Pending(x) # {} => \E p \in Pending(x) : Pending(y) \subseteq Pending(x) \ {p}
      BY <3>1, TurnMoves, Zenon
    <3> HIDE DEF y
    <3>3. Follows(s, y)
      BY <3>1, <3>2, FollowsTransitive, Zenon
    <3>4. CASE Pending(x) = {}
      <4>1. Pending(y) = {}
        BY <3>2, <3>4, Zenon
      <4> QED
        BY <3>2, <3>3, <4>1, Zenon DEF y
    <3>5. CASE Pending(x) # {}
      <4>1. PICK p \in Pending(x) : Pending(y) \subseteq Pending(x) \ {p}
        BY <3>2, <3>5, Zenon
      <4> DEFINE S == Pending(x) \ {p}
      <4>2. IsFiniteSet(Pending(x)) /\ Pending(x) \in SUBSET Peer /\ S \in SUBSET Peer
        BY <1>3, <1>4, Zenon
      <4>3. Cardinality(S) = Cardinality(Pending(x)) - 1
        BY <4>1, <4>2, FS_RemoveElement, Zenon
      <4>4. Cardinality(Pending(y)) <= Cardinality(S)
        BY <1>3, <4>1, <4>2, FS_Subset, Zenon
      <4>5. Cardinality(Pending(x)) + (n - 1) <= N
        BY <3>1, <3>5, Zenon
      <4>6. Cardinality(Pending(x)) \in Nat /\ Cardinality(Pending(y)) \in Nat
        BY <1>3, <1>4, Zenon
      <4> HIDE DEF S
      <4>7. Cardinality(Pending(y)) + n <= N
        BY <1>3, <4>3, <4>4, <4>5, <4>6
      <4> QED
        BY <3>2, <3>3, <4>7, Zenon DEF y
    <3> QED
      BY <3>4, <3>5
  <2>2. f[n] = {Turn(x, r) : x \in f[n - 1]} /\ f[n - 1] # {}
    BY <1>2, <1>6, Zenon
  <2> HIDE DEF Done
  <2> QED
    BY <2>1, <2>2, Zenon
<1>7. \A n \in Nat : Right(n)
  <2> SUFFICES ASSUME Bad # {} PROVE FALSE
    BY Zenon
  <2>1. PICK m \in Bad : \A n \in Bad : m <= n
    <3>1. Bad \subseteq Nat
      BY Zenon
    <3> HIDE DEF Bad
    <3> QED
      BY <3>1, Minimum, Zenon
  <2>2. m \in Nat /\ ~Right(m)
    BY <2>1, Zenon
  <2> HIDE DEF Right
  <2>3. m # 0
    BY <1>5, <2>2, Zenon
  <2>4. m - 1 \in Nat /\ ~(m <= m - 1)
    BY <2>2, <2>3
  <2>5. Right(m - 1)
    BY <2>1, <2>4, Zenon
  <2> QED
    BY <1>6, <2>2, <2>3, <2>5, Zenon
<1>8. PICK x \in f[N] : x = SetTimePoint(s, r)
  BY <1>1, <1>3, <1>7, Zenon
<1>9. x \in Good(r) /\ Follows(s, x) /\ Done(x, N)
  BY <1>3, <1>7, <1>8, Zenon
<1>10. Pending(x) = {}
  <2>1. Cardinality(Pending(x)) \in Nat /\ IsFiniteSet(Pending(x))
    BY <1>3, <1>4, Zenon
  <2>2. Cardinality(Pending(x)) + N <= N => Cardinality(Pending(x)) = 0
    BY <1>3, <2>1
  <2>3. Cardinality(Pending(x)) = 0 => Pending(x) = {}
    BY <2>1, FS_EmptySet, Zenon
  <2> QED
    BY <1>9, <2>2, <2>3, Zenon
<1> QED
  BY <1>8, <1>9, <1>10, Zenon

(* The rule of txrequest.h, with nothing left for SetTimePoint to do. *)
LEMMA SettledSelection ==
    ASSUME NEW r, Ranking(r), NEW s \in Good(r), Passing(s) = {}, Early(s) = {}, NEW p \in Peer,
           In(s, p, {"DELAYED", "READY", "BEST"}), s[p].left <= 0
    PROVE  \E b \in Peer :
              \/ In(s, b, {"REQUESTED"}) /\ s[b].left > 0
              \/ /\ In(s, b, {"BEST"}) /\ s[b].left <= 0 /\ r[b] >= r[p]
                 /\ \A q \in Peer : ~In(s, q, {"REQUESTED"})
<1>1. s \in Announcements /\ Sane(s, r)
  BY Zenon DEF Good
<1>2. \A q \in Peer : s[q].left \in Int
  BY <1>1, Zenon DEF Announcements, Announcement
<1>3. In(s, p, {"READY"}) \/ In(s, p, {"BEST"})
  BY Zenon DEF Passing, IsWaiting, In
<1>4. PICK b \in Peer : IsSelected(s, b)
  BY <1>1, <1>3, Zenon DEF Sane, IsSelected, In
<1>5. CASE In(s, b, {"REQUESTED"})
  <2>1. s[b].left > 0
    BY <1>2, <1>5 DEF Passing, IsWaiting, In
  <2> QED
    BY <1>5, <2>1, Zenon
<1>6. CASE In(s, b, {"BEST"})
  <2>1. s[b].left <= 0
    BY <1>2, <1>6 DEF Early, IsSelectable, In
  <2>2. \A q \in Peer : IsSelected(s, q) => q = b
    BY <1>1, <1>4, Zenon DEF Sane
  <2>3. \A q \in Peer : ~In(s, q, {"REQUESTED"})
    BY <1>6, <2>2, Zenon DEF IsSelected, In
  <2>4. r[b] >= r[p]
    <3>1. CASE In(s, p, {"READY"})
      BY <1>1, <1>6, <3>1, Zenon DEF Sane
    <3>2. CASE In(s, p, {"BEST"})
      <4>1. p = b
        BY <2>2, <3>2 DEF IsSelected, In
      <4> QED
        BY <4>1 DEF Ranking
    <3> QED
      BY <1>3, <3>1, <3>2, Zenon
  <2> QED
    BY <1>6, <2>1, <2>3, <2>4, Zenon
<1> QED
  BY <1>4, <1>5, <1>6, Zenon DEF IsSelected, In

(* After SetTimePoint the candidate that GetRequestable returns is due, no *)
(* request is outstanding and no due candidate is better; and if a         *)
(* candidate is due, one is chosen or a request is outstanding.            *)
THEOREM SelectionFollowsRule ==
    ASSUME NEW r, Ranking(r), NEW s \in Good(r), NEW p \in Peer,
           In(SetTimePoint(s, r), p, {"DELAYED", "READY", "BEST"}), SetTimePoint(s, r)[p].left <= 0
    PROVE  LET x == SetTimePoint(s, r)
           IN  \E b \in Peer :
                  \/ In(x, b, {"REQUESTED"}) /\ x[b].left > 0
                  \/ /\ In(x, b, {"BEST"}) /\ x[b].left <= 0 /\ r[b] >= r[p]
                     /\ \A q \in Peer : ~In(x, q, {"REQUESTED"})
<1> DEFINE x == SetTimePoint(s, r)
<1>1. x \in Good(r) /\ Passing(x) = {} /\ Early(x) = {}
  BY SetTimePointDone, Zenon DEF Pending
<1>2. In(x, p, {"DELAYED", "READY", "BEST"}) /\ x[p].left <= 0
  BY Zenon
<1> HIDE DEF x
<1>3. \E b \in Peer :
         \/ In(x, b, {"REQUESTED"}) /\ x[b].left > 0
         \/ /\ In(x, b, {"BEST"}) /\ x[b].left <= 0 /\ r[b] >= r[p]
            /\ \A q \in Peer : ~In(x, q, {"REQUESTED"})
  BY <1>1, <1>2, SettledSelection, Zenon
<1> QED
  BY <1>3, Zenon DEF x

-----------------------------------------------------------------------------
(* What a step does to the announcements of a hash, when the peers in C    *)
(* are connected after it.                                                 *)

Operation(s, x, r, C) ==
    \/ x = s
    \/ x = Nothing
    \/ \E p \in C \cap Peer, d \in Int : x = ReceivedInv(s, p, d)
    \/ \E p \in Peer : x = ReceivedResponse(s, r, p)
    \/ \E p \in Peer : x = DisconnectedPeer(s, r, p)
    \/ \E d \in Int, floor \in Int : x = Shifted(s, d, floor)
    \/ x = SetTimePoint(s, r)
    \/ \E p \in Peer : /\ In(SetTimePoint(s, r), p, {"BEST"})
                       /\ x = RequestedTx(SetTimePoint(s, r), p, Interval)

Tracked == ann \in [Tx -> Announcements] /\ backs \in Nat /\ connected \subseteq Peer

OperationsDone == \A t \in Tx : Operation(ann[t], ann'[t], Rank[t], connected')

LEMMA WaitIsTime ==
    ASSUME NEW a, NEW p, NEW T, NEW delay \in Nat
    PROVE  \E d \in Int : AddTxAnnouncement(a, p, T, delay) =
                            [t \in Tx |-> IF t \in T THEN ReceivedInv(a[t], p, d) ELSE a[t]]
<1> DEFINE d == delay + (IF p \in Preferred THEN 0 ELSE NonPrefDelay)
                      + (IF CountInFlight(a, p) >= MaxInFlight THEN OverloadedDelay ELSE 0)
<1>1. d \in Int
  BY TxAssumption
<1>2. AddTxAnnouncement(a, p, T, delay) = [t \in Tx |-> IF t \in T THEN ReceivedInv(a[t], p, d) ELSE a[t]]
  BY Zenon DEF AddTxAnnouncement
<1> HIDE DEF d
<1> QED
  BY <1>1, <1>2, Zenon

LEMMA InvOperates ==
    ASSUME Tracked, NEW p \in Peer, NEW t \in Tx, Inv(p, t) \/ NotFound(p, t)
    PROVE  ann' = [x \in Tx |-> ann'[x]] /\ OperationsDone
<1>1. CASE Inv(p, t)
  <2>1. p \in connected /\ connected' = connected /\ ann' = AddTxAnnouncement(ann, p, {t}, 0)
    BY <1>1, Zenon DEF Inv
  <2>2. PICK d \in Int : ann' = [x \in Tx |-> IF x \in {t} THEN ReceivedInv(ann[x], p, d) ELSE ann[x]]
    BY <2>1, WaitIsTime
  <2>3. \A x \in Tx : ann'[x] = ann[x] \/ ann'[x] = ReceivedInv(ann[x], p, d)
    BY <2>2, Zenon
  <2> QED
    BY <2>1, <2>2, <2>3, Zenon DEF OperationsDone, Operation
<1>2. CASE NotFound(p, t)
  <2>1. ann' = [ann EXCEPT ![t] = ReceivedResponse(@, Rank[t], p)] /\ ann \in [Tx -> Announcements]
    BY <1>2, Zenon DEF NotFound, Tracked
  <2>2. \A x \in Tx : ann'[x] = ann[x] \/ ann'[x] = ReceivedResponse(ann[x], Rank[x], p)
    BY <2>1, Zenon
  <2> QED
    BY <2>1, <2>2, Zenon DEF OperationsDone, Operation
<1> QED
  BY <1>1, <1>2

LEMMA ReceiveTxOperates ==
    ASSUME Tracked, NEW p \in Peer, NEW t \in Tx, ReceiveTx(p, t)
    PROVE  ann' = [x \in Tx |-> ann'[x]] /\ OperationsDone
<1> DEFINE a == [ann EXCEPT ![t] = ReceivedResponse(@, Rank[t], p)]
<1>1. /\ IF AlreadyHaveTx(t) THEN ann' = a ELSE TxAccepted(a, t) \/ TxOrphaned(a, p, t) \/ TxRejected(a, t)
      /\ p \in connected /\ connected' = connected
  BY Zenon DEF ReceiveTx
<1>2. /\ a = [x \in Tx |-> a[x]] /\ a[t] = ReceivedResponse(ann[t], Rank[t], p)
      /\ \A x \in Tx \ {t} : a[x] = ann[x]
  BY Zenon DEF Tracked
<1> HIDE DEF a
<1>3. CASE ann' = a
  <2>1. \A x \in Tx : ann'[x] = ann[x] \/ ann'[x] = ReceivedResponse(ann[x], Rank[x], p)
    BY <1>2, <1>3, Zenon
  <2> QED
    BY <1>2, <1>3, <2>1, Zenon DEF OperationsDone, Operation
<1>4. CASE ann' = Forgetting(a, t)
  <2>1. ann' = [a EXCEPT ![t] = Nothing]
    BY <1>4, Zenon DEF Forgetting, ForgetTxHash
  <2>2. ann' = [x \in Tx |-> ann'[x]] /\ \A x \in Tx : ann'[x] = ann[x] \/ ann'[x] = Nothing
    BY <1>2, <2>1, Zenon
  <2> QED
    BY <2>2, Zenon DEF OperationsDone, Operation
<1>5. CASE TxOrphaned(a, p, t)
  <2>1. PICK T : ann' = Forgetting(AddTxAnnouncement(a, p, T, TxidDelay), t)
    BY <1>5, Zenon DEF TxOrphaned
  <2>2. TxidDelay \in Nat
    BY TxAssumption
  <2>3. PICK d \in Int : AddTxAnnouncement(a, p, T, TxidDelay) =
                           [x \in Tx |-> IF x \in T THEN ReceivedInv(a[x], p, d) ELSE a[x]]
    BY <2>2, WaitIsTime
  <2> DEFINE b == [x \in Tx |-> IF x \in T THEN ReceivedInv(a[x], p, d) ELSE a[x]]
  <2>4. ann' = [b EXCEPT ![t] = Nothing]
    BY <2>1, <2>3, Zenon DEF Forgetting, ForgetTxHash
  <2>5. b = [x \in Tx |-> b[x]] /\ \A x \in Tx : b[x] = a[x] \/ b[x] = ReceivedInv(a[x], p, d)
    BY Zenon
  <2> HIDE DEF b
  <2>6. /\ ann' = [x \in Tx |-> ann'[x]]
        /\ \A x \in Tx : ann'[x] = Nothing \/ ann'[x] = ann[x] \/ ann'[x] = ReceivedInv(ann[x], p, d)
    BY <1>2, <2>4, <2>5, Zenon
  <2> QED
    BY <1>1, <2>6, Zenon DEF OperationsDone, Operation
<1> QED
  BY <1>1, <1>3, <1>4, <1>5, Zenon DEF TxAccepted, TxRejected

LEMMA SendMessagesOperates ==
    ASSUME Tracked, NEW p \in Peer, SendMessages(p)
    PROVE  ann' = [x \in Tx |-> ann'[x]] /\ OperationsDone
<1> DEFINE set == [t \in Tx |-> SetTimePoint(ann[t], Rank[t])]
           requestable == {t \in Tx : In(set[t], p, {"BEST"})}
<1>1. ann' = [t \in Tx |-> IF t \notin requestable THEN set[t]
                           ELSE IF AlreadyHaveTx(t) THEN ForgetTxHash(set[t])
                           ELSE RequestedTx(set[t], p, Interval)]
  BY Zenon DEF SendMessages
<1>2. ASSUME NEW t \in Tx PROVE Operation(ann[t], ann'[t], Rank[t], connected')
  <2>1. set[t] = SetTimePoint(ann[t], Rank[t])
    BY Zenon
  <2>2. t \in requestable => In(set[t], p, {"BEST"})
    BY Zenon
  <2>3. ann'[t] = IF t \notin requestable THEN set[t]
                  ELSE IF AlreadyHaveTx(t) THEN ForgetTxHash(set[t])
                  ELSE RequestedTx(set[t], p, Interval)
    BY <1>1, Zenon
  <2> HIDE DEF set, requestable
  <2> QED
    BY <2>1, <2>2, <2>3, Zenon DEF ForgetTxHash, Operation
<1> QED
  BY <1>1, <1>2, Zenon DEF OperationsDone

LEMMA ClockOperates ==
    ASSUME Tracked, NEW d \in {1, -1}, Clock(d)
    PROVE  ann' = [x \in Tx |-> ann'[x]] /\ OperationsDone /\ backs' \in Nat
<1>1. backs' \in Nat /\ backs - MaxBacks \in Int /\ d \in Int
  BY TxAssumption DEF Clock, Tracked
<1>2. ann' = [t \in Tx |-> Shifted(ann[t], d, backs - MaxBacks)]
  BY Zenon DEF Clock
<1>3. \A t \in Tx : \E floor \in Int : ann'[t] = Shifted(ann[t], d, floor)
  BY <1>1, <1>2, Zenon
<1>4. OperationsDone
  BY <1>1, <1>3, Zenon DEF OperationsDone, Operation
<1> QED
  BY <1>1, <1>2, <1>4, Zenon

LEMMA StepOperates ==
    ASSUME Tracked, [Next]_vars
    PROVE  ann' = [x \in Tx |-> ann'[x]] /\ OperationsDone /\ backs' \in Nat /\ connected' \subseteq Peer
<1>1. ASSUME ann' = ann PROVE ann' = [x \in Tx |-> ann'[x]] /\ OperationsDone
  BY <1>1, Zenon DEF OperationsDone, Operation, Tracked
<1>2. ASSUME NEW p \in Peer, FinalizeNode(p)
      PROVE  ann' = [x \in Tx |-> ann'[x]] /\ OperationsDone /\ backs' \in Nat /\ connected' \subseteq Peer
  <2>1. /\ ann' = [t \in Tx |-> DisconnectedPeer(ann[t], Rank[t], p)]
        /\ backs' = backs /\ connected' \subseteq connected
    BY <1>2, Zenon DEF FinalizeNode
  <2>2. OperationsDone
    BY <2>1, Zenon DEF OperationsDone, Operation
  <2> QED
    BY <2>1, <2>2, Zenon DEF Tracked
<1>3. ASSUME NEW B, BlockConnected(B)
      PROVE  ann' = [x \in Tx |-> ann'[x]] /\ OperationsDone /\ backs' \in Nat /\ connected' \subseteq Peer
  <2>1. /\ ann' = [t \in Tx |-> IF t \in B THEN ForgetTxHash(ann[t]) ELSE ann[t]]
        /\ backs' = backs /\ connected' = connected
    BY <1>3, Zenon DEF BlockConnected
  <2>2. OperationsDone
    BY <2>1, Zenon DEF OperationsDone, Operation, ForgetTxHash
  <2> QED
    BY <2>1, <2>2, Zenon DEF Tracked
<1>4. ASSUME NEW d \in {1, -1}, Clock(d)
      PROVE  ann' = [x \in Tx |-> ann'[x]] /\ OperationsDone /\ backs' \in Nat /\ connected' \subseteq Peer
  <2>1. connected' = connected
    BY <1>4, Zenon DEF Clock
  <2> QED
    BY <1>4, <2>1, ClockOperates, Zenon DEF Tracked
<1>5. ASSUME NEW p \in Peer, NEW t \in Tx, Inv(p, t) \/ ReceiveTx(p, t) \/ NotFound(p, t)
      PROVE  ann' = [x \in Tx |-> ann'[x]] /\ OperationsDone /\ backs' \in Nat /\ connected' \subseteq Peer
  <2>1. connected' = connected /\ backs' = backs
    BY <1>5, Zenon DEF Inv, ReceiveTx, NotFound
  <2> QED
    BY <1>5, <2>1, InvOperates, ReceiveTxOperates, Zenon DEF Tracked
<1>6. ASSUME NEW p \in Peer, SendMessages(p)
      PROVE  ann' = [x \in Tx |-> ann'[x]] /\ OperationsDone /\ backs' \in Nat /\ connected' \subseteq Peer
  <2>1. connected' = connected /\ backs' = backs
    BY <1>6, Zenon DEF SendMessages
  <2> QED
    BY <1>6, <2>1, SendMessagesOperates, Zenon DEF Tracked
<1>7. ASSUME NEW p, NEW B, NEW t, ProcessOrphanTx(p) \/ ConnectTip(B) \/ Submit(t) \/ UNCHANGED vars
      PROVE  ann' = [x \in Tx |-> ann'[x]] /\ OperationsDone /\ backs' \in Nat /\ connected' \subseteq Peer
  <2>1. ann' = ann /\ connected' = connected /\ backs' = backs
    BY <1>7, Zenon DEF ProcessOrphanTx, ConnectTip, Submit, vars
  <2> QED
    BY <1>1, <2>1, Zenon DEF Tracked
<1> QED
  BY <1>2, <1>3, <1>4, <1>5, <1>6, <1>7, Zenon DEF Next

(* MakeCompleted, peer by peer. *)
LEMMA MakeCompletedMoves ==
    ASSUME NEW r, Ranking(r), NEW s \in Good(r), NEW p \in Peer
    PROVE  LET x == MakeCompleted(s, r, p)
           IN  \/ In(s, p, {"COMPLETED"}) /\ x = s
               \/ x = Nothing
               \/ /\ OthersKept(s, x, p) /\ x[p].state = "COMPLETED"
                  /\ \E q \in Peer \ {p} : ~In(s, q, {"none", "COMPLETED"})
<1>1. CASE ~In(s, p, {"COMPLETED"}) /\ ~IsOnlyNonCompleted(s, p)
  <2>1. MakeCompleted(s, r, p) = ChangeAndReselect(s, r, p, "COMPLETED")
    BY <1>1, Zenon DEF MakeCompleted
  <2>2. \E q \in Peer \ {p} : ~In(s, q, {"none", "COMPLETED"})
    BY <1>1, Zenon DEF IsOnlyNonCompleted
  <2>3. s \in Announcements /\ "COMPLETED" \in State
    BY Zenon DEF Good, State
  <2> DEFINE t == ChangeAndReselect(s, r, p, "COMPLETED")
  <2>4. OthersKept(s, t, p) /\ t[p].state = "COMPLETED"
    BY <2>3, ReselectKeeps
  <2> QED
    BY <2>1, <2>2, <2>4, Zenon
<1>2. CASE In(s, p, {"COMPLETED"}) \/ IsOnlyNonCompleted(s, p)
  BY <1>2, Zenon DEF MakeCompleted
<1> QED
  BY <1>1, <1>2

LEMMA OperationGood ==
    ASSUME NEW r, Ranking(r), NEW s \in Good(r), NEW x, NEW C, Operation(s, x, r, C)
    PROVE  x \in Good(r)
<1>1. Interval \in Int
  BY TxAssumption
<1>2. \A p \in Peer : ReceivedResponse(s, r, p) \in Good(r)
  BY MakeCompletedGood, Zenon DEF ReceivedResponse
<1>3. SetTimePoint(s, r) \in Good(r)
  BY SetTimePointDone, Zenon
<1>4. \A p \in Peer : RequestedTx(SetTimePoint(s, r), p, Interval) \in Good(r)
  BY <1>1, <1>3, RequestedGood
<1>5. \A p \in Peer, d \in Int : ReceivedInv(s, p, d) \in Good(r)
  BY ReceivedInvGood
<1>6. \A d \in Int, floor \in Int : Shifted(s, d, floor) \in Good(r)
  BY ShiftedGood
<1> QED
  BY <1>2, <1>3, <1>4, <1>5, <1>6, NothingGood, DisconnectedGood, Zenon DEF Operation

(* TrackerInv: the announcements are as SanityCheck wants them. *)
TrackerInv == Tracked /\ SanityCheck

LEMMA RankIsRanking == \A t \in Tx : Ranking(Rank[t])
BY RankAssumption, Zenon DEF Ranking

LEMMA TrackerInvStep ==
    ASSUME TrackerInv, [Next]_vars
    PROVE  TrackerInv' /\ OperationsDone
<1>1. ann' = [x \in Tx |-> ann'[x]] /\ OperationsDone /\ backs' \in Nat /\ connected' \subseteq Peer
  BY StepOperates DEF TrackerInv
<1>2. ASSUME NEW t \in Tx PROVE ann'[t] \in Announcements /\ Sane(ann'[t], Rank[t])
  <2>1. ann[t] \in Good(Rank[t])
    BY DEF TrackerInv, Tracked, SanityCheck, Good
  <2>2. Operation(ann[t], ann'[t], Rank[t], connected') /\ Ranking(Rank[t])
    BY <1>1, RankIsRanking, Zenon DEF OperationsDone
  <2>3. ann'[t] \in Good(Rank[t])
    BY <2>1, <2>2, OperationGood, Zenon
  <2> QED
    BY <2>3, Zenon DEF Good
<1>3. ann' \in [Tx -> Announcements]
  <2>1. \A t \in Tx : ann'[t] \in Announcements
    BY <1>2, Zenon
  <2>2. [x \in Tx |-> ann'[x]] \in [Tx -> Announcements]
    BY <2>1, Zenon
  <2> QED
    BY <1>1, <2>2, Zenon
<1>4. SanityCheck'
  BY <1>2, Zenon DEF SanityCheck
<1> QED
  BY <1>1, <1>3, <1>4, Zenon DEF TrackerInv, Tracked

LEMMA TrackerInvInit == Init => TrackerInv
<1> SUFFICES ASSUME Init PROVE TrackerInv
  OBVIOUS
<1>1. \A r : Nothing \in Announcements /\ Sane(Nothing, r)
  BY NothingGood, Zenon DEF Good
<1>2. ann = [t \in Tx |-> Nothing] /\ backs = 0 /\ connected = Peer
  BY DEF Init
<1>3. ann \in [Tx -> Announcements] /\ \A t \in Tx : ann[t] = Nothing
  BY <1>1, <1>2, Zenon
<1>4. SanityCheck
  BY <1>1, <1>3, Zenon DEF SanityCheck
<1> QED
  BY <1>2, <1>3, <1>4 DEF TrackerInv, Tracked

(* TxRequestTracker::SanityCheck succeeds after every operation, in        *)
(* whatever order peers announce, answer, time out and leave and however   *)
(* the clock moves.                                                        *)
THEOREM TrackerSane == SafetySpec => []SanityCheck
<1>1. TrackerInv /\ [Next]_vars => TrackerInv'
  BY TrackerInvStep, Zenon
<1>2. TrackerInv => SanityCheck
  BY Zenon DEF TrackerInv
<1> QED
  BY <1>1, <1>2, TrackerInvInit, PTL DEF SafetySpec

-----------------------------------------------------------------------------
(* Peers that are gone. *)

(* No operation adds an announcement of a peer that is not connected. *)
LEMMA OperationAddsNone ==
    ASSUME NEW r, Ranking(r), NEW s \in Good(r), NEW x, NEW C, Operation(s, x, r, C),
           NEW q \in Peer \ C, In(s, q, {"none"})
    PROVE  In(x, q, {"none"})
<1>1. s \in Announcements /\ s[q].state = "none"
  BY Zenon DEF Good, In
<1>2. In(Nothing, q, {"none"})
  BY DEF Nothing, None, In
<1>3. ASSUME NEW p \in C \cap Peer, NEW d \in Int PROVE In(ReceivedInv(s, p, d), q, {"none"})
  BY <1>1 DEF ReceivedInv, In, Announcements
<1>4. ASSUME NEW p \in Peer, p # q PROVE In(MakeCompleted(s, r, p), q, {"none"})
  <2>1. CASE OthersKept(s, MakeCompleted(s, r, p), p)
    BY <1>1, <1>4, <2>1, Zenon DEF OthersKept, In
  <2> QED
    BY <1>1, <1>2, <2>1, MakeCompletedMoves, Zenon DEF In
<1>5. ASSUME NEW p \in Peer PROVE In(ReceivedResponse(s, r, p), q, {"none"})
  BY <1>1, <1>4, Zenon DEF ReceivedResponse, In
<1>6. ASSUME NEW p \in Peer PROVE In(DisconnectedPeer(s, r, p), q, {"none"})
  <2>1. CASE p = q
    BY <1>1, <2>1, Zenon DEF DisconnectedPeer, In
  <2>2. CASE p # q
    <3> DEFINE m == MakeCompleted(s, r, p)
    <3>1. m \in Announcements /\ In(m, q, {"none"})
      BY <1>4, <2>2, MakeCompletedGood, Zenon DEF Good
    <3>2. DisconnectedPeer(s, r, p) = s \/ DisconnectedPeer(s, r, p) = [m EXCEPT ![p] = None]
      BY Zenon DEF DisconnectedPeer
    <3> HIDE DEF m
    <3>3. [m EXCEPT ![p] = None][q] = m[q]
      BY <2>2, <3>1, Zenon DEF Announcements
    <3> QED
      BY <1>1, <3>1, <3>2, <3>3, Zenon DEF In
  <2> QED
    BY <2>1, <2>2
<1>7. ASSUME NEW d \in Int, NEW floor \in Int PROVE In(Shifted(s, d, floor), q, {"none"})
  BY <1>1, Zenon DEF Shifted, In
<1> DEFINE y == SetTimePoint(s, r)
<1>8. y \in Good(r) /\ Follows(s, y)
  BY SetTimePointDone, Zenon
<1> HIDE DEF y
<1>9. In(y, q, {"none"})
  BY <1>1, <1>8, Zenon DEF Follows, Kept, Candidate, In
<1>10. ASSUME NEW p \in Peer, In(y, p, {"BEST"}) PROVE In(RequestedTx(y, p, Interval), q, {"none"})
  <2>1. p # q /\ y \in Announcements
    BY <1>8, <1>9, <1>10, Zenon DEF In, Good
  <2>2. RequestedTx(y, p, Interval) = [y EXCEPT ![p] = [state |-> "REQUESTED", left |-> Interval]]
    BY <1>10, Zenon DEF RequestedTx, In
  <2>3. RequestedTx(y, p, Interval)[q] = y[q]
    BY <2>1, <2>2, Zenon DEF Announcements
  <2> QED
    BY <1>9, <2>3, Zenon DEF In
<1> QED
  BY <1>2, <1>3, <1>5, <1>6, <1>7, <1>9, <1>10, Zenon DEF Operation, y

(* The tracker and the orphanage. *)
NoneTracked == \A p \in Peer \ connected : \A t \in Tx : In(ann[t], p, {"none"})
NoneKept == \A p \in Peer \ connected : workset[p] = {} /\ \A t \in orphans : from[t] # p
GoneInv == TrackerInv /\ OrphanInv /\ NoneTracked /\ NoneKept

LEMMA DisconnectedGone ==
    ASSUME NEW r, Ranking(r), NEW s \in Good(r), NEW p \in Peer
    PROVE  In(DisconnectedPeer(s, r, p), p, {"none"})
<1>1. CASE In(s, p, {"none"})
  BY <1>1, Zenon DEF DisconnectedPeer
<1>2. CASE ~In(s, p, {"none"})
  <2> DEFINE m == MakeCompleted(s, r, p)
  <2>1. m \in Announcements
    BY MakeCompletedGood, Zenon DEF Good
  <2>2. DisconnectedPeer(s, r, p) = [m EXCEPT ![p] = None]
    BY <1>2, Zenon DEF DisconnectedPeer
  <2> HIDE DEF m
  <2>3. [m EXCEPT ![p] = None][p] = None
    BY <2>1, Zenon DEF Announcements
  <2>4. None.state = "none"
    BY DEF None
  <2> QED
    BY <2>2, <2>3, <2>4, Zenon DEF In
<1> QED
  BY <1>1, <1>2

LEMMA NoneTrackedStep ==
    ASSUME GoneInv, [Next]_vars
    PROVE  NoneTracked'
<1>1. \A t \in Tx : Ranking(Rank[t]) /\ ann[t] \in Good(Rank[t])
  BY RankIsRanking DEF GoneInv, TrackerInv, Tracked, SanityCheck, Good
<1>2. ASSUME NEW p \in Peer \ connected, p \notin connected', NEW t \in Tx PROVE In(ann'[t], p, {"none"})
  <2>1. In(ann[t], p, {"none"})
    BY DEF GoneInv, NoneTracked
  <2>2. Operation(ann[t], ann'[t], Rank[t], connected')
    BY TrackerInvStep DEF GoneInv, OperationsDone
  <2> QED
    BY <1>1, <1>2, <2>1, <2>2, OperationAddsNone
<1>3. ASSUME NEW p \in Peer, FinalizeNode(p), NEW t \in Tx PROVE In(ann'[t], p, {"none"})
  <2>1. ann'[t] = DisconnectedPeer(ann[t], Rank[t], p)
    BY <1>3, Zenon DEF FinalizeNode
  <2> QED
    BY <1>1, <2>1, DisconnectedGone, Zenon
<1>4. \A p \in connected \ connected' : p \in Peer /\ FinalizeNode(p)
  <2>1. connected \subseteq Peer
    BY DEF GoneInv, TrackerInv, Tracked
  <2>2. ASSUME NEW p, NEW t, NEW d, NEW B,
               \/ Inv(p, t) \/ ReceiveTx(p, t) \/ NotFound(p, t)
               \/ ProcessOrphanTx(p) \/ SendMessages(p) \/ Clock(d) \/ ConnectTip(B) \/ BlockConnected(B)
               \/ Submit(t) \/ UNCHANGED vars
        PROVE  connected' = connected
    BY <2>2, Zenon DEF Inv, ReceiveTx, NotFound, ProcessOrphanTx, SendMessages, Clock, ConnectTip,
                       BlockConnected, Submit, vars
  <2>3. ASSUME NEW p \in Peer, FinalizeNode(p) PROVE connected' = connected \ {p}
    BY <2>3, Zenon DEF FinalizeNode
  <2>4. connected' = connected \/ \E p \in Peer : FinalizeNode(p)
    BY <2>2, Zenon DEF Next
  <2> QED
    BY <2>1, <2>3, <2>4, Zenon
<1> QED
  BY <1>2, <1>3, <1>4, Zenon DEF NoneTracked

(* Whatever leaves the orphanage alone. *)
LEMMA NoneKeptOthers ==
    ASSUME NoneKept, UNCHANGED <<connected, orphans, from, workset>>
    PROVE  NoneKept'
BY DEF NoneKept

LEMMA NoneKeptStep ==
    ASSUME GoneInv, [Next]_vars
    PROVE  NoneKept'
<1>1. /\ workset \in [Peer -> SUBSET Tx]
      /\ \A p \in Peer \ connected : workset[p] = {}
      /\ \A c \in orphans : c \in Tx /\ from[c] \in connected
  BY DEF GoneInv, NoneKept, OrphanInv, OrphansOK
<1>2. ASSUME NEW t, NEW ws \in [Peer -> SUBSET Tx], NEW p \in Peer \ connected, ws[p] = {}
      PROVE  WithChildren(ws, t)[p] = {}
  <2>1. WithChildren(ws, t)[p] = ws[p] \cup {c \in orphans : t \in Parents[c] /\ from[c] = p}
    BY Zenon DEF WithChildren
  <2> QED
    BY <1>1, <1>2, <2>1
<1>3. ASSUME NEW p \in Peer, NEW t \in Tx, ReceiveTx(p, t) PROVE NoneKept'
  <2>1. PICK a : IF AlreadyHaveTx(t)
                 THEN ann' = a /\ UNCHANGED <<mempool, rejects, orphans, from, workset>>
                 ELSE TxAccepted(a, t) \/ TxOrphaned(a, p, t) \/ TxRejected(a, t)
    BY <1>3, Zenon DEF ReceiveTx
  <2>2. p \in connected /\ connected' = connected
    BY <1>3, Zenon DEF ReceiveTx
  <2>3. CASE TxAccepted(a, t)
    <3>1. workset' = WithChildren(workset, t) /\ UNCHANGED <<orphans, from>>
      BY <2>3, Zenon DEF TxAccepted
    <3> QED
      BY <1>1, <1>2, <2>2, <3>1 DEF NoneKept
  <2>4. CASE TxOrphaned(a, p, t)
    <3>1. LimitOrphans(t, p) /\ UNCHANGED workset
      BY <2>4, Zenon DEF TxOrphaned
    <3>2. PICK kept \in SUBSET AddTx(t) :
            /\ orphans' = kept
            /\ from' = [x \in Tx |-> IF x \notin kept THEN NoPeer ELSE IF x = t THEN p ELSE from[x]]
      BY <3>1, Zenon DEF LimitOrphans
    <3>3. kept \subseteq orphans \cup {t}
      BY <3>2 DEF AddTx
    <3>4. \A x \in kept : from'[x] = (IF x = t THEN p ELSE from[x])
      BY <1>1, <3>2, <3>3
    <3>5. \A x \in orphans' : from'[x] \in connected
      BY <1>1, <2>2, <3>2, <3>3, <3>4
    <3> QED
      BY <1>1, <2>2, <3>1, <3>5 DEF NoneKept
  <2>5. CASE UNCHANGED <<orphans, from, workset>>
    BY <2>2, <2>5, NoneKeptOthers DEF GoneInv
  <2> QED
    BY <2>1, <2>3, <2>4, <2>5 DEF TxRejected
<1>4. ASSUME NEW S \in SUBSET orphans, Keep(S) PROVE \A x \in orphans' : x \in S /\ from'[x] = from[x]
  BY <1>1, <1>4 DEF Keep
<1>5. ASSUME NEW p \in Peer, ProcessOrphanTx(p) PROVE NoneKept'
  <2>1. connected' = connected
    BY <1>5, Zenon DEF ProcessOrphanTx
  <2>2. PICK t \in workset[p] :
          LET ws == [workset EXCEPT ![p] = @ \ {t}]
          IN  \/ workset' = WithChildren(ws, t) /\ Keep(orphans \ {t})
              \/ workset' = ws /\ Keep(orphans \ {t})
              \/ workset' = ws /\ UNCHANGED <<orphans, from>>
    BY <1>5, Zenon DEF ProcessOrphanTx
  <2> DEFINE ws == [workset EXCEPT ![p] = @ \ {t}]
  <2>3. ws \in [Peer -> SUBSET Tx] /\ \A q \in Peer \ connected : ws[q] = {}
    BY <1>1
  <2> HIDE DEF ws
  <2>4. \A q \in Peer \ connected : workset'[q] = {}
    BY <1>2, <2>2, <2>3, Zenon DEF ws
  <2>5. \A x \in orphans' : from'[x] \in connected
    <3>1. CASE Keep(orphans \ {t})
      BY <1>1, <1>4, <3>1
    <3>2. CASE UNCHANGED <<orphans, from>>
      BY <1>1, <3>2
    <3> QED
      BY <2>2, <3>1, <3>2, Zenon
  <2> QED
    BY <2>1, <2>4, <2>5 DEF NoneKept
<1>6. ASSUME NEW p \in Peer, FinalizeNode(p) PROVE NoneKept'
  <2>1. /\ connected' = connected \ {p} /\ workset' = [workset EXCEPT ![p] = {}]
        /\ Keep({t \in orphans : from[t] # p})
    BY <1>6, Zenon DEF FinalizeNode
  <2>2. \A q \in Peer \ connected' : workset'[q] = {}
    BY <1>1, <2>1
  <2>3. \A x \in orphans' : x \in {t \in orphans : from[t] # p} /\ from'[x] = from[x]
    BY <1>4, <2>1
  <2> QED
    BY <1>1, <2>1, <2>2, <2>3 DEF NoneKept
<1>7. ASSUME NEW B, BlockConnected(B) PROVE NoneKept'
  <2>1. connected' = connected /\ workset' = workset /\ Keep(orphans \ B)
    BY <1>7, Zenon DEF BlockConnected
  <2>2. \A x \in orphans' : from'[x] \in connected
    BY <1>1, <1>4, <2>1
  <2> QED
    BY <1>1, <2>1, <2>2 DEF NoneKept
<1>8. ASSUME NEW p, NEW t, NEW d, NEW B,
             \/ Inv(p, t) \/ NotFound(p, t) \/ SendMessages(p) \/ Clock(d) \/ ConnectTip(B) \/ Submit(t)
             \/ UNCHANGED vars
      PROVE  NoneKept'
  <2>1. UNCHANGED <<connected, orphans, from, workset>>
    BY <1>8, Zenon DEF Inv, NotFound, SendMessages, Clock, ConnectTip, Submit, vars
  <2> QED
    BY <2>1, NoneKeptOthers DEF GoneInv
<1> QED
  BY <1>3, <1>5, <1>6, <1>7, <1>8, Zenon DEF Next

(* FinalizeNode leaves nothing of a peer in the tracker and the orphanage, *)
(* and nothing comes back after it.                                        *)
THEOREM PeersForgotten == SafetySpec => []NothingLeftBehind
<1>1. Init => GoneInv
  <2> SUFFICES ASSUME Init PROVE GoneInv
    OBVIOUS
  <2>1. OrphanInv
    BY OrphanInvInit
  <2>2. NoneTracked /\ NoneKept
    BY DEF Init, NoneTracked, NoneKept
  <2> QED
    BY <2>1, <2>2, TrackerInvInit DEF GoneInv
<1>2. GoneInv /\ [Next]_vars => GoneInv'
  <2> SUFFICES ASSUME GoneInv, [Next]_vars PROVE GoneInv'
    OBVIOUS
  <2>1. TrackerInv'
    BY TrackerInvStep, Zenon DEF GoneInv
  <2>2. OrphanInv'
    BY OrphanInvStep, Zenon DEF GoneInv
  <2> QED
    BY <2>1, <2>2, NoneTrackedStep, NoneKeptStep, Zenon DEF GoneInv
<1>3. GoneInv => NothingLeftBehind
  BY Zenon DEF GoneInv, NothingLeftBehind, NoneTracked, NoneKept
<1> QED
  BY <1>1, <1>2, <1>3, PTL DEF SafetySpec

-----------------------------------------------------------------------------
(* The rule of txrequest.h.  Seen(s) are the states that TxRequest sees.   *)

Seen(s) == [p \in Peer |-> IF In(s, p, {"DELAYED", "READY", "BEST"}) THEN "CANDIDATE" ELSE s[p].state]
Due(s, p) == s[p].left <= 0 /\ ~In(s, p, {"none", "COMPLETED"})
Alone(s, p) == \A q \in {w \in Peer : Seen(s)[w] # "none"} \ {p} : Seen(s)[q] = "COMPLETED"

Requests(s, x, r, p) ==
    /\ Seen(s)[p] = "CANDIDATE" /\ Due(s, p)
    /\ \A q \in Peer : /\ Seen(s)[q] = "REQUESTED" => Due(s, q)
                       /\ Seen(s)[q] = "CANDIDATE" /\ Due(s, q) => r[p] >= r[q]
    /\ Seen(x) = [q \in Peer |-> IF q = p THEN "REQUESTED"
                                 ELSE IF Seen(s)[q] = "REQUESTED" THEN "COMPLETED" ELSE Seen(s)[q]]
Fails(s, x, p) ==
    /\ Seen(s)[p] \in {"CANDIDATE", "REQUESTED"} /\ ~Alone(s, p)
    /\ Seen(x) = [Seen(s) EXCEPT ![p] = "COMPLETED"]
Leaves(s, x, p) ==
    /\ Seen(s)[p] # "none" /\ (Seen(s)[p] # "COMPLETED" => ~Alone(s, p))
    /\ Seen(x) = [Seen(s) EXCEPT ![p] = "none"]
Allowed(s, x, r) ==
    \/ Seen(x) = Seen(s)
    \/ Seen(x) = [p \in Peer |-> "none"]
    \/ \E p \in Peer :
         \/ Seen(s)[p] = "none" /\ Seen(x) = [Seen(s) EXCEPT ![p] = "CANDIDATE"]
         \/ Requests(s, x, r, p)
         \/ Fails(s, x, p)
         \/ Leaves(s, x, p)

LEMMA SeenAt ==
    ASSUME NEW s, NEW p \in Peer
    PROVE  Seen(s)[p] = IF In(s, p, {"DELAYED", "READY", "BEST"}) THEN "CANDIDATE" ELSE s[p].state
BY DEF Seen

LEMMA SeenAs ==
    ASSUME NEW s, NEW x, NEW p \in Peer, x[p].state = s[p].state
    PROVE  Seen(x)[p] = Seen(s)[p]
BY SeenAt, Zenon DEF In

LEMMA SeenSame ==
    ASSUME NEW s, NEW x, \A p \in Peer : Seen(x)[p] = Seen(s)[p]
    PROVE  Seen(x) = Seen(s)
BY Zenon DEF Seen

(* All but p look the same, and p looks like c. *)
LEMMA SeenChanged ==
    ASSUME NEW s, NEW x, NEW p \in Peer, NEW c, Seen(x)[p] = c, \A q \in Peer \ {p} : Seen(x)[q] = Seen(s)[q]
    PROVE  Seen(x) = [Seen(s) EXCEPT ![p] = c]
<1> DEFINE f == Seen(x)
           g == Seen(s)
<1>1. f = [q \in Peer |-> f[q]] /\ g = [q \in Peer |-> g[q]]
  BY Zenon DEF Seen
<1> HIDE DEF f, g
<1>2. \A q \in Peer : f[q] = [g EXCEPT ![p] = c][q]
  BY <1>1 DEF f, g
<1>3. [g EXCEPT ![p] = c] = [q \in Peer |-> [g EXCEPT ![p] = c][q]]
  BY <1>1
<1> QED
  BY <1>1, <1>2, <1>3, Zenon DEF f, g

LEMMA SeenOthers ==
    ASSUME NEW s, NEW x, NEW p, OthersKept(s, x, p)
    PROVE  \A q \in Peer \ {p} : Seen(x)[q] = Seen(s)[q]
BY SeenAt DEF OthersKept, In

LEMMA NothingSeen ==
    ASSUME NEW x, \A p \in Peer : In(x, p, {"none"})
    PROVE  Seen(x) = [p \in Peer |-> "none"]
<1>1. \A p \in Peer : Seen(x)[p] = "none"
  BY SeenAt DEF In
<1>2. Seen(x) = [p \in Peer |-> Seen(x)[p]]
  BY Zenon DEF Seen
<1> QED
  BY <1>1, <1>2, Zenon

LEMMA NotAlone ==
    ASSUME NEW s \in Announcements, NEW p, NEW q \in Peer \ {p}, ~In(s, q, {"none", "COMPLETED"})
    PROVE  ~Alone(s, p)
<1>1. Seen(s)[q] # "none" /\ Seen(s)[q] # "COMPLETED"
  BY SeenAt DEF In
<1> QED
  BY <1>1, Zenon DEF Alone

(* A response. *)
LEMMA CompletionAllowed ==
    ASSUME NEW r, Ranking(r), NEW s \in Good(r), NEW p \in Peer, ~In(s, p, {"none"})
    PROVE  /\ Allowed(s, MakeCompleted(s, r, p), r)
           /\ Allowed(s, [MakeCompleted(s, r, p) EXCEPT ![p] = None], r)
<1> DEFINE m == MakeCompleted(s, r, p)
           x == [m EXCEPT ![p] = None]
<1>1. s \in Announcements /\ m \in Announcements
  BY MakeCompletedGood, Zenon DEF Good
<1>2. /\ \/ In(s, p, {"COMPLETED"}) /\ m = s
         \/ m = Nothing
         \/ /\ OthersKept(s, m, p) /\ m[p].state = "COMPLETED"
            /\ \E q \in Peer \ {p} : ~In(s, q, {"none", "COMPLETED"})
  BY MakeCompletedMoves, Zenon
<1> HIDE DEF m
<1>3. x[p] = None /\ \A q \in Peer \ {p} : x[q] = m[q]
  BY <1>1, Zenon DEF Announcements
<1> HIDE DEF x
<1>4. In(x, p, {"none"}) /\ \A q \in Peer \ {p} : Seen(x)[q] = Seen(m)[q]
  <2>1. In(x, p, {"none"})
    BY <1>3 DEF None, In
  <2> QED
    BY <1>3, <2>1, SeenAs, Zenon
<1>5. Seen(x)[p] = "none" /\ Seen(s)[p] # "none"
  BY <1>4, SeenAt DEF In
<1>6. CASE In(s, p, {"COMPLETED"}) /\ m = s
  <2>1. Seen(s)[p] = "COMPLETED"
    BY <1>6, SeenAt DEF In
  <2>2. Seen(x) = [Seen(s) EXCEPT ![p] = "none"]
    <3>1. \A q \in Peer \ {p} : Seen(x)[q] = Seen(s)[q]
      BY <1>4, <1>6, Zenon
    <3> QED
      BY <1>5, <3>1, SeenChanged
  <2>3. Leaves(s, x, p)
    BY <1>5, <2>1, <2>2, Zenon DEF Leaves
  <2> QED
    BY <1>6, <2>3, Zenon DEF Allowed, m, x
<1>7. CASE m = Nothing
  <2>1. \A q \in Peer : In(m, q, {"none"})
    BY <1>7 DEF Nothing, None, In
  <2>2. \A q \in Peer : In(x, q, {"none"})
    BY <1>3, <1>4, <2>1, Zenon DEF In
  <2>3. Seen(m) = [q \in Peer |-> "none"] /\ Seen(x) = [q \in Peer |-> "none"]
    BY <2>1, <2>2, NothingSeen, Zenon
  <2> QED
    BY <2>3, Zenon DEF Allowed, m, x
<1>8. CASE /\ OthersKept(s, m, p) /\ m[p].state = "COMPLETED" /\ ~In(s, p, {"COMPLETED"})
           /\ \E q \in Peer \ {p} : ~In(s, q, {"none", "COMPLETED"})
  <2>1. ~Alone(s, p)
    BY <1>1, <1>8, NotAlone, Zenon
  <2>2. \A q \in Peer \ {p} : Seen(m)[q] = Seen(s)[q]
    BY <1>8, SeenOthers, Zenon
  <2>3. Seen(m)[p] = "COMPLETED" /\ Seen(s)[p] \in {"CANDIDATE", "REQUESTED"}
    <3>1. s[p].state \in State
      BY <1>1 DEF Announcements, Announcement
    <3> QED
      BY <1>8, <3>1, SeenAt DEF In, State
  <2>4. Seen(m) = [Seen(s) EXCEPT ![p] = "COMPLETED"]
    BY <2>2, <2>3, SeenChanged
  <2>5. \A q \in Peer \ {p} : Seen(x)[q] = Seen(s)[q]
    BY <1>4, <2>2, Zenon
  <2>6. Seen(x) = [Seen(s) EXCEPT ![p] = "none"]
    BY <1>5, <2>5, SeenChanged
  <2>7. Fails(s, m, p)
    BY <2>1, <2>3, <2>4, Zenon DEF Fails
  <2>8. Leaves(s, x, p)
    BY <1>5, <2>1, <2>6, Zenon DEF Leaves
  <2> QED
    BY <2>7, <2>8, Zenon DEF Allowed, m, x
<1>9. CASE In(s, p, {"COMPLETED"})
  <2>1. m = s
    BY <1>9, Zenon DEF m, MakeCompleted
  <2> QED
    BY <1>6, <1>9, <2>1, Zenon
<1> QED
  BY <1>2, <1>6, <1>7, <1>8, <1>9, Zenon

(* An announcement, and time. *)
LEMMA AnnouncementAllowed ==
    ASSUME NEW r, NEW s \in Announcements, NEW p \in Peer, NEW d
    PROVE  Allowed(s, ReceivedInv(s, p, d), r)
<1> DEFINE x == ReceivedInv(s, p, d)
<1>1. CASE In(s, p, {"none"})
  <2>1. x[p].state = "DELAYED" /\ \A q \in Peer \ {p} : x[q] = s[q]
    BY <1>1 DEF ReceivedInv, Announcements
  <2> HIDE DEF x
  <2>2. Seen(x)[p] = "CANDIDATE" /\ Seen(s)[p] = "none"
    BY <1>1, <2>1, SeenAt DEF In
  <2>3. \A q \in Peer \ {p} : Seen(x)[q] = Seen(s)[q]
    BY <2>1, SeenAs, Zenon
  <2>4. Seen(x) = [Seen(s) EXCEPT ![p] = "CANDIDATE"]
    BY <2>2, <2>3, SeenChanged
  <2> QED
    BY <2>2, <2>4, Zenon DEF Allowed, x
<1>2. CASE ~In(s, p, {"none"})
  BY <1>2, Zenon DEF ReceivedInv, Allowed
<1> QED
  BY <1>1, <1>2

LEMMA ShiftAllowed ==
    ASSUME NEW r, NEW s \in Announcements, NEW d \in Int, NEW floor \in Int
    PROVE  Allowed(s, Shifted(s, d, floor), r)
<1> DEFINE x == Shifted(s, d, floor)
<1>1. \A p \in Peer : x[p].state = s[p].state
  BY DEF Shifted, Announcements, Announcement
<1> HIDE DEF x
<1>2. \A p \in Peer : Seen(x)[p] = Seen(s)[p]
  BY <1>1, SeenAt, Zenon DEF In
<1> QED
  BY <1>2, SeenSame, Zenon DEF Allowed, x

(* How TxRequest sees what SetTimePoint does, unless all is forgotten. *)
LEMMA FollowsSeen ==
    ASSUME NEW s \in Announcements, NEW x, Follows(s, x), ~\A p \in Peer : In(x, p, {"none"}),
           NEW q \in Peer
    PROVE  \/ Seen(x)[q] = Seen(s)[q] /\ x[q].left = s[q].left
           \/ In(s, q, {"REQUESTED"}) /\ s[q].left <= 0 /\ In(x, q, {"COMPLETED"})
<1>1. \/ Kept(s, x, q)
      \/ Candidate(s, q) /\ Candidate(x, q) /\ x[q].left = s[q].left
      \/ In(s, q, {"REQUESTED"}) /\ s[q].left <= 0 /\ In(x, q, {"COMPLETED"})
  BY Zenon DEF Follows
<1>2. CASE Kept(s, x, q)
  BY <1>2, SeenAs, Zenon DEF Kept
<1>3. CASE Candidate(s, q) /\ Candidate(x, q) /\ x[q].left = s[q].left
  BY <1>3, SeenAt, Zenon DEF Candidate
<1> QED
  BY <1>1, <1>2, <1>3, Zenon

LEMMA TimeAllowed ==
    ASSUME NEW r, NEW s \in Good(r), NEW x \in Good(r), Follows(s, x)
    PROVE  Allowed(s, x, r)
<1>1. s \in Announcements /\ Sane(s, r) /\ x \in Announcements /\ Sane(x, r)
  BY Zenon DEF Good
<1>2. CASE \A p \in Peer : In(x, p, {"none"})
  BY <1>2, NothingSeen, Zenon DEF Allowed
<1>3. CASE /\ ~\A p \in Peer : In(x, p, {"none"})
           /\ \E p \in Peer : In(s, p, {"REQUESTED"}) /\ s[p].left <= 0 /\ In(x, p, {"COMPLETED"})
  <2>1. PICK p \in Peer : In(s, p, {"REQUESTED"}) /\ s[p].left <= 0 /\ In(x, p, {"COMPLETED"})
    BY <1>3, Zenon
  <2>2. \A q \in Peer \ {p} : ~In(s, q, {"REQUESTED"})
    BY <1>1, <2>1, Zenon DEF Sane, IsSelected, In
  <2>3. \A q \in Peer \ {p} : Seen(x)[q] = Seen(s)[q]
    BY <1>1, <1>3, <2>2, FollowsSeen, Zenon
  <2>4. Seen(x)[p] = "COMPLETED" /\ Seen(s)[p] = "REQUESTED"
    BY <2>1, SeenAt DEF In
  <2>5. PICK q \in Peer : ~In(x, q, {"none", "COMPLETED"})
    BY <1>1, <2>1, Zenon DEF Sane
  <2>6. q # p /\ ~In(s, q, {"none", "COMPLETED"})
    <3>1. q # p
      BY <2>1, <2>5, Zenon DEF In
    <3>2. Seen(x)[q] # "none" /\ Seen(x)[q] # "COMPLETED"
      BY <2>5, SeenAt DEF In
    <3>3. Seen(s)[q] # "none" /\ Seen(s)[q] # "COMPLETED"
      BY <2>3, <3>1, <3>2, Zenon
    <3> QED
      BY <3>1, <3>3, SeenAt DEF In
  <2>7. ~Alone(s, p)
    BY <1>1, <2>6, NotAlone, Zenon
  <2>8. Seen(x) = [Seen(s) EXCEPT ![p] = "COMPLETED"]
    BY <2>3, <2>4, SeenChanged
  <2> QED
    BY <2>4, <2>7, <2>8, Zenon DEF Allowed, Fails
<1>4. CASE /\ ~\A p \in Peer : In(x, p, {"none"})
           /\ ~\E p \in Peer : In(s, p, {"REQUESTED"}) /\ s[p].left <= 0 /\ In(x, p, {"COMPLETED"})
  <2>1. \A q \in Peer : Seen(x)[q] = Seen(s)[q]
    BY <1>1, <1>4, FollowsSeen, Zenon
  <2> QED
    BY <2>1, SeenSame, Zenon DEF Allowed
<1> QED
  BY <1>2, <1>3, <1>4, Zenon

(* RequestedTx of what GetRequestable returned. *)
LEMMA RequestAllowed ==
    ASSUME NEW r, Ranking(r), NEW s \in Good(r), NEW y \in Good(r), Follows(s, y), Pending(y) = {},
           NEW p \in Peer, In(y, p, {"BEST"}), NEW d
    PROVE  Allowed(s, RequestedTx(y, p, d), r)
<1> DEFINE x == RequestedTx(y, p, d)
<1>1. /\ s \in Announcements /\ y \in Announcements /\ Sane(y, r)
      /\ \A q \in Peer : y[q].left \in Int /\ s[q].left \in Int /\ r[q] \in Nat
  BY DEF Good, Announcements, Announcement, Ranking
<1>2. ~\A q \in Peer : In(y, q, {"none"})
  BY Zenon DEF In
<1>3. ASSUME NEW q \in Peer
      PROVE  \/ Seen(y)[q] = Seen(s)[q] /\ y[q].left = s[q].left
             \/ In(s, q, {"REQUESTED"}) /\ s[q].left <= 0 /\ In(y, q, {"COMPLETED"})
  BY <1>1, <1>2, FollowsSeen, Zenon
<1>4. Seen(s)[p] = "CANDIDATE" /\ Due(s, p)
  <2>1. Seen(y)[p] = "CANDIDATE"
    BY SeenAt DEF In
  <2>2. Seen(s)[p] = "CANDIDATE" /\ y[p].left = s[p].left
    BY <1>3, <2>1, Zenon DEF In
  <2>3. y[p].left <= 0
    BY <1>1 DEF Pending, Early, IsSelectable, In
  <2>4. ~In(s, p, {"none", "COMPLETED"})
    BY <2>2, SeenAt DEF In
  <2> QED
    BY <2>2, <2>3, <2>4, Zenon DEF Due
<1>5. ASSUME NEW q \in Peer, Seen(s)[q] = "REQUESTED" PROVE Due(s, q) /\ Seen(y)[q] = "COMPLETED"
  <2>1. In(s, q, {"REQUESTED"})
    BY <1>5, SeenAt DEF In
  <2>2. Seen(y)[q] # "REQUESTED"
    <3>1. SUFFICES ASSUME Seen(y)[q] = "REQUESTED" PROVE FALSE
      OBVIOUS
    <3>2. In(y, q, {"REQUESTED"})
      BY <3>1, SeenAt DEF In
    <3> QED
      BY <1>1, <3>2, Zenon DEF Sane, IsSelected, In
  <2>3. s[q].left <= 0 /\ In(y, q, {"COMPLETED"})
    BY <1>3, <1>5, <2>2, Zenon
  <2>4. ~In(s, q, {"none", "COMPLETED"}) /\ Seen(y)[q] = "COMPLETED"
    BY <2>1, <2>3, SeenAt DEF In
  <2> QED
    BY <2>3, <2>4, Zenon DEF Due
<1>6. ASSUME NEW q \in Peer, Seen(s)[q] = "CANDIDATE", Due(s, q) PROVE r[p] >= r[q]
  <2>1. In(s, q, {"DELAYED", "READY", "BEST"})
    <3>1. s[q].state \in State
      BY <1>1 DEF Announcements, Announcement
    <3> QED
      BY <1>6, <3>1, SeenAt DEF State, In
  <2>2. Seen(y)[q] = "CANDIDATE" /\ y[q].left <= 0
    BY <1>3, <1>6, <2>1, Zenon DEF Due, In
  <2>3. In(y, q, {"DELAYED", "READY", "BEST"})
    <3>1. y[q].state \in State
      BY <1>1 DEF Announcements, Announcement
    <3> QED
      BY <2>2, <3>1, SeenAt DEF State, In
  <2>4. In(y, q, {"READY"}) \/ In(y, q, {"BEST"})
    BY <2>2, <2>3, Zenon DEF Pending, Passing, IsWaiting, In
  <2>5. CASE In(y, q, {"READY"})
    BY <1>1, <2>5, Zenon DEF Sane
  <2>6. CASE In(y, q, {"BEST"})
    <3>1. p = q
      BY <1>1, <2>6, Zenon DEF Sane, IsSelected, In
    <3> QED
      BY <1>1, <3>1
  <2> QED
    BY <2>4, <2>5, <2>6
<1>7. x = [y EXCEPT ![p] = [state |-> "REQUESTED", left |-> d]]
  BY Zenon DEF RequestedTx, In
<1>8. x[p].state = "REQUESTED" /\ \A q \in Peer \ {p} : x[q] = y[q]
  BY <1>1, <1>7 DEF Announcements
<1> HIDE DEF x
<1>9. Seen(x)[p] = "REQUESTED" /\ \A q \in Peer \ {p} : Seen(x)[q] = Seen(y)[q]
  BY <1>8, SeenAt, SeenAs DEF In
<1>10. ASSUME NEW q \in Peer
       PROVE  Seen(x)[q] = IF q = p THEN "REQUESTED"
                           ELSE IF Seen(s)[q] = "REQUESTED" THEN "COMPLETED" ELSE Seen(s)[q]
  <2>1. CASE q = p
    BY <1>9, <2>1, Zenon
  <2>2. CASE q # p /\ Seen(s)[q] = "REQUESTED"
    BY <1>5, <1>9, <2>2, Zenon
  <2>3. CASE q # p /\ Seen(s)[q] # "REQUESTED"
    <3>1. ~In(s, q, {"REQUESTED"})
      BY <2>3, SeenAt DEF In
    <3> QED
      BY <1>3, <1>9, <2>3, <3>1, Zenon
  <2> QED
    BY <2>1, <2>2, <2>3, Zenon
<1>11. Seen(x) = [q \in Peer |-> IF q = p THEN "REQUESTED"
                                 ELSE IF Seen(s)[q] = "REQUESTED" THEN "COMPLETED" ELSE Seen(s)[q]]
  <2>1. Seen(x) = [q \in Peer |-> Seen(x)[q]]
    BY Zenon DEF Seen
  <2> QED
    BY <1>10, <2>1, Zenon
<1>12. Requests(s, x, r, p)
  BY <1>4, <1>5, <1>6, <1>11, Zenon DEF Requests
<1> QED
  BY <1>12, Zenon DEF Allowed, x

LEMMA OperationAllowed ==
    ASSUME NEW r, Ranking(r), NEW s \in Good(r), NEW x, NEW C, Operation(s, x, r, C)
    PROVE  Allowed(s, x, r)
<1>1. s \in Announcements
  BY Zenon DEF Good
<1>2. Allowed(s, s, r)
  BY Zenon DEF Allowed
<1>3. Allowed(s, Nothing, r)
  <2>1. \A p \in Peer : In(Nothing, p, {"none"})
    BY DEF Nothing, None, In
  <2> QED
    BY <2>1, NothingSeen, Zenon DEF Allowed
<1>4. \A p \in Peer, d \in Int : Allowed(s, ReceivedInv(s, p, d), r)
  BY <1>1, AnnouncementAllowed, Zenon
<1>5. \A p \in Peer : Allowed(s, ReceivedResponse(s, r, p), r) /\ Allowed(s, DisconnectedPeer(s, r, p), r)
  BY <1>2, CompletionAllowed, Zenon DEF ReceivedResponse, DisconnectedPeer
<1>6. \A d \in Int, floor \in Int : Allowed(s, Shifted(s, d, floor), r)
  BY <1>1, ShiftAllowed, Zenon
<1> DEFINE y == SetTimePoint(s, r)
<1>7. y \in Good(r) /\ Follows(s, y) /\ Pending(y) = {}
  BY SetTimePointDone, Zenon
<1> HIDE DEF y
<1>8. Allowed(s, y, r)
  BY <1>7, TimeAllowed, Zenon
<1>9. \A p \in Peer : In(y, p, {"BEST"}) => Allowed(s, RequestedTx(y, p, Interval), r)
  BY <1>7, RequestAllowed, Zenon
<1> QED
  BY <1>2, <1>3, <1>4, <1>5, <1>6, <1>8, <1>9, Zenon DEF Operation, y

(* The tracker, with its five states and the reselection, implements the   *)
(* rule of txrequest.h: every step of the handlers is for every hash a     *)
(* step of TxRequest, or changes nothing that it sees.                     *)
THEOREM TrackerImplementsRule == SafetySpec => ImplementsTxRequest
<1>1. Init => \A t \in Tx : Rule(t)!Init
  <2> SUFFICES ASSUME Init, NEW t \in Tx PROVE Rule(t)!Init
    BY Zenon
  <2>1. ann[t] = Nothing
    BY DEF Init
  <2>2. \A p \in Peer : ann[t][p].state = "none"
    BY <2>1 DEF Nothing, None
  <2>3. \A p \in Peer : /\ ~In(ann[t], p, {"DELAYED", "READY", "BEST"})
                       /\ In(ann[t], p, {"none", "COMPLETED"})
    BY <2>2, Zenon DEF In
  <2> QED
    BY <2>2, <2>3, Zenon DEF Rule!Init
<1>2. TrackerInv /\ [Next]_vars => [\A t \in Tx : [Rule(t)!Next]_(Rule(t)!vars)]_ann
  <2> SUFFICES ASSUME TrackerInv, [Next]_vars, NEW t \in Tx PROVE Rule(t)!Next
    BY Zenon
  <2>1. Operation(ann[t], ann'[t], Rank[t], connected') /\ Ranking(Rank[t])
    BY TrackerInvStep, RankIsRanking, Zenon DEF OperationsDone
  <2>2. ann[t] \in Good(Rank[t])
    BY DEF TrackerInv, Tracked, SanityCheck, Good
  <2>3. Allowed(ann[t], ann'[t], Rank[t])
    BY <2>1, <2>2, OperationAllowed, Zenon
  <2> QED
    BY <2>3, Zenon DEF Allowed, Requests, Fails, Leaves, Alone, Seen, Due,
       Rule!Next, Rule!Forget, Rule!Announce, Rule!Request, Rule!Fail, Rule!Leave, Rule!Only, Rule!Present
<1>3. TrackerInv /\ [Next]_vars => TrackerInv'
  BY TrackerInvStep, Zenon
<1> QED
  BY <1>1, <1>2, <1>3, TrackerInvInit, PTL DEF SafetySpec, ImplementsTxRequest
=============================================================================
