----------------------------- MODULE TxDownload -----------------------------
(***************************************************************************)
(* Transaction download: how PeerManagerImpl (src/src/net_processing.cpp)  *)
(* drives TxRequestTracker and TxOrphanage (src/src/txorphanage.cpp).      *)
(*                                                                         *)
(* A Peer is one connection (a NodeId is never used again).  A transaction *)
(* stands for its hash (no witness).  Every handler does its work on these *)
(* under cs_main and is one action.                                        *)
(***************************************************************************)
EXTENDS TxRequestTracker, FiniteSets

CONSTANTS Tx, Parents,           \* the transactions and whose outputs they spend
          MayRefuse, Large,      \* what policy may refuse; what is too heavy to keep as an orphan
          Rank,                  \* of the peers of each transaction: PriorityComputer
          Preferred, Honest,     \* peers of ours; peers that stay and answer
          MayMine, MaySubmit,    \* the blocks to come; what a local user may submit
          NonPrefDelay, TxidDelay, OverloadedDelay, Interval,
          MaxInFlight, MaxAnnouncements, MaxOrphans,
          MaxBacks               \* times the clock goes back

ASSUME RankAssumption ==
    /\ Rank \in [Tx -> [Peer -> Nat]]
    /\ \A t \in Tx : \A p, q \in Peer : Rank[t][p] = Rank[t][q] => p = q
    /\ \A t \in Tx : \A p \in Preferred, q \in Peer \ Preferred : Rank[t][p] > Rank[t][q]
ASSUME TxAssumption ==
    /\ Parents \in [Tx -> SUBSET Tx]
    /\ IsFiniteSet(Peer) /\ Honest \subseteq Peer /\ Preferred \subseteq Peer
    /\ {NonPrefDelay, TxidDelay, OverloadedDelay, Interval, MaxBacks} \subseteq Nat

VARIABLES connected, ann,           \* the peers, the tracker
          asked,                    \* getdata that an honest peer has to answer
          mempool, rejects, chain,  \* m_recent_rejects; the confirmed transactions
          blocks, confirmed,        \* BlockConnected to come; m_recent_confirmed_transactions
          orphans, from, workset,   \* TxOrphanage
          backs

vars == <<connected, ann, asked, mempool, rejects, chain, blocks, confirmed,
          orphans, from, workset, backs>>

NoPeer == "nobody"

Init ==
    /\ connected = Peer /\ ann = [t \in Tx |-> Nothing]
    /\ asked = {} /\ mempool = {} /\ rejects = {} /\ chain = {} /\ blocks = {} /\ confirmed = {}
    /\ orphans = {} /\ from \in [Tx -> {NoPeer}] /\ workset = [p \in Peer |-> {}]
    /\ backs = 0

AlreadyHaveTx(t) == t \in orphans \cup confirmed \cup rejects \cup mempool

Count(a, p) == Cardinality({t \in Tx : ~In(a[t], p, {"none"})})
CountInFlight(a, p) == Cardinality({t \in Tx : In(a[t], p, {"REQUESTED"})})

(* The announcements with those of p for the transactions in T, which the  *)
(* limit on announcements allows.                                          *)
AddTxAnnouncement(a, p, T, delay) ==
    LET wait == delay + (IF p \in Preferred THEN 0 ELSE NonPrefDelay)
                      + (IF CountInFlight(a, p) >= MaxInFlight THEN OverloadedDelay ELSE 0)
    IN  [t \in Tx |-> IF t \in T THEN ReceivedInv(a[t], p, wait) ELSE a[t]]

-----------------------------------------------------------------------------
(* TxOrphanage. *)

(* EraseTx drops what is left of an orphan, its work set entries aside. *)
Keep(S) == /\ orphans' = S
           /\ from' = [t \in Tx |-> IF t \in S THEN from[t] ELSE NoPeer]

(* Mutant of WithChildren: the orphans are left waiting. *)
WithoutChildren(ws, t) == ws

(* AddChildrenToWorkSet: the orphans that spend t, to their peers. *)
WithChildren(ws, t) ==
    [p \in Peer |-> ws[p] \cup {c \in orphans : t \in Parents[c] /\ from[c] = p}]

AddTx(t) == IF t \in Large THEN orphans ELSE orphans \cup {t}

(* AddTx, then LimitOrphans: a sweep takes any that are old, and if there  *)
(* are too many random ones go until the limit is kept.                    *)
LimitOrphans(t, p) ==
    \E kept \in SUBSET AddTx(t) :
        /\ Cardinality(kept) <= MaxOrphans
        /\ t \in AddTx(t) \ kept => Cardinality(kept) = MaxOrphans
        /\ orphans' = kept
        /\ from' = [x \in Tx |-> IF x \notin kept THEN NoPeer ELSE IF x = t THEN p ELSE from[x]]

-----------------------------------------------------------------------------
(* AcceptToMemoryPool, as far as the inputs decide. *)
Known(t) == t \in mempool \cup chain
MissingInputs(t) == ~Known(t) /\ \E q \in Parents[t] : ~Known(q)
Acceptable(t) == ~Known(t) /\ ~MissingInputs(t)
Refusable(t) == ~MissingInputs(t) /\ (Acceptable(t) => t \in MayRefuse)

(* INV of one transaction. *)
Inv(p, t) ==
    /\ p \in connected
    /\ ~AlreadyHaveTx(t) /\ Count(ann, p) < MaxAnnouncements
    /\ ann' = AddTxAnnouncement(ann, p, {t}, 0)
    /\ UNCHANGED <<connected, asked, mempool, rejects, chain, blocks, confirmed,
                   orphans, from, workset, backs>>

(* The three ways TX can end once the transaction is new. *)
Forgetting(a, t) == [a EXCEPT ![t] = ForgetTxHash(@)]

TxAccepted(a, t) ==
    /\ Acceptable(t)
    /\ mempool' = mempool \cup {t}
    /\ ann' = Forgetting(a, t)
    /\ workset' = WithChildren(workset, t)
    /\ UNCHANGED <<rejects, orphans, from>>

TxOrphaned(a, p, t) ==
    LET missing == {q \in Parents[t] : ~AlreadyHaveTx(q) /\ In(a[q], p, {"none"})}
    IN  /\ MissingInputs(t) /\ Parents[t] \cap rejects = {}
        /\ \E T \in SUBSET missing :
             /\ T # {} => Count(a, p) + Cardinality(T) <= MaxAnnouncements
             /\ T # missing => Count(a, p) + Cardinality(T) >= MaxAnnouncements
             /\ ann' = Forgetting(AddTxAnnouncement(a, p, T, TxidDelay), t)
        /\ LimitOrphans(t, p)
        /\ UNCHANGED <<mempool, rejects, workset>>

TxRejected(a, t) ==
    /\ IF MissingInputs(t) THEN Parents[t] \cap rejects # {} ELSE Refusable(t)
    /\ rejects' = rejects \cup {t}
    /\ ann' = Forgetting(a, t)
    /\ UNCHANGED <<mempool, orphans, from, workset>>

ReceiveTx(p, t) ==
    /\ p \in connected /\ (p \in Honest => <<p, t>> \in asked)
    /\ asked' = asked \ {<<p, t>>}
    /\ \E a \in {[ann EXCEPT ![t] = ReceivedResponse(@, Rank[t], p)]} :
         IF AlreadyHaveTx(t)
         THEN ann' = a /\ UNCHANGED <<mempool, rejects, orphans, from, workset>>
         ELSE TxAccepted(a, t) \/ TxOrphaned(a, p, t) \/ TxRejected(a, t)
    /\ UNCHANGED <<connected, chain, blocks, confirmed, backs>>

(* NOTFOUND. *)
NotFound(p, t) ==
    /\ p \in connected \ Honest /\ ~In(ann[t], p, {"none"})
    /\ ann' = [ann EXCEPT ![t] = ReceivedResponse(@, Rank[t], p)]
    /\ UNCHANGED <<connected, asked, mempool, rejects, chain, blocks, confirmed,
                   orphans, from, workset, backs>>

(* One round of ProcessOrphanTx for peer p. *)
ProcessOrphanTx(p) ==
    /\ p \in connected
    /\ \E t \in workset[p] :
         LET ws == [workset EXCEPT ![p] = @ \ {t}]
         IN  \/ /\ t \in orphans /\ Acceptable(t)
                /\ mempool' = mempool \cup {t}
                /\ workset' = WithChildren(ws, t)
                /\ Keep(orphans \ {t})
                /\ UNCHANGED rejects
             \/ /\ t \in orphans /\ Refusable(t)
                /\ rejects' = rejects \cup {t}
                /\ workset' = ws
                /\ Keep(orphans \ {t})
                /\ UNCHANGED mempool
             \/ /\ t \in orphans => MissingInputs(t)
                /\ workset' = ws
                /\ UNCHANGED <<mempool, rejects, orphans, from>>
    /\ UNCHANGED <<connected, ann, asked, chain, blocks, confirmed, backs>>

(* FinalizeNode. *)
FinalizeNode(p) ==
    /\ p \in connected \ Honest
    /\ connected' = connected \ {p}
    /\ UNCHANGED asked
    /\ workset' = [workset EXCEPT ![p] = {}]
    /\ Keep({t \in orphans : from[t] # p})
    /\ ann' = [t \in Tx |-> DisconnectedPeer(ann[t], Rank[t], p)]
    /\ UNCHANGED <<mempool, rejects, chain, blocks, confirmed, backs>>

-----------------------------------------------------------------------------
(* SendMessages: GetRequestable, with its SetTimePoint, then getdata. *)

SendMessages(p) ==
    /\ p \in connected
    /\ UNCHANGED <<connected, mempool, rejects, chain, blocks, confirmed,
                   orphans, from, workset, backs>>
    /\ \E set \in {[t \in Tx |-> SetTimePoint(ann[t], Rank[t])]} :
       \E requestable \in {{t \in Tx : In(set[t], p, {"BEST"})}} :
         /\ requestable = {} => set # ann
         /\ ann' = [t \in Tx |-> IF t \notin requestable THEN set[t]
                                 ELSE IF AlreadyHaveTx(t) THEN ForgetTxHash(set[t])
                                 ELSE RequestedTx(set[t], p, Interval)]
         /\ asked' = asked \cup {<<p, t>> : t \in {x \in requestable : p \in Honest /\ ~AlreadyHaveTx(x)}}

-----------------------------------------------------------------------------
(* The clock, the chain and the local user. *)

Clock(d) ==
    /\ backs' = IF d < 0 THEN backs + 1 ELSE backs
    /\ backs' <= MaxBacks
    /\ ann' = [t \in Tx |-> Shifted(ann[t], d, backs - MaxBacks)]
    /\ ann' # ann
    /\ UNCHANGED <<connected, asked, mempool, rejects, chain, blocks, confirmed,
                   orphans, from, workset>>

(* ConnectTip takes B from the mempool; the new tip ends m_recent_rejects. *)
ConnectTip(B) ==
    /\ B \cap chain = {} /\ \A t \in B : Parents[t] \subseteq chain \cup B
    /\ chain' = chain \cup B /\ mempool' = mempool \ B /\ rejects' = {}
    /\ blocks' = blocks \cup {B}
    /\ UNCHANGED <<connected, ann, asked, confirmed, orphans, from, workset, backs>>

(* EraseForBlock takes the transactions of B, no others spend the same.    *)
BlockConnected(B) ==
    /\ B \in blocks
    /\ blocks' = blocks \ {B} /\ confirmed' = confirmed \cup B
    /\ Keep(orphans \ B)
    /\ ann' = [t \in Tx |-> IF t \in B THEN ForgetTxHash(ann[t]) ELSE ann[t]]
    /\ UNCHANGED <<connected, asked, mempool, rejects, chain, workset, backs>>

(* BroadcastTransaction. *)
Submit(t) ==
    /\ Acceptable(t)
    /\ mempool' = mempool \cup {t}
    /\ UNCHANGED <<connected, ann, asked, rejects, chain, blocks, confirmed,
                   orphans, from, workset, backs>>

Next ==
    \/ \E p \in Peer, t \in Tx : Inv(p, t) \/ ReceiveTx(p, t) \/ NotFound(p, t)
    \/ \E p \in Peer : ProcessOrphanTx(p) \/ FinalizeNode(p) \/ SendMessages(p)
    \/ \E d \in {1, -1} : Clock(d)
    \/ \E B \in MayMine : ConnectTip(B) \/ BlockConnected(B)
    \/ \E t \in MaySubmit : Submit(t)

SafetySpec == Init /\ [][Next]_vars

(***************************************************************************)
(* ThreadMessageHandler gives every peer its turn, for what it sent and    *)
(* for what is due to it; the clock and the callbacks go on.               *)
(***************************************************************************)
Fairness ==
    /\ WF_vars(Clock(1))
    /\ \A p \in Peer : WF_vars(SendMessages(p))
    /\ \A p \in Honest, t \in Tx : WF_vars(ReceiveTx(p, t))
    /\ \A B \in MayMine : WF_vars(BlockConnected(B))

Spec == SafetySpec /\ Fairness

-----------------------------------------------------------------------------
(* Properties. *)

(***************************************************************************)
(* TxRequestTracker::SanityCheck after every operation: the announcements  *)
(* of a hash are not all COMPLETED, at most one is selected, one is if any *)
(* is ready, and it is the best of them.                                   *)
(***************************************************************************)
SanityCheck == \A t \in Tx : Sane(ann[t], Rank[t])

(***************************************************************************)
(* For every hash the five-state tracker with its reselection implements   *)
(* the three-state rule of txrequest.h: the request goes to the best due   *)
(* candidate, one at a time, and never again to a peer that failed.        *)
(***************************************************************************)
Rule(t) == INSTANCE TxRequest WITH
    Priority <- Rank[t],
    state <- [p \in Peer |-> IF In(ann[t], p, {"DELAYED", "READY", "BEST"}) THEN "CANDIDATE"
                             ELSE ann[t][p].state],
    due <- [p \in Peer |-> ann[t][p].left <= 0 /\ ~In(ann[t], p, {"none", "COMPLETED"})]
ImplementsTxRequest ==
    /\ \A t \in Tx : Rule(t)!Init
    /\ [][\A t \in Tx : [Rule(t)!Next]_(Rule(t)!vars)]_ann

(***************************************************************************)
(* FinalizeNode leaves nothing of a peer in the tracker or the orphanage,  *)
(* also when the peer left while its orphans were being reconsidered: the  *)
(* sizes are 0 after the last one, as it asserts.                          *)
(***************************************************************************)
NothingLeftBehind ==
    \A p \in Peer \ connected :
      /\ workset[p] = {}
      /\ \A t \in Tx : In(ann[t], p, {"none"}) /\ (t \in orphans => from[t] # p)

(***************************************************************************)
(* An orphan whose parents all came in from peers is queued for            *)
(* reconsideration by the peer that sent it, however the orphans were      *)
(* evicted and sent again by others in between.                            *)
(***************************************************************************)
ReadyOrphansQueued ==
    \A t \in orphans : Parents[t] \subseteq mempool \ MaySubmit => t \in workset[from[t]]

(***************************************************************************)
(* What a peer that stays and answers has announced arrives, whatever the  *)
(* other peers announce, promise, withhold or send.                        *)
(***************************************************************************)
Downloaded ==
    \A p \in Honest, t \in Tx : ~In(ann[t], p, {"none"}) ~> AlreadyHaveTx(t)
=============================================================================
