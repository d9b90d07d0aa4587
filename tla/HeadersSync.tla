---------------------------- MODULE HeadersSync ----------------------------
(***************************************************************************)
(* Initial headers download: HeadersSyncState (src/src/headerssync.cpp) as *)
(* ProcessHeadersMessage (src/src/net_processing.cpp) drives it, down to   *)
(* ProcessNewBlockHeaders (src/src/validation.cpp).                        *)
(*                                                                         *)
(* A Header is all of it, so it stands for its hash.  The salted bit that  *)
(* commits to a header tells headers apart for sure.  One handler runs at  *)
(* a time (g_msgproc_mutex); a message is any run of at most MaxResults    *)
(* headers, each the parent of the next.                                   *)
(***************************************************************************)
EXTENDS HeaderRules

CONSTANTS Peer, Honest, HonestChain,  \* the peers; the one that serves HonestChain
          FirstLength,                \* of HonestChain when the sync begins
          Minimum,                    \* GetAntiDoSWorkThreshold
          MaxResults,                 \* MAX_HEADERS_RESULTS
          MaxAnnounce,                \* MAX_BLOCKS_TO_ANNOUNCE
          Period, BufferSize,         \* HEADER_COMMITMENT_PERIOD, REDOWNLOAD_BUFFER_SIZE
          MaxCommitments              \* m_max_commitments

ASSUME SyncAssumption ==
    /\ Period \in Nat \ {0} /\ Period <= BufferSize
    /\ HonestChain[1] = Genesis
    /\ \A i \in 2..Len(HonestChain) : HonestChain[i] \in Valid /\ Parent[HonestChain[i]] = HonestChain[i - 1]

Height(h) == Len(Ancestry[h]) - 1

VARIABLES index,     \* the headers in m_block_index
          sync,      \* m_headers_sync of every peer
          asked,     \* where the getheaders that Honest has to answer continues from
          length     \* of the chain that Honest has by now

vars == <<index, sync, asked, length>>

None == [state |-> "none"]

Init ==
    /\ index = {Genesis}
    /\ sync = [p \in Peer |-> None]
    /\ asked = {Genesis}
    /\ length = FirstLength

-----------------------------------------------------------------------------
(* ProcessNewBlockHeaders: up to the first that is refused. *)
Accepted(S, msg) ==
    S \cup {msg[i] : i \in {n \in 1..Len(msg) : Parent[msg[1]] \in S /\ \A j \in 1..n : msg[j] \in Valid \cup S}}

-----------------------------------------------------------------------------
(* HeadersSyncState. *)

NewSync(start, offset) ==
    [state |-> "PRESYNC", start |-> start, offset |-> offset,
     last |-> start, work |-> ChainWork[start], commitments |-> <<>>,
     buffer |-> <<>>, bufferLast |-> start, bufferWork |-> ChainWork[start], all |-> FALSE]

Committed(s, h) == Height(h) % Period = s.offset

(* Each of these is the set of the state s after h, empty if h is refused. *)

\* Mutant: the number of commitments is not limited.
UnlimitedCommitments(s, h) ==
    IF <<s.last, h>> \notin Permitted THEN {}
    ELSE {[s EXCEPT !.commitments = IF Committed(s, h) THEN Append(@, h) ELSE @,
                    !.last = h, !.work = @ + Work[h]]}

ValidateAndProcessSingleHeader(s, h) ==
    IF \/ <<s.last, h>> \notin Permitted
       \/ Committed(s, h) /\ Len(s.commitments) = MaxCommitments
    THEN {}
    ELSE {[s EXCEPT !.commitments = IF Committed(s, h) THEN Append(@, h) ELSE @,
                    !.last = h, !.work = @ + Work[h]]}

(* m_process_all_remaining_headers once h is counted, whether h must match *)
(* a commitment, and the header before it.                                 *)
All(s, h) == s.all \/ s.bufferWork + Work[h] >= Minimum

\* Mutant: commitments are not compared.
CheckedNever(s, h) == FALSE

Checked(s, h) == ~All(s, h) /\ Committed(s, h)
Previous(s) == IF s.buffer = <<>> THEN s.start ELSE Last(s.buffer)

ValidateAndStoreRedownloadedHeader(s, h) ==
    IF \/ Parent[h] # s.bufferLast
       \/ <<Previous(s), h>> \notin Permitted
       \/ Checked(s, h) /\ (s.commitments = <<>> \/ Head(s.commitments) # h)
    THEN {}
    ELSE {[s EXCEPT !.buffer = Append(@, h), !.bufferLast = h, !.bufferWork = @ + Work[h],
                    !.all = All(s, h), !.commitments = IF Checked(s, h) THEN Tail(@) ELSE @]}

(* And these for a whole message. *)
ValidateAndStoreHeadersCommitments(s, msg) ==
    LET after[i \in 0..Len(msg)] ==
          IF i = 0 THEN {s} ELSE UNION {ValidateAndProcessSingleHeader(t, msg[i]) : t \in after[i - 1]}
    IN  IF Parent[msg[1]] # s.last THEN {}
        ELSE {IF t.work >= Minimum THEN [t EXCEPT !.state = "REDOWNLOAD"] ELSE t : t \in after[Len(msg)]}

StoreRedownloadedHeaders(s, msg) ==
    LET after[i \in 0..Len(msg)] ==
          IF i = 0 THEN {s} ELSE UNION {ValidateAndStoreRedownloadedHeader(t, msg[i]) : t \in after[i - 1]}
    IN  after[Len(msg)]

(* PopHeadersReadyForAcceptance: how many. *)
Ready(s) ==
    IF s.all THEN Len(s.buffer)
    ELSE IF Len(s.buffer) > BufferSize THEN Len(s.buffer) - BufferSize ELSE 0

(* What ProcessNextHeaders returns once the state is s: the headers that   *)
(* are ready, whether more are wanted, and the state unless finalized.     *)
Result(s, more) ==
    [headers |-> SubSeq(s.buffer, 1, Ready(s)), more |-> more,
     sync |-> IF more THEN [s EXCEPT !.buffer = SubSeq(@, Ready(s) + 1, Len(@))] ELSE None]

(* The set of the result, empty without success. *)
ProcessNextHeaders(s, msg) ==
    LET full == Len(msg) = MaxResults
    IN  IF s.state = "PRESYNC"
        THEN {Result(t, full \/ t.state = "REDOWNLOAD") : t \in ValidateAndStoreHeadersCommitments(s, msg)}
        ELSE {Result(t, full /\ ~t.all) : t \in StoreRedownloadedHeaders(s, msg)}

\* Mutant: also in the second phase it continues from the end of the first.
ContinueFromLast(s) == s.last

(* NextHeadersRequestLocator. *)
Continue(s) == IF s.state = "PRESYNC" THEN s.last ELSE s.bufferLast

-----------------------------------------------------------------------------
(* ProcessHeadersMessage. *)

Best == CHOOSE h \in index : \A x \in index : ChainWork[h] >= ChainWork[x]
IsAncestorOfBestHeaderOrTip(h) == h \in Range(Ancestry[Best])

(* Where the next getheaders continues from, if there is one. *)
Request(p, from) == asked' = IF p = Honest THEN from ELSE asked

Store(p, headers, full) ==
    /\ index' = Accepted(index, headers)
    /\ Request(p, IF full /\ Last(headers) \in index' THEN {Last(headers)} ELSE {})

EmptyMessage(p) ==
    /\ sync' = [sync EXCEPT ![p] = None]
    /\ Request(p, {})
    /\ UNCHANGED <<index, length>>

(* IsContinuationOfLowWorkHeadersSync succeeds with r. *)
Continuation(p, msg, r) ==
    /\ sync' = [sync EXCEPT ![p] = r.sync]
    /\ IF r.more THEN index' = Accepted(index, r.headers) /\ Request(p, {Continue(r.sync)})
       ELSE IF r.headers = <<>> THEN UNCHANGED index /\ Request(p, {})
       ELSE Store(p, r.headers, Len(msg) = MaxResults)
    /\ UNCHANGED length

(* There is no sync with p, or the message has ended it.  A few headers    *)
(* may be an announcement: what is missing before them is asked for.       *)
Unconnecting(p, msg) ==
    /\ Parent[msg[1]] \notin index
    /\ sync' = [sync EXCEPT ![p] = None]
    /\ Request(p, IF Len(msg) <= MaxAnnounce THEN {Best} ELSE {})
    /\ UNCHANGED <<index, length>>

Sufficient(msg) == IsAncestorOfBestHeaderOrTip(Last(msg)) \/ ChainWork[Last(msg)] >= Minimum

Process(p, msg) ==
    /\ Parent[msg[1]] \in index /\ Sufficient(msg)
    /\ sync' = [sync EXCEPT ![p] = None]
    /\ Store(p, msg, Len(msg) = MaxResults)
    /\ UNCHANGED length

TryLowWorkHeadersSync(p, msg) ==
    /\ Parent[msg[1]] \in index /\ ~Sufficient(msg)
    /\ IF Len(msg) < MaxResults
       THEN sync' = [sync EXCEPT ![p] = None] /\ Request(p, {})
       ELSE \E offset \in 0..(Period - 1) :
            \E results \in {ProcessNextHeaders(NewSync(Parent[msg[1]], offset), msg)} :
              /\ sync' = [sync EXCEPT ![p] = IF results = {} THEN None ELSE (CHOOSE r \in results : TRUE).sync]
              /\ Request(p, {Continue(r.sync) : r \in {x \in results : x.more}})
    /\ UNCHANGED <<index, length>>

ProcessHeadersMessage(p, msg) ==
    IF msg = <<>> THEN EmptyMessage(p)
    ELSE \E results \in {IF sync[p] = None THEN {} ELSE ProcessNextHeaders(sync[p], msg)} :
           \/ \E r \in results : Continuation(p, msg, r)
           \/ results = {} /\ (Unconnecting(p, msg) \/ Process(p, msg) \/ TryLowWorkHeadersSync(p, msg))

-----------------------------------------------------------------------------
(* The peers. *)

Messages == {<<>>} \cup {msg \in UNION {[1..n -> Header \ {Genesis}] : n \in 1..MaxResults} :
                           \A i \in 2..Len(msg) : Parent[msg[i]] = msg[i - 1]}

(* How Honest answers the getheaders it has. *)
Answers == {SubSeq(HonestChain, i + 1, IF i + MaxResults < length THEN i + MaxResults ELSE length) :
              i \in {n \in 1..length : HonestChain[n] \in asked}}

Receive(p) ==
    \E msg \in IF p = Honest THEN Answers ELSE Messages : ProcessHeadersMessage(p, msg)

Grow ==
    /\ length < Len(HonestChain)
    /\ length' = length + 1
    /\ UNCHANGED <<index, sync, asked>>

Next == Grow \/ \E p \in Peer : Receive(p)

SafetySpec == Init /\ [][Next]_vars
Spec == SafetySpec /\ WF_vars(Receive(Honest))

-----------------------------------------------------------------------------
(* Properties. *)

(***************************************************************************)
(* A header is stored only if it is on a chain with enough work: what a    *)
(* peer shows in the first phase cannot be exchanged in the second, also   *)
(* when it switches between chains or other peers extend the index.        *)
(***************************************************************************)
StoredHasWork ==
    \A h \in index \ {Genesis} :
      \E d \in Header : h \in Range(Ancestry[d]) /\ ChainWork[d] >= Minimum

(***************************************************************************)
(* The memory a peer can take: no more commitments than m_max_commitments, *)
(* no more headers in the buffer than it holds back, and the buffer is a   *)
(* run that continues what was released.                                   *)
(***************************************************************************)
BoundedMemory ==
    \A p \in Peer : sync[p] # None =>
      /\ Len(sync[p].commitments) <= MaxCommitments
      /\ Len(sync[p].buffer) <= BufferSize
      /\ \A i \in 1..Len(sync[p].buffer) :
           Parent[sync[p].buffer[i]] = (IF i > 1 THEN sync[p].buffer[i - 1]
                                        ELSE Ancestry[sync[p].bufferLast][Len(sync[p].buffer) + 1])

(***************************************************************************)
(* The chain of an honest peer is stored, whatever the others do: both     *)
(* phases pass it, with the retargeting of pow.cpp within what             *)
(* PermittedDifficultyTransition allows, and its growth in between.        *)
(***************************************************************************)
HonestChainStored == <>(HonestChain[FirstLength] \in index)
=============================================================================
