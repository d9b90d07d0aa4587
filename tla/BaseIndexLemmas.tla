-------------------------- MODULE BaseIndexLemmas --------------------------
(***************************************************************************)
(* The inductive invariant of BaseIndex, facts about trees of blocks, the  *)
(* sums and the queue, and the steps of the sync thread: each of them      *)
(* keeps the invariant.  BaseIndexProofs has the other steps and the       *)
(* theorems.                                                               *)
(***************************************************************************)
EXTENDS BaseIndex, SequenceTheorems, WellFoundedInduction, TLAPS

(* Time for the provers on a busy machine. *)
USE ZenonT(60)

OnlyCommitsFail == MayFail \subseteq {"commit"}

-----------------------------------------------------------------------------
(* The inductive invariant. *)

Pointer == Block \cup {None}
Value == [Block -> Int]

Event == [type : {"BlockConnected", "ChainStateFlushed", "Sync"}, block : Pointer]

ChainstateOK ==
    /\ tip \in Pointer /\ known \subseteq Block /\ BlocksOf(tip) \subseteq known
    /\ flushed \in [tip : Pointer, known : SUBSET Block]
    /\ BlocksOf(flushed.tip) \subseteq flushed.known

ControlOK ==
    /\ sync \in [pc : {"off", "loop", "write", "append", "commit", "done"}, pindex : Pointer]
    /\ callback \in [pc : {"idle", "append", "commit"}, pindex : Pointer]
    /\ best \in Pointer /\ synced \in BOOLEAN

TypeOK == ChainstateOK /\ ControlOK /\ queue \in Seq(Event)

(* a is on the chain of b, which may both be the null pointer. *)
Below(a, b) == a = None \/ (a \in Block /\ b # None /\ IsAncestor(a, b))

(* The height index f has the chain of p, with its sums. *)
Holds(f, p) ==
    \A i \in 1..Len(ChainOf(p)) :
        f[i] = [block |-> ChainOf(p)[i], value |-> Sum(ChainOf(p)[i])]

(* Whatever is stored for a block is its sum. *)
Entries ==
    /\ byHeight \in [Heights -> [block : Pointer, value : Value]]
    /\ byHash \in [Block -> [found : BOOLEAN, value : Value]]
    /\ \A h \in Heights : byHeight[h].block # None => byHeight[h].value = Sum(byHeight[h].block)
    /\ \A b \in Block : byHash[b].found => byHash[b].value = Sum(b)

(* What the next start relies on. *)
Durable == locator \in Pointer /\ muhash = Sum(locator) /\ Holds(byHeight, locator)

(* The block up to which the statistics in memory count. *)
Position ==
    IF sync.pc \in {"loop", "commit"} THEN sync.pindex
    ELSE IF sync.pc \in {"write", "append"} THEN Parent(sync.pindex) ELSE best

(* The height index has the chain up to p, the statistics are its sum, and *)
(* the committed block is on it.                                           *)
IndexedTo(p) ==
    p \in Pointer /\ Holds(byHeight, p) /\ stats = Sum(p) /\ Below(locator, p)

(* The sync thread and the callbacks take turns, and what each of them     *)
(* knows where it stands.                                                  *)
Turns ==
    /\ sync.pc \in {"loop", "write", "append", "commit"} => ~synced /\ tip # None
    /\ sync.pc \in {"write", "append", "commit"} => sync.pindex # None
    /\ sync.pc = "commit" =>
         /\ sync.pindex = best
         /\ Common \in 1..Height(best) - 1 /\ Common < Height(tip)
    /\ callback.pc # "idle" => synced /\ callback.pindex # None
    /\ callback.pc = "append" => Parent(callback.pindex) = best
    /\ callback.pc = "commit" => /\ best # None /\ Parent(callback.pindex) # None
                                 /\ IsAncestor(Parent(callback.pindex), best)

(* A callback names a block that is known; an index that starts with the   *)
(* chain hears of Genesis first.                                           *)
FromGenesis(q, t) ==
    /\ t # None => \E j \in 1..Len(q) : q[j] = Connected(Genesis)
    /\ \A i \in 1..Len(q) : q[i].type = "BlockConnected" =>
           \E j \in 1..i : q[j] = Connected(Genesis)
Named(q, k) ==
    \A i \in 1..Len(q) : /\ q[i].type = "ChainStateFlushed" => q[i].block \in k
                         /\ q[i].type = "BlockConnected" => q[i].block # None
Announced ==
    /\ Named(queue, known)
    /\ synced /\ best = None /\ callback.pc = "idle" => FromGenesis(queue, tip)

Idle == sync.pc = "off" /\ callback.pc = "idle" /\ queue = <<>>

IInv ==
    /\ TypeOK /\ Entries /\ Durable
    /\ phase = "up" => IndexedTo(Position) /\ Turns /\ Announced
    /\ phase = "down" => Idle
    /\ fatal = FALSE /\ phase # "corrupted"

-----------------------------------------------------------------------------
(* The tree. *)

(* A chain is a nonempty sequence from Genesis to its block. *)
LEMMA Chains ==
    /\ None \notin Block /\ Genesis \in Block
    /\ \A b \in Block :
         /\ Chain[b] \in Seq(Block) /\ Height(b) \in Nat \ {0}
         /\ Chain[b][1] = Genesis /\ Chain[b][Height(b)] = b
         /\ \A i \in 1..Height(b) : Chain[b][i] \in Block
<1>1. /\ None \notin Block /\ Genesis \in Block
      /\ \A b \in Block : /\ Chain[b] \in Seq(Block) /\ Len(Chain[b]) > 0
                          /\ Chain[b][1] = Genesis /\ Chain[b][Len(Chain[b])] = b
  BY TreeAssumption, SMT
<1>2. ASSUME NEW b \in Block
      PROVE  Height(b) \in Nat \ {0} /\ \A i \in 1..Height(b) : Chain[b][i] \in Block
  <2>1. Chain[b] \in Seq(Block) /\ Len(Chain[b]) > 0
    BY <1>1, SMT
  <2> QED
    BY <2>1, LenProperties, ElementOfSeq, SMT DEF Height
<1> QED
  BY <1>1, <1>2, SMT DEF Height

(* A block of a chain has the chain up to there. *)
LEMMA Prefixes ==
    ASSUME NEW b \in Block, NEW i \in 1..Height(b)
    PROVE  /\ Chain[b][i] \in Block /\ Height(Chain[b][i]) = i
           /\ \A j \in 1..i : Chain[Chain[b][i]][j] = Chain[b][j]
<1>1. Chain[Chain[b][i]] = SubSeq(Chain[b], 1, i)
  BY TreeAssumption DEF Height
<1>2. Chain[b] \in Seq(Block) /\ Height(b) \in Nat
      /\ (\A j \in 1..Height(b) : Chain[b][j] \in Block)
  BY Chains, SMT
<1>3. \A j \in 1..i : Chain[b][j] \in Block
  BY <1>2, SMT
<1>4. Len(SubSeq(Chain[b], 1, i)) = i /\ \A j \in 1..i : SubSeq(Chain[b], 1, i)[j] = Chain[b][j]
  <2>1. i \in Int /\ 1 <= i
    BY <1>2, SMT
  <2> QED
    BY <1>3, <2>1, SubSeqProperties, SMT
<1> QED
  BY <1>1, <1>2, <1>4 DEF Height

(* The chain of a block is that of its parent and the block. *)
LEMMA Parents ==
    ASSUME NEW b \in Block
    PROVE  /\ Parent(b) \in Pointer
           /\ Parent(b) = None <=> b = Genesis
           /\ Parent(b) = None => Height(b) = 1
           /\ Parent(b) # None => /\ Parent(b) \in Block
                                  /\ Height(Parent(b)) = Height(b) - 1 /\ Height(b) > 1
                                  /\ \A j \in 1..Height(b) - 1 : Chain[Parent(b)][j] = Chain[b][j]
           /\ Len(ChainOf(Parent(b))) = Height(b) - 1
           /\ \A j \in 1..Height(b) - 1 : ChainOf(Parent(b))[j] = Chain[b][j]
<1>1. None \notin Block /\ Genesis \in Block /\ Height(b) \in Nat \ {0}
      /\ Chain[b][1] = Genesis /\ Chain[b][Height(b)] = b
  BY Chains, SMT
<1>2. Height(Genesis) = 1
  <2>1. Chain[Genesis] = <<Genesis>>
    BY TreeAssumption, SMT
  <2> QED
    BY <2>1, SMT DEF Height
<1>3. CASE Height(b) = 1
  BY <1>1, <1>3, EmptySeq, SMT DEF Parent, Pointer, ChainOf
<1>4. CASE Height(b) # 1
  <2>1. Height(b) - 1 \in 1..Height(b)
    BY <1>1, <1>4, SMT
  <2>2. Parent(b) = Chain[b][Height(b) - 1]
    BY <1>4, SMT DEF Parent
  <2>3. /\ Parent(b) \in Block /\ Height(Parent(b)) = Height(b) - 1
        /\ \A j \in 1..Height(b) - 1 : Chain[Parent(b)][j] = Chain[b][j]
    BY <2>1, <2>2, Prefixes, SMT
  <2>4. Parent(b) # None /\ b # Genesis /\ Height(b) > 1
    BY <1>1, <1>2, <1>4, <2>3, SMT
  <2> QED
    BY <2>3, <2>4, SMT DEF ChainOf, Pointer, Height
<1> QED
  BY <1>3, <1>4, SMT

(* No block is on a chain twice. *)
LEMMA Distinct ==
    ASSUME NEW b \in Block, NEW i \in 1..Height(b), NEW j \in 1..Height(b), Chain[b][i] = Chain[b][j]
    PROVE  i = j
BY Prefixes, SMT

(* The chain of a pointer, the null pointer included. *)
LEMMA PointerChains ==
    ASSUME NEW p \in Pointer
    PROVE  /\ Len(ChainOf(p)) \in Nat
           /\ p # None => p \in Block /\ ChainOf(p) = Chain[p] /\ Len(ChainOf(p)) = Height(p)
           /\ p = None => ChainOf(p) = <<>> /\ Len(ChainOf(p)) = 0
           /\ \A i \in 1..Len(ChainOf(p)) : ChainOf(p)[i] \in Block /\ i \in Heights
<1>1. CASE p = None
  BY <1>1, EmptySeq, SMT DEF ChainOf
<1>2. CASE p # None
  <2>1. p \in Block /\ ChainOf(p) = Chain[p] /\ Len(ChainOf(p)) = Height(p)
    BY <1>2, SMT DEF Pointer, ChainOf, Height
  <2>2. Height(p) \in Nat
    BY <2>1, Chains, SMT
  <2>3. \A i \in 1..Height(p) : Chain[p][i] \in Block /\ Height(Chain[p][i]) = i
    BY <2>1, Prefixes, SMT
  <2>4. \A i \in 1..Height(p) : i \in Heights
    BY <2>3, SMT DEF Heights
  <2> QED
    BY <1>2, <2>1, <2>2, <2>3, <2>4, SMT
<1> QED
  BY <1>1, <1>2, SMT

(* An ancestor has the first blocks of the chain. *)
LEMMA BelowChains ==
    ASSUME NEW a, NEW b \in Pointer, Below(a, b)
    PROVE  /\ a \in Pointer /\ Len(ChainOf(a)) <= Len(ChainOf(b))
           /\ \A i \in 1..Len(ChainOf(a)) : ChainOf(a)[i] = ChainOf(b)[i]
<1>1. CASE a = None
  BY <1>1, PointerChains, SMT DEF Pointer
<1>2. CASE a # None
  <2>1. a \in Block /\ b \in Block /\ Height(a) <= Height(b) /\ Chain[b][Height(a)] = a
    BY <1>2, SMT DEF Below, IsAncestor, Pointer
  <2>2. Height(a) \in 1..Height(b)
    BY <2>1, Chains, SMT
  <2>3. \A j \in 1..Height(a) : Chain[a][j] = Chain[b][j]
    BY <2>1, <2>2, Prefixes, SMT
  <2>4. ChainOf(a) = Chain[a] /\ ChainOf(b) = Chain[b] /\ a \in Pointer
    BY <2>1, Chains, SMT DEF ChainOf, Pointer
  <2> QED
    BY <2>1, <2>3, <2>4, SMT DEF Height
<1> QED
  BY <1>1, <1>2, SMT

(* An ancestor of an ancestor is an ancestor. *)
LEMMA BelowTransitive ==
    ASSUME NEW a, NEW b, NEW c \in Pointer, Below(a, b), Below(b, c)
    PROVE  Below(a, c)
<1>1. CASE a = None
  BY <1>1 DEF Below
<1>2. CASE a # None
  <2>1. b \in Pointer
    BY BelowChains, SMT
  <2>2. /\ a \in Block /\ b \in Block /\ Height(a) <= Height(b) /\ Chain[b][Height(a)] = a
        /\ c \in Block /\ Height(b) <= Height(c) /\ Chain[c][Height(b)] = b
    BY <1>2, <2>1, SMT DEF Below, IsAncestor, Pointer
  <2>3. Height(a) \in Nat \ {0} /\ Height(b) \in Nat \ {0} /\ Height(c) \in Nat \ {0}
    BY <2>2, Chains
  <2>4. Height(b) \in 1..Height(c) /\ Height(a) \in 1..Height(b)
    BY <2>2, <2>3, SMT
  <2>5. Chain[b][Height(a)] = Chain[c][Height(a)]
    BY <2>2, <2>4, Prefixes, SMT
  <2> QED
    BY <2>2, <2>3, <2>5, Chains, SMT DEF Below, IsAncestor
<1> QED
  BY <1>1, <1>2, SMT

(* A block is on its own chain. *)
LEMMA BelowSelf ==
    ASSUME NEW p \in Pointer
    PROVE  Below(p, p) /\ (p # None => IsAncestor(p, p))
BY Chains, SMT DEF Below, IsAncestor, Pointer

(* The parent is on the chain of a block. *)
LEMMA ParentBelow ==
    ASSUME NEW b \in Block
    PROVE  Below(Parent(b), b)
<1>1. CASE Parent(b) # None
  <2>1. /\ Parent(b) \in Block /\ Height(b) \in Nat \ {0} /\ b # None
        /\ Height(Parent(b)) = Height(b) - 1 /\ Height(b) > 1
    BY <1>1, Parents, Chains
  <2>2. Parent(b) = Chain[b][Height(b) - 1]
    BY <1>1 DEF Parent
  <2> QED
    BY <2>1, <2>2, SMT DEF Below, IsAncestor
<1> QED
  BY <1>1 DEF Below

(* Whatever is on a chain is below its end. *)
LEMMA OnChainBelow ==
    ASSUME NEW b \in Block, NEW i \in 1..Height(b)
    PROVE  Below(Chain[b][i], b) /\ IsAncestor(Chain[b][i], b)
BY Prefixes, Chains, SMT DEF Below, IsAncestor

-----------------------------------------------------------------------------
(* The last common block. *)

(* A bounded set of numbers has a largest one. *)
LEMMA Maximum ==
    ASSUME NEW n \in Nat, NEW S, S \subseteq 0..n, S # {}
    PROVE  \E m \in S : \A i \in S : i <= m
<1> DEFINE T == {n - i : i \in S}
           R == OpToRel(<, Nat)
<1>1. T \subseteq Nat /\ T # {}
  <2>1. \A i \in S : n - i \in Nat
    BY SMT
  <2>2. T \subseteq Nat
    BY <2>1, SMT
  <2>3. PICK i \in S : TRUE
    OBVIOUS
  <2>4. n - i \in T
    BY <2>3, SMT
  <2> QED
    BY <2>2, <2>4, SMT
<1>2. IsWellFoundedOn(R, Nat)
  BY NatLessThanWellFounded
<1>3. \E x \in T : \A y \in T : ~(<<y, x>> \in R)
  <2> HIDE DEF T, R
  <2> QED
    BY <1>1, <1>2, WFMin
<1>4. PICK x \in T : \A y \in T : ~(<<y, x>> \in R)
  BY <1>3
<1>5. PICK m \in S : x = n - m
  BY <1>4
<1>6. ASSUME NEW i \in S PROVE i <= m
  <2>1. ~(<<n - i, x>> \in R)
    BY <1>4
  <2>2. n - i \in Nat /\ x \in Nat
    BY <1>1, <1>4
  <2>3. ~(n - i < x)
    BY <2>1, <2>2 DEF OpToRel
  <2> QED
    BY <1>5, <2>3, SMT
<1> QED
  BY <1>6, SMT

(* FindFork: the last common block is on both chains. *)
LEMMA Forks ==
    ASSUME NEW a \in Pointer, NEW b \in Pointer
    PROVE  /\ ForkHeight(a, b) \in 0..Len(ChainOf(a))
           /\ ForkHeight(a, b) <= Len(ChainOf(b))
           /\ ForkHeight(a, b) > 0 => ChainOf(a)[ForkHeight(a, b)] = ChainOf(b)[ForkHeight(a, b)]
           /\ a # None /\ b # None => ForkHeight(a, b) >= 1
<1> DEFINE Both == {i \in 1..Len(ChainOf(a)) : i <= Len(ChainOf(b)) /\ ChainOf(a)[i] = ChainOf(b)[i]}
           n == ForkHeight(a, b)
<1>1. Len(ChainOf(a)) \in Nat /\ Len(ChainOf(b)) \in Nat
  BY PointerChains, SMT
<1>2. \E m \in {0} \cup Both : \A i \in Both : i <= m
  <2>1. \E m \in {0} \cup Both : \A i \in {0} \cup Both : i <= m
    <3>1. {0} \cup Both \subseteq 0..Len(ChainOf(a)) /\ {0} \cup Both # {}
      BY <1>1, SMT
    <3> HIDE DEF Both
    <3> QED
      BY <1>1, <3>1, Maximum
  <2> QED
    BY <2>1, SMT
<1>3. n \in {0} \cup Both /\ \A i \in Both : i <= n
  BY <1>2 DEF ForkHeight
<1>4. ASSUME a # None, b # None PROVE 1 \in Both
  <2>1. a \in Block /\ b \in Block
    BY <1>4, SMT DEF Pointer
  <2>2. Chain[a][1] = Genesis /\ Chain[b][1] = Genesis /\ Height(a) \in Nat \ {0} /\ Height(b) \in Nat \ {0}
    BY <2>1, Chains
  <2>3. ChainOf(a) = Chain[a] /\ ChainOf(b) = Chain[b] /\ Len(ChainOf(a)) = Height(a) /\ Len(ChainOf(b)) = Height(b)
    BY <1>4, PointerChains
  <2> QED
    BY <2>2, <2>3, SMT
<1> QED
  BY <1>1, <1>3, <1>4, SMT

-----------------------------------------------------------------------------
(* The sums. *)

(* A sum counts blocks; nothing is counted before Genesis. *)
LEMMA SumType ==
    \A p \in Pointer : Sum(p) \in Value /\ (p = None => Sum(p) = Zero)
BY PointerChains, SMT DEF Sum, Value, BlocksOf, Zero

(* Counting a block turns the sum of its parent into its own. *)
LEMMA SumAppend ==
    ASSUME NEW b \in Block
    PROVE  [Sum(Parent(b)) EXCEPT ![b] = @ + 1] = Sum(b)
<1> DEFINE q == Parent(b)
<1>1. /\ Len(ChainOf(q)) = Height(b) - 1 /\ Height(b) \in Nat \ {0}
      /\ \A j \in 1..Height(b) - 1 : ChainOf(q)[j] = Chain[b][j]
  BY Parents, Chains
<1>2. BlocksOf(q) = {Chain[b][j] : j \in 1..Height(b) - 1}
  BY <1>1 DEF BlocksOf
<1>3. BlocksOf(b) = {Chain[b][j] : j \in 1..Height(b)}
  BY Chains, SMT DEF BlocksOf, ChainOf, Height
<1>4. b = Chain[b][Height(b)]
  BY Chains
<1>5. b \notin BlocksOf(q)
  <2>1. \A j \in 1..Height(b) - 1 : Chain[b][j] # b
    BY <1>1, <1>4, Distinct, SMT
  <2> QED
    BY <1>2, <2>1
<1>6. \A x \in Block : x \in BlocksOf(b) <=> x = b \/ x \in BlocksOf(q)
  <2>1. \A j \in 1..Height(b) : j = Height(b) \/ j \in 1..Height(b) - 1
    BY <1>1, SMT
  <2>2. \A j \in 1..Height(b) - 1 : j \in 1..Height(b)
    BY <1>1, SMT
  <2>3. Height(b) \in 1..Height(b)
    BY <1>1, SMT
  <2> QED
    BY <1>2, <1>3, <1>4, <2>1, <2>2, <2>3
<1>7. b \in BlocksOf(b)
  BY <1>6, SMT
<1>8. ASSUME NEW x \in Block PROVE [Sum(q) EXCEPT ![b] = @ + 1][x] = Sum(b)[x]
  <2> HIDE DEF q
  <2> QED
    BY <1>5, <1>6, <1>7, SMT DEF Sum
<1>9. /\ [Sum(q) EXCEPT ![b] = @ + 1] = [x \in Block |-> [Sum(q) EXCEPT ![b] = @ + 1][x]]
      /\ Sum(b) = [x \in Block |-> Sum(b)[x]]
  <2> HIDE DEF q
  <2> QED
    BY DEF Sum
<1> QED
  BY <1>8, <1>9

(* Reversing the blocks above the n-th leaves its sum. *)
LEMMA SumReversed ==
    ASSUME NEW c \in Block, NEW n \in 1..Height(c), stats = Sum(c)
    PROVE  Reversed(c, n) = Sum(Chain[c][n])
<1> DEFINE d == Chain[c][n]
<1>1. d \in Block /\ Height(d) = n /\ \A j \in 1..n : Chain[d][j] = Chain[c][j]
  BY Prefixes
<1>2. Height(c) \in Nat
  BY Chains, SMT
<1>3. BlocksOf(c) = {Chain[c][j] : j \in 1..Height(c)}
  BY Chains DEF BlocksOf, ChainOf, Height
<1>4. BlocksOf(d) = {Chain[c][j] : j \in 1..n}
  <2>1. BlocksOf(d) = {Chain[d][j] : j \in 1..n}
    BY <1>1, Chains, SMT DEF BlocksOf, ChainOf, Height
  <2> QED
    BY <1>1, <2>1
<1>5. ASSUME NEW x \in Block
      PROVE  (IF \E i \in n + 1..Height(c) : Chain[c][i] = x THEN Sum(c)[x] - 1 ELSE Sum(c)[x]) = Sum(d)[x]
  <2>1. CASE \E i \in n + 1..Height(c) : Chain[c][i] = x
    <3>1. PICK i \in n + 1..Height(c) : Chain[c][i] = x
      BY <2>1
    <3>2. i \in 1..Height(c) /\ x \in BlocksOf(c)
      BY <1>2, <1>3, <3>1, SMT
    <3>3. \A j \in 1..n : j \in 1..Height(c) /\ j # i
      BY <1>2, <3>1, SMT
    <3>4. x \notin BlocksOf(d)
      BY <1>4, <3>1, <3>2, <3>3, Distinct
    <3>5. Sum(c)[x] = 1 /\ Sum(d)[x] = 0
      BY <3>2, <3>4 DEF Sum
    <3> QED
      BY <2>1, <3>5, SMT
  <2>2. CASE ~\E i \in n + 1..Height(c) : Chain[c][i] = x
    <3>1. \A j \in 1..Height(c) : j \in 1..n \/ j \in n + 1..Height(c)
      BY <1>2, SMT
    <3>2. \A j \in 1..n : j \in 1..Height(c)
      BY <1>2, SMT
    <3>3. x \in BlocksOf(c) <=> x \in BlocksOf(d)
      BY <1>3, <1>4, <2>2, <3>1, <3>2
    <3> QED
      BY <2>2, <3>3 DEF Sum
  <2> QED
    BY <2>1, <2>2
<1>6. \A x \in Block : stats[x] = Sum(c)[x]
  BY SMT
<1> HIDE DEF d
<1>7. Reversed(c, n) = [x \in Block |-> Sum(d)[x]]
  BY <1>5, SMT DEF Reversed
<1>8. Sum(d) = [x \in Block |-> Sum(d)[x]]
  BY SMT DEF Sum
<1> QED
  BY <1>7, <1>8 DEF d

-----------------------------------------------------------------------------
(* The database. *)

(* What the height index has of a chain it has of its prefixes. *)
LEMMA HoldsBelow ==
    ASSUME NEW f, NEW a, NEW b \in Pointer, Below(a, b), Holds(f, b)
    PROVE  Holds(f, a)
<1>1. Len(ChainOf(a)) <= Len(ChainOf(b)) /\ \A i \in 1..Len(ChainOf(a)) : ChainOf(a)[i] = ChainOf(b)[i]
  BY BelowChains
<1>2. Len(ChainOf(a)) \in Nat /\ Len(ChainOf(b)) \in Nat
  BY BelowChains, PointerChains
<1>3. \A i \in 1..Len(ChainOf(a)) : i \in 1..Len(ChainOf(b))
  BY <1>1, <1>2, SMT
<1> QED
  BY <1>1, <1>3 DEF Holds

(* LookUpOne finds the sums of the chain that the height index has. *)
LEMMA LookUpHeld ==
    ASSUME NEW p \in Pointer, Holds(byHeight, p), NEW i \in 1..Len(ChainOf(p))
    PROVE  /\ byHeight[i].block = ChainOf(p)[i] /\ byHeight[i].block # None
           /\ LookUp(ChainOf(p)[i]) = Found(Sum(ChainOf(p)[i]))
<1>1. ChainOf(p)[i] \in Block /\ p # None
  BY PointerChains, SMT
<1>2. p \in Block /\ ChainOf(p) = Chain[p] /\ i \in 1..Height(p)
  BY <1>1, PointerChains
<1>3. Height(ChainOf(p)[i]) = i
  BY <1>2, Prefixes, SMT
<1>4. byHeight[i].block = ChainOf(p)[i] /\ byHeight[i].value = Sum(ChainOf(p)[i])
  <2>1. byHeight[i] = [block |-> ChainOf(p)[i], value |-> Sum(ChainOf(p)[i])]
    BY DEF Holds
  <2> QED
    BY <2>1, SMT
<1> QED
  BY <1>1, <1>3, <1>4, Chains DEF LookUp

(* In particular that of its last block. *)
LEMMA LookUpTop ==
    ASSUME NEW b \in Block, Holds(byHeight, b)
    PROVE  LookUp(b) = Found(Sum(b))
<1>1. b \in Pointer /\ b # None /\ ChainOf(b) = Chain[b] /\ Len(ChainOf(b)) = Height(b)
  BY Chains, PointerChains DEF Pointer
<1>2. Height(b) \in 1..Len(ChainOf(b)) /\ ChainOf(b)[Height(b)] = b
  BY <1>1, Chains, SMT
<1> QED
  BY <1>1, <1>2, LookUpHeld

(* CustomAppend does not fail, and brings the position to its block. *)
LEMMA Appendable ==
    ASSUME NEW b \in Block, Holds(byHeight, Parent(b))
    PROVE  CanAppend(b)
<1>1. CASE b = Genesis
  BY <1>1, SMT DEF CanAppend
<1>2. CASE b # Genesis
  <2>1. Parent(b) \in Block
    BY <1>2, Parents
  <2> QED
    BY <2>1, LookUpTop, SMT DEF CanAppend, Found
<1> QED
  BY <1>1, <1>2

(* CustomAppend extends what is indexed by one block. *)
LEMMA Appended ==
    ASSUME NEW b \in Block, Entries, Durable, IndexedTo(Parent(b)), CustomAppend(b)
    PROVE  Entries' /\ Durable' /\ IndexedTo(b)'
<1> DEFINE v == [stats EXCEPT ![b] = @ + 1]
           h == Height(b)
<1>1. v = Sum(b)
  BY SumAppend, SMT DEF IndexedTo
<1>2. byHeight' = [byHeight EXCEPT ![h] = [block |-> b, value |-> Sum(b)]]
  BY <1>1 DEF CustomAppend
<1>3. stats' = Sum(b) /\ UNCHANGED <<locator, muhash, byHash>>
  BY <1>1, SMT DEF CustomAppend
<1>4. h \in Heights /\ Sum(b) \in Value /\ b \in Pointer
  BY SumType DEF Heights, Pointer
<1>5. h \in Nat \ {0} /\ Chain[b][h] = b /\ Len(ChainOf(Parent(b))) = h - 1
      /\ (\A j \in 1..h - 1 : ChainOf(Parent(b))[j] = Chain[b][j])
  BY Chains, Parents
<1>6. ChainOf(b) = Chain[b] /\ Len(ChainOf(b)) = h
  BY <1>4, PointerChains, Chains
<1> HIDE DEF h
<1>7. Entries'
  <2>1. byHeight' \in [Heights -> [block : Pointer, value : Value]]
    BY <1>2, <1>4 DEF Entries
  <2>2. \A x \in Heights : byHeight'[x].block # None => byHeight'[x].value = Sum(byHeight'[x].block)
    BY <1>2, <1>4, SMT DEF Entries
  <2> QED
    BY <1>3, <2>1, <2>2 DEF Entries
<1>8. Holds(byHeight', b)
  <2>1. ASSUME NEW i \in 1..h PROVE byHeight'[i] = [block |-> Chain[b][i], value |-> Sum(Chain[b][i])]
    <3>1. CASE i = h
      BY <1>2, <1>4, <1>5, <3>1 DEF Entries
    <3>2. CASE i # h
      <4>1. i \in 1..h - 1
        BY <1>5, <3>2, SMT
      <4>2. byHeight[i] = [block |-> Chain[b][i], value |-> Sum(Chain[b][i])]
        BY <1>5, <4>1 DEF IndexedTo, Holds
      <4>3. i \in Heights
        BY <1>5, <4>1, PointerChains DEF IndexedTo
      <4> QED
        BY <1>2, <3>2, <4>2, <4>3 DEF Entries
    <3> QED
      BY <3>1, <3>2
  <2> QED
    BY <1>6, <2>1 DEF Holds
<1>9. Below(locator, b)
  BY <1>4, ParentBelow, BelowTransitive, SMT DEF IndexedTo
<1>10. Holds(byHeight', locator)
  BY <1>4, <1>8, <1>9, HoldsBelow, SMT
<1> QED
  BY <1>3, <1>4, <1>7, <1>8, <1>9, <1>10 DEF Durable, IndexedTo

(* A commit at the position, whether it comes about or not. *)
LEMMA CommitKeeps ==
    ASSUME NEW p, Entries, Durable, IndexedTo(p), Commit(p, stats), stats' = stats
    PROVE  Entries' /\ Durable' /\ IndexedTo(p)'
<1>1. CASE UNCHANGED database
  BY <1>1 DEF database, Entries, Durable, IndexedTo
<1>2. CASE p # None /\ Committed(p, stats)
  <2>1. locator' = p /\ muhash' = Sum(p) /\ byHeight' = byHeight /\ byHash' = byHash
    BY <1>2, SMT DEF Committed, IndexedTo
  <2>2. Below(p, p)
    BY BelowSelf, SMT DEF IndexedTo
  <2> QED
    BY <2>1, <2>2, SMT DEF Entries, Durable, IndexedTo
<1> QED
  BY <1>1, <1>2 DEF Commit

(* Rewind: the copy does not fail and keeps the entries exact. *)
LEMMA CopyWorks ==
    ASSUME OnlyCommitsFail, NEW c \in Block, NEW n \in Block, IsAncestor(n, c), Holds(byHeight, c)
    PROVE  ~CopyFails(c, n)
<1>1. c \in Pointer /\ c # None /\ Len(ChainOf(c)) = Height(c)
  BY Chains, PointerChains DEF Pointer
<1>2. \A h \in 1..Height(c) : byHeight[h].block # None
  BY <1>1, LookUpHeld
<1>3. Height(n) \in Nat \ {0} /\ Height(c) \in Nat
  BY Chains, SMT
<1>4. \A h \in Height(n)..Height(c) : byHeight[h].block # None
  BY <1>2, <1>3, SMT
<1> QED
  BY <1>4, SMT DEF CopyFails, OnlyCommitsFail

(* The copy to the hash index leaves what is indexed. *)
LEMMA CopyKeeps ==
    ASSUME NEW c, NEW n, Entries, Durable, RewindCopies(c, n)
    PROVE  Entries' /\ Durable' /\ \A p : IndexedTo(p) => IndexedTo(p)'
<1>1. byHash' = [b \in Block |->
                   IF Height(b) \in Height(n)..Height(c) /\ byHeight[Height(b)].block = b
                   THEN Found(byHeight[Height(b)].value) ELSE byHash[b]]
  BY SMT DEF RewindCopies, CopyHeightIndexToHashIndex
<1>2. UNCHANGED <<stats, locator, muhash, byHeight>>
  BY DEF RewindCopies, memory
<1>3. ASSUME NEW b \in Block
      PROVE  /\ byHash'[b] \in [found : BOOLEAN, value : Value]
             /\ byHash'[b].found => byHash'[b].value = Sum(b)
  <2>1. CASE Height(b) \in Height(n)..Height(c) /\ byHeight[Height(b)].block = b
    <3>1. byHash'[b] = Found(byHeight[Height(b)].value)
      BY <1>1, <2>1, SMT
    <3>2. Height(b) \in Heights
      BY DEF Heights
    <3>3. byHeight[Height(b)].value \in Value /\ byHeight[Height(b)].value = Sum(b)
      BY <2>1, <3>2, Chains DEF Entries
    <3> QED
      BY <3>1, <3>3, SMT DEF Found
  <2>2. CASE ~(Height(b) \in Height(n)..Height(c) /\ byHeight[Height(b)].block = b)
    BY <1>1, <2>2, SMT DEF Entries
  <2> QED
    BY <2>1, <2>2
<1>4. byHash' \in [Block -> [found : BOOLEAN, value : Value]]
  BY <1>1, <1>3
<1>5. Entries'
  BY <1>2, <1>3, <1>4 DEF Entries
<1> QED
  BY <1>2, <1>5 DEF Durable, IndexedTo

(* Every block that is reversed finds the entry of its parent, and the     *)
(* sums agree.                                                             *)
LEMMA NoMismatch ==
    ASSUME NEW c \in Block, NEW n \in Block, IndexedTo(c)
    PROVE  Mismatch(c, n) = {}
<1>1. c \in Pointer /\ c # None /\ ChainOf(c) = Chain[c] /\ Len(ChainOf(c)) = Height(c)
  BY Chains, PointerChains DEF Pointer
<1>2. Height(n) \in Nat \ {0} /\ Height(c) \in Nat
  BY Chains
<1>3. ASSUME NEW i \in Height(n)..Height(c) - 1
      PROVE  LookUp(Chain[c][i]) = Found(Reversed(c, i))
  <2>1. i \in 1..Height(c)
    BY <1>2, SMT
  <2>2. LookUp(Chain[c][i]) = Found(Sum(Chain[c][i]))
    BY <1>1, <2>1, LookUpHeld DEF IndexedTo
  <2>3. Reversed(c, i) = Sum(Chain[c][i])
    BY <2>1, SumReversed DEF IndexedTo
  <2> QED
    BY <2>2, <2>3, SMT
<1> QED
  BY <1>3 DEF Mismatch

(* The commit of a rewind ends with what is indexed up to the fork. *)
LEMMA RewindKeeps ==
    ASSUME NEW c \in Block, NEW n \in Block, IsAncestor(n, c), Entries, Durable, IndexedTo(c),
           RewindCommits(c, n)
    PROVE  Entries' /\ Durable' /\ IndexedTo(n)' /\ best' = n
<1>1. Height(n) \in 1..Height(c) /\ Chain[c][Height(n)] = n
  BY Chains, SMT DEF IsAncestor
<1>2. Reversed(c, Height(n)) = Sum(n)
  BY <1>1, SumReversed, SMT DEF IndexedTo
<1>3. /\ stats' = Sum(n) /\ best' = n /\ locator' = n /\ muhash' = Sum(n)
      /\ byHeight' = byHeight /\ byHash' = byHash
  BY <1>2 DEF RewindCommits, Committed
<1>4. n \in Pointer /\ c \in Pointer /\ Below(n, c) /\ Below(n, n)
  BY Chains, BelowSelf, SMT DEF Below, Pointer
<1>5. Holds(byHeight, n)
  BY <1>4, HoldsBelow DEF IndexedTo
<1> QED
  BY <1>3, <1>4, <1>5 DEF Entries, Durable, IndexedTo

(* No step of a rewind fails but the first assertion. *)
LEMMA ReverseWorks ==
    ASSUME OnlyCommitsFail, NEW c \in Block, NEW n \in Block, IndexedTo(c)
    PROVE  ~CommitFails(c, n) /\ ~ReverseFails(c, n) /\ ~ReverseAsserts(c, n)
BY NoMismatch, SMT DEF OnlyCommitsFail, CommitFails, ReverseFails, ReverseAsserts

-----------------------------------------------------------------------------
(* The queue. *)

(* The callbacks are events. *)
LEMMA EventTypes ==
    \A b \in Pointer : Connected(b) \in Event /\ Flushed(b) \in Event /\ [type |-> "Sync", block |-> b] \in Event
BY DEF Connected, Flushed, Event

(* Appending to the queue. *)
LEMMA QueueAppend ==
    ASSUME NEW q \in Seq(Event), NEW e \in Event, e.type # "BlockConnected", NEW t, FromGenesis(q, t)
    PROVE  FromGenesis(Append(q, e), t)
<1>1. /\ Len(Append(q, e)) = Len(q) + 1 /\ Append(q, e)[Len(q) + 1] = e /\ Len(q) \in Nat
      /\ \A i \in 1..Len(q) : Append(q, e)[i] = q[i]
  BY AppendProperties, LenProperties, SMT
<1>2. \A i \in 1..Len(q) + 1 : i \in 1..Len(q) \/ i = Len(q) + 1
  BY <1>1, SMT
<1>3. \A i \in 1..Len(q) : i \in 1..Len(q) + 1 /\ \A j \in 1..i : j \in 1..Len(q)
  BY <1>1, SMT
<1> QED
  BY <1>1, <1>2, <1>3, SMT DEF FromGenesis

(* Taking from the queue. *)
LEMMA QueueTail ==
    ASSUME NEW q \in Seq(Event), q # <<>>, Head(q).type # "BlockConnected", NEW t, FromGenesis(q, t)
    PROVE  FromGenesis(Tail(q), t)
<1>1. /\ Len(Tail(q)) = Len(q) - 1 /\ Len(q) \in Nat \ {0} /\ Head(q) = q[1]
      /\ \A i \in 1..Len(q) - 1 : Tail(q)[i] = q[i + 1]
  BY HeadTailProperties, EmptySeq, SMT
<1>2. q[1] # Connected(Genesis)
  BY <1>1, SMT DEF Connected
<1>3. ASSUME NEW n \in 1..Len(q), NEW j \in 1..n, q[j] = Connected(Genesis)
      PROVE  j - 1 \in 1..n - 1 /\ Tail(q)[j - 1] = Connected(Genesis)
  <2>1. j # 1 /\ j \in Int /\ n \in Int /\ j >= 1 /\ j <= n /\ n <= Len(q)
    BY <1>1, <1>2, <1>3, SMT
  <2>2. j - 1 \in 1..Len(q) - 1 /\ (j - 1) + 1 = j
    BY <1>1, <2>1, SMT
  <2> QED
    BY <1>1, <1>3, <2>1, <2>2, SMT
<1>4. ASSUME t # None PROVE \E j \in 1..Len(Tail(q)) : Tail(q)[j] = Connected(Genesis)
  <2>1. PICK j \in 1..Len(q) : q[j] = Connected(Genesis)
    BY <1>4, SMT DEF FromGenesis
  <2>2. Len(q) \in 1..Len(q)
    BY <1>1, SMT
  <2> QED
    BY <1>1, <1>3, <2>1, <2>2
<1>5. ASSUME NEW i \in 1..Len(Tail(q)), Tail(q)[i].type = "BlockConnected"
      PROVE  \E j \in 1..i : Tail(q)[j] = Connected(Genesis)
  <2>1. i + 1 \in 1..Len(q) /\ q[i + 1].type = "BlockConnected" /\ (i + 1) - 1 = i
    BY <1>1, <1>5, SMT
  <2>2. PICK j \in 1..i + 1 : q[j] = Connected(Genesis)
    BY <2>1 DEF FromGenesis
  <2> QED
    BY <1>3, <2>1, <2>2
<1> QED
  BY <1>4, <1>5 DEF FromGenesis

(* Appending several. *)
LEMMA QueueConcat ==
    ASSUME NEW q \in Seq(Event), NEW s \in Seq(Event), NEW t, NEW u, FromGenesis(q, t),
           t = None => s # <<>> /\ s[1] = Connected(Genesis)
    PROVE  FromGenesis(q \o s, u)
<1>1. /\ Len(q \o s) = Len(q) + Len(s) /\ Len(q) \in Nat /\ Len(s) \in Nat
      /\ \A i \in 1..Len(q) + Len(s) : (q \o s)[i] = IF i <= Len(q) THEN q[i] ELSE s[i - Len(q)]
  BY ConcatProperties, LenProperties
<1>2. \A i \in 1..Len(q) : i \in 1..Len(q) + Len(s) /\ (q \o s)[i] = q[i]
  BY <1>1, SMT
<1>3. \E k \in 1..Len(q) + Len(s) : (q \o s)[k] = Connected(Genesis) /\ k <= Len(q) + 1
  <2>1. CASE t # None
    <3>1. PICK k \in 1..Len(q) : q[k] = Connected(Genesis)
      BY <2>1 DEF FromGenesis
    <3> QED
      BY <1>1, <1>2, <3>1, SMT
  <2>2. CASE t = None
    <3>1. Len(s) \in Nat \ {0} /\ s[1] = Connected(Genesis)
      BY <2>2, EmptySeq
    <3>2. Len(q) + 1 \in 1..Len(q) + Len(s) /\ ~(Len(q) + 1 <= Len(q)) /\ (Len(q) + 1) - Len(q) = 1
      BY <1>1, <3>1, SMT
    <3> QED
      BY <1>1, <3>1, <3>2, SMT
  <2> QED
    BY <2>1, <2>2
<1>4. ASSUME NEW i \in 1..Len(q) + Len(s), (q \o s)[i].type = "BlockConnected"
      PROVE  \E j \in 1..i : (q \o s)[j] = Connected(Genesis)
  <2>1. CASE i <= Len(q)
    <3>1. i \in 1..Len(q) /\ q[i].type = "BlockConnected"
      BY <1>1, <1>4, <2>1, SMT
    <3>2. PICK j \in 1..i : q[j] = Connected(Genesis)
      BY <3>1 DEF FromGenesis
    <3>3. j \in 1..Len(q)
      BY <3>1, <1>1, SMT
    <3> QED
      BY <1>2, <3>2, <3>3
  <2>2. CASE ~(i <= Len(q))
    <3>1. PICK k \in 1..Len(q) + Len(s) : (q \o s)[k] = Connected(Genesis) /\ k <= Len(q) + 1
      BY <1>3
    <3>2. k \in 1..i
      BY <1>1, <2>2, <3>1, SMT
    <3> QED
      BY <3>1, <3>2
  <2> QED
    BY <2>1, <2>2
<1> QED
  BY <1>1, <1>3, <1>4 DEF FromGenesis

(* The same for what the events name. *)
LEMMA NamedAppend ==
    ASSUME NEW q \in Seq(Event), NEW k, Named(q, k), NEW e \in Event, e.type # "BlockConnected",
           e.type = "ChainStateFlushed" => e.block \in k
    PROVE  Named(Append(q, e), k)
<1>1. /\ Len(Append(q, e)) = Len(q) + 1 /\ Append(q, e)[Len(q) + 1] = e /\ Len(q) \in Nat
      /\ \A i \in 1..Len(q) : Append(q, e)[i] = q[i]
  BY AppendProperties, LenProperties, SMT
<1>2. \A i \in 1..Len(q) + 1 : i \in 1..Len(q) \/ i = Len(q) + 1
  BY <1>1, SMT
<1> QED
  BY <1>1, <1>2 DEF Named

(* What is left in the queue stays named. *)
LEMMA NamedTail ==
    ASSUME NEW q \in Seq(Event), q # <<>>, NEW k, Named(q, k)
    PROVE  Named(Tail(q), k)
<1>1. /\ Len(Tail(q)) = Len(q) - 1 /\ Len(q) \in Nat \ {0}
      /\ \A i \in 1..Len(q) - 1 : Tail(q)[i] = q[i + 1]
  BY HeadTailProperties, EmptySeq
<1>2. \A i \in 1..Len(q) - 1 : i + 1 \in 1..Len(q)
  BY <1>1, SMT
<1> QED
  BY <1>1, <1>2 DEF Named

(* Several events, each of which is named. *)
LEMMA NamedConcat ==
    ASSUME NEW q \in Seq(Event), NEW s \in Seq(Event), NEW k, Named(q, k),
           \A i \in 1..Len(s) : s[i].type = "BlockConnected" /\ s[i].block # None
    PROVE  Named(q \o s, k)
<1>1. /\ Len(q \o s) = Len(q) + Len(s) /\ Len(q) \in Nat /\ Len(s) \in Nat
      /\ \A i \in 1..Len(q) + Len(s) : (q \o s)[i] = IF i <= Len(q) THEN q[i] ELSE s[i - Len(q)]
  BY ConcatProperties, LenProperties
<1>2. ASSUME NEW i \in 1..Len(q) + Len(s)
      PROVE  (i \in 1..Len(q) /\ (q \o s)[i] = q[i]) \/ (i - Len(q) \in 1..Len(s) /\ (q \o s)[i] = s[i - Len(q)])
  BY <1>1, SMT
<1> QED
  BY <1>1, <1>2 DEF Named

-----------------------------------------------------------------------------
(* The steps of the sync thread. *)

(* A step of the index that brings the position to p restores IInv. *)
LEMMA Restores ==
    ASSUME IInv, phase = "up", phase' = "up", fatal' = FALSE, UNCHANGED <<tip, known, flushed>>,
           queue' \in Seq(Event), Named(queue', known),
           synced' /\ best' = None /\ callback'.pc = "idle" => FromGenesis(queue', tip),
           ControlOK', Entries', Durable', Turns', NEW p, IndexedTo(p)', Position' = p
    PROVE  IInv'
<1>1. TypeOK
  BY DEF IInv
<1>2. TypeOK'
  BY <1>1, SMT DEF TypeOK, ChainstateOK, BlocksOf, ChainOf
<1>3. Announced'
  BY DEF Announced
<1>4. IndexedTo(Position)'
  BY DEF IndexedTo
<1> QED
  BY <1>2, <1>3, <1>4 DEF IInv

(* The same for steps of the sync thread. *)
LEMMA SyncRestores ==
    ASSUME IInv, phase = "up", phase' = "up", fatal' = FALSE, chainstate' = chainstate,
           callback' = callback, ControlOK', Entries', Durable', Turns',
           NEW p, IndexedTo(p)', Position' = p,
           synced' => best' # None \/ (synced /\ best' = best)
    PROVE  IInv'
<1>1. TypeOK /\ Announced
  BY SMT DEF IInv
<1>2. tip' = tip /\ known' = known /\ flushed' = flushed /\ queue' = queue
  BY DEF chainstate
<1>3. synced' /\ best' = None /\ callback'.pc = "idle" => FromGenesis(queue', tip)
  BY <1>1, <1>2 DEF Announced
<1>4. queue' \in Seq(Event) /\ Named(queue', known)
  BY <1>1, <1>2, SMT DEF Announced, TypeOK
<1> QED
  BY <1>2, <1>3, <1>4, Restores

(* StartBackgroundSync. *)
LEMMA SyncStartGood ==
    ASSUME IInv, SyncStart
    PROVE  IInv'
<1>1. /\ phase = "up" /\ sync.pc = "off" /\ tip # None
      /\ sync' = [pc |-> IF synced THEN "done" ELSE "loop", pindex |-> best]
      /\ UNCHANGED <<chainstate, callback, phase, fatal, memory, database>>
  BY SMT DEF SyncStart, SyncStep, At
<1>2. UNCHANGED <<tip, best, synced, stats, locator, muhash, byHeight, byHash>>
  BY <1>1, SMT DEF chainstate, memory, database
<1>3. TypeOK /\ Entries /\ Durable /\ IndexedTo(Position) /\ Turns /\ fatal = FALSE
  BY <1>1, SMT DEF IInv
<1>4. PICK p \in Pointer : p = best
  BY <1>3, SMT DEF TypeOK, ControlOK
<1>5. Position = p /\ Position' = p
  BY <1>1, <1>2, <1>4 DEF Position
<1>6. IndexedTo(p)'
  BY <1>2, <1>3, <1>5 DEF IndexedTo
<1>7. ControlOK' /\ Entries' /\ Durable'
  BY <1>1, <1>2, <1>3 DEF TypeOK, ControlOK, Entries, Durable
<1>8. Turns'
  BY <1>1, <1>2, <1>3, SMT DEF Turns
<1> QED
  BY <1>1, <1>2, <1>3, <1>5, <1>6, <1>7, <1>8, SyncRestores

(* The steps that end with a commit at the position. *)
LEMMA SyncCommitGood ==
    ASSUME IInv, SyncInterrupted \/ SyncFinished \/ SyncWrite
    PROVE  IInv'
<1>1. /\ phase = "up" /\ sync.pc \in {"loop", "write"}
      /\ UNCHANGED <<chainstate, callback, phase, fatal, stats>>
      /\ best' = Position /\ Commit(Position, stats)
  BY SMT DEF SyncInterrupted, SyncFinished, SyncWrite, SyncStep, Position
<1>2. UNCHANGED tip
  BY <1>1 DEF chainstate
<1>3. TypeOK /\ Entries /\ Durable /\ IndexedTo(Position) /\ Turns /\ fatal = FALSE
  BY <1>1, SMT DEF IInv
<1>4. PICK p \in Pointer : p = Position
  BY <1>3 DEF IndexedTo
<1>5. Entries' /\ Durable' /\ IndexedTo(p)'
  BY <1>1, <1>3, <1>4, CommitKeeps
<1>6. ~synced /\ callback.pc = "idle" /\ tip # None
  BY <1>1, <1>3 DEF Turns
<1>7. CASE SyncInterrupted \/ SyncFinished
  <2>1. sync' = [pc |-> "done", pindex |-> None] /\ synced' \in BOOLEAN
    BY <1>6, <1>7, <1>3 DEF SyncInterrupted, SyncFinished, At, TypeOK, ControlOK
  <2>2. Position' = p
    BY <1>1, <1>4, <2>1 DEF Position
  <2>3. ControlOK'
    BY <1>1, <1>3, <1>4, <2>1 DEF TypeOK, ControlOK, Pointer
  <2>4. Turns'
    BY <1>1, <1>6, <2>1, SMT DEF Turns
  <2>5. synced' => best' # None
    <3>1. CASE SyncInterrupted
      BY <1>6, <3>1, SMT DEF SyncInterrupted
    <3>2. CASE SyncFinished
      <4>1. Common = Height(tip) /\ sync.pc = "loop" /\ p = sync.pindex
        BY <1>4, <3>2 DEF SyncFinished, SyncStep, Position
      <4>2. tip \in Block /\ Height(tip) \in Nat \ {0} /\ tip \in Pointer
        BY <1>3, <1>6, Chains DEF TypeOK, ChainstateOK, Pointer
      <4>3. Common \in 0..Len(ChainOf(p))
        BY <4>1, <4>2, Forks DEF Common
      <4>4. p # None
        BY <4>1, <4>2, <4>3, PointerChains, SMT
      <4> QED
        BY <1>1, <1>4, <4>4
    <3> QED
      BY <1>7, <3>1, <3>2
  <2> QED
    BY <1>1, <1>3, <1>5, <2>2, <2>3, <2>4, <2>5, SyncRestores
<1>8. CASE SyncWrite
  <2>1. /\ sync.pc = "write" /\ sync' = [pc |-> "append", pindex |-> sync.pindex] /\ synced' = synced
    BY <1>8 DEF SyncWrite, SyncStep, At
  <2>2. Position' = p
    BY <1>4, <2>1 DEF Position, Parent, Height
  <2>3. ControlOK'
    BY <1>1, <1>3, <1>4, <2>1, SMT DEF TypeOK, ControlOK, Pointer
  <2>4. Turns'
    BY <1>1, <1>2, <1>3, <1>6, <2>1 DEF Turns
  <2> QED
    BY <1>1, <1>3, <1>5, <1>6, <2>1, <2>2, <2>3, <2>4, SyncRestores
<1> QED
  BY <1>7, <1>8

(* Where the chain of the thread parts from the active one. *)
LEMMA ForkFacts ==
    ASSUME TypeOK, tip # None
    PROVE  /\ Common \in Nat /\ Common <= Len(ChainOf(sync.pindex)) /\ Common <= Height(tip)
           /\ tip \in Block /\ Height(tip) \in Nat
           /\ sync.pindex # None => /\ Common >= 1 /\ Chain[tip][Common] \in Block
                                    /\ IsAncestor(Chain[tip][Common], sync.pindex)
                                    /\ Height(Chain[tip][Common]) = Common
           /\ Common < Height(tip) => /\ Chain[tip][Common + 1] \in Block
                                      /\ Parent(Chain[tip][Common + 1]) =
                                           IF Common = 0 THEN None ELSE Chain[tip][Common]
<1> DEFINE n == Common
           s == sync.pindex
<1>1. tip \in Block /\ tip \in Pointer /\ s \in Pointer /\ Height(tip) \in Nat \ {0}
      /\ ChainOf(tip) = Chain[tip] /\ Len(ChainOf(tip)) = Height(tip)
  <2>1. tip \in Pointer /\ s \in Pointer
    BY SMT DEF TypeOK, ChainstateOK, ControlOK
  <2>2. tip \in Block
    BY <2>1 DEF Pointer
  <2> QED
    BY <2>1, <2>2, Chains, PointerChains
<1>2. /\ n \in 0..Len(ChainOf(s)) /\ n <= Len(ChainOf(tip))
      /\ n > 0 => ChainOf(s)[n] = ChainOf(tip)[n]
      /\ s # None => n >= 1
  BY <1>1, Forks DEF Common
<1>3. Len(ChainOf(s)) \in Nat
  BY <1>1, PointerChains
<1> HIDE DEF n, s
<1>4. n \in Nat /\ n <= Len(ChainOf(s)) /\ n <= Height(tip)
  BY <1>1, <1>2, <1>3, SMT
<1>5. ASSUME s # None
      PROVE  n >= 1 /\ Chain[tip][n] \in Block /\ IsAncestor(Chain[tip][n], s) /\ Height(Chain[tip][n]) = n
  <2>1. s \in Block /\ ChainOf(s) = Chain[s] /\ Len(ChainOf(s)) = Height(s) /\ n >= 1
    BY <1>1, <1>2, <1>5, PointerChains
  <2>2. n \in 1..Height(s) /\ Chain[s][n] = Chain[tip][n]
    BY <1>1, <1>2, <1>4, <2>1, Chains, SMT
  <2> QED
    BY <2>1, <2>2, Prefixes, OnChainBelow, SMT
<1>6. ASSUME n < Height(tip)
      PROVE  /\ Chain[tip][n + 1] \in Block
             /\ Parent(Chain[tip][n + 1]) = IF n = 0 THEN None ELSE Chain[tip][n]
  <2>1. n + 1 \in 1..Height(tip) /\ n + 1 \in 1..n + 1 /\ (n + 1) - 1 = n
    BY <1>1, <1>4, <1>6, SMT
  <2>2. /\ Chain[tip][n + 1] \in Block /\ Height(Chain[tip][n + 1]) = n + 1
        /\ \A j \in 1..n + 1 : Chain[Chain[tip][n + 1]][j] = Chain[tip][j]
    BY <1>1, <2>1, Prefixes
  <2>3. CASE n = 0
    BY <2>2, <2>3, SMT DEF Parent
  <2>4. CASE n # 0
    <3>1. n \in 1..n + 1 /\ n + 1 # 1
      BY <1>4, <2>4, SMT
    <3> QED
      BY <2>1, <2>2, <2>4, <3>1 DEF Parent
  <2> QED
    BY <2>2, <2>3, <2>4
<1> QED
  BY <1>1, <1>4, <1>5, <1>6 DEF n, s

(* The thread moves on to the next block of the chain. *)
LEMMA SyncNextGood ==
    ASSUME IInv, SyncNext
    PROVE  IInv'
<1>1. /\ phase = "up" /\ sync.pc = "loop" /\ Common < Height(tip) /\ Common = Len(ChainOf(sync.pindex))
      /\ sync' = [pc |-> "write", pindex |-> Chain[tip][Common + 1]]
      /\ UNCHANGED <<chainstate, callback, phase, fatal, memory, database>>
  BY DEF SyncNext, SyncStep, At
<1>2. UNCHANGED <<tip, best, synced, stats, locator, muhash, byHeight, byHash>>
  BY <1>1 DEF chainstate, memory, database
<1>3. TypeOK /\ Entries /\ Durable /\ IndexedTo(Position) /\ Turns /\ fatal = FALSE
  BY <1>1 DEF IInv
<1>4. PICK p \in Pointer : p = sync.pindex
  BY <1>3 DEF TypeOK, ControlOK
<1>5. PICK b \in Block : b = Chain[tip][Common + 1]
  BY <1>1, <1>3, ForkFacts DEF Turns
<1>6. Parent(b) = p
  <2>1. tip # None
    BY <1>1, <1>3 DEF Turns
  <2>2. CASE p = None
    <3>1. Common = 0
      BY <1>1, <1>4, <2>2, PointerChains
    <3> QED
      BY <1>1, <1>3, <1>5, <2>1, <2>2, <3>1, ForkFacts
  <2>3. CASE p # None
    <3>1. Common >= 1 /\ IsAncestor(Chain[tip][Common], p) /\ Height(Chain[tip][Common]) = Common
      BY <1>3, <1>4, <2>1, <2>3, ForkFacts
    <3>2. Common = Height(p) /\ p \in Block
      BY <1>1, <1>4, <2>3, PointerChains
    <3>3. Chain[tip][Common] = p
      BY <3>1, <3>2, Chains DEF IsAncestor
    <3>4. Common # 0
      BY <3>1, SMT
    <3> QED
      BY <1>1, <1>3, <1>5, <2>1, <3>3, <3>4, ForkFacts
  <2> QED
    BY <2>2, <2>3
<1>7. Position = p /\ Position' = p
  BY <1>1, <1>4, <1>5, <1>6 DEF Position
<1>8. IndexedTo(p)' /\ Entries' /\ Durable'
  BY <1>2, <1>3, <1>7 DEF IndexedTo, Entries, Durable
<1>9. ControlOK'
  BY <1>1, <1>2, <1>3, <1>5 DEF TypeOK, ControlOK, Pointer
<1>10. Turns'
  BY <1>1, <1>2, <1>3, <1>5, Chains DEF Turns
<1> QED
  BY <1>1, <1>2, <1>3, <1>7, <1>8, <1>9, <1>10, SyncRestores

(* Nothing in memory matters any more. *)
LEMMA AbortsGood ==
    ASSUME IInv, NEW why \in {"assert", "null"}, Aborts(why), queue' \in Seq(Event),
           UNCHANGED <<tip, known, flushed>>
    PROVE  IInv'
<1>1. TypeOK /\ Entries /\ Durable /\ fatal = FALSE
  BY DEF IInv
<1>2. /\ phase' = why
      /\ UNCHANGED <<fatal, best, synced, stats, sync, callback, locator, muhash, byHeight, byHash>>
  BY DEF Aborts, memory, database
<1>3. TypeOK'
  BY <1>1, <1>2 DEF TypeOK, ChainstateOK, ControlOK, BlocksOf, ChainOf
<1>4. Entries' /\ Durable'
  BY <1>1, <1>2 DEF Entries, Durable
<1> QED
  BY <1>1, <1>2, <1>3, <1>4 DEF IInv

(* The thread finds its block reorganised away. *)
LEMMA SyncRewindGood ==
    ASSUME OnlyCommitsFail, IInv, SyncRewind
    PROVE  IInv' /\ (phase' = "assert" => sync.pindex # best)
<1> DEFINE new == Chain[tip][Common]
<1>1. /\ phase = "up" /\ sync.pc = "loop" /\ Common < Height(tip) /\ Common < Len(ChainOf(sync.pindex))
      /\ UNCHANGED <<chainstate, callback>>
      /\ IF ~RewindAsserts(sync.pindex, new) THEN Aborts("assert")
         ELSE \/ RewindCopies(sync.pindex, new) /\ sync' = At("commit", sync.pindex)
              \/ CopyFails(sync.pindex, new) /\ sync' = At("done", None)
  BY DEF SyncRewind, SyncStep
<1>2. TypeOK /\ Entries /\ Durable /\ IndexedTo(Position) /\ Turns /\ fatal = FALSE
  BY <1>1 DEF IInv
<1>3. tip # None /\ ~synced /\ callback.pc = "idle"
  BY <1>1, <1>2 DEF Turns
<1>4. PICK p \in Pointer : p = sync.pindex
  BY <1>2 DEF TypeOK, ControlOK
<1>5. p # None /\ p \in Block /\ Len(ChainOf(p)) = Height(p)
  <2>1. Common \in Nat
    BY <1>2, <1>3, ForkFacts
  <2>2. p # None
    BY <1>1, <1>4, <2>1, PointerChains, SMT
  <2> QED
    BY <2>2, PointerChains
<1>6. /\ new \in Block /\ IsAncestor(new, p) /\ Height(new) = Common /\ Common \in Nat /\ Common >= 1
  BY <1>2, <1>3, <1>4, <1>5, ForkFacts
<1>7. Position = p
  BY <1>1, <1>4 DEF Position
<1>8. CASE ~RewindAsserts(p, new)
  <2>1. Aborts("assert") /\ queue' = queue /\ UNCHANGED <<tip, known, flushed>>
    BY <1>1, <1>4, <1>8 DEF chainstate
  <2>2. p # best
    BY <1>6, <1>8 DEF RewindAsserts
  <2> QED
    BY <1>2, <1>4, <2>1, <2>2, AbortsGood DEF TypeOK
<1>9. CASE RewindAsserts(p, new)
  <2>1. best = p
    BY <1>9, SMT DEF RewindAsserts
  <2>2. ~CopyFails(p, new)
    BY <1>2, <1>5, <1>6, <1>7, CopyWorks DEF IndexedTo
  <2>3. RewindCopies(p, new) /\ sync' = [pc |-> "commit", pindex |-> p]
    BY <1>1, <1>4, <1>9, <2>2 DEF At
  <2>4. Entries' /\ Durable' /\ IndexedTo(p)'
    BY <1>2, <1>7, <2>3, CopyKeeps
  <2>5. UNCHANGED <<phase, fatal, best, synced, tip>>
    BY <1>1, <2>3 DEF RewindCopies, memory, chainstate
  <2>6. Position' = p
    BY <2>3 DEF Position
  <2>7. ControlOK'
    BY <1>1, <1>2, <2>3, <2>5 DEF TypeOK, ControlOK
  <2>8. Common' = Common
    BY <1>4, <2>3, <2>5 DEF Common
  <2>9. Turns'
    <3>1. Common \in 1..Height(best) - 1
      <4>1. Common \in Nat /\ Common >= 1
        BY <1>6
      <4>2. Common < Height(best)
        BY <1>1, <1>4, <1>5, <2>1
      <4>3. Height(best) \in Nat
        BY <1>5, <2>1, Chains
      <4> QED
        BY <4>1, <4>2, <4>3, SMT
    <3>2. sync'.pc = "commit" /\ sync'.pindex = best /\ best # None
      BY <1>5, <2>1, <2>3
    <3>3. callback'.pc = "idle" /\ ~synced' /\ tip' # None
      BY <1>1, <1>3, <2>5, SMT
    <3> QED
      BY <1>1, <2>5, <2>8, <3>1, <3>2, <3>3 DEF Turns, Height
  <2> QED
    BY <1>1, <1>2, <1>3, <2>4, <2>5, <2>6, <2>7, <2>9, SyncRestores
<1> QED
  BY <1>8, <1>9

(* The rest of Rewind in the thread. *)
LEMMA SyncRewoundGood ==
    ASSUME OnlyCommitsFail, IInv, SyncRewound
    PROVE  IInv' /\ phase' # "assert"
<1> DEFINE new == Chain[tip][Common]
<1>1. /\ phase = "up" /\ sync.pc = "commit"
      /\ UNCHANGED <<chainstate, callback>>
      /\ \/ RewindCommits(sync.pindex, new) /\ sync' = At("write", Chain[tip][Common + 1])
         \/ CommitFails(sync.pindex, new) \/ ReverseFails(sync.pindex, new)
         \/ ReverseAsserts(sync.pindex, new)
  BY DEF SyncRewound, SyncStep
<1>2. TypeOK /\ Entries /\ Durable /\ IndexedTo(Position) /\ Turns /\ fatal = FALSE
  BY <1>1 DEF IInv
<1>3. /\ tip # None /\ ~synced /\ callback.pc = "idle" /\ sync.pindex # None
      /\ Common \in 1..Height(best) - 1 /\ Common < Height(tip)
  BY <1>1, <1>2 DEF Turns
<1>4. PICK p \in Block : p = sync.pindex
  BY <1>2, <1>3 DEF TypeOK, ControlOK, Pointer
<1>5. PICK n \in Block : n = new /\ IsAncestor(n, p)
  BY <1>2, <1>3, <1>4, ForkFacts
<1>6. PICK b \in Block : b = Chain[tip][Common + 1] /\ Parent(b) = n
  <2>1. Common # 0
    BY <1>2, <1>3, ForkFacts, SMT
  <2> QED
    BY <1>2, <1>3, <1>5, <2>1, ForkFacts
<1>7. Position = p
  BY <1>1, <1>4 DEF Position
<1>8. RewindCommits(p, n) /\ sync' = [pc |-> "write", pindex |-> b]
  BY <1>1, <1>2, <1>4, <1>5, <1>6, <1>7, ReverseWorks DEF At
<1>9. Entries' /\ Durable' /\ IndexedTo(n)' /\ best' = n
  BY <1>2, <1>5, <1>7, <1>8, RewindKeeps
<1>10. UNCHANGED <<phase, fatal, synced, tip>>
  BY <1>1, <1>8 DEF RewindCommits, chainstate
<1>11. Position' = n
  BY <1>6, <1>8 DEF Position
<1>12. ControlOK'
  BY <1>1, <1>2, <1>8, <1>9, <1>10 DEF TypeOK, ControlOK, Pointer
<1>13. Turns'
  BY <1>1, <1>3, <1>8, <1>10, Chains DEF Turns
<1> QED
  BY <1>1, <1>2, <1>3, <1>9, <1>10, <1>11, <1>12, <1>13, SyncRestores

(* The thread indexes a block. *)
LEMMA SyncAppendGood ==
    ASSUME OnlyCommitsFail, IInv, SyncAppend
    PROVE  IInv'
<1>1. /\ phase = "up" /\ sync.pc \in {"write", "append"}
      /\ UNCHANGED <<chainstate, callback, phase, best, synced>>
      /\ \/ CustomAppend(sync.pindex) /\ sync' = At("loop", sync.pindex) /\ UNCHANGED fatal
         \/ AppendFails(sync.pindex)
  BY SMT DEF SyncAppend, SyncStep
<1>2. TypeOK /\ Entries /\ Durable /\ IndexedTo(Position) /\ Turns /\ fatal = FALSE
  BY <1>1 DEF IInv
<1>3. tip # None /\ ~synced /\ callback.pc = "idle" /\ sync.pindex # None
  BY <1>1, <1>2, SMT DEF Turns
<1>4. PICK b \in Block : b = sync.pindex
  BY <1>2, <1>3 DEF TypeOK, ControlOK, Pointer
<1>5. Position = Parent(b)
  BY <1>1, <1>4 DEF Position
<1>6. CustomAppend(b) /\ sync' = [pc |-> "loop", pindex |-> b] /\ UNCHANGED fatal
  <2>1. CanAppend(b)
    BY <1>2, <1>5, Appendable DEF IndexedTo
  <2> QED
    BY <1>1, <1>4, <2>1 DEF AppendFails, OnlyCommitsFail, At
<1>7. Entries' /\ Durable' /\ IndexedTo(b)'
  BY <1>2, <1>5, <1>6, Appended
<1>8. Position' = b
  BY <1>6 DEF Position
<1>9. ControlOK'
  BY <1>1, <1>2, <1>6 DEF TypeOK, ControlOK, Pointer
<1>10. Turns'
  BY <1>1, <1>3, <1>6 DEF Turns, chainstate
<1> QED
  BY <1>1, <1>2, <1>3, <1>6, <1>7, <1>8, <1>9, <1>10, SyncRestores
=============================================================================
