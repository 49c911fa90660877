---------------------------- MODULE BlockApiProofs ---------------------------
(***************************************************************************)
(* Proofs about BlockApi, for every chain, set of requests, set of limits, *)
(* word size and set of faults: a list is complete or empty, a block asked *)
(* for by a number other than 0 is that block, and it is answered without  *)
(* transactions only if it has none.                                       *)
(***************************************************************************)
EXTENDS BlockApi, FiniteSetTheorems, TLAPS

(* The numbers ListBlocks(r) is asked for.                                   *)
Asked(r) == latest[r] + 1 - arg[r] .. latest[r]

(* What the handler knows at each place: the loops start at 0 and stay in    *)
(* the window, a row is looked for before there is one.                      *)
PlaceOK(r) ==
  /\ pc[r] \in {"new", "head"} => done[r] = 0
  /\ pc[r] \in ListPcs => arg[r] \in Limits /\ detail[r] = None
  /\ pc[r] \in ListPcs \ {"head"} => done[r] <= Cardinality(Window(r))
  /\ pc[r] \in BlockPcs => arg[r] \in Blocks
  /\ pc[r] \in {"new", "rowRedis", "rowMysql", "rowRpc"} => detail[r] = None
  /\ pc[r] \in {"txMysql", "txRpc"} => detail[r] # None
  /\ pc[r] # "done" => answer[r] = None

(* What GetBlock answers with and will answer with.                          *)
RowOK(r) ==
  detail[r] # None =>
    /\ arg[r] # 0 => detail[r] = arg[r]
    /\ Answered(r) => /\ answer[r].blocks = {detail[r]}
                      /\ answer[r].txs = {} => Txs[arg[r]] = 0

(* What ListBlocks answers with.                                             *)
ListOK(r) ==
  Answered(r) /\ detail[r] = None => answer[r].blocks \in {Asked(r), {}}

RequestOK(r) == PlaceOK(r) /\ RowOK(r) /\ ListOK(r)

BlockInv == TypeOK /\ \A r \in Requests : RequestOK(r)

-----------------------------------------------------------------------------
LEMMA BlocksNat == Blocks \subseteq Nat /\ 0 \in Blocks
BY BlockApiAssumption DEF Blocks

(* The loop of the handlers goes over the numbers asked for, or, when the    *)
(* subtraction wraps, over none.                                             *)
LEMMA WindowAllOrNone ==
  ASSUME NEW r \in Requests, latest[r] \in Blocks, arg[r] \in Limits
  PROVE  /\ (Window(r) = Asked(r) /\ Cardinality(Window(r)) = arg[r]) \/ Window(r) = {}
         /\ IsFiniteSet(Window(r))
         /\ Cardinality(Window(r)) \in 0 .. latest[r]
         /\ Window(r) \subseteq Blocks
<1> DEFINE l == latest[r]
           a == arg[r]
<1>1. /\ UintSize \in Nat /\ a \in 0 .. UintSize - 1
      /\ l \in Nat /\ l < UintSize /\ l <= MaxHead /\ MaxHead \in Nat
  <2>1. /\ MaxHead \in Nat /\ UintSize \in Nat /\ MaxHead < UintSize
        /\ Limits \subseteq 0 .. UintSize - 1
    BY BlockApiAssumption
  <2>2. l \in 0 .. MaxHead
    BY DEF Blocks
  <2>3. a \in 0 .. UintSize - 1
    BY <2>1
  <2> QED
    BY <2>1, <2>2, <2>3
<1>2. Window(r) = {i \in 0 .. l : i > (l + UintSize - a) % UintSize}
  BY DEF Window
<1>3. Window(r) \subseteq Blocks
  <2>1. 0 .. l \subseteq 0 .. MaxHead
    BY <1>1
  <2> QED
    BY <1>2, <2>1 DEF Blocks
<1>4. CASE a <= l
  <2>1. l - a \in Nat /\ l - a < UintSize /\ l + UintSize - a = (l - a) + UintSize
    BY <1>1, <1>4
  <2>2. ((l - a) + UintSize) % UintSize = l - a
    <3> DEFINE x == l - a
    <3>1. x \in Nat /\ x < UintSize
      BY <2>1
    <3> HIDE DEF x
    <3>2. (x + UintSize) % UintSize = x
      BY <1>1, <3>1
    <3> QED
      BY <3>2 DEF x
  <2>3. Window(r) = l + 1 - a .. l
    BY <1>1, <1>2, <1>4, <2>1, <2>2
  <2>4. /\ IsFiniteSet(l + 1 - a .. l)
        /\ Cardinality(l + 1 - a .. l) = IF l + 1 - a > l THEN 0 ELSE l - (l + 1 - a) + 1
    <3>1. l + 1 - a \in Int /\ l \in Int
      BY <1>1
    <3> QED
      BY <3>1, FS_Interval
  <2>5. (IF l + 1 - a > l THEN 0 ELSE l - (l + 1 - a) + 1) = a
    BY <1>1
  <2> HIDE DEF l, a
  <2>6. Cardinality(Window(r)) = a /\ IsFiniteSet(Window(r))
    BY <2>3, <2>4, <2>5
  <2> QED
    BY <1>1, <1>3, <1>4, <2>3, <2>6 DEF Asked, l, a
<1>5. CASE a > l
  <2>1. l + UintSize - a \in Nat /\ l + UintSize - a < UintSize
    BY <1>1, <1>5
  <2>2. (l + UintSize - a) % UintSize = l + UintSize - a
    <3> DEFINE x == l + UintSize - a
    <3>1. x \in Nat /\ x < UintSize
      BY <2>1
    <3> HIDE DEF x
    <3>2. x % UintSize = x
      BY <1>1, <3>1
    <3> QED
      BY <3>2 DEF x
  <2>3. Window(r) = {}
    BY <1>1, <1>2, <1>5, <2>2
  <2>4. IsFiniteSet({}) /\ Cardinality({}) = 0
    BY FS_EmptySet
  <2> HIDE DEF l, a
  <2>5. Cardinality(Window(r)) = 0 /\ IsFiniteSet(Window(r))
    BY <2>3, <2>4
  <2> QED
    BY <1>1, <1>3, <2>3, <2>5 DEF l, a
<1> QED
  BY <1>1, <1>4, <1>5


(* The window is fixed once the head is read.                                *)
LEMMA SameWindow ==
  ASSUME NEW r \in Requests, latest'[r] = latest[r], arg'[r] = arg[r]
  PROVE  Window(r)' = Window(r) /\ Asked(r)' = Asked(r)
BY DEF Window, Asked

(* A request another one's step leaves alone.                                *)
LEMMA SameRequest ==
  ASSUME NEW r \in Requests, RequestOK(r), latest'[r] = latest[r], arg'[r] = arg[r],
         done'[r] = done[r], detail'[r] = detail[r], answer'[r] = answer[r],
         pc'[r] = pc[r] \/ (pc[r] \notin {"new", "done"} /\ pc'[r] = "cut")
  PROVE  RequestOK(r)'
BY SameWindow DEF RequestOK, PlaceOK, RowOK, ListOK, Answered, ListPcs, BlockPcs

LEMMA OneRequest ==
  ASSUME BlockInv, NEW r \in Requests, TypeOK', RequestOK(r)',
         \A q \in Requests \ {r} :
           /\ latest'[q] = latest[q] /\ arg'[q] = arg[q] /\ done'[q] = done[q]
           /\ detail'[q] = detail[q] /\ answer'[q] = answer[q] /\ pc'[q] = pc[q]
  PROVE  BlockInv'
BY SameRequest DEF BlockInv

LEMMA NoRequest ==
  ASSUME BlockInv, TypeOK', UNCHANGED <<pc, localVars, answer>>
  PROVE  BlockInv'
BY SameRequest DEF BlockInv, localVars

LEMMA InitBlock == Init => BlockInv
<1> SUFFICES ASSUME Init PROVE BlockInv
  OBVIOUS
<1>1. TypeOK
  <2>1. MaxHead \in Nat /\ MaxRetryTime \in Nat \ {0}
    BY BlockApiAssumption
  <2>2. 0 \in 0 .. MaxHead /\ 0 \in 0 .. MaxRetryTime - 1
    BY <2>1
  <2> QED
    BY <2>2 DEF Init, TypeOK, Blocks, Pcs
<1>2. ASSUME NEW r \in Requests PROVE RequestOK(r)
  BY DEF Init, RequestOK, PlaceOK, RowOK, ListOK, Answered, ListPcs, BlockPcs
<1> QED
  BY <1>1, <1>2 DEF BlockInv

(* The chain, the indexer, the exits, and the goroutines that save.          *)
LEMMA EnvironmentBlock ==
  ASSUME BlockInv, Mine \/ IndexerStores \/ RedisRestart \/ Exit
  PROVE  BlockInv'
<1>1. CASE Mine
  <2>1. head + 1 \in Blocks
    BY <1>1, BlockApiAssumption DEF Mine, BlockInv, TypeOK, Blocks
  <2> QED
    BY <1>1, <2>1, NoRequest DEF Mine, BlockInv, TypeOK, storeVars, localVars
<1>2. CASE IndexerStores
  <2>1. 0 .. head \subseteq Blocks
    BY BlockApiAssumption DEF BlockInv, TypeOK, Blocks
  <2>2. ASSUME NEW b \in 0 .. head, NEW i \in 1 .. Txs[b]
        PROVE  <<b, i>> \in Blocks \X Nat
    <3>1. b \in Blocks
      BY <2>1
    <3>2. Txs[b] \in Nat
      BY <3>1, BlockApiAssumption
    <3> QED
      BY <3>1, <3>2
  <2>3. rows' \subseteq Blocks /\ txRows' \subseteq Blocks \X Nat
    <3>1. CASE UNCHANGED txRows
      <4>1. rows' = rows \/ \E b \in 0 .. head : rows' = rows \cup {b}
        BY <1>2 DEF IndexerStores
      <4>2. rows \subseteq Blocks /\ txRows \subseteq Blocks \X Nat
        BY DEF BlockInv, TypeOK
      <4> QED
        BY <2>1, <3>1, <4>1, <4>2
    <3>2. CASE \E b \in 0 .. head : \E i \in 1 .. Txs[b] :
                 txRows' = txRows \cup {<<b, i>>} /\ UNCHANGED rows
      <4>1. PICK b \in 0 .. head : \E i \in 1 .. Txs[b] :
                   txRows' = txRows \cup {<<b, i>>} /\ UNCHANGED rows
        BY <3>2
      <4>2. PICK i \in 1 .. Txs[b] : txRows' = txRows \cup {<<b, i>>} /\ UNCHANGED rows
        BY <4>1
      <4>3. rows \subseteq Blocks /\ txRows \subseteq Blocks \X Nat
        BY DEF BlockInv, TypeOK
      <4> QED
        BY <2>2, <4>2, <4>3
    <3> QED
      BY <1>2, <3>1, <3>2 DEF IndexerStores
  <2>4. TypeOK'
    BY <1>2, <2>3 DEF IndexerStores, BlockInv, TypeOK, localVars
  <2> QED
    BY <1>2, <2>4, NoRequest DEF IndexerStores
<1>3. CASE RedisRestart
  BY <1>3, NoRequest DEF RedisRestart, BlockInv, TypeOK, localVars
<1>4. CASE Exit
  <2>1. unsaved' \subseteq Blocks
    <3>1. \A s \in saves : Range(s.left) \subseteq Blocks
      <4> TAKE s \in saves
      <4>1. s.left \in Seq(Blocks)
        BY DEF BlockInv, TypeOK
      <4> QED
        BY <4>1 DEF Range
    <3>2. ToMysql \subseteq saves
      BY DEF ToMysql
    <3> QED
      BY <1>4, <3>1, <3>2 DEF Exit, BlockInv, TypeOK
  <2>2. TypeOK'
    BY <1>4, <2>1 DEF Exit, BlockInv, TypeOK, localVars, Pcs
  <2>3. ASSUME NEW r \in Requests
        PROVE  /\ pc'[r] = pc[r] \/ (pc[r] \notin {"new", "done"} /\ pc'[r] = "cut")
               /\ latest'[r] = latest[r] /\ arg'[r] = arg[r] /\ done'[r] = done[r]
               /\ detail'[r] = detail[r] /\ answer'[r] = answer[r]
    BY <1>4 DEF Exit, localVars
  <2> QED
    BY <2>2, <2>3, SameRequest DEF BlockInv
<1> QED
  BY <1>1, <1>2, <1>3, <1>4

LEMMA SaveBlock ==
  ASSUME BlockInv, SaveBlockRows
  PROVE  BlockInv'
<1> PICK s \in saves : SaveMysql(s) \/ SaveRedis(s)
  BY DEF SaveBlockRows
<1>1. s.left \in Seq(Blocks)
  BY DEF BlockInv, TypeOK
<1>2. Range(s.left) \subseteq Blocks
  BY <1>1 DEF Range
<1>3. s.left # <<>> => Head(s.left) \in Blocks /\ Tail(s.left) \in Seq(Blocks)
  BY <1>1
<1>4. CASE SaveMysql(s)
  <2>1. TypeOK'
    BY <1>2, <1>4 DEF SaveMysql, SaveBlockRows, BlockInv, TypeOK, localVars
  <2> QED
    BY <2>1, NoRequest DEF SaveBlockRows
<1>5. CASE SaveRedis(s)
  <2>1. CASE /\ s.left # <<>>
             /\ redis' = redis \cup {Head(s.left)}
             /\ saves' = (saves \ {s}) \cup {[s EXCEPT !.left = Tail(@)]}
    <3> DEFINE n == [s EXCEPT !.left = Tail(@)]
    <3>1. n \in [to : {"mysql", "redis"}, left : Seq(Blocks)]
      <4>1. s \in [to : {"mysql", "redis"}, left : Seq(Blocks)]
        BY DEF BlockInv, TypeOK
      <4> QED
        BY <1>3, <2>1, <4>1
    <3>2. saves' = (saves \ {s}) \cup {n}
      BY <2>1
    <3> HIDE DEF n
    <3>3. TypeOK'
      <4>1. redis' \subseteq Blocks
        BY <1>3, <2>1 DEF BlockInv, TypeOK
      <4>2. saves' \subseteq [to : {"mysql", "redis"}, left : Seq(Blocks)]
        BY <3>1, <3>2 DEF BlockInv, TypeOK
      <4>3. UNCHANGED <<head, rows, txRows, unsaved, pc, arg, latest, done, tries, detail, answer>>
        BY <1>5 DEF SaveRedis, SaveBlockRows, localVars
      <4> QED
        BY <4>1, <4>2, <4>3 DEF BlockInv, TypeOK
    <3> QED
      BY <3>3, NoRequest DEF SaveBlockRows
  <2>2. CASE saves' = saves \ {s} /\ UNCHANGED redis
    <3>1. TypeOK'
      BY <1>5, <2>2 DEF SaveRedis, SaveBlockRows, BlockInv, TypeOK, localVars
    <3> QED
      BY <3>1, NoRequest DEF SaveBlockRows
  <2> QED
    BY <1>5, <2>1, <2>2 DEF SaveRedis
<1> QED
  BY <1>4, <1>5

LEMMA GoSaveType ==
  ASSUME TypeOK, NEW blocks \in Seq(Blocks), GoSaveBlockRows(blocks)
  PROVE  saves' \subseteq [to : {"mysql", "redis"}, left : Seq(Blocks)]
<1> DEFINE new == [to : {"mysql", "redis"}, left : {blocks}]
<1>1. new \subseteq [to : {"mysql", "redis"}, left : Seq(Blocks)]
  OBVIOUS
<1>2. saves' = saves \cup new
  BY DEF GoSaveBlockRows
<1> HIDE DEF new
<1> QED
  BY <1>1, <1>2 DEF TypeOK

(* What can be sent.                                                         *)
Answers == [status : {200, 404, 500}, blocks : SUBSET Blocks, txs : SUBSET Nat]

(* What may be answered: an error, a list, a block.                          *)
MayAnswer(r, a) ==
  a.status = 200 =>
    /\ detail[r] = None => a.blocks \in {Asked(r), {}}
    /\ detail[r] # None => a.blocks = {detail[r]} /\ (a.txs = {} => Txs[arg[r]] = 0)

LEMMA AnswerInv ==
  ASSUME BlockInv, NEW r \in Requests,
         NEW a \in Answers,
         pc' = [pc EXCEPT ![r] = "done"], answer' = [answer EXCEPT ![r] = a],
         UNCHANGED <<head, storeVars, localVars>>,
         saves' \subseteq [to : {"mysql", "redis"}, left : Seq(Blocks)],
         MayAnswer(r, a)
  PROVE  BlockInv'
<1> USE DEF storeVars, localVars
<1>1. "done" \in Pcs
  BY DEF Pcs
<1>2. TypeOK'
  BY <1>1 DEF BlockInv, TypeOK, Answers
<1>3. pc'[r] = "done" /\ answer'[r] = a
  BY DEF BlockInv, TypeOK
<1>4. Asked(r)' = Asked(r)
  BY SameWindow
<1>5. RequestOK(r)'
  BY <1>3, <1>4
  DEF MayAnswer, BlockInv, RequestOK, PlaceOK, RowOK, ListOK, Answered, ListPcs, BlockPcs
<1>6. \A q \in Requests \ {r} : answer'[q] = answer[q] /\ pc'[q] = pc[q]
  BY DEF BlockInv, TypeOK
<1> QED
  BY <1>2, <1>5, <1>6, OneRequest

LEMMA AnswerError ==
  ASSUME BlockInv, NEW r \in Requests, NEW code \in {404, 500},
         Answer(r, code, {}, {}), UNCHANGED <<head, storeVars, localVars>>,
         saves' \subseteq [to : {"mysql", "redis"}, left : Seq(Blocks)]
  PROVE  BlockInv'
<1> DEFINE a == [status |-> code, blocks |-> {}, txs |-> {}]
<1>1. /\ a \in Answers
      /\ a.status = code
  BY DEF Answers
<1>2. pc' = [pc EXCEPT ![r] = "done"] /\ answer' = [answer EXCEPT ![r] = a]
  BY DEF Answer, GoTo
<1> HIDE DEF a
<1>3. MayAnswer(r, a)
  BY <1>1 DEF MayAnswer
<1> QED
  BY <1>1, <1>2, <1>3, AnswerInv

(* A failed attempt that is not the last.                                    *)
LEMMA RetryInv ==
  ASSUME BlockInv, NEW r \in Requests, Retry(r),
         UNCHANGED <<head, storeVars, saves, arg, latest, detail>>
  PROVE  BlockInv'
<1> USE DEF storeVars
<1>1. tries' \in [Requests -> 0 .. MaxRetryTime - 1] /\ UNCHANGED <<done, pc, answer>>
  BY BlockApiAssumption DEF Retry, BlockInv, TypeOK
<1>2. TypeOK'
  BY <1>1 DEF BlockInv, TypeOK
<1>3. \A q \in Requests : RequestOK(q)'
  BY <1>1, SameRequest DEF BlockInv
<1> QED
  BY <1>2, <1>3 DEF BlockInv

LEMMA RequestBlockInv ==
  ASSUME BlockInv, NEW r \in Requests, RequestList(r) \/ RequestBlock(r)
  PROVE  BlockInv'
<1> USE DEF RequestList, RequestBlock, GoTo, storeVars
<1>1. TypeOK'
  <2>1. pc' \in [Requests -> Pcs]
    <3>1. "head" \in Pcs /\ "rowRedis" \in Pcs
      BY DEF Pcs, ListPcs, BlockPcs
    <3>2. pc \in [Requests -> Pcs]
      BY DEF BlockInv, TypeOK
    <3>3. \E p \in {"head", "rowRedis"} : pc' = [pc EXCEPT ![r] = p]
      OBVIOUS
    <3> QED
      BY <3>1, <3>2, <3>3
  <2>2. arg' \in [Requests -> Limits \cup Blocks]
    <3> PICK n \in Limits \cup Blocks : arg' = [arg EXCEPT ![r] = n]
      OBVIOUS
    <3> QED
      BY DEF BlockInv, TypeOK
  <2> QED
    BY <2>1, <2>2 DEF BlockInv, TypeOK
<1>2. RequestOK(r)'
  BY DEF BlockInv, TypeOK, RequestOK, PlaceOK, RowOK, ListOK, Answered, ListPcs, BlockPcs
<1>3. \A q \in Requests \ {r} :
        /\ latest'[q] = latest[q] /\ arg'[q] = arg[q] /\ done'[q] = done[q]
        /\ detail'[q] = detail[q] /\ answer'[q] = answer[q] /\ pc'[q] = pc[q]
  BY DEF BlockInv, TypeOK
<1> HIDE DEF RequestList, RequestBlock, GoTo, storeVars
<1> QED
  BY <1>1, <1>2, <1>3, OneRequest

LEMMA AskHeadInv ==
  ASSUME BlockInv, NEW r \in Requests, AskHead(r)
  PROVE  BlockInv'
<1> USE DEF BlockInv, AskHead, storeVars
<1>1. RequestOK(r) /\ pc[r] = "head" /\ answer[r] = None /\ detail[r] = None
      /\ arg[r] \in Limits /\ done[r] = 0
  BY DEF RequestOK, PlaceOK, ListPcs
<1>2. CASE /\ latest' = [latest EXCEPT ![r] = head]
           /\ GoTo(r, "listRedis")
           /\ UNCHANGED answer
  <2>1. TypeOK'
    BY <1>2 DEF TypeOK, GoTo, Pcs, ListPcs
  <2>2. pc'[r] = "listRedis" /\ latest'[r] \in Blocks /\ arg'[r] \in Limits
    BY <1>1, <1>2 DEF TypeOK, GoTo
  <2>3. Cardinality(Window(r)') >= 0
    <3>1. IsFiniteSet(Window(r)') /\ Cardinality(Window(r)') \in Nat
      <4>1. Window(r)' = {i \in 0 .. latest'[r] : i > (latest'[r] + UintSize - arg'[r]) % UintSize}
        BY DEF Window
      <4>2. latest'[r] \in Nat
        BY <2>2, BlocksNat
      <4>3. IsFiniteSet(0 .. latest'[r])
        BY <4>2, FS_Interval
      <4>4. Window(r)' \in SUBSET (0 .. latest'[r])
        BY <4>1
      <4>5. IsFiniteSet(Window(r)')
        BY <4>3, <4>4, FS_Subset
      <4> QED
        BY <4>5, FS_CardinalityType
    <3> QED
      BY <3>1
  <2>4. RequestOK(r)'
    BY <1>1, <1>2, <2>2, <2>3
    DEF RequestOK, PlaceOK, RowOK, ListOK, Answered, ListPcs, BlockPcs
  <2>5. \A q \in Requests \ {r} : latest'[q] = latest[q] /\ pc'[q] = pc[q]
    BY <1>2 DEF TypeOK, GoTo
  <2> QED
    BY <1>2, <2>1, <2>4, <2>5, OneRequest
<1>3. CASE Answer(r, 404, {}, {}) /\ UNCHANGED latest
  <2>1. saves' \subseteq [to : {"mysql", "redis"}, left : Seq(Blocks)]
    BY DEF TypeOK
  <2> QED
    BY <1>3, <2>1, AnswerError DEF localVars
<1> QED
  BY <1>2, <1>3

(* A list is answered with the window, or with nothing.                      *)
LEMMA AnswerList ==
  ASSUME BlockInv, NEW r \in Requests, NEW blocks \in SUBSET Blocks,
         detail[r] = None, blocks \in {Asked(r), {}},
         Answer(r, 200, blocks, {}), UNCHANGED <<head, storeVars, localVars>>,
         saves' \subseteq [to : {"mysql", "redis"}, left : Seq(Blocks)]
  PROVE  BlockInv'
<1> DEFINE a == [status |-> 200, blocks |-> blocks, txs |-> {}]
<1>1. a \in Answers
      /\ a.status = 200 /\ a.blocks = blocks
  BY DEF Answers
<1>2. pc' = [pc EXCEPT ![r] = "done"] /\ answer' = [answer EXCEPT ![r] = a]
  BY DEF Answer, GoTo
<1> HIDE DEF a
<1>3. MayAnswer(r, a)
  BY <1>1 DEF MayAnswer
<1> QED
  BY <1>1, <1>2, <1>3, AnswerInv

(* A request goes from one place of the list to the next.                    *)
LEMMA ListMoves ==
  ASSUME BlockInv, NEW r \in Requests, NEW p \in ListPcs \ {"head"},
         pc[r] \in ListPcs \ {"head"}, pc' = [pc EXCEPT ![r] = p],
         done' \in [Requests -> 0 .. MaxHead], done'[r] <= Cardinality(Window(r)),
         \A q \in Requests \ {r} : done'[q] = done[q],
         tries' \in [Requests -> 0 .. MaxRetryTime - 1],
         UNCHANGED <<head, storeVars, saves, arg, latest, detail, answer>>
  PROVE  BlockInv'
<1> USE DEF BlockInv, storeVars
<1>1. p \in Pcs
  BY DEF Pcs
<1>2. TypeOK'
  BY <1>1 DEF TypeOK
<1>3. pc'[r] = p /\ \A q \in Requests \ {r} : pc'[q] = pc[q]
  BY DEF TypeOK
<1>4. Window(r)' = Window(r)
  BY SameWindow
<1>5. RequestOK(r)
  OBVIOUS
<1>6. RequestOK(r)'
  BY <1>3, <1>4, <1>5
  DEF RequestOK, PlaceOK, RowOK, ListOK, Answered, ListPcs, BlockPcs
<1> QED
  BY <1>2, <1>3, <1>6, OneRequest

LEMMA ListStart ==
  ASSUME BlockInv, NEW r \in Requests, pc[r] \in ListPcs \ {"head"}
  PROVE  /\ detail[r] = None /\ latest[r] \in Blocks /\ arg[r] \in Limits
         /\ done[r] \in 0 .. MaxHead /\ Cardinality(Window(r)) \in 0 .. MaxHead
         /\ Window(r) \in SUBSET Blocks /\ Window(r) \in {Asked(r), {}}
<1>1. detail[r] = None /\ latest[r] \in Blocks /\ arg[r] \in Limits /\ done[r] \in 0 .. MaxHead
  BY DEF BlockInv, TypeOK, RequestOK, PlaceOK
<1>2. latest[r] \in 0 .. MaxHead /\ MaxHead \in Nat
  BY <1>1, BlockApiAssumption DEF Blocks
<1>3. /\ Cardinality(Window(r)) \in 0 .. latest[r]
      /\ Window(r) \in SUBSET Blocks /\ Window(r) \in {Asked(r), {}}
  BY <1>1, WindowAllOrNone
<1>4. Cardinality(Window(r)) \in 0 .. MaxHead
  BY <1>2, <1>3
<1> QED
  BY <1>1, <1>3, <1>4

(* In Redis every key is looked up; the list is the window.                  *)
LEMMA ListFromRedisInv ==
  ASSUME BlockInv, NEW r \in Requests, ListFromRedis(r)
  PROVE  BlockInv'
<1>1. pc[r] = "listRedis" /\ pc[r] \in ListPcs \ {"head"} /\ "listMysql" \in ListPcs \ {"head"}
  BY DEF ListFromRedis, ListPcs
<1>2. /\ detail[r] = None /\ done[r] \in 0 .. MaxHead /\ Cardinality(Window(r)) \in 0 .. MaxHead
      /\ Window(r) \in SUBSET Blocks /\ Window(r) \in {Asked(r), {}}
      /\ done[r] <= Cardinality(Window(r))
  BY <1>1, ListStart DEF BlockInv, RequestOK, PlaceOK
<1>3. /\ tries' \in [Requests -> 0 .. MaxRetryTime - 1]
      /\ UNCHANGED <<head, storeVars, saves, arg, latest, tries, detail>>
      /\ saves' \subseteq [to : {"mysql", "redis"}, left : Seq(Blocks)]
  BY DEF ListFromRedis, BlockInv, TypeOK
<1>4. CASE /\ done[r] < Cardinality(Window(r))
           /\ done' = [done EXCEPT ![r] = @ + 1]
           /\ UNCHANGED <<pc, answer>>
  <2>1. /\ done' \in [Requests -> 0 .. MaxHead] /\ done'[r] <= Cardinality(Window(r))
        /\ \A q \in Requests \ {r} : done'[q] = done[q]
        /\ pc' = [pc EXCEPT ![r] = "listRedis"]
    <3> DEFINE w == Cardinality(Window(r))
    <3>1. done \in [Requests -> 0 .. MaxHead] /\ pc \in [Requests -> Pcs]
      BY DEF BlockInv, TypeOK
    <3>2. done[r] + 1 \in 0 .. MaxHead /\ done[r] + 1 <= w
      <4>1. w \in 0 .. MaxHead /\ done[r] \in 0 .. MaxHead /\ done[r] < w /\ MaxHead \in Nat
        BY <1>2, <1>4, BlockApiAssumption
      <4> HIDE DEF w
      <4> QED
        BY <4>1
    <3> HIDE DEF w
    <3>3. done'[r] = done[r] + 1
      BY <1>4, <3>1
    <3> QED
      BY <1>1, <1>4, <3>1, <3>2, <3>3 DEF w
  <2> QED
    BY <1>1, <1>3, <1>4, <2>1, ListMoves
<1>5. CASE GoTo(r, "listMysql") /\ UNCHANGED <<done, answer>>
  <2>1. done' \in [Requests -> 0 .. MaxHead]
    BY <1>5 DEF BlockInv, TypeOK
  <2> QED
    BY <1>1, <1>2, <1>3, <1>5, <2>1, ListMoves DEF GoTo
<1>6. CASE Answer(r, 200, Window(r), {}) /\ UNCHANGED done
  BY <1>2, <1>3, <1>6, AnswerList DEF localVars
<1> QED
  BY <1>4, <1>5, <1>6 DEF ListFromRedis

(* MySQL is asked for all numbers at once; as many rows as the window has    *)
(* numbers are the window.                                                   *)
LEMMA ListFromMysqlInv ==
  ASSUME BlockInv, NEW r \in Requests, ListFromMysql(r)
  PROVE  BlockInv'
<1> DEFINE found == Window(r) \cap rows
<1>1. pc[r] = "listMysql" /\ pc[r] \in ListPcs \ {"head"} /\ "listRpc" \in ListPcs \ {"head"}
  BY DEF ListFromMysql, ListPcs
<1>2. /\ detail[r] = None /\ latest[r] \in Blocks /\ arg[r] \in Limits
      /\ Cardinality(Window(r)) \in 0 .. MaxHead /\ Window(r) \in SUBSET Blocks
  BY <1>1, ListStart
<1>3. /\ UNCHANGED <<head, storeVars, saves, arg, latest, tries, detail>>
      /\ tries' \in [Requests -> 0 .. MaxRetryTime - 1]
      /\ saves' \subseteq [to : {"mysql", "redis"}, left : Seq(Blocks)]
  BY DEF ListFromMysql, BlockInv, TypeOK
<1>4. CASE Cardinality(found) = arg[r] /\ Answer(r, 200, found, {}) /\ UNCHANGED done
  <2>1. found \in {Asked(r), {}} /\ found \in SUBSET Blocks
    <3>1. CASE Window(r) = {}
      BY <3>1
    <3>2. CASE Window(r) = Asked(r) /\ Cardinality(Window(r)) = arg[r]
      <4>1. IsFiniteSet(Window(r))
        BY <1>2, WindowAllOrNone
      <4>2. found \in SUBSET Window(r)
        OBVIOUS
      <4>3. found = Window(r)
        BY <1>4, <3>2, <4>1, <4>2, FS_Subset
      <4> QED
        BY <1>2, <3>2, <4>3
    <3> QED
      BY <1>2, <3>1, <3>2, WindowAllOrNone
  <2> HIDE DEF found
  <2>2. UNCHANGED <<head, storeVars, localVars>>
    BY <1>3, <1>4 DEF localVars
  <2> QED
    BY <1>2, <1>3, <1>4, <2>1, <2>2, AnswerList
<1>5. CASE GoTo(r, "listRpc") /\ done' = [done EXCEPT ![r] = 0] /\ UNCHANGED answer
  <2>1. 0 \in 0 .. MaxHead /\ 0 <= Cardinality(Window(r))
    BY <1>2, BlockApiAssumption
  <2>2. /\ done' \in [Requests -> 0 .. MaxHead] /\ done'[r] <= Cardinality(Window(r))
        /\ \A q \in Requests \ {r} : done'[q] = done[q]
    BY <1>5, <2>1 DEF BlockInv, TypeOK
  <2> QED
    BY <1>1, <1>3, <1>5, <2>2, ListMoves DEF GoTo
<1> QED
  BY <1>4, <1>5 DEF ListFromMysql

LEMMA WindowDownType ==
  ASSUME NEW r \in Requests, latest[r] \in Blocks, arg[r] \in Limits
  PROVE  WindowDown(r) \in Seq(Blocks)
<1> DEFINE w == Cardinality(Window(r))
<1>1. w \in 0 .. latest[r] /\ latest[r] \in 0 .. MaxHead /\ MaxHead \in Nat
  BY WindowAllOrNone, BlockApiAssumption DEF Blocks
<1>2. WindowDown(r) = [k \in 1 .. w |-> latest[r] - k + 1]
  BY DEF WindowDown
<1> HIDE DEF w
<1>3. w \in Nat
  BY <1>1
<1>4. \A k \in 1 .. w : latest[r] - k + 1 \in Blocks
  BY <1>1 DEF Blocks
<1> QED
  BY <1>2, <1>3, <1>4

(* The endpoint is asked for every number of the window, or fails for one.   *)
LEMMA ListFromRPCInv ==
  ASSUME BlockInv, NEW r \in Requests, ListFromRPC(r)
  PROVE  BlockInv'
<1>1. pc[r] = "listRpc" /\ pc[r] \in ListPcs \ {"head"}
  BY DEF ListFromRPC, ListPcs
<1>2. /\ detail[r] = None /\ done[r] \in 0 .. MaxHead /\ Cardinality(Window(r)) \in 0 .. MaxHead
      /\ Window(r) \in SUBSET Blocks /\ Window(r) \in {Asked(r), {}}
      /\ latest[r] \in Blocks /\ arg[r] \in Limits
  BY <1>1, ListStart
<1>3. UNCHANGED <<head, storeVars, arg, latest, detail>>
  BY DEF ListFromRPC
<1>4. CASE /\ done[r] < Cardinality(Window(r))
           /\ done' = [done EXCEPT ![r] = @ + 1]
           /\ tries' = [tries EXCEPT ![r] = 0]
           /\ UNCHANGED <<pc, saves, answer>>
  <2> DEFINE w == Cardinality(Window(r))
  <2>1. /\ done \in [Requests -> 0 .. MaxHead] /\ pc \in [Requests -> Pcs]
        /\ tries \in [Requests -> 0 .. MaxRetryTime - 1]
    BY DEF BlockInv, TypeOK
  <2>2. done[r] + 1 \in 0 .. MaxHead /\ done[r] + 1 <= w
    <3>1. w \in 0 .. MaxHead /\ done[r] \in 0 .. MaxHead /\ done[r] < w /\ MaxHead \in Nat
      BY <1>2, <1>4, BlockApiAssumption
    <3> HIDE DEF w
    <3> QED
      BY <3>1
  <2>3. tries' \in [Requests -> 0 .. MaxRetryTime - 1]
    <3>1. 0 \in 0 .. MaxRetryTime - 1
      BY BlockApiAssumption
    <3> QED
      BY <1>4, <2>1, <3>1
  <2> HIDE DEF w
  <2>4. done'[r] = done[r] + 1
    BY <1>4, <2>1
  <2>5. /\ done' \in [Requests -> 0 .. MaxHead] /\ done'[r] <= Cardinality(Window(r))
        /\ \A q \in Requests \ {r} : done'[q] = done[q]
        /\ pc' = [pc EXCEPT ![r] = "listRpc"]
    BY <1>1, <1>4, <2>1, <2>2, <2>4 DEF w
  <2>6. "listRpc" \in ListPcs \ {"head"}
    BY <1>1
  <2> QED
    BY <1>1, <1>3, <1>4, <2>3, <2>5, <2>6, ListMoves
<1>5. CASE Retry(r) /\ UNCHANGED saves
  BY <1>3, <1>5, RetryInv
<1>6. CASE Answer(r, 200, {}, {}) /\ UNCHANGED <<done, tries, saves>>
  <2>1. saves' \subseteq [to : {"mysql", "redis"}, left : Seq(Blocks)]
    BY <1>6 DEF BlockInv, TypeOK
  <2>2. UNCHANGED <<head, storeVars, localVars>>
    BY <1>3, <1>6 DEF localVars
  <2> QED
    BY <1>2, <1>6, <2>1, <2>2, AnswerList
<1>7. CASE GoSaveBlockRows(WindowDown(r)) /\ Answer(r, 200, Window(r), {}) /\ UNCHANGED <<done, tries>>
  <2>1. saves' \subseteq [to : {"mysql", "redis"}, left : Seq(Blocks)]
    <3>1. WindowDown(r) \in Seq(Blocks)
      BY <1>2, WindowDownType
    <3> QED
      BY <1>7, <3>1, GoSaveType DEF BlockInv
  <2>2. UNCHANGED <<head, storeVars, localVars>>
    BY <1>3, <1>7 DEF localVars
  <2> QED
    BY <1>2, <1>7, <2>1, <2>2, AnswerList
<1>8. CASE Panic(r) /\ UNCHANGED saves
  <2>1. saves' \subseteq [to : {"mysql", "redis"}, left : Seq(Blocks)]
    BY <1>8 DEF BlockInv, TypeOK
  <2>2. UNCHANGED <<head, storeVars, localVars>> /\ Answer(r, 500, {}, {})
    BY <1>3, <1>8 DEF localVars, Panic
  <2> QED
    BY <2>1, <2>2, AnswerError
<1> QED
  BY <1>4, <1>5, <1>6, <1>7, <1>8 DEF ListFromRPC

-----------------------------------------------------------------------------
(* GetBlock: the row is found, or looked for somewhere else.                 *)
LEMMA RowMoves ==
  ASSUME BlockInv, NEW r \in Requests, NEW p \in BlockPcs,
         pc[r] \in BlockPcs, pc' = [pc EXCEPT ![r] = p],
         detail' \in [Requests -> Blocks \cup {None}],
         p \in {"rowRedis", "rowMysql", "rowRpc"} <=> detail'[r] = None,
         arg[r] # 0 => detail'[r] \in {arg[r], None},
         \A q \in Requests \ {r} : detail'[q] = detail[q],
         tries' \in [Requests -> 0 .. MaxRetryTime - 1],
         saves' \subseteq [to : {"mysql", "redis"}, left : Seq(Blocks)],
         UNCHANGED <<head, storeVars, arg, latest, done, answer>>
  PROVE  BlockInv'
<1> USE DEF BlockInv, storeVars
<1>1. p \in Pcs
  BY DEF Pcs
<1>2. TypeOK'
  BY <1>1 DEF TypeOK
<1>3. pc'[r] = p /\ \A q \in Requests \ {r} : pc'[q] = pc[q]
  BY DEF TypeOK
<1>4. RequestOK(r)
  OBVIOUS
<1>5. RequestOK(r)'
  BY <1>3, <1>4
  DEF RequestOK, PlaceOK, RowOK, ListOK, Answered, ListPcs, BlockPcs
<1> QED
  BY <1>2, <1>3, <1>5, OneRequest

LEMMA BlockStart ==
  ASSUME BlockInv, NEW r \in Requests, pc[r] \in BlockPcs
  PROVE  /\ arg[r] \in Blocks /\ Txs[arg[r]] \in Nat
         /\ pc[r] \in {"rowRedis", "rowMysql", "rowRpc"} => detail[r] = None
         /\ pc[r] \in {"txMysql", "txRpc"} => detail[r] \in Blocks
         /\ arg[r] # 0 => detail[r] \in {arg[r], None}
         /\ detail \in [Requests -> Blocks \cup {None}]
         /\ tries \in [Requests -> 0 .. MaxRetryTime - 1]
         /\ saves \subseteq [to : {"mysql", "redis"}, left : Seq(Blocks)]
<1>1. arg[r] \in Blocks
  BY DEF BlockInv, RequestOK, PlaceOK
<1>2. Txs[arg[r]] \in Nat
  BY <1>1, BlockApiAssumption
<1> QED
  BY <1>1, <1>2 DEF BlockInv, TypeOK, RequestOK, PlaceOK, RowOK

(* The row found is the one asked for, unless the number is 0.               *)
LEMMA FoundRowInv ==
  ASSUME BlockInv, NEW r \in Requests, NEW b \in Blocks,
         pc[r] \in {"rowRedis", "rowMysql", "rowRpc"}, FoundRow(r, b), arg[r] # 0 => b = arg[r],
         tries' \in [Requests -> 0 .. MaxRetryTime - 1],
         saves' \subseteq [to : {"mysql", "redis"}, left : Seq(Blocks)],
         UNCHANGED <<head, storeVars, arg, latest, done, answer>>
  PROVE  BlockInv'
<1>1. pc[r] \in BlockPcs /\ "txMysql" \in BlockPcs
  BY DEF BlockPcs
<1>2. pc' = [pc EXCEPT ![r] = "txMysql"] /\ detail' = [detail EXCEPT ![r] = b]
  BY DEF FoundRow, GoTo
<1>3. None \notin Blocks
  BY BlockApiAssumption
<1>4. /\ detail' \in [Requests -> Blocks \cup {None}] /\ detail'[r] = b
      /\ \A q \in Requests \ {r} : detail'[q] = detail[q]
  BY <1>1, <1>2, BlockStart
<1>5. "txMysql" \notin {"rowRedis", "rowMysql", "rowRpc"} /\ detail'[r] # None
      /\ (arg[r] # 0 => detail'[r] \in {arg[r], None})
  BY <1>3, <1>4
<1> QED
  BY <1>1, <1>2, <1>4, <1>5, RowMoves

(* Nothing is found here.                                                    *)
LEMMA NotHereInv ==
  ASSUME BlockInv, NEW r \in Requests, NEW p \in BlockPcs, GoTo(r, p),
         \/ pc[r] \in {"rowRedis", "rowMysql"} /\ p \in {"rowMysql", "rowRpc"}
         \/ pc[r] = "txMysql" /\ p = "txRpc",
         UNCHANGED <<head, storeVars, saves, localVars, answer>>
  PROVE  BlockInv'
<1>1. pc[r] \in BlockPcs /\ pc' = [pc EXCEPT ![r] = p]
  BY DEF BlockPcs, GoTo
<1>2. UNCHANGED <<head, storeVars, arg, latest, done, answer, saves, tries, detail>>
  BY DEF localVars
<1>3. /\ detail' \in [Requests -> Blocks \cup {None}]
      /\ p \in {"rowRedis", "rowMysql", "rowRpc"} <=> detail'[r] = None
      /\ arg[r] # 0 => detail'[r] \in {arg[r], None}
      /\ \A q \in Requests \ {r} : detail'[q] = detail[q]
      /\ tries' \in [Requests -> 0 .. MaxRetryTime - 1]
      /\ saves' \subseteq [to : {"mysql", "redis"}, left : Seq(Blocks)]
  <2>1. None \notin Blocks
    BY BlockApiAssumption
  <2> QED
    BY <1>1, <1>2, <2>1, BlockStart
<1> QED
  BY <1>1, <1>2, <1>3, RowMoves

LEMMA RowInv ==
  ASSUME BlockInv, NEW r \in Requests, RowFromRedis(r) \/ RowFromMysql(r) \/ RowFromRPC(r)
  PROVE  BlockInv'
<1>1. /\ pc[r] \in {"rowRedis", "rowMysql", "rowRpc"} /\ pc[r] \in BlockPcs
      /\ {"rowMysql", "rowRpc"} \subseteq BlockPcs
  BY DEF RowFromRedis, RowFromMysql, RowFromRPC, BlockPcs
<1>2. /\ arg[r] \in Blocks /\ tries \in [Requests -> 0 .. MaxRetryTime - 1]
      /\ saves \subseteq [to : {"mysql", "redis"}, left : Seq(Blocks)]
  BY <1>1, BlockStart
<1>3. CASE RowFromRedis(r)
  <2>1. CASE FoundRow(r, arg[r])
    BY <1>1, <1>2, <1>3, <2>1, FoundRowInv DEF RowFromRedis
  <2>2. CASE GoTo(r, "rowMysql") /\ UNCHANGED detail
    BY <1>1, <1>3, <2>2, NotHereInv DEF RowFromRedis, localVars
  <2> QED
    BY <1>3, <2>1, <2>2 DEF RowFromRedis
<1>4. CASE RowFromMysql(r)
  <2>1. ASSUME NEW b \in Selected(arg[r]), FoundRow(r, b)
        PROVE  BlockInv'
    <3>1. b \in Blocks /\ (arg[r] # 0 => b = arg[r])
      BY DEF Selected, BlockInv, TypeOK
    <3> QED
      BY <1>1, <1>2, <1>4, <2>1, <3>1, FoundRowInv DEF RowFromMysql
  <2>2. CASE GoTo(r, "rowRpc") /\ UNCHANGED detail
    BY <1>1, <1>4, <2>2, NotHereInv DEF RowFromMysql, localVars
  <2> QED
    BY <1>4, <2>1, <2>2 DEF RowFromMysql
<1>5. CASE RowFromRPC(r)
  <2>1. CASE /\ FoundRow(r, arg[r]) /\ GoSaveBlockRows(<<arg[r]>>)
             /\ tries' = [tries EXCEPT ![r] = 0] /\ UNCHANGED <<done, answer>>
    <3>1. 0 \in 0 .. MaxRetryTime - 1
      BY BlockApiAssumption
    <3>2. tries' \in [Requests -> 0 .. MaxRetryTime - 1]
      BY <1>2, <2>1, <3>1
    <3>3. <<arg[r]>> \in Seq(Blocks)
      BY <1>2
    <3>4. saves' \subseteq [to : {"mysql", "redis"}, left : Seq(Blocks)]
      BY <2>1, <3>3, GoSaveType DEF BlockInv
    <3> QED
      BY <1>1, <1>2, <1>5, <2>1, <3>2, <3>4, FoundRowInv DEF RowFromRPC
  <2>2. CASE Retry(r) /\ UNCHANGED <<saves, detail>>
    BY <1>5, <2>2, RetryInv DEF RowFromRPC
  <2>3. CASE Answer(r, 404, {}, {}) /\ UNCHANGED <<done, tries, saves, detail>>
    BY <1>2, <1>5, <2>3, AnswerError DEF RowFromRPC, localVars
  <2>4. CASE Answer(r, 500, {}, {}) /\ UNCHANGED <<done, tries, saves, detail>>
    BY <1>2, <1>5, <2>4, AnswerError DEF RowFromRPC, localVars
  <2> QED
    BY <1>5, <2>1, <2>2, <2>3, <2>4 DEF RowFromRPC, Panic
<1> QED
  BY <1>3, <1>4, <1>5

(* A block is answered with the row found.                                   *)
LEMMA AnswerBlock ==
  ASSUME BlockInv, NEW r \in Requests, NEW txs \in SUBSET Nat, pc[r] \in {"txMysql", "txRpc"},
         txs = {} => Txs[arg[r]] = 0,
         Answer(r, 200, {detail[r]}, txs), UNCHANGED <<head, storeVars, localVars, saves>>
  PROVE  BlockInv'
<1>1. detail[r] \in Blocks /\ saves \subseteq [to : {"mysql", "redis"}, left : Seq(Blocks)]
  <2>1. pc[r] \in BlockPcs
    BY DEF BlockPcs
  <2> QED
    BY <2>1, BlockStart
<1>2. detail[r] # None
  BY <1>1, BlockApiAssumption
<1> DEFINE a == [status |-> 200, blocks |-> {detail[r]}, txs |-> txs]
<1>3. /\ a \in Answers
      /\ a.blocks = {detail[r]} /\ a.txs = txs
  BY <1>1 DEF Answers
<1>4. pc' = [pc EXCEPT ![r] = "done"] /\ answer' = [answer EXCEPT ![r] = a]
  BY DEF Answer, GoTo
<1>5. saves' \subseteq [to : {"mysql", "redis"}, left : Seq(Blocks)]
  BY <1>1
<1> HIDE DEF a
<1>6. MayAnswer(r, a)
  BY <1>2, <1>3 DEF MayAnswer
<1> QED
  BY <1>3, <1>4, <1>5, <1>6, AnswerInv

LEMMA TxsInv ==
  ASSUME BlockInv, NEW r \in Requests, TxsFromMysql(r) \/ TxsFromRPC(r)
  PROVE  BlockInv'
<1>1. /\ pc[r] \in {"txMysql", "txRpc"} /\ pc[r] \in BlockPcs /\ "txRpc" \in BlockPcs
  BY DEF TxsFromMysql, TxsFromRPC, BlockPcs
<1>2. /\ Txs[arg[r]] \in Nat
      /\ saves \subseteq [to : {"mysql", "redis"}, left : Seq(Blocks)]
  BY <1>1, BlockStart
<1>3. CASE TxsFromMysql(r)
  <2>1. CASE StoredTxs(arg[r]) # {} /\ Answer(r, 200, {detail[r]}, StoredTxs(arg[r]))
    <3>1. StoredTxs(arg[r]) \in SUBSET Nat
      BY <1>2 DEF StoredTxs
    <3> QED
      BY <1>1, <1>3, <2>1, <3>1, AnswerBlock DEF TxsFromMysql
  <2>2. CASE GoTo(r, "txRpc") /\ UNCHANGED answer
    BY <1>1, <1>3, <2>2, NotHereInv DEF TxsFromMysql
  <2> QED
    BY <1>3, <2>1, <2>2 DEF TxsFromMysql
<1>4. CASE TxsFromRPC(r)
  <2>1. CASE Answer(r, 200, {detail[r]}, 1 .. Txs[arg[r]]) /\ UNCHANGED <<done, tries>>
    <3>1. /\ 1 .. Txs[arg[r]] \in SUBSET Nat
          /\ 1 .. Txs[arg[r]] = {} => Txs[arg[r]] = 0
      BY <1>2
    <3>2. UNCHANGED <<head, storeVars, localVars, saves>>
      BY <1>4, <2>1 DEF TxsFromRPC, localVars
    <3> QED
      BY <1>1, <2>1, <3>1, <3>2, AnswerBlock
  <2>2. CASE Retry(r)
    BY <1>4, <2>2, RetryInv DEF TxsFromRPC
  <2>3. CASE Answer(r, 500, {}, {}) /\ UNCHANGED <<done, tries>>
    BY <1>2, <1>4, <2>3, AnswerError DEF TxsFromRPC, localVars
  <2> QED
    BY <1>4, <2>1, <2>2, <2>3 DEF TxsFromRPC, Panic
<1> QED
  BY <1>3, <1>4

LEMMA StepBlock == BlockInv /\ [Next]_vars => BlockInv'
<1> SUFFICES ASSUME BlockInv, [Next]_vars PROVE BlockInv'
  OBVIOUS
<1>1. CASE UNCHANGED vars
  <2>1. TypeOK'
    BY <1>1 DEF vars, storeVars, localVars, BlockInv, TypeOK
  <2> QED
    BY <1>1, <2>1, NoRequest DEF vars
<1>2. CASE Next
  <2>1. Lists \subseteq Requests /\ Gets \subseteq Requests
    BY DEF Requests
  <2> QED
    BY <1>2, <2>1, EnvironmentBlock, SaveBlock, RequestBlockInv, AskHeadInv, ListFromRedisInv,
         ListFromMysqlInv, ListFromRPCInv, RowInv, TxsInv
      DEF Next, ListBlocks, GetBlock
<1> QED
  BY <1>1, <1>2

-----------------------------------------------------------------------------
(* Types, and that no request retries more than MAX_RETRY_TIME times.        *)
THEOREM BlockTypeCorrect == Spec => []TypeOK
<1>1. BlockInv => TypeOK
  BY DEF BlockInv
<1> QED
  BY <1>1, InitBlock, StepBlock, PTL DEF Spec

(* ListBlocks answers with every block asked for or with none, for every     *)
(* limit a uint64 can hold, whatever the stores hold meanwhile.              *)
THEOREM ListsComplete == Spec => []ListAllOrNone
<1>1. BlockInv => ListAllOrNone
  BY DEF BlockInv, RequestOK, ListOK, Asked, ListAllOrNone
<1> QED
  BY <1>1, InitBlock, StepBlock, PTL DEF Spec

(* GetBlock answers with the block asked for, unless that is the first.      *)
THEOREM BlockIsRight == Spec => []RightBlock
<1>1. BlockInv => RightBlock
  BY DEF BlockInv, RequestOK, RowOK, RightBlock
<1> QED
  BY <1>1, InitBlock, StepBlock, PTL DEF Spec

(* A block answered without transactions has none.                           *)
THEOREM EmptyIsEmpty == Spec => []NoTxsMeansNone
<1>1. BlockInv => NoTxsMeansNone
  BY DEF BlockInv, RequestOK, RowOK, NoTxsMeansNone
<1> QED
  BY <1>1, InitBlock, StepBlock, PTL DEF Spec

-----------------------------------------------------------------------------
(* Why every request is answered.                                            *)

Place == [new |-> 0, head |-> 1, listRedis |-> 2, listMysql |-> 3, listRpc |-> 4,
          rowRedis |-> 1, rowMysql |-> 2, rowRpc |-> 3, txMysql |-> 4, txRpc |-> 5,
          done |-> 6, cut |-> 6]

(* The request is further on than before, or its loop is, or it has one      *)
(* attempt less at the number it is at: both are bounded (TypeOK).           *)
Closer(r) ==
  \/ Place[pc[r]] < Place[pc'[r]]
  \/ pc'[r] = pc[r] /\ done'[r] = done[r] + 1
  \/ pc'[r] = pc[r] /\ done'[r] = done[r] /\ tries'[r] = tries[r] + 1

Untouched(r) == pc'[r] = pc[r] /\ done'[r] = done[r] /\ tries'[r] = tries[r]

(* Whatever a step of the handler meets, it brings the request closer.       *)
LEMMA HandlerCloser ==
  ASSUME BlockInv, NEW r \in Requests, ListBlocks(r) \/ GetBlock(r)
  PROVE  Closer(r)
<1> USE DEF BlockInv, TypeOK, GoTo, Answer, Closer, Place, Retry, LastTry, Panic
<1>1. CASE AskHead(r)
  BY <1>1 DEF AskHead
<1>2. CASE ListFromRedis(r)
  BY <1>2 DEF ListFromRedis
<1>3. CASE ListFromMysql(r)
  BY <1>3 DEF ListFromMysql
<1>4. CASE ListFromRPC(r)
  BY <1>4 DEF ListFromRPC
<1>5. CASE RowFromRedis(r)
  BY <1>5 DEF RowFromRedis, FoundRow
<1>6. CASE RowFromMysql(r)
  BY <1>6 DEF RowFromMysql, FoundRow
<1>7. CASE RowFromRPC(r)
  BY <1>7 DEF RowFromRPC, FoundRow
<1>8. CASE TxsFromMysql(r) \/ TxsFromRPC(r)
  BY <1>8 DEF TxsFromMysql, TxsFromRPC
<1> QED
  BY <1>1, <1>2, <1>3, <1>4, <1>5, <1>6, <1>7, <1>8 DEF ListBlocks, GetBlock

(* Nobody else sets a request back.                                          *)
LEMMA OthersLeave ==
  ASSUME BlockInv, [Next]_vars, NEW r \in Requests, ~(ListBlocks(r) \/ GetBlock(r))
  PROVE  Closer(r) \/ Untouched(r)
<1> USE DEF BlockInv, TypeOK, Untouched, localVars
<1>1. CASE Mine \/ IndexerStores \/ RedisRestart \/ SaveBlockRows \/ UNCHANGED vars
  BY <1>1 DEF Mine, IndexerStores, RedisRestart, SaveBlockRows, vars
<1>2. CASE Exit
  BY <1>2 DEF Exit, Pcs, ListPcs, BlockPcs, Closer, Place
<1>3. ASSUME NEW q \in Requests, RequestList(q) \/ RequestBlock(q)
      PROVE  Closer(r) \/ Untouched(r)
  BY <1>3 DEF RequestList, RequestBlock, GoTo, Closer, Place
<1>4. ASSUME NEW q \in Requests, ListBlocks(q) PROVE Untouched(r)
  <2>1. q # r
    BY <1>4
  <2> QED
    BY <1>4, <2>1 DEF ListBlocks, AskHead, ListFromRedis, ListFromMysql, ListFromRPC,
       GoTo, Answer, Retry, Panic
<1>5. ASSUME NEW q \in Requests, GetBlock(q) PROVE Untouched(r)
  <2>1. q # r
    BY <1>5
  <2> QED
    BY <1>5, <2>1 DEF GetBlock, RowFromRedis, RowFromMysql, RowFromRPC, TxsFromMysql,
       TxsFromRPC, FoundRow, GoTo, Answer, Retry, Panic
<1> QED
  BY <1>1, <1>2, <1>3, <1>4, <1>5 DEF Next, Requests

(* A request is answered after a bounded number of steps of its handler, for *)
(* every limit and MAX_RETRY_TIME and whatever fails: each step brings it    *)
(* closer to its answer, and nothing else that happens sets it back.         *)
THEOREM AnswerGetsCloser ==
  Spec => [][\A r \in Requests :
               Closer(r) \/ (Untouched(r) /\ ~(ListBlocks(r) \/ GetBlock(r)))]_vars
<1>1. BlockInv /\ [Next]_vars
        => [\A r \in Requests :
              Closer(r) \/ (Untouched(r) /\ ~(ListBlocks(r) \/ GetBlock(r)))]_vars
  BY HandlerCloser, OthersLeave
<1> QED
  BY <1>1, InitBlock, StepBlock, PTL DEF Spec

=============================================================================
