--------------------------- MODULE UncryptProofs ----------------------------
(***************************************************************************)
(* Proofs about uncrypt: the window and the block map of produce_block_map  *)
(* and the status that the client reads, for every window size, package and *)
(* number of faults and calls.                                              *)
(***************************************************************************)
EXTENDS Uncrypt, SequenceTheorems, WellFoundedInduction, TLAPS

\* The buffer that holds the i-th block after the head h.
Ring(h, i) == IF h + i < WINDOW_SIZE THEN h + i ELSE h + i - WINDOW_SIZE

\* What is on the device, apart from the running call: without encryption nothing but
\* the plain text, and with it no plain text on the flash that is not in the cache.
DeviceInv ==
  /\ layout \in Layouts /\ encrypted \in BOOLEAN /\ touched \in BOOLEAN
  /\ raw \in [1 .. N -> Int] /\ rawDisk \in [1 .. N -> Int]
  /\ ~encrypted => \A k \in 1 .. N : raw[k] = k /\ rawDisk[k] = k
  /\ encrypted => \A k \in 1 .. N : raw[k] = 0 => rawDisk[k] = 0
  /\ ~touched => \A k \in 1 .. N : raw[k] \in {0, k} /\ rawDisk[k] \in {0, k}

\* The window is never overfull, its buffers hold the blocks from head_block to pos,
\* and no block after the head has been written.
LoopInv ==
  /\ buffers \in [0 .. WINDOW_SIZE - 1 -> Int \ {0}]
  /\ pc = "loop" =>
       /\ pos \in 0 .. N /\ head_block \in 0 .. pos /\ pos - head_block < WINDOW_SIZE
       /\ head \in 0 .. WINDOW_SIZE - 1 /\ tail = Ring(head, pos - head_block)
       /\ encrypted /\ ~touched =>
            /\ \A i \in 0 .. pos - head_block - 1 : buffers[Ring(head, i)] = head_block + i + 1
            /\ \A k \in head_block + 1 .. N : raw[k] = 0

WindowInv == DeviceInv /\ LoopInv

LEMMA SlotNext ==
  ASSUME NEW i \in 0 .. WINDOW_SIZE - 1
  PROVE  Slot(i + 1) = IF i + 1 = WINDOW_SIZE THEN 0 ELSE i + 1
BY UncryptAssumption DEF UncryptAssumption, Slot

LEMMA LengthNat == ASSUME NEW l \in Layouts PROVE Len(l) \in Nat
BY UncryptAssumption DEF UncryptAssumption

\* The ring: distinct places for the blocks of a window, and what moving the head does.
LEMMA RingFacts ==
  ASSUME head \in 0 .. WINDOW_SIZE - 1
  PROVE  /\ Ring(head, 0) = head
         /\ \A i \in 0 .. WINDOW_SIZE - 1 : Ring(head, i) \in 0 .. WINDOW_SIZE - 1
         /\ \A i, j \in 0 .. WINDOW_SIZE - 1 : i # j => Ring(head, i) # Ring(head, j)
         /\ \A i \in 0 .. WINDOW_SIZE - 2 : Slot(Ring(head, i) + 1) = Ring(head, i + 1)
         /\ Slot(Ring(head, WINDOW_SIZE - 1) + 1) = head
<1>1. WINDOW_SIZE \in Nat /\ WINDOW_SIZE > 1
  BY UncryptAssumption DEF UncryptAssumption
<1>2. \A i \in 0 .. WINDOW_SIZE - 1 : Ring(head, i) \in 0 .. WINDOW_SIZE - 1
  BY <1>1 DEF Ring
<1>3. \A i \in 0 .. WINDOW_SIZE - 1 :
        Slot(Ring(head, i) + 1) = IF Ring(head, i) + 1 = WINDOW_SIZE THEN 0 ELSE Ring(head, i) + 1
  BY <1>2, SlotNext
<1>4. \A i \in 0 .. WINDOW_SIZE - 2 : Slot(Ring(head, i) + 1) = Ring(head, i + 1)
  <2> SUFFICES ASSUME NEW i \in 0 .. WINDOW_SIZE - 2 PROVE Slot(Ring(head, i) + 1) = Ring(head, i + 1)
    OBVIOUS
  <2>1. Slot(Ring(head, i) + 1) = IF Ring(head, i) + 1 = WINDOW_SIZE THEN 0 ELSE Ring(head, i) + 1
    BY <1>1, <1>3
  <2> QED BY <1>1, <2>1 DEF Ring
<1>5. Slot(Ring(head, WINDOW_SIZE - 1) + 1) = head
  BY <1>1, <1>3 DEF Ring
<1> QED BY <1>1, <1>2, <1>4, <1>5 DEF Ring

LEMMA RingMoves ==
  ASSUME head \in 0 .. WINDOW_SIZE - 1, head' = Slot(head + 1)
  PROVE  /\ head' \in 0 .. WINDOW_SIZE - 1
         /\ \A i \in 0 .. WINDOW_SIZE - 2 : Ring(head', i) = Ring(head, i + 1)
         /\ Ring(head', WINDOW_SIZE - 1) = head
<1>1. WINDOW_SIZE \in Nat /\ WINDOW_SIZE > 1
  BY UncryptAssumption DEF UncryptAssumption
<1>2. head' = IF head + 1 = WINDOW_SIZE THEN 0 ELSE head + 1
  BY SlotNext
<1> QED BY <1>1, <1>2 DEF Ring

-----------------------------------------------------------------------------
(* The loops *)

\* The head goes to its own block.
LEMMA HeadRight ==
  ASSUME WindowInv, pc = "loop", pos > head_block, WriteHead,
         UNCHANGED <<layout, encrypted, touched, rawDisk>>
  PROVE  /\ DeviceInv'
         /\ head' \in 0 .. WINDOW_SIZE - 1 /\ head_block' = head_block + 1 /\ N' = N
         /\ encrypted /\ ~touched => \A k \in head_block' + 1 .. N : raw'[k] = 0
<1>1. /\ WINDOW_SIZE \in Nat /\ WINDOW_SIZE > 1 /\ N \in Nat
      /\ pos \in 0 .. N /\ head_block \in 0 .. pos
      /\ head \in 0 .. WINDOW_SIZE - 1
  BY UncryptAssumption, LengthNat DEF UncryptAssumption, WindowInv, DeviceInv, LoopInv, N
<1>2. head' \in 0 .. WINDOW_SIZE - 1 /\ head_block' = head_block + 1 /\ N' = N
  BY <1>1, RingMoves DEF WriteHead, N
<1>3. head_block + 1 \in 1 .. N /\ buffers[head] \in Int \ {0}
  BY <1>1 DEF WindowInv, LoopInv
<1>4. encrypted /\ ~touched => buffers[head] = head_block + 1
  <2>1. 0 \in 0 .. pos - head_block - 1 /\ Ring(head, 0) = head
    BY <1>1, RingFacts
  <2> QED BY <1>1, <2>1 DEF WindowInv, LoopInv
<1>5. CASE ~encrypted
  BY <1>2, <1>5 DEF WriteHead, WindowInv, DeviceInv
<1>6. CASE encrypted
  <2>1. raw' = [raw EXCEPT ![head_block + 1] = buffers[head]]
    BY <1>6 DEF WriteHead
  <2>2. /\ raw' \in [1 .. N -> Int]
        /\ raw'[head_block + 1] = buffers[head]
        /\ \A k \in 1 .. N : k # head_block + 1 => raw'[k] = raw[k]
    BY <1>3, <2>1 DEF WindowInv, DeviceInv
  <2>3. \A k \in 1 .. N : raw'[k] = 0 => rawDisk[k] = 0
    BY <1>3, <1>6, <2>2 DEF WindowInv, DeviceInv
  <2>4. ~touched => \A k \in 1 .. N : raw'[k] \in {0, k} /\ rawDisk[k] \in {0, k}
    BY <1>3, <1>4, <1>6, <2>2 DEF WindowInv, DeviceInv
  <2>5. ~touched => \A k \in head_block' + 1 .. N : raw'[k] = 0
    <3>1. ~touched => \A k \in head_block + 1 .. N : raw[k] = 0
      BY <1>6 DEF WindowInv, LoopInv
    <3>2. \A k \in head_block' + 1 .. N : k \in head_block + 1 .. N /\ k \in 1 .. N /\ k # head_block + 1
      BY <1>1, <1>2
    <3> QED BY <2>2, <3>1, <3>2
  <2> QED BY <1>2, <1>6, <2>2, <2>3, <2>4, <2>5 DEF WindowInv, DeviceInv
<1> QED BY <1>2, <1>5, <1>6

\* The next block goes to a buffer of its own, outside of the window.
LEMMA TailRight ==
  ASSUME WindowInv, pc = "loop", pos < N, ReadTail
  PROVE  /\ buffers' \in [0 .. WINDOW_SIZE - 1 -> Int \ {0}]
         /\ encrypted /\ ~touched => buffers'[tail] = pos + 1
         /\ \A i \in 0 .. WINDOW_SIZE - 1 : i # tail => buffers'[i] = buffers[i]
<1>1. /\ WINDOW_SIZE \in Nat /\ WINDOW_SIZE > 1 /\ N \in Nat
      /\ pos \in 0 .. N /\ head_block \in 0 .. pos
      /\ head \in 0 .. WINDOW_SIZE - 1 /\ pos - head_block \in 0 .. WINDOW_SIZE - 1
      /\ tail = Ring(head, pos - head_block)
  BY UncryptAssumption, LengthNat DEF UncryptAssumption, WindowInv, DeviceInv, LoopInv, N
<1>2. tail \in 0 .. WINDOW_SIZE - 1
  BY <1>1, RingFacts
<1>3. encrypted /\ ~touched => raw[pos + 1] = 0
  <2>1. pos + 1 \in head_block + 1 .. N
    BY <1>1
  <2> QED BY <2>1 DEF WindowInv, LoopInv
<1>4. pos + 1 \in Int \ {0} /\ -1 \in Int \ {0}
  BY <1>1
<1> QED BY <1>2, <1>3, <1>4 DEF ReadTail, WindowInv, LoopInv

LEMMA LoopKeeps ==
  ASSUME WindowInv, Loop, Goes("loop"), ReadTail,
         IF Slot(tail + 1) = head THEN WriteHead ELSE UNCHANGED <<ranges, raw, head, head_block>>
  PROVE  WindowInv'
<1> DEFINE n == pos - head_block
<1>0. pc = "loop" /\ pc' = "loop" /\ pos < N /\ UNCHANGED <<layout, encrypted, touched, rawDisk>>
  BY DEF Loop, Goes, package, history
<1>1. /\ WINDOW_SIZE \in Nat /\ WINDOW_SIZE > 1 /\ N \in Nat
      /\ pos \in 0 .. N /\ head_block \in 0 .. pos /\ n \in 0 .. WINDOW_SIZE - 1
      /\ head \in 0 .. WINDOW_SIZE - 1 /\ tail = Ring(head, n)
      /\ encrypted /\ ~touched => \A i \in 0 .. n - 1 : buffers[Ring(head, i)] = head_block + i + 1
  BY <1>0, UncryptAssumption, LengthNat DEF UncryptAssumption, WindowInv, DeviceInv, LoopInv, N
<1>2. /\ buffers' \in [0 .. WINDOW_SIZE - 1 -> Int \ {0}]
      /\ encrypted /\ ~touched => buffers'[Ring(head, n)] = pos + 1
      /\ \A i \in 0 .. WINDOW_SIZE - 1 : i # n => buffers'[Ring(head, i)] = buffers[Ring(head, i)]
  BY <1>0, <1>1, TailRight, RingFacts, Zenon
<1>3. pos' = pos + 1 /\ tail' = Slot(Ring(head, n) + 1)
  BY <1>1 DEF ReadTail
<1>4. encrypted /\ ~touched => \A i \in 0 .. n : buffers'[Ring(head, i)] = head_block + i + 1
  <2> SUFFICES ASSUME encrypted, ~touched, NEW i \in 0 .. n
               PROVE  buffers'[Ring(head, i)] = head_block + i + 1
    OBVIOUS
  <2>1. CASE i = n
    BY <1>1, <1>2, <2>1
  <2>2. CASE i # n
    <3>1. i \in 0 .. n - 1 /\ i \in 0 .. WINDOW_SIZE - 1
      BY <1>1, <2>2
    <3>2. buffers[Ring(head, i)] = head_block + i + 1
      BY <1>1, <3>1
    <3> QED BY <1>2, <2>2, <3>1, <3>2
  <2> QED BY <2>1, <2>2
<1>5. CASE n = WINDOW_SIZE - 1
  <2>1. Slot(tail + 1) = head
    BY <1>1, <1>5, RingFacts
  <2>2. WriteHead /\ pos > head_block
    BY <1>1, <1>5, <2>1
  <2>3. /\ DeviceInv'
        /\ head' \in 0 .. WINDOW_SIZE - 1 /\ head_block' = head_block + 1 /\ N' = N
        /\ encrypted /\ ~touched => \A k \in head_block' + 1 .. N : raw'[k] = 0
    BY <1>0, <2>2, HeadRight
  <2>4. /\ \A i \in 0 .. WINDOW_SIZE - 2 : Ring(head', i) = Ring(head, i + 1)
        /\ Ring(head', WINDOW_SIZE - 1) = head
    BY <1>1, <2>2, RingMoves DEF WriteHead
  <2>5. pos' - head_block' = WINDOW_SIZE - 1 /\ tail' = Ring(head', WINDOW_SIZE - 1)
    BY <1>1, <1>3, <1>5, <2>1, <2>3, <2>4
  <2>6. encrypted /\ ~touched => \A i \in 0 .. WINDOW_SIZE - 2 : buffers'[Ring(head', i)] = head_block' + i + 1
    BY <1>1, <1>4, <1>5, <2>3, <2>4
  <2>7. pos' \in 0 .. N' /\ head_block' \in 0 .. pos'
    BY <1>0, <1>1, <1>3, <1>5, <2>3
  <2>8. tail' = Ring(head', pos' - head_block') /\ pos' - head_block' < WINDOW_SIZE
        /\ pos' - head_block' - 1 = WINDOW_SIZE - 2
    BY <1>1, <2>5
  <2>9. LoopInv'
    BY <1>0, <1>2, <2>3, <2>6, <2>7, <2>8 DEF LoopInv
  <2> QED BY <2>3, <2>9 DEF WindowInv
<1>6. CASE n # WINDOW_SIZE - 1
  <2>1. n \in 0 .. WINDOW_SIZE - 2 /\ n + 1 \in 1 .. WINDOW_SIZE - 1
    BY <1>1, <1>6
  <2>2. tail' = Ring(head, n + 1) /\ Slot(tail + 1) = Ring(head, n + 1)
    BY <1>1, <1>3, <2>1, RingFacts
  <2>3. Slot(tail + 1) # head
    <3>1. Ring(head, n + 1) # Ring(head, 0) /\ Ring(head, 0) = head
      BY <1>1, <2>1, RingFacts
    <3> QED BY <2>2, <3>1
  <2>4. UNCHANGED <<raw, head, head_block>>
    BY <2>3
  <2>5. DeviceInv'
    BY <1>0, <2>4 DEF WindowInv, DeviceInv, N
  <2>6. \A i : Ring(head', i) = Ring(head, i)
    BY <2>4
  <2>7. pos' - head_block' = n + 1 /\ pos' \in 0 .. N' /\ head_block' \in 0 .. pos'
    BY <1>0, <1>1, <1>3, <2>4 DEF N
  <2>8. tail' = Ring(head', pos' - head_block') /\ pos' - head_block' < WINDOW_SIZE
        /\ pos' - head_block' - 1 = n
    <3>0. n \in Int /\ WINDOW_SIZE \in Int /\ n + 1 < WINDOW_SIZE
      BY <1>1, <2>1
    <3>1. pos' - head_block' < WINDOW_SIZE /\ pos' - head_block' - 1 = n
      <4>1. pos' - head_block' = n + 1
        BY <2>7
      <4> HIDE DEF n
      <4>2. ASSUME NEW m, m = n + 1 PROVE m < WINDOW_SIZE /\ m - 1 = n
        BY ONLY <3>0, <4>2
      <4> QED BY ONLY <4>1, <4>2
    <3>2. Ring(head', n + 1) = Ring(head, n + 1)
      BY <2>4
    <3> QED BY <2>2, <2>7, <3>1, <3>2
  <2>9. encrypted /\ ~touched => \A k \in head_block' + 1 .. N' : raw'[k] = 0
    BY <1>0, <2>4 DEF WindowInv, LoopInv, N
  <2>10. encrypted /\ ~touched =>
           \A i \in 0 .. pos' - head_block' - 1 : buffers'[Ring(head', i)] = head_block' + i + 1
    BY <1>4, <2>4, <2>6, <2>8
  <2>11. LoopInv'
    BY <1>0, <1>1, <1>2, <2>4, <2>7, <2>8, <2>9, <2>10, Zenon DEF LoopInv
  <2> QED BY <2>5, <2>11 DEF WindowInv
<1> QED BY <1>5, <1>6

LEMMA DrainKeeps ==
  ASSUME WindowInv, Drain, Goes("loop"), WriteHead
  PROVE  WindowInv'
<1> DEFINE n == pos - head_block
<1>0. /\ pc = "loop" /\ pc' = "loop" /\ pos = N /\ head # tail
      /\ UNCHANGED <<layout, encrypted, touched, rawDisk, pos, tail, buffers>>
  BY DEF Drain, Goes, package, history
<1>1. /\ WINDOW_SIZE \in Nat /\ WINDOW_SIZE > 1 /\ N \in Nat
      /\ pos \in 0 .. N /\ head_block \in 0 .. pos /\ n \in 0 .. WINDOW_SIZE - 1
      /\ head \in 0 .. WINDOW_SIZE - 1 /\ tail = Ring(head, n)
      /\ encrypted /\ ~touched => \A i \in 0 .. n - 1 : buffers[Ring(head, i)] = head_block + i + 1
  BY <1>0, UncryptAssumption, LengthNat DEF UncryptAssumption, WindowInv, DeviceInv, LoopInv, N
<1>2. n \in 1 .. WINDOW_SIZE - 1 /\ pos > head_block
  <2>1. Ring(head, 0) = head
    BY <1>1, RingFacts
  <2>2. n # 0
    BY <1>0, <1>1, <2>1
  <2> QED BY <1>1, <2>2
<1>3. /\ DeviceInv'
      /\ head' \in 0 .. WINDOW_SIZE - 1 /\ head_block' = head_block + 1 /\ N' = N
      /\ encrypted /\ ~touched => \A k \in head_block' + 1 .. N : raw'[k] = 0
  BY <1>0, <1>2, HeadRight
<1>4. \A i \in 0 .. WINDOW_SIZE - 2 : Ring(head', i) = Ring(head, i + 1)
  BY <1>1, RingMoves DEF WriteHead
<1>5. pos' - head_block' = n - 1 /\ n - 1 \in 0 .. WINDOW_SIZE - 2 /\ head_block' \in 0 .. pos'
  BY <1>0, <1>1, <1>2, <1>3
<1>6. tail' = Ring(head', pos' - head_block')
  <2>1. Ring(head', n - 1) = Ring(head, n - 1 + 1) /\ n - 1 + 1 = n
    BY <1>1, <1>4, <1>5
  <2> QED BY <1>0, <1>1, <1>5, <2>1, Zenon
<1>7. encrypted /\ ~touched =>
        \A i \in 0 .. pos' - head_block' - 1 : buffers[Ring(head', i)] = head_block' + i + 1
  BY <1>1, <1>2, <1>3, <1>4, <1>5
<1>8. LoopInv'
  BY <1>0, <1>1, <1>3, <1>5, <1>6, <1>7 DEF WindowInv, LoopInv
<1> QED BY <1>3, <1>8 DEF WindowInv

-----------------------------------------------------------------------------
(* The other steps *)

LEMMA Outside ==
  ASSUME LoopInv, DeviceInv', UNCHANGED buffers, pc' # "loop"
  PROVE  WindowInv'
BY DEF WindowInv, LoopInv

LEMMA DeviceStays ==
  ASSUME DeviceInv, UNCHANGED <<layout, encrypted, touched, raw, rawDisk>>
  PROVE  DeviceInv'
BY DEF DeviceInv, N

LEMMA BeginKeeps ==
  ASSUME WindowInv, BeginMap
  PROVE  WindowInv'
<1>1. /\ pos' = 0 /\ head_block' = 0 /\ head' = 0 /\ tail' = 0
      /\ buffers' = [i \in 0 .. WINDOW_SIZE - 1 |-> -1]
      /\ touched' = (encrypted /\ \E k \in 1 .. N : raw[k] # 0)
      /\ UNCHANGED <<layout, encrypted, raw, rawDisk>>
  BY DEF BeginMap, package, device
<1>2. WINDOW_SIZE \in Nat /\ WINDOW_SIZE > 1 /\ N \in Nat /\ N' = N
  BY <1>1, UncryptAssumption, LengthNat DEF UncryptAssumption, WindowInv, DeviceInv, N
<1>3. ~touched' => ~encrypted \/ \A k \in 1 .. N : raw[k] = 0
  BY <1>1, Zenon
<1>4. touched' \in BOOLEAN
  BY <1>1 DEF WindowInv, DeviceInv
<1>5. DeviceInv'
  BY <1>1, <1>2, <1>3, <1>4 DEF WindowInv, DeviceInv
<1>6. /\ buffers' \in [0 .. WINDOW_SIZE - 1 -> Int \ {0}]
      /\ Ring(0, 0) = 0 /\ 0 \in 0 .. WINDOW_SIZE - 1
      /\ pos' - head_block' = 0 /\ 0 .. 0 - 1 = {} /\ head_block' + 1 = 1
  BY <1>1, <1>2 DEF Ring
<1>7. LoopInv'
  BY <1>1, <1>2, <1>3, <1>6 DEF LoopInv
<1> QED BY <1>5, <1>7 DEF WindowInv

\* What a loss of power leaves is, block by block, what was in the cache or on the flash.
LEMMA PowerKeeps ==
  ASSUME WindowInv, PowerLoss
  PROVE  WindowInv'
<1>1. /\ pc' = "none" /\ UNCHANGED <<layout, encrypted, touched, buffers>> /\ rawDisk' = raw'
      /\ \E lost \in SUBSET {k \in 1 .. N : raw[k] # rawDisk[k]} :
           raw' = [k \in 1 .. N |-> IF k \in lost THEN rawDisk[k] ELSE raw[k]]
  BY DEF PowerLoss, package, window, history
<1>2. /\ raw' \in [1 .. N -> Int]
      /\ \A k \in 1 .. N : raw'[k] = raw[k] \/ raw'[k] = rawDisk[k]
  BY <1>1 DEF WindowInv, DeviceInv
<1>3. N' = N
  BY <1>1 DEF N
<1>4. DeviceInv'
  BY <1>1, <1>2, <1>3 DEF WindowInv, DeviceInv
<1> QED BY <1>1, <1>4, Outside DEF WindowInv

LEMMA NewPackageKeeps ==
  ASSUME WindowInv, NewPackage
  PROVE  WindowInv'
<1>1. /\ pc' # "loop" /\ layout' \in Layouts /\ UNCHANGED <<encrypted, touched, buffers>>
      /\ raw' = [k \in 1 .. Len(layout') |-> IF encrypted THEN 0 ELSE k] /\ rawDisk' = raw'
  BY DEF NewPackage, window
<1>2. N' = Len(layout') /\ Len(layout') \in Nat
  BY <1>1, LengthNat DEF N
<1>3. DeviceInv'
  BY <1>1, <1>2 DEF WindowInv, DeviceInv
<1> QED BY <1>1, <1>3, Outside DEF WindowInv

LEMMA InitWindow == Init => WindowInv
<1> SUFFICES ASSUME Init PROVE WindowInv
  OBVIOUS
<1>1. N \in Nat
  BY LengthNat DEF Init, N
<1>2. DeviceInv
  <2>1. /\ layout \in Layouts /\ encrypted \in BOOLEAN /\ touched = FALSE
        /\ raw = [k \in 1 .. N |-> IF encrypted THEN 0 ELSE k] /\ rawDisk = raw
    BY DEF Init
  <2>2. /\ raw \in [1 .. N -> Int]
        /\ \A k \in 1 .. N : raw[k] \in {0, k} /\ (~encrypted => raw[k] = k)
    BY <1>1, <2>1
  <2> QED BY <2>1, <2>2, Zenon DEF DeviceInv
<1>3. LoopInv
  BY DEF Init, LoopInv
<1> QED BY <1>2, <1>3 DEF WindowInv

LEMMA NextWindow == WindowInv /\ [Next]_vars => WindowInv'
<1> SUFFICES ASSUME WindowInv, [Next]_vars PROVE WindowInv'
  OBVIOUS
<1>0. DeviceInv /\ LoopInv
  BY DEF WindowInv
<1> USE DEF Error, Final, Goes, NoStatus
<1>1. ASSUME UNCHANGED <<layout, encrypted, touched, raw, rawDisk, buffers>>, pc' # "loop"
      PROVE  WindowInv'
  BY <1>0, <1>1, Outside, DeviceStays
<1>2. ASSUME UNCHANGED <<layout, encrypted, touched, raw, rawDisk, buffers, pc, pos, head_block, head, tail>>
      PROVE  WindowInv'
  BY <1>0, <1>2, DeviceStays DEF WindowInv, LoopInv, N
<1>3. CASE NewPackage
  BY <1>3, NewPackageKeeps
<1>4. CASE PowerLoss
  BY <1>4, PowerKeeps
<1>5. CASE BeginMap
  BY <1>5, BeginKeeps
<1>6. CASE Loop
  <2>1. CASE Error /\ UNCHANGED <<window, raw>>
    <3>1. pc' = "ack" /\ UNCHANGED <<layout, encrypted, touched, raw, rawDisk, buffers>>
      BY <1>6, <2>1 DEF Loop, package, window, history
    <3> QED BY <1>1, <3>1
  <2>2. CASE ~(Error /\ UNCHANGED <<window, raw>>)
    BY <1>6, <2>2, LoopKeeps DEF Loop
  <2> QED BY <2>1, <2>2
<1>7. CASE Drain
  <2>1. CASE Error /\ UNCHANGED <<ranges, raw, head, head_block>>
    <3>1. pc' = "ack" /\ UNCHANGED <<layout, encrypted, touched, raw, rawDisk, buffers>>
      BY <1>7, <2>1 DEF Drain, package, history
    <3> QED BY <1>1, <3>1
  <2>2. CASE ~(Error /\ UNCHANGED <<ranges, raw, head, head_block>>)
    BY <1>7, <2>2, DrainKeeps DEF Drain
  <2> QED BY <2>1, <2>2
<1>8. CASE SyncDevice
  <2>1. /\ pc' \in {"rename", "ack"} /\ UNCHANGED <<layout, encrypted, touched, raw, buffers>>
        /\ rawDisk' = raw \/ rawDisk' = rawDisk
    BY <1>8 DEF SyncDevice, package, window, history
  <2>2. DeviceInv'
    BY <1>0, <2>1 DEF DeviceInv, N
  <2> QED BY <1>0, <2>1, <2>2, Outside
<1>9. CASE NothingToMap \/ WriteRanges \/ SyncMap \/ Rename \/ SyncDir
  <2>1. pc' \in {"ack", "sync_map", "sync_device", "sync_dir"}
    BY <1>9 DEF NothingToMap, WriteRanges, SyncMap, Rename, SyncDir
  <2>2. UNCHANGED <<layout, encrypted, touched, raw, rawDisk, buffers>>
    BY <1>9 DEF NothingToMap, WriteRanges, SyncMap, Rename, SyncDir, package, device, window, history
  <2> QED BY <1>1, <2>1, <2>2
<1>10. CASE ReceiveCommand \/ WriteBcb \/ WriteWipePackage \/ ClearBcb
  <2>1. pc' \in {"ack", "write_bcb", "write_wipe_package"}
    BY <1>10 DEF ReceiveCommand, WriteBcb, WriteWipePackage, ClearBcb
  <2>2. UNCHANGED <<layout, encrypted, touched, raw, rawDisk, buffers>>
    BY <1>10 DEF ReceiveCommand, WriteBcb, WriteWipePackage, ClearBcb, package, device, window, history
  <2> QED BY <1>1, <2>1, <2>2
<1>11. CASE Exit \/ Killed \/ \E s \in Services : Call(s)
  <2>1. pc' \in {"none", "start"} /\ UNCHANGED <<layout, encrypted, touched, raw, rawDisk, buffers>>
    BY <1>11 DEF Exit, Killed, Call, package, device, window, history
  <2> QED BY <1>1, <2>1
<1>12. CASE ReadStatus \/ ClientDies \/ UNCHANGED vars
  BY <1>2, <1>12 DEF ReadStatus, ClientDies, vars, package, device, window, history
<1> QED BY <1>3, <1>4, <1>5, <1>6, <1>7, <1>8, <1>9, <1>10, <1>11, <1>12 DEF Next, Uncrypt

\* The window of produce_block_map, of any size above 1, writes every block of every
\* package to its own place: no error, death of the client, loss of power or later call
\* ever leaves another block's data there, or a plain text on the flash that the cache
\* has not, unless a call begins on blocks that an earlier one had replaced.
THEOREM WindowKeepsBlocks == Spec => []PlainText
<1>1. WindowInv => PlainText
  BY DEF WindowInv, DeviceInv, PlainText
<1> QED BY <1>1, InitWindow, NextWindow, PTL DEF Spec

-----------------------------------------------------------------------------
(* The block map.  What a list of ranges stands for is defined by recursion  *)
(* over its length, and facts about it are proved by the least length for    *)
(* which they would fail.                                                    *)

LEMMA LeastNat ==
  ASSUME NEW T, T \subseteq Nat, T # {}
  PROVE  \E x \in T : \A y \in T : x =< y
<1> DEFINE R == OpToRel(<, Nat)
<1>1. IsWellFoundedOn(R, Nat)
  BY NatLessThanWellFounded
<1>2. \A y, x \in Nat : y < x => <<y, x>> \in R
  BY DEF OpToRel
<1> HIDE DEF R
<1>3. PICK x \in T : \A y \in T : ~(<<y, x>> \in R)
  BY <1>1, WFMin, Zenon
<1>4. \A y \in T : ~(y < x)
  BY <1>2, <1>3, Zenon
<1>5. \A y \in T : x =< y
  BY <1>4
<1> QED BY <1>5

\* f has the blocks of the first ranges, up to n of them.
Prefix(rs, f, n) ==
  /\ DOMAIN f = 0 .. n /\ f[0] = <<>>
  /\ \A i \in 1 .. n : f[i] = f[i - 1] \o BlocksOf(rs[i])

\* There is such an f, and Expand is what it has at the end.
LEMMA PrefixExists ==
  ASSUME NEW rs, NEW n \in Nat
  PROVE  \E f : Prefix(rs, f, n)
<1> DEFINE T == {m \in Nat : ~\E f : Prefix(rs, f, m)}
<1> SUFFICES ASSUME T # {} PROVE FALSE
  OBVIOUS
<1>1. PICK x \in T : \A y \in T : x =< y
  BY LeastNat, Zenon
<1>2. CASE x = 0
  <2> DEFINE g == [i \in 0 .. 0 |-> <<>>]
  <2>1. Prefix(rs, g, 0)
    BY DEF Prefix
  <2> QED BY <1>1, <1>2, <2>1
<1>3. CASE x # 0
  <2>1. x \in Nat /\ x - 1 \in Nat /\ ~(x =< x - 1)
    BY <1>3
  <2>2. x - 1 \notin T
    BY <1>1, <2>1
  <2>3. PICK f : Prefix(rs, f, x - 1)
    BY <2>1, <2>2
  <2> DEFINE g == [i \in 0 .. x |-> IF i = x THEN f[x - 1] \o BlocksOf(rs[x]) ELSE f[i]]
  <2>4. DOMAIN g = 0 .. x /\ g[0] = <<>>
    <3>1. 0 \in 0 .. x
      BY <2>1
    <3>2. f[0] = <<>>
      BY <2>3, Zenon DEF Prefix
    <3> QED BY <1>3, <3>1, <3>2, Zenon
  <2>5. ASSUME NEW i \in 1 .. x PROVE g[i] = g[i - 1] \o BlocksOf(rs[i])
    <3>1. i - 1 \in 0 .. x /\ i \in 0 .. x /\ i - 1 # x
      BY <2>1
    <3>2. g[i - 1] = f[i - 1]
      BY <3>1
    <3>3. CASE i = x
      BY <3>1, <3>2, <3>3, Zenon
    <3>4. CASE i # x
      <4>1. i \in 1 .. x - 1
        BY <2>1, <3>4
      <4>2. f[i] = f[i - 1] \o BlocksOf(rs[i])
        BY <2>3, <4>1, Zenon DEF Prefix
      <4>3. g[i] = f[i]
        BY <3>1, <3>4, Zenon
      <4> QED BY <3>2, <4>2, <4>3, Zenon
    <3> QED BY <3>3, <3>4, Zenon
  <2>6. Prefix(rs, g, x)
    BY <2>4, <2>5, Zenon DEF Prefix
  <2> QED BY <1>1, <2>6
<1> QED BY <1>2, <1>3

LEMMA ExpandIs ==
  ASSUME NEW S, NEW rs \in Seq(S)
  PROVE  \E f : Prefix(rs, f, Len(rs)) /\ Expand(rs) = f[Len(rs)]
<1> DEFINE D(f) == [n \in 0 .. Len(rs) |-> IF n = 0 THEN <<>> ELSE f[n - 1] \o BlocksOf(rs[n])]
           F == CHOOSE f : f = D(f)
<1>1. Len(rs) \in Nat
  OBVIOUS
<1>2. PICK g : Prefix(rs, g, Len(rs))
  BY <1>1, PrefixExists, Zenon
<1> DEFINE h == [n \in 0 .. Len(rs) |-> g[n]]
<1>3. h = D(h)
  <2>1. DOMAIN h = 0 .. Len(rs) /\ DOMAIN D(h) = 0 .. Len(rs)
    OBVIOUS
  <2>2. ASSUME NEW n \in 0 .. Len(rs) PROVE h[n] = IF n = 0 THEN <<>> ELSE h[n - 1] \o BlocksOf(rs[n])
    <3>1. CASE n = 0
      BY <1>2, <3>1 DEF Prefix
    <3>2. CASE n # 0
      <4>1. n \in 1 .. Len(rs) /\ n - 1 \in 0 .. Len(rs)
        BY <1>1, <3>2
      <4> QED BY <1>2, <3>2, <4>1, Zenon DEF Prefix
    <3> QED BY <3>1, <3>2
  <2> QED BY <2>2
<1>4. F = D(F)
  BY <1>3, Zenon
<1>5. Expand(rs) = F[Len(rs)]
  BY DEF Expand
<1>6. Prefix(rs, F, Len(rs))
  <2> HIDE DEF F
  <2>1. DOMAIN F = 0 .. Len(rs) /\ \A n \in 0 .. Len(rs) : F[n] = IF n = 0 THEN <<>> ELSE F[n - 1] \o BlocksOf(rs[n])
    BY <1>4
  <2>2. F[0] = <<>>
    BY <1>1, <2>1
  <2>3. ASSUME NEW n \in 1 .. Len(rs) PROVE F[n] = F[n - 1] \o BlocksOf(rs[n])
    <3>1. n \in 0 .. Len(rs) /\ n # 0
      BY <1>1
    <3> QED BY <2>1, <3>1, Zenon
  <2> QED BY <2>1, <2>2, <2>3 DEF Prefix
<1> QED BY <1>5, <1>6, Zenon

Ranges == {r \in Nat \X Nat : r[1] < r[2]}

LEMMA BlocksOfType ==
  ASSUME NEW r \in Ranges
  PROVE  BlocksOf(r) \in Seq(Nat) /\ Len(BlocksOf(r)) = r[2] - r[1] /\ r[2] - r[1] \in Nat \ {0}
BY DEF BlocksOf, Ranges

LEMMA PrefixType ==
  ASSUME NEW rs \in Seq(Ranges), NEW f, NEW n \in 0 .. Len(rs), Prefix(rs, f, n)
  PROVE  \A i \in 0 .. n : f[i] \in Seq(Nat)
<1> DEFINE T == {i \in 0 .. n : f[i] \notin Seq(Nat)}
<1> SUFFICES ASSUME T # {} PROVE FALSE
  OBVIOUS
<1>0. n \in Nat /\ Len(rs) \in Nat /\ T \subseteq Nat
  OBVIOUS
<1>1. PICK x \in T : \A y \in T : x =< y
  BY <1>0, LeastNat, Zenon
<1>2. CASE x = 0
  BY <1>1, <1>2 DEF Prefix
<1>3. CASE x # 0
  <2>1. x \in 1 .. n /\ x - 1 \in 0 .. n /\ ~(x =< x - 1) /\ x \in 1 .. Len(rs)
    BY <1>0, <1>3
  <2>2. f[x - 1] \in Seq(Nat)
    BY <1>1, <2>1
  <2>3. rs[x] \in Ranges
    BY <2>1
  <2>4. f[x] = f[x - 1] \o BlocksOf(rs[x])
    BY <2>1, Zenon DEF Prefix
  <2>5. BlocksOf(rs[x]) \in Seq(Nat)
    BY <2>3, BlocksOfType
  <2>6. f[x] \in Seq(Nat)
    BY <2>2, <2>4, <2>5
  <2> QED BY <1>1, <2>6
<1> QED BY <1>2, <1>3

\* What the first ranges list depends on nothing else.
LEMMA PrefixSame ==
  ASSUME NEW a, NEW b, NEW f, NEW g, NEW n \in Nat, NEW m \in Nat, NEW k \in Nat, k =< n, k =< m,
         Prefix(a, f, n), Prefix(b, g, m), \A i \in 1 .. k : a[i] = b[i]
  PROVE  f[k] = g[k]
<1> DEFINE T == {i \in 0 .. k : f[i] # g[i]}
<1> SUFFICES ASSUME T # {} PROVE FALSE
  OBVIOUS
<1>0. T \subseteq Nat
  OBVIOUS
<1>1. PICK x \in T : \A y \in T : x =< y
  BY ONLY <1>0, T # {}, LeastNat, Zenon
<1>2. CASE x = 0
  BY <1>1, <1>2 DEF Prefix
<1>3. CASE x # 0
  <2>1. x \in 1 .. n /\ x \in 1 .. m /\ x \in 1 .. k /\ x - 1 \in 0 .. k /\ ~(x =< x - 1)
    BY <1>3
  <2>2. f[x - 1] = g[x - 1]
    BY <1>1, <2>1
  <2>3. f[x] = f[x - 1] \o BlocksOf(a[x]) /\ g[x] = g[x - 1] \o BlocksOf(b[x]) /\ a[x] = b[x]
    BY <2>1, Zenon DEF Prefix
  <2> QED BY <1>1, <2>2, <2>3, Zenon
<1> QED BY <1>2, <1>3

LEMMA ConcatAppend ==
  ASSUME NEW S, NEW s \in Seq(S), NEW t \in Seq(S), NEW x \in S
  PROVE  s \o Append(t, x) = Append(s \o t, x)
<1>1. Len(s) \in Nat /\ Len(t) \in Nat /\ Append(t, x) \in Seq(S) /\ Len(Append(t, x)) = Len(t) + 1
  OBVIOUS
<1>2. /\ s \o t \in Seq(S) /\ Len(s \o t) = Len(s) + Len(t)
      /\ s \o Append(t, x) \in Seq(S) /\ Len(s \o Append(t, x)) = Len(s) + Len(t) + 1
  BY <1>1
<1>3. Append(s \o t, x) \in Seq(S) /\ Len(Append(s \o t, x)) = Len(s) + Len(t) + 1
  BY <1>2
<1>4. ASSUME NEW i \in 1 .. Len(s) + Len(t) + 1
      PROVE  (s \o Append(t, x))[i] = Append(s \o t, x)[i]
  <2>1. CASE i =< Len(s)
    BY <1>1, <1>2, <2>1
  <2>2. CASE i > Len(s) /\ i =< Len(s) + Len(t)
    BY <1>1, <1>2, <2>2
  <2>3. CASE i = Len(s) + Len(t) + 1
    BY <1>1, <1>2, <2>3
  <2> QED BY <1>1, <2>1, <2>2, <2>3
<1> QED BY <1>2, <1>3, <1>4

\* All but the last range, and then the last.
LEMMA ExpandLast ==
  ASSUME NEW rs \in Seq(Ranges), NEW n \in Nat \ {0}, Len(rs) = n
  PROVE  LET front == SubSeq(rs, 1, n - 1) IN
         front \in Seq(Ranges) /\ Expand(front) \in Seq(Nat) /\ Expand(rs) = Expand(front) \o BlocksOf(rs[n])
<1> DEFINE front == SubSeq(rs, 1, n - 1)
<1>1. front \in Seq(Ranges) /\ Len(front) = n - 1 /\ \A i \in 1 .. n - 1 : front[i] = rs[i]
  OBVIOUS
<1> HIDE DEF front
<1>2. PICK f : Prefix(rs, f, n) /\ Expand(rs) = f[n]
  BY ExpandIs
<1>3. PICK g : Prefix(front, g, n - 1) /\ Expand(front) = g[n - 1]
  BY <1>1, ExpandIs
<1>4. n - 1 \in Nat /\ n - 1 =< n /\ n - 1 =< n - 1 /\ n \in 1 .. n /\ n - 1 \in 0 .. n - 1
  OBVIOUS
<1>5. f[n - 1] = g[n - 1]
  BY <1>1, <1>2, <1>3, <1>4, PrefixSame
<1>6. f[n] = f[n - 1] \o BlocksOf(rs[n])
  BY <1>2, <1>4 DEF Prefix
<1>7. g[n - 1] \in Seq(Nat)
  BY <1>1, <1>3, <1>4, PrefixType
<1> QED BY <1>1, <1>2, <1>3, <1>5, <1>6, <1>7, Zenon DEF front

LEMMA ExpandEmpty == Expand(<<>>) = <<>>
<1>1. PICK f : Prefix(<<>>, f, 0) /\ Expand(<<>>) = f[0]
  BY ExpandIs, <<>> \in Seq(Nat), Len(<<>>) = 0, Zenon
<1> QED BY <1>1 DEF Prefix

LEMMA ExpandType == ASSUME NEW rs \in Seq(Ranges) PROVE Expand(rs) \in Seq(Nat)
<1>1. PICK f : Prefix(rs, f, Len(rs)) /\ Expand(rs) = f[Len(rs)]
  BY ExpandIs
<1> QED BY <1>1, PrefixType

LEMMA BlocksAppend ==
  ASSUME NEW a \in Nat, NEW b \in Nat, a < b
  PROVE  /\ BlocksOf(<<a, b>>) \in Seq(Nat)
         /\ BlocksOf(<<a, b + 1>>) = Append(BlocksOf(<<a, b>>), b)
<1> DEFINE s == BlocksOf(<<a, b>>)  t == BlocksOf(<<a, b + 1>>)
<1>0. PICK n \in Nat : b = a + n
  BY b - a \in Nat, b = a + (b - a)
<1>1. b - a = n /\ b + 1 - a = n + 1
  BY <1>0
<1>2. s = [i \in 1 .. n |-> a + i - 1] /\ t = [i \in 1 .. n + 1 |-> a + i - 1]
  BY <1>1 DEF BlocksOf
<1> HIDE DEF s, t
<1>3. s \in Seq(Nat) /\ Len(s) = n /\ t \in Seq(Nat) /\ Len(t) = n + 1
  BY <1>2
<1>4. ASSUME NEW i \in 1 .. n + 1 PROVE t[i] = Append(s, b)[i]
  <2>1. t[i] = a + i - 1
    BY <1>2
  <2>2. CASE i = n + 1
    <3>1. Append(s, b)[i] = b
      BY <1>3, <2>2
    <3>2. a + (n + 1) - 1 = a + n
      OBVIOUS
    <3> QED BY <1>0, <2>1, <2>2, <3>1, <3>2, Zenon
  <2>3. CASE i # n + 1
    <3>1. i \in 1 .. n
      BY <2>3
    <3>2. Append(s, b)[i] = s[i] /\ s[i] = a + i - 1
      BY <1>2, <1>3, <3>1
    <3> QED BY <2>1, <3>2
  <2> QED BY <2>2, <2>3, Zenon
<1>5. Append(s, b) \in Seq(Nat) /\ Len(Append(s, b)) = n + 1
  BY <1>3
<1>6. t = Append(s, b)
  BY <1>3, <1>4, <1>5
<1> QED BY <1>3, <1>6, Zenon DEF s, t

\* add_block_to_ranges adds the block, at the end.
LEMMA AddBlockRight ==
  ASSUME NEW rs \in Seq(Ranges), NEW b \in Nat
  PROVE  AddBlock(rs, b) \in Seq(Ranges) /\ Expand(AddBlock(rs, b)) = Append(Expand(rs), b)
<1> DEFINE n == Len(rs)  new == AddBlock(rs, b)
<1>1. CASE rs # <<>> /\ rs[Len(rs)][2] = b
  <2>1. n \in Nat \ {0} /\ rs[n] \in Ranges
    BY <1>1
  <2>2. PICK a \in Nat : rs[n] = <<a, b>> /\ a < b
    <3>1. rs[n] \in Nat \X Nat /\ rs[n][1] < b /\ rs[n][2] = b
      BY <1>1, <2>1 DEF Ranges
    <3>2. rs[n] = <<rs[n][1], b>> /\ rs[n][1] \in Nat
      BY <3>1
    <3> QED BY <3>1, <3>2
  <2>3. new = [rs EXCEPT ![n] = <<a, b + 1>>]
    <3>1. new = [rs EXCEPT ![n] = [rs[n] EXCEPT ![2] = b + 1]]
      BY <1>1 DEF AddBlock
    <3>2. [rs[n] EXCEPT ![2] = b + 1] = <<a, b + 1>>
      BY <2>2
    <3> QED BY <3>1, <3>2, Zenon
  <2>4. <<a, b + 1>> \in Ranges
    BY <2>2 DEF Ranges
  <2>5. /\ new \in Seq(Ranges) /\ Len(new) = n /\ new[n] = <<a, b + 1>>
        /\ \A i \in 1 .. n - 1 : new[i] = rs[i]
    BY <2>1, <2>3, <2>4
  <2> HIDE DEF new
  <2>6. SubSeq(new, 1, n - 1) = SubSeq(rs, 1, n - 1)
    BY <2>1, <2>5
  <2> DEFINE e == Expand(SubSeq(rs, 1, n - 1))
  <2>7. e \in Seq(Nat) /\ Expand(rs) = e \o BlocksOf(<<a, b>>)
    BY <2>1, <2>2, ExpandLast, Zenon
  <2>8. Expand(new) = e \o BlocksOf(<<a, b + 1>>)
    BY <2>1, <2>5, <2>6, ExpandLast, Zenon
  <2> HIDE DEF e
  <2>9. e \o Append(BlocksOf(<<a, b>>), b) = Append(e \o BlocksOf(<<a, b>>), b)
    <3>1. BlocksOf(<<a, b>>) \in Seq(Nat)
      BY <2>2, BlocksAppend, Zenon
    <3> QED BY <2>7, <3>1, ConcatAppend
  <2>10. Expand(new) = Append(Expand(rs), b)
    BY <2>2, <2>7, <2>8, <2>9, BlocksAppend, Zenon
  <2> QED BY <2>5, <2>10 DEF new
<1>2. CASE ~(rs # <<>> /\ rs[Len(rs)][2] = b)
  <2>1. new = Append(rs, <<b, b + 1>>) /\ <<b, b + 1>> \in Ranges
    BY <1>2 DEF AddBlock, Ranges
  <2>2. /\ new \in Seq(Ranges) /\ Len(new) = n + 1 /\ n \in Nat /\ SubSeq(new, 1, n) = rs
        /\ new[n + 1] = <<b, b + 1>>
    BY <2>1
  <2> HIDE DEF new
  <2>3. Expand(rs) \in Seq(Nat) /\ Expand(new) = Expand(rs) \o BlocksOf(<<b, b + 1>>)
    <3>1. PICK m \in Nat \ {0} : m = n + 1 /\ m - 1 = n
      BY <2>2
    <3>2. LET front == SubSeq(new, 1, m - 1) IN
          Expand(front) \in Seq(Nat) /\ Expand(new) = Expand(front) \o BlocksOf(new[m])
      BY <2>2, <3>1, ExpandLast, Zenon
    <3> QED BY <2>2, <3>1, <3>2, Zenon
  <2>4. BlocksOf(<<b, b + 1>>) = <<b>>
    <3>1. b + 1 - b = 1 /\ BlocksOf(<<b, b + 1>>) = [i \in 1 .. b + 1 - b |-> b + i - 1]
      BY DEF BlocksOf
    <3> QED BY <3>1
  <2>5. Expand(rs) \o <<b>> = Append(Expand(rs), b)
    BY <2>3
  <2> QED BY <2>2, <2>3, <2>4, <2>5, Zenon DEF new
<1> QED BY <1>1, <1>2

-----------------------------------------------------------------------------
(* What holds of the files and of the status between the steps *)

\* A line of the map, whatever is in it.
Lines == {<<"device">>} \cup ({"size", "count"} \X Nat) \cup (Nat \X Nat)

\* The text lists the package, or is refused; and it is refused only if it was written
\* over the longer file of an earlier call, or the package is empty.
Right(text) ==
  /\ Accepts(text) => Mapped(text) = layout
  /\ N > 0 /\ ~leftover => Accepts(text)

MapInv ==
  /\ tmp \in Seq(Lines) /\ tmpDisk \in Seq(Lines)
  /\ \A m \in {map, mapDisk} : m \in Seq(Lines) /\ (Accepts(m) => Mapped(m) \in Layouts)
  /\ renamed => map = tmpDisk /\ pc \notin {"loop", "sync_map", "sync_device", "rename"}
  /\ pc = "loop" => /\ ranges \in Seq(Ranges) /\ Expand(ranges) = SubSeq(layout, 1, head_block)
                    /\ ~leftover => tmp = Header(N)
  /\ pc \in {"sync_map", "sync_device", "rename"} => Right(tmp)
  /\ pc \in {"sync_device", "rename"} => tmpDisk = tmp
  /\ pc = "sync_dir" => renamed /\ Right(map)

\* The plain text is in the cache before the map is made, and on the flash before it
\* is put in place.
RawInv ==
  ~touched =>
    /\ pc = "loop" => \A k \in 1 .. head_block : raw[k] = k
    /\ pc \in {"sync_map", "sync_device", "rename"} => \A k \in 1 .. N : raw[k] = k
    /\ pc = "rename" \/ placed => \A k \in 1 .. N : raw[k] = k /\ rawDisk[k] = k

\* A call takes its map out of place before it works on another.
PlacedInv == placed => pc \notin {"loop", "sync_map", "sync_device", "rename"}

\* What the status 100 stands for, and that it is told once it is so.
Done ==
  /\ service = "uncrypt" /\ ondata => ~renamed /\ map = mapDisk /\ Right(mapDisk)
  /\ service \in {"setup", "setup_wipe"} => bcb = Message(service, command.options)
  /\ service = "setup_wipe" /\ command.wipe # "empty" => wipe_package
  /\ service = "clear" => bcb = NoMessage

StatusInv ==
  /\ sent # 0 => client = "wait" /\ pc = "ack"
  /\ pc \in {"loop", "sync_map", "sync_device", "rename", "sync_dir"} => service = "uncrypt"
  /\ pc \in {"write_bcb", "write_wipe_package"} => service \in {"setup", "setup_wipe"}
  /\ pc = "write_wipe_package" => bcb = Message(service, command.options)
  /\ sent = 100 \/ status = 100 => pc \in {"ack", "none"} /\ Done

-----------------------------------------------------------------------------
(* The text of a map *)

LEMMA OverFacts ==
  ASSUME NEW S, NEW text \in Seq(S), NEW old \in Seq(S)
  PROVE  /\ Over(text, old) \in Seq(S)
         /\ Len(Over(text, old)) = IF Len(old) > Len(text) THEN Len(old) ELSE Len(text)
         /\ \A i \in 1 .. Len(text) : Over(text, old)[i] = text[i]
         /\ Len(old) =< Len(text) => Over(text, old) = text
<1> DEFINE rest == SubSeq(old, Len(text) + 1, Len(old))
<1>1. Len(text) \in Nat /\ Len(old) \in Nat
  OBVIOUS
<1>2. CASE Len(old) > Len(text)
  <2>1. rest \in Seq(S) /\ Len(rest) = Len(old) - Len(text)
    BY <1>1, <1>2
  <2> HIDE DEF rest
  <2>2. /\ text \o rest \in Seq(S) /\ Len(text \o rest) = Len(text) + Len(rest)
        /\ \A i \in 1 .. Len(text) : (text \o rest)[i] = text[i]
    BY <1>1, <2>1
  <2>3. Over(text, old) = text \o rest
    BY DEF Over, rest
  <2> QED BY <1>1, <1>2, <2>1, <2>2, <2>3
<1>3. CASE Len(old) =< Len(text)
  <2>1. rest = <<>>
    BY <1>1, <1>3
  <2>2. Over(text, old) = text
    BY <2>1, ConcatEmptySeq, Zenon DEF Over
  <2> QED BY <1>1, <1>3, <2>2
<1> QED BY <1>1, <1>2, <1>3

LEMMA HeaderFacts ==
  ASSUME NEW n \in Nat
  PROVE  Header(n) \in Seq(Lines) /\ Len(Header(n)) = 2
<1>1. <<"device">> \in Lines /\ <<"size", n>> \in Lines
  BY DEF Lines
<1> QED BY <1>1 DEF Header

LEMMA TextFacts ==
  ASSUME NEW n \in Nat, NEW rs \in Seq(Ranges)
  PROVE  /\ Text(n, rs) \in Seq(Lines) /\ Len(Text(n, rs)) = 3 + Len(rs)
         /\ Text(n, rs)[2] = <<"size", n>> /\ Text(n, rs)[3] = <<"count", Len(rs)>>
         /\ \A i \in 1 .. Len(rs) : Text(n, rs)[3 + i] = rs[i]
         /\ \A i \in 4 .. 3 + Len(rs) : Text(n, rs)[i] = rs[i - 3]
<1> DEFINE front == Header(n) \o <<<<"count", Len(rs)>>>>
<1>1. Len(rs) \in Nat /\ rs \in Seq(Lines)
  <2>1. \A i \in 1 .. Len(rs) : rs[i] \in Lines
    BY DEF Ranges, Lines
  <2> QED BY <2>1
<1>2. <<"device">> \in Lines /\ <<"size", n>> \in Lines /\ <<"count", Len(rs)>> \in Lines
  BY <1>1 DEF Lines
<1>3. /\ Header(n) \in Seq(Lines) /\ Len(Header(n)) = 2 /\ Header(n)[2] = <<"size", n>>
      /\ <<<<"count", Len(rs)>>>> \in Seq(Lines) /\ Len(<<<<"count", Len(rs)>>>>) = 1
      /\ <<<<"count", Len(rs)>>>>[1] = <<"count", Len(rs)>>
  BY <1>2 DEF Header
<1>4. /\ front \in Seq(Lines) /\ Len(front) = 3
      /\ \A i \in 1 .. 3 : front[i] = IF i =< 2 THEN Header(n)[i] ELSE <<<<"count", Len(rs)>>>>[i - 2]
  <2> DEFINE h == Header(n)  c == <<<<"count", Len(rs)>>>>
  <2> HIDE DEF h, c
  <2>1. h \in Seq(Lines) /\ c \in Seq(Lines) /\ Len(h) = 2 /\ Len(c) = 1
    BY <1>3 DEF h, c
  <2>2. /\ h \o c \in Seq(Lines) /\ Len(h \o c) = Len(h) + Len(c)
        /\ \A i \in 1 .. Len(h) + Len(c) : (h \o c)[i] = IF i =< Len(h) THEN h[i] ELSE c[i - Len(h)]
    BY <2>1, ConcatProperties
  <2>3. /\ h \o c \in Seq(Lines) /\ Len(h \o c) = 3
        /\ \A i \in 1 .. 3 : (h \o c)[i] = IF i =< 2 THEN h[i] ELSE c[i - 2]
    BY <2>1, <2>2
  <2> QED BY <2>3 DEF h, c
<1>5. front[2] = <<"size", n>> /\ front[3] = <<"count", Len(rs)>>
  BY <1>3, <1>4
<1> HIDE DEF front
<1>6. Text(n, rs) = front \o rs
  BY DEF Text, front
<1>7. /\ front \o rs \in Seq(Lines) /\ Len(front \o rs) = 3 + Len(rs)
      /\ \A i \in 1 .. 3 + Len(rs) : (front \o rs)[i] = IF i =< 3 THEN front[i] ELSE rs[i - 3]
  <2>1. /\ front \o rs \in Seq(Lines) /\ Len(front \o rs) = Len(front) + Len(rs)
        /\ \A i \in 1 .. Len(front) + Len(rs) :
             (front \o rs)[i] = IF i =< Len(front) THEN front[i] ELSE rs[i - Len(front)]
    BY <1>1, <1>4, ConcatProperties, Zenon
  <2> QED BY <1>1, <1>4, <2>1
<1>8. (front \o rs)[2] = front[2] /\ (front \o rs)[3] = front[3]
  BY <1>1, <1>7
<1>9. \A i \in 4 .. 3 + Len(rs) : (front \o rs)[i] = rs[i - 3]
  BY <1>1, <1>7
<1>10. ASSUME NEW i \in 1 .. Len(rs) PROVE (front \o rs)[3 + i] = rs[i]
  <2>1. PICK m \in 4 .. 3 + Len(rs) : m = 3 + i /\ m - 3 = i
    BY <1>1
  <2> QED BY <1>9, <2>1, Zenon
<1> QED BY <1>5, <1>6, <1>7, <1>8, <1>9, <1>10

\* MapBlockFile refuses a text with lines of an older file after it, and reads the
\* ranges of any other.
LEMMA OverText ==
  ASSUME NEW n \in Nat, NEW rs \in Seq(Ranges), NEW old \in Seq(Lines),
         NEW t, t = Over(Text(n, rs), old)
  PROVE  /\ t \in Seq(Lines)
         /\ Accepts(t) => Mapped(t) = Expand(rs)
         /\ Len(old) =< 3 /\ n > 0 /\ Len(Expand(rs)) = n => Accepts(t)
<1> DEFINE text == Text(n, rs)
<1>1. /\ text \in Seq(Lines) /\ Len(text) = 3 + Len(rs) /\ Len(rs) \in Nat
      /\ text[2] = <<"size", n>> /\ text[3] = <<"count", Len(rs)>>
      /\ \A i \in 1 .. Len(rs) : text[3 + i] = rs[i]
      /\ \A i \in 4 .. 3 + Len(rs) : text[i] = rs[i - 3]
  BY TextFacts
<1> HIDE DEF text
<1>2. /\ t \in Seq(Lines)
      /\ Len(t) = IF Len(old) > Len(text) THEN Len(old) ELSE Len(text)
      /\ \A i \in 1 .. Len(text) : t[i] = text[i]
      /\ Len(old) =< Len(text) => t = text
  <2>1. t = Over(text, old)
    BY DEF text
  <2> QED BY ONLY <1>1, <2>1, old \in Seq(Lines), OverFacts, Zenon
<1>3. ASSUME Len(t) = 3 + Len(rs) PROVE SubSeq(t, 4, Len(t)) = rs
  <2>1. \A i \in 1 .. Len(rs) : t[3 + i] = rs[i]
    BY <1>1, <1>2
  <2>2. \A i \in 1 .. Len(rs) : 4 + i - 1 = 3 + i
    BY <1>1
  <2>3. Len(SubSeq(t, 4, Len(t))) = Len(rs) /\ SubSeq(t, 4, Len(t)) \in Seq(Lines)
    BY <1>1, <1>2, <1>3
  <2>4. \A i \in 1 .. Len(rs) : SubSeq(t, 4, Len(t))[i] = rs[i]
    BY <1>1, <1>2, <1>3, <2>1, <2>2
  <2>5. rs \in Seq(Lines)
    <3>1. \A i \in 1 .. Len(rs) : rs[i] \in Lines
      BY DEF Ranges, Lines
    <3> QED BY <3>1
  <2> QED BY <2>3, <2>4, <2>5, SeqEqual
<1>4. ASSUME Accepts(t) PROVE Mapped(t) = Expand(rs)
  <2>1. t[3] = <<"count", Len(rs)>>
    BY <1>1, <1>2
  <2>2. Len(t) = 3 + Len(rs)
    BY <1>4, <2>1 DEF Accepts
  <2> QED BY <1>3, <2>2, Zenon DEF Mapped
<1>5. ASSUME Len(old) =< 3, n > 0, Len(Expand(rs)) = n PROVE Accepts(t)
  <2>1. Len(old) \in Nat /\ Len(old) =< Len(text)
    BY <1>1, <1>5
  <2>2. t = text
    BY <1>2, <2>1
  <2>3. Len(rs) > 0
    <3>1. rs # <<>>
      BY <1>5, ExpandEmpty
    <3> QED BY <1>1, <3>1
  <2>4. ASSUME NEW i \in 4 .. 3 + Len(rs) PROVE text[i][1] < text[i][2]
    <3>1. i - 3 \in 1 .. Len(rs) /\ text[i] = rs[i - 3]
      BY <1>1
    <3>2. rs[i - 3] \in Ranges
      BY <3>1
    <3> QED BY <3>1, <3>2 DEF Ranges
  <2>5. SubSeq(text, 4, Len(text)) = rs
    BY <1>1, <1>3, <2>2
  <2>6. text[2][2] = n /\ text[3][1] = "count" /\ text[3][2] = Len(rs)
    BY <1>1
  <2>7. Len(text) >= 4 /\ Len(text) = 3 + text[3][2]
    BY <1>1, <2>3, <2>6
  <2> QED BY <1>1, <1>5, <2>2, <2>3, <2>4, <2>5, <2>6, <2>7, Zenon DEF Accepts
<1> QED BY <1>2, <1>4, <1>5

-----------------------------------------------------------------------------
(* The steps of produce_block_map *)

LEMMA LayoutFacts ==
  ASSUME NEW l \in Layouts
  PROVE  l \in Seq(Nat) /\ Len(l) \in Nat /\ SubSeq(l, 1, Len(l)) = l
<1>1. l \in Seq(Nat \ {0})
  BY UncryptAssumption DEF UncryptAssumption
<1>2. l \in Seq(Nat)
  BY <1>1
<1> QED BY <1>2, SubSeqFull

\* The window: not empty when it is full, and empty when all is written.
LEMMA WindowEnds ==
  ASSUME WindowInv, pc = "loop"
  PROVE  /\ N \in Nat /\ pos \in 0 .. N /\ head_block \in 0 .. pos
         /\ Slot(tail + 1) = head => pos > head_block
         /\ head # tail => pos > head_block
         /\ head = tail => head_block = pos
<1> DEFINE n == pos - head_block
<1>1. /\ WINDOW_SIZE \in Nat /\ WINDOW_SIZE > 1 /\ N \in Nat
      /\ pos \in 0 .. N /\ head_block \in 0 .. pos /\ n \in 0 .. WINDOW_SIZE - 1
      /\ head \in 0 .. WINDOW_SIZE - 1 /\ tail = Ring(head, n)
  BY UncryptAssumption, LengthNat DEF UncryptAssumption, WindowInv, DeviceInv, LoopInv, N
<1>2. Ring(head, 0) = head
  BY <1>1, RingFacts
<1>3. Slot(head + 1) # head
  BY <1>1, SlotNext
<1>4. n = 0 \/ pos > head_block
  BY <1>1
<1>5. ASSUME head = tail PROVE n = 0
  <2>1. 0 \in 0 .. WINDOW_SIZE - 1
    BY <1>1
  <2>2. n # 0 => Ring(head, n) # Ring(head, 0)
    BY <1>1, <2>1, RingFacts
  <2> QED BY <1>1, <1>2, <1>5, <2>2
<1>6. n = 0 => tail = head
  BY <1>1, <1>2
<1> QED BY <1>1, <1>3, <1>4, <1>5, <1>6

LEMMA SubSeqNext ==
  ASSUME NEW l \in Seq(Nat), NEW k \in Nat, k < Len(l)
  PROVE  SubSeq(l, 1, k + 1) = Append(SubSeq(l, 1, k), l[k + 1]) /\ l[k + 1] \in Nat
<1>1. k + 1 \in 1 .. Len(l)
  OBVIOUS
<1>2. SubSeq(l, 1, k) \in Seq(Nat) /\ Len(SubSeq(l, 1, k)) = k
  OBVIOUS
<1>3. SubSeq(l, 1, k + 1) \in Seq(Nat) /\ Len(SubSeq(l, 1, k + 1)) = k + 1
  BY <1>1
<1>4. l[k + 1] \in Nat
  BY <1>1
<1>5. ASSUME NEW i \in 1 .. k + 1 PROVE SubSeq(l, 1, k + 1)[i] = Append(SubSeq(l, 1, k), l[k + 1])[i]
  <2>1. CASE i = k + 1
    BY <1>1, <1>2, <1>3, <2>1
  <2>2. CASE i # k + 1
    BY <1>1, <1>2, <1>3, <2>2
  <2> QED BY <2>1, <2>2
<1>6. Append(SubSeq(l, 1, k), l[k + 1]) \in Seq(Nat) /\ Len(Append(SubSeq(l, 1, k), l[k + 1])) = k + 1
  BY <1>2, <1>4
<1> QED BY <1>3, <1>4, <1>5, <1>6, SeqEqual

\* The head goes to its block, and that block to the ranges.
LEMMA HeadListed ==
  ASSUME WindowInv, MapInv, RawInv, pc = "loop", pos > head_block, WriteHead,
         UNCHANGED <<layout, encrypted, touched, rawDisk>>
  PROVE  /\ ranges' \in Seq(Ranges) /\ Expand(ranges') = SubSeq(layout, 1, head_block')
         /\ ~touched => \A k \in 1 .. head_block' : raw'[k] = k
<1>1. /\ N \in Nat /\ pos \in 0 .. N /\ head_block \in 0 .. pos /\ head_block \in Nat
      /\ head_block < Len(layout) /\ layout \in Layouts
  BY WindowEnds DEF WindowInv, DeviceInv, N
<1>2. head_block' = head_block + 1 /\ ranges' = AddBlock(ranges, layout[head_block + 1])
  BY DEF WriteHead
<1>3. /\ layout[head_block + 1] \in Nat
      /\ SubSeq(layout, 1, head_block + 1) = Append(SubSeq(layout, 1, head_block), layout[head_block + 1])
  BY <1>1, LayoutFacts, SubSeqNext
<1>4. ranges \in Seq(Ranges) /\ Expand(ranges) = SubSeq(layout, 1, head_block)
  BY DEF MapInv
<1>5. ranges' \in Seq(Ranges) /\ Expand(ranges') = SubSeq(layout, 1, head_block')
  BY <1>2, <1>3, <1>4, AddBlockRight, Zenon
<1>6. ASSUME ~touched, NEW k \in 1 .. head_block' PROVE raw'[k] = k
  <2>1. k \in 1 .. N /\ head_block + 1 \in 1 .. N
    BY <1>1, <1>2
  <2>2. CASE ~encrypted
    BY <2>1, <2>2 DEF WriteHead, WindowInv, DeviceInv
  <2>3. CASE encrypted
    <3>1. buffers[head] = head_block + 1
      <4>1. 0 \in 0 .. pos - head_block - 1 /\ Ring(head, 0) = head /\ head_block + 0 + 1 = head_block + 1
        BY <1>1, RingFacts DEF WindowInv, LoopInv
      <4> QED BY <1>6, <2>3, <4>1 DEF WindowInv, LoopInv
    <3>2. raw' = [raw EXCEPT ![head_block + 1] = head_block + 1] /\ raw \in [1 .. N -> Int]
      BY <2>3, <3>1 DEF WriteHead, WindowInv, DeviceInv
    <3>3. CASE k = head_block + 1
      BY <2>1, <3>2, <3>3
    <3>4. CASE k # head_block + 1
      <4>1. k \in 1 .. head_block
        BY <1>1, <1>2, <3>4
      <4>2. raw[k] = k
        BY <1>6, <4>1 DEF RawInv
      <4> QED BY <2>1, <3>2, <3>4, <4>2
    <3> QED BY <3>3, <3>4
  <2> QED BY <2>2, <2>3
<1> QED BY <1>5, <1>6

Busy == {"loop", "sync_map", "sync_device", "rename", "sync_dir"}

FilesInv == MapInv /\ RawInv /\ PlacedInv

\* No call is at work on the files after the step.
LEMMA Rests ==
  ASSUME FilesInv, pc' \notin Busy,
         UNCHANGED <<layout, raw, rawDisk, map, mapDisk, tmp, tmpDisk, renamed, placed, touched>>
  PROVE  FilesInv'
<1>1. MapInv'
  BY DEF FilesInv, MapInv, Busy
<1>2. RawInv'
  BY DEF FilesInv, RawInv, Busy, N
<1>3. PlacedInv'
  BY DEF FilesInv, PlacedInv, Busy
<1> QED BY <1>1, <1>2, <1>3 DEF FilesInv

\* Nothing of the files changes.
LEMMA Stays ==
  ASSUME FilesInv,
         UNCHANGED <<layout, raw, rawDisk, map, mapDisk, tmp, tmpDisk, renamed, placed, touched, leftover,
                     pc, ranges, head_block>>
  PROVE  FilesInv'
<1>1. MapInv'
  BY DEF FilesInv, MapInv, Right, N
<1>2. RawInv'
  BY DEF FilesInv, RawInv, N
<1>3. PlacedInv'
  BY DEF FilesInv, PlacedInv
<1> QED BY <1>1, <1>2, <1>3 DEF FilesInv

\* A new call begins its map with the header.
LEMMA BeginFiles ==
  ASSUME WindowInv, FilesInv, BeginMap
  PROVE  FilesInv'
<1> USE DEF Error, Final, Goes
<1>1. /\ UNCHANGED <<layout, raw, rawDisk>> /\ pc' \in {"loop", "ack"} /\ placed' = FALSE
      /\ head_block' = 0 /\ ranges' = <<>> /\ leftover' = (tmp # <<>>)
      /\ map' = <<>> /\ renamed' = FALSE
      /\ mapDisk' \in {mapDisk, tmpDisk} /\ (mapDisk' # mapDisk => renamed /\ mapDisk' = map)
      /\ tmpDisk' \in {<<>>, tmpDisk}
      /\ tmp' = tmp \/ tmp' = Over(Header(N), tmp)
      /\ pc' = "loop" => tmp' = Over(Header(N), tmp)
  <2>1. UNCHANGED <<layout, raw, rawDisk>>
    BY DEF BeginMap, package, device
  <2>2. /\ placed' = FALSE /\ head_block' = 0 /\ ranges' = <<>> /\ leftover' = (tmp # <<>>)
        /\ map' = <<>> /\ renamed' = FALSE
    BY DEF BeginMap
  <2>3. PICK kept \in {FALSE, renamed} :
          /\ mapDisk' = IF kept THEN tmpDisk ELSE mapDisk
          /\ tmpDisk' = IF kept THEN <<>> ELSE tmpDisk
    BY Zenon DEF BeginMap
  <2>4. renamed => map = tmpDisk
    BY DEF FilesInv, MapInv
  <2>5. \/ tmp' = Over(Header(N), tmp) /\ pc' = "loop"
        \/ tmp' = tmp /\ pc' = "ack"
    BY DEF BeginMap
  <2>6. CASE kept = TRUE
    BY <2>1, <2>2, <2>3, <2>4, <2>5, <2>6, Zenon
  <2>7. CASE ~(kept = TRUE)
    <3>1. mapDisk' = mapDisk /\ tmpDisk' = tmpDisk
      BY <2>3, <2>7
    <3> QED BY <2>1, <2>2, <2>5, <3>1
  <2> QED BY <2>6, <2>7, Zenon
<1>2. layout \in Layouts /\ N \in Nat /\ N' = N
  BY <1>1, LayoutFacts DEF WindowInv, DeviceInv, N
<1>3. tmp \in Seq(Lines) /\ tmpDisk \in Seq(Lines) /\ mapDisk \in Seq(Lines) /\ map \in Seq(Lines)
  BY DEF FilesInv, MapInv
<1>4. Over(Header(N), tmp) \in Seq(Lines) /\ (tmp = <<>> => Over(Header(N), tmp) = Header(N))
  <2>1. Header(N) \in Seq(Lines) /\ Len(Header(N)) = 2
    BY <1>2, HeaderFacts
  <2>2. tmp = <<>> => Len(tmp) =< Len(Header(N))
    BY <2>1
  <2> QED BY <1>3, <2>1, <2>2, OverFacts
<1>5. <<>> \in Seq(Lines) /\ ~Accepts(<<>>)
  BY DEF Accepts
<1>6. \A m \in {map', mapDisk'} : m \in Seq(Lines) /\ (Accepts(m) => Mapped(m) \in Layouts)
  BY <1>1, <1>5, Zenon DEF FilesInv, MapInv
<1>7. ranges' \in Seq(Ranges) /\ Expand(ranges') = SubSeq(layout, 1, 0)
  <2>1. SubSeq(layout, 1, 0) = <<>>
    BY <1>2, LayoutFacts
  <2>2. <<>> \in Seq(Ranges)
    OBVIOUS
  <2> QED BY <1>1, <2>1, <2>2, ExpandEmpty, Zenon
<1>8. MapInv'
  BY <1>1, <1>2, <1>3, <1>4, <1>5, <1>6, <1>7, Zenon DEF MapInv, Header
<1>9. RawInv' /\ PlacedInv'
  BY <1>1 DEF RawInv, PlacedInv
<1> QED BY <1>8, <1>9 DEF FilesInv

\* A block read and, when the window is full, one written.
LEMMA LoopFiles ==
  ASSUME WindowInv, FilesInv, Loop
  PROVE  FilesInv'
<1> USE DEF Error, Final, Goes
<1>1. /\ pc = "loop" /\ pos < N
      /\ UNCHANGED <<layout, encrypted, touched, rawDisk, map, mapDisk, tmp, tmpDisk, renamed, placed, leftover>>
  BY DEF Loop, package, maps, history
<1>2. CASE Error /\ UNCHANGED <<window, raw>>
  BY <1>1, <1>2, Rests DEF Busy, window
<1>3. CASE UNCHANGED <<ranges, raw, head, head_block>> /\ pc' = "loop"
  BY <1>1, <1>3, Stays
<1>4. CASE Slot(tail + 1) = head /\ WriteHead /\ pc' = "loop"
  <2>1. /\ ranges' \in Seq(Ranges) /\ Expand(ranges') = SubSeq(layout, 1, head_block')
        /\ ~touched => \A k \in 1 .. head_block' : raw'[k] = k
    BY <1>1, <1>4, WindowEnds, HeadListed DEF FilesInv
  <2> HIDE DEF Error, Final, Goes
  <2>2. MapInv'
    BY <1>1, <1>4, <2>1 DEF FilesInv, MapInv, N
  <2>3. RawInv' /\ PlacedInv'
    BY <1>1, <1>4, <2>1 DEF FilesInv, RawInv, PlacedInv
  <2> QED BY <2>2, <2>3 DEF FilesInv
<1> QED BY <1>2, <1>3, <1>4 DEF Loop

LEMMA DrainFiles ==
  ASSUME WindowInv, FilesInv, Drain
  PROVE  FilesInv'
<1> USE DEF Error, Final, Goes
<1>1. /\ pc = "loop" /\ head # tail
      /\ UNCHANGED <<layout, encrypted, touched, rawDisk, map, mapDisk, tmp, tmpDisk, renamed, placed, leftover>>
  BY DEF Drain, package, maps, history
<1>2. CASE Error /\ UNCHANGED <<ranges, raw, head, head_block>>
  BY <1>1, <1>2, Rests DEF Busy
<1>3. CASE WriteHead /\ pc' = "loop"
  <2>1. /\ ranges' \in Seq(Ranges) /\ Expand(ranges') = SubSeq(layout, 1, head_block')
        /\ ~touched => \A k \in 1 .. head_block' : raw'[k] = k
    BY <1>1, <1>3, WindowEnds, HeadListed DEF FilesInv
  <2> HIDE DEF Error, Final, Goes
  <2>2. MapInv'
    BY <1>1, <1>3, <2>1 DEF FilesInv, MapInv, N
  <2>3. RawInv' /\ PlacedInv'
    BY <1>1, <1>3, <2>1 DEF FilesInv, RawInv, PlacedInv
  <2> QED BY <2>2, <2>3 DEF FilesInv
<1> QED BY <1>2, <1>3 DEF Drain

\* All blocks are in the ranges when they are written out.
LEMMA WriteFiles ==
  ASSUME WindowInv, FilesInv, WriteRanges
  PROVE  FilesInv'
<1>1. /\ pc = "loop" /\ pos = N /\ head = tail
      /\ UNCHANGED <<layout, encrypted, raw, rawDisk, map, mapDisk, tmpDisk, renamed, placed, touched, leftover>>
  BY DEF WriteRanges, package, device, history
<1>2. /\ layout \in Layouts /\ N \in Nat /\ N' = N /\ head_block = N
  BY <1>1, LayoutFacts, WindowEnds DEF WindowInv, DeviceInv, N
<1>3. ranges \in Seq(Ranges) /\ Expand(ranges) = layout /\ Len(Expand(ranges)) = N
  <2>1. ranges \in Seq(Ranges) /\ Expand(ranges) = SubSeq(layout, 1, head_block)
    BY <1>1 DEF FilesInv, MapInv
  <2> QED BY <1>2, <2>1, LayoutFacts DEF N
<1>4. /\ tmp \in Seq(Lines) /\ tmpDisk \in Seq(Lines) /\ (~leftover => Len(tmp) =< 3)
      /\ \A m \in {map, mapDisk} : m \in Seq(Lines) /\ (Accepts(m) => Mapped(m) \in Layouts)
      /\ ~renamed
  <2>1. Len(Header(N)) = 2
    BY <1>2, HeaderFacts
  <2>2. ~leftover => tmp = Header(N)
    BY <1>1 DEF FilesInv, MapInv
  <2>3. ASSUME ~leftover PROVE Len(tmp) =< 3
    <3>1. Len(tmp) = 2
      BY <2>1, <2>2, <2>3, Zenon
    <3> QED BY <3>1
  <2>4. ~renamed
    BY <1>1 DEF FilesInv, MapInv
  <2> QED BY <2>3, <2>4 DEF FilesInv, MapInv
<1>5. CASE tmp' = Over(Text(N, ranges), tmp) /\ Goes("sync_map")
  <2>1. /\ tmp' \in Seq(Lines) /\ (Accepts(tmp') => Mapped(tmp') = layout)
        /\ N > 0 /\ ~leftover => Accepts(tmp')
    BY <1>2, <1>3, <1>4, <1>5, OverText, Zenon
  <2>2. pc' = "sync_map"
    BY <1>5 DEF Goes
  <2>3. Right(tmp)'
    BY <1>1, <1>2, <2>1 DEF Right
  <2>4. MapInv'
    BY <1>1, <1>4, <2>1, <2>2, <2>3 DEF MapInv
  <2>5. ~touched => \A k \in 1 .. N : raw[k] = k
    BY <1>1, <1>2 DEF FilesInv, RawInv
  <2>6. ~placed
    BY <1>1 DEF FilesInv, PlacedInv
  <2>7. RawInv' /\ PlacedInv'
    BY <1>1, <1>2, <2>2, <2>5, <2>6 DEF RawInv, PlacedInv
  <2> QED BY <2>4, <2>7 DEF FilesInv
<1>6. CASE Error /\ \E k \in 2 .. 2 + Len(ranges) : tmp' = Over(SubSeq(Text(N, ranges), 1, k), tmp)
  <2>1. pc' = "ack"
    BY <1>6 DEF Error, Final
  <2>2. PICK k \in 2 .. 2 + Len(ranges) : tmp' = Over(SubSeq(Text(N, ranges), 1, k), tmp)
    BY <1>6
  <2>3. tmp' \in Seq(Lines)
    <3>1. Text(N, ranges) \in Seq(Lines) /\ Len(Text(N, ranges)) = 3 + Len(ranges) /\ Len(ranges) \in Nat
      BY <1>2, <1>3, TextFacts
    <3>2. SubSeq(Text(N, ranges), 1, k) \in Seq(Lines)
      BY <3>1
    <3> QED BY <1>4, <2>2, <3>2, OverFacts, Zenon
  <2>4. MapInv'
    BY <1>1, <1>4, <2>1, <2>3 DEF MapInv
  <2>5. RawInv' /\ PlacedInv'
    BY <1>1, <1>2, <2>1 DEF FilesInv, RawInv, PlacedInv
  <2> QED BY <2>4, <2>5 DEF FilesInv
<1> QED BY <1>5, <1>6 DEF WriteRanges

LEMMA SyncMapFiles ==
  ASSUME FilesInv, SyncMap
  PROVE  FilesInv'
<1>1. /\ pc = "sync_map"
      /\ UNCHANGED <<layout, raw, rawDisk, map, mapDisk, tmp, renamed, placed, touched, leftover>>
      /\ (tmpDisk' = tmpDisk /\ pc' = "ack") \/ (tmpDisk' = tmp /\ pc' = "sync_device")
  BY DEF SyncMap, package, device, history, Error, Final, Goes
<1>2. CASE tmpDisk' = tmpDisk /\ pc' = "ack"
  BY <1>1, <1>2, Rests DEF Busy
<1>3. CASE tmpDisk' = tmp /\ pc' = "sync_device"
  <2>0. Right(tmp) /\ ~renamed
    BY <1>1 DEF FilesInv, MapInv
  <2>1. MapInv'
    <3>1. Right(tmp)'
      BY <1>1, <2>0 DEF Right, N
    <3> QED BY <1>1, <1>3, <2>0, <3>1 DEF FilesInv, MapInv
  <2>2. RawInv' /\ PlacedInv'
    BY <1>1, <1>3 DEF FilesInv, RawInv, PlacedInv, N
  <2> QED BY <2>1, <2>2 DEF FilesInv
<1> QED BY <1>1, <1>2, <1>3

LEMMA SyncDeviceFiles ==
  ASSUME FilesInv, SyncDevice
  PROVE  FilesInv'
<1>1. /\ pc = "sync_device"
      /\ UNCHANGED <<layout, raw, map, mapDisk, tmp, tmpDisk, renamed, placed, touched, leftover>>
      /\ (rawDisk' = rawDisk /\ pc' = "ack") \/ (rawDisk' = raw /\ pc' = "rename")
  BY DEF SyncDevice, package, maps, history, Error, Final, Goes
<1>2. CASE rawDisk' = rawDisk /\ pc' = "ack"
  BY <1>1, <1>2, Rests DEF Busy
<1>3. CASE rawDisk' = raw /\ pc' = "rename"
  <2>1. MapInv'
    BY <1>1, <1>3 DEF FilesInv, MapInv, Right, N
  <2>2. RawInv' /\ PlacedInv'
    BY <1>1, <1>3 DEF FilesInv, RawInv, PlacedInv, N
  <2> QED BY <2>1, <2>2 DEF FilesInv
<1> QED BY <1>1, <1>2, <1>3

LEMMA RenameFiles ==
  ASSUME WindowInv, FilesInv, Rename
  PROVE  FilesInv'
<1>1. /\ pc = "rename"
      /\ UNCHANGED <<layout, raw, rawDisk, mapDisk, tmpDisk, touched, leftover>>
      /\ \/ UNCHANGED <<map, tmp, renamed, placed>> /\ pc' = "ack"
         \/ map' = tmp /\ tmp' = <<>> /\ renamed' = TRUE /\ placed' = TRUE /\ pc' = "sync_dir"
  BY DEF Rename, package, device, Error, Final, Goes
<1>2. CASE UNCHANGED <<map, tmp, renamed, placed>> /\ pc' = "ack"
  BY <1>1, <1>2, Rests DEF Busy
<1>3. CASE map' = tmp /\ tmp' = <<>> /\ renamed' = TRUE /\ placed' = TRUE /\ pc' = "sync_dir"
  <2>1. layout \in Layouts /\ <<>> \in Seq(Lines)
    BY DEF WindowInv, DeviceInv
  <2>2. Right(tmp) /\ tmpDisk = tmp
    BY <1>1 DEF FilesInv, MapInv
  <2>3. Accepts(tmp) => Mapped(tmp) \in Layouts
    BY <2>1, <2>2 DEF Right
  <2>4. Right(map)'
    BY <1>1, <1>3, <2>2 DEF Right, N
  <2>5. MapInv'
    BY <1>1, <1>3, <2>1, <2>2, <2>3, <2>4 DEF FilesInv, MapInv
  <2>6. RawInv' /\ PlacedInv'
    BY <1>1, <1>3 DEF FilesInv, RawInv, PlacedInv, N
  <2> QED BY <2>5, <2>6 DEF FilesInv
<1> QED BY <1>1, <1>2, <1>3, Zenon

LEMMA SyncDirFiles ==
  ASSUME FilesInv, SyncDir
  PROVE  FilesInv'
<1>1. /\ pc = "sync_dir" /\ pc' = "ack"
      /\ UNCHANGED <<layout, raw, rawDisk, map, tmp, placed, touched, leftover>>
      /\ \/ UNCHANGED <<mapDisk, tmpDisk, renamed>>
         \/ mapDisk' = tmpDisk /\ tmpDisk' = <<>> /\ renamed' = FALSE
  BY DEF SyncDir, package, device, history, Error, Final
<1>2. CASE UNCHANGED <<mapDisk, tmpDisk, renamed>>
  BY <1>1, <1>2, Rests DEF Busy
<1>3. CASE mapDisk' = tmpDisk /\ tmpDisk' = <<>> /\ renamed' = FALSE
  <2>1. map = tmpDisk /\ <<>> \in Seq(Lines)
    BY <1>1 DEF FilesInv, MapInv
  <2>2. MapInv'
    BY <1>1, <1>3, <2>1 DEF FilesInv, MapInv
  <2>3. RawInv' /\ PlacedInv'
    BY <1>1, <1>3 DEF FilesInv, RawInv, PlacedInv, N
  <2> QED BY <2>2, <2>3 DEF FilesInv
<1> QED BY <1>1, <1>2, <1>3, Zenon

LEMMA PowerFiles ==
  ASSUME WindowInv, FilesInv, PowerLoss
  PROVE  FilesInv' /\ (~renamed /\ map = mapDisk => map' = mapDisk /\ mapDisk' = mapDisk)
<1>1. /\ pc' = "none" /\ renamed' = FALSE /\ UNCHANGED <<layout, placed, touched>>
      /\ mapDisk' = map' /\ tmpDisk' = tmp' /\ rawDisk' = raw'
  BY DEF PowerLoss, package, history
<1>2. PICK on \in {TRUE, FALSE} :
        /\ map' = IF renamed THEN (IF on THEN tmpDisk ELSE mapDisk) ELSE (IF on THEN map ELSE mapDisk)
        /\ tmp' \in IF renamed THEN {IF on THEN <<>> ELSE tmpDisk} ELSE {tmp, tmpDisk}
  BY DEF PowerLoss
<1>3. renamed => map = tmpDisk
  BY DEF FilesInv, MapInv
<1>4. map' \in {map, mapDisk} /\ (~renamed /\ map = mapDisk => map' = mapDisk)
  BY <1>2, <1>3
<1>5. tmp' \in {<<>>, tmp, tmpDisk}
  BY <1>2
<1>6. <<>> \in Seq(Lines)
  OBVIOUS
<1>7. MapInv'
  BY <1>1, <1>4, <1>5, <1>6, Zenon DEF FilesInv, MapInv
<1>8. PICK lost \in SUBSET {k \in 1 .. N : raw[k] # rawDisk[k]} :
        raw' = [k \in 1 .. N |-> IF k \in lost THEN rawDisk[k] ELSE raw[k]]
  BY DEF PowerLoss
<1>9. RawInv'
  BY <1>1, <1>8 DEF FilesInv, RawInv, N
<1>10. PlacedInv'
  BY <1>1 DEF PlacedInv
<1> QED BY <1>1, <1>4, <1>7, <1>9, <1>10 DEF FilesInv

LEMMA NewPackageFiles ==
  ASSUME FilesInv, NewPackage
  PROVE  FilesInv'
<1>1. /\ pc' = "none" /\ placed' = FALSE
      /\ UNCHANGED <<map, mapDisk, tmp, tmpDisk, renamed>>
  BY DEF NewPackage, maps
<1>2. MapInv'
  BY <1>1 DEF FilesInv, MapInv
<1>3. RawInv' /\ PlacedInv'
  BY <1>1 DEF RawInv, PlacedInv
<1> QED BY <1>2, <1>3 DEF FilesInv

-----------------------------------------------------------------------------
(* What the client reads *)

\* A step that fails reports it, one on the way reports nothing, and one that succeeds
\* has done what it reports.
LEMMA Fails ==
  ASSUME StatusInv, pc \notin {"ack", "none"}, Final(-1), UNCHANGED service
  PROVE  StatusInv'
<1>1. status # 100 /\ pc' = "ack" /\ status' = status /\ sent' # 100 /\ (sent' # 0 => client' = "wait")
  BY DEF StatusInv, Final
<1> QED BY <1>1 DEF StatusInv

LEMMA Advances ==
  ASSUME StatusInv, pc \notin {"ack", "none"}, UNCHANGED <<socket, service>>,
         pc' \in Busy => service = "uncrypt",
         pc' \in {"write_bcb", "write_wipe_package"} => service \in {"setup", "setup_wipe"},
         pc' = "write_wipe_package" => bcb' = Message(service, command.options)'
  PROVE  StatusInv'
<1>1. sent = 0 /\ status # 100
  BY DEF StatusInv
<1>2. sent' = 0 /\ status' = status
  BY <1>1 DEF socket
<1> QED BY <1>1, <1>2 DEF StatusInv, Busy

LEMMA Succeeds ==
  ASSUME StatusInv, pc \notin {"ack", "none"}, Final(100), Done', UNCHANGED service
  PROVE  StatusInv'
<1>1. pc' = "ack" /\ status' = status /\ (sent' # 0 => client' = "wait")
  BY DEF Final
<1> QED BY <1>1 DEF StatusInv

\* Done does not depend on the socket.
LEMMA DoneStays ==
  ASSUME UNCHANGED <<layout, ondata, map, mapDisk, renamed, bcb, wipe_package, command, service, leftover>>
  PROVE  Done' <=> Done
BY DEF Done, Right, N

LEMMA UncryptStatus ==
  ASSUME MapInv, StatusInv, NothingToMap \/ BeginMap \/ Loop \/ Drain \/ WriteRanges
  PROVE  StatusInv'
<1> USE DEF Error, Goes
<1>1. CASE NothingToMap
  <2>1. pc = "start" /\ service = "uncrypt" /\ UNCHANGED <<service, ondata>>
    BY <1>1 DEF NothingToMap, package
  <2>2. CASE Final(-1)
    BY <2>1, <2>2, Fails
  <2>3. CASE ~ondata /\ Final(100)
    <3>1. Done'
      BY <2>1, <2>3 DEF Done
    <3> QED BY <2>1, <2>3, <3>1, Succeeds
  <2> QED BY <1>1, <2>2, <2>3 DEF NothingToMap
<1>2. CASE BeginMap
  <2>1. pc = "start" /\ service = "uncrypt" /\ UNCHANGED service
    BY <1>2 DEF BeginMap
  <2>2. CASE Final(-1)
    BY <2>1, <2>2, Fails
  <2>3. CASE pc' = "loop" /\ UNCHANGED socket
    BY <2>1, <2>3, Advances DEF Busy
  <2> QED BY <1>2, <2>2, <2>3 DEF BeginMap
<1>3. CASE Loop \/ Drain \/ WriteRanges
  <2>1. pc = "loop" /\ UNCHANGED service
    BY <1>3, Zenon DEF Loop, Drain, WriteRanges
  <2>2. CASE Final(-1)
    BY <2>1, <2>2, Fails
  <2>3. CASE pc' \in Busy /\ UNCHANGED socket
    BY <2>1, <2>3, Advances DEF Busy, StatusInv
  <2> QED BY <1>3, <2>2, <2>3, Zenon DEF Loop, Drain, WriteRanges, Busy
<1> QED BY <1>1, <1>2, <1>3

LEMMA SyncStatus ==
  ASSUME MapInv, StatusInv, SyncMap \/ SyncDevice \/ Rename \/ SyncDir
  PROVE  StatusInv'
<1> USE DEF Error, Goes
<1>1. pc \in Busy /\ service = "uncrypt" /\ UNCHANGED service
  BY DEF SyncMap, SyncDevice, Rename, SyncDir, StatusInv, Busy
<1>2. CASE Final(-1)
  BY <1>1, <1>2, Fails DEF Busy
<1>3. CASE pc' \in Busy /\ UNCHANGED socket
  BY <1>1, <1>3, Advances DEF Busy
<1>4. CASE SyncDir /\ ~Final(-1)
  <2>1. /\ pc = "sync_dir" /\ mapDisk' = tmpDisk /\ renamed' = FALSE /\ Final(100)
        /\ UNCHANGED <<layout, leftover, map>>
    BY <1>4 DEF SyncDir, package, history
  <2>2. map = tmpDisk /\ Right(map)
    BY <2>1 DEF MapInv
  <2>3. Right(mapDisk)' /\ map' = mapDisk'
    BY <2>1, <2>2 DEF Right, N
  <2>4. Done'
    BY <1>1, <2>1, <2>3 DEF Done
  <2> QED BY <1>1, <2>1, <2>4, Succeeds DEF Busy
<1> QED BY <1>2, <1>3, <1>4 DEF SyncMap, SyncDevice, Rename, Busy

LEMMA BcbStatus ==
  ASSUME StatusInv, ReceiveCommand \/ WriteBcb \/ WriteWipePackage \/ ClearBcb
  PROVE  StatusInv'
<1> USE DEF Error, Goes
<1>1. pc \notin {"ack", "none"} /\ UNCHANGED service
  BY DEF ReceiveCommand, WriteBcb, WriteWipePackage, ClearBcb
<1>2. CASE Final(-1)
  BY <1>1, <1>2, Fails
<1>3. CASE ReceiveCommand
  <2>1. /\ service \in {"setup", "setup_wipe"} /\ pc' \in {"write_bcb", "ack"} /\ UNCHANGED socket
    BY <1>3 DEF ReceiveCommand, NoStatus
  <2> QED BY <1>1, <2>1, Advances DEF Busy
<1>4. CASE WriteBcb /\ ~Final(-1)
  <2>1. /\ pc = "write_bcb" /\ bcb' = Message(service, command.options) /\ UNCHANGED command
        /\ pc' = "write_wipe_package" /\ UNCHANGED socket
    BY <1>4 DEF WriteBcb
  <2> QED BY <1>1, <2>1, Advances DEF Busy, StatusInv
<1>5. CASE WriteWipePackage /\ ~Final(-1)
  <2>1. /\ pc = "write_wipe_package" /\ UNCHANGED <<bcb, command>> /\ Final(100)
        /\ service = "setup_wipe" /\ command.wipe # "empty" => wipe_package'
    BY <1>5 DEF WriteWipePackage
  <2>2. service \in {"setup", "setup_wipe"} /\ bcb = Message(service, command.options)
    BY <2>1 DEF StatusInv
  <2>3. Done'
    BY <1>1, <2>1, <2>2, Zenon DEF Done
  <2> QED BY <1>1, <2>1, <2>3, Succeeds
<1>6. CASE ClearBcb /\ ~Final(-1)
  <2>1. service = "clear" /\ bcb' = NoMessage /\ Final(100)
    BY <1>6 DEF ClearBcb
  <2>2. Done'
    BY <1>1, <2>1 DEF Done
  <2> QED BY <1>1, <2>1, <2>2, Succeeds
<1> QED BY <1>2, <1>3, <1>4, <1>5, <1>6

LEMMA OtherStatus ==
  ASSUME StatusInv, WindowInv, FilesInv,
         \/ \E s \in Services : Call(s)
         \/ NewPackage \/ ReadStatus \/ ClientDies \/ Exit \/ Killed \/ PowerLoss \/ UNCHANGED vars
  PROVE  StatusInv'
<1>1. CASE \E s \in Services : Call(s)
  <2>1. pc' = "start" /\ sent' = 0 /\ status' = 0
    BY <1>1 DEF Call
  <2> QED BY <2>1 DEF StatusInv
<1>2. CASE NewPackage
  <2>1. pc = "none" /\ pc' = "none" /\ UNCHANGED sent /\ status' = 0
    BY <1>2 DEF NewPackage
  <2> QED BY <2>1 DEF StatusInv
<1>3. ASSUME UNCHANGED <<layout, ondata, map, mapDisk, renamed, bcb, wipe_package, command, service, leftover>>
      PROVE  Done' <=> Done
  BY <1>3, DoneStays
<1>4. CASE ReadStatus
  <2>1. /\ sent # 0 /\ status' = sent /\ sent' = 0 /\ UNCHANGED <<pc, service, bcb>>
        /\ UNCHANGED <<layout, ondata, map, mapDisk, renamed, bcb, wipe_package, command, service, leftover>>
    BY <1>4 DEF ReadStatus, package, maps, misc, history
  <2>2. Done' <=> Done
    BY <1>3, <2>1
  <2> QED BY <2>1, <2>2 DEF StatusInv
<1>5. CASE ClientDies
  <2>1. /\ sent' = 0 /\ UNCHANGED <<status, pc, service, bcb>>
        /\ UNCHANGED <<layout, ondata, map, mapDisk, renamed, bcb, wipe_package, command, service, leftover>>
    BY <1>5 DEF ClientDies, package, maps, misc, history
  <2>2. Done' <=> Done
    BY <1>3, <2>1
  <2> QED BY <2>1, <2>2 DEF StatusInv
<1>6. CASE Exit \/ Killed
  <2>1. /\ pc' = "none" /\ client # "wait" /\ UNCHANGED <<status, sent, service, bcb>>
        /\ UNCHANGED <<layout, ondata, map, mapDisk, renamed, bcb, wipe_package, command, service, leftover>>
    BY <1>6 DEF Exit, Killed, package, maps, misc, history
  <2>2. Done' <=> Done
    BY <1>3, <2>1
  <2> QED BY <2>1, <2>2 DEF StatusInv
<1>7. CASE PowerLoss
  <2>1. /\ pc' = "none" /\ sent' = 0 /\ renamed' = FALSE
        /\ UNCHANGED <<status, service, bcb, wipe_package, command, layout, ondata, leftover>>
    BY <1>7 DEF PowerLoss, package, misc, history
  <2>2. ~renamed /\ map = mapDisk => map' = mapDisk /\ mapDisk' = mapDisk
    BY <1>7, PowerFiles
  <2>3. Done => Done'
    BY <2>1, <2>2 DEF Done, Right, N
  <2> QED BY <2>1, <2>3 DEF StatusInv
<1>8. CASE UNCHANGED vars
  <2>1. /\ UNCHANGED <<status, sent, client, pc, service, bcb>>
        /\ UNCHANGED <<layout, ondata, map, mapDisk, renamed, bcb, wipe_package, command, service, leftover>>
    BY <1>8 DEF vars, socket, package, maps, misc, history
  <2>2. Done' <=> Done
    BY <1>3, <2>1
  <2> QED BY <2>1, <2>2 DEF StatusInv
<1> QED BY <1>1, <1>2, <1>4, <1>5, <1>6, <1>7, <1>8

CallInv == WindowInv /\ FilesInv /\ StatusInv

LEMMA InitCall == Init => CallInv
<1> SUFFICES ASSUME Init PROVE CallInv
  OBVIOUS
<1>1. <<>> \in Seq(Lines) /\ ~Accepts(<<>>)
  BY DEF Accepts
<1>2. MapInv
  BY <1>1 DEF Init, MapInv
<1>3. RawInv /\ PlacedInv /\ StatusInv
  BY DEF Init, RawInv, PlacedInv, StatusInv
<1> QED BY <1>2, <1>3, InitWindow DEF CallInv, FilesInv

LEMMA NextCall == CallInv /\ [Next]_vars => CallInv'
<1> SUFFICES ASSUME CallInv, [Next]_vars PROVE CallInv'
  OBVIOUS
<1>0. WindowInv /\ FilesInv /\ StatusInv /\ MapInv /\ WindowInv'
  BY NextWindow DEF CallInv, FilesInv
<1>1. CASE NothingToMap \/ BeginMap \/ Loop \/ Drain \/ WriteRanges
  <2>1. CASE NothingToMap
    <3>1. /\ pc' = "ack"
          /\ UNCHANGED <<layout, raw, rawDisk, map, mapDisk, tmp, tmpDisk, renamed, placed, touched>>
      BY <2>1 DEF NothingToMap, Error, Final, package, device, maps, history
    <3> QED BY <1>0, <1>1, <3>1, Rests, UncryptStatus DEF CallInv, Busy
  <2> QED BY <1>0, <1>1, <2>1, BeginFiles, LoopFiles, DrainFiles, WriteFiles, UncryptStatus DEF CallInv
<1>2. CASE SyncMap \/ SyncDevice \/ Rename \/ SyncDir
  BY <1>0, <1>2, SyncMapFiles, SyncDeviceFiles, RenameFiles, SyncDirFiles, SyncStatus DEF CallInv
<1>3. CASE ReceiveCommand \/ WriteBcb \/ WriteWipePackage \/ ClearBcb
  <2>1. /\ pc' \in {"ack", "write_bcb", "write_wipe_package"}
        /\ UNCHANGED <<layout, raw, rawDisk, map, mapDisk, tmp, tmpDisk, renamed, placed, touched>>
    BY <1>3, Zenon DEF ReceiveCommand, WriteBcb, WriteWipePackage, ClearBcb, Error, Final, Goes, NoStatus,
                package, device, maps, history
  <2> QED BY <1>0, <1>3, <2>1, Rests, BcbStatus DEF CallInv, Busy
<1>4. CASE Exit \/ Killed \/ \E s \in Services : Call(s)
  <2>1. /\ pc' \in {"none", "start"}
        /\ UNCHANGED <<layout, raw, rawDisk, map, mapDisk, tmp, tmpDisk, renamed, placed, touched>>
    BY <1>4 DEF Exit, Killed, Call, package, device, maps, history
  <2> QED BY <1>0, <1>4, <2>1, Rests, OtherStatus DEF CallInv, Busy
<1>5. CASE ReadStatus \/ ClientDies \/ UNCHANGED vars
  <2>1. UNCHANGED <<layout, raw, rawDisk, map, mapDisk, tmp, tmpDisk, renamed, placed, touched, leftover,
                    pc, ranges, head_block>>
    BY <1>5 DEF ReadStatus, ClientDies, vars, package, device, maps, window, history
  <2> QED BY <1>0, <1>5, <2>1, Stays, OtherStatus DEF CallInv
<1>6. CASE NewPackage
  BY <1>0, <1>6, NewPackageFiles, OtherStatus DEF CallInv
<1>7. CASE PowerLoss
  BY <1>0, <1>7, PowerFiles, OtherStatus DEF CallInv
<1> QED BY <1>1, <1>2, <1>3, <1>4, <1>5, <1>6, <1>7 DEF Next, Uncrypt

\* Whatever fails and whenever power is lost, a block map that recovery accepts lists
\* all blocks of a package in order; and a map of the package at hand is in place only
\* when its plain text is on the flash.
THEOREM MapListsPackage == Spec => []MapRight
<1>1. CallInv => MapRight
  BY DEF CallInv, FilesInv, MapInv, RawInv, MapRight
<1> QED BY <1>1, InitCall, NextCall, PTL DEF Spec

\* What fits the BCB is kept whole.
LEMMA MessageWhole ==
  /\ Message(service, command.options).asks = service
  /\ command.options <= Room => Message(service, command.options).options = command.options
BY DEF Message

\* The status 100 that a client has read is the truth and stays it through a loss of
\* power: the map on the flash is that of the package, or the BCB has the command, whole
\* if it fits, and a wipe package that is not empty is there.
THEOREM StatusIsTrue == Spec => []DoneMeansDone
<1>1. CallInv => DoneMeansDone
  <2> SUFFICES ASSUME CallInv, status = 100 PROVE DoneMeansDone
    BY DEF DoneMeansDone
  <2>1. Done
    BY DEF CallInv, StatusInv
  <2>2. service = "uncrypt" /\ ondata =>
          /\ N > 0 /\ ~leftover => Accepts(mapDisk)
          /\ Accepts(mapDisk) => Mapped(mapDisk) = layout
    BY <2>1 DEF Done, Right
  <2>3. service \in {"setup", "setup_wipe"} =>
          /\ bcb.asks = service
          /\ command.options <= Room => bcb.options = command.options
    BY <2>1, MessageWhole DEF Done
  <2>4. /\ service = "setup_wipe" /\ command.wipe = "full" => wipe_package
        /\ service = "clear" => bcb = NoMessage
    BY <2>1 DEF Done
  <2> QED BY <2>2, <2>3, <2>4 DEF DoneMeansDone
<1> QED BY <1>1, InitCall, NextCall, PTL DEF Spec

=============================================================================
