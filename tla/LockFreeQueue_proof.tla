------------------------ MODULE LockFreeQueue_proof ------------------------
(***************************************************************************)
(* Proofs about LockFreeQueue, for every set of values and of addresses.   *)
(*                                                                         *)
(* The properties are not inductive: that the node consume() reads is      *)
(* still allocated follows from where the three pointers are in the list,  *)
(* so the invariant says where: first, then divider, then last, in link    *)
(* order, and divider strictly before last while consume() is reading.     *)
(***************************************************************************)
EXTENDS LockFreeQueue, SequenceTheorems, TLAPS

PointersInOrder ==
  /\ chain # <<>>
  /\ LastPos \in 1 .. Len(chain) /\ chain[LastPos] = last
  /\ DividerPos \in 1 .. LastPos /\ chain[DividerPos] = divider

ReadsBeforeLast ==
  /\ cpc \in {"nonempty", "copied"} => DividerPos < LastPos
  /\ cpc = "copied" => result = value[chain[DividerPos + 1]]

WaitingAreValues ==
  \A i \in 1 .. Len(chain) : i > DividerPos => value[chain[i]] \in Value

IInv == /\ TypeOK
        /\ ListIsChain
        /\ PointersInOrder
        /\ ReadsBeforeLast
        /\ WaitingAreValues
        /\ SizeAccounts

----------------------------------------------------------------------------
(* In a list without repetition a node is at one position only: DividerPos *)
(* is any position at which divider is found.                              *)
LEMMA UniquePosition ==
  ASSUME NEW s, NEW p, NEW i \in 1 .. Len(s), s[i] = p,
         \A j, k \in 1 .. Len(s) : s[j] = s[k] => j = k
  PROVE  (CHOOSE j \in 1 .. Len(s) : s[j] = p) = i
<1>1. PICK c : c = CHOOSE j \in 1 .. Len(s) : s[j] = p
  OBVIOUS
<1>2. c \in 1 .. Len(s) /\ s[c] = p
  BY <1>1
<1> QED
  BY <1>1, <1>2

(* The constructor establishes the invariant. *)
LEMMA InitIInv == Init => IInv
<1> SUFFICES ASSUME Init PROVE IInv
  OBVIOUS
<1>1. PICK a \in Addr : /\ first = a /\ divider = a /\ last = a
                        /\ chain = <<a>>
                        /\ value = [b \in Addr |-> Null]
                        /\ next = [b \in Addr |-> Null]
  BY DEF Init
<1>2. Len(chain) = 1 /\ chain[1] = a /\ chain \in Seq(Addr)
  BY <1>1
<1>3. ppc = "idle" /\ cpc = "idle" /\ size = 0 /\ result = Null
  BY DEF Init
<1>4. LastPos = 1
  BY <1>2, <1>3 DEF LastPos
<1>5. DividerPos = 1
  <2>1. \A j, k \in 1 .. Len(chain) : chain[j] = chain[k] => j = k
    BY <1>2
  <2> QED
    BY <2>1, <1>1, <1>2, UniquePosition DEF DividerPos
<1>6. TypeOK
  BY <1>1, <1>2, <1>3 DEF TypeOK
<1>7. ListIsChain
  BY <1>1, <1>2 DEF ListIsChain
<1>8. PointersInOrder
  BY <1>1, <1>2, <1>4, <1>5 DEF PointersInOrder
<1>9. ReadsBeforeLast /\ WaitingAreValues /\ SizeAccounts
  BY <1>2, <1>3, <1>4, <1>5 DEF ReadsBeforeLast, WaitingAreValues, SizeAccounts
<1> QED
  BY <1>6, <1>7, <1>8, <1>9 DEF IInv

----------------------------------------------------------------------------
(* produce() appends the node it links, which no live pointer named before. *)
LEMMA LinkIInv ==
  ASSUME IInv, NEW v \in Value, NEW a \in Addr, Link(v, a)
  PROVE  IInv'
<1> DEFINE n == Len(chain)
<1>1. /\ n \in Nat \ {0} /\ chain \in Seq(Addr)
      /\ \A i \in 1 .. n : chain[i] \in Addr /\ chain[i] # a
  BY DEF IInv, TypeOK, PointersInOrder, Link, Live
<1>2. /\ chain' \in Seq(Addr) /\ Len(chain') = n + 1 /\ chain'[n + 1] = a
      /\ \A i \in 1 .. n : chain'[i] = chain[i]
  BY <1>1 DEF Link
<1>3. LastPos = n /\ LastPos' = n /\ last = chain[n]
  BY <1>1, <1>2 DEF LastPos, Link, IInv, PointersInOrder
<1>4. /\ next' = [next EXCEPT ![a] = Null, ![last] = a]
      /\ value' = [value EXCEPT ![a] = v]
      /\ UNCHANGED <<first, divider, last, size, cpc, result>>
      /\ ppc = "idle" /\ ppc' = "linked"
  BY DEF Link, shared
<1>5. TypeOK'
  BY <1>1, <1>2, <1>4 DEF IInv, TypeOK
<1>6. ListIsChain'
  <2>1. \A i, j \in 1 .. n + 1 : chain'[i] = chain'[j] => i = j
    BY <1>1, <1>2 DEF IInv, ListIsChain
  <2>2. next'[last] = a /\ next'[a] = Null
    BY <1>1, <1>3, <1>4 DEF IInv, TypeOK
  <2>3. \A i \in 1 .. n - 1 : next'[chain[i]] = chain[i + 1]
    BY <1>1, <1>3, <1>4 DEF IInv, TypeOK, ListIsChain
  <2>4. first' = chain'[1]
    BY <1>1, <1>2, <1>4 DEF IInv, ListIsChain
  <2> QED
    BY <1>1, <1>2, <1>3, <2>1, <2>2, <2>3, <2>4 DEF ListIsChain
<1>7. DividerPos' = DividerPos
  <2>1. DividerPos \in 1 .. Len(chain') /\ chain'[DividerPos] = divider'
    BY <1>1, <1>2, <1>3, <1>4 DEF IInv, PointersInOrder
  <2> QED
    BY <2>1, <1>6, UniquePosition DEF DividerPos, ListIsChain
<1>8. PointersInOrder'
  BY <1>1, <1>2, <1>3, <1>4, <1>7 DEF IInv, PointersInOrder
<1>9. ReadsBeforeLast'
  BY <1>1, <1>2, <1>3, <1>4, <1>7
     DEF IInv, TypeOK, ReadsBeforeLast, PointersInOrder
<1>10. WaitingAreValues'
  BY <1>1, <1>2, <1>3, <1>4, <1>7
     DEF IInv, TypeOK, WaitingAreValues, PointersInOrder
<1>11. SizeAccounts'
  BY <1>3, <1>4, <1>7 DEF IInv, SizeAccounts
<1> QED
  BY <1>5, <1>6, <1>8, <1>9, <1>10, <1>11 DEF IInv

(* The store to last makes the appended node the last one. *)
LEMMA PublishIInv == ASSUME IInv, Publish PROVE IInv'
<1> DEFINE n == Len(chain)
<1>1. /\ n \in Nat \ {0} /\ chain \in Seq(Addr) /\ chain' = chain
      /\ ppc = "linked" /\ ppc' = "published" /\ last' = next[last]
      /\ UNCHANGED <<first, divider, size, value, next, cpc, result>>
  BY DEF IInv, TypeOK, PointersInOrder, Publish, heap
<1>2. LastPos = n - 1 /\ LastPos' = n /\ last = chain[n - 1] /\ n > 1
  BY <1>1 DEF LastPos, IInv, PointersInOrder
<1>3. last' = chain[n]
  BY <1>1, <1>2 DEF IInv, ListIsChain
<1>4. DividerPos' = DividerPos
  BY <1>1 DEF DividerPos
<1>5. TypeOK'
  BY <1>1, <1>3 DEF IInv, TypeOK
<1>6. ListIsChain' /\ WaitingAreValues'
  BY <1>1, <1>4 DEF IInv, ListIsChain, WaitingAreValues
<1>7. PointersInOrder' /\ ReadsBeforeLast'
  BY <1>1, <1>2, <1>3, <1>4 DEF IInv, PointersInOrder, ReadsBeforeLast
<1>8. SizeAccounts'
  BY <1>1, <1>2, <1>4 DEF IInv, TypeOK, PointersInOrder, SizeAccounts
<1> QED
  BY <1>5, <1>6, <1>7, <1>8 DEF IInv

(* The counter catches up with the published node. *)
LEMMA CountUpIInv == ASSUME IInv, CountUp PROVE IInv'
<1>1. /\ ppc = "published" /\ ppc' = "reclaim" /\ size' = size + 1
      /\ UNCHANGED <<first, divider, last, value, next, cpc, result, chain>>
  BY DEF CountUp, heap
<1>2. LastPos' = LastPos /\ DividerPos' = DividerPos
  BY <1>1 DEF LastPos, DividerPos
<1>3. TypeOK' /\ ListIsChain' /\ WaitingAreValues'
  BY <1>1, <1>2 DEF IInv, TypeOK, ListIsChain, WaitingAreValues
<1>4. PointersInOrder' /\ ReadsBeforeLast'
  BY <1>1, <1>2 DEF IInv, PointersInOrder, ReadsBeforeLast
<1>5. SizeAccounts'
  BY <1>1, <1>2 DEF IInv, TypeOK, PointersInOrder, SizeAccounts
<1> QED
  BY <1>3, <1>4, <1>5 DEF IInv

(* The freed node is the list's first and is before the divider. *)
LEMMA ReclaimIInv == ASSUME IInv, Reclaim PROVE IInv'
<1> DEFINE n == Len(chain)
<1>1. /\ n \in Nat \ {0} /\ chain \in Seq(Addr)
      /\ ppc = "reclaim" /\ first # divider /\ first' = next[first]
      /\ next' = [next EXCEPT ![first] = Null]
      /\ value' = [value EXCEPT ![first] = Null]
      /\ UNCHANGED <<divider, last, size, ppc, cpc, result>>
  BY DEF IInv, TypeOK, PointersInOrder, Reclaim
<1>2. /\ DividerPos \in 2 .. n /\ LastPos = n /\ n > 1
      /\ chain[1] = first /\ chain[n] = last /\ chain[DividerPos] = divider
  BY <1>1 DEF IInv, PointersInOrder, ListIsChain, LastPos
<1>3. /\ chain' \in Seq(Addr) /\ Len(chain') = n - 1
      /\ \A i \in 1 .. n - 1 : chain'[i] = chain[i + 1]
  BY <1>1, <1>2 DEF Reclaim
<1>4. LastPos' = n - 1
  BY <1>1, <1>3 DEF LastPos
<1>5. \A i \in 2 .. n : chain[i] \in Addr /\ chain[i] # first
  BY <1>1, <1>2 DEF IInv, ListIsChain
<1>6. first' = chain[2]
  BY <1>1, <1>2 DEF IInv, ListIsChain
<1>7. TypeOK'
  BY <1>1, <1>2, <1>3, <1>5, <1>6 DEF IInv, TypeOK
<1>8. ListIsChain'
  <2>1. \A i, j \in 1 .. n - 1 : chain'[i] = chain'[j] => i = j
    BY <1>1, <1>3 DEF IInv, ListIsChain
  <2>2. \A i \in 2 .. n : next'[chain[i]] = next[chain[i]]
    BY <1>1, <1>5 DEF IInv, TypeOK
  <2>3. \A i \in 1 .. n - 1 :
          next'[chain'[i]] = IF i < n - 1 THEN chain'[i + 1] ELSE Null
    <3> SUFFICES ASSUME NEW i \in 1 .. n - 1
                 PROVE  next'[chain'[i]] = IF i < n - 1 THEN chain'[i + 1] ELSE Null
      OBVIOUS
    <3>1. next'[chain'[i]] = next[chain[i + 1]]
      BY <1>1, <1>2, <1>3, <2>2
    <3>2. next[chain[i + 1]] = IF i + 1 < n THEN chain[i + 2] ELSE Null
      BY <1>1, <1>2 DEF IInv, ListIsChain
    <3> QED
      BY <1>1, <1>2, <1>3, <3>1, <3>2
  <2>4. first' = chain'[1]
    BY <1>2, <1>3, <1>6
  <2> QED
    BY <1>1, <1>3, <2>1, <2>3, <2>4 DEF ListIsChain
<1>9. DividerPos' = DividerPos - 1
  <2>1. DividerPos - 1 \in 1 .. Len(chain') /\ chain'[DividerPos - 1] = divider'
    BY <1>1, <1>2, <1>3
  <2> QED
    BY <2>1, <1>8, UniquePosition DEF DividerPos, ListIsChain
<1>10. PointersInOrder'
  BY <1>1, <1>2, <1>3, <1>4, <1>9 DEF PointersInOrder
<1>11. \A i \in 2 .. n : value'[chain[i]] = value[chain[i]]
  BY <1>1, <1>5 DEF IInv, TypeOK
<1>12. ReadsBeforeLast'
  <2>1. cpc \in {"nonempty", "copied"} => DividerPos' < LastPos'
    BY <1>1, <1>2, <1>4, <1>9 DEF IInv, ReadsBeforeLast
  <2>2. ASSUME cpc = "copied" PROVE result = value'[chain'[DividerPos' + 1]]
    BY <1>1, <1>2, <1>3, <1>4, <1>9, <1>11, <2>2 DEF IInv, ReadsBeforeLast
  <2> QED
    BY <1>1, <2>1, <2>2 DEF ReadsBeforeLast
<1>13. WaitingAreValues'
  <2> SUFFICES ASSUME NEW i \in 1 .. Len(chain'), i > DividerPos'
               PROVE  value'[chain'[i]] \in Value
    BY DEF WaitingAreValues
  <2>1. i + 1 \in 2 .. n /\ i + 1 > DividerPos /\ chain'[i] = chain[i + 1]
    BY <1>1, <1>2, <1>3, <1>9
  <2> QED
    BY <2>1, <1>11 DEF IInv, WaitingAreValues
<1>14. SizeAccounts'
  BY <1>1, <1>2, <1>4, <1>9 DEF IInv, TypeOK, SizeAccounts
<1> QED
  BY <1>7, <1>8, <1>10, <1>12, <1>13, <1>14 DEF IInv

(* Leaving produce() touches nothing the invariant relates. *)
LEMMA ProduceDoneIInv == ASSUME IInv, ProduceDone PROVE IInv'
<1>1. /\ ppc = "reclaim" /\ ppc' = "idle"
      /\ UNCHANGED <<first, divider, last, size, value, next, cpc, result, chain>>
  BY DEF ProduceDone, shared, heap
<1>2. LastPos' = LastPos /\ DividerPos' = DividerPos
  BY <1>1 DEF LastPos, DividerPos
<1> QED
  BY <1>1, <1>2 DEF IInv, TypeOK, ListIsChain, PointersInOrder, ReadsBeforeLast,
                    WaitingAreValues, SizeAccounts

----------------------------------------------------------------------------
(* divider # last, with divider not after last, is divider before last. *)
LEMMA ConsumeTestIInv == ASSUME IInv, ConsumeTest PROVE IInv'
<1>1. /\ cpc = "idle" /\ cpc' = "nonempty" /\ divider # last
      /\ UNCHANGED <<first, divider, last, size, value, next, ppc, result, chain>>
  BY DEF ConsumeTest, shared, heap
<1>2. LastPos' = LastPos /\ DividerPos' = DividerPos
  BY <1>1 DEF LastPos, DividerPos
<1>3. DividerPos < LastPos
  BY <1>1 DEF IInv, TypeOK, PointersInOrder
<1> QED
  BY <1>1, <1>2, <1>3 DEF IInv, TypeOK, ListIsChain, PointersInOrder,
     ReadsBeforeLast, WaitingAreValues, SizeAccounts

(* The value copied is the one of the node after the divider. *)
LEMMA CopyValueIInv == ASSUME IInv, CopyValue PROVE IInv'
<1>1. /\ cpc = "nonempty" /\ cpc' = "copied" /\ result' = value[next[divider]]
      /\ UNCHANGED <<first, divider, last, size, value, next, ppc, chain>>
  BY DEF CopyValue, shared, heap
<1>2. LastPos' = LastPos /\ DividerPos' = DividerPos
  BY <1>1 DEF LastPos, DividerPos
<1>3. /\ DividerPos < LastPos /\ next[divider] = chain[DividerPos + 1]
      /\ value[chain[DividerPos + 1]] \in Value
  BY <1>1 DEF IInv, TypeOK, PointersInOrder, ReadsBeforeLast, ListIsChain,
              WaitingAreValues
<1> QED
  BY <1>1, <1>2, <1>3 DEF IInv, TypeOK, ListIsChain, PointersInOrder,
     ReadsBeforeLast, WaitingAreValues, SizeAccounts

(* The divider moves to the node after it. *)
LEMMA MoveDividerIInv == ASSUME IInv, MoveDivider PROVE IInv'
<1>1. /\ cpc = "copied" /\ cpc' = "moved" /\ divider' = next[divider]
      /\ UNCHANGED <<first, last, size, value, next, ppc, result, chain>>
  BY DEF MoveDivider, heap
<1>2. LastPos' = LastPos
  BY <1>1 DEF LastPos
<1>3. /\ DividerPos \in Nat /\ LastPos \in 1 .. Len(chain) /\ DividerPos < LastPos
      /\ DividerPos + 1 \in 1 .. Len(chain) /\ divider' = chain[DividerPos + 1]
  <2>1. /\ LastPos \in 1 .. Len(chain) /\ DividerPos \in 1 .. LastPos
        /\ DividerPos < LastPos /\ chain[DividerPos] = divider
    BY <1>1 DEF IInv, PointersInOrder, ReadsBeforeLast
  <2>2. DividerPos \in 1 .. Len(chain) /\ DividerPos < Len(chain)
    BY <2>1 DEF IInv, TypeOK
  <2>3. next[chain[DividerPos]] = chain[DividerPos + 1]
    BY <2>2 DEF IInv, ListIsChain
  <2> QED
    BY <1>1, <2>1, <2>2, <2>3
<1>4. DividerPos' = DividerPos + 1
  <2>1. DividerPos + 1 \in 1 .. Len(chain') /\ chain'[DividerPos + 1] = divider'
    BY <1>1, <1>3
  <2>2. \A j, k \in 1 .. Len(chain') : chain'[j] = chain'[k] => j = k
    BY <1>1 DEF IInv, ListIsChain
  <2> QED
    BY <2>1, <2>2, UniquePosition DEF DividerPos
<1>5. TypeOK'
  BY <1>1, <1>3 DEF IInv, TypeOK
<1>6. ListIsChain'
  BY <1>1 DEF IInv, ListIsChain
<1>7. PointersInOrder' /\ ReadsBeforeLast' /\ WaitingAreValues'
  BY <1>1, <1>2, <1>3, <1>4
     DEF IInv, PointersInOrder, ReadsBeforeLast, WaitingAreValues
<1>8. SizeAccounts'
  BY <1>1, <1>2, <1>3, <1>4 DEF IInv, TypeOK, SizeAccounts
<1> QED
  BY <1>5, <1>6, <1>7, <1>8 DEF IInv

(* The counter catches up with the value taken. *)
LEMMA CountDownIInv == ASSUME IInv, CountDown PROVE IInv'
<1>1. /\ cpc = "moved" /\ cpc' = "idle" /\ size' = size - 1
      /\ UNCHANGED <<first, divider, last, value, next, ppc, result, chain>>
  BY DEF CountDown, heap
<1>2. LastPos' = LastPos /\ DividerPos' = DividerPos
  BY <1>1 DEF LastPos, DividerPos
<1>3. TypeOK' /\ ListIsChain' /\ WaitingAreValues'
  BY <1>1, <1>2 DEF IInv, TypeOK, ListIsChain, WaitingAreValues
<1>4. PointersInOrder' /\ ReadsBeforeLast'
  BY <1>1, <1>2 DEF IInv, PointersInOrder, ReadsBeforeLast
<1>5. SizeAccounts'
  BY <1>1, <1>2 DEF IInv, TypeOK, PointersInOrder, SizeAccounts
<1> QED
  BY <1>3, <1>4, <1>5 DEF IInv

----------------------------------------------------------------------------
(* Every step of either thread preserves the invariant. *)
LEMMA NextIInv == IInv /\ [Next]_vars => IInv'
<1> SUFFICES ASSUME IInv, [Next]_vars PROVE IInv'
  OBVIOUS
<1>1. ASSUME NEW v \in Value, NEW a \in Addr, Link(v, a) PROVE IInv'
  BY <1>1, LinkIInv
<1>2. CASE Publish \/ CountUp \/ Reclaim \/ ProduceDone
  BY <1>2, PublishIInv, CountUpIInv, ReclaimIInv, ProduceDoneIInv
<1>3. CASE ConsumeTest \/ CopyValue \/ MoveDivider \/ CountDown
  BY <1>3, ConsumeTestIInv, CopyValueIInv, MoveDividerIInv, CountDownIInv
<1>4. CASE ConsumeEmpty \/ UNCHANGED vars
  <2>1. UNCHANGED vars
    BY <1>4 DEF ConsumeEmpty
  <2> QED
    BY <2>1 DEF vars, IInv, TypeOK, ListIsChain, PointersInOrder, ReadsBeforeLast,
       WaitingAreValues, SizeAccounts, LastPos, DividerPos
<1> QED
  BY <1>1, <1>2, <1>3, <1>4 DEF Next, Produce, Consume

(* The invariant holds in every state the two threads can reach. *)
THEOREM IInvHolds == Spec => []IInv
<1> QED
  BY InitIInv, NextIInv, PTL DEF Spec

(* What every state has its type follows at once. *)
THEOREM TypeCorrect == Spec => []TypeOK
<1>1. IInv => TypeOK
  BY DEF IInv
<1> QED
  BY <1>1, IInvHolds, PTL

(* No thread of the queue touches a freed node (lines 29-36 and 42-43): the
   nodes they use are at positions of the list that the order of the three
   pointers keeps inside it. *)
THEOREM MemorySafety == Spec => []NoUseAfterFree
<1>1. ASSUME IInv PROVE NoUseAfterFree
  <2> DEFINE n == Len(chain)
  <2>1. n \in Nat \ {0} /\ \A i \in 1 .. n : chain[i] \in Live
    BY <1>1 DEF IInv, TypeOK, PointersInOrder, Live
  <2>2. last \in Live /\ first \in Live /\ divider \in Live
    BY <1>1, <2>1 DEF IInv, PointersInOrder, ListIsChain
  <2>3. \A i \in 1 .. n - 1 : next[chain[i]] \in Live
    BY <1>1, <2>1 DEF IInv, ListIsChain
  <2>4. ppc = "linked" => next[last] \in Live
    <3> SUFFICES ASSUME ppc = "linked" PROVE next[last] \in Live
      OBVIOUS
    <3>1. LastPos = n - 1 /\ LastPos \in 1 .. n /\ chain[LastPos] = last
      BY <1>1 DEF LastPos, IInv, PointersInOrder
    <3> QED
      BY <2>1, <2>3, <3>1
  <2>5. cpc \in {"nonempty", "copied"} => next[divider] \in Live
    <3> SUFFICES ASSUME cpc \in {"nonempty", "copied"} PROVE next[divider] \in Live
      OBVIOUS
    <3>1. /\ DividerPos \in 1 .. LastPos /\ LastPos \in 1 .. n
          /\ DividerPos < LastPos /\ chain[DividerPos] = divider
      BY <1>1 DEF IInv, PointersInOrder, ReadsBeforeLast
    <3> QED
      BY <2>1, <2>3, <3>1
  <2>6. (ppc = "reclaim" /\ first # divider) => next[first] \in Live
    <3> SUFFICES ASSUME ppc = "reclaim", first # divider PROVE next[first] \in Live
      OBVIOUS
    <3>1. first = chain[1] /\ DividerPos \in 1 .. LastPos /\ LastPos = n
          /\ chain[DividerPos] = divider
      BY <1>1 DEF IInv, PointersInOrder, ListIsChain, LastPos
    <3>2. n > 1
      BY <2>1, <3>1
    <3> QED
      BY <2>1, <2>3, <3>1, <3>2
  <2> QED
    BY <2>2, <2>4, <2>5, <2>6 DEF NoUseAfterFree
<1> QED
  BY <1>1, IInvHolds, PTL

(* The counter differs from the number of waiting values only by the thread
   steps that are under way, so it is never below -1. *)
THEOREM SizeIsAccounted == Spec => []SizeAccounts
<1>1. IInv => SizeAccounts
  BY DEF IInv
<1> QED
  BY <1>1, IInvHolds, PTL

(* The list loses no node and frees none twice. *)
THEOREM NoLeak == Spec => []ListIsChain
<1>1. IInv => ListIsChain
  BY DEF IInv
<1> QED
  BY <1>1, IInvHolds, PTL

----------------------------------------------------------------------------
(* Refinement: LockFreeQueue implements FifoQueue. *)

Got == IF result = Null THEN <<>> ELSE <<result>>

(* A sequence one longer than s, that agrees with s and ends in e. *)
LEMMA IsAppend ==
  ASSUME NEW S, NEW s \in Seq(S), NEW e \in S, NEW t \in [1 .. Len(s) + 1 -> S],
         \A i \in 1 .. Len(s) : t[i] = s[i], t[Len(s) + 1] = e
  PROVE  t = Append(s, e)
<1>1. Len(s) \in Nat
  BY LenProperties
<1>2. t \in Seq(S) /\ Len(t) = Len(s) + 1
  BY <1>1
<1>3. /\ Append(s, e) \in Seq(S) /\ Len(Append(s, e)) = Len(s) + 1
      /\ \A i \in 1 .. Len(s) : Append(s, e)[i] = s[i]
      /\ Append(s, e)[Len(s) + 1] = e
  BY AppendProperties
<1>4. \A i \in 1 .. Len(t) : t[i] = Append(s, e)[i]
  BY <1>1, <1>2, <1>3
<1> QED
  BY <1>2, <1>3, <1>4, SeqEqual

(* A sequence one shorter than s, that agrees with s one place further on. *)
LEMMA IsTail ==
  ASSUME NEW S, NEW s \in Seq(S), s # <<>>, NEW t \in [1 .. Len(s) - 1 -> S],
         \A i \in 1 .. Len(s) - 1 : t[i] = s[i + 1]
  PROVE  t = Tail(s)
<1>1. Len(s) - 1 \in Nat
  BY EmptySeq
<1>2. t \in Seq(S) /\ Len(t) = Len(s) - 1
  BY <1>1
<1>3. /\ Tail(s) \in Seq(S) /\ Len(Tail(s)) = Len(s) - 1
      /\ \A i \in 1 .. Len(s) - 1 : Tail(s)[i] = s[i + 1]
  BY HeadTailProperties
<1>4. \A i \in 1 .. Len(t) : t[i] = Tail(s)[i]
  BY <1>2, <1>3
<1> QED
  BY <1>2, <1>3, <1>4, SeqEqual

(* Where a state's counts put the waiting values. *)
LEMMA WaitingType ==
  ASSUME IInv
  PROVE  /\ LastPos \in 1 .. Len(chain) /\ TakenPos \in 1 .. LastPos
         /\ Len(chain) \in Nat
         /\ Waiting \in Seq(Value) /\ Len(Waiting) = LastPos - TakenPos
         /\ \A i \in 1 .. LastPos - TakenPos :
              Waiting[i] = value[chain[TakenPos + i]]
<1>1. /\ LastPos \in 1 .. Len(chain) /\ DividerPos \in 1 .. LastPos
      /\ Len(chain) \in Nat
  BY DEF IInv, TypeOK, PointersInOrder
<1>2. TakenPos \in 1 .. LastPos /\ TakenPos >= DividerPos
  BY <1>1 DEF TakenPos, IInv, ReadsBeforeLast
<1>3. \A i \in 1 .. LastPos - TakenPos : value[chain[TakenPos + i]] \in Value
  BY <1>1, <1>2 DEF IInv, WaitingAreValues
<1>4. Waiting \in [1 .. LastPos - TakenPos -> Value]
  BY <1>3 DEF Waiting
<1>5. LastPos - TakenPos \in Nat
  BY <1>1, <1>2
<1> QED
  BY <1>1, <1>2, <1>4, <1>5 DEF Waiting

(* A step that keeps every waiting value, wherever it moves the positions. *)
LEMMA SameWaiting ==
  ASSUME IInv, IInv',
         LastPos' - TakenPos' = LastPos - TakenPos,
         \A i \in 1 .. LastPos - TakenPos :
           value'[chain'[TakenPos' + i]] = value[chain[TakenPos + i]]
  PROVE  Waiting' = Waiting
  BY DEF Waiting

(* The dividers' positions in two states that share list and divider agree. *)
LEMMA SameDivider ==
  ASSUME chain' = chain, divider' = divider
  PROVE  DividerPos' = DividerPos
  BY DEF DividerPos

(* Linking a node does not put its value yet. *)
LEMMA LinkWaiting ==
  ASSUME IInv, IInv', NEW v \in Value, NEW a \in Addr, Link(v, a)
  PROVE  Waiting' = Waiting
<1> DEFINE n == Len(chain)
<1>1. /\ n \in Nat /\ chain \in Seq(Addr)
      /\ \A i \in 1 .. n : chain[i] \in Addr /\ chain[i] # a
  BY DEF IInv, TypeOK, Link, Live
<1>2. /\ Len(chain') = n + 1
      /\ \A i \in 1 .. n : chain'[i] = chain[i]
  BY <1>1 DEF Link
<1>3. /\ value' = [value EXCEPT ![a] = v] /\ divider' = divider /\ cpc' = cpc
      /\ LastPos = n /\ LastPos' = n
  BY <1>1, <1>2 DEF Link, shared, LastPos
<1>4. DividerPos \in 1 .. n /\ chain[DividerPos] = divider
  BY <1>3 DEF IInv, PointersInOrder
<1>5. DividerPos' = DividerPos
  <2>1. DividerPos \in 1 .. Len(chain') /\ chain'[DividerPos] = divider'
    BY <1>1, <1>2, <1>3, <1>4
  <2> QED
    BY <2>1, UniquePosition DEF DividerPos, IInv, ListIsChain
<1>6. TakenPos' = TakenPos /\ TakenPos \in 1 .. n
  BY <1>3, <1>5, WaitingType DEF TakenPos
<1>7. \A i \in 1 .. LastPos - TakenPos :
        value'[chain'[TakenPos' + i]] = value[chain[TakenPos + i]]
  BY <1>1, <1>2, <1>3, <1>6 DEF IInv, TypeOK
<1> QED
  BY <1>3, <1>6, <1>7, SameWaiting

(* Publishing a node puts its value at the end of the abstract queue. *)
LEMMA PublishPuts ==
  ASSUME IInv, IInv', Publish
  PROVE  \E v \in Value : Waiting' = Append(Waiting, v)
<1> DEFINE n == Len(chain)
<1>1. /\ ppc = "linked" /\ ppc' = "published"
      /\ UNCHANGED <<divider, value, cpc, chain>>
  BY DEF Publish, heap
<1>2. n \in Nat /\ LastPos = n - 1 /\ LastPos' = n /\ n > 1
  BY <1>1 DEF IInv, TypeOK, PointersInOrder, LastPos
<1>3. TakenPos' = TakenPos /\ TakenPos \in 1 .. n - 1
  BY <1>1, <1>2, SameDivider, WaitingType DEF TakenPos
<1>4. PICK v : v = value[chain[n]]
  OBVIOUS
<1>5. v \in Value
  BY <1>2, <1>3, <1>4 DEF IInv, PointersInOrder, WaitingAreValues
<1>6. /\ Waiting \in Seq(Value) /\ Len(Waiting) = (n - 1) - TakenPos
      /\ \A i \in 1 .. (n - 1) - TakenPos : Waiting[i] = value[chain[TakenPos + i]]
  BY <1>2, WaitingType
<1>7. Waiting' = [i \in 1 .. n - TakenPos |-> value[chain[TakenPos + i]]]
  BY <1>1, <1>2, <1>3 DEF Waiting
<1>8. Len(Waiting) + 1 = n - TakenPos
  BY <1>2, <1>3, <1>6
<1>9. Waiting'[Len(Waiting) + 1] = v
  <2>1. n - TakenPos \in 1 .. n - TakenPos /\ TakenPos + (n - TakenPos) = n
    BY <1>2, <1>3
  <2> QED
    BY <1>4, <1>7, <1>8, <2>1
<1>10. \A i \in 1 .. Len(Waiting) : Waiting'[i] = Waiting[i]
  <2> SUFFICES ASSUME NEW i \in 1 .. Len(Waiting) PROVE Waiting'[i] = Waiting[i]
    OBVIOUS
  <2>1. i \in 1 .. n - TakenPos /\ i \in 1 .. (n - 1) - TakenPos
    BY <1>2, <1>3, <1>6
  <2> QED
    BY <1>6, <1>7, <2>1
<1>11. Waiting' \in [1 .. Len(Waiting) + 1 -> Value]
  <2> SUFFICES ASSUME NEW i \in 1 .. n - TakenPos
               PROVE  value[chain[TakenPos + i]] \in Value
    BY <1>7, <1>8
  <2>1. i \in 1 .. Len(Waiting) \/ TakenPos + i = n
    BY <1>2, <1>3, <1>6
  <2>2. CASE i \in 1 .. Len(Waiting)
    BY <2>2, <1>6, ElementOfSeq
  <2>3. CASE TakenPos + i = n
    BY <2>3, <1>4, <1>5
  <2> QED
    BY <2>1, <2>2, <2>3
<1>12. Waiting' = Append(Waiting, v)
  BY <1>5, <1>6, <1>9, <1>10, <1>11, IsAppend
<1> QED
  BY <1>5, <1>12

(* Copying a value takes the head of the abstract queue. *)
LEMMA CopyTakes ==
  ASSUME IInv, IInv', CopyValue
  PROVE  Waiting # <<>> /\ Waiting' = Tail(Waiting) /\ Got' = <<Head(Waiting)>>
<1>1. /\ cpc = "nonempty" /\ cpc' = "copied" /\ result' = value[next[divider]]
      /\ UNCHANGED <<divider, value, ppc, chain>>
  BY DEF CopyValue, shared, heap
<1>2. LastPos' = LastPos /\ TakenPos = DividerPos /\ TakenPos' = TakenPos + 1
      /\ LastPos \in 1 .. Len(chain) /\ DividerPos \in 1 .. LastPos - 1
      /\ Len(chain) \in Nat
  BY <1>1, SameDivider, WaitingType
     DEF LastPos, TakenPos, IInv, ReadsBeforeLast, PointersInOrder
<1>3. /\ Waiting \in Seq(Value) /\ Len(Waiting) = LastPos - TakenPos
      /\ \A i \in 1 .. LastPos - TakenPos : Waiting[i] = value[chain[TakenPos + i]]
  BY WaitingType
<1>4. Waiting # <<>>
  BY <1>2, <1>3
<1>5. Waiting' = [i \in 1 .. LastPos - TakenPos - 1 |-> value[chain[TakenPos + 1 + i]]]
  BY <1>1, <1>2 DEF Waiting
<1>6. Waiting' = Tail(Waiting)
  <2>1. \A i \in 1 .. Len(Waiting) - 1 : Waiting'[i] = Waiting[i + 1]
    <3> SUFFICES ASSUME NEW i \in 1 .. Len(Waiting) - 1
                 PROVE  Waiting'[i] = Waiting[i + 1]
      OBVIOUS
    <3>1. /\ i \in 1 .. LastPos - TakenPos - 1 /\ i + 1 \in 1 .. LastPos - TakenPos
          /\ TakenPos + 1 + i = TakenPos + (i + 1)
      BY <1>2, <1>3
    <3> QED
      BY <1>3, <1>5, <3>1
  <2>2. Waiting' \in [1 .. Len(Waiting) - 1 -> Value]
    <3>1. \A i \in 1 .. Len(Waiting) - 1 : Waiting[i + 1] \in Value
      BY <1>2, <1>3, ElementOfSeq
    <3>2. Waiting' \in [1 .. LastPos - TakenPos - 1 ->
                        {Waiting'[i] : i \in 1 .. LastPos - TakenPos - 1}]
      BY <1>5
    <3> QED
      BY <1>3, <2>1, <3>1, <3>2
  <2> QED
    BY <1>3, <1>4, <2>1, <2>2, IsTail
<1>7. Head(Waiting) = value[chain[DividerPos + 1]]
  BY <1>2, <1>3, <1>4, HeadTailProperties
<1>8. next[divider] = chain[DividerPos + 1] /\ value[chain[DividerPos + 1]] \in Value
  <2>1. DividerPos \in 1 .. Len(chain) /\ DividerPos < Len(chain)
        /\ chain[DividerPos] = divider
    BY <1>2 DEF IInv, PointersInOrder
  <2> QED
    BY <1>2, <2>1 DEF IInv, ListIsChain, WaitingAreValues
<1> QED
  BY <1>1, <1>4, <1>5, <1>6, <1>7, <1>8, NullAssumption DEF Got

(* Freeing a consumed node shifts the positions and keeps the values. *)
LEMMA ReclaimWaiting ==
  ASSUME IInv, IInv', Reclaim
  PROVE  Waiting' = Waiting
<1> DEFINE n == Len(chain)
<1>1. /\ n \in Nat \ {0} /\ chain \in Seq(Addr) /\ ppc = "reclaim"
      /\ value' = [value EXCEPT ![first] = Null]
      /\ UNCHANGED <<divider, ppc, cpc>> /\ first # divider
  BY DEF IInv, TypeOK, PointersInOrder, Reclaim
<1>2. DividerPos \in 2 .. n /\ chain[DividerPos] = divider /\ chain[1] = first
  BY <1>1 DEF IInv, PointersInOrder, ListIsChain, LastPos
<1>3. /\ Len(chain') = n - 1
      /\ \A i \in 1 .. n - 1 : chain'[i] = chain[i + 1]
  BY <1>1, <1>2 DEF Reclaim
<1>4. LastPos = n /\ LastPos' = n - 1
  BY <1>1, <1>3 DEF LastPos
<1>5. DividerPos' = DividerPos - 1
  <2>1. DividerPos - 1 \in 1 .. Len(chain') /\ chain'[DividerPos - 1] = divider'
    BY <1>1, <1>2, <1>3
  <2> QED
    BY <2>1, UniquePosition DEF DividerPos, IInv, ListIsChain
<1>6. TakenPos' = TakenPos - 1 /\ TakenPos \in 2 .. n
  BY <1>1, <1>2, <1>4, <1>5, WaitingType DEF TakenPos
<1>7. \A i \in 2 .. n : value'[chain[i]] = value[chain[i]]
  BY <1>1, <1>2 DEF IInv, TypeOK, ListIsChain
<1>8. \A i \in 1 .. LastPos - TakenPos :
        value'[chain'[TakenPos' + i]] = value[chain[TakenPos + i]]
  <2> SUFFICES ASSUME NEW i \in 1 .. LastPos - TakenPos
               PROVE  value'[chain'[TakenPos' + i]] = value[chain[TakenPos + i]]
    OBVIOUS
  <2>1. /\ TakenPos' + i \in 1 .. n - 1 /\ TakenPos + i \in 2 .. n
        /\ (TakenPos' + i) + 1 = TakenPos + i
    BY <1>1, <1>4, <1>6
  <2>2. chain'[TakenPos' + i] = chain[TakenPos + i]
    BY <1>3, <2>1
  <2> QED
    BY <1>7, <2>1, <2>2
<1> QED
  BY <1>1, <1>4, <1>6, <1>8, SameWaiting

(* Moving the divider onto the node whose value was copied keeps the rest. *)
LEMMA MoveWaiting ==
  ASSUME IInv, IInv', MoveDivider
  PROVE  Waiting' = Waiting
<1>1. /\ cpc = "copied" /\ cpc' = "moved" /\ divider' = next[divider]
      /\ UNCHANGED <<value, ppc, chain>>
  BY DEF MoveDivider, heap
<1>2. LastPos' = LastPos /\ TakenPos = DividerPos + 1 /\ TakenPos' = DividerPos' + 0
  BY <1>1 DEF LastPos, TakenPos
<1>3. /\ DividerPos \in 1 .. Len(chain) /\ DividerPos + 1 \in 1 .. Len(chain)
      /\ chain[DividerPos] = divider
  BY <1>1, WaitingType DEF IInv, PointersInOrder, ReadsBeforeLast
<1>4. divider' = chain[DividerPos + 1]
  BY <1>1, <1>3 DEF IInv, ListIsChain
<1>5. DividerPos' = DividerPos + 1
  <2>1. DividerPos + 1 \in 1 .. Len(chain') /\ chain'[DividerPos + 1] = divider'
    BY <1>1, <1>3, <1>4
  <2> QED
    BY <2>1, UniquePosition DEF DividerPos, IInv, ListIsChain
<1>6. TakenPos' = TakenPos
  BY <1>2, <1>3, <1>5
<1> QED
  BY <1>1, <1>2, <1>6 DEF Waiting

(* Every other step leaves the abstract queue alone. *)
LEMMA OtherWaiting ==
  ASSUME IInv, IInv',
         CountUp \/ ProduceDone \/ ConsumeTest \/ ConsumeEmpty \/ CountDown
           \/ UNCHANGED vars
  PROVE  Waiting' = Waiting /\ Got' = Got
<1>1. /\ UNCHANGED <<divider, value, result, chain>>
      /\ ppc' = ppc \/ (ppc # "linked" /\ ppc' # "linked")
      /\ cpc' = cpc \/ (cpc # "copied" /\ cpc' # "copied")
  BY DEF CountUp, ProduceDone, ConsumeTest, ConsumeEmpty, CountDown, vars, shared, heap
<1>2. LastPos' = LastPos /\ TakenPos' = TakenPos
  BY <1>1, SameDivider DEF LastPos, TakenPos
<1> QED
  BY <1>1, <1>2 DEF Waiting, Got

(* consume() returns the values of produce() once each and in order: every
   behaviour of the list is one of the abstract queue. *)
THEOREM ListImplementsFifo == Spec => ImplementsFifo
<1>1. ASSUME Init PROVE Abstract!Init
  <2>1. IInv /\ cpc = "idle" /\ result = Null
    BY <1>1, InitIInv DEF Init
  <2>2. Len(chain) = 1
    BY <1>1 DEF Init
  <2>3. Len(Waiting) = 0 /\ Waiting \in Seq(Value)
    BY <2>1, <2>2, WaitingType
  <2> QED
    BY <2>1, <2>3 DEF Abstract!Init
<1>2. ASSUME IInv, IInv', [Next]_vars
      PROVE  [Abstract!Next]_<<Waiting, Got>>
  <2>1. ASSUME NEW v \in Value, NEW a \in Addr, Link(v, a)
        PROVE  UNCHANGED <<Waiting, Got>>
    <3>1. result' = result
      BY <2>1 DEF Link
    <3> QED
      BY <1>2, <2>1, <3>1, LinkWaiting DEF Got
  <2>2. CASE Publish
    <3>1. Got' = Got
      BY <2>2 DEF Publish, Got
    <3> QED
      BY <1>2, <2>2, <3>1, PublishPuts DEF Abstract!Next, Abstract!Put, Got
  <2>3. CASE CopyValue
    BY <1>2, <2>3, CopyTakes DEF Abstract!Next, Abstract!Take, Got
  <2>4. CASE Reclaim
    <3>1. Got' = Got
      BY <2>4 DEF Reclaim, Got
    <3> QED
      BY <1>2, <2>4, <3>1, ReclaimWaiting
  <2>5. CASE MoveDivider
    <3>1. Got' = Got
      BY <2>5 DEF MoveDivider, Got
    <3> QED
      BY <1>2, <2>5, <3>1, MoveWaiting
  <2>6. CASE CountUp \/ ProduceDone \/ ConsumeTest \/ ConsumeEmpty \/ CountDown
               \/ UNCHANGED vars
    BY <1>2, <2>6, OtherWaiting
  <2> QED
    BY <1>2, <2>1, <2>2, <2>3, <2>4, <2>5, <2>6 DEF Next, Produce, Consume
<1> QED
  BY <1>1, <1>2, IInvHolds, PTL DEF Spec, ImplementsFifo, Abstract!Spec, Abstract!vars, Got
============================================================================
