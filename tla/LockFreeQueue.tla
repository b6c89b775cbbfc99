--------------------------- MODULE LockFreeQueue ---------------------------
(***************************************************************************)
(* base/lock_free_queue.h: a singly linked list shared, without a lock, by *)
(* ONE producer thread and ONE consumer thread.                            *)
(*                                                                         *)
(*    first ---> ... ---> divider ---> ... ---> last                       *)
(*      consumed nodes,  |  values waiting for    |  (one more node while  *)
(*      freed by produce |  consume, after the    |   produce has linked   *)
(*                       |  divider node itself   |   it, not published)   *)
(*                                                                         *)
(* Each action is one access of a thread to memory the other one uses.     *)
(* As the header's first comment demands, loads and stores of the pointers *)
(* are atomic and seen in program order.  Addresses of freed nodes are     *)
(* reused by the allocator, so a stale pointer could name a new node.      *)
(***************************************************************************)
EXTENDS Integers, Sequences

CONSTANTS Value,   \* the values produced
          Addr,    \* the addresses operator new can return
          Null     \* nullptr, and "no value"

ASSUME NullAssumption == Null \notin Addr /\ Null \notin Value

VARIABLES
  \* the shared object
  first, divider, last,   \* node pointers
  size,                   \* the atomic counter
  \* the heap
  value, next,            \* the two fields of the node at each address
  \* the producer thread
  ppc,                    \* where it is in produce()
  \* the consumer thread
  cpc,                    \* where it is in consume()
  result,                 \* *result
  \* auxiliary: never read by the code
  chain                   \* the live nodes in link order, from first on

shared == <<first, divider, last, size>>
heap   == <<value, next>>
vars   == <<first, divider, last, size, value, next, ppc, cpc, result, chain>>

Live == {chain[i] : i \in 1 .. Len(chain)}

TypeOK == /\ first \in Addr /\ divider \in Addr /\ last \in Addr
          /\ size \in Int
          /\ value \in [Addr -> Value \cup {Null}]
          /\ next \in [Addr -> Addr \cup {Null}]
          /\ ppc \in {"idle", "linked", "published", "reclaim"}
          /\ cpc \in {"idle", "nonempty", "copied", "moved"}
          /\ result \in Value \cup {Null}
          /\ chain \in Seq(Addr)

\* The constructor: one dummy node with a default value.
Init == \E a \in Addr :
          /\ first = a /\ divider = a /\ last = a
          /\ size = 0
          /\ value = [b \in Addr |-> Null]
          /\ next = [b \in Addr |-> Null]
          /\ ppc = "idle" /\ cpc = "idle"
          /\ result = Null
          /\ chain = <<a>>

----------------------------------------------------------------------------
(* produce(t), run by the producer thread *)

\* last->next = new Node(t)
Link(v, a) ==
  /\ ppc = "idle"
  /\ a \notin Live
  /\ value' = [value EXCEPT ![a] = v]
  /\ next' = [next EXCEPT ![a] = Null, ![last] = a]
  /\ chain' = Append(chain, a)
  /\ ppc' = "linked"
  /\ UNCHANGED <<shared, cpc, result>>

\* last = last->next : from here on the consumer can see the node
Publish ==
  /\ ppc = "linked"
  /\ last' = next[last]
  /\ ppc' = "published"
  /\ UNCHANGED <<first, divider, size, heap, cpc, result, chain>>

\* ++_size
CountUp ==
  /\ ppc = "published"
  /\ size' = size + 1
  /\ ppc' = "reclaim"
  /\ UNCHANGED <<first, divider, last, heap, cpc, result, chain>>

\* Mutants of the loop: the wrong bound, which frees the divider; a lost node;
\* no step to the next node.
ReclaimUpToLast ==
  /\ ppc = "reclaim"
  /\ first # last
  /\ first' = next[first]
  /\ next' = [next EXCEPT ![first] = Null]
  /\ value' = [value EXCEPT ![first] = Null]
  /\ chain' = Tail(chain)
  /\ UNCHANGED <<divider, last, size, ppc, cpc, result>>
ReclaimJumps ==
  /\ ppc = "reclaim"
  /\ first # divider
  /\ first' = divider
  /\ chain' = Tail(chain)
  /\ UNCHANGED <<divider, last, size, heap, ppc, cpc, result>>
ReclaimStays ==
  /\ ppc = "reclaim"
  /\ first # divider
  /\ UNCHANGED vars

\* the body of while (first != divider): unlink the first node and free it
\* (what a freed node holds is never read: NoUseAfterFree)
Reclaim ==
  /\ ppc = "reclaim"
  /\ first # divider
  /\ first' = next[first]
  /\ next' = [next EXCEPT ![first] = Null]
  /\ value' = [value EXCEPT ![first] = Null]
  /\ chain' = Tail(chain)
  /\ UNCHANGED <<divider, last, size, ppc, cpc, result>>

\* the loop's exit
ProduceDone ==
  /\ ppc = "reclaim"
  /\ first = divider
  /\ ppc' = "idle"
  /\ UNCHANGED <<shared, heap, cpc, result, chain>>

----------------------------------------------------------------------------
(* consume(&result), run by the consumer thread *)

\* divider != last
ConsumeTest ==
  /\ cpc = "idle"
  /\ divider # last
  /\ cpc' = "nonempty"
  /\ UNCHANGED <<shared, heap, ppc, result, chain>>

\* divider == last: return false
ConsumeEmpty ==
  /\ cpc = "idle"
  /\ divider = last
  /\ UNCHANGED vars

\* Mutant: the divider's own value.
CopyDividerValue ==
  /\ cpc = "nonempty"
  /\ result' = value[divider]
  /\ cpc' = "copied"
  /\ UNCHANGED <<shared, heap, ppc, chain>>

\* *result = divider->next->value
CopyValue ==
  /\ cpc = "nonempty"
  /\ result' = value[next[divider]]
  /\ cpc' = "copied"
  /\ UNCHANGED <<shared, heap, ppc, chain>>

\* divider = divider->next : gives the old divider node to the producer
MoveDivider ==
  /\ cpc = "copied"
  /\ divider' = next[divider]
  /\ cpc' = "moved"
  /\ UNCHANGED <<first, last, size, heap, ppc, result, chain>>

\* --_size; return true
CountDown ==
  /\ cpc = "moved"
  /\ size' = size - 1
  /\ cpc' = "idle"
  /\ UNCHANGED <<first, divider, last, heap, ppc, result, chain>>

----------------------------------------------------------------------------
Produce == \/ \E v \in Value, a \in Addr : Link(v, a)
           \/ Publish \/ CountUp \/ Reclaim \/ ProduceDone

Consume == ConsumeTest \/ ConsumeEmpty \/ CopyValue \/ MoveDivider \/ CountDown

Next == Produce \/ Consume

Spec == Init /\ [][Next]_vars

\* The producer's thread goes on with the call it is in; nothing is asked of the
\* consumer's.
Fairness == /\ WF_vars(Publish) /\ WF_vars(CountUp)
            /\ WF_vars(Reclaim) /\ WF_vars(ProduceDone)

FairSpec == Spec /\ Fairness

----------------------------------------------------------------------------
(* Derived from the list: where the three pointers are in chain. *)

\* The position of the last published node: the list's end, or the node
\* before it while a linked node waits for Publish.
LastPos == IF ppc = "linked" THEN Len(chain) - 1 ELSE Len(chain)

DividerPos == CHOOSE i \in 1 .. Len(chain) : chain[i] = divider

\* The position of the last node whose value has been taken: the divider's, or
\* the next one's once consume() has copied its value (line 42).
TakenPos == DividerPos + (IF cpc = "copied" THEN 1 ELSE 0)

\* The values produced and not taken.
Waiting == [i \in 1 .. LastPos - TakenPos |-> value[chain[TakenPos + i]]]

----------------------------------------------------------------------------
(* Properties *)

\* No thread follows a pointer into a freed node, and none follows nullptr:
\* the node consume() copies from (line 42) is still allocated although
\* produce() frees nodes at the same time (lines 33-37), and the nodes
\* produce() writes to and unlinks are.
NoUseAfterFree ==
  /\ last \in Live /\ first \in Live
  /\ ppc = "linked" => next[last] \in Live
  /\ cpc \in {"nonempty", "copied"} =>
       divider \in Live /\ next[divider] \in Live
  /\ (ppc = "reclaim" /\ first # divider) => next[first] \in Live

\* The counter is the number of waiting values, less the node published and
\* not yet counted (between lines 30 and 31), plus the one taken and not yet
\* discounted (between lines 43 and 44).  Hence size() can read -1, never less.
SizeAccounts ==
  size = (LastPos - DividerPos) - (IF ppc = "published" THEN 1 ELSE 0)
                                + (IF cpc = "moved" THEN 1 ELSE 0)

\* The memory the list owns is exactly what can be reached from first: a freed
\* node is never linked (a second free, line 36) and a live one never lost (a
\* leak), whichever way produce() and consume() interleave, even when the
\* allocator hands a freed address out again.
ListIsChain ==
  /\ first = chain[1]
  /\ \A i \in 1 .. Len(chain) :
       next[chain[i]] = IF i < Len(chain) THEN chain[i + 1] ELSE Null
  /\ \A i, j \in 1 .. Len(chain) : chain[i] = chain[j] => i = j

\* consume() hands out the values of produce() once each and in order: the
\* list implements the abstract queue, where a value is put by the store to
\* last (line 30) and taken by the copy to *result (line 42).
Abstract == INSTANCE FifoQueue
              WITH items <- Waiting,
                   got <- IF result = Null THEN <<>> ELSE <<result>>

ImplementsFifo == Abstract!Spec

\* produce() returns: the loop that frees nodes (lines 33-37) chases the
\* consumer's pointer, and still ends, however the consumer runs.
ProduceReturns == ppc # "idle" ~> ppc = "idle"
============================================================================
