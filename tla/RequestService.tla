--------------------------- MODULE RequestService ---------------------------
(***************************************************************************)
(* What the server's threads promise its clients together; SignalPath      *)
(* implements it.  Each request is applied once, or dropped, and not       *)
(* before the requests for the same stream its client had seen answered.   *)
(* Each is answered once at most: a push or a pull, whose answer is the    *)
(* offer, when it has been applied, the others as soon as they were asked. *)
(* Who reads an answer is not promised.                                    *)
(***************************************************************************)
EXTENDS Naturals, Sequences

CONSTANTS Req, Streams, None

VARIABLES
  asked,    \* [Req -> its command and stream, None before it is sent]
  answers,  \* [Req -> the requests whose answers its client has read]
  before,   \* [Req -> the requests whose clients had been answered by then]
  applied, dropped

vars == <<asked, answers, before, applied, dropped>>

Reads(r, q) == \E i \in DOMAIN answers[r] : answers[r][i] = q

Init ==
  /\ asked = [r \in Req |-> None]
  /\ answers = [r \in Req |-> <<>>]
  /\ before = [r \in Req |-> {}]
  /\ applied = {} /\ dropped = {}

Ask(r) ==
  /\ asked[r] = None
  /\ \E c \in {"offer", "immediate"}, s \in Streams : asked' = [asked EXCEPT ![r] = <<c, s>>]
  /\ before' = [before EXCEPT ![r] = {q \in Req : Reads(q, q)}]
  /\ UNCHANGED <<answers, applied, dropped>>

Pending(r) == asked[r] # None /\ r \notin applied \cup dropped

Apply(r) ==
  /\ Pending(r)
  /\ \A q \in before[r] : asked[q][2] = asked[r][2] => q \in applied \cup dropped
  /\ applied' = applied \cup {r}
  /\ UNCHANGED <<asked, answers, before, dropped>>

Drop(r) ==
  /\ Pending(r)
  /\ dropped' = dropped \cup {r}
  /\ UNCHANGED <<asked, answers, before, applied>>

Answerable(q) ==
  /\ asked[q] # None
  /\ asked[q][1] = "offer" => q \in applied
  /\ \A r \in Req : ~Reads(r, q)

\* A client reads a list of answers: what its answers are longer by.
Answer(r) ==
  LET list == [i \in 1 .. Len(answers'[r]) - Len(answers[r]) |-> answers'[r][Len(answers[r]) + i]]
  IN /\ answers' = [answers EXCEPT ![r] = @ \o list]
     /\ \A i \in DOMAIN list : Answerable(list[i])
     /\ \A i, j \in DOMAIN list : list[i] = list[j] => i = j
     /\ UNCHANGED <<asked, before, applied, dropped>>

Next == \E r \in Req : Ask(r) \/ Apply(r) \/ Drop(r) \/ Answer(r)

Spec == Init /\ [][Next]_vars
=============================================================================
