------------------------ MODULE StreamManager_proof ------------------------
(***************************************************************************)
(* Proofs about StreamManager, for every set of users, names and streams.  *)
(*                                                                         *)
(* The manager finds a stream by its name and checks its user, and removes *)
(* what it finds although the event was another stream's.  What saves it   *)
(* is that a map entry always is a live stream of that side and name       *)
(* (MapsAreLive) and that no push is alive outside its map (PushIsOwned);  *)
(* together they are inductive, and that no viewer gets the media of two   *)
(* sources follows from them.  A pull can be alive outside its map, but    *)
(* only a rival viewer puts it there; a removal then can take another      *)
(* stream for it, and that is the only way a connected stream ends that    *)
(* neither its users nor its own failure explain.                          *)
(***************************************************************************)
EXTENDS StreamManager, TLAPS

IInv == TypeOK /\ MapsAreLive /\ PushIsOwned

\* b is the same stream object as a, whatever has happened to its state.
SameStream(a, b) ==
  /\ b.kind = a.kind
  /\ a.kind # "none" => b.name = a.name

-----------------------------------------------------------------------------
(* Objects *)

\* An address has an object exactly if it is live.
LEMMA Objects ==
  ASSUME TypeOK, NEW s \in Stream
  PROVE  /\ s \in live => obj[s] \in Object
         /\ s \notin live => obj[s] = Blank
         /\ obj[s].kind = "none" <=> s \notin live
<1>1. CASE obj[s] \in Object
  BY <1>1 DEF TypeOK, live, Object
<1>2. CASE obj[s] = Blank
  BY <1>2 DEF TypeOK, live, Blank
<1>. QED  BY <1>1, <1>2 DEF TypeOK

\* Deleting the streams in S leaves the others what they are.
LEMMA WithoutObjects ==
  ASSUME TypeOK, NEW S \in SUBSET Stream
  PROVE  /\ Without(S) \in [Stream -> Object \cup {Blank}]
         /\ \A s \in S : Without(S)[s] = Blank
         /\ \A s \in Stream \ S : Without(S)[s] = obj[s] /\ SameStream(obj[s], Without(S)[s])
BY DEF Without, TypeOK, SameStream

\* The removals' victim is a live stream of the map it is looked up in.
LEMMA OwnedIsLive ==
  ASSUME IInv, NEW u, NEW n \in Name, NEW map, map = push \/ map = pull
  PROVE  Owned(map, u, n) \subseteq live
BY DEF Owned, IInv, MapsAreLive, TypeOK

-----------------------------------------------------------------------------
(* Steps *)

\* Whatever callback deletes the live streams S, erases them from the maps and
\* changes the state of others keeps the invariant.
LEMMA RemovalIInv ==
  ASSUME IInv, NEW S \in SUBSET live,
         push' = Erase(push, S), pull' = Erase(pull, S),
         obj' \in [Stream -> Object \cup {Blank}],
         \A s \in S : obj'[s] = Blank,
         \A s \in Stream \ S : SameStream(obj[s], obj'[s]),
         dying' = dying \cup S
  PROVE  IInv'
<1>1. \A s \in S : obj'[s].kind = "none"
  BY DEF Blank
<1>2. live' = live \ S
  <2>1. \A s \in Stream \ S : obj'[s].kind = obj[s].kind
    BY DEF SameStream
  <2>. QED  BY <1>1, <2>1 DEF live
<1>3. \A s \in live' : obj'[s].kind = obj[s].kind /\ obj'[s].name = obj[s].name
  BY <1>2 DEF SameStream, live
<1>4. /\ \A n \in Name : push'[n] = IF push[n] \in S THEN Null ELSE push[n]
      /\ \A n \in Name : pull'[n] = IF pull[n] \in S THEN Null ELSE pull[n]
  BY DEF Erase
<1>5. TypeOK'
  <2>1. /\ push' \in [Name -> Stream \cup {Null}]
        /\ pull' \in [Name -> Stream \cup {Null}]
    BY DEF Erase, IInv, TypeOK
  <2>2. dying' \subseteq Stream \ live'
    BY <1>2 DEF IInv, TypeOK, live
  <2>. QED  BY <2>1, <2>2 DEF TypeOK
<1>6. MapsAreLive'
  BY <1>2, <1>3, <1>4 DEF IInv, MapsAreLive
<1>7. PushIsOwned'
  <2>1. ASSUME NEW s \in live', obj'[s].kind = "push"
        PROVE  push'[obj'[s].name] = s
    <3>1. s \in live /\ obj[s].kind = "push" /\ obj'[s].name = obj[s].name /\ s \notin S
      BY <1>2, <1>3, <2>1
    <3>2. push[obj[s].name] = s
      BY <3>1 DEF IInv, PushIsOwned
    <3>3. obj[s].name \in Name
      BY <3>1, Objects DEF IInv, Object, live
    <3>. QED  BY <1>4, <3>1, <3>2, <3>3
  <2>. QED  BY <2>1 DEF PushIsOwned
<1>. QED  BY <1>5, <1>6, <1>7 DEF IInv

\* Removing live streams, as a stop does
LEMMA RemoveIInv ==
  ASSUME IInv, NEW S \in SUBSET live, Remove(S)
  PROVE  IInv'
<1>1. S \in SUBSET Stream
  BY DEF live
<1>. QED  BY <1>1, RemovalIInv, WithoutObjects DEF Remove, IInv

\* A change of one live stream that keeps its kind and name
LEMMA UpdateIInv ==
  ASSUME IInv, NEW s \in live, NEW new \in Object, SameStream(obj[s], new), Update(s, new)
  PROVE  IInv'
<1>1. obj' \in [Stream -> Object \cup {Blank}]
  BY DEF IInv, TypeOK, Update
<1>2. \A t \in Stream : SameStream(obj[t], obj'[t])
  BY DEF IInv, TypeOK, Update, SameStream, live
<1>3. push' = Erase(push, {}) /\ pull' = Erase(pull, {}) /\ dying' = dying \cup {}
  BY DEF Update, Erase, IInv, TypeOK
<1>. QED  BY <1>1, <1>2, <1>3, RemovalIInv

LEMMA InitIInv == Init => IInv
<1>. SUFFICES ASSUME Init PROVE IInv
  OBVIOUS
<1>1. live = {}
  BY DEF Init, live, Blank
<1>2. TypeOK
  BY <1>1 DEF Init, TypeOK
<1>3. MapsAreLive /\ PushIsOwned
  BY <1>1 DEF Init, MapsAreLive, PushIsOwned
<1>. QED  BY <1>2, <1>3 DEF IInv

\* A new stream is an object.
LEMMA NewIsObject ==
  ASSUME NEW k \in {"push", "pull"}, NEW u \in Uid, NEW n \in Name
  PROVE  NewObject(k, u, n) \in Object
BY DEF NewObject, Object, PcState

LEMMA CreatePushIInv ==
  ASSUME IInv, NEW u \in Uid, NEW n \in Name, NEW s \in Stream, CreatePush(u, n, s)
  PROVE  IInv'
<1>. DEFINE old == {push[n]} \ {Null}
            new == NewObject("push", u, n)
<1>1. old \in SUBSET live /\ old \in SUBSET Stream
  BY DEF IInv, MapsAreLive, live
<1>2. s \in Stream \ live /\ s \notin dying /\ s # Null
  BY NullAssumption DEF CreatePush, Unused
<1>3. /\ Without(old) \in [Stream -> Object \cup {Blank}]
      /\ \A t \in old : Without(old)[t] = Blank
      /\ \A t \in Stream \ old : SameStream(obj[t], Without(old)[t])
  BY <1>1, WithoutObjects DEF IInv
<1>4. new \in Object /\ new.kind = "push" /\ new.name = n
  BY NewIsObject DEF NewObject
<1>5. /\ push' = [push EXCEPT ![n] = s]
      /\ obj' = [Without(old) EXCEPT ![s] = new]
      /\ dying' = dying \cup old
      /\ pull' = pull
  BY DEF CreatePush
<1>. HIDE DEF new, old
<1>6. /\ obj' \in [Stream -> Object \cup {Blank}]
      /\ obj'[s] = new
      /\ \A t \in old : obj'[t] = Blank
      /\ \A t \in Stream \ (old \cup {s}) : SameStream(obj[t], obj'[t])
  BY <1>1, <1>2, <1>3, <1>4, <1>5
<1>7. live' = (live \ old) \cup {s}
  <2>1. \A t \in old : obj'[t].kind = "none"
    BY <1>6 DEF Blank
  <2>2. \A t \in Stream \ (old \cup {s}) : obj'[t].kind = obj[t].kind
    BY <1>6 DEF SameStream
  <2>. QED  BY <1>1, <1>2, <1>4, <1>6, <2>1, <2>2 DEF live
<1>8. \A t \in live' \ {s} : t \in live \ old /\ obj'[t].kind = obj[t].kind
                             /\ obj'[t].name = obj[t].name
  BY <1>6, <1>7 DEF SameStream, live
<1>9. TypeOK'
  <2>1. dying' \subseteq Stream \ live'
    BY <1>1, <1>2, <1>5, <1>7 DEF IInv, TypeOK
  <2>. QED  BY <1>5, <1>6, <2>1 DEF IInv, TypeOK
<1>10. MapsAreLive'
  <2>1. ASSUME NEW m \in Name, push'[m] # Null
        PROVE push'[m] \in live' /\ obj'[push'[m]].kind = "push" /\ obj'[push'[m]].name = m
    <3>1. CASE m = n
      BY <1>4, <1>5, <1>6, <1>7, <3>1 DEF IInv, TypeOK
    <3>2. CASE m # n
      <4>1. push'[m] = push[m] /\ push[m] \in live /\ obj[push[m]].kind = "push"
            /\ obj[push[m]].name = m
        BY <1>5, <2>1, <3>2 DEF IInv, TypeOK, MapsAreLive
      <4>2. push[m] \notin old
        BY <3>2, <4>1 DEF IInv, MapsAreLive, old
      <4>. QED  BY <1>2, <1>7, <1>8, <4>1, <4>2
    <3>. QED  BY <3>1, <3>2
  <2>2. ASSUME NEW m \in Name, pull'[m] # Null
        PROVE pull'[m] \in live' /\ obj'[pull'[m]].kind = "pull" /\ obj'[pull'[m]].name = m
    <3>1. pull[m] \in live /\ obj[pull[m]].kind = "pull" /\ obj[pull[m]].name = m
      BY <1>5, <2>2 DEF IInv, MapsAreLive
    <3>2. pull[m] \notin old
      BY <3>1 DEF IInv, MapsAreLive, old
    <3>. QED  BY <1>2, <1>5, <1>7, <1>8, <3>1, <3>2
  <2>. QED  BY <2>1, <2>2 DEF MapsAreLive
<1>11. PushIsOwned'
  <2>1. ASSUME NEW t \in live', obj'[t].kind = "push" PROVE push'[obj'[t].name] = t
    <3>1. CASE t = s
      BY <1>4, <1>5, <1>6, <3>1 DEF IInv, TypeOK
    <3>2. CASE t # s
      <4>1. t \in live \ old /\ obj'[t].name = obj[t].name /\ push[obj[t].name] = t
        BY <1>8, <2>1, <3>2 DEF IInv, PushIsOwned
      <4>2. t # Null /\ obj[t].name # n
        BY <4>1, NullAssumption DEF old, live
      <4>3. obj[t].name \in Name
        BY <4>1, Objects DEF IInv, Object, live
      <4>. QED  BY <1>5, <4>1, <4>2, <4>3 DEF IInv, TypeOK
    <3>. QED  BY <3>1, <3>2
  <2>. QED  BY <2>1 DEF PushIsOwned
<1>. QED  BY <1>9, <1>10, <1>11 DEF IInv

LEMMA CreatePullIInv ==
  ASSUME IInv, NEW u \in Uid, NEW n \in Name, NEW s \in Stream, CreatePull(u, n, s)
  PROVE  IInv'
<1>. DEFINE old == Owned(pull, u, n)
            new == NewObject("pull", u, n)
<1>1. old \in SUBSET live /\ old \in SUBSET Stream /\ old \subseteq {pull[n]}
  BY OwnedIsLive DEF live, Owned
<1>2. s \in Stream \ live /\ s \notin dying /\ s # Null
  BY NullAssumption DEF CreatePull, Unused
<1>3. /\ Without(old) \in [Stream -> Object \cup {Blank}]
      /\ \A t \in old : Without(old)[t] = Blank
      /\ \A t \in Stream \ old : SameStream(obj[t], Without(old)[t])
  BY <1>1, WithoutObjects DEF IInv
<1>4. new \in Object /\ new.kind = "pull" /\ new.name = n
  BY NewIsObject DEF NewObject
<1>5. /\ pull' = [pull EXCEPT ![n] = s]
      /\ obj' = [Without(old) EXCEPT ![s] = new]
      /\ dying' = dying \cup old
      /\ push' = push
  BY DEF CreatePull
<1>. HIDE DEF new, old
<1>6. /\ obj' \in [Stream -> Object \cup {Blank}]
      /\ obj'[s] = new
      /\ \A t \in old : obj'[t] = Blank
      /\ \A t \in Stream \ (old \cup {s}) : SameStream(obj[t], obj'[t])
  BY <1>1, <1>2, <1>3, <1>4, <1>5
<1>7. live' = (live \ old) \cup {s}
  <2>1. \A t \in old : obj'[t].kind = "none"
    BY <1>6 DEF Blank
  <2>2. \A t \in Stream \ (old \cup {s}) : obj'[t].kind = obj[t].kind
    BY <1>6 DEF SameStream
  <2>. QED  BY <1>1, <1>2, <1>4, <1>6, <2>1, <2>2 DEF live
<1>8. \A t \in live' \ {s} : t \in live \ old /\ obj'[t].kind = obj[t].kind
                             /\ obj'[t].name = obj[t].name
  BY <1>6, <1>7 DEF SameStream, live
<1>9. TypeOK'
  <2>1. dying' \subseteq Stream \ live'
    BY <1>1, <1>2, <1>5, <1>7 DEF IInv, TypeOK
  <2>. QED  BY <1>5, <1>6, <2>1 DEF IInv, TypeOK
<1>10. MapsAreLive'
  <2>1. ASSUME NEW m \in Name, push'[m] # Null
        PROVE push'[m] \in live' /\ obj'[push'[m]].kind = "push" /\ obj'[push'[m]].name = m
    <3>1. push[m] \in live /\ obj[push[m]].kind = "push" /\ obj[push[m]].name = m
      BY <1>5, <2>1 DEF IInv, MapsAreLive
    <3>2. push[m] \notin old
      <4>1. ASSUME push[m] \in old PROVE FALSE
        <5>1. push[m] = pull[n] /\ pull[n] # Null
          BY <1>1, <1>5, <2>1, <4>1
        <5>. QED  BY <3>1, <5>1 DEF IInv, MapsAreLive
      <4>. QED  BY <4>1
    <3>. QED  BY <1>2, <1>5, <1>7, <1>8, <3>1, <3>2
  <2>2. ASSUME NEW m \in Name, pull'[m] # Null
        PROVE pull'[m] \in live' /\ obj'[pull'[m]].kind = "pull" /\ obj'[pull'[m]].name = m
    <3>1. CASE m = n
      BY <1>4, <1>5, <1>6, <1>7, <3>1 DEF IInv, TypeOK
    <3>2. CASE m # n
      <4>1. pull'[m] = pull[m] /\ pull[m] \in live /\ obj[pull[m]].kind = "pull"
            /\ obj[pull[m]].name = m
        BY <1>5, <2>2, <3>2 DEF IInv, TypeOK, MapsAreLive
      <4>2. pull[m] \notin old
        <5>1. ASSUME pull[m] \in old PROVE FALSE
          <6>1. pull[m] = pull[n] /\ pull[n] # Null
            BY <1>1, <2>2, <4>1, <5>1
          <6>. QED  BY <3>2, <4>1, <6>1 DEF IInv, MapsAreLive
        <5>. QED  BY <5>1
      <4>. QED  BY <1>2, <1>7, <1>8, <4>1, <4>2
    <3>. QED  BY <3>1, <3>2
  <2>. QED  BY <2>1, <2>2 DEF MapsAreLive
<1>11. PushIsOwned'
  <2>1. ASSUME NEW t \in live', obj'[t].kind = "push" PROVE push'[obj'[t].name] = t
    <3>1. t # s
      BY <1>4, <1>6, <2>1
    <3>. QED  BY <1>5, <1>8, <2>1, <3>1 DEF IInv, PushIsOwned
  <2>. QED  BY <2>1 DEF PushIsOwned
<1>. QED  BY <1>9, <1>10, <1>11 DEF IInv

LEMMA SetAnswerIInv ==
  ASSUME IInv, NEW u \in Uid, NEW n \in Name, NEW type \in {"push", "pull"},
         SetAnswer(u, n, type)
  PROVE  IInv'
<1>1. PICK s \in Owned(IF type = "push" THEN push ELSE pull, u, n) :
        Update(s, [obj[s] EXCEPT !.applied = TRUE])
  BY DEF SetAnswer
<1>2. s \in live /\ s \in Stream
  BY OwnedIsLive DEF live
<1>3. obj[s] \in Object
  BY <1>2, Objects DEF IInv
<1>. DEFINE new == [obj[s] EXCEPT !.applied = TRUE]
<1>4. new \in Object
  BY <1>3 DEF Object
<1>5. SameStream(obj[s], new)
  BY <1>3 DEF Object, SameStream
<1>. QED  BY <1>1, <1>2, <1>4, <1>5, UpdateIInv

\* A change of the connection state or of the timer of a live stream
LEMMA StateChangeIInv ==
  ASSUME IInv, NEW s \in live, NEW st \in PcState, NEW tm \in BOOLEAN,
         Update(s, [obj[s] EXCEPT !.state = st, !.timer = tm])
  PROVE  IInv'
<1>1. obj[s] \in Object
  BY Objects DEF IInv, live
<1>. DEFINE new == [obj[s] EXCEPT !.state = st, !.timer = tm]
<1>2. new \in Object
  BY <1>1 DEF Object
<1>3. SameStream(obj[s], new)
  BY <1>1 DEF Object, SameStream
<1>. QED  BY <1>2, <1>3, UpdateIInv

LEMMA ConnectedIInv ==
  ASSUME IInv, NEW s \in Stream, Connected(s) \/ OtherState(s)
  PROVE  IInv'
<1>0. s \in live /\ obj[s] \in Object
  BY Objects DEF Connected, OtherState, IInv
<1>1. CASE Connected(s)
  BY <1>0, <1>1, StateChangeIInv DEF Connected, PcState
<1>2. CASE OtherState(s)
  <2>1. [obj[s] EXCEPT !.state = "unconnected"]
          = [obj[s] EXCEPT !.state = "unconnected", !.timer = obj[s].timer]
    BY <1>0 DEF Object
  <2>2. obj[s].timer \in BOOLEAN
    BY <1>0 DEF Object
  <2>. QED  BY <1>0, <1>2, <2>1, <2>2, StateChangeIInv DEF OtherState, PcState
<1>. QED  BY <1>1, <1>2

\* The failure or the timeout of s, which deletes S and changes s if it stays
LEMMA EndIInv ==
  ASSUME IInv, NEW s \in live, NEW S \in SUBSET live,
         NEW new, s \notin S => new \in Object /\ SameStream(Without(S)[s], new),
         push' = Erase(push, S), pull' = Erase(pull, S), dying' = dying \cup S,
         obj' = [t \in Stream |-> IF t = s /\ s \notin S THEN new ELSE Without(S)[t]]
  PROVE  IInv'
<1>1. S \in SUBSET Stream /\ s \in Stream
  BY DEF live
<1>2. /\ Without(S) \in [Stream -> Object \cup {Blank}]
      /\ \A t \in S : Without(S)[t] = Blank
      /\ \A t \in Stream \ S : SameStream(obj[t], Without(S)[t])
  BY <1>1, WithoutObjects DEF IInv
<1>3. obj' \in [Stream -> Object \cup {Blank}] /\ \A t \in S : obj'[t] = Blank
  BY <1>1, <1>2
<1>4. \A t \in Stream \ S : SameStream(obj[t], obj'[t])
  <2>1. ASSUME NEW t \in Stream \ S PROVE SameStream(obj[t], obj'[t])
    <3>1. CASE t = s
      BY <1>2, <3>1 DEF SameStream
    <3>2. CASE t # s
      BY <1>2, <3>2
    <3>. QED  BY <3>1, <3>2
  <2>. QED  BY <2>1
<1>. QED  BY <1>3, <1>4, RemovalIInv

\* What is removed for s is live.
LEMMA VictimIsLive ==
  ASSUME IInv, NEW s \in live
  PROVE  Victim(s) \in SUBSET live
<1>1. obj[s] \in Object
  BY Objects DEF IInv, live
<1>2. obj[s].name \in Name
  BY <1>1 DEF Object
<1>3. CASE obj[s].kind = "push"
  BY <1>2, <1>3, OwnedIsLive DEF Victim
<1>4. CASE obj[s].kind # "push"
  BY <1>2, <1>4, OwnedIsLive DEF Victim
<1>. QED  BY <1>3, <1>4

\* A live stream that is not deleted with S stays the same object.
LEMMA SurvivorIsObject ==
  ASSUME IInv, NEW S \in SUBSET live, NEW s \in live \ S
  PROVE  Without(S)[s] \in Object /\ SameStream(obj[s], Without(S)[s])
<1>1. s \in Stream \ S /\ S \in SUBSET Stream /\ obj[s].kind # "none"
  BY DEF live
<1>2. Without(S)[s] \in Object \cup {Blank} /\ SameStream(obj[s], Without(S)[s])
  BY <1>1, WithoutObjects DEF IInv
<1>3. Without(S)[s] # Blank
  BY <1>1, <1>2 DEF SameStream, Blank
<1>. QED  BY <1>2, <1>3

LEMMA FailedIInv ==
  ASSUME IInv, NEW s \in Stream, Failed(s)
  PROVE  IInv'
<1>. DEFINE S == Victim(s)
            new == [Without(S)[s] EXCEPT !.state = "failed"]
<1>1. s \in live
  BY DEF Failed
<1>2. S \in SUBSET live
  BY <1>1, VictimIsLive
<1>3. s \notin S => new \in Object /\ SameStream(Without(S)[s], new)
  <2>. HIDE DEF S
  <2>. SUFFICES ASSUME s \notin S PROVE new \in Object /\ SameStream(Without(S)[s], new)
    OBVIOUS
  <2>1. Without(S)[s] \in Object
    BY <1>1, <1>2, SurvivorIsObject
  <2>. QED  BY <2>1 DEF Object, PcState, SameStream
<1>4. /\ push' = Erase(push, S) /\ pull' = Erase(pull, S) /\ dying' = dying \cup S
      /\ obj' = [t \in Stream |-> IF t = s /\ s \notin S THEN new ELSE Without(S)[t]]
  BY DEF Failed
<1>. HIDE DEF S, new
<1>. QED  BY <1>1, <1>2, <1>3, <1>4, EndIInv

LEMMA IceTimeoutIInv ==
  ASSUME IInv, NEW s \in Stream, IceTimeout(s)
  PROVE  IInv'
<1>. DEFINE S == IF obj[s].state # "connected" THEN Victim(s) ELSE {}
            new == [Without(S)[s] EXCEPT !.timer = FALSE]
<1>1. s \in live
  BY DEF IceTimeout
<1>2. S \in SUBSET live
  BY <1>1, VictimIsLive
<1>3. s \notin S => new \in Object /\ SameStream(Without(S)[s], new)
  <2>. HIDE DEF S
  <2>. SUFFICES ASSUME s \notin S PROVE new \in Object /\ SameStream(Without(S)[s], new)
    OBVIOUS
  <2>1. Without(S)[s] \in Object
    BY <1>1, <1>2, SurvivorIsObject
  <2>. QED  BY <2>1 DEF Object, SameStream
<1>4. /\ push' = Erase(push, S) /\ pull' = Erase(pull, S) /\ dying' = dying \cup S
      /\ obj' = [t \in Stream |-> IF t = s /\ s \notin S THEN new ELSE Without(S)[t]]
  BY DEF IceTimeout
<1>. HIDE DEF S, new
<1>. QED  BY <1>1, <1>2, <1>3, <1>4, EndIInv

LEMMA NextIInv == IInv /\ [Next]_vars => IInv'
<1>. SUFFICES ASSUME IInv, [Next]_vars PROVE IInv'
  OBVIOUS
<1>1. CASE Request
  <2>. PICK u \in Uid, n \in Name :
         \/ \E s \in Stream : CreatePush(u, n, s) \/ CreatePull(u, n, s)
         \/ \E type \in {"push", "pull"} : SetAnswer(u, n, type)
         \/ StopPush(u, n)
         \/ StopPull(u, n)
    BY <1>1 DEF Request
  <2>1. CASE \E s \in Stream : CreatePush(u, n, s) \/ CreatePull(u, n, s)
    BY <2>1, CreatePushIInv, CreatePullIInv
  <2>2. CASE \E type \in {"push", "pull"} : SetAnswer(u, n, type)
    BY <2>2, SetAnswerIInv
  <2>3. CASE StopPush(u, n)
    BY <2>3, OwnedIsLive, RemoveIInv DEF StopPush
  <2>4. CASE StopPull(u, n)
    BY <2>4, OwnedIsLive, RemoveIInv DEF StopPull
  <2>. QED  BY <2>1, <2>2, <2>3, <2>4
<1>2. CASE Callback
  <2>1. ASSUME NEW s \in Stream, DestroyPc(s) PROVE IInv'
    BY <2>1 DEF DestroyPc, IInv, TypeOK, MapsAreLive, PushIsOwned, live
  <2>. QED
    BY <1>2, <2>1, ConnectedIInv, FailedIInv, IceTimeoutIInv DEF Callback
<1>3. CASE UNCHANGED vars
  BY <1>3 DEF vars, IInv, TypeOK, MapsAreLive, PushIsOwned, live
<1>. QED  BY <1>1, <1>2, <1>3 DEF Next

-----------------------------------------------------------------------------
(* The theorems *)

\* The invariant holds in every reachable state.
THEOREM IInvHolds == Spec => []IInv
BY InitIInv, NextIInv, PTL DEF Spec

\* Every variable keeps its type, and no PeerConnection waiting to be deleted
\* belongs to a stream that is alive.
THEOREM TypeCorrect == Spec => []TypeOK
<1>1. IInv => TypeOK
  BY DEF IInv
<1>. QED  BY <1>1, IInvHolds, PTL

\* A lookup in the maps never yields a deleted stream, nor one of another side
\* or name (RtcStreamManager::_find_push_stream, _find_pull_stream).
THEOREM LookupsAreLive == Spec => []MapsAreLive
<1>1. IInv => MapsAreLive
  BY DEF IInv
<1>. QED  BY <1>1, IInvHolds, PTL

\* No push stream is alive outside the map (RtcStreamManager::create_push_stream).
THEOREM PushesAreOwned == Spec => []PushIsOwned
<1>1. IInv => PushIsOwned
  BY DEF IInv
<1>. QED  BY <1>1, IInvHolds, PTL

\* A viewer gets the packets of one source (RtcStreamManager::on_rtp_packet_received).
THEOREM NoMixedSources == Spec => []OneSourcePerViewer
<1>1. IInv => OneSourcePerViewer
  <2>. SUFFICES ASSUME IInv, NEW s \in live, NEW t \in live,
                       RtpTargets(s) \cap RtpTargets(t) # {}
                PROVE  s = t
    BY DEF OneSourcePerViewer
  <2>1. /\ obj[s].kind = "push" /\ obj[t].kind = "push"
        /\ pull[obj[s].name] = pull[obj[t].name] /\ pull[obj[s].name] # Null
    BY DEF RtpTargets, Named
  <2>2. obj[s].name \in Name /\ obj[t].name \in Name
    BY Objects DEF IInv, Object, live
  <2>3. obj[s].name = obj[t].name
    BY <2>1, <2>2 DEF IInv, MapsAreLive
  <2>. QED  BY <2>1, <2>3 DEF IInv, PushIsOwned
<1>. QED  BY <1>1, IInvHolds, PTL

-----------------------------------------------------------------------------
(***************************************************************************)
(* Streams that can be found again.  A push always can (PushIsOwned).  A   *)
(* pull leaves the map by being erased, and then it is deleted, or by      *)
(* being overwritten, and then it is deleted if the new one is its user's. *)
(* A removal for another stream finds s only under the name, the side and  *)
(* the user of s, so the other one is not in the map.                      *)
(***************************************************************************)

\* A step without CreatePull erases from the maps only what it deletes.
LEMMA MapsAreErased ==
  ASSUME IInv, [Next]_vars, NEW s \in live, obj[s].kind = "pull", s \in live',
         pull[obj[s].name] = s,
         \A u \in Uid, t \in Stream : ~CreatePull(u, obj[s].name, t)
  PROVE  pull'[obj[s].name] = s
<1>1. s \in Stream /\ obj[s] \in Object /\ obj'[s] # Blank
  BY Objects DEF IInv, live, Blank
<1>2. obj[s].name \in Name /\ pull \in [Name -> Stream \cup {Null}]
  BY <1>1 DEF Object, IInv, TypeOK
<1>3. ASSUME NEW S \in SUBSET live, pull' = Erase(pull, S), s \notin S
      PROVE  pull'[obj[s].name] = s
  BY <1>2, <1>3 DEF Erase
<1>4. ASSUME NEW S \in SUBSET live, pull' = Erase(pull, S), obj'[s] = Blank \/ s \notin S
      PROVE  pull'[obj[s].name] = s
  BY <1>1, <1>3, <1>4
<1>5. CASE pull' = pull
  BY <1>5
<1>6. ASSUME NEW u \in Uid, NEW n \in Name, NEW t \in Stream, CreatePull(u, n, t)
      PROVE  pull'[obj[s].name] = s
  BY <1>2, <1>6 DEF CreatePull
<1>7. ASSUME NEW S \in SUBSET live, Remove(S) PROVE pull'[obj[s].name] = s
  <2>1. s \in S => obj'[s] = Blank
    BY <1>1, <1>7 DEF Remove, Without
  <2>. QED  BY <1>4, <1>7, <2>1 DEF Remove
<1>8. ASSUME NEW t \in Stream, Failed(t) \/ IceTimeout(t) PROVE pull'[obj[s].name] = s
  <2>1. t \in live /\ Victim(t) \in SUBSET live
    BY <1>8, VictimIsLive DEF Failed, IceTimeout
  <2>2. CASE Failed(t)
    <3>1. s \in Victim(t) => obj'[s] = Blank
      BY <1>1, <2>2 DEF Failed, Without
    <3>. QED  BY <1>4, <2>1, <2>2, <3>1 DEF Failed
  <2>3. CASE IceTimeout(t)
    <3>. DEFINE S == IF obj[t].state # "connected" THEN Victim(t) ELSE {}
    <3>1. S \in SUBSET live /\ pull' = Erase(pull, S)
      BY <2>1, <2>3 DEF IceTimeout
    <3>2. s \in S => obj'[s] = Blank
      BY <1>1, <2>3 DEF IceTimeout, Without
    <3>. HIDE DEF S
    <3>. QED  BY <1>4, <3>1, <3>2
  <2>. QED  BY <1>8, <2>2, <2>3
<1>9. CASE Request
  <2>. PICK u \in Uid, n \in Name :
         \/ \E t \in Stream : CreatePush(u, n, t) \/ CreatePull(u, n, t)
         \/ \E type \in {"push", "pull"} : SetAnswer(u, n, type)
         \/ StopPush(u, n)
         \/ StopPull(u, n)
    BY <1>9 DEF Request
  <2>1. CASE (\E t \in Stream : CreatePush(u, n, t)) \/ \E type \in {"push", "pull"} : SetAnswer(u, n, type)
    BY <1>5, <2>1 DEF CreatePush, SetAnswer, Update
  <2>2. CASE \E t \in Stream : CreatePull(u, n, t)
    BY <1>6, <2>2
  <2>3. CASE StopPush(u, n) \/ StopPull(u, n)
    BY <1>7, <2>3, OwnedIsLive DEF StopPush, StopPull
  <2>. QED  BY <2>1, <2>2, <2>3
<1>10. CASE Callback
  BY <1>5, <1>8, <1>10 DEF Callback, Connected, OtherState, DestroyPc, Update
<1>11. CASE UNCHANGED vars
  BY <1>5, <1>11 DEF vars
<1>. QED  BY <1>9, <1>10, <1>11 DEF Next

\* A stream that lives through a step stays the stream it is.
LEMMA LivingIsSame ==
  ASSUME IInv, [Next]_vars, NEW s \in live, s \in live'
  PROVE  SameStream(obj[s], obj'[s])
<1>1. s \in Stream /\ obj[s] \in Object /\ obj'[s] # Blank
  BY Objects DEF IInv, live, Blank
<1>2. ASSUME NEW S \in SUBSET live PROVE Without(S)[s] = Blank \/ Without(S)[s] = obj[s]
  BY <1>1 DEF Without
<1>3. /\ SameStream(obj[s], obj[s])
      /\ SameStream(obj[s], [obj[s] EXCEPT !.applied = TRUE])
  BY <1>1 DEF Object, SameStream
<1>4. ASSUME obj' = obj PROVE SameStream(obj[s], obj'[s])
  BY <1>3, <1>4
<1>5. ASSUME NEW u \in Uid, NEW n \in Name, NEW t \in Stream,
             CreatePush(u, n, t) \/ CreatePull(u, n, t)
      PROVE  obj'[s] = obj[s]
  <2>1. s # t
    BY <1>5 DEF CreatePush, CreatePull, Unused
  <2>. QED  BY <1>1, <1>5, <2>1 DEF CreatePush, CreatePull, Without, IInv, TypeOK
<1>6. ASSUME NEW u \in Uid, NEW n \in Name, NEW type \in {"push", "pull"}, SetAnswer(u, n, type)
      PROVE  SameStream(obj[s], obj'[s])
  BY <1>1, <1>3, <1>6 DEF SetAnswer, Update, IInv, TypeOK
<1>7. ASSUME NEW u \in Uid, NEW n \in Name, StopPush(u, n) \/ StopPull(u, n)
      PROVE  obj'[s] = obj[s]
  BY <1>1, <1>7 DEF StopPush, StopPull, Remove, Without
<1>8. ASSUME NEW t \in Stream, Connected(t) \/ OtherState(t) \/ DestroyPc(t)
      PROVE  SameStream(obj[s], obj'[s])
  <2>1. CASE DestroyPc(t)
    BY <1>4, <2>1 DEF DestroyPc
  <2>2. ASSUME NEW new, Update(t, new), SameStream(obj[t], new)
        PROVE  SameStream(obj[s], obj'[s])
    BY <1>1, <1>3, <2>2 DEF Update, IInv, TypeOK
  <2>3. t \in live => obj[t] \in Object
    BY Objects DEF IInv, live
  <2>4. CASE Connected(t)
    <3>1. SameStream(obj[t], [obj[t] EXCEPT !.state = "connected", !.timer = FALSE])
      BY <2>3, <2>4 DEF Connected, Object, SameStream
    <3>. QED  BY <2>2, <2>4, <3>1 DEF Connected
  <2>5. CASE OtherState(t)
    <3>1. SameStream(obj[t], [obj[t] EXCEPT !.state = "unconnected"])
      BY <2>3, <2>5 DEF OtherState, Object, SameStream
    <3>. QED  BY <2>2, <2>5, <3>1 DEF OtherState
  <2>. QED  BY <1>8, <2>1, <2>4, <2>5
<1>9. ASSUME NEW t \in Stream, Failed(t) PROVE SameStream(obj[s], obj'[s])
  <2>1. obj'[s] = Without(Victim(t))[s]
        \/ (s \notin Victim(t) /\ obj'[s] = [Without(Victim(t))[s] EXCEPT !.state = "failed"])
    BY <1>1, <1>9 DEF Failed
  <2>2. Without(Victim(t))[s] = IF s \in Victim(t) THEN Blank ELSE obj[s]
    BY <1>1 DEF Without
  <2>. QED  BY <1>1, <2>1, <2>2 DEF SameStream, Object
<1>10. ASSUME NEW t \in Stream, IceTimeout(t) PROVE SameStream(obj[s], obj'[s])
  <2>. DEFINE S == IF obj[t].state # "connected" THEN Victim(t) ELSE {}
  <2>1. obj'[s] = Without(S)[s]
        \/ (s \notin S /\ obj'[s] = [Without(S)[s] EXCEPT !.timer = FALSE])
    BY <1>1, <1>10 DEF IceTimeout
  <2>. HIDE DEF S
  <2>2. Without(S)[s] = IF s \in S THEN Blank ELSE obj[s]
    BY <1>1 DEF Without
  <2>. QED  BY <1>1, <2>1, <2>2 DEF SameStream, Object
<1>11. CASE UNCHANGED vars
  BY <1>4, <1>11 DEF vars
<1>. QED  BY <1>3, <1>5, <1>6, <1>7, <1>8, <1>9, <1>10, <1>11 DEF Next, Request, Callback

\* A stream that was not there is one just created, and in its map.
LEMMA NewIsRegistered ==
  ASSUME IInv, IInv', [Next]_vars, NEW s \in live', s \notin live
  PROVE  Registered(s)'
<1>1. s \in Stream /\ obj[s] = Blank /\ obj'[s] # Blank
  BY Objects DEF IInv, live, Blank
<1>2. ASSUME obj' = obj PROVE FALSE
  BY <1>1, <1>2
<1>3. ASSUME NEW S PROVE Without(S)[s] = Blank
  BY <1>1 DEF Without
<1>4. ASSUME NEW u \in Uid, NEW n \in Name, NEW t \in Stream,
             CreatePush(u, n, t) \/ CreatePull(u, n, t)
      PROVE  Registered(s)'
  <2>1. t = s
    BY <1>1, <1>4 DEF CreatePush, CreatePull, Without
  <2>2. obj'[s].name = n
    BY <1>1, <1>4, <2>1 DEF CreatePush, CreatePull, NewObject, Without
  <2>3. push'[n] = s \/ pull'[n] = s
    BY <1>4, <2>1 DEF CreatePush, CreatePull, IInv, TypeOK
  <2>. QED  BY <2>2, <2>3 DEF Registered
<1>5. ASSUME NEW u \in Uid, NEW n \in Name, NEW type \in {"push", "pull"}, SetAnswer(u, n, type)
      PROVE  FALSE
  <2>1. PICK t \in Owned(IF type = "push" THEN push ELSE pull, u, n) :
          Update(t, [obj[t] EXCEPT !.applied = TRUE])
    BY <1>5 DEF SetAnswer
  <2>2. t \in live
    BY OwnedIsLive
  <2>. QED  BY <1>1, <2>1, <2>2 DEF Update, IInv, TypeOK
<1>6. ASSUME NEW u \in Uid, NEW n \in Name, StopPush(u, n) \/ StopPull(u, n) PROVE FALSE
  BY <1>1, <1>3, <1>6 DEF StopPush, StopPull, Remove
<1>7. ASSUME NEW t \in Stream, Connected(t) \/ OtherState(t) \/ DestroyPc(t) PROVE FALSE
  BY <1>1, <1>7 DEF Connected, OtherState, DestroyPc, Update, IInv, TypeOK
<1>8. ASSUME NEW t \in Stream, Failed(t) \/ IceTimeout(t) PROVE FALSE
  <2>1. t \in live
    BY <1>8 DEF Failed, IceTimeout
  <2>. QED  BY <1>1, <1>3, <1>8, <2>1 DEF Failed, IceTimeout
<1>9. CASE UNCHANGED vars
  BY <1>2, <1>9 DEF vars
<1>. QED  BY <1>4, <1>5, <1>6, <1>7, <1>8, <1>9 DEF Next, Request, Callback

\* Whatever the order of requests, failures and timeouts, a stream nothing can
\* find any more is one that another user's pull has pushed out of the map
\* (RtcStreamManager::create_pull_stream, _remove_pull_stream).
THEOREM OnlyRivalsOrphan == Spec => OrphansAreRivalled
<1>1. IInv /\ IInv' /\ [Next]_vars
        => [\A s \in live' :
              \/ Registered(s)'
              \/ /\ s \in live
                 /\ \/ ~Registered(s)
                    \/ \E v \in Uid \ {obj[s].uid}, t \in Stream :
                         CreatePull(v, obj[s].name, t)]_vars
  <2>. SUFFICES ASSUME IInv, IInv', [Next]_vars, NEW s \in live', s \in live, Registered(s),
                       ~Registered(s)'
                PROVE  \E v \in Uid \ {obj[s].uid}, t \in Stream : CreatePull(v, obj[s].name, t)
    BY NewIsRegistered
  <2>1. SameStream(obj[s], obj'[s]) /\ s \in Stream /\ obj[s] \in Object /\ obj'[s] # Blank
    BY LivingIsSame, Objects DEF IInv, live, Blank
  <2>2. obj'[s].kind = obj[s].kind /\ obj'[s].name = obj[s].name /\ obj[s].name \in Name
    BY <2>1 DEF SameStream, Object
  <2>3. obj[s].kind # "push"
    BY <2>2 DEF IInv, PushIsOwned, Registered
  <2>4. obj[s].kind = "pull"
    BY <2>1, <2>3 DEF Object
  <2>5. s # Null
    BY <2>1, NullAssumption
  <2>6. pull[obj[s].name] = s
    BY <2>2, <2>3, <2>5 DEF Registered, IInv, MapsAreLive
  <2>7. PICK u \in Uid, t \in Stream : CreatePull(u, obj[s].name, t)
    BY <2>2, <2>4, <2>6, MapsAreErased DEF Registered
  <2>8. u # obj[s].uid
    <3>1. ASSUME u = obj[s].uid PROVE FALSE
      <4>1. s \in Owned(pull, u, obj[s].name) /\ s # t
        BY <2>5, <2>6, <2>7, <3>1 DEF Owned, CreatePull, Unused
      <4>2. obj'[s] = Blank
        BY <2>1, <2>7, <4>1 DEF CreatePull, Without
      <4>. QED  BY <2>1, <4>2
    <3>. QED  BY <3>1
  <2>. QED  BY <2>7, <2>8
<1>. QED  BY <1>1, IInvHolds, PTL DEF Spec, OrphansAreRivalled

\* A stream a removal takes instead of another, t, is of the same user and name,
\* and then t is in no map.
LEMMA TakenInstead ==
  ASSUME IInv, NEW s \in live, NEW t \in live, s \in Victim(t), s # t
  PROVE  ~Registered(t) /\ obj[t].uid = obj[s].uid /\ obj[t].name = obj[s].name
<1>1. obj[t] \in Object /\ t \in Stream /\ obj[t].name \in Name /\ s # Null /\ t # Null
  BY Objects, NullAssumption DEF IInv, Object, live
<1>2. obj[t].uid = obj[s].uid
  BY DEF Victim, Owned
<1>3. CASE obj[t].kind = "push"
  <2>1. s = push[obj[t].name]
    BY <1>3 DEF Victim, Owned
  <2>. QED  BY <1>3, <2>1 DEF IInv, PushIsOwned
<1>4. CASE obj[t].kind = "pull"
  <2>1. s = pull[obj[t].name]
    BY <1>4 DEF Victim, Owned
  <2>2. obj[s].name = obj[t].name
    BY <1>1, <2>1 DEF IInv, MapsAreLive
  <2>3. push[obj[t].name] # t
    BY <1>1, <1>4 DEF IInv, MapsAreLive
  <2>. QED  BY <1>2, <2>1, <2>2, <2>3 DEF Registered
<1>. QED  BY <1>1, <1>3, <1>4 DEF Object

\* The stream a removal by user and name finds has both.
LEMMA OwnedHasName ==
  ASSUME IInv, NEW u, NEW n \in Name, NEW map, map = push \/ map = pull,
         NEW s \in Owned(map, u, n)
  PROVE  obj[s].name = n /\ obj[s].uid = u
BY DEF Owned, IInv, MapsAreLive

\* A connected stream is ended by its users, by its own failure or through a
\* stream a rival pushed out of the map, and never by its own timeout
\* (RtcStream::ice_timeout_cb, RtcStreamManager::on_stream_exception).
THEOREM ConnectedStreamsAreKept == Spec => ConnectedIsKept
<1>1. IInv /\ [Next]_vars
        => [\A s \in live \ live' :
              obj[s].state = "connected" =>
                \/ EndedByRequest(s)
                \/ Failed(s)
                \/ \E t \in live : /\ ~Registered(t)
                                   /\ obj[t].uid = obj[s].uid /\ obj[t].name = obj[s].name
                                   /\ Failed(t) \/ IceTimeout(t)]_vars
  <2>. SUFFICES ASSUME IInv, Next, NEW s \in live \ live', obj[s].state = "connected",
                       ~Failed(s), ~EndedByRequest(s)
                PROVE  \E t \in live :
                         /\ ~Registered(t)
                         /\ obj[t].uid = obj[s].uid /\ obj[t].name = obj[s].name
                         /\ Failed(t) \/ IceTimeout(t)
    OBVIOUS
  <2>1. s \in Stream /\ obj[s] \in Object /\ obj'[s].kind = "none" /\ obj[s].kind # "none"
    BY Objects DEF IInv, live
  <2>2. /\ obj'[s] # obj[s]
        /\ \A x : /\ obj'[s] # [obj[s] EXCEPT !.applied = x]
                  /\ obj'[s] # [obj[s] EXCEPT !.state = x]
                  /\ obj'[s] # [obj[s] EXCEPT !.timer = x]
    BY <2>1 DEF Object
  <2>3. ASSUME NEW u \in Uid, NEW n \in Name, NEW t \in Stream, CreatePush(u, n, t) PROVE FALSE
    <3>1. s # t
      BY <2>3 DEF CreatePush, Unused
    <3>2. s \in {push[n]} \ {Null}
      BY <2>1, <2>2, <2>3, <3>1 DEF CreatePush, Without
    <3>3. obj[s].name = n
      BY <3>2 DEF IInv, MapsAreLive
    <3>. QED  BY <2>3, <3>3 DEF EndedByRequest
  <2>4. ASSUME NEW u \in Uid, NEW n \in Name, NEW t \in Stream, CreatePull(u, n, t) PROVE FALSE
    <3>1. s # t
      BY <2>4 DEF CreatePull, Unused
    <3>2. s \in Owned(pull, u, n)
      BY <2>1, <2>2, <2>4, <3>1 DEF CreatePull, Without
    <3>3. obj[s].name = n /\ obj[s].uid = u
      BY <3>2, OwnedHasName
    <3>. QED  BY <2>4, <3>3 DEF EndedByRequest
  <2>5. ASSUME NEW u \in Uid, NEW n \in Name, StopPush(u, n) \/ StopPull(u, n) PROVE FALSE
    <3>1. CASE StopPush(u, n)
      <4>1. s \in Owned(push, u, n)
        BY <2>1, <2>2, <3>1 DEF StopPush, Remove, Without
      <4>2. obj[s].name = n /\ obj[s].uid = u
        BY <4>1, OwnedHasName
      <4>. QED  BY <3>1, <4>2 DEF EndedByRequest
    <3>2. CASE StopPull(u, n)
      <4>1. s \in Owned(pull, u, n)
        BY <2>1, <2>2, <3>2 DEF StopPull, Remove, Without
      <4>2. obj[s].name = n /\ obj[s].uid = u
        BY <4>1, OwnedHasName
      <4>. QED  BY <3>2, <4>2 DEF EndedByRequest
    <3>. QED  BY <2>5, <3>1, <3>2
  <2>6. ASSUME NEW u \in Uid, NEW n \in Name, NEW type \in {"push", "pull"}, SetAnswer(u, n, type)
        PROVE  FALSE
    BY <2>1, <2>2, <2>6 DEF SetAnswer, Update, IInv, TypeOK
  <2>7. ASSUME NEW t \in Stream, Connected(t) \/ OtherState(t) \/ DestroyPc(t) PROVE FALSE
    <3>1. CASE DestroyPc(t)
      BY <2>2, <3>1 DEF DestroyPc
    <3>2. CASE Connected(t) \/ OtherState(t)
      <4>1. CASE s = t
        BY <2>1, <3>2, <4>1 DEF Connected, OtherState, Update, IInv, TypeOK, Object
      <4>2. CASE s # t
        BY <2>1, <2>2, <3>2, <4>2 DEF Connected, OtherState, Update, IInv, TypeOK
      <4>. QED  BY <4>1, <4>2
    <3>. QED  BY <2>7, <3>1, <3>2
  <2>8. PICK t \in Stream : Failed(t) \/ IceTimeout(t)
    BY <2>3, <2>4, <2>5, <2>6, <2>7 DEF Next, Request, Callback
  <2>9. t \in live
    BY <2>8 DEF Failed, IceTimeout
  <2>10. s \in Victim(t) /\ s # t
    <3>1. CASE Failed(t)
      <4>1. s # t
        BY <3>1
      <4>2. obj'[s] = Without(Victim(t))[s]
        BY <2>1, <3>1, <4>1 DEF Failed
      <4>3. s \in Victim(t)
        BY <2>1, <2>2, <4>2 DEF Without
      <4>. QED  BY <4>1, <4>3
    <3>2. CASE IceTimeout(t)
      <4>. DEFINE S == IF obj[t].state # "connected" THEN Victim(t) ELSE {}
      <4>1. obj'[s] = IF s = t /\ s \notin S THEN [Without(S)[s] EXCEPT !.timer = FALSE]
                      ELSE Without(S)[s]
        BY <2>1, <3>2 DEF IceTimeout
      <4>. HIDE DEF S
      <4>2. Without(S)[s] = IF s \in S THEN Blank ELSE obj[s]
        BY <2>1 DEF Without
      <4>3. s \in S
        BY <2>2, <4>1, <4>2
      <4>. QED  BY <4>3 DEF S
    <3>. QED  BY <2>8, <3>1, <3>2
  <2>. QED  BY <2>8, <2>9, <2>10, TakenInstead
<1>. QED  BY <1>1, IInvHolds, PTL DEF Spec, ConnectedIsKept

============================================================================
