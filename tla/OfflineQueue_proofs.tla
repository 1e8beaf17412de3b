------------------------ MODULE OfflineQueue_proofs ------------------------
(***************************************************************************)
(* Proofs about OfflineQueue: the types, the store and the order in which  *)
(* it is replayed, for any number of actions and overlapping flushes and   *)
(* any of the faults.                                                      *)
(*                                                                         *)
(* The inductive invariant QueueInv says, besides the invariants proved,   *)
(* that an action is at one place of the store only; that a flush replays  *)
(* what was stored when it listed the store, so each action it has left is *)
(* still stored or confirmed by another flush; and that what is stored     *)
(* before an action it has left either has an error or comes earlier in    *)
(* its list.                                                               *)
(***************************************************************************)
EXTENDS OfflineQueue, FiniteSetTheorems, SequenceTheorems, TLAPS

-----------------------------------------------------------------------------
(* The inductive invariant.                                                *)

\* No action is stored twice.
Once == \A i, j \in DOMAIN queue : queue[i] = queue[j] => i = j

\* The store holds the actions the page believes queued.
StoredIsQueued == \A a \in Actions : a \in Stored <=> fate[a] = "queued"

\* What a flush has left was stored when it listed the store; it has listed
\* nothing before, and is never without the action it waits for.
TodoWasStored(f) ==
    /\ flush[f].phase \in {"off", "listing"} => flush[f].todo = <<>>
    /\ flush[f].phase \in {"sending", "ok", "refused"} => flush[f].todo # <<>>
    /\ \A k \in DOMAIN flush[f].todo : fate[flush[f].todo[k]] \in {"queued", "done"}

\* What was confirmed took effect.
ConfirmedIsApplied ==
    /\ \A a \in Actions : fate[a] \in {"ok", "done"} => a \in applied
    /\ \A f \in Flushes : flush[f].phase = "ok" => Current(f) \in applied

\* Before the k-th action of its list, a flush has what is stored before it.
TodoInOrder(f) ==
    \A k \in DOMAIN flush[f].todo : \A i, j \in DOMAIN queue :
        (i < j /\ flush[f].todo[k] = queue[j])
            => \/ queue[i] \in lastError
               \/ \E l \in DOMAIN flush[f].todo : l < k /\ flush[f].todo[l] = queue[i]

QueueInv ==
    /\ TypeOK
    /\ Once
    /\ StoredIsQueued
    /\ \A f \in Flushes : TodoWasStored(f) /\ TodoInOrder(f)
    /\ ConfirmedIsApplied

-----------------------------------------------------------------------------
(* The store.                                                              *)

\* A sequence of actions is a function on 1 .. Len.
LEMMA SeqFacts ==
  ASSUME NEW s \in Seq(Actions)
  PROVE  /\ Len(s) \in Nat
         /\ DOMAIN s = 1 .. Len(s)
         /\ \A i \in DOMAIN s : s[i] \in Actions
  BY LenProperties, ElementOfSeq

\* Taking out the element at the only place it is at moves those after it up.
LEMMA WithoutProperties ==
  ASSUME NEW s \in Seq(Actions), NEW p \in DOMAIN s,
         \A i \in DOMAIN s : s[i] = s[p] => i = p
  PROVE  /\ Without(s, s[p]) \in Seq(Actions)
         /\ Len(Without(s, s[p])) = Len(s) - 1
         /\ \A k \in 1 .. Len(s) - 1 :
               Without(s, s[p])[k] = s[IF k < p THEN k ELSE k + 1]
  <1> DEFINE left == SubSeq(s, 1, p - 1)
             right == SubSeq(s, p + 1, Len(s))
  <1>1. Len(s) \in Nat /\ p \in 1 .. Len(s) /\ \A i \in 1 .. Len(s) : s[i] \in Actions
    BY SeqFacts
  <1>2. Without(s, s[p]) = left \o right
    BY DEF Without
  <1>3. /\ left \in Seq(Actions)
        /\ Len(left) = p - 1
        /\ \A i \in 1 .. p - 1 : left[i] = s[i]
    <2>1. \A i \in 1 .. p - 1 : s[i] \in Actions
      BY <1>1
    <2>2. /\ SubSeq(s, 1, p - 1) \in Seq(Actions)
          /\ Len(SubSeq(s, 1, p - 1)) = IF 1 <= p - 1 THEN p - 1 - 1 + 1 ELSE 0
          /\ \A i \in 1 .. p - 1 - 1 + 1 : SubSeq(s, 1, p - 1)[i] = s[1 + i - 1]
      BY <1>1, <2>1, SubSeqProperties
    <2>3. QED
      BY <1>1, <2>2
  <1>4. /\ right \in Seq(Actions)
        /\ Len(right) = Len(s) - p
        /\ \A i \in 1 .. Len(s) - p : right[i] = s[p + i]
    <2>1. \A i \in p + 1 .. Len(s) : s[i] \in Actions
      BY <1>1
    <2>2. /\ SubSeq(s, p + 1, Len(s)) \in Seq(Actions)
          /\ Len(SubSeq(s, p + 1, Len(s)))
                = IF p + 1 <= Len(s) THEN Len(s) - (p + 1) + 1 ELSE 0
          /\ \A i \in 1 .. Len(s) - (p + 1) + 1 :
                SubSeq(s, p + 1, Len(s))[i] = s[p + 1 + i - 1]
      BY <1>1, <2>1, SubSeqProperties
    <2>3. QED
      BY <1>1, <2>2
  <1> HIDE DEF left, right
  <1>5. /\ left \o right \in Seq(Actions)
        /\ Len(left \o right) = Len(left) + Len(right)
        /\ \A i \in 1 .. Len(left) + Len(right) :
              (left \o right)[i] = IF i <= Len(left) THEN left[i] ELSE right[i - Len(left)]
    BY <1>3, <1>4, ConcatProperties
  <1>6. Len(left \o right) = Len(s) - 1
    BY <1>1, <1>3, <1>4, <1>5
  <1>7. ASSUME NEW k \in 1 .. Len(s) - 1
        PROVE  (left \o right)[k] = s[IF k < p THEN k ELSE k + 1]
    <2>1. CASE k < p
      <3>1. k \in 1 .. p - 1 /\ k <= Len(left) /\ k \in 1 .. Len(left) + Len(right)
        BY <1>1, <1>3, <1>4, <2>1
      <3>2. QED
        BY <1>3, <1>5, <2>1, <3>1
    <2>2. CASE ~(k < p)
      <3>1. /\ k - (p - 1) \in 1 .. Len(s) - p
            /\ ~(k <= p - 1)
            /\ k \in 1 .. (p - 1) + (Len(s) - p)
            /\ p + (k - (p - 1)) = k + 1
        BY <1>1, <2>2
      <3>2. (left \o right)[k] = right[k - (p - 1)]
        BY <1>3, <1>4, <1>5, <3>1
      <3>3. right[k - (p - 1)] = s[p + (k - (p - 1))]
        BY <1>4, <3>1
      <3>4. QED
        BY <2>2, <3>1, <3>2, <3>3
    <2>3. QED
      BY <2>1, <2>2
  <1>8. QED
    BY <1>2, <1>5, <1>6, <1>7

\* Enqueue puts the action last.
LEMMA EnqueueProperties ==
  ASSUME queue \in Seq(Actions), NEW a \in Actions, Enqueue(a)
  PROVE  /\ queue' \in Seq(Actions)
         /\ DOMAIN queue = 1 .. Len(queue)
         /\ DOMAIN queue' = 1 .. Len(queue) + 1
         /\ Len(queue) \in Nat
         /\ \A i \in 1 .. Len(queue) : queue'[i] = queue[i]
         /\ queue'[Len(queue) + 1] = a
         /\ Stored' = Stored \cup {a}
  <1>1. queue' = Append(queue, a)
    BY DEF Enqueue
  <1>2. /\ queue' \in Seq(Actions)
        /\ Len(queue') = Len(queue) + 1
        /\ \A i \in 1 .. Len(queue) : queue'[i] = queue[i]
        /\ queue'[Len(queue) + 1] = a
    BY <1>1, AppendProperties
  <1>3. Len(queue) \in Nat /\ DOMAIN queue = 1 .. Len(queue) /\ DOMAIN queue' = 1 .. Len(queue')
    BY <1>2, SeqFacts
  <1>4. DOMAIN queue' = DOMAIN queue \cup {Len(queue) + 1}
    BY <1>2, <1>3
  <1>5. \A i \in DOMAIN queue : queue'[i] = queue[i]
    BY <1>2, <1>3
  <1>6. Stored' = {queue'[i] : i \in DOMAIN queue'}
    BY DEF Stored
  <1>7. Stored' = Stored \cup {a}
    BY <1>2, <1>4, <1>5, <1>6 DEF Stored
  <1>8. QED
    BY <1>2, <1>3, <1>7

\* Remove takes out the place p of the action, and moves those after it up.
LEMMA RemoveProperties ==
  ASSUME queue \in Seq(Actions), Once, NEW a \in Stored, Remove(a)
  PROVE  \E p \in DOMAIN queue :
            /\ queue[p] = a
            /\ queue' \in Seq(Actions)
            /\ DOMAIN queue = 1 .. Len(queue)
            /\ DOMAIN queue' = 1 .. Len(queue) - 1
            /\ Len(queue) \in Nat
            /\ \A k \in 1 .. Len(queue) - 1 :
                  queue'[k] = queue[IF k < p THEN k ELSE k + 1]
            /\ Stored' = Stored \ {a}
  <1>1. PICK p \in DOMAIN queue : queue[p] = a
    BY DEF Stored
  <1>2. Len(queue) \in Nat /\ DOMAIN queue = 1 .. Len(queue)
    BY SeqFacts
  <1>3. queue' = Without(queue, queue[p])
    BY <1>1 DEF Remove
  <1>4. /\ queue' \in Seq(Actions)
        /\ Len(queue') = Len(queue) - 1
        /\ \A k \in 1 .. Len(queue) - 1 : queue'[k] = queue[IF k < p THEN k ELSE k + 1]
    BY <1>3, WithoutProperties DEF Once
  <1>5. DOMAIN queue' = 1 .. Len(queue) - 1
    BY <1>4, SeqFacts
  <1>6. Stored' \subseteq Stored \ {a}
    <2>1. ASSUME NEW k \in 1 .. Len(queue) - 1
          PROVE  queue'[k] \in Stored \ {a}
      <3>1. (IF k < p THEN k ELSE k + 1) \in DOMAIN queue \ {p}
        BY <1>2
      <3>2. queue[IF k < p THEN k ELSE k + 1] # queue[p]
        BY <3>1 DEF Once
      <3>3. QED
        BY <1>1, <1>4, <3>1, <3>2 DEF Stored
    <2>2. QED
      BY <1>5, <2>1 DEF Stored
  <1>7. Stored \ {a} \subseteq Stored'
    <2>1. ASSUME NEW i \in DOMAIN queue, queue[i] # a
          PROVE  \E k \in 1 .. Len(queue) - 1 : queue'[k] = queue[i]
      <3>1. CASE i < p
        BY <1>2, <1>4, <3>1
      <3>2. CASE i > p
        <4>1. /\ i - 1 \in 1 .. Len(queue) - 1
              /\ ~(i - 1 < p)
              /\ (i - 1) + 1 = i
          BY <1>2, <3>2
        <4>2. queue'[i - 1] = queue[i]
          BY <1>4, <4>1
        <4>3. QED
          BY <4>1, <4>2
      <3>3. i # p
        BY <1>1, <2>1
      <3>4. QED
        BY <1>2, <3>1, <3>2, <3>3
    <2>2. QED
      BY <1>5, <2>1 DEF Stored
  <1>8. QED
    BY <1>1, <1>2, <1>4, <1>5, <1>6, <1>7

-----------------------------------------------------------------------------
(* Types.                                                                  *)

USE DEF Calling, Fate

\* The head and the tail of a list of actions.
LEMMA ListTypes ==
  ASSUME NEW s \in Seq(Actions), s # <<>>
  PROVE  /\ Head(s) \in Actions /\ Tail(s) \in Seq(Actions)
         /\ Len(s) \in Nat /\ Len(Tail(s)) = Len(s) - 1
         /\ DOMAIN s = 1 .. Len(s) /\ DOMAIN Tail(s) = 1 .. Len(s) - 1
         /\ 1 \in DOMAIN s /\ Head(s) = s[1]
         /\ \A i \in 1 .. Len(s) - 1 : Tail(s)[i] = s[i + 1]
  <1>1. /\ Head(s) \in Actions /\ Tail(s) \in Seq(Actions)
        /\ Len(Tail(s)) = Len(s) - 1
        /\ \A i \in 1 .. Len(Tail(s)) : Tail(s)[i] = s[i + 1]
    BY HeadTailProperties
  <1>2. Len(s) \in Nat \ {0}
    BY EmptySeq
  <1>3. DOMAIN s = 1 .. Len(s) /\ DOMAIN Tail(s) = 1 .. Len(Tail(s))
    BY <1>1, SeqFacts
  <1>4. Head(s) = s[1]
    OBVIOUS
  <1>5. QED
    BY <1>1, <1>2, <1>3, <1>4

\* Every step leaves the store a sequence of actions, with errors only for
\* stored ones.
LEMMA StoreType ==
  ASSUME QueueInv, [Next]_vars
  PROVE  queue' \in Seq(Actions) /\ lastError' \in SUBSET Stored'
  <1> USE DEF QueueInv, TypeOK
  <1>1. CASE UNCHANGED store
    BY <1>1 DEF store, Stored
  <1>2. ASSUME NEW a \in Actions, Enqueue(a)
        PROVE  queue' \in Seq(Actions) /\ lastError' \in SUBSET Stored'
    BY <1>2, EnqueueProperties DEF Enqueue
  <1>3. ASSUME NEW a \in Actions, Remove(a)
        PROVE  queue' \in Seq(Actions) /\ lastError' \in SUBSET Stored'
    <2>1. CASE a \in Stored
      BY <1>3, <2>1, RemoveProperties DEF Remove
    <2>2. CASE a \notin Stored
      BY <1>3, <2>2 DEF Remove, Stored
    <2>3. QED
      BY <2>1, <2>2
  <1>4. ASSUME NEW a \in Actions, SetError(a)
        PROVE  queue' \in Seq(Actions) /\ lastError' \in SUBSET Stored'
    BY <1>4 DEF SetError, Stored
  <1>5. ASSUME Browser
        PROVE  UNCHANGED store
    BY <1>5 DEF Browser, Render, Refresh, GoOffline, GoOnline, Remount, Reload
  <1>6. ASSUME NEW a \in Actions, Page(a)
        PROVE  UNCHANGED store \/ Enqueue(a)
    BY <1>6 DEF Page, Submit, Settle, CallFails, CallDropped, Put
  <1>7. ASSUME NEW f \in Flushes, Replay(f)
        PROVE  UNCHANGED store \/ \E a \in Actions : Remove(a) \/ SetError(a)
    <2>1. ASSUME Receive(f)
          PROVE  \E a \in Actions : Remove(a) \/ SetError(a)
      <3>1. flush[f].todo \in Seq(Actions) /\ flush[f].todo # <<>>
        BY <2>1 DEF Receive, FlushState, TodoWasStored
      <3>2. Current(f) \in Actions
        BY <3>1, ListTypes DEF Current
      <3>3. QED
        BY <2>1, <3>2 DEF Receive, Record
    <2>2. QED
      BY <1>7, <2>1 DEF Replay, List, Send, SendFails, End
  <1>8. ASSUME NEW r \in Answers, Server(r)
        PROVE  UNCHANGED store
    BY <1>8 DEF Server, AnswerReplay, AnswerCall, AnswerLate
  <1>9. CASE UNCHANGED vars
    BY <1>1, <1>9 DEF vars
  <1>10. QED
    BY <1>1, <1>2, <1>3, <1>4, <1>5, <1>6, <1>7, <1>8, <1>9 DEF Next

\* A flush keeps its type in every step.
LEMMA FlushType ==
  ASSUME QueueInv, [Next]_vars
  PROVE  flush' \in [Flushes -> FlushState]
  <1> USE DEF QueueInv, TypeOK, FlushState
  <1>1. ASSUME NEW f \in Flushes, StartFlush(f)
        PROVE  flush' \in [Flushes -> FlushState]
    BY <1>1 DEF StartFlush
  <1>2. CASE Browser
    <2>1. CASE Reload
      <3>1. <<>> \in Seq(Actions)
        BY EmptySeq
      <3>2. Off \in FlushState
        BY <3>1 DEF Off
      <3>3. QED
        BY <2>1, <3>2 DEF Reload
    <2>2. CASE Render \/ Refresh \/ GoOffline \/ GoOnline \/ Remount
      BY <1>1, <2>2 DEF Render, Refresh, GoOffline, GoOnline, Remount, NoFlush
    <2>3. QED
      BY <1>2, <2>1, <2>2 DEF Browser
  <1>3. ASSUME NEW a \in Actions, Page(a)
        PROVE  UNCHANGED flush
    BY <1>3 DEF Page, Submit, Settle, CallFails, CallDropped
  <1>4. ASSUME NEW f \in Flushes, Replay(f)
        PROVE  flush' \in [Flushes -> FlushState]
    <2>1. CASE List(f)
      BY <2>1 DEF List
    <2>2. CASE Send(f)
      BY <2>2 DEF Send
    <2>3. CASE Receive(f)
      <3>1. flush[f].todo \in Seq(Actions) /\ flush[f].todo # <<>>
        BY <2>3 DEF Receive, TodoWasStored
      <3>2. Tail(flush[f].todo) \in Seq(Actions)
        BY <3>1, ListTypes
      <3>3. QED
        BY <2>3, <3>2 DEF Receive
    <2>4. CASE SendFails(f)
      BY <2>4 DEF SendFails, Break
    <2>5. CASE End(f)
      BY <2>5, EmptySeq DEF End, Off
    <2>6. QED
      BY <1>4, <2>1, <2>2, <2>3, <2>4, <2>5 DEF Replay
  <1>5. ASSUME NEW r \in Answers, Server(r)
        PROVE  flush' \in [Flushes -> FlushState]
    <2>1. ASSUME NEW f \in Flushes, AnswerReplay(f, r)
          PROVE  flush' \in [Flushes -> FlushState]
      <3>1. r \in {"ok", "refused"}
        BY DEF Answers
      <3>2. CASE r = "ok"
        BY <2>1, <3>2 DEF AnswerReplay
      <3>3. CASE r = "refused"
        BY <2>1, <3>3 DEF AnswerReplay
      <3>4. QED
        BY <3>1, <3>2, <3>3
    <2>2. ASSUME NEW a \in Actions, AnswerCall(a, r) \/ AnswerLate(a, r)
          PROVE  UNCHANGED flush
      BY <2>2 DEF AnswerCall, AnswerLate
    <2>3. QED
      BY <1>5, <2>1, <2>2 DEF Server
  <1>6. CASE UNCHANGED vars
    BY <1>6 DEF vars
  <1>7. QED
    BY <1>2, <1>3, <1>4, <1>5, <1>6 DEF Next

\* The rest of the state has its types.
LEMMA TypeStep ==
  ASSUME QueueInv, [Next]_vars
  PROVE  TypeOK'
  <1> USE DEF QueueInv, TypeOK, history, component, GiveUp, ShowStored
  <1>1. Len(queue) \in Nat /\ Len(queue') \in Nat
    BY StoreType, SeqFacts
  <1>2. \A f \in Flushes : flush[f].phase \in {"sending", "ok", "refused"}
                              => Current(f) \in Actions
    BY ListTypes DEF Current, TodoWasStored, FlushState
  <1>3. ASSUME NEW r \in Answers, NEW a \in Actions, Apply(a, r)
        PROVE  applied' \in SUBSET Actions
    BY <1>3 DEF Apply
  <1> DEFINE ScreenTypes ==
               /\ online \in BOOLEAN /\ syncing \in BOOLEAN /\ loading \in BOOLEAN
               /\ pending \in Nat
               /\ seen \in [online : BOOLEAN, length : Nat, syncing : BOOLEAN]
             FateTypes ==
               /\ fate \in [Actions -> Fate]
               /\ orphans \in SUBSET (Flushes \cup Actions)
               /\ late \in SUBSET Actions /\ applied \in SUBSET Actions
  <1>4. ASSUME Next
        PROVE  ScreenTypes'
    <2>1. CASE Browser
      <3>1. CASE Render
        <4>1. loading' \in BOOLEAN
          BY <3>1 DEF Render
        <4>2. online' = online /\ pending' = pending
          BY <3>1 DEF Render
        <4>3. seen' \in [online : BOOLEAN, length : Nat, syncing : BOOLEAN]
          BY <3>1 DEF Render, View
        <4>4. syncing' \in BOOLEAN
          BY <3>1 DEF Render, NoFlush, StartFlush
        <4>5. QED
          BY <4>1, <4>2, <4>3, <4>4
      <3>2. CASE Refresh
        BY <1>1, <3>2 DEF Refresh
      <3>3. CASE GoOffline \/ GoOnline
        BY <3>3 DEF GoOffline, GoOnline, NoFlush, StartFlush
      <3>4. CASE Remount \/ Reload
        <4>1. Mount /\ UNCHANGED online
          BY <3>4 DEF Remount, Reload
        <4>2. online' \in BOOLEAN /\ pending' \in Nat
          BY <4>1 DEF Mount
        <4>3. syncing' \in BOOLEAN /\ loading' \in BOOLEAN
          BY <4>1 DEF Mount
        <4>4. seen' \in [online : BOOLEAN, length : Nat, syncing : BOOLEAN]
          BY <4>1 DEF Mount
        <4>5. QED
          BY <4>2, <4>3, <4>4
      <3>5. QED
        BY <2>1, <3>1, <3>2, <3>3, <3>4 DEF Browser
    <2>2. ASSUME NEW a \in Actions, Page(a)
          PROVE  ScreenTypes'
      BY <1>1, <2>2 DEF Page, Submit, Settle, CallFails, CallDropped, Put
    <2>3. ASSUME NEW f \in Flushes, Replay(f)
          PROVE  ScreenTypes'
      BY <1>1, <2>3 DEF Replay, List, Send, Receive, SendFails, End, StillSyncing
    <2>4. ASSUME NEW r \in Answers, Server(r)
          PROVE  ScreenTypes'
      BY <2>4 DEF Server, AnswerReplay, AnswerCall, AnswerLate
    <2>5. QED
      BY <1>4, <2>1, <2>2, <2>3, <2>4 DEF Next
  <1>5. ASSUME Next
        PROVE  FateTypes'
    <2>1. CASE Browser
      <3>1. ASSUME Reload
            PROVE  FateTypes'
        <4>1. {Current(f) : f \in {g \in Flushes : flush[g].phase = "sending"}}
                 \subseteq Actions
          BY <1>2
        <4>2. QED
          BY <3>1, <4>1 DEF Reload
      <3>2. QED
        BY <2>1, <3>1 DEF Browser, Render, Refresh, GoOffline, GoOnline, Remount,
                          Running, InCall
    <2>2. ASSUME NEW a \in Actions, Page(a)
          PROVE  FateTypes'
      BY <2>2 DEF Page, Submit, Settle, CallFails, CallDropped, Put
    <2>3. ASSUME NEW f \in Flushes, Replay(f)
          PROVE  FateTypes'
      BY <1>2, <2>3 DEF Replay, List, Send, Receive, SendFails, End, Record
    <2>4. ASSUME NEW r \in Answers, Server(r)
          PROVE  FateTypes'
      BY <1>2, <1>3, <2>4 DEF Server, Answers, AnswerReplay, AnswerCall, AnswerLate
    <2>5. QED
      BY <1>5, <2>1, <2>2, <2>3, <2>4 DEF Next
  <1>6. UNCHANGED vars => ScreenTypes' /\ FateTypes'
    BY DEF vars
  <1>7. QED
    BY <1>4, <1>5, <1>6, StoreType, FlushType

-----------------------------------------------------------------------------
(* The steps that leave the store alone.                                   *)

\* What such a step may do to a flush: start or end it, list the store, or move
\* it on with its list as it is.
FlushMove(f) ==
    \/ flush'[f] = flush[f]
    \/ flush'[f] = Off
    \/ flush[f].phase = "off" /\ flush'[f] = [flush[f] EXCEPT !.phase = "listing"]
    \/ flush[f].phase = "listing" /\ flush'[f] = [phase |-> "next", todo |-> queue]
    \/ /\ flush[f].todo # <<>> \/ flush'[f].phase \in {"next", "ending"}
       /\ flush'[f].phase \notin {"off", "listing"}
       /\ flush'[f].todo = flush[f].todo
       /\ flush'[f].phase = "ok" => Current(f) \in applied'

\* What it may do to the page's knowledge of an action.
FateMove(a) ==
    /\ fate'[a] = "queued" <=> fate[a] = "queued"
    /\ fate[a] = "done" => fate'[a] = "done"
    /\ fate'[a] \in {"ok", "done"} => fate[a] \in {"ok", "done"} \/ a \in applied'

\* Such a step preserves the invariant.
LEMMA StoreKept ==
  ASSUME QueueInv, TypeOK', UNCHANGED store, applied \subseteq applied',
         \A f \in Flushes : FlushMove(f),
         \A a \in Actions : FateMove(a)
  PROVE  QueueInv'
  <1> USE DEF QueueInv, TypeOK
  <1>1. queue' = queue /\ lastError' = lastError /\ Stored' = Stored
    BY DEF store, Stored
  <1>2. Once'
    BY <1>1 DEF Once
  <1>3. StoredIsQueued'
    BY <1>1 DEF StoredIsQueued, FateMove
  <1>4. ASSUME NEW f \in Flushes
        PROVE  TodoWasStored(f)' /\ TodoInOrder(f)'
    <2>1. \A a \in Actions : fate[a] \in {"queued", "done"} => fate'[a] \in {"queued", "done"}
      BY DEF FateMove
    <2>2. flush[f].todo \in Seq(Actions) /\ TodoWasStored(f) /\ TodoInOrder(f)
      BY DEF FlushState
    <2>3. \A k \in DOMAIN flush[f].todo : flush[f].todo[k] \in Actions
      BY <2>2, SeqFacts
    <2>4. CASE flush'[f].todo = <<>> /\ flush'[f].phase \notin {"sending", "ok", "refused"}
      <3>1. DOMAIN flush'[f].todo = {}
        BY <2>4, EmptySeq, SeqFacts
      <3>2. QED
        BY <2>4, <3>1 DEF TodoWasStored, TodoInOrder
    <2>5. CASE flush'[f] = flush[f]
      BY <1>1, <2>1, <2>2, <2>3, <2>5 DEF TodoWasStored, TodoInOrder
    <2>6. CASE flush'[f] = [phase |-> "next", todo |-> queue]
      <3>1. flush'[f].todo = queue /\ flush'[f].phase = "next"
        BY <2>6
      <3>2. TodoInOrder(f)'
        BY <1>1, <3>1 DEF TodoInOrder, Once
      <3>3. \A k \in DOMAIN queue : queue[k] \in Stored /\ queue[k] \in Actions
        BY SeqFacts DEF Stored
      <3>4. \A k \in DOMAIN queue : fate'[queue[k]] = "queued"
        BY <3>3 DEF StoredIsQueued, FateMove
      <3>5. QED
        BY <3>1, <3>2, <3>4 DEF TodoWasStored
    <2>7. CASE /\ flush[f].todo # <<>> \/ flush'[f].phase \in {"next", "ending"}
               /\ flush'[f].phase \notin {"off", "listing"}
               /\ flush'[f].todo = flush[f].todo
      BY <1>1, <2>1, <2>2, <2>3, <2>7 DEF TodoWasStored, TodoInOrder
    <2>8. flush[f].phase = "off" => flush[f].todo = <<>>
      BY <2>2 DEF TodoWasStored
    <2>9. flush[f].phase = "off" /\ flush'[f] = [flush[f] EXCEPT !.phase = "listing"]
             => flush'[f].todo = <<>> /\ flush'[f].phase = "listing"
      BY <2>8 DEF FlushState
    <2>10. flush'[f] = Off => flush'[f].todo = <<>> /\ flush'[f].phase = "off"
      BY DEF Off
    <2>11. QED
      BY <2>4, <2>5, <2>6, <2>7, <2>9, <2>10 DEF FlushMove
  <1>5. ConfirmedIsApplied'
    <2>1. \A a \in Actions : fate'[a] \in {"ok", "done"} => a \in applied'
      BY DEF FateMove, ConfirmedIsApplied
    <2>2. ASSUME NEW f \in Flushes, flush'[f].phase = "ok"
          PROVE  Current(f)' \in applied'
      <3>1. CASE flush'[f] = flush[f]
        BY <2>2, <3>1 DEF ConfirmedIsApplied, Current
      <3>2. CASE flush'[f].todo = flush[f].todo /\ Current(f) \in applied'
        BY <3>2 DEF Current
      <3>3. flush'[f] # Off
        BY <2>2 DEF Off
      <3>4. flush'[f] # [flush[f] EXCEPT !.phase = "listing"]
        BY <2>2 DEF FlushState
      <3>5. flush'[f] # [phase |-> "next", todo |-> queue]
        BY <2>2
      <3>6. QED
        BY <2>2, <3>1, <3>2, <3>3, <3>4, <3>5 DEF FlushMove
    <2>3. QED
      BY <2>1, <2>2 DEF ConfirmedIsApplied
  <1>6. QED
    BY <1>2, <1>3, <1>4, <1>5

-----------------------------------------------------------------------------
(* The steps that change the store.                                        *)

\* An action is stored last: it is not yet in the list of any flush.
LEMMA StorePut ==
  ASSUME QueueInv, TypeOK', NEW a \in Actions, Put(a),
         fate[a] \notin {"queued", "done"}, UNCHANGED <<flush, applied>>
  PROVE  QueueInv'
  <1> USE DEF QueueInv, TypeOK
  <1>1. /\ queue' \in Seq(Actions)
        /\ DOMAIN queue = 1 .. Len(queue)
        /\ DOMAIN queue' = 1 .. Len(queue) + 1
        /\ Len(queue) \in Nat
        /\ \A i \in 1 .. Len(queue) : queue'[i] = queue[i]
        /\ queue'[Len(queue) + 1] = a
        /\ Stored' = Stored \cup {a}
    BY EnqueueProperties DEF Put
  <1>2. lastError' = lastError /\ fate' = [fate EXCEPT ![a] = "queued"]
    BY DEF Put, Enqueue
  <1>3. \A i \in 1 .. Len(queue) : queue[i] # a
    BY <1>1 DEF StoredIsQueued, Stored
  <1>4. Once'
    <2>1. ASSUME NEW i \in 1 .. Len(queue) + 1, NEW j \in 1 .. Len(queue) + 1,
                 queue'[i] = queue'[j]
          PROVE  i = j
      <3>1. i \in 1 .. Len(queue) \/ i = Len(queue) + 1
        BY <1>1
      <3>2. j \in 1 .. Len(queue) \/ j = Len(queue) + 1
        BY <1>1
      <3>3. CASE i \in 1 .. Len(queue) /\ j \in 1 .. Len(queue)
        BY <1>1, <2>1, <3>3 DEF Once
      <3>4. QED
        BY <1>1, <1>3, <2>1, <3>1, <3>2, <3>3
    <2>2. QED
      BY <1>1, <2>1 DEF Once
  <1>5. StoredIsQueued'
    BY <1>1, <1>2 DEF StoredIsQueued
  <1>6. ASSUME NEW f \in Flushes
        PROVE  TodoWasStored(f)' /\ TodoInOrder(f)'
    <2>1. /\ \A k \in DOMAIN flush[f].todo : flush[f].todo[k] \in Actions
          /\ TodoWasStored(f) /\ TodoInOrder(f)
      BY SeqFacts DEF FlushState
    <2>2. \A k \in DOMAIN flush[f].todo : flush[f].todo[k] # a
      BY <2>1 DEF TodoWasStored
    <2>3. TodoWasStored(f)'
      BY <1>2, <2>1 DEF TodoWasStored
    <2>4. ASSUME NEW k \in DOMAIN flush'[f].todo, NEW i \in DOMAIN queue', NEW j \in DOMAIN queue',
                 i < j, flush'[f].todo[k] = queue'[j]
          PROVE  \/ queue'[i] \in lastError'
                 \/ \E l \in DOMAIN flush'[f].todo : l < k /\ flush'[f].todo[l] = queue'[i]
      <3>1. j # Len(queue) + 1
        BY <1>1, <2>2, <2>4
      <3>2. i \in DOMAIN queue /\ j \in DOMAIN queue
        BY <1>1, <2>4, <3>1
      <3>3. queue'[i] = queue[i] /\ queue'[j] = queue[j]
        BY <1>1, <3>2
      <3>4. QED
        BY <1>2, <2>1, <2>4, <3>2, <3>3 DEF TodoInOrder
    <2>5. QED
      BY <2>3, <2>4 DEF TodoInOrder
  <1>7. ConfirmedIsApplied'
    BY <1>2 DEF ConfirmedIsApplied, Current
  <1>8. QED
    BY <1>4, <1>5, <1>6, <1>7

\* The place before one that is not the first.
LEMMA PlaceBefore ==
  ASSUME NEW n \in Nat, NEW k \in 1 .. n - 1, NEW l \in 1 .. n, l < k + 1, l # 1
  PROVE  l - 1 \in 1 .. n - 1 /\ l - 1 < k /\ (l - 1) + 1 = l
  OBVIOUS

\* An answer to a replay: what is confirmed leaves the store and what is refused
\* gets an error, if another flush has not taken it out already.
LEMMA StoreAnswered ==
  ASSUME QueueInv, TypeOK', NEW f \in Flushes, Receive(f)
  PROVE  QueueInv'
  <1> USE DEF QueueInv, TypeOK
  <1> DEFINE a == Current(f)
             todo == flush[f].todo
  <1>1. todo \in Seq(Actions) /\ todo # <<>> /\ TodoWasStored(f) /\ TodoInOrder(f)
    BY DEF Receive, FlushState, TodoWasStored
  <1>2. /\ a \in Actions
        /\ Len(todo) \in Nat
        /\ 1 \in DOMAIN todo /\ todo[1] = a
        /\ DOMAIN todo = 1 .. Len(todo) /\ DOMAIN Tail(todo) = 1 .. Len(todo) - 1
        /\ \A i \in 1 .. Len(todo) - 1 : Tail(todo)[i] = todo[i + 1]
    BY <1>1, ListTypes DEF Current
  <1>3. flush' = [flush EXCEPT ![f] = [phase |-> "next", todo |-> Tail(todo)]]
    BY DEF Receive
  <1>4. applied' = applied
    BY DEF Receive, history
  <1>5. fate[a] \in {"queued", "done"}
    BY <1>1, <1>2 DEF TodoWasStored
  <1>6. \/ /\ flush[f].phase = "ok"
           /\ Remove(a)
           /\ fate' = [fate EXCEPT ![a] = "done"]
        \/ SetError(a) /\ fate' = fate
    BY DEF Receive, Record
  \* The store is as it was, or one place p shorter.
  <1> DEFINE Same == queue' = queue /\ fate' = fate
             Less(p) ==
                 /\ queue[p] = a
                 /\ DOMAIN queue = 1 .. Len(queue)
                 /\ DOMAIN queue' = 1 .. Len(queue) - 1
                 /\ Len(queue) \in Nat
                 /\ \A k \in 1 .. Len(queue) - 1 :
                       queue'[k] = queue[IF k < p THEN k ELSE k + 1]
                 /\ Stored' = Stored \ {a}
                 /\ fate' = [fate EXCEPT ![a] = "done"]
                 /\ lastError' = lastError \ {a}
  <1>7. \/ /\ Same
           /\ lastError \subseteq lastError'
           /\ a \in Stored => a \in lastError'
        \/ \E p \in DOMAIN queue : Less(p)
    <2>1. CASE SetError(a) /\ fate' = fate
      BY <2>1 DEF SetError
    <2>2. CASE /\ Remove(a)
               /\ fate' = [fate EXCEPT ![a] = "done"]
               /\ a \in Stored
      <3>1. lastError' = lastError \ {a}
        BY <2>2 DEF Remove
      <3>2. QED
        BY <2>2, <3>1, RemoveProperties
    <2>3. CASE /\ Remove(a)
               /\ fate' = [fate EXCEPT ![a] = "done"]
               /\ a \notin Stored
      <3>1. queue' = queue /\ lastError' = lastError
        BY <2>3 DEF Remove
      <3>2. fate[a] = "done"
        BY <1>2, <1>5, <2>3 DEF StoredIsQueued
      <3>3. fate' = fate
        BY <1>2, <2>3, <3>2
      <3>4. QED
        BY <2>3, <3>1, <3>3
    <2>4. QED
      BY <1>6, <2>1, <2>2, <2>3
  <1>8. Once'
    <2>1. CASE Same
      BY <2>1 DEF Once
    <2>2. ASSUME NEW p \in DOMAIN queue, Less(p)
          PROVE  Once'
      <3>1. ASSUME NEW i \in DOMAIN queue', NEW j \in DOMAIN queue', queue'[i] = queue'[j]
            PROVE  i = j
        <4>1. i \in 1 .. Len(queue) - 1 /\ j \in 1 .. Len(queue) - 1
          BY <2>2, <3>1
        <4>2. /\ (IF i < p THEN i ELSE i + 1) \in DOMAIN queue
              /\ (IF j < p THEN j ELSE j + 1) \in DOMAIN queue
          BY <2>2, <4>1
        <4>3. queue[IF i < p THEN i ELSE i + 1] = queue[IF j < p THEN j ELSE j + 1]
          BY <2>2, <3>1, <4>1
        <4>4. (IF i < p THEN i ELSE i + 1) = (IF j < p THEN j ELSE j + 1)
          BY <4>2, <4>3 DEF Once
        <4>5. QED
          BY <2>2, <4>1, <4>4
      <3>2. QED
        BY <3>1 DEF Once
    <2>3. QED
      BY <1>7, <2>1, <2>2
  <1>9. StoredIsQueued'
    <2>1. CASE Same
      BY <2>1 DEF StoredIsQueued, Stored
    <2>2. ASSUME NEW p \in DOMAIN queue, Less(p)
          PROVE  StoredIsQueued'
      <3>1. Stored' = Stored \ {a} /\ fate' = [fate EXCEPT ![a] = "done"]
        BY <2>2
      <3>2. QED
        BY <1>2, <3>1 DEF StoredIsQueued
    <2>3. QED
      BY <1>7, <2>1, <2>2
  <1>10. \A b \in Actions : fate[b] \in {"queued", "done"} => fate'[b] \in {"queued", "done"}
    BY <1>2, <1>7
  <1>11. ASSUME NEW g \in Flushes
         PROVE  TodoWasStored(g)'
    <2>1. TodoWasStored(g) /\ \A k \in DOMAIN flush[g].todo : flush[g].todo[k] \in Actions
      BY SeqFacts DEF FlushState
    <2>2. CASE g # f
      BY <1>3, <1>10, <2>1, <2>2 DEF TodoWasStored
    <2>3. CASE g = f
      <3>1. flush'[g].phase = "next" /\ flush'[g].todo = Tail(todo)
        BY <1>3, <2>3
      <3>2. \A k \in DOMAIN Tail(todo) : k + 1 \in DOMAIN todo /\ Tail(todo)[k] = todo[k + 1]
        BY <1>2
      <3>3. QED
        BY <1>10, <2>1, <2>3, <3>1, <3>2 DEF TodoWasStored
    <2>4. QED
      BY <2>2, <2>3
  \* What is stored before what: as it was.
  <1> DEFINE Before(i, j) ==
                 \E m, n \in DOMAIN queue :
                     /\ m < n
                     /\ queue'[i] = queue[m] /\ queue'[j] = queue[n]
                     /\ queue[m] \in lastError => queue[m] \in lastError'
                     /\ queue[m] = a => a \in lastError'
  <1>12. ASSUME NEW i \in DOMAIN queue', NEW j \in DOMAIN queue', i < j
         PROVE  Before(i, j)
    <2>1. ASSUME NEW p \in DOMAIN queue, Less(p)
          PROVE  Before(i, j)
      <3> DEFINE m == IF i < p THEN i ELSE i + 1
                 n == IF j < p THEN j ELSE j + 1
      <3>1. m \in DOMAIN queue /\ n \in DOMAIN queue /\ m < n /\ m # p
        BY <1>12, <2>1
      <3>2. queue'[i] = queue[m] /\ queue'[j] = queue[n]
        BY <1>12, <2>1
      <3>3. queue[m] # a
        BY <2>1, <3>1 DEF Once
      <3>4. lastError' = lastError \ {a}
        BY <2>1
      <3> HIDE DEF m, n
      <3>5. QED
        BY <3>1, <3>2, <3>3, <3>4
    <2>2. CASE /\ Same
               /\ lastError \subseteq lastError'
               /\ a \in Stored => a \in lastError'
      <3>1. queue[i] \in Stored
        BY <2>2 DEF Stored
      <3>2. QED
        BY <1>12, <2>2, <3>1
    <2>3. QED
      BY <1>7, <2>1, <2>2
  <1>13. ASSUME NEW g \in Flushes
         PROVE  TodoInOrder(g)'
    <2>1. TodoInOrder(g)
      OBVIOUS
    <2>2. CASE g # f
      BY <1>3, <1>12, <2>1, <2>2 DEF TodoInOrder
    <2>3. CASE g = f
      <3>1. flush'[g].todo = Tail(todo)
        BY <1>3, <2>3
      <3>2. ASSUME NEW k \in DOMAIN flush'[g].todo, NEW i \in DOMAIN queue', NEW j \in DOMAIN queue',
                   i < j, flush'[g].todo[k] = queue'[j]
            PROVE  \/ queue'[i] \in lastError'
                   \/ \E l \in DOMAIN flush'[g].todo :
                         l < k /\ flush'[g].todo[l] = queue'[i]
        <4>1. k \in DOMAIN Tail(todo) /\ Tail(todo)[k] = queue'[j]
          BY <3>1, <3>2
        <4>2. PICK m, n \in DOMAIN queue :
                  /\ m < n
                  /\ queue'[i] = queue[m] /\ queue'[j] = queue[n]
                  /\ queue[m] \in lastError => queue[m] \in lastError'
                  /\ queue[m] = a => a \in lastError'
          BY <1>12, <3>2
        <4>3. k + 1 \in DOMAIN todo /\ todo[k + 1] = queue[n]
          <5>1. k \in 1 .. Len(todo) - 1 /\ Len(todo) \in Nat
            BY <1>2, <4>1
          <5>2. k + 1 \in 1 .. Len(todo)
            BY <5>1
          <5>3. QED
            BY <1>2, <4>1, <4>2, <5>1, <5>2
        <4>4. \/ queue[m] \in lastError
              \/ \E l \in DOMAIN todo : l < k + 1 /\ todo[l] = queue[m]
          BY <1>1, <4>2, <4>3 DEF TodoInOrder
        <4>5. ASSUME NEW l \in DOMAIN todo, l < k + 1, todo[l] = queue[m]
              PROVE  \/ queue'[i] \in lastError'
                     \/ \E x \in DOMAIN Tail(todo) : x < k /\ Tail(todo)[x] = queue'[i]
          <5>1. CASE l = 1
            BY <1>2, <4>2, <4>5, <5>1
          <5>2. CASE l # 1
            <6>1. k \in 1 .. Len(todo) - 1 /\ l \in 1 .. Len(todo) /\ Len(todo) \in Nat
              BY <1>2, <4>1, <4>5
            <6>2. /\ l - 1 \in 1 .. Len(todo) - 1
                  /\ l - 1 < k
                  /\ (l - 1) + 1 = l
              BY <4>5, <5>2, <6>1, PlaceBefore
            <6>3. l - 1 \in DOMAIN Tail(todo)
              BY <1>2, <6>2
            <6>4. Tail(todo)[l - 1] = queue'[i]
              BY <1>2, <4>2, <4>5, <6>2
            <6>5. QED
              BY <6>2, <6>3, <6>4
          <5>3. QED
            BY <5>1, <5>2
        <4>6. QED
          BY <3>1, <4>2, <4>4, <4>5
      <3>3. QED
        BY <3>2 DEF TodoInOrder
    <2>4. QED
      BY <2>2, <2>3
  <1>14. ConfirmedIsApplied'
    <2>1. \A b \in Actions : fate'[b] \in {"ok", "done"} => b \in applied
      <3>1. flush[f].phase = "ok" => a \in applied
        BY DEF ConfirmedIsApplied
      <3>2. fate' = fate \/ (flush[f].phase = "ok" /\ fate' = [fate EXCEPT ![a] = "done"])
        BY <1>6
      <3>3. QED
        BY <1>2, <3>1, <3>2 DEF ConfirmedIsApplied
    <2>2. \A g \in Flushes : flush'[g].phase = "ok" => g # f /\ flush'[g] = flush[g]
      BY <1>3
    <2>3. QED
      BY <1>4, <2>1, <2>2 DEF ConfirmedIsApplied, Current
  <1>15. QED
    BY <1>8, <1>9, <1>11, <1>13, <1>14

-----------------------------------------------------------------------------
(* The invariant is inductive.                                             *)

LEMMA QueueInit == Init => QueueInv
  <1> SUFFICES ASSUME Init
               PROVE  QueueInv
    OBVIOUS
  <1>1. <<>> \in Seq(Actions) /\ Len(<<>>) = 0
    BY EmptySeq
  <1>2. DOMAIN queue = {}
    BY <1>1, SeqFacts DEF Init
  <1>3. Stored = {}
    BY <1>2 DEF Stored
  <1>4. flush \in [Flushes -> FlushState] /\ \A f \in Flushes : flush[f] = Off
    BY <1>1 DEF Init, Off, FlushState
  <1>5. seen \in [online : BOOLEAN, length : Nat, syncing : BOOLEAN]
    BY DEF Init
  <1>6. TypeOK
    BY <1>1, <1>3, <1>4, <1>5 DEF Init, TypeOK
  <1>7. Once /\ StoredIsQueued
    BY <1>2, <1>3 DEF Init, Once, StoredIsQueued
  <1>8. ASSUME NEW f \in Flushes
        PROVE  TodoWasStored(f) /\ TodoInOrder(f)
    <2>1. flush[f].phase = "off" /\ flush[f].todo = <<>>
      BY <1>4 DEF Off
    <2>2. DOMAIN flush[f].todo = {}
      BY <1>1, <2>1, SeqFacts
    <2>3. QED
      BY <2>1, <2>2 DEF TodoWasStored, TodoInOrder
  <1>9. ConfirmedIsApplied
    BY <1>4 DEF Init, ConfirmedIsApplied, Off
  <1>10. QED
    BY <1>6, <1>7, <1>8, <1>9 DEF QueueInv

\* A step of the browser changes nothing that is stored.
LEMMA BrowserStep ==
  ASSUME QueueInv, TypeOK', Browser
  PROVE  QueueInv'
  <1> USE DEF history
  <1>1. UNCHANGED store /\ applied \subseteq applied'
    BY DEF Browser, Render, Refresh, GoOffline, GoOnline, Remount, Reload
  <1>2. \A f \in Flushes : FlushMove(f)
    <2>1. ASSUME NEW f \in Flushes, StartFlush(f)
          PROVE  \A g \in Flushes : FlushMove(g)
      BY <2>1 DEF StartFlush, FlushMove, QueueInv, TypeOK
    <2>2. QED
      BY <2>1 DEF Browser, Render, Refresh, GoOffline, GoOnline, Remount, Reload,
                  NoFlush, FlushMove
  <1>3. \A a \in Actions : FateMove(a)
    <2>1. CASE Reload
      BY <2>1 DEF Reload, FateMove
    <2>2. CASE Render \/ Refresh \/ GoOffline \/ GoOnline \/ Remount
      BY <2>2 DEF Render, Refresh, GoOffline, GoOnline, Remount, FateMove
    <2>3. QED
      BY <2>1, <2>2 DEF Browser
  <1>4. QED
    BY <1>1, <1>2, <1>3, StoreKept

\* A step of queueOrSend stores the action it is called with, or stores nothing.
LEMMA PageStep ==
  ASSUME QueueInv, TypeOK', NEW a \in Actions, Page(a)
  PROVE  QueueInv'
  <1> USE DEF history
  <1>1. CASE /\ Submit(a) \/ CallDropped(a)
             /\ Put(a)
    <2>1. fate[a] \notin {"queued", "done"} /\ UNCHANGED <<flush, applied>>
      BY <1>1 DEF Submit, CallDropped
    <2>2. QED
      BY <1>1, <2>1, StorePut
  <1>2. CASE Submit(a) /\ fate' = [fate EXCEPT ![a] = "sending"] /\ UNCHANGED store
    <2>1. fate[a] = "none" /\ UNCHANGED <<flush, applied>>
      BY <1>2 DEF Submit
    <2>2. \A b \in Actions : FateMove(b)
      BY <1>2, <2>1 DEF FateMove, QueueInv, TypeOK
    <2>3. QED
      BY <1>2, <2>1, <2>2, StoreKept DEF FlushMove
  <1>3. CASE Settle(a)
    <2>1. /\ fate[a] \in {"ok", "refused"}
          /\ fate' = [fate EXCEPT ![a] = IF @ = "ok" THEN "done" ELSE "told"]
          /\ UNCHANGED <<store, flush, applied>>
      BY <1>3 DEF Settle
    <2>2. \A b \in Actions : FateMove(b)
      BY <2>1 DEF FateMove, QueueInv, TypeOK
    <2>3. QED
      BY <2>1, <2>2, StoreKept DEF FlushMove
  <1>4. CASE CallFails(a)
    <2>1. /\ fate[a] \in Calling
          /\ fate' = [fate EXCEPT ![a] = "told"]
          /\ UNCHANGED <<store, flush, applied>>
      BY <1>4 DEF CallFails
    <2>2. \A b \in Actions : FateMove(b)
      BY <2>1 DEF FateMove, QueueInv, TypeOK
    <2>3. QED
      BY <2>1, <2>2, StoreKept DEF FlushMove
  <1>5. Submit(a) => Put(a) \/ (fate' = [fate EXCEPT ![a] = "sending"] /\ UNCHANGED store)
    BY DEF Submit
  <1>6. CallDropped(a) => Put(a)
    BY DEF CallDropped
  <1>7. QED
    BY <1>1, <1>2, <1>3, <1>4, <1>5, <1>6 DEF Page

\* A step of a flush lists the store, or records one answer in it.
LEMMA ReplayStep ==
  ASSUME QueueInv, TypeOK', NEW f \in Flushes, Replay(f)
  PROVE  QueueInv'
  <1> USE DEF history
  <1>1. CASE Receive(f)
    BY <1>1, StoreAnswered
  <1>2. CASE List(f) \/ Send(f) \/ SendFails(f) \/ End(f)
    <2>1. UNCHANGED <<store, fate, applied>>
      BY <1>2 DEF List, Send, SendFails, End
    <2>2. FlushMove(f)
      <3>1. flush[f] \in FlushState
        BY DEF QueueInv, TypeOK
      <3>2. flush \in [Flushes -> FlushState]
        BY DEF QueueInv, TypeOK
      <3>3. CASE List(f)
        BY <3>2, <3>3 DEF List, FlushMove
      <3>4. CASE Send(f)
        BY <3>1, <3>2, <3>4 DEF Send, FlushMove, FlushState
      <3>5. CASE SendFails(f)
        BY <3>1, <3>2, <3>5 DEF SendFails, Break, FlushMove, FlushState
      <3>6. CASE End(f)
        BY <3>2, <3>6 DEF End, FlushMove
      <3>7. QED
        BY <1>2, <3>3, <3>4, <3>5, <3>6
    <2>3. \A g \in Flushes : g # f => FlushMove(g)
      BY <1>2 DEF List, Send, SendFails, End, FlushMove, QueueInv, TypeOK
    <2>4. \A a \in Actions : FateMove(a)
      BY <2>1 DEF FateMove
    <2>5. QED
      BY <2>1, <2>2, <2>3, <2>4, StoreKept
  <1>3. QED
    BY <1>1, <1>2 DEF Replay

\* An answer is "ok" when the action took effect.
LEMMA ServerStep ==
  ASSUME QueueInv, TypeOK', NEW r \in Answers, Server(r)
  PROVE  QueueInv'
  <1> USE DEF QueueInv, TypeOK
  <1>1. ASSUME NEW f \in Flushes, AnswerReplay(f, r)
        PROVE  QueueInv'
    <2>1. UNCHANGED <<store, fate>> /\ applied \subseteq applied'
      BY <1>1 DEF AnswerReplay, Apply
    <2>2. flush[f] \in FlushState /\ flush[f].phase = "sending" /\ flush[f].todo # <<>>
      BY <1>1 DEF AnswerReplay, TodoWasStored
    <2>3. flush'[f].phase = r /\ flush'[f].todo = flush[f].todo
      BY <1>1, <2>2 DEF AnswerReplay, FlushState
    <2>4. r = "ok" => Current(f) \in applied'
      BY <1>1 DEF AnswerReplay, Apply
    <2>5. FlushMove(f)
      BY <2>2, <2>3, <2>4 DEF FlushMove, Answers
    <2>6. \A g \in Flushes : g # f => FlushMove(g)
      BY <1>1 DEF AnswerReplay, FlushMove
    <2>7. \A a \in Actions : FateMove(a)
      BY <2>1 DEF FateMove
    <2>8. QED
      BY <2>1, <2>5, <2>6, <2>7, StoreKept
  <1>2. ASSUME NEW a \in Actions, AnswerCall(a, r)
        PROVE  QueueInv'
    <2>1. UNCHANGED <<store, flush>> /\ applied \subseteq applied'
      BY <1>2 DEF AnswerCall, Apply
    <2>2. fate[a] = "sending" /\ fate' = [fate EXCEPT ![a] = r]
      BY <1>2 DEF AnswerCall
    <2>3. r = "ok" => a \in applied'
      BY <1>2 DEF AnswerCall, Apply
    <2>4. \A b \in Actions : FateMove(b)
      BY <2>2, <2>3 DEF FateMove, Answers
    <2>5. QED
      BY <2>1, <2>4, StoreKept DEF FlushMove
  <1>3. ASSUME NEW a \in Actions, AnswerLate(a, r)
        PROVE  QueueInv'
    <2>1. UNCHANGED <<store, flush, fate>> /\ applied \subseteq applied'
      BY <1>3 DEF AnswerLate, Apply
    <2>2. QED
      BY <2>1, StoreKept DEF FlushMove, FateMove
  <1>4. QED
    BY <1>1, <1>2, <1>3 DEF Server

LEMMA QueueStep == QueueInv /\ [Next]_vars => QueueInv'
  <1> SUFFICES ASSUME QueueInv, [Next]_vars
               PROVE  QueueInv'
    OBVIOUS
  <1>1. TypeOK'
    BY TypeStep
  <1>2. CASE UNCHANGED vars
    <2>1. UNCHANGED <<store, fate, flush, applied>>
      BY <1>2 DEF vars, history
    <2>2. QED
      BY <1>1, <2>1, StoreKept DEF FlushMove, FateMove
  <1>3. QED
    BY <1>1, <1>2, BrowserStep, PageStep, ReplayStep, ServerStep DEF Next

LEMMA QueueInvariant == Spec => []QueueInv
  BY QueueInit, QueueStep, PTL DEF Spec

-----------------------------------------------------------------------------
(* The theorems.                                                           *)

\* The store, the component, the flushes and the histories keep their types.
THEOREM TypeCorrect == Spec => []TypeOK
  <1>1. QueueInv => TypeOK
    BY DEF QueueInv
  <1>2. QED
    BY <1>1, QueueInvariant, PTL

\* What the device is done with took effect on the server, whatever calls,
\* replies and pages were lost on the way and however many flushes overlapped.
THEOREM SuccessCorrect == Spec => []NoFalseSuccess
  <1>1. QueueInv => NoFalseSuccess
    BY DEF QueueInv, ConfirmedIsApplied, NoFalseSuccess
  <1>2. QED
    BY <1>1, QueueInvariant, PTL

\* Overlapping flushes neither drop a stored action nor bring it back, and the
\* store holds it once.
THEOREM StoreCorrect == Spec => []StoredUntilDone
  <1>1. ASSUME QueueInv
        PROVE  Len(queue) = Cardinality(Stored)
    <2>1. Len(queue) \in Nat /\ DOMAIN queue = 1 .. Len(queue)
      BY <1>1, SeqFacts DEF QueueInv, TypeOK
    <2>2. queue \in [1 .. Len(queue) -> Stored]
      BY <1>1, <2>1, LenProperties DEF QueueInv, TypeOK, Stored
    <2>3. queue \in Bijection(1 .. Len(queue), Stored)
      BY <1>1, <2>1, <2>2
         DEF QueueInv, Once, Stored, Bijection, Injection, Surjection, IsInjective
    <2>4. ExistsBijection(1 .. Len(queue), Stored)
      BY <2>3 DEF ExistsBijection
    <2>5. QED
      BY <2>1, <2>4, FS_CountingElements
  <1>2. QueueInv => StoredUntilDone
    BY <1>1 DEF QueueInv, StoredIsQueued, StoredUntilDone
  <1>3. QED
    BY <1>2, QueueInvariant, PTL

\* However flushes overlap, an action is only ever sent when those stored before
\* it have been answered.
THEOREM OrderCorrect == Spec => []AnsweredInOrder
  <1>1. ASSUME QueueInv, NEW f \in Flushes, NEW i \in DOMAIN queue, NEW j \in DOMAIN queue,
               i < j, flush[f].phase = "sending", Current(f) = queue[j]
        PROVE  queue[i] \in lastError
    <2>1. flush[f].todo \in Seq(Actions) /\ flush[f].todo # <<>> /\ TodoInOrder(f)
      BY <1>1 DEF QueueInv, TypeOK, FlushState, TodoWasStored
    <2>2. 1 \in DOMAIN flush[f].todo /\ flush[f].todo[1] = queue[j]
      BY <1>1, <2>1, ListTypes DEF Current
    <2>3. \A l \in DOMAIN flush[f].todo : ~(l < 1)
      BY <2>1, SeqFacts
    <2>4. QED
      BY <1>1, <2>1, <2>2, <2>3 DEF TodoInOrder
  <1>2. QueueInv => AnsweredInOrder
    BY <1>1 DEF AnsweredInOrder
  <1>3. QED
    BY <1>2, QueueInvariant, PTL

=============================================================================
