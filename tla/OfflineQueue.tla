---------------------------- MODULE OfflineQueue ----------------------------
(***************************************************************************)
(* The collector's offline queue: the IndexedDB store                      *)
(* (frontend/src/lib/offlineQueue.ts), the hook that fills and replays it  *)
(* (frontend/src/hooks/useOfflineQueue.ts) and the page that calls the     *)
(* hook (frontend/src/app/(app)/collector/page.tsx).                       *)
(*                                                                         *)
(* A step is a task of the browser's event loop: what runs between two     *)
(* awaits.  React's state is set by a task and rendered, with everything   *)
(* set since the last time, by a later one; the callbacks that effects and *)
(* listeners hold see the values of the render that made them.  A call is  *)
(* answered by the server, or fails: no connection, a reply lost on the    *)
(* way back, a 5xx, a timeout after which the server may still act.  What  *)
(* the server answers is left open here.  The user stays logged in.        *)
(***************************************************************************)
EXTENDS Naturals, Sequences, FiniteSets

CONSTANTS
    Actions,          \* what the collector does, one at a time
    Flushes,          \* bound: calls of flush in progress at the same time
    Faults            \* what may happen besides failing calls: the component
                      \* is mounted again ("remount"), the page is loaded again
                      \* ("reload"), the server gets a call given up ("late")

ASSUME QueueAssumption ==
    /\ Actions \cap Flushes = {}
    /\ Faults \subseteq {"remount", "reload", "late"}

VARIABLES
    online,           \* navigator.onLine
    queue,            \* the store, in the order of queuedAt
    lastError,        \* the stored actions that have a lastError
    fate,             \* what the page knows of each action
    flush,            \* the calls of flush
    orphans,          \* flushes and calls whose component was unmounted
    pending, syncing, loading,  \* of the mounted component: the length of
                      \* pending, syncing, and a refreshPending on its way
    seen,             \* ...as of its last render
    late,             \* history: calls given up that the server may still get
    applied           \* history: the actions that took effect on the server

store == <<queue, lastError>>
component == <<pending, syncing, loading, seen>>
history == <<late, applied>>
vars == <<online, store, fate, flush, orphans, component, history>>

Stored == {queue[i] : i \in DOMAIN queue}

\* A direct call is "sending" until it is answered; "told" the error, the page
\* keeps nothing of the action; "closed" with the page, nobody was told.
Fate == {"none", "sending", "ok", "refused", "queued", "done", "told", "closed"}
Calling == {"sending", "ok", "refused"}

FlushState ==
    [phase : {"off", "listing", "next", "sending", "ok", "refused", "ending"},
     todo : Seq(Actions)]

Off == [phase |-> "off", todo |-> <<>>]
Current(f) == Head(flush[f].todo)

Init ==
    /\ online \in BOOLEAN
    /\ queue = <<>> /\ lastError = {}
    /\ fate = [a \in Actions |-> "none"]
    /\ flush = [f \in Flushes |-> Off]
    /\ orphans = {}
    /\ pending = 0 /\ syncing = FALSE /\ loading = TRUE
    /\ seen = [online |-> online, length |-> 0, syncing |-> FALSE]
    /\ late = {} /\ applied = {}

-----------------------------------------------------------------------------
(* The store.                                                              *)

Enqueue(a) == queue' = Append(queue, a) /\ UNCHANGED lastError

\* The sequence without a, which it holds.
Without(s, a) ==
    LET i == CHOOSE i \in DOMAIN s : s[i] = a
    IN  SubSeq(s, 1, i - 1) \o SubSeq(s, i + 1, Len(s))

Remove(a) ==
    /\ queue' = IF a \in Stored THEN Without(queue, a) ELSE queue
    /\ lastError' = lastError \ {a}

\* Broken variants: an error is kept for a record that is gone; the record is
\* written back whether it is still there or not.
KeepError(a) ==
    /\ lastError' = lastError \cup {a}
    /\ UNCHANGED queue
PutError(a) ==
    /\ queue' = IF a \in Stored THEN queue ELSE Append(queue, a)
    /\ lastError' = lastError \cup {a}

\* updateQueuedActionError: in one transaction, if the record is still there.
SetError(a) ==
    /\ lastError' = IF a \in Stored THEN lastError \cup {a} ELSE lastError
    /\ UNCHANGED queue

\* refreshPending, by a callback of the component x was started in.
ShowStored(x) ==
    pending' = IF x \in orphans THEN pending ELSE Len(queue')

-----------------------------------------------------------------------------
(* The component.                                                          *)

\* flush() up to its first await.
StartFlush(f) ==
    /\ flush[f].phase = "off"
    /\ flush' = [flush EXCEPT ![f].phase = "listing"]
    /\ syncing' = TRUE

NoFlush == UNCHANGED <<flush, syncing>>

View == [online |-> online, length |-> pending, syncing |-> syncing]

\* A render and its effects: refreshPending when flush, that is syncing, has
\* changed; flush when isOnline or the length of pending has.
Render ==
    /\ seen # View
    /\ seen' = View
    /\ loading' = (loading \/ seen.syncing # syncing)
    /\ IF /\ seen.online # online \/ seen.length # pending
          /\ online /\ pending > 0 /\ ~syncing
         THEN \E f \in Flushes : StartFlush(f)
         ELSE NoFlush
    /\ UNCHANGED <<online, store, fate, orphans, pending, history>>

\* The refreshPending of the effect.
Refresh ==
    /\ loading
    /\ loading' = FALSE
    /\ pending' = Len(queue)
    /\ UNCHANGED <<online, store, fate, flush, orphans, syncing, seen, history>>

GoOffline ==
    /\ online
    /\ online' = FALSE
    /\ UNCHANGED <<store, fate, flush, orphans, pending, syncing, loading, seen, history>>

\* handleOnline: the guard of flush is the syncing of the last render.
GoOnline ==
    /\ ~online
    /\ online' = TRUE
    /\ IF seen.syncing THEN NoFlush ELSE \E f \in Flushes : StartFlush(f)
    /\ UNCHANGED <<store, fate, orphans, pending, loading, seen, history>>

\* Calls nobody waits for any more, which may still be on their way.
GiveUp(calls) == late' = IF "late" \in Faults THEN late \cup calls ELSE late

Mount ==
    /\ pending' = 0 /\ syncing' = FALSE /\ loading' = TRUE
    /\ seen' = [online |-> online, length |-> 0, syncing |-> FALSE]

Running == {f \in Flushes : flush[f].phase # "off"}
InCall == {a \in Actions : fate[a] \in Calling}

\* The collector opens another page of the app and comes back.
Remount ==
    /\ "remount" \in Faults
    /\ Mount
    /\ orphans' = Running \cup InCall
    /\ UNCHANGED <<online, store, fate, flush, history>>

\* The tab is closed, or its process killed, and the app opened again.
Reload ==
    /\ "reload" \in Faults
    /\ Mount
    /\ GiveUp({Current(f) : f \in {g \in Flushes : flush[g].phase = "sending"}}
                  \cup {a \in Actions : fate[a] = "sending"})
    /\ flush' = [f \in Flushes |-> Off]
    /\ orphans' = {}
    /\ fate' = [a \in Actions |-> IF fate[a] \in Calling THEN "closed" ELSE fate[a]]
    /\ UNCHANGED <<online, store, applied>>

-----------------------------------------------------------------------------
(* queueOrSend.                                                            *)

\* The action is stored and the store shown again, in one step.
Put(a) ==
    /\ Enqueue(a)
    /\ ShowStored(a)
    /\ fate' = [fate EXCEPT ![a] = "queued"]
    /\ orphans' = orphans \ {a}

Submit(a) ==
    /\ fate[a] = "none"
    /\ IF online
         THEN fate' = [fate EXCEPT ![a] = "sending"]
              /\ UNCHANGED <<store, orphans, pending>>
         ELSE Put(a)
    /\ UNCHANGED <<online, flush, syncing, loading, seen, history>>

\* The call resolves, or throws the ApiError of the server's refusal.
Settle(a) ==
    /\ fate[a] \in {"ok", "refused"}
    /\ fate' = [fate EXCEPT ![a] = IF @ = "ok" THEN "done" ELSE "told"]
    /\ orphans' = orphans \ {a}
    /\ UNCHANGED <<online, store, flush, component, history>>

\* A timeout, a 5xx, or a network error that the service worker turned into a
\* 503: an ApiError, shown by the page.
CallFails(a) ==
    /\ fate[a] \in Calling
    /\ fate' = [fate EXCEPT ![a] = "told"]
    /\ orphans' = orphans \ {a}
    /\ GiveUp(IF fate[a] = "sending" THEN {a} ELSE {})
    /\ UNCHANGED <<online, store, flush, component, applied>>

\* A network error with no service worker in between: fetch throws.
CallDropped(a) ==
    /\ fate[a] \in Calling
    /\ Put(a)
    /\ GiveUp(IF fate[a] = "sending" THEN {a} ELSE {})
    /\ UNCHANGED <<online, flush, syncing, loading, seen, applied>>

-----------------------------------------------------------------------------
(* flush.                                                                  *)

\* listQueuedActions, sorted by queuedAt.
List(f) ==
    /\ flush[f].phase = "listing"
    /\ flush' = [flush EXCEPT ![f] = [phase |-> "next", todo |-> queue]]
    /\ UNCHANGED <<online, store, fate, orphans, component, history>>

Send(f) ==
    /\ flush[f].phase = "next"
    /\ flush[f].todo # <<>>
    /\ flush' = [flush EXCEPT ![f].phase = "sending"]
    /\ UNCHANGED <<online, store, fate, orphans, component, history>>

\* Broken variant: a refusal counts as an answer like any other.
RecordDone(a, r) == Remove(a) /\ fate' = [fate EXCEPT ![a] = "done"]

Record(a, r) ==
    \/ r = "ok" /\ Remove(a) /\ fate' = [fate EXCEPT ![a] = "done"]
    \/ r = "refused" /\ SetError(a) /\ UNCHANGED fate

Receive(f) ==
    /\ flush[f].phase \in {"ok", "refused"}
    /\ Record(Current(f), flush[f].phase)
    /\ flush' = [flush EXCEPT ![f] = [phase |-> "next", todo |-> Tail(@.todo)]]
    /\ UNCHANGED <<online, orphans, component, history>>

\* Broken variant: the loop goes on with the next action.
Skip(f) == [phase |-> "next", todo |-> Tail(flush[f].todo)]

Break(f) == [flush[f] EXCEPT !.phase = "ending"]

\* No answer, a 5xx or a timeout: the flush stops.
SendFails(f) ==
    /\ flush[f].phase \in {"sending", "ok", "refused"}
    /\ flush' = [flush EXCEPT ![f] = Break(f)]
    /\ GiveUp(IF flush[f].phase = "sending" THEN {Current(f)} ELSE {})
    /\ UNCHANGED <<online, store, fate, orphans, component, applied>>

\* Broken variant: without finally, an error leaves syncing set.
SyncingAfter(f) == flush[f].phase = "ending" \/ (f \in orphans /\ syncing)

StillSyncing(f) == f \in orphans /\ syncing

\* finally: refreshPending and setSyncing(false), which React renders as one.
End(f) ==
    /\ \/ flush[f].phase = "ending"
       \/ flush[f].phase = "next" /\ flush[f].todo = <<>>
    /\ flush' = [flush EXCEPT ![f] = Off]
    /\ pending' = IF f \in orphans THEN pending ELSE Len(queue)
    /\ syncing' = StillSyncing(f)
    /\ orphans' = orphans \ {f}
    /\ UNCHANGED <<online, store, fate, loading, seen, history>>

-----------------------------------------------------------------------------
(* The server.                                                             *)

Answers == {"ok", "refused"}

Apply(a, r) == applied' = IF r = "ok" THEN applied \cup {a} ELSE applied

AnswerReplay(f, r) ==
    /\ flush[f].phase = "sending"
    /\ flush' = [flush EXCEPT ![f].phase = r]
    /\ Apply(Current(f), r)
    /\ UNCHANGED <<online, store, fate, orphans, component, late>>

AnswerCall(a, r) ==
    /\ fate[a] = "sending"
    /\ fate' = [fate EXCEPT ![a] = r]
    /\ Apply(a, r)
    /\ UNCHANGED <<online, store, flush, orphans, component, late>>

AnswerLate(a, r) ==
    /\ a \in late
    /\ late' = late \ {a}
    /\ Apply(a, r)
    /\ UNCHANGED <<online, store, fate, flush, orphans, component>>

-----------------------------------------------------------------------------

Browser == Render \/ Refresh \/ GoOffline \/ GoOnline \/ Remount \/ Reload

Page(a) == Submit(a) \/ Settle(a) \/ CallFails(a) \/ CallDropped(a)

Replay(f) == List(f) \/ Send(f) \/ Receive(f) \/ SendFails(f) \/ End(f)

Server(r) ==
    \/ \E f \in Flushes : AnswerReplay(f, r)
    \/ \E a \in Actions : AnswerCall(a, r) \/ AnswerLate(a, r)

Next ==
    \/ Browser
    \/ \E a \in Actions : Page(a)
    \/ \E f \in Flushes : Replay(f)
    \/ \E r \in Answers : Server(r)

Spec == Init /\ [][Next]_vars

At(f, a) == flush[f].todo # <<>> /\ Current(f) = a

\* Renders, storage and timers of the browser are prompt; the page is left open
\* some time; the device keeps losing and finding its network; and a replay
\* that is sent again and again is answered, and its answer received.
FairSpec ==
    /\ Spec
    /\ <>[][~(Remount \/ Reload)]_vars
    /\ WF_vars(Render) /\ WF_vars(Refresh)
    /\ WF_vars(GoOffline) /\ WF_vars(GoOnline)
    /\ \A f \in Flushes : WF_vars(List(f)) /\ WF_vars(SendFails(f)) /\ WF_vars(End(f))
    /\ \A a \in Actions :
        /\ SF_vars(\E f \in Flushes : At(f, a) /\ Send(f))
        /\ SF_vars(\E f \in Flushes, r \in Answers : At(f, a) /\ AnswerReplay(f, r))
        /\ SF_vars(\E f \in Flushes : At(f, a) /\ Receive(f))

-----------------------------------------------------------------------------

\* The store, the component, the flushes and the histories have their types.
TypeOK ==
    /\ online \in BOOLEAN
    /\ queue \in Seq(Actions) /\ lastError \in SUBSET Stored
    /\ fate \in [Actions -> Fate]
    /\ flush \in [Flushes -> FlushState]
    /\ orphans \in SUBSET (Flushes \cup Actions)
    /\ pending \in Nat
    /\ syncing \in BOOLEAN /\ loading \in BOOLEAN
    /\ seen \in [online : BOOLEAN, length : Nat, syncing : BOOLEAN]
    /\ late \in SUBSET Actions /\ applied \in SUBSET Actions

\* docs/offline-sync.md, a queue without conflicts "would let a collector
\* believe an action succeeded when it didn't": an action the device is done
\* with took effect, whatever was lost, repeated or refused on the way.
NoFalseSuccess == \A a \in Actions : fate[a] = "done" => a \in applied

\* An action is stored once from when it is queued until the server has
\* confirmed it, and never after: two flushes that replay it at the same time
\* neither drop it nor bring it back.
StoredUntilDone ==
    /\ \A a \in Actions : a \in Stored <=> fate[a] = "queued"
    /\ Len(queue) = Cardinality(Stored)

\* The queue is replayed in the order it was filled: no action is sent before
\* those queued before it have been answered.
AnsweredInOrder ==
    \A f \in Flushes : \A i, j \in DOMAIN queue :
        (i < j /\ flush[f].phase = "sending" /\ Current(f) = queue[j])
            => queue[i] \in lastError

\* When connectivity keeps returning, every stored action is answered: it is
\* confirmed and leaves the store, or shows the server's refusal.
QueueIsServed ==
    \A a \in Actions : a \in Stored ~> a \notin Stored \/ a \in lastError

=============================================================================
