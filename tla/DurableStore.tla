----------------------------- MODULE DurableStore -----------------------------
(***************************************************************************)
(* PostgresStorageProvider: the read cache with write-through that every   *)
(* server process keeps over the shared kv_store table.                    *)
(*                                                                         *)
(* A process has one queue of writes (writeTail): each one runs when those *)
(* before it are settled.  Awaited (durable) writes change the cache when  *)
(* the database has acknowledged them; compatibility writes (set, delete)  *)
(* change it at the call and are persisted behind the caller's back.  A    *)
(* refresh waits for the writes queued before it, selects its collections  *)
(* and, when the rows arrive, replaces the cached collections by them.     *)
(*                                                                         *)
(* A row holds the number of the call that wrote it: data is abstracted to *)
(* who wrote it.                                                           *)
(***************************************************************************)
EXTENDS Naturals, Sequences, FiniteSets

CONSTANTS
    Procs,          \* server processes
    Keys,           \* (collection, id) pairs
    Collections,    \* the collections they belong to
    CollectionOf,   \* the collection of a key
    Seeded,         \* keys with a row before any call
    Batches,        \* the batches callers apply
    Refreshes,      \* the sets of collections callers refresh
    Compatibility,  \* whether some caller uses the compatibility writes
    StorageFaults,  \* whether the database may reject or lose a call
    MaxCalls,       \* bound on the writes called
    Absent,         \* no row
    Original        \* the contents a row had before any call

Change == {"put", "add", "drop", "take"}
Changes == UNION {[K -> Change] : K \in (SUBSET Keys) \ {{}}}

ASSUME StoreConstantsOK ==
    /\ CollectionOf \in [Keys -> Collections]
    /\ Seeded \subseteq Keys
    /\ Batches \subseteq Changes
    /\ Refreshes \subseteq SUBSET Collections
    /\ Compatibility \in BOOLEAN /\ StorageFaults \in BOOLEAN
    /\ MaxCalls \in Nat
    /\ Absent \notin Nat /\ Original \notin Nat /\ Absent # Original

VARIABLES
    rows,       \* rows[k]: the call whose value kv_store holds
    calls,      \* the writes called, in order
    mode,       \* mode[p]: whether process p runs, closes its storage or is down
    cache,      \* cache[p][k]: what get answers on p
    version,    \* version[p][k]: compatibilityMutationVersions
    queue,      \* queue[p]: the unsettled writes of p (writeTail)
    stage,      \* stage[p]: how far the write at the head of queue[p] is
    connected,  \* connected[p]
    refresh,    \* refresh[p]: the refresh in flight
    awaited,    \* awaited[p]: how many writes close() still waits for
    \* History variables: read by the properties, never by an action's guard.
    past,       \* past[k]: every value rows[k] has had
    stale       \* stale[p]: keys whose cached value may differ from the row

history == <<past, stale>>
vars == <<rows, calls, mode, cache, version, queue, stage, connected,
          refresh, awaited, history>>

-----------------------------------------------------------------------------
(***************************************************************************)
(* Records                                                                 *)
(***************************************************************************)

Value == Nat \cup {Absent, Original}
Local == {"set", "delete"}
Kind == Local \cup {"setDurable", "deleteDurable", "batch"}
\* "settled": its promise is resolved or rejected, or its process was killed;
\* "cut": dropped by close().
Fate == {"pending", "settled", "cut"}

\* seen: compatibility versions captured by the call.  live: whether the
\* collection a deleteDurable holds on to is still the cached one.  late: made
\* when its process was closing its storage.
Call == [proc: Procs, kind: Kind, changes: Changes, seen: [Keys -> Nat],
         live: BOOLEAN, late: BOOLEAN, fate: Fate]

Refresh == [phase: {"idle", "waiting", "read"}, of: SUBSET Collections,
            behind: Nat, snap: [Keys -> Value]]
NoRows == [k \in Keys |-> Absent]
Idle == [phase |-> "idle", of |-> {}, behind |-> 0, snap |-> NoRows]

Unseen == [k \in Keys |-> 0]

Init ==
    /\ rows = [k \in Keys |-> IF k \in Seeded THEN Original ELSE Absent]
    /\ calls = <<>>
    /\ mode = [p \in Procs |-> "down"]
    /\ cache = [p \in Procs |-> NoRows]
    /\ version = [p \in Procs |-> Unseen]
    /\ queue = [p \in Procs |-> <<>>]
    /\ stage = [p \in Procs |-> "queued"]
    /\ connected = [p \in Procs |-> FALSE]
    /\ refresh = [p \in Procs |-> Idle]
    /\ awaited = [p \in Procs |-> 0]
    /\ past = [k \in Keys |-> {rows[k]}]
    /\ stale = [p \in Procs |-> {}]

-----------------------------------------------------------------------------
(***************************************************************************)
(* What a call does to the rows and to the cache                           *)
(***************************************************************************)

Written(n, change) == IF change \in {"put", "add"} THEN n ELSE Absent

\* Mutant: requireAbsent and requireExisting are not looked at.
AlwaysAdmissible(changes, r) == TRUE
Admissible(changes, r) ==
    \A k \in DOMAIN changes :
        /\ changes[k] = "add" => r[k] = Absent
        /\ changes[k] = "take" => r[k] # Absent

Applied(n, changes, r) ==
    [k \in Keys |-> IF k \in DOMAIN changes THEN Written(n, changes[k]) ELSE r[k]]

\* Mutant: the compatibility versions are not compared.
PublishesAll(p, n) == DOMAIN calls[n].changes
\* The keys of call n that its acknowledgement publishes in the cache of p: a
\* newer compatibility write keeps its value, except from a durable delete,
\* which only asks for the collection it was called on.
Publishes(p, n) ==
    {k \in DOMAIN calls[n].changes :
        \/ /\ calls[n].kind \in {"setDurable", "batch"}
           /\ version[p][k] = calls[n].seen[k]
        \/ calls[n].kind = "deleteDurable" /\ calls[n].live}

\* Mutant: the cache keeps what a committed write has deleted.
PublishedPutsOnly(p, n) ==
    [k \in Keys |-> IF /\ k \in Publishes(p, n)
                       /\ calls[n].changes[k] \in {"put", "add"}
                    THEN n ELSE cache[p][k]]
Published(p, n) ==
    [k \in Keys |-> IF k \in Publishes(p, n)
                    THEN Written(n, calls[n].changes[k])
                    ELSE cache[p][k]]

\* The keys of the unsettled calls of p of some kinds: of all of them, of those
\* the database has not executed, of those whose turn has not come.
Touched(p, positions) ==
    UNION {DOMAIN calls[queue[p][j]].changes : j \in positions}
Positions(p, kinds) == {j \in DOMAIN queue[p] : calls[queue[p][j]].kind \in kinds}
InFlight(p, kinds) == Touched(p, Positions(p, kinds))
Unapplied(p, kinds) ==
    Touched(p, Positions(p, kinds) \ IF stage[p] = "applied" THEN {1} ELSE {})
Waiting(p, kinds) ==
    Touched(p, Positions(p, kinds) \ IF stage[p] = "queued" THEN {} ELSE {1})

\* The keys of some collections.
KeysOf(C) == {k \in Keys : CollectionOf[k] \in C}

Running(p) == mode[p] \in {"up", "closing"}
CanCall(p) == Running(p) /\ Len(calls) < MaxCalls

NewCall(p, kind, changes, seen) ==
    [proc |-> p, kind |-> kind, changes |-> changes, seen |-> seen,
     live |-> TRUE, late |-> mode[p] = "closing", fate |-> "pending"]

\* enqueueWrite
Enqueue(p, call) ==
    /\ calls' = Append(calls, call)
    /\ queue' = [queue EXCEPT ![p] = Append(@, Len(calls) + 1)]

\* A settled write lets the next one run, and a refresh or a close that waits
\* for it is one write nearer.
Ended(call, fate) ==
    [call EXCEPT !.fate = fate, !.seen = Unseen, !.live = TRUE]
\* Mutants: a settled write is counted when nobody waits, or never.
FewerBelowZero(n) == n - 1
FewerNever(n) == n
Fewer(n) == IF n = 0 THEN 0 ELSE n - 1
Settle(p) ==
    /\ calls' = [calls EXCEPT ![Head(queue[p])] = Ended(@, "settled")]
    /\ queue' = [queue EXCEPT ![p] = Tail(@)]
    /\ stage' = [stage EXCEPT ![p] = "queued"]
    /\ refresh' = [refresh EXCEPT ![p].behind = Fewer(@)]
    /\ awaited' = [awaited EXCEPT ![p] = Fewer(@)]

-----------------------------------------------------------------------------
(***************************************************************************)
(* Calls                                                                   *)
(***************************************************************************)

\* set and delete: the cache changes now; a batch on the key that has not had
\* its turn, or a durable delete of it, will not spare the new value.
Locally(p, k, kind, change) ==
    /\ Compatibility /\ CanCall(p)
    /\ version' = [version EXCEPT ![p][k] = @ + 1]
    /\ cache' = [cache EXCEPT ![p][k] = Written(Len(calls) + 1, change)]
    /\ Enqueue(p, NewCall(p, kind, [x \in {k} |-> change], Unseen))
    /\ stale' = [stale EXCEPT ![p] = @ \cup
                    ({k} \cap (Waiting(p, {"batch"})
                               \cup InFlight(p, {"deleteDurable"})))]
    /\ UNCHANGED <<rows, mode, stage, connected, refresh, awaited, past>>

SetLocal(p, k) == Locally(p, k, "set", "put")
DeleteLocal(p, k) == cache[p][k] # Absent /\ Locally(p, k, "delete", "drop")

Durably(p, kind, changes, seen) ==
    /\ CanCall(p)
    /\ Enqueue(p, NewCall(p, kind, changes, seen))
    /\ UNCHANGED <<rows, mode, cache, version, stage, connected,
                   refresh, awaited, history>>

\* setDurable captures the compatibility version at the call.
SetDurable(p, k) ==
    Durably(p, "setDurable", [x \in {k} |-> "put"], [Unseen EXCEPT ![k] = version[p][k]])
DeleteDurable(p, k) ==
    cache[p][k] # Absent /\ Durably(p, "deleteDurable", [x \in {k} |-> "drop"], Unseen)
ApplyDurableBatch(p, changes) == Durably(p, "batch", changes, Unseen)

-----------------------------------------------------------------------------
(***************************************************************************)
(* The write at the head of a queue                                        *)
(***************************************************************************)

HeadCall(p) == calls[Head(queue[p])]
AtStage(p, s) == Running(p) /\ queue[p] # <<>> /\ stage[p] = s

\* The queued write runs; a batch captures its versions only now.
WriteTurn(p) ==
    /\ AtStage(p, "queued") /\ connected[p]
    /\ stage' = [stage EXCEPT ![p] = "sent"]
    /\ calls' = IF HeadCall(p).kind = "batch"
                THEN [calls EXCEPT ![Head(queue[p])].seen =
                        [k \in Keys |-> IF k \in DOMAIN HeadCall(p).changes
                                        THEN version[p][k] ELSE 0]]
                ELSE calls
    /\ UNCHANGED <<rows, mode, cache, version, queue, connected, refresh,
                   awaited, history>>

\* Whatever failed, the value of a compatibility write stays in the cache, and
\* a durable write that was executed is not published.
Lost(p) == IF (HeadCall(p).kind \in Local) # (stage[p] = "applied")
           THEN DOMAIN HeadCall(p).changes ELSE {}

\* The probe of the connection that follows is ProbeAnswer.
WriteFailed(p) ==
    /\ Settle(p)
    /\ stale' = [stale EXCEPT ![p] = @ \cup Lost(p)]
    /\ UNCHANGED <<rows, mode, cache, version, connected, past>>

WriteRefused(p) ==
    /\ AtStage(p, "queued") /\ ~connected[p]
    /\ WriteFailed(p)

\* The database rejects the write, or loses its acknowledgement.
WriteFault(p) ==
    /\ StorageFaults
    /\ AtStage(p, "sent") \/ AtStage(p, "applied")
    /\ WriteFailed(p)

\* Where call n makes the cache of q differ from the rows: it is another's, or
\* a refresh of q already holds the old rows.
Outdates(q, p, changed) ==
    IF q = p
    THEN IF refresh[p].phase = "read"
         THEN changed \cap KeysOf(refresh[p].of) ELSE {}
    ELSE changed

Commit(p) ==
    /\ AtStage(p, "sent")
    /\ Admissible(HeadCall(p).changes, rows)
    /\ rows' = Applied(Head(queue[p]), HeadCall(p).changes, rows)
    /\ stage' = [stage EXCEPT ![p] = "applied"]
    /\ past' = [k \in Keys |-> past[k] \cup {rows'[k]}]
    /\ stale' = [q \in Procs |->
                    stale[q] \cup Outdates(q, p, DOMAIN HeadCall(p).changes)]
    /\ UNCHANGED <<calls, mode, cache, version, queue, connected, refresh,
                   awaited>>

\* requireAbsent or requireExisting does not hold: the batch is rolled back.
Conflict(p) ==
    /\ AtStage(p, "sent")
    /\ ~Admissible(HeadCall(p).changes, rows)
    /\ Settle(p)
    /\ UNCHANGED <<rows, mode, cache, version, connected, history>>

Acknowledge(p) ==
    /\ AtStage(p, "applied")
    /\ cache' = [cache EXCEPT ![p] = Published(p, Head(queue[p]))]
    /\ Settle(p)
    /\ UNCHANGED <<rows, mode, version, connected, history>>

-----------------------------------------------------------------------------
(***************************************************************************)
(* Probes and refreshes                                                    *)
(***************************************************************************)

\* The answer of a SELECT 1: the probe after a failed write, or a health check,
\* which may be asked for at any time.
ProbeAnswer(p) ==
    /\ Running(p)
    /\ \E answered \in {TRUE, ~StorageFaults} : connected' = [connected EXCEPT ![p] = answered]
    /\ UNCHANGED <<rows, calls, mode, cache, version, queue, stage, refresh,
                   awaited, history>>

\* One refresh of a process at a time.
RefreshCall(p, C) ==
    /\ Running(p) /\ refresh[p] = Idle
    /\ refresh' = [refresh EXCEPT ![p] =
            [Idle EXCEPT !.phase = "waiting", !.of = C, !.behind = Len(queue[p])]]
    /\ UNCHANGED <<rows, calls, mode, cache, version, queue, stage, connected,
                   awaited, history>>

RefreshReady(p) == refresh[p].phase = "waiting" /\ refresh[p].behind = 0

\* The acknowledgement still to come will publish the value p wrote, even if
\* the rows read now hold a later one.
Executed(p) == IF stage[p] = "applied" THEN DOMAIN HeadCall(p).changes ELSE {}

RefreshSelect(p) ==
    /\ RefreshReady(p) /\ connected[p]
    /\ refresh' = [refresh EXCEPT ![p].phase = "read", ![p].snap =
            [k \in Keys |-> IF k \in KeysOf(refresh[p].of) THEN rows[k] ELSE Absent]]
    /\ stale' = [stale EXCEPT ![p] = @ \ (KeysOf(refresh[p].of) \ Executed(p))]
    /\ UNCHANGED <<rows, calls, mode, cache, version, queue, stage, connected,
                   awaited, past>>

RefreshRefused(p) ==
    /\ RefreshReady(p) /\ ~connected[p]
    /\ refresh' = [refresh EXCEPT ![p] = Idle]
    /\ UNCHANGED <<rows, calls, mode, cache, version, queue, stage, connected,
                   awaited, history>>

\* loadCache: the collections are new maps, which a durable delete in flight
\* does not know; the value of a compatibility write in flight is gone.
RefreshPublish(p) ==
    /\ refresh[p].phase = "read"
    /\ LET loaded == KeysOf(refresh[p].of)
       IN  /\ cache' = [cache EXCEPT ![p] =
                [k \in Keys |-> IF k \in loaded THEN refresh[p].snap[k] ELSE @[k]]]
           /\ calls' = [n \in DOMAIN calls |->
                IF /\ calls[n].proc = p /\ calls[n].fate = "pending"
                   /\ calls[n].kind = "deleteDurable"
                   /\ DOMAIN calls[n].changes \subseteq loaded
                THEN [calls[n] EXCEPT !.live = FALSE]
                ELSE calls[n]]
           /\ stale' = [stale EXCEPT ![p] = @ \cup
                (loaded \cap Unapplied(p, Local \cup {"deleteDurable"}))]
    /\ connected' = [connected EXCEPT ![p] = TRUE]
    /\ refresh' = [refresh EXCEPT ![p] = Idle]
    /\ UNCHANGED <<rows, mode, version, queue, stage, awaited,
                   past>>

RefreshFault(p) ==
    /\ StorageFaults
    /\ refresh[p].phase = "read"
    /\ connected' = [connected EXCEPT ![p] = FALSE]
    /\ refresh' = [refresh EXCEPT ![p] = Idle]
    /\ stale' = [stale EXCEPT ![p] = @ \cup KeysOf(refresh[p].of)]
    /\ UNCHANGED <<rows, calls, mode, cache, version, queue, stage,
                   awaited, past>>

-----------------------------------------------------------------------------
(***************************************************************************)
(* Processes                                                               *)
(***************************************************************************)

\* initialize, with the strict setting StorageFactory gives it: a process
\* serves nothing before the whole cache is loaded.
Boot(p) ==
    /\ mode[p] = "down"
    /\ mode' = [mode EXCEPT ![p] = "up"]
    /\ cache' = [cache EXCEPT ![p] = rows]
    /\ connected' = [connected EXCEPT ![p] = TRUE]
    /\ stale' = [stale EXCEPT ![p] = {}]
    /\ UNCHANGED <<rows, calls, version, queue, stage, refresh, awaited, past>>

\* p is gone; the writes it still had end with the given fate.
Down(p, fate) ==
    /\ mode' = [mode EXCEPT ![p] = "down"]
    /\ cache' = [cache EXCEPT ![p] = NoRows]
    /\ version' = [version EXCEPT ![p] = Unseen]
    /\ calls' = [n \in DOMAIN calls |->
            IF calls[n].proc = p /\ calls[n].fate = "pending"
            THEN Ended(calls[n], fate) ELSE calls[n]]
    /\ queue' = [queue EXCEPT ![p] = <<>>]
    /\ stage' = [stage EXCEPT ![p] = "queued"]
    /\ connected' = [connected EXCEPT ![p] = FALSE]
    /\ refresh' = [refresh EXCEPT ![p] = Idle]
    /\ awaited' = [awaited EXCEPT ![p] = 0]
    /\ UNCHANGED <<rows, history>>

\* Mutant: close() ends the pool without flush().
FlushNothing(p) == 0
\* How many writes flush waits for.
ToFlush(p) == Len(queue[p])

CloseBegin(p) ==
    /\ mode[p] = "up"
    /\ mode' = [mode EXCEPT ![p] = "closing"]
    /\ awaited' = [awaited EXCEPT ![p] = ToFlush(p)]
    /\ UNCHANGED <<rows, calls, cache, version, queue, stage, connected,
                   refresh, history>>

\* The pool ends once no query is under way.
CloseEnd(p) ==
    /\ mode[p] = "closing" /\ awaited[p] = 0 /\ stage[p] = "queued"
    /\ Down(p, "cut")

Kill(p) ==
    /\ Running(p)
    /\ Down(p, "settled")

-----------------------------------------------------------------------------
Callers(p) ==
    \/ \E k \in Keys : \/ SetLocal(p, k) \/ DeleteLocal(p, k)
                        \/ SetDurable(p, k) \/ DeleteDurable(p, k)
    \/ \E changes \in Batches : ApplyDurableBatch(p, changes)
    \/ \E C \in Refreshes : RefreshCall(p, C)

WriteStep(p) ==
    WriteTurn(p) \/ WriteRefused(p) \/ Commit(p) \/ Conflict(p) \/ Acknowledge(p)
RefreshStep(p) == RefreshSelect(p) \/ RefreshRefused(p) \/ RefreshPublish(p)

Next == \E p \in Procs :
    \/ Callers(p) \/ WriteStep(p) \/ WriteFault(p)
    \/ ProbeAnswer(p) \/ RefreshStep(p) \/ RefreshFault(p)
    \/ Boot(p) \/ CloseBegin(p) \/ CloseEnd(p) \/ Kill(p)

Spec == Init /\ [][Next]_vars

\* The database answers each query, one way or another, and the pool ends.
FairSpec ==
    /\ Spec
    /\ \A p \in Procs : /\ WF_vars(WriteStep(p)) /\ WF_vars(RefreshStep(p))
                         /\ WF_vars(CloseEnd(p))

-----------------------------------------------------------------------------
(***************************************************************************)
(* Properties                                                              *)
(***************************************************************************)

\* Every variable keeps its type.
TypeOK ==
    /\ rows \in [Keys -> Value]
    /\ calls \in Seq(Call)
    /\ mode \in [Procs -> {"down", "up", "closing"}]
    /\ cache \in [Procs -> [Keys -> Value]]
    /\ version \in [Procs -> [Keys -> Nat]]
    /\ queue \in [Procs -> Seq(Nat)]
    /\ \A p \in Procs : \A j \in DOMAIN queue[p] : queue[p][j] \in DOMAIN calls
    /\ stage \in [Procs -> {"queued", "sent", "applied"}]
    /\ connected \in [Procs -> BOOLEAN]
    /\ refresh \in [Procs -> Refresh]
    /\ awaited \in [Procs -> Nat]
    /\ past \in [Keys -> SUBSET Value]
    /\ stale \in [Procs -> SUBSET Keys]

\* At rest the cache of a process is exact: with no write of the process under
\* way on a key and no refresh, get answers what kv_store holds, unless a write
\* of another process, a failed call or one of the races `stale` names came
\* between (applyDurableBatch, setDurable, loadCache).
AtRestCacheIsExact ==
    \A p \in Procs : \A k \in Keys :
        (/\ Running(p) /\ refresh[p].phase # "read"
         /\ k \notin InFlight(p, Kind) /\ k \notin stale[p])
            => cache[p][k] = rows[k]

\* close() flushes: a write is dropped by the end of the pool only if it was
\* called after close() began.
CloseCutsOnlyLateWrites ==
    \A n \in DOMAIN calls : calls[n].fate = "cut" => calls[n].late

\* What OrderedStore promises, with the writes the database has not executed
\* yet as the pending ones and the cache as the view.
Promise == INSTANCE OrderedStore WITH
    made <- [n \in DOMAIN calls |-> [changes |-> calls[n].changes,
                                     local |-> calls[n].kind \in Local]],
    pending <- [p \in Procs |-> IF stage[p] = "applied" THEN Tail(queue[p])
                                ELSE queue[p]],
    view <- cache
ImplementsOrderedStore == Promise!Spec

\* No caller waits for ever: every write is settled, every refresh ends and
\* every close comes to its end, whatever fails meanwhile.  (Calls are bounded:
\* when no more are made, none is left waiting.)
EveryCallSettles ==
    /\ []<>(\A n \in DOMAIN calls : calls[n].fate # "pending")
    /\ \A p \in Procs : []<>(refresh[p].phase = "idle") /\ []<>(mode[p] # "closing")
=============================================================================
