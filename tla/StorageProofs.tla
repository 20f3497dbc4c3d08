----------------------------- MODULE StorageProofs -----------------------------
(***************************************************************************)
(* Proofs about what is kept in the storage.                               *)
(*                                                                         *)
(* DurableStore: its types, what close() flushes, that caches at rest are  *)
(* exact, and that it implements OrderedStore.  QueueInv says what waits in *)
(* the queues and who waits for it.  CacheInv says of each process and row *)
(* what the cache will be when the writes that wait have published: it     *)
(* needs the versions the code captures (VersionsSound), the rows of the   *)
(* executed write (AppliedStored), those a refresh has read (SnapsExact),  *)
(* and which durable deletes publish nothing (DeadDeletes).  ShownInv says *)
(* that all that may still reach a cache was stored.                       *)
(*                                                                         *)
(* ArtifactStore: that what is delivered of a published package is whole.  *)
(* PackageInv says of each writer what it holds and has still to store     *)
(* (WriterSound), of one that will publish that what it will have stored   *)
(* by then is derived from itself (PublishSound), and of each marker that  *)
(* what it names is (MarkerSound).                                         *)
(***************************************************************************)
EXTENDS MCStorage, FiniteSetTheorems, SequenceTheorems, TLAPS

\* The write at position j of the queue of p.
At(p, j) == calls[queue[p][j]]
Touches(p, j, k) == k \in DOMAIN At(p, j).changes
LocalAt(p, j, k) == At(p, j).kind \in Local /\ Touches(p, j, k)
\* The database has not executed it.
Open(p, j) == stage[p] = "applied" => j # 1
\* Its compatibility versions are captured.
Captured(p, j) == \/ At(p, j).kind = "setDurable"
                  \/ At(p, j).kind = "batch" /\ j = 1 /\ stage[p] # "queued"

\* A queue holds unsettled writes of its process, each once.
QueuesSound ==
    \A p \in Procs :
        /\ \A j \in DOMAIN queue[p] : /\ queue[p][j] \in DOMAIN calls
                                      /\ At(p, j).proc = p /\ At(p, j).fate = "pending"
        /\ \A i, j \in DOMAIN queue[p] : queue[p][i] = queue[p][j] => i = j
        /\ queue[p] = <<>> => stage[p] = "queued"
        /\ mode[p] = "down" => queue[p] = <<>> /\ refresh[p] = Idle

\* A write that is unsettled waits in the queue of its process.
PendingQueued ==
    \A n \in DOMAIN calls : calls[n].fate = "pending" =>
        \E j \in DOMAIN queue[calls[n].proc] : queue[calls[n].proc][j] = n

\* close() waits for every write that is not late.
CloseWaits ==
    \A p \in Procs : mode[p] = "closing" =>
        \A j \in DOMAIN queue[p] : ~At(p, j).late => j <= awaited[p]

CallsSound ==
    \A n \in DOMAIN calls :
        /\ calls[n].kind \in Local =>
              \A k \in DOMAIN calls[n].changes : calls[n].changes[k] \in {"put", "drop"}
        /\ calls[n].kind = "deleteDurable" =>
              \A k, l \in DOMAIN calls[n].changes : k = l

\* What one process knows: the parts of CacheInv, each of one process.
VersionsSound(p) ==
    \A j \in DOMAIN queue[p] : \A k \in Keys :
        Captured(p, j) /\ Touches(p, j, k) =>
            /\ At(p, j).seen[k] <= version[p][k]
            /\ At(p, j).seen[k] # version[p][k] =>
                  \E i \in DOMAIN queue[p] : j < i /\ LocalAt(p, i, k)
            /\ At(p, j).kind = "setDurable" =>
                  \A i \in DOMAIN queue[p] : j < i /\ LocalAt(p, i, k) =>
                      At(p, j).seen[k] # version[p][k]

\* An executed write that is not acknowledged is the last on its rows.
AppliedStored(p) ==
    stage[p] = "applied" =>
        \A k \in DOMAIN At(p, 1).changes : k \notin stale[p] =>
            rows[k] = Written(queue[p][1], At(p, 1).changes[k])

\* A durable delete whose collection was reloaded publishes nothing.
DeadDeletes(p) ==
    \A j \in DOMAIN queue[p] :
        At(p, j).kind = "deleteDurable" /\ ~At(p, j).live =>
            /\ refresh[p].phase # "read"
            /\ refresh[p].phase = "waiting" => j <= refresh[p].behind
            /\ Open(p, j) => DOMAIN At(p, j).changes \subseteq stale[p]

SnapsExact(p) ==
    refresh[p].phase = "read" =>
        \A k \in KeysOf(refresh[p].of) : k \notin stale[p] => refresh[p].snap[k] = rows[k]

\* The write at position i will not publish k.
Spares(p, i, k) ==
    /\ At(p, i).kind # "deleteDurable"
    /\ At(p, i).kind = "batch" => /\ i = 1 /\ stage[p] # "queued"
                                  /\ At(p, i).seen[k] # version[p][k]

Claimed(p, k) ==
    /\ Running(p) /\ k \notin stale[p]
    /\ ~(refresh[p].phase = "read" /\ k \in KeysOf(refresh[p].of))

\* The acknowledgement to come publishes k.
Publishing(p, k) ==
    /\ stage[p] = "applied" /\ Touches(p, 1, k)
    /\ \/ At(p, 1).kind \in {"setDurable", "batch"} /\ version[p][k] = At(p, 1).seen[k]
       \/ At(p, 1).kind = "deleteDurable" /\ At(p, 1).live

NoneOpen(p, k) == \A j \in DOMAIN queue[p] : LocalAt(p, j, k) => ~Open(p, j)
LastLocal(p, j, k) == \A i \in DOMAIN queue[p] : LocalAt(p, i, k) => i <= j

\* With no compatibility write of p on k to come, the cache has what the row
\* has, or will have it at the acknowledgement.
CacheExact(p, k) ==
    NoneOpen(p, k) => cache[p][k] = rows[k] \/ Publishing(p, k)

\* Otherwise it has what the last one will leave, and no write before publishes.
CacheAhead(p, k) ==
    \A j \in DOMAIN queue[p] : LocalAt(p, j, k) /\ Open(p, j) =>
        /\ LastLocal(p, j, k) => cache[p][k] = Written(queue[p][j], At(p, j).changes[k])
        /\ \A i \in DOMAIN queue[p] : i < j /\ Touches(p, i, k) => Spares(p, i, k)

CachesSound(p) == \A k \in Keys : Claimed(p, k) => CacheExact(p, k) /\ CacheAhead(p, k)

Sound(p) == VersionsSound(p) /\ AppliedStored(p) /\ DeadDeletes(p) /\ SnapsExact(p)
            /\ CachesSound(p)

\* What p has executed and what its refresh has read are values the rows have had.
Shown(p) ==
    /\ stage[p] = "applied" =>
        \A k \in DOMAIN At(p, 1).changes : Written(queue[p][1], At(p, 1).changes[k]) \in past[k]
    /\ refresh[p].phase = "read" =>
        \A k \in KeysOf(refresh[p].of) : refresh[p].snap[k] \in past[k]

-----------------------------------------------------------------------------
(***************************************************************************)
(* Types                                                                   *)
(***************************************************************************)

LEMMA ChangesType ==
    ASSUME NEW c \in Changes
    PROVE  DOMAIN c \subseteq Keys /\ \A k \in DOMAIN c : c[k] \in Change
BY DEF Changes

LEMMA OneChange ==
    ASSUME NEW k \in Keys, NEW change \in Change
    PROVE  /\ [x \in {k} |-> change] \in Changes
           /\ DOMAIN [x \in {k} |-> change] = {k}
           /\ [x \in {k} |-> change][k] = change
<1>1. [x \in {k} |-> change] \in [{k} -> Change]
  OBVIOUS
<1>2. {k} \in SUBSET Keys /\ {k} # {}
  OBVIOUS
<1> QED
  BY <1>1, <1>2 DEF Changes

LEMMA WrittenType ==
    ASSUME NEW n \in Nat, NEW change PROVE Written(n, change) \in Value
<1>1. CASE change \in {"put", "add"}
  BY <1>1 DEF Written, Value
<1>2. CASE change \notin {"put", "add"}
  BY <1>2 DEF Written, Value
<1> QED
  BY <1>1, <1>2

LEMMA IdleType == Idle \in Refresh /\ NoRows \in [Keys -> Value] /\ Unseen \in [Keys -> Nat]
BY DEF Idle, Refresh, NoRows, Value, Unseen

LEMMA NewCallType ==
    ASSUME NEW p \in Procs, NEW kind \in Kind, NEW changes \in Changes,
           NEW seen \in [Keys -> Nat]
    PROVE  NewCall(p, kind, changes, seen) \in Call
BY DEF NewCall, Call, Fate

LEMMA EndedType ==
    ASSUME NEW c \in Call, NEW fate \in Fate PROVE Ended(c, fate) \in Call
BY IdleType DEF Ended, Call

LEMMA EndedFields ==
    ASSUME NEW c \in Call, NEW fate
    PROVE  LET e == Ended(c, fate) IN
           /\ e.proc = c.proc /\ e.kind = c.kind /\ e.changes = c.changes
           /\ e.late = c.late /\ e.fate = fate
BY DEF Ended, Call

LEMMA FewerType == \A n \in Nat : Fewer(n) \in Nat
BY DEF Fewer

\* The head of a queue is the write at its first position.
HeadFirst(p) ==
    /\ 1 \in DOMAIN queue[p] /\ Head(queue[p]) = queue[p][1]
    /\ queue[p][1] \in DOMAIN calls /\ queue[p][1] \in Nat
    /\ HeadCall(p) = At(p, 1) /\ HeadCall(p) \in Call
    /\ Tail(queue[p]) \in Seq(Nat) /\ Len(Tail(queue[p])) = Len(queue[p]) - 1
    /\ \A j \in DOMAIN Tail(queue[p]) : /\ j + 1 \in DOMAIN queue[p] /\ j \in Nat
                                        /\ Tail(queue[p])[j] = queue[p][j + 1]
    /\ \A j \in DOMAIN queue[p] : j # 1 =>
          j - 1 \in DOMAIN Tail(queue[p]) /\ Tail(queue[p])[j - 1] = queue[p][j]

LEMMA HeadIsFirst ==
    ASSUME TypeOK, NEW p \in Procs, queue[p] # <<>>
    PROVE  HeadFirst(p)
BY DEF TypeOK, HeadCall, At, HeadFirst

\* The keys a set of positions touches are keys.
LEMMA TouchedKeys ==
    ASSUME TypeOK, NEW p \in Procs
    PROVE  /\ \A positions : positions \subseteq DOMAIN queue[p]
                             => Touched(p, positions) \subseteq Keys
           /\ \A kinds : /\ InFlight(p, kinds) \subseteq Keys
                         /\ Unapplied(p, kinds) \subseteq Keys
                         /\ Waiting(p, kinds) \subseteq Keys
<1>1. ASSUME NEW positions, positions \subseteq DOMAIN queue[p]
      PROVE  Touched(p, positions) \subseteq Keys
  <2>1. ASSUME NEW j \in positions PROVE DOMAIN calls[queue[p][j]].changes \subseteq Keys
    <3>1. calls[queue[p][j]] \in Call
      BY <1>1 DEF TypeOK
    <3> QED
      BY <3>1, ChangesType DEF Call
  <2> QED
    BY <2>1 DEF Touched
<1>2. \A kinds : Positions(p, kinds) \subseteq DOMAIN queue[p]
  BY DEF Positions
<1> QED
  BY <1>1, <1>2 DEF InFlight, Unapplied, Waiting

LEMMA InitType == Init => TypeOK
<1> SUFFICES ASSUME Init PROVE TypeOK
  OBVIOUS
<1>1. rows \in [Keys -> Value]
  BY DEF Init, Value
<1>2. calls \in Seq(Call) /\ queue \in [Procs -> Seq(Nat)]
  BY DEF Init
<1>3. \A p \in Procs : \A j \in DOMAIN queue[p] : queue[p][j] \in DOMAIN calls
  BY DEF Init
<1> QED
  BY <1>1, <1>2, <1>3, IdleType DEF Init, TypeOK

\* A call appended to the calls and to the queue of p.
Enqueued(p, c) ==
    /\ calls' \in Seq(Call) /\ Len(calls') = Len(calls) + 1
    /\ DOMAIN calls' = DOMAIN calls \cup {Len(calls) + 1}
    /\ Len(calls) + 1 \notin DOMAIN calls /\ Len(calls) + 1 \in Nat
    /\ \A n \in DOMAIN calls : calls'[n] = calls[n]
    /\ calls'[Len(calls) + 1] = c
    /\ queue' \in [Procs -> Seq(Nat)]
    /\ \A q \in Procs : q # p => queue'[q] = queue[q]
    /\ queue'[p] = Append(queue[p], Len(calls) + 1)
    /\ DOMAIN queue'[p] = DOMAIN queue[p] \cup {Len(queue[p]) + 1}
    /\ Len(queue'[p]) = Len(queue[p]) + 1
    /\ \A j \in DOMAIN queue[p] : queue'[p][j] = queue[p][j]
    /\ queue'[p][Len(queue[p]) + 1] = Len(calls) + 1
    /\ \A q \in Procs : \A j \in DOMAIN queue'[q] : queue'[q][j] \in DOMAIN calls'

LEMMA EnqueueType ==
    ASSUME TypeOK, NEW p \in Procs, NEW c \in Call, Enqueue(p, c)
    PROVE  Enqueued(p, c)
<1>1. /\ calls \in Seq(Call) /\ calls' = Append(calls, c)
      /\ queue \in [Procs -> Seq(Nat)]
      /\ queue' = [queue EXCEPT ![p] = Append(@, Len(calls) + 1)]
  BY DEF TypeOK, Enqueue
<1>2. /\ calls' \in Seq(Call) /\ Len(calls') = Len(calls) + 1
      /\ DOMAIN calls' = DOMAIN calls \cup {Len(calls) + 1}
      /\ Len(calls) + 1 \notin DOMAIN calls /\ Len(calls) + 1 \in Nat
      /\ \A n \in DOMAIN calls : calls'[n] = calls[n]
      /\ calls'[Len(calls) + 1] = c
  BY <1>1
<1>3. /\ queue' \in [Procs -> Seq(Nat)]
      /\ \A q \in Procs : q # p => queue'[q] = queue[q]
      /\ queue'[p] = Append(queue[p], Len(calls) + 1)
  BY <1>1, <1>2
<1>4. /\ DOMAIN queue'[p] = DOMAIN queue[p] \cup {Len(queue[p]) + 1}
      /\ Len(queue'[p]) = Len(queue[p]) + 1
      /\ \A j \in DOMAIN queue[p] : queue'[p][j] = queue[p][j]
      /\ queue'[p][Len(queue[p]) + 1] = Len(calls) + 1
  BY <1>1, <1>2, <1>3
<1>5. \A q \in Procs : \A j \in DOMAIN queue'[q] : queue'[q][j] \in DOMAIN calls'
  BY <1>2, <1>3, <1>4 DEF TypeOK
<1> QED
  BY <1>2, <1>3, <1>4, <1>5 DEF Enqueued

\* The write at the head of the queue of p is settled.
Settled(p) ==
    /\ calls' \in Seq(Call) /\ DOMAIN calls' = DOMAIN calls
    /\ calls'[queue[p][1]] = Ended(calls[queue[p][1]], "settled")
    /\ \A n \in DOMAIN calls : n # queue[p][1] => calls'[n] = calls[n]
    /\ queue' \in [Procs -> Seq(Nat)]
    /\ \A q \in Procs : q # p => /\ queue'[q] = queue[q] /\ stage'[q] = stage[q]
                                 /\ refresh'[q] = refresh[q]
                                 /\ awaited'[q] = awaited[q]
    /\ queue'[p] = Tail(queue[p]) /\ stage'[p] = "queued"
    /\ \A q \in Procs : \A j \in DOMAIN queue'[q] : queue'[q][j] \in DOMAIN calls'
    /\ stage' \in [Procs -> {"queued", "sent", "applied"}]
    /\ refresh' \in [Procs -> Refresh]
    /\ refresh'[p] = [refresh[p] EXCEPT !.behind = Fewer(@)]
    /\ awaited' \in [Procs -> Nat]
    /\ awaited'[p] = Fewer(awaited[p])

LEMMA SettleType ==
    ASSUME TypeOK, NEW p \in Procs, queue[p] # <<>>, Settle(p)
    PROVE  Settled(p)
<1>1. /\ Head(queue[p]) = queue[p][1] /\ queue[p][1] \in DOMAIN calls
      /\ Tail(queue[p]) \in Seq(Nat)
      /\ \A j \in DOMAIN Tail(queue[p]) : Tail(queue[p])[j] \in DOMAIN calls
  <2>1. \A j \in DOMAIN Tail(queue[p]) : Tail(queue[p])[j] = queue[p][j + 1]
                                         /\ j + 1 \in DOMAIN queue[p]
    BY HeadIsFirst DEF HeadFirst
  <2> QED
    BY <2>1, HeadIsFirst DEF TypeOK, HeadFirst
<1>2. /\ calls' \in Seq(Call) /\ DOMAIN calls' = DOMAIN calls
      /\ calls'[queue[p][1]] = Ended(calls[queue[p][1]], "settled")
      /\ \A n \in DOMAIN calls : n # queue[p][1] => calls'[n] = calls[n]
  <2>1. calls' = [calls EXCEPT ![queue[p][1]] = Ended(@, "settled")]
    BY <1>1 DEF Settle
  <2>2. calls[queue[p][1]] \in Call
    BY <1>1 DEF TypeOK
  <2>3. Ended(calls[queue[p][1]], "settled") \in Call
    BY <2>2, EndedType DEF Fate
  <2> QED
    BY <1>1, <2>1, <2>3 DEF TypeOK
<1>3. /\ queue' \in [Procs -> Seq(Nat)]
      /\ \A q \in Procs : q # p => queue'[q] = queue[q] /\ stage'[q] = stage[q]
      /\ queue'[p] = Tail(queue[p]) /\ stage'[p] = "queued"
      /\ stage' \in [Procs -> {"queued", "sent", "applied"}]
  BY <1>1 DEF Settle, TypeOK
<1>4. \A q \in Procs : \A j \in DOMAIN queue'[q] : queue'[q][j] \in DOMAIN calls'
  BY <1>1, <1>2, <1>3 DEF TypeOK
<1>5. /\ refresh' \in [Procs -> Refresh]
      /\ refresh'[p] = [refresh[p] EXCEPT !.behind = Fewer(@)]
      /\ \A q \in Procs : q # p => refresh'[q] = refresh[q]
  BY FewerType DEF Settle, TypeOK, Refresh
<1>6. /\ awaited' \in [Procs -> Nat] /\ awaited'[p] = Fewer(awaited[p])
      /\ \A q \in Procs : q # p => awaited'[q] = awaited[q]
  BY FewerType DEF Settle, TypeOK
<1> QED
  BY <1>2, <1>3, <1>4, <1>5, <1>6 DEF Settled

LEMMA LocallyType ==
    ASSUME TypeOK, NEW p \in Procs, NEW k \in Keys, NEW kind \in Local, NEW change \in Change,
           Locally(p, k, kind, change)
    PROVE  TypeOK'
<1> DEFINE c == NewCall(p, kind, [x \in {k} |-> change], Unseen)
<1>1. c \in Call /\ Enqueue(p, c)
  BY OneChange, NewCallType, IdleType DEF Locally, Kind
<1>2. /\ calls' \in Seq(Call) /\ queue' \in [Procs -> Seq(Nat)]
      /\ \A q \in Procs : \A j \in DOMAIN queue'[q] : queue'[q][j] \in DOMAIN calls'
  BY <1>1, EnqueueType DEF Enqueued
<1>3. Written(Len(calls) + 1, change) \in Value
  BY <1>1, EnqueueType, WrittenType DEF Enqueued
<1>4. /\ cache' \in [Procs -> [Keys -> Value]]
      /\ version' \in [Procs -> [Keys -> Nat]]
      /\ stale' \in [Procs -> SUBSET Keys]
  BY <1>3 DEF Locally, TypeOK
<1> QED
  BY <1>2, <1>4 DEF Locally, TypeOK

LEMMA DurablyType ==
    ASSUME TypeOK, NEW p \in Procs, NEW kind \in Kind, NEW changes \in Changes,
           NEW seen \in [Keys -> Nat], Durably(p, kind, changes, seen)
    PROVE  TypeOK'
<1> DEFINE c == NewCall(p, kind, changes, seen)
<1>1. c \in Call /\ Enqueue(p, c)
  BY NewCallType DEF Durably
<1>2. /\ calls' \in Seq(Call) /\ queue' \in [Procs -> Seq(Nat)]
      /\ \A q \in Procs : \A j \in DOMAIN queue'[q] : queue'[q][j] \in DOMAIN calls'
  BY <1>1, EnqueueType DEF Enqueued
<1> QED
  BY <1>2 DEF Durably, TypeOK, history

\* The ways a call is made.
LEMMA CallersCalls ==
    ASSUME TypeOK, NEW p \in Procs, Callers(p)
    PROVE  \/ \E k \in Keys, kind \in Local, change \in {"put", "drop"} :
                 Locally(p, k, kind, change)
           \/ \E kind \in Kind \ Local, changes \in Changes, seen \in [Keys -> Nat] :
                 /\ Durably(p, kind, changes, seen)
                 /\ kind = "deleteDurable" => \E k \in Keys : DOMAIN changes = {k}
                 /\ kind = "setDurable" => \A k \in DOMAIN changes : seen[k] = version[p][k]
           \/ \E C \in Refreshes : RefreshCall(p, C)
<1>1. ASSUME NEW k \in Keys, SetLocal(p, k) \/ DeleteLocal(p, k)
      PROVE  \E kind \in Local, change \in {"put", "drop"} : Locally(p, k, kind, change)
  BY <1>1 DEF SetLocal, DeleteLocal, Local
<1>2. ASSUME NEW k \in Keys, SetDurable(p, k)
      PROVE  \E changes \in Changes, seen \in [Keys -> Nat] :
                 /\ Durably(p, "setDurable", changes, seen)
                 /\ \A l \in DOMAIN changes : seen[l] = version[p][l]
  <2> DEFINE changes == [x \in {k} |-> "put"]
             seen == [Unseen EXCEPT ![k] = version[p][k]]
  <2>1. Durably(p, "setDurable", changes, seen)
    BY <1>2 DEF SetDurable
  <2>2. changes \in Changes /\ DOMAIN changes = {k}
    BY OneChange DEF Change
  <2>3. seen \in [Keys -> Nat] /\ seen[k] = version[p][k]
    BY IdleType DEF TypeOK
  <2> QED
    BY <2>1, <2>2, <2>3
<1>3. ASSUME NEW k \in Keys, DeleteDurable(p, k)
      PROVE  \E changes \in Changes, seen \in [Keys -> Nat] :
                 /\ Durably(p, "deleteDurable", changes, seen)
                 /\ DOMAIN changes = {k}
  <2> DEFINE changes == [x \in {k} |-> "drop"]
  <2>1. Durably(p, "deleteDurable", changes, Unseen)
    BY <1>3 DEF DeleteDurable
  <2>2. changes \in Changes /\ DOMAIN changes = {k}
    BY OneChange DEF Change
  <2> QED
    BY <2>1, <2>2, IdleType
<1>4. ASSUME NEW changes \in Batches, ApplyDurableBatch(p, changes)
      PROVE  changes \in Changes /\ Durably(p, "batch", changes, Unseen)
  BY <1>4, StoreConstantsOK DEF ApplyDurableBatch
<1>5. /\ "setDurable" \in Kind \ Local /\ "deleteDurable" \in Kind \ Local
      /\ "batch" \in Kind \ Local
  BY DEF Kind, Local
<1>6. ASSUME NEW k \in Keys, SetLocal(p, k) \/ DeleteLocal(p, k)
      PROVE  \E l \in Keys, kind \in Local, change \in {"put", "drop"} :
                 Locally(p, l, kind, change)
  BY <1>1, <1>6
<1> DEFINE Called(kind, changes, seen) ==
              /\ Durably(p, kind, changes, seen)
              /\ kind = "deleteDurable" => \E k \in Keys : DOMAIN changes = {k}
              /\ kind = "setDurable" => \A k \in DOMAIN changes : seen[k] = version[p][k]
<1>7. ASSUME NEW k \in Keys, SetDurable(p, k)
      PROVE  \E kind \in Kind \ Local, changes \in Changes, seen \in [Keys -> Nat] :
                 Called(kind, changes, seen)
  <2>1. PICK changes \in Changes, seen \in [Keys -> Nat] :
            /\ Durably(p, "setDurable", changes, seen)
            /\ \A l \in DOMAIN changes : seen[l] = version[p][l]
    BY <1>2, <1>7
  <2>2. Called("setDurable", changes, seen)
    BY <2>1
  <2> HIDE DEF Called
  <2> QED
    BY <1>5, <2>2
<1>8. ASSUME NEW k \in Keys, DeleteDurable(p, k)
      PROVE  \E kind \in Kind \ Local, changes \in Changes, seen \in [Keys -> Nat] :
                 Called(kind, changes, seen)
  <2>1. PICK changes \in Changes, seen \in [Keys -> Nat] :
            Durably(p, "deleteDurable", changes, seen) /\ DOMAIN changes = {k}
    BY <1>3, <1>8
  <2>2. Called("deleteDurable", changes, seen)
    BY <2>1
  <2> HIDE DEF Called
  <2> QED
    BY <1>5, <2>2
<1>9. ASSUME NEW changes \in Batches, ApplyDurableBatch(p, changes)
      PROVE  \E kind \in Kind \ Local, ch \in Changes, seen \in [Keys -> Nat] :
                 Called(kind, ch, seen)
  <2>1. changes \in Changes /\ Called("batch", changes, Unseen)
    BY <1>4, <1>9
  <2> HIDE DEF Called
  <2> QED
    BY <1>5, <2>1, IdleType
<1> QED
  BY <1>6, <1>7, <1>8, <1>9 DEF Callers

LEMMA WriteTurnType ==
    ASSUME TypeOK, NEW p \in Procs, WriteTurn(p)
    PROVE  /\ TypeOK' /\ DOMAIN calls' = DOMAIN calls
           /\ \A n \in DOMAIN calls :
                 \/ calls'[n] = calls[n]
                 \/ /\ n = queue[p][1] /\ calls[n].kind = "batch"
                    /\ \E seen \in [Keys -> Nat] :
                          /\ \A k \in DOMAIN calls[n].changes : seen[k] = version[p][k]
                          /\ calls'[n] = [calls[n] EXCEPT !.seen = seen]
<1>1. queue[p] # <<>>
  BY DEF WriteTurn, AtStage
<1> DEFINE n == queue[p][1]
           seen == [k \in Keys |-> IF k \in DOMAIN calls[n].changes THEN version[p][k] ELSE 0]
<1>2. n \in DOMAIN calls /\ Head(queue[p]) = n /\ calls[n] \in Call
  BY <1>1, HeadIsFirst DEF At, HeadFirst
<1>3. calls' = IF calls[n].kind = "batch" THEN [calls EXCEPT ![n].seen = seen] ELSE calls
  BY <1>2 DEF WriteTurn, HeadCall
<1>4. /\ seen \in [Keys -> Nat]
      /\ \A k \in DOMAIN calls[n].changes : seen[k] = version[p][k]
  <2>1. DOMAIN calls[n].changes \subseteq Keys
    BY <1>2, ChangesType DEF Call
  <2> QED
    BY <2>1 DEF TypeOK
<1> HIDE DEF n, seen
<1>5. /\ calls' \in Seq(Call) /\ DOMAIN calls' = DOMAIN calls
      /\ \A m \in DOMAIN calls :
            \/ calls'[m] = calls[m]
            \/ /\ m = n /\ calls[m].kind = "batch"
               /\ calls'[m] = [calls[m] EXCEPT !.seen = seen]
  <2>1. [calls[n] EXCEPT !.seen = seen] \in Call
    BY <1>2, <1>4 DEF Call
  <2> QED
    <3>1. CASE calls[n].kind = "batch"
      <4>1. calls' = [calls EXCEPT ![n] = [calls[n] EXCEPT !.seen = seen]]
        BY <1>2, <1>3, <3>1 DEF TypeOK
      <4> QED
        <5> DEFINE d == [calls[n] EXCEPT !.seen = seen]
        <5>1. d \in Call /\ calls' = [calls EXCEPT ![n] = d]
          BY <2>1, <4>1
        <5> HIDE DEF d
        <5>2. /\ calls' \in Seq(Call) /\ DOMAIN calls' = DOMAIN calls
              /\ calls'[n] = d /\ \A m \in DOMAIN calls : m # n => calls'[m] = calls[m]
          BY <1>2, <5>1 DEF TypeOK
        <5> QED
          BY <3>1, <5>2 DEF d
    <3>2. CASE calls[n].kind # "batch"
      BY <1>3, <3>2 DEF TypeOK
    <3> QED
      BY <3>1, <3>2
<1>6. TypeOK'
  BY <1>5 DEF WriteTurn, TypeOK, history
<1> QED
  BY <1>4, <1>5, <1>6 DEF n

LEMMA SettleKeepsType ==
    ASSUME TypeOK, NEW p \in Procs, queue[p] # <<>>, Settle(p),
           rows' = rows, mode' = mode, version' = version, connected' = connected,
           past' = past, cache' \in [Procs -> [Keys -> Value]],
           stale' \in [Procs -> SUBSET Keys]
    PROVE  TypeOK'
BY SettleType DEF TypeOK, Settled

LEMMA HeadKeys ==
    ASSUME TypeOK, NEW p \in Procs, queue[p] # <<>>
    PROVE  /\ DOMAIN HeadCall(p).changes \subseteq Keys
           /\ HeadCall(p).changes \in Changes /\ HeadCall(p).kind \in Kind
           /\ DOMAIN At(p, 1).changes \subseteq Keys
BY HeadIsFirst, ChangesType DEF Call, HeadFirst

LEMMA WriteFailedType ==
    ASSUME TypeOK, NEW p \in Procs, queue[p] # <<>>, WriteFailed(p)
    PROVE  TypeOK'
<1>1. Lost(p) \subseteq Keys
  BY HeadKeys DEF Lost
<1> QED
  BY <1>1, SettleKeepsType DEF WriteFailed, TypeOK

LEMMA CommitType ==
    ASSUME TypeOK, NEW p \in Procs, Commit(p)
    PROVE  TypeOK'
<1>1. queue[p] # <<>>
  BY DEF Commit, AtStage
<1> DEFINE n == Head(queue[p])
           changes == HeadCall(p).changes
<1>2. n \in Nat /\ DOMAIN changes \subseteq Keys
  BY <1>1, HeadIsFirst, HeadKeys DEF HeadFirst
<1>3. rows' \in [Keys -> Value]
  <2>1. \A k \in Keys : Written(n, changes[k]) \in Value
    BY <1>2, WrittenType
  <2> QED
    BY <2>1 DEF Commit, Applied, TypeOK
<1>4. past' \in [Keys -> SUBSET Value]
  BY <1>3 DEF Commit, TypeOK
<1>5. stale' \in [Procs -> SUBSET Keys]
  <2>1. \A q \in Procs : Outdates(q, p, DOMAIN changes) \subseteq Keys
    BY <1>2 DEF Outdates
  <2> QED
    BY <2>1 DEF Commit, TypeOK
<1>6. stage' \in [Procs -> {"queued", "sent", "applied"}]
  BY DEF Commit, TypeOK
<1> QED
  BY <1>3, <1>4, <1>5, <1>6 DEF Commit, TypeOK

LEMMA AcknowledgeType ==
    ASSUME TypeOK, NEW p \in Procs, Acknowledge(p)
    PROVE  TypeOK' /\ Published(p, Head(queue[p])) \in [Keys -> Value]
<1>1. queue[p] # <<>>
  BY DEF Acknowledge, AtStage
<1> DEFINE n == Head(queue[p])
<1>2. n \in Nat
  BY <1>1, HeadIsFirst DEF HeadFirst
<1>3. Published(p, n) \in [Keys -> Value]
  <2>1. \A change : Written(n, change) \in Value
    BY <1>2, WrittenType
  <2> QED
    BY <2>1 DEF Published, TypeOK
<1>4. cache' \in [Procs -> [Keys -> Value]]
  BY <1>3 DEF Acknowledge, TypeOK
<1> QED
  BY <1>1, <1>3, <1>4, SettleKeepsType DEF Acknowledge, TypeOK, history

LEMMA RefreshType ==
    ASSUME TypeOK, NEW p \in Procs,
           \/ \E C \in Refreshes : RefreshCall(p, C)
           \/ RefreshSelect(p) \/ RefreshRefused(p) \/ RefreshFault(p)
    PROVE  TypeOK'
<1>1. ASSUME NEW C \in Refreshes, RefreshCall(p, C) PROVE TypeOK'
  <2>1. [Idle EXCEPT !.phase = "waiting", !.of = C, !.behind = Len(queue[p])] \in Refresh
    <3>1. Len(queue[p]) \in Nat /\ C \in SUBSET Collections
      BY StoreConstantsOK DEF TypeOK
    <3>2. Idle \in Refresh
      BY IdleType
    <3> QED
      BY <3>1, <3>2 DEF Refresh
  <2> QED
    BY <1>1, <2>1 DEF RefreshCall, TypeOK, history
<1>2. CASE RefreshSelect(p)
  <2> DEFINE snap == [k \in Keys |-> IF k \in KeysOf(refresh[p].of) THEN rows[k] ELSE Absent]
  <2>1. snap \in [Keys -> Value]
    BY DEF TypeOK, Value
  <2>2. refresh' = [refresh EXCEPT ![p] = [refresh[p] EXCEPT !.phase = "read", !.snap = snap]]
    BY <1>2 DEF RefreshSelect, TypeOK
  <2> HIDE DEF snap
  <2>3. refresh' \in [Procs -> Refresh]
    BY <2>1, <2>2 DEF TypeOK, Refresh
  <2>4. stale' \in [Procs -> SUBSET Keys]
    BY <1>2 DEF RefreshSelect, TypeOK
  <2> QED
    BY <1>2, <2>3, <2>4 DEF RefreshSelect, TypeOK
<1>3. CASE RefreshRefused(p)
  BY <1>3, IdleType DEF RefreshRefused, TypeOK, history
<1>4. CASE RefreshFault(p)
  BY <1>4, IdleType DEF RefreshFault, TypeOK, KeysOf
<1> QED
  BY <1>1, <1>2, <1>3, <1>4

\* What loadCache does to the calls: a durable delete in flight on a key of a
\* reloaded collection is no longer live.
LEMMA RefreshPublishType ==
    ASSUME TypeOK, NEW p \in Procs, RefreshPublish(p)
    PROVE  /\ TypeOK' /\ DOMAIN calls' = DOMAIN calls
           /\ \A n \in DOMAIN calls :
                 calls'[n] =
                    IF /\ calls[n].proc = p /\ calls[n].fate = "pending"
                       /\ calls[n].kind = "deleteDurable"
                       /\ DOMAIN calls[n].changes \subseteq KeysOf(refresh[p].of)
                    THEN [calls[n] EXCEPT !.live = FALSE]
                    ELSE calls[n]
<1> DEFINE loaded == KeysOf(refresh[p].of)
           dead(n) == /\ calls[n].proc = p /\ calls[n].fate = "pending"
                      /\ calls[n].kind = "deleteDurable"
                      /\ DOMAIN calls[n].changes \subseteq loaded
<1>1. calls' = [n \in DOMAIN calls |-> IF dead(n) THEN [calls[n] EXCEPT !.live = FALSE]
                                       ELSE calls[n]]
  BY DEF RefreshPublish
<1>2. ASSUME NEW n \in DOMAIN calls PROVE [calls[n] EXCEPT !.live = FALSE] \in Call
  <2>1. calls[n] \in Call
    BY DEF TypeOK
  <2> QED
    BY <2>1 DEF Call
<1> HIDE DEF dead
<1>3. calls' \in Seq(Call) /\ DOMAIN calls' = DOMAIN calls
  <2>1. calls' \in [1..Len(calls) -> Call]
    BY <1>1, <1>2 DEF TypeOK
  <2> QED
    BY <1>1, <2>1 DEF TypeOK
<1>4. cache' \in [Procs -> [Keys -> Value]]
  <2>1. refresh[p].snap \in [Keys -> Value]
    BY DEF TypeOK, Refresh
  <2> QED
    BY <2>1 DEF RefreshPublish, TypeOK
<1>5. stale' \in [Procs -> SUBSET Keys]
  BY DEF RefreshPublish, TypeOK, KeysOf
<1>6. TypeOK'
  BY <1>3, <1>4, <1>5, IdleType DEF RefreshPublish, TypeOK
<1> QED
  BY <1>1, <1>3, <1>6 DEF dead

LEMMA DownType ==
    ASSUME TypeOK, NEW p \in Procs, NEW fate \in Fate, Down(p, fate)
    PROVE  /\ TypeOK' /\ DOMAIN calls' = DOMAIN calls
           /\ \A n \in DOMAIN calls :
                 calls'[n] = IF calls[n].proc = p /\ calls[n].fate = "pending"
                             THEN Ended(calls[n], fate) ELSE calls[n]
<1>1. calls' = [n \in DOMAIN calls |-> IF calls[n].proc = p /\ calls[n].fate = "pending"
                                       THEN Ended(calls[n], fate) ELSE calls[n]]
  BY DEF Down
<1>2. ASSUME NEW n \in DOMAIN calls PROVE Ended(calls[n], fate) \in Call
  BY EndedType DEF TypeOK
<1>3. calls' \in Seq(Call) /\ DOMAIN calls' = DOMAIN calls
  <2>1. calls' \in [1..Len(calls) -> Call]
    BY <1>1, <1>2 DEF TypeOK
  <2> QED
    BY <1>1, <2>1 DEF TypeOK
<1>4. /\ mode' \in [Procs -> {"down", "up", "closing"}]
      /\ cache' \in [Procs -> [Keys -> Value]]
      /\ version' \in [Procs -> [Keys -> Nat]]
      /\ queue' \in [Procs -> Seq(Nat)]
      /\ \A q \in Procs : \A j \in DOMAIN queue'[q] : queue'[q][j] \in DOMAIN calls'
      /\ stage' \in [Procs -> {"queued", "sent", "applied"}]
      /\ connected' \in [Procs -> BOOLEAN]
      /\ refresh' \in [Procs -> Refresh]
      /\ awaited' \in [Procs -> Nat]
  BY <1>3, IdleType DEF Down, TypeOK
<1> QED
  BY <1>1, <1>3, <1>4 DEF Down, TypeOK, history

LEMMA ProcessType ==
    ASSUME TypeOK, NEW p \in Procs, ProbeAnswer(p) \/ Boot(p) \/ CloseBegin(p)
    PROVE  TypeOK'
<1>1. CASE ProbeAnswer(p)
  BY <1>1, StoreConstantsOK DEF ProbeAnswer, TypeOK, history
<1>2. CASE Boot(p)
  BY <1>2 DEF Boot, TypeOK
<1>3. CASE CloseBegin(p)
  BY <1>3 DEF CloseBegin, ToFlush, TypeOK, history
<1> QED
  BY <1>1, <1>2, <1>3

-----------------------------------------------------------------------------
(***************************************************************************)
(* Queues                                                                  *)
(***************************************************************************)

QueueInv == TypeOK /\ QueuesSound /\ PendingQueued /\ CloseWaits /\ CallsSound

LEMMA InitQueues == Init => QueueInv
<1> SUFFICES ASSUME Init PROVE QueueInv
  OBVIOUS
<1>1. TypeOK
  BY InitType
<1>2. QueuesSound /\ PendingQueued /\ CloseWaits /\ CallsSound
  BY DEF Init, QueuesSound, PendingQueued, CloseWaits, CallsSound
<1> QED
  BY <1>1, <1>2 DEF QueueInv

\* What the queues depend on of a call stays when nothing is called or settled.
LEMMA QueuesKept ==
    ASSUME QueueInv, TypeOK', DOMAIN calls' = DOMAIN calls, queue' = queue,
           \A n \in DOMAIN calls :
              /\ calls'[n].proc = calls[n].proc /\ calls'[n].kind = calls[n].kind
              /\ calls'[n].changes = calls[n].changes /\ calls'[n].fate = calls[n].fate
              /\ calls'[n].late = calls[n].late,
           \A p \in Procs :
              /\ stage'[p] = stage[p] \/ queue[p] # <<>>
              /\ mode'[p] = "down" => mode[p] = "down" /\ refresh'[p] = refresh[p]
              /\ mode'[p] = "closing" =>
                    \/ mode[p] = "closing" /\ awaited'[p] = awaited[p]
                    \/ awaited'[p] = Len(queue[p])
    PROVE  QueueInv'
<1>1. QueuesSound'
  BY DEF QueueInv, QueuesSound, At
<1>2. PendingQueued'
  BY DEF QueueInv, PendingQueued
<1>3. CloseWaits'
  <2> SUFFICES ASSUME NEW p \in Procs, mode'[p] = "closing",
                      NEW j \in DOMAIN queue[p], ~calls'[queue[p][j]].late
               PROVE  j <= awaited'[p]
    BY DEF CloseWaits, At
  <2>1. ~At(p, j).late /\ j \in 1..Len(queue[p])
    BY DEF QueueInv, QueuesSound, TypeOK, At
  <2> QED
    BY <2>1 DEF QueueInv, CloseWaits
<1>4. CallsSound'
  BY DEF QueueInv, CallsSound
<1> QED
  BY <1>1, <1>2, <1>3, <1>4 DEF QueueInv

\* Where the calls of the queues are once c is called on p.
LEMMA EnqueuePositions ==
    ASSUME QueueInv, NEW p \in Procs, NEW c \in Call, Enqueue(p, c)
    PROVE  /\ \A r \in Procs \ {p} : queue'[r] = queue[r]
           /\ \A r \in Procs : \A j \in DOMAIN queue[r] :
                 /\ j \in DOMAIN queue'[r] /\ queue'[r][j] = queue[r][j]
                 /\ queue[r][j] \in DOMAIN calls
                 /\ At(r, j)' = At(r, j) /\ At(r, j) \in Call
           /\ Len(queue[p]) + 1 \in DOMAIN queue'[p]
           /\ queue'[p][Len(queue[p]) + 1] = Len(calls) + 1
           /\ \A j \in DOMAIN queue'[p] :
                 j \in DOMAIN queue[p] \/ (j = Len(queue[p]) + 1 /\ At(p, j)' = c)
           /\ Len(queue[p]) \in Nat /\ \A j \in DOMAIN queue[p] : j \in Nat /\ j <= Len(queue[p])
<1>1. Enqueued(p, c) /\ TypeOK
  BY EnqueueType DEF QueueInv
<1>2. ASSUME NEW r \in Procs, NEW j \in DOMAIN queue[r]
      PROVE  /\ j \in DOMAIN queue'[r] /\ queue'[r][j] = queue[r][j]
             /\ queue[r][j] \in DOMAIN calls
             /\ At(r, j)' = At(r, j) /\ At(r, j) \in Call
  <2>1. queue[r][j] \in DOMAIN calls /\ calls[queue[r][j]] \in Call
    BY <1>1, <1>2 DEF TypeOK
  <2>2. j \in DOMAIN queue'[r] /\ queue'[r][j] = queue[r][j]
    BY <1>1, <1>2 DEF Enqueued
  <2>3. calls'[queue[r][j]] = calls[queue[r][j]]
    BY <1>1, <2>1 DEF Enqueued
  <2> QED
    BY <2>1, <2>2, <2>3 DEF At
<1>3. /\ \A r \in Procs \ {p} : queue'[r] = queue[r]
      /\ Len(queue[p]) + 1 \in DOMAIN queue'[p]
      /\ queue'[p][Len(queue[p]) + 1] = Len(calls) + 1
      /\ \A j \in DOMAIN queue'[p] : j \in DOMAIN queue[p] \/ j = Len(queue[p]) + 1
  BY <1>1 DEF Enqueued
<1>4. ASSUME NEW j, j = Len(queue[p]) + 1 PROVE At(p, j)' = c
  <2>1. calls'[Len(calls) + 1] = c
    BY <1>1 DEF Enqueued
  <2> QED
    BY <1>3, <1>4, <2>1 DEF At
<1>5. Len(queue[p]) \in Nat /\ \A j \in DOMAIN queue[p] : j \in Nat /\ j <= Len(queue[p])
  BY <1>1 DEF TypeOK
<1>6. \A j \in DOMAIN queue'[p] :
         j \in DOMAIN queue[p] \/ (j = Len(queue[p]) + 1 /\ At(p, j)' = c)
  <2> TAKE j \in DOMAIN queue'[p]
  <2>1. j \in DOMAIN queue[p] \/ j = Len(queue[p]) + 1
    BY <1>3
  <2>2. CASE j = Len(queue[p]) + 1
    BY <1>4, <2>2
  <2> QED
    BY <2>1, <2>2
<1> QED
  BY <1>2, <1>3, <1>5, <1>6

\* Where they are once the write at the head of the queue of p is settled.
LEMMA SettlePositions ==
    ASSUME QueueInv, NEW p \in Procs, queue[p] # <<>>, Settle(p)
    PROVE  /\ \A r \in Procs \ {p} : queue'[r] = queue[r]
           /\ \A r \in Procs \ {p} : \A j \in DOMAIN queue[r] : At(r, j)' = At(r, j)
           /\ \A j \in DOMAIN queue'[p] :
                 /\ j \in Nat /\ j > 0 /\ j + 1 \in DOMAIN queue[p]
                 /\ queue'[p][j] = queue[p][j + 1] /\ At(p, j)' = At(p, j + 1)
           /\ \A j \in DOMAIN queue[p] :
                 /\ j \in Nat /\ j > 0
                 /\ j # 1 => /\ j - 1 \in DOMAIN queue'[p] /\ queue'[p][j - 1] = queue[p][j]
                             /\ At(p, j - 1)' = At(p, j)
           /\ \A r \in Procs : \A j \in DOMAIN queue[r] : At(r, j) \in Call
           /\ \A n \in DOMAIN calls : n # queue[p][1] => calls'[n] = calls[n]
           /\ \A n \in DOMAIN calls :
                 /\ calls'[n].proc = calls[n].proc /\ calls'[n].kind = calls[n].kind
                 /\ calls'[n].changes = calls[n].changes /\ calls'[n].late = calls[n].late
                 /\ calls'[n].fate \in {calls[n].fate, "settled"}
           /\ calls'[queue[p][1]].fate = "settled"
<1>1. Settled(p) /\ HeadFirst(p) /\ TypeOK /\ QueuesSound
  BY SettleType, HeadIsFirst DEF QueueInv
<1>2. \A r \in Procs : \A j \in DOMAIN queue[r] :
         queue[r][j] \in DOMAIN calls /\ At(r, j) \in Call /\ j \in Nat /\ j > 0
  BY <1>1 DEF TypeOK, At
<1>3. \A n \in DOMAIN calls : n # queue[p][1] => calls'[n] = calls[n]
  BY <1>1 DEF Settled
<1>4. \A r \in Procs \ {p} : queue'[r] = queue[r]
  BY <1>1 DEF Settled
<1>5. ASSUME NEW r \in Procs \ {p}, NEW j \in DOMAIN queue[r]
      PROVE  At(r, j)' = At(r, j)
  <2>1. At(r, j).proc = r /\ At(p, 1).proc = p
    BY <1>1, <1>5 DEF QueuesSound, HeadFirst
  <2>2. queue[r][j] # queue[p][1]
    BY <2>1 DEF At
  <2> QED
    BY <1>2, <1>3, <1>4, <2>2 DEF At
<1>6. ASSUME NEW j \in DOMAIN queue'[p]
      PROVE  /\ j \in Nat /\ j > 0 /\ j + 1 \in DOMAIN queue[p]
             /\ queue'[p][j] = queue[p][j + 1] /\ At(p, j)' = At(p, j + 1)
  <2>1. j \in DOMAIN Tail(queue[p])
    BY <1>1, <1>6 DEF Settled
  <2>2. /\ j \in Nat /\ j + 1 \in DOMAIN queue[p]
        /\ queue'[p][j] = queue[p][j + 1] /\ 1 \in DOMAIN queue[p]
    BY <1>1, <2>1 DEF Settled, HeadFirst
  <2>3. j > 0
    BY <1>1, <2>1 DEF HeadFirst
  <2>4. queue[p][j + 1] # queue[p][1]
    <3>1. j + 1 # 1
      BY <2>2, <2>3
    <3> QED
      BY <1>1, <2>2, <3>1 DEF QueuesSound
  <2>5. queue[p][j + 1] \in DOMAIN calls
    BY <1>2, <2>2
  <2>6. calls'[queue[p][j + 1]] = calls[queue[p][j + 1]]
    BY <1>3, <2>4, <2>5
  <2> QED
    BY <2>2, <2>3, <2>6 DEF At
<1>7. ASSUME NEW j \in DOMAIN queue[p], j # 1
      PROVE  /\ j - 1 \in DOMAIN queue'[p] /\ queue'[p][j - 1] = queue[p][j]
             /\ At(p, j - 1)' = At(p, j)
  <2>1. j - 1 \in DOMAIN queue'[p] /\ queue'[p][j - 1] = queue[p][j]
    BY <1>1, <1>7 DEF Settled, HeadFirst
  <2>2. At(p, j - 1)' = At(p, (j - 1) + 1) /\ j \in Nat
    BY <1>2, <1>6, <2>1
  <2>3. (j - 1) + 1 = j
    BY <2>2
  <2> QED
    BY <2>1, <2>2, <2>3
<1>8. /\ \A n \in DOMAIN calls :
           /\ calls'[n].proc = calls[n].proc /\ calls'[n].kind = calls[n].kind
           /\ calls'[n].changes = calls[n].changes /\ calls'[n].late = calls[n].late
           /\ calls'[n].fate \in {calls[n].fate, "settled"}
      /\ calls'[queue[p][1]].fate = "settled"
  <2>1. calls'[queue[p][1]] = Ended(calls[queue[p][1]], "settled")
    BY <1>1 DEF Settled
  <2>2. calls[queue[p][1]] \in Call
    BY <1>1 DEF HeadFirst, At
  <2>3. LET e == calls'[queue[p][1]] c == calls[queue[p][1]] IN
           /\ e.proc = c.proc /\ e.kind = c.kind /\ e.changes = c.changes
           /\ e.late = c.late /\ e.fate = "settled"
    BY <2>1, <2>2, EndedFields
  <2> QED
    BY <1>3, <2>3
<1> QED
  BY <1>2, <1>3, <1>4, <1>5, <1>6, <1>7, <1>8

LEMMA EnqueueQueues ==
    ASSUME QueueInv, TypeOK', NEW p \in Procs, NEW c \in Call, Enqueue(p, c),
           c.proc = p, c.fate = "pending", c.late = (mode[p] = "closing"),
           c.kind \in Local => \A k \in DOMAIN c.changes : c.changes[k] \in {"put", "drop"},
           c.kind = "deleteDurable" => \A k, l \in DOMAIN c.changes : k = l,
           mode[p] # "down",
           UNCHANGED <<mode, stage, refresh, awaited>>
    PROVE  QueueInv'
<1> DEFINE m == Len(calls) + 1
           q == Len(queue[p]) + 1
<1>1. /\ m \notin DOMAIN calls /\ DOMAIN calls' = DOMAIN calls \cup {m}
      /\ calls'[m] = c /\ \A n \in DOMAIN calls : calls'[n] = calls[n]
  BY EnqueueType DEF QueueInv, Enqueued
<1>2. /\ \A r \in Procs \ {p} : queue'[r] = queue[r]
      /\ \A r \in Procs : \A j \in DOMAIN queue[r] :
            /\ j \in DOMAIN queue'[r] /\ queue'[r][j] = queue[r][j]
            /\ queue[r][j] \in DOMAIN calls /\ At(r, j)' = At(r, j)
      /\ q \in DOMAIN queue'[p] /\ queue'[p][q] = m
      /\ \A j \in DOMAIN queue'[p] : j \in DOMAIN queue[p] \/ (j = q /\ At(p, j)' = c)
  BY EnqueuePositions
<1>3. QueuesSound /\ PendingQueued /\ CloseWaits /\ CallsSound
  BY DEF QueueInv
<1> HIDE DEF m, q
<1>4. QueuesSound'
  <2>1. ASSUME NEW r \in Procs, NEW j \in DOMAIN queue'[r]
        PROVE  /\ queue'[r][j] \in DOMAIN calls'
               /\ At(r, j)'.proc = r /\ At(r, j)'.fate = "pending"
    <3>1. CASE j \in DOMAIN queue[r]
      BY <1>1, <1>2, <1>3, <3>1 DEF QueuesSound
    <3>2. CASE r = p /\ j = q /\ At(r, j)' = c
      <4>1. queue'[r][j] = m /\ m \in DOMAIN calls'
        BY <1>1, <1>2, <3>2
      <4>2. At(r, j)' = c
        BY <3>2
      <4> QED
        BY <4>1, <4>2, <3>2
    <3> QED
      <4>1. r # p => j \in DOMAIN queue[r]
        BY <1>2, <2>1
      <4>2. r = p => j \in DOMAIN queue[r] \/ (j = q /\ At(r, j)' = c)
        BY <1>2, <2>1
      <4> QED
        BY <4>1, <4>2, <3>1, <3>2
  <2>2. ASSUME NEW r \in Procs, NEW i \in DOMAIN queue'[r], NEW j \in DOMAIN queue'[r],
               queue'[r][i] = queue'[r][j]
        PROVE  i = j
    <3>1. CASE i \in DOMAIN queue[r] /\ j \in DOMAIN queue[r]
      BY <1>2, <1>3, <2>2, <3>1 DEF QueuesSound
    <3>2. CASE i = q /\ j = q
      BY <3>2
    <3>3. CASE r = p /\ ((i = q /\ j \in DOMAIN queue[p]) \/ (j = q /\ i \in DOMAIN queue[p]))
      BY <1>1, <1>2, <2>2, <3>3
    <3>4. r # p => i \in DOMAIN queue[r] /\ j \in DOMAIN queue[r]
      BY <1>2, <2>2
    <3>5. r = p => /\ i \in DOMAIN queue[r] \/ i = q
                   /\ j \in DOMAIN queue[r] \/ j = q
      BY <1>2, <2>2
    <3>6. CASE r # p
      BY <3>1, <3>4, <3>6
    <3>7. CASE r = p
      <4>1. CASE i \in DOMAIN queue[r]
        BY <3>1, <3>3, <3>5, <3>7, <4>1
      <4>2. CASE i = q
        <5>1. CASE j = q
          BY <4>2, <5>1
        <5>2. CASE j \in DOMAIN queue[p]
          BY <3>3, <3>7, <4>2, <5>2
        <5> QED
          BY <3>5, <3>7, <5>1, <5>2
      <4> QED
        BY <3>5, <3>7, <4>1, <4>2
    <3> QED
      BY <3>6, <3>7
  <2>3. ASSUME NEW r \in Procs
        PROVE  /\ queue'[r] = <<>> => stage'[r] = "queued"
               /\ mode'[r] = "down" => queue'[r] = <<>> /\ refresh'[r] = Idle
    <3>1. queue'[p] # <<>>
      BY <1>2
    <3> QED
      BY <1>2, <1>3, <3>1 DEF QueuesSound
  <2> QED
    BY <2>1, <2>2, <2>3 DEF QueuesSound
<1>5. PendingQueued'
  <2> SUFFICES ASSUME NEW n \in DOMAIN calls', calls'[n].fate = "pending"
               PROVE  \E j \in DOMAIN queue'[calls'[n].proc] : queue'[calls'[n].proc][j] = n
    BY DEF PendingQueued
  <2>1. CASE n = m
    BY <1>1, <1>2, <2>1
  <2>2. CASE n \in DOMAIN calls
    <3>1. calls'[n] = calls[n] /\ calls[n].proc \in Procs
      <4>1. calls[n] \in Call
        BY <2>2 DEF QueueInv, TypeOK
      <4> QED
        BY <1>1, <2>2, <4>1 DEF Call
    <3>2. PICK j \in DOMAIN queue[calls[n].proc] : queue[calls[n].proc][j] = n
      BY <1>3, <2>2, <3>1 DEF PendingQueued
    <3> QED
      BY <1>2, <3>1, <3>2
  <2> QED
    BY <1>1, <2>1, <2>2
<1>6. CloseWaits'
  <2> SUFFICES ASSUME NEW r \in Procs, mode[r] = "closing", NEW j \in DOMAIN queue'[r],
                      ~At(r, j)'.late
               PROVE  j <= awaited[r]
    BY DEF CloseWaits
  <2>1. ASSUME r = p PROVE At(r, j)' # c
    BY <2>1
  <2>2. j \in DOMAIN queue[r]
    <3>1. CASE r = p
      BY <1>2, <2>1, <3>1
    <3>2. CASE r # p
      BY <1>2, <3>2
    <3> QED
      BY <3>1, <3>2
  <2>3. At(r, j)' = At(r, j)
    BY <1>2, <2>2
  <2> QED
    BY <1>3, <2>2, <2>3 DEF CloseWaits
<1>7. CallsSound'
  BY <1>1, <1>3 DEF CallsSound
<1> QED
  BY <1>4, <1>5, <1>6, <1>7 DEF QueueInv

LEMMA SettleQueues ==
    ASSUME QueueInv, TypeOK', NEW p \in Procs, queue[p] # <<>>, Settle(p), mode' = mode
    PROVE  QueueInv'
<1> DEFINE n == queue[p][1]
<1>1. /\ \A r \in Procs \ {p} : queue'[r] = queue[r]
      /\ \A r \in Procs \ {p} : \A j \in DOMAIN queue[r] : At(r, j)' = At(r, j)
      /\ \A j \in DOMAIN queue'[p] :
            /\ j \in Nat /\ j > 0 /\ j + 1 \in DOMAIN queue[p]
            /\ queue'[p][j] = queue[p][j + 1] /\ At(p, j)' = At(p, j + 1)
      /\ \A j \in DOMAIN queue[p] : j # 1 =>
            j - 1 \in DOMAIN queue'[p] /\ queue'[p][j - 1] = queue[p][j]
      /\ \A m \in DOMAIN calls :
            /\ calls'[m].proc = calls[m].proc /\ calls'[m].kind = calls[m].kind
            /\ calls'[m].changes = calls[m].changes
            /\ calls'[m].fate \in {calls[m].fate, "settled"}
      /\ calls'[n].fate = "settled"
  BY SettlePositions
<1>2. /\ DOMAIN calls' = DOMAIN calls
      /\ \A r \in Procs \ {p} : /\ stage'[r] = stage[r] /\ refresh'[r] = refresh[r]
                                /\ awaited'[r] = awaited[r]
      /\ stage'[p] = "queued" /\ awaited'[p] = Fewer(awaited[p])
  BY SettleType DEF QueueInv, Settled
<1>3. QueuesSound /\ PendingQueued /\ CloseWaits /\ CallsSound /\ TypeOK
  BY DEF QueueInv
<1> HIDE DEF n
<1>4. QueuesSound'
  <2>1. ASSUME NEW r \in Procs, NEW j \in DOMAIN queue'[r]
        PROVE  /\ queue'[r][j] \in DOMAIN calls'
               /\ At(r, j)'.proc = r /\ At(r, j)'.fate = "pending"
    <3>1. CASE r = p
      BY <1>1, <1>2, <1>3, <3>1 DEF QueuesSound
    <3>2. CASE r # p
      BY <1>1, <1>2, <1>3, <3>2 DEF QueuesSound
    <3> QED
      BY <3>1, <3>2
  <2>2. ASSUME NEW r \in Procs, NEW i \in DOMAIN queue'[r], NEW j \in DOMAIN queue'[r],
               queue'[r][i] = queue'[r][j]
        PROVE  i = j
    <3>1. CASE r = p
      <4>1. i + 1 = j + 1 /\ i \in Nat /\ j \in Nat
        BY <1>1, <1>3, <2>2, <3>1 DEF QueuesSound
      <4> QED
        BY <4>1
    <3>2. CASE r # p
      BY <1>1, <1>3, <2>2, <3>2 DEF QueuesSound
    <3> QED
      BY <3>1, <3>2
  <2>3. ASSUME NEW r \in Procs
        PROVE  /\ queue'[r] = <<>> => stage'[r] = "queued"
               /\ mode'[r] = "down" => queue'[r] = <<>> /\ refresh'[r] = Idle
    <3>1. CASE r = p
      BY <1>2, <1>3, <3>1 DEF QueuesSound
    <3>2. CASE r # p
      BY <1>1, <1>2, <1>3, <3>2 DEF QueuesSound
    <3> QED
      BY <3>1, <3>2
  <2> QED
    BY <2>1, <2>2, <2>3 DEF QueuesSound
<1>5. PendingQueued'
  <2> SUFFICES ASSUME NEW m \in DOMAIN calls, calls'[m].fate = "pending"
               PROVE  \E j \in DOMAIN queue'[calls'[m].proc] : queue'[calls'[m].proc][j] = m
    BY <1>2 DEF PendingQueued
  <2>1. m # n /\ calls[m].fate = "pending"
    BY <1>1
  <2>2. calls'[m].proc = calls[m].proc /\ calls[m].proc \in Procs
    <3>1. calls[m] \in Call
      BY <1>3 DEF TypeOK
    <3> QED
      BY <1>1, <3>1 DEF Call
  <2>3. PICK j \in DOMAIN queue[calls[m].proc] : queue[calls[m].proc][j] = m
    BY <1>3, <2>1, <2>2 DEF PendingQueued
  <2>4. CASE calls[m].proc = p
    <3>1. j # 1
      BY <2>1, <2>3, <2>4 DEF n
    <3>2. j - 1 \in DOMAIN queue'[p] /\ queue'[p][j - 1] = m
      BY <1>1, <2>3, <2>4, <3>1
    <3> QED
      BY <2>2, <2>4, <3>2
  <2>5. CASE calls[m].proc # p
    BY <1>1, <2>2, <2>3, <2>5
  <2> QED
    BY <2>4, <2>5
<1>6. CloseWaits'
  <2> SUFFICES ASSUME NEW r \in Procs, mode[r] = "closing",
                      NEW j \in DOMAIN queue'[r], ~At(r, j)'.late
               PROVE  j <= awaited'[r]
    BY DEF CloseWaits
  <2>1. CASE r = p
    <3>1. j + 1 <= awaited[p] /\ j \in Nat /\ awaited[p] \in Nat
      BY <1>1, <1>3, <2>1 DEF CloseWaits, TypeOK
    <3>2. awaited'[p] = awaited[p] - 1
      BY <1>2, <3>1 DEF Fewer
    <3> QED
      BY <2>1, <3>1, <3>2
  <2>2. CASE r # p
    BY <1>1, <1>2, <1>3, <2>2 DEF CloseWaits
  <2> QED
    BY <2>1, <2>2
<1>7. CallsSound'
  BY <1>1, <1>2, <1>3 DEF CallsSound
<1> QED
  BY <1>4, <1>5, <1>6, <1>7 DEF QueueInv

LEMMA DownQueues ==
    ASSUME QueueInv, NEW p \in Procs, NEW fate \in {"settled", "cut"}, Down(p, fate)
    PROVE  QueueInv'
<1>1. /\ TypeOK' /\ DOMAIN calls' = DOMAIN calls
      /\ \A n \in DOMAIN calls :
            calls'[n] = IF calls[n].proc = p /\ calls[n].fate = "pending"
                        THEN Ended(calls[n], fate) ELSE calls[n]
  BY DownType DEF QueueInv, Fate
<1>2. ASSUME NEW n \in DOMAIN calls
      PROVE  /\ calls'[n].proc = calls[n].proc /\ calls'[n].kind = calls[n].kind
             /\ calls'[n].changes = calls[n].changes /\ calls'[n].late = calls[n].late
             /\ calls'[n].fate = IF calls[n].proc = p /\ calls[n].fate = "pending"
                                 THEN fate ELSE calls[n].fate
             /\ calls[n].proc \in Procs
  <2>1. calls[n] \in Call
    BY DEF QueueInv, TypeOK
  <2>2. LET e == Ended(calls[n], fate) IN
           /\ e.proc = calls[n].proc /\ e.kind = calls[n].kind
           /\ e.changes = calls[n].changes /\ e.late = calls[n].late /\ e.fate = fate
    BY <2>1, EndedFields
  <2>3. calls[n].proc \in Procs
    BY <2>1 DEF Call
  <2> QED
    BY <1>1, <2>2, <2>3
<1>3. /\ queue'[p] = <<>> /\ stage'[p] = "queued" /\ refresh'[p] = Idle /\ mode'[p] = "down"
      /\ \A q \in Procs \ {p} : /\ queue'[q] = queue[q] /\ stage'[q] = stage[q]
                                /\ refresh'[q] = refresh[q] /\ mode'[q] = mode[q]
                                /\ awaited'[q] = awaited[q]
  BY DEF Down, QueueInv, TypeOK
<1>4. \A q \in Procs \ {p} : \A j \in DOMAIN queue[q] :
         /\ queue[q][j] \in DOMAIN calls
         /\ At(q, j)'.proc = q /\ At(q, j)'.fate = "pending"
         /\ At(q, j)'.late = At(q, j).late
  BY <1>2, <1>3 DEF At, QueueInv, QueuesSound
<1>5. QueuesSound'
  <2>1. \A q \in Procs \ {p} : \A j \in DOMAIN queue'[q] :
            queue'[q][j] \in DOMAIN calls' /\ At(q, j)'.proc = q /\ At(q, j)'.fate = "pending"
    BY <1>1, <1>3, <1>4
  <2> QED
    BY <1>3, <2>1 DEF QueueInv, QueuesSound
<1>6. PendingQueued'
  <2> SUFFICES ASSUME NEW m \in DOMAIN calls, calls'[m].fate = "pending"
               PROVE  \E j \in DOMAIN queue'[calls'[m].proc] : queue'[calls'[m].proc][j] = m
    BY <1>1 DEF PendingQueued
  <2>1. calls[m].proc # p /\ calls[m].fate = "pending" /\ calls'[m].proc = calls[m].proc
    BY <1>2
  <2>2. calls[m].proc \in Procs \ {p}
    BY <1>2, <2>1
  <2> QED
    BY <1>3, <2>1, <2>2 DEF QueueInv, PendingQueued
<1>7. CloseWaits'
  BY <1>3, <1>4 DEF QueueInv, CloseWaits
<1>8. CallsSound'
  BY <1>1, <1>2 DEF QueueInv, CallsSound
<1> QED
  BY <1>1, <1>5, <1>6, <1>7, <1>8 DEF QueueInv

LEMMA CallsQueues ==
    ASSUME QueueInv, NEW p \in Procs, Callers(p) PROVE QueueInv'
<1>1. TypeOK
  BY DEF QueueInv
<1>2. ASSUME NEW k \in Keys, NEW kind \in Local, NEW change \in {"put", "drop"},
             Locally(p, k, kind, change)
      PROVE  QueueInv'
  <2> DEFINE c == NewCall(p, kind, [x \in {k} |-> change], Unseen)
  <2>1. TypeOK'
    BY <1>1, <1>2, LocallyType DEF Change
  <2>2. c \in Call
    BY <1>2, OneChange, NewCallType, IdleType DEF Kind, Change
  <2>3. /\ c.proc = p /\ c.fate = "pending" /\ c.late = (mode[p] = "closing")
        /\ c.kind = kind /\ c.changes = [x \in {k} |-> change]
    BY DEF NewCall
  <2>4. \A x \in DOMAIN c.changes : c.changes[x] \in {"put", "drop"} /\ x = k
    BY <2>3
  <2>5. Enqueue(p, c) /\ mode[p] # "down" /\ UNCHANGED <<mode, stage, refresh, awaited>>
    BY <1>2 DEF Locally, CanCall, Running
  <2> HIDE DEF c
  <2> QED
    BY <2>1, <2>2, <2>3, <2>4, <2>5, EnqueueQueues
<1>3. ASSUME NEW kind \in Kind \ Local, NEW changes \in Changes, NEW seen \in [Keys -> Nat],
             Durably(p, kind, changes, seen),
             kind = "deleteDurable" => \E k \in Keys : DOMAIN changes = {k}
      PROVE  QueueInv'
  <2> DEFINE c == NewCall(p, kind, changes, seen)
  <2>1. TypeOK'
    BY <1>1, <1>3, DurablyType
  <2>2. c \in Call
    BY <1>3, NewCallType
  <2>3. /\ c.proc = p /\ c.fate = "pending" /\ c.late = (mode[p] = "closing")
        /\ c.kind = kind /\ c.changes = changes
    BY DEF NewCall
  <2> HIDE DEF c
  <2>4. c.kind \notin Local
    BY <1>3, <2>3
  <2>5. c.kind = "deleteDurable" => \A k, l \in DOMAIN c.changes : k = l
    BY <1>3, <2>3
  <2>6. Enqueue(p, c) /\ mode[p] # "down" /\ UNCHANGED <<mode, stage, refresh, awaited>>
    BY <1>3 DEF Durably, CanCall, Running, c
  <2> QED
    BY <2>1, <2>2, <2>3, <2>4, <2>5, <2>6, EnqueueQueues
<1>4. ASSUME NEW C \in Refreshes, RefreshCall(p, C) PROVE QueueInv'
  <2>1. TypeOK'
    BY <1>1, <1>4, RefreshType
  <2>2. /\ UNCHANGED <<calls, queue, stage, mode, awaited>>
        /\ \A q \in Procs : q # p => refresh'[q] = refresh[q]
        /\ mode[p] # "down"
    BY <1>1, <1>4 DEF RefreshCall, Running, TypeOK
  <2> QED
    BY <2>1, <2>2, QueuesKept
<1> QED
  BY <1>1, <1>2, <1>3, <1>4, CallersCalls

LEMMA WriteQueues ==
    ASSUME QueueInv, NEW p \in Procs, WriteStep(p) \/ WriteFault(p) PROVE QueueInv'
<1>1. TypeOK
  BY DEF QueueInv
<1>2. queue[p] # <<>>
  BY DEF WriteStep, WriteFault, WriteTurn, WriteRefused, Commit, Conflict, Acknowledge, AtStage
<1>3. CASE WriteTurn(p)
  <2>1. TypeOK' /\ DOMAIN calls' = DOMAIN calls
    BY <1>1, <1>3, WriteTurnType
  <2>2. ASSUME NEW n \in DOMAIN calls
        PROVE  /\ calls'[n].proc = calls[n].proc /\ calls'[n].kind = calls[n].kind
               /\ calls'[n].changes = calls[n].changes /\ calls'[n].fate = calls[n].fate
               /\ calls'[n].late = calls[n].late
    <3>1. \/ calls'[n] = calls[n]
          \/ \E seen \in [Keys -> Nat] : calls'[n] = [calls[n] EXCEPT !.seen = seen]
      BY <1>1, <1>3, WriteTurnType
    <3>2. calls[n] \in Call
      BY <1>1 DEF TypeOK
    <3> QED
      BY <3>1, <3>2 DEF Call
  <2>3. /\ UNCHANGED <<queue, mode, refresh, awaited>>
        /\ \A q \in Procs : q # p => stage'[q] = stage[q]
    BY <1>1, <1>3 DEF WriteTurn, TypeOK
  <2> QED
    BY <1>2, <2>1, <2>2, <2>3, QueuesKept
<1>4. CASE WriteRefused(p) \/ WriteFault(p)
  <2>1. WriteFailed(p)
    BY <1>4 DEF WriteRefused, WriteFault
  <2>2. TypeOK'
    BY <1>1, <1>2, <2>1, WriteFailedType
  <2>3. Settle(p) /\ mode' = mode
    BY <2>1 DEF WriteFailed
  <2> QED
    BY <1>2, <2>2, <2>3, SettleQueues
<1>5. CASE Commit(p)
  <2>1. TypeOK'
    BY <1>1, <1>5, CommitType
  <2>2. /\ UNCHANGED <<calls, queue, mode, refresh, awaited>>
        /\ \A q \in Procs : q # p => stage'[q] = stage[q]
    BY <1>1, <1>5 DEF Commit, TypeOK
  <2> QED
    BY <1>2, <2>1, <2>2, QueuesKept
<1>6. CASE Conflict(p)
  <2>1. TypeOK' /\ Settle(p) /\ mode' = mode
    BY <1>1, <1>2, <1>6, SettleKeepsType DEF Conflict, TypeOK, history
  <2> QED
    BY <1>2, <2>1, SettleQueues
<1>7. CASE Acknowledge(p)
  <2>1. TypeOK' /\ Settle(p) /\ mode' = mode
    BY <1>1, <1>7, AcknowledgeType DEF Acknowledge
  <2> QED
    BY <1>2, <2>1, SettleQueues
<1> QED
  BY <1>3, <1>4, <1>5, <1>6, <1>7 DEF WriteStep

LEMMA RefreshQueues ==
    ASSUME QueueInv, NEW p \in Procs, RefreshStep(p) \/ RefreshFault(p) PROVE QueueInv'
<1>1. TypeOK
  BY DEF QueueInv
<1>2. mode[p] # "down" /\ mode' = mode /\ awaited' = awaited /\ queue' = queue /\ stage' = stage
  <2>1. refresh[p] # Idle
    BY DEF RefreshStep, RefreshFault, RefreshSelect, RefreshRefused, RefreshPublish,
           RefreshReady, Idle
  <2>2. mode[p] # "down"
    BY <2>1 DEF QueueInv, QueuesSound
  <2> QED
    BY <2>2 DEF RefreshStep, RefreshFault, RefreshSelect, RefreshRefused, RefreshPublish
<1>3. \A q \in Procs : q # p => refresh'[q] = refresh[q]
  BY <1>1 DEF RefreshStep, RefreshFault, RefreshSelect, RefreshRefused, RefreshPublish, TypeOK
<1>4. /\ TypeOK' /\ DOMAIN calls' = DOMAIN calls
      /\ \A n \in DOMAIN calls :
            /\ calls'[n].proc = calls[n].proc /\ calls'[n].kind = calls[n].kind
            /\ calls'[n].changes = calls[n].changes /\ calls'[n].fate = calls[n].fate
            /\ calls'[n].late = calls[n].late
  <2>1. CASE RefreshPublish(p)
    <3>1. TypeOK' /\ DOMAIN calls' = DOMAIN calls
      BY <1>1, <2>1, RefreshPublishType
    <3>2. ASSUME NEW n \in DOMAIN calls
          PROVE  /\ calls'[n].proc = calls[n].proc /\ calls'[n].kind = calls[n].kind
                 /\ calls'[n].changes = calls[n].changes /\ calls'[n].fate = calls[n].fate
                 /\ calls'[n].late = calls[n].late
      <4>1. calls'[n] = calls[n] \/ calls'[n] = [calls[n] EXCEPT !.live = FALSE]
        BY <1>1, <2>1, RefreshPublishType
      <4>2. calls[n] \in Call
        BY <1>1 DEF TypeOK
      <4> QED
        BY <4>1, <4>2 DEF Call
    <3> QED
      BY <3>1, <3>2
  <2>2. CASE RefreshSelect(p) \/ RefreshRefused(p) \/ RefreshFault(p)
    <3>1. TypeOK'
      BY <1>1, <2>2, RefreshType
    <3>2. calls' = calls
      BY <2>2 DEF RefreshFault, RefreshSelect, RefreshRefused
    <3> QED
      BY <3>1, <3>2
  <2> QED
    BY <2>1, <2>2 DEF RefreshStep
<1> QED
  BY <1>2, <1>3, <1>4, QueuesKept

LEMMA ProcessQueues ==
    ASSUME QueueInv, NEW p \in Procs,
           ProbeAnswer(p) \/ Boot(p) \/ CloseBegin(p) \/ CloseEnd(p) \/ Kill(p)
    PROVE  QueueInv'
<1>1. TypeOK
  BY DEF QueueInv
<1>2. CASE ProbeAnswer(p)
  <2>1. TypeOK'
    BY <1>1, <1>2, ProcessType
  <2>2. UNCHANGED <<calls, queue, stage, mode, refresh, awaited>>
    BY <1>2 DEF ProbeAnswer
  <2> QED
    BY <2>1, <2>2, QueuesKept
<1>3. CASE Boot(p)
  <2>1. TypeOK'
    BY <1>1, <1>3, ProcessType
  <2>2. /\ UNCHANGED <<calls, queue, stage, refresh, awaited>>
        /\ mode'[p] = "up" /\ \A q \in Procs : q # p => mode'[q] = mode[q]
    BY <1>1, <1>3 DEF Boot, TypeOK
  <2> QED
    BY <2>1, <2>2, QueuesKept
<1>4. CASE CloseBegin(p)
  <2>1. TypeOK'
    BY <1>1, <1>4, ProcessType
  <2>2. /\ UNCHANGED <<calls, queue, stage, refresh>>
        /\ mode'[p] = "closing" /\ awaited'[p] = Len(queue[p])
        /\ \A q \in Procs : q # p => mode'[q] = mode[q] /\ awaited'[q] = awaited[q]
    BY <1>1, <1>4 DEF CloseBegin, ToFlush, TypeOK
  <2> QED
    BY <2>1, <2>2, QueuesKept
<1>5. CASE CloseEnd(p)
  BY <1>5, DownQueues DEF CloseEnd
<1>6. CASE Kill(p)
  BY <1>6, DownQueues DEF Kill
<1> QED
  BY <1>2, <1>3, <1>4, <1>5, <1>6

LEMMA NextQueues == QueueInv /\ [Next]_vars => QueueInv'
<1>1. ASSUME QueueInv, Next PROVE QueueInv'
  <2>1. PICK p \in Procs : \/ Callers(p) \/ WriteStep(p) \/ WriteFault(p)
                           \/ ProbeAnswer(p) \/ RefreshStep(p) \/ RefreshFault(p)
                           \/ Boot(p) \/ CloseBegin(p) \/ CloseEnd(p) \/ Kill(p)
    BY <1>1 DEF Next
  <2> QED
    BY <1>1, <2>1, CallsQueues, WriteQueues, RefreshQueues, ProcessQueues
<1>2. ASSUME QueueInv, UNCHANGED vars PROVE QueueInv'
  <2>1. UNCHANGED <<calls, queue, stage, mode, refresh, awaited>>
    BY <1>2 DEF vars
  <2>2. TypeOK'
    BY <1>2 DEF QueueInv, TypeOK, vars, history
  <2> QED
    BY <1>2, <2>1, <2>2, QueuesKept
<1> QED
  BY <1>1, <1>2

\* Every variable keeps its type.
THEOREM StoreTypes == Spec => []TypeOK
<1>1. QueueInv => TypeOK
  BY DEF QueueInv
<1> QED
  BY <1>1, InitQueues, NextQueues, PTL DEF Spec

\* A write is cut by the end of close() only.
LEMMA NoCuts ==
    ASSUME QueueInv, NEW p \in Procs, NEW n \in DOMAIN calls',
           \/ Callers(p) \/ WriteStep(p) \/ WriteFault(p)
           \/ ProbeAnswer(p) \/ RefreshStep(p) \/ RefreshFault(p)
           \/ Boot(p) \/ CloseBegin(p) \/ Kill(p),
           calls'[n].fate = "cut"
    PROVE  n \in DOMAIN calls /\ calls[n].fate = "cut" /\ calls'[n].late = calls[n].late
<1>1. TypeOK /\ \A m \in DOMAIN calls : calls[m] \in Call
  BY DEF QueueInv, TypeOK
<1>2. CASE Callers(p)
  <2>1. ASSUME NEW c \in Call, Enqueue(p, c), c.fate = "pending"
        PROVE  n \in DOMAIN calls /\ calls'[n] = calls[n]
    <3>1. Enqueued(p, c)
      BY <1>1, <2>1, EnqueueType
    <3>2. n # Len(calls) + 1
      BY <2>1, <3>1 DEF Enqueued
    <3> QED
      BY <3>1, <3>2 DEF Enqueued
  <2>2. \/ calls' = calls \/ \E c \in Call : Enqueue(p, c) /\ c.fate = "pending"
    <3>1. ASSUME NEW k \in Keys, NEW kind \in Local, NEW change \in {"put", "drop"},
                 Locally(p, k, kind, change)
          PROVE  \E c \in Call : Enqueue(p, c) /\ c.fate = "pending"
      <4> DEFINE c == NewCall(p, kind, [x \in {k} |-> change], Unseen)
      <4>1. c \in Call /\ Enqueue(p, c)
        BY <3>1, OneChange, NewCallType, IdleType DEF Locally, Kind, Change
      <4>2. c.fate = "pending"
        BY DEF NewCall
      <4> QED
        BY <4>1, <4>2
    <3>2. ASSUME NEW kind \in Kind, NEW changes \in Changes, NEW seen \in [Keys -> Nat],
                 Durably(p, kind, changes, seen)
          PROVE  \E c \in Call : Enqueue(p, c) /\ c.fate = "pending"
      <4> DEFINE c == NewCall(p, kind, changes, seen)
      <4>1. c \in Call /\ Enqueue(p, c)
        BY <3>2, NewCallType DEF Durably
      <4>2. c.fate = "pending"
        BY DEF NewCall
      <4> QED
        BY <4>1, <4>2
    <3>3. ASSUME NEW C \in Refreshes, RefreshCall(p, C) PROVE calls' = calls
      BY <3>3 DEF RefreshCall
    <3> QED
      BY <1>1, <1>2, <3>1, <3>2, <3>3, CallersCalls
  <2> QED
    BY <2>1, <2>2
<1>3. CASE WriteTurn(p)
  <2>1. n \in DOMAIN calls
    BY <1>1, <1>3, WriteTurnType
  <2>2. \/ calls'[n] = calls[n]
        \/ \E seen \in [Keys -> Nat] : calls'[n] = [calls[n] EXCEPT !.seen = seen]
    BY <1>1, <1>3, <2>1, WriteTurnType
  <2> QED
    BY <1>1, <2>1, <2>2 DEF Call
<1>4. CASE Settle(p) /\ queue[p] # <<>>
  <2>1. n \in DOMAIN calls
    BY <1>1, <1>4, SettleType DEF Settled
  <2>2. calls'[n].fate \in {calls[n].fate, "settled"} /\ calls'[n].late = calls[n].late
    BY <1>4, <2>1, SettlePositions
  <2> QED
    BY <2>1, <2>2
<1>5. CASE RefreshPublish(p)
  <2>1. /\ n \in DOMAIN calls
        /\ calls'[n] = calls[n] \/ calls'[n] = [calls[n] EXCEPT !.live = FALSE]
    BY <1>1, <1>5, RefreshPublishType
  <2> QED
    BY <1>1, <2>1 DEF Call
<1>6. CASE Kill(p)
  <2>1. /\ n \in DOMAIN calls
        /\ calls'[n] = calls[n] \/ calls'[n] = Ended(calls[n], "settled")
    BY <1>1, <1>6, DownType DEF Kill, Fate
  <2>2. /\ Ended(calls[n], "settled").fate = "settled"
        /\ Ended(calls[n], "settled").late = calls[n].late
    BY <1>1, <2>1, EndedFields
  <2> QED
    BY <2>1, <2>2
<1>7. WriteRefused(p) \/ WriteFault(p) \/ Conflict(p) \/ Acknowledge(p) =>
         Settle(p) /\ queue[p] # <<>>
  BY DEF WriteRefused, WriteFault, WriteFailed, Conflict, Acknowledge, AtStage
<1>8. ASSUME \/ Commit(p) \/ ProbeAnswer(p) \/ RefreshFault(p) \/ RefreshSelect(p)
             \/ RefreshRefused(p) \/ Boot(p) \/ CloseBegin(p)
      PROVE  calls' = calls
  BY <1>8 DEF Commit, ProbeAnswer, RefreshFault, RefreshSelect, RefreshRefused, Boot, CloseBegin
<1> QED
  BY <1>2, <1>3, <1>4, <1>5, <1>6, <1>7, <1>8 DEF WriteStep, RefreshStep

\* What is unsettled at the end of close() was called after it began.
LEMMA LateCuts ==
    ASSUME QueueInv, CloseCutsOnlyLateWrites, [Next]_vars
    PROVE  CloseCutsOnlyLateWrites'
<1> SUFFICES ASSUME NEW n \in DOMAIN calls', calls'[n].fate = "cut"
             PROVE  calls'[n].late
  BY DEF CloseCutsOnlyLateWrites
<1>1. CASE UNCHANGED vars
  BY <1>1 DEF CloseCutsOnlyLateWrites, vars
<1>2. CASE Next
  <2>1. PICK p \in Procs : \/ Callers(p) \/ WriteStep(p) \/ WriteFault(p)
                           \/ ProbeAnswer(p) \/ RefreshStep(p) \/ RefreshFault(p)
                           \/ Boot(p) \/ CloseBegin(p) \/ CloseEnd(p) \/ Kill(p)
    BY <1>2 DEF Next
  <2>2. CASE ~CloseEnd(p)
    BY <2>1, <2>2, NoCuts DEF CloseCutsOnlyLateWrites
  <2>3. CASE CloseEnd(p)
    <3>1. /\ n \in DOMAIN calls
          /\ calls'[n] = IF calls[n].proc = p /\ calls[n].fate = "pending"
                         THEN Ended(calls[n], "cut") ELSE calls[n]
      BY <2>3, DownType DEF CloseEnd, QueueInv, Fate
    <3>2. CASE calls[n].proc = p /\ calls[n].fate = "pending"
      <4>1. PICK j \in DOMAIN queue[p] : queue[p][j] = n
        BY <3>1, <3>2 DEF QueueInv, PendingQueued
      <4>2. mode[p] = "closing" /\ awaited[p] = 0
        BY <2>3 DEF CloseEnd
      <4>3. At(p, j) = calls[n] /\ j \in Nat /\ j > 0
        BY <4>1 DEF At, QueueInv, TypeOK
      <4>4. ~At(p, j).late => j <= awaited[p]
        BY <4>1, <4>2 DEF QueueInv, CloseWaits
      <4>5. calls[n].late
        BY <4>2, <4>3, <4>4
      <4>6. Ended(calls[n], "cut").late = calls[n].late
        BY <3>1, EndedFields DEF QueueInv, TypeOK
      <4> QED
        BY <3>1, <3>2, <4>5, <4>6
    <3>3. CASE ~(calls[n].proc = p /\ calls[n].fate = "pending")
      BY <3>1, <3>3 DEF CloseCutsOnlyLateWrites
    <3> QED
      BY <3>2, <3>3
  <2> QED
    BY <2>2, <2>3
<1> QED
  BY <1>1, <1>2

\* close() flushes: what the end of the pool drops was called after close()
\* began, whatever is called, fails or is refreshed meanwhile.
THEOREM CloseFlushes == Spec => []CloseCutsOnlyLateWrites
<1>1. Init => CloseCutsOnlyLateWrites
  BY DEF Init, CloseCutsOnlyLateWrites
<1>2. QueueInv /\ CloseCutsOnlyLateWrites /\ [Next]_vars
         => QueueInv' /\ CloseCutsOnlyLateWrites'
  BY NextQueues, LateCuts
<1> QED
  BY <1>1, <1>2, InitQueues, PTL DEF Spec

-----------------------------------------------------------------------------
(***************************************************************************)
(* Caches                                                                  *)
(***************************************************************************)

CacheInv == \A p \in Procs : Sound(p)

LEMMA PublishingIsPublishes ==
    ASSUME QueueInv, NEW p \in Procs, stage[p] = "applied"
    PROVE  /\ queue[p] # <<>> /\ Head(queue[p]) = queue[p][1]
           /\ \A k : Publishing(p, k) <=> k \in Publishes(p, Head(queue[p]))
<1>1. queue[p] # <<>> /\ TypeOK
  BY DEF QueueInv, QueuesSound
<1>2. Head(queue[p]) = queue[p][1] /\ calls[Head(queue[p])] = At(p, 1)
  BY <1>1, HeadIsFirst DEF HeadFirst, At
<1> QED
  BY <1>1, <1>2 DEF Publishing, Publishes, Touches

\* Nothing of process r changes, except rows that its stale set names.
Untouched(r) ==
    /\ queue'[r] = queue[r] /\ \A j \in DOMAIN queue[r] : At(r, j)' = At(r, j)
    /\ stage'[r] = stage[r] /\ version'[r] = version[r] /\ cache'[r] = cache[r]
    /\ refresh'[r] = refresh[r] /\ (Running(r)' => Running(r))
    /\ stale[r] \subseteq stale'[r]
    /\ \A k \in Keys : rows'[k] = rows[k] \/ k \in stale'[r]

LEMMA PositionsKept ==
    ASSUME QueueInv, NEW r \in Procs, Untouched(r), NEW j \in DOMAIN queue[r]
    PROVE  /\ At(r, j)' = At(r, j) /\ j \in DOMAIN queue'[r] /\ queue'[r][j] = queue[r][j]
           /\ DOMAIN At(r, j).changes \subseteq Keys
           /\ \A k : Touches(r, j, k)' <=> Touches(r, j, k)
           /\ \A k : LocalAt(r, j, k)' <=> LocalAt(r, j, k)
           /\ Open(r, j)' <=> Open(r, j)
           /\ Captured(r, j)' <=> Captured(r, j)
           /\ \A k : Spares(r, j, k)' <=> Spares(r, j, k)
<1>1. At(r, j)' = At(r, j) /\ queue'[r] = queue[r]
  BY DEF Untouched
<1>2. At(r, j) \in Call
  BY DEF At, QueueInv, TypeOK
<1>3. DOMAIN At(r, j).changes \subseteq Keys
  BY <1>2, ChangesType DEF Call
<1>4. /\ \A k : Touches(r, j, k)' <=> Touches(r, j, k)
      /\ \A k : LocalAt(r, j, k)' <=> LocalAt(r, j, k)
  BY <1>1 DEF Touches, LocalAt
<1>5. /\ Open(r, j)' <=> Open(r, j)
      /\ Captured(r, j)' <=> Captured(r, j)
      /\ \A k : Spares(r, j, k)' <=> Spares(r, j, k)
  BY <1>1 DEF Open, Captured, Spares, Untouched
<1> QED
  BY <1>1, <1>3, <1>4, <1>5

LEMMA UntouchedSound ==
    ASSUME QueueInv, NEW r \in Procs, Sound(r), Untouched(r) PROVE Sound(r)'
<1>1. queue'[r] = queue[r] /\ version'[r] = version[r] /\ stage'[r] = stage[r]
      /\ refresh'[r] = refresh[r] /\ cache'[r] = cache[r]
  BY DEF Untouched
<1>2. stale[r] \subseteq stale'[r] /\ \A k \in Keys : rows'[k] = rows[k] \/ k \in stale'[r]
  BY DEF Untouched
<1>3. VersionsSound(r)'
  BY <1>1, PositionsKept DEF Sound, VersionsSound
<1>4. AppliedStored(r)'
  <2>1. stage[r] = "applied" => 1 \in DOMAIN queue[r]
    BY HeadIsFirst DEF QueueInv, QueuesSound, HeadFirst
  <2> QED
    BY <1>1, <1>2, <2>1, PositionsKept DEF Sound, AppliedStored
<1>5. DeadDeletes(r)'
  BY <1>1, <1>2, PositionsKept DEF Sound, DeadDeletes
<1>6. SnapsExact(r)'
  <2>1. \A C : KeysOf(C) \subseteq Keys
    BY DEF KeysOf
  <2> QED
    BY <1>1, <1>2, <2>1 DEF Sound, SnapsExact
<1>7. CachesSound(r)'
  <2> SUFFICES ASSUME NEW k \in Keys, Claimed(r, k)'
               PROVE  CacheExact(r, k)' /\ CacheAhead(r, k)'
    BY DEF CachesSound
  <2>1. Claimed(r, k) /\ rows'[k] = rows[k]
    BY <1>1, <1>2 DEF Claimed, KeysOf, Untouched
  <2>2. CacheExact(r, k) /\ CacheAhead(r, k)
    BY <2>1 DEF Sound, CachesSound
  <2>3. Publishing(r, k) => Publishing(r, k)'
    <3>1. stage[r] = "applied" => 1 \in DOMAIN queue[r]
      BY HeadIsFirst DEF QueueInv, QueuesSound, HeadFirst
    <3> QED
      BY <1>1, <3>1, PositionsKept DEF Publishing
  <2>4. CacheExact(r, k)'
    BY <1>1, <2>1, <2>2, <2>3, PositionsKept DEF CacheExact, NoneOpen
  <2>5. CacheAhead(r, k)'
    BY <1>1, <2>2, PositionsKept DEF CacheAhead, LastLocal
  <2> QED
    BY <2>4, <2>5
<1> QED
  BY <1>3, <1>4, <1>5, <1>6, <1>7 DEF Sound

\* A step of p leaves alone the calls and the queue of another process.
LEMMA OthersUntouched ==
    ASSUME QueueInv, NEW p \in Procs, NEW r \in Procs \ {p},
           \/ Callers(p) \/ WriteStep(p) \/ WriteFault(p)
           \/ ProbeAnswer(p) \/ RefreshStep(p) \/ RefreshFault(p)
           \/ Boot(p) \/ CloseBegin(p) \/ CloseEnd(p) \/ Kill(p)
    PROVE  Untouched(r)
<1>1. TypeOK /\ \A j \in DOMAIN queue[r] : /\ queue[r][j] \in DOMAIN calls
                                           /\ calls[queue[r][j]].proc = r
                                           /\ calls[queue[r][j]] \in Call
  BY DEF QueueInv, QueuesSound, TypeOK, At
<1> DEFINE Same == /\ queue'[r] = queue[r] /\ \A j \in DOMAIN queue[r] : At(r, j)' = At(r, j)
           Rest == /\ stage'[r] = stage[r] /\ version'[r] = version[r] /\ cache'[r] = cache[r]
                   /\ refresh'[r] = refresh[r] /\ mode'[r] = mode[r]
                   /\ stale[r] \subseteq stale'[r]
                   /\ \A k \in Keys : rows'[k] = rows[k] \/ k \in stale'[r]
<1>2. ASSUME queue'[r] = queue[r],
             \A n \in DOMAIN calls : calls[n].proc = r => calls'[n] = calls[n]
      PROVE  Same
  BY <1>1, <1>2 DEF At
<1>3. CASE Callers(p)
  <2>1. ASSUME NEW c \in Call, Enqueue(p, c) PROVE Same
    BY <2>1, EnqueuePositions
  <2>2. ASSUME NEW k \in Keys, NEW kind \in Local, NEW change \in {"put", "drop"},
               Locally(p, k, kind, change)
        PROVE  Same /\ Rest
    <3> DEFINE c == NewCall(p, kind, [x \in {k} |-> change], Unseen)
    <3>1. c \in Call /\ Enqueue(p, c)
      BY <2>2, OneChange, NewCallType, IdleType DEF Locally, Kind, Change
    <3>2. Rest
      BY <1>1, <2>2 DEF Locally, TypeOK
    <3> QED
      BY <2>1, <3>1, <3>2
  <2>3. ASSUME NEW kind \in Kind, NEW changes \in Changes, NEW seen \in [Keys -> Nat],
               Durably(p, kind, changes, seen)
        PROVE  Same /\ Rest
    <3> DEFINE c == NewCall(p, kind, changes, seen)
    <3>1. c \in Call /\ Enqueue(p, c)
      BY <2>3, NewCallType DEF Durably
    <3>2. Rest
      BY <1>1, <2>3 DEF Durably, TypeOK, history
    <3> QED
      BY <2>1, <3>1, <3>2
  <2>4. ASSUME NEW C \in Refreshes, RefreshCall(p, C) PROVE Same /\ Rest
    <3>1. Same
      BY <1>2, <2>4 DEF RefreshCall
    <3>2. Rest
      BY <1>1, <2>4 DEF RefreshCall, TypeOK, history
    <3> QED
      BY <3>1, <3>2
  <2>5. Same /\ Rest
    BY <1>1, <1>3, <2>2, <2>3, <2>4, CallersCalls
  <2> QED
    BY <2>5 DEF Untouched, Running
<1>4. CASE WriteTurn(p)
  <2>1. queue[p] # <<>>
    BY <1>4 DEF WriteTurn, AtStage
  <2>2. calls[queue[p][1]].proc = p
    BY <1>1, <2>1, HeadIsFirst DEF HeadFirst, QueueInv, QueuesSound, At
  <2>3. \A n \in DOMAIN calls : calls[n].proc = r => calls'[n] = calls[n]
    BY <1>1, <1>4, <2>2, WriteTurnType
  <2>4. Same
    BY <1>2, <1>4, <2>3 DEF WriteTurn
  <2>5. Rest
    BY <1>1, <1>4 DEF WriteTurn, TypeOK, history
  <2> QED
    BY <2>4, <2>5 DEF Untouched, Running
<1>5. CASE WriteRefused(p) \/ WriteFault(p) \/ Conflict(p) \/ Acknowledge(p)
  <2>1. queue[p] # <<>> /\ Settle(p)
    BY <1>5 DEF WriteRefused, WriteFault, WriteFailed, Conflict, Acknowledge, AtStage
  <2>2. Same
    BY <2>1, SettlePositions
  <2>3. Rest
    <3>1. /\ rows' = rows /\ mode' = mode /\ version' = version /\ cache'[r] = cache[r]
          /\ stale[r] \subseteq stale'[r]
      BY <1>1, <1>5 DEF WriteRefused, WriteFault, WriteFailed, Conflict, Acknowledge, TypeOK,
                        history
    <3>2. stage'[r] = stage[r] /\ refresh'[r] = refresh[r]
      BY <1>1, <2>1, SettleType DEF Settled
    <3> QED
      BY <3>1, <3>2
  <2> QED
    BY <2>2, <2>3 DEF Untouched, Running
<1>6. CASE Commit(p)
  <2> DEFINE changed == DOMAIN HeadCall(p).changes
  <2>1. Same
    BY <1>2, <1>6 DEF Commit
  <2>2. stale'[r] = stale[r] \cup changed
    BY <1>6 DEF Commit, Outdates
  <2>3. \A k \in Keys : rows'[k] = rows[k] \/ k \in changed
    BY <1>6 DEF Commit, Applied
  <2>4. /\ stage'[r] = stage[r] /\ version'[r] = version[r] /\ cache'[r] = cache[r]
        /\ refresh'[r] = refresh[r] /\ mode'[r] = mode[r]
    BY <1>1, <1>6 DEF Commit, TypeOK
  <2>5. Rest
    BY <2>2, <2>3, <2>4
  <2> QED
    BY <2>1, <2>5 DEF Untouched, Running
<1>7. CASE ProbeAnswer(p) \/ Boot(p) \/ CloseBegin(p)
  <2>1. Same
    BY <1>2, <1>7 DEF ProbeAnswer, Boot, CloseBegin
  <2>2. Rest
    BY <1>1, <1>7 DEF ProbeAnswer, Boot, CloseBegin, TypeOK, history
  <2> QED
    BY <2>1, <2>2 DEF Untouched, Running
<1>8. CASE RefreshSelect(p) \/ RefreshRefused(p) \/ RefreshFault(p)
  <2>1. Same
    BY <1>2, <1>8 DEF RefreshSelect, RefreshRefused, RefreshFault
  <2>2. Rest
    BY <1>1, <1>8 DEF RefreshSelect, RefreshRefused, RefreshFault, TypeOK, history
  <2> QED
    BY <2>1, <2>2 DEF Untouched, Running
<1>9. CASE RefreshPublish(p)
  <2>1. \A n \in DOMAIN calls : calls[n].proc = r => calls'[n] = calls[n]
    BY <1>1, <1>9, RefreshPublishType
  <2>2. Same
    BY <1>2, <1>9, <2>1 DEF RefreshPublish
  <2>3. Rest
    BY <1>1, <1>9 DEF RefreshPublish, TypeOK
  <2> QED
    BY <2>2, <2>3 DEF Untouched, Running
<1>10. CASE CloseEnd(p) \/ Kill(p)
  <2>1. PICK fate \in {"cut", "settled"} : Down(p, fate)
    BY <1>10 DEF CloseEnd, Kill
  <2>2. \A n \in DOMAIN calls : calls[n].proc = r => calls'[n] = calls[n]
    BY <1>1, <2>1, DownType DEF Fate
  <2>3. /\ queue'[r] = queue[r] /\ stage'[r] = stage[r] /\ version'[r] = version[r]
        /\ cache'[r] = cache[r] /\ refresh'[r] = refresh[r] /\ mode'[r] = mode[r]
        /\ stale'[r] = stale[r] /\ rows' = rows
    BY <1>1, <2>1 DEF Down, TypeOK, history
  <2>4. Same
    BY <1>2, <2>2, <2>3
  <2> QED
    BY <2>3, <2>4 DEF Untouched, Running
<1> QED
  BY <1>3, <1>4, <1>5, <1>6, <1>7, <1>8, <1>9, <1>10 DEF WriteStep, RefreshStep

\* The positions of the queue of p once c is called: the old ones and the last.
Old(p, j) ==
    /\ j \in DOMAIN queue'[p] /\ queue'[p][j] = queue[p][j] /\ j \in Nat /\ j > 0
    /\ At(p, j)' = At(p, j) /\ At(p, j) \in Call /\ DOMAIN At(p, j).changes \subseteq Keys
    /\ \A k : Touches(p, j, k)' <=> Touches(p, j, k)
    /\ \A k : LocalAt(p, j, k)' <=> LocalAt(p, j, k)
    /\ Open(p, j)' <=> Open(p, j)
    /\ Captured(p, j)' <=> Captured(p, j)
Last(p, j, c) ==
    /\ At(p, j)' = c /\ queue'[p][j] = Len(calls) + 1 /\ Open(p, j)'
    /\ \A i \in DOMAIN queue[p] : i < j
    /\ \A k : Touches(p, j, k)' <=> k \in DOMAIN c.changes
    /\ \A k : LocalAt(p, j, k)' <=> c.kind \in Local /\ k \in DOMAIN c.changes
    /\ Captured(p, j)' <=> c.kind = "setDurable"

LEMMA EnqueueAt ==
    ASSUME QueueInv, NEW p \in Procs, NEW c \in Call, Enqueue(p, c), stage' = stage
    PROVE  /\ \A j \in DOMAIN queue[p] : Old(p, j)
           /\ \A j \in DOMAIN queue'[p] : j \in Nat /\ (j \in DOMAIN queue[p] \/ Last(p, j, c))
           /\ \E j \in DOMAIN queue'[p] : Last(p, j, c)
           /\ stage[p] = "applied" => 1 \in DOMAIN queue[p]
<1>1. TypeOK /\ QueuesSound
  BY DEF QueueInv
<1>2. /\ Len(queue[p]) \in Nat /\ queue[p] # <<>> => 1 \in DOMAIN queue[p]
      /\ \A j \in DOMAIN queue[p] : j \in Nat /\ j <= Len(queue[p]) /\ j > 0
  BY <1>1 DEF TypeOK
<1>3. ASSUME NEW j \in DOMAIN queue[p] PROVE Old(p, j)
  <2>1. /\ j \in DOMAIN queue'[p] /\ queue'[p][j] = queue[p][j]
        /\ At(p, j)' = At(p, j) /\ At(p, j) \in Call
    BY EnqueuePositions
  <2>2. DOMAIN At(p, j).changes \subseteq Keys
    BY <2>1, ChangesType DEF Call
  <2>3. /\ \A k : Touches(p, j, k)' <=> Touches(p, j, k)
        /\ \A k : LocalAt(p, j, k)' <=> LocalAt(p, j, k)
    BY <2>1 DEF Touches, LocalAt
  <2>4. Open(p, j)' <=> Open(p, j)
    BY DEF Open
  <2>5. Captured(p, j)' <=> Captured(p, j)
    BY <2>1 DEF Captured
  <2> QED
    BY <1>2, <2>1, <2>2, <2>3, <2>4, <2>5 DEF Old
<1>4. ASSUME NEW j \in DOMAIN queue'[p], j = Len(queue[p]) + 1, At(p, j)' = c
      PROVE  Last(p, j, c)
  <2>1. /\ \A k : Touches(p, j, k)' <=> k \in DOMAIN c.changes
        /\ \A k : LocalAt(p, j, k)' <=> c.kind \in Local /\ k \in DOMAIN c.changes
    BY <1>4 DEF Touches, LocalAt
  <2>2. j = 1 => stage[p] = "queued"
    <3>1. j = 1 => Len(queue[p]) = 0
      BY <1>2, <1>4
    <3>2. j = 1 => queue[p] = <<>>
      BY <1>1, <3>1 DEF TypeOK
    <3> QED
      BY <1>1, <3>2 DEF QueuesSound
  <2>3. Open(p, j)' /\ (Captured(p, j)' <=> c.kind = "setDurable")
    BY <1>4, <2>2 DEF Open, Captured
  <2>4. queue'[p][j] = Len(calls) + 1
    BY <1>4, EnqueuePositions
  <2>5. \A i \in DOMAIN queue[p] : i < j
    BY <1>2, <1>4
  <2> QED
    BY <1>4, <2>1, <2>3, <2>4, <2>5 DEF Last
<1>5. \A j \in DOMAIN queue'[p] :
         j \in DOMAIN queue[p] \/ (j = Len(queue[p]) + 1 /\ At(p, j)' = c)
  BY EnqueuePositions
<1>6. Len(queue[p]) + 1 \in DOMAIN queue'[p]
  BY EnqueuePositions
<1>7. \A j \in DOMAIN queue'[p] : j \in DOMAIN queue[p] \/ Last(p, j, c)
  BY <1>4, <1>5
<1>8. \A j \in DOMAIN queue'[p] : j \in Nat
  BY <1>2, <1>5
<1>9. Len(queue[p]) + 1 \notin DOMAIN queue[p]
  BY <1>2
<1>10. \E j \in DOMAIN queue'[p] : Last(p, j, c)
  <2> DEFINE q == Len(queue[p]) + 1
  <2>1. q \in DOMAIN queue'[p] /\ q \notin DOMAIN queue[p]
    BY <1>6, <1>9
  <2> HIDE DEF q
  <2>2. \A j \in DOMAIN queue'[p] : j = q => Last(p, j, c)
    BY <1>7, <2>1
  <2> QED
    BY <2>1, <2>2
<1> QED
  BY <1>1, <1>2, <1>3, <1>7, <1>8, <1>10 DEF QueuesSound

LEMMA LocallySound ==
    ASSUME QueueInv, NEW p \in Procs, NEW k0 \in Keys, NEW kind \in Local,
           NEW change \in {"put", "drop"}, Locally(p, k0, kind, change), Sound(p)
    PROVE  Sound(p)'
<1> DEFINE m == Len(calls) + 1
           c == NewCall(p, kind, [x \in {k0} |-> change], Unseen)
<1>1. TypeOK
  BY DEF QueueInv
<1>2. c \in Call /\ Enqueue(p, c) /\ stage' = stage
  BY OneChange, NewCallType, IdleType DEF Locally, Kind, Change
<1>3. c.kind \in Local /\ DOMAIN c.changes = {k0} /\ c.changes[k0] = change
  BY OneChange DEF NewCall, Change
<1> HIDE DEF c
<1>4. c.kind # "setDurable" /\ c.kind # "deleteDurable" /\ c.kind # "batch"
  BY <1>3 DEF Local
<1>5. /\ \A j \in DOMAIN queue[p] : Old(p, j)
      /\ \A j \in DOMAIN queue'[p] : j \in Nat /\ (j \in DOMAIN queue[p] \/ Last(p, j, c))
      /\ stage[p] = "applied" => 1 \in DOMAIN queue[p]
  BY <1>2, EnqueueAt
<1>6. PICK q \in DOMAIN queue'[p] : Last(p, q, c)
  BY <1>2, EnqueueAt
<1>7. /\ rows' = rows /\ refresh' = refresh /\ mode' = mode
      /\ version'[p] = [version[p] EXCEPT ![k0] = @ + 1] /\ version[p] \in [Keys -> Nat]
      /\ cache'[p] = [cache[p] EXCEPT ![k0] = Written(m, change)]
      /\ cache[p] \in [Keys -> Value]
      /\ stale'[p] = stale[p] \cup ({k0} \cap (Waiting(p, {"batch"})
                                               \cup InFlight(p, {"deleteDurable"})))
  BY <1>1 DEF Locally, TypeOK
<1>8. stale[p] \subseteq stale'[p]
  BY <1>7
<1>9. VersionsSound(p)'
  <2> SUFFICES ASSUME NEW j \in DOMAIN queue'[p], NEW k \in Keys,
                      Captured(p, j)', Touches(p, j, k)'
               PROVE  /\ At(p, j)'.seen[k] <= version'[p][k]
                      /\ At(p, j)'.seen[k] # version'[p][k] =>
                            \E i \in DOMAIN queue'[p] : j < i /\ LocalAt(p, i, k)'
                      /\ At(p, j)'.kind = "setDurable" =>
                            \A i \in DOMAIN queue'[p] : j < i /\ LocalAt(p, i, k)' =>
                                At(p, j)'.seen[k] # version'[p][k]
    BY DEF VersionsSound
  <2>1. j \in DOMAIN queue[p] /\ Old(p, j)
    BY <1>4, <1>5 DEF Last
  <2>2. /\ Captured(p, j) /\ Touches(p, j, k) /\ At(p, j)' = At(p, j)
        /\ At(p, j).seen \in [Keys -> Nat]
    BY <2>1 DEF Old, Call
  <2>3. /\ At(p, j).seen[k] <= version[p][k]
        /\ At(p, j).seen[k] # version[p][k] =>
              \E i \in DOMAIN queue[p] : j < i /\ LocalAt(p, i, k)
        /\ At(p, j).kind = "setDurable" =>
              \A i \in DOMAIN queue[p] : j < i /\ LocalAt(p, i, k) =>
                  At(p, j).seen[k] # version[p][k]
    BY <2>1, <2>2 DEF Sound, VersionsSound
  <2>4. CASE k = k0
    <3>1. version'[p][k] = version[p][k] + 1 /\ version[p][k] \in Nat /\ At(p, j).seen[k] \in Nat
      BY <1>7, <2>2, <2>4
    <3>2. j < q /\ LocalAt(p, q, k)'
      BY <1>3, <1>6, <2>1, <2>4 DEF Last
    <3>3. At(p, j).seen[k] # version'[p][k] /\ At(p, j).seen[k] <= version'[p][k]
      BY <2>3, <3>1
    <3> QED
      BY <1>6, <2>2, <3>2, <3>3
  <2>5. CASE k # k0
    <3>1. version'[p][k] = version[p][k]
      BY <1>7, <2>5
    <3>2. \A i \in DOMAIN queue'[p] : LocalAt(p, i, k)' => i \in DOMAIN queue[p] /\ LocalAt(p, i, k)
      BY <1>3, <1>5, <2>5 DEF Last, Old
    <3>3. \A i \in DOMAIN queue[p] : LocalAt(p, i, k) => i \in DOMAIN queue'[p] /\ LocalAt(p, i, k)'
      BY <1>5 DEF Old
    <3> QED
      BY <2>2, <2>3, <3>1, <3>2, <3>3
  <2> QED
    BY <2>4, <2>5
<1>10. AppliedStored(p)'
  BY <1>2, <1>5, <1>7, <1>8 DEF Sound, AppliedStored, Old
<1>11. DeadDeletes(p)'
  <2> SUFFICES ASSUME NEW j \in DOMAIN queue'[p], At(p, j)'.kind = "deleteDurable", ~At(p, j)'.live
               PROVE  /\ refresh'[p].phase # "read"
                      /\ refresh'[p].phase = "waiting" => j <= refresh'[p].behind
                      /\ Open(p, j)' => DOMAIN At(p, j)'.changes \subseteq stale'[p]
    BY DEF DeadDeletes
  <2>1. j \in DOMAIN queue[p] /\ Old(p, j)
    BY <1>4, <1>5 DEF Last
  <2> QED
    BY <1>7, <1>8, <2>1 DEF Sound, DeadDeletes, Old
<1>12. SnapsExact(p)'
  BY <1>7, <1>8 DEF Sound, SnapsExact
<1>13. CachesSound(p)'
  <2> SUFFICES ASSUME NEW k \in Keys, Claimed(p, k)'
               PROVE  CacheExact(p, k)' /\ CacheAhead(p, k)'
    BY DEF CachesSound
  <2>1. Claimed(p, k)
    BY <1>7, <1>8 DEF Claimed, Running
  <2>2. CacheExact(p, k) /\ CacheAhead(p, k)
    BY <2>1 DEF Sound, CachesSound
  <2>3. CASE k = k0
    <3>1. k \notin Waiting(p, {"batch"}) /\ k \notin InFlight(p, {"deleteDurable"})
      BY <1>7, <2>3 DEF Claimed
    <3>2. ASSUME NEW i \in DOMAIN queue[p], Touches(p, i, k)
          PROVE  Spares(p, i, k)'
      <4>1. At(p, i).kind # "deleteDurable"
        BY <3>1, <3>2 DEF InFlight, Touched, Positions, Touches, At
      <4>2. At(p, i).kind = "batch" => i = 1 /\ stage[p] # "queued"
        BY <3>1, <3>2 DEF Waiting, Touched, Positions, Touches, At
      <4>3. Old(p, i)
        BY <1>5
      <4>4. At(p, i).kind = "batch" => At(p, i).seen[k] # version'[p][k]
        <5>1. ASSUME At(p, i).kind = "batch" PROVE At(p, i).seen[k] <= version[p][k]
          <6>1. Captured(p, i)
            BY <4>2, <5>1 DEF Captured
          <6> QED
            BY <3>2, <6>1 DEF Sound, VersionsSound
        <5>2. version'[p][k] = version[p][k] + 1 /\ version[p][k] \in Nat /\ At(p, i).seen[k] \in Nat
          BY <1>7, <2>3, <4>3 DEF Old, Call
        <5> QED
          BY <5>1, <5>2
      <4> QED
        BY <1>2, <4>1, <4>2, <4>3, <4>4 DEF Spares, Old
    <3>3. CacheExact(p, k)'
      <4>1. LocalAt(p, q, k)' /\ Open(p, q)'
        BY <1>3, <1>6, <2>3 DEF Last
      <4> QED
        BY <1>6, <4>1 DEF CacheExact, NoneOpen
    <3>4. ASSUME NEW j \in DOMAIN queue'[p], LocalAt(p, j, k)', LastLocal(p, j, k)'
          PROVE  cache'[p][k] = Written(queue'[p][j], At(p, j)'.changes[k])
      <4>1. LocalAt(p, q, k)'
        BY <1>3, <1>6, <2>3 DEF Last
      <4>2. q <= j
        BY <1>6, <3>4, <4>1 DEF LastLocal
      <4>3. j \notin DOMAIN queue[p]
        <5>1. \A i \in DOMAIN queue[p] : i < q /\ i \in Nat /\ q \in Nat
          BY <1>5, <1>6 DEF Last, Old
        <5> QED
          BY <4>2, <5>1
      <4>4. Last(p, j, c)
        BY <1>5, <4>3
      <4> QED
        BY <1>3, <1>7, <2>3, <4>4 DEF Last
    <3>5. ASSUME NEW j \in DOMAIN queue'[p], LocalAt(p, j, k)', NEW i \in DOMAIN queue'[p],
                 i < j, Touches(p, i, k)'
          PROVE  Spares(p, i, k)'
      <4>1. i \in DOMAIN queue[p]
        <5>1. ASSUME i \notin DOMAIN queue[p] PROVE FALSE
          <6>1. Last(p, i, c)
            BY <1>5, <5>1
          <6>2. At(p, i)'.kind \in Local
            BY <1>3, <6>1 DEF Last
          <6>3. j \in DOMAIN queue[p] => j < i
            BY <6>1 DEF Last
          <6>4. j \in DOMAIN queue[p]
            <7>1. i = Len(queue[p]) + 1
              BY <1>2, <5>1, EnqueuePositions
            <7>2. j # Len(queue[p]) + 1
              BY <1>5, <3>5, <7>1
            <7> QED
              BY <1>2, <7>2, EnqueuePositions
          <6>5. i \in Nat /\ j \in Nat
            BY <1>5
          <6> QED
            BY <3>5, <6>3, <6>4, <6>5
        <5> QED
          BY <5>1
      <4>2. Touches(p, i, k)
        BY <1>5, <3>5, <4>1 DEF Old
      <4> QED
        BY <3>2, <4>1, <4>2
    <3>6. CacheAhead(p, k)'
      BY <3>4, <3>5 DEF CacheAhead
    <3> QED
      BY <3>3, <3>6
  <2>4. CASE k # k0
    <3>1. cache'[p][k] = cache[p][k] /\ version'[p][k] = version[p][k]
      BY <1>7, <2>4
    <3>2. \A i \in DOMAIN queue'[p] : Touches(p, i, k)' => i \in DOMAIN queue[p] /\ Touches(p, i, k)
      BY <1>3, <1>5, <2>4 DEF Last, Old
    <3>3. \A i \in DOMAIN queue'[p] : LocalAt(p, i, k)' => i \in DOMAIN queue[p] /\ LocalAt(p, i, k)
      BY <1>3, <1>5, <2>4 DEF Last, Old
    <3>4. CacheExact(p, k)'
      <4>1. NoneOpen(p, k)' => NoneOpen(p, k)
        BY <1>5 DEF NoneOpen, Old
      <4>2. Publishing(p, k) => Publishing(p, k)'
        BY <1>2, <1>5, <3>1 DEF Publishing, Old
      <4> QED
        BY <1>7, <2>2, <3>1, <4>1, <4>2 DEF CacheExact
    <3>5. CacheAhead(p, k)'
      <4> SUFFICES ASSUME NEW j \in DOMAIN queue'[p], LocalAt(p, j, k)', Open(p, j)'
                   PROVE  /\ LastLocal(p, j, k)' =>
                                cache'[p][k] = Written(queue'[p][j], At(p, j)'.changes[k])
                          /\ \A i \in DOMAIN queue'[p] : i < j /\ Touches(p, i, k)' =>
                                Spares(p, i, k)'
        BY DEF CacheAhead
      <4>1. j \in DOMAIN queue[p] /\ LocalAt(p, j, k) /\ Open(p, j) /\ Old(p, j)
        BY <1>5, <3>3 DEF Old
      <4>2. LastLocal(p, j, k)' => LastLocal(p, j, k)
        BY <1>5 DEF LastLocal, Old
      <4>3. LastLocal(p, j, k)' => cache'[p][k] = Written(queue'[p][j], At(p, j)'.changes[k])
        BY <2>2, <3>1, <4>1, <4>2 DEF CacheAhead, Old
      <4>4. ASSUME NEW i \in DOMAIN queue'[p], i < j, Touches(p, i, k)'
            PROVE  Spares(p, i, k)'
        <5>1. i \in DOMAIN queue[p] /\ Touches(p, i, k) /\ Old(p, i)
          BY <1>5, <3>2, <4>4
        <5>2. Spares(p, i, k)
          BY <2>2, <4>1, <4>4, <5>1 DEF CacheAhead
        <5> QED
          BY <1>2, <3>1, <5>1, <5>2 DEF Spares, Old
      <4> QED
        BY <4>3, <4>4
    <3> QED
      BY <3>4, <3>5
  <2> QED
    BY <2>3, <2>4
<1> QED
  BY <1>9, <1>10, <1>11, <1>12, <1>13 DEF Sound

LEMMA DurablySound ==
    ASSUME QueueInv, NEW p \in Procs, NEW kind \in Kind \ Local, NEW changes \in Changes,
           NEW seen \in [Keys -> Nat], Durably(p, kind, changes, seen),
           kind = "setDurable" => \A k \in DOMAIN changes : seen[k] = version[p][k],
           Sound(p)
    PROVE  Sound(p)'
<1> DEFINE c == NewCall(p, kind, changes, seen)
<1>1. TypeOK
  BY DEF QueueInv
<1>2. c \in Call /\ Enqueue(p, c) /\ stage' = stage
  BY NewCallType DEF Durably
<1>3. c.kind = kind /\ c.changes = changes /\ c.seen = seen /\ c.live = TRUE
  BY DEF NewCall
<1> HIDE DEF c
<1>4. /\ \A j \in DOMAIN queue[p] : Old(p, j)
      /\ \A j \in DOMAIN queue'[p] : j \in Nat /\ (j \in DOMAIN queue[p] \/ Last(p, j, c))
      /\ stage[p] = "applied" => 1 \in DOMAIN queue[p]
  BY <1>2, EnqueueAt
<1>5. /\ rows' = rows /\ refresh' = refresh /\ mode' = mode /\ version' = version
      /\ cache' = cache /\ stale' = stale
  BY DEF Durably, history
<1>6. ASSUME NEW k
      PROVE  /\ \A i \in DOMAIN queue'[p] : LocalAt(p, i, k)' =>
                    i \in DOMAIN queue[p] /\ LocalAt(p, i, k)
             /\ \A i \in DOMAIN queue[p] : LocalAt(p, i, k) =>
                    i \in DOMAIN queue'[p] /\ LocalAt(p, i, k)'
  BY <1>3, <1>4 DEF Last, Old
<1>7. VersionsSound(p)'
  <2> SUFFICES ASSUME NEW j \in DOMAIN queue'[p], NEW k \in Keys,
                      Captured(p, j)', Touches(p, j, k)'
               PROVE  /\ At(p, j)'.seen[k] <= version'[p][k]
                      /\ At(p, j)'.seen[k] # version'[p][k] =>
                            \E i \in DOMAIN queue'[p] : j < i /\ LocalAt(p, i, k)'
                      /\ At(p, j)'.kind = "setDurable" =>
                            \A i \in DOMAIN queue'[p] : j < i /\ LocalAt(p, i, k)' =>
                                At(p, j)'.seen[k] # version'[p][k]
    BY DEF VersionsSound
  <2>1. CASE j \in DOMAIN queue[p]
    <3>1. Captured(p, j) /\ Touches(p, j, k) /\ At(p, j)' = At(p, j)
      BY <1>4, <2>1 DEF Old
    <3> QED
      BY <1>5, <1>6, <2>1, <3>1 DEF Sound, VersionsSound
  <2>2. CASE Last(p, j, c)
    <3>1. seen[k] = version[p][k] /\ version[p][k] \in Nat
      BY <1>1, <1>3, <2>2 DEF Last, TypeOK
    <3>2. At(p, j)'.seen[k] = version'[p][k]
      BY <1>3, <1>5, <2>2, <3>1 DEF Last
    <3>3. ASSUME NEW i \in DOMAIN queue'[p], j < i, LocalAt(p, i, k)' PROVE FALSE
      <4>1. i < j
        BY <1>6, <2>2, <3>3 DEF Last
      <4>2. i \in Nat /\ j \in Nat
        BY <1>4
      <4> QED
        BY <3>3, <4>1, <4>2
    <3> QED
      BY <1>5, <3>1, <3>2, <3>3
  <2> QED
    BY <1>4, <2>1, <2>2
<1>8. AppliedStored(p)'
  BY <1>2, <1>4, <1>5 DEF Sound, AppliedStored, Old
<1>9. DeadDeletes(p)'
  <2> SUFFICES ASSUME NEW j \in DOMAIN queue'[p], At(p, j)'.kind = "deleteDurable", ~At(p, j)'.live
               PROVE  /\ refresh'[p].phase # "read"
                      /\ refresh'[p].phase = "waiting" => j <= refresh'[p].behind
                      /\ Open(p, j)' => DOMAIN At(p, j)'.changes \subseteq stale'[p]
    BY DEF DeadDeletes
  <2>1. j \in DOMAIN queue[p] /\ Old(p, j)
    BY <1>3, <1>4 DEF Last
  <2> QED
    BY <1>5, <2>1 DEF Sound, DeadDeletes, Old
<1>10. SnapsExact(p)'
  BY <1>5 DEF Sound, SnapsExact
<1>11. CachesSound(p)'
  <2> SUFFICES ASSUME NEW k \in Keys, Claimed(p, k)'
               PROVE  CacheExact(p, k)' /\ CacheAhead(p, k)'
    BY DEF CachesSound
  <2>1. Claimed(p, k)
    BY <1>5 DEF Claimed, Running
  <2>2. CacheExact(p, k) /\ CacheAhead(p, k)
    BY <2>1 DEF Sound, CachesSound
  <2>3. CacheExact(p, k)'
    <3>1. NoneOpen(p, k)' => NoneOpen(p, k)
      BY <1>4, <1>6 DEF NoneOpen, Old
    <3>2. Publishing(p, k) => Publishing(p, k)'
      BY <1>2, <1>4, <1>5 DEF Publishing, Old
    <3> QED
      BY <1>5, <2>2, <3>1, <3>2 DEF CacheExact
  <2>4. CacheAhead(p, k)'
    <3> SUFFICES ASSUME NEW j \in DOMAIN queue'[p], LocalAt(p, j, k)', Open(p, j)'
                 PROVE  /\ LastLocal(p, j, k)' =>
                              cache'[p][k] = Written(queue'[p][j], At(p, j)'.changes[k])
                        /\ \A i \in DOMAIN queue'[p] : i < j /\ Touches(p, i, k)' =>
                              Spares(p, i, k)'
      BY DEF CacheAhead
    <3>1. j \in DOMAIN queue[p] /\ LocalAt(p, j, k) /\ Open(p, j) /\ Old(p, j)
      BY <1>4, <1>6 DEF Old
    <3>2. LastLocal(p, j, k)' => LastLocal(p, j, k)
      BY <1>6 DEF LastLocal
    <3>3. LastLocal(p, j, k)' => cache'[p][k] = Written(queue'[p][j], At(p, j)'.changes[k])
      BY <1>5, <2>2, <3>1, <3>2 DEF CacheAhead, Old
    <3>4. ASSUME NEW i \in DOMAIN queue'[p], i < j, Touches(p, i, k)'
          PROVE  Spares(p, i, k)'
      <4>1. i \in DOMAIN queue[p] /\ Touches(p, i, k) /\ Old(p, i)
        <5>1. ~Last(p, i, c)
          BY <1>4, <3>1, <3>4 DEF Last
        <5> QED
          BY <1>4, <3>4, <5>1 DEF Old
      <4>2. Spares(p, i, k)
        BY <2>2, <3>1, <3>4, <4>1 DEF CacheAhead
      <4> QED
        BY <1>2, <1>5, <4>1, <4>2 DEF Spares, Old
    <3> QED
      BY <3>3, <3>4
  <2> QED
    BY <2>3, <2>4
<1> QED
  BY <1>7, <1>8, <1>9, <1>10, <1>11 DEF Sound

\* The queue of p stays, and of its calls what says whose keys they write.
SamePositions(p) ==
    /\ queue'[p] = queue[p]
    /\ \A j \in DOMAIN queue[p] :
          /\ At(p, j)'.kind = At(p, j).kind /\ At(p, j)'.changes = At(p, j).changes
          /\ \A k : Touches(p, j, k)' <=> Touches(p, j, k)
          /\ \A k : LocalAt(p, j, k)' <=> LocalAt(p, j, k)
          /\ DOMAIN At(p, j).changes \subseteq Keys /\ At(p, j) \in Call

LEMMA PositionsStay ==
    ASSUME QueueInv, NEW p \in Procs, queue'[p] = queue[p],
           \A n \in DOMAIN calls :
              calls'[n].kind = calls[n].kind /\ calls'[n].changes = calls[n].changes
    PROVE  SamePositions(p)
<1> SUFFICES ASSUME NEW j \in DOMAIN queue[p]
             PROVE  /\ At(p, j)'.kind = At(p, j).kind /\ At(p, j)'.changes = At(p, j).changes
                    /\ \A k : Touches(p, j, k)' <=> Touches(p, j, k)
                    /\ \A k : LocalAt(p, j, k)' <=> LocalAt(p, j, k)
                    /\ DOMAIN At(p, j).changes \subseteq Keys /\ At(p, j) \in Call
  BY DEF SamePositions
<1>1. queue[p][j] \in DOMAIN calls /\ At(p, j) \in Call
  BY DEF At, QueueInv, TypeOK
<1>2. At(p, j)'.kind = At(p, j).kind /\ At(p, j)'.changes = At(p, j).changes
  BY <1>1 DEF At
<1>3. DOMAIN At(p, j).changes \subseteq Keys
  BY <1>1, ChangesType DEF Call
<1> QED
  BY <1>1, <1>2, <1>3 DEF Touches, LocalAt

LEMMA WriteTurnSound ==
    ASSUME QueueInv, NEW p \in Procs, WriteTurn(p), Sound(p)
    PROVE  Sound(p)'
<1>1. /\ TypeOK /\ queue[p] # <<>> /\ stage[p] = "queued" /\ stage'[p] = "sent"
      /\ UNCHANGED <<rows, refresh, mode, version, cache, stale, queue>>
  BY DEF QueueInv, WriteTurn, AtStage, TypeOK, history
<1>2. \A n \in DOMAIN calls :
         \/ calls'[n] = calls[n]
         \/ /\ n = queue[p][1] /\ calls[n].kind = "batch"
            /\ \E seen \in [Keys -> Nat] :
                  /\ \A k \in DOMAIN calls[n].changes : seen[k] = version[p][k]
                  /\ calls'[n] = [calls[n] EXCEPT !.seen = seen]
  BY <1>1, WriteTurnType
<1>3. \A n \in DOMAIN calls : calls[n] \in Call
  BY <1>1 DEF TypeOK
<1>4. SamePositions(p)
  <2>1. \A n \in DOMAIN calls :
           calls'[n].kind = calls[n].kind /\ calls'[n].changes = calls[n].changes
    BY <1>2, <1>3 DEF Call
  <2> QED
    BY <1>1, <2>1, PositionsStay
<1>5. ASSUME NEW j \in DOMAIN queue[p]
      PROVE  /\ At(p, j)'.live = At(p, j).live
             /\ \/ At(p, j)' = At(p, j)
                \/ /\ j = 1 /\ At(p, j).kind = "batch"
                   /\ \A k \in DOMAIN At(p, j).changes : At(p, j)'.seen[k] = version[p][k]
  <2> DEFINE n == queue[p][j]
  <2>1. n \in DOMAIN calls /\ At(p, j) = calls[n] /\ At(p, j)' = calls'[n]
    BY <1>1 DEF At, TypeOK
  <2>2. CASE calls'[n] = calls[n]
    BY <2>1, <2>2
  <2>3. CASE /\ n = queue[p][1] /\ calls[n].kind = "batch"
             /\ \E seen \in [Keys -> Nat] :
                   /\ \A k \in DOMAIN calls[n].changes : seen[k] = version[p][k]
                   /\ calls'[n] = [calls[n] EXCEPT !.seen = seen]
    <3>1. j = 1
      BY <1>1, <2>3, HeadIsFirst DEF HeadFirst, QueueInv, QueuesSound
    <3>2. PICK seen \in [Keys -> Nat] :
             /\ \A k \in DOMAIN calls[n].changes : seen[k] = version[p][k]
             /\ calls'[n] = [calls[n] EXCEPT !.seen = seen]
      BY <2>3
    <3>3. calls'[n].seen = seen /\ calls'[n].live = calls[n].live
      BY <1>3, <2>1, <3>2 DEF Call
    <3> QED
      BY <2>1, <2>3, <3>1, <3>2, <3>3
  <2> QED
    BY <1>2, <2>1, <2>2, <2>3
<1>6. \A j \in DOMAIN queue[p] : (Open(p, j) /\ Open(p, j)') /\ j \in Nat
  BY <1>1 DEF Open, TypeOK
<1>7. VersionsSound(p)'
  <2> SUFFICES ASSUME NEW j \in DOMAIN queue[p], NEW k \in Keys,
                      Captured(p, j)', Touches(p, j, k)'
               PROVE  /\ At(p, j)'.seen[k] <= version[p][k]
                      /\ At(p, j)'.seen[k] # version[p][k] =>
                            \E i \in DOMAIN queue[p] : j < i /\ LocalAt(p, i, k)'
                      /\ At(p, j)'.kind = "setDurable" =>
                            \A i \in DOMAIN queue[p] : j < i /\ LocalAt(p, i, k)' =>
                                At(p, j)'.seen[k] # version[p][k]
    BY <1>1 DEF VersionsSound
  <2>1. Touches(p, j, k) /\ version[p][k] \in Nat
    BY <1>1, <1>4 DEF SamePositions, TypeOK
  <2>2. CASE At(p, j).kind = "setDurable"
    <3>1. Captured(p, j) /\ At(p, j)' = At(p, j)
      BY <1>5, <2>2 DEF Captured
    <3> QED
      BY <1>4, <2>1, <3>1 DEF Sound, VersionsSound, SamePositions
  <2>3. CASE At(p, j).kind # "setDurable"
    <3>1. At(p, j).kind = "batch" /\ j = 1
      BY <1>4, <2>3 DEF Captured, SamePositions
    <3>2. \A kb \in DOMAIN At(p, j).changes : At(p, j)'.seen[kb] = version[p][kb]
      <4>1. HeadCall(p) = At(p, 1) /\ Head(queue[p]) = queue[p][1] /\ queue[p][1] \in DOMAIN calls
        BY <1>1, HeadIsFirst DEF HeadFirst
      <4>2. calls' = [calls EXCEPT ![queue[p][1]].seen =
                        [x \in Keys |-> IF x \in DOMAIN At(p, 1).changes
                                        THEN version[p][x] ELSE 0]]
        BY <3>1, <4>1 DEF WriteTurn
      <4>3. calls'[queue[p][1]].seen = [x \in Keys |-> IF x \in DOMAIN At(p, 1).changes
                                                       THEN version[p][x] ELSE 0]
        <5>1. calls[queue[p][1]] \in Call
          BY <1>3, <4>1
        <5> QED
          BY <4>1, <4>2, <5>1 DEF Call
      <4>4. At(p, 1)'.seen = [x \in Keys |-> IF x \in DOMAIN At(p, 1).changes
                                             THEN version[p][x] ELSE 0]
        BY <1>1, <4>3 DEF At
      <4>5. DOMAIN At(p, j).changes \subseteq Keys
        BY <1>4 DEF SamePositions
      <4> QED
        BY <3>1, <4>4, <4>5
    <3>3. At(p, j)'.seen[k] = version[p][k]
      BY <2>1, <3>2 DEF Touches
    <3>4. At(p, j)'.kind # "setDurable"
      BY <1>4, <2>3 DEF SamePositions
    <3> QED
      BY <2>1, <3>3, <3>4
  <2> QED
    BY <2>2, <2>3
<1>8. AppliedStored(p)'
  BY <1>1 DEF AppliedStored
<1>9. DeadDeletes(p)'
  BY <1>1, <1>4, <1>5, <1>6 DEF Sound, DeadDeletes, SamePositions
<1>10. SnapsExact(p)'
  BY <1>1 DEF Sound, SnapsExact
<1>11. CachesSound(p)'
  <2> SUFFICES ASSUME NEW k \in Keys, Claimed(p, k)'
               PROVE  CacheExact(p, k)' /\ CacheAhead(p, k)'
    BY DEF CachesSound
  <2>1. Claimed(p, k)
    BY <1>1 DEF Claimed, Running
  <2>2. CacheExact(p, k) /\ CacheAhead(p, k)
    BY <2>1 DEF Sound, CachesSound
  <2>3. CacheExact(p, k)'
    <3>1. NoneOpen(p, k)' => NoneOpen(p, k)
      BY <1>1, <1>4, <1>6 DEF NoneOpen, SamePositions
    <3>2. ~Publishing(p, k)
      BY <1>1 DEF Publishing
    <3> QED
      BY <1>1, <2>2, <3>1, <3>2 DEF CacheExact
  <2>4. CacheAhead(p, k)'
    <3> SUFFICES ASSUME NEW j \in DOMAIN queue[p], LocalAt(p, j, k)'
                 PROVE  /\ LastLocal(p, j, k)' =>
                              cache[p][k] = Written(queue[p][j], At(p, j)'.changes[k])
                        /\ \A i \in DOMAIN queue[p] : i < j /\ Touches(p, i, k)' =>
                              Spares(p, i, k)'
      BY <1>1 DEF CacheAhead
    <3>1. LocalAt(p, j, k) /\ Open(p, j)
      BY <1>4, <1>6 DEF SamePositions
    <3>2. LastLocal(p, j, k)' => LastLocal(p, j, k)
      BY <1>1, <1>4 DEF LastLocal, SamePositions
    <3>3. LastLocal(p, j, k)' => cache[p][k] = Written(queue[p][j], At(p, j)'.changes[k])
      BY <1>4, <2>2, <3>1, <3>2 DEF CacheAhead, SamePositions
    <3>4. ASSUME NEW i \in DOMAIN queue[p], i < j, Touches(p, i, k)'
          PROVE  Spares(p, i, k)'
      <4>1. Spares(p, i, k)
        BY <1>4, <2>2, <3>1, <3>4 DEF CacheAhead, SamePositions
      <4>2. At(p, i).kind # "deleteDurable" /\ At(p, i).kind # "batch"
        BY <1>1, <4>1 DEF Spares
      <4> QED
        BY <1>4, <4>2 DEF Spares, SamePositions
    <3> QED
      BY <3>3, <3>4
  <2> QED
    BY <2>3, <2>4
<1> QED
  BY <1>7, <1>8, <1>9, <1>10, <1>11 DEF Sound

\* Where the calls of p are once the write at the head of its queue is settled.
Shifted(p, j) ==
    /\ j \in Nat /\ j > 0 /\ j + 1 \in DOMAIN queue[p] /\ j + 1 # 1
    /\ queue'[p][j] = queue[p][j + 1] /\ At(p, j)' = At(p, j + 1)
    /\ \A k : Touches(p, j, k)' <=> Touches(p, j + 1, k)
    /\ \A k : LocalAt(p, j, k)' <=> LocalAt(p, j + 1, k)
    /\ Open(p, j)' /\ Open(p, j + 1)
    /\ Captured(p, j)' => At(p, j)'.kind = "setDurable"
    /\ At(p, j).kind = "setDurable" => Captured(p, j)

LEMMA SettleAt ==
    ASSUME QueueInv, NEW p \in Procs, queue[p] # <<>>, Settle(p)
    PROVE  /\ \A j \in DOMAIN queue'[p] : Shifted(p, j)
           /\ \A j \in DOMAIN queue[p] : j # 1 =>
                 /\ j - 1 \in DOMAIN queue'[p] /\ (j - 1) + 1 = j /\ Shifted(p, j - 1)
           /\ \A j \in DOMAIN queue[p] : j \in Nat /\ j > 0 /\ At(p, j) \in Call
           /\ stage'[p] = "queued"
<1>1. stage'[p] = "queued"
  BY SettleType DEF QueueInv, Settled
<1>2. \A j \in DOMAIN queue'[p] :
         /\ j \in Nat /\ j > 0 /\ j + 1 \in DOMAIN queue[p]
         /\ queue'[p][j] = queue[p][j + 1] /\ At(p, j)' = At(p, j + 1)
  BY SettlePositions
<1>3. ASSUME NEW j \in DOMAIN queue'[p] PROVE Shifted(p, j)
  <2>1. j + 1 # 1
    BY <1>2
  <2>2. Open(p, j)' /\ Open(p, j + 1)
    BY <1>1, <2>1 DEF Open
  <2>3. Captured(p, j)' => At(p, j)'.kind = "setDurable"
    BY <1>1 DEF Captured
  <2>4. /\ \A k : Touches(p, j, k)' <=> Touches(p, j + 1, k)
        /\ \A k : LocalAt(p, j, k)' <=> LocalAt(p, j + 1, k)
    BY <1>2 DEF Touches, LocalAt
  <2>5. At(p, j).kind = "setDurable" => Captured(p, j)
    BY DEF Captured
  <2> QED
    BY <1>2, <2>1, <2>2, <2>3, <2>4, <2>5 DEF Shifted
<1>4. \A j \in DOMAIN queue[p] : j \in Nat /\ j > 0 /\ At(p, j) \in Call
  BY SettlePositions
<1>5. \A j \in DOMAIN queue[p] : j # 1 => j - 1 \in DOMAIN queue'[p]
  BY SettlePositions
<1>6. \A j \in Nat : (j - 1) + 1 = j
  OBVIOUS
<1> QED
  BY <1>1, <1>3, <1>4, <1>5, <1>6

\* A settled write: what the next ones know stays sound if the cache is sound.
LEMMA SettleSound ==
    ASSUME QueueInv, NEW p \in Procs, queue[p] # <<>>, Settle(p), Sound(p),
           rows' = rows, mode' = mode, version' = version, stale[p] \subseteq stale'[p],
           \A k \in Keys : /\ Claimed(p, k)' /\ (\A j \in DOMAIN queue[p] : LocalAt(p, j, k) => j = 1)
                                => cache'[p][k] = rows[k]
                           /\ Claimed(p, k)' /\ (\E j \in DOMAIN queue[p] : j # 1 /\ LocalAt(p, j, k))
                                => cache'[p][k] = cache[p][k]
    PROVE  Sound(p)'
<1>1. /\ \A j \in DOMAIN queue'[p] : Shifted(p, j)
      /\ \A j \in DOMAIN queue[p] : j # 1 =>
            /\ j - 1 \in DOMAIN queue'[p] /\ (j - 1) + 1 = j /\ Shifted(p, j - 1)
      /\ \A j \in DOMAIN queue[p] : j \in Nat /\ j > 0 /\ At(p, j) \in Call
      /\ stage'[p] = "queued"
  BY SettleAt
<1>2. /\ refresh'[p].phase = refresh[p].phase /\ refresh'[p].of = refresh[p].of
      /\ refresh'[p].snap = refresh[p].snap /\ refresh'[p].behind = Fewer(refresh[p].behind)
      /\ refresh[p].behind \in Nat
  <2>1. refresh'[p] = [refresh[p] EXCEPT !.behind = Fewer(@)] /\ refresh[p] \in Refresh
    BY SettleType DEF QueueInv, TypeOK, Settled
  <2> QED
    BY <2>1 DEF Refresh
<1>3. VersionsSound(p)'
  <2> SUFFICES ASSUME NEW j \in DOMAIN queue'[p], NEW k \in Keys,
                      Captured(p, j)', Touches(p, j, k)'
               PROVE  /\ At(p, j)'.seen[k] <= version[p][k]
                      /\ At(p, j)'.seen[k] # version[p][k] =>
                            \E i \in DOMAIN queue'[p] : j < i /\ LocalAt(p, i, k)'
                      /\ At(p, j)'.kind = "setDurable" =>
                            \A i \in DOMAIN queue'[p] : j < i /\ LocalAt(p, i, k)' =>
                                At(p, j)'.seen[k] # version[p][k]
    BY DEF VersionsSound
  <2>1. Shifted(p, j)
    BY <1>1
  <2>2. Captured(p, j + 1) /\ Touches(p, j + 1, k) /\ j + 1 \in DOMAIN queue[p] /\ j \in Nat
    BY <2>1 DEF Shifted, Captured
  <2>3. /\ At(p, j + 1).seen[k] <= version[p][k]
        /\ At(p, j + 1).seen[k] # version[p][k] =>
              \E i \in DOMAIN queue[p] : j + 1 < i /\ LocalAt(p, i, k)
        /\ At(p, j + 1).kind = "setDurable" =>
              \A i \in DOMAIN queue[p] : j + 1 < i /\ LocalAt(p, i, k) =>
                  At(p, j + 1).seen[k] # version[p][k]
    BY <2>2 DEF Sound, VersionsSound
  <2>4. At(p, j)' = At(p, j + 1)
    BY <2>1 DEF Shifted
  <2>5. ASSUME NEW i \in DOMAIN queue[p], j + 1 < i, LocalAt(p, i, k)
        PROVE  \E i2 \in DOMAIN queue'[p] : j < i2 /\ LocalAt(p, i2, k)'
    <3>1. i # 1 /\ i \in Nat
      BY <1>1, <2>2, <2>5
    <3>2. i - 1 \in DOMAIN queue'[p] /\ Shifted(p, i - 1) /\ (i - 1) + 1 = i
      BY <1>1, <3>1
    <3>3. LocalAt(p, i - 1, k)'
      BY <2>5, <3>2 DEF Shifted
    <3>4. j < i - 1
      BY <2>2, <2>5, <3>1
    <3> QED
      BY <3>2, <3>3, <3>4
  <2>6. ASSUME NEW i \in DOMAIN queue'[p], j < i, LocalAt(p, i, k)'
        PROVE  j + 1 < i + 1 /\ LocalAt(p, i + 1, k) /\ i + 1 \in DOMAIN queue[p]
    BY <1>1, <2>2, <2>6 DEF Shifted
  <2> QED
    BY <2>3, <2>4, <2>5, <2>6
<1>4. AppliedStored(p)'
  BY <1>1 DEF AppliedStored
<1>5. DeadDeletes(p)'
  <2> SUFFICES ASSUME NEW j \in DOMAIN queue'[p], At(p, j)'.kind = "deleteDurable", ~At(p, j)'.live
               PROVE  /\ refresh'[p].phase # "read"
                      /\ refresh'[p].phase = "waiting" => j <= refresh'[p].behind
                      /\ Open(p, j)' => DOMAIN At(p, j)'.changes \subseteq stale'[p]
    BY DEF DeadDeletes
  <2>1. Shifted(p, j)
    BY <1>1
  <2>2. /\ refresh[p].phase # "read"
        /\ refresh[p].phase = "waiting" => j + 1 <= refresh[p].behind
        /\ DOMAIN At(p, j + 1).changes \subseteq stale[p]
    BY <2>1 DEF Sound, DeadDeletes, Shifted
  <2>3. refresh[p].phase = "waiting" => j <= Fewer(refresh[p].behind)
    BY <1>2, <2>1, <2>2 DEF Fewer, Shifted
  <2> QED
    BY <1>2, <2>1, <2>2, <2>3 DEF Shifted
<1>6. SnapsExact(p)'
  BY <1>2 DEF Sound, SnapsExact
<1>7. CachesSound(p)'
  <2> SUFFICES ASSUME NEW k \in Keys, Claimed(p, k)'
               PROVE  CacheExact(p, k)' /\ CacheAhead(p, k)'
    BY DEF CachesSound
  <2>1. Claimed(p, k)
    BY <1>2 DEF Claimed, Running
  <2>2. CacheExact(p, k) /\ CacheAhead(p, k)
    BY <2>1 DEF Sound, CachesSound
  <2>3. CacheExact(p, k)'
    <3> SUFFICES ASSUME NoneOpen(p, k)' PROVE cache'[p][k] = rows'[k]
      BY DEF CacheExact
    <3>1. ASSUME NEW j \in DOMAIN queue[p], LocalAt(p, j, k) PROVE j = 1
      <4>1. ASSUME j # 1 PROVE FALSE
        <5>1. j - 1 \in DOMAIN queue'[p] /\ LocalAt(p, j - 1, k)' /\ Open(p, j - 1)'
          BY <1>1, <3>1, <4>1 DEF Shifted
        <5> QED
          BY <5>1 DEF NoneOpen
      <4> QED
        BY <4>1
    <3> QED
      BY <3>1
  <2>4. CacheAhead(p, k)'
    <3> SUFFICES ASSUME NEW j \in DOMAIN queue'[p], LocalAt(p, j, k)'
                 PROVE  /\ LastLocal(p, j, k)' =>
                              cache'[p][k] = Written(queue'[p][j], At(p, j)'.changes[k])
                        /\ \A i \in DOMAIN queue'[p] : i < j /\ Touches(p, i, k)' =>
                              Spares(p, i, k)'
      BY DEF CacheAhead
    <3>1. /\ Shifted(p, j) /\ j + 1 \in DOMAIN queue[p] /\ LocalAt(p, j + 1, k)
          /\ Open(p, j + 1) /\ j + 1 # 1 /\ j \in Nat
      BY <1>1 DEF Shifted
    <3>2. cache'[p][k] = cache[p][k]
      BY <3>1
    <3>3. ASSUME LastLocal(p, j, k)' PROVE LastLocal(p, j + 1, k)
      <4> SUFFICES ASSUME NEW i \in DOMAIN queue[p], LocalAt(p, i, k) PROVE i <= j + 1
        BY DEF LastLocal
      <4>1. CASE i = 1
        BY <3>1, <4>1
      <4>2. CASE i # 1
        <5>1. i - 1 \in DOMAIN queue'[p] /\ LocalAt(p, i - 1, k)'
          BY <1>1, <4>2 DEF Shifted
        <5>2. i - 1 <= j
          BY <3>3, <5>1 DEF LastLocal
        <5> QED
          BY <1>1, <3>1, <5>2
      <4> QED
        BY <4>1, <4>2
    <3>4. LastLocal(p, j, k)' => cache'[p][k] = Written(queue'[p][j], At(p, j)'.changes[k])
      BY <2>2, <3>1, <3>2, <3>3 DEF CacheAhead, Shifted
    <3>5. ASSUME NEW i \in DOMAIN queue'[p], i < j, Touches(p, i, k)'
          PROVE  Spares(p, i, k)'
      <4>1. Shifted(p, i)
        BY <1>1
      <4>2. i + 1 < j + 1 /\ Touches(p, i + 1, k) /\ i + 1 \in DOMAIN queue[p] /\ i + 1 # 1
        BY <3>1, <3>5, <4>1 DEF Shifted
      <4>3. Spares(p, i + 1, k)
        BY <2>2, <3>1, <4>2 DEF CacheAhead
      <4>4. At(p, i + 1).kind # "deleteDurable" /\ At(p, i + 1).kind # "batch"
        BY <4>2, <4>3 DEF Spares
      <4> QED
        BY <4>1, <4>4 DEF Spares, Shifted
    <3> QED
      BY <3>4, <3>5
  <2> QED
    BY <2>3, <2>4
<1> QED
  BY <1>3, <1>4, <1>5, <1>6, <1>7 DEF Sound

LEMMA WriteFailedSound ==
    ASSUME QueueInv, NEW p \in Procs, queue[p] # <<>>, WriteFailed(p), Sound(p)
    PROVE  Sound(p)'
<1>1. /\ TypeOK /\ Settle(p) /\ rows' = rows /\ mode' = mode /\ version' = version
      /\ cache' = cache /\ stale'[p] = stale[p] \cup Lost(p)
  BY DEF QueueInv, WriteFailed, TypeOK
<1>2. ASSUME NEW k \in Keys, Claimed(p, k)', \A j \in DOMAIN queue[p] : LocalAt(p, j, k) => j = 1
      PROVE  cache[p][k] = rows[k]
  <2>1. /\ refresh'[p].phase = refresh[p].phase /\ refresh'[p].of = refresh[p].of
    <3>1. refresh'[p] = [refresh[p] EXCEPT !.behind = Fewer(@)] /\ refresh[p] \in Refresh
      BY <1>1, SettleType DEF TypeOK, Settled
    <3> QED
      BY <3>1 DEF Refresh
  <2>2. Claimed(p, k) /\ k \notin Lost(p)
    BY <1>1, <1>2, <2>1 DEF Claimed, Running
  <2>3. CacheExact(p, k)
    BY <2>2 DEF Sound, CachesSound
  <2>4. HeadCall(p) = At(p, 1) /\ 1 \in DOMAIN queue[p]
    BY <1>1, HeadIsFirst DEF HeadFirst
  <2>5. Touches(p, 1, k) => ((At(p, 1).kind \in Local) <=> stage[p] = "applied")
    BY <2>2, <2>4 DEF Lost, Touches
  <2>6. NoneOpen(p, k)
    BY <1>2, <2>5 DEF NoneOpen, LocalAt, Open
  <2>7. ~Publishing(p, k)
    BY <2>5 DEF Publishing, Local
  <2> QED
    BY <2>3, <2>6, <2>7 DEF CacheExact
<1> QED
  BY <1>1, <1>2, SettleSound

LEMMA ConflictSound ==
    ASSUME QueueInv, NEW p \in Procs, Conflict(p), Sound(p)
    PROVE  Sound(p)'
<1>1. /\ TypeOK /\ queue[p] # <<>> /\ stage[p] = "sent" /\ Settle(p)
      /\ rows' = rows /\ mode' = mode /\ version' = version /\ cache' = cache /\ stale' = stale
      /\ ~Admissible(HeadCall(p).changes, rows)
  BY DEF QueueInv, Conflict, AtStage, history
<1>2. HeadCall(p) = At(p, 1) /\ 1 \in DOMAIN queue[p] /\ queue[p][1] \in DOMAIN calls
  BY <1>1, HeadIsFirst DEF HeadFirst
<1>3. At(p, 1).kind \notin Local
  <2>1. At(p, 1).kind \in Local =>
            \A k \in DOMAIN At(p, 1).changes : At(p, 1).changes[k] \in {"put", "drop"}
    BY <1>2 DEF QueueInv, CallsSound, At
  <2> QED
    BY <1>1, <1>2, <2>1 DEF Admissible
<1>4. ASSUME NEW k \in Keys, Claimed(p, k)', \A j \in DOMAIN queue[p] : LocalAt(p, j, k) => j = 1
      PROVE  cache[p][k] = rows[k]
  <2>1. /\ refresh'[p].phase = refresh[p].phase /\ refresh'[p].of = refresh[p].of
    <3>1. refresh'[p] = [refresh[p] EXCEPT !.behind = Fewer(@)] /\ refresh[p] \in Refresh
      BY <1>1, SettleType DEF TypeOK, Settled
    <3> QED
      BY <3>1 DEF Refresh
  <2>2. Claimed(p, k)
    BY <1>1, <1>4, <2>1 DEF Claimed, Running
  <2>3. CacheExact(p, k)
    BY <2>2 DEF Sound, CachesSound
  <2>4. NoneOpen(p, k) /\ ~Publishing(p, k)
    BY <1>1, <1>3, <1>4 DEF NoneOpen, LocalAt, Publishing
  <2> QED
    BY <2>3, <2>4 DEF CacheExact
<1> QED
  BY <1>1, <1>4, SettleSound

LEMMA AcknowledgeSound ==
    ASSUME QueueInv, NEW p \in Procs, Acknowledge(p), Sound(p)
    PROVE  Sound(p)'
<1>1. /\ TypeOK /\ queue[p] # <<>> /\ stage[p] = "applied" /\ Settle(p)
      /\ rows' = rows /\ mode' = mode /\ version' = version /\ stale' = stale
      /\ cache'[p] = Published(p, Head(queue[p]))
  BY DEF QueueInv, Acknowledge, AtStage, history, TypeOK
<1>2. /\ 1 \in DOMAIN queue[p] /\ queue[p][1] = Head(queue[p])
      /\ calls[Head(queue[p])] = At(p, 1)
  BY <1>1, HeadIsFirst DEF HeadFirst, At
<1>3. ASSUME NEW k \in Keys
      PROVE  cache'[p][k] = IF Publishing(p, k) THEN Written(queue[p][1], At(p, 1).changes[k])
                            ELSE cache[p][k]
  <2>1. Publishing(p, k) <=> k \in Publishes(p, Head(queue[p]))
    BY <1>1, PublishingIsPublishes
  <2> QED
    BY <1>1, <1>2, <2>1 DEF Published
<1>4. ASSUME NEW k \in Keys, Claimed(p, k)' PROVE Claimed(p, k)
  <2>1. /\ refresh'[p].phase = refresh[p].phase /\ refresh'[p].of = refresh[p].of
    <3>1. refresh'[p] = [refresh[p] EXCEPT !.behind = Fewer(@)] /\ refresh[p] \in Refresh
      BY <1>1, SettleType DEF TypeOK, Settled
    <3> QED
      BY <3>1 DEF Refresh
  <2> QED
    BY <1>1, <1>4, <2>1 DEF Claimed, Running
<1>5. ASSUME NEW k \in Keys, Claimed(p, k)', \A j \in DOMAIN queue[p] : LocalAt(p, j, k) => j = 1
      PROVE  cache'[p][k] = rows[k]
  <2>1. CacheExact(p, k) /\ k \notin stale[p]
    BY <1>4, <1>5 DEF Sound, CachesSound, Claimed
  <2>2. NoneOpen(p, k)
    BY <1>1, <1>5 DEF NoneOpen, Open
  <2>3. CASE Publishing(p, k)
    <3>1. rows[k] = Written(queue[p][1], At(p, 1).changes[k])
      BY <1>1, <2>1, <2>3 DEF Sound, AppliedStored, Publishing, Touches
    <3> QED
      BY <1>3, <2>3, <3>1
  <2>4. CASE ~Publishing(p, k)
    BY <1>3, <2>1, <2>2, <2>4 DEF CacheExact
  <2> QED
    BY <2>3, <2>4
<1>6. ASSUME NEW k \in Keys, Claimed(p, k)', NEW j \in DOMAIN queue[p], j # 1, LocalAt(p, j, k)
      PROVE  cache'[p][k] = cache[p][k]
  <2>1. Open(p, j) /\ 1 < j
    BY <1>1, <1>6 DEF Open, TypeOK
  <2>2. CacheAhead(p, k)
    BY <1>4, <1>6 DEF Sound, CachesSound
  <2>3. Touches(p, 1, k) => Spares(p, 1, k)
    BY <1>2, <1>6, <2>1, <2>2 DEF CacheAhead
  <2>4. Touches(p, 1, k) /\ At(p, 1).kind = "setDurable" => At(p, 1).seen[k] # version[p][k]
    BY <1>2, <1>6, <2>1 DEF Sound, VersionsSound, Captured
  <2>5. ~Publishing(p, k)
    BY <2>3, <2>4 DEF Publishing, Spares
  <2> QED
    BY <1>3, <2>5
<1> QED
  BY <1>1, <1>5, <1>6, SettleSound

LEMMA CommitSound ==
    ASSUME QueueInv, NEW p \in Procs, Commit(p), Sound(p)
    PROVE  Sound(p)'
<1> DEFINE changed == DOMAIN At(p, 1).changes
<1>1. /\ TypeOK /\ queue[p] # <<>> /\ stage[p] = "sent" /\ stage'[p] = "applied"
      /\ UNCHANGED <<calls, mode, cache, version, queue, refresh>>
  BY DEF QueueInv, Commit, AtStage, TypeOK
<1>2. /\ 1 \in DOMAIN queue[p] /\ queue[p][1] = Head(queue[p]) /\ HeadCall(p) = At(p, 1)
      /\ queue[p][1] \in DOMAIN calls
  BY <1>1, HeadIsFirst DEF HeadFirst
<1>3. /\ rows' = Applied(queue[p][1], At(p, 1).changes, rows)
      /\ stale'[p] = stale[p] \cup
            (IF refresh[p].phase = "read" THEN changed \cap KeysOf(refresh[p].of) ELSE {})
  BY <1>2 DEF Commit, Outdates
<1>4. \A k \in Keys : rows'[k] = IF k \in changed THEN Written(queue[p][1], At(p, 1).changes[k])
                                 ELSE rows[k]
  BY <1>3 DEF Applied
<1>5. \A j : At(p, j)' = At(p, j)
  BY <1>1 DEF At
<1>6. /\ \A j, k : Touches(p, j, k)' <=> Touches(p, j, k)
      /\ \A j, k : LocalAt(p, j, k)' <=> LocalAt(p, j, k)
      /\ \A j : Captured(p, j)' <=> Captured(p, j)
      /\ \A j, k : Spares(p, j, k)' <=> Spares(p, j, k)
      /\ \A j : Open(p, j) /\ (Open(p, j)' <=> j # 1)
  BY <1>1, <1>5 DEF Touches, LocalAt, Captured, Spares, Open
<1>7. stale[p] \subseteq stale'[p] /\ changed \subseteq Keys
  <2>1. changed \subseteq Keys
    BY <1>1, HeadKeys
  <2> QED
    BY <1>3, <2>1
<1> HIDE DEF changed
<1>8. VersionsSound(p)'
  BY <1>1, <1>5, <1>6 DEF Sound, VersionsSound
<1>9. AppliedStored(p)'
  BY <1>1, <1>4, <1>5, <1>7 DEF AppliedStored, changed
<1>10. DeadDeletes(p)'
  BY <1>1, <1>5, <1>6, <1>7 DEF Sound, DeadDeletes
<1>11. SnapsExact(p)'
  <2> SUFFICES ASSUME refresh[p].phase = "read", NEW k \in KeysOf(refresh[p].of), k \notin stale'[p]
               PROVE  refresh[p].snap[k] = rows'[k]
    BY <1>1 DEF SnapsExact
  <2>1. k \in Keys /\ k \notin changed /\ k \notin stale[p]
    BY <1>3 DEF KeysOf
  <2> QED
    BY <1>4, <2>1 DEF Sound, SnapsExact
<1>12. CachesSound(p)'
  <2> SUFFICES ASSUME NEW k \in Keys, Claimed(p, k)'
               PROVE  CacheExact(p, k)' /\ CacheAhead(p, k)'
    BY DEF CachesSound
  <2>1. Claimed(p, k)
    BY <1>1, <1>7 DEF Claimed, Running
  <2>2. CacheExact(p, k) /\ CacheAhead(p, k)
    BY <2>1 DEF Sound, CachesSound
  <2>3. CacheExact(p, k)'
    <3> SUFFICES ASSUME NoneOpen(p, k)' PROVE cache[p][k] = rows'[k] \/ Publishing(p, k)'
      BY <1>1 DEF CacheExact
    <3>1. \A j \in DOMAIN queue[p] : LocalAt(p, j, k) => j = 1
      BY <1>1, <1>6 DEF NoneOpen
    <3>2. Touches(p, 1, k) <=> k \in changed
      BY DEF Touches, changed
    <3>3. CASE k \notin changed
      <4>1. NoneOpen(p, k) /\ ~Publishing(p, k)
        BY <1>1, <3>1, <3>2, <3>3 DEF NoneOpen, LocalAt, Publishing
      <4> QED
        BY <1>4, <2>2, <3>3, <4>1 DEF CacheExact
    <3>4. CASE k \in changed
      <4>1. rows'[k] = Written(queue[p][1], At(p, 1).changes[k]) /\ Touches(p, 1, k)
        BY <1>4, <3>2, <3>4
      <4>2. At(p, 1) \in Call
        BY <1>1, <1>2 DEF At, TypeOK
      <4>3. CASE At(p, 1).kind \in Local
        <5>1. LocalAt(p, 1, k) /\ Open(p, 1) /\ LastLocal(p, 1, k)
          <6>1. LastLocal(p, 1, k)
            BY <3>1 DEF LastLocal
          <6> QED
            BY <1>6, <4>1, <4>3, <6>1 DEF LocalAt
        <5> QED
          BY <1>2, <2>2, <4>1, <5>1 DEF CacheAhead
      <4>4. CASE At(p, 1).kind \in {"setDurable", "batch"}
        <5>1. Captured(p, 1)
          BY <1>1, <4>4 DEF Captured
        <5>2. At(p, 1).seen[k] # version[p][k] =>
                 \E i \in DOMAIN queue[p] : 1 < i /\ LocalAt(p, i, k)
          BY <1>2, <4>1, <5>1 DEF Sound, VersionsSound
        <5>3. At(p, 1).seen[k] = version[p][k]
          BY <3>1, <5>2
        <5> QED
          BY <1>1, <1>5, <1>6, <4>1, <4>4, <5>3 DEF Publishing
      <4>5. CASE At(p, 1).kind = "deleteDurable"
        <5>1. At(p, 1).live
          <6>1. ~At(p, 1).live => DOMAIN At(p, 1).changes \subseteq stale[p]
            BY <1>2, <1>6, <4>5 DEF Sound, DeadDeletes
          <6> QED
            BY <2>1, <3>4, <6>1 DEF Claimed, changed
        <5> QED
          BY <1>1, <1>5, <1>6, <4>1, <4>5, <5>1 DEF Publishing
      <4> QED
        BY <4>2, <4>3, <4>4, <4>5 DEF Call, Kind
    <3> QED
      BY <3>3, <3>4
  <2>4. CacheAhead(p, k)'
    BY <1>1, <1>5, <1>6, <2>2 DEF CacheAhead, LastLocal
  <2> QED
    BY <2>3, <2>4
<1> QED
  BY <1>8, <1>9, <1>10, <1>11, <1>12 DEF Sound

LEMMA RefreshSound ==
    ASSUME QueueInv, NEW p \in Procs, Sound(p),
           \/ \E C \in Refreshes : RefreshCall(p, C)
           \/ RefreshSelect(p) \/ RefreshRefused(p) \/ RefreshFault(p)
    PROVE  Sound(p)'
<1>1. /\ TypeOK /\ UNCHANGED <<rows, calls, mode, cache, version, queue, stage>>
  BY DEF QueueInv, RefreshCall, RefreshSelect, RefreshRefused, RefreshFault
<1>2. \A j : At(p, j)' = At(p, j)
  BY <1>1 DEF At
<1>3. /\ \A j, k : Touches(p, j, k)' <=> Touches(p, j, k)
      /\ \A j, k : LocalAt(p, j, k)' <=> LocalAt(p, j, k)
      /\ \A j : Captured(p, j)' <=> Captured(p, j)
      /\ \A j, k : Spares(p, j, k)' <=> Spares(p, j, k)
      /\ \A j : Open(p, j)' <=> Open(p, j)
      /\ \A k : Publishing(p, k)' <=> Publishing(p, k)
  BY <1>1, <1>2 DEF Touches, LocalAt, Captured, Spares, Open, Publishing
<1>4. VersionsSound(p)'
  BY <1>1, <1>2, <1>3 DEF Sound, VersionsSound
<1>5. ASSUME \A k \in Keys : Claimed(p, k)' => Claimed(p, k) PROVE CachesSound(p)'
  <2>1. \A k \in Keys : CacheExact(p, k) => CacheExact(p, k)'
    BY <1>1, <1>3 DEF CacheExact, NoneOpen
  <2>2. \A k \in Keys : CacheAhead(p, k) => CacheAhead(p, k)'
    BY <1>1, <1>2, <1>3 DEF CacheAhead, LastLocal
  <2> QED
    BY <1>5, <2>1, <2>2 DEF Sound, CachesSound
<1>6. refresh[p] \in Refresh /\ stale[p] \subseteq Keys /\ Running(p)' = Running(p)
  BY <1>1 DEF TypeOK, Running
<1>7. ASSUME NEW C \in Refreshes, RefreshCall(p, C) PROVE Sound(p)'
  <2>1. /\ refresh'[p].phase = "waiting" /\ refresh'[p].behind = Len(queue[p])
        /\ stale' = stale /\ refresh[p].phase = "idle"
    <3> DEFINE n == Len(queue[p])
    <3>1. refresh'[p] = [Idle EXCEPT !.phase = "waiting", !.of = C, !.behind = n]
      BY <1>1, <1>7 DEF RefreshCall, TypeOK
    <3> HIDE DEF n
    <3>2. refresh'[p].phase = "waiting" /\ refresh'[p].behind = n
      BY <3>1 DEF Idle
    <3>3. refresh[p] = Idle /\ stale' = stale
      BY <1>7 DEF RefreshCall, history
    <3> QED
      BY <3>2, <3>3 DEF Idle, n
  <2>2. AppliedStored(p)'
    BY <1>1, <1>2, <2>1 DEF Sound, AppliedStored
  <2>3. DeadDeletes(p)'
    BY <1>1, <1>2, <1>3, <2>1 DEF Sound, DeadDeletes, TypeOK
  <2>4. SnapsExact(p)'
    BY <2>1 DEF SnapsExact
  <2>5. CachesSound(p)'
    BY <1>5, <1>6, <2>1 DEF Claimed
  <2> QED
    BY <1>4, <2>2, <2>3, <2>4, <2>5 DEF Sound
<1>8. CASE RefreshSelect(p)
  <2> DEFINE snap == [k \in Keys |-> IF k \in KeysOf(refresh[p].of) THEN rows[k] ELSE Absent]
  <2>1. refresh'[p] = [refresh[p] EXCEPT !.phase = "read", !.snap = snap]
    BY <1>1, <1>8 DEF RefreshSelect, TypeOK
  <2>2. /\ refresh'[p].phase = "read" /\ refresh'[p].of = refresh[p].of
        /\ refresh'[p].snap = snap
    <3> HIDE DEF snap
    <3> QED
      BY <1>6, <2>1 DEF Refresh
  <2>3. /\ refresh[p].phase = "waiting" /\ refresh[p].behind = 0
        /\ stale'[p] = stale[p] \ (KeysOf(refresh[p].of) \ Executed(p))
    BY <1>1, <1>8 DEF RefreshSelect, RefreshReady, TypeOK
  <2>4. AppliedStored(p)'
    <3>1. stage[p] = "applied" => Executed(p) = DOMAIN At(p, 1).changes
      <4>1. stage[p] = "applied" => queue[p] # <<>>
        BY DEF QueueInv, QueuesSound
      <4>2. stage[p] = "applied" => HeadCall(p) = At(p, 1)
        BY <1>1, <4>1, HeadIsFirst DEF HeadFirst
      <4> QED
        BY <4>2 DEF Executed
    <3> QED
      BY <1>1, <1>2, <2>3, <3>1 DEF Sound, AppliedStored
  <2>5. DeadDeletes(p)'
    <3>1. ASSUME NEW j \in DOMAIN queue[p], At(p, j).kind = "deleteDurable", ~At(p, j).live
          PROVE  FALSE
      <4>1. j <= 0 /\ j \in Nat /\ j > 0
        BY <1>1, <2>3, <3>1 DEF Sound, DeadDeletes, TypeOK
      <4> QED
        BY <4>1
    <3> QED
      BY <1>1, <1>2, <3>1 DEF DeadDeletes
  <2>6. SnapsExact(p)'
    BY <1>1, <2>2 DEF SnapsExact, KeysOf
  <2>7. CachesSound(p)'
    BY <1>5, <1>6, <2>2, <2>3 DEF Claimed
  <2> QED
    BY <1>4, <2>4, <2>5, <2>6, <2>7 DEF Sound
<1>9. CASE RefreshRefused(p) \/ RefreshFault(p)
  <2>1. refresh'[p] = Idle /\ refresh'[p].phase = "idle"
    <3>1. refresh'[p] = Idle
      BY <1>1, <1>9 DEF RefreshRefused, RefreshFault, TypeOK
    <3> QED
      BY <3>1 DEF Idle
  <2>2. /\ stale[p] \subseteq stale'[p]
        /\ refresh[p].phase = "read" => KeysOf(refresh[p].of) \subseteq stale'[p]
    BY <1>1, <1>9 DEF RefreshRefused, RefreshFault, RefreshReady, history, TypeOK
  <2>3. AppliedStored(p)'
    BY <1>1, <1>2, <2>2 DEF Sound, AppliedStored
  <2>4. DeadDeletes(p)'
    BY <1>1, <1>2, <1>3, <2>1, <2>2 DEF Sound, DeadDeletes
  <2>5. SnapsExact(p)'
    BY <2>1 DEF SnapsExact
  <2>6. CachesSound(p)'
    BY <1>5, <1>6, <2>2 DEF Claimed
  <2> QED
    BY <1>4, <2>3, <2>4, <2>5, <2>6 DEF Sound
<1> QED
  BY <1>7, <1>8, <1>9

LEMMA RefreshPublishSound ==
    ASSUME QueueInv, NEW p \in Procs, Sound(p), RefreshPublish(p)
    PROVE  Sound(p)'
<1> DEFINE loaded == KeysOf(refresh[p].of)
           kinds == Local \cup {"deleteDurable"}
<1>1. /\ TypeOK /\ UNCHANGED <<rows, mode, version, queue, stage>>
      /\ refresh[p].phase = "read" /\ refresh'[p].phase = "idle"
      /\ cache'[p] = [k \in Keys |-> IF k \in loaded THEN refresh[p].snap[k] ELSE cache[p][k]]
      /\ stale'[p] = stale[p] \cup (loaded \cap Unapplied(p, kinds))
  BY DEF QueueInv, RefreshPublish, Idle, TypeOK
<1> HIDE DEF loaded
<1>2. \A n \in DOMAIN calls :
         calls'[n] =
            IF /\ calls[n].proc = p /\ calls[n].fate = "pending"
               /\ calls[n].kind = "deleteDurable"
               /\ DOMAIN calls[n].changes \subseteq loaded
            THEN [calls[n] EXCEPT !.live = FALSE]
            ELSE calls[n]
  BY <1>1, RefreshPublishType DEF loaded
<1>3. ASSUME NEW n \in DOMAIN calls
      PROVE  /\ calls'[n].kind = calls[n].kind /\ calls'[n].changes = calls[n].changes
             /\ calls'[n].seen = calls[n].seen
             /\ \/ calls'[n].live = calls[n].live
                \/ /\ calls[n].kind = "deleteDurable"
                   /\ DOMAIN calls[n].changes \subseteq loaded
  <2>1. calls[n] \in Call
    BY <1>1 DEF TypeOK
  <2>2. \/ calls'[n] = calls[n]
        \/ /\ calls'[n] = [calls[n] EXCEPT !.live = FALSE]
           /\ calls[n].kind = "deleteDurable" /\ DOMAIN calls[n].changes \subseteq loaded
    BY <1>2
  <2> QED
    BY <2>1, <2>2 DEF Call
<1>4. SamePositions(p)
  BY <1>1, <1>3, PositionsStay
<1>5. ASSUME NEW j \in DOMAIN queue[p]
      PROVE  /\ At(p, j)'.seen = At(p, j).seen
             /\ \/ At(p, j)'.live = At(p, j).live
                \/ /\ At(p, j).kind = "deleteDurable"
                   /\ DOMAIN At(p, j).changes \subseteq loaded
             /\ Open(p, j)' <=> Open(p, j)
             /\ Captured(p, j)' <=> Captured(p, j)
             /\ \A k : Spares(p, j, k)' <=> Spares(p, j, k)
  <2>1. queue[p][j] \in DOMAIN calls
    BY <1>1 DEF TypeOK
  <2>2. /\ At(p, j)'.seen = At(p, j).seen
        /\ \/ At(p, j)'.live = At(p, j).live
           \/ /\ At(p, j).kind = "deleteDurable"
              /\ DOMAIN At(p, j).changes \subseteq loaded
    BY <1>1, <1>3, <2>1 DEF At
  <2>3. At(p, j)'.kind = At(p, j).kind
    BY <1>4 DEF SamePositions
  <2> QED
    BY <1>1, <2>2, <2>3 DEF Open, Captured, Spares
<1>6. stage[p] = "applied" => 1 \in DOMAIN queue[p]
  BY <1>1, HeadIsFirst DEF QueueInv, QueuesSound, HeadFirst
<1>7. stale[p] \subseteq stale'[p]
  BY <1>1
\* The keys of the local writes and durable deletes that are not executed.
<1>8. ASSUME NEW j \in DOMAIN queue[p], At(p, j).kind \in kinds, Open(p, j), NEW k \in loaded,
             Touches(p, j, k)
      PROVE  k \in stale'[p]
  <2>1. j \in Positions(p, kinds) /\ ~(stage[p] = "applied" /\ j = 1)
    BY <1>8 DEF Positions, At, Open
  <2>2. k \in Unapplied(p, kinds)
    BY <1>8, <2>1 DEF Unapplied, Touched, Touches, At
  <2> QED
    BY <1>1, <1>8, <2>2
<1>9. VersionsSound(p)'
  BY <1>1, <1>4, <1>5 DEF Sound, VersionsSound, SamePositions
<1>10. AppliedStored(p)'
  BY <1>1, <1>4, <1>6, <1>7 DEF Sound, AppliedStored, SamePositions
<1>11. DeadDeletes(p)'
  <2> SUFFICES ASSUME NEW j \in DOMAIN queue[p], At(p, j)'.kind = "deleteDurable", ~At(p, j)'.live,
                      Open(p, j)', NEW k \in DOMAIN At(p, j)'.changes
               PROVE  k \in stale'[p]
    BY <1>1 DEF DeadDeletes
  <2>1. /\ At(p, j).kind = "deleteDurable" /\ k \in DOMAIN At(p, j).changes /\ Open(p, j)
    BY <1>4, <1>5 DEF SamePositions
  <2>2. At(p, j).live
    BY <1>1, <2>1 DEF Sound, DeadDeletes
  <2>3. k \in loaded
    BY <1>5, <2>1, <2>2
  <2> QED
    BY <1>8, <2>1, <2>3 DEF Touches
<1>12. SnapsExact(p)'
  BY <1>1 DEF SnapsExact
<1>13. CachesSound(p)'
  <2> SUFFICES ASSUME NEW k \in Keys, Claimed(p, k)'
               PROVE  CacheExact(p, k)' /\ CacheAhead(p, k)'
    BY DEF CachesSound
  <2>1. k \notin stale'[p] /\ k \notin stale[p] /\ Running(p)
    BY <1>1, <1>7 DEF Claimed, Running
  <2>2. CASE k \in loaded
    <3>1. cache'[p][k] = rows'[k]
      BY <1>1, <2>1, <2>2 DEF Sound, SnapsExact, loaded
    <3>2. \A j \in DOMAIN queue[p] : ~(LocalAt(p, j, k) /\ Open(p, j))
      BY <1>8, <2>1, <2>2 DEF LocalAt
    <3>3. \A j \in DOMAIN queue'[p] : ~(LocalAt(p, j, k)' /\ Open(p, j)')
      BY <1>1, <1>4, <1>5, <3>2 DEF SamePositions
    <3> QED
      BY <3>1, <3>3 DEF CacheExact, CacheAhead
  <2>3. CASE k \notin loaded
    <3>1. Claimed(p, k) /\ cache'[p][k] = cache[p][k]
      BY <1>1, <2>1, <2>3 DEF Claimed, loaded
    <3>2. CacheExact(p, k) /\ CacheAhead(p, k)
      BY <3>1 DEF Sound, CachesSound
    <3>3. Publishing(p, k) => Publishing(p, k)'
      <4>1. ASSUME Publishing(p, k) PROVE Publishing(p, k)'
        <5>1. 1 \in DOMAIN queue[p] /\ Touches(p, 1, k) /\ Touches(p, 1, k)' /\ stage'[p] = "applied"
          BY <1>1, <1>4, <1>6, <4>1 DEF Publishing, SamePositions
        <5>2. At(p, 1)'.live = At(p, 1).live \/ At(p, 1).kind # "deleteDurable"
          BY <1>5, <2>3, <5>1 DEF Touches
        <5>3. At(p, 1)'.kind = At(p, 1).kind /\ At(p, 1)'.seen = At(p, 1).seen
          BY <1>4, <1>5, <5>1 DEF SamePositions
        <5> QED
          BY <1>1, <4>1, <5>1, <5>2, <5>3 DEF Publishing
      <4> QED
        BY <4>1
    <3>4. CacheExact(p, k)'
      <4>1. NoneOpen(p, k)' => NoneOpen(p, k)
        BY <1>1, <1>4, <1>5 DEF NoneOpen, SamePositions
      <4> QED
        BY <1>1, <3>1, <3>2, <3>3, <4>1 DEF CacheExact
    <3>5. CacheAhead(p, k)'
      <4>1. \A j \in DOMAIN queue[p] : LastLocal(p, j, k)' => LastLocal(p, j, k)
        BY <1>1, <1>4 DEF LastLocal, SamePositions
      <4> QED
        BY <1>1, <1>4, <1>5, <3>1, <3>2, <4>1 DEF CacheAhead, SamePositions
    <3> QED
      BY <3>4, <3>5
  <2> QED
    BY <2>2, <2>3
<1> QED
  BY <1>9, <1>10, <1>11, <1>12, <1>13 DEF Sound

LEMMA ProcessSound ==
    ASSUME QueueInv, NEW p \in Procs, Sound(p),
           ProbeAnswer(p) \/ Boot(p) \/ CloseBegin(p) \/ CloseEnd(p) \/ Kill(p)
    PROVE  Sound(p)'
<1>1. TypeOK
  BY DEF QueueInv
<1>2. CASE ProbeAnswer(p) \/ CloseBegin(p)
  <2>1. /\ UNCHANGED <<rows, calls, cache, version, queue, stage, refresh, stale>>
        /\ Running(p)
    BY <1>2 DEF ProbeAnswer, CloseBegin, Running, history
  <2>2. \A j : At(p, j)' = At(p, j)
    BY <2>1 DEF At
  <2>3. Untouched(p)
    BY <2>1, <2>2 DEF Untouched
  <2> QED
    BY <2>3, UntouchedSound
<1>3. ASSUME queue'[p] = <<>>, stage'[p] = "queued", refresh'[p] = Idle,
             ~Running(p)' \/ cache'[p] = rows'
      PROVE  Sound(p)'
  <2>1. DOMAIN queue'[p] = {} /\ refresh'[p].phase = "idle"
    BY <1>3 DEF Idle
  <2>2. VersionsSound(p)' /\ AppliedStored(p)' /\ DeadDeletes(p)' /\ SnapsExact(p)'
    BY <1>3, <2>1 DEF VersionsSound, AppliedStored, DeadDeletes, SnapsExact
  <2>3. CachesSound(p)'
    BY <1>3, <2>1 DEF CachesSound, CacheExact, CacheAhead, Claimed
  <2> QED
    BY <2>2, <2>3 DEF Sound
<1>4. CASE Boot(p)
  <2>1. mode[p] = "down" /\ UNCHANGED <<queue, stage, refresh, rows>> /\ cache'[p] = rows
    BY <1>1, <1>4 DEF Boot, TypeOK
  <2>2. queue[p] = <<>> /\ stage[p] = "queued" /\ refresh[p] = Idle
    BY <2>1 DEF QueueInv, QueuesSound
  <2> QED
    BY <1>3, <2>1, <2>2
<1>5. CASE CloseEnd(p) \/ Kill(p)
  <2>1. PICK fate : Down(p, fate)
    BY <1>5 DEF CloseEnd, Kill
  <2>2. /\ queue'[p] = <<>> /\ stage'[p] = "queued" /\ refresh'[p] = Idle /\ mode'[p] = "down"
    BY <1>1, <2>1 DEF Down, TypeOK
  <2> QED
    BY <1>3, <2>2 DEF Running
<1> QED
  BY <1>2, <1>4, <1>5

LEMMA CallsSoundly ==
    ASSUME QueueInv, NEW p \in Procs, Sound(p), Callers(p)
    PROVE  Sound(p)'
BY CallersCalls, LocallySound, DurablySound, RefreshSound DEF QueueInv

LEMMA NextCaches == QueueInv /\ CacheInv /\ [Next]_vars => CacheInv'
<1>1. ASSUME QueueInv, CacheInv, Next PROVE CacheInv'
  <2>1. PICK p \in Procs : \/ Callers(p) \/ WriteStep(p) \/ WriteFault(p)
                           \/ ProbeAnswer(p) \/ RefreshStep(p) \/ RefreshFault(p)
                           \/ Boot(p) \/ CloseBegin(p) \/ CloseEnd(p) \/ Kill(p)
    BY <1>1 DEF Next
  <2>2. ASSUME NEW r \in Procs, r # p PROVE Sound(r)'
    <3>1. Untouched(r)
      BY <1>1, <2>1, <2>2, OthersUntouched
    <3> QED
      BY <1>1, <3>1, UntouchedSound DEF CacheInv
  <2>3. Sound(p)'
    <3>1. Sound(p)
      BY <1>1 DEF CacheInv
    <3>2. CASE Callers(p)
      BY <1>1, <3>1, <3>2, CallsSoundly
    <3>3. CASE WriteTurn(p) \/ Commit(p) \/ Conflict(p) \/ Acknowledge(p)
      BY <1>1, <3>1, <3>3, WriteTurnSound, CommitSound, ConflictSound, AcknowledgeSound
    <3>4. CASE WriteRefused(p) \/ WriteFault(p)
      <4>1. queue[p] # <<>> /\ WriteFailed(p)
        BY <3>4 DEF WriteRefused, WriteFault, AtStage
      <4> QED
        BY <1>1, <3>1, <4>1, WriteFailedSound
    <3>5. CASE RefreshStep(p) \/ RefreshFault(p)
      BY <1>1, <3>1, <3>5, RefreshSound, RefreshPublishSound DEF RefreshStep
    <3>6. CASE ProbeAnswer(p) \/ Boot(p) \/ CloseBegin(p) \/ CloseEnd(p) \/ Kill(p)
      BY <1>1, <3>1, <3>6, ProcessSound
    <3> QED
      BY <2>1, <3>2, <3>3, <3>4, <3>5, <3>6 DEF WriteStep
  <2> QED
    BY <2>2, <2>3 DEF CacheInv
<1>2. ASSUME QueueInv, CacheInv, UNCHANGED vars PROVE CacheInv'
  <2> SUFFICES ASSUME NEW r \in Procs PROVE Sound(r)'
    BY DEF CacheInv
  <2>1. \A j : At(r, j)' = At(r, j)
    BY <1>2 DEF At, vars
  <2>2. Untouched(r)
    BY <1>2, <2>1 DEF Untouched, vars, history, Running
  <2> QED
    BY <1>2, <2>2, UntouchedSound DEF CacheInv
<1> QED
  BY <1>1, <1>2

\* At rest the cache of every process is exact: what get answers is what
\* kv_store holds, unless the key is one of those `stale` names.
THEOREM CachesAreExact == Spec => []AtRestCacheIsExact
<1>1. Init => CacheInv
  <2> SUFFICES ASSUME Init, NEW p \in Procs PROVE Sound(p)
    BY DEF CacheInv
  <2>1. DOMAIN queue[p] = {} /\ stage[p] = "queued" /\ refresh[p] = Idle /\ ~Running(p)
        /\ refresh[p].phase = "idle"
    BY DEF Init, Running, Idle
  <2>2. VersionsSound(p) /\ AppliedStored(p) /\ DeadDeletes(p) /\ SnapsExact(p)
    BY <2>1 DEF VersionsSound, AppliedStored, DeadDeletes, SnapsExact
  <2>3. CachesSound(p)
    BY <2>1 DEF CachesSound, Claimed
  <2> QED
    BY <2>2, <2>3 DEF Sound
<1>2. QueueInv /\ CacheInv => AtRestCacheIsExact
  <2> SUFFICES ASSUME QueueInv, CacheInv, NEW p \in Procs, NEW k \in Keys,
                      Running(p), refresh[p].phase # "read",
                      k \notin InFlight(p, Kind), k \notin stale[p]
               PROVE  cache[p][k] = rows[k]
    BY DEF AtRestCacheIsExact
  <2>1. CacheExact(p, k)
    BY DEF CacheInv, Sound, CachesSound, Claimed
  <2>2. \A j \in DOMAIN queue[p] : ~Touches(p, j, k)
    <3>1. \A j \in DOMAIN queue[p] : calls[queue[p][j]] \in Call
      BY DEF QueueInv, TypeOK
    <3> QED
      BY <3>1 DEF InFlight, Touched, Positions, Touches, At, Call
  <2>3. NoneOpen(p, k) /\ ~Publishing(p, k)
    <3>1. stage[p] = "applied" => 1 \in DOMAIN queue[p]
      BY HeadIsFirst DEF QueueInv, QueuesSound, HeadFirst
    <3> QED
      BY <2>2, <3>1 DEF NoneOpen, LocalAt, Publishing
  <2> QED
    BY <2>1, <2>3 DEF CacheExact
<1> QED
  BY <1>1, <1>2, InitQueues, NextQueues, NextCaches, PTL DEF Spec

-----------------------------------------------------------------------------
(***************************************************************************)
(* What a process shows was stored                                         *)
(***************************************************************************)

ShownInv == \A p \in Procs : Shown(p)
RowsInPast == \A k \in Keys : rows[k] \in past[k]

\* The step only adds to the past, and p keeps what it executed and has read.
LEMMA ShownKept ==
    ASSUME QueueInv, NEW p \in Procs, Shown(p), \A k \in Keys : past[k] \subseteq past'[k],
           queue'[p] = queue[p],
           \A j \in DOMAIN queue[p] : At(p, j)'.changes = At(p, j).changes,
           stage'[p] = "applied" => stage[p] = "applied",
           \/ refresh'[p].phase # "read"
           \/ refresh'[p].phase = refresh[p].phase /\ refresh'[p].of = refresh[p].of
              /\ refresh'[p].snap = refresh[p].snap
    PROVE  Shown(p)'
<1>1. stage[p] = "applied" => 1 \in DOMAIN queue[p] /\ DOMAIN At(p, 1).changes \subseteq Keys
  BY HeadIsFirst, HeadKeys DEF QueueInv, QueuesSound, HeadFirst
<1>2. \A C : KeysOf(C) \subseteq Keys
  BY DEF KeysOf
<1> QED
  BY <1>1, <1>2 DEF Shown

LEMMA NextShown ==
    ASSUME QueueInv, ShownInv, RowsInPast, [Next]_vars
    PROVE  ShownInv' /\ RowsInPast'
<1>1. TypeOK
  BY DEF QueueInv
<1>2. CASE UNCHANGED vars
  BY <1>2 DEF ShownInv, Shown, RowsInPast, At, vars, history
<1>3. ASSUME NEW p \in Procs, Commit(p) PROVE ShownInv' /\ RowsInPast'
  <2>1. queue[p] # <<>>
    BY <1>3 DEF Commit, AtStage
  <2>2. /\ HeadCall(p) = At(p, 1) /\ Head(queue[p]) = queue[p][1]
        /\ DOMAIN At(p, 1).changes \subseteq Keys
    BY <1>1, <2>1, HeadIsFirst, HeadKeys DEF HeadFirst
  <2>3. /\ past' = [k \in Keys |-> past[k] \cup {rows'[k]}]
        /\ \A k \in DOMAIN At(p, 1).changes :
              rows'[k] = Written(queue[p][1], At(p, 1).changes[k])
        /\ UNCHANGED <<calls, queue, refresh>>
        /\ \A r \in Procs : r # p => stage'[r] = stage[r]
    BY <1>1, <1>3, <2>2 DEF Commit, Applied, TypeOK
  <2>4. \A k \in Keys : past[k] \subseteq past'[k] /\ rows'[k] \in past'[k]
    BY <2>3
  <2>5. \A r, j : At(r, j)' = At(r, j)
    BY <2>3 DEF At
  <2>6. ASSUME NEW r \in Procs, r # p PROVE Shown(r)'
    BY <2>3, <2>4, <2>5, <2>6, ShownKept DEF ShownInv
  <2>7. Shown(p)'
    <3>1. \A C : KeysOf(C) \subseteq Keys
      BY DEF KeysOf
    <3> QED
      BY <2>2, <2>3, <2>4, <2>5, <3>1 DEF ShownInv, Shown
  <2> QED
    BY <2>4, <2>6, <2>7 DEF ShownInv, RowsInPast
<1>4. ASSUME NEW p \in Procs,
             \/ Callers(p) \/ WriteTurn(p) \/ WriteRefused(p) \/ WriteFault(p) \/ Conflict(p)
             \/ Acknowledge(p) \/ ProbeAnswer(p) \/ RefreshStep(p) \/ RefreshFault(p)
             \/ Boot(p) \/ CloseBegin(p) \/ CloseEnd(p) \/ Kill(p)
      PROVE  ShownInv' /\ RowsInPast'
  <2>1. past' = past /\ rows' = rows
    <3>1. CASE Callers(p)
      BY <1>1, <3>1, CallersCalls DEF Locally, Durably, RefreshCall, history
    <3>2. CASE WriteTurn(p) \/ WriteRefused(p) \/ WriteFault(p) \/ Conflict(p) \/ Acknowledge(p)
      BY <3>2 DEF WriteTurn, WriteRefused, WriteFault, WriteFailed, Conflict, Acknowledge, history
    <3>3. CASE ProbeAnswer(p) \/ RefreshStep(p) \/ RefreshFault(p)
      BY <3>3 DEF ProbeAnswer, RefreshStep, RefreshSelect, RefreshRefused, RefreshPublish,
                  RefreshFault, history
    <3>4. CASE Boot(p) \/ CloseBegin(p) \/ CloseEnd(p) \/ Kill(p)
      BY <3>4 DEF Boot, CloseBegin, CloseEnd, Kill, Down, history
    <3> QED
      BY <1>4, <3>1, <3>2, <3>3, <3>4
  <2>2. ASSUME NEW r \in Procs, r # p PROVE Shown(r)'
    <3>1. Untouched(r)
      BY <1>4, <2>2, OthersUntouched DEF WriteStep
    <3>2. /\ queue'[r] = queue[r] /\ stage'[r] = stage[r] /\ refresh'[r] = refresh[r]
          /\ \A j \in DOMAIN queue[r] : At(r, j)' = At(r, j)
      BY <3>1 DEF Untouched
    <3> QED
      BY <2>1, <3>2, ShownKept DEF ShownInv
  <2>3. Shown(p)'
    <3>1. CASE Callers(p)
      <4>1. ASSUME NEW c \in Call, Enqueue(p, c), stage' = stage, refresh' = refresh
            PROVE  Shown(p)'
        <5>1. /\ stage[p] = "applied" => 1 \in DOMAIN queue[p]
              /\ \A j \in DOMAIN queue[p] : Old(p, j)
          BY <4>1, EnqueueAt
        <5> QED
          BY <2>1, <4>1, <5>1 DEF ShownInv, Shown, Old
      <4>2. ASSUME NEW k \in Keys, NEW kind \in Local, NEW change \in {"put", "drop"},
                   Locally(p, k, kind, change)
            PROVE  Shown(p)'
        <5> DEFINE c == NewCall(p, kind, [x \in {k} |-> change], Unseen)
        <5>1. c \in Call /\ Enqueue(p, c) /\ stage' = stage /\ refresh' = refresh
          BY <4>2, OneChange, NewCallType, IdleType DEF Locally, Kind, Change
        <5> QED
          BY <4>1, <5>1
      <4>3. ASSUME NEW kind \in Kind, NEW changes \in Changes, NEW seen \in [Keys -> Nat],
                   Durably(p, kind, changes, seen)
            PROVE  Shown(p)'
        <5> DEFINE c == NewCall(p, kind, changes, seen)
        <5>1. c \in Call /\ Enqueue(p, c) /\ stage' = stage /\ refresh' = refresh
          BY <4>3, NewCallType DEF Durably
        <5> QED
          BY <4>1, <5>1
      <4>4. ASSUME NEW C \in Refreshes, RefreshCall(p, C) PROVE Shown(p)'
        <5>1. UNCHANGED <<calls, queue, stage>>
          BY <4>4 DEF RefreshCall
        <5>2. refresh'[p].phase # "read"
          <6>1. refresh'[p] = [Idle EXCEPT !.phase = "waiting", !.of = C, !.behind = Len(queue[p])]
            BY <1>1, <4>4 DEF RefreshCall, TypeOK
          <6> QED
            BY <6>1 DEF Idle
        <5>3. \A j : At(p, j)' = At(p, j)
          BY <5>1 DEF At
        <5> QED
          BY <2>1, <5>1, <5>2, <5>3, ShownKept DEF ShownInv
      <4> QED
        BY <1>1, <3>1, <4>2, <4>3, <4>4, CallersCalls
    <3>2. CASE WriteTurn(p)
      <4>1. /\ queue' = queue /\ stage'[p] = "sent" /\ refresh' = refresh
        BY <1>1, <3>2 DEF WriteTurn, TypeOK
      <4> QED
        BY <2>1, <4>1 DEF ShownInv, Shown
    <3>3. CASE WriteRefused(p) \/ WriteFault(p) \/ Conflict(p) \/ Acknowledge(p)
      <4>1. Settle(p) /\ queue[p] # <<>>
        BY <3>3 DEF WriteRefused, WriteFault, WriteFailed, Conflict, Acknowledge, AtStage
      <4>2. /\ stage'[p] = "queued" /\ refresh[p] \in Refresh
            /\ refresh'[p] = [refresh[p] EXCEPT !.behind = Fewer(@)]
        BY <1>1, <4>1, SettleType DEF Settled, TypeOK
      <4>3. /\ refresh'[p].phase = refresh[p].phase /\ refresh'[p].of = refresh[p].of
            /\ refresh'[p].snap = refresh[p].snap
        BY <4>2 DEF Refresh
      <4> QED
        BY <2>1, <4>2, <4>3 DEF ShownInv, Shown
    <3>4. CASE ProbeAnswer(p) \/ CloseBegin(p) \/ Boot(p)
      <4>1. UNCHANGED <<calls, queue, stage, refresh>>
        BY <3>4 DEF ProbeAnswer, CloseBegin, Boot
      <4> QED
        BY <2>1, <4>1 DEF ShownInv, Shown, At
    <3>5. CASE RefreshSelect(p)
      <4> DEFINE snap == [k \in Keys |-> IF k \in KeysOf(refresh[p].of) THEN rows[k] ELSE Absent]
      <4>1. refresh'[p] = [refresh[p] EXCEPT !.phase = "read", !.snap = snap]
        BY <1>1, <3>5 DEF RefreshSelect, TypeOK
      <4>2. refresh'[p].of = refresh[p].of /\ refresh'[p].snap = snap
        <5>1. refresh[p] \in Refresh
          BY <1>1 DEF TypeOK
        <5> HIDE DEF snap
        <5> QED
          BY <4>1, <5>1 DEF Refresh
      <4>3. UNCHANGED <<calls, queue, stage>>
        BY <3>5 DEF RefreshSelect
      <4>4. \A k \in KeysOf(refresh[p].of) : snap[k] = rows[k] /\ k \in Keys
        BY DEF KeysOf
      <4> HIDE DEF snap
      <4> QED
        BY <2>1, <4>2, <4>3, <4>4 DEF ShownInv, Shown, At, RowsInPast
    <3>6. CASE RefreshRefused(p) \/ RefreshFault(p) \/ RefreshPublish(p)
      <4>1. refresh'[p] = Idle /\ queue' = queue /\ stage' = stage
        BY <1>1, <3>6 DEF RefreshRefused, RefreshFault, RefreshPublish, TypeOK
      <4>2. refresh'[p].phase # "read"
        BY <4>1 DEF Idle
      <4>3. SamePositions(p)
        <5>1. CASE RefreshRefused(p) \/ RefreshFault(p)
          BY <4>1, <5>1, PositionsStay DEF RefreshRefused, RefreshFault
        <5>2. CASE RefreshPublish(p)
          <6>1. ASSUME NEW n \in DOMAIN calls
                PROVE  calls'[n].kind = calls[n].kind /\ calls'[n].changes = calls[n].changes
            <7>1. calls'[n] = calls[n] \/ calls'[n] = [calls[n] EXCEPT !.live = FALSE]
              BY <1>1, <5>2, RefreshPublishType
            <7>2. calls[n] \in Call
              BY <1>1 DEF TypeOK
            <7> QED
              BY <7>1, <7>2 DEF Call
          <6> QED
            BY <4>1, <6>1, PositionsStay
        <5> QED
          BY <3>6, <5>1, <5>2
      <4> QED
        BY <2>1, <4>1, <4>2, <4>3, ShownKept DEF ShownInv, SamePositions
    <3>7. CASE CloseEnd(p) \/ Kill(p)
      <4>1. stage'[p] = "queued" /\ refresh'[p] = Idle
        BY <1>1, <3>7 DEF CloseEnd, Kill, Down, TypeOK
      <4>2. refresh'[p].phase # "read"
        BY <4>1 DEF Idle
      <4> QED
        BY <4>1, <4>2 DEF Shown
    <3> QED
      BY <1>4, <3>1, <3>2, <3>3, <3>4, <3>5, <3>6, <3>7 DEF RefreshStep
  <2> QED
    BY <2>1, <2>2, <2>3 DEF ShownInv, RowsInPast
<1> QED
  BY <1>2, <1>3, <1>4 DEF Next, WriteStep

-----------------------------------------------------------------------------
(***************************************************************************)
(* The refinement of OrderedStore                                          *)
(***************************************************************************)

\* What the instance Promise substitutes for made and pending.
Changed == [n \in DOMAIN calls |-> [changes |-> calls[n].changes,
                                 local |-> calls[n].kind \in Local]]
Pending == [p \in Procs |-> IF stage[p] = "applied" THEN Tail(queue[p]) ELSE queue[p]]

LEMMA PromiseNames ==
    /\ Promise!Changes = Changes
    /\ \A n, change : Promise!Written(n, change) = Written(n, change)
    /\ \A changes, r : Promise!Admissible(changes, r) <=> Admissible(changes, r)
    /\ \A n, changes, r : Promise!Applied(n, changes, r) = Applied(n, changes, r)
BY DEF Promise!Changes, Promise!Change, Changes, Change, Promise!Written, Written,
       Promise!Admissible, Admissible, Promise!Applied, Applied

LEMMA PromiseInit == Init => Promise!Init
<1> SUFFICES ASSUME Init PROVE Promise!Init
  OBVIOUS
<1>1. rows \in [Keys -> {Absent, Original}] /\ past = [k \in Keys |-> {rows[k]}]
  BY DEF Init
<1>2. Changed = <<>>
  BY DEF Init, Changed
<1>3. Pending = [p \in Procs |-> <<>>]
  BY DEF Init, Pending
<1>4. cache = [p \in Procs |-> [k \in Keys |-> Absent]]
  BY DEF Init, NoRows
<1> QED
  BY <1>1, <1>2, <1>3, <1>4 DEF Promise!Init, Changed, Pending

\* Settled or killed calls keep what was asked.
LEMMA MadeStays ==
    ASSUME TypeOK, DOMAIN calls' = DOMAIN calls,
           \A n \in DOMAIN calls :
              calls'[n].kind = calls[n].kind /\ calls'[n].changes = calls[n].changes
    PROVE  Changed' = Changed
BY DEF Changed

\* Steps of the database, or of a process, that no caller can see.
LEMMA PromiseStutters ==
    ASSUME rows' = rows, past' = past, Changed' = Changed, Pending' = Pending, cache' = cache
    PROVE  UNCHANGED Promise!vars
BY DEF Promise!vars, Changed, Pending

Accepts(p, changes, local) ==
    /\ Changed' = Append(Changed, [changes |-> changes, local |-> local])
    /\ Pending' = [Pending EXCEPT ![p] = Append(@, Len(Changed) + 1)]
    /\ cache' = IF local THEN [cache EXCEPT ![p] = Applied(Len(Changed) + 1, changes, @)] ELSE cache
    /\ UNCHANGED <<rows, past>>

LEMMA PromiseAccepts ==
    ASSUME NEW p \in Procs, NEW changes \in Changes, NEW local \in BOOLEAN,
           Accepts(p, changes, local)
    PROVE  Promise!Next
<1>1. changes \in Promise!Changes
  BY PromiseNames
<1>2. \A n, r : Promise!Applied(n, changes, r) = Applied(n, changes, r)
  BY PromiseNames
<1>3. Promise!Accept(p)
  BY <1>1, <1>2 DEF Promise!Accept, Accepts, Changed, Pending
<1> QED
  BY <1>3 DEF Promise!Next

LEMMA PromiseTakes ==
    ASSUME NEW p \in Procs, Pending[p] # <<>>,
           Admissible(Changed[Head(Pending[p])].changes, rows),
           rows' = Applied(Head(Pending[p]), Changed[Head(Pending[p])].changes, rows),
           past' = [k \in Keys |-> past[k] \cup {rows'[k]}],
           Pending' = [Pending EXCEPT ![p] = Tail(@)], Changed' = Changed, cache' = cache
    PROVE  Promise!Next
<1>1. Promise!TakeEffect(p)
  BY PromiseNames DEF Promise!TakeEffect, Changed, Pending
<1> QED
  BY <1>1 DEF Promise!Next

LEMMA PromiseRejects ==
    ASSUME NEW p \in Procs, Pending[p] # <<>>, Pending' = [Pending EXCEPT ![p] = Tail(@)],
           rows' = rows, past' = past, Changed' = Changed, cache' = cache
    PROVE  Promise!Next
BY DEF Promise!Next, Promise!Reject, Changed, Pending

LEMMA PromiseSees ==
    ASSUME NEW p \in Procs, NEW K \in SUBSET Keys, NEW seen \in [Keys -> UNION {past[k] : k \in Keys}],
           \A k \in K : seen[k] \in past[k],
           cache' = [cache EXCEPT ![p] = [k \in Keys |-> IF k \in K THEN seen[k] ELSE @[k]]],
           rows' = rows, past' = past, Changed' = Changed, Pending' = Pending
    PROVE  Promise!Next
<1>1. Promise!See(p)
  BY DEF Promise!See, Changed, Pending
<1> QED
  BY <1>1 DEF Promise!Next

LEMMA PromiseRestarts ==
    ASSUME NEW p \in Procs, Pending' = [Pending EXCEPT ![p] = <<>>],
           cache' = [cache EXCEPT ![p] = NoRows],
           rows' = rows, past' = past, Changed' = Changed
    PROVE  Promise!Next
BY DEF Promise!Next, Promise!Restart, Changed, Pending, NoRows

MadeCall == [changes : Changes, local : BOOLEAN]

LEMMA MadeType ==
    ASSUME TypeOK PROVE Changed \in Seq(MadeCall) /\ Len(Changed) = Len(calls)
<1>1. \A n \in 1..Len(calls) : [changes |-> calls[n].changes, local |-> calls[n].kind \in Local]
                                  \in MadeCall
  <2>1. \A n \in 1..Len(calls) : calls[n] \in Call
    BY DEF TypeOK
  <2> QED
    BY <2>1 DEF MadeCall, Call
<1>2. Changed \in [1..Len(calls) -> MadeCall] /\ Len(calls) \in Nat
  BY <1>1 DEF Changed, TypeOK
<1> QED
  BY <1>2

LEMMA EnqueueAccepts ==
    ASSUME QueueInv, TypeOK', NEW p \in Procs, NEW c \in Call, Enqueue(p, c), stage' = stage
    PROVE  /\ Changed' = Append(Changed, [changes |-> c.changes, local |-> c.kind \in Local])
           /\ Pending' = [Pending EXCEPT ![p] = Append(@, Len(Changed) + 1)]
           /\ Len(Changed) = Len(calls)
<1> DEFINE m == [changes |-> c.changes, local |-> c.kind \in Local]
<1>1. TypeOK /\ Enqueued(p, c)
  BY EnqueueType DEF QueueInv
<1>2. /\ Changed \in Seq(MadeCall) /\ Len(Changed) = Len(calls) /\ Len(calls) \in Nat
      /\ Changed' \in Seq(MadeCall) /\ Len(Changed') = Len(calls) + 1
  <2>1. Changed' \in Seq(MadeCall) /\ Len(Changed') = Len(calls')
    <3>1. \A n \in 1..Len(calls') :
             [changes |-> calls'[n].changes, local |-> calls'[n].kind \in Local] \in MadeCall
      <4>1. \A n \in 1..Len(calls') : calls'[n] \in Call
        BY DEF TypeOK
      <4> QED
        BY <4>1 DEF MadeCall, Call
    <3>2. Changed' \in [1..Len(calls') -> MadeCall] /\ Len(calls') \in Nat
      BY <3>1 DEF Changed, TypeOK
    <3> QED
      BY <3>2
  <2> QED
    BY <1>1, <2>1, MadeType DEF Enqueued, TypeOK
<1>3. m \in MadeCall
  BY DEF MadeCall, Call
<1>4. /\ \A n \in DOMAIN calls : Changed'[n] = Changed[n]
      /\ Changed'[Len(calls) + 1] = m
  BY <1>1 DEF Changed, Enqueued
<1>5. Changed' = Append(Changed, m)
  <2> HIDE DEF m
  <2>1. Append(Changed, m) \in Seq(MadeCall) /\ Len(Append(Changed, m)) = Len(calls) + 1
    BY <1>2, <1>3
  <2>2. ASSUME NEW i \in 1..(Len(calls) + 1) PROVE Changed'[i] = Append(Changed, m)[i]
    <3>1. CASE i = Len(calls) + 1
      BY <1>2, <1>4, <3>1
    <3>2. CASE i # Len(calls) + 1
      <4>1. i \in 1..Len(calls) /\ 1..Len(calls) = DOMAIN calls
        BY <1>1, <1>2, <3>2 DEF TypeOK
      <4>2. Append(Changed, m)[i] = Changed[i]
        BY <1>2, <4>1
      <4> QED
        BY <1>4, <4>1, <4>2
    <3> QED
      BY <3>1, <3>2
  <2> QED
    BY <1>2, <2>1, <2>2, SeqEqual
<1>6. Pending' = [Pending EXCEPT ![p] = Append(@, Len(Changed) + 1)]
  <2>1. ASSUME NEW r \in Procs, r # p PROVE Pending'[r] = Pending[r]
    BY <1>1, <2>1 DEF Pending, Enqueued
  <2>2. Pending'[p] = Append(Pending[p], Len(calls) + 1)
    <3>1. queue'[p] = Append(queue[p], Len(calls) + 1) /\ queue[p] \in Seq(Nat)
      BY <1>1 DEF Enqueued, TypeOK
    <3>2. CASE stage[p] = "applied"
      <4>1. queue[p] # <<>>
        BY <3>2 DEF QueueInv, QueuesSound
      <4>2. Tail(Append(queue[p], Len(calls) + 1)) = Append(Tail(queue[p]), Len(calls) + 1)
        <5> DEFINE n == Len(calls) + 1
        <5>1. n \in Nat
          BY <1>2
        <5> HIDE DEF n
        <5>2. /\ Tail(Append(queue[p], n)) \in Seq(Nat) /\ Append(Tail(queue[p]), n) \in Seq(Nat)
              /\ Len(Tail(Append(queue[p], n))) = Len(queue[p])
              /\ Len(Append(Tail(queue[p]), n)) = Len(queue[p])
          BY <3>1, <4>1, <5>1
        <5>3. \A i \in 1..Len(queue[p]) :
                  Tail(Append(queue[p], n))[i] = Append(Tail(queue[p]), n)[i]
          BY <3>1, <4>1, <5>1
        <5>4. Tail(Append(queue[p], n)) = Append(Tail(queue[p]), n)
          BY <5>2, <5>3, SeqEqual
        <5> QED
          BY <5>4 DEF n
      <4> QED
        BY <3>1, <3>2, <4>2 DEF Pending
    <3>3. CASE stage[p] # "applied"
      BY <3>1, <3>3 DEF Pending
    <3> QED
      BY <3>2, <3>3
  <2> QED
    BY <1>2, <2>1, <2>2 DEF Pending
<1> QED
  BY <1>2, <1>5, <1>6

LEMMA CallsRefine ==
    ASSUME QueueInv, QueueInv', NEW p \in Procs, Callers(p)
    PROVE  Promise!Next \/ UNCHANGED Promise!vars
<1>1. TypeOK /\ TypeOK'
  BY DEF QueueInv
<1>2. ASSUME NEW k \in Keys, NEW kind \in Local, NEW change \in {"put", "drop"},
             Locally(p, k, kind, change)
      PROVE  Promise!Next
  <2> DEFINE changes == [x \in {k} |-> change]
             c == NewCall(p, kind, changes, Unseen)
  <2>1. c \in Call /\ Enqueue(p, c) /\ stage' = stage /\ changes \in Changes
    BY <1>2, OneChange, NewCallType, IdleType DEF Locally, Kind, Change
  <2>2. c.changes = changes /\ (c.kind \in Local) = TRUE
    BY DEF NewCall
  <2> HIDE DEF c
  <2>3. /\ Changed' = Append(Changed, [changes |-> changes, local |-> TRUE])
        /\ Pending' = [Pending EXCEPT ![p] = Append(@, Len(Changed) + 1)]
        /\ Len(Changed) = Len(calls)
    BY <1>1, <2>1, <2>2, EnqueueAccepts
  <2>4. cache' = [cache EXCEPT ![p] = Applied(Len(Changed) + 1, changes, @)]
    <3>1. cache' = [cache EXCEPT ![p][k] = Written(Len(calls) + 1, change)]
      BY <1>2 DEF Locally
    <3>2. cache[p] \in [Keys -> Value] /\ cache \in [Procs -> [Keys -> Value]]
      BY <1>1 DEF TypeOK
    <3>3. Applied(Len(calls) + 1, changes, cache[p])
             = [cache[p] EXCEPT ![k] = Written(Len(calls) + 1, change)]
      BY <3>2 DEF Applied
    <3> HIDE DEF changes
    <3> QED
      BY <2>3, <3>1, <3>2, <3>3
  <2>5. rows' = rows /\ past' = past
    BY <1>2 DEF Locally
  <2> HIDE DEF changes
  <2> QED
    BY <2>1, <2>3, <2>4, <2>5, PromiseAccepts DEF Accepts
<1>3. ASSUME NEW kind \in Kind \ Local, NEW changes \in Changes, NEW seen \in [Keys -> Nat],
             Durably(p, kind, changes, seen)
      PROVE  Promise!Next
  <2> DEFINE c == NewCall(p, kind, changes, seen)
  <2>1. c \in Call /\ Enqueue(p, c) /\ stage' = stage
    BY <1>3, NewCallType DEF Durably
  <2>2. c.changes = changes /\ (c.kind \in Local) = FALSE
    BY <1>3 DEF NewCall
  <2> HIDE DEF c
  <2>3. /\ Changed' = Append(Changed, [changes |-> changes, local |-> FALSE])
        /\ Pending' = [Pending EXCEPT ![p] = Append(@, Len(Changed) + 1)]
    BY <1>1, <2>1, <2>2, EnqueueAccepts
  <2>4. rows' = rows /\ past' = past /\ cache' = cache
    BY <1>3 DEF Durably, history
  <2> QED
    BY <2>3, <2>4, PromiseAccepts DEF Accepts
<1>4. ASSUME NEW C \in Refreshes, RefreshCall(p, C) PROVE UNCHANGED Promise!vars
  BY <1>4, PromiseStutters DEF RefreshCall, history, Changed, Pending
<1> QED
  BY <1>1, <1>2, <1>3, <1>4, CallersCalls

\* A write that ends before it is executed is rejected; one that ends after is
\* no longer pending.
LEMMA SettleRefines ==
    ASSUME QueueInv, NEW p \in Procs, queue[p] # <<>>, Settle(p)
    PROVE  /\ Changed' = Changed
           /\ stage[p] = "applied" => Pending' = Pending
           /\ stage[p] # "applied" => /\ Pending[p] # <<>>
                                      /\ Pending' = [Pending EXCEPT ![p] = Tail(@)]
<1>1. TypeOK /\ Settled(p)
  BY SettleType DEF QueueInv
<1>2. Changed' = Changed
  BY <1>1, SettlePositions, MadeStays DEF Settled
<1>3. /\ \A r \in Procs : r # p => Pending'[r] = Pending[r]
      /\ Pending'[p] = Tail(queue[p])
  BY <1>1 DEF Settled, Pending
<1>4. Pending' = [r \in Procs |-> Pending'[r]] /\ Pending = [r \in Procs |-> Pending[r]]
  BY DEF Pending
<1> QED
  BY <1>2, <1>3, <1>4 DEF Pending

LEMMA CommitRefines ==
    ASSUME QueueInv, NEW p \in Procs, Commit(p)
    PROVE  Promise!Next
<1>1. /\ TypeOK /\ queue[p] # <<>> /\ stage[p] = "sent" /\ stage' = [stage EXCEPT ![p] = "applied"]
      /\ UNCHANGED <<calls, cache, queue>>
      /\ Admissible(HeadCall(p).changes, rows)
      /\ rows' = Applied(Head(queue[p]), HeadCall(p).changes, rows)
      /\ past' = [k \in Keys |-> past[k] \cup {rows'[k]}]
  BY DEF QueueInv, Commit, AtStage
<1>2. Pending[p] = queue[p] /\ Changed' = Changed
  BY <1>1 DEF Pending, Changed
<1>3. Changed[Head(queue[p])].changes = HeadCall(p).changes
  <2>1. Head(queue[p]) \in DOMAIN calls
    BY <1>1, HeadIsFirst DEF HeadFirst
  <2> QED
    BY <2>1 DEF Changed, HeadCall
<1>4. Pending' = [Pending EXCEPT ![p] = Tail(@)]
  BY <1>1, <1>2 DEF Pending, TypeOK
<1> QED
  BY <1>1, <1>2, <1>3, <1>4, PromiseTakes

LEMMA AcknowledgeRefines ==
    ASSUME QueueInv, ShownInv, RowsInPast, NEW p \in Procs, Acknowledge(p)
    PROVE  Promise!Next
<1>1. /\ TypeOK /\ queue[p] # <<>> /\ stage[p] = "applied" /\ Settle(p)
      /\ rows' = rows /\ past' = past
      /\ cache' = [cache EXCEPT ![p] = Published(p, Head(queue[p]))]
  BY DEF QueueInv, Acknowledge, AtStage, history
<1>2. /\ Head(queue[p]) = queue[p][1] /\ calls[Head(queue[p])] = At(p, 1)
      /\ DOMAIN At(p, 1).changes \subseteq Keys
  BY <1>1, HeadIsFirst, HeadKeys DEF HeadFirst, At
<1> DEFINE K == {k \in Keys : k \in Publishes(p, Head(queue[p]))}
           seen == [k \in Keys |-> IF k \in K THEN Written(queue[p][1], At(p, 1).changes[k])
                                   ELSE rows[k]]
<1>3. K \in SUBSET Keys /\ K \subseteq DOMAIN At(p, 1).changes
  BY <1>2 DEF Publishes
<1>4. \A k \in Keys : seen[k] \in past[k]
  BY <1>1, <1>3 DEF ShownInv, Shown, RowsInPast
<1>5. seen \in [Keys -> UNION {past[k] : k \in Keys}]
  <2>1. \A k \in Keys : seen[k] \in UNION {past[x] : x \in Keys}
    BY <1>4
  <2> QED
    BY <2>1
<1>6. Published(p, Head(queue[p])) = [k \in Keys |-> IF k \in K THEN seen[k] ELSE cache[p][k]]
  BY <1>2 DEF Published
<1>7. cache' = [cache EXCEPT ![p] = [k \in Keys |-> IF k \in K THEN seen[k] ELSE @[k]]]
  <2> HIDE DEF K, seen
  <2> QED
    BY <1>1, <1>6 DEF TypeOK
<1>8. Changed' = Changed /\ Pending' = Pending
  BY <1>1, SettleRefines
<1> HIDE DEF K, seen
<1> QED
  BY <1>1, <1>3, <1>4, <1>5, <1>7, <1>8, PromiseSees

LEMMA RefreshPublishRefines ==
    ASSUME QueueInv, ShownInv, RowsInPast, NEW p \in Procs, RefreshPublish(p)
    PROVE  Promise!Next
<1> DEFINE K == KeysOf(refresh[p].of)
           seen == [k \in Keys |-> IF k \in K THEN refresh[p].snap[k] ELSE rows[k]]
<1>1. /\ TypeOK /\ refresh[p].phase = "read" /\ rows' = rows /\ past' = past
      /\ queue' = queue /\ stage' = stage
      /\ cache' = [cache EXCEPT ![p] = [k \in Keys |-> IF k \in K THEN refresh[p].snap[k] ELSE @[k]]]
  BY DEF QueueInv, RefreshPublish
<1>2. K \in SUBSET Keys
  BY DEF KeysOf
<1>3. \A k \in Keys : seen[k] \in past[k]
  BY <1>1 DEF ShownInv, Shown, RowsInPast
<1>4. seen \in [Keys -> UNION {past[k] : k \in Keys}]
  <2>1. \A k \in Keys : seen[k] \in UNION {past[x] : x \in Keys}
    BY <1>3
  <2> QED
    BY <2>1
<1>5. \A k \in K : seen[k] = refresh[p].snap[k]
  BY <1>2
<1>6. cache' = [cache EXCEPT ![p] = [k \in Keys |-> IF k \in K THEN seen[k] ELSE @[k]]]
  <2> HIDE DEF K, seen
  <2> QED
    BY <1>1, <1>5 DEF TypeOK
<1>7. Changed' = Changed
  <2>1. ASSUME NEW n \in DOMAIN calls
        PROVE  calls'[n].kind = calls[n].kind /\ calls'[n].changes = calls[n].changes
    <3>1. calls'[n] = calls[n] \/ calls'[n] = [calls[n] EXCEPT !.live = FALSE]
      BY <1>1, RefreshPublishType
    <3>2. calls[n] \in Call
      BY <1>1 DEF TypeOK
    <3> QED
      BY <3>1, <3>2 DEF Call
  <2> QED
    BY <1>1, <2>1, RefreshPublishType, MadeStays
<1>8. Pending' = Pending
  BY <1>1 DEF Pending
<1> HIDE DEF K, seen
<1> QED
  BY <1>1, <1>2, <1>3, <1>4, <1>6, <1>7, <1>8, PromiseSees

LEMMA ProcessRefines ==
    ASSUME QueueInv, RowsInPast, NEW p \in Procs,
           ProbeAnswer(p) \/ Boot(p) \/ CloseBegin(p) \/ CloseEnd(p) \/ Kill(p)
    PROVE  Promise!Next \/ UNCHANGED Promise!vars
<1>1. TypeOK
  BY DEF QueueInv
<1>2. CASE ProbeAnswer(p) \/ CloseBegin(p)
  BY <1>2, PromiseStutters DEF ProbeAnswer, CloseBegin, history, Changed, Pending
<1>3. CASE Boot(p)
  <2>1. /\ rows' = rows /\ past' = past /\ UNCHANGED <<calls, queue, stage>>
        /\ cache' = [cache EXCEPT ![p] = rows] /\ rows \in [Keys -> Value]
    BY <1>1, <1>3 DEF Boot, TypeOK
  <2>2. rows \in [Keys -> UNION {past[k] : k \in Keys}]
    <3>1. \A k \in Keys : rows[k] \in UNION {past[x] : x \in Keys}
      BY DEF RowsInPast
    <3> QED
      BY <2>1, <3>1
  <2>3. cache' = [cache EXCEPT ![p] = [k \in Keys |-> IF k \in Keys THEN rows[k] ELSE @[k]]]
    <3>1. [k \in Keys |-> IF k \in Keys THEN rows[k] ELSE cache[p][k]] = rows
      BY <2>1
    <3> QED
      BY <2>1, <3>1
  <2>4. Changed' = Changed /\ Pending' = Pending
    BY <2>1 DEF Changed, Pending
  <2>5. Keys \in SUBSET Keys /\ \A k \in Keys : rows[k] \in past[k]
    BY DEF RowsInPast
  <2> QED
    BY <2>1, <2>2, <2>3, <2>4, <2>5, PromiseSees
<1>4. CASE CloseEnd(p) \/ Kill(p)
  <2>1. PICK fate \in {"settled", "cut"} : Down(p, fate)
    BY <1>4 DEF CloseEnd, Kill
  <2>2. Changed' = Changed
    <3>1. ASSUME NEW n \in DOMAIN calls
          PROVE  calls'[n].kind = calls[n].kind /\ calls'[n].changes = calls[n].changes
      <4>1. calls[n] \in Call
        BY <1>1 DEF TypeOK
      <4>2. LET e == Ended(calls[n], fate) IN e.kind = calls[n].kind /\ e.changes = calls[n].changes
        BY <4>1, EndedFields
      <4>3. calls'[n] = calls[n] \/ calls'[n] = Ended(calls[n], fate)
        BY <1>1, <2>1, DownType DEF Fate
      <4> QED
        BY <4>2, <4>3
    <3> QED
      BY <1>1, <2>1, <3>1, DownType, MadeStays DEF Fate
  <2>3. /\ rows' = rows /\ past' = past /\ cache' = [cache EXCEPT ![p] = NoRows]
        /\ queue' = [queue EXCEPT ![p] = <<>>] /\ stage' = [stage EXCEPT ![p] = "queued"]
    BY <2>1 DEF Down, history
  <2>4. Pending' = [Pending EXCEPT ![p] = <<>>]
    BY <1>1, <2>3 DEF Pending, TypeOK
  <2> QED
    BY <2>2, <2>3, <2>4, PromiseRestarts
<1> QED
  BY <1>2, <1>3, <1>4

\* PostgresStorageProvider keeps what OrderedStore promises: accepted writes
\* take effect in order, entirely or not at all, and a process shows only what
\* was stored or what it wrote.
THEOREM StoreKeepsItsPromise == Spec => ImplementsOrderedStore
<1> DEFINE Inv == QueueInv /\ ShownInv /\ RowsInPast
<1>1. Init => Inv
  <2> SUFFICES ASSUME Init PROVE ShownInv /\ RowsInPast
    BY InitQueues
  <2> QED
    BY DEF Init, ShownInv, Shown, RowsInPast, Idle
<1>2. Inv /\ [Next]_vars => Inv'
  BY NextQueues, NextShown
<1>3. Inv /\ Inv' /\ [Next]_vars => [Promise!Next]_(Promise!vars)
  <2> SUFFICES ASSUME Inv, Inv', Next \/ UNCHANGED vars
               PROVE  Promise!Next \/ UNCHANGED Promise!vars
    OBVIOUS
  <2>1. CASE UNCHANGED vars
    BY <2>1, PromiseStutters DEF vars, history, Changed, Pending
  <2>2. CASE Next
    <3>1. PICK p \in Procs : \/ Callers(p) \/ WriteStep(p) \/ WriteFault(p)
                             \/ ProbeAnswer(p) \/ RefreshStep(p) \/ RefreshFault(p)
                             \/ Boot(p) \/ CloseBegin(p) \/ CloseEnd(p) \/ Kill(p)
      BY <2>2 DEF Next
    <3>2. TypeOK
      BY DEF QueueInv
    <3>3. CASE Callers(p)
      BY <3>3, CallsRefine
    <3>4. CASE WriteTurn(p)
      <4>1. \A n \in DOMAIN calls :
               calls'[n].kind = calls[n].kind /\ calls'[n].changes = calls[n].changes
        <5> SUFFICES ASSUME NEW n \in DOMAIN calls
                     PROVE  calls'[n].kind = calls[n].kind /\ calls'[n].changes = calls[n].changes
          OBVIOUS
        <5>1. \/ calls'[n] = calls[n]
              \/ \E seen \in [Keys -> Nat] : calls'[n] = [calls[n] EXCEPT !.seen = seen]
          BY <3>2, <3>4, WriteTurnType
        <5>2. calls[n] \in Call
          BY <3>2 DEF TypeOK
        <5> QED
          BY <5>1, <5>2 DEF Call
      <4>2. Changed' = Changed
        BY <3>2, <3>4, <4>1, WriteTurnType, MadeStays
      <4>3. /\ rows' = rows /\ past' = past /\ cache' = cache /\ queue' = queue
            /\ stage[p] = "queued" /\ stage' = [stage EXCEPT ![p] = "sent"]
        BY <3>4 DEF WriteTurn, AtStage, history
      <4>4. Pending' = Pending
        BY <3>2, <4>3 DEF Pending, TypeOK
      <4> QED
        BY <4>2, <4>3, <4>4, PromiseStutters
    <3>5. CASE Commit(p)
      BY <3>5, CommitRefines
    <3>6. CASE Acknowledge(p)
      BY <3>6, AcknowledgeRefines
    <3>7. CASE WriteRefused(p) \/ WriteFault(p) \/ Conflict(p)
      <4>1. /\ queue[p] # <<>> /\ Settle(p) /\ rows' = rows /\ past' = past /\ cache' = cache
        BY <3>7 DEF WriteRefused, WriteFault, WriteFailed, Conflict, AtStage, history
      <4> QED
        BY <4>1, SettleRefines, PromiseRejects, PromiseStutters
    <3>8. CASE RefreshSelect(p) \/ RefreshRefused(p) \/ RefreshFault(p)
      BY <3>8, PromiseStutters
         DEF RefreshSelect, RefreshRefused, RefreshFault, history, Changed, Pending
    <3>9. CASE RefreshPublish(p)
      BY <3>9, RefreshPublishRefines
    <3>10. CASE ProbeAnswer(p) \/ Boot(p) \/ CloseBegin(p) \/ CloseEnd(p) \/ Kill(p)
      BY <3>10, ProcessRefines
    <3> QED
      BY <3>1, <3>3, <3>4, <3>5, <3>6, <3>7, <3>8, <3>9, <3>10 DEF WriteStep, RefreshStep
  <2> QED
    BY <2>1, <2>2
<1> QED
  BY <1>1, <1>2, <1>3, PromiseInit, PTL DEF Spec, ImplementsOrderedStore, Promise!Spec

-----------------------------------------------------------------------------
(***************************************************************************)
(* Packages of artifacts                                                   *)
(***************************************************************************)

Contents == [of: Writers, edited: {"yes", "no"},
             mode: {"none", "lua-owned", "materialized-world"}]
Ids == Writers \X Nat
Refs == [id: Ids, content: Contents]
Names == Seq(Writers \cup Nat) \ {<<>>}
Items == [stage: Stages, content: Contents]
Artifact == [package: Names, stage: Stages, content: Contents, binds: SUBSET Refs]
Holds == UNION {[S -> Refs] : S \in SUBSET Stages}
WriterRecord ==
    [state: {"idle", "asking", "writing", "done", "failed"},
     package: Names \cup {NoPackage}, parent: Names \cup {NoPackage},
     todo: Seq(Items), held: Holds, replaced: SUBSET Refs, publishes: {"yes", "no"}]

\* The artifacts w has stored are numbered, so that the next id is a new one.
StoredBy(w) == {id \in DOMAIN artifacts : id[1] = w}
ArtifactShape ==
    /\ DOMAIN artifacts \subseteq Ids /\ IsFiniteSet(DOMAIN artifacts)
    /\ \A id \in DOMAIN artifacts :
        /\ artifacts[id] \in Artifact
        /\ \A ref \in artifacts[id].binds : ref.id \in DOMAIN artifacts
        /\ id[2] < Cardinality(StoredBy(id[1]))
    /\ DOMAIN markers \subseteq Names /\ \A p \in DOMAIN markers : markers[p] \in SUBSET Refs
    /\ writer \in [Writers -> WriterRecord]
    /\ attempts \in Seq(Names)
    /\ active \in Packages \cup {NoPackage}

\* Content by v is only there once v has begun to write.
Begun(v) == writer[v].state \notin {"idle", "asking"}
ContentsBegun ==
    /\ \A id \in DOMAIN artifacts : Begun(ContentOf(id).of)
    /\ \A w \in Writers : \A i \in DOMAIN writer[w].todo : Begun(writer[w].todo[i].content.of)

\* What w holds is what it stored in its package, latest of its stage.
Holding(w, s) ==
    LET ref == writer[w].held[s]
    IN  /\ ref.id \in DOMAIN artifacts /\ ref.id[1] = w
        /\ artifacts[ref.id].package = writer[w].package /\ StageOf(ref.id) = s
WriterSound(w) ==
    /\ ~Begun(w) => DOMAIN writer[w].held = {}
    /\ writer[w].state = "asking" => /\ w \in Repairs /\ writer[w].parent \in Names
                                     /\ HasLua(writer[w].parent)
    /\ writer[w].state = "writing" =>
        /\ writer[w].package \in Names
        /\ w \in Repairs => writer[w].parent \in Names
    /\ \A s \in DOMAIN writer[w].held : Holding(w, s)
    /\ \A ref \in writer[w].replaced : ref.id \in DOMAIN artifacts

\* The stages of what w has still to store, from its i-th on and before it.
From(w, i) == {writer[w].todo[k].stage : k \in {k \in DOMAIN writer[w].todo : i <= k}}
Before(w, i) == {writer[w].todo[k].stage : k \in {k \in DOMAIN writer[w].todo : k < i}}
AllStages(w) == DOMAIN writer[w].held \cup From(w, 1)

\* What w made of stage s is bound to what it holds of the stages s is derived
\* from, and goes on to hold.
BoundToHeld(w, s) ==
    LET held == writer[w].held
    IN  held[s].content.of = w =>
            \A u \in Upstream[s] : /\ u \in DOMAIN held /\ u \notin From(w, 1)
                                   /\ held[u] \in artifacts[held[s].id].binds
\* What w will make is derived from what it will hold by then.
BindsLater(w, i) ==
    writer[w].todo[i].content.of = w =>
        \A u \in Upstream[writer[w].todo[i].stage] :
            u \in DOMAIN writer[w].held \cup Before(w, i) /\ u \notin From(w, i)

RepairItem(w, s, content) ==
    /\ s # "VALIDATION" /\ (s \in Remade => content.of = w)
    /\ s = "WORLD_MODEL" => content.mode # "materialized-world"
RepairSound(w) ==
    /\ writer[w].parent \in Names
    /\ \E n \in Nat : writer[w].package = Append(writer[w].parent, n)
    /\ \A s \in DOMAIN writer[w].held : RepairItem(w, s, writer[w].held[s].content)
    /\ \A i \in DOMAIN writer[w].todo :
        RepairItem(w, writer[w].todo[i].stage, writer[w].todo[i].content)
    /\ \E ref \in writer[w].replaced : artifacts[ref.id].package = writer[w].parent
    /\ "LUA_GENERATION" \in DOMAIN writer[w].held =>
        writer[w].replaced \subseteq artifacts[writer[w].held["LUA_GENERATION"].id].binds

\* A package that is going to be published will be coherent.
WillPublish(w) == writer[w].state = "writing" /\ writer[w].publishes = "yes"
PublishSound(w) ==
    /\ {"WORLD_MODEL", "LUA_GENERATION"} \subseteq AllStages(w)
    /\ \A s \in DOMAIN writer[w].held : BoundToHeld(w, s)
    /\ \A i \in DOMAIN writer[w].todo : BindsLater(w, i)
    /\ w \in Generations => AllStages(w) = Stages /\ writer[w].package = <<w>>
    /\ w \in Repairs => RepairSound(w)

\* What a marker names of stage s.
Named(p, s) == {ref \in markers[p] : StageOf(ref.id) = s}
MarkerSound(p) ==
    /\ \A ref \in markers[p] : ref.id \in Stored(p)
    /\ \A ref, other \in markers[p] : StageOf(ref.id) = StageOf(other.id) => ref = other
    /\ Named(p, "WORLD_MODEL") # {} /\ Named(p, "LUA_GENERATION") # {}
    /\ \A ref \in markers[p] : ref.content.of = ref.id[1] =>
        \A u \in Upstream[StageOf(ref.id)] :
            \E up \in Named(p, u) : up \in artifacts[ref.id].binds
    /\ Len(p) = 1 => \A s \in Stages : Named(p, s) # {}
    /\ Len(p) # 1 =>
        /\ \A ref \in markers[p] : RepairItem(ref.id[1], StageOf(ref.id), ref.content)
        /\ \A ref \in Named(p, "LUA_GENERATION") : \E up \in artifacts[ref.id].binds :
              artifacts[up.id].package = SubSeq(p, 1, Len(p) - 1)

PackageInv ==
    /\ ArtifactShape /\ ContentsBegun
    /\ \A w \in Writers : WriterSound(w) /\ (WillPublish(w) => PublishSound(w))
    /\ \A p \in DOMAIN markers : MarkerSound(p)

\* No artifact is lost, moved, or bound anew; only its content may be edited.
Keeps ==
    \A id \in DOMAIN artifacts :
        /\ id \in DOMAIN artifacts'
        /\ artifacts'[id].package = artifacts[id].package
        /\ artifacts'[id].stage = artifacts[id].stage
        /\ artifacts'[id].binds = artifacts[id].binds

LEMMA KeepsMarker ==
    ASSUME Keeps, ArtifactShape, NEW p \in DOMAIN markers, MarkerSound(p),
           markers'[p] = markers[p]
    PROVE  MarkerSound(p)'
<1>1. \A ref \in markers[p] :
        /\ ref.id \in DOMAIN artifacts /\ artifacts[ref.id].package = p
        /\ \A up \in artifacts[ref.id].binds : up.id \in DOMAIN artifacts
  BY DEF MarkerSound, Stored, ArtifactShape
<1>2. \A ref \in markers[p] :
        /\ ref.id \in Stored(p)' /\ StageOf(ref.id)' = StageOf(ref.id)
        /\ artifacts'[ref.id].binds = artifacts[ref.id].binds
  BY <1>1 DEF Keeps, Stored, StageOf
<1>3. \A s : Named(p, s)' = Named(p, s)
  BY <1>2 DEF Named
<1>4. \A ref \in markers[p] : \A up \in artifacts[ref.id].binds :
        artifacts'[up.id].package = artifacts[up.id].package
  BY <1>1 DEF Keeps
<1>5. \A ref \in markers[p] : ref.content.of = ref.id[1] =>
        \A u \in Upstream[StageOf(ref.id)] :
            \E up \in Named(p, u) : up \in artifacts[ref.id].binds
  BY DEF MarkerSound
<1>6. Len(p) # 1 => \A ref \in Named(p, "LUA_GENERATION") : \E up \in artifacts[ref.id].binds :
              artifacts[up.id].package = SubSeq(p, 1, Len(p) - 1)
  BY DEF MarkerSound
<1>7. Len(p) # 1 => \A ref \in Named(p, "LUA_GENERATION") : \E up \in artifacts'[ref.id].binds :
              artifacts'[up.id].package = SubSeq(p, 1, Len(p) - 1)
  BY <1>2, <1>4, <1>6 DEF Named
<1>8. Len(p) # 1 => \A ref \in markers[p] : RepairItem(ref.id[1], StageOf(ref.id), ref.content)
  BY DEF MarkerSound
<1>9. \A ref \in markers[p] : ref.content.of = ref.id[1] =>
        \A u \in Upstream[StageOf(ref.id)'] :
            \E up \in Named(p, u)' : up \in artifacts'[ref.id].binds
  BY <1>2, <1>3, <1>5
<1>10. Len(p) # 1 => \A ref \in markers[p] : RepairItem(ref.id[1], StageOf(ref.id)', ref.content)
  BY <1>2, <1>8
<1>11. /\ \A ref, other \in markers[p] :
            StageOf(ref.id)' = StageOf(other.id)' => ref = other
       /\ Named(p, "WORLD_MODEL")' # {} /\ Named(p, "LUA_GENERATION")' # {}
       /\ Len(p) = 1 => \A s \in Stages : Named(p, s)' # {}
  BY <1>2, <1>3 DEF MarkerSound
<1> QED BY <1>2, <1>3, <1>7, <1>9, <1>10, <1>11 DEF MarkerSound

LEMMA KeepsWriter ==
    ASSUME Keeps, ArtifactShape, NEW w \in Writers, WriterSound(w),
           writer'[w] = writer[w]
    PROVE  WriterSound(w)'
<1>1. \A s \in DOMAIN writer[w].held : Holding(w, s)'
  BY DEF WriterSound, Holding, Keeps, StageOf
<1>2. HasLua(writer[w].parent) => HasLua(writer[w].parent)'
  BY DEF HasLua, Keeps, Stored, StageOf
<1>3. \A ref \in writer[w].replaced : ref.id \in DOMAIN artifacts'
  BY DEF WriterSound, Keeps
<1> QED BY <1>1, <1>2, <1>3 DEF WriterSound, Begun

LEMMA KeepsPublish ==
    ASSUME Keeps, ArtifactShape, NEW w \in Writers, WriterSound(w), PublishSound(w),
           writer'[w] = writer[w]
    PROVE  PublishSound(w)'
<1>1. \A i : From(w, i)' = From(w, i) /\ Before(w, i)' = Before(w, i)
  BY DEF From, Before
<1>2. \A s \in DOMAIN writer[w].held :
        artifacts'[writer[w].held[s].id].binds = artifacts[writer[w].held[s].id].binds
  BY DEF WriterSound, Holding, Keeps
<1>3. \A ref \in writer[w].replaced : artifacts'[ref.id].package = artifacts[ref.id].package
  BY DEF WriterSound, Keeps
<1>4. \A s \in DOMAIN writer[w].held : BoundToHeld(w, s)'
  BY <1>1, <1>2 DEF PublishSound, BoundToHeld
<1>5. \A i \in DOMAIN writer[w].todo : BindsLater(w, i)'
  BY <1>1 DEF PublishSound, BindsLater
<1>6. RepairSound(w) => RepairSound(w)'
  BY <1>2, <1>3 DEF RepairSound
<1>7. AllStages(w)' = AllStages(w)
  BY <1>1 DEF AllStages
<1> QED BY <1>4, <1>5, <1>6, <1>7 DEF PublishSound

\* A step is one of those that leave the writers and packages it does not touch.
LEMMA StepSound ==
    ASSUME PackageInv, Keeps, ArtifactShape', ContentsBegun',
           \A w \in Writers : \/ writer'[w] = writer[w]
                              \/ WriterSound(w)' /\ (WillPublish(w)' => PublishSound(w)'),
           \A p \in DOMAIN markers' : \/ p \in DOMAIN markers /\ markers'[p] = markers[p]
                                      \/ MarkerSound(p)'
    PROVE  PackageInv'
<1>1. ASSUME NEW w \in Writers, writer'[w] = writer[w]
      PROVE  WriterSound(w)' /\ (WillPublish(w)' => PublishSound(w)')
  <2>1. WriterSound(w) /\ (WillPublish(w) => PublishSound(w)) /\ ArtifactShape
    BY DEF PackageInv
  <2>2. WillPublish(w)' => WillPublish(w)
    BY <1>1 DEF WillPublish
  <2> QED BY <1>1, <2>1, <2>2, KeepsWriter, KeepsPublish
<1>2. ASSUME NEW p \in DOMAIN markers, markers'[p] = markers[p] PROVE MarkerSound(p)'
  BY <1>2, KeepsMarker DEF PackageInv
<1> QED BY <1>1, <1>2 DEF PackageInv

BegunNext(v) == writer'[v].state \notin {"idle", "asking"}

\* The writer w is x next, and nothing it has stored changes.
LEMMA WriterShape ==
    ASSUME PackageInv, NEW w \in Writers, NEW x \in WriterRecord,
           writer' = [writer EXCEPT ![w] = x], UNCHANGED <<artifacts, active>>,
           attempts' \in Seq(Names), DOMAIN markers' \subseteq Names,
           \A p \in DOMAIN markers' : markers'[p] \in SUBSET Refs,
           Begun(w) => BegunNext(w),
           \A i \in DOMAIN x.todo : BegunNext(x.todo[i].content.of)
    PROVE  ArtifactShape' /\ ContentsBegun' /\ Keeps
<1>1. writer \in [Writers -> WriterRecord] /\ ArtifactShape
  BY DEF PackageInv, ArtifactShape
<1>2. ArtifactShape'
  <2>1. writer' \in [Writers -> WriterRecord]
    BY <1>1
  <2>2. \A v : StoredBy(v)' = StoredBy(v)
    BY DEF StoredBy
  <2> QED BY <1>1, <2>1, <2>2 DEF ArtifactShape, Packages
<1>3. \A v \in Writers : Begun(v) => BegunNext(v)
  BY <1>1 DEF Begun, BegunNext
<1>4. ContentsBegun'
  <2>1. \A id \in DOMAIN artifacts : BegunNext(artifacts[id].content.of)
    <3> TAKE id \in DOMAIN artifacts
    <3>1. Begun(artifacts[id].content.of)
      BY DEF PackageInv, ContentsBegun, ContentOf
    <3>2. artifacts[id].content.of \in Writers
      BY <1>1 DEF ArtifactShape, Artifact, Contents
    <3> QED BY <1>3, <3>1, <3>2
  <2>2. ASSUME NEW v \in Writers, NEW i \in DOMAIN writer'[v].todo
        PROVE  BegunNext(writer'[v].todo[i].content.of)
    <3>1. CASE v = w
      <4>1. writer'[v] = x
        BY <1>1, <3>1
      <4> QED BY <2>2, <4>1
    <3>2. CASE v # w
      <4>1. writer'[v] = writer[v]
        BY <1>1, <3>2
      <4>2. Begun(writer[v].todo[i].content.of)
        BY <2>2, <4>1 DEF PackageInv, ContentsBegun
      <4>3. writer[v].todo \in Seq(Items) /\ i \in DOMAIN writer[v].todo
        BY <1>1, <2>2, <4>1 DEF WriterRecord
      <4>4. writer[v].todo[i] \in Items
        BY <4>3, ElementOfSeq, LenProperties
      <4>5. writer[v].todo[i].content.of \in Writers
        BY <4>4 DEF Items, Contents
      <4> QED BY <1>3, <4>1, <4>2, <4>5
    <3> QED BY <3>1, <3>2
  <2> QED BY <2>1, <2>2 DEF ContentsBegun, Begun, BegunNext, ContentOf
<1>5. Keeps
  BY DEF Keeps
<1> QED BY <1>2, <1>4, <1>5

\* A writer that ends as it is, or has nothing to repair.
LEMMA EndSound ==
    ASSUME PackageInv, NEW w \in Writers, NEW end \in {"done", "failed"},
           writer' = [writer EXCEPT ![w].state = end], UNCHANGED <<artifacts, active>>,
           attempts' \in Seq(Names),
           \/ UNCHANGED markers
           \/ /\ DOMAIN markers' \subseteq Names
              /\ \A p \in DOMAIN markers' : markers'[p] \in SUBSET Refs
              /\ \A p \in DOMAIN markers' : \/ p \in DOMAIN markers /\ markers'[p] = markers[p]
                                            \/ MarkerSound(p)'
    PROVE  PackageInv'
<1>1. /\ writer \in [Writers -> WriterRecord] /\ DOMAIN markers \subseteq Names
      /\ \A p \in DOMAIN markers : markers[p] \in SUBSET Refs
  BY DEF PackageInv, ArtifactShape
<1>2. PICK x : x = [writer[w] EXCEPT !.state = end]
  OBVIOUS
<1>3. x \in WriterRecord /\ x.todo = writer[w].todo /\ x.state = end /\ x.held = writer[w].held
      /\ x.package = writer[w].package /\ x.replaced = writer[w].replaced
  BY <1>1, <1>2 DEF WriterRecord
<1>4. writer' = [writer EXCEPT ![w] = x] /\ writer'[w] = x
  BY <1>1, <1>2
<1>5. BegunNext(w)
  BY <1>3, <1>4 DEF BegunNext
<1>6. \A i \in DOMAIN x.todo : BegunNext(x.todo[i].content.of)
  <2> TAKE i \in DOMAIN x.todo
  <2>1. Begun(x.todo[i].content.of)
    BY <1>3 DEF PackageInv, ContentsBegun
  <2>2. x.todo[i] \in Items
    <3>1. x.todo \in Seq(Items)
      BY <1>3 DEF WriterRecord
    <3> QED BY <3>1, ElementOfSeq, LenProperties
  <2>3. x.todo[i].content.of \in Writers
    BY <2>2 DEF Items, Contents
  <2> QED BY <1>1, <1>4, <1>5, <2>1, <2>3 DEF Begun, BegunNext
<1>7. /\ DOMAIN markers' \subseteq Names
      /\ \A p \in DOMAIN markers' : markers'[p] \in SUBSET Refs
      /\ \A p \in DOMAIN markers' : \/ p \in DOMAIN markers /\ markers'[p] = markers[p]
                                    \/ MarkerSound(p)'
  BY <1>1
<1>8. ArtifactShape' /\ ContentsBegun' /\ Keeps
  BY <1>3, <1>4, <1>5, <1>6, <1>7, WriterShape
<1>9. WriterSound(w)' /\ ~WillPublish(w)'
  BY <1>3, <1>4 DEF PackageInv, WriterSound, WillPublish, Holding, StageOf, Begun
<1>10. \A v \in Writers : v # w => writer'[v] = writer[v]
  BY <1>1, <1>4
<1> QED BY <1>7, <1>8, <1>9, <1>10, StepSound

-----------------------------------------------------------------------------

LEMMA StageFacts ==
    /\ RecordOrder \in Seq(Stages) /\ Len(RecordOrder) = 6 /\ DOMAIN RecordOrder = 1..6
    /\ Stages = {"GAME_DESIGN", "LUA_GENERATION", "WORLD_MODEL", "GAME_DNA",
                 "SECURITY_REVIEW", "VALIDATION"}
    /\ RecordOrder[1] = "GAME_DESIGN" /\ RecordOrder[2] = "LUA_GENERATION"
    /\ RecordOrder[3] = "WORLD_MODEL" /\ RecordOrder[4] = "GAME_DNA"
    /\ RecordOrder[5] = "SECURITY_REVIEW" /\ RecordOrder[6] = "VALIDATION"
<1>1. Len(RecordOrder) = 6 /\ DOMAIN RecordOrder = 1..6
  BY DEF RecordOrder
<1>2. /\ RecordOrder[1] = "GAME_DESIGN" /\ RecordOrder[2] = "LUA_GENERATION"
      /\ RecordOrder[3] = "WORLD_MODEL" /\ RecordOrder[4] = "GAME_DNA"
      /\ RecordOrder[5] = "SECURITY_REVIEW" /\ RecordOrder[6] = "VALIDATION"
  BY DEF RecordOrder
<1>3. \A i \in 1..6 : i = 1 \/ i = 2 \/ i = 3 \/ i = 4 \/ i = 5 \/ i = 6
  OBVIOUS
<1>4. Stages = {"GAME_DESIGN", "LUA_GENERATION", "WORLD_MODEL", "GAME_DNA",
                "SECURITY_REVIEW", "VALIDATION"}
  BY <1>1, <1>2, <1>3 DEF Stages
<1>5. RecordOrder \in Seq(Stages)
  BY <1>4 DEF RecordOrder
<1> QED BY <1>1, <1>2, <1>4, <1>5

LEMMA UpstreamFacts ==
    /\ Upstream["GAME_DESIGN"] = {} /\ Upstream["LUA_GENERATION"] = {}
    /\ Upstream["WORLD_MODEL"] = {"GAME_DESIGN"} /\ Upstream["GAME_DNA"] = {"WORLD_MODEL"}
    /\ Upstream["SECURITY_REVIEW"] = {"LUA_GENERATION"}
    /\ Upstream["VALIDATION"] = {"LUA_GENERATION", "WORLD_MODEL"}
    /\ \A s \in Stages : Upstream[s] \subseteq Stages
BY StageFacts DEF Upstream

LEMMA MadeFacts ==
    ASSUME NEW w \in Writers, NEW s \in Stages, NEW m \in RuntimeModes \cup {"none"}
    PROVE  /\ Made(w, s, m) \in Items /\ Made(w, s, m).stage = s
           /\ Made(w, s, m).content.of = w
BY ArtifactConstantsOK DEF Made, Items, Contents

LEMMA InitSound == ArtifactInit => PackageInv
<1> SUFFICES ASSUME ArtifactInit PROVE PackageInv
  OBVIOUS
<1>1. DOMAIN artifacts = {} /\ DOMAIN markers = {} /\ active = NoPackage /\ attempts = <<>>
      /\ writer = [w \in Writers |-> NotWriting]
  BY DEF ArtifactInit
<1>2. NotWriting \in WriterRecord
  <2>1. <<>> \in [{} -> Refs]
    OBVIOUS
  <2>2. <<>> \in Holds
    BY <2>1 DEF Holds
  <2>3. <<>> \in Seq(Items)
    BY EmptySeq
  <2> QED BY <2>2, <2>3 DEF NotWriting, WriterRecord
<1>3. DOMAIN NotWriting.held = {} /\ NotWriting.replaced = {} /\ NotWriting.state = "idle"
      /\ DOMAIN NotWriting.todo = {}
  BY DEF NotWriting
<1> HIDE DEF NotWriting
<1>4. ArtifactShape
  BY <1>1, <1>2, FS_EmptySet, EmptySeq DEF ArtifactShape
<1>5. ContentsBegun
  BY <1>1, <1>3 DEF ContentsBegun
<1>6. \A w \in Writers : WriterSound(w) /\ ~WillPublish(w)
  BY <1>1, <1>3 DEF WriterSound, WillPublish
<1> QED BY <1>1, <1>4, <1>5, <1>6 DEF PackageInv

\* A generation that passed has each stage to store after those it is derived from.
LEMMA RecordSound ==
    ASSUME PackageInv, NEW g \in Generations, NEW asked \in RuntimeModes,
           NEW passed \in BOOLEAN, Record(g, asked, passed)
    PROVE  PackageInv'
<1>1. /\ g \in Writers /\ writer[g].state = "idle" /\ writer \in [Writers -> WriterRecord]
      /\ attempts \in Seq(Names) /\ UNCHANGED <<artifacts, markers, attempts, active>>
      /\ DOMAIN markers \subseteq Names /\ \A p \in DOMAIN markers : markers[p] \in SUBSET Refs
      /\ DOMAIN writer[g].held = {}
  BY DEF Record, PackageInv, ArtifactShape, Writers, WriterSound, Begun
<1>2. PICK q : q = IF passed
                   THEN [i \in DOMAIN RecordOrder |-> Made(g, RecordOrder[i], asked)]
                   ELSE <<Made(g, "VALIDATION", asked)>>
  OBVIOUS
<1>3. /\ q \in Seq(Items) /\ \A i \in DOMAIN q : q[i].content.of = g
      /\ passed => /\ DOMAIN q = 1..6 /\ \A i \in 1..6 : q[i].stage = RecordOrder[i]
  <2>1. CASE passed
    <3>1. q = [i \in 1..6 |-> Made(g, RecordOrder[i], asked)]
      BY <1>2, <2>1, StageFacts
    <3>2. \A i \in 1..6 : RecordOrder[i] \in Stages
      BY StageFacts
    <3>3. \A i \in 1..6 : q[i] \in Items /\ q[i].stage = RecordOrder[i] /\ q[i].content.of = g
      BY <1>1, <3>1, <3>2, MadeFacts
    <3>4. q \in [1..6 -> Items]
      BY <3>1, <3>3
    <3>5. q \in Seq(Items)
      <4>1. \A S : \A f \in [1..6 -> S] : f \in Seq(S)
        BY SeqDef
      <4> QED BY ONLY <3>4, <4>1
    <3> QED BY <3>1, <3>3, <3>5
  <2>2. CASE ~passed
    <3>1. q = <<Made(g, "VALIDATION", asked)>>
      BY <1>2, <2>2
    <3>2. Made(g, "VALIDATION", asked) \in Items /\ Made(g, "VALIDATION", asked).content.of = g
      BY <1>1, MadeFacts, StageFacts
    <3> QED BY <2>2, <3>1, <3>2
  <2> QED BY <2>1, <2>2
<1>4. PICK x : x = [writer[g] EXCEPT !.state = "writing", !.package = <<g>>, !.todo = q,
                                     !.publishes = IF passed THEN "yes" ELSE "no"]
  OBVIOUS
<1>5. writer' = [writer EXCEPT ![g] = x]
  BY <1>2, <1>4 DEF Record
<1>6. <<g>> \in Names
  BY <1>1 DEF Names
<1>7. /\ x \in WriterRecord /\ x.state = "writing" /\ x.package = <<g>> /\ x.todo = q
      /\ x.publishes = (IF passed THEN "yes" ELSE "no") /\ x.held = writer[g].held
      /\ x.replaced = writer[g].replaced
  BY <1>1, <1>3, <1>4, <1>6 DEF WriterRecord
<1>8. writer'[g] = x
  BY <1>1, <1>5
<1>9. ArtifactShape' /\ ContentsBegun' /\ Keeps
  <2>1. BegunNext(g)
    BY <1>7, <1>8 DEF BegunNext
  <2>2. \A i \in DOMAIN x.todo : BegunNext(x.todo[i].content.of)
    BY <1>3, <1>7, <2>1
  <2> QED BY <1>1, <1>5, <1>7, <2>1, <2>2, WriterShape
<1>10. WriterSound(g)'
  <2>1. g \notin Repairs
    BY ArtifactConstantsOK
  <2> QED BY <1>1, <1>6, <1>7, <1>8, <2>1 DEF PackageInv, WriterSound, Begun
<1>11. ASSUME passed PROVE PublishSound(g)'
  <2>1. /\ DOMAIN q = 1..6 /\ \A i \in 1..6 : q[i].stage = RecordOrder[i]
        /\ writer'[g].todo = q /\ DOMAIN writer'[g].held = {}
    <3>1. DOMAIN q = 1..6 /\ \A i \in 1..6 : q[i].stage = RecordOrder[i]
      BY <1>3, <1>11, Zenon
    <3>2. writer'[g].todo = q
      BY <1>7, <1>8
    <3>3. DOMAIN writer'[g].held = {}
      <4>1. writer'[g].held = writer[g].held
        BY <1>7, <1>8
      <4> QED BY <1>1, <4>1
    <3> QED BY <3>1, <3>2, <3>3
  <2>2. \A i \in 1..6 : From(g, i)' = {RecordOrder[k] : k \in i..6}
                       /\ Before(g, i)' = {RecordOrder[k] : k \in 1..(i - 1)}
    BY <2>1 DEF From, Before
  <2>3. AllStages(g)' = Stages
    <3>1. From(g, 1)' = Stages
      BY <2>2, StageFacts DEF Stages
    <3> QED BY <2>1, <3>1 DEF AllStages
  <2>4. ASSUME NEW i \in 1..6 PROVE BindsLater(g, i)'
    <3>1. \A u \in Upstream[RecordOrder[i]] :
             (\E k \in 1..(i - 1) : RecordOrder[k] = u) /\ \A k \in i..6 : RecordOrder[k] # u
      <4>1. i = 1 \/ i = 2 \/ i = 3 \/ i = 4 \/ i = 5 \/ i = 6
        OBVIOUS
      <4>2. \A k \in 1..6 : k = 1 \/ k = 2 \/ k = 3 \/ k = 4 \/ k = 5 \/ k = 6
        OBVIOUS
      <4> QED BY <4>1, <4>2, StageFacts, UpstreamFacts
    <3> QED BY <2>1, <2>2, <3>1 DEF BindsLater
  <2>5. g \notin Repairs
    BY ArtifactConstantsOK
  <2> QED BY <1>7, <1>8, <2>1, <2>3, <2>4, <2>5, StageFacts DEF PublishSound
<1>12. WillPublish(g)' => passed
  BY <1>7, <1>8 DEF WillPublish
<1>13. \A v \in Writers : v # g => writer'[v] = writer[v]
  BY <1>1, <1>5
<1> QED BY <1>1, <1>9, <1>10, <1>11, <1>12, <1>13, StepSound

LEMMA MarkSound ==
    ASSUME PackageInv, NEW w \in Writers, AllStored(w), writer[w].publishes = "yes",
           CommitPackage(w), UNCHANGED artifacts
    PROVE  /\ DOMAIN markers' \subseteq Names
           /\ \A p \in DOMAIN markers' : markers'[p] \in SUBSET Refs
           /\ \A p \in DOMAIN markers' : \/ p \in DOMAIN markers /\ markers'[p] = markers[p]
                                         \/ MarkerSound(p)'
<1>1. PICK P, held : P = writer[w].package /\ held = writer[w].held
  OBVIOUS
<1>2. /\ WriterSound(w) /\ PublishSound(w) /\ P \in Names
      /\ writer[w] \in WriterRecord
      /\ DOMAIN markers \subseteq Names /\ \A p \in DOMAIN markers : markers[p] \in SUBSET Refs
  BY <1>1 DEF PackageInv, AllStored, WillPublish, ArtifactShape, WriterSound
<1>3. /\ DOMAIN held \subseteq Stages /\ \A s \in DOMAIN held : held[s] \in Refs
  BY <1>1, <1>2 DEF WriterRecord, Holds
<1>4. markers' = [p \in DOMAIN markers \cup {P} |->
                    IF p = P THEN {held[s] : s \in DOMAIN held} ELSE markers[p]]
  BY <1>1 DEF CommitPackage
<1>5. /\ DOMAIN markers' \subseteq Names
      /\ \A p \in DOMAIN markers' : markers'[p] \in SUBSET Refs
      /\ \A p \in DOMAIN markers' : p = P \/ (p \in DOMAIN markers /\ markers'[p] = markers[p])
  <2>1. DOMAIN markers' = DOMAIN markers \cup {P}
    BY <1>4
  <2>2. markers'[P] \in SUBSET Refs
    BY <1>3, <1>4
  <2>3. \A p \in DOMAIN markers' : p = P \/ (p \in DOMAIN markers /\ markers'[p] = markers[p])
    BY <1>4
  <2>4. DOMAIN markers \subseteq Names /\ P \in Names
    BY <1>2
  <2>5. \A p \in DOMAIN markers : markers[p] \in SUBSET Refs
    BY <1>2
  <2> QED BY <2>1, <2>2, <2>3, <2>4, <2>5
<1>6. markers'[P] = {held[s] : s \in DOMAIN held}
  BY <1>4
<1>7. \A s \in DOMAIN held : /\ held[s].id \in DOMAIN artifacts /\ held[s].id[1] = w
                             /\ artifacts[held[s].id].package = P
                             /\ artifacts[held[s].id].stage = s
  BY <1>1, <1>2 DEF WriterSound, Holding, StageOf
<1>8. \A ref \in markers'[P] : \E s \in DOMAIN held : ref = held[s]
  BY <1>6
<1>9. From(w, 1) = {} /\ AllStages(w) = DOMAIN held
  BY <1>1 DEF From, AllStages, AllStored
<1>10. \A ref \in markers'[P] : ref.id \in Stored(P)'
  BY <1>7, <1>8 DEF Stored
<1>11. \A s \in DOMAIN held : held[s] \in Named(P, s)'
  BY <1>1, <1>6, <1>7 DEF Named, StageOf
<1>12. \A ref, other \in markers'[P] : StageOf(ref.id)' = StageOf(other.id)' => ref = other
  BY <1>7, <1>8 DEF StageOf
<1>13. Named(P, "WORLD_MODEL")' # {} /\ Named(P, "LUA_GENERATION")' # {}
  BY <1>2, <1>9, <1>11 DEF PublishSound
<1>14. ASSUME NEW ref \in markers'[P], ref.content.of = ref.id[1],
              NEW u \in Upstream[StageOf(ref.id)']
       PROVE  \E up \in Named(P, u)' : up \in artifacts'[ref.id].binds
  <2>1. PICK s \in DOMAIN held : ref = held[s]
    BY <1>8
  <2>2. StageOf(ref.id)' = s /\ held[s].content.of = w
    BY <1>7, <1>14, <2>1 DEF StageOf
  <2>3. u \in DOMAIN held /\ held[u] \in artifacts[held[s].id].binds
    BY <1>1, <1>2, <1>14, <2>2 DEF PublishSound, BoundToHeld
  <2> QED BY <1>11, <2>1, <2>3
<1>15. CASE w \in Generations
  <2>1. P = <<w>> /\ DOMAIN held = Stages
    BY <1>1, <1>2, <1>9, <1>15 DEF PublishSound
  <2>2. Len(P) = 1
    BY <2>1
  <2>3. \A s \in Stages : Named(P, s)' # {}
    BY <1>11, <2>1
  <2>4. MarkerSound(P)'
    BY <1>10, <1>12, <1>13, <1>14, <2>2, <2>3 DEF MarkerSound
  <2> QED BY <1>5, <2>4
<1>16. CASE w \in Repairs
  <2>1. PICK parent, n : /\ parent = writer[w].parent /\ parent \in Names /\ n \in Nat
                         /\ P = Append(parent, n)
    BY <1>1, <1>2, <1>16 DEF PublishSound, RepairSound
  <2>2. parent \in Seq(Writers \cup Nat) /\ parent # <<>> /\ n \in Writers \cup Nat
    BY <2>1 DEF Names
  <2>3. Len(P) = Len(parent) + 1 /\ Len(parent) \in Nat \ {0} /\ SubSeq(P, 1, Len(parent)) = parent
    BY <2>1, <2>2, EmptySeq
  <2>4. Len(P) # 1 /\ SubSeq(P, 1, Len(P) - 1) = parent
    BY <2>3
  <2>5. \A ref \in markers'[P] : RepairItem(ref.id[1], StageOf(ref.id)', ref.content)
    <3> TAKE ref \in markers'[P]
    <3>1. PICK s \in DOMAIN held : ref = held[s]
      BY <1>8
    <3>2. StageOf(ref.id)' = s /\ ref.id[1] = w
      BY <1>7, <3>1 DEF StageOf
    <3>3. RepairItem(w, s, held[s].content)
      BY <1>1, <1>2, <1>16 DEF PublishSound, RepairSound
    <3> QED BY <3>1, <3>2, <3>3
  <2>6. ASSUME NEW ref \in Named(P, "LUA_GENERATION")'
        PROVE  \E up \in artifacts'[ref.id].binds :
                  artifacts'[up.id].package = SubSeq(P, 1, Len(P) - 1)
    <3>1. PICK s \in DOMAIN held : ref = held[s] /\ s = "LUA_GENERATION"
      BY <1>7, <1>8 DEF Named, StageOf
    <3>2. PICK up \in writer[w].replaced : artifacts[up.id].package = parent
      BY <1>2, <1>16, <2>1 DEF PublishSound, RepairSound
    <3>3. up \in artifacts[ref.id].binds
      BY <1>1, <1>2, <1>16, <3>1, <3>2 DEF PublishSound, RepairSound
    <3> QED BY <2>4, <3>2, <3>3
  <2>7. MarkerSound(P)'
    BY <1>10, <1>12, <1>13, <1>14, <2>4, <2>5, <2>6 DEF MarkerSound
  <2> QED BY <1>5, <2>7
<1> QED BY <1>15, <1>16 DEF Writers

LEMMA PublishStepSound ==
    ASSUME PackageInv, NEW w \in Writers, Publish(w)
    PROVE  PackageInv'
<1>1. PICK end : end = IF w \in Repairs \/ writer[w].publishes = "yes" THEN "done" ELSE "failed"
  OBVIOUS
<1>2. /\ end \in {"done", "failed"} /\ writer' = [writer EXCEPT ![w].state = end]
      /\ UNCHANGED <<artifacts, active>> /\ AllStored(w)
  BY <1>1 DEF Publish
<1>3. attempts' \in Seq(Names)
  <2>1. attempts \in Seq(Names)
    BY DEF PackageInv, ArtifactShape
  <2>2. CASE w \in Repairs
    <3>1. attempts' = Append(attempts, writer[w].parent)
      BY <2>2 DEF Publish
    <3>2. writer[w].parent \in Names
      BY <1>2, <2>2 DEF PackageInv, WriterSound, AllStored
    <3> QED BY <2>1, <3>1, <3>2
  <2>3. CASE w \notin Repairs
    BY <2>1, <2>3 DEF Publish
  <2> QED BY <2>2, <2>3
<1>4. \/ UNCHANGED markers
      \/ writer[w].publishes = "yes" /\ CommitPackage(w)
  BY DEF Publish
<1> QED BY <1>2, <1>3, <1>4, MarkSound, EndSound

LEMMA FailSound ==
    ASSUME PackageInv, NEW w \in Writers, Fail(w)
    PROVE  PackageInv'
<1>1. /\ writer' = [writer EXCEPT ![w].state = "failed"]
      /\ UNCHANGED <<artifacts, active>> /\ attempts' = attempts
  BY DEF Fail
<1>2. \/ UNCHANGED markers
      \/ AllStored(w) /\ writer[w].publishes = "yes" /\ CommitPackage(w)
  BY DEF Fail
<1>3. attempts' \in Seq(Names)
  BY <1>1 DEF PackageInv, ArtifactShape
<1> QED BY <1>1, <1>2, <1>3, MarkSound, EndSound

LEMMA NothingToRepairSound ==
    ASSUME PackageInv, NEW r \in Repairs, NothingToRepair(r)
    PROVE  PackageInv'
<1>1. /\ writer' = [writer EXCEPT ![r].state = "failed"] /\ r \in Writers
      /\ UNCHANGED <<artifacts, active>> /\ UNCHANGED markers
  BY DEF NothingToRepair, Writers
<1>2. attempts' \in Seq(Names)
  <2>1. attempts \in Seq(Names) /\ writer[r].parent \in Names
    BY <1>1 DEF PackageInv, ArtifactShape, WriterSound, NothingToRepair
  <2> QED BY <2>1 DEF NothingToRepair
<1> QED BY <1>1, <1>2, EndSound

LEMMA AskSound ==
    ASSUME PackageInv, NEW r \in Repairs, NEW p \in Packages, Ask(r, p)
    PROVE  PackageInv'
<1>1. /\ r \in Writers /\ writer[r].state = "idle" /\ writer \in [Writers -> WriterRecord]
      /\ attempts \in Seq(Names) /\ UNCHANGED <<artifacts, markers, attempts, active>>
      /\ DOMAIN markers \subseteq Names /\ \A q \in DOMAIN markers : markers[q] \in SUBSET Refs
  BY DEF Ask, PackageInv, ArtifactShape, Writers
<1>2. p \in Names
  BY DEF PackageInv, ArtifactShape, Packages, Artifact
<1>3. PICK x : x = [writer[r] EXCEPT !.state = "asking", !.parent = p]
  OBVIOUS
<1>4. /\ x \in WriterRecord /\ x.state = "asking" /\ x.parent = p /\ x.todo = writer[r].todo
      /\ x.held = writer[r].held /\ x.replaced = writer[r].replaced
  BY <1>1, <1>2, <1>3 DEF WriterRecord
<1>5. writer' = [writer EXCEPT ![r] = x] /\ writer'[r] = x
  BY <1>1, <1>3 DEF Ask
<1>6. ~Begun(r)
  BY <1>1 DEF Begun
<1>7. \A i \in DOMAIN x.todo : BegunNext(x.todo[i].content.of)
  <2> TAKE i \in DOMAIN x.todo
  <2>1. Begun(x.todo[i].content.of)
    BY <1>1, <1>4 DEF PackageInv, ContentsBegun
  <2>2. x.todo[i] \in Items
    <3>1. x.todo \in Seq(Items)
      BY <1>4 DEF WriterRecord
    <3> QED BY <3>1, ElementOfSeq, LenProperties
  <2>3. x.todo[i].content.of \in Writers
    BY <2>2 DEF Items, Contents
  <2> QED BY <1>1, <1>5, <1>6, <2>1, <2>3 DEF Begun, BegunNext
<1>8. ArtifactShape' /\ ContentsBegun' /\ Keeps
  BY <1>1, <1>4, <1>5, <1>6, <1>7, WriterShape
<1>9. WriterSound(r)' /\ ~WillPublish(r)'
  <2>1. HasLua(p)'
    BY <1>1 DEF Ask, HasLua, Stored, StageOf
  <2>2. DOMAIN x.held = {} /\ \A ref \in x.replaced : ref.id \in DOMAIN artifacts'
    BY <1>1, <1>4, <1>6 DEF PackageInv, WriterSound
  <2> QED BY <1>2, <1>4, <1>5, <2>1, <2>2 DEF WriterSound, WillPublish
<1>10. \A v \in Writers : v # r => writer'[v] = writer[v]
  BY <1>1, <1>5
<1> QED BY <1>1, <1>8, <1>9, <1>10, StepSound

LEMMA ExportSound ==
    ASSUME PackageInv, NEW p \in Packages, Export(p)
    PROVE  PackageInv'
<1>1. UNCHANGED <<artifacts, markers, writer, attempts>> /\ active' = p
  BY DEF Export
<1>2. Keeps
  BY <1>1 DEF Keeps
<1>3. ArtifactShape'
  BY <1>1 DEF PackageInv, ArtifactShape, Packages, StoredBy
<1>4. ContentsBegun'
  BY <1>1 DEF PackageInv, ContentsBegun, Begun, ContentOf
<1> QED BY <1>1, <1>2, <1>3, <1>4, StepSound

LEMMA RestartSound ==
    ASSUME PackageInv, Restart
    PROVE  PackageInv'
<1>1. /\ UNCHANGED <<artifacts, markers, attempts>> /\ active' = NoPackage
      /\ writer' = [w \in Writers |->
            IF writer[w].state \in {"asking", "writing"}
            THEN [writer[w] EXCEPT !.state = "failed"] ELSE writer[w]]
      /\ writer \in [Writers -> WriterRecord]
  BY DEF Restart, PackageInv, ArtifactShape
<1>2. \A w \in Writers :
        \/ writer'[w] = writer[w]
        \/ /\ writer'[w] \in WriterRecord /\ writer'[w].state = "failed"
           /\ writer'[w].todo = writer[w].todo /\ writer'[w].held = writer[w].held
           /\ writer'[w].package = writer[w].package
           /\ writer'[w].replaced = writer[w].replaced
  BY <1>1 DEF WriterRecord
<1>3. Keeps
  BY <1>1 DEF Keeps
<1>4. ArtifactShape'
  <2>1. writer' \in [Writers -> WriterRecord]
    BY <1>1, <1>2
  <2> QED BY <1>1, <2>1 DEF PackageInv, ArtifactShape, Packages, StoredBy
<1>5. \A w \in Writers : (Begun(w) => BegunNext(w)) /\ writer'[w].todo = writer[w].todo
  BY <1>2 DEF Begun, BegunNext
<1>6. \A id \in DOMAIN artifacts : artifacts[id].content.of \in Writers
  BY DEF PackageInv, ArtifactShape, Artifact, Contents
<1>7. \A w \in Writers : \A i \in DOMAIN writer[w].todo : writer[w].todo[i].content.of \in Writers
  <2> TAKE w \in Writers
  <2> TAKE i \in DOMAIN writer[w].todo
  <2>1. writer[w].todo \in Seq(Items)
    BY <1>1 DEF WriterRecord
  <2>2. writer[w].todo[i] \in Items
    BY <2>1, ElementOfSeq, LenProperties
  <2> QED BY <2>2 DEF Items, Contents
<1>8. ContentsBegun'
  <2>1. \A id \in DOMAIN artifacts : BegunNext(artifacts[id].content.of)
    BY <1>5, <1>6 DEF PackageInv, ContentsBegun, ContentOf
  <2>2. \A w \in Writers : \A i \in DOMAIN writer'[w].todo : BegunNext(writer'[w].todo[i].content.of)
    BY <1>5, <1>7 DEF PackageInv, ContentsBegun
  <2> QED BY <1>1, <2>1, <2>2 DEF ContentsBegun, Begun, BegunNext, ContentOf
<1>9. ASSUME NEW w \in Writers, writer'[w] # writer[w]
      PROVE  WriterSound(w)' /\ ~WillPublish(w)'
  <2>1. WriterSound(w) /\ writer[w].state \in {"asking", "writing"}
    BY <1>1, <1>9 DEF PackageInv
  <2> QED BY <1>1, <1>2, <1>9, <2>1 DEF WriterSound, WillPublish, Holding, StageOf, Begun
<1> QED BY <1>1, <1>3, <1>4, <1>8, <1>9, StepSound

LEMMA EditSound ==
    ASSUME PackageInv, NEW id \in DOMAIN artifacts, NEW edited \in {"yes", "no"},
           NEW asked \in {"none", "lua-owned", "materialized-world"}, Edit(id, edited, asked)
    PROVE  PackageInv'
<1>1. PICK new : /\ new = [artifacts[id].content EXCEPT !.edited = edited, !.mode = asked]
                 /\ artifacts' = [artifacts EXCEPT ![id].content = new]
                 /\ UNCHANGED <<markers, writer, attempts, active>>
  BY DEF Edit, ContentOf
<1>2. artifacts[id] \in Artifact /\ ArtifactShape
  BY DEF PackageInv, ArtifactShape
<1>3. new \in Contents /\ new.of = artifacts[id].content.of
  BY <1>1, <1>2 DEF Artifact, Contents
<1>4. PICK a : a = [artifacts[id] EXCEPT !.content = new]
  OBVIOUS
<1>5. /\ a \in Artifact /\ a.package = artifacts[id].package /\ a.stage = artifacts[id].stage
      /\ a.binds = artifacts[id].binds /\ a.content.of = artifacts[id].content.of
  BY <1>2, <1>3, <1>4 DEF Artifact
<1>6. /\ DOMAIN artifacts' = DOMAIN artifacts /\ artifacts'[id] = a
      /\ \A other \in DOMAIN artifacts : other # id => artifacts'[other] = artifacts[other]
  BY <1>1, <1>4
<1>7. Keeps
  BY <1>5, <1>6 DEF Keeps
<1>8. ArtifactShape'
  <2>1. \A other \in DOMAIN artifacts' :
          /\ artifacts'[other] \in Artifact /\ artifacts'[other].binds = artifacts[other].binds
          /\ artifacts'[other].package = artifacts[other].package
    BY <1>2, <1>5, <1>6 DEF ArtifactShape
  <2>2. \A v : StoredBy(v)' = StoredBy(v)
    BY <1>6 DEF StoredBy
  <2>3. Packages' = Packages
    BY <1>6, <2>1 DEF Packages
  <2> QED BY <1>1, <1>2, <1>6, <2>1, <2>2, <2>3 DEF ArtifactShape
<1>9. ContentsBegun'
  <2>1. \A other \in DOMAIN artifacts' : artifacts'[other].content.of = artifacts[other].content.of
    BY <1>5, <1>6
  <2> QED BY <1>1, <1>6, <2>1 DEF PackageInv, ContentsBegun, ContentOf, Begun
<1> QED BY <1>1, <1>7, <1>8, <1>9, StepSound

\* What is left to store once the first is stored.
LEMMA TodoTail ==
    ASSUME NEW q \in Seq(Items), q # <<>>
    PROVE  /\ Head(q) \in Items /\ Head(q) = q[1] /\ 1 \in DOMAIN q
           /\ Tail(q) \in Seq(Items)
           /\ \A i \in DOMAIN Tail(q) : i \in Nat \ {0} /\ i + 1 \in DOMAIN q /\ Tail(q)[i] = q[i + 1]
           /\ \A i \in DOMAIN q : i = 1 \/ i - 1 \in DOMAIN Tail(q)
<1>1. Len(q) \in Nat \ {0} /\ DOMAIN q = 1..Len(q)
  BY EmptySeq, LenProperties
<1>2. /\ Head(q) \in Items /\ Head(q) = q[1] /\ Tail(q) \in Seq(Items)
      /\ Len(Tail(q)) = Len(q) - 1 /\ \A i \in 1..Len(Tail(q)) : Tail(q)[i] = q[i + 1]
  BY HeadTailProperties, <1>1
<1>3. DOMAIN Tail(q) = 1..(Len(q) - 1)
  BY <1>2, LenProperties
<1> QED BY <1>1, <1>2, <1>3

LEMMA StoreSound ==
    ASSUME PackageInv, NEW w \in Writers, Store(w)
    PROVE  PackageInv'
<1>1. PICK todo, item, id, held, P, binds :
        /\ todo = writer[w].todo /\ item = Head(todo) /\ id = NextId(w)
        /\ held = writer[w].held /\ P = writer[w].package /\ binds = Binds(w, item.stage)
  OBVIOUS
<1>2. PICK x : x = [writer[w] EXCEPT !.todo = Tail(todo),
                          !.held = [s \in DOMAIN held \cup {item.stage} |->
                             IF s = item.stage THEN [id |-> id, content |-> item.content]
                             ELSE held[s]]]
  OBVIOUS
<1>3. PICK a : a = [package |-> P, stage |-> item.stage, content |-> item.content, binds |-> binds]
  OBVIOUS
<1>4. /\ writer[w].state = "writing" /\ todo # <<>>
      /\ artifacts' = [i \in DOMAIN artifacts \cup {id} |-> IF i = id THEN a ELSE artifacts[i]]
      /\ writer' = [writer EXCEPT ![w] = x]
      /\ UNCHANGED <<markers, attempts, active>>
  <2>1. /\ writer[w].state = "writing" /\ todo # <<>>
        /\ UNCHANGED <<markers, attempts, active>>
    BY <1>1 DEF Store
  <2>2. artifacts' = [i \in DOMAIN artifacts \cup {id} |-> IF i = id THEN a ELSE artifacts[i]]
    BY <1>1, <1>3 DEF Store
  <2>3. writer' = [writer EXCEPT ![w] = x]
    BY <1>1, <1>2 DEF Store
  <2> QED BY <2>1, <2>2, <2>3
<1>5. /\ writer \in [Writers -> WriterRecord] /\ WriterSound(w) /\ ArtifactShape
      /\ P \in Names /\ (w \in Repairs => writer[w].parent \in Names)
      /\ writer[w].state = "writing"
  BY <1>1, <1>4 DEF PackageInv, ArtifactShape, WriterSound
<1>6. /\ todo \in Seq(Items) /\ item \in Items /\ item = todo[1] /\ 1 \in DOMAIN todo
      /\ Tail(todo) \in Seq(Items)
      /\ \A i \in DOMAIN Tail(todo) : i \in Nat \ {0} /\ i + 1 \in DOMAIN todo
                                      /\ Tail(todo)[i] = todo[i + 1]
      /\ \A i \in DOMAIN todo : i = 1 \/ i - 1 \in DOMAIN Tail(todo)
  <2>1. todo \in Seq(Items)
    BY <1>1, <1>5 DEF WriterRecord
  <2> QED BY <1>1, <1>4, <2>1, TodoTail
<1>7. /\ held \in Holds /\ DOMAIN held \subseteq Stages /\ \A s \in DOMAIN held : held[s] \in Refs
      /\ writer[w].replaced \in SUBSET Refs
  BY <1>1, <1>5 DEF WriterRecord, Holds
<1>8. /\ IsFiniteSet(StoredBy(w)) /\ Cardinality(StoredBy(w)) \in Nat
      /\ id = <<w, Cardinality(StoredBy(w))>>
  <2>1. IsFiniteSet(StoredBy(w))
    BY <1>5, FS_Subset DEF ArtifactShape, StoredBy
  <2> QED BY <1>1, <2>1, FS_CardinalityType DEF NextId, StoredBy
<1>9. id \in Ids /\ id[1] = w /\ id[2] = Cardinality(StoredBy(w))
  BY <1>8 DEF Ids
<1>10. id \notin DOMAIN artifacts
  <2> SUFFICES ASSUME id \in DOMAIN artifacts PROVE FALSE
    OBVIOUS
  <2>1. id[2] < Cardinality(StoredBy(id[1]))
    BY <1>5 DEF ArtifactShape
  <2> QED BY <1>8, <1>9, <2>1
<1>11. /\ DOMAIN artifacts' = DOMAIN artifacts \cup {id} /\ artifacts'[id] = a
       /\ \A i \in DOMAIN artifacts : artifacts'[i] = artifacts[i]
  BY <1>4, <1>10
<1>12. Keeps
  BY <1>11 DEF Keeps
<1>13. PICK held2 : held2 = [s \in DOMAIN held \cup {item.stage} |->
                             IF s = item.stage THEN [id |-> id, content |-> item.content]
                             ELSE held[s]]
  OBVIOUS
<1>14. item.stage \in Stages /\ item.content \in Contents
  BY <1>6 DEF Items
<1>15. /\ DOMAIN held2 = DOMAIN held \cup {item.stage}
       /\ held2[item.stage] = [id |-> id, content |-> item.content]
       /\ \A s \in DOMAIN held : s # item.stage => held2[s] = held[s]
  BY <1>13
<1>16. held2 \in Holds
  <2>1. [id |-> id, content |-> item.content] \in Refs
    BY <1>9, <1>14 DEF Refs
  <2>2. held2 \in [DOMAIN held \cup {item.stage} -> Refs]
    BY <1>7, <1>13, <2>1
  <2>3. DOMAIN held \cup {item.stage} \in SUBSET Stages
    BY <1>7, <1>14
  <2> QED BY <2>2, <2>3 DEF Holds
<1>17. /\ x \in WriterRecord /\ x.todo = Tail(todo) /\ x.held = held2
       /\ x.state = "writing" /\ x.package = P /\ x.parent = writer[w].parent
       /\ x.replaced = writer[w].replaced /\ x.publishes = writer[w].publishes
  BY <1>1, <1>2, <1>5, <1>6, <1>13, <1>16 DEF WriterRecord
<1>18. writer'[w] = x /\ \A v \in Writers : v # w => writer'[v] = writer[v]
  BY <1>4, <1>5
<1>19. /\ \A u \in Upstream[item.stage] \cap DOMAIN held : held[u] \in binds
       /\ item.stage = "LUA_GENERATION" => writer[w].replaced \subseteq binds
       /\ \A ref \in binds : \/ ref \in writer[w].replaced
                            \/ \E s \in DOMAIN held : ref = held[s]
  BY <1>1 DEF Binds
<1>20. \A ref \in binds : ref \in Refs /\ ref.id \in DOMAIN artifacts
  BY <1>1, <1>5, <1>7, <1>19 DEF WriterSound, Holding
<1>21. a \in Artifact /\ a.binds = binds /\ a.package = P /\ a.stage = item.stage
       /\ a.content = item.content
  BY <1>3, <1>5, <1>14, <1>20 DEF Artifact
<1>22. ArtifactShape'
  <2>1. DOMAIN artifacts' \subseteq Ids /\ IsFiniteSet(DOMAIN artifacts')
    BY <1>5, <1>9, <1>11, FS_AddElement DEF ArtifactShape
  <2>2. /\ StoredBy(w)' = StoredBy(w) \cup {id}
        /\ \A v : v # w => StoredBy(v)' = StoredBy(v)
    BY <1>9, <1>11 DEF StoredBy
  <2>3. Cardinality(StoredBy(w)') = Cardinality(StoredBy(w)) + 1
    <3>1. id \notin StoredBy(w)
      BY <1>10 DEF StoredBy
    <3> QED BY <1>8, <2>2, <3>1, FS_AddElement
  <2>4. ASSUME NEW i \in DOMAIN artifacts'
        PROVE  /\ artifacts'[i] \in Artifact
               /\ \A ref \in artifacts'[i].binds : ref.id \in DOMAIN artifacts'
               /\ i[2] < Cardinality(StoredBy(i[1])')
    <3>1. CASE i = id
      <4>1. i[2] < Cardinality(StoredBy(i[1])')
        BY <1>8, <1>9, <2>3, <3>1
      <4> QED BY <1>11, <1>20, <1>21, <3>1, <4>1
    <3>2. CASE i # id
      <4>1. i \in DOMAIN artifacts /\ artifacts'[i] = artifacts[i]
        BY <1>11, <3>2
      <4>2. /\ artifacts[i] \in Artifact /\ i[2] < Cardinality(StoredBy(i[1]))
            /\ \A ref \in artifacts[i].binds : ref.id \in DOMAIN artifacts
        BY <1>5, <4>1 DEF ArtifactShape
      <4>3. i[2] \in Nat
        BY <1>5, <4>1 DEF ArtifactShape, Ids
      <4>4. i[2] < Cardinality(StoredBy(i[1])')
        <5>1. CASE i[1] = w
          <6>1. i[2] < Cardinality(StoredBy(w))
            BY <4>2, <5>1
          <6>2. i[2] < Cardinality(StoredBy(w)) + 1
            BY <1>8, <4>3, <6>1
          <6> QED BY <2>3, <5>1, <6>2
        <5>2. CASE i[1] # w
          BY <2>2, <4>2, <5>2
        <5> QED BY <5>1, <5>2
      <4> QED BY <1>11, <4>1, <4>2, <4>4
    <3> QED BY <3>1, <3>2
  <2>5. writer' \in [Writers -> WriterRecord]
    BY <1>4, <1>5, <1>17
  <2>6. Packages \subseteq Packages'
    BY <1>11 DEF Packages
  <2> QED BY <1>4, <1>5, <2>1, <2>4, <2>5, <2>6 DEF ArtifactShape
<1>23. \A v \in Writers : Begun(v) => BegunNext(v)
  BY <1>5, <1>17, <1>18 DEF Begun, BegunNext
<1>24. \A i \in DOMAIN todo : todo[i].content.of \in Writers /\ Begun(todo[i].content.of)
  <2> TAKE i \in DOMAIN todo
  <2>1. todo[i] \in Items
    BY <1>6, ElementOfSeq, LenProperties
  <2> QED BY <1>1, <2>1 DEF Items, Contents, PackageInv, ContentsBegun
<1>25. ContentsBegun'
  <2>1. ASSUME NEW i \in DOMAIN artifacts' PROVE BegunNext(artifacts'[i].content.of)
    <3>1. CASE i = id
      BY <1>6, <1>11, <1>21, <1>23, <1>24, <3>1
    <3>2. CASE i # id
      <4>1. i \in DOMAIN artifacts /\ artifacts'[i] = artifacts[i]
        BY <1>11, <3>2
      <4>2. artifacts[i].content.of \in Writers
        BY <1>5, <4>1 DEF ArtifactShape, Artifact, Contents
      <4> QED BY <1>23, <4>1, <4>2 DEF PackageInv, ContentsBegun, ContentOf
    <3> QED BY <3>1, <3>2
  <2>2. ASSUME NEW v \in Writers, NEW i \in DOMAIN writer'[v].todo
        PROVE  BegunNext(writer'[v].todo[i].content.of)
    <3>1. CASE v = w
      <4>1. i \in DOMAIN Tail(todo) /\ writer'[v].todo[i] = Tail(todo)[i]
        BY <1>17, <1>18, <2>2, <3>1
      <4> QED BY <1>6, <1>23, <1>24, <4>1
    <3>2. CASE v # w
      <4>1. writer'[v] = writer[v]
        BY <1>18, <3>2
      <4>2. Begun(writer[v].todo[i].content.of)
        BY <2>2, <4>1 DEF PackageInv, ContentsBegun
      <4>3. writer[v].todo \in Seq(Items) /\ i \in DOMAIN writer[v].todo
        BY <1>5, <2>2, <4>1 DEF WriterRecord
      <4>4. writer[v].todo[i] \in Items
        BY <4>3, ElementOfSeq, LenProperties
      <4>5. writer[v].todo[i].content.of \in Writers
        BY <4>4 DEF Items, Contents
      <4> QED BY <1>23, <4>1, <4>2, <4>5
    <3> QED BY <3>1, <3>2
  <2> QED BY <2>1, <2>2 DEF ContentsBegun, Begun, BegunNext, ContentOf
<1>26. \A s \in DOMAIN held : /\ held[s].id \in DOMAIN artifacts /\ held[s].id[1] = w
                             /\ artifacts[held[s].id].package = P
                             /\ artifacts[held[s].id].stage = s
  BY <1>1, <1>5 DEF WriterSound, Holding, StageOf
<1>27. WriterSound(w)'
  <2>1. ASSUME NEW s \in DOMAIN held2
        PROVE  /\ held2[s].id \in DOMAIN artifacts' /\ held2[s].id[1] = w
               /\ artifacts'[held2[s].id].package = P /\ artifacts'[held2[s].id].stage = s
    <3>1. CASE s = item.stage
      BY <1>9, <1>11, <1>15, <1>21, <3>1
    <3>2. CASE s # item.stage
      <4>1. s \in DOMAIN held /\ held2[s] = held[s]
        BY <1>15, <3>2
      <4> QED BY <1>11, <1>26, <4>1
    <3> QED BY <3>1, <3>2
  <2>2. \A s \in DOMAIN held2 : Holding(w, s)'
    BY <1>17, <1>18, <2>1 DEF Holding, StageOf
  <2>3. \A ref \in writer[w].replaced : ref.id \in DOMAIN artifacts'
    BY <1>5, <1>11 DEF WriterSound
  <2>4. Begun(w)'
    BY <1>17, <1>18 DEF Begun
  <2> QED BY <1>5, <1>17, <1>18, <2>2, <2>3, <2>4 DEF WriterSound
<1>28. ASSUME PublishSound(w) PROVE PublishSound(w)'
  <2>1. \A i : From(w, i) = {todo[k].stage : k \in {k \in DOMAIN todo : i <= k}}
             /\ Before(w, i) = {todo[k].stage : k \in {k \in DOMAIN todo : k < i}}
    BY <1>1 DEF From, Before
  <2>2. \A i : From(w, i)' = {Tail(todo)[k].stage : k \in {k \in DOMAIN Tail(todo) : i <= k}}
             /\ Before(w, i)' = {Tail(todo)[k].stage : k \in {k \in DOMAIN Tail(todo) : k < i}}
    BY <1>17, <1>18 DEF From, Before
  <2>3. DOMAIN todo \subseteq Nat \ {0}
    BY <1>6, LenProperties
  <2>4. From(w, 1) = From(w, 1)' \cup {item.stage} /\ Before(w, 1) = {}
    <3>1. From(w, 1)' \cup {item.stage} \subseteq From(w, 1)
      BY <1>6, <2>1, <2>2, <2>3
    <3>2. ASSUME NEW k \in DOMAIN todo PROVE todo[k].stage \in From(w, 1)' \cup {item.stage}
      <4>1. CASE k = 1
        BY <1>6, <4>1
      <4>2. CASE k # 1
        <5>1. k - 1 \in DOMAIN Tail(todo) /\ Tail(todo)[k - 1] = todo[k] /\ 1 <= k - 1
          BY <1>6, <2>3, <4>2
        <5> QED BY <2>2, <5>1
      <4> QED BY <4>1, <4>2
    <3>3. From(w, 1) \subseteq From(w, 1)' \cup {item.stage}
      BY <2>1, <3>2
    <3>4. Before(w, 1) = {}
      BY <2>1, <2>3
    <3> QED BY <3>1, <3>3, <3>4
  <2>5. ASSUME NEW i \in DOMAIN Tail(todo)
        PROVE  /\ From(w, i)' \subseteq From(w, i + 1)
               /\ Before(w, i + 1) \subseteq Before(w, i)' \cup {item.stage}
    <3>1. From(w, i)' \subseteq From(w, i + 1)
      BY <1>6, <2>1, <2>2
    <3>2. ASSUME NEW k \in DOMAIN todo, k < i + 1
          PROVE  todo[k].stage \in Before(w, i)' \cup {item.stage}
      <4>1. CASE k = 1
        BY <1>6, <4>1
      <4>2. CASE k # 1
        <5>1. k - 1 \in DOMAIN Tail(todo) /\ Tail(todo)[k - 1] = todo[k] /\ k - 1 < i
          BY <1>6, <2>3, <3>2, <4>2
        <5> QED BY <2>2, <5>1
      <4> QED BY <4>1, <4>2
    <3> QED BY <2>1, <3>1, <3>2
  <2>6. AllStages(w)' = AllStages(w)
    BY <1>1, <1>15, <1>17, <1>18, <2>4 DEF AllStages
  <2>7. ASSUME NEW s \in DOMAIN held2 PROVE BoundToHeld(w, s)'
    <3>1. CASE s = item.stage
      <4> SUFFICES ASSUME item.content.of = w, NEW u \in Upstream[s]
                   PROVE  /\ u \in DOMAIN held2 /\ u \notin From(w, 1)'
                          /\ held2[u] \in artifacts'[held2[s].id].binds
        BY <1>15, <1>17, <1>18, <3>1 DEF BoundToHeld
      <4>1. BindsLater(w, 1)
        BY <1>1, <1>6, <1>28 DEF PublishSound
      <4>2. u \in DOMAIN held /\ u \notin From(w, 1)
        BY <1>1, <1>6, <2>4, <3>1, <4>1 DEF BindsLater
      <4>3. u # item.stage /\ u \notin From(w, 1)'
        BY <2>4, <4>2
      <4>4. held[u] \in binds
        BY <1>19, <3>1, <4>2
      <4> QED BY <1>11, <1>15, <1>21, <3>1, <4>2, <4>3, <4>4
    <3>2. CASE s # item.stage
      <4>1. s \in DOMAIN held /\ held2[s] = held[s]
        BY <1>15, <3>2
      <4> SUFFICES ASSUME held[s].content.of = w, NEW u \in Upstream[s]
                   PROVE  /\ u \in DOMAIN held2 /\ u \notin From(w, 1)'
                          /\ held2[u] \in artifacts'[held2[s].id].binds
        BY <1>15, <1>17, <1>18, <4>1 DEF BoundToHeld
      <4>2. u \in DOMAIN held /\ u \notin From(w, 1) /\ held[u] \in artifacts[held[s].id].binds
        BY <1>1, <1>28, <4>1 DEF PublishSound, BoundToHeld
      <4>3. u # item.stage /\ u \notin From(w, 1)'
        BY <2>4, <4>2
      <4> QED BY <1>11, <1>15, <1>26, <4>1, <4>2, <4>3
    <3> QED BY <3>1, <3>2
  <2>8. ASSUME NEW i \in DOMAIN Tail(todo) PROVE BindsLater(w, i)'
    <3> SUFFICES ASSUME Tail(todo)[i].content.of = w, NEW u \in Upstream[Tail(todo)[i].stage]
                 PROVE  u \in DOMAIN held2 \cup Before(w, i)' /\ u \notin From(w, i)'
      BY <1>17, <1>18 DEF BindsLater
    <3>1. i + 1 \in DOMAIN todo /\ Tail(todo)[i] = todo[i + 1]
      BY <1>6
    <3>2. BindsLater(w, i + 1)
      BY <1>1, <1>28, <3>1 DEF PublishSound
    <3>3. u \in DOMAIN held \cup Before(w, i + 1) /\ u \notin From(w, i + 1)
      BY <1>1, <3>1, <3>2 DEF BindsLater
    <3> QED BY <1>15, <2>5, <3>3
  <2>9. ASSUME w \in Repairs PROVE RepairSound(w)'
    <3>1. RepairSound(w)
      BY <1>28, <2>9 DEF PublishSound
    <3>2. \A i \in DOMAIN todo : RepairItem(w, todo[i].stage, todo[i].content)
      BY <1>1, <3>1 DEF RepairSound
    <3>3. \A s \in DOMAIN held2 : RepairItem(w, s, held2[s].content)
      <4> TAKE s \in DOMAIN held2
      <4>1. CASE s = item.stage
        BY <1>6, <1>15, <3>2, <4>1
      <4>2. CASE s # item.stage
        BY <1>1, <1>15, <3>1, <4>2 DEF RepairSound
      <4> QED BY <4>1, <4>2
    <3>4. \A i \in DOMAIN Tail(todo) : RepairItem(w, Tail(todo)[i].stage, Tail(todo)[i].content)
      BY <1>6, <3>2
    <3>5. \E ref \in writer[w].replaced : artifacts'[ref.id].package = writer[w].parent
      BY <1>5, <1>11, <3>1 DEF RepairSound, WriterSound
    <3>6. "LUA_GENERATION" \in DOMAIN held2 =>
            writer[w].replaced \subseteq artifacts'[held2["LUA_GENERATION"].id].binds
      <4>1. CASE item.stage = "LUA_GENERATION"
        BY <1>11, <1>15, <1>19, <1>21, <4>1
      <4>2. CASE item.stage # "LUA_GENERATION"
        BY <1>1, <1>11, <1>15, <1>26, <3>1, <4>2 DEF RepairSound
      <4> QED BY <4>1, <4>2
    <3>7. writer[w].parent \in Names /\ \E n \in Nat : P = Append(writer[w].parent, n)
      BY <1>1, <3>1 DEF RepairSound
    <3> QED BY <1>17, <1>18, <3>3, <3>4, <3>5, <3>6, <3>7 DEF RepairSound
  <2>10. w \in Generations => AllStages(w)' = Stages /\ P = <<w>>
    BY <1>1, <1>28, <2>6 DEF PublishSound
  <2>11. {"WORLD_MODEL", "LUA_GENERATION"} \subseteq AllStages(w)'
    BY <1>28, <2>6 DEF PublishSound
  <2> QED BY <1>17, <1>18, <2>7, <2>8, <2>9, <2>10, <2>11 DEF PublishSound
<1>29. WillPublish(w)' => PublishSound(w)
  BY <1>4, <1>17, <1>18 DEF PackageInv, WillPublish
<1> QED BY <1>4, <1>12, <1>18, <1>22, <1>25, <1>27, <1>28, <1>29, StepSound

-----------------------------------------------------------------------------

LEMMA OrderLists ==
    ASSUME NEW S, IsFiniteSet(S)
    PROVE  /\ InSomeOrder(S) \in Seq(S)
           /\ \A id \in S : \E i \in DOMAIN InSomeOrder(S) : InSomeOrder(S)[i] = id
<1>1. PICK n : n = Cardinality(S)
  OBVIOUS
<1>2. n \in Nat
  BY <1>1, FS_CardinalityType
<1>3. \E f \in [1..n -> S] : \A id \in S : \E i \in DOMAIN f : f[i] = id
  <2>1. ExistsBijection(1..n, S)
    BY <1>1, FS_CardinalityType
  <2>2. PICK f : f \in Bijection(1..n, S)
    BY <2>1 DEF ExistsBijection
  <2>3. f \in [1..n -> S] /\ \A id \in S : \E i \in 1..n : f[i] = id
    BY <2>2 DEF Bijection, Surjection
  <2>4. DOMAIN f = 1..n
    BY <2>3
  <2> QED BY <2>3, <2>4
<1>4. PICK o : o = InSomeOrder(S)
  OBVIOUS
<1>5. o \in [1..n -> S] /\ \A id \in S : \E i \in DOMAIN o : o[i] = id
  BY <1>1, <1>3, <1>4 DEF InSomeOrder
<1>6. o \in Seq(S)
  <2>1. \A T : \A m \in Nat : \A f \in [1..m -> T] : f \in Seq(T)
    BY SeqDef
  <2> QED BY ONLY <1>2, <1>5, <2>1
<1> QED BY <1>4, <1>5, <1>6

\* What a repair takes of its parent is stored there, and has its Lua.
LEMMA DeliverableFacts ==
    ASSUME PackageInv, NEW p, HasLua(p)
    PROVE  /\ Deliverable(p) \subseteq Stored(p) /\ IsFiniteSet(Deliverable(p))
           /\ Deliverable(p) # {} => \E id \in Deliverable(p) : StageOf(id) = "LUA_GENERATION"
<1>1. Deliverable(p) \subseteq Stored(p)
  BY DEF Deliverable, Matches
<1>2. IsFiniteSet(Deliverable(p))
  <2>1. IsFiniteSet(DOMAIN artifacts) /\ Stored(p) \subseteq DOMAIN artifacts
    BY DEF PackageInv, ArtifactShape, Stored
  <2> QED BY <1>1, <2>1, FS_Subset
<1>3. ASSUME Deliverable(p) # {}
      PROVE  \E id \in Deliverable(p) : StageOf(id) = "LUA_GENERATION"
  <2>1. CASE p \in DOMAIN markers
    <3>1. Deliverable(p) = {ref.id : ref \in markers[p]}
      BY <1>3, <2>1 DEF Deliverable
    <3>2. Named(p, "LUA_GENERATION") # {}
      BY <2>1 DEF PackageInv, MarkerSound
    <3> QED BY <3>1, <3>2 DEF Named
  <2>2. CASE p \notin DOMAIN markers
    <3>1. Deliverable(p) = Stored(p)
      BY <1>3, <2>2 DEF Deliverable
    <3> QED BY <3>1 DEF HasLua
  <2> QED BY <2>1, <2>2
<1> QED BY <1>1, <1>2, <1>3

\* What a repair is to store: the copies, Lua and its review, and fingerprints.
LEMMA RepairTodo ==
    ASSUME NEW c \in Seq(Items), NEW lua \in Items, NEW review \in Items, NEW f,
           \/ f = <<>>
           \/ \E dna \in Items : f = <<dna>>
    PROVE  LET q == c \o <<lua, review>> \o f
           IN  /\ q \in Seq(Items) /\ Len(c) \in Nat
               /\ \A i \in DOMAIN c : i \in DOMAIN q /\ i <= Len(c) /\ q[i] = c[i]
               /\ Len(c) + 1 \in DOMAIN q /\ q[Len(c) + 1] = lua
               /\ \A i \in DOMAIN q : i \in Nat
               /\ \A i \in DOMAIN q :
                     \/ i \in DOMAIN c /\ q[i] = c[i]
                     \/ i = Len(c) + 1 /\ q[i] = lua
                     \/ i = Len(c) + 2 /\ q[i] = review
                     \/ i = Len(c) + 3 /\ f # <<>> /\ q[i] = f[1]
<1>1. PICK d : d = c \o <<lua, review>>
  OBVIOUS
<1>2. Len(c) \in Nat /\ DOMAIN c = 1..Len(c)
  BY LenProperties
<1>3. <<lua, review>> \in Seq(Items) /\ Len(<<lua, review>>) = 2
      /\ <<lua, review>>[1] = lua /\ <<lua, review>>[2] = review
  OBVIOUS
<1>4. /\ d \in Seq(Items) /\ Len(d) = Len(c) + 2 /\ DOMAIN d = 1..(Len(c) + 2)
      /\ \A i \in 1..Len(c) : d[i] = c[i]
      /\ d[Len(c) + 1] = lua /\ d[Len(c) + 2] = review
  <2>1. /\ d \in Seq(Items) /\ Len(d) = Len(c) + 2
        /\ \A i \in 1..(Len(c) + 2) : d[i] = IF i <= Len(c) THEN c[i] ELSE <<lua, review>>[i - Len(c)]
    BY <1>1, <1>3, ConcatProperties
  <2>2. DOMAIN d = 1..(Len(c) + 2)
    BY <2>1, LenProperties
  <2>3. \A i \in 1..Len(c) : i \in 1..(Len(c) + 2) /\ i <= Len(c)
    BY <1>2
  <2>4. /\ Len(c) + 1 \in 1..(Len(c) + 2) /\ ~(Len(c) + 1 <= Len(c)) /\ (Len(c) + 1) - Len(c) = 1
        /\ Len(c) + 2 \in 1..(Len(c) + 2) /\ ~(Len(c) + 2 <= Len(c)) /\ (Len(c) + 2) - Len(c) = 2
    BY <1>2
  <2>5. \A i \in 1..Len(c) : d[i] = c[i]
    BY <2>1, <2>3
  <2>6. d[Len(c) + 1] = lua /\ d[Len(c) + 2] = review
    BY <1>3, <2>1, <2>4
  <2> QED BY <2>1, <2>2, <2>5, <2>6
<1>5. PICK q : q = d \o f
  OBVIOUS
<1>6. /\ f \in Seq(Items) /\ Len(f) \in Nat /\ (f # <<>> => Len(f) = 1) /\ (f = <<>> => Len(f) = 0)
  <2>1. CASE f = <<>>
    BY <2>1
  <2>2. CASE \E dna \in Items : f = <<dna>>
    <3>1. PICK dna \in Items : f = <<dna>>
      BY <2>2
    <3>2. Len(f) = 1 /\ f \in Seq(Items)
      BY <3>1
    <3>3. f # <<>>
      BY <3>2, EmptySeq
    <3> QED BY <3>2, <3>3
  <2> QED BY <2>1, <2>2
<1>7. /\ q \in Seq(Items) /\ Len(q) = Len(c) + 2 + Len(f)
      /\ \A i \in 1..Len(q) : q[i] = IF i <= Len(c) + 2 THEN d[i] ELSE f[i - (Len(c) + 2)]
  <2>1. /\ q \in Seq(Items) /\ Len(q) = Len(d) + Len(f)
        /\ \A i \in 1..(Len(d) + Len(f)) : q[i] = IF i <= Len(d) THEN d[i] ELSE f[i - Len(d)]
    BY <1>4, <1>5, <1>6, ConcatProperties
  <2> QED BY <1>4, <2>1
<1>8. DOMAIN q = 1..(Len(c) + 2 + Len(f))
  BY <1>7, LenProperties
<1>9. \A i \in DOMAIN c : i \in DOMAIN q /\ i <= Len(c) /\ q[i] = c[i]
  BY <1>2, <1>4, <1>6, <1>7, <1>8
<1>10. Len(c) + 1 \in DOMAIN q /\ q[Len(c) + 1] = lua
  BY <1>2, <1>4, <1>6, <1>7, <1>8
<1>11. ASSUME NEW i \in DOMAIN q
       PROVE  \/ i \in DOMAIN c /\ q[i] = c[i]
              \/ i = Len(c) + 1 /\ q[i] = lua
              \/ i = Len(c) + 2 /\ q[i] = review
              \/ i = Len(c) + 3 /\ f # <<>> /\ q[i] = f[1]
  <2>1. i \in 1..(Len(c) + 2 + Len(f))
    BY <1>8, <1>11
  <2>2. CASE i <= Len(c)
    BY <1>2, <1>9, <2>1, <2>2
  <2>3. CASE i = Len(c) + 1 \/ i = Len(c) + 2
    <3>1. q[i] = d[i]
      BY <1>2, <1>6, <1>7, <2>1, <2>3
    <3> QED BY <1>4, <2>3, <3>1
  <2>4. CASE i > Len(c) + 2
    <3>1. Len(f) = 1 /\ f # <<>> /\ i = Len(c) + 3
      <4>1. i \in Nat /\ i <= Len(c) + 2 + Len(f)
        BY <1>2, <1>6, <2>1
      <4>2. Len(f) # 0
        BY <1>2, <1>6, <2>4, <4>1
      <4>3. Len(f) = 1 /\ f # <<>>
        BY <1>6, <4>2
      <4> QED BY <1>2, <2>4, <4>1, <4>3
    <3>2. ~(i <= Len(c) + 2) /\ i - (Len(c) + 2) = 1
      BY <1>2, <3>1
    <3> QED BY <1>7, <1>8, <2>1, <3>1, <3>2
  <2> QED BY <1>2, <2>1, <2>2, <2>3, <2>4
<1>12. \A i \in DOMAIN q : i \in Nat
  BY <1>2, <1>6, <1>8
<1>13. q = c \o <<lua, review>> \o f
  BY <1>1, <1>5
<1> QED BY <1>2, <1>7, <1>9, <1>10, <1>11, <1>12, <1>13

LEMMA TakeSound ==
    ASSUME PackageInv, NEW r \in Repairs, Take(r)
    PROVE  PackageInv'
<1>1. PICK parent, taken : parent = writer[r].parent /\ taken = Deliverable(parent)
  OBVIOUS
<1>2. PICK carried : carried = {id \in taken : StageOf(id) \notin Remade}
  OBVIOUS
<1>3. PICK designs, worlds, luas :
        /\ designs = {id \in carried : StageOf(id) = "GAME_DESIGN"}
        /\ worlds = {id \in carried : StageOf(id) = "WORLD_MODEL"}
        /\ luas = {id \in taken : StageOf(id) = "LUA_GENERATION"}
  OBVIOUS
<1>4. PICK copies : copies = InSomeOrder(designs) \o InSomeOrder(carried \ designs)
  OBVIOUS
<1>5. PICK lua, review, published, name :
        /\ lua = Made(r, "LUA_GENERATION", "none")
        /\ review = Made(r, "SECURITY_REVIEW", "none")
        /\ published = IF /\ worlds # {}
                          /\ \A id \in worlds : ContentOf(id).mode # "materialized-world"
                       THEN "yes" ELSE "no"
        /\ name = Append(parent, Attempts(parent) + 1)
  OBVIOUS
<1>6. PICK c : c = [i \in DOMAIN copies |-> Carried(copies[i])]
  OBVIOUS
<1>7. PICK replaced \in SUBSET {[id |-> id, content |-> ContentOf(id)] : id \in luas},
           fingerprints \in {<<>>, <<Made(r, "GAME_DNA", "none")>>} :
        /\ Cardinality(replaced) = (IF luas = {} THEN 0 ELSE 1)
        /\ fingerprints # <<>> => worlds # {}
        /\ writer' = [writer EXCEPT ![r] =
              [@ EXCEPT !.state = "writing", !.package = name,
                        !.todo = c \o <<lua, review>> \o fingerprints,
                        !.replaced = replaced, !.publishes = published]]
  <2> DEFINE Parent == writer[r].parent
             Taken == Deliverable(Parent)
             CarriedIds == {id \in Taken : StageOf(id) \notin Remade}
             Designs == {id \in CarriedIds : StageOf(id) = "GAME_DESIGN"}
             Worlds == {id \in CarriedIds : StageOf(id) = "WORLD_MODEL"}
             Copies == InSomeOrder(Designs) \o InSomeOrder(CarriedIds \ Designs)
             Luas == {id \in Taken : StageOf(id) = "LUA_GENERATION"}
             First == [i \in DOMAIN Copies |-> Carried(Copies[i])]
             Lua == Made(r, "LUA_GENERATION", "none")
             Review == Made(r, "SECURITY_REVIEW", "none")
             ToPublish == IF /\ Worlds # {}
                             /\ \A id \in Worlds : ContentOf(id).mode # "materialized-world"
                          THEN "yes" ELSE "no"
             Name == Append(Parent, Attempts(Parent) + 1)
  <2>1. \E replaced \in SUBSET {[id |-> id, content |-> ContentOf(id)] : id \in Luas},
           fingerprints \in {<<>>, <<Made(r, "GAME_DNA", "none")>>} :
          /\ Cardinality(replaced) = (IF Luas = {} THEN 0 ELSE 1)
          /\ fingerprints # <<>> => Worlds # {}
          /\ writer' = [writer EXCEPT ![r] =
                [@ EXCEPT !.state = "writing", !.package = Name,
                          !.todo = First \o <<Lua, Review>> \o fingerprints,
                          !.replaced = replaced, !.publishes = ToPublish]]
    BY Zenon DEF Take
  <2>2. parent = Parent /\ taken = Taken
    BY <1>1
  <2>3. carried = CarriedIds
    BY <1>2, <2>2
  <2>4. designs = Designs /\ worlds = Worlds /\ luas = Luas
    BY <1>3, <2>2, <2>3
  <2>5. copies = Copies
    BY <1>4, <2>3, <2>4
  <2>6. c = First
    BY <1>6, <2>5
  <2>7. lua = Lua /\ review = Review /\ name = Name
    BY <1>5, <2>2
  <2>8. published = ToPublish
    BY <1>5, <2>4
  <2> HIDE DEF Parent, Taken, CarriedIds, Designs, Worlds, Copies, Luas, First, Lua, Review,
               ToPublish, Name
  <2> QED BY <2>1, <2>4, <2>6, <2>7, <2>8
<1>8. PICK q : q = c \o <<lua, review>> \o fingerprints
  OBVIOUS
<1>9. PICK x : x = [writer[r] EXCEPT !.state = "writing", !.package = name, !.todo = q,
                                     !.replaced = replaced, !.publishes = published]
  OBVIOUS
<1>10. /\ r \in Writers /\ r \notin Generations /\ writer[r].state = "asking"
       /\ writer \in [Writers -> WriterRecord] /\ ArtifactShape
       /\ attempts \in Seq(Names) /\ UNCHANGED <<artifacts, markers, attempts, active>>
       /\ DOMAIN markers \subseteq Names /\ \A p \in DOMAIN markers : markers[p] \in SUBSET Refs
  BY ArtifactConstantsOK DEF Take, PackageInv, ArtifactShape, Writers
<1>11. parent \in Names /\ HasLua(parent) /\ DOMAIN writer[r].held = {} /\ ~Begun(r)
  BY <1>1, <1>10 DEF PackageInv, WriterSound, Begun
<1>12. /\ taken \subseteq Stored(parent) /\ IsFiniteSet(taken)
       /\ taken # {} => \E id \in taken : StageOf(id) = "LUA_GENERATION"
  BY <1>1, <1>11, DeliverableFacts
<1>13. \A id \in taken : /\ id \in DOMAIN artifacts /\ artifacts[id] \in Artifact
                         /\ artifacts[id].package = parent /\ id \in Ids
                         /\ StageOf(id) \in Stages /\ ContentOf(id) \in Contents
                         /\ ContentOf(id).of # r
  <2> TAKE id \in taken
  <2>1. id \in DOMAIN artifacts /\ artifacts[id].package = parent
    BY <1>12 DEF Stored
  <2>2. artifacts[id] \in Artifact /\ id \in Ids
    BY <1>10, <2>1 DEF ArtifactShape
  <2>3. Begun(ContentOf(id).of)
    BY <2>1 DEF PackageInv, ContentsBegun
  <2> QED BY <1>11, <2>1, <2>2, <2>3 DEF Artifact, StageOf, ContentOf
<1>14. /\ copies \in Seq(carried)
       /\ \A id \in carried : \E i \in DOMAIN copies : copies[i] = id
  <2>1. IsFiniteSet(designs) /\ IsFiniteSet(carried \ designs)
    BY <1>2, <1>3, <1>12, FS_Subset
  <2>2. PICK d, e : d = InSomeOrder(designs) /\ e = InSomeOrder(carried \ designs)
    OBVIOUS
  <2>3. /\ d \in Seq(designs) /\ \A id \in designs : \E i \in DOMAIN d : d[i] = id
        /\ e \in Seq(carried \ designs)
        /\ \A id \in carried \ designs : \E i \in DOMAIN e : e[i] = id
    BY <2>1, <2>2, OrderLists
  <2>4. d \in Seq(carried) /\ e \in Seq(carried)
    BY <1>3, <2>3, SeqDef
  <2>5. /\ d \o e \in Seq(carried) /\ Len(d \o e) = Len(d) + Len(e)
        /\ \A i \in 1..(Len(d) + Len(e)) :
              (d \o e)[i] = IF i <= Len(d) THEN d[i] ELSE e[i - Len(d)]
    BY <2>4, ConcatProperties
  <2>6. /\ Len(d) \in Nat /\ Len(e) \in Nat /\ DOMAIN d = 1..Len(d) /\ DOMAIN e = 1..Len(e)
        /\ DOMAIN (d \o e) = 1..(Len(d) + Len(e))
    BY <2>4, <2>5, LenProperties
  <2>7. ASSUME NEW i \in DOMAIN d PROVE i \in DOMAIN (d \o e) /\ (d \o e)[i] = d[i]
    BY <2>5, <2>6
  <2>8. ASSUME NEW i \in DOMAIN e
        PROVE  Len(d) + i \in DOMAIN (d \o e) /\ (d \o e)[Len(d) + i] = e[i]
    <3>1. /\ Len(d) + i \in 1..(Len(d) + Len(e)) /\ ~(Len(d) + i <= Len(d))
          /\ (Len(d) + i) - Len(d) = i
      BY <2>6
    <3> QED BY <2>5, <2>6, <3>1
  <2>9. \A id \in carried : \E i \in DOMAIN (d \o e) : (d \o e)[i] = id
    <3> TAKE id \in carried
    <3>1. CASE id \in designs
      BY <2>3, <2>7, <3>1
    <3>2. CASE id \notin designs
      BY <2>3, <2>8, <3>2
    <3> QED BY <3>1, <3>2
  <2> QED BY <1>4, <2>2, <2>5, <2>9
<1>15. /\ DOMAIN c = DOMAIN copies /\ DOMAIN copies = 1..Len(copies) /\ Len(copies) \in Nat
       /\ \A i \in DOMAIN copies : copies[i] \in carried /\ c[i] = Carried(copies[i])
  BY <1>6, <1>14, ElementOfSeq, LenProperties
<1>16. ASSUME NEW i \in DOMAIN c
       PROVE  /\ c[i] \in Items /\ c[i].content.of # r /\ c[i].stage \notin Remade
              /\ c[i].stage = "WORLD_MODEL" => copies[i] \in worlds
              /\ c[i].content = ContentOf(copies[i])
  <2>1. copies[i] \in carried /\ c[i] = [stage |-> StageOf(copies[i]), content |-> ContentOf(copies[i])]
    BY <1>15 DEF Carried
  <2>2. copies[i] \in taken /\ StageOf(copies[i]) \notin Remade
    BY <1>2, <2>1
  <2> QED BY <1>3, <1>13, <2>1, <2>2 DEF Items
<1>17. c \in Seq(Items)
  <2>1. c \in [1..Len(copies) -> Items]
    BY <1>6, <1>15, <1>16
  <2>2. \A T : \A m \in Nat : \A f \in [1..m -> T] : f \in Seq(T)
    BY SeqDef
  <2>3. Len(copies) \in Nat
    BY <1>15
  <2> QED BY ONLY <2>1, <2>2, <2>3
<1>18. /\ lua \in Items /\ lua.stage = "LUA_GENERATION" /\ lua.content.of = r
       /\ review \in Items /\ review.stage = "SECURITY_REVIEW" /\ review.content.of = r
  BY <1>5, <1>10, MadeFacts, StageFacts
<1>19. \/ fingerprints = <<>>
       \/ \E dna \in Items : /\ fingerprints = <<dna>> /\ dna.stage = "GAME_DNA"
                            /\ dna.content.of = r
  <2>1. /\ Made(r, "GAME_DNA", "none") \in Items /\ Made(r, "GAME_DNA", "none").stage = "GAME_DNA"
        /\ Made(r, "GAME_DNA", "none").content.of = r
    BY <1>10, MadeFacts, StageFacts
  <2> QED BY <1>7, <2>1
<1>20. fingerprints # <<>> => /\ fingerprints[1] \in Items /\ fingerprints[1].stage = "GAME_DNA"
                              /\ fingerprints[1].content.of = r
  BY <1>19
<1>21. PICK n : n = Len(c)
  OBVIOUS
<1>22. /\ q \in Seq(Items) /\ n \in Nat
       /\ \A i \in DOMAIN c : i \in DOMAIN q /\ i <= n /\ q[i] = c[i]
       /\ n + 1 \in DOMAIN q /\ q[n + 1] = lua
       /\ \A i \in DOMAIN q : i \in Nat
       /\ \A i \in DOMAIN q :
             \/ i \in DOMAIN c /\ q[i] = c[i]
             \/ i = n + 1 /\ q[i] = lua
             \/ i = n + 2 /\ q[i] = review
             \/ i = n + 3 /\ fingerprints # <<>> /\ q[i] = fingerprints[1]
  BY <1>8, <1>17, <1>18, <1>19, <1>21, RepairTodo
<1>23. name \in Names /\ Attempts(parent) + 1 \in Nat
  <2>1. DOMAIN attempts = 1..Len(attempts) /\ Len(attempts) \in Nat
    BY <1>10, LenProperties
  <2>2. IsFiniteSet(1..Len(attempts))
    <3>1. \A k \in Nat : IsFiniteSet(1..k)
      BY FS_Interval
    <3> QED BY <2>1, <3>1
  <2>3. IsFiniteSet({i \in DOMAIN attempts : attempts[i] = parent})
    BY <2>1, <2>2, FS_Subset
  <2>4. Attempts(parent) \in Nat
    BY <2>3, FS_CardinalityType DEF Attempts
  <2>5. Attempts(parent) + 1 \in Writers \cup Nat /\ parent \in Seq(Writers \cup Nat)
    BY <1>11, <2>4 DEF Names
  <2>6. Append(parent, Attempts(parent) + 1) \in Seq(Writers \cup Nat)
    BY <2>5, AppendProperties
  <2>7. Append(parent, Attempts(parent) + 1) # <<>>
    BY <2>5, AppendProperties, EmptySeq
  <2> QED BY <1>5, <2>4, <2>6, <2>7 DEF Names
<1>24. \A ref \in replaced : /\ ref \in Refs /\ ref.id \in DOMAIN artifacts
                            /\ artifacts[ref.id].package = parent
  <2>1. \A id \in luas : id \in taken
    BY <1>3
  <2> QED BY <1>7, <1>13, <2>1 DEF Refs
<1>25. /\ x \in WriterRecord /\ x.state = "writing" /\ x.package = name /\ x.todo = q
       /\ x.parent = parent /\ x.held = writer[r].held /\ x.replaced = replaced
       /\ x.publishes = published
  <2>1. published \in {"yes", "no"}
    BY <1>5
  <2>2. replaced \in SUBSET Refs
    BY <1>24
  <2> QED BY <1>1, <1>9, <1>10, <1>22, <1>23, <2>1, <2>2 DEF WriterRecord
<1>26. writer' = [writer EXCEPT ![r] = x] /\ writer'[r] = x
  BY <1>7, <1>8, <1>9, <1>10
<1>27. BegunNext(r) /\ \A v \in Writers : Begun(v) => BegunNext(v)
  BY <1>10, <1>25, <1>26 DEF Begun, BegunNext
<1>28. \A i \in DOMAIN x.todo : BegunNext(x.todo[i].content.of)
  <2> SUFFICES ASSUME NEW i \in DOMAIN q PROVE BegunNext(q[i].content.of)
    BY <1>25
  <2>1. CASE i \in DOMAIN c
    <3>1. q[i] = c[i] /\ copies[i] \in carried /\ c[i].content = ContentOf(copies[i])
      BY <1>15, <1>16, <1>22, <2>1
    <3>2. copies[i] \in DOMAIN artifacts /\ ContentOf(copies[i]).of \in Writers
      BY <1>2, <1>13, <3>1 DEF Contents
    <3>3. Begun(ContentOf(copies[i]).of)
      BY <3>2 DEF PackageInv, ContentsBegun
    <3> QED BY <1>27, <3>1, <3>2, <3>3
  <2>2. CASE i \notin DOMAIN c
    BY <1>18, <1>20, <1>22, <1>27, <2>2
  <2> QED BY <2>1, <2>2
<1>29. ArtifactShape' /\ ContentsBegun' /\ Keeps
  BY <1>10, <1>25, <1>26, <1>27, <1>28, WriterShape
<1>30. WriterSound(r)'
  <2>1. DOMAIN writer'[r].held = {}
    BY <1>11, <1>25, <1>26
  <2>2. \A ref \in writer'[r].replaced : ref.id \in DOMAIN artifacts'
    BY <1>10, <1>24, <1>25, <1>26
  <2> QED BY <1>11, <1>23, <1>25, <1>26, <2>1, <2>2 DEF WriterSound
<1>31. ASSUME WillPublish(r)' PROVE PublishSound(r)'
  <2>1. worlds # {} /\ \A id \in worlds : ContentOf(id).mode # "materialized-world"
    <3>1. published = "yes"
      BY <1>25, <1>26, <1>31 DEF WillPublish
    <3> QED BY <1>5, <3>1
  <2>2. /\ writer'[r].todo = q /\ DOMAIN writer'[r].held = {} /\ writer'[r].parent = parent
        /\ writer'[r].package = name /\ writer'[r].replaced = replaced
    BY <1>11, <1>25, <1>26
  <2>3. \A i : From(r, i)' = {q[k].stage : k \in {k \in DOMAIN q : i <= k}}
             /\ Before(r, i)' = {q[k].stage : k \in {k \in DOMAIN q : k < i}}
    BY <2>2 DEF From, Before
  <2>4. PICK w \in DOMAIN c : c[w].stage = "WORLD_MODEL"
    <3>1. PICK id \in worlds : id \in carried /\ StageOf(id) = "WORLD_MODEL"
      BY <1>3, <2>1
    <3>2. PICK i \in DOMAIN copies : copies[i] = id
      BY <1>14, <3>1
    <3> QED BY <1>15, <3>1, <3>2 DEF Carried
  <2>5. w \in DOMAIN q /\ w <= n /\ q[w].stage = "WORLD_MODEL" /\ w \in Nat /\ 1 <= w
    BY <1>15, <1>22, <2>4
  <2>6. {"WORLD_MODEL", "LUA_GENERATION"} \subseteq AllStages(r)'
    <3>1. "WORLD_MODEL" \in From(r, 1)'
      BY <2>3, <2>5
    <3>2. "LUA_GENERATION" \in From(r, 1)'
      BY <1>18, <1>22, <2>3
    <3> QED BY <3>1, <3>2 DEF AllStages
  <2>7. ASSUME NEW i \in DOMAIN q PROVE BindsLater(r, i)'
    <3> SUFFICES ASSUME q[i].content.of = r, NEW u \in Upstream[q[i].stage]
                 PROVE  u \in Before(r, i)' /\ u \notin From(r, i)'
      BY <2>2 DEF BindsLater
    <3>1. CASE i \in DOMAIN c
      BY <1>16, <1>22, <3>1
    <3>2. CASE i = n + 1 /\ q[i] = lua
      BY <1>18, <3>2, UpstreamFacts
    <3>3. CASE i = n + 2 /\ q[i] = review
      <4>1. u = "LUA_GENERATION"
        BY <1>18, <3>3, UpstreamFacts
      <4>2. u \in Before(r, i)'
        BY <1>18, <1>22, <2>3, <3>3, <4>1
      <4>3. ASSUME NEW k \in DOMAIN q, i <= k PROVE q[k].stage # u
        <5>1. ~(k \in DOMAIN c) /\ k # n + 1
          BY <1>22, <3>3, <4>3
        <5> QED BY <1>18, <1>20, <1>22, <4>1, <5>1
      <4> QED BY <2>3, <4>2, <4>3
    <3>4. CASE i = n + 3 /\ fingerprints # <<>> /\ q[i] = fingerprints[1]
      <4>1. u = "WORLD_MODEL"
        BY <1>20, <3>4, UpstreamFacts
      <4>2. u \in Before(r, i)'
        BY <1>22, <2>3, <2>5, <3>4, <4>1
      <4>3. ASSUME NEW k \in DOMAIN q, i <= k PROVE q[k].stage # u
        <5>1. ~(k \in DOMAIN c) /\ k # n + 1 /\ k # n + 2
          BY <1>22, <3>4, <4>3
        <5> QED BY <1>20, <1>22, <4>1, <5>1
      <4> QED BY <2>3, <4>2, <4>3
    <3> QED BY <1>22, <3>1, <3>2, <3>3, <3>4
  <2>8. \A i \in DOMAIN q : RepairItem(r, q[i].stage, q[i].content)
    <3> TAKE i \in DOMAIN q
    <3>1. CASE i \in DOMAIN c
      <4>1. /\ q[i] = c[i] /\ c[i].stage \notin Remade
            /\ c[i].stage = "WORLD_MODEL" => copies[i] \in worlds
            /\ c[i].content = ContentOf(copies[i])
        BY <1>16, <1>22, <3>1
      <4>2. c[i].stage # "VALIDATION"
        BY <4>1 DEF Remade
      <4> QED BY <2>1, <4>1, <4>2 DEF RepairItem
    <3>2. CASE i \notin DOMAIN c
      <4>1. /\ q[i].stage \in {"LUA_GENERATION", "SECURITY_REVIEW", "GAME_DNA"}
            /\ q[i].content.of = r
        BY <1>18, <1>20, <1>22, <3>2
      <4> QED BY <4>1 DEF RepairItem
    <3> QED BY <3>1, <3>2
  <2>9. \E ref \in replaced : artifacts'[ref.id].package = parent
    <3>1. luas # {}
      BY <1>2, <1>3, <1>12, <2>1
    <3>2. Cardinality(replaced) = 1
      BY <1>7, <3>1
    <3>3. replaced # {}
      BY <3>2, FS_EmptySet
    <3> QED BY <1>10, <1>24, <3>3
  <2>10. RepairSound(r)'
    <3>1. \E m \in Nat : name = Append(parent, m)
      BY <1>5, <1>23
    <3> QED BY <1>11, <2>2, <2>8, <2>9, <3>1 DEF RepairSound
  <2> QED BY <1>10, <2>2, <2>6, <2>7, <2>10 DEF PublishSound
<1>32. \A v \in Writers : v # r => writer'[v] = writer[v]
  BY <1>10, <1>26
<1> QED BY <1>10, <1>29, <1>30, <1>31, <1>32, StepSound

LEMMA PackageStep == PackageInv /\ [ArtifactNext]_artifactVars => PackageInv'
<1> SUFFICES ASSUME PackageInv, [ArtifactNext]_artifactVars PROVE PackageInv'
  OBVIOUS
<1>1. CASE UNCHANGED artifactVars
  <2>1. UNCHANGED <<artifacts, markers, writer, attempts, active>>
    BY <1>1 DEF artifactVars
  <2>2. ArtifactShape' /\ ContentsBegun' /\ Keeps
    BY <2>1 DEF PackageInv, ArtifactShape, Packages, StoredBy, ContentsBegun, Begun, ContentOf, Keeps
  <2> QED BY <2>1, <2>2, StepSound
<1>2. CASE \E g \in Generations, m \in RuntimeModes, passed \in BOOLEAN : Record(g, m, passed)
  BY <1>2, RecordSound
<1>3. CASE \E w \in Writers : Store(w) \/ Publish(w) \/ Fail(w)
  BY <1>3, StoreSound, PublishStepSound, FailSound
<1>4. CASE \E r \in Repairs : NothingToRepair(r) \/ Take(r) \/ \E p \in Packages : Ask(r, p)
  BY <1>4, NothingToRepairSound, TakeSound, AskSound
<1>5. CASE \E p \in Packages : Export(p)
  BY <1>5, ExportSound
<1>6. CASE \E id \in DOMAIN artifacts, edited \in {"yes", "no"},
             asked \in {"none", "lua-owned", "materialized-world"} : Edit(id, edited, asked)
  BY <1>6, EditSound
<1>7. CASE Restart
  BY <1>7, RestartSound
<1> QED BY <1>1, <1>2, <1>3, <1>4, <1>5, <1>6, <1>7 DEF ArtifactNext

LEMMA PackageTypes == PackageInv => ArtifactTypeOK
<1> SUFFICES ASSUME PackageInv PROVE ArtifactTypeOK
  OBVIOUS
<1>1. \A id \in DOMAIN artifacts :
        /\ id[1] \in Writers /\ id[2] \in Nat
        /\ artifacts[id].stage \in Stages /\ artifacts[id].content.of \in Writers
        /\ \A ref \in artifacts[id].binds : ref.id \in DOMAIN artifacts
  BY DEF PackageInv, ArtifactShape, Ids, Artifact, Contents
<1>2. \A p \in DOMAIN markers : \A ref \in markers[p] : ref.id \in Stored(p)
  BY DEF PackageInv, MarkerSound
<1>3. active \in Packages \cup {NoPackage}
  BY DEF PackageInv, ArtifactShape
<1> QED BY <1>1, <1>2, <1>3 DEF ArtifactTypeOK

LEMMA PackageCoherent == PackageInv => DeliveredIsCoherent
<1> SUFFICES ASSUME PackageInv, NEW p \in DOMAIN markers, NEW D, D = Deliverable(p), D # {}
             PROVE  /\ \A id, other \in D : StageOf(id) = StageOf(other) => id = other
                    /\ In(D, "WORLD_MODEL") # {} /\ In(D, "LUA_GENERATION") # {}
                    /\ \A id \in D : MadeHere(id) => BoundWithin(D, id)
                    /\ IF Len(p) = 1
                       THEN {StageOf(id) : id \in D} = Stages
                       ELSE /\ In(D, "VALIDATION") = {}
                            /\ \A id \in D : StageOf(id) \in Remade => MadeHere(id)
                            /\ \A id \in In(D, "WORLD_MODEL") :
                                ContentOf(id).mode # "materialized-world"
                            /\ \A id \in In(D, "LUA_GENERATION") : \E ref \in artifacts[id].binds :
                                artifacts[ref.id].package = SubSeq(p, 1, Len(p) - 1)
  BY DEF DeliveredIsCoherent
<1>1. MarkerSound(p) /\ markers[p] \in SUBSET Refs /\ ArtifactShape
  BY DEF PackageInv, ArtifactShape
<1>2. /\ D = {ref.id : ref \in markers[p]}
      /\ \A ref \in markers[p] : ContentOf(ref.id) = ref.content
  BY DEF Deliverable, Matches
<1>3. \A ref \in markers[p] : /\ ref.id \in D /\ ref = [id |-> ref.id, content |-> ContentOf(ref.id)]
  BY <1>1, <1>2 DEF Refs
<1>4. \A id \in D : \E ref \in markers[p] : ref.id = id
  BY <1>2
<1>5. \A s : In(D, s) = {ref.id : ref \in Named(p, s)}
  BY <1>2 DEF In, Named
<1>6. \A id, other \in D : StageOf(id) = StageOf(other) => id = other
  BY <1>1, <1>4 DEF MarkerSound
<1>7. In(D, "WORLD_MODEL") # {} /\ In(D, "LUA_GENERATION") # {}
  <2>1. \A s : Named(p, s) # {} => In(D, s) # {}
    BY <1>5
  <2> QED BY <1>1, <2>1 DEF MarkerSound
<1>8. ASSUME NEW id \in D, MadeHere(id) PROVE BoundWithin(D, id)
  <2> SUFFICES ASSUME NEW u \in Upstream[StageOf(id)]
               PROVE  \E up \in In(D, u) : [id |-> up, content |-> ContentOf(up)] \in artifacts[id].binds
    BY DEF BoundWithin
  <2>1. PICK ref \in markers[p] : ref.id = id
    BY <1>4
  <2>2. ref.content.of = ref.id[1]
    BY <1>2, <1>8, <2>1 DEF MadeHere
  <2>3. PICK up \in Named(p, u) : up \in artifacts[id].binds
    BY <1>1, <2>1, <2>2 DEF MarkerSound
  <2>4. up.id \in In(D, u) /\ up = [id |-> up.id, content |-> ContentOf(up.id)]
    BY <1>3, <1>5, <2>3 DEF Named
  <2> QED BY <2>3, <2>4
<1>9. CASE Len(p) = 1
  <2>1. \A id \in D : StageOf(id) \in Stages
    <3>1. \A id \in D : id \in DOMAIN artifacts
      BY <1>1, <1>4 DEF MarkerSound, Stored
    <3> QED BY <1>1, <3>1 DEF ArtifactShape, Artifact, StageOf
  <2>2. \A s \in Stages : \E id \in D : StageOf(id) = s
    <3> TAKE s \in Stages
    <3>1. PICK ref : ref \in Named(p, s)
      BY <1>1, <1>9 DEF MarkerSound
    <3> QED BY <1>3, <3>1 DEF Named
  <2>3. {StageOf(id) : id \in D} = Stages
    BY <2>1, <2>2
  <2> QED BY <1>6, <1>7, <1>8, <1>9, <2>3
<1>10. CASE Len(p) # 1
  <2>1. \A id \in D : RepairItem(id[1], StageOf(id), ContentOf(id))
    <3> TAKE id \in D
    <3>1. PICK ref \in markers[p] : ref.id = id
      BY <1>4
    <3>2. RepairItem(ref.id[1], StageOf(ref.id), ref.content)
      BY <1>1, <1>10 DEF MarkerSound
    <3> QED BY <1>2, <3>1, <3>2
  <2>2. In(D, "VALIDATION") = {}
    BY <2>1 DEF RepairItem, In
  <2>3. \A id \in D : StageOf(id) \in Remade => MadeHere(id)
    BY <2>1 DEF RepairItem, MadeHere
  <2>4. \A id \in In(D, "WORLD_MODEL") : ContentOf(id).mode # "materialized-world"
    BY <2>1 DEF RepairItem, In
  <2>5. \A id \in In(D, "LUA_GENERATION") : \E ref \in artifacts[id].binds :
            artifacts[ref.id].package = SubSeq(p, 1, Len(p) - 1)
    <3> TAKE id \in In(D, "LUA_GENERATION")
    <3>1. PICK ref \in Named(p, "LUA_GENERATION") : ref.id = id
      BY <1>5
    <3> QED BY <1>1, <1>10, <3>1 DEF MarkerSound
  <2> QED BY <1>6, <1>7, <1>8, <1>10, <2>2, <2>3, <2>4, <2>5
<1> QED BY <1>9, <1>10

\* Any package that is published is delivered whole or not at all, whatever
\* was edited, retried or cut short.
THEOREM PublishedAreCoherent == ArtifactSpec => []DeliveredIsCoherent
<1>1. ArtifactSpec => []PackageInv
  BY InitSound, PackageStep, PTL DEF ArtifactSpec
<1> QED BY <1>1, PackageCoherent, PTL

-----------------------------------------------------------------------------
(***************************************************************************)
(* The storage                                                             *)
(***************************************************************************)

\* What a part does in the composition it may do alone.
LEMMA EachPartIsItself == StorageSpec => Spec /\ ArtifactSpec
<1>1. StorageInit => Init /\ ArtifactInit
  BY DEF StorageInit
<1> DEFINE Steps == /\ Next \/ UNCHANGED vars
                    /\ ArtifactNext \/ UNCHANGED artifactVars
<1>2. StorageNext => Steps
  BY DEF StorageNext
<1>3. UNCHANGED storageVars => Steps
  BY DEF storageVars
<1>4. Steps => [Next]_vars /\ [ArtifactNext]_artifactVars
  OBVIOUS
<1> HIDE DEF Steps
<1>5. [StorageNext]_storageVars => [Next]_vars /\ [ArtifactNext]_artifactVars
  BY <1>2, <1>3, <1>4
<1> QED BY <1>1, <1>5, PTL DEF StorageSpec, Spec, ArtifactSpec

\* The caches over the storage and the packages in it: every variable has its
\* type, whatever the constants of either.
THEOREM StorageTypesCorrect == StorageSpec => []StorageTypeOK
<1>1. ArtifactSpec => []ArtifactTypeOK
  <2>1. ArtifactSpec => []PackageInv
    BY InitSound, PackageStep, PTL DEF ArtifactSpec
  <2> QED BY <2>1, PackageTypes, PTL
<1> QED BY <1>1, EachPartIsItself, StoreTypes, PTL DEF StorageTypeOK
=============================================================================
