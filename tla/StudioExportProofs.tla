-------------------------- MODULE StudioExportProofs --------------------------
(***************************************************************************)
(* Theorems about StudioExport, for every set of processes, clients,       *)
(* contents and requests: its types, and that the evidence forms one       *)
(* chain, no command is in two answers, and reports on a command are all   *)
(* answered what its evidence says.                                        *)
(*                                                                         *)
(* What a request has read is the end of some prefix of the log.  When its *)
(* version claim is absent that prefix is the log itself, so a transition  *)
(* decided from it continues the last one.                                 *)
(***************************************************************************)
EXTENDS StudioExport, TLAPS

-----------------------------------------------------------------------------
(***************************************************************************)
(* Type correctness                                                        *)
(***************************************************************************)

\* A request in flight is of a client, and of a command if its kind has one; a
\* transition that was queued is of some version.
Proper(x) == x.phase # "idle" =>
    /\ x.client \in Clients
    /\ x.kind \in {"acknowledge", "report"} => x.command \in Commands
    /\ x.phase \in {"save", "saved"} => x.save.version > 0
ActiveRequests == \A r \in Requests : Proper(request[r])

TypeInv == TypeOK /\ ActiveRequests

\* The idle records have the types of the records they stand for.
LEMMA IdleTypes ==
  /\ NoEvidence \in Evidence /\ Idle \in Request /\ NoSession \in Session
  /\ Unread \in [latest: Evidence, filed: [Commands -> Evidence]]
  /\ Idle.phase = "idle" /\ Idle.client = Nobody /\ Proper(Idle)
<1>1. NoEvidence \in Evidence /\ NoSession \in Session
  BY DEF NoEvidence, Evidence, NoSession, Session
<1>2. Unread \in [latest: Evidence, filed: [Commands -> Evidence]]
  BY <1>1 DEF Unread
<1>3. Idle \in Request /\ Idle.phase = "idle" /\ Idle.client = Nobody
  BY <1>1, <1>2 DEF Idle, Request, Kind, Verdict
<1>4. Proper(Idle)
  BY <1>3 DEF Proper
<1> QED
  BY <1>1, <1>2, <1>3, <1>4

\* An active request lives on a process, whose writes form a queue.
LEMMA HomeType ==
  ASSUME TypeInv, NEW r \in Requests, request[r].phase # "idle"
  PROVE /\ Home(r) \in Procs /\ request[r].client \in Clients
        /\ writes[Home(r)] \in Seq(Requests)
        /\ Len(writes[Home(r)]) \in Nat
<1>1. request[r].client \in Clients
  BY DEF TypeInv, ActiveRequests, Proper
<1>2. Home(r) \in Procs
  BY <1>1, StudioConstantsOK DEF Home
<1> QED
  BY <1>1, <1>2 DEF TypeInv, TypeOK

\* One request that changes into a well-typed one keeps the invariant of them.
LEMMA OneRequest ==
  ASSUME TypeInv, NEW r \in Requests, NEW x \in Request, Proper(x),
         request' = [request EXCEPT ![r] = x]
  PROVE request' \in [Requests -> Request] /\ ActiveRequests'
BY DEF TypeInv, TypeOK, ActiveRequests

\* A request that ends.
LEMMA EndType ==
  ASSUME TypeInv, NEW r \in Requests, request' = [request EXCEPT ![r] = Idle]
  PROVE request' \in [Requests -> Request] /\ ActiveRequests'
BY IdleTypes, OneRequest

\* A request that begins.
LEMMA BeginType ==
  ASSUME TypeInv, NEW r \in Requests, NEW kind \in Kind, NEW c \in Clients,
         NEW content \in Contents \cup {Nothing}, NEW m \in Commands \cup {0},
         NEW verdict \in Verdict, NEW rest \in SUBSET Commands,
         kind \in {"acknowledge", "report"} => m \in Commands,
         Begin(r, kind, c, content, m, verdict, rest)
  PROVE request' \in [Requests -> Request] /\ ActiveRequests'
<1> DEFINE x == [Idle EXCEPT !.kind = kind, !.client = c, !.content = content,
                             !.command = m, !.verdict = verdict, !.rest = rest,
                             !.phase = "refresh", !.behind = Len(writes[HomeOf[c]])]
<1>1. Len(writes[HomeOf[c]]) \in Nat
  BY StudioConstantsOK DEF TypeInv, TypeOK
<1>2. x \in Request /\ Proper(x)
  BY <1>1, IdleTypes DEF Request, Proper
<1>3. request' = [request EXCEPT ![r] = x]
  BY DEF Begin
<1> HIDE DEF x
<1> QED
  BY <1>2, <1>3, OneRequest

\* A request that queues its transition, or refreshes again.
LEMMA SaveType ==
  ASSUME TypeInv, NEW r \in Requests, request[r].phase = "read",
         NEW evidence \in Evidence, Save(r, evidence)
  PROVE /\ request' \in [Requests -> Request] /\ ActiveRequests'
        /\ writes' \in [Procs -> Seq(Requests)]
<1>1. Home(r) \in Procs /\ writes[Home(r)] \in Seq(Requests)
      /\ Len(writes[Home(r)]) \in Nat
  BY HomeType
<1>2. request[r] \in Request
  BY DEF TypeInv, TypeOK
<1> DEFINE sent == [request[r] EXCEPT !.phase = "save", !.save = evidence]
           again == [request[r] EXCEPT !.phase = "refresh", !.lost = TRUE,
                                       !.behind = Len(writes[Home(r)])]
<1>3. Proper(request[r]) /\ request[r].rows.latest.version \in Nat
  BY <1>2 DEF TypeInv, ActiveRequests, Request, Evidence
<1>4. sent \in Request
  BY <1>2 DEF Request
<1>5. again \in Request /\ Proper(again)
  BY <1>1, <1>2, <1>3 DEF Request, Proper
<1>6. CASE evidence.version = request[r].rows.latest.version + 1
  <2>1. /\ request' = [request EXCEPT ![r] = sent]
        /\ writes' = [writes EXCEPT ![Home(r)] = Append(@, r)]
    BY <1>2, <1>6 DEF Save, TypeInv, TypeOK
  <2>2. writes' \in [Procs -> Seq(Requests)]
    BY <1>1, <2>1 DEF TypeInv, TypeOK
  <2>3. Proper(sent)
    BY <1>2, <1>3, <1>6 DEF Proper, Request
  <2> HIDE DEF sent
  <2> QED
    BY <1>4, <2>1, <2>2, <2>3, OneRequest
<1>7. CASE evidence.version # request[r].rows.latest.version + 1
  <2>1. request' = [request EXCEPT ![r] = again] /\ writes' = writes
    BY <1>7 DEF Save
  <2> HIDE DEF again
  <2> QED
    BY <1>5, <2>1, OneRequest DEF TypeInv, TypeOK
<1> QED
  BY <1>6, <1>7

\* A settled transition: nobody waits for fewer than no writes.
LEMMA SettleType ==
  ASSUME TypeInv, NEW r \in Requests, request[r].phase # "idle", Turn(r),
         NEW x \in Request, Proper(x),
         Settle(r, x)
  PROVE /\ request' \in [Requests -> Request] /\ ActiveRequests'
        /\ writes' \in [Procs -> Seq(Requests)]
<1>1. Home(r) \in Procs /\ writes[Home(r)] \in Seq(Requests)
      /\ writes[Home(r)] # <<>>
  BY HomeType DEF Turn
<1>2. writes' \in [Procs -> Seq(Requests)]
  BY <1>1 DEF Settle, TypeInv, TypeOK
<1>3. ASSUME NEW q \in Requests
      PROVE request'[q] \in Request /\ Proper(request'[q])
  <2>1. request[q] \in Request
    BY DEF TypeInv, TypeOK
  <2> DEFINE y == [request[q] EXCEPT !.behind = Fewer(@)]
  <2>2. Fewer(request[q].behind) \in Nat
    BY <2>1 DEF Fewer, Request
  <2>3. y \in Request /\ (Proper(y) <=> Proper(request[q]))
    BY <2>1, <2>2 DEF Request, Proper
  <2>4. request'[q] \in {x, y, request[q]} /\ (q = r => request'[q] = x)
    BY DEF Settle
  <2> HIDE DEF y
  <2> QED
    BY <2>1, <2>3, <2>4 DEF TypeInv, ActiveRequests
<1>4. request' = [q \in Requests |-> request'[q]]
  BY DEF Settle
<1> QED
  BY <1>2, <1>3, <1>4 DEF ActiveRequests

-----------------------------------------------------------------------------
\* Requests that arrive.
LEMMA ArrivalType ==
  ASSUME TypeInv, NEW r \in Requests, Arrival(r)
  PROVE TypeInv'
<1> PICK c \in Clients :
      \/ Connect(r, c) \/ PollRequest(r, c)
      \/ \E s \in Contents : ExportRequest(r, c, s)
      \/ \E m \in Commands :
          \/ AcknowledgeRequest(r, c, m)
          \/ \E verdict \in Verdict : ReportRequest(r, c, m, verdict)
  BY DEF Arrival
<1>1. CASE Connect(r, c)
  <2>1. request' \in [Requests -> Request] /\ ActiveRequests'
    BY <1>1, BeginType DEF Connect, Kind, Verdict
  <2>2. /\ client' \in [Clients -> {"new", "connected", "disconnected", "gone"}]
        /\ session' \in [Clients -> Session]
    BY <1>1 DEF Connect, TypeInv, TypeOK, Session
  <2> QED
    BY <1>1, <2>1, <2>2 DEF Connect, TypeInv, TypeOK, rows
<1>2. CASE PollRequest(r, c)
  <2>1. request' \in [Requests -> Request] /\ ActiveRequests'
    BY <1>2, BeginType DEF PollRequest, TypeInv, TypeOK, Kind, Verdict
  <2> QED
    BY <1>2, <2>1 DEF PollRequest, TypeInv, TypeOK, rows, local
<1>3. ASSUME NEW s \in Contents, ExportRequest(r, c, s)
      PROVE TypeInv'
  <2>1. request' \in [Requests -> Request] /\ ActiveRequests'
    BY <1>3, BeginType DEF ExportRequest, Kind, Verdict
  <2> QED
    BY <1>3, <2>1 DEF ExportRequest, TypeInv, TypeOK, rows, local
<1>4. ASSUME NEW m \in Commands, AcknowledgeRequest(r, c, m)
      PROVE TypeInv'
  <2>1. request' \in [Requests -> Request] /\ ActiveRequests'
    BY <1>4, BeginType DEF AcknowledgeRequest, Kind, Verdict
  <2> QED
    BY <1>4, <2>1 DEF AcknowledgeRequest, TypeInv, TypeOK, rows, local
<1>5. ASSUME NEW m \in Commands, NEW verdict \in Verdict, ReportRequest(r, c, m, verdict)
      PROVE TypeInv'
  <2>1. request' \in [Requests -> Request] /\ ActiveRequests'
    BY <1>5, BeginType DEF ReportRequest, Kind
  <2> QED
    BY <1>5, <2>1 DEF ReportRequest, TypeInv, TypeOK, rows, local
<1> QED
  BY <1>1, <1>2, <1>3, <1>4, <1>5

\* The rows a request is given are rows.
LEMMA SelectType ==
  ASSUME TypeInv, NEW r \in Requests, Select(r)
  PROVE TypeInv'
<1> DEFINE x == [request[r] EXCEPT !.phase = "read",
                                   !.rows = [latest |-> latest, filed |-> filed]]
<1>1. request[r] \in Request
  BY DEF TypeInv, TypeOK
<1>2. x \in Request
  BY <1>1 DEF TypeInv, TypeOK, Request
<1>3. request' = [request EXCEPT ![r] = x]
  BY DEF Select, TypeInv, TypeOK
<1>4. Proper(x)
  BY <1>1 DEF Select, TypeInv, ActiveRequests, Proper, Request
<1> HIDE DEF x
<1>5. request' \in [Requests -> Request] /\ ActiveRequests'
  BY <1>2, <1>3, <1>4, OneRequest
<1> QED
  BY <1>5 DEF Select, TypeInv, TypeOK, rows, local

\* A refresh that fails keeps every type.
LEMMA RefreshFaultType ==
  ASSUME TypeInv, NEW r \in Requests, RefreshFault(r)
  PROVE TypeInv'
<1>1. request' \in [Requests -> Request] /\ ActiveRequests'
  BY EndType DEF RefreshFault
<1>2. /\ client' \in [Clients -> {"new", "connected", "disconnected", "gone"}]
      /\ session' \in [Clients -> Session]
  BY IdleTypes DEF RefreshFault, TypeInv, TypeOK
<1> QED
  BY <1>1, <1>2 DEF RefreshFault, Mishap, TypeInv, TypeOK, rows

\* A committed transition becomes the rows.
LEMMA CommitType ==
  ASSUME TypeInv, NEW r \in Requests, Commit(r)
  PROVE TypeInv'
<1> DEFINE x == [request[r] EXCEPT !.phase = "saved"]
<1>1. request[r] \in Request /\ request[r].save \in Evidence
  BY DEF TypeInv, TypeOK, Request
<1>2. x \in Request
  BY <1>1 DEF Request
<1>3. request' = [request EXCEPT ![r] = x]
  BY DEF Commit, TypeInv, TypeOK
<1>4. Proper(x)
  BY <1>1 DEF Commit, Sent, TypeInv, ActiveRequests, Proper, Request
<1> HIDE DEF x
<1>5. request' \in [Requests -> Request] /\ ActiveRequests'
  BY <1>2, <1>3, <1>4, OneRequest
<1> DEFINE evidence == request[r].save
<1>6. /\ latest' \in Evidence /\ filed' \in [Commands -> Evidence]
      /\ log' \in Seq(Evidence)
  <2>1. /\ latest' = evidence /\ filed' = [filed EXCEPT ![evidence.command] = evidence]
        /\ log' = Append(log, evidence)
    BY DEF Commit
  <2>2. evidence \in Evidence
    BY <1>1
  <2> HIDE DEF evidence
  <2>3. [filed EXCEPT ![evidence.command] = evidence] \in [Commands -> Evidence]
    BY <2>2 DEF TypeInv, TypeOK
  <2>4. Append(log, evidence) \in Seq(Evidence)
    BY <2>2 DEF TypeInv, TypeOK
  <2> QED
    BY <2>1, <2>2, <2>3, <2>4
<1>7. claims' \subseteq Nat
  BY <1>1 DEF Commit, TypeInv, TypeOK, Evidence
<1> QED
  BY <1>5, <1>6, <1>7 DEF Commit, TypeInv, TypeOK, local

\* A lost transition refreshes behind the writes that are left.
LEMMA ConflictType ==
  ASSUME TypeInv, NEW r \in Requests, Conflict(r)
  PROVE TypeInv'
<1> DEFINE x == [request[r] EXCEPT !.phase = "refresh", !.lost = TRUE,
                                   !.behind = Len(writes[Home(r)]) - 1]
<1>1. request[r] \in Request /\ request[r].phase # "idle" /\ Turn(r)
  BY DEF Conflict, Sent, TypeInv, TypeOK
<1>2. Len(writes[Home(r)]) - 1 \in Nat
  BY <1>1, HomeType DEF Turn
<1>3. x \in Request
  BY <1>1, <1>2 DEF Request
<1>4. Settle(r, x)
  BY DEF Conflict
<1>5. Proper(x)
  BY <1>1 DEF TypeInv, ActiveRequests, Proper, Request
<1> HIDE DEF x
<1>6. /\ request' \in [Requests -> Request] /\ ActiveRequests'
      /\ writes' \in [Procs -> Seq(Requests)]
  BY <1>1, <1>3, <1>4, <1>5, SettleType
<1> QED
  BY <1>6 DEF Conflict, TypeInv, TypeOK, rows, local

\* A transition that ends its request.
LEMMA SettleEndType ==
  ASSUME TypeInv, NEW r \in Requests, request[r].phase # "idle", Turn(r),
         Settle(r, Idle)
  PROVE /\ request' \in [Requests -> Request] /\ ActiveRequests'
        /\ writes' \in [Procs -> Seq(Requests)]
BY IdleTypes, SettleType

\* A transition that fails ends its request.
LEMMA SaveFaultType ==
  ASSUME TypeInv, NEW r \in Requests, SaveFault(r)
  PROVE TypeInv'
<1>1. /\ request' \in [Requests -> Request] /\ ActiveRequests'
      /\ writes' \in [Procs -> Seq(Requests)]
  BY SettleEndType DEF SaveFault
<1> QED
  BY <1>1 DEF SaveFault, Mishap, TypeInv, TypeOK, rows, local

\* A session that takes over the sync count.
LEMMA ApplyType ==
  ASSUME TypeInv, NEW c \in Clients, ApplyEvidence(c)
  PROVE session' \in [Clients -> Session]
BY DEF ApplyEvidence, TypeInv, TypeOK, Session

\* A reconciliation applies what was read.
LEMMA ReconcileType ==
  ASSUME TypeInv, NEW r \in Requests, Reconcile(r)
  PROVE TypeInv'
<1>1. request' \in [Requests -> Request] /\ ActiveRequests'
  BY EndType DEF Reconcile, End
<1>2. request[r].client \in Clients
  BY DEF Reconcile, Reading, TypeInv, ActiveRequests, Proper
<1>3. session' \in [Clients -> Session]
  BY <1>2, ApplyType DEF Reconcile, TypeInv, TypeOK
<1> QED
  BY <1>1, <1>3 DEF Reconcile, TypeInv, TypeOK, rows

-----------------------------------------------------------------------------
\* Requests that end with nothing changed.
LEMMA PlainEndType ==
  ASSUME TypeInv, NEW r \in Requests,
         ExportRefused(r) \/ ExportLost(r) \/ AcknowledgeEnd(r) \/ ReportRefused(r)
  PROVE TypeInv'
<1>1. request' \in [Requests -> Request] /\ ActiveRequests'
  BY EndType DEF ExportRefused, ExportLost, AcknowledgeEnd, ReportRefused, End
<1> QED
  BY <1>1 DEF ExportRefused, ExportLost, AcknowledgeEnd, ReportRefused,
              TypeInv, TypeOK, rows, local

\* What an active request has read.
LEMMA RowsType ==
  ASSUME TypeInv, NEW r \in Requests
  PROVE /\ request[r].rows.latest \in Evidence
        /\ request[r].rows.latest.version \in Nat
        /\ \A m \in Commands : Current(r, m) \in Evidence
        /\ request[r].client \in Clients \cup {Nobody}
        /\ request[r].content \in Contents \cup {Nothing}
        /\ request[r].verdict \in Verdict
BY DEF TypeInv, TypeOK, Request, Current, Evidence

\* A new command is evidence.
LEMMA ExportQueueType ==
  ASSUME TypeInv, NEW r \in Requests, ExportQueue(r)
  PROVE TypeInv'
<1> DEFINE version == request[r].rows.latest.version + 1
           new == [command |-> version, client |-> request[r].client,
                   content |-> request[r].content, delivered |-> FALSE,
                   status |-> "sent", version |-> version]
<1>1. new \in Evidence
  BY RowsType DEF ExportQueue, Evidence
<1>2. Save(r, new) /\ request[r].phase = "read"
  BY DEF ExportQueue, CanExport, Reading
<1> HIDE DEF new
<1>3. /\ request' \in [Requests -> Request] /\ ActiveRequests'
      /\ writes' \in [Procs -> Seq(Requests)]
  BY <1>1, <1>2, SaveType
<1> QED
  BY <1>3 DEF ExportQueue, TypeInv, TypeOK, rows, local

\* An export without changes saves evidence again.
LEMMA ExportUnchangedType ==
  ASSUME TypeInv, NEW r \in Requests, ExportUnchanged(r)
  PROVE TypeInv'
<1> DEFINE new == [request[r].rows.latest EXCEPT !.version = @ + 1,
                                                 !.content = request[r].content]
<1>1. new \in Evidence
  <2>1. ASSUME NEW e \in Evidence, NEW content \in Contents \cup {Nothing}
        PROVE [e EXCEPT !.version = @ + 1, !.content = content] \in Evidence
    <3>1. e.version + 1 \in Nat
      BY DEF Evidence
    <3> QED
      BY <3>1 DEF Evidence
  <2> QED
    BY <2>1, RowsType
<1>2. Save(r, new) /\ request[r].phase = "read"
  BY DEF ExportUnchanged, CanExport, Reading
<1> HIDE DEF new
<1>3. /\ request' \in [Requests -> Request] /\ ActiveRequests'
      /\ writes' \in [Procs -> Seq(Requests)]
  BY <1>1, <1>2, SaveType
<1> QED
  BY <1>3 DEF ExportUnchanged, TypeInv, TypeOK, rows, local

\* A saved export queues a command that exists.
LEMMA ExportSavedType ==
  ASSUME TypeInv, NEW r \in Requests, ExportSaved(r)
  PROVE TypeInv'
<1>1. /\ request[r].phase # "idle" /\ Turn(r) /\ Settle(r, Idle)
      /\ ApplyEvidence(request[r].client)
  BY DEF ExportSaved, Saved
<1>2. /\ request' \in [Requests -> Request] /\ ActiveRequests'
      /\ writes' \in [Procs -> Seq(Requests)]
  BY <1>1, SettleEndType
<1>3. request[r].client \in Clients /\ request[r].save \in Evidence
  BY <1>1 DEF TypeInv, TypeOK, ActiveRequests, Proper, Request
<1>4. session' \in [Clients -> Session]
  BY <1>1, <1>3, ApplyType
<1>5. /\ request[r].save.content \in Contents \cup {Nothing}
      /\ IsNew(request[r].save) => request[r].save.command \in Commands
  BY <1>3 DEF Evidence, IsNew, ExportSaved, Saved, TypeInv, ActiveRequests, Proper
<1>6. signature' \in [Clients -> Contents \cup {Nothing}]
  BY <1>3, <1>5 DEF ExportSaved, TypeInv, TypeOK
<1>7. queued' \in [Clients -> SUBSET Commands]
  BY <1>3, <1>5 DEF ExportSaved, TypeInv, TypeOK
<1> QED
  BY <1>2, <1>4, <1>6, <1>7 DEF ExportSaved, TypeInv, TypeOK, rows

-----------------------------------------------------------------------------
\* A poll that goes on is a request.
LEMMA AdvancedType ==
  ASSUME TypeInv, NEW r \in Requests, request[r].phase # "idle",
         NEW m, NEW out \in SUBSET Commands, NEW behind \in Nat
  PROVE Advanced(r, m, out, behind) \in Request /\ Proper(Advanced(r, m, out, behind))
<1>1. request[r].client \in Clients /\ request[r].rest \ {m} \in SUBSET Commands
  BY DEF TypeInv, TypeOK, ActiveRequests, Proper, Request
<1> DEFINE next == [Idle EXCEPT !.kind = "poll", !.client = request[r].client,
                      !.rest = request[r].rest \ {m}, !.out = out,
                      !.phase = "refresh", !.behind = behind]
<1>2. next \in Request
  BY <1>1, IdleTypes DEF Request, Kind
<1>3. Proper(next)
  BY <1>1, IdleTypes DEF Request, Proper
<1>4. Advanced(r, m, out, behind) \in {Idle, next}
  BY DEF Advanced
<1> HIDE DEF next
<1> QED
  BY <1>2, <1>3, <1>4, IdleTypes

\* What a poll does with the queue, the session and its answer.
LEMMA LookedAtType ==
  ASSUME TypeInv, NEW r \in Requests, request[r].phase # "idle",
         NEW m \in Commands, NEW delivered \in BOOLEAN, NEW out \in SUBSET Commands,
         Forget(r, m, delivered), Answer(r, m, out)
  PROVE /\ queued' \in [Clients -> SUBSET Commands]
        /\ session' \in [Clients -> Session]
        /\ handed' \in [Commands -> Nat]
<1>1. request[r].client \in Clients
  BY DEF TypeInv, ActiveRequests, Proper
<1>2. session' \in [Clients -> Session]
  BY <1>1, ApplyType DEF Forget, TypeInv, TypeOK
<1>3. queued' \in [Clients -> SUBSET Commands]
  <2>1. [queued EXCEPT ![request[r].client] = @ \ {m}] \in [Clients -> SUBSET Commands]
    BY <1>1 DEF TypeInv, TypeOK
  <2>2. /\ delivered => queued' = [queued EXCEPT ![request[r].client] = @ \ {m}]
        /\ ~delivered => queued' = queued
    BY DEF Forget, Dequeue
  <2> QED
    BY <2>1, <2>2 DEF TypeInv, TypeOK
<1>4. handed' \in [Commands -> Nat]
  <2>1. \A n \in Commands : handed[n] \in Nat /\ handed[n] + 1 \in Nat
    BY DEF TypeInv, TypeOK
  <2> QED
    BY <2>1 DEF Answer
<1> QED
  BY <1>2, <1>3, <1>4

\* The next stage of a command is evidence.
LEMMA StageType ==
  ASSUME NEW e \in Evidence, NEW v \in Nat
  PROVE /\ [e EXCEPT !.delivered = TRUE, !.version = v + 1] \in Evidence
        /\ [e EXCEPT !.status = "acknowledged", !.version = v + 1] \in Evidence
<1>1. v + 1 \in Nat
  OBVIOUS
<1> QED
  BY <1>1 DEF Evidence

\* A delivery is evidence.
LEMMA PollDeliverType ==
  ASSUME TypeInv, NEW r \in Requests, NEW m \in Commands, PollDeliver(r, m)
  PROVE TypeInv'
<1> DEFINE new == [Current(r, m) EXCEPT !.delivered = TRUE,
                            !.version = request[r].rows.latest.version + 1]
<1>1. new \in Evidence
  BY RowsType, StageType
<1>2. Save(r, new) /\ request[r].phase = "read"
  BY DEF PollDeliver, Reading
<1> HIDE DEF new
<1>3. /\ request' \in [Requests -> Request] /\ ActiveRequests'
      /\ writes' \in [Procs -> Seq(Requests)]
  BY <1>1, <1>2, SaveType
<1> QED
  BY <1>3 DEF PollDeliver, TypeInv, TypeOK, rows, local

\* A poll that passes over a command goes on or answers.
LEMMA PollPassType ==
  ASSUME TypeInv, NEW r \in Requests, NEW m \in Commands, PollPass(r, m)
  PROVE TypeInv'
<1> DEFINE behind == Len(writes[Home(r)])
           delivered == Current(r, m).delivered
           x == Advanced(r, m, request[r].out, behind)
<1>1. request[r].phase # "idle" /\ request[r].out \in SUBSET Commands
  BY DEF PollPass, Losing, Reading, TypeInv, TypeOK, Request
<1>2. behind \in Nat /\ delivered \in BOOLEAN
  BY <1>1, HomeType, RowsType DEF Evidence
<1>3. x \in Request /\ Proper(x)
  BY <1>1, <1>2, AdvancedType
<1>4. /\ request' = [request EXCEPT ![r] = x]
      /\ Forget(r, m, delivered) /\ Answer(r, m, request[r].out)
  BY DEF PollPass
<1> HIDE DEF x, delivered
<1>5. request' \in [Requests -> Request] /\ ActiveRequests'
  BY <1>3, <1>4, OneRequest
<1>6. /\ queued' \in [Clients -> SUBSET Commands] /\ session' \in [Clients -> Session]
      /\ handed' \in [Commands -> Nat]
  BY <1>1, <1>2, <1>4, LookedAtType
<1> QED
  BY <1>5, <1>6 DEF PollPass, TypeInv, TypeOK, rows

\* A poll that has delivered a command goes on or answers.
LEMMA PollSavedType ==
  ASSUME TypeInv, NEW r \in Requests, NEW m \in Commands, PollSaved(r, m)
  PROVE TypeInv'
<1> DEFINE behind == Len(writes[Home(r)]) - 1
           out == request[r].out \cup {m}
           x == Advanced(r, m, out, behind)
<1>1. /\ request[r].phase # "idle" /\ Turn(r) /\ out \in SUBSET Commands
  BY DEF PollSaved, Saved, TypeInv, TypeOK, Request
<1>2. behind \in Nat
  BY <1>1, HomeType DEF Turn
<1>3. x \in Request /\ Proper(x)
  BY <1>1, <1>2, AdvancedType
<1>4. Settle(r, x) /\ Forget(r, m, TRUE) /\ Answer(r, m, out)
  BY DEF PollSaved
<1> HIDE DEF x, out
<1>5. /\ request' \in [Requests -> Request] /\ ActiveRequests'
      /\ writes' \in [Procs -> Seq(Requests)]
  BY <1>1, <1>3, <1>4, SettleType
<1>6. /\ queued' \in [Clients -> SUBSET Commands] /\ session' \in [Clients -> Session]
      /\ handed' \in [Commands -> Nat]
  BY <1>1, <1>4, LookedAtType
<1> QED
  BY <1>5, <1>6 DEF PollSaved, TypeInv, TypeOK, rows

-----------------------------------------------------------------------------
\* An acknowledgement is evidence.
LEMMA AcknowledgeType ==
  ASSUME TypeInv, NEW r \in Requests, Acknowledge(r)
  PROVE TypeInv'
<1> DEFINE m == request[r].command
           new == [Current(r, m) EXCEPT !.status = "acknowledged",
                            !.version = request[r].rows.latest.version + 1]
<1>1. m \in Commands
  BY DEF Acknowledge, Reading, TypeInv, ActiveRequests, Proper
<1>2. Current(r, m) \in Evidence
  BY <1>1, RowsType
<1>3. new \in Evidence
  BY <1>2, RowsType, StageType
<1>4. Save(r, new) /\ request[r].phase = "read"
  BY DEF Acknowledge, Reading
<1> HIDE DEF new
<1>5. /\ request' \in [Requests -> Request] /\ ActiveRequests'
      /\ writes' \in [Procs -> Seq(Requests)]
  BY <1>3, <1>4, SaveType
<1> QED
  BY <1>5 DEF Acknowledge, TypeInv, TypeOK, rows, local

\* A report is evidence.
LEMMA ReportType ==
  ASSUME TypeInv, NEW r \in Requests, Report(r)
  PROVE TypeInv'
<1> DEFINE m == request[r].command
           new == [Current(r, m) EXCEPT !.status = request[r].verdict,
                                        !.version = @ + 1]
<1>1. m \in Commands
  BY DEF Report, Reading, TypeInv, ActiveRequests, Proper
<1>2. Current(r, m) \in Evidence /\ request[r].verdict \in Verdict
  BY <1>1, RowsType
<1>3. Current(r, m).version + 1 \in Nat
  BY <1>2 DEF Evidence
<1>4. new \in Evidence
  BY <1>2, <1>3 DEF Evidence, Verdict
<1>5. Save(r, new) /\ request[r].phase = "read"
  BY DEF Report, Reading
<1> HIDE DEF new
<1>6. /\ request' \in [Requests -> Request] /\ ActiveRequests'
      /\ writes' \in [Procs -> Seq(Requests)]
  BY <1>4, <1>5, SaveType
<1> QED
  BY <1>6 DEF Report, TypeInv, TypeOK, rows, local

\* A saved acknowledgement ends its request.
LEMMA AcknowledgeSavedType ==
  ASSUME TypeInv, NEW r \in Requests, AcknowledgeSaved(r)
  PROVE TypeInv'
<1>1. /\ request[r].phase # "idle" /\ Turn(r) /\ Settle(r, Idle)
      /\ ApplyEvidence(request[r].client)
  BY DEF AcknowledgeSaved, Saved
<1>2. /\ request' \in [Requests -> Request] /\ ActiveRequests'
      /\ writes' \in [Procs -> Seq(Requests)]
  BY <1>1, SettleEndType
<1>3. session' \in [Clients -> Session]
  BY <1>1, HomeType, ApplyType
<1> QED
  BY <1>2, <1>3 DEF AcknowledgeSaved, TypeInv, TypeOK, rows

\* A saved report is answered its verdict.
LEMMA ReportSavedType ==
  ASSUME TypeInv, NEW r \in Requests, ReportSaved(r)
  PROVE TypeInv'
<1>1. /\ request[r].phase # "idle" /\ Turn(r) /\ Settle(r, Idle)
      /\ ApplyEvidence(request[r].client)
  BY DEF ReportSaved, Saved
<1>2. /\ request' \in [Requests -> Request] /\ ActiveRequests'
      /\ writes' \in [Procs -> Seq(Requests)]
  BY <1>1, SettleEndType
<1>3. session' \in [Clients -> Session]
  BY <1>1, HomeType, ApplyType
<1>4. signature' \in [Clients -> Contents \cup {Nothing}]
  BY DEF ReportSaved, TypeInv, TypeOK
<1>5. told' \in [Commands -> SUBSET Verdict]
  BY RowsType DEF ReportSaved, TypeInv, TypeOK
<1> QED
  BY <1>2, <1>3, <1>4, <1>5 DEF ReportSaved, TypeInv, TypeOK, rows

\* A lost report is answered a verdict, if there is one.
LEMMA ReportLostType ==
  ASSUME TypeInv, NEW r \in Requests, ReportLost(r)
  PROVE TypeInv'
<1>1. request' \in [Requests -> Request] /\ ActiveRequests'
  BY EndType DEF ReportLost, End
<1>2. told' \in [Commands -> SUBSET Verdict]
  BY DEF ReportLost, TypeInv, TypeOK
<1> QED
  BY <1>1, <1>2 DEF ReportLost, TypeInv, TypeOK, rows, local

-----------------------------------------------------------------------------
\* Departures keep the types.
LEMMA DepartureType ==
  ASSUME TypeInv, NEW c \in Clients, Disconnect(c) \/ Expire(c)
  PROVE TypeInv'
<1>1. mishaps' \in Nat
  BY DEF Disconnect, Expire, Mishap, TypeInv, TypeOK
<1>2. /\ client' \in [Clients -> {"new", "connected", "disconnected", "gone"}]
      /\ session' \in [Clients -> Session]
  <2>1. CASE Disconnect(c)
    BY <2>1, IdleTypes DEF Disconnect, TypeInv, TypeOK
  <2>2. CASE Expire(c)
    <3>1. [session[c] EXCEPT !.status = "expired"] \in Session
      BY DEF TypeInv, TypeOK, Session
    <3>2. /\ session' = [session EXCEPT ![c] = [session[c] EXCEPT !.status = "expired"]]
          /\ client' = client
      BY <2>2 DEF Expire, TypeInv, TypeOK
    <3> QED
      BY <3>1, <3>2 DEF TypeInv, TypeOK
  <2> QED
    BY <2>1, <2>2
<1> QED
  BY <1>1, <1>2 DEF Disconnect, Expire, TypeInv, TypeOK, ActiveRequests, rows

\* A killed process forgets its clients and requests.
LEMMA KillType ==
  ASSUME TypeInv, NEW p \in Procs, Kill(p)
  PROVE TypeInv'
<1>1. mishaps' \in Nat
  BY DEF Kill, Mishap, TypeInv, TypeOK
<1>2. /\ client' \in [Clients -> {"new", "connected", "disconnected", "gone"}]
      /\ session' \in [Clients -> Session]
      /\ queued' \in [Clients -> SUBSET Commands]
      /\ signature' \in [Clients -> Contents \cup {Nothing}]
  BY IdleTypes DEF Kill, TypeInv, TypeOK
<1>3. writes' \in [Procs -> Seq(Requests)]
  BY DEF Kill, TypeInv, TypeOK
<1>4. request' \in [Requests -> Request] /\ ActiveRequests'
  BY IdleTypes DEF Kill, TypeInv, TypeOK, ActiveRequests
<1> QED
  BY <1>1, <1>2, <1>3, <1>4 DEF Kill, TypeInv, TypeOK, rows

-----------------------------------------------------------------------------
\* The steps, gathered.
LEMMA TypeStep ==
  ASSUME TypeInv, [Next]_vars
  PROVE TypeInv'
<1>1. ASSUME NEW r \in Requests, Answered(r)
      PROVE TypeInv'
  BY <1>1, SelectType, CommitType, ConflictType, ReconcileType, PlainEndType,
     ExportUnchangedType, ExportQueueType, ExportSavedType, PollDeliverType,
     PollPassType, PollSavedType, AcknowledgeType, AcknowledgeSavedType,
     ReportType, ReportSavedType, ReportLostType DEF Answered
<1>2. CASE UNCHANGED vars
  BY <1>2 DEF vars, rows, local, TypeInv, TypeOK, ActiveRequests
<1> QED
  BY <1>1, <1>2, ArrivalType, RefreshFaultType, SaveFaultType, DepartureType,
     KillType DEF Next

\* The initial states are well typed.
LEMMA TypeInit ==
  ASSUME Init
  PROVE TypeInv
<1>1. TypeOK
  BY IdleTypes DEF Init, TypeOK
<1>2. ActiveRequests
  BY IdleTypes DEF Init, ActiveRequests
<1> QED
  BY <1>1, <1>2 DEF TypeInv

\* Types and proper requests, always.
THEOREM TypeInvAlways == Spec => []TypeInv
<1>1. Init => TypeInv
  BY TypeInit
<1>2. TypeInv /\ [Next]_vars => TypeInv'
  BY TypeStep
<1> QED
  BY <1>1, <1>2, PTL DEF Spec

\* TypeOK holds for every set of processes, clients, contents and requests: in
\* particular a refresh never waits for a negative number of writes, and a
\* transition is of a command that exists.
THEOREM StudioTypeCorrect == Spec => []TypeOK
<1>1. TypeInv => TypeOK
  BY DEF TypeInv
<1> QED
  BY <1>1, TypeInvAlways, PTL

-----------------------------------------------------------------------------
(***************************************************************************)
(* The evidence and its chain                                              *)
(***************************************************************************)

\* The last evidence of the first i transitions.
Entry(i) == IF i = 0 THEN NoEvidence ELSE log[i]

\* The rows and the claims hold what the log says.
Committed ==
    /\ claims = 1..Len(log)
    /\ \A i \in 1..Len(log) : log[i].version = i /\ Follows(Entry(i - 1), log[i])
    /\ latest = Entry(Len(log))
    /\ latest.command # 0 => filed[latest.command] = latest
    /\ \A m \in Commands : filed[m] # NoEvidence => m <= Len(log)

\* What a request holds of the rows.
HasRead(x) == x.phase \in {"read", "save", "saved"}
ReadRows(x) == HasRead(x) =>
    /\ x.rows.latest.version <= Len(log)
    /\ x.rows.latest = Entry(x.rows.latest.version)
    /\ x.rows.latest.command # 0 =>
           x.rows.filed[x.rows.latest.command] = x.rows.latest

\* What a request says of the rows with the transition it has queued.
Proposal(x, evidence) ==
    /\ Follows(x.rows.latest, evidence)
    /\ x.kind = "poll" =>
        /\ evidence.command \in x.rest
        /\ \A n \in x.rest : evidence.command <= n
        /\ evidence.command = x.rows.latest.command
        /\ evidence.delivered /\ ~x.rows.latest.delivered
    /\ x.kind = "report" =>
        evidence.command = x.command /\ evidence.status = x.verdict
Sending(x) == x.phase \in {"save", "saved"} => Proposal(x, x.save)

EvidenceInv ==
    /\ TypeInv
    /\ Committed
    /\ \A r \in Requests : ReadRows(request[r]) /\ Sending(request[r])

-----------------------------------------------------------------------------
(***************************************************************************)
(* Kinds of steps                                                          *)
(***************************************************************************)

\* A request that keeps what it read and what it sends.
Kept(x, y) ==
    /\ y.phase = x.phase /\ y.kind = x.kind /\ y.rest = x.rest /\ y.out = x.out
    /\ y.command = x.command /\ y.verdict = x.verdict
    /\ y.rows = x.rows /\ y.save = x.save

\* Requests end, wait or go on, and the rows stay.
Quiet ==
    /\ UNCHANGED rows
    /\ \A q \in Requests : HasRead(request'[q]) => Kept(request[q], request'[q])

\* A request that has read the rows queues a transition of them.
Proposes(r, evidence) ==
    /\ request[r].phase = "read"
    /\ Save(r, evidence)
    /\ evidence.version = request[r].rows.latest.version + 1 =>
           Proposal(request[r], evidence)
    /\ UNCHANGED rows

\* A request that leaves the rows alone keeps the others as they are.
LEMMA OneQuiet ==
  ASSUME TypeInv, NEW r \in Requests, NEW x, ~HasRead(x),
         request' = [request EXCEPT ![r] = x], UNCHANGED rows
  PROVE Quiet
BY DEF Quiet, Kept, TypeInv, TypeOK

\* A settled transition only moves the others up.
LEMMA SettleQuiet ==
  ASSUME TypeInv, NEW r \in Requests, NEW x, ~HasRead(x),
         Settle(r, x), UNCHANGED rows
  PROVE Quiet
<1>1. ASSUME NEW q \in Requests, HasRead(request'[q])
      PROVE Kept(request[q], request'[q])
  <2>1. request[q] \in Request
    BY DEF TypeInv, TypeOK
  <2> DEFINE y == [request[q] EXCEPT !.behind = Fewer(@)]
  <2>2. Kept(request[q], y) /\ Kept(request[q], request[q])
    BY <2>1 DEF Kept, Request
  <2>3. request'[q] \in {x, y, request[q]}
    BY DEF Settle
  <2> HIDE DEF y
  <2> QED
    BY <1>1, <2>2, <2>3
<1> QED
  BY <1>1 DEF Quiet

\* No request, nothing read.
LEMMA IdleReadsNothing == ~HasRead(Idle)
BY IdleTypes DEF HasRead

\* Requests that begin or end.
LEMMA EndsQuiet ==
  ASSUME TypeInv, NEW r \in Requests,
         \/ Arrival(r) \/ RefreshFault(r) \/ Reconcile(r)
         \/ ExportRefused(r) \/ ExportLost(r) \/ AcknowledgeEnd(r)
         \/ ReportRefused(r) \/ ReportLost(r)
  PROVE Quiet
<1>1. ASSUME NEW kind, NEW c, NEW content, NEW m, NEW verdict, NEW rest,
             Begin(r, kind, c, content, m, verdict, rest), UNCHANGED rows
      PROVE Quiet
  <2> DEFINE x == [Idle EXCEPT !.kind = kind, !.client = c, !.content = content,
                               !.command = m, !.verdict = verdict, !.rest = rest,
                               !.phase = "refresh", !.behind = Len(writes[HomeOf[c]])]
  <2>1. ~HasRead(x)
    BY IdleTypes DEF HasRead, Idle
  <2>2. request' = [request EXCEPT ![r] = x]
    BY <1>1 DEF Begin
  <2> HIDE DEF x
  <2> QED
    BY <1>1, <2>1, <2>2, OneQuiet
<1>2. CASE Arrival(r)
  BY <1>1, <1>2 DEF Arrival, Connect, ExportRequest, PollRequest,
                    AcknowledgeRequest, ReportRequest
<1>3. CASE ~Arrival(r)
  <2>1. request' = [request EXCEPT ![r] = Idle] /\ UNCHANGED rows
    BY <1>3 DEF RefreshFault, Reconcile, ExportRefused, ExportLost, AcknowledgeEnd,
                ReportRefused, ReportLost, End
  <2> QED
    BY <2>1, OneQuiet, IdleReadsNothing
<1> QED
  BY <1>2, <1>3

\* Requests whose transition is settled, and polls that go on.
LEMMA SettledQuiet ==
  ASSUME TypeInv, NEW r \in Requests,
         \/ Conflict(r) \/ SaveFault(r) \/ ExportSaved(r)
         \/ AcknowledgeSaved(r) \/ ReportSaved(r)
         \/ \E m \in Commands : PollPass(r, m) \/ PollSaved(r, m)
  PROVE Quiet
<1>1. ASSUME NEW m, NEW out, NEW behind
      PROVE ~HasRead(Advanced(r, m, out, behind))
  BY IdleTypes DEF HasRead, Advanced, Idle
<1>2. CASE Conflict(r)
  <2> DEFINE x == [request[r] EXCEPT !.phase = "refresh", !.lost = TRUE,
                                     !.behind = Len(writes[Home(r)]) - 1]
  <2>1. x.phase = "refresh"
    BY DEF TypeInv, TypeOK, Request
  <2>2. Settle(r, x) /\ UNCHANGED rows
    BY <1>2 DEF Conflict
  <2> HIDE DEF x
  <2> QED
    BY <2>1, <2>2, SettleQuiet DEF HasRead
<1>3. CASE SaveFault(r) \/ ExportSaved(r) \/ AcknowledgeSaved(r) \/ ReportSaved(r)
  <2>1. Settle(r, Idle) /\ UNCHANGED rows
    BY <1>3 DEF SaveFault, ExportSaved, AcknowledgeSaved, ReportSaved
  <2> QED
    BY <2>1, SettleQuiet, IdleReadsNothing
<1>4. ASSUME NEW m \in Commands, PollPass(r, m)
      PROVE Quiet
  <2> DEFINE x == Advanced(r, m, request[r].out, Len(writes[Home(r)]))
  <2>1. request' = [request EXCEPT ![r] = x] /\ UNCHANGED rows
    BY <1>4 DEF PollPass
  <2> HIDE DEF x
  <2> QED
    BY <1>1, <2>1, OneQuiet DEF x
<1>5. ASSUME NEW m \in Commands, PollSaved(r, m)
      PROVE Quiet
  <2> DEFINE x == Advanced(r, m, request[r].out \cup {m}, Len(writes[Home(r)]) - 1)
  <2>1. Settle(r, x) /\ UNCHANGED rows
    BY <1>5 DEF PollSaved
  <2>2. ~HasRead(x)
    BY <1>1
  <2> HIDE DEF x
  <2> QED
    BY <2>1, <2>2, SettleQuiet
<1> QED
  BY <1>2, <1>3, <1>4, <1>5

\* Departures and kills.
LEMMA DepartureQuiet ==
  ASSUME TypeInv,
         \/ \E c \in Clients : Disconnect(c) \/ Expire(c)
         \/ \E p \in Procs : Kill(p)
         \/ UNCHANGED vars
  PROVE Quiet
BY IdleReadsNothing DEF Disconnect, Expire, Kill, vars, Quiet, Kept

-----------------------------------------------------------------------------
(***************************************************************************)
(* Proposals                                                               *)
(***************************************************************************)

\* A command is looked up in the rows, and is the latest one there.
LEMMA LatestIsCurrent ==
  ASSUME EvidenceInv, NEW r \in Requests, request[r].phase = "read",
         NEW m \in Commands, IsLatest(r, m)
  PROVE Current(r, m) = request[r].rows.latest
BY DEF EvidenceInv, ReadRows, HasRead, IsLatest, Current, Commands

\* A new command continues whatever was read.
LEMMA ExportQueueProposes ==
  ASSUME EvidenceInv, NEW r \in Requests, ExportQueue(r)
  PROVE \E evidence \in Evidence : Proposes(r, evidence)
<1> DEFINE version == request[r].rows.latest.version + 1
           new == [command |-> version, client |-> request[r].client,
                   content |-> request[r].content, delivered |-> FALSE,
                   status |-> "sent", version |-> version]
<1>1. new \in Evidence
  BY RowsType DEF ExportQueue, Evidence, EvidenceInv
<1>2. Save(r, new) /\ request[r].phase = "read" /\ UNCHANGED rows
  BY DEF ExportQueue, CanExport, Reading
<1>3. Proposal(request[r], new)
  BY DEF Proposal, Follows, IsNew, ExportQueue, CanExport, Reading
<1> HIDE DEF new
<1> QED
  BY <1>1, <1>2, <1>3 DEF Proposes

\* An export without changes continues what was read.
LEMMA ExportUnchangedProposes ==
  ASSUME EvidenceInv, NEW r \in Requests, ExportUnchanged(r)
  PROVE \E evidence \in Evidence : Proposes(r, evidence)
<1> DEFINE old == request[r].rows.latest
           new == [old EXCEPT !.version = @ + 1, !.content = request[r].content]
<1>1. old \in Evidence /\ request[r].content \in Contents \cup {Nothing}
  BY RowsType DEF EvidenceInv
<1>2. /\ new \in Evidence /\ new.version = old.version + 1
      /\ new = [old EXCEPT !.version = new.version, !.content = new.content]
  <2>1. ASSUME NEW e \in Evidence, NEW content \in Contents \cup {Nothing}
        PROVE [e EXCEPT !.version = @ + 1, !.content = content] \in Evidence
    <3>1. e.version + 1 \in Nat
      BY DEF Evidence
    <3> QED
      BY <3>1 DEF Evidence
  <2>2. new \in Evidence
    BY <1>1, <2>1
  <2> QED
    BY <1>1, <2>2 DEF Evidence
<1>3. Save(r, new) /\ request[r].phase = "read" /\ UNCHANGED rows
      /\ request[r].kind = "export"
  BY DEF ExportUnchanged, CanExport, Reading
<1> HIDE DEF new
<1>4. Proposal(request[r], new)
  BY <1>2, <1>3 DEF Proposal, Follows
<1> QED
  BY <1>2, <1>3, <1>4 DEF Proposes

\* A delivery continues what was read, which was not delivered.
LEMMA PollDeliverProposes ==
  ASSUME EvidenceInv, NEW r \in Requests, NEW m \in Commands, PollDeliver(r, m)
  PROVE \E evidence \in Evidence : Proposes(r, evidence)
<1> DEFINE old == request[r].rows.latest
           new == [Current(r, m) EXCEPT !.delivered = TRUE,
                            !.version = request[r].rows.latest.version + 1]
<1>1. /\ request[r].phase = "read" /\ request[r].kind = "poll" /\ UNCHANGED rows
      /\ Save(r, new) /\ First(r, m) /\ Deliverable(r, m)
  BY DEF PollDeliver, Reading
<1>2. Current(r, m) = old /\ old \in Evidence /\ old.command = m
  BY <1>1, LatestIsCurrent, RowsType DEF Deliverable, EvidenceInv, IsLatest
<1>3. new \in Evidence
  BY <1>2, RowsType, StageType DEF EvidenceInv
<1>4. /\ new = [old EXCEPT !.version = new.version, !.delivered = TRUE]
      /\ new.version = old.version + 1 /\ new.delivered /\ new.command = m
  BY <1>2 DEF Evidence
<1>5. ~old.delivered /\ old.status = "sent"
  BY <1>1, <1>2 DEF Deliverable
<1> HIDE DEF new
<1>6. Proposal(request[r], new)
  BY <1>1, <1>2, <1>4, <1>5 DEF Proposal, Follows, First
<1> QED
  BY <1>1, <1>3, <1>6 DEF Proposes

\* An acknowledgement continues what was read.
LEMMA AcknowledgeProposes ==
  ASSUME EvidenceInv, NEW r \in Requests, Acknowledge(r)
  PROVE \E evidence \in Evidence : Proposes(r, evidence)
<1> DEFINE m == request[r].command
           old == request[r].rows.latest
           new == [Current(r, m) EXCEPT !.status = "acknowledged",
                            !.version = request[r].rows.latest.version + 1]
<1>1. /\ request[r].phase = "read" /\ request[r].kind = "acknowledge"
      /\ UNCHANGED rows /\ Save(r, new) /\ Acknowledgeable(r)
  BY DEF Acknowledge, Reading
<1>2. m \in Commands
  BY <1>1 DEF EvidenceInv, TypeInv, ActiveRequests, Proper
<1>3. Current(r, m) = old /\ old \in Evidence
  BY <1>1, <1>2, LatestIsCurrent, RowsType DEF Acknowledgeable, EvidenceInv
<1>4. new \in Evidence
  BY <1>3, RowsType, StageType DEF EvidenceInv
<1>5. /\ new = [old EXCEPT !.version = new.version, !.status = "acknowledged"]
      /\ new.version = old.version + 1
  BY <1>3 DEF Evidence
<1>6. old.delivered /\ old.status = "sent"
  BY <1>1, <1>3 DEF Acknowledgeable
<1> HIDE DEF new
<1>7. Proposal(request[r], new)
  BY <1>1, <1>5, <1>6 DEF Proposal, Follows
<1> QED
  BY <1>1, <1>4, <1>7 DEF Proposes

\* A report continues what was read with its own verdict.
LEMMA ReportProposes ==
  ASSUME EvidenceInv, NEW r \in Requests, Report(r)
  PROVE \E evidence \in Evidence : Proposes(r, evidence)
<1> DEFINE m == request[r].command
           old == request[r].rows.latest
           new == [Current(r, m) EXCEPT !.status = request[r].verdict,
                                        !.version = @ + 1]
<1>1. /\ request[r].phase = "read" /\ request[r].kind = "report"
      /\ UNCHANGED rows /\ Save(r, new) /\ Reportable(r)
  BY DEF Report, Reading
<1>2. m \in Commands
  BY <1>1 DEF EvidenceInv, TypeInv, ActiveRequests, Proper
<1>3. /\ Current(r, m) = old /\ old \in Evidence /\ old.command = m
      /\ request[r].verdict \in Verdict
  BY <1>1, <1>2, LatestIsCurrent, RowsType DEF Reportable, EvidenceInv, IsLatest
<1>4. old.version + 1 \in Nat
  BY <1>3 DEF Evidence
<1>5. /\ new \in Evidence
      /\ new = [old EXCEPT !.version = new.version, !.status = new.status]
      /\ new.version = old.version + 1 /\ new.status = request[r].verdict
      /\ new.command = m
  BY <1>3, <1>4 DEF Evidence, Verdict
<1>6. old.status = "acknowledged"
  BY <1>1, <1>3 DEF Reportable
<1> HIDE DEF new
<1>7. Proposal(request[r], new)
  BY <1>1, <1>3, <1>5, <1>6 DEF Proposal, Follows
<1> QED
  BY <1>1, <1>5, <1>7 DEF Proposes

\* Every step keeps the rows and what was read of them, reads the rows,
\* proposes a transition or commits one.
LEMMA StepKinds ==
  ASSUME EvidenceInv, [Next]_vars
  PROVE \/ Quiet
        \/ \E r \in Requests :
            Select(r) \/ Commit(r) \/ \E evidence \in Evidence : Proposes(r, evidence)
<1>1. TypeInv
  BY DEF EvidenceInv
<1>2. ASSUME NEW r \in Requests, Arrival(r) \/ Answered(r) \/ RefreshFault(r) \/ SaveFault(r)
      PROVE \/ Quiet
            \/ Select(r) \/ Commit(r) \/ \E evidence \in Evidence : Proposes(r, evidence)
  BY <1>1, <1>2, EndsQuiet, SettledQuiet, ExportQueueProposes, ExportUnchangedProposes,
     PollDeliverProposes, AcknowledgeProposes, ReportProposes DEF Answered
<1> QED
  BY <1>1, <1>2, DepartureQuiet DEF Next

-----------------------------------------------------------------------------
(***************************************************************************)
(* The chain                                                               *)
(***************************************************************************)

\* A quiet step changes nothing the invariant is about.
LEMMA QuietKeeps ==
  ASSUME EvidenceInv, TypeInv', Quiet
  PROVE EvidenceInv'
<1>1. Committed'
  BY DEF EvidenceInv, Committed, Entry, Quiet, rows
<1>2. ASSUME NEW q \in Requests
      PROVE ReadRows(request[q])' /\ Sending(request[q])'
  <2>1. CASE HasRead(request'[q])
    BY <2>1 DEF EvidenceInv, Quiet, Kept, ReadRows, HasRead, Sending, Proposal,
                Entry, rows
  <2>2. CASE ~HasRead(request'[q])
    BY <2>2 DEF ReadRows, HasRead, Sending
  <2> QED
    BY <2>1, <2>2
<1> QED
  BY <1>1, <1>2 DEF EvidenceInv

\* A request that reads the rows reads the whole log.
LEMMA SelectKeeps ==
  ASSUME EvidenceInv, TypeInv', NEW r \in Requests, Select(r)
  PROVE EvidenceInv'
<1>1. UNCHANGED rows
  BY DEF Select
<1>2. Committed'
  BY <1>1 DEF EvidenceInv, Committed, Entry, rows
<1>3. latest.version = Len(log)
  <2>1. Len(log) \in Nat
    BY DEF EvidenceInv, TypeInv, TypeOK
  <2>2. CASE Len(log) = 0
    BY <2>2 DEF EvidenceInv, Committed, Entry, NoEvidence
  <2>3. CASE Len(log) # 0
    BY <2>1, <2>3 DEF EvidenceInv, Committed, Entry
  <2> QED
    BY <2>2, <2>3
<1>4. /\ request'[r].phase = "read"
      /\ request'[r].rows = [latest |-> latest, filed |-> filed]
      /\ \A q \in Requests \ {r} : request'[q] = request[q]
  BY DEF Select, EvidenceInv, TypeInv, TypeOK, Request
<1>5. ReadRows(request[r])' /\ Sending(request[r])'
  <2>1. log' = log /\ Len(log) \in Nat
    BY <1>1 DEF rows, EvidenceInv, TypeInv, TypeOK
  <2> QED
    BY <1>3, <1>4, <2>1 DEF EvidenceInv, Committed, ReadRows, HasRead, Sending, Entry
<1>6. ASSUME NEW q \in Requests \ {r}
      PROVE ReadRows(request[q])' /\ Sending(request[q])'
  BY <1>1, <1>4 DEF EvidenceInv, ReadRows, HasRead, Sending, Proposal, Entry, rows
<1> QED
  BY <1>2, <1>5, <1>6 DEF EvidenceInv

\* A proposal changes only its request.
LEMMA ProposesKeeps ==
  ASSUME EvidenceInv, TypeInv', NEW r \in Requests, NEW evidence \in Evidence,
         Proposes(r, evidence)
  PROVE EvidenceInv'
<1>1. UNCHANGED rows /\ request[r] \in Request /\ request[r].phase = "read"
  BY DEF Proposes, EvidenceInv, TypeInv, TypeOK
<1>2. Committed'
  BY <1>1 DEF EvidenceInv, Committed, Entry, rows
<1>3. ASSUME NEW q \in Requests \ {r}
      PROVE ReadRows(request[q])' /\ Sending(request[q])'
  <2>1. request'[q] = request[q]
    BY DEF Proposes, Save, EvidenceInv, TypeInv, TypeOK
  <2> QED
    BY <1>1, <2>1 DEF EvidenceInv, ReadRows, HasRead, Sending, Proposal, Entry, rows
<1>4. ReadRows(request[r])' /\ Sending(request[r])'
  <2>1. CASE evidence.version = request[r].rows.latest.version + 1
    <3>1. request'[r] = [request[r] EXCEPT !.phase = "save", !.save = evidence]
      BY <1>1, <2>1 DEF Proposes, Save, EvidenceInv, TypeInv, TypeOK
    <3>2. /\ request'[r].save = evidence /\ request'[r].rows = request[r].rows
          /\ request'[r].kind = request[r].kind
          /\ request'[r].rest = request[r].rest
          /\ request'[r].command = request[r].command
          /\ request'[r].verdict = request[r].verdict
      BY <1>1, <3>1 DEF Request
    <3>3. ReadRows(request[r])'
      BY <1>1, <3>2 DEF EvidenceInv, ReadRows, HasRead, Entry, rows
    <3>4. Sending(request[r])'
      BY <2>1, <3>2 DEF Proposes, Sending, Proposal
    <3> QED
      BY <3>3, <3>4
  <2>2. CASE evidence.version # request[r].rows.latest.version + 1
    <3>1. request'[r].phase = "refresh"
      BY <1>1, <2>2 DEF Proposes, Save, EvidenceInv, TypeInv, TypeOK, Request
    <3> QED
      BY <3>1 DEF ReadRows, HasRead, Sending
  <2> QED
    BY <2>1, <2>2
<1> QED
  BY <1>2, <1>3, <1>4 DEF EvidenceInv

\* A transition whose version is unclaimed was decided from the last evidence.
LEMMA CommitContinues ==
  ASSUME EvidenceInv, NEW r \in Requests, Commit(r)
  PROVE /\ request[r].rows.latest = latest
        /\ request[r].save \in Evidence
        /\ request[r].save.version = Len(log) + 1
        /\ Proposal(request[r], request[r].save)
<1> DEFINE x == request[r]
<1>1. /\ x \in Request /\ x.save \in Evidence /\ x.rows.latest \in Evidence
      /\ x.save.version \in Nat /\ x.rows.latest.version \in Nat
      /\ Len(log) \in Nat
  BY DEF EvidenceInv, TypeInv, TypeOK, Request, Evidence
<1>2. x.phase = "save" /\ x.save.version \notin claims
  BY DEF Commit, Sent, Unclaimed
<1>3. ReadRows(x) /\ Sending(x)
  BY DEF EvidenceInv
<1>4. Proposal(x, x.save) /\ x.save.version = x.rows.latest.version + 1
  BY <1>2, <1>3 DEF Sending, Proposal, Follows
<1>5. x.rows.latest.version <= Len(log) /\ x.rows.latest = Entry(x.rows.latest.version)
  BY <1>2, <1>3 DEF ReadRows, HasRead
<1>6. claims = 1..Len(log) /\ latest = Entry(Len(log))
  BY DEF EvidenceInv, Committed
<1>7. x.save.version = Len(log) + 1
  BY <1>1, <1>2, <1>4, <1>5, <1>6
<1> QED
  BY <1>1, <1>4, <1>5, <1>6, <1>7

\* A commit adds one transition to the chain.
LEMMA CommitKeeps ==
  ASSUME EvidenceInv, TypeInv', NEW r \in Requests, Commit(r)
  PROVE EvidenceInv'
<1> DEFINE evidence == request[r].save
           n == Len(log)
<1>1. /\ evidence \in Evidence /\ evidence.version = n + 1 /\ n \in Nat
      /\ Follows(latest, evidence) /\ latest \in Evidence
      /\ log \in Seq(Evidence) /\ filed \in [Commands -> Evidence]
  <2>1. /\ log \in Seq(Evidence) /\ filed \in [Commands -> Evidence]
        /\ latest \in Evidence /\ n \in Nat
    BY DEF EvidenceInv, TypeInv, TypeOK
  <2>2. evidence \in Evidence /\ evidence.version = n + 1 /\ Follows(latest, evidence)
    BY CommitContinues DEF Proposal
  <2> QED
    BY <2>1, <2>2
<1>2. /\ claims' = claims \cup {evidence.version}
      /\ filed' = [filed EXCEPT ![evidence.command] = evidence]
      /\ latest' = evidence /\ log' = Append(log, evidence)
      /\ request' = [request EXCEPT ![r].phase = "saved"]
  BY DEF Commit
<1> HIDE DEF evidence
<1>3. /\ Len(log') = n + 1 /\ log'[n + 1] = evidence
      /\ \A i \in 1..n : log'[i] = log[i]
      /\ \A i \in 0..n : Entry(i)' = Entry(i)
  BY <1>1, <1>2 DEF Entry
<1>4. Committed'
  <2>1. claims' = 1..Len(log')
    BY <1>1, <1>2, <1>3 DEF EvidenceInv, Committed
  <2>2. latest' = Entry(Len(log))'
    BY <1>1, <1>2, <1>3 DEF Entry
  <2>3. ASSUME NEW i \in 1..Len(log')
        PROVE log'[i].version = i /\ Follows(Entry(i - 1), log[i])'
    <3>1. CASE i \in 1..n
      <4>1. log'[i] = log[i] /\ Entry(i - 1)' = Entry(i - 1)
        BY <1>1, <1>3, <3>1
      <4> QED
        BY <3>1, <4>1 DEF EvidenceInv, Committed
    <3>2. CASE i = n + 1
      <4>1. Entry(i - 1)' = latest
        BY <1>1, <1>3, <3>2 DEF EvidenceInv, Committed
      <4> QED
        BY <1>1, <1>3, <3>2, <4>1 DEF Follows, IsNew
    <3> QED
      BY <1>1, <1>3, <3>1, <3>2
  <2>4. latest'.command # 0 => filed'[latest'.command] = latest'
    BY <1>1, <1>2 DEF Evidence
  <2>5. ASSUME NEW m \in Commands, filed'[m] # NoEvidence
        PROVE m <= Len(log')
    <3>1. CASE filed[m] # NoEvidence
      BY <1>1, <1>3, <3>1 DEF EvidenceInv, Committed, Commands
    <3>2. CASE filed[m] = NoEvidence
      <4>1. m = evidence.command
        BY <1>1, <1>2, <2>5, <3>2
      <4>2. IsNew(evidence) \/ evidence.command = latest.command
        BY <1>1 DEF Follows, Evidence
      <4>3. CASE IsNew(evidence)
        BY <1>1, <1>3, <4>1, <4>3 DEF IsNew
      <4>4. CASE evidence.command = latest.command
        <5>1. m # 0 /\ filed[m] = latest
          BY <4>1, <4>4 DEF EvidenceInv, Committed, Commands
        <5>2. latest.command = 0
          BY <3>2, <5>1 DEF NoEvidence
        <5> QED
          BY <4>1, <4>4, <5>1, <5>2
      <4> QED
        BY <4>2, <4>3, <4>4
    <3> QED
      BY <3>1, <3>2
  <2> QED
    BY <2>1, <2>2, <2>3, <2>4, <2>5 DEF Committed
<1>5. ASSUME NEW q \in Requests
      PROVE ReadRows(request[q])' /\ Sending(request[q])'
  <2>1. request[q] \in Request /\ request[r].phase = "save"
    BY DEF EvidenceInv, TypeInv, TypeOK, Commit, Sent
  <2> DEFINE x == request[q]
  <2>2. /\ request'[q].rows = x.rows /\ request'[q].save = x.save
        /\ request'[q].kind = x.kind /\ request'[q].rest = x.rest
        /\ request'[q].command = x.command /\ request'[q].verdict = x.verdict
        /\ request'[q].phase \in {"read", "save", "saved"} => HasRead(x)
        /\ request'[q].phase \in {"save", "saved"} => x.phase \in {"save", "saved"}
    BY <1>2, <2>1 DEF EvidenceInv, TypeInv, TypeOK, Request, HasRead
  <2>3. ReadRows(x) /\ Sending(x) /\ x.rows.latest.version \in Nat
    BY <2>1 DEF EvidenceInv, Request, Evidence
  <2>4. ReadRows(request[q])'
    <3>1. SUFFICES ASSUME HasRead(request[q])'
                   PROVE /\ x.rows.latest.version <= Len(log')
                         /\ x.rows.latest = Entry(x.rows.latest.version)
                         /\ x.rows.latest.version \in 0..n
                         /\ x.rows.latest.command # 0 =>
                                x.rows.filed[x.rows.latest.command] = x.rows.latest
      BY <1>3, <2>2 DEF ReadRows, Entry
    <3>2. HasRead(x)
      BY <2>2, <3>1 DEF HasRead
    <3> QED
      BY <1>1, <1>3, <2>3, <3>2 DEF ReadRows
  <2>5. Sending(request[q])'
    BY <2>2, <2>3 DEF Sending, Proposal
  <2> QED
    BY <2>4, <2>5
<1> QED
  BY <1>4, <1>5 DEF EvidenceInv

\* The initial states satisfy the invariant.
LEMMA EvidenceInit ==
  ASSUME Init
  PROVE EvidenceInv
<1>1. TypeInv
  BY TypeInit
<1>2. Committed
  BY DEF Init, Committed, Entry, NoEvidence
<1>3. \A r \in Requests : ReadRows(request[r]) /\ Sending(request[r])
  BY IdleTypes DEF Init, ReadRows, HasRead, Sending
<1> QED
  BY <1>1, <1>2, <1>3 DEF EvidenceInv

\* Every step keeps the invariant.
LEMMA EvidenceStep ==
  ASSUME EvidenceInv, [Next]_vars
  PROVE EvidenceInv'
<1>1. TypeInv'
  BY TypeStep DEF EvidenceInv
<1> QED
  BY <1>1, StepKinds, QuietKeeps, SelectKeeps, ProposesKeeps, CommitKeeps

\* The invariant, always.
THEOREM EvidenceInvAlways == Spec => []EvidenceInv
<1>1. Init => EvidenceInv
  BY EvidenceInit
<1>2. EvidenceInv /\ [Next]_vars => EvidenceInv'
  BY EvidenceStep
<1> QED
  BY <1>1, <1>2, PTL DEF Spec

\* TransitionsChain holds for every set of processes, clients and requests: the
\* transitions of saveTransition form one chain, and the rows hold its end.
THEOREM TransitionsChainAlways == Spec => []TransitionsChain
<1>1. EvidenceInv => TransitionsChain
  <2> SUFFICES ASSUME EvidenceInv PROVE TransitionsChain
    OBVIOUS
  <2>1. log \in Seq(Evidence) /\ DOMAIN log = 1..Len(log) /\ Len(log) \in Nat
        /\ (log = <<>> <=> Len(log) = 0)
    BY DEF EvidenceInv, TypeInv, TypeOK
  <2>2. ASSUME NEW i \in DOMAIN log
        PROVE Follows(IF i = 1 THEN NoEvidence ELSE log[i - 1], log[i])
    <3>1. Follows(Entry(i - 1), log[i])
      BY <2>1, <2>2 DEF EvidenceInv, Committed
    <3>2. Entry(i - 1) = IF i = 1 THEN NoEvidence ELSE log[i - 1]
      BY <2>1, <2>2 DEF Entry
    <3> QED
      BY <3>1, <3>2
  <2>3. latest = (IF log = <<>> THEN NoEvidence ELSE log[Len(log)])
    BY <2>1 DEF EvidenceInv, Committed, Entry
  <2> QED
    BY <2>2, <2>3 DEF TransitionsChain, EvidenceInv, Committed
<1> QED
  BY <1>1, EvidenceInvAlways, PTL

-----------------------------------------------------------------------------
(***************************************************************************)
(* What ended stands                                                       *)
(***************************************************************************)

\* A commit files a new command, or the next stage of the latest one.
LEMMA CommitFiles ==
  ASSUME EvidenceInv, NEW r \in Requests, Commit(r),
         NEW m \in Commands, filed[m] # NoEvidence,
         m = request[r].save.command
  PROVE /\ filed[m] = latest /\ latest.command = m
        /\ latest.status \in Verdict => request[r].save.status = latest.status
        /\ latest.delivered => request[r].save.delivered
<1> DEFINE evidence == request[r].save
<1>1. /\ evidence \in Evidence /\ evidence.version = Len(log) + 1
      /\ Follows(latest, evidence) /\ Len(log) \in Nat /\ latest \in Evidence
  BY CommitContinues DEF Proposal, EvidenceInv, TypeInv, TypeOK
<1>2. m <= Len(log) /\ m \in Nat /\ m # 0
  BY DEF EvidenceInv, Committed, Commands
<1> HIDE DEF evidence
<1>3. ~IsNew(evidence)
  BY <1>1, <1>2 DEF IsNew, evidence
<1>4. /\ evidence.command = latest.command
      /\ latest.status \in Verdict => evidence.status = latest.status
      /\ latest.delivered => evidence.delivered
  BY <1>1, <1>3 DEF Follows, Evidence, Verdict
<1>5. filed[m] = latest
  BY <1>2, <1>4 DEF EvidenceInv, Committed, evidence
<1> QED
  BY <1>4, <1>5 DEF evidence

\* What a step leaves of the evidence that is filed.
LEMMA FiledStep ==
  ASSUME EvidenceInv, [Next]_vars, NEW m \in Commands, filed[m] # NoEvidence
  PROVE /\ filed[m].status \in Verdict \/ latest.command # m =>
               filed'[m].status = filed[m].status
        /\ filed[m].delivered => filed'[m].delivered
        /\ filed'[m] # NoEvidence
<1>1. CASE UNCHANGED rows
  BY <1>1 DEF rows
<1>2. ASSUME NEW r \in Requests, Commit(r)
      PROVE /\ filed[m].status \in Verdict \/ latest.command # m =>
                   filed'[m].status = filed[m].status
            /\ filed[m].delivered => filed'[m].delivered
            /\ filed'[m] # NoEvidence
  <2>1. filed' = [filed EXCEPT ![request[r].save.command] = request[r].save]
    BY <1>2 DEF Commit
  <2>2. CASE m # request[r].save.command
    BY <2>1, <2>2 DEF EvidenceInv, TypeInv, TypeOK
  <2>3. CASE m = request[r].save.command
    <3>1. filed'[m] = request[r].save
      BY <2>1, <2>3 DEF EvidenceInv, TypeInv, TypeOK
    <3>2. m # 0
      BY DEF Commands
    <3>3. filed'[m] # NoEvidence
      BY <2>3, <3>1, <3>2 DEF NoEvidence
    <3>4. /\ filed[m] = latest /\ latest.command = m
          /\ latest.status \in Verdict => request[r].save.status = latest.status
          /\ latest.delivered => request[r].save.delivered
      BY <1>2, <2>3, CommitFiles
    <3> QED
      BY <3>1, <3>3, <3>4
  <2> QED
    BY <2>2, <2>3
<1> QED
  BY <1>1, <1>2, StepKinds DEF Quiet, Select, Proposes

\* EndedStands holds for every set of processes, clients and requests: no late
\* acknowledgement, report or delivery reopens a command.
THEOREM EndedStandsAlways == Spec => EndedStands
<1> DEFINE Stands == \A m \in Commands :
        (filed[m] # NoEvidence /\ (filed[m].status \in Verdict \/ latest.command # m))
            => filed'[m].status = filed[m].status
<1>1. EvidenceInv /\ [Next]_vars => [Stands]_vars
  BY FiledStep
<1>2. Spec => [][Stands]_vars
  BY <1>1, EvidenceInvAlways, PTL DEF Spec
<1> QED
  BY <1>2 DEF EndedStands

-----------------------------------------------------------------------------
(***************************************************************************)
(* Reports                                                                 *)
(***************************************************************************)

\* Verdicts never change once they are filed, so those told, those saved and
\* those read all agree with the store.
VerdictInv ==
    /\ VerdictsAgree
    /\ \A r \in Requests :
        /\ request[r].kind = "report" /\ request[r].phase = "saved" =>
               filed[request[r].command].status = request[r].verdict
        /\ HasRead(request[r]) => \A m \in Commands :
               request[r].rows.filed[m].status \in Verdict =>
                   filed[m].status = request[r].rows.filed[m].status

\* A verdict that is filed stays.
LEMMA VerdictStays ==
  ASSUME EvidenceInv, [Next]_vars, NEW m \in Commands, filed[m].status \in Verdict
  PROVE filed'[m].status = filed[m].status
<1>1. filed[m] # NoEvidence
  BY DEF NoEvidence, Verdict
<1> QED
  BY <1>1, FiledStep

\* Only reports are answered a verdict.
LEMMA ToldStep ==
  ASSUME TypeInv, [Next]_vars
  PROVE told' = told \/ \E r \in Requests : ReportSaved(r) \/ ReportLost(r)
BY DEF Next, Arrival, Connect, ExportRequest, PollRequest, AcknowledgeRequest,
       ReportRequest, Answered, Select, Commit, Conflict, Reconcile, ExportRefused,
       ExportUnchanged, ExportQueue, ExportSaved, ExportLost, PollDeliver, PollPass,
       PollSaved, Acknowledge, AcknowledgeSaved, AcknowledgeEnd, Report,
       ReportRefused, RefreshFault, SaveFault, Disconnect, Expire, Kill, vars

\* What is told was filed before, or is what the store holds.
LEMMA ToldAgrees ==
  ASSUME EvidenceInv, VerdictInv, [Next]_vars
  PROVE VerdictsAgree'
<1>1. CASE told' = told
  <2>1. ASSUME NEW m \in Commands, NEW v \in told[m]
        PROVE v = filed'[m].status
    <3>1. v \in Verdict /\ v = filed[m].status
      BY DEF EvidenceInv, TypeInv, TypeOK, VerdictInv, VerdictsAgree
    <3> QED
      BY <3>1, VerdictStays
  <2> QED
    BY <1>1, <2>1 DEF VerdictsAgree
<1>2. ASSUME NEW r \in Requests, ReportSaved(r)
      PROVE VerdictsAgree'
  <2>1. /\ request[r].kind = "report" /\ request[r].phase = "saved"
        /\ filed' = filed
        /\ told' = [told EXCEPT ![request[r].command] = @ \cup {request[r].verdict}]
    BY <1>2 DEF ReportSaved, Saved, rows
  <2>2. filed[request[r].command].status = request[r].verdict
    BY <2>1 DEF VerdictInv
  <2> QED
    BY <2>1, <2>2 DEF VerdictInv, VerdictsAgree, EvidenceInv, TypeInv, TypeOK
<1>3. ASSUME NEW r \in Requests, ReportLost(r)
      PROVE VerdictsAgree'
  <2> DEFINE m == request[r].command
             winner == Current(r, m).status
  <2>1. /\ request[r].kind = "report" /\ request[r].phase = "read" /\ filed' = filed
        /\ told' = IF winner \in Verdict THEN [told EXCEPT ![m] = @ \cup {winner}]
                   ELSE told
    BY <1>3 DEF ReportLost, Losing, rows
  <2>2. m \in Commands
    BY <2>1 DEF EvidenceInv, TypeInv, ActiveRequests, Proper
  <2>3. winner \in Verdict => filed[m].status = winner
    BY <2>1, <2>2 DEF VerdictInv, HasRead, Current
  <2> HIDE DEF winner
  <2> QED
    BY <2>1, <2>2, <2>3 DEF VerdictInv, VerdictsAgree, EvidenceInv, TypeInv, TypeOK
<1> QED
  BY <1>1, <1>2, <1>3, ToldStep DEF EvidenceInv

\* The fields of a request that hold what it read and what it sends.
SameRead(x, y) ==
    y.kind = x.kind /\ y.command = x.command /\ y.verdict = x.verdict /\ y.rows = x.rows

\* A request that has read the rows after a step had read them before, or reads
\* them in the step; it has saved a transition only if it had, or commits.
LEMMA ReadStep ==
  ASSUME EvidenceInv, [Next]_vars, NEW q \in Requests, HasRead(request'[q])
  PROVE \/ Select(q) /\ request'[q].rows.filed = filed' /\ request'[q].phase = "read"
        \/ /\ HasRead(request[q]) /\ SameRead(request[q], request'[q])
           /\ request'[q].phase = "saved" => request[q].phase = "saved" \/ Commit(q)
<1>1. request[q] \in Request /\ request \in [Requests -> Request]
  BY DEF EvidenceInv, TypeInv, TypeOK
<1>2. CASE Quiet
  BY <1>2 DEF Quiet, Kept, SameRead, HasRead
<1>3. ASSUME NEW r \in Requests, Select(r)
      PROVE \/ Select(q) /\ request'[q].rows.filed = filed' /\ request'[q].phase = "read"
            \/ request'[q] = request[q]
  BY <1>1, <1>3 DEF Select, rows, Request
<1>4. ASSUME NEW r \in Requests, Commit(r)
      PROVE /\ HasRead(request[q]) /\ SameRead(request[q], request'[q])
            /\ request'[q].phase = "saved" => request[q].phase = "saved" \/ Commit(q)
  <2>1. CASE q = r
    BY <1>1, <1>4, <2>1 DEF Commit, Sent, HasRead, SameRead, Request
  <2>2. CASE q # r
    BY <1>1, <1>4, <2>2 DEF Commit, SameRead
  <2> QED
    BY <2>1, <2>2
<1>5. ASSUME NEW r \in Requests, NEW evidence \in Evidence, Proposes(r, evidence)
      PROVE /\ HasRead(request[q]) /\ SameRead(request[q], request'[q])
            /\ request'[q].phase = "saved" => request[q].phase = "saved"
  <2>1. CASE q = r
    BY <1>1, <1>5, <2>1 DEF Proposes, Save, HasRead, SameRead, Request
  <2>2. CASE q # r
    BY <1>1, <1>5, <2>2 DEF Proposes, Save, SameRead
  <2> QED
    BY <2>1, <2>2
<1>6. SameRead(request[q], request[q])
  BY DEF SameRead
<1> QED
  BY <1>2, <1>3, <1>4, <1>5, <1>6, StepKinds

\* Every step keeps the agreement of the verdicts.
LEMMA VerdictStep ==
  ASSUME EvidenceInv, VerdictInv, [Next]_vars
  PROVE VerdictInv'
<1>1. ASSUME NEW q \in Requests, HasRead(request'[q]), NEW m \in Commands,
             request'[q].rows.filed[m].status \in Verdict
      PROVE filed'[m].status = request'[q].rows.filed[m].status
  <2>1. CASE request'[q].rows.filed = filed'
    BY <2>1
  <2>2. CASE HasRead(request[q]) /\ SameRead(request[q], request'[q])
    <3>1. request[q].rows.filed[m].status = filed[m].status
          /\ request'[q].rows = request[q].rows
      BY <1>1, <2>2 DEF VerdictInv, SameRead
    <3> QED
      BY <1>1, <3>1, VerdictStays
  <2> QED
    BY <1>1, <2>1, <2>2, ReadStep
<1>2. ASSUME NEW q \in Requests, request'[q].kind = "report", request'[q].phase = "saved"
      PROVE filed'[request'[q].command].status = request'[q].verdict
  <2>1. /\ HasRead(request[q]) /\ SameRead(request[q], request'[q])
        /\ request[q].phase = "saved" \/ Commit(q)
    BY <1>2, ReadStep DEF HasRead
  <2>2. /\ request[q].kind = "report" /\ request'[q].command = request[q].command
        /\ request'[q].verdict = request[q].verdict
    BY <1>2, <2>1 DEF SameRead
  <2>3. /\ request[q].command \in Commands /\ request[q].verdict \in Verdict
    BY <2>1, <2>2, RowsType DEF HasRead, EvidenceInv, TypeInv, ActiveRequests, Proper
  <2>4. CASE request[q].phase = "saved"
    BY <2>2, <2>3, <2>4, VerdictStays DEF VerdictInv
  <2>5. CASE Commit(q)
    <3>1. /\ request[q].save.command = request[q].command
          /\ request[q].save.status = request[q].verdict
      BY <2>2, <2>5, CommitContinues DEF Proposal
    <3>2. filed' = [filed EXCEPT ![request[q].save.command] = request[q].save]
      BY <2>5 DEF Commit
    <3> QED
      BY <2>2, <2>3, <3>1, <3>2 DEF EvidenceInv, TypeInv, TypeOK
  <2> QED
    BY <2>1, <2>4, <2>5
<1> QED
  BY <1>1, <1>2, ToldAgrees DEF VerdictInv, HasRead

\* VerdictsAgree holds for every set of processes, clients and requests: of any
\* reports that race, the losers are answered what the winner filed.
THEOREM VerdictsAgreeAlways == Spec => []VerdictsAgree
<1>1. Init => VerdictInv
  BY IdleTypes DEF Init, VerdictInv, VerdictsAgree, HasRead
<1>2. EvidenceInv /\ VerdictInv /\ [Next]_vars => VerdictInv'
  BY VerdictStep
<1>3. VerdictInv => VerdictsAgree
  BY DEF VerdictInv
<1> QED
  BY <1>1, <1>2, <1>3, EvidenceInvAlways, PTL DEF Spec

-----------------------------------------------------------------------------
(***************************************************************************)
(* Polls                                                                   *)
(***************************************************************************)

\* A poll holds the commands it will answer, and the one whose delivery it has
\* committed.
Holds(x, m) ==
    x.kind = "poll" /\ (m \in x.out \/ (x.phase = "saved" /\ x.save.command = m))

\* A command that is held or answered is delivered in the store, is held by one
\* poll, and is not held any more when it has been answered.
HandInv == \A m \in Commands :
    /\ handed[m] = 0 \/ (handed[m] = 1 /\ filed[m].delivered)
    /\ \A r \in Requests : Holds(request[r], m) =>
        /\ handed[m] = 0 /\ filed[m].delivered
        /\ \A q \in Requests : Holds(request[q], m) => q = r

\* What is delivered stays delivered.
LEMMA DeliveredStays ==
  ASSUME EvidenceInv, [Next]_vars, NEW m \in Commands, filed[m].delivered
  PROVE filed'[m].delivered
<1>1. CASE filed[m] = NoEvidence
  BY <1>1 DEF NoEvidence
<1>2. CASE filed[m] # NoEvidence
  BY <1>2, FiledStep
<1> QED
  BY <1>1, <1>2

\* Nothing is answered, and no request holds more than it did.
Passive ==
    /\ handed' = handed
    /\ \A q \in Requests, m \in Commands :
           Holds(request'[q], m) => Holds(request[q], m)

\* A request that comes to hold no more, alone or with its write settled.
LEMMA OnePassive ==
  ASSUME TypeInv, NEW r \in Requests, NEW x,
         request' = [request EXCEPT ![r] = x] \/ Settle(r, x),
         \A m \in Commands : Holds(x, m) => Holds(request[r], m)
  PROVE \A q \in Requests, m \in Commands :
            Holds(request'[q], m) => Holds(request[q], m)
<1> SUFFICES ASSUME NEW q \in Requests, NEW m \in Commands, Holds(request'[q], m)
             PROVE Holds(request[q], m)
  OBVIOUS
<1>1. request[q] \in Request
  BY DEF TypeInv, TypeOK
<1> DEFINE y == [request[q] EXCEPT !.behind = Fewer(@)]
<1>2. Holds(y, m) <=> Holds(request[q], m)
  BY <1>1 DEF Holds, Request
<1>3. request'[q] \in {y, request[q]} \/ (q = r /\ request'[q] = x)
  BY DEF Settle, TypeInv, TypeOK
<1> HIDE DEF y
<1> QED
  BY <1>2, <1>3

\* No request, nothing held.
LEMMA IdleHoldsNothing == \A m : ~Holds(Idle, m)
BY DEF Holds, Idle

\* A request that begins holds nothing.
LEMMA ArrivalPassive ==
  ASSUME TypeInv, NEW r \in Requests, Arrival(r)
  PROVE Passive
<1>1. ASSUME NEW kind, NEW c, NEW content, NEW n, NEW verdict, NEW rest,
             Begin(r, kind, c, content, n, verdict, rest), handed' = handed
      PROVE Passive
  <2> DEFINE x == [Idle EXCEPT !.kind = kind, !.client = c, !.content = content,
                               !.command = n, !.verdict = verdict, !.rest = rest,
                               !.phase = "refresh", !.behind = Len(writes[HomeOf[c]])]
  <2>1. \A m : ~Holds(x, m)
    BY DEF Holds, Idle
  <2>2. request' = [request EXCEPT ![r] = x]
    BY <1>1 DEF Begin
  <2> HIDE DEF x
  <2> QED
    BY <1>1, <2>1, <2>2, OnePassive DEF Passive
<1> QED
  BY <1>1 DEF Arrival, Connect, ExportRequest, PollRequest, AcknowledgeRequest,
              ReportRequest

\* Requests that end without an answer to a poll.
LEMMA EndPassive ==
  ASSUME TypeInv, NEW r \in Requests,
         \/ RefreshFault(r) \/ SaveFault(r) \/ Reconcile(r) \/ ExportRefused(r)
         \/ ExportSaved(r) \/ ExportLost(r) \/ AcknowledgeSaved(r)
         \/ AcknowledgeEnd(r) \/ ReportSaved(r) \/ ReportRefused(r) \/ ReportLost(r)
  PROVE Passive
<1>1. /\ request' = [request EXCEPT ![r] = Idle] \/ Settle(r, Idle)
      /\ handed' = handed
  BY DEF RefreshFault, SaveFault, Reconcile, ExportRefused, ExportSaved, ExportLost,
         AcknowledgeSaved, AcknowledgeEnd, ReportSaved, ReportRefused, ReportLost, End
<1> QED
  BY <1>1, IdleHoldsNothing, OnePassive DEF Passive

\* Requests that read the rows, queue a transition or lose one.
LEMMA WaitPassive ==
  ASSUME TypeInv, NEW r \in Requests,
         \/ Select(r) \/ Conflict(r) \/ ExportUnchanged(r) \/ ExportQueue(r)
         \/ Acknowledge(r) \/ Report(r) \/ \E m \in Commands : PollDeliver(r, m)
  PROVE Passive
<1>1. request[r] \in Request /\ request \in [Requests -> Request]
  BY DEF TypeInv, TypeOK
<1>2. ASSUME NEW x, x.kind = request[r].kind, x.out = request[r].out,
             x.phase # "saved",
             request' = [request EXCEPT ![r] = x] \/ Settle(r, x), handed' = handed
      PROVE Passive
  BY <1>2, OnePassive DEF Holds, Passive
<1>3. CASE Select(r)
  <2> DEFINE x == [request[r] EXCEPT !.phase = "read",
                                     !.rows = [latest |-> latest, filed |-> filed]]
  <2>1. x.kind = request[r].kind /\ x.out = request[r].out /\ x.phase # "saved"
    BY <1>1 DEF Request
  <2>2. request' = [request EXCEPT ![r] = x] /\ handed' = handed
    BY <1>1, <1>3 DEF Select
  <2> HIDE DEF x
  <2> QED
    BY <1>2, <2>1, <2>2
<1>4. CASE Conflict(r)
  <2> DEFINE x == [request[r] EXCEPT !.phase = "refresh", !.lost = TRUE,
                                     !.behind = Len(writes[Home(r)]) - 1]
  <2>1. x.kind = request[r].kind /\ x.out = request[r].out /\ x.phase # "saved"
    BY <1>1 DEF Request
  <2>2. Settle(r, x) /\ handed' = handed
    BY <1>4 DEF Conflict
  <2> HIDE DEF x
  <2> QED
    BY <1>2, <2>1, <2>2
<1>5. ASSUME NEW evidence, Save(r, evidence), handed' = handed
      PROVE Passive
  <2> DEFINE sent == [request[r] EXCEPT !.phase = "save", !.save = evidence]
             again == [request[r] EXCEPT !.phase = "refresh", !.lost = TRUE,
                                         !.behind = Len(writes[Home(r)])]
  <2>1. /\ sent.kind = request[r].kind /\ sent.out = request[r].out
        /\ sent.phase # "saved"
        /\ again.kind = request[r].kind /\ again.out = request[r].out
        /\ again.phase # "saved"
    BY <1>1 DEF Request
  <2>2. \/ request' = [request EXCEPT ![r] = sent]
        \/ request' = [request EXCEPT ![r] = again]
    BY <1>1, <1>5 DEF Save
  <2> HIDE DEF sent, again
  <2> QED
    BY <1>2, <1>5, <2>1, <2>2
<1> QED
  BY <1>3, <1>4, <1>5 DEF ExportUnchanged, ExportQueue, Acknowledge, Report, PollDeliver

\* Departures and kills only drop requests.
LEMMA DeparturePassive ==
  ASSUME TypeInv,
         \/ \E c \in Clients : Disconnect(c) \/ Expire(c)
         \/ \E p \in Procs : Kill(p)
         \/ UNCHANGED vars
  PROVE Passive
<1>1. \A q \in Requests : request'[q] \in {Idle, request[q]}
  BY DEF Disconnect, Expire, Kill, vars
<1>2. handed' = handed
  BY DEF Disconnect, Expire, Kill, vars
<1> QED
  BY <1>1, <1>2, IdleHoldsNothing DEF Passive

\* A poll answers what it holds, or goes on with it.
Answers(r, m, out) ==
    /\ \A n \in out : Holds(request[r], n)
    /\ Answer(r, m, out)
    /\ \A n \in Commands : Holds(request'[r], n) => n \in out /\ request[r].rest # {m}
    /\ \A q \in Requests \ {r}, n \in Commands :
           Holds(request'[q], n) => Holds(request[q], n)

\* A poll only answers what it holds.
LEMMA PollAnswers ==
  ASSUME EvidenceInv, NEW r \in Requests, NEW m \in Commands,
         PollPass(r, m) \/ PollSaved(r, m)
  PROVE \E out \in SUBSET Commands : Answers(r, m, out)
<1>1. request[r] \in Request /\ request \in [Requests -> Request] /\ TypeInv
  BY DEF EvidenceInv, TypeInv, TypeOK
<1>2. ASSUME NEW out \in SUBSET Commands, NEW behind, NEW n \in Commands,
             Holds(Advanced(r, m, out, behind), n)
      PROVE n \in out /\ request[r].rest # {m}
  BY <1>2 DEF Holds, Advanced, Idle
<1>3. ASSUME NEW x, NEW q \in Requests \ {r}, NEW n \in Commands,
             request' = [request EXCEPT ![r] = x] \/ Settle(r, x),
             Holds(request'[q], n)
      PROVE Holds(request[q], n)
  <2>1. request[q] \in Request
    BY <1>1
  <2> DEFINE y == [request[q] EXCEPT !.behind = Fewer(@)]
  <2>2. Holds(y, n) <=> Holds(request[q], n)
    BY <2>1 DEF Holds, Request
  <2>3. request'[q] \in {y, request[q]}
    BY <1>1, <1>3 DEF Settle
  <2> HIDE DEF y
  <2> QED
    BY <1>3, <2>2, <2>3
<1>4. CASE PollPass(r, m)
  <2> DEFINE out == request[r].out
             x == Advanced(r, m, out, Len(writes[Home(r)]))
  <2>1. /\ request' = [request EXCEPT ![r] = x] /\ Answer(r, m, out)
        /\ request[r].kind = "poll"
    BY <1>4 DEF PollPass, Losing, Reading
  <2>2. out \in SUBSET Commands /\ \A n \in out : Holds(request[r], n)
    BY <1>1, <2>1 DEF Request, Holds
  <2>3. request'[r] = x
    BY <1>1, <2>1
  <2>4. \A n \in Commands : Holds(request'[r], n) => n \in out /\ request[r].rest # {m}
    BY <1>2, <2>2, <2>3
  <2> HIDE DEF x, out
  <2> QED
    BY <1>3, <2>1, <2>2, <2>4 DEF Answers
<1>5. CASE PollSaved(r, m)
  <2> DEFINE out == request[r].out \cup {m}
             x == Advanced(r, m, out, Len(writes[Home(r)]) - 1)
  <2>1. /\ Settle(r, x) /\ Answer(r, m, out)
        /\ request[r].kind = "poll" /\ request[r].phase = "saved" /\ First(r, m)
    BY <1>5 DEF PollSaved, Saved
  <2>2. request[r].save.command = m
    <3>1. /\ request[r].save.command \in request[r].rest
          /\ \A n \in request[r].rest : request[r].save.command <= n
      BY <2>1 DEF EvidenceInv, Sending, Proposal
    <3>2. request[r].rest \subseteq Nat
      BY <1>1 DEF Request, Commands
    <3> QED
      BY <2>1, <3>1, <3>2 DEF First
  <2>3. out \in SUBSET Commands /\ \A n \in out : Holds(request[r], n)
    BY <1>1, <2>1, <2>2 DEF Request, Holds
  <2>4. request'[r] = x
    BY <2>1 DEF Settle
  <2>5. \A n \in Commands : Holds(request'[r], n) => n \in out /\ request[r].rest # {m}
    BY <1>2, <2>3, <2>4
  <2> HIDE DEF x, out
  <2> QED
    BY <1>3, <2>1, <2>3, <2>5 DEF Answers
<1> QED
  BY <1>4, <1>5

\* Every step is passive, commits a transition or answers a poll.
LEMMA HandKinds ==
  ASSUME EvidenceInv, [Next]_vars
  PROVE \/ Passive
        \/ \E r \in Requests : Commit(r)
        \/ \E r \in Requests, m \in Commands, out \in SUBSET Commands : Answers(r, m, out)
<1>1. TypeInv
  BY DEF EvidenceInv
<1>2. ASSUME NEW r \in Requests, Arrival(r) \/ Answered(r) \/ RefreshFault(r) \/ SaveFault(r)
      PROVE \/ Passive \/ Commit(r)
            \/ \E m \in Commands, out \in SUBSET Commands : Answers(r, m, out)
  BY <1>1, <1>2, ArrivalPassive, EndPassive, WaitPassive, PollAnswers DEF Answered
<1> QED
  BY <1>1, <1>2, DeparturePassive DEF Next

\* A delivery commits only where nothing is held or answered.
LEMMA CommitHolds ==
  ASSUME EvidenceInv, HandInv, [Next]_vars, NEW r \in Requests, Commit(r)
  PROVE HandInv'
<1> DEFINE k == request[r].save.command
<1>1. request[r] \in Request /\ request \in [Requests -> Request]
  BY DEF EvidenceInv, TypeInv, TypeOK
<1>2. /\ handed' = handed
      /\ filed' = [filed EXCEPT ![k] = request[r].save]
      /\ request' = [request EXCEPT ![r] = [request[r] EXCEPT !.phase = "saved"]]
      /\ request[r].phase = "save"
  BY <1>1 DEF Commit, Sent
<1>3. ASSUME NEW q \in Requests, NEW m \in Commands, Holds(request'[q], m)
      PROVE Holds(request[q], m) \/ (q = r /\ m = k /\ request[r].kind = "poll")
  BY <1>1, <1>2, <1>3 DEF Holds, Request
<1>4. ASSUME request[r].kind = "poll", k \in Commands
      PROVE /\ handed[k] = 0 /\ \A q \in Requests : ~Holds(request[q], k)
            /\ filed'[k].delivered
  <2>1. /\ request[r].rows.latest = latest /\ k = latest.command
        /\ request[r].save.delivered /\ ~latest.delivered
    BY <1>4, CommitContinues DEF Proposal
  <2>2. filed[k] = latest
    BY <1>4, <2>1 DEF EvidenceInv, Committed, Commands
  <2>3. filed'[k] = request[r].save
    BY <1>2, <1>4 DEF EvidenceInv, TypeInv, TypeOK
  <2> QED
    BY <1>4, <2>1, <2>2, <2>3 DEF HandInv
<1> HIDE DEF k
<1>5. ASSUME NEW m \in Commands
      PROVE handed'[m] = 0 \/ (handed'[m] = 1 /\ filed'[m].delivered)
  BY <1>2, DeliveredStays DEF HandInv
<1>6. ASSUME NEW m \in Commands, NEW q \in Requests, Holds(request'[q], m)
      PROVE /\ handed'[m] = 0 /\ filed'[m].delivered
            /\ \A p \in Requests : Holds(request'[p], m) => p = q
  <2>1. CASE m = k /\ request[r].kind = "poll"
    BY <1>2, <1>3, <1>4, <1>6, <2>1
  <2>2. CASE ~(m = k /\ request[r].kind = "poll")
    <3>1. Holds(request[q], m)
      BY <1>3, <1>6, <2>2
    <3>2. handed[m] = 0 /\ filed[m].delivered
          /\ \A p \in Requests : Holds(request[p], m) => p = q
      BY <3>1 DEF HandInv
    <3> QED
      BY <1>2, <1>3, <2>2, <3>2, DeliveredStays
  <2> QED
    BY <2>1, <2>2
<1> QED
  BY <1>5, <1>6 DEF HandInv

\* What a poll answers it held alone, and holds no more.
LEMMA AnswersHolds ==
  ASSUME EvidenceInv, HandInv, [Next]_vars, NEW r \in Requests, NEW m \in Commands,
         NEW out \in SUBSET Commands, Answers(r, m, out)
  PROVE HandInv'
<1>1. ASSUME NEW n \in Commands
      PROVE handed'[n] = IF request[r].rest = {m} /\ n \in out THEN handed[n] + 1
                         ELSE handed[n]
  BY DEF Answers, Answer
<1>2. ASSUME NEW q \in Requests, NEW n \in Commands, Holds(request'[q], n)
      PROVE Holds(request[q], n)
  BY <1>2 DEF Answers
<1>3. ASSUME NEW n \in Commands
      PROVE handed'[n] = 0 \/ (handed'[n] = 1 /\ filed'[n].delivered)
  <2>1. CASE request[r].rest = {m} /\ n \in out
    <3>1. handed[n] = 0 /\ filed[n].delivered
      BY <2>1 DEF HandInv, Answers
    <3> QED
      BY <1>1, <2>1, <3>1, DeliveredStays
  <2>2. CASE ~(request[r].rest = {m} /\ n \in out)
    BY <1>1, <2>2, DeliveredStays DEF HandInv
  <2> QED
    BY <2>1, <2>2
<1>4. ASSUME NEW n \in Commands, NEW q \in Requests, Holds(request'[q], n)
      PROVE /\ handed'[n] = 0 /\ filed'[n].delivered
            /\ \A p \in Requests : Holds(request'[p], n) => p = q
  <2>1. Holds(request[q], n)
    BY <1>2, <1>4
  <2>2. /\ handed[n] = 0 /\ filed[n].delivered
        /\ \A p \in Requests : Holds(request[p], n) => p = q
    BY <2>1 DEF HandInv
  <2>3. ~(request[r].rest = {m} /\ n \in out)
    <3>1. SUFFICES ASSUME request[r].rest = {m}, n \in out
                   PROVE FALSE
      OBVIOUS
    <3>2. q = r
      BY <2>2, <3>1 DEF Answers
    <3> QED
      BY <1>4, <3>1, <3>2 DEF Answers
  <2> QED
    BY <1>1, <1>2, <2>2, <2>3, DeliveredStays
<1> QED
  BY <1>3, <1>4 DEF HandInv

\* A passive step keeps what is held and answered.
LEMMA PassiveHolds ==
  ASSUME EvidenceInv, HandInv, [Next]_vars, Passive
  PROVE HandInv'
BY DeliveredStays DEF HandInv, Passive

\* HandedOverOnce holds for every set of processes, clients and requests: of
\* any polls that race for a command one delivers it, and none repeats it.
THEOREM HandedOverOnceAlways == Spec => []HandedOverOnce
<1>1. Init => HandInv
  BY IdleHoldsNothing DEF Init, HandInv
<1>2. EvidenceInv /\ HandInv /\ [Next]_vars => HandInv'
  BY HandKinds, CommitHolds, AnswersHolds, PassiveHolds
<1>3. HandInv => HandedOverOnce
  BY DEF HandInv, HandedOverOnce
<1> QED
  BY <1>1, <1>2, <1>3, EvidenceInvAlways, PTL DEF Spec
===============================================================================
