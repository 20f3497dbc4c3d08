----------------------------- MODULE StudioExport -----------------------------
(***************************************************************************)
(* StudioRuntime and StorageStudioEvidenceStore: exports of one project to *)
(* the Roblox Studio clients connected to it, on any server process.       *)
(*                                                                         *)
(* What is known of an export is its evidence, one row per command and one *)
(* for the project.  A transition writes both together with a claim on the *)
(* version it makes, which must not exist yet.  Every request refreshes    *)
(* its process's cache of the rows, decides from it in the same turn, and  *)
(* then waits for its transition to commit or to be refused.               *)
(*                                                                         *)
(* Clients, sessions, queues of commands and the signatures of what was    *)
(* exported live in the memory of the one process a client connected to.   *)
(***************************************************************************)
EXTENDS Naturals, Sequences

CONSTANTS
    Procs,          \* server processes
    Clients,        \* Studio clients, each connects once
    HomeOf,         \* the process a client connects to
    Contents,       \* what may be exported: the artifacts of an execution
    Requests,       \* HTTP requests that may be in flight at a time
    StorageFaults,  \* whether the database may reject or lose a call
    MaxExports,     \* bound on the exports asked for
    MaxVersions,    \* bound on the versions of the evidence
    MaxMishaps,     \* bound on database faults, departures and kills
    Nobody, Nothing

\* A command is named by the version that queued it.
Commands == 1..MaxVersions

ASSUME StudioConstantsOK ==
    /\ HomeOf \in [Clients -> Procs]
    /\ StorageFaults \in BOOLEAN
    /\ MaxExports \in Nat /\ MaxVersions \in Nat /\ MaxMishaps \in Nat
    /\ Nobody \notin Clients /\ Nothing \notin Contents

VARIABLES
    latest,     \* studio_project_evidence: the project's last evidence
    filed,      \* filed[m], studio_evidence: the last evidence of command m
    claims,     \* studio_transition_claims: the versions claimed
    writes,     \* writes[p]: the transitions p has queued
    request,    \* request[r]: the request in flight
    client,     \* client[c]: StudioBridge.clients
    session,    \* session[c]: the session of c
    queued,     \* queued[c]: StudioBridge.commandQueue, oldest version first
    signature,  \* signature[c]: exportSignatureByClient
    asked,      \* exports asked for so far
    mishaps,    \* database faults, departures and kills so far
    \* History variables: read by the properties, never by an action's guard.
    log,        \* the evidence committed, in order
    handed,     \* handed[m]: how many answers to a poll held command m
    told        \* told[m]: the verdicts reports on m were answered with

rows == <<latest, filed, claims, log>>
local == <<client, session, queued, signature>>
vars == <<rows, local, writes, request, asked, mishaps, handed, told>>

-----------------------------------------------------------------------------
(***************************************************************************)
(* Records                                                                 *)
(***************************************************************************)

\* content: snapshotSignature with its executionId.  delivered: deliveredAt is
\* set.  The verification status is a function of status and delivered.
Evidence == [command: Commands \cup {0}, client: Clients \cup {Nobody},
             content: Contents \cup {Nothing}, delivered: BOOLEAN,
             status: {"none", "sent", "acknowledged", "completed", "failed"},
             version: Nat]
NoEvidence == [command |-> 0, client |-> Nobody, content |-> Nothing,
               delivered |-> FALSE, status |-> "none", version |-> 0]

Kind == {"reconcile", "export", "poll", "acknowledge", "report"}
Verdict == {"completed", "failed"}

\* phase: waiting for a refresh, holding the rows it read, waiting for its
\* transition, and after its commit.  lost: another transition won.  behind:
\* writes of the process the refresh waits for.  rest: commands still to be
\* looked at by a poll.
Request == [kind: Kind, client: Clients \cup {Nobody},
            content: Contents \cup {Nothing}, command: Commands \cup {0},
            verdict: Verdict, rest: SUBSET Commands, out: SUBSET Commands,
            phase: {"idle", "refresh", "read", "save", "saved"},
            lost: BOOLEAN, behind: Nat, save: Evidence,
            rows: [latest: Evidence, filed: [Commands -> Evidence]]]

Unread == [latest |-> NoEvidence, filed |-> [m \in Commands |-> NoEvidence]]
Idle == [kind |-> "reconcile", client |-> Nobody, content |-> Nothing,
         command |-> 0, verdict |-> "failed", rest |-> {}, out |-> {},
         phase |-> "idle", lost |-> FALSE, behind |-> 0, save |-> NoEvidence,
         rows |-> Unread]

Session == [status: {"none", "active", "expired"}, synced: BOOLEAN]
NoSession == [status |-> "none", synced |-> FALSE]

Init ==
    /\ latest = NoEvidence
    /\ filed = [m \in Commands |-> NoEvidence]
    /\ claims = {}
    /\ writes = [p \in Procs |-> <<>>]
    /\ request = [r \in Requests |-> Idle]
    /\ client = [c \in Clients |-> "new"]
    /\ session = [c \in Clients |-> NoSession]
    /\ queued = [c \in Clients |-> {}]
    /\ signature = [c \in Clients |-> Nothing]
    /\ asked = 0 /\ mishaps = 0
    /\ log = <<>>
    /\ handed = [m \in Commands |-> 0]
    /\ told = [m \in Commands |-> {}]

-----------------------------------------------------------------------------
(***************************************************************************)
(* Requests                                                                *)
(***************************************************************************)

Mishap == mishaps < MaxMishaps /\ mishaps' = mishaps + 1

Home(r) == HomeOf[request[r].client]

\* A client this process knows: requireStudioClientAccess.
Known(c) == client[c] \in {"connected", "disconnected"}

\* A new request begins with a refresh, behind the writes of its process.
Begin(r, kind, c, content, m, verdict, rest) ==
    /\ request[r] = Idle
    /\ request' = [request EXCEPT ![r] =
            [Idle EXCEPT !.kind = kind, !.client = c, !.content = content,
                         !.command = m, !.verdict = verdict, !.rest = rest,
                         !.phase = "refresh", !.behind = Len(writes[HomeOf[c]])]]

\* Connecting registers a new client and reconciles its session.
Connect(r, c) ==
    /\ client[c] = "new"
    /\ client' = [client EXCEPT ![c] = "connected"]
    /\ session' = [session EXCEPT ![c] = [status |-> "active", synced |-> FALSE]]
    /\ Begin(r, "reconcile", c, Nothing, 0, "failed", {})
    /\ UNCHANGED <<rows, writes, queued, signature, asked, mishaps, handed, told>>

ExportRequest(r, c, s) ==
    /\ asked < MaxExports
    /\ session[c].status # "none"
    /\ asked' = asked + 1
    /\ Begin(r, "export", c, s, 0, "failed", {})
    /\ UNCHANGED <<rows, local, writes, mishaps, handed, told>>

\* A poll looks at a copy of the queue (peekCommands).
PollRequest(r, c) ==
    /\ client[c] = "connected" /\ queued[c] # {}
    /\ Begin(r, "poll", c, Nothing, 0, "failed", queued[c])
    /\ UNCHANGED <<rows, local, writes, asked, mishaps, handed, told>>

AcknowledgeRequest(r, c, m) ==
    /\ Known(c) /\ filed[m] # NoEvidence
    /\ Begin(r, "acknowledge", c, Nothing, m, "failed", {})
    /\ UNCHANGED <<rows, local, writes, asked, mishaps, handed, told>>

\* verdict: what the report comes to, with the verification of its receipts.
ReportRequest(r, c, m, verdict) ==
    /\ Known(c) /\ filed[m] # NoEvidence
    /\ Begin(r, "report", c, Nothing, m, verdict, {})
    /\ UNCHANGED <<rows, local, writes, asked, mishaps, handed, told>>

\* The SELECT of the refresh, and its failure.
Select(r) ==
    /\ request[r].phase = "refresh" /\ request[r].behind = 0
    /\ request' = [request EXCEPT ![r].phase = "read",
                                  ![r].rows = [latest |-> latest, filed |-> filed]]
    /\ UNCHANGED <<rows, local, writes, asked, mishaps, handed, told>>

\* A connection whose reconciliation fails is undone.
RefreshFault(r) ==
    /\ StorageFaults /\ Mishap
    /\ request[r].phase \in {"refresh", "read"}
    /\ request' = [request EXCEPT ![r] = Idle]
    /\ IF request[r].kind = "reconcile"
       THEN /\ client' = [client EXCEPT ![request[r].client] = "disconnected"]
            /\ session' = [session EXCEPT ![request[r].client] = NoSession]
       ELSE UNCHANGED <<client, session>>
    /\ UNCHANGED <<rows, queued, signature, writes, asked, handed, told>>

-----------------------------------------------------------------------------
(***************************************************************************)
(* Transitions                                                             *)
(***************************************************************************)

\* saveTransition queues the batch; evidence that does not follow the cached
\* row is refused after one more refresh.
Save(r, evidence) ==
    LET p == Home(r)
    IN  IF evidence.version = request[r].rows.latest.version + 1
        THEN /\ request' = [request EXCEPT ![r].phase = "save", ![r].save = evidence]
             /\ writes' = [writes EXCEPT ![p] = Append(@, r)]
        ELSE /\ request' = [request EXCEPT ![r].phase = "refresh", ![r].lost = TRUE,
                                           ![r].behind = Len(writes[p])]
             /\ UNCHANGED writes

\* The request with its transition settled, and the requests behind it.
\* Mutant: a settled transition is counted when nobody waits.
FewerBelowZero(n) == n - 1
Fewer(n) == IF n = 0 THEN 0 ELSE n - 1
Settle(r, after) ==
    /\ writes' = [writes EXCEPT ![Home(r)] = Tail(@)]
    /\ request' = [q \in Requests |->
            IF q = r THEN after
            ELSE IF request[q] # Idle /\ Home(q) = Home(r)
                 THEN [request[q] EXCEPT !.behind = Fewer(@)]
                 ELSE request[q]]

\* Mutant: the version claim is not required to be absent.
ClaimIgnored(v) == TRUE
Unclaimed(v) == v \notin claims
Turn(r) == writes[Home(r)] # <<>> /\ Head(writes[Home(r)]) = r
Sent(r) == request[r].phase = "save" /\ Turn(r)

Commit(r) ==
    LET evidence == request[r].save
    IN  /\ Sent(r) /\ Unclaimed(evidence.version)
        /\ claims' = claims \cup {evidence.version}
        /\ filed' = [filed EXCEPT ![evidence.command] = evidence]
        /\ latest' = evidence
        /\ log' = Append(log, evidence)
        /\ request' = [request EXCEPT ![r].phase = "saved"]
        /\ UNCHANGED <<local, writes, asked, mishaps, handed, told>>

Conflict(r) ==
    /\ Sent(r) /\ ~Unclaimed(request[r].save.version)
    /\ Settle(r, [request[r] EXCEPT !.phase = "refresh", !.lost = TRUE,
                                    !.behind = Len(writes[Home(r)]) - 1])
    /\ UNCHANGED <<rows, local, asked, mishaps, handed, told>>

\* The database rejects the transition, or loses the answer to its commit: the
\* request ends with an error either way.
SaveFault(r) ==
    /\ StorageFaults /\ Mishap
    /\ request[r].phase \in {"save", "saved"} /\ Turn(r)
    /\ Settle(r, Idle)
    /\ UNCHANGED <<rows, local, asked, handed, told>>

\* What a request does in the turn its refresh or its transition is answered.
Reading(r, kind) ==
    request[r].kind = kind /\ request[r].phase = "read" /\ ~request[r].lost
Losing(r, kind) ==
    request[r].kind = kind /\ request[r].phase = "read" /\ request[r].lost
Saved(r, kind) ==
    request[r].kind = kind /\ request[r].phase = "saved" /\ Turn(r)
End(r) == request' = [request EXCEPT ![r] = Idle]

\* applyEvidence: the session of c takes over the sync count, which is positive.
ApplyEvidence(c) ==
    session' = [session EXCEPT ![c].synced = @ \/ session[c].status = "active"]

Reconcile(r) ==
    /\ Reading(r, "reconcile")
    /\ IF request[r].rows.latest = NoEvidence THEN UNCHANGED session
       ELSE ApplyEvidence(request[r].client)
    /\ End(r)
    /\ UNCHANGED <<rows, client, queued, signature, writes, asked, mishaps, handed, told>>

-----------------------------------------------------------------------------
(***************************************************************************)
(* queueProjectExport                                                      *)
(***************************************************************************)

\* What the client is taken to have already.
PreviousSignature(r) ==
    LET c == request[r].client
        previous == request[r].rows.latest
    IN  IF session[c].synced /\ previous.client = c /\ previous.status # "failed"
        THEN previous.content ELSE signature[c]

\* The client is gone, or there is nothing to deliver.
ExportRefused(r) ==
    /\ Reading(r, "export")
    /\ End(r)
    /\ UNCHANGED <<rows, local, writes, asked, mishaps, handed, told>>

CanExport(r) == Reading(r, "export") /\ client[request[r].client] = "connected"

\* "no_changes": the project's evidence is saved again, under the content asked
\* for, whichever client and command it is about.
ExportUnchanged(r) ==
    /\ CanExport(r)
    /\ PreviousSignature(r) = request[r].content
    /\ request[r].rows.latest # NoEvidence
    /\ LET previous == request[r].rows.latest
       IN  Save(r, [previous EXCEPT !.version = @ + 1, !.content = request[r].content])
    /\ UNCHANGED <<rows, local, asked, mishaps, handed, told>>

ExportQueue(r) ==
    /\ CanExport(r)
    /\ PreviousSignature(r) # request[r].content
    /\ LET version == request[r].rows.latest.version + 1
       IN  /\ version \in Commands
           /\ Save(r, [command |-> version, client |-> request[r].client,
                       content |-> request[r].content, delivered |-> FALSE,
                       status |-> "sent", version |-> version])
    /\ UNCHANGED <<rows, local, asked, mishaps, handed, told>>

IsNew(evidence) == evidence.command = evidence.version

\* A saved export enters the queue the client polls, if it is still known.
ExportSaved(r) ==
    LET c == request[r].client
        evidence == request[r].save
    IN  /\ Saved(r, "export")
        /\ IF IsNew(evidence)
           THEN /\ queued' = [queued EXCEPT ![c] = @ \cup {evidence.command}]
                /\ signature' = [signature EXCEPT ![c] = evidence.content]
           ELSE UNCHANGED <<queued, signature>>
        /\ ApplyEvidence(c)
        /\ Settle(r, Idle)
        /\ UNCHANGED <<rows, client, asked, mishaps, handed, told>>

ExportLost(r) ==
    /\ Losing(r, "export")
    /\ End(r)
    /\ UNCHANGED <<rows, local, writes, asked, mishaps, handed, told>>

-----------------------------------------------------------------------------
(***************************************************************************)
(* drainCommands                                                           *)
(***************************************************************************)

First(r, m) == m \in request[r].rest /\ \A n \in request[r].rest : m <= n
Current(r, m) == request[r].rows.filed[m]
IsLatest(r, m) == request[r].rows.latest.command = m

\* Mutant: deliveredAt is not looked at.
DeliverableAgain(r, m) == Current(r, m).status = "sent" /\ IsLatest(r, m)
Deliverable(r, m) ==
    /\ Current(r, m).status = "sent" /\ ~Current(r, m).delivered
    /\ Current(r, m).client = request[r].client
    /\ IsLatest(r, m)

\* A command that was delivered leaves the queue, and its evidence is applied.
Dequeue(c, m) == queued' = [queued EXCEPT ![c] = @ \ {m}]
\* Mutant: whatever a poll has looked at leaves the queue.
ForgetAlways(r, m, delivered) ==
    Dequeue(request[r].client, m) /\ ApplyEvidence(request[r].client)
Forget(r, m, delivered) ==
    IF delivered
    THEN Dequeue(request[r].client, m) /\ ApplyEvidence(request[r].client)
    ELSE UNCHANGED <<queued, session>>

\* The poll goes on with the next command, or answers.
Advanced(r, m, out, behind) ==
    IF request[r].rest = {m} THEN Idle
    ELSE [Idle EXCEPT !.kind = "poll", !.client = request[r].client,
                      !.rest = request[r].rest \ {m}, !.out = out,
                      !.phase = "refresh", !.behind = behind]
Answer(r, m, out) ==
    handed' = [n \in Commands |->
        IF request[r].rest = {m} /\ n \in out THEN handed[n] + 1 ELSE handed[n]]

PollDeliver(r, m) ==
    /\ Reading(r, "poll") /\ First(r, m) /\ Deliverable(r, m)
    /\ Save(r, [Current(r, m) EXCEPT !.delivered = TRUE,
                            !.version = request[r].rows.latest.version + 1])
    /\ UNCHANGED <<rows, local, asked, mishaps, handed, told>>

\* Skipped: superseded, delivered or done; or another poll delivered it first.
PollPass(r, m) ==
    /\ \/ Losing(r, "poll")
       \/ Reading(r, "poll") /\ ~Deliverable(r, m)
    /\ First(r, m)
    /\ Forget(r, m, Current(r, m).delivered)
    /\ Answer(r, m, request[r].out)
    /\ request' = [request EXCEPT ![r] =
                        Advanced(r, m, request[r].out, Len(writes[Home(r)]))]
    /\ UNCHANGED <<rows, client, signature, writes, asked, mishaps, told>>

PollSaved(r, m) ==
    LET out == request[r].out \cup {m}
    IN  /\ Saved(r, "poll") /\ First(r, m)
        /\ Forget(r, m, TRUE)
        /\ Answer(r, m, out)
        /\ Settle(r, Advanced(r, m, out, Len(writes[Home(r)]) - 1))
        /\ UNCHANGED <<rows, client, signature, asked, mishaps, told>>

-----------------------------------------------------------------------------
(***************************************************************************)
(* acknowledgeProjectExport and reportProjectExport                        *)
(***************************************************************************)

Own(r) == Current(r, request[r].command).client = request[r].client

\* Mutant: a superseded command is acknowledged.
AcknowledgeableSuperseded(r) ==
    /\ Own(r) /\ Current(r, request[r].command).delivered
    /\ Current(r, request[r].command).status = "sent"
Acknowledgeable(r) ==
    /\ Own(r) /\ IsLatest(r, request[r].command)
    /\ Current(r, request[r].command).delivered
    /\ Current(r, request[r].command).status = "sent"

\* Mutant: a report is taken whatever the status.
ReportableAnyway(r) == Own(r) /\ IsLatest(r, request[r].command)
Reportable(r) ==
    /\ Own(r) /\ IsLatest(r, request[r].command)
    /\ Current(r, request[r].command).status = "acknowledged"

Acknowledge(r) ==
    /\ Reading(r, "acknowledge") /\ Acknowledgeable(r)
    /\ Save(r, [Current(r, request[r].command) EXCEPT !.status = "acknowledged",
                            !.version = request[r].rows.latest.version + 1])
    /\ UNCHANGED <<rows, local, asked, mishaps, handed, told>>

Report(r) ==
    /\ Reading(r, "report") /\ Reportable(r)
    /\ Save(r, [Current(r, request[r].command) EXCEPT !.status = request[r].verdict,
                                                      !.version = @ + 1])
    /\ UNCHANGED <<rows, local, asked, mishaps, handed, told>>

AcknowledgeSaved(r) ==
    /\ Saved(r, "acknowledge")
    /\ ApplyEvidence(request[r].client)
    /\ Settle(r, Idle)
    /\ UNCHANGED <<rows, client, queued, signature, asked, mishaps, handed, told>>

\* After a failed import the same content may be exported again.
ReportSaved(r) ==
    LET c == request[r].client
    IN  /\ Saved(r, "report")
        /\ signature' = IF request[r].verdict = "failed"
                        THEN [signature EXCEPT ![c] = Nothing] ELSE signature
        /\ ApplyEvidence(c)
        /\ told' = [told EXCEPT ![request[r].command] = @ \cup {request[r].verdict}]
        /\ Settle(r, Idle)
        /\ UNCHANGED <<rows, client, queued, asked, mishaps, handed>>

\* Refused, already done, or lost.
AcknowledgeEnd(r) ==
    /\ \/ Losing(r, "acknowledge")
       \/ Reading(r, "acknowledge") /\ ~Acknowledgeable(r)
    /\ End(r)
    /\ UNCHANGED <<rows, local, writes, asked, mishaps, handed, told>>

ReportRefused(r) ==
    /\ Reading(r, "report") /\ ~Reportable(r)
    /\ End(r)
    /\ UNCHANGED <<rows, local, writes, asked, mishaps, handed, told>>

\* concurrentTerminalResult: the loser answers what the winner reported.
ReportLost(r) ==
    LET m == request[r].command
        winner == Current(r, m).status
    IN  /\ Losing(r, "report")
        /\ told' = IF winner \in Verdict THEN [told EXCEPT ![m] = @ \cup {winner}]
                   ELSE told
        /\ End(r)
        /\ UNCHANGED <<rows, local, writes, asked, mishaps, handed>>

-----------------------------------------------------------------------------
(***************************************************************************)
(* Clients and processes                                                   *)
(***************************************************************************)

Disconnect(c) ==
    /\ Mishap
    /\ client[c] = "connected"
    /\ client' = [client EXCEPT ![c] = "disconnected"]
    /\ session' = [session EXCEPT ![c] = NoSession]
    /\ UNCHANGED <<rows, queued, signature, writes, request, asked, handed, told>>

\* checkTimeouts: no heartbeat for 60 seconds.
Expire(c) ==
    /\ Mishap
    /\ session[c].status = "active"
    /\ session' = [session EXCEPT ![c].status = "expired"]
    /\ UNCHANGED <<rows, client, queued, signature, writes, request, asked,
                   handed, told>>

\* The process dies and is started again: it knows no client.
Kill(p) ==
    LET here == {c \in Clients : HomeOf[c] = p /\ Known(c)}
    IN  /\ Mishap
        /\ here # {}
        /\ client' = [c \in Clients |-> IF c \in here THEN "gone" ELSE client[c]]
        /\ session' = [c \in Clients |-> IF c \in here THEN NoSession ELSE session[c]]
        /\ queued' = [c \in Clients |-> IF c \in here THEN {} ELSE queued[c]]
        /\ signature' = [c \in Clients |-> IF c \in here THEN Nothing
                                           ELSE signature[c]]
        /\ writes' = [writes EXCEPT ![p] = <<>>]
        /\ request' = [r \in Requests |-> IF request[r].client \in here THEN Idle
                                          ELSE request[r]]
        /\ UNCHANGED <<rows, asked, handed, told>>

-----------------------------------------------------------------------------
Arrival(r) == \E c \in Clients :
    \/ Connect(r, c) \/ PollRequest(r, c)
    \/ \E s \in Contents : ExportRequest(r, c, s)
    \/ \E m \in Commands :
        \/ AcknowledgeRequest(r, c, m)
        \/ \E verdict \in Verdict : ReportRequest(r, c, m, verdict)

Answered(r) ==
    \/ Select(r) \/ Commit(r) \/ Conflict(r) \/ Reconcile(r)
    \/ ExportRefused(r) \/ ExportUnchanged(r) \/ ExportQueue(r)
    \/ ExportSaved(r) \/ ExportLost(r)
    \/ \E m \in Commands : PollDeliver(r, m) \/ PollPass(r, m) \/ PollSaved(r, m)
    \/ Acknowledge(r) \/ AcknowledgeSaved(r) \/ AcknowledgeEnd(r)
    \/ Report(r) \/ ReportSaved(r) \/ ReportRefused(r) \/ ReportLost(r)

Next ==
    \/ \E r \in Requests :
        Arrival(r) \/ Answered(r) \/ RefreshFault(r) \/ SaveFault(r)
    \/ \E c \in Clients : Disconnect(c) \/ Expire(c)
    \/ \E p \in Procs : Kill(p)

Spec == Init /\ [][Next]_vars

\* A request goes on once its await is answered, and a plugin polls again and
\* again while it is connected.
FairSpec ==
    /\ Spec
    /\ \A r \in Requests : WF_vars(Answered(r))
    /\ \A c \in Clients : SF_vars(\E r \in Requests : PollRequest(r, c))

-----------------------------------------------------------------------------
(***************************************************************************)
(* Properties                                                              *)
(***************************************************************************)

\* Every variable keeps its type.
TypeOK ==
    /\ latest \in Evidence /\ filed \in [Commands -> Evidence]
    /\ claims \subseteq Nat
    /\ writes \in [Procs -> Seq(Requests)]
    /\ request \in [Requests -> Request]
    /\ client \in [Clients -> {"new", "connected", "disconnected", "gone"}]
    /\ session \in [Clients -> Session]
    /\ queued \in [Clients -> SUBSET Commands]
    /\ signature \in [Clients -> Contents \cup {Nothing}]
    /\ asked \in Nat /\ mishaps \in Nat
    /\ log \in Seq(Evidence)
    /\ handed \in [Commands -> Nat] /\ told \in [Commands -> SUBSET Verdict]

\* The transition from evidence a to b: a new command, the next stage of the
\* same one, or an export without changes.
Follows(a, b) ==
    /\ b.version = a.version + 1
    /\ \/ IsNew(b) /\ b.status = "sent" /\ ~b.delivered
       \/ /\ ~a.delivered /\ a.status = "sent"
          /\ b = [a EXCEPT !.version = b.version, !.delivered = TRUE]
       \/ /\ a.delivered /\ a.status = "sent"
          /\ b = [a EXCEPT !.version = b.version, !.status = "acknowledged"]
       \/ /\ a.status = "acknowledged" /\ b.status \in Verdict
          /\ b = [a EXCEPT !.version = b.version, !.status = b.status]
       \/ b = [a EXCEPT !.version = b.version, !.content = b.content]

\* No transition is lost or made twice: each one continues the one before,
\* whichever processes make them (saveTransition, "false means another writer
\* won"), and the rows hold the last one.
TransitionsChain ==
    /\ \A i \in DOMAIN log :
        Follows(IF i = 1 THEN NoEvidence ELSE log[i - 1], log[i])
    /\ latest = (IF log = <<>> THEN NoEvidence ELSE log[Len(log)])
    /\ latest.command # 0 => filed[latest.command] = latest

\* No command is in the answers of two polls, of one process or of several
\* (drainCommands).
HandedOverOnce == \A m \in Commands : handed[m] <= 1

\* Every report on a command is answered the verdict the store holds, however
\* many race (concurrentTerminalResult).
VerdictsAgree == \A m \in Commands : told[m] \subseteq {filed[m].status}

\* The evidence of a command that has ended or was superseded keeps its status.
EndedStands ==
    [][\A m \in Commands :
        (filed[m] # NoEvidence /\ (filed[m].status \in Verdict \/ latest.command # m))
            => filed'[m].status = filed[m].status]_vars

\* The project's export does not wait for ever while its client is connected
\* and polls: it is handed over (where the database does not fail).
Waiting ==
    /\ latest # NoEvidence /\ handed[latest.command] = 0
    /\ client[latest.client] = "connected"
ExportIsHandedOver == Waiting ~> ~Waiting

\* An import is verified as the execution its command exported:
\* docs/00-project-control/STUDIO-1C_IMPORT_ACKNOWLEDGEMENT.md:61 asks a result
\* for "the exact durable generation execution ID from the queued export".
VerifiedIsWhatWasSent ==
    latest.status = "completed" => latest.content = log[latest.command].content
=============================================================================
