----------------------------- MODULE ArtifactStore -----------------------------
(***************************************************************************)
(* pipeline/v2/ArtifactStore with those that write through it, for one     *)
(* project: GenerationArtifactRecorder, which stores what a generation     *)
(* made and then the marker that publishes it; RepairEngine, which reads a *)
(* deliverable package and stores another, derived from it, under a name   *)
(* of its own; and Studio, which edits artifacts of what it was sent.      *)
(*                                                                         *)
(* Each of them has an ArtifactStore of its own over the same storage.     *)
(* Packages are read from the storage; an artifact that another one is     *)
(* bound to, from the cache of the instance that stores it, where it is    *)
(* what the writer holds: the check of a binding's hash never refuses.     *)
(*                                                                         *)
(* Content is who made it, whether it was edited since, and the runtime    *)
(* mode it declares: equal contents are those of equal hashes.  The stages *)
(* stored, carried and bound as GAME_DESIGN are left out, and so are the   *)
(* reviews of artifacts, which no caller gives.                            *)
(***************************************************************************)
EXTENDS Naturals, Sequences, FiniteSets

CONSTANTS
    Generations,  \* executions
    Repairs,      \* calls of RepairEngine.run, that one after another write
    RuntimeModes, \* worldRuntimeMode: what generations are asked for
    MaxEdits,     \* bound: edits by Studio
    NoPackage

ASSUME ArtifactConstantsOK ==
    /\ Generations \cap Repairs = {} /\ MaxEdits \in Nat
    /\ RuntimeModes \subseteq {"lua-owned", "materialized-world"}

VARIABLES
    artifacts,  \* pipeline_artifacts: an id |-> the artifact
    markers,    \* generation_package_commits: a package |-> what it names
    writer,     \* what each generation and repair is doing
    attempts,   \* session.history: the packages each repair that ended was
                \* asked to repair, in order
    active,     \* latestExecutionByProject: the package last exported
    edits       \* how many edits there were

artifactVars == <<artifacts, markers, writer, attempts, active, edits>>

Writers == Generations \cup Repairs
RecordOrder == <<"GAME_DESIGN", "LUA_GENERATION", "WORLD_MODEL", "GAME_DNA",
                 "SECURITY_REVIEW", "VALIDATION">>
Stages == {RecordOrder[i] : i \in DOMAIN RecordOrder}
\* The stages a stage is derived from, and bound to when they are stored.
Upstream ==
    [s \in Stages |->
        CASE s = "WORLD_MODEL" -> {"GAME_DESIGN"}
          [] s = "GAME_DNA" -> {"WORLD_MODEL"}
          [] s = "SECURITY_REVIEW" -> {"LUA_GENERATION"}
          [] s = "VALIDATION" -> {"LUA_GENERATION", "WORLD_MODEL"}
          [] OTHER -> {}]
ModeCarriers == {"WORLD_MODEL", "VALIDATION"}

\* What w makes of stage s in mode m.
Made(w, s, m) ==
    [stage |-> s,
     content |-> [of |-> w, edited |-> "no",
                  mode |-> IF s \in ModeCarriers THEN m ELSE "none"]]

NotWriting == [state |-> "idle", package |-> NoPackage, parent |-> NoPackage,
               todo |-> <<>>, held |-> <<>>, replaced |-> {}, publishes |-> "no"]

ArtifactInit ==
    /\ artifacts = <<>> /\ markers = <<>>
    /\ writer = [w \in Writers |-> NotWriting]
    /\ attempts = <<>> /\ active = NoPackage /\ edits = 0

-----------------------------------------------------------------------------
(***************************************************************************)
(* Reading a package                                                       *)
(***************************************************************************)

\* getByPipeline
Stored(p) == {id \in DOMAIN artifacts : artifacts[id].package = p}
StageOf(id) == artifacts[id].stage
ContentOf(id) == artifacts[id].content

\* Mutant: what the marker names is not compared with what is stored.
MatchesByName(p, ref) == ref.id \in Stored(p)
Matches(p, ref) == ref.id \in Stored(p) /\ ContentOf(ref.id) = ref.content

\* getDeliverableArtifacts
Deliverable(p) ==
    IF p \in DOMAIN markers
    THEN IF \A ref \in markers[p] : Matches(p, ref)
         THEN {ref.id : ref \in markers[p]} ELSE {}
    ELSE IF \E id \in Stored(p) : StageOf(id) \in ModeCarriers
                                /\ ContentOf(id).mode # "none"
         THEN {} ELSE Stored(p)

-----------------------------------------------------------------------------
(***************************************************************************)
(* Writing one: GenerationArtifactRecorder.record and what it shares with  *)
(* RepairEngine.persistRepairedExecution                                   *)
(***************************************************************************)

\* A generation that failed validation stores its report and nothing else.
Record(g, mode, passed) ==
    /\ writer[g].state = "idle"
    /\ writer' = [writer EXCEPT ![g] =
         [@ EXCEPT !.state = "writing", !.package = <<g>>,
                   !.todo = IF passed
                            THEN [i \in DOMAIN RecordOrder |-> Made(g, RecordOrder[i], mode)]
                            ELSE <<Made(g, "VALIDATION", mode)>>,
                   !.publishes = IF passed THEN "yes" ELSE "no"]]
    /\ UNCHANGED <<artifacts, markers, attempts, active, edits>>

NextId(w) == <<w, Cardinality({id \in DOMAIN artifacts : id[1] = w})>>
\* What an artifact of stage s is bound to: what w holds upstream, and for the
\* Lua of a repair the Lua it replaces.
Binds(w, s) ==
    {writer[w].held[u] : u \in Upstream[s] \cap DOMAIN writer[w].held}
    \cup (IF s = "LUA_GENERATION" THEN writer[w].replaced ELSE {})

Store(w) ==
    /\ writer[w].state = "writing" /\ writer[w].todo # <<>>
    /\ LET item == Head(writer[w].todo)
           id == NextId(w)
           held == writer[w].held
       IN  /\ artifacts' = [i \in DOMAIN artifacts \cup {id} |->
                IF i = id THEN [package |-> writer[w].package, stage |-> item.stage,
                                content |-> item.content,
                                binds |-> Binds(w, item.stage)]
                ELSE artifacts[i]]
           /\ writer' = [writer EXCEPT ![w] =
                [@ EXCEPT !.todo = Tail(writer[w].todo),
                          !.held = [s \in DOMAIN held \cup {item.stage} |->
                             IF s = item.stage THEN [id |-> id, content |-> item.content]
                             ELSE held[s]]]]
    /\ UNCHANGED <<markers, attempts, active, edits>>

\* commitPackage: the marker of the package of w names all that w holds.
CommitPackage(w) ==
    markers' = [p \in DOMAIN markers \cup {writer[w].package} |->
                  IF p = writer[w].package
                  THEN {writer[w].held[s] : s \in DOMAIN writer[w].held}
                  ELSE markers[p]]

AllStored(w) == writer[w].state = "writing" /\ writer[w].todo = <<>>

\* The marker is the last write of those that publish.  A repair is then part
\* of the session's history, also when it does not publish; a generation that
\* does not has failed.
Publish(w) ==
    /\ AllStored(w)
    /\ IF writer[w].publishes = "yes" THEN CommitPackage(w) ELSE UNCHANGED markers
    /\ writer' = [writer EXCEPT ![w].state =
         IF w \in Repairs \/ writer[w].publishes = "yes" THEN "done" ELSE "failed"]
    /\ attempts' = IF w \in Repairs THEN Append(attempts, writer[w].parent) ELSE attempts
    /\ UNCHANGED <<artifacts, active, edits>>

\* A write is rejected, and what was to follow is not done: also the one after
\* the marker, that completes the execution or saves the session.
Fail(w) ==
    /\ writer[w].state \in {"asking", "writing"}
    /\ \/ UNCHANGED markers
       \/ AllStored(w) /\ writer[w].publishes = "yes" /\ CommitPackage(w)
    /\ writer' = [writer EXCEPT ![w].state = "failed"]
    /\ UNCHANGED <<artifacts, attempts, active, edits>>

-----------------------------------------------------------------------------
(***************************************************************************)
(* RepairEngine.run                                                        *)
(***************************************************************************)

Repairing == {r \in Repairs : writer[r].state \in {"asking", "writing"}}
HasLua(p) == \E id \in Stored(p) : StageOf(id) = "LUA_GENERATION"

\* The Lua of any execution may be repaired, one at a time, and the model is
\* asked for another.
Ask(r, p) ==
    /\ writer[r].state = "idle" /\ Repairing = {} /\ HasLua(p)
    /\ writer' = [writer EXCEPT ![r].state = "asking", ![r].parent = p]
    /\ UNCHANGED <<artifacts, markers, attempts, active, edits>>

\* It has no repair to offer.
NothingToRepair(r) ==
    /\ writer[r].state = "asking"
    /\ writer' = [writer EXCEPT ![r].state = "failed"]
    /\ attempts' = Append(attempts, writer[r].parent)
    /\ UNCHANGED <<artifacts, markers, active, edits>>

\* The stages a repair makes again or leaves out.
Remade == {"LUA_GENERATION", "SECURITY_REVIEW", "VALIDATION", "GAME_DNA"}

Attempts(p) == Cardinality({i \in DOMAIN attempts : attempts[i] = p})
\* The artifact of id, to be stored again.
Carried(id) == [stage |-> StageOf(id), content |-> ContentOf(id)]

\* The ids of S in some order: which of them come first makes no difference.
InSomeOrder(S) ==
    CHOOSE f \in [1..Cardinality(S) -> S] : \A id \in S : \E i \in DOMAIN f : f[i] = id

\* What is deliverable of the parent by now is taken, its designs first.
Take(r) ==
    LET parent == writer[r].parent
        taken == Deliverable(parent)
        carried == {id \in taken : StageOf(id) \notin Remade}
        designs == {id \in carried : StageOf(id) = "GAME_DESIGN"}
        worlds == {id \in carried : StageOf(id) = "WORLD_MODEL"}
        copies == InSomeOrder(designs) \o InSomeOrder(carried \ designs)
        luas == {id \in taken : StageOf(id) = "LUA_GENERATION"}
    IN  /\ writer[r].state = "asking"
        /\ \E replaced \in SUBSET {[id |-> id, content |-> ContentOf(id)] : id \in luas},
              fingerprints \in {<<>>, <<Made(r, "GAME_DNA", "none")>>} :
             /\ Cardinality(replaced) = (IF luas = {} THEN 0 ELSE 1)
             /\ fingerprints # <<>> => worlds # {}
             \* An edited world may have no DNA that can be read.
             /\ fingerprints = <<>> => \A id \in worlds : ContentOf(id).edited = "yes"
             /\ writer' = [writer EXCEPT ![r] =
               [@ EXCEPT !.state = "writing",
                         !.package = Append(parent, Attempts(parent) + 1),
                         !.todo = [i \in DOMAIN copies |-> Carried(copies[i])]
                                  \o <<Made(r, "LUA_GENERATION", "none"),
                                       Made(r, "SECURITY_REVIEW", "none")>>
                                  \o fingerprints,
                         !.replaced = replaced,
                         \* No world, or one Lua does not own: not published.
                         !.publishes =
                            IF /\ worlds # {}
                               /\ \A id \in worlds : ContentOf(id).mode # "materialized-world"
                            THEN "yes" ELSE "no"]]
        /\ UNCHANGED <<artifacts, markers, attempts, active, edits>>

-----------------------------------------------------------------------------
(***************************************************************************)
(* Studio                                                                  *)
(***************************************************************************)

\* The packages that routes export: the latest generation that completed, where
\* which is the latest is left open, and those in the session's history.
Offered ==
    {writer[w].package : w \in {w \in Writers : writer[w].state = "done"}}
    \cup {attempts[i] : i \in DOMAIN attempts}

Export(p) ==
    /\ p \in Offered /\ Deliverable(p) # {}
    /\ active # p /\ active' = p
    /\ UNCHANGED <<artifacts, markers, writer, attempts, edits>>

\* processSyncRequest: any content may be put in, and any mode, also the
\* content that was there before.
Edit(id, edited, mode) ==
    /\ edits < MaxEdits /\ edits' = edits + 1
    /\ id \in Stored(active)
    /\ LET old == ContentOf(id)
           new == [old EXCEPT !.edited = edited, !.mode = mode]
       IN  /\ new # old
           /\ edited = "no" => \E m \in RuntimeModes : new = Made(old.of, StageOf(id), m).content
           /\ StageOf(id) \notin ModeCarriers => mode = "none"
           /\ artifacts' = [artifacts EXCEPT ![id].content = new]
    /\ UNCHANGED <<markers, writer, attempts, active>>

\* The server is restarted: what was under way is not taken up.
Restart ==
    /\ active # NoPackage \/ \E w \in Writers : writer[w].state \in {"asking", "writing"}
    /\ active' = NoPackage
    /\ writer' = [w \in Writers |->
         IF writer[w].state \in {"asking", "writing"}
         THEN [writer[w] EXCEPT !.state = "failed"] ELSE writer[w]]
    /\ UNCHANGED <<artifacts, markers, attempts, edits>>

Packages == {artifacts[id].package : id \in DOMAIN artifacts}

ArtifactNext ==
    \/ \E g \in Generations, m \in RuntimeModes, passed \in BOOLEAN : Record(g, m, passed)
    \/ \E w \in Writers : Store(w) \/ Publish(w) \/ Fail(w)
    \/ \E r \in Repairs : NothingToRepair(r) \/ Take(r) \/ \E p \in Packages : Ask(r, p)
    \/ \E p \in Packages : Export(p)
    \/ \E id \in DOMAIN artifacts, edited \in {"yes", "no"},
          mode \in {"none", "lua-owned", "materialized-world"} : Edit(id, edited, mode)
    \/ Restart

ArtifactSpec == ArtifactInit /\ [][ArtifactNext]_artifactVars

-----------------------------------------------------------------------------
(***************************************************************************)
(* Properties                                                              *)
(***************************************************************************)

ArtifactTypeOK ==
    /\ \A id \in DOMAIN artifacts :
        /\ id[1] \in Writers /\ id[2] \in Nat
        /\ artifacts[id].stage \in Stages /\ artifacts[id].content.of \in Writers
        /\ \A ref \in artifacts[id].binds : ref.id \in DOMAIN artifacts
    /\ \A p \in DOMAIN markers : \A ref \in markers[p] : ref.id \in Stored(p)
    /\ active \in Packages \cup {NoPackage}

\* The artifacts that stage s of the delivered ids D is found in.
In(D, s) == {id \in D : StageOf(id) = s}
\* Whether id is bound, for each stage it is derived from, to the content that
\* is delivered beside it.
BoundWithin(D, id) ==
    \A u \in Upstream[StageOf(id)] : \E up \in In(D, u) :
        [id |-> up, content |-> ContentOf(up)] \in artifacts[id].binds
\* Made by the writer of the package, not carried there.
MadeHere(id) == ContentOf(id).of = id[1]

\* A package that is published is delivered whole or not at all, whatever was
\* edited, retried or cut short: one world and one Lua, every stage once,
\* everything derived for it bound to the contents beside it; of a generation
\* with all its stages, the passing validation too, and of a repair with Lua
\* that replaces the Lua of its parent and a world that Lua may own.
DeliveredIsCoherent ==
    \A p \in DOMAIN markers :
        LET D == Deliverable(p) IN
        D # {} =>
            /\ \A id, other \in D : StageOf(id) = StageOf(other) => id = other
            /\ In(D, "WORLD_MODEL") # {} /\ In(D, "LUA_GENERATION") # {}
            /\ \A id \in D : MadeHere(id) => BoundWithin(D, id)
            /\ IF Len(p) = 1
               THEN {StageOf(id) : id \in D} = Stages
               ELSE /\ In(D, "VALIDATION") = {}
                    /\ \A id \in D : StageOf(id) \in Remade => MadeHere(id)
                    /\ \A id \in In(D, "WORLD_MODEL") :
                        ContentOf(id).mode # "materialized-world"
                    /\ \A id \in In(D, "LUA_GENERATION") : \E ref \in artifacts[id].binds :
                        artifacts[ref.id].package = SubSeq(p, 1, Len(p) - 1)
=============================================================================
