----------------------------- MODULE OrderedStore -----------------------------
(***************************************************************************)
(* What the storage layer promises to its callers, whatever happens inside *)
(* a process: the writes a process accepts take effect one by one in the   *)
(* order it accepted them, each one entirely or not at all and only if its *)
(* preconditions hold at that moment; and a process shows only rows that   *)
(* the store holds or has held, or compatibility writes of its own.        *)
(***************************************************************************)
EXTENDS Naturals, Sequences

CONSTANTS
    Procs,      \* server processes
    Keys,       \* rows a process may read and write
    Absent,     \* no row
    Original    \* the contents a row had before any call

VARIABLES
    rows,       \* rows[k]: the call whose value the store holds
    past,       \* past[k]: every value rows[k] has had
    made,       \* the writes accepted so far, in order
    pending,    \* pending[p]: writes of p that may still take effect
    view        \* view[p]: what a read on process p answers

vars == <<rows, past, made, pending, view>>

\* put and drop are unconditional; add requires the row to be absent, take
\* requires it to exist.
Change == {"put", "add", "drop", "take"}
Changes == UNION {[K -> Change] : K \in (SUBSET Keys) \ {{}}}

\* The value call n leaves in a row it changes.
Written(n, change) == IF change \in {"put", "add"} THEN n ELSE Absent

Admissible(changes, r) ==
    \A k \in DOMAIN changes :
        /\ changes[k] = "add" => r[k] = Absent
        /\ changes[k] = "take" => r[k] # Absent

\* The rows r once call n has changed them.
Applied(n, changes, r) ==
    [k \in Keys |-> IF k \in DOMAIN changes THEN Written(n, changes[k]) ELSE r[k]]

Init ==
    /\ rows \in [Keys -> {Absent, Original}]
    /\ past = [k \in Keys |-> {rows[k]}]
    /\ made = <<>>
    /\ pending = [p \in Procs |-> <<>>]
    /\ view = [p \in Procs |-> [k \in Keys |-> Absent]]

\* p accepts a write; a local one shows at once, before it is stored.
Accept(p) ==
    \E changes \in Changes, local \in BOOLEAN :
        LET n == Len(made) + 1
        IN  /\ made' = Append(made, [changes |-> changes, local |-> local])
            /\ pending' = [pending EXCEPT ![p] = Append(@, n)]
            /\ view' = IF local
                       THEN [view EXCEPT ![p] = Applied(n, changes, @)]
                       ELSE view
            /\ UNCHANGED <<rows, past>>

TakeEffect(p) ==
    /\ pending[p] # <<>>
    /\ LET n == Head(pending[p])
           changes == made[n].changes
       IN  /\ Admissible(changes, rows)
           /\ rows' = Applied(n, changes, rows)
    /\ past' = [k \in Keys |-> past[k] \cup {rows'[k]}]
    /\ pending' = [pending EXCEPT ![p] = Tail(@)]
    /\ UNCHANGED <<made, view>>

Reject(p) ==
    /\ pending[p] # <<>>
    /\ pending' = [pending EXCEPT ![p] = Tail(@)]
    /\ UNCHANGED <<rows, past, made, view>>

\* Some of what p shows is replaced by what the store has held.
See(p) ==
    /\ \E seen \in [Keys -> UNION {past[k] : k \in Keys}] :
        \E K \in SUBSET Keys :
            /\ \A k \in K : seen[k] \in past[k]
            /\ view' = [view EXCEPT ![p] =
                            [k \in Keys |-> IF k \in K THEN seen[k] ELSE @[k]]]
    /\ UNCHANGED <<rows, past, made, pending>>

\* p ends: what it had not stored is lost.
Restart(p) ==
    /\ pending' = [pending EXCEPT ![p] = <<>>]
    /\ view' = [view EXCEPT ![p] = [k \in Keys |-> Absent]]
    /\ UNCHANGED <<rows, past, made>>

Next == \E p \in Procs :
    Accept(p) \/ TakeEffect(p) \/ Reject(p) \/ See(p) \/ Restart(p)

Spec == Init /\ [][Next]_vars
=============================================================================
