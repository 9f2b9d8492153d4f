----------------------------- MODULE AccountLife -----------------------------
(***************************************************************************)
(* What an existing account promises its callers, without requests that    *)
(* are between two calls: every change of its settings is one atomic step  *)
(* of one caller.  A tag update stays in one namespace, a versioned write  *)
(* replaces the version before it, and an account leaves its deletion wait *)
(* by a restore or by a versioned write of its status.                     *)
(*                                                                         *)
(* Nothing is lost here: there is no action that writes an older row back. *)
(* The limit on tags is not promised: an update is counted against a read  *)
(* that may lag, and may take the row over it.                             *)
(***************************************************************************)
EXTENDS Integers

CONSTANTS
    Tags,         \* the tags clients use, as records [owner, name]
    Status,       \* the statuses of an account
    NoTime        \* the time of a status that was never set, or was restored

VARIABLES
    row,          \* the settings: status, changedAt, tags and version
    now           \* the clock

vars == <<row, now>>

Init ==
    /\ row = [status |-> "active", changedAt |-> NoTime,
              tags |-> {}, version |-> 0]
    /\ now = 0

Tick ==
    /\ now' = now + 1
    /\ UNCHANGED row

\* A versioned write that leaves the status, or sets it and stamps it.
Edit ==
    /\ row' = [row EXCEPT !.version = @ + 1]
    /\ UNCHANGED now

SetStatus(st) ==
    /\ row' = [row EXCEPT !.version = @ + 1, !.status = st, !.changedAt = now]
    /\ UNCHANGED now

(* Tags that all belong to one owner are added, or removed.                *)
WriteTags(owner, tags) ==
    /\ \A t \in (tags \ row.tags) \cup (row.tags \ tags) : t.owner = owner
    /\ tags \subseteq row.tags \/ row.tags \subseteq tags
    /\ row' = [row EXCEPT !.tags = tags, !.version = @ + 1]
    /\ UNCHANGED now

Delete ==
    /\ row' = [row EXCEPT !.status = "pending_deletion", !.changedAt = now]
    /\ UNCHANGED now

Restore ==
    /\ row.status = "pending_deletion"
    /\ row' = [row EXCEPT !.status = "active", !.changedAt = NoTime]
    /\ UNCHANGED now

Next ==
    \/ Tick
    \/ Edit
    \/ \E st \in Status : SetStatus(st)
    \/ \E owner \in {t.owner : t \in Tags}, tags \in SUBSET Tags :
          WriteTags(owner, tags)
    \/ Delete
    \/ Restore

Spec == Init /\ [][Next]_vars
=============================================================================
