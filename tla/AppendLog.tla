----------------------------- MODULE AppendLog -----------------------------
(***************************************************************************)
(* What the deployment history promises its writers: a record is added once *)
(* and as a whole, records are never lost, changed or reordered, a writer   *)
(* told that its record is in the history finds it there, and a writer told *)
(* of an error finds that it is not.  Only a writer killed on the way does  *)
(* not know.                                                               *)
(***************************************************************************)
EXTENDS Sequences, SequencesExt

CONSTANT Records     \* what can be appended

VARIABLES
    entries,         \* the history
    pending,         \* records whose writers wait for an answer
    confirmed        \* records reported as appended

logVars == <<entries, pending, confirmed>>

Init ==
    /\ entries = <<>>
    /\ pending = {}
    /\ confirmed = {}

In(r) == \E k \in DOMAIN entries : entries[k] = r

Submit(r) ==
    /\ r \notin pending
    /\ ~In(r)
    /\ pending' = pending \cup {r}
    /\ UNCHANGED <<entries, confirmed>>

Commit(r) ==
    /\ r \in pending
    /\ ~In(r)
    /\ entries' = Append(entries, r)
    /\ UNCHANGED <<pending, confirmed>>

Confirm(r) ==
    /\ r \in pending
    /\ In(r)
    /\ pending' = pending \ {r}
    /\ confirmed' = confirmed \cup {r}
    /\ UNCHANGED entries

Refuse(r) ==
    /\ r \in pending
    /\ ~In(r)
    /\ pending' = pending \ {r}
    /\ UNCHANGED <<entries, confirmed>>

Kill ==
    /\ pending' = {}
    /\ UNCHANGED <<entries, confirmed>>

Next ==
    \/ \E r \in Records : Submit(r) \/ Commit(r) \/ Confirm(r) \/ Refuse(r)
    \/ Kill

Spec == Init /\ [][Next]_logVars
=============================================================================
