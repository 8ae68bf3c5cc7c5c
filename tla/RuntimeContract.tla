-------------------------- MODULE RuntimeContract --------------------------
(***************************************************************************)
(* What the gateway promises the operator of one runtime who sends one      *)
(* request at a time: the declared content of the runtime changes only by   *)
(* requests, a request changes at most the one skill or plugin it names,    *)
(* and a request about the whole runtime (a checkpoint or a reload) changes *)
(* nothing, whether it succeeds, fails, or is cut short by a crash.         *)
(***************************************************************************)
CONSTANTS
    Items,     \* what can be declared
    Values,    \* digests, and the value of an absent item
    Absent,    \* the value of an absent item
    Idle,      \* no request is running
    Whole      \* the request is about the whole runtime

VARIABLES
    declared,  \* the declared version of every item
    current    \* the item of the running request, Whole, or Idle

contractVars == <<declared, current>>

Init ==
    /\ declared = [i \in Items |-> Absent]
    /\ current = Idle

Start(subject) ==
    /\ current = Idle
    /\ current' = subject
    /\ UNCHANGED declared

\* An edit, or the rollback of one.
Edit(i, v) ==
    /\ current = i
    /\ declared' = [declared EXCEPT ![i] = v]
    /\ UNCHANGED current

\* A request may end in the same step as its last edit.
End ==
    /\ current # Idle
    /\ current' = Idle
    /\ \/ UNCHANGED declared
       \/ \E i \in Items, v \in Values :
             current = i /\ declared' = [declared EXCEPT ![i] = v]

Next ==
    \/ \E subject \in Items \cup {Whole} : Start(subject)
    \/ \E i \in Items, v \in Values : Edit(i, v)
    \/ End

Spec == Init /\ [][Next]_contractVars
=============================================================================
