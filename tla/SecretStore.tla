---------------------------- MODULE SecretStore ----------------------------
(***************************************************************************)
(* The secret store: one key file and one encrypted file per record, under  *)
(* the state root.  It takes no lock.  Every call first runs ensureLayout,  *)
(* which creates the key on first use and refuses to replace a key that is  *)
(* missing while records exist.  os.WriteFile truncates the file and then   *)
(* writes it, so both files pass through a torn state, in which a kill can  *)
(* leave them.                                                             *)
(*                                                                         *)
(* A name stands for a scope and a name in it.  A record is what it was     *)
(* encrypted with and what is in it; it can be opened with that key only.   *)
(* Resolve is a series of Gets, and List reads file names alone.            *)
(***************************************************************************)
EXTENDS Integers

CONSTANTS
    Callers,      \* goroutines that use the store
    Names,        \* records
    MaxCalls,     \* bound: calls started; the number names a call
    MaxCrashes,   \* bound: gateway processes killed
    MaxLosses     \* bound: times the key file is lost

ASSUME SecretBoundsAssumption ==
    MaxCalls \in Nat /\ MaxCrashes \in Nat /\ MaxLosses \in Nat

VARIABLES
    key,          \* master.key: Absent, Torn, or the call that generated it
    records,      \* <scope>/<name>.json
    saved,        \* the copy of a lost key file that can be put back
    pc, call,     \* the step each caller is about to take, and its locals
    settled,      \* history: the calls begun when the key was settled
    started, crashes, losses

counts == <<started, crashes, losses>>
vars == <<key, records, saved, pc, call, settled, counts>>

Absent == 0
Torn == -1

CallIds == 1..MaxCalls

NoRecord == [key |-> Absent, value |-> 0]
TornRecord == [key |-> Torn, value |-> 0]

\* The key a record was encrypted with and its value, the Set that stored it, or
\* the state of its file.
WholeRecord == [key : CallIds, value : CallIds]
Record == WholeRecord \cup {NoRecord, TornRecord}

Whole(n) == records[n].key \in CallIds

Steps == {"idle", "stat", "scan", "create", "fill", "read", "key", "open",
          "write", "unlinked", "remove"}

Call == [op : {"set", "get", "delete", "none"}, id : CallIds \cup {0},
         name : Names \cup {0}, held : Record]

NoCall == [op |-> "none", id |-> 0, name |-> 0, held |-> NoRecord]

-----------------------------------------------------------------------------
Goto(c, step) == pc' = [pc EXCEPT ![c] = step]

Return(c) == Goto(c, "idle") /\ call' = [call EXCEPT ![c] = NoCall]

Hold(c, r) == call' = [call EXCEPT ![c].held = r]

Idle == \A c \in Callers : pc[c] = "idle"

\* There is a key and no call is about to make another: every call that found the
\* key file missing has ended.  Two first uses may overlap, and the second then
\* replaces the key of the first.
Settled ==
    /\ key \in CallIds
    /\ \A c \in Callers : pc[c] \notin {"scan", "create", "fill"}

Begin(c) ==
    /\ pc[c] = "idle"
    /\ started < MaxCalls
    /\ started' = started + 1
    /\ settled' = IF Settled THEN settled \cup {started + 1} ELSE settled
    /\ \E op \in {"set", "get", "delete"}, n \in Names :
          call' = [call EXCEPT ![c] =
                      [op |-> op, id |-> started + 1, name |-> n, held |-> NoRecord]]
    /\ Goto(c, "stat")
    /\ UNCHANGED <<key, records, saved, crashes, losses>>

\* The first step of a call's own work.
AfterLayout(op) ==
    CASE op = "set" -> "key" [] op = "get" -> "read" [] OTHER -> "remove"

\* ensureLayout: a key file, whole or torn, is left alone.
Stat(c) ==
    /\ pc[c] = "stat"
    /\ Goto(c, IF key # Absent THEN AfterLayout(call[c].op) ELSE "scan")
    /\ UNCHANGED <<key, records, saved, call, settled, counts>>

\* Mutant: the records are not looked for.
ScanSkipped(c) ==
    /\ pc[c] = "scan"
    /\ Goto(c, "create")
    /\ UNCHANGED <<key, records, saved, call, settled, counts>>

\* hasEncryptedRecords: no new key when there are records.
Scan(c) ==
    /\ pc[c] = "scan"
    /\ IF \A n \in Names : records[n] = NoRecord
       THEN Goto(c, "create") /\ UNCHANGED call
       ELSE Return(c)
    /\ UNCHANGED <<key, records, saved, settled, counts>>

CreateKey(c) ==
    /\ pc[c] = "create"
    /\ key' = Torn
    /\ Goto(c, "fill")
    /\ UNCHANGED <<records, saved, call, settled, counts>>

FillKey(c) ==
    /\ pc[c] = "fill"
    /\ key' = call[c].id
    /\ Goto(c, AfterLayout(call[c].op))
    /\ UNCHANGED <<records, saved, call, settled, counts>>

\* Get: the record file, which may be missing or not decode.
ReadRecord(c) ==
    LET r == records[call[c].name]
    IN /\ pc[c] = "read"
       /\ IF r.key \in CallIds
          THEN Goto(c, "key") /\ Hold(c, r)
          ELSE Return(c)
       /\ UNCHANGED <<key, records, saved, settled, counts>>

\* key(): Set goes on to encrypt with it, Get opens the record with it and
\* answers.  A torn key file has the wrong length.
ReadKey(c) ==
    /\ pc[c] = "key"
    /\ IF call[c].op = "set" /\ key \in CallIds
       THEN /\ Goto(c, "open")
            /\ Hold(c, [key |-> key, value |-> call[c].id])
       ELSE Return(c)
    /\ UNCHANGED <<key, records, saved, settled, counts>>

\* The two halves of Set's os.WriteFile.  When another write of the record fell
\* between them and its content was longer, its tail stays and the file does not
\* decode.
OpenRecord(c) ==
    /\ pc[c] = "open"
    /\ records' = [records EXCEPT ![call[c].name] = TornRecord]
    /\ Goto(c, "write")
    /\ UNCHANGED <<key, saved, call, settled, counts>>

\* Mutant: the record is encrypted with a key of its own.
WriteOwnKey(c) ==
    /\ pc[c] = "write"
    /\ records' = [records EXCEPT ![call[c].name] = [call[c].held EXCEPT !.key = call[c].id]]
    /\ Return(c)
    /\ UNCHANGED <<key, saved, settled, counts>>

WriteRecord(c) ==
    LET n == call[c].name
    IN /\ pc[c] = "write"
       /\ \/ records' = [records EXCEPT ![n] = call[c].held]
          \/ Whole(n) /\ records' = [records EXCEPT ![n] = TornRecord]
       /\ Return(c)
       /\ UNCHANGED <<key, saved, settled, counts>>

\* The file a writer had opened was removed: what it writes is lost.
WriteUnlinked(c) ==
    /\ pc[c] = "unlinked"
    /\ Return(c)
    /\ UNCHANGED <<key, records, saved, settled, counts>>

\* os.Remove; a writer that has the file open keeps it, unlinked.
RemoveRecord(c) ==
    LET n == call[c].name
    IN /\ pc[c] = "remove"
       /\ records' = [records EXCEPT ![n] = NoRecord]
       /\ pc' = [d \in Callers |->
                    IF d = c THEN "idle"
                    ELSE IF pc[d] = "write" /\ call[d].name = n THEN "unlinked"
                    ELSE pc[d]]
       /\ call' = [call EXCEPT ![c] = NoCall]
       /\ UNCHANGED <<key, saved, settled, counts>>

\* The gateway is killed between two file operations.
Crash ==
    /\ crashes < MaxCrashes
    /\ ~Idle
    /\ crashes' = crashes + 1
    /\ pc' = [c \in Callers |-> "idle"]
    /\ call' = [c \in Callers |-> NoCall]
    /\ UNCHANGED <<key, records, saved, settled, started, losses>>

\* The key file is missing, as after a copy of the state that left it out.
LoseKey ==
    /\ losses < MaxLosses
    /\ Idle
    /\ key # Absent
    /\ key' = Absent
    /\ saved' = key
    /\ losses' = losses + 1
    /\ UNCHANGED <<records, pc, call, settled, started, crashes>>

\* It is put back, unless a new one was made in an empty store.
RestoreKey ==
    /\ Idle
    /\ key = Absent /\ saved # Absent
    /\ key' = saved
    /\ UNCHANGED <<records, saved, pc, call, settled, counts>>

Init ==
    /\ key = Absent /\ saved = Absent
    /\ records = [n \in Names |-> NoRecord]
    /\ settled = {}
    /\ pc = [c \in Callers |-> "idle"]
    /\ call = [c \in Callers |-> NoCall]
    /\ started = 0 /\ crashes = 0 /\ losses = 0

Work(c) ==
    \/ Stat(c) \/ Scan(c) \/ CreateKey(c) \/ FillKey(c) \/ ReadRecord(c)
    \/ ReadKey(c) \/ OpenRecord(c) \/ WriteRecord(c) \/ WriteUnlinked(c)
    \/ RemoveRecord(c)

Next ==
    \/ \E c \in Callers : Begin(c) \/ Work(c)
    \/ Crash \/ LoseKey \/ RestoreKey

Spec == Init /\ [][Next]_vars

-----------------------------------------------------------------------------
(* Properties *)

TypeOK ==
    /\ {key, saved} \subseteq CallIds \cup {Absent, Torn}
    /\ records \in [Names -> Record]
    /\ pc \in [Callers -> Steps]
    /\ call \in [Callers -> Call]
    /\ started \in 0..MaxCalls
    /\ settled \subseteq 1..started
    /\ crashes \in 0..MaxCrashes
    /\ losses \in 0..MaxLosses

\* A secret stored by a Set that began with the key settled.  What is stored during
\* overlapping first uses can be lost with the key it was encrypted with.
Kept(n) == Whole(n) /\ records[n].value \in settled

\* One key opens all such secrets, and it is the one in place unless the key file
\* is missing and can be put back: no sequence of calls, kills and losses of the
\* key makes the store generate a second key over them (ensureLayout).
SecretsReadable ==
    \A n \in Names : Kept(n) =>
        /\ key = records[n].key \/ (key = Absent /\ saved = records[n].key)
        /\ \A m \in Names : Kept(m) => records[m].key = records[n].key

\* A Get, whenever it began, that found such a secret opens it: the key it reads
\* afterwards is the one the record was encrypted with, although the record may
\* meanwhile be replaced or deleted and other calls find the key missing.
FoundRecordOpens ==
    [][\A c \in Callers :
          /\ pc[c] = "key" /\ call[c].op = "get" /\ call[c].held.value \in settled
          /\ pc'[c] = "idle" /\ crashes' = crashes
          => key = call[c].held.key]_pc
=============================================================================
