------------------------- MODULE SecretStoreProofs -------------------------
(***************************************************************************)
(* No call, kill or loss of the key file makes the secret store generate a  *)
(* second key over secrets that were stored by a Set that began with the    *)
(* key settled, and a Get that found such a secret opens it.  Any number of *)
(* calls may overlap, the first uses of the store included.                 *)
(*                                                                         *)
(* A settled key stays while any call runs, since nobody finds it missing   *)
(* (SettledStays): so a settled Set stores what it encrypted with the key   *)
(* in place.  When the key file is lost, the stored secret itself keeps all *)
(* calls from going past the scan (AwayStays), until the key is put back.   *)
(***************************************************************************)
EXTENDS SecretStore, TLAPS

\* The key file is missing and nobody is past the scan.
Away ==
    /\ key = Absent
    /\ \A c \in Callers : pc[c] \in {"idle", "stat", "scan"}

\* What a call that is not at rest is about.
Named(c) ==
    pc[c] # "idle" => /\ call[c].id \in 1..started
                      /\ call[c].name \in Names
                      /\ call[c].op \in {"set", "get", "delete"}

\* What a call holds: the record a Get found, or the one a Set writes.
Holding(c) ==
    /\ pc[c] \in {"open", "write", "unlinked"} =>
           call[c].held \in WholeRecord /\ call[c].held.value = call[c].id
    /\ pc[c] = "key" /\ call[c].op = "get" =>
           call[c].held \in WholeRecord /\ call[c].held.value <= started

\* A call past the layout finds a key file.
Open(c) == pc[c] \notin {"idle", "stat", "scan", "create"} => key # Absent

\* A settled call runs with the key settled, and holds that key.
Own(c) ==
    /\ pc[c] # "idle" /\ call[c].id \in settled => Settled
    /\ pc[c] \in {"open", "write", "unlinked"} /\ call[c].id \in settled =>
           call[c].held.key = key
    /\ pc[c] = "key" /\ call[c].op = "get" /\ call[c].held.value \in settled =>
           Settled /\ call[c].held.key = key

\* A kept secret was encrypted with the key in place, or with the one put away.
KeptHas(n) ==
    Kept(n) => \/ Settled /\ key = records[n].key
               \/ Away /\ saved = records[n].key

Values == \A n \in Names : Whole(n) => records[n].value <= started

SecretInv ==
    /\ TypeOK /\ Values
    /\ \A c \in Callers : Named(c) /\ Holding(c) /\ Open(c) /\ Own(c)
    /\ \A n \in Names : KeptHas(n)

-----------------------------------------------------------------------------
LEMMA Numbers ==
  /\ Absent \notin CallIds /\ Torn \notin CallIds /\ Absent # Torn
  /\ NoRecord \in Record /\ TornRecord \in Record /\ NoRecord # TornRecord
  /\ NoRecord.key = Absent /\ TornRecord.key = Torn
  /\ NoCall \in Call
  /\ \A r \in Record : r.key \in CallIds <=> r \in WholeRecord
  BY SecretBoundsAssumption
  DEF Absent, Torn, CallIds, NoRecord, TornRecord, Record, WholeRecord, NoCall, Call

LEMMA SecretInit == Init => SecretInv
  BY Numbers, SecretBoundsAssumption
  DEF Init, SecretInv, TypeOK, Steps, Values, Whole, Kept, KeptHas, Named, Holding, Open, Own

\* A step of a call leaves the others where they are, except that a removal
\* unlinks the file of a writer.
LEMMA OtherCalls ==
  ASSUME TypeOK, NEW c \in Callers, Begin(c) \/ Work(c), NEW d \in Callers, d # c
  PROVE  /\ call'[d] = call[d]
         /\ \/ pc'[d] = pc[d]
            \/ pc[d] = "write" /\ pc'[d] = "unlinked"
<1> USE DEF TypeOK, Goto, Return, Hold
<1>1. CASE Begin(c)
  BY <1>1 DEF Begin
<1>2. CASE Stat(c) \/ Scan(c) \/ CreateKey(c) \/ FillKey(c) \/ ReadRecord(c) \/ ReadKey(c)
  BY <1>2 DEF Stat, Scan, CreateKey, FillKey, ReadRecord, ReadKey
<1>3. CASE OpenRecord(c) \/ WriteRecord(c) \/ WriteUnlinked(c)
  BY <1>3 DEF OpenRecord, WriteRecord, WriteUnlinked
<1>4. CASE RemoveRecord(c)
  BY <1>4 DEF RemoveRecord
<1> QED
  BY <1>1, <1>2, <1>3, <1>4 DEF Work

\* A step of a call begins no call, or one call that is not settled before.
LEMMA SettledCalls ==
  ASSUME SecretInv, NEW c \in Callers, Begin(c) \/ Work(c)
  PROVE  /\ started' \in {started, started + 1} /\ UNCHANGED saved
         /\ settled \subseteq settled' /\ settled' \subseteq settled \cup {started + 1}
         /\ \A i \in 1..started : i \in settled' <=> i \in settled
         /\ started + 1 \in settled' => Begin(c) /\ Settled
<1>0. started \in Nat /\ settled \subseteq 1..started /\ started + 1 \notin 1..started
  BY SecretBoundsAssumption DEF SecretInv, TypeOK
<1>1. CASE Begin(c)
  BY <1>0, <1>1 DEF Begin
<1>2. CASE Work(c)
  <2>1. UNCHANGED <<saved, settled, counts>>
    BY <1>2 DEF Work, Stat, Scan, CreateKey, FillKey, ReadRecord, ReadKey, OpenRecord,
                WriteRecord, WriteUnlinked, RemoveRecord
  <2> QED
    BY <1>0, <2>1 DEF counts
<1> QED
  BY <1>1, <1>2

\* With the key settled nobody finds it missing.
LEMMA SettledStays ==
  ASSUME TypeOK, Settled, NEW c \in Callers, Begin(c) \/ Work(c)
  PROVE  Settled' /\ UNCHANGED key
<1>1. key # Absent /\ pc[c] \notin {"scan", "create", "fill"}
  BY Numbers DEF Settled
<1>2. ~Scan(c) /\ ~CreateKey(c) /\ ~FillKey(c)
  BY <1>1 DEF Scan, CreateKey, FillKey
<1>3. UNCHANGED key /\ pc'[c] \notin {"scan", "create", "fill"}
  <2> USE <1>1 DEF TypeOK, Goto, Return
  <2>1. CASE Begin(c) \/ Stat(c) \/ ReadRecord(c) \/ ReadKey(c)
    BY <2>1 DEF Begin, Stat, AfterLayout, ReadRecord, ReadKey
  <2>2. CASE OpenRecord(c) \/ WriteRecord(c) \/ WriteUnlinked(c) \/ RemoveRecord(c)
    BY <2>2 DEF OpenRecord, WriteRecord, WriteUnlinked, RemoveRecord
  <2> QED
    BY <1>2, <2>1, <2>2 DEF Work
<1> QED
  BY <1>3, OtherCalls DEF Settled

\* With the key file missing and a record stored nobody goes past the scan.
LEMMA AwayStays ==
  ASSUME TypeOK, Away, NEW n \in Names, Whole(n), NEW c \in Callers, Begin(c) \/ Work(c)
  PROVE  Away' /\ UNCHANGED <<key, records>>
<1>1. pc[c] \in {"idle", "stat", "scan"} /\ records[n] # NoRecord
  BY Numbers DEF Away, Whole
<1>2. Begin(c) \/ Stat(c) \/ Scan(c)
  BY <1>1 DEF Work, CreateKey, FillKey, ReadRecord, ReadKey, OpenRecord, WriteRecord,
              WriteUnlinked, RemoveRecord
<1>3. UNCHANGED <<key, records>> /\ pc'[c] \in {"idle", "stat", "scan"}
  BY <1>1, <1>2 DEF Begin, Stat, Scan, Away, TypeOK, Goto, Return
<1> QED
  BY <1>3, OtherCalls DEF Away

LEMMA SecretTypes ==
  ASSUME SecretInv, [Next]_vars
  PROVE  TypeOK'
<1> USE Numbers DEF Goto, Return, Hold, counts
<1>0. /\ TypeOK
      /\ \A c \in Callers : Named(c) /\ Holding(c)
      /\ 1..started \subseteq CallIds
  BY SecretBoundsAssumption DEF SecretInv, TypeOK, CallIds
<1>1. ASSUME NEW c \in Callers, Begin(c) \/ Work(c)
      PROVE  /\ key' \in CallIds \cup {Absent, Torn} /\ UNCHANGED saved
             /\ records' \in [Names -> Record]
             /\ pc' \in [Callers -> Steps] /\ call' \in [Callers -> Call]
             /\ started' \in 0..MaxCalls /\ settled' \subseteq 1..started'
             /\ UNCHANGED <<crashes, losses>>
  <2> DEFINE r == call[c]
  <2>0. r \in Call /\ Named(c) /\ Holding(c)
    BY <1>0 DEF TypeOK
  <2>1. CASE Begin(c)
    <3>1. started + 1 \in CallIds /\ started + 1 \in 0..MaxCalls
      BY <1>0, <2>1, SecretBoundsAssumption DEF Begin, TypeOK, CallIds
    <3>2. PICK op \in {"set", "get", "delete"}, n \in Names :
             call' = [call EXCEPT ![c] =
                      [op |-> op, id |-> started + 1, name |-> n, held |-> NoRecord]]
      BY <2>1 DEF Begin
    <3>3. [op |-> op, id |-> started + 1, name |-> n, held |-> NoRecord] \in Call
      BY <3>1 DEF Call
    <3>4. settled' \subseteq 1..started'
      BY <1>0, <2>1, SecretBoundsAssumption DEF Begin, TypeOK
    <3>5. pc' \in [Callers -> Steps]
      BY <1>0, <2>1 DEF Begin, TypeOK, Steps
    <3> QED
      BY <1>0, <2>1, <3>1, <3>2, <3>3, <3>4, <3>5 DEF Begin, TypeOK
  <2>2. CASE Stat(c) \/ Scan(c) \/ CreateKey(c) \/ FillKey(c)
    BY <1>0, <2>0, <2>2
    DEF Stat, Scan, CreateKey, FillKey, TypeOK, Steps, AfterLayout, Named
  <2>3. CASE ReadRecord(c)
    <3>1. records[r.name] \in Record
      BY <1>0, <2>0, <2>3 DEF Named, TypeOK, ReadRecord
    <3>2. [r EXCEPT !.held = records[r.name]] \in Call
      BY <2>0, <3>1 DEF Call
    <3> QED
      BY <1>0, <2>3, <3>2 DEF ReadRecord, TypeOK, Steps
  <2>4. CASE ReadKey(c)
    <3>1. key \in CallIds => [key |-> key, value |-> r.id] \in Record
      BY <1>0, <2>0, <2>4 DEF Record, WholeRecord, Named, ReadKey
    <3>2. key \in CallIds => [r EXCEPT !.held = [key |-> key, value |-> r.id]] \in Call
      BY <2>0, <3>1 DEF Call
    <3> QED
      BY <1>0, <2>4, <3>2 DEF ReadKey, TypeOK, Steps
  <2>5. CASE OpenRecord(c) \/ WriteUnlinked(c)
    BY <1>0, <2>5 DEF OpenRecord, WriteUnlinked, TypeOK, Steps
  <2>6. CASE WriteRecord(c)
    <3>1. r.held \in Record
      BY <2>0 DEF Call
    <3> QED
      BY <1>0, <2>6, <3>1 DEF WriteRecord, TypeOK, Steps
  <2>7. CASE RemoveRecord(c)
    BY <1>0, <2>7 DEF RemoveRecord, TypeOK, Steps
  <2> QED
    BY <1>1, <2>1, <2>2, <2>3, <2>4, <2>5, <2>6, <2>7 DEF Work
<1>2. CASE Crash
  <2>1. crashes' \in 0..MaxCrashes
    BY <1>0, <1>2, SecretBoundsAssumption DEF Crash, TypeOK
  <2> QED
    BY <1>0, <1>2, <2>1 DEF Crash, TypeOK, Steps
<1>3. CASE LoseKey
  <2>1. losses' \in 0..MaxLosses
    BY <1>0, <1>3, SecretBoundsAssumption DEF LoseKey, TypeOK
  <2> QED
    BY <1>0, <1>3, <2>1 DEF LoseKey, TypeOK
<1>4. CASE RestoreKey
  BY <1>0, <1>4 DEF RestoreKey, TypeOK
<1>5. CASE UNCHANGED vars
  BY <1>0, <1>5 DEF vars, TypeOK
<1>6. CASE \E c \in Callers : Begin(c) \/ Work(c)
  BY <1>0, <1>1, <1>6 DEF TypeOK
<1> QED
  BY <1>2, <1>3, <1>4, <1>5, <1>6 DEF Next

\* What a step does to the record of a name.
LEMMA RecordSteps ==
  ASSUME SecretInv, NEW c \in Callers, Begin(c) \/ Work(c), NEW n \in Names
  PROVE  \/ records'[n] = records[n]
         \/ records'[n] \in {NoRecord, TornRecord}
         \/ /\ pc[c] = "write" /\ records'[n] = call[c].held
            /\ UNCHANGED <<key, settled, started>>
<1>0. TypeOK
  BY DEF SecretInv
<1>1. CASE \/ Begin(c) \/ Stat(c) \/ Scan(c) \/ CreateKey(c) \/ FillKey(c)
           \/ ReadRecord(c) \/ ReadKey(c) \/ WriteUnlinked(c)
  BY <1>1 DEF Begin, Stat, Scan, CreateKey, FillKey, ReadRecord, ReadKey, WriteUnlinked
<1>2. CASE OpenRecord(c) \/ RemoveRecord(c)
  BY <1>0, <1>2 DEF OpenRecord, RemoveRecord, TypeOK
<1>3. CASE WriteRecord(c)
  BY <1>0, <1>3 DEF WriteRecord, TypeOK, counts
<1> QED
  BY <1>1, <1>2, <1>3 DEF Work

\* A secret that is kept after a step was kept before it, or is written with the
\* settled key.
LEMMA RecordsKept ==
  ASSUME SecretInv, TypeOK', NEW c \in Callers, Begin(c) \/ Work(c)
  PROVE  Values' /\ \A n \in Names : KeptHas(n)'
<1>0. TypeOK /\ Values /\ Named(c) /\ Holding(c) /\ Own(c) /\ started \in Nat
  BY SecretBoundsAssumption DEF SecretInv, TypeOK
<1> SUFFICES ASSUME NEW n \in Names, Whole(n)'
             PROVE  records'[n].value <= started' /\ KeptHas(n)'
  BY DEF Values, KeptHas, Kept
<1>1. CASE records'[n] = records[n]
  <2>1. Whole(n) /\ records[n].value \in 1..started
    BY <1>0, <1>1, Numbers DEF Whole, Values, TypeOK, Record, WholeRecord, CallIds
  <2>2. records'[n].value <= started'
    BY <1>0, <1>1, <2>1, SettledCalls
  <2>3. Kept(n)' => Kept(n)
    BY <1>1, <2>1, SettledCalls DEF Kept, Whole
  <2>4. KeptHas(n)'
    <3>1. KeptHas(n) /\ UNCHANGED saved
      BY SettledCalls DEF SecretInv
    <3>2. CASE Settled /\ key = records[n].key
      BY <1>0, <1>1, <3>2, SettledStays DEF KeptHas
    <3>3. CASE Away /\ saved = records[n].key
      BY <1>0, <1>1, <2>1, <3>1, <3>3, AwayStays DEF KeptHas
    <3> QED
      BY <2>3, <3>1, <3>2, <3>3 DEF KeptHas
  <2> QED
    BY <2>2, <2>4
<1>2. CASE records'[n] \in {NoRecord, TornRecord}
  BY <1>2, Numbers DEF Whole
<1>3. CASE /\ pc[c] = "write" /\ records'[n] = call[c].held
           /\ UNCHANGED <<key, settled, started>>
  <2>1. call[c].id \in 1..started /\ records'[n].value = call[c].id
    BY <1>0, <1>3 DEF Named, Holding
  <2>2. ASSUME call[c].id \in settled
        PROVE  Settled' /\ key' = records'[n].key
    BY <1>0, <1>3, <2>2, SettledStays DEF Own
  <2> QED
    BY <1>0, <1>3, <2>1, <2>2 DEF KeptHas, Kept
<1> QED
  BY <1>1, <1>2, <1>3, RecordSteps

\* The caller's own part of the invariant, without what is settled.
LEMMA OwnCallKept ==
  ASSUME SecretInv, NEW c \in Callers, Begin(c) \/ Work(c)
  PROVE  Named(c)' /\ Holding(c)' /\ Open(c)'
<1> USE Numbers DEF Goto, Return, Hold, TypeOK, NoCall, counts
<1>0. /\ TypeOK /\ Values /\ Named(c) /\ Holding(c) /\ Open(c)
      /\ call[c] \in Call /\ started \in Nat
  BY SecretBoundsAssumption DEF SecretInv
<1>1. CASE Begin(c)
  <2>1. /\ pc'[c] = "stat" /\ call'[c].id = started + 1 /\ started' = started + 1
        /\ call'[c].name \in Names /\ call'[c].op \in {"set", "get", "delete"}
    BY <1>0, <1>1 DEF Begin
  <2> QED
    BY <1>0, <2>1 DEF Named, Holding, Open
<1>2. CASE Stat(c)
  <2>1. /\ UNCHANGED <<key, records, call, started>> /\ pc[c] = "stat"
        /\ pc'[c] = IF key # Absent THEN AfterLayout(call[c].op) ELSE "scan"
    BY <1>0, <1>2 DEF Stat
  <2> QED
    BY <1>0, <2>1 DEF AfterLayout, Named, Holding, Open
<1>3. CASE Scan(c)
  <2>1. /\ UNCHANGED <<key, started>> /\ pc[c] = "scan"
        /\ \/ pc'[c] = "idle"
           \/ pc'[c] = "create" /\ UNCHANGED call
    BY <1>0, <1>3 DEF Scan
  <2> QED
    BY <1>0, <2>1 DEF Named, Holding, Open
<1>4. CASE CreateKey(c)
  BY <1>0, <1>4 DEF CreateKey, Named, Holding, Open
<1>5. CASE FillKey(c)
  <2>1. /\ UNCHANGED <<call, started>> /\ pc[c] = "fill" /\ key' = call[c].id
        /\ pc'[c] = AfterLayout(call[c].op)
    BY <1>0, <1>5 DEF FillKey
  <2>2. key' # Absent /\ call[c].op \in {"set", "get", "delete"}
    BY <1>0, <2>1 DEF Named, Absent
  <2>3. /\ pc'[c] \in {"key", "read", "remove"}
        /\ pc'[c] = "key" => call[c].op = "set"
    BY <2>1, <2>2 DEF AfterLayout
  <2> QED
    BY <1>0, <2>1, <2>2, <2>3 DEF Named, Holding, Open
<1>6. CASE ReadRecord(c)
  <2> DEFINE r == records[call[c].name]
  <2>1. /\ UNCHANGED <<key, started>> /\ pc[c] = "read"
        /\ \/ pc'[c] = "idle"
           \/ /\ r.key \in CallIds /\ pc'[c] = "key"
              /\ call'[c] = [call[c] EXCEPT !.held = r]
    BY <1>0, <1>6 DEF ReadRecord
  <2>2. call[c].name \in Names /\ r \in Record /\ key # Absent
    BY <1>0, <2>1 DEF Named, Open
  <2>3. r.key \in CallIds => r \in WholeRecord /\ r.value <= started
    BY <1>0, <2>2 DEF Values, Whole
  <2>4. pc'[c] # "idle" => /\ call'[c].held = r /\ call'[c].id = call[c].id
                           /\ call'[c].op = call[c].op /\ call'[c].name = call[c].name
    BY <1>0, <2>1 DEF Call
  <2> QED
    BY <1>0, <2>1, <2>2, <2>3, <2>4 DEF Named, Holding, Open
<1>7. CASE ReadKey(c)
  <2>1. /\ UNCHANGED <<key, started>> /\ pc[c] = "key"
        /\ \/ pc'[c] = "idle"
           \/ /\ key \in CallIds /\ pc'[c] = "open"
              /\ call'[c] = [call[c] EXCEPT !.held = [key |-> key, value |-> call[c].id]]
    BY <1>0, <1>7 DEF ReadKey
  <2>2. pc'[c] # "idle" => /\ call'[c].held = [key |-> key, value |-> call[c].id]
                           /\ call'[c].id = call[c].id /\ call'[c].op = call[c].op
                           /\ call'[c].name = call[c].name
    BY <1>0, <2>1 DEF Call
  <2>3. pc[c] # "idle" => call[c].id \in CallIds
    BY <1>0, SecretBoundsAssumption DEF Named, CallIds
  <2> QED
    BY <1>0, <2>1, <2>2, <2>3 DEF Named, Holding, Open, WholeRecord
<1>8. CASE OpenRecord(c)
  BY <1>0, <1>8 DEF OpenRecord, Named, Holding, Open
<1>9. CASE WriteRecord(c) \/ WriteUnlinked(c) \/ RemoveRecord(c)
  <2>1. pc'[c] = "idle"
    BY <1>0, <1>9 DEF WriteRecord, WriteUnlinked, RemoveRecord
  <2> QED
    BY <2>1 DEF Named, Holding, Open
<1> QED
  BY <1>1, <1>2, <1>3, <1>4, <1>5, <1>6, <1>7, <1>8, <1>9 DEF Work

\* The key file appears under a call and does not go.
LEMMA KeyStaysPresent ==
  ASSUME SecretInv, NEW c \in Callers, Begin(c) \/ Work(c), key # Absent
  PROVE  key' # Absent
<1>1. CASE CreateKey(c) \/ FillKey(c)
  BY <1>1, Numbers, SecretBoundsAssumption
  DEF CreateKey, FillKey, SecretInv, Named, TypeOK, Absent, Torn
<1>2. CASE ~CreateKey(c) /\ ~FillKey(c)
  BY <1>2 DEF Work, Begin, Stat, Scan, ReadRecord, ReadKey, OpenRecord, WriteRecord,
              WriteUnlinked, RemoveRecord
<1> QED
  BY <1>1, <1>2

\* What a settled call, or one that holds a kept secret, has in hand.
LEMMA OwnKept ==
  ASSUME SecretInv, NEW c \in Callers, Begin(c) \/ Work(c)
  PROVE  Own(c)'
<1> USE Numbers DEF Goto, Return, Hold, TypeOK, NoCall, counts
<1>0. /\ TypeOK /\ Named(c) /\ Holding(c) /\ Open(c) /\ Own(c) /\ call[c] \in Call
      /\ started \in Nat
  BY SecretBoundsAssumption DEF SecretInv
<1>1. CASE Begin(c)
  <2>1. pc'[c] = "stat" /\ call'[c].id = started + 1 /\ UNCHANGED key
    BY <1>0, <1>1 DEF Begin
  <2>2. call'[c].id \in settled' => Settled'
    BY <1>0, <1>1, <2>1, SettledCalls, SettledStays
  <2> QED
    BY <2>1, <2>2 DEF Own
<1>2. CASE Work(c)
  <2>1. UNCHANGED <<settled, started>> /\ pc[c] # "idle"
    BY <1>2 DEF Work, Stat, Scan, CreateKey, FillKey, ReadRecord, ReadKey, OpenRecord,
                WriteRecord, WriteUnlinked, RemoveRecord
  <2>2. Settled => Settled' /\ UNCHANGED key
    BY <1>0, SettledStays
  <2>3. CASE Stat(c) \/ Scan(c) \/ CreateKey(c) \/ FillKey(c)
    <3>1. /\ pc'[c] \notin {"open", "write", "unlinked"}
          /\ pc'[c] # "idle" => UNCHANGED call
          /\ pc'[c] = "key" => call[c].op = "set"
      BY <1>0, <2>1, <2>3 DEF Stat, Scan, CreateKey, FillKey, AfterLayout, Named
    <3> QED
      BY <1>0, <2>1, <2>2, <3>1 DEF Own
  <2>4. CASE ReadRecord(c)
    <3> DEFINE n == call[c].name
    <3>1. /\ UNCHANGED <<key, records>> /\ pc[c] = "read"
          /\ \/ pc'[c] = "idle"
             \/ /\ records[n].key \in CallIds /\ pc'[c] = "key"
                /\ call'[c] = [call[c] EXCEPT !.held = records[n]]
      BY <1>0, <2>4 DEF ReadRecord
    <3>2. pc'[c] # "idle" => /\ call'[c].held = records[n] /\ call'[c].id = call[c].id
                             /\ call'[c].op = call[c].op
      BY <1>0, <3>1 DEF Call
    <3>3. n \in Names /\ key # Absent
      BY <1>0, <3>1 DEF Named, Open
    <3>4. Kept(n) => Settled /\ key = records[n].key
      BY <3>3 DEF SecretInv, KeptHas, Away
    <3>5. /\ pc'[c] = "key" /\ records[n].value \in settled
          => Settled' /\ key' = records[n].key
      BY <2>2, <3>1, <3>4 DEF Kept, Whole
    <3> QED
      BY <1>0, <2>1, <2>2, <3>1, <3>2, <3>5 DEF Own
  <2>5. CASE ReadKey(c)
    <3>1. /\ UNCHANGED key /\ pc[c] = "key"
          /\ \/ pc'[c] = "idle"
             \/ /\ pc'[c] = "open"
                /\ call'[c] = [call[c] EXCEPT !.held = [key |-> key, value |-> call[c].id]]
      BY <1>0, <2>5 DEF ReadKey
    <3>2. pc'[c] # "idle" => /\ call'[c].held.key = key /\ call'[c].id = call[c].id
      BY <1>0, <3>1 DEF Call
    <3> QED
      BY <1>0, <2>1, <2>2, <3>1, <3>2 DEF Own
  <2>6. CASE OpenRecord(c)
    <3>1. pc[c] = "open" /\ pc'[c] = "write" /\ UNCHANGED <<key, call>>
      BY <1>0, <2>6 DEF OpenRecord
    <3> QED
      BY <1>0, <2>1, <2>2, <3>1 DEF Own
  <2>7. CASE WriteRecord(c) \/ WriteUnlinked(c) \/ RemoveRecord(c)
    <3>1. pc'[c] = "idle"
      BY <1>0, <2>7 DEF WriteRecord, WriteUnlinked, RemoveRecord
    <3> QED
      BY <3>1 DEF Own
  <2> QED
    BY <1>2, <2>3, <2>4, <2>5, <2>6, <2>7 DEF Work
<1> QED
  BY <1>1, <1>2

\* The part of the other callers: their calls stay, and so does a settled key.
LEMMA OthersKept ==
  ASSUME SecretInv, NEW c \in Callers, Begin(c) \/ Work(c),
         NEW d \in Callers, d # c
  PROVE  Named(d)' /\ Holding(d)' /\ Open(d)' /\ Own(d)'
<1>0. TypeOK /\ Named(d) /\ Holding(d) /\ Open(d) /\ Own(d) /\ started \in Nat
  BY SecretBoundsAssumption DEF SecretInv, TypeOK
<1>1. call'[d] = call[d] /\ (pc'[d] = pc[d] \/ (pc[d] = "write" /\ pc'[d] = "unlinked"))
  BY <1>0, OtherCalls
<1>2. started' \in {started, started + 1}
  BY SettledCalls
<1>3. Named(d)' /\ Holding(d)'
  <2>1. /\ \A i \in 1..started : i \in 1..started'
        /\ \A r \in WholeRecord : r.value <= started => r.value <= started'
    BY <1>0, <1>2 DEF WholeRecord, CallIds
  <2> QED
    BY <1>0, <1>1, <2>1 DEF Named, Holding
<1>4. Open(d)'
  BY <1>0, <1>1, KeyStaysPresent DEF Open
<1>5. Own(d)'
  <2>1. Settled => Settled' /\ UNCHANGED key
    BY <1>0, SettledStays
  <2>2. pc[d] # "idle" => (call[d].id \in settled' => call[d].id \in settled)
    BY <1>0, SettledCalls DEF Named
  <2>3. /\ pc[d] = "key" /\ call[d].op = "get"
        => (call[d].held.value \in settled' => call[d].held.value \in settled)
    <3> SUFFICES ASSUME pc[d] = "key" /\ call[d].op = "get"
                 PROVE  call[d].held.value \in 1..started
      BY SettledCalls
    <3> QED
      BY <1>0 DEF Holding, WholeRecord, CallIds
  <2> QED
    BY <1>0, <1>1, <2>1, <2>2, <2>3 DEF Own
<1> QED
  BY <1>3, <1>4, <1>5

LEMMA SecretStep ==
  ASSUME SecretInv, [Next]_vars
  PROVE  SecretInv'
<1>1. TypeOK'
  BY SecretTypes
<1>2. ASSUME NEW c \in Callers, Begin(c) \/ Work(c)
      PROVE  SecretInv'
  <2>1. Values' /\ \A n \in Names : KeptHas(n)'
    BY <1>1, <1>2, RecordsKept
  <2>2. \A d \in Callers : Named(d)' /\ Holding(d)' /\ Open(d)' /\ Own(d)'
    BY <1>2, OwnCallKept, OwnKept, OthersKept
  <2> QED
    BY <1>1, <2>1, <2>2 DEF SecretInv
<1>3. CASE Crash \/ LoseKey \/ RestoreKey
  <2>1. /\ \A d \in Callers : pc'[d] = "idle"
        /\ UNCHANGED <<records, settled, started>>
        /\ \/ UNCHANGED <<key, saved>>
           \/ key # Absent /\ key' = Absent /\ saved' = key
           \/ key = Absent /\ saved # Absent /\ key' = saved /\ UNCHANGED saved
    BY <1>3 DEF Crash, LoseKey, RestoreKey, Idle, counts
  <2>2. Values' /\ \A d \in Callers : Named(d)' /\ Holding(d)' /\ Open(d)' /\ Own(d)'
    BY <2>1 DEF SecretInv, Values, Whole, Named, Holding, Open, Own
  <2>3. ASSUME NEW n \in Names, Kept(n)'
        PROVE  KeptHas(n)'
    <3>1. Kept(n) /\ KeptHas(n) /\ records'[n] = records[n] /\ records[n].key \in CallIds
      BY <2>1, <2>3 DEF SecretInv, Kept, Whole
    <3> QED
      BY <2>1, <3>1, Numbers DEF KeptHas, Settled, Away
  <2> QED
    BY <1>1, <2>2, <2>3 DEF SecretInv, KeptHas
<1>4. CASE UNCHANGED vars
  BY <1>1, <1>4
  DEF vars, counts, SecretInv, Values, Whole, Kept, KeptHas, Settled, Away, Named, Holding,
      Open, Own
<1> QED
  BY <1>2, <1>3, <1>4 DEF Next

\* The invariant holds whatever calls, kills and losses of the key overlap
\* (store.go has no lock).
THEOREM SecretInvariant == Spec => []SecretInv
<1>1. SecretInv /\ [Next]_vars => SecretInv'
  BY SecretStep
<1> QED
  BY SecretInit, <1>1, PTL DEF Spec

\* One key opens every secret stored by a Set that began with the key settled,
\* whatever calls, first uses, kills and losses of the key file overlap or follow
\* (ensureLayout).
THEOREM SecretsStayReadable == Spec => []SecretsReadable
<1>1. SecretInv => SecretsReadable
  <2> SUFFICES ASSUME SecretInv, NEW n \in Names, Kept(n), NEW m \in Names, Kept(m)
               PROVE  /\ key = records[n].key \/ (key = Absent /\ saved = records[n].key)
                      /\ records[m].key = records[n].key
    BY DEF SecretsReadable
  <2>1. KeptHas(n) /\ KeptHas(m)
    BY DEF SecretInv
  <2> QED
    BY <2>1, Numbers DEF KeptHas, Settled, Away
<1> QED
  BY SecretInvariant, <1>1, PTL

\* A Get that found such a secret reads the key it was encrypted with, whenever it
\* began and although the record may meanwhile be set and deleted by others (Get).
THEOREM FoundSecretsOpen == Spec => FoundRecordOpens
<1> DEFINE Opens == \A c \in Callers :
              /\ pc[c] = "key" /\ call[c].op = "get" /\ call[c].held.value \in settled
              /\ pc'[c] = "idle" /\ crashes' = crashes
              => key = call[c].held.key
<1>1. SecretInv => Opens
  BY DEF SecretInv, Own
<1>2. SecretInv /\ [Next]_vars => [Opens]_pc
  BY <1>1
<1> QED
  BY SecretInvariant, <1>2, PTL DEF Spec, FoundRecordOpens
=============================================================================
