------------------------- MODULE TokenManagerProofs -------------------------
(***************************************************************************)
(* The token cache agrees with the store, and an answered deletion or       *)
(* rotation ends the earlier tokens for every later call, whatever calls    *)
(* overlap, whatever file operations fail and whenever the gateway is       *)
(* killed; the names that a load or a change cached beside another change   *)
(* of them are the exception, until the next change of them.                *)
(*                                                                         *)
(* Every load and change knows the changes it ran beside (Meets), so what a *)
(* load read of the other names is what is stored (Loaded).  A change ends  *)
(* the tokens of the calls that were over when it began, so nothing that is *)
(* still to be stored or cached is ever revoked (Fresh).                    *)
(***************************************************************************)
EXTENDS TokenManager, TLAPS

\* A call has met the changes it overlaps.
Meets ==
    \A c, d \in Callers :
        c # d /\ Changes(c) /\ (Loads(d) \/ (Changes(d) /\ call[d].name = call[c].name))
        => call[c].name \in call[d].met

\* Tokens belong to one name; those stored are not revoked, nor are those cached.
Givens ==
    /\ \A n \in Names : given[n] \subseteq 1..started
    /\ \A m, n \in Names : m # n => given[m] \cap given[n] = {}
    /\ \A n \in Names : stored[n] \in (given[n] \ revoked) \cup {None, Torn}
    /\ \A n \in Names \ stale : cache[n] \in (given[n] \ revoked) \cup {None}
    /\ revoked \subseteq 1..started

\* The call has a token that it may still store or cache.
Brings(c) == pc[c] \in {"open", "write", "put"}

\* No answer to come ends the token of a change under way.
Fresh ==
    \A c, d \in Callers : Brings(c) /\ Changes(d) => call[c].id \notin call[d].ended

\* What a change has done to the store.
Changed(c) ==
    /\ Changes(c) => call[c].name \in Names /\ call[c].ended \subseteq given[call[c].name]
    /\ Brings(c) => call[c].id \in given[call[c].name] \ revoked
    /\ pc[c] \in {"put", "drop"} => stored[call[c].name] \notin call[c].ended
    /\ call[c].name \notin call[c].met =>
           /\ pc[c] = "write" => stored[call[c].name] = Torn
           /\ pc[c] = "put" => stored[call[c].name] = call[c].id
           /\ pc[c] = "drop" => stored[call[c].name] = None

\* What a load has read of the store.
Loaded(c) ==
    /\ pc[c] \in {"check", "list"} => call[c].held = NoEntries
    /\ pc[c] \in {"get", "fill"} =>
           \A n \in Names \ call[c].met :
              call[c].held[n] = IF n \in call[c].todo THEN None ELSE stored[n]
    /\ pc[c] = "fill" => call[c].todo = {}
    /\ pc[c] \in {"check", "list", "get", "fill"} => call[c].ended \subseteq revoked

\* The cache of a new process is empty.
ColdEmpty == ~loaded => cache = NoEntries /\ known = {}

\* CacheAgrees, kept until a change has reached the store.
Agrees ==
    \A n \in Names \ (stale \cup crossed) :
        loaded /\ stored[n] # Torn
        /\ (\A c \in Callers : pc[c] \in {"put", "drop"} => call[c].name # n) =>
           /\ cache[n] \in {None, stored[n]}
           /\ n \in known => cache[n] = stored[n]

TokenInv ==
    /\ TypeOK /\ Meets /\ Givens /\ Fresh /\ ColdEmpty /\ Agrees
    /\ \A c \in Callers : Changed(c) /\ Loaded(c)

-----------------------------------------------------------------------------
LEMMA TokenNumbers ==
  /\ None \notin Tokens /\ Torn \notin Tokens /\ None # Torn
  /\ NoEntries \in Entries /\ NoCall \in Call
  /\ NoCall.ended = {} /\ NoCall.held = NoEntries
  BY TokenBoundsAssumption DEF None, Torn, Tokens, NoEntries, Entries, NoCall, Call

LEMMA TokenInit == Init => TokenInv
<1> SUFFICES ASSUME Init PROVE TokenInv
  OBVIOUS
<1>1. TypeOK
  <2>1. stored \in [Names -> Tokens \cup {None, Torn}] /\ cache \in Entries
    BY TokenNumbers DEF Init, Entries, NoEntries
  <2>2. pc \in [Callers -> Steps] /\ call \in [Callers -> Call]
    BY TokenNumbers DEF Init, Steps
  <2>3. started \in 0..MaxCalls /\ crashes \in 0..MaxCrashes
    BY TokenBoundsAssumption DEF Init
  <2>4. given \in [Names -> SUBSET Tokens]
    BY DEF Init
  <2>5. /\ loaded \in BOOLEAN /\ revoked \subseteq Tokens /\ known \subseteq Names
        /\ stale \subseteq Names /\ crossed \subseteq Names
    BY DEF Init
  <2> QED BY <2>1, <2>2, <2>3, <2>4, <2>5 DEF TypeOK
<1>2. Meets /\ Givens /\ Fresh /\ ColdEmpty /\ Agrees
  BY TokenNumbers
  DEF Init, Meets, Givens, Fresh, Brings, ColdEmpty, Agrees, Changes, NoEntries
<1>3. \A c \in Callers : Changed(c) /\ Loaded(c)
  BY TokenNumbers DEF Init, Changed, Loaded, Changes, Brings
<1> QED BY <1>1, <1>2, <1>3 DEF TokenInv

\* One caller's step.
Step(c) == (\E n \in Names : BeginChange(c, n)) \/ BeginRead(c) \/ Change(c) \/ Read(c)

\* What the record of a new call says.
LEMMA NewCalls ==
  ASSUME TypeOK, NEW n \in Names \cup {0}, NEW ended \in SUBSET Tokens,
         NEW met \in SUBSET Names, started < MaxCalls
  PROVE  /\ NewCall(n, ended, met) \in Call
         /\ NewCall(n, ended, met).id = started + 1
         /\ NewCall(n, ended, met).name = n
         /\ NewCall(n, ended, met).held = NoEntries
         /\ NewCall(n, ended, met).ended = ended
         /\ NewCall(n, ended, met).met = met
<1>1. started + 1 \in Tokens
  BY TokenBoundsAssumption DEF TypeOK, Tokens
<1> QED BY <1>1, TokenNumbers DEF NewCall, Call

\* A change begins: its own record, and what the calls beside it learn.
LEMMA ChangeBegins ==
  ASSUME TypeOK, NEW c \in Callers, NEW n \in Names, BeginChange(c, n)
  PROVE  /\ pc[c] = "idle" /\ pc'[c] \in {"open", "remove"}
         /\ call' \in [Callers -> Call]
         /\ call'[c].id = started + 1 /\ call'[c].name = n
         /\ call'[c].held = NoEntries
         /\ call'[c].ended = given[n] \ {call[e].id : e \in ChangesOf(n)}
         /\ call'[c].met = IF Changing(n) THEN {n} ELSE {}
         /\ \A d \in Callers \ {c} :
               \/ call'[d] = call[d] /\ ~Loads(d) /\ d \notin ChangesOf(n)
               \/ call'[d] = [call[d] EXCEPT !.met = @ \cup {n}]
         /\ UNCHANGED <<stored, cache, loaded, crashes, revoked, known, stale, crossed>>
         /\ started' = started + 1
         /\ \/ pc'[c] = "open" /\ given' = [given EXCEPT ![n] = @ \cup {started + 1}]
            \/ pc'[c] = "remove" /\ UNCHANGED given
<1> DEFINE ended == given[n] \ {call[e].id : e \in ChangesOf(n)}
           met == IF Changing(n) THEN {n} ELSE {}
           new == NewCall(n, ended, met)
<1>1. ended \in SUBSET Tokens /\ met \in SUBSET Names /\ started < MaxCalls
  BY DEF TypeOK, BeginChange
<1>2. /\ new \in Call /\ new.id = started + 1 /\ new.name = n
      /\ new.held = NoEntries /\ new.ended = ended /\ new.met = met
  BY <1>1, NewCalls
<1>3. \A d \in Callers : [call[d] EXCEPT !.met = @ \cup {n}] \in Call
  BY DEF TypeOK, Call
<1>4. call' = [d \in Callers |->
                 IF d = c THEN new
                 ELSE IF Loads(d) \/ d \in ChangesOf(n)
                 THEN [call[d] EXCEPT !.met = @ \cup {n}]
                 ELSE call[d]]
  BY DEF BeginChange
<1> HIDE DEF new
<1>5. call' \in [Callers -> Call]
  BY <1>2, <1>3, <1>4 DEF TypeOK
<1>6. call'[c] = new
  BY <1>4
<1>7. \A d \in Callers \ {c} :
         \/ call'[d] = call[d] /\ ~Loads(d) /\ d \notin ChangesOf(n)
         \/ call'[d] = [call[d] EXCEPT !.met = @ \cup {n}]
  BY <1>4
<1>8. /\ pc[c] = "idle" /\ started' = started + 1
      /\ UNCHANGED <<stored, cache, loaded, crashes, revoked, known, stale, crossed>>
      /\ \/ pc'[c] = "open" /\ given' = [given EXCEPT ![n] = @ \cup {started + 1}]
         \/ pc'[c] = "remove" /\ UNCHANGED given
  BY DEF BeginChange, Goto, TypeOK
<1> QED BY <1>2, <1>5, <1>6, <1>7, <1>8

\* A read begins.
LEMMA ReadBegins ==
  ASSUME TypeOK, NEW c \in Callers, BeginRead(c)
  PROVE  /\ pc[c] = "idle" /\ pc'[c] = "check"
         /\ call' \in [Callers -> Call]
         /\ \A d \in Callers \ {c} : call'[d] = call[d]
         /\ call'[c].held = NoEntries /\ call'[c].ended = revoked
         /\ call'[c].met = {n \in Names : Changing(n)}
         /\ UNCHANGED <<stored, cache, loaded, crashes, histories>>
         /\ started' = started + 1
<1> DEFINE met == {n \in Names : Changing(n)}
           new == NewCall(0, revoked, met)
<1>0. revoked \in SUBSET Tokens /\ met \in SUBSET Names /\ started < MaxCalls
      /\ 0 \in Names \cup {0}
  BY DEF TypeOK, BeginRead
<1>1. /\ new \in Call
      /\ new.held = NoEntries /\ new.ended = revoked /\ new.met = met
  BY <1>0, NewCalls
<1>2. call' = [call EXCEPT ![c] = new]
  BY DEF BeginRead
<1> HIDE DEF new
<1>3. /\ call' \in [Callers -> Call] /\ call'[c] = new
      /\ \A d \in Callers \ {c} : call'[d] = call[d]
  BY <1>1, <1>2 DEF TypeOK
<1>4. /\ pc[c] = "idle" /\ pc'[c] = "check" /\ started' = started + 1
      /\ UNCHANGED <<stored, cache, loaded, crashes, histories>>
  BY DEF BeginRead, Goto, TypeOK
<1> QED BY <1>1, <1>3, <1>4

\* A step of a call leaves the other calls where they are; they may meet it.
LEMMA OtherTokenCalls ==
  ASSUME TypeOK, NEW c \in Callers, Step(c), NEW d \in Callers, d # c
  PROVE  /\ pc'[d] = pc[d]
         /\ call'[d].id = call[d].id /\ call'[d].name = call[d].name
         /\ call'[d].todo = call[d].todo /\ call'[d].held = call[d].held
         /\ call'[d].ended = call[d].ended /\ call[d].met \subseteq call'[d].met
<1>1. CASE \E n \in Names : BeginChange(c, n)
  <2> PICK n \in Names : BeginChange(c, n)
    BY <1>1
  <2>1. pc'[d] = pc[d]
    BY DEF BeginChange, Goto, TypeOK
  <2>2. call'[d] = call[d] \/ call'[d] = [call[d] EXCEPT !.met = @ \cup {n}]
    BY DEF BeginChange
  <2>3. call[d] \in Call
    BY DEF TypeOK
  <2> QED BY <2>1, <2>2, <2>3 DEF Call
<1>2. CASE BeginRead(c)
  BY <1>2, ReadBegins DEF BeginRead, Goto, TypeOK
<1> USE DEF TypeOK, Goto, Return
<1>3. CASE OpenSecret(c) \/ WriteSecret(c) \/ RemoveSecret(c)
  BY <1>3 DEF OpenSecret, WriteSecret, RemoveSecret
<1>4. CASE PutCachedToken(c) \/ DeleteCachedToken(c)
  BY <1>4 DEF PutCachedToken, DeleteCachedToken, Answered
<1>5. CASE CheckCache(c) \/ ListSecrets(c) \/ FillCache(c)
  BY <1>5 DEF CheckCache, ListSecrets, FillCache
<1>6. CASE GetSecret(c)
  BY <1>6 DEF GetSecret
<1> QED BY <1>1, <1>2, <1>3, <1>4, <1>5, <1>6 DEF Step, Change, Read

\* A call's own step ends it or goes on with the same call.
LEMMA OwnWork ==
  ASSUME TypeOK, NEW c \in Callers, Change(c) \/ Read(c)
  PROVE  /\ loaded => loaded'
         /\ \/ pc'[c] = "idle"
            \/ /\ call'[c].id = call[c].id /\ call'[c].name = call[c].name
               /\ call'[c].ended = call[c].ended /\ call'[c].met = call[c].met
               /\ (Brings(c)' => Brings(c)) /\ (Changes(c)' => Changes(c))
               /\ Loads(c)' => Loads(c)
<1> USE DEF TypeOK, Goto, Return, Changes, Loads, Brings
<1>1. CASE OpenSecret(c) \/ WriteSecret(c) \/ RemoveSecret(c)
  BY <1>1 DEF OpenSecret, WriteSecret, RemoveSecret
<1>2. CASE PutCachedToken(c) \/ DeleteCachedToken(c)
  BY <1>2 DEF PutCachedToken, DeleteCachedToken, Answered
<1>3. CASE CheckCache(c) \/ FillCache(c)
  BY <1>3 DEF CheckCache, FillCache
<1>4. CASE ListSecrets(c)
  BY <1>4 DEF ListSecrets, Call
<1>5. CASE GetSecret(c)
  <2>1. ASSUME NEW n \in call[c].todo, UNCHANGED pc,
               call' = [call EXCEPT ![c].todo = @ \ {n}, ![c].held = [@ EXCEPT ![n] = stored[n]]]
        PROVE  /\ pc'[c] = pc[c]
               /\ call'[c].id = call[c].id /\ call'[c].name = call[c].name
               /\ call'[c].ended = call[c].ended /\ call'[c].met = call[c].met
    BY <2>1 DEF Call
  <2> QED BY <1>5, <2>1 DEF GetSecret
<1> QED BY <1>1, <1>2, <1>3, <1>4, <1>5 DEF Change, Read

\* Only a change alters the store, and only for its name.
LEMMA StoreSteps ==
  ASSUME TypeOK, NEW c \in Callers, Step(c), NEW n \in Names
  PROVE  \/ stored'[n] = stored[n]
         \/ /\ Changes(c) /\ call[c].name = n
            /\ \/ stored'[n] \in {None, Torn}
               \/ Brings(c) /\ stored'[n] = call[c].id
<1>1. CASE (\E m \in Names : BeginChange(c, m)) \/ BeginRead(c)
  BY <1>1 DEF BeginChange, BeginRead
<1>2. CASE Read(c)
  BY <1>2 DEF Read, CheckCache, ListSecrets, GetSecret, FillCache
<1>3. CASE Change(c)
  BY <1>3 DEF Change, OpenSecret, WriteSecret, PutCachedToken, RemoveSecret,
              DeleteCachedToken, Changes, Brings, TypeOK
<1> QED BY <1>1, <1>2, <1>3 DEF Step

\* A step of a call keeps the types.
LEMMA TokenTypes ==
  ASSUME TokenInv, NEW c \in Callers, Step(c)
  PROVE  TypeOK'
<1> USE TokenNumbers, TokenBoundsAssumption DEF TokenInv
<1>0. TypeOK /\ Changed(c) /\ call[c] \in Call
  BY DEF TypeOK
<1>1. CASE \E n \in Names : BeginChange(c, n)
  <2> PICK n \in Names : BeginChange(c, n)
    BY <1>1
  <2>1. started + 1 \in Tokens /\ started' \in 0..MaxCalls
    BY DEF TypeOK, BeginChange, Tokens
  <2>2. call' \in [Callers -> Call]
    BY <1>0, ChangeBegins
  <2>3. pc' \in [Callers -> Steps]
    BY <1>0 DEF BeginChange, Goto, TypeOK, Steps
  <2>4. given' \in [Names -> SUBSET Tokens]
    BY <1>0, <2>1 DEF BeginChange, TypeOK
  <2>5. UNCHANGED <<stored, cache, loaded, crashes, revoked, known, stale, crossed>>
    BY DEF BeginChange
  <2> QED BY <1>0, <2>1, <2>2, <2>3, <2>4, <2>5 DEF TypeOK
<1>2. CASE BeginRead(c)
  <2>1. started' \in 0..MaxCalls
    BY <1>2 DEF TypeOK, BeginRead
  <2>2. call' \in [Callers -> Call] /\ UNCHANGED <<stored, cache, loaded, crashes, histories>>
    BY <1>0, <1>2, ReadBegins
  <2>3. pc' \in [Callers -> Steps]
    BY <1>0, <1>2 DEF BeginRead, Goto, TypeOK, Steps
  <2> QED BY <1>0, <2>1, <2>2, <2>3 DEF TypeOK, histories
<1>3. CASE OpenSecret(c) \/ WriteSecret(c) \/ RemoveSecret(c)
  <2>1. /\ pc' \in [Callers -> Steps] /\ call' \in [Callers -> Call]
        /\ UNCHANGED <<cache, loaded, counts, histories>>
    BY <1>0, <1>3 DEF OpenSecret, WriteSecret, RemoveSecret, Goto, Return, TypeOK, Steps
  <2>2. stored' \in [Names -> Tokens \cup {None, Torn}]
    <3>1. CASE OpenSecret(c) \/ RemoveSecret(c)
      BY <1>0, <3>1 DEF OpenSecret, RemoveSecret, TypeOK
    <3>2. CASE WriteSecret(c)
      <4>1. call[c].id \in Tokens
        BY <1>0, <3>2 DEF WriteSecret, Changed, Changes, Brings, TypeOK
      <4> QED BY <1>0, <3>2, <4>1 DEF WriteSecret, TypeOK
    <3> QED BY <1>3, <3>1, <3>2
  <2> QED BY <1>0, <2>1, <2>2 DEF TypeOK, counts, histories
<1>4. CASE PutCachedToken(c) \/ DeleteCachedToken(c)
  <2>1. /\ call[c].name \in Names /\ call[c].ended \subseteq Tokens
        /\ pc[c] = "put" => call[c].id \in Tokens
    BY <1>0, <1>4
    DEF PutCachedToken, DeleteCachedToken, Changed, Changes, Brings, TypeOK, Call
  <2>2. cache' \in Entries /\ loaded' \in BOOLEAN
    BY <1>0, <1>4, <2>1 DEF PutCachedToken, DeleteCachedToken, TypeOK, Entries
  <2>3. /\ revoked' \subseteq Tokens
        /\ known' \subseteq Names /\ stale' \subseteq Names /\ crossed' \subseteq Names
    BY <1>0, <1>4, <2>1 DEF PutCachedToken, DeleteCachedToken, Answered, TypeOK
  <2>4. pc' \in [Callers -> Steps] /\ call' \in [Callers -> Call]
    BY <1>0, <1>4
    DEF PutCachedToken, DeleteCachedToken, Answered, Goto, Return, TypeOK, Steps
  <2>5. UNCHANGED <<stored, counts, given>>
    BY <1>4 DEF PutCachedToken, DeleteCachedToken
  <2> QED BY <1>0, <2>2, <2>3, <2>4, <2>5 DEF TypeOK, counts
<1>5. CASE CheckCache(c) \/ ListSecrets(c) \/ GetSecret(c)
  <2>1. /\ pc' \in [Callers -> Steps]
        /\ UNCHANGED <<stored, cache, loaded, counts, histories>>
    BY <1>0, <1>5
    DEF CheckCache, ListSecrets, GetSecret, Goto, Return, TypeOK, Steps
  <2>2. call' \in [Callers -> Call]
    <3>1. CASE CheckCache(c)
      BY <1>0, <3>1 DEF CheckCache, Return, TypeOK
    <3>2. CASE ListSecrets(c)
      BY <1>0, <3>2 DEF ListSecrets, Return, TypeOK, Call
    <3>3. CASE GetSecret(c)
      <4>1. ASSUME NEW n \in call[c].todo, stored[n] # Torn,
                   call' = [call EXCEPT ![c].todo = @ \ {n},
                                        ![c].held = [@ EXCEPT ![n] = stored[n]]]
            PROVE  call' \in [Callers -> Call]
        <5>1. n \in Names /\ stored[n] \in Tokens \cup {None}
          BY <1>0, <4>1 DEF Call, TypeOK
        <5>2. [call[c].held EXCEPT ![n] = stored[n]] \in Entries
          BY <1>0, <5>1 DEF Call, Entries
        <5> QED BY <1>0, <4>1, <5>2 DEF Call, TypeOK
      <4> QED BY <1>0, <3>3, <4>1 DEF GetSecret, Return, TypeOK
    <3> QED BY <1>5, <3>1, <3>2, <3>3
  <2> QED BY <1>0, <2>1, <2>2 DEF TypeOK, counts, histories
<1>6. CASE FillCache(c)
  BY <1>0, <1>6 DEF FillCache, Goto, Return, TypeOK, Steps, Call, counts
<1> QED BY <1>1, <1>2, <1>3, <1>4, <1>5, <1>6 DEF Step, Change, Read

\* A change that begins tells the loads and changes it meets; a call that begins
\* looks for the changes under way.
LEMMA MeetsKept ==
  ASSUME TokenInv, NEW c \in Callers, Step(c)
  PROVE  Meets'
<1>0. TypeOK /\ Meets /\ \A d \in Callers : Changed(d)
  BY DEF TokenInv
<1> SUFFICES ASSUME NEW a \in Callers, NEW b \in Callers, a # b, Changes(a)',
                    Loads(b)' \/ (Changes(b)' /\ call'[b].name = call'[a].name)
             PROVE  call'[a].name \in call'[b].met
  BY DEF Meets
<1>1. ASSUME NEW d \in Callers, d # c
      PROVE  /\ Changes(d)' = Changes(d) /\ call'[d].name = call[d].name
             /\ call[d].met \subseteq call'[d].met
  BY <1>0, <1>1, OtherTokenCalls DEF Changes
<1>2. loaded => loaded'
  BY <1>0, OwnWork DEF Step, BeginChange, BeginRead
<1>3. ASSUME NEW d \in Callers, d # c, Loads(d)'
      PROVE  Loads(d)
  BY <1>0, <1>2, <1>3, OtherTokenCalls DEF Loads
<1>4. CASE a # c /\ b # c
  BY <1>0, <1>1, <1>3, <1>4 DEF Meets
<1>5. CASE \E n \in Names : BeginChange(c, n)
  <2> PICK n \in Names : BeginChange(c, n)
    BY <1>5
  <2>1. CASE a = c
    <3>1. call'[c].name = n
      BY <1>0, ChangeBegins
    <3>2. Loads(b) \/ b \in ChangesOf(n)
      BY <1>1, <1>3, <2>1, <3>1 DEF ChangesOf
    <3>3. call'[b] = [call[b] EXCEPT !.met = @ \cup {n}]
      BY <2>1, <3>2 DEF BeginChange
    <3>4. call[b] \in Call
      BY <1>0 DEF TypeOK
    <3> QED BY <2>1, <3>1, <3>3, <3>4 DEF Call
  <2>2. CASE b = c
    <3>1. call'[c].name = n /\ call'[c].met = (IF Changing(n) THEN {n} ELSE {})
          /\ ~Loads(c)'
      BY <1>0, ChangeBegins DEF Loads
    <3>2. a \in ChangesOf(n) /\ call'[a].name = n
      BY <1>1, <2>2, <3>1 DEF ChangesOf
    <3> QED BY <2>2, <3>1, <3>2 DEF Changing
  <2> QED BY <1>4, <2>1, <2>2
<1>6. CASE BeginRead(c)
  <2>1. ~Changes(c)' /\ call'[c].met = {n \in Names : Changing(n)}
    BY <1>0, <1>6, ReadBegins DEF Changes
  <2>2. CASE b = c
    <3>1. Changes(a) /\ call'[a].name = call[a].name
      BY <1>1, <2>2
    <3>2. call[a].name \in Names /\ Changing(call[a].name)
      BY <1>0, <3>1 DEF Changed, Changing, ChangesOf
    <3> QED BY <2>1, <2>2, <3>1, <3>2
  <2> QED BY <1>4, <2>1, <2>2
<1>7. CASE Change(c) \/ Read(c)
  <2>1. \/ ~Changes(c)' /\ ~Loads(c)'
        \/ /\ call'[c].name = call[c].name /\ call'[c].met = call[c].met
           /\ Changes(c)' => Changes(c)
           /\ Loads(c)' => Loads(c)
    BY <1>0, <1>7, OwnWork DEF Changes, Loads
  <2>2. /\ Changes(a) /\ call'[a].name = call[a].name
        /\ call'[b].name = call[b].name /\ call[b].met \subseteq call'[b].met
        /\ Loads(b) \/ (Changes(b) /\ call[b].name = call[a].name)
    BY <1>1, <1>3, <2>1
  <2> QED BY <1>0, <2>2 DEF Meets
<1> QED BY <1>5, <1>6, <1>7 DEF Step

\* The answer of a change ends tokens of calls that are over, which are neither
\* stored nor still to be.
LEMMA Answers ==
  ASSUME TokenInv, NEW c \in Callers, PutCachedToken(c) \/ DeleteCachedToken(c)
  PROVE  /\ revoked' = revoked \cup call[c].ended
         /\ call[c].name \in Names /\ call[c].ended \subseteq given[call[c].name]
         /\ \A n \in Names : stored[n] \notin call[c].ended
         /\ \A d \in Callers : Brings(d) => call[d].id \notin call[c].ended
         /\ UNCHANGED <<stored, started, given>>
<1> USE DEF TokenInv
<1>1. /\ revoked' = revoked \cup call[c].ended /\ UNCHANGED <<stored, started, given>>
      /\ Changes(c) /\ pc[c] \in {"put", "drop"}
  BY DEF PutCachedToken, DeleteCachedToken, Answered, Changes, counts
<1>2. /\ call[c].name \in Names /\ call[c].ended \subseteq given[call[c].name]
      /\ stored[call[c].name] \notin call[c].ended
  BY <1>1 DEF Changed
<1>3. ASSUME NEW n \in Names, n # call[c].name
      PROVE  stored[n] \notin call[c].ended
  <2>1. stored[n] \in given[n] \cup {None, Torn} /\ given[n] \cap given[call[c].name] = {}
    BY <1>2, <1>3 DEF Givens
  <2>2. call[c].ended \subseteq Tokens
    BY DEF TypeOK, Call
  <2> QED BY <1>2, <2>1, <2>2, TokenNumbers
<1>4. \A d \in Callers : Brings(d) => call[d].id \notin call[c].ended
  BY <1>1 DEF Fresh
<1> QED BY <1>1, <1>2, <1>3, <1>4

\* The ids of changes under way stay out of what the answers end.
LEMMA FreshKept ==
  ASSUME TokenInv, NEW c \in Callers, Step(c)
  PROVE  Fresh'
<1>0. TypeOK /\ Fresh /\ Givens /\ \A d \in Callers : Changed(d)
  BY DEF TokenInv
<1> SUFFICES ASSUME NEW a \in Callers, NEW b \in Callers, Brings(a)', Changes(b)'
             PROVE  call'[a].id \notin call'[b].ended
  BY DEF Fresh
<1>1. ASSUME NEW d \in Callers, d # c
      PROVE  /\ Brings(d)' = Brings(d) /\ Changes(d)' = Changes(d)
             /\ call'[d].id = call[d].id /\ call'[d].ended = call[d].ended
  BY <1>0, <1>1, OtherTokenCalls DEF Changes, Brings
<1>2. CASE a # c /\ b # c
  BY <1>0, <1>1, <1>2 DEF Fresh
<1>3. CASE \E n \in Names : BeginChange(c, n)
  <2> PICK n \in Names : BeginChange(c, n)
    BY <1>3
  <2> DEFINE new == given[n] \ {call[e].id : e \in ChangesOf(n)}
  <2>1. call'[c].id = started + 1 /\ call'[c].ended = new
    BY <1>0, ChangeBegins
  <2>2. ASSUME NEW t \in Names
        PROVE  started + 1 \notin given[t]
    <3>1. started \in Nat /\ given[t] \subseteq 1..started
      BY <1>0, TokenBoundsAssumption DEF TypeOK, Givens
    <3> QED BY <3>1
  <2>3. CASE a = c /\ b = c
    BY <2>1, <2>2, <2>3
  <2>4. CASE a = c /\ b # c
    <3>1. call[b].ended \subseteq given[call[b].name] /\ call[b].name \in Names
      BY <1>0, <1>1, <2>4 DEF Changed
    <3> QED BY <1>1, <2>1, <2>2, <2>4, <3>1
  <2>5. CASE a # c /\ b = c
    <3>1. Brings(a) /\ Changes(a) /\ call'[a].id = call[a].id
      BY <1>1, <2>5 DEF Brings, Changes
    <3>2. call[a].id \in given[call[a].name] /\ call[a].name \in Names
      BY <1>0, <3>1 DEF Changed
    <3>3. CASE call[a].name = n
      BY <2>1, <2>5, <3>1, <3>3 DEF ChangesOf
    <3>4. CASE call[a].name # n
      BY <1>0, <2>1, <2>5, <3>1, <3>2, <3>4 DEF Givens
    <3> QED BY <3>3, <3>4
  <2> QED BY <1>2, <2>3, <2>4, <2>5
<1>4. CASE BeginRead(c)
  <2>1. ~Changes(c)' /\ ~Brings(c)'
    BY <1>0, <1>4, ReadBegins DEF Changes, Brings
  <2> QED BY <1>2, <2>1
<1>5. CASE Change(c) \/ Read(c)
  <2>1. \/ ~Changes(c)' /\ ~Brings(c)'
        \/ /\ call'[c].id = call[c].id /\ call'[c].ended = call[c].ended
           /\ Brings(c)' => Brings(c)
           /\ Changes(c)' => Changes(c)
    BY <1>0, <1>5, OwnWork DEF Changes, Brings
  <2>2. /\ Brings(a) /\ call'[a].id = call[a].id
        /\ Changes(b) /\ call'[b].ended = call[b].ended
    BY <1>1, <2>1
  <2> QED BY <1>0, <2>2 DEF Fresh
<1> QED BY <1>3, <1>4, <1>5 DEF Step

\* Tokens given stay, and those under way are not revoked by others' answers.
LEMMA TokensGiven ==
  ASSUME TokenInv, NEW c \in Callers, Step(c)
  PROVE  /\ \A n \in Names : given[n] \subseteq given'[n]
         /\ revoked \subseteq revoked'
         /\ \A d \in Callers : Brings(d) => (call[d].id \in revoked' => call[d].id \in revoked)
<1> USE DEF TokenInv
<1>1. CASE \E n \in Names : BeginChange(c, n)
  <2> PICK n \in Names : BeginChange(c, n)
    BY <1>1
  <2>1. /\ revoked' = revoked
        /\ given' = [given EXCEPT ![n] = @ \cup {started + 1}] \/ UNCHANGED given
    BY DEF BeginChange
  <2> QED BY <2>1 DEF TypeOK
<1>2. CASE PutCachedToken(c) \/ DeleteCachedToken(c)
  BY <1>2, Answers
<1>3. CASE BeginRead(c) \/ CheckCache(c) \/ ListSecrets(c) \/ GetSecret(c) \/ FillCache(c)
  BY <1>3 DEF BeginRead, CheckCache, ListSecrets, GetSecret, FillCache, histories
<1>4. CASE OpenSecret(c) \/ WriteSecret(c) \/ RemoveSecret(c)
  BY <1>4 DEF OpenSecret, WriteSecret, RemoveSecret, histories
<1> QED BY <1>1, <1>2, <1>3, <1>4 DEF Step, Change, Read

LEMMA ChangedKept ==
  ASSUME TokenInv, NEW c \in Callers, Step(c), NEW d \in Callers
  PROVE  Changed(d)'
<1> USE TokenNumbers
<1>0. TypeOK /\ Meets /\ Givens /\ Fresh /\ Changed(d) /\ Changed(c) /\ call[d] \in Call
  BY DEF TokenInv, TypeOK
<1>1. CASE d = c
  <2>1. CASE \E n \in Names : BeginChange(c, n)
    <3> PICK n \in Names : BeginChange(c, n)
      BY <2>1
    <3>a. /\ call'[c].id = started + 1 /\ call'[c].name = n
          /\ call'[c].ended = given[n] \ {call[e].id : e \in ChangesOf(n)}
      BY <1>0, ChangeBegins
    <3>b. /\ pc'[c] \in {"open", "remove"} /\ revoked' = revoked
          /\ \/ pc'[c] = "open" /\ given' = [given EXCEPT ![n] = @ \cup {started + 1}]
             \/ pc'[c] = "remove" /\ UNCHANGED given
      BY <1>0 DEF BeginChange, Goto, TypeOK
    <3>1. call'[c].ended \subseteq given[n]
      BY <3>a
    <3>2. started + 1 \notin revoked
      <4>1. started \in Nat /\ revoked \subseteq 1..started
        BY <1>0, TokenBoundsAssumption DEF TypeOK, Givens
      <4> QED BY <4>1
    <3>3. given[n] \subseteq given'[n] /\ (pc'[c] = "open" => started + 1 \in given'[n])
      BY <1>0, <3>b DEF TypeOK
    <3> QED BY <1>1, <3>a, <3>b, <3>1, <3>2, <3>3 DEF Changed, Changes, Brings
  <2>2. CASE BeginRead(c)
    <3>1. pc'[c] = "check"
      BY <1>0, <2>2, ReadBegins
    <3> QED BY <1>1, <3>1 DEF Changed, Changes, Brings
  <2>3. CASE OpenSecret(c) \/ WriteSecret(c) \/ RemoveSecret(c)
    <3>1. UNCHANGED <<given, revoked>>
      BY <2>3 DEF OpenSecret, WriteSecret, RemoveSecret, histories
    <3>2. CASE pc'[c] = "idle"
      BY <1>1, <3>2 DEF Changed, Changes, Brings
    <3>3. CASE pc'[c] # "idle"
      <4> DEFINE n == call[c].name
      <4>1. /\ UNCHANGED call /\ Changes(c)
            /\ \/ pc[c] = "open" /\ pc'[c] = "write" /\ stored' = [stored EXCEPT ![n] = Torn]
               \/ pc[c] = "write" /\ pc'[c] = "put"
                  /\ stored' = [stored EXCEPT ![n] = call[c].id]
               \/ pc[c] = "remove" /\ pc'[c] = "drop"
                  /\ stored' = [stored EXCEPT ![n] = None]
        BY <1>0, <2>3, <3>3
        DEF OpenSecret, WriteSecret, RemoveSecret, Changes, Goto, Return, TypeOK
      <4>2. n \in Names /\ call[c].ended \subseteq Tokens
        BY <1>0, <1>1, <4>1 DEF Changed, Call
      <4>3. Brings(c) => call[c].id \notin call[c].ended
        BY <1>0, <4>1 DEF Fresh
      <4>4. /\ pc'[c] = "write" => stored'[n] = Torn
            /\ pc'[c] = "put" => stored'[n] = call[c].id /\ Brings(c)
            /\ pc'[c] = "drop" => stored'[n] = None
        BY <1>0, <4>1, <4>2 DEF TypeOK, Brings
      <4>5. Brings(c)' => Brings(c)
        BY <4>1 DEF Brings
      <4> QED BY <1>0, <1>1, <3>1, <4>1, <4>2, <4>3, <4>4, <4>5 DEF Changed, Brings, Changes
    <3> QED BY <3>2, <3>3
  <2>4. CASE PutCachedToken(c) \/ DeleteCachedToken(c)
    <3>1. pc'[c] = "idle"
      BY <1>0, <2>4 DEF PutCachedToken, DeleteCachedToken, Answered, Return, Goto, TypeOK
    <3> QED BY <1>1, <3>1 DEF Changed, Changes, Brings
  <2>5. CASE Read(c)
    <3>1. ~Changes(c)'
      BY <1>0, <2>5
      DEF Read, CheckCache, ListSecrets, GetSecret, FillCache, Return, Goto, TypeOK, Changes
    <3> QED BY <1>1, <3>1 DEF Changed, Changes, Brings
  <2> QED BY <2>1, <2>2, <2>3, <2>4, <2>5 DEF Step, Change
<1>2. CASE d # c
  <2> DEFINE m == call[d].name
  <2>1. /\ pc'[d] = pc[d] /\ call'[d].id = call[d].id /\ call'[d].name = m
        /\ call'[d].ended = call[d].ended /\ call[d].met \subseteq call'[d].met
    BY <1>0, <1>2, OtherTokenCalls
  <2>2. CASE ~Changes(d)
    BY <2>1, <2>2 DEF Changed, Changes, Brings
  <2>3. CASE Changes(d)
    <3>1. m \in Names /\ call[d].ended \subseteq given'[m] /\ given[m] \subseteq given'[m]
      BY <1>0, <2>3, TokensGiven DEF Changed
    <3>2. Brings(d) => call[d].id \in given'[m] \ revoked'
      BY <1>0, <3>1, TokensGiven DEF Changed
    <3>3. \/ stored'[m] = stored[m]
          \/ Changes(c) /\ call[c].name = m /\ stored'[m] \notin call[d].ended
      <4>1. \/ stored'[m] = stored[m]
            \/ /\ Changes(c) /\ call[c].name = m
               /\ \/ stored'[m] \in {None, Torn}
                  \/ Brings(c) /\ stored'[m] = call[c].id
        BY <1>0, <3>1, StoreSteps
      <4>2. call[d].ended \subseteq Tokens
        BY <1>0 DEF Call
      <4>3. Brings(c) => call[c].id \notin call[d].ended
        BY <1>0, <2>3 DEF Fresh
      <4> QED BY <4>1, <4>2, <4>3
    <3>4. pc[d] \in {"put", "drop"} => stored'[m] \notin call[d].ended
      BY <1>0, <3>3 DEF Changed
    <3>5. m \notin call'[d].met => stored'[m] = stored[m]
      BY <1>0, <1>2, <2>1, <2>3, <3>3 DEF Meets
    <3> QED BY <1>0, <2>1, <3>1, <3>2, <3>4, <3>5 DEF Changed, Changes, Brings
  <2> QED BY <2>2, <2>3
<1> QED BY <1>1, <1>2

\* A new token is no other name's; the answered change of a name ends no token of
\* another, and leaves in the cache what it has stored, or what no answer ended.
LEMMA GivensKept ==
  ASSUME TokenInv, NEW c \in Callers, Step(c)
  PROVE  Givens'
<1> USE TokenNumbers
<1>0. TypeOK /\ Givens /\ Changed(c) /\ Loaded(c) /\ started \in Nat
  BY TokenBoundsAssumption DEF TokenInv, TypeOK
<1>1. CASE \E n \in Names : BeginChange(c, n)
  <2> PICK n \in Names : BeginChange(c, n)
    BY <1>1
  <2>1. /\ UNCHANGED <<stored, cache, revoked, stale>> /\ started' = started + 1
        /\ given' = [given EXCEPT ![n] = @ \cup {started + 1}] \/ UNCHANGED given
    BY DEF BeginChange
  <2>2. \A m \in Names : /\ given[m] \subseteq given'[m]
                         /\ given'[m] \subseteq given[m] \cup {started + 1}
                         /\ m # n => given'[m] = given[m]
    BY <1>0, <2>1 DEF TypeOK
  <2>3. \A m \in Names : started + 1 \notin given[m]
    BY <1>0 DEF Givens
  <2>4. 1..started \cup {started + 1} \subseteq 1..(started + 1)
    BY <1>0
  <2>5. \A m \in Names : given'[m] \subseteq 1..started'
    BY <1>0, <2>1, <2>2, <2>4 DEF Givens
  <2>6. \A l, m \in Names : l # m => given'[l] \cap given'[m] = {}
    <3> SUFFICES ASSUME NEW l \in Names, NEW m \in Names, l # m
                 PROVE  given'[l] \cap given'[m] = {}
      OBVIOUS
    <3>1. given[l] \cap given[m] = {}
      BY <1>0 DEF Givens
    <3>2. given'[l] = given[l] \/ given'[m] = given[m]
      BY <2>2
    <3> QED BY <2>2, <2>3, <3>1, <3>2
  <2>7. /\ \A m \in Names : stored'[m] \in (given'[m] \ revoked') \cup {None, Torn}
        /\ \A m \in Names \ stale' : cache'[m] \in (given'[m] \ revoked') \cup {None}
    BY <1>0, <2>1, <2>2 DEF Givens
  <2>8. revoked' \subseteq 1..started'
    BY <1>0, <2>1, <2>4 DEF Givens
  <2> QED BY <2>5, <2>6, <2>7, <2>8 DEF Givens
<1>2. CASE BeginRead(c) \/ CheckCache(c) \/ ListSecrets(c) \/ GetSecret(c)
  <2>1. UNCHANGED <<stored, cache, given, revoked, stale>> /\ started' \in {started, started + 1}
    BY <1>2 DEF BeginRead, CheckCache, ListSecrets, GetSecret, counts, histories
  <2>2. 1..started \subseteq 1..started'
    BY <1>0, <2>1
  <2> QED BY <1>0, <2>1, <2>2 DEF Givens
<1>3. CASE OpenSecret(c) \/ WriteSecret(c) \/ RemoveSecret(c)
  <2>1. UNCHANGED <<cache, given, revoked, stale, started>>
    BY <1>3 DEF OpenSecret, WriteSecret, RemoveSecret, counts, histories
  <2>2. \A n \in Names : stored'[n] \in (given[n] \ revoked) \cup {None, Torn}
    BY <1>0, <1>3, StoreSteps DEF Givens, Changed, Step, Change
  <2> QED BY <1>0, <2>1, <2>2 DEF Givens
<1>4. CASE PutCachedToken(c) \/ DeleteCachedToken(c)
  <2> DEFINE n == call[c].name
             new == IF pc[c] = "put" THEN call[c].id ELSE None
  <2>1. /\ revoked' = revoked \cup call[c].ended /\ UNCHANGED <<stored, started, given>>
        /\ n \in Names /\ call[c].ended \subseteq given[n]
        /\ \A m \in Names : stored[m] \notin call[c].ended
        /\ Brings(c) => call[c].id \notin call[c].ended
    BY <1>4, Answers
  <2>2. cache' = [cache EXCEPT ![n] = new] /\ stale' = stale \ {n}
    BY <1>4 DEF PutCachedToken, DeleteCachedToken, Answered
  <2>3. new \in (given[n] \ revoked') \cup {None}
    BY <1>0, <2>1 DEF Changed, Brings
  <2> HIDE DEF n, new
  <2>4. ASSUME NEW m \in Names \ stale'
        PROVE  cache'[m] \in (given[m] \ revoked') \cup {None}
    <3>1. CASE m = n
      BY <1>0, <2>2, <2>3, <3>1 DEF TypeOK, Entries
    <3>2. CASE m # n
      <4>1. cache'[m] = cache[m] /\ m \notin stale
        BY <1>0, <2>2, <3>2 DEF TypeOK, Entries
      <4>2. cache[m] \in (given[m] \ revoked) \cup {None}
        BY <1>0, <4>1 DEF Givens
      <4>3. given[m] \cap given[n] = {}
        BY <1>0, <2>1, <3>2 DEF Givens
      <4> QED BY <2>1, <4>1, <4>2, <4>3
    <3> QED BY <3>1, <3>2
  <2>5. revoked' \subseteq 1..started
    BY <1>0, <2>1 DEF Givens
  <2>6. \A m \in Names : stored'[m] \in (given[m] \ revoked') \cup {None, Torn}
    BY <1>0, <2>1 DEF Givens
  <2> QED BY <1>0, <2>1, <2>4, <2>5, <2>6 DEF Givens
<1>5. CASE FillCache(c)
  <2>1. /\ cache' = call[c].held /\ stale' = call[c].met
        /\ UNCHANGED <<stored, given, revoked, started>>
    BY <1>5 DEF FillCache, counts
  <2>2. \A n \in Names \ stale' : cache'[n] = stored[n]
    BY <1>0, <1>5, <2>1 DEF FillCache, Loaded
  <2>3. \A n \in Names : cache'[n] \in Tokens \cup {None}
    BY <1>0, <2>1 DEF TypeOK, Call, Entries
  <2> QED BY <1>0, <2>1, <2>2, <2>3 DEF Givens
<1> QED BY <1>1, <1>2, <1>3, <1>4, <1>5 DEF Step, Change, Read

\* A load reads what is stored of the names it has met no change of.
LEMMA LoadedKept ==
  ASSUME TokenInv, NEW c \in Callers, Step(c), NEW d \in Callers
  PROVE  Loaded(d)'
<1> USE TokenNumbers
<1>0. TypeOK /\ Meets /\ Loaded(d) /\ call[d] \in Call /\ revoked \subseteq revoked'
  BY TokensGiven DEF TokenInv, TypeOK
<1>1. CASE d # c
  <2>1. /\ pc'[d] = pc[d] /\ call'[d].todo = call[d].todo /\ call'[d].held = call[d].held
        /\ call'[d].ended = call[d].ended /\ call[d].met \subseteq call'[d].met
    BY <1>0, <1>1, OtherTokenCalls
  <2>2. ASSUME pc[d] \in {"get", "fill"}, NEW n \in Names \ call'[d].met
        PROVE  stored'[n] = stored[n] /\ n \notin call[d].met
    <3>1. Changes(c) => call[c].name # n
      BY <1>0, <1>1, <2>1, <2>2 DEF Meets, Loads
    <3> QED BY <1>0, <2>1, <2>2, <3>1, StoreSteps
  <2> QED BY <1>0, <2>1, <2>2 DEF Loaded
<1>2. CASE d = c
  <2>1. CASE \E n \in Names : BeginChange(c, n)
    <3> PICK n \in Names : BeginChange(c, n)
      BY <2>1
    <3>1. pc'[c] \in {"open", "remove"}
      BY <1>0, ChangeBegins
    <3> QED BY <1>2, <3>1 DEF Loaded
  <2>2. CASE BeginRead(c)
    <3>1. /\ pc'[c] = "check" /\ call'[c].held = NoEntries /\ call'[c].ended = revoked
      BY <1>0, <2>2, ReadBegins
    <3> QED BY <1>0, <1>2, <3>1 DEF Loaded
  <2>3. CASE Change(c) \/ FillCache(c)
    <3>1. pc'[c] \notin {"check", "list", "get", "fill"}
      BY <1>0, <2>3
      DEF Change, OpenSecret, WriteSecret, PutCachedToken, RemoveSecret, DeleteCachedToken,
          Answered, FillCache, Goto, Return, TypeOK
    <3> QED BY <1>2, <3>1 DEF Loaded
  <2>4. CASE CheckCache(c)
    <3>1. /\ pc[c] = "check" /\ UNCHANGED <<stored, revoked>>
          /\ \/ pc'[c] = "idle"
             \/ pc'[c] = "list" /\ UNCHANGED call
      BY <1>0, <2>4 DEF CheckCache, Goto, Return, TypeOK, histories
    <3> QED BY <1>0, <1>2, <3>1 DEF Loaded
  <2>5. CASE ListSecrets(c)
    <3>1. /\ pc[c] = "list" /\ UNCHANGED <<stored, revoked>>
          /\ \/ pc'[c] = "idle"
             \/ /\ pc'[c] = "get"
                /\ call' = [call EXCEPT ![c].todo = {n \in Names : stored[n] # None}]
      BY <1>0, <2>5 DEF ListSecrets, Goto, Return, TypeOK, histories
    <3>2. CASE pc'[c] = "idle"
      BY <1>2, <3>2 DEF Loaded
    <3>3. CASE pc'[c] = "get"
      <4>1. /\ call'[c].held = call[c].held /\ call'[c].ended = call[c].ended
            /\ call'[c].todo = {n \in Names : stored[n] # None}
        BY <1>0, <1>2, <3>1, <3>3 DEF Call, TypeOK
      <4>2. call[c].held = NoEntries /\ call[c].ended \subseteq revoked
        BY <1>0, <1>2, <3>1 DEF Loaded
      <4> QED BY <1>2, <3>1, <3>3, <4>1, <4>2 DEF Loaded, NoEntries
    <3> QED BY <3>1, <3>2, <3>3
  <2>6. CASE GetSecret(c)
    <3>1. pc[c] = "get" /\ UNCHANGED <<stored, revoked>> /\ call[c].ended \subseteq revoked
      BY <1>0, <1>2, <2>6 DEF GetSecret, Loaded, histories
    <3>2. CASE call[c].todo = {} /\ Goto(c, "fill") /\ UNCHANGED call
      <4>1. pc'[c] = "fill"
        BY <1>0, <3>2 DEF Goto, TypeOK
      <4> QED BY <1>0, <1>2, <3>1, <3>2, <4>1 DEF Loaded
    <3>3. ASSUME NEW n \in call[c].todo, UNCHANGED pc,
                 call' = [call EXCEPT ![c].todo = @ \ {n}, ![c].held = [@ EXCEPT ![n] = stored[n]]]
          PROVE  Loaded(c)'
      <4>1. /\ call'[c].todo = call[c].todo \ {n}
            /\ call'[c].held = [call[c].held EXCEPT ![n] = stored[n]]
            /\ call'[c].ended = call[c].ended /\ call'[c].met = call[c].met
        BY <1>0, <1>2, <3>3 DEF Call, TypeOK
      <4>2. \A m \in Names : call'[c].held[m] =
                                IF m = n THEN stored[n] ELSE call[c].held[m]
        BY <1>0, <1>2, <4>1 DEF Call, Entries
      <4>3. ASSUME NEW m \in Names \ call[c].met
            PROVE  call'[c].held[m] = IF m \in call'[c].todo THEN None ELSE stored[m]
        <5>1. call[c].held[m] = IF m \in call[c].todo THEN None ELSE stored[m]
          BY <1>0, <1>2, <3>1 DEF Loaded
        <5> QED BY <4>1, <4>2, <5>1
      <4> QED BY <3>1, <3>3, <4>1, <4>3 DEF Loaded
    <3>4. CASE Return(c)
      <4>1. pc'[c] = "idle"
        BY <1>0, <3>4 DEF Return, Goto, TypeOK
      <4> QED BY <1>2, <4>1 DEF Loaded
    <3> QED BY <1>2, <2>6, <3>2, <3>3, <3>4 DEF GetSecret
  <2> QED BY <2>1, <2>2, <2>3, <2>4, <2>5, <2>6 DEF Step, Read
<1> QED BY <1>1, <1>2

LEMMA ColdEmptyKept ==
  ASSUME TokenInv, NEW c \in Callers, Step(c)
  PROVE  ColdEmpty'
<1> USE DEF TokenInv, ColdEmpty
<1>1. CASE (\E n \in Names : BeginChange(c, n)) \/ BeginRead(c)
  BY <1>1 DEF BeginChange, BeginRead, histories
<1>2. CASE Change(c)
  BY <1>2 DEF Change, OpenSecret, WriteSecret, PutCachedToken, RemoveSecret,
              DeleteCachedToken, histories
<1>3. CASE Read(c)
  BY <1>3 DEF Read, CheckCache, ListSecrets, GetSecret, FillCache, histories
<1> QED BY <1>1, <1>2, <1>3 DEF Step

\* A name comes to agree again when a change that met no other, or a load that met
\* none of its changes, reaches the cache.
LEMMA AgreesKept ==
  ASSUME TokenInv, NEW c \in Callers, Step(c)
  PROVE  Agrees'
<1> USE TokenNumbers
<1>0. TypeOK /\ Agrees /\ ColdEmpty /\ Changed(c) /\ Loaded(c)
  BY DEF TokenInv
<1> SUFFICES ASSUME NEW n \in Names, n \notin stale', n \notin crossed', loaded',
                    stored'[n] # Torn,
                    \A d \in Callers : pc'[d] \in {"put", "drop"} => call'[d].name # n
             PROVE  /\ cache'[n] \in {None, stored'[n]}
                    /\ n \in known' => cache'[n] = stored'[n]
  BY DEF Agrees
<1>1. \A d \in Callers \ {c} :
         pc[d] \in {"put", "drop"} => call[d].name # n
  BY <1>0, OtherTokenCalls
<1>2. CASE (\E m \in Names : BeginChange(c, m)) \/ BeginRead(c)
  <2>1. pc[c] = "idle" /\ UNCHANGED <<stored, cache, loaded, known, stale, crossed>>
    BY <1>2 DEF BeginChange, BeginRead, histories
  <2> QED BY <1>0, <1>1, <2>1 DEF Agrees
<1>3. CASE CheckCache(c) \/ ListSecrets(c) \/ GetSecret(c)
  <2>1. /\ pc[c] \in {"check", "list", "get"}
        /\ UNCHANGED <<stored, cache, loaded, known, stale, crossed>>
    BY <1>3 DEF CheckCache, ListSecrets, GetSecret, histories
  <2> QED BY <1>0, <1>1, <2>1 DEF Agrees
<1>4. CASE FillCache(c)
  <2>1. cache' = call[c].held /\ stored' = stored /\ stale' = call[c].met
    BY <1>4 DEF FillCache
  <2>2. call[c].held[n] = stored[n]
    BY <1>0, <1>4, <2>1 DEF FillCache, Loaded
  <2> QED BY <2>1, <2>2
<1>5. CASE OpenSecret(c) \/ WriteSecret(c) \/ RemoveSecret(c)
  <2>1. /\ Changes(c) /\ pc[c] \notin {"put", "drop"}
        /\ UNCHANGED <<cache, loaded, known, stale, crossed>>
    BY <1>5 DEF OpenSecret, WriteSecret, RemoveSecret, Changes, histories
  <2>2. CASE stored'[n] = stored[n]
    BY <1>0, <1>1, <2>1, <2>2 DEF Agrees
  <2>3. CASE stored'[n] # stored[n]
    <3>1. call[c].name = n
      BY <1>0, <1>5, <2>3, StoreSteps DEF Step, Change
    <3>2. stored'[n] = Torn \/ (pc'[c] \in {"put", "drop"} /\ call'[c].name = n)
      BY <1>0, <1>5, <2>3, <3>1 DEF OpenSecret, WriteSecret, RemoveSecret, TypeOK, Goto
    <3> QED BY <3>2
  <2> QED BY <2>2, <2>3
<1>6. CASE PutCachedToken(c) \/ DeleteCachedToken(c)
  <2> DEFINE m == call[c].name
             new == IF pc[c] = "put" THEN call[c].id ELSE None
  <2>1. /\ m \in Names /\ cache' = [cache EXCEPT ![m] = new] /\ stored' = stored
        /\ known' = known \cup {m} /\ stale' = stale \ {m}
        /\ crossed' = IF m \in call[c].met THEN crossed \cup {m} ELSE crossed \ {m}
    BY <1>0, <1>6 DEF PutCachedToken, DeleteCachedToken, Answered, Changed, Changes
  <2>2. m \notin call[c].met => stored[m] = new
    BY <1>0, <1>6 DEF PutCachedToken, DeleteCachedToken, Changed
  <2> HIDE DEF new, m
  <2>3. CASE m = n
    BY <1>0, <2>1, <2>2, <2>3 DEF TypeOK, Entries
  <2>4. CASE m # n
    <3>1. /\ cache'[n] = cache[n] /\ stored'[n] = stored[n] /\ (n \in known' => n \in known)
          /\ n \notin stale /\ n \notin crossed
      BY <1>0, <2>1, <2>4 DEF TypeOK, Entries
    <3>2. CASE loaded
      BY <1>0, <1>1, <2>4, <3>1, <3>2 DEF Agrees, m
    <3>3. CASE ~loaded
      BY <1>0, <3>1, <3>3 DEF ColdEmpty, NoEntries
    <3> QED BY <3>2, <3>3
  <2> QED BY <2>3, <2>4
<1> QED BY <1>2, <1>3, <1>4, <1>5, <1>6 DEF Step, Change, Read

LEMMA CrashKept ==
  ASSUME TokenInv, Crash
  PROVE  TokenInv'
<1> USE TokenNumbers DEF TokenInv
<1>1. TypeOK'
  <2>1. pc' \in [Callers -> Steps] /\ call' \in [Callers -> Call]
    BY DEF Crash, Steps
  <2>2. crashes' \in 0..MaxCrashes
    BY TokenBoundsAssumption DEF TypeOK, Crash
  <2>3. /\ cache' \in Entries /\ loaded' \in BOOLEAN
        /\ known' = {} /\ stale' = {} /\ crossed' = {}
    BY DEF Crash
  <2>4. UNCHANGED <<stored, started, given, revoked>>
    BY DEF Crash
  <2> QED BY <2>1, <2>2, <2>3, <2>4 DEF TypeOK
<1>2. Meets' /\ Fresh' /\ ColdEmpty' /\ Agrees'
  BY DEF Crash, Meets, Fresh, Brings, ColdEmpty, Agrees, Changes
<1>3. Givens'
  BY DEF Crash, Givens, NoEntries
<1>4. \A c \in Callers : Changed(c)' /\ Loaded(c)'
  BY DEF Crash, Changed, Loaded, Changes, Brings
<1> QED BY <1>1, <1>2, <1>3, <1>4

LEMMA TokenStep ==
  ASSUME TokenInv, [Next]_vars
  PROVE  TokenInv'
<1>1. ASSUME NEW c \in Callers, Step(c)
      PROVE  TokenInv'
  <2>1. TypeOK' /\ Meets' /\ Givens' /\ Fresh' /\ ColdEmpty' /\ Agrees'
    BY <1>1, TokenTypes, MeetsKept, GivensKept, FreshKept, ColdEmptyKept, AgreesKept
  <2>2. \A d \in Callers : Changed(d)' /\ Loaded(d)'
    BY <1>1, ChangedKept, LoadedKept
  <2> QED BY <2>1, <2>2 DEF TokenInv
<1>2. CASE Crash
  BY <1>2, CrashKept
<1>3. CASE UNCHANGED vars
  BY <1>3 DEF vars, counts, histories, TokenInv, TypeOK, Meets, Givens, Fresh, Brings,
              ColdEmpty, Agrees, Changed, Loaded, Changes, Loads
<1> QED BY <1>1, <1>2, <1>3 DEF Next, Step

\* The invariant holds whatever calls overlap (manager.go takes the mutex around
\* single accesses only).
THEOREM TokenInvariant == Spec => []TokenInv
<1>1. Init => TokenInv
  BY TokenInit
<1>2. TokenInv /\ [Next]_vars => TokenInv'
  BY TokenStep
<1> QED BY <1>1, <1>2, PTL DEF Spec

\* The token cache says what the store says, of every name this process has loaded
\* or changed and did not cache beside another change of it (putCachedToken,
\* deleteCachedToken and loadCache after the store).
THEOREM CacheStaysTrue == Spec => []CacheAgrees
<1>1. TokenInv => CacheAgrees
  BY DEF TokenInv, Agrees, CacheAgrees, Changing, ChangesOf, Changes
<1> QED BY <1>1, TokenInvariant, PTL

\* A token whose deletion or rotation was answered is not answered from by any later
\* call (ValidateBearerToken and List), unless a load that ran beside a change of the
\* name brought it back; overlapping changes, failures and kills do not.
THEOREM RevokedTokensRefused == Spec => RevokedRefused
<1> DEFINE Refused == \A c \in Callers :
              (pc[c] = "check" /\ loaded) \/ pc[c] = "fill" =>
                 \/ pc'[c] = pc[c]
                 \/ crashes' # crashes
                 \/ \A n \in Names \ stale' : AnswersFrom(c)[n] \notin call[c].ended
<1>1. ASSUME TokenInv, Next, NEW c \in Callers,
             (pc[c] = "check" /\ loaded) \/ pc[c] = "fill",
             pc'[c] # pc[c], crashes' = crashes, NEW n \in Names \ stale'
      PROVE  AnswersFrom(c)[n] \notin call[c].ended
  <2>1. call[c].ended \subseteq revoked /\ revoked \subseteq Tokens /\ TypeOK
    BY <1>1 DEF TokenInv, Loaded, TypeOK
  <2>2. ~Crash
    BY <1>1, <2>1 DEF Crash, TypeOK
  <2>3. CheckCache(c) \/ FillCache(c)
    <3>1. PICK d \in Callers : Step(d)
      BY <1>1, <2>2 DEF Next, Step
    <3>2. d = c
      BY <1>1, <2>1, <3>1, OtherTokenCalls
    <3>3. ~BeginRead(c) /\ ~Change(c) /\ ~ListSecrets(c) /\ ~GetSecret(c)
          /\ \A m \in Names : ~BeginChange(c, m)
      BY <1>1 DEF BeginRead, Change, OpenSecret, WriteSecret, PutCachedToken, RemoveSecret,
                  DeleteCachedToken, ListSecrets, GetSecret, BeginChange
    <3> QED BY <3>1, <3>2, <3>3 DEF Step, Read
  <2>4. CASE CheckCache(c)
    <3>1. pc[c] = "check" /\ n \notin stale
      BY <1>1, <2>4 DEF CheckCache, histories
    <3>2. cache[n] \notin revoked
      BY <1>1, <2>1, <3>1, TokenNumbers DEF TokenInv, Givens
    <3> QED BY <2>1, <3>1, <3>2 DEF AnswersFrom
  <2>5. CASE FillCache(c)
    <3>1. pc[c] = "fill" /\ n \notin call[c].met
      BY <1>1, <2>5 DEF FillCache
    <3>2. call[c].held[n] = stored[n]
      BY <1>1, <3>1 DEF TokenInv, Loaded
    <3>3. stored[n] \notin revoked
      BY <1>1, <2>1, TokenNumbers DEF TokenInv, Givens
    <3> QED BY <2>1, <3>1, <3>2, <3>3 DEF AnswersFrom
  <2> QED BY <2>3, <2>4, <2>5
<1>2. TokenInv /\ [Next]_vars => [Refused]_pc
  BY <1>1 DEF vars
<1> HIDE DEF Refused
<1>3. Spec => [][Refused]_pc
  BY <1>2, TokenInvariant, PTL DEF Spec
<1> QED BY <1>3 DEF RevokedRefused, Refused
=============================================================================
