---------------------------- MODULE TokenManager ----------------------------
(***************************************************************************)
(* MCP tokens: one secret per token name, and a cache of all of them in the *)
(* gateway's memory.  The mutex guards single accesses to the cache.  The   *)
(* store is changed and read outside it, before the cache is: a change      *)
(* writes the store and then the cache, a load lists and reads the store    *)
(* and then installs what it read.                                          *)
(*                                                                         *)
(* A token is the number of the call that generated it; a digest compares   *)
(* as its token does.  "set" is Create and Rotate, which differ in their    *)
(* answer only, and "read" is ValidateBearerToken and List, which look at   *)
(* the same entries.  The key of the secret store is in place.              *)
(***************************************************************************)
EXTENDS Integers

CONSTANTS
    Callers,      \* goroutines that use the manager
    Names,        \* token names
    MaxCalls,     \* bound: calls started; the number names a call
    MaxCrashes    \* bound: gateway processes killed

ASSUME TokenBoundsAssumption == MaxCalls \in Nat /\ MaxCrashes \in Nat

VARIABLES
    stored,           \* the secret of each name, by the token in it
    cache, loaded,    \* Manager.cache and Manager.cacheLoaded
    pc, call,         \* the step each caller is about to take, and its locals
    started, crashes,
    given,            \* history: the tokens generated for each name
    revoked,          \* history: tokens whose rotation or deletion was answered
    known,            \* history: names this process has loaded or changed
    stale,            \* history: names last cached by a load that ran beside a
                      \* change of them
    crossed           \* history: names last cached by a change that ran beside
                      \* another

counts == <<started, crashes>>
histories == <<given, revoked, known, stale, crossed>>
vars == <<stored, cache, loaded, pc, call, counts, histories>>

None == 0
Torn == -1

Tokens == 1..MaxCalls
Entries == [Names -> Tokens \cup {None}]
NoEntries == [n \in Names |-> None]

Steps == {"idle", "open", "write", "put", "remove", "drop",
          "check", "list", "get", "fill"}

\* todo and held: the names loadCache has yet to read, and what it read.
\* ended: the tokens that were revoked when a read started, or those that a change
\* revokes by its answer.  met: the names of the changes the call ran beside, of
\* all names for a load and of its own for a change.
Call == [id : Tokens \cup {0}, name : Names \cup {0}, todo : SUBSET Names,
         held : Entries, ended : SUBSET Tokens, met : SUBSET Names]

NoCall == [id |-> 0, name |-> 0, todo |-> {}, held |-> NoEntries, ended |-> {},
           met |-> {}]

-----------------------------------------------------------------------------
Goto(c, step) == pc' = [pc EXCEPT ![c] = step]

Return(c) == Goto(c, "idle") /\ call' = [call EXCEPT ![c] = NoCall]

Changes(c) == pc[c] \in {"open", "write", "put", "remove", "drop"}

\* The call is in loadCache, or will be.
Loads(c) == pc[c] \in {"list", "get", "fill"} \/ (pc[c] = "check" /\ ~loaded)

ChangesOf(n) == {c \in Callers : Changes(c) /\ call[c].name = n}

Changing(n) == ChangesOf(n) # {}

NewCall(n, ended, met) ==
    [id |-> started + 1, name |-> n, todo |-> {}, held |-> NoEntries,
     ended |-> ended, met |-> met]

\* Create, Rotate and Delete.  The answer will end the tokens of the name except
\* those of changes that are still under way.
BeginChange(c, n) ==
    /\ pc[c] = "idle"
    /\ started < MaxCalls
    /\ started' = started + 1
    /\ call' = [d \in Callers |->
                   IF d = c
                   THEN NewCall(n, given[n] \ {call[e].id : e \in ChangesOf(n)},
                                IF Changing(n) THEN {n} ELSE {})
                   ELSE IF Loads(d) \/ d \in ChangesOf(n)
                   THEN [call[d] EXCEPT !.met = @ \cup {n}]
                   ELSE call[d]]
    /\ \/ /\ Goto(c, "open")
          /\ given' = [given EXCEPT ![n] = @ \cup {started + 1}]
       \/ Goto(c, "remove") /\ UNCHANGED given
    /\ UNCHANGED <<stored, cache, loaded, crashes, revoked, known, stale, crossed>>

\* ValidateBearerToken and List.
BeginRead(c) ==
    /\ pc[c] = "idle"
    /\ started < MaxCalls
    /\ started' = started + 1
    /\ call' = [call EXCEPT ![c] =
                   NewCall(0, revoked, {n \in Names : Changing(n)})]
    /\ Goto(c, "check")
    /\ UNCHANGED <<stored, cache, loaded, crashes, histories>>

\* store.Set truncates the secret's file, and may fail before it.
OpenSecret(c) ==
    /\ pc[c] = "open"
    /\ \/ /\ stored' = [stored EXCEPT ![call[c].name] = Torn]
          /\ Goto(c, "write")
          /\ UNCHANGED call
       \/ Return(c) /\ UNCHANGED stored
    /\ UNCHANGED <<cache, loaded, counts, histories>>

\* store.Set writes the file, or fails and leaves it torn.
WriteSecret(c) ==
    /\ pc[c] = "write"
    /\ \/ /\ stored' = [stored EXCEPT ![call[c].name] = call[c].id]
          /\ Goto(c, "put")
          /\ UNCHANGED call
       \/ Return(c) /\ UNCHANGED stored
    /\ UNCHANGED <<cache, loaded, counts, histories>>

\* The answer to a change: the earlier tokens of the name have ended.
Answered(c) ==
    LET n == call[c].name
    IN /\ revoked' = revoked \cup call[c].ended
       /\ known' = known \cup {n}
       /\ stale' = stale \ {n}
       /\ crossed' = IF n \in call[c].met THEN crossed \cup {n} ELSE crossed \ {n}
       /\ Return(c)

\* Mutant: a cached entry is not replaced.
PutKeepsOld(c) ==
    /\ pc[c] = "put"
    /\ cache' = [cache EXCEPT ![call[c].name] = IF @ = None THEN call[c].id ELSE @]
    /\ loaded' = TRUE
    /\ Answered(c)
    /\ UNCHANGED <<stored, counts, given>>

\* putCachedToken, and the answer.
PutCachedToken(c) ==
    /\ pc[c] = "put"
    /\ cache' = [cache EXCEPT ![call[c].name] = call[c].id]
    /\ loaded' = TRUE
    /\ Answered(c)
    /\ UNCHANGED <<stored, counts, given>>

\* store.Delete, which may fail; a missing secret is no failure.
RemoveSecret(c) ==
    /\ pc[c] = "remove"
    /\ \/ /\ stored' = [stored EXCEPT ![call[c].name] = None]
          /\ Goto(c, "drop")
          /\ UNCHANGED call
       \/ Return(c) /\ UNCHANGED stored
    /\ UNCHANGED <<cache, loaded, counts, histories>>

\* Mutant: the entry stays in the cache.
DropNothing(c) ==
    /\ pc[c] = "drop"
    /\ loaded' = TRUE
    /\ Answered(c)
    /\ UNCHANGED <<stored, cache, counts, given>>

\* deleteCachedToken, and the answer.
DeleteCachedToken(c) ==
    /\ pc[c] = "drop"
    /\ cache' = [cache EXCEPT ![call[c].name] = None]
    /\ loaded' = TRUE
    /\ Answered(c)
    /\ UNCHANGED <<stored, counts, given>>

\* cachedTokens: a loaded cache is what the call answers from.
CheckCache(c) ==
    /\ pc[c] = "check"
    /\ IF loaded THEN Return(c) ELSE Goto(c, "list") /\ UNCHANGED call
    /\ UNCHANGED <<stored, cache, loaded, counts, histories>>

\* loadCache: store.List, which may fail.
ListSecrets(c) ==
    /\ pc[c] = "list"
    /\ \/ /\ call' = [call EXCEPT ![c].todo = {n \in Names : stored[n] # None}]
          /\ Goto(c, "get")
       \/ Return(c)
    /\ UNCHANGED <<stored, cache, loaded, counts, histories>>

\* loadCache: store.Get of each name.  A secret that is gone by now is skipped,
\* one that does not decode, or another failure, ends the load with an error.
GetSecret(c) ==
    /\ pc[c] = "get"
    /\ \/ /\ call[c].todo = {}
          /\ Goto(c, "fill")
          /\ UNCHANGED call
       \/ \E n \in call[c].todo :
             /\ stored[n] # Torn
             /\ call' = [call EXCEPT ![c].todo = @ \ {n}, ![c].held = [@ EXCEPT ![n] = stored[n]]]
             /\ UNCHANGED pc
       \/ call[c].todo # {} /\ Return(c)
    /\ UNCHANGED <<stored, cache, loaded, counts, histories>>

\* loadCache installs what it read, and the call answers from it.
FillCache(c) ==
    /\ pc[c] = "fill"
    /\ cache' = call[c].held
    /\ loaded' = TRUE
    /\ known' = Names
    /\ stale' = call[c].met
    /\ crossed' = {}
    /\ Return(c)
    /\ UNCHANGED <<stored, counts, given, revoked>>

\* The gateway is killed, and started again with an empty cache.
Crash ==
    /\ crashes < MaxCrashes
    /\ crashes' = crashes + 1
    /\ cache' = NoEntries
    /\ loaded' = FALSE
    /\ known' = {} /\ stale' = {} /\ crossed' = {}
    /\ pc' = [c \in Callers |-> "idle"]
    /\ call' = [c \in Callers |-> NoCall]
    /\ UNCHANGED <<stored, started, given, revoked>>

Init ==
    /\ stored = NoEntries
    /\ cache = NoEntries /\ loaded = FALSE
    /\ pc = [c \in Callers |-> "idle"]
    /\ call = [c \in Callers |-> NoCall]
    /\ started = 0 /\ crashes = 0
    /\ given = [n \in Names |-> {}]
    /\ revoked = {} /\ known = {} /\ stale = {} /\ crossed = {}

Change(c) ==
    \/ OpenSecret(c) \/ WriteSecret(c) \/ PutCachedToken(c)
    \/ RemoveSecret(c) \/ DeleteCachedToken(c)

Read(c) == CheckCache(c) \/ ListSecrets(c) \/ GetSecret(c) \/ FillCache(c)

Next ==
    \/ \E c \in Callers : BeginRead(c) \/ Change(c) \/ Read(c)
    \/ \E c \in Callers, n \in Names : BeginChange(c, n)
    \/ Crash

Spec == Init /\ [][Next]_vars

-----------------------------------------------------------------------------
(* Properties *)

TypeOK ==
    /\ stored \in [Names -> Tokens \cup {None, Torn}]
    /\ cache \in Entries /\ loaded \in BOOLEAN
    /\ pc \in [Callers -> Steps]
    /\ call \in [Callers -> Call]
    /\ started \in 0..MaxCalls /\ crashes \in 0..MaxCrashes
    /\ given \in [Names -> SUBSET Tokens]
    /\ revoked \subseteq Tokens
    /\ known \subseteq Names /\ stale \subseteq Names /\ crossed \subseteq Names

\* Between changes of a name the cache never says more of it than the store does,
\* and says all of it if this process loaded or changed the name: neither failed
\* writes nor kills nor loads leave another token, or one that is gone.  A torn
\* secret is the exception: its old token is answered from memory.  What a load or
\* a change cached of a name while another change of it was under way lasts until
\* the next change or start of the gateway.
CacheAgrees ==
    \A n \in Names \ (stale \cup crossed) :
        loaded /\ ~Changing(n) /\ stored[n] # Torn =>
            /\ cache[n] \in {None, stored[n]}
            /\ n \in known => cache[n] = stored[n]

\* What a call answers from.
AnswersFrom(c) == IF pc[c] = "check" THEN cache ELSE call[c].held

\* A call never answers from a token whose deletion or rotation was answered
\* before the call started (ValidateBearerToken after Delete or Rotate), however
\* many changes of the name overlapped.  Only a load that ran beside a change of the
\* name can bring such a token back, until the next change of it.
RevokedRefused ==
    [][\A c \in Callers :
          (pc[c] = "check" /\ loaded) \/ pc[c] = "fill" =>
             \/ pc'[c] = pc[c]
             \/ crashes' # crashes
             \/ \A n \in Names \ stale' : AnswersFrom(c)[n] \notin call[c].ended]_pc
=============================================================================
