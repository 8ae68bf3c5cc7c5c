--------------------------- MODULE McpAuthLimiter ---------------------------
(***************************************************************************)
(* The limiter of failed authentications of /mcp: per remote address the    *)
(* failures within a window, and the block they end in.  A request that was *)
(* refused reads the clock and then takes the mutex, so it may work with a  *)
(* time at which others have long gone on.  An authorized request is served *)
(* whether its address is blocked or not; a validation that ends in an      *)
(* error leaves the limiter alone.                                          *)
(*                                                                         *)
(* Time is counted in units; 0 is the zero time.  An address without an     *)
(* entry has the blank one, as a Go map read gives it.                      *)
(***************************************************************************)
EXTENDS Integers, Sequences

CONSTANTS
    Handlers,       \* goroutines that serve /mcp
    Addrs,          \* remote addresses without their ports
    MaxFailures,    \* failures that start a block
    Window, Block,  \* failureWindow, blockDuration
    MaxTime         \* bound: the time at which the clock stops

ASSUME LimiterAssumption ==
    /\ MaxFailures \in Nat \ {0} /\ Window \in Nat /\ Block \in Nat \ {0}
    /\ MaxTime \in Nat \ {0}

VARIABLES
    clock,
    failures,       \* mcpAuthLimiter.failures
    req,            \* what each handler's refused request holds
    answer,         \* history: the last answer
    recent,         \* history: when an address' last failures were counted
    blocked         \* history: until when an address was told it is blocked

vars == <<clock, failures, req, answer, recent, blocked>>

Times == 0..MaxTime
Blank == [firstFailure |-> 0, count |-> 0, blockedUntil |-> 0]
State == [firstFailure : Times \ {0}, count : Nat \ {0}, blockedUntil : 0..(MaxTime + Block)]
         \cup {Blank}

\* A refused request before it takes the mutex; now = 0: no request.
Request == [addr : Addrs \cup {0}, now : Times]
NoRequest == [addr |-> 0, now |-> 0]

Answers == {"none", "authorized", "invalid_token", "rate_limited"}

-----------------------------------------------------------------------------
\* Blocked at a time: now.Before(blockedUntil).
IsBlocked(state, now) == now < state.blockedUntil

Outdated(state, now) == now - state.firstFailure > Window

\* Mutant: a blocked address is forgotten with its failures.
CompactedByWindow(now) ==
    [a \in Addrs |-> IF Outdated(failures[a], now) THEN Blank ELSE failures[a]]

\* compactLocked: what has ended by now, of all addresses.
Compacted(now) ==
    [a \in Addrs |->
        IF \/ failures[a].blockedUntil # 0 /\ now > failures[a].blockedUntil
           \/ failures[a].blockedUntil = 0 /\ Outdated(failures[a], now)
        THEN Blank ELSE failures[a]]

\* One more failure, of a new window if the old one has passed.
Counted(state, now) ==
    LET fresh == state.firstFailure = 0 \/ Outdated(state, now)
        count == IF fresh THEN 1 ELSE state.count + 1
    IN [firstFailure |-> IF fresh THEN now ELSE state.firstFailure,
        count |-> count,
        blockedUntil |-> IF count >= MaxFailures THEN now + Block
                         ELSE IF fresh THEN 0 ELSE state.blockedUntil]

\* The last MaxFailures times.
Remember(times, t) ==
    IF Len(times) < MaxFailures THEN Append(times, t) ELSE Append(Tail(times), t)

\* A request that is refused: RecordFailure reads the clock.
ReadClock(h) ==
    /\ req[h] = NoRequest
    /\ \E a \in Addrs : req' = [req EXCEPT ![h] = [addr |-> a, now |-> clock]]
    /\ UNCHANGED <<clock, failures, answer, recent, blocked>>

\* RecordFailure under the mutex, and the answer.
RecordFailure(h) ==
    LET a == req[h].addr
        now == req[h].now
        compacted == Compacted(now)
        state == Counted(compacted[a], now)
    IN /\ req[h] # NoRequest
       /\ req' = [req EXCEPT ![h] = NoRequest]
       /\ \/ /\ IsBlocked(compacted[a], now)
             /\ failures' = compacted
             /\ answer' = "rate_limited"
             /\ UNCHANGED <<recent, blocked>>
          \/ /\ ~IsBlocked(compacted[a], now)
             /\ failures' = [compacted EXCEPT ![a] = state]
             /\ recent' = [recent EXCEPT ![a] = Remember(@, clock)]
             /\ IF IsBlocked(state, now)
                THEN /\ answer' = "rate_limited"
                     /\ blocked' = [blocked EXCEPT ![a] = state.blockedUntil]
                ELSE /\ answer' = "invalid_token"
                     /\ UNCHANGED blocked
       /\ UNCHANGED clock

\* Mutant: only a block is lifted.
RecordSuccessOfBlocked(a) ==
    /\ failures' = [failures EXCEPT ![a] = [@ EXCEPT !.blockedUntil = 0]]
    /\ answer' = "authorized"
    /\ recent' = [recent EXCEPT ![a] = <<>>]
    /\ blocked' = [blocked EXCEPT ![a] = 0]
    /\ UNCHANGED <<clock, req>>

\* A request that is authorized: RecordSuccess forgets the failures.
RecordSuccess(a) ==
    /\ failures' = [failures EXCEPT ![a] = Blank]
    /\ answer' = "authorized"
    /\ recent' = [recent EXCEPT ![a] = <<>>]
    /\ blocked' = [blocked EXCEPT ![a] = 0]
    /\ UNCHANGED <<clock, req>>

Tick ==
    /\ clock < MaxTime
    /\ clock' = clock + 1
    /\ UNCHANGED <<failures, req, answer, recent, blocked>>

Init ==
    /\ clock = 1
    /\ failures = [a \in Addrs |-> Blank]
    /\ req = [h \in Handlers |-> NoRequest]
    /\ answer = "none"
    /\ recent = [a \in Addrs |-> <<>>]
    /\ blocked = [a \in Addrs |-> 0]

\* The gateway is killed; the new one knows of no failures.
Restart ==
    /\ failures' = [a \in Addrs |-> Blank]
    /\ req' = [h \in Handlers |-> NoRequest]
    /\ answer' = "none"
    /\ recent' = [a \in Addrs |-> <<>>]
    /\ blocked' = [a \in Addrs |-> 0]
    /\ UNCHANGED clock

Next ==
    \/ \E h \in Handlers : ReadClock(h) \/ RecordFailure(h)
    \/ \E a \in Addrs : RecordSuccess(a)
    \/ Tick \/ Restart

Spec == Init /\ [][Next]_vars

-----------------------------------------------------------------------------
(* Properties *)

TypeOK ==
    /\ clock \in Times \ {0}
    /\ failures \in [Addrs -> State]
    /\ req \in [Handlers -> Request]
    /\ answer \in Answers
    /\ recent \in [Addrs -> Seq(Times)] /\ \A a \in Addrs : Len(recent[a]) <= MaxFailures
    /\ blocked \in [Addrs -> 0..(MaxTime + Block)]

\* A failure of an address that was told it is blocked is not answered as an
\* ordinary one before that block has ended, unless a success came in between:
\* no failure of another address, and no late request, drops the block.
BlockKept ==
    [][\A h \in Handlers :
          /\ req[h] # NoRequest /\ req'[h] = NoRequest
          /\ answer' = "invalid_token"
          => clock >= blocked[req[h].addr]]_<<req, answer>>

\* A block starts only when MaxFailures failures were counted since the last
\* success, none of them earlier than a window before the time of the last.
BlockEarned ==
    [][\A h \in Handlers :
          /\ req[h] # NoRequest /\ req'[h] = NoRequest
          /\ blocked' # blocked /\ answer' = "rate_limited"
          => LET times == recent'[req[h].addr]
             IN Len(times) = MaxFailures /\ times[1] >= req[h].now - Window]_<<req, blocked>>
=============================================================================
