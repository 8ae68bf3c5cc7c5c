------------------------ MODULE McpAuthLimiterProofs ------------------------
(***************************************************************************)
(* A block that an address was told of holds until its time, whatever the  *)
(* other addresses do and however late a request takes the mutex.  A late  *)
(* request has a time that lies in the past, so it finds the block in      *)
(* force and compacts less than the present time would.                    *)
(*                                                                         *)
(* And every block is earned: the failures an entry counts are failures of *)
(* its own address, all of them within the window.                         *)
(***************************************************************************)
EXTENDS McpAuthLimiter, TLAPS

\* A request works with a time that is not in the future.
NotAhead ==
    \A h \in Handlers :
        req[h] # NoRequest => req[h].addr \in Addrs /\ req[h].now \in 1..clock

\* A block that is in force is in the limiter's map.
InForce ==
    \A a \in Addrs : clock < blocked[a] => failures[a].blockedUntil = blocked[a]

LimiterInv == TypeOK /\ NotAhead /\ InForce

LEMMA LimiterInit == Init => LimiterInv
<1> SUFFICES ASSUME Init PROVE LimiterInv
  OBVIOUS
<1>1. failures \in [Addrs -> State] /\ req \in [Handlers -> Request]
  BY LimiterAssumption DEF Init, State, Request, NoRequest, Times
<1>2. recent \in [Addrs -> Seq(Times)] /\ \A a \in Addrs : Len(recent[a]) <= MaxFailures
  BY LimiterAssumption DEF Init
<1>3. clock \in Times \ {0} /\ answer \in Answers /\ blocked \in [Addrs -> 0..(MaxTime + Block)]
  BY LimiterAssumption DEF Init, Times, Answers
<1>4. NotAhead /\ InForce
  BY DEF Init, NotAhead, InForce
<1> QED BY <1>1, <1>2, <1>3, <1>4 DEF LimiterInv, TypeOK

\* A further failure gives an entry.
LEMMA CountedState ==
  ASSUME NEW s \in State, NEW t \in Times \ {0}
  PROVE  /\ Counted(s, t) \in State
         /\ Counted(s, t).blockedUntil \in 0..(MaxTime + Block)
  BY LimiterAssumption DEF Counted, State, Blank, Times

\* The last times are at most MaxFailures.
LEMMA RememberBounded ==
  ASSUME NEW s \in Seq(Times), NEW t \in Times, Len(s) <= MaxFailures
  PROVE  Remember(s, t) \in Seq(Times) /\ Len(Remember(s, t)) <= MaxFailures
  BY LimiterAssumption DEF Remember

\* Compaction keeps a block that is in force.
LEMMA CompactedKeeps ==
  ASSUME TypeOK, NEW t \in Nat
  PROVE  /\ Compacted(t) \in [Addrs -> State]
         /\ \A a \in Addrs :
               t <= failures[a].blockedUntil /\ failures[a].blockedUntil # 0
               => Compacted(t)[a] = failures[a]
<1>1. \A a \in Addrs : failures[a] \in State /\ failures[a].blockedUntil \in Nat
  BY LimiterAssumption DEF TypeOK, State, Blank
<1> QED BY <1>1 DEF Compacted, State

\* A late request meets the block: the entry is compacted and counted in one step.
LEMMA BlockMet ==
  ASSUME LimiterInv, NEW h \in Handlers, req[h] # NoRequest,
         clock < blocked[req[h].addr]
  PROVE  IsBlocked(Compacted(req[h].now)[req[h].addr], req[h].now)
<1>1. /\ req[h].addr \in Addrs /\ req[h].now \in Nat /\ clock \in Nat
      /\ req[h].now <= clock
  BY LimiterAssumption DEF LimiterInv, NotAhead, TypeOK, Times
<1>2. failures[req[h].addr].blockedUntil = blocked[req[h].addr]
  BY <1>1 DEF LimiterInv, InForce
<1>3. blocked[req[h].addr] \in Nat
  BY <1>1, LimiterAssumption DEF LimiterInv, TypeOK
<1>4. Compacted(req[h].now)[req[h].addr] = failures[req[h].addr]
  BY <1>1, <1>2, <1>3, CompactedKeeps DEF LimiterInv
<1> QED BY <1>1, <1>2, <1>3, <1>4 DEF IsBlocked

LEMMA FailureStep ==
  ASSUME LimiterInv, NEW h \in Handlers, RecordFailure(h)
  PROVE  LimiterInv'
<1> DEFINE a == req[h].addr
           now == req[h].now
           kept == Compacted(now)
           state == Counted(kept[a], now)
<1>1. /\ a \in Addrs /\ now \in Times \ {0} /\ now \in Nat /\ clock \in Times \ {0}
      /\ now <= clock /\ clock \in Nat
  BY LimiterAssumption DEF LimiterInv, NotAhead, TypeOK, Times, RecordFailure
<1>2. /\ kept \in [Addrs -> State]
      /\ \A b \in Addrs : now <= failures[b].blockedUntil /\ failures[b].blockedUntil # 0
                          => kept[b] = failures[b]
  BY <1>1, CompactedKeeps DEF LimiterInv
<1>3. state \in State /\ state.blockedUntil \in 0..(MaxTime + Block)
  BY <1>1, <1>2, CountedState
<1>4. /\ req' = [req EXCEPT ![h] = NoRequest] /\ clock' = clock
      /\ \/ /\ IsBlocked(kept[a], now) /\ failures' = kept
            /\ answer' = "rate_limited" /\ UNCHANGED <<recent, blocked>>
         \/ /\ ~IsBlocked(kept[a], now) /\ failures' = [kept EXCEPT ![a] = state]
            /\ recent' = [recent EXCEPT ![a] = Remember(@, clock)]
            /\ \/ /\ answer' = "rate_limited"
                  /\ blocked' = [blocked EXCEPT ![a] = state.blockedUntil]
               \/ answer' = "invalid_token" /\ blocked' = blocked
  BY DEF RecordFailure
<1>5. clock < blocked[a] => IsBlocked(kept[a], now)
  BY BlockMet DEF RecordFailure
<1> HIDE DEF a, now, kept, state
<1>6. clock' \in Times \ {0} /\ answer' \in Answers /\ req' \in [Handlers -> Request]
  BY <1>1, <1>4, LimiterAssumption DEF LimiterInv, TypeOK, Answers, Request, NoRequest, Times
<1>7. failures' \in [Addrs -> State] /\ blocked' \in [Addrs -> 0..(MaxTime + Block)]
  BY <1>1, <1>2, <1>3, <1>4 DEF LimiterInv, TypeOK
<1>8. recent' \in [Addrs -> Seq(Times)] /\ \A b \in Addrs : Len(recent'[b]) <= MaxFailures
  <2>1. recent \in [Addrs -> Seq(Times)] /\ \A b \in Addrs : Len(recent[b]) <= MaxFailures
    BY DEF LimiterInv, TypeOK
  <2>2. Remember(recent[a], clock) \in Seq(Times) /\ Len(Remember(recent[a], clock)) <= MaxFailures
    BY <1>1, <2>1, RememberBounded
  <2>3. recent' = recent \/ recent' = [recent EXCEPT ![a] = Remember(recent[a], clock)]
    BY <1>4
  <2> QED BY <1>1, <2>1, <2>2, <2>3
<1>9. NotAhead'
  BY <1>4 DEF LimiterInv, TypeOK, NotAhead
<1>10. ASSUME NEW b \in Addrs, clock < blocked'[b]
       PROVE  failures'[b].blockedUntil = blocked'[b]
  <2>1. clock < blocked[b] => kept[b] = failures[b]
    <3>1. blocked[b] \in Nat
      BY LimiterAssumption DEF LimiterInv, TypeOK
    <3> QED BY <1>1, <1>2, <3>1 DEF LimiterInv, InForce
  <2>2. CASE b # a \/ IsBlocked(kept[a], now)
    <3>1. blocked'[b] = blocked[b] /\ failures'[b] = kept[b]
      BY <1>2, <1>4, <2>2 DEF LimiterInv, TypeOK
    <3> QED BY <1>10, <2>1, <3>1 DEF LimiterInv, InForce
  <2>3. CASE b = a /\ ~IsBlocked(kept[a], now)
    BY <1>1, <1>2, <1>4, <1>5, <1>10, <2>3 DEF LimiterInv, TypeOK
  <2> QED BY <2>2, <2>3
<1> QED BY <1>4, <1>6, <1>7, <1>8, <1>9, <1>10 DEF LimiterInv, TypeOK, InForce

LEMMA LimiterStep == LimiterInv /\ [Next]_vars => LimiterInv'
<1> SUFFICES ASSUME LimiterInv, [Next]_vars PROVE LimiterInv'
  OBVIOUS
<1> USE LimiterAssumption DEF LimiterInv, TypeOK, NotAhead, InForce
<1>1. ASSUME NEW h \in Handlers, ReadClock(h)
      PROVE  LimiterInv'
  BY <1>1 DEF ReadClock, Request, NoRequest, Times
<1>2. ASSUME NEW h \in Handlers, RecordFailure(h)
      PROVE  LimiterInv'
  BY <1>2, FailureStep
<1>3. ASSUME NEW a \in Addrs, RecordSuccess(a)
      PROVE  LimiterInv'
  <2>1. failures' \in [Addrs -> State] /\ blocked' \in [Addrs -> 0..(MaxTime + Block)]
    BY <1>3 DEF RecordSuccess, State
  <2>2. recent' \in [Addrs -> Seq(Times)] /\ \A b \in Addrs : Len(recent'[b]) <= MaxFailures
    BY <1>3 DEF RecordSuccess
  <2>3. answer' \in Answers /\ clock' = clock /\ req' = req
    BY <1>3 DEF RecordSuccess, Answers
  <2>4. InForce'
    BY <1>3 DEF RecordSuccess, Times
  <2> QED BY <2>1, <2>2, <2>3, <2>4
<1>4. CASE Tick
  BY <1>4 DEF Tick, Times
<1>5. CASE Restart
  <2>1. failures' \in [Addrs -> State] /\ req' \in [Handlers -> Request]
    BY <1>5 DEF Restart, State, Request, NoRequest, Times
  <2>2. recent' \in [Addrs -> Seq(Times)] /\ \A a \in Addrs : Len(recent'[a]) <= MaxFailures
    BY <1>5 DEF Restart
  <2>3. /\ answer' \in Answers /\ clock' = clock
        /\ blocked' \in [Addrs -> 0..(MaxTime + Block)]
    BY <1>5 DEF Restart, Answers
  <2>4. NotAhead' /\ InForce'
    BY <1>5 DEF Restart, Times
  <2> QED BY <2>1, <2>2, <2>3, <2>4
<1>6. CASE UNCHANGED vars
  BY <1>6 DEF vars
<1> QED BY <1>1, <1>2, <1>3, <1>4, <1>5, <1>6 DEF Next

\* In every run the limiter's map holds the blocks that are in force, and no
\* request works with a time in the future (RecordFailure reads the clock first).
THEOREM LimiterInvariant == Spec => []LimiterInv
<1> QED BY LimiterInit, LimiterStep, PTL DEF Spec

\* An address that was told it is blocked is not answered as an ordinary failure
\* before the block has ended, unless it succeeded (RecordFailure, compactLocked).
THEOREM BlocksHold == Spec => BlockKept
<1>1. LimiterInv /\ [Next]_vars =>
        [\A h \in Handlers :
            /\ req[h] # NoRequest /\ req'[h] = NoRequest
            /\ answer' = "invalid_token"
            => clock >= blocked[req[h].addr]]_<<req, answer>>
  <2> SUFFICES ASSUME LimiterInv, [Next]_vars, NEW h \in Handlers,
                      req[h] # NoRequest, req'[h] = NoRequest,
                      answer' = "invalid_token"
               PROVE  clock >= blocked[req[h].addr]
    OBVIOUS
  <2>1. RecordFailure(h)
    <3>1. ASSUME NEW g \in Handlers, ReadClock(g)
          PROVE  req'[h] # NoRequest
      BY <3>1 DEF ReadClock, NoRequest, LimiterInv, TypeOK, Times
    <3>2. ASSUME NEW g \in Handlers, RecordFailure(g), g # h
          PROVE  FALSE
      BY <3>2 DEF RecordFailure, LimiterInv, TypeOK
    <3> QED BY <3>1, <3>2 DEF Next, RecordSuccess, Tick, Restart, vars
  <2>2. ~(clock < blocked[req[h].addr])
    BY <2>1, BlockMet DEF RecordFailure
  <2>3. clock \in Nat /\ blocked[req[h].addr] \in Nat
    BY LimiterAssumption DEF LimiterInv, NotAhead, TypeOK, Times
  <2> QED BY <2>2, <2>3
<1> QED BY <1>1, LimiterInvariant, PTL DEF Spec, BlockKept

\* Times, failures, requests and answers keep their types, and no more times are
\* remembered than start a block (mcpAuthLimiter).
THEOREM LimiterTypeCorrect == Spec => []TypeOK
<1>1. LimiterInv => TypeOK
  BY DEF LimiterInv
<1> QED BY <1>1, LimiterInvariant, PTL

-----------------------------------------------------------------------------
(* A block is earned: the failures an entry counts are the last ones that   *)
(* were remembered, and none of them is older than its first failure.       *)

Counts(entry, times) ==
    entry.count > 0 =>
        /\ entry.count <= Len(times) \/ Len(times) = MaxFailures
        /\ entry.firstFailure <= clock
        /\ \A i \in 1..Len(times) :
              i > Len(times) - entry.count => times[i] >= entry.firstFailure

Earned == \A a \in Addrs : Counts(failures[a], recent[a])

LEMMA RememberTimes ==
  ASSUME NEW s \in Seq(Times), NEW t \in Times, Len(s) <= MaxFailures
  PROVE  /\ Len(Remember(s, t)) = IF Len(s) < MaxFailures THEN Len(s) + 1 ELSE Len(s)
         /\ Len(Remember(s, t)) > 0 /\ Remember(s, t)[Len(Remember(s, t))] = t
         /\ \A i \in 1..(Len(Remember(s, t)) - 1) :
               Remember(s, t)[i] = IF Len(s) < MaxFailures THEN s[i] ELSE s[i + 1]
<1>1. CASE Len(s) < MaxFailures
  BY <1>1 DEF Remember
<1>2. CASE Len(s) = MaxFailures
  <2>1. s # <<>> /\ Tail(s) \in Seq(Times) /\ Len(Tail(s)) = Len(s) - 1
        /\ \A i \in 1..(Len(s) - 1) : Tail(s)[i] = s[i + 1]
    BY <1>2, LimiterAssumption
  <2>2. Remember(s, t) = Append(Tail(s), t)
    BY <1>2 DEF Remember
  <2> QED BY <1>2, <2>1, <2>2
<1> QED BY <1>1, <1>2, LimiterAssumption

\* A failure that is counted, at a time that is not in the future.
LEMMA CountedEarned ==
  ASSUME NEW s \in State, NEW now \in Times \ {0}, clock \in Times, now <= clock,
         NEW times \in Seq(Times), Len(times) <= MaxFailures, Counts(s, times)
  PROVE  /\ Counts(Counted(s, now), Remember(times, clock))
         /\ Counted(s, now).count >= MaxFailures =>
               /\ Len(Remember(times, clock)) = MaxFailures
               /\ Remember(times, clock)[1] >= now - Window
<1> DEFINE new == Counted(s, now)
           more == Remember(times, clock)
           fresh == s.firstFailure = 0 \/ Outdated(s, now)
<1>1. /\ now \in Nat /\ clock \in Nat /\ s.firstFailure \in Nat /\ s.count \in Nat
      /\ s.firstFailure # 0 => s.count > 0
      /\ Len(times) \in Nat
  BY LimiterAssumption DEF Times, State, Blank
<1>2. /\ Len(more) = IF Len(times) < MaxFailures THEN Len(times) + 1 ELSE Len(times)
      /\ Len(more) > 0 /\ more[Len(more)] = clock
      /\ \A i \in 1..(Len(more) - 1) :
            more[i] = IF Len(times) < MaxFailures THEN times[i] ELSE times[i + 1]
  BY RememberTimes
<1>3. /\ new.count = IF fresh THEN 1 ELSE s.count + 1
      /\ new.firstFailure = IF fresh THEN now ELSE s.firstFailure
  BY DEF Counted
<1>4. /\ ~fresh => s.count > 0 /\ s.firstFailure >= now - Window
      /\ fresh => now >= now - Window
  BY <1>1, LimiterAssumption DEF Outdated
<1>5. more \in Seq(Times)
  BY RememberBounded
<1> HIDE DEF new, more, fresh
<1>6. new.firstFailure <= clock /\ new.firstFailure >= now - Window
      /\ (new.count <= Len(more) \/ Len(more) = MaxFailures)
  BY <1>1, <1>2, <1>3, <1>4, LimiterAssumption DEF Counts
<1>7. ASSUME NEW i \in 1..Len(more), i > Len(more) - new.count
      PROVE  more[i] >= new.firstFailure
  <2>1. CASE i = Len(more)
    BY <1>2, <1>6, <2>1
  <2>2. CASE i # Len(more)
    <3>1. ~fresh /\ i \in 1..(Len(more) - 1)
      BY <1>1, <1>2, <1>3, <1>7, <2>2
    <3>2. CASE Len(times) < MaxFailures
      <4>1. i \in 1..Len(times) /\ i > Len(times) - s.count /\ more[i] = times[i]
        BY <1>1, <1>2, <1>3, <1>7, <3>1, <3>2
      <4> QED BY <1>3, <1>4, <3>1, <4>1 DEF Counts
    <3>3. CASE ~(Len(times) < MaxFailures)
      <4>1. i + 1 \in 1..Len(times) /\ i + 1 > Len(times) - s.count /\ more[i] = times[i + 1]
        BY <1>1, <1>2, <1>3, <1>7, <3>1, <3>3
      <4> QED BY <1>3, <1>4, <3>1, <4>1 DEF Counts
    <3> QED BY <3>2, <3>3
  <2> QED BY <2>1, <2>2
<1>8. new.count >= MaxFailures =>
        Len(more) = MaxFailures /\ more[1] >= now - Window
  <2> SUFFICES ASSUME new.count >= MaxFailures
               PROVE  Len(more) = MaxFailures /\ more[1] >= now - Window
    OBVIOUS
  <2>1. Len(more) = MaxFailures
    BY <1>1, <1>2, <1>3, <1>6, LimiterAssumption
  <2>2. 1 \in 1..Len(more) /\ 1 > Len(more) - new.count
    BY <1>1, <1>3, <2>1, LimiterAssumption
  <2>3. more[1] >= new.firstFailure
    BY <1>7, <2>2
  <2>4. more[1] \in Int /\ new.firstFailure \in Int
    <3>1. more[1] \in Times
      BY <1>5, <2>2
    <3>2. new.firstFailure \in Nat
      BY <1>1, <1>3
    <3> QED BY <3>1, <3>2, LimiterAssumption DEF Times
  <2> QED BY <1>1, <1>6, <2>1, <2>3, <2>4, LimiterAssumption
<1> QED BY <1>6, <1>7, <1>8 DEF Counts, new, more

LEMMA EarnedSame ==
  ASSUME LimiterInv, Earned, clock' \in Nat, clock' >= clock, NEW a \in Addrs,
         failures'[a] \in {failures[a], Blank}, recent'[a] = recent[a] \/ failures'[a] = Blank
  PROVE  Counts(failures[a], recent[a])'
<1>1. Blank.count = 0
  BY DEF Blank
<1>2. CASE failures'[a] = Blank
  BY <1>1, <1>2 DEF Counts
<1>3. CASE failures'[a] = failures[a] /\ recent'[a] = recent[a]
  <2>1. failures[a].firstFailure \in Nat /\ clock \in Nat
    BY LimiterAssumption DEF LimiterInv, TypeOK, State, Blank, Times
  <2>2. Counts(failures[a], recent[a])
    BY DEF Earned
  <2> QED BY <1>3, <2>1, <2>2 DEF Counts
<1> QED BY <1>2, <1>3

\* A failure: what is counted is earned, and a block with it.
LEMMA FailureEarned ==
  ASSUME LimiterInv, Earned, NEW h \in Handlers, RecordFailure(h)
  PROVE  /\ Earned'
         /\ blocked' # blocked =>
               /\ Len(recent'[req[h].addr]) = MaxFailures
               /\ recent'[req[h].addr][1] >= req[h].now - Window
<1> DEFINE a == req[h].addr
           now == req[h].now
           kept == Compacted(now)
           state == Counted(kept[a], now)
<1>1. /\ a \in Addrs /\ now \in Times \ {0} /\ now \in Nat /\ clock \in Times
      /\ now <= clock /\ clock \in Nat
  BY LimiterAssumption DEF LimiterInv, NotAhead, TypeOK, Times, RecordFailure
<1>2. kept \in [Addrs -> State] /\ \A b \in Addrs : kept[b] \in {failures[b], Blank}
  BY <1>1, CompactedKeeps DEF LimiterInv, Compacted
<1>3. /\ clock' = clock
      /\ \/ failures' = kept /\ UNCHANGED <<recent, blocked>>
         \/ /\ failures' = [kept EXCEPT ![a] = state]
            /\ recent' = [recent EXCEPT ![a] = Remember(@, clock)]
            /\ \/ /\ IsBlocked(state, now)
                  /\ blocked' = [blocked EXCEPT ![a] = state.blockedUntil]
               \/ blocked' = blocked
  BY DEF RecordFailure
<1>4. /\ recent \in [Addrs -> Seq(Times)] /\ Len(recent[a]) <= MaxFailures
      /\ blocked \in [Addrs -> 0..(MaxTime + Block)]
  BY <1>1 DEF LimiterInv, TypeOK
<1>5. ~IsBlocked(kept[a], now) => (IsBlocked(state, now) => state.count >= MaxFailures)
  <2>1. Blank.blockedUntil = 0 /\ kept[a].blockedUntil \in Nat
    BY <1>1, <1>2, LimiterAssumption DEF State, Blank
  <2> QED BY <1>1, <2>1 DEF IsBlocked, Counted
<1>6. blocked' # blocked => ~IsBlocked(kept[a], now)
  BY DEF RecordFailure
<1>7. Counts(kept[a], recent[a])
  <2>1. Blank.count = 0
    BY DEF Blank
  <2>2. kept[a] = Blank => Counts(kept[a], recent[a])
    BY <2>1 DEF Counts
  <2> QED BY <1>1, <1>2, <2>2 DEF Earned
<1>8. /\ Counts(state, Remember(recent[a], clock))
      /\ state.count >= MaxFailures =>
            /\ Len(Remember(recent[a], clock)) = MaxFailures
            /\ Remember(recent[a], clock)[1] >= now - Window
  BY <1>1, <1>2, <1>4, <1>7, CountedEarned
<1> HIDE DEF a, now, kept, state
<1>9. CASE failures' = kept /\ UNCHANGED <<recent, blocked>>
  BY <1>1, <1>2, <1>3, <1>9, EarnedSame DEF Earned
<1>10. CASE /\ failures' = [kept EXCEPT ![a] = state]
            /\ recent' = [recent EXCEPT ![a] = Remember(@, clock)]
  <2>1. ASSUME NEW b \in Addrs PROVE Counts(failures[b], recent[b])'
    <3>1. CASE b = a
      <4>1. failures'[b] = state /\ recent'[b] = Remember(recent[a], clock)
        BY <1>1, <1>2, <1>4, <1>10, <3>1
      <4> QED BY <1>3, <1>8, <4>1 DEF Counts
    <3>2. CASE b # a
      <4>1. failures'[b] = kept[b] /\ recent'[b] = recent[b]
        BY <1>2, <1>4, <1>10, <3>2
      <4> QED BY <1>1, <1>2, <1>3, <4>1, EarnedSame
    <3> QED BY <3>1, <3>2
  <2>2. recent'[a] = Remember(recent[a], clock)
    BY <1>1, <1>4, <1>10
  <2>3. blocked' # blocked => state.count >= MaxFailures
    <3>1. blocked' # blocked => IsBlocked(state, now)
      BY <1>3, <1>4, <1>9, <1>10
    <3> QED BY <1>5, <1>6, <3>1
  <2>4. Earned'
    BY <2>1 DEF Earned
  <2> QED BY <1>8, <2>2, <2>3, <2>4 DEF a, now
<1> QED BY <1>3, <1>9, <1>10

\* A block starts only after MaxFailures failures that were counted since the last
\* success, none earlier than a window before the last (RecordFailure).
THEOREM BlocksAreEarned == Spec => BlockEarned
<1>1. Init => Earned
  BY DEF Init, Earned, Counts, Blank
<1>2. LimiterInv /\ Earned /\ [Next]_vars => Earned'
  <2> SUFFICES ASSUME LimiterInv, Earned, [Next]_vars PROVE Earned'
    OBVIOUS
  <2>1. ASSUME NEW h \in Handlers, RecordFailure(h) PROVE Earned'
    BY <2>1, FailureEarned
  <2>2. CASE ~\E h \in Handlers : RecordFailure(h)
    <3>1. clock' \in Nat /\ clock' >= clock
      BY <2>2, LimiterAssumption
         DEF LimiterInv, TypeOK, Times, Next, ReadClock, RecordSuccess, Tick, Restart, vars
    <3>2. ASSUME NEW a \in Addrs
          PROVE  /\ failures'[a] \in {failures[a], Blank}
                 /\ recent'[a] = recent[a] \/ failures'[a] = Blank
      BY <2>2 DEF LimiterInv, TypeOK, Next, ReadClock, RecordSuccess, Tick, Restart, vars
    <3> QED BY <3>1, <3>2, EarnedSame DEF Earned
  <2> QED BY <2>1, <2>2
<1>3. LimiterInv /\ Earned /\ [Next]_vars =>
        [\A h \in Handlers :
            /\ req[h] # NoRequest /\ req'[h] = NoRequest
            /\ blocked' # blocked /\ answer' = "rate_limited"
            => LET times == recent'[req[h].addr]
               IN Len(times) = MaxFailures /\ times[1] >= req[h].now - Window]_<<req, blocked>>
  <2> SUFFICES ASSUME LimiterInv, Earned, [Next]_vars, NEW h \in Handlers,
                      req[h] # NoRequest, req'[h] = NoRequest,
                      blocked' # blocked, answer' = "rate_limited"
               PROVE  /\ Len(recent'[req[h].addr]) = MaxFailures
                      /\ recent'[req[h].addr][1] >= req[h].now - Window
    OBVIOUS
  <2>1. PICK g \in Handlers : RecordFailure(g)
    BY DEF Next, ReadClock, RecordSuccess, Tick, Restart, vars
  <2>2. g = h
    BY <2>1 DEF RecordFailure, LimiterInv, TypeOK
  <2> QED BY <2>1, <2>2, FailureEarned
<1> QED BY <1>1, <1>2, <1>3, LimiterInvariant, PTL DEF Spec, BlockEarned
=============================================================================
