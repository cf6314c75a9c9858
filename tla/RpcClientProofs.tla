--------------------------- MODULE RpcClientProofs ---------------------------
(***************************************************************************)
(* Proofs about the rate limiter and the retries, for every limit, every   *)
(* unit of time and every table of backoffs.                               *)
(*                                                                         *)
(* The limit is about requests, the limiter about reservations, and a      *)
(* request may go out long after its reservation.  What ties them together *)
(* is that the next reservation is made after the last request went out:   *)
(* it is at least as many intervals after a request as requests have gone  *)
(* out since (Spaced).                                                     *)
(***************************************************************************)
EXTENDS RpcClient, SequenceTheorems, TLAPS

-----------------------------------------------------------------------------
(* Arithmetic *)

LEMMA TimesMono ==
    ASSUME NEW a \in Nat, NEW b \in Nat, NEW c \in Nat, a <= b
    PROVE  a * c <= b * c
  OBVIOUS

LEMMA SumKeeps ==
    ASSUME NEW a \in Nat, NEW b \in Nat, NEW c \in Nat, b + 1 >= a
    PROVE  b + (c + 1) >= a + c
  OBVIOUS

\* The interval is rounded up: limited requests fill the second (request_interval).
LEMMA IntervalCovers ==
    ASSUME rate \in Nat
    PROVE  Interval \in Nat /\ (rate # 0 => rate * Interval >= Second)
  <1>1. CASE rate = 0 BY <1>1 DEF Interval
  <1>2. CASE rate # 0
    <2> DEFINE n == Second + rate - 1
    <2>1. n \in Nat BY <1>2, TimeAssumption
    <2>2. n \div rate \in Nat /\ n < rate * (n \div rate) + rate
      BY <1>2, <2>1
    <2>3. Interval = n \div rate BY <1>2 DEF Interval
    <2> QED BY <1>2, <2>2, <2>3, TimeAssumption
  <1> QED BY <1>1, <1>2

-----------------------------------------------------------------------------
(* The inductive invariant *)

Typed ==
    /\ rate \in Rates
    /\ pc \in {"idle", "wait", "reserved", "sent", "backoff"}
    /\ retry \in 0..Len(Backoff)
    /\ slot \in Nat /\ sleep \in Nat /\ pause \in Nat /\ heard \in BOOLEAN
    /\ ages \in Seq(0..(Second - 1))

\* The next reservation is one interval ahead, or one more than the thread has
\* still to sleep for its own.
Paced ==
    /\ pc # "reserved" => slot <= Interval
    /\ pc = "reserved" => sleep <= Interval /\ slot <= Interval + sleep

\* Nobody counts requests without a limit.
Counted == rate = 0 => ages = <<>>

\* When the next request goes out, at least an interval will have passed since
\* a request for every request from that one on but the last.
SpacedAt(i) ==
    /\ pc # "reserved" => slot + ages[i] >= (Len(ages) - i) * Interval
    /\ pc = "reserved" => /\ sleep + ages[i] >= (Len(ages) - i) * Interval
                          /\ slot + ages[i] >= (Len(ages) - i) * Interval + Interval

Spaced == \A i \in 1..Len(ages) : SpacedAt(i)

\* A thread that backs off sleeps at least as long as it was asked to, as far as
\* it understood.
Waits ==
    heard =>
        /\ pc = "backoff" => pause <= sleep
        /\ pc \in {"wait", "reserved", "sent"} /\ retry # 0 => pause = 0

Inv == Typed /\ Paced /\ Counted /\ Spaced /\ OneMoreAtMost /\ Waits

LEMMA RateNat ==
    ASSUME Typed
    PROVE  rate \in Nat
  BY TimeAssumption DEF Typed

LEMMA InitInv == Init => Inv
  <1> SUFFICES ASSUME Init PROVE Inv
    OBVIOUS
  <1>1. rate \in Nat BY TimeAssumption DEF Init
  <1>2. Interval \in Nat BY <1>1, IntervalCovers
  <1>3. ages = <<>> /\ Len(ages) = 0 BY DEF Init
  <1>4. Typed BY <1>3, TimeAssumption DEF Init, Typed
  <1>5. Paced BY <1>2 DEF Init, Paced
  <1>6. Counted BY <1>3 DEF Counted
  <1>7. Spaced BY <1>3 DEF Spaced
  <1>8. OneMoreAtMost BY <1>1, <1>3 DEF OneMoreAtMost
  <1>9. Waits BY DEF Init, Waits
  <1> QED BY <1>4, <1>5, <1>6, <1>7, <1>8, <1>9 DEF Inv

LEMMA AgesBounded ==
    ASSUME Typed, NEW i \in 1..Len(ages)
    PROVE  ages[i] \in 0..(Second - 1)
  BY ElementOfSeq DEF Typed

\* A deadline that is over stays over; any other comes nearer.
LEMMA LeftBounds ==
    ASSUME NEW t \in Nat
    PROVE  Left(t) \in Nat /\ Left(t) <= t /\ Left(t) + 1 >= t
  BY DEF Left

\* What time leaves of the requests of the last second.
LEMMA TickAges ==
    ASSUME Typed, Tick
    PROVE  \E past \in 0..Len(ages) :
             /\ ages' \in Seq(0..(Second - 1))
             /\ Len(ages') = Len(ages) - past
             /\ \A i \in 1..Len(ages') : ages'[i] = ages[past + i] + 1
  <1>1. PICK past \in 0..Len(ages) :
          /\ \A i \in DOMAIN ages : i <= past <=> ages[i] + 1 >= Second
          /\ ages' = [i \in 1..(Len(ages) - past) |-> ages[past + i] + 1]
    BY DEF Tick
  <1>2. ages \in Seq(0..(Second - 1)) /\ Len(ages) \in Nat BY DEF Typed
  <1>3. Len(ages) - past \in Nat BY <1>2
  <1>4. ASSUME NEW i \in 1..(Len(ages) - past)
        PROVE  ages[past + i] + 1 \in 0..(Second - 1)
    <2>1. past + i \in 1..Len(ages) /\ ~(past + i <= past) BY <1>2
    <2>2. past + i \in DOMAIN ages BY <1>2, <2>1
    <2>3. ages[past + i] \in 0..(Second - 1) BY <2>1, AgesBounded
    <2>4. ~(ages[past + i] + 1 >= Second) BY <1>1, <2>1, <2>2
    <2> QED BY <2>3, <2>4, TimeAssumption
  <1>5. ages' \in Seq(0..(Second - 1)) BY <1>1, <1>3, <1>4, IsASeq
  <1>6. Len(ages') = Len(ages) - past BY <1>1, <1>3
  <1>7. \A i \in 1..Len(ages') : ages'[i] = ages[past + i] + 1 BY <1>1, <1>6
  <1> QED BY <1>5, <1>6, <1>7

-----------------------------------------------------------------------------
(* The invariant is inductive *)

LEMMA TickInv == Inv /\ Tick => Inv'
  <1> SUFFICES ASSUME Inv, Tick PROVE Inv'
    OBVIOUS
  <1> USE DEF Inv
  <1>1. rate \in Nat /\ rate' = rate /\ pc' = pc /\ retry' = retry
    BY RateNat DEF Tick
  <1>2. Interval \in Nat /\ Interval' = Interval BY <1>1, IntervalCovers DEF Interval
  <1>3. /\ slot' \in Nat /\ slot' <= slot /\ slot' + 1 >= slot
        /\ sleep' \in Nat /\ sleep' <= sleep /\ sleep' + 1 >= sleep
        /\ pause' \in Nat /\ heard' = heard
        /\ slot \in Nat /\ sleep \in Nat
    BY LeftBounds DEF Tick, Typed
  <1>4. PICK past \in 0..Len(ages) :
          /\ ages' \in Seq(0..(Second - 1))
          /\ Len(ages') = Len(ages) - past
          /\ \A i \in 1..Len(ages') : ages'[i] = ages[past + i] + 1
    BY TickAges
  <1>5. Len(ages) \in Nat BY DEF Typed
  <1>6. Typed' BY <1>1, <1>3, <1>4 DEF Typed
  <1>7. Paced'
    <2>1. CASE pc = "reserved"
      <3>1. slot' <= Interval + sleep'
        <4>1. slot \in Nat /\ sleep \in Nat /\ slot <= Interval + sleep
          BY <2>1 DEF Typed, Paced
        <4> QED BY <1>2, <4>1 DEF Tick, Left
      <3>2. sleep <= Interval BY <2>1 DEF Paced
      <3>3. sleep' <= Interval BY <1>2, <1>3, <3>2
      <3> QED BY <1>1, <1>2, <2>1, <3>1, <3>3 DEF Paced
    <2>2. CASE pc # "reserved"
      <3>1. slot <= Interval BY <2>2 DEF Paced
      <3>2. slot' <= Interval BY <1>2, <1>3, <3>1
      <3> QED BY <1>1, <1>2, <2>2, <3>2 DEF Paced
    <2> QED BY <2>1, <2>2
  <1>8. Counted'
    <2> SUFFICES ASSUME rate = 0 PROVE ages' = <<>>
      BY <1>1 DEF Counted
    <2>1. Len(ages) = 0 BY DEF Counted
    <2>2. past = 0 BY <2>1
    <2>3. Len(ages') = 0 BY <1>4, <2>1, <2>2
    <2> QED BY <1>4, <2>3, EmptySeq
  <1>9. Spaced'
    <2> SUFFICES ASSUME NEW i \in 1..Len(ages') PROVE SpacedAt(i)'
      BY DEF Spaced
    <2>1. past + i \in 1..Len(ages) /\ Len(ages') - i = Len(ages) - (past + i)
      BY <1>4, <1>5
    <2>2. SpacedAt(past + i) BY <2>1 DEF Spaced
    <2>3. ages'[i] = ages[past + i] + 1 BY <1>4
    <2>4. ages[past + i] \in Nat BY <2>1, AgesBounded, TimeAssumption
    <2>5. slot' + ages'[i] >= slot + ages[past + i] BY <1>3, <2>3, <2>4, SumKeeps
    <2>6. sleep' + ages'[i] >= sleep + ages[past + i] BY <1>3, <2>3, <2>4, SumKeeps
    <2> DEFINE d == (Len(ages) - (past + i)) * Interval
    <2>7. d \in Int BY <1>2, <1>5, <2>1
    <2>8. (Len(ages') - i) * Interval' = d BY <1>2, <2>1
    <2>9. /\ pc # "reserved" => slot + ages[past + i] >= d
          /\ pc = "reserved" => /\ sleep + ages[past + i] >= d
                                /\ slot + ages[past + i] >= d + Interval
      BY <2>2 DEF SpacedAt
    <2>10. slot' + ages'[i] \in Int /\ sleep' + ages'[i] \in Int BY <1>3, <2>3, <2>4
    <2>11. slot + ages[past + i] \in Int /\ sleep + ages[past + i] \in Int
      BY <1>3, <2>4
    <2> HIDE DEF d
    <2>12. /\ pc # "reserved" => slot' + ages'[i] >= d
           /\ pc = "reserved" => /\ sleep' + ages'[i] >= d
                                 /\ slot' + ages'[i] >= d + Interval
      BY <1>2, <2>5, <2>6, <2>7, <2>9, <2>10, <2>11
    <2> QED BY <1>1, <1>2, <2>8, <2>12 DEF SpacedAt
  <1>10. OneMoreAtMost' BY <1>1, <1>4, <1>5 DEF OneMoreAtMost
  <1>11. Waits'
    <2>1. heard /\ pc = "backoff" => pause' <= sleep' BY DEF Tick, Left, Waits, Typed
    <2>2. heard /\ pc \in {"wait", "reserved", "sent"} /\ retry # 0 => pause' = 0
      BY DEF Tick, Left, Waits
    <2> QED BY <1>1, <1>3, <2>1, <2>2 DEF Waits
  <1> QED BY <1>6, <1>7, <1>8, <1>9, <1>10, <1>11

\* A request that goes out now is an interval after all but the last of those
\* of the last second, and a second has no more intervals than the limit.
LEMMA SendCounts ==
    ASSUME Inv, Send, rate # 0
    PROVE  Len(ages) <= rate
  <1>1. rate \in Nat BY RateNat DEF Inv
  <1>2. Interval \in Nat /\ rate * Interval >= Second BY <1>1, IntervalCovers
  <1>3. Len(ages) \in Nat BY DEF Inv, Typed
  <1>4. SUFFICES ASSUME Len(ages) > rate PROVE FALSE
    BY <1>1, <1>3
  <1>5. 1 \in 1..Len(ages) BY <1>1, <1>3, <1>4
  <1>6. ages[1] \in 0..(Second - 1) BY <1>5, AgesBounded DEF Inv
  <1>7. ages[1] >= (Len(ages) - 1) * Interval
    <2>1. pc = "reserved" /\ sleep = 0 BY DEF Send, Slept
    <2>2. sleep + ages[1] >= (Len(ages) - 1) * Interval
      BY <1>5, <2>1 DEF Inv, Spaced, SpacedAt
    <2> QED BY <1>6, <2>1, <2>2
  <1>8. rate * Interval <= (Len(ages) - 1) * Interval
    <2>1. Len(ages) - 1 \in Nat /\ rate <= Len(ages) - 1 BY <1>1, <1>3, <1>4
    <2> QED BY <1>1, <1>2, <2>1, TimesMono
  <1>9. rate * Interval \in Nat /\ (Len(ages) - 1) * Interval \in Int BY <1>1, <1>2, <1>3
  <1> QED BY <1>2, <1>6, <1>7, <1>8, <1>9, TimeAssumption

LEMMA SendInv == Inv /\ Send => Inv'
  <1> SUFFICES ASSUME Inv, Send PROVE Inv'
    OBVIOUS
  <1> USE DEF Inv
  <1>1. /\ rate \in Nat /\ rate' = rate /\ retry' = retry /\ slot' = slot
        /\ sleep' = sleep /\ pause' = pause /\ heard' = heard
        /\ pc = "reserved" /\ pc' = "sent" /\ sleep = 0
    BY RateNat DEF Send, Slept
  <1>2. Interval \in Nat /\ Interval' = Interval BY <1>1, IntervalCovers DEF Interval
  <1>3. ages \in Seq(0..(Second - 1)) /\ Len(ages) \in Nat /\ 0 \in 0..(Second - 1)
    BY TimeAssumption DEF Typed
  <1>4. CASE rate = 0
    <2>1. ages' = ages /\ ages = <<>> /\ Len(ages) = 0 BY <1>4 DEF Send, Counted
    <2>2. Typed' BY <1>1, <1>3, <2>1 DEF Typed
    <2>3. Paced' BY <1>1, <1>2 DEF Paced, Typed
    <2>4. Counted' BY <2>1 DEF Counted
    <2>5. Spaced' BY <2>1 DEF Spaced
    <2>6. OneMoreAtMost' BY <1>1, <1>4 DEF OneMoreAtMost
    <2>7. Waits' BY <1>1 DEF Waits
    <2> QED BY <2>2, <2>3, <2>4, <2>5, <2>6, <2>7
  <1>5. CASE rate # 0
    <2>1. ages' = Append(ages, 0) BY <1>5 DEF Send
    <2>2. /\ ages' \in Seq(0..(Second - 1)) /\ Len(ages') = Len(ages) + 1
          /\ \A i \in 1..Len(ages) : ages'[i] = ages[i]
          /\ ages'[Len(ages) + 1] = 0
      BY <1>3, <2>1, AppendProperties
    <2>3. Typed' BY <1>1, <2>2 DEF Typed
    <2>4. Paced' BY <1>1, <1>2 DEF Paced, Typed
    <2>5. Counted' BY <1>1, <1>5 DEF Counted
    <2>6. Spaced'
      <3> SUFFICES ASSUME NEW i \in 1..Len(ages') PROVE SpacedAt(i)'
        BY DEF Spaced
      <3>1. CASE i = Len(ages) + 1
        <4>1. (Len(ages') - i) * Interval = 0 BY <1>2, <1>3, <2>2, <3>1
        <4> QED BY <1>1, <1>2, <2>2, <3>1, <4>1 DEF SpacedAt, Typed
      <3>2. CASE i \in 1..Len(ages)
        <4>1. slot + ages[i] >= (Len(ages) - i) * Interval + Interval
          BY <1>1, <3>2 DEF Spaced, SpacedAt
        <4>2. (Len(ages') - i) * Interval = (Len(ages) - i) * Interval + Interval
          BY <1>2, <1>3, <2>2
        <4> QED BY <1>1, <1>2, <2>2, <3>2, <4>1, <4>2 DEF SpacedAt
      <3> QED BY <1>3, <2>2, <3>1, <3>2
    <2>7. OneMoreAtMost' BY <1>1, <1>3, <1>5, <2>2, SendCounts DEF OneMoreAtMost
    <2>8. Waits' BY <1>1 DEF Waits
    <2> QED BY <2>3, <2>4, <2>5, <2>6, <2>7, <2>8
  <1> QED BY <1>4, <1>5

LEMMA ReserveInv == Inv /\ Reserve => Inv'
  <1> SUFFICES ASSUME Inv, Reserve PROVE Inv'
    OBVIOUS
  <1> USE DEF Inv
  <1>1. /\ rate \in Nat /\ rate' = rate /\ retry' = retry /\ pause' = pause /\ heard' = heard
        /\ ages' = ages /\ pc = "wait" /\ pc' = "reserved"
    BY RateNat DEF Reserve
  <1>2. Interval \in Nat /\ Interval' = Interval BY <1>1, IntervalCovers DEF Interval
  <1>3. slot \in Nat /\ slot <= Interval BY <1>1 DEF Typed, Paced
  <1>4. rate # 0 => sleep' = slot /\ slot' = slot + Interval BY DEF Reserve, NextSlot
  <1>5. rate = 0 => sleep' = 0 /\ slot' = 0 BY DEF Reserve, NextSlot
  <1>6. Typed' BY <1>1, <1>2, <1>3, <1>4, <1>5 DEF Typed
  <1>7. Paced' BY <1>1, <1>2, <1>3, <1>4, <1>5 DEF Paced
  <1>8. Counted' BY <1>1 DEF Counted
  <1>9. Spaced'
    <2> SUFFICES ASSUME NEW i \in 1..Len(ages) PROVE SpacedAt(i)'
      BY <1>1 DEF Spaced
    <2>1. rate # 0
      <3>1. SUFFICES ASSUME ages = <<>> PROVE FALSE
        BY DEF Counted
      <3> QED BY <3>1
    <2>2. slot + ages[i] >= (Len(ages) - i) * Interval BY <1>1 DEF Spaced, SpacedAt
    <2>3. ages[i] \in Nat /\ (Len(ages) - i) * Interval \in Int
      BY <1>2, AgesBounded, TimeAssumption DEF Typed
    <2>4. slot' + ages[i] = slot + ages[i] + Interval BY <1>2, <1>3, <1>4, <2>1, <2>3
    <2>5. sleep' + ages[i] = slot + ages[i] BY <1>4, <2>1
    <2>6. slot + ages[i] + Interval >= (Len(ages) - i) * Interval + Interval
      BY <1>2, <1>3, <2>2, <2>3
    <2> QED BY <1>1, <1>2, <2>2, <2>4, <2>5, <2>6 DEF SpacedAt
  <1>10. OneMoreAtMost' BY <1>1 DEF OneMoreAtMost
  <1>11. Waits' BY <1>1 DEF Waits
  <1> QED BY <1>6, <1>7, <1>8, <1>9, <1>10, <1>11

\* The steps at which no reservation is made or used.
LEMMA OtherInv ==
    ASSUME Inv, rate' = rate, slot' = slot, ages' = ages, pc # "reserved", pc' # "reserved",
           Typed', Waits'
    PROVE  Inv'
  <1>1. Interval' = Interval BY DEF Interval
  <1>2. Paced' BY <1>1 DEF Inv, Paced
  <1>3. Counted' BY DEF Inv, Counted
  <1>4. Spaced'
    <2> SUFFICES ASSUME NEW i \in 1..Len(ages) PROVE SpacedAt(i)'
      BY DEF Spaced
    <2>1. SpacedAt(i) BY DEF Inv, Spaced
    <2> QED BY <1>1, <2>1 DEF SpacedAt
  <1>5. OneMoreAtMost' BY DEF Inv, OneMoreAtMost
  <1> QED BY <1>2, <1>3, <1>4, <1>5 DEF Inv

LEMMA BeginInv == Inv /\ Begin => Inv'
  <1> SUFFICES ASSUME Inv, Begin PROVE Inv'
    OBVIOUS
  <1>1. Typed' BY DEF Begin, Inv, Typed
  <1>2. Waits' BY DEF Begin, Waits
  <1> QED BY <1>1, <1>2, OtherInv DEF Begin

LEMMA AnswerInv == Inv /\ Answer => Inv'
  <1> SUFFICES ASSUME Inv, Answer PROVE Inv'
    OBVIOUS
  <1>1. Typed' BY DEF Answer, Return, Inv, Typed
  <1>2. Waits' BY DEF Answer, Return, Waits
  <1> QED BY <1>1, <1>2, OtherInv DEF Answer, Return

LEMMA ThrottledInv == Inv /\ Throttled => Inv'
  <1> SUFFICES ASSUME Inv, Throttled PROVE Inv'
    OBVIOUS
  <1>1. PICK asked \in RetryAfter, seconds \in BOOLEAN :
          /\ pause' = asked /\ heard' = seconds
          /\ \/ /\ retry < Len(Backoff)
                /\ retry' = NextRetry
                /\ sleep' = RetryDelay(Understood(asked, seconds))
                /\ pc' = "backoff"
                /\ UNCHANGED <<rate, slot, ages>>
             \/ Return("idle")
    BY DEF Throttled
  <1>2. asked \in Nat /\ Understood(asked, seconds) \in Nat
    BY TimeAssumption DEF Understood
  <1>3. CASE /\ retry < Len(Backoff)
             /\ retry' = NextRetry
             /\ sleep' = RetryDelay(Understood(asked, seconds))
             /\ pc' = "backoff"
             /\ UNCHANGED <<rate, slot, ages>>
    <2>1. retry \in Nat /\ Len(Backoff) \in Nat BY TimeAssumption DEF Inv, Typed
    <2>2. retry' \in 0..Len(Backoff) BY <1>3, <2>1 DEF NextRetry
    <2>3. Backoff[retry + 1] \in Nat BY <1>3, <2>1, TimeAssumption
    <2>4. sleep' \in Nat BY <1>2, <1>3, <2>3 DEF RetryDelay, Larger
    <2>5. seconds => pause' <= sleep'
      BY <1>1, <1>2, <1>3, <2>3 DEF RetryDelay, Larger, Understood
    <2>6. Typed' BY <1>1, <1>2, <1>3, <2>2, <2>4 DEF Inv, Typed
    <2>7. Waits' BY <1>1, <1>3, <2>5 DEF Waits
    <2> QED BY <1>3, <2>6, <2>7, OtherInv DEF Throttled
  <1>4. CASE Return("idle")
    <2>1. Typed' BY <1>1, <1>2, <1>4 DEF Return, Inv, Typed
    <2>2. Waits' BY <1>4 DEF Return, Waits
    <2> QED BY <1>4, <2>1, <2>2, OtherInv DEF Throttled, Return
  <1> QED BY <1>1, <1>3, <1>4

LEMMA ResendInv == Inv /\ Resend => Inv'
  <1> SUFFICES ASSUME Inv, Resend PROVE Inv'
    OBVIOUS
  <1>1. Typed' BY DEF Resend, Inv, Typed
  <1>2. Waits' BY DEF Resend, Slept, Inv, Typed, Waits
  <1> QED BY <1>1, <1>2, OtherInv DEF Resend

LEMMA StutterInv == Inv /\ UNCHANGED vars => Inv'
  <1> SUFFICES ASSUME Inv, UNCHANGED vars PROVE Inv'
    OBVIOUS
  <1>1. Interval' = Interval BY DEF vars, Interval
  <1>2. Typed' /\ Paced' /\ Counted' /\ OneMoreAtMost' /\ Waits'
    BY <1>1 DEF vars, Inv, Typed, Paced, Counted, OneMoreAtMost, Waits
  <1>3. Spaced' BY <1>1 DEF vars, Inv, Spaced, SpacedAt
  <1> QED BY <1>2, <1>3 DEF Inv

LEMMA NextInv == Inv /\ [Next]_vars => Inv'
  BY TickInv, SendInv, ReserveInv, BeginInv, AnswerInv, ThrottledInv, ResendInv, StutterInv
  DEF Next, Step

LEMMA RpcInv == Spec => []Inv
  BY InitInv, NextInv, PTL DEF Spec

-----------------------------------------------------------------------------
(* The theorems *)

\* The state is well formed, and no reservation lies more than two intervals
\* ahead, however often the client waits and retries (reserve_delay).
THEOREM RpcTypeOK == Spec => []TypeOK
  <1>1. Inv => TypeOK
    <2> SUFFICES ASSUME Inv PROVE TypeOK
      OBVIOUS
    <2>1. Interval \in Nat BY RateNat, IntervalCovers DEF Inv
    <2>2. slot \in 0..(2 * Interval) BY <2>1 DEF Inv, Typed, Paced
    <2> QED BY <2>2 DEF Inv, Typed, TypeOK
  <1> QED BY <1>1, RpcInv, PTL

\* Whatever the limit, the backoffs and the wake-ups, a second sees at most one
\* request more than the limit.
THEOREM RpcOneMoreAtMost == Spec => []OneMoreAtMost
  <1>1. Inv => OneMoreAtMost BY DEF Inv
  <1> QED BY <1>1, RpcInv, PTL

\* No retry goes out while the server wants to be left alone, as far as it said
\* so in seconds (retry_delay).
THEOREM RpcPausesHonoured == Spec => PausesHonoured
  <1>1. Inv /\ [Next]_vars => [pc = "reserved" /\ pc' = "sent" /\ retry # 0 => pause = 0 \/ ~heard]_vars
    BY DEF Inv, Waits
  <1> QED BY <1>1, RpcInv, PTL DEF Spec, PausesHonoured
=============================================================================
