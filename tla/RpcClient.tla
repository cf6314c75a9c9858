------------------------------ MODULE RpcClient ------------------------------
(***************************************************************************)
(* The HTTP transport of one capture (src/capture.rs): every read-only RPC *)
(* waits for the rate limiter, is sent, and is sent again a few times when *)
(* the server throttles or fails.                                          *)
(*                                                                         *)
(* The limiter, its clones and the transport belong to one thread, so one  *)
(* RPC is under way at a time; what makes it hard is that time passes      *)
(* between any two steps.  Tick is a unit of time.  A sleeping thread      *)
(* wakes no earlier than asked, possibly later.  Deadlines are kept as the *)
(* time left until them; a limiter without a reservation and one whose     *)
(* reservation is due behave alike, both having nothing left.              *)
(***************************************************************************)
EXTENDS Integers, Sequences

CONSTANTS
    Second,        \* units of time in a second
    Rates,         \* requests per second a limiter may be set to, 0 for no limit
    Backoff,       \* RPC_RETRY_BACKOFF
    RetryAfter,    \* pauses a server may ask for with its error, 0 for none
    MaxRetryAfter  \* RPC_MAX_RETRY_AFTER

ASSUME TimeAssumption ==
    /\ Second \in Nat \ {0} /\ MaxRetryAfter \in Nat
    /\ Rates \subseteq Nat /\ RetryAfter \subseteq Nat
    /\ Backoff \in Seq(Nat)

VARIABLES
    rate,    \* the builder's rpc_rate_limit
    pc,
    retry,   \* retries of the current RPC
    slot,    \* time until the next reservation of the limiter may be used
    sleep,   \* time the thread is still asleep at least
    pause,   \* history: time the server still wants to be left alone
    heard,   \* history: it said so in a way the client understands
    ages     \* history: time since each request of the last second, oldest first

vars == <<rate, pc, retry, slot, sleep, pause, heard, ages>>

Init ==
    /\ rate \in Rates
    /\ pc = "idle" /\ retry = 0
    /\ slot = 0 /\ sleep = 0 /\ pause = 0 /\ heard = TRUE
    /\ ages = <<>>

Larger(a, b) == IF a > b THEN a ELSE b

Left(t) == IF t = 0 THEN 0 ELSE t - 1

Tick ==
    /\ slot' = Left(slot)
    /\ sleep' = Left(sleep)
    /\ pause' = Left(pause)
    /\ \E past \in 0..Len(ages) :    \* the oldest leave the last second
         /\ \A i \in DOMAIN ages : i <= past <=> ages[i] + 1 >= Second
         /\ ages' = [i \in 1..(Len(ages) - past) |-> ages[past + i] + 1]
    /\ UNCHANGED <<rate, pc, retry, heard>>

\* rpc: it knows nothing of the RPCs before, nor of a pause the last one was
\* asked for in vain.
Begin ==
    /\ pc = "idle"
    /\ pc' = "wait"
    /\ retry' = 0
    /\ UNCHANGED <<rate, slot, sleep, pause, heard, ages>>

\* request_interval, rounded up.
Interval == IF rate = 0 THEN 0 ELSE (Second + rate - 1) \div rate

\* Mutant: the next reservation is counted from now.
FromNow == Interval

\* Reservations are an interval apart, however late they are used.
NextSlot == IF rate = 0 THEN 0 ELSE slot + Interval

\* reserve_delay
Reserve ==
    /\ pc = "wait"
    /\ sleep' = IF rate = 0 THEN 0 ELSE slot
    /\ slot' = NextSlot
    /\ pc' = "reserved"
    /\ UNCHANGED <<rate, retry, pause, heard, ages>>

\* Mutant: the thread does not sleep its delay out.
Unslept == TRUE

Slept == sleep = 0

\* The request goes out.  Without a limit nobody counts.
Send ==
    /\ pc = "reserved"
    /\ Slept
    /\ pc' = "sent"
    /\ ages' = IF rate = 0 THEN ages ELSE Append(ages, 0)
    /\ UNCHANGED <<rate, retry, slot, sleep, pause, heard>>

Return(to) ==
    /\ pc' = to
    /\ sleep' = 0
    /\ UNCHANGED <<rate, retry, slot, ages>>

\* An answer, an error of the RPC or the connection, the timeout of the agent,
\* or a status that is not worth a retry.
Answer ==
    /\ pc = "sent"
    /\ Return("idle")
    /\ UNCHANGED <<pause, heard>>

\* Mutant: one retry looks like the first.
SameRetry == retry

NextRetry == retry + 1

\* The pause retry_delay reads from Retry-After: one that is not a number of
\* seconds, a date for instance, is taken for none.
Understood(asked, seconds) == IF seconds THEN asked ELSE 0

\* Mutant: the server's pause is cut to the backoff.
OwnBackoff(wanted) == Backoff[retry + 1]

\* retry_delay, of a pause that is not too long.
RetryDelay(wanted) == Larger(Backoff[retry + 1], wanted)

\* A status worth a retry: 429, 500, 502, 503 or 504.
Throttled ==
    /\ pc = "sent"
    /\ \E asked \in RetryAfter, seconds \in BOOLEAN :
         LET wanted == Understood(asked, seconds)
         IN  /\ pause' = asked /\ heard' = seconds
             /\ \/ /\ retry < Len(Backoff) /\ wanted <= MaxRetryAfter
                   /\ retry' = NextRetry
                   /\ sleep' = RetryDelay(wanted)
                   /\ pc' = "backoff"
                   /\ UNCHANGED <<rate, slot, ages>>
                \/ /\ retry >= Len(Backoff) \/ wanted > MaxRetryAfter
                   /\ Return("idle")

Resend ==
    /\ pc = "backoff"
    /\ Slept
    /\ pc' = "wait"
    /\ UNCHANGED <<rate, retry, slot, sleep, pause, heard, ages>>

Step == Begin \/ Reserve \/ Send \/ Answer \/ Throttled \/ Resend

Next == Tick \/ Step

Spec == Init /\ [][Next]_vars

\* Time passes, a thread whose sleep is over wakes, and the agent's timeout
\* answers a request that nothing else answers.
FairSpec == Spec /\ WF_vars(Tick) /\ WF_vars(Reserve) /\ WF_vars(Send)
                 /\ WF_vars(Answer \/ Throttled) /\ WF_vars(Resend)

-----------------------------------------------------------------------------
(* Properties *)

\* Every variable has its type; a reservation is at most two intervals ahead.
TypeOK ==
    /\ rate \in Rates
    /\ pc \in {"idle", "wait", "reserved", "sent", "backoff"}
    /\ retry \in 0..Len(Backoff)
    /\ slot \in 0..(2 * Interval)
    /\ sleep \in Nat /\ pause \in Nat /\ heard \in BOOLEAN
    /\ ages \in Seq(0..(Second - 1))

\* In any second at most one request more than the limit goes out, retries
\* included: a late wake-up brings one request nearer to the next reservation,
\* but never two (reserve_delay).
OneMoreAtMost == rate # 0 => Len(ages) <= rate + 1

\* The limit as documented: at most the supplied requests per second.
RateLimited == rate # 0 => Len(ages) <= rate

\* No retry goes out before the server wants it, whatever the limiter and the
\* backoff say, if the server gave a number of seconds (retry_delay).
PausesHonoured ==
    [][pc = "reserved" /\ pc' = "sent" /\ retry # 0 => pause = 0 \/ ~heard]_vars

\* Every RPC comes to an end, though the server throttles it again and again
\* (send_read_rpc_with_retry).
RpcEnds == pc # "idle" ~> pc = "idle"
=============================================================================
