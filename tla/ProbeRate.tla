------------------------------- MODULE ProbeRate -------------------------------
(***************************************************************************)
(* The ProbeRate block (packet-modem/probe_rate.hpp): the flowgraph counts *)
(* the items that it consumes, and a thread of the block sends a message   *)
(* about them once in an interval.  In between it sleeps on a condition    *)
(* variable, until stop() or pause() wakes it and joins it.  The thread of *)
(* MessageStrobe (packet-modem/message_strobe.hpp) is made in the same way.*)
(*                                                                         *)
(* std::mutex, std::condition_variable and std::thread are those of the    *)
(* standard: a wait may end without reason.                                *)
(*                                                                         *)
(* The clock ticks at any moment.  A message has the items and the time of *)
(* which it tells the quotient; the average is left out.                   *)
(***************************************************************************)
EXTENDS Integers

CONSTANTS
  Interval,        (* min_update_time_secs, in ticks                       *)
  MaxItems,        (* bound: items of one call of processBulk()            *)
  MaxBehind,       (* bound: items that no message has told of             *)
  Modulus          (* _samples_consumed is modulo this (2^64 in the code)  *)

ProbeAssumption ==
  /\ Interval \in Nat \ {0} /\ MaxItems \in Nat
  /\ MaxBehind \in Nat /\ Modulus \in Nat /\ Modulus > MaxBehind

VARIABLES
  owner,            (* where the thread that calls start() and stop() is   *)
  worker,           (* where _thread is                                    *)
  stop,             (* _stop                                               *)
  mutex,            (* _mutex: who has it                                  *)
  notified,         (* the wait of the worker on _cv was notified          *)
  samples_consumed, (* _samples_consumed                                   *)
  count_start,      (* count_start, and count_end once it is read          *)
  count_end,
  since_start,      (* ticks since start, at most Interval                 *)
  elapsed,          (* end - start, at most Interval                       *)
  since_wait,       (* ticks since wait_for() was called, at most Interval *)
  rate,             (* the message sent last: items and time               *)
  reported,         (* ghost: items of the messages since the thread began *)
  first             (* ghost: _samples_consumed when it began              *)

thread_vars == <<owner, worker, stop, mutex, notified>>
count_vars == <<count_start, count_end, since_start, elapsed>>
ghost_vars == <<rate, reported, first>>
block_vars == <<samples_consumed, count_vars, since_wait, ghost_vars>>
vars == <<thread_vars, block_vars>>

Least(a, b) == IF a <= b THEN a ELSE b
Later(ticks) == Least(ticks + 1, Interval)
Minus(a, b) == (a - b) % Modulus

-----------------------------------------------------------------------------
Idle == {"stopped", "paused"}

(* start() and resume(). *)
StartWith(samples) ==
  /\ owner' = "running" /\ worker' = "starting"
  /\ stop' = FALSE
  /\ samples_consumed' = samples
  /\ UNCHANGED <<mutex, notified, count_vars, since_wait, ghost_vars>>

Start  == owner = "stopped" /\ StartWith(0)
Resume == owner = "paused" /\ StartWith(samples_consumed)

(* The thread begins with a look at the clock and the count. *)
Begin ==
  /\ worker = "starting" /\ worker' = "working"
  /\ count_start' = samples_consumed
  /\ since_start' = 0
  /\ reported' = 0 /\ first' = samples_consumed
  /\ UNCHANGED <<owner, stop, mutex, notified, samples_consumed, count_end, elapsed,
                 since_wait, rate>>

(* One call of processBulk(). *)
ProcessBulk(n) ==
  /\ owner = "running"
  /\ worker = "starting" \/ Minus(samples_consumed, count_start) + n <= MaxBehind
  /\ samples_consumed' = (samples_consumed + n) % Modulus
  /\ UNCHANGED <<thread_vars, count_vars, since_wait, ghost_vars>>

(* stop_thread(), from stop() or from pause(). *)
CallStop ==
  /\ owner = "running"
  /\ owner' \in {"stopping", "pausing"}
  /\ UNCHANGED <<worker, stop, mutex, notified, block_vars>>

(* Mutation: the flag is set without the mutex. *)
SetStopUnlocked ==
  /\ owner \in {"stopping", "pausing"} /\ ~stop
  /\ stop' = TRUE
  /\ UNCHANGED <<owner, worker, mutex, notified, block_vars>>

(* The scope of the lock_guard, which nobody can look into. *)
SetStop ==
  /\ owner \in {"stopping", "pausing"} /\ ~stop
  /\ mutex = "free"
  /\ stop' = TRUE
  /\ UNCHANGED <<owner, worker, mutex, notified, block_vars>>

(* A notification is for the threads that wait now. *)
Notify ==
  /\ owner \in {"stopping", "pausing"} /\ stop
  /\ notified' = (worker = "waiting")
  /\ owner' = IF owner = "stopping" THEN "joining" ELSE "joining to pause"
  /\ UNCHANGED <<worker, stop, mutex, block_vars>>

Join ==
  /\ owner \in {"joining", "joining to pause"} /\ worker = "ended"
  /\ owner' = IF owner = "joining" THEN "stopped" ELSE "paused"
  /\ worker' = "none"
  /\ UNCHANGED <<stop, mutex, notified, block_vars>>

(* The worker locks the mutex and calls wait_for(). *)
Lock ==
  /\ worker = "working" /\ mutex = "free"
  /\ worker' = "checking" /\ mutex' = "worker"
  /\ since_wait' = 0
  /\ UNCHANGED <<owner, stop, notified, samples_consumed, count_vars, ghost_vars>>

(* Mutation: no predicate; a wait that ended is not begun again. *)
CheckOnce ==
  /\ worker = "checking"
  /\ worker' \in {"leaving", "blocking"}
  /\ UNCHANGED <<owner, stop, mutex, notified, block_vars>>

(* The predicate of wait_for(), with the mutex. *)
Check ==
  /\ worker = "checking"
  /\ worker' = IF stop \/ since_start = Interval THEN "leaving" ELSE "blocking"
  /\ UNCHANGED <<owner, stop, mutex, notified, block_vars>>

(* The wait begins and unlocks the mutex. *)
Block ==
  /\ worker = "blocking"
  /\ worker' = "waiting" /\ mutex' = "free" /\ notified' = FALSE
  /\ UNCHANGED <<owner, stop, block_vars>>

(* A notification ends it; so may anything. *)
Wake ==
  /\ worker = "waiting" /\ mutex = "free"
  /\ worker' = "checking" /\ mutex' = "worker"
  /\ UNCHANGED <<owner, stop, notified, block_vars>>

(* The time is over, and wait_for() returns whatever the predicate is. *)
Timeout ==
  /\ worker = "waiting" /\ mutex = "free" /\ since_wait = Interval
  /\ worker' = "leaving" /\ mutex' = "worker"
  /\ UNCHANGED <<owner, stop, notified, block_vars>>

(* Mutation: the lock is not of the body of the loop. *)
LeaveLocked ==
  /\ worker = "leaving"
  /\ worker' = IF stop THEN "ended" ELSE "woken"
  /\ UNCHANGED <<owner, stop, mutex, notified, block_vars>>

(* The worker returns, or goes on with its loop without the mutex. *)
Leave ==
  /\ worker = "leaving"
  /\ worker' = IF stop THEN "ended" ELSE "woken"
  /\ mutex' = "free"
  /\ UNCHANGED <<owner, stop, notified, block_vars>>

(* end is read here, and start will be the same. *)
ReadClock ==
  /\ worker = "woken" /\ worker' = "timed"
  /\ elapsed' = since_start /\ since_start' = 0
  /\ UNCHANGED <<owner, stop, mutex, notified, samples_consumed, count_start,
                 count_end, since_wait, ghost_vars>>

ReadCount ==
  /\ worker = "timed" /\ worker' = "counted"
  /\ count_end' = samples_consumed
  /\ UNCHANGED <<owner, stop, mutex, notified, samples_consumed, count_start,
                 since_start, elapsed, since_wait, ghost_vars>>

(* Mutation: the next interval begins with the count of now. *)
NextStartNow == samples_consumed

NextStart == count_end

(* The message is sent, and the next interval begins where this one ends. *)
Report ==
  /\ worker = "counted" /\ worker' = "working"
  /\ rate' = [items |-> Minus(count_end, count_start), time |-> elapsed]
  /\ reported' = (reported + rate'.items) % Modulus
  /\ count_start' = NextStart
  /\ UNCHANGED <<owner, stop, mutex, notified, samples_consumed, count_end,
                 since_start, elapsed, since_wait, first>>

Tick ==
  /\ since_start' = Later(since_start)
  /\ since_wait' = Later(since_wait)
  /\ UNCHANGED <<thread_vars, samples_consumed, count_start, count_end, elapsed, ghost_vars>>

Worker ==
  \/ Begin \/ Lock \/ Check \/ Block \/ Timeout \/ Leave
  \/ ReadClock \/ ReadCount \/ Report

OwnerStep == SetStop \/ Notify \/ Join

Next ==
  \/ Start \/ Resume \/ CallStop \/ OwnerStep
  \/ \E n \in 0 .. MaxItems : ProcessBulk(n)
  \/ Worker \/ Wake \/ Tick

Init ==
  /\ owner = "stopped" /\ worker = "none"
  /\ stop = FALSE /\ mutex = "free" /\ notified = FALSE
  /\ samples_consumed = 0 /\ count_start = 0 /\ count_end = 0
  /\ since_start = 0 /\ elapsed = Interval /\ since_wait = 0
  /\ rate = [items |-> 0, time |-> Interval] /\ reported = 0 /\ first = 0

Spec == Init /\ [][Next]_vars

(* Every thread goes on, and a thread that wants the mutex gets it between *)
(* two times that the other has it.  Time need not pass.                   *)
FairSpec ==
  /\ Spec
  /\ WF_vars(Worker) /\ SF_vars(notified /\ Wake) /\ SF_vars(OwnerStep)

-----------------------------------------------------------------------------
(* The variables have their types; there is a thread exactly while the     *)
(* block runs, and the mutex is its only while it looks at the flag.       *)
TypeOK ==
  /\ samples_consumed \in 0 .. Modulus - 1
  /\ since_start \in 0 .. Interval /\ since_wait \in 0 .. Interval
  /\ worker = "none" <=> owner \in Idle
  /\ mutex = "worker" <=> worker \in {"checking", "blocking", "leaving"}
  /\ worker = "ended" => stop

(* Every item is told of by one message: the messages of a thread add up   *)
(* to what was consumed while it ran, but for what the next message will   *)
(* tell of, whatever is consumed while it measures (probe_rate.hpp:60-80). *)
CountsAddUp ==
  worker # "starting" =>
    (reported + Minus(samples_consumed, count_start)) % Modulus
      = Minus(samples_consumed, first)

(* A message tells of no less than the update time: "spaced by the update  *)
(* time" (probe_rate.hpp:25); its quotient has no small divisor.           *)
ReportsSpaced == rate.time = Interval

(* stop() and pause() return, without waiting for the update time: the     *)
(* worker does not miss that it is stopped.                                *)
StopReturns ==
  owner \in {"stopping", "pausing"} ~> owner \in Idle

(* The three together. *)
ReportsRight == TypeOK /\ CountsAddUp /\ ReportsSpaced
=============================================================================
