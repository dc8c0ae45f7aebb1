----------------------------- MODULE RateLimiter -----------------------------
(***************************************************************************)
(* The bandwidth limit (client-core/src/limits.rs): one token bucket for   *)
(* the whole process, charged by every session's outbound task before it   *)
(* writes a bulk message (a file chunk or a chunk of an HTTP response) to  *)
(* its data channel (client-core/src/rtc/mod.rs).                          *)
(*                                                                         *)
(* acquire_send_tokens reads the limit, then locks the bucket, refills it  *)
(* for the time since the last charge, up to one second's worth, takes the *)
(* message's bytes out of it even if that leaves a debt, and, the lock     *)
(* released, sleeps for as long as the debt takes to be paid at the limit  *)
(* it read.  The application may change the limit at any time.             *)
(*                                                                         *)
(* The unit of time is the second of the bucket's depth, a rate is in      *)
(* tokens per unit.  A sleep lasts at least its time: a task may wake late.*)
(***************************************************************************)
EXTENDS Integers, FiniteSets, FiniteSetsExt

CONSTANTS Sessions,    \* outbound tasks
          Sizes,       \* sizes of bulk messages
          Requests,    \* limits the application asks for, 0 for none
          MinRate,     \* MIN_KBPS
          MaxTime,     \* bound on the time that is looked at
          MaxSends,    \* bound on the messages that are charged
          MaxChanges,  \* bound on calls of set_bandwidth_limit_kbps
          Marks        \* times at which the observer may start to count

ASSUME RateLimiterAssumption ==
    /\ IsFiniteSet(Sessions) /\ Sessions # {}
    /\ IsFiniteSet(Sizes) /\ Sizes # {} /\ Sizes \subseteq Nat
    /\ Requests # {} /\ Requests \subseteq Nat
    /\ MinRate \in Nat \ {0}
    /\ {MaxTime, MaxSends, MaxChanges} \subseteq Nat
    /\ Marks \subseteq Nat

VARIABLES
    now,      \* the monotonic clock
    limit,    \* BANDWIDTH_KBPS
    tokens,   \* Bucket.tokens
    last,     \* Bucket.last
    created,  \* when the bucket was made, -1 before the first charge
    pc,       \* a session's task: "idle", "locking" or "sleeping"
    rate,     \* the limit it read
    size,     \* the bytes it is to send
    start,    \* when its sleep began
    debt,     \* what the sleep waits for
    sent,     \* bytes of charged messages that were let through
    highest,  \* the highest limit that was in force
    mark,     \* a moment from which an observer counts, -1 before
    counted,  \* whether a task's message was charged since then
    through,  \* bytes charged since then that were let through
    sends, changes   \* counted for the bounds

vars == <<now, limit, tokens, last, created, pc, rate, size, start, debt, sent,
          highest, mark, counted, through, sends, changes>>
taskVars == <<pc, rate, size, start, debt>>
observerVars == <<mark, counted, through>>
bucketVars == <<tokens, last, created>>

\* effective_kbps: none, or at least the floor.
Effective(request) ==
    IF request = 0 THEN 0 ELSE Max({request, MinRate})

\* The application sets a limit before the first session starts, or never.
Init ==
    /\ now = 0
    /\ \E request \in Requests : limit = Effective(request)
    /\ highest = limit
    /\ tokens = 0 /\ last = 0 /\ created = -1
    /\ pc = [s \in Sessions |-> "idle"]
    /\ rate = [s \in Sessions |-> 0]
    /\ size = [s \in Sessions |-> 0]
    /\ start = [s \in Sessions |-> 0]
    /\ debt = [s \in Sessions |-> 0]
    /\ mark = -1 /\ counted = [s \in Sessions |-> FALSE] /\ through = 0
    /\ sent = 0 /\ sends = 0 /\ changes = 0

\* set_bandwidth_limit_kbps
SetLimit(request) ==
    /\ changes < MaxChanges
    /\ changes' = changes + 1
    /\ limit' = Effective(request)
    /\ highest' = Max({highest, limit'})
    /\ UNCHANGED <<now, bucketVars, taskVars, observerVars, sent, sends>>

\* A task has a bulk message of b bytes and reads the limit; without one the
\* message goes out uncharged.
Begin(s, b) ==
    /\ pc[s] = "idle"
    /\ sends < MaxSends
    /\ sends' = sends + 1
    /\ IF limit = 0
       THEN UNCHANGED taskVars
       ELSE /\ pc' = [pc EXCEPT ![s] = "locking"]
            /\ rate' = [rate EXCEPT ![s] = limit]
            /\ size' = [size EXCEPT ![s] = b]
            /\ UNCHANGED <<start, debt>>
    /\ UNCHANGED <<now, limit, bucketVars, observerVars, sent, highest, changes>>

\* Variant: the refill is not capped at what one unit brings.
RefilledUncapped(s) ==
    IF created = -1 THEN 0 ELSE tokens + (now - last) * rate[s]

\* What the bucket holds after the refill; the first charge makes it, empty.
Refilled(s) ==
    IF created = -1 THEN 0 ELSE Min({tokens + (now - last) * rate[s], rate[s]})

\* The message is written to the channel.
LetThrough(s, since) ==
    /\ sent' = sent + size[s]
    /\ through' = IF since THEN through + size[s] ELSE through

\* acquire_send_tokens returns, its locals are gone.
Return(s) ==
    /\ pc' = [pc EXCEPT ![s] = "idle"]
    /\ rate' = [rate EXCEPT ![s] = 0]
    /\ size' = [size EXCEPT ![s] = 0]
    /\ start' = [start EXCEPT ![s] = 0]
    /\ debt' = [debt EXCEPT ![s] = 0]
    /\ counted' = [counted EXCEPT ![s] = FALSE]

\* The task has the bucket's lock: refill, charge, release.
Acquire(s) ==
    /\ pc[s] = "locking"
    /\ tokens' = Refilled(s) - size[s]
    /\ last' = now
    /\ created' = IF created = -1 THEN now ELSE created
    /\ IF tokens' < 0
       THEN /\ pc' = [pc EXCEPT ![s] = "sleeping"]
            /\ start' = [start EXCEPT ![s] = now]
            /\ debt' = [debt EXCEPT ![s] = -tokens']
            /\ counted' = [counted EXCEPT ![s] = mark # -1]
            /\ UNCHANGED <<sent, through>>
            /\ UNCHANGED <<rate, size>>
       ELSE /\ LetThrough(s, mark # -1)
            /\ Return(s)
    /\ UNCHANGED <<now, limit, highest, mark, sends, changes>>

\* Variant: the task sleeps for its own message only.
RestedForItself(s) == (now - start[s]) * rate[s] >= size[s]

\* Variant: the sleep follows the limit in force.
RestedAtLimit(s) == (now - start[s]) * limit >= debt[s]

\* The sleep is over: the time would pay the debt at the limit that was read.
Rested(s) == (now - start[s]) * rate[s] >= debt[s]

\* The task wakes and writes its message.
Wake(s) ==
    /\ pc[s] = "sleeping"
    /\ Rested(s)
    /\ LetThrough(s, counted[s])
    /\ Return(s)
    /\ UNCHANGED <<now, limit, bucketVars, highest, mark, sends, changes>>

\* An observer starts to count, once.
Mark ==
    /\ mark = -1 /\ now \in Marks
    /\ mark' = now
    /\ UNCHANGED <<now, limit, bucketVars, taskVars, sent, highest, counted, through,
                   sends, changes>>

Advance ==
    /\ now < MaxTime
    /\ now' = now + 1
    /\ UNCHANGED <<limit, bucketVars, taskVars, observerVars, sent, highest, sends,
                   changes>>

Next ==
    \/ \E request \in Requests : SetLimit(request)
    \/ \E s \in Sessions, b \in Sizes : Begin(s, b)
    \/ \E s \in Sessions : Acquire(s)
    \/ \E s \in Sessions : Wake(s)
    \/ Mark
    \/ Advance

Spec == Init /\ [][Next]_vars

\* A task that has the lock or whose sleep is over goes on.
Fairness ==
    /\ \A s \in Sessions : WF_vars(Acquire(s)) /\ WF_vars(Wake(s))
    /\ WF_vars(Advance)

FairSpec == Spec /\ Fairness

-----------------------------------------------------------------------------
\* The types of the state; a limit in force is never below the floor.
TypeOK ==
    /\ now \in 0..MaxTime
    /\ limit = 0 \/ (limit \in Nat /\ limit >= MinRate)
    /\ highest \in Nat /\ limit <= highest
    /\ tokens \in Int /\ last \in 0..now /\ created \in -1..now
    /\ pc \in [Sessions -> {"idle", "locking", "sleeping"}]
    /\ rate \in [Sessions -> Nat]
    /\ size \in [Sessions -> Sizes \cup {0}]
    /\ start \in [Sessions -> 0..now]
    /\ debt \in [Sessions -> Nat]
    /\ sent \in Nat
    /\ mark \in -1..now /\ counted \in [Sessions -> BOOLEAN] /\ through \in 0..sent
    /\ sends \in 0..MaxSends /\ changes \in 0..MaxChanges

\* However many sessions send, whenever the limit changes while they sleep or
\* wait for the lock, and however stale the limit is that they read: what the
\* limiter let through is at most what the highest limit allows for the time
\* since the first charge.
Throttled ==
    sent <= (IF created = -1 THEN 0 ELSE highest * (now - created))

\* The same from any moment on, after any silence and at any point of a busy
\* time: of what is charged since then, no more gets through than the highest
\* limit allows and one unit's worth that the bucket may have saved.
WindowThrottled == mark # -1 => through <= highest * (now - mark + 1)

\* A charged message is let through in the end, whatever the limit does while
\* its task sleeps (unless its sleep goes on beyond the time looked at).
AllGetThrough ==
    \A s \in Sessions :
        pc[s] # "idle" ~> (pc[s] = "idle" \/ start[s] + debt[s] > MaxTime)
=============================================================================
