-------------------------- MODULE RateLimiterProofs --------------------------
(***************************************************************************)
(* The bandwidth limit, for any number of sessions, sizes and changes of   *)
(* the limit.                                                              *)
(*                                                                         *)
(* The tasks that sleep owe sums of bytes.  The sums are avoided by giving *)
(* each byte that is charged its number: a task owns the numbers of its    *)
(* message, and what went through is the set of the numbers that did.  A   *)
(* number stands for the moment when the highest limit would have paid for *)
(* the byte, and no byte goes through before that moment.                  *)
(***************************************************************************)
EXTENDS RateLimiter, FiniteSetTheorems, TLAPS

\* The bytes that were charged are numbered in the order of their charges, 1 to
\* C.  Some of them went through, and each task of W owns as many as its message
\* has: the first are among the first top, those of a task among the first cap.
Kept(W, sz, cap, top, amount, C, L, B) ==
    /\ L \subseteq 1..C /\ L \subseteq 1..top /\ Cardinality(L) = amount
    /\ \A s \in W : /\ B[s] \subseteq 1..C /\ B[s] \subseteq 1..cap[s]
                    /\ B[s] \cap L = {} /\ Cardinality(B[s]) = sz[s]
    /\ \A r, s \in W : r # s => B[r] \cap B[s] = {}

\* Such an account exists.
Ledger(W, sz, cap, top, amount, C) ==
    \E L \in SUBSET Nat, B \in [Sessions -> SUBSET Nat] :
        Kept(W, sz, cap, top, amount, C, L, B)

-----------------------------------------------------------------------------
\* A finite set of numbers is not larger than what it is a part of.
LEMMA Interval ==
    ASSUME NEW n \in Int
    PROVE  /\ IsFiniteSet(1..n)
           /\ n >= 0 => Cardinality(1..n) = n
           /\ n < 0 => 1..n = {}
BY FS_Interval

\* The b numbers after c, which a message gets.
LEMMA Segment ==
    ASSUME NEW c \in Nat, NEW b \in Nat
    PROVE  Cardinality((c + 1)..(c + b)) = b /\ IsFiniteSet((c + 1)..(c + b))
BY FS_Interval

\* An empty ledger.
LEMMA LedgerEmpty ==
    ASSUME NEW sz, NEW cap, NEW top
    PROVE  Ledger({}, sz, cap, top, 0, 0)
<1> DEFINE B == [s \in Sessions |-> {}]
<1>1. B \in [Sessions -> SUBSET Nat]
  OBVIOUS
<1>2. Kept({}, sz, cap, top, 0, 0, {}, B)
  BY FS_EmptySet DEF Kept
<1> QED BY <1>1, <1>2 DEF Ledger

\* What went through is at most what was allowed for it.
LEMMA LedgerBounds ==
    ASSUME NEW W, NEW sz, NEW cap, NEW top \in Nat, NEW amount, NEW C \in Nat,
           Ledger(W, sz, cap, top, amount, C)
    PROVE  amount <= top
<1>1. PICK L \in SUBSET Nat, B \in [Sessions -> SUBSET Nat] :
         Kept(W, sz, cap, top, amount, C, L, B)
  BY DEF Ledger
<1>2. L \in SUBSET (1..top) /\ Cardinality(L) = amount
  BY <1>1 DEF Kept
<1>3. IsFiniteSet(1..top) /\ Cardinality(1..top) = top
  BY Interval
<1>4. Cardinality(L) <= Cardinality(1..top)
  BY <1>2, <1>3, FS_Subset
<1> QED BY <1>2, <1>3, <1>4

\* More is allowed than before.
LEMMA LedgerGrows ==
    ASSUME NEW W \in SUBSET Sessions, NEW sz, NEW cap \in [Sessions -> Int], NEW top \in Int,
           NEW amount, NEW C \in Nat,
           Ledger(W, sz, cap, top, amount, C),
           NEW sz2, NEW cap2 \in [Sessions -> Int], NEW top2 \in Int, top <= top2,
           \A s \in W : cap[s] <= cap2[s] /\ sz2[s] = sz[s]
    PROVE  Ledger(W, sz2, cap2, top2, amount, C)
<1>1. PICK L \in SUBSET Nat, B \in [Sessions -> SUBSET Nat] :
         Kept(W, sz, cap, top, amount, C, L, B)
  BY DEF Ledger
<1>2. 1..top \subseteq 1..top2 /\ \A s \in W : 1..cap[s] \subseteq 1..cap2[s]
  OBVIOUS
<1>3. Kept(W, sz2, cap2, top2, amount, C, L, B)
  BY <1>1, <1>2 DEF Kept
<1> QED BY <1>3 DEF Ledger

\* A message is charged, and its task goes to sleep: it owns the new bytes.
LEMMA LedgerSleeps ==
    ASSUME NEW W \in SUBSET Sessions, NEW sz, NEW cap, NEW top, NEW amount, NEW C \in Nat,
           Ledger(W, sz, cap, top, amount, C),
           NEW x \in Sessions \ W, NEW D \in Nat,
           NEW sz2, NEW cap2 \in [Sessions -> Int],
           \A s \in W : cap2[s] = cap[s] /\ sz2[s] = sz[s],
           sz2[x] \in Nat, D = C + sz2[x], D <= cap2[x]
    PROVE  Ledger(W \cup {x}, sz2, cap2, top, amount, D)
<1> DEFINE N == (C + 1)..D
<1>1. PICK L \in SUBSET Nat, B \in [Sessions -> SUBSET Nat] :
         Kept(W, sz, cap, top, amount, C, L, B)
  BY DEF Ledger
<1>2. /\ N \subseteq Nat /\ N \subseteq 1..D /\ N \subseteq 1..cap2[x]
      /\ N \cap (1..C) = {} /\ 1..C \subseteq 1..D
  OBVIOUS
<1>3. Cardinality(N) = sz2[x]
  <2>1. PICK b \in Nat : b = sz2[x]
    OBVIOUS
  <2>2. D = C + b
    BY <2>1
  <2> QED BY <2>1, <2>2, Segment
<1> DEFINE A == [B EXCEPT ![x] = N]
<1> HIDE DEF N
<1>4. A \in [Sessions -> SUBSET Nat] /\ A[x] = N /\ \A s \in W : A[s] = B[s]
  BY <1>2
<1> HIDE DEF A
<1>5. L \subseteq 1..D /\ L \subseteq 1..top /\ Cardinality(L) = amount
  BY <1>1, <1>2 DEF Kept
<1>6. ASSUME NEW s \in W \cup {x}
      PROVE  /\ A[s] \subseteq 1..D /\ A[s] \subseteq 1..cap2[s]
             /\ A[s] \cap L = {} /\ Cardinality(A[s]) = sz2[s]
  <2>1. CASE s = x
    BY <1>1, <1>2, <1>3, <1>4, <2>1 DEF Kept
  <2>2. CASE s \in W
    BY <1>1, <1>2, <1>4, <2>2 DEF Kept
  <2> QED BY <2>1, <2>2
<1>7. ASSUME NEW r \in W \cup {x}, NEW s \in W \cup {x}, r # s
      PROVE  A[r] \cap A[s] = {}
  <2>1. CASE r \in W /\ s \in W
    BY <1>1, <1>4, <1>7, <2>1 DEF Kept
  <2>2. ASSUME NEW q \in W PROVE A[q] \cap N = {}
    BY <1>1, <1>2, <1>4 DEF Kept
  <2> QED BY <1>4, <1>7, <2>1, <2>2
<1>8. Kept(W \cup {x}, sz2, cap2, top, amount, D, L, A)
  BY <1>5, <1>6, <1>7 DEF Kept
<1> QED BY <1>4, <1>8 DEF Ledger

\* A message is charged and goes through at once.
LEMMA LedgerPasses ==
    ASSUME NEW W \in SUBSET Sessions, NEW sz, NEW cap, NEW top \in Int,
           NEW amount \in Nat, NEW C \in Nat, Ledger(W, sz, cap, top, amount, C),
           NEW b \in Nat, C + b <= top
    PROVE  Ledger(W, sz, cap, top, amount + b, C + b)
<1> DEFINE N == (C + 1)..(C + b)
<1>1. PICK L \in SUBSET Nat, B \in [Sessions -> SUBSET Nat] :
         Kept(W, sz, cap, top, amount, C, L, B)
  BY DEF Ledger
<1>2. /\ N \subseteq Nat /\ N \subseteq 1..(C + b) /\ N \subseteq 1..top
      /\ N \cap (1..C) = {} /\ 1..C \subseteq 1..(C + b)
  OBVIOUS
<1>3. Cardinality(N) = b /\ IsFiniteSet(N)
  BY Segment
<1> HIDE DEF N
<1>4. IsFiniteSet(1..C) /\ L \in SUBSET (1..C)
  BY <1>1, Interval DEF Kept
<1>5. IsFiniteSet(L) /\ L \cap N = {}
  BY <1>2, <1>4, FS_Subset
<1>6. Cardinality(L \cup N) = amount + b
  <2>1. Cardinality(L \cup N) = Cardinality(L) + Cardinality(N) - Cardinality(L \cap N)
    BY <1>3, <1>5, FS_Union
  <2>2. Cardinality(L) = amount /\ Cardinality(L \cap N) = 0
    BY <1>1, <1>5, FS_EmptySet DEF Kept
  <2> QED BY <1>3, <2>1, <2>2
<1>7. Kept(W, sz, cap, top, amount + b, C + b, L \cup N, B)
  BY <1>1, <1>2, <1>6 DEF Kept
<1> QED BY <1>2, <1>7 DEF Ledger

\* A task wakes and its message goes through.
LEMMA LedgerWakes ==
    ASSUME NEW W \in SUBSET Sessions, NEW sz, NEW cap \in [Sessions -> Int], NEW top \in Int,
           NEW amount \in Nat, NEW C \in Nat, Ledger(W, sz, cap, top, amount, C),
           NEW x \in W, sz[x] \in Nat, cap[x] <= top, NEW D, D = amount + sz[x],
           NEW sz2, NEW cap2, \A s \in W \ {x} : cap2[s] = cap[s] /\ sz2[s] = sz[s]
    PROVE  Ledger(W \ {x}, sz2, cap2, top, D, C)
<1>1. PICK L \in SUBSET Nat, B \in [Sessions -> SUBSET Nat] :
         Kept(W, sz, cap, top, amount, C, L, B)
  BY DEF Ledger
<1> DEFINE N == B[x]
<1>2. /\ N \subseteq Nat /\ N \subseteq 1..C /\ N \subseteq 1..top
      /\ N \cap L = {} /\ Cardinality(N) = sz[x]
  <2>1. 1..cap[x] \subseteq 1..top
    OBVIOUS
  <2> QED BY <1>1, <2>1 DEF Kept
<1>3. IsFiniteSet(1..C) /\ L \in SUBSET (1..C) /\ N \in SUBSET (1..C)
  BY <1>1, <1>2, Interval DEF Kept
<1>4. IsFiniteSet(L) /\ IsFiniteSet(N) /\ L \cap N = {}
  BY <1>2, <1>3, FS_Subset
<1>5. Cardinality(L \cup N) = D
  <2>1. Cardinality(L \cup N) = Cardinality(L) + Cardinality(N) - Cardinality(L \cap N)
    BY <1>4, FS_Union
  <2>2. Cardinality(L) = amount /\ Cardinality(L \cap N) = 0
    BY <1>1, <1>4, FS_EmptySet DEF Kept
  <2> QED BY <1>2, <2>1, <2>2
<1>6. Kept(W \ {x}, sz2, cap2, top, D, C, L \cup N, B)
  BY <1>1, <1>2, <1>5 DEF Kept
<1> QED BY <1>2, <1>6 DEF Ledger

-----------------------------------------------------------------------------
\* What the highest limit allows from a moment on until now, and until a task
\* that sleeps has paid its debt.
Top(since) == highest * (now - since)
Cap(since) == [s \in Sessions |-> highest * (start[s] - since) + debt[s]]

\* What was charged from that moment on, with what the bucket holds, is within
\* what the limit allows until the last charge; or nothing was charged yet, and the
\* bucket will start with what it saved before, at most one unit's worth.
Budget(C, since) ==
    \/ since <= last /\ C + tokens <= highest * (last - since)
    \/ C = 0 /\ since < now /\ last <= since

\* The account of amount, let through from that moment on, while the tasks of W
\* sleep for what was charged since.
Account(W, amount, since) ==
    /\ \A s \in W : since <= start[s]
    /\ \E C \in Nat : /\ Ledger(W, size, Cap(since), Top(since), amount, C)
                      /\ Budget(C, since)

Sleeping == {s \in Sessions : pc[s] = "sleeping"}
Counted == {s \in Sessions : counted[s]}

\* No task reads more than the highest limit, the bucket saves no more than that,
\* and only a task that sleeps for its message is counted.
Shape ==
    /\ tokens <= highest
    /\ \A s \in Sessions : rate[s] <= highest
    /\ created # -1 => created <= last
    /\ created = -1 => tokens = 0 /\ last = 0 /\ sent = 0 /\ Sleeping = {}
    /\ Counted \subseteq Sleeping
    /\ mark = -1 => Counted = {} /\ through = 0

SentAccount == created # -1 => Account(Sleeping, sent, created)
WindowAccount == mark # -1 => Account(Counted, through, mark - 1)

\* The inductive invariant.
IInv == TypeOK /\ Shape /\ SentAccount /\ WindowAccount

-----------------------------------------------------------------------------
\* The numbers of a state.
Numbers ==
    /\ now \in Nat /\ last \in Nat /\ last <= now /\ tokens \in Int
    /\ highest \in Nat /\ sent \in Nat /\ through \in Nat /\ through <= sent
    /\ created \in Int /\ -1 <= created /\ created <= now
    /\ mark \in Int /\ -1 <= mark /\ mark <= now
    /\ \A s \in Sessions : /\ start[s] \in Nat /\ start[s] <= now
                           /\ debt[s] \in Nat /\ rate[s] \in Nat /\ size[s] \in Nat

\* The type invariant in terms of numbers.
LEMMA Typed == ASSUME TypeOK PROVE Numbers
<1>1. now \in Nat /\ MaxTime \in Nat
  BY RateLimiterAssumption DEF TypeOK
<1>2. ASSUME NEW s \in Sessions PROVE size[s] \in Nat
  <2>1. size \in [Sessions -> Sizes \cup {0}]
    BY DEF TypeOK
  <2>2. Sizes \subseteq Nat
    BY RateLimiterAssumption
  <2>3. size[s] \in Sizes \cup {0}
    BY <2>1
  <2>4. CASE size[s] = 0
    BY <2>4
  <2>5. CASE size[s] \in Sizes
    BY <2>2, <2>5
  <2> QED BY <2>3, <2>4, <2>5
<1>3. \A s \in Sessions : start[s] \in 0..now /\ debt[s] \in Nat /\ rate[s] \in Nat
  BY DEF TypeOK
<1>4. /\ last \in Nat /\ last <= now /\ tokens \in Int
      /\ highest \in Nat /\ sent \in Nat /\ through \in 0..sent
      /\ created \in -1..now /\ mark \in -1..now
  BY <1>1 DEF TypeOK
<1> QED BY <1>1, <1>2, <1>3, <1>4 DEF Numbers

\* The same in the next state.
LEMMA TypedNext == ASSUME TypeOK' PROVE Numbers'
<1>1. now' \in Nat /\ MaxTime \in Nat
  BY RateLimiterAssumption DEF TypeOK
<1>2. ASSUME NEW s \in Sessions PROVE size'[s] \in Nat
  <2>1. size' \in [Sessions -> Sizes \cup {0}]
    BY DEF TypeOK
  <2>2. Sizes \subseteq Nat
    BY RateLimiterAssumption
  <2>3. size'[s] \in Sizes \cup {0}
    BY <2>1
  <2>4. CASE size'[s] = 0
    BY <2>4
  <2>5. CASE size'[s] \in Sizes
    BY <2>2, <2>5
  <2> QED BY <2>3, <2>4, <2>5
<1>3. \A s \in Sessions : start'[s] \in 0..now' /\ debt'[s] \in Nat /\ rate'[s] \in Nat
  BY DEF TypeOK
<1>4. /\ last' \in Nat /\ last' <= now' /\ tokens' \in Int
      /\ highest' \in Nat /\ sent' \in Nat /\ through' \in 0..sent'
      /\ created' \in -1..now' /\ mark' \in -1..now'
  BY <1>1 DEF TypeOK
<1> QED BY <1>1, <1>2, <1>3, <1>4 DEF Numbers

\* The product of a rate and a time grows with both, and times add up.
LEMMA Product ==
    ASSUME NEW a \in Nat, NEW b \in Nat, a <= b, NEW s \in Nat, NEW t \in Nat, s <= t
    PROVE  a * s <= b * t /\ a * s \in Nat
<1>1. PICK k \in Nat : b = a + k
  <2>1. b - a \in Nat /\ b = a + (b - a)
    OBVIOUS
  <2> QED BY <2>1
<1>2. PICK m \in Nat : t = s + m
  <2>1. t - s \in Nat /\ t = s + (t - s)
    OBVIOUS
  <2> QED BY <2>1
<1>3. /\ a * s \in Nat /\ a * m \in Nat /\ k * t \in Nat
  OBVIOUS
<1>4. b * t = a * t + k * t /\ a * t = a * s + a * m
  BY <1>1, <1>2
<1> QED BY <1>3, <1>4

\* Two stretches of time at one rate.
LEMMA TimesAdd ==
    ASSUME NEW a \in Nat, NEW r \in Int, NEW s \in Int, NEW t \in Int
    PROVE  /\ a * (t - r) = a * (s - r) + a * (t - s)
           /\ a * (t - r) \in Int
OBVIOUS

\* More is allowed since a moment, the longer that is and the higher the limit.
LEMMA MoreAllowed ==
    ASSUME NEW a \in Nat, NEW b \in Nat, a <= b,
           NEW r \in Int, NEW s \in Int, NEW t \in Int, r <= s, s <= t
    PROVE  a * (s - r) <= b * (t - r)
<1>1. s - r \in Nat /\ t - r \in Nat /\ s - r <= t - r
  OBVIOUS
<1> QED BY <1>1, Product

\* What is allowed are numbers, the more the later.
LEMMA CapTyped ==
    ASSUME Numbers, NEW since \in Int
    PROVE  /\ Top(since) \in Int /\ Cap(since) \in [Sessions -> Int]
           /\ \A s \in Sessions : Cap(since)[s] = highest * (start[s] - since) + debt[s]
<1>1. highest * (now - since) \in Int
  BY TimesAdd DEF Numbers
<1>2. \A s \in Sessions : highest * (start[s] - since) + debt[s] \in Int
  BY TimesAdd DEF Numbers
<1> QED BY <1>1, <1>2 DEF Top, Cap

\* The same in the next state.
LEMMA CapTypedNext ==
    ASSUME Numbers', NEW since \in Int
    PROVE  /\ Top(since)' \in Int /\ Cap(since)' \in [Sessions -> Int]
           /\ \A s \in Sessions : Cap(since)'[s] = highest' * (start'[s] - since) + debt'[s]
<1>1. highest' * (now' - since) \in Int
  BY TimesAdd DEF Numbers
<1>2. \A s \in Sessions : highest' * (start'[s] - since) + debt'[s] \in Int
  BY TimesAdd DEF Numbers
<1> QED BY <1>1, <1>2 DEF Top, Cap

\* A step that charges nothing and wakes nobody keeps an account.
LEMMA Calm ==
    ASSUME Numbers, Numbers', NEW W \in SUBSET Sessions, NEW amount, NEW since \in Int,
           Account(W, amount, since), since <= now,
           now <= now', highest <= highest', UNCHANGED <<tokens, last>>,
           \A s \in W : start'[s] = start[s] /\ debt'[s] = debt[s] /\ size'[s] = size[s]
    PROVE  Account(W, amount, since)'
<1>1. PICK C \in Nat : Ledger(W, size, Cap(since), Top(since), amount, C) /\ Budget(C, since)
  BY DEF Account
<1>2. \A s \in W : since <= start[s]
  BY DEF Account
<1>3. Top(since) <= Top(since)'
  <2>1. /\ now \in Int /\ now' \in Int /\ since \in Int /\ since <= now /\ now <= now'
        /\ highest \in Nat /\ highest' \in Nat /\ highest <= highest'
    BY DEF Numbers
  <2>2. highest * (now - since) <= highest' * (now' - since)
    BY <2>1, MoreAllowed
  <2> QED BY <2>2 DEF Top
<1>4. ASSUME NEW s \in W PROVE Cap(since)[s] <= Cap(since)'[s]
  <2>1. /\ start[s] \in Int /\ since <= start[s]
        /\ highest \in Nat /\ highest' \in Nat /\ highest <= highest'
    BY <1>2 DEF Numbers
  <2>2. highest * (start[s] - since) <= highest' * (start[s] - since)
    BY <2>1, MoreAllowed
  <2>3. /\ highest * (start[s] - since) \in Int /\ highest' * (start[s] - since) \in Int
        /\ debt[s] \in Int
    <3>1. debt[s] \in Int /\ start[s] - since \in Int
      BY DEF Numbers
    <3>2. highest * (start[s] - since) \in Int /\ highest' * (start[s] - since) \in Int
      BY <2>1, TimesAdd
    <3> QED BY <3>1, <3>2
  <2>4. /\ Cap(since)[s] = highest * (start[s] - since) + debt[s]
        /\ Cap(since)'[s] = highest' * (start[s] - since) + debt[s]
    BY CapTyped, CapTypedNext
  <2> QED BY <2>2, <2>3, <2>4
<1>5. Ledger(W, size', Cap(since)', Top(since)', amount, C)
  <2>1. /\ Top(since) \in Int /\ Cap(since) \in [Sessions -> Int]
        /\ Top(since)' \in Int /\ Cap(since)' \in [Sessions -> Int]
    BY CapTyped, CapTypedNext
  <2>2. \A s \in W : Cap(since)[s] <= Cap(since)'[s] /\ size'[s] = size[s]
    BY <1>4
  <2> QED BY <1>1, <1>3, <2>1, <2>2, LedgerGrows
<1>6. Budget(C, since)'
  <2>1. CASE since <= last /\ C + tokens <= highest * (last - since)
    <3>1. highest * (last - since) <= highest' * (last - since)
      <4>1. /\ last \in Int /\ since \in Int /\ since <= last /\ last <= last
            /\ highest \in Nat /\ highest' \in Nat /\ highest <= highest'
        BY <2>1 DEF Numbers
      <4> QED BY <4>1, MoreAllowed
    <3>2. highest * (last - since) \in Int /\ highest' * (last - since) \in Int
      BY TimesAdd DEF Numbers
    <3>3. C + tokens \in Int
      BY DEF Numbers
    <3>4. C + tokens <= highest' * (last - since)
      BY <2>1, <3>1, <3>2, <3>3
    <3> QED BY <2>1, <3>4 DEF Budget
  <2>2. CASE C = 0 /\ since < now /\ last <= since
    <3>1. C = 0 /\ since < now' /\ last' <= since
      BY <2>2 DEF Numbers
    <3> QED BY <3>1 DEF Budget
  <2> QED BY <1>1, <2>1, <2>2 DEF Budget
<1> QED BY <1>2, <1>5, <1>6 DEF Account

\* What a refill leaves room for.
LEMMA Fit ==
    ASSUME NEW a \in Nat, NEW C \in Nat, NEW k \in Int, NEW r \in Int,
           NEW b \in Int, NEW l \in Int, NEW n \in Int, l <= n, b <= n,
           r <= a, r <= k + a * (n - l),
           \/ b <= l /\ C + k <= a * (l - b)
           \/ C = 0 /\ b < n /\ l <= b
    PROVE  C + r <= a * (n - b)
<1>1. /\ a * (n - b) = a * (l - b) + a * (n - l)
      /\ a * (n - b) \in Int /\ a * (l - b) \in Int /\ a * (n - l) \in Int
  BY TimesAdd
<1>2. CASE b <= l /\ C + k <= a * (l - b)
  BY <1>1, <1>2
<1>3. CASE C = 0 /\ b < n /\ l <= b
  <2>1. b <= b + 1 /\ b + 1 <= n
    BY <1>3
  <2>2. a * ((b + 1) - b) <= a * (n - b)
    BY <2>1, MoreAllowed
  <2>3. a * ((b + 1) - b) = a
    OBVIOUS
  <2> QED BY <1>1, <1>3, <2>2, <2>3
<1> QED BY <1>2, <1>3

\* The smaller of two numbers, and the larger.
LEMMA MinMax ==
    ASSUME NEW i \in Int, NEW j \in Int
    PROVE  /\ Min({i, j}) \in {i, j} /\ Min({i, j}) <= i /\ Min({i, j}) <= j
           /\ Max({i, j}) \in {i, j} /\ Max({i, j}) >= i /\ Max({i, j}) >= j
<1>1. \E x \in {i, j} : \A y \in {i, j} : x <= y
  OBVIOUS
<1>2. \E x \in {i, j} : \A y \in {i, j} : x >= y
  OBVIOUS
<1> QED BY <1>1, <1>2 DEF Min, Max

\* A refill brings what the highest limit allows for the time since the last charge,
\* and fills the bucket with one unit's worth of it at most.
LEMMA RefillFacts ==
    ASSUME Numbers, Shape, NEW x \in Sessions
    PROVE  /\ Refilled(x) \in Int /\ Refilled(x) <= highest
           /\ Refilled(x) <= tokens + highest * (now - last)
<1>1. /\ now \in Int /\ last \in Int /\ now - last \in Nat /\ last <= now
      /\ highest \in Nat /\ rate[x] \in Nat /\ rate[x] <= highest /\ tokens \in Int
  BY DEF Numbers, Shape
<1>2. (now - last) * rate[x] \in Int /\ highest * (now - last) \in Nat
  BY <1>1
<1>3. CASE created = -1
  BY <1>1, <1>2, <1>3 DEF Refilled, Shape
<1>4. CASE created # -1
  <2>1. Refilled(x) = Min({tokens + (now - last) * rate[x], rate[x]})
    BY <1>4 DEF Refilled
  <2>2. PICK i \in Int : i = tokens + (now - last) * rate[x]
    BY <1>1, <1>2
  <2>3. /\ Refilled(x) \in Int /\ Refilled(x) <= rate[x]
        /\ Refilled(x) <= tokens + (now - last) * rate[x]
    <3>1. Refilled(x) = Min({i, rate[x]}) /\ rate[x] \in Int
      BY <1>1, <2>1, <2>2
    <3>2. Min({i, rate[x]}) \in {i, rate[x]} /\ Min({i, rate[x]}) <= i /\ Min({i, rate[x]}) <= rate[x]
      BY <3>1, MinMax
    <3> QED BY <2>2, <3>1, <3>2
  <2>4. rate[x] * (now - last) <= highest * (now - last)
    BY <1>1, MoreAllowed
  <2>5. rate[x] * (now - last) = (now - last) * rate[x]
    BY <1>1
  <2> QED BY <1>1, <1>2, <2>3, <2>4, <2>5
<1> QED BY <1>3, <1>4

\* A message is charged: the account is kept, whether its task has to sleep or not.
LEMMA Charge ==
    ASSUME Numbers, Numbers', NEW W \in SUBSET Sessions, NEW amount \in Nat,
           NEW since \in Int, since <= now, \A s \in W : since <= start[s],
           NEW C \in Nat, Ledger(W, size, Cap(since), Top(since), amount, C),
           NEW x \in Sessions \ W, NEW b \in Nat, b = size[x], Refilled(x) \in Int, 
           C + Refilled(x) <= Top(since),
           tokens' = Refilled(x) - b, last' = now, UNCHANGED <<now, highest>>,
           \A s \in W : start'[s] = start[s] /\ debt'[s] = debt[s] /\ size'[s] = size[s]
    PROVE  /\ start'[x] = now /\ debt'[x] = -tokens' /\ size'[x] = b
                  => Account(W \cup {x}, amount, since)'
           /\ tokens' >= 0 => Account(W, amount + b, since)'
<1>1. /\ now \in Int /\ C + b \in Nat
      /\ highest \in Nat /\ \A s \in Sessions : start[s] \in Int
  BY DEF Numbers
<1>2. /\ Top(since)' = Top(since) /\ Top(since) \in Int /\ Top(since) = highest * (now - since)
      /\ \A s \in W : Cap(since)'[s] = Cap(since)[s]
      /\ Cap(since) \in [Sessions -> Int] /\ Cap(since)' \in [Sessions -> Int]
      /\ Cap(since)'[x] = highest * (start'[x] - since) + debt'[x]
  <2>1. Top(since)' = Top(since) /\ Top(since) = highest * (now - since)
    BY DEF Top
  <2>2. \A s \in W : Cap(since)'[s] = Cap(since)[s]
    <3> SUFFICES ASSUME NEW s \in W PROVE Cap(since)'[s] = Cap(since)[s]
      OBVIOUS
    <3>1. /\ Cap(since)[s] = highest * (start[s] - since) + debt[s]
          /\ Cap(since)'[s] = highest' * (start'[s] - since) + debt'[s]
      BY CapTyped, CapTypedNext
    <3> QED BY <3>1
  <2> QED BY <2>1, <2>2, CapTyped, CapTypedNext
<1>3. Budget(C + b, since)'
  <2>1. since <= last' /\ last' - since = now - since
    OBVIOUS
  <2>2. C + b + tokens' = C + Refilled(x)
    BY <1>1
  <2>3. C + b + tokens' <= highest' * (last' - since)
    BY <1>2, <2>2
  <2> QED BY <2>1, <2>3 DEF Budget
<1>4. ASSUME start'[x] = now, debt'[x] = -tokens', size'[x] = b
      PROVE  Account(W \cup {x}, amount, since)'
  <2>1. C + b <= Cap(since)'[x]
    <3>1. Cap(since)'[x] = Top(since) + (b - Refilled(x))
      BY <1>1, <1>2, <1>4
    <3> QED BY <1>1, <1>2, <3>1
  <2>2. Ledger(W \cup {x}, size', Cap(since)', Top(since)', amount, C + b)
    <3>1. /\ \A s \in W : Cap(since)'[s] = Cap(since)[s] /\ size'[s] = size[s]
          /\ size'[x] = b /\ Top(since)' = Top(since)
      BY <1>2, <1>4
    <3>2. PICK D \in Nat : D = C + b
      BY <1>1
    <3>3. Ledger(W \cup {x}, size', Cap(since)', Top(since), amount, D)
      <4>1. /\ W \in SUBSET Sessions /\ x \in Sessions \ W /\ size'[x] \in Nat /\ D = C + size'[x]
            /\ Ledger(W, size, Cap(since), Top(since), amount, C)
            /\ Cap(since)' \in [Sessions -> Int] /\ D <= Cap(since)'[x]
        BY <1>2, <2>1, <3>1, <3>2
      <4> QED BY <4>1, <3>1, LedgerSleeps
    <3> QED BY <3>1, <3>2, <3>3
  <2>3. \A s \in W \cup {x} : since <= start'[s]
    BY <1>1, <1>4
  <2> QED BY <1>1, <1>3, <2>2, <2>3 DEF Account
<1>5. ASSUME tokens' >= 0
      PROVE  Account(W, amount + b, since)'
  <2>1. C + b <= Top(since)
    BY <1>1, <1>2, <1>5
  <2>2. Ledger(W, size, Cap(since), Top(since), amount + b, C + b)
    BY <1>1, <1>2, <2>1, LedgerPasses
  <2>3. \A s \in W : Cap(since)[s] <= Cap(since)'[s] /\ size'[s] = size[s]
    BY <1>2
  <2>4. Ledger(W, size', Cap(since)', Top(since)', amount + b, C + b)
    BY <1>1, <1>2, <2>2, <2>3, LedgerGrows
  <2> QED BY <1>1, <1>3, <2>4 DEF Account
<1> QED BY <1>4, <1>5

\* A task has slept off its debt, and its message goes through.
LEMMA Woken ==
    ASSUME Numbers, Numbers', NEW W \in SUBSET Sessions, NEW amount \in Nat,
           NEW since \in Int, since <= now, Account(W, amount, since),
           NEW x \in W, NEW b \in Nat, b = size[x], Rested(x), rate[x] <= highest,
           UNCHANGED <<now, highest, tokens, last>>,
           \A s \in W \ {x} : /\ start'[s] = start[s] /\ debt'[s] = debt[s]
                              /\ size'[s] = size[s]
    PROVE  Account(W \ {x}, amount + b, since)'
<1>1. PICK C \in Nat : Ledger(W, size, Cap(since), Top(since), amount, C) /\ Budget(C, since)
  BY DEF Account
<1>2. \A s \in W : since <= start[s]
  BY DEF Account
<1>3. /\ Top(since)' = Top(since) /\ Top(since) \in Int
      /\ \A s \in W \ {x} : Cap(since)'[s] = Cap(since)[s]
      /\ Cap(since) \in [Sessions -> Int]
  <2>1. Top(since)' = Top(since)
    BY DEF Top
  <2>2. \A s \in W \ {x} : Cap(since)'[s] = Cap(since)[s]
    <3> SUFFICES ASSUME NEW s \in W \ {x} PROVE Cap(since)'[s] = Cap(since)[s]
      OBVIOUS
    <3>1. /\ Cap(since)[s] = highest * (start[s] - since) + debt[s]
          /\ Cap(since)'[s] = highest' * (start'[s] - since) + debt'[s]
      BY CapTyped, CapTypedNext
    <3> QED BY <3>1
  <2> QED BY <2>1, <2>2, CapTyped
<1>4. Cap(since)[x] <= Top(since)
  <2>1. /\ now \in Int /\ start[x] \in Int /\ start[x] <= now /\ debt[x] \in Int
        /\ highest \in Nat /\ rate[x] \in Nat /\ now - start[x] \in Nat
    BY DEF Numbers
  <2>2. rate[x] * (now - start[x]) <= highest * (now - start[x])
    BY <2>1, MoreAllowed
  <2>3. debt[x] <= (now - start[x]) * rate[x]
    BY <2>1 DEF Rested
  <2>4. (now - start[x]) * rate[x] = rate[x] * (now - start[x])
    BY <2>1
  <2>5. /\ highest * (now - since) = highest * (start[x] - since) + highest * (now - start[x])
        /\ highest * (start[x] - since) \in Int /\ highest * (now - start[x]) \in Int
    BY <2>1, TimesAdd
  <2>6. rate[x] * (now - start[x]) \in Int
    BY <2>1
  <2>7. debt[x] <= highest * (now - start[x])
    BY <2>1, <2>2, <2>3, <2>4, <2>5, <2>6
  <2>8. /\ Cap(since)[x] = highest * (start[x] - since) + debt[x]
        /\ Top(since) = highest * (now - since)
    BY CapTyped DEF Top
  <2>9. highest * (start[x] - since) + debt[x] <= highest * (now - since)
    BY <2>1, <2>5, <2>7
  <2> QED BY <2>8, <2>9
<1>5. Ledger(W \ {x}, size', Cap(since)', Top(since)', amount + b, C)
  <2>1. /\ size[x] \in Nat /\ Top(since)' = Top(since)
        /\ \A s \in W \ {x} : Cap(since)'[s] = Cap(since)[s] /\ size'[s] = size[s]
    BY <1>3
  <2>2. PICK D \in Nat : D = amount + size[x]
    BY <2>1
  <2>3. Ledger(W \ {x}, size', Cap(since)', Top(since), D, C)
    BY ZenonT(40), <1>1, <1>3, <1>4, <2>1, <2>2, LedgerWakes
  <2> QED BY <2>1, <2>2, <2>3
<1>6. Budget(C, since)'
  BY <1>1 DEF Budget
<1> QED BY <1>2, <1>5, <1>6 DEF Account

-----------------------------------------------------------------------------
\* A limit that is set.
LEMMA EffectiveFacts ==
    ASSUME NEW request \in Requests
    PROVE  /\ Effective(request) \in Nat
           /\ Effective(request) = 0 \/ Effective(request) >= MinRate
<1>1. request \in Nat /\ MinRate \in Nat
  BY RateLimiterAssumption
<1> QED BY <1>1, MinMax DEF Effective

\* Nothing is charged yet.
LEMMA InitIInv == Init => IInv
<1> SUFFICES ASSUME Init PROVE IInv
  OBVIOUS
<1>1. limit \in Nat /\ (limit = 0 \/ limit >= MinRate) /\ highest = limit
  BY EffectiveFacts DEF Init
<1>2. MaxTime \in Nat /\ MaxSends \in Nat /\ MaxChanges \in Nat
  BY RateLimiterAssumption
<1>3. TypeOK
  BY <1>1, <1>2 DEF Init, TypeOK
<1>4. Sleeping = {} /\ Counted = {}
  BY DEF Init, Sleeping, Counted
<1>5. Shape
  BY <1>1, <1>4 DEF Init, Shape
<1> QED BY <1>3, <1>5 DEF Init, IInv, SentAccount, WindowAccount

\* A step that charges nothing and wakes nobody keeps both accounts.
LEMMA CalmStep ==
    ASSUME IInv, TypeOK', now <= now', highest <= highest',
           UNCHANGED <<tokens, last, created, mark, sent, through>>,
           Sleeping' = Sleeping, Counted' = Counted,
           \A s \in Sleeping : start'[s] = start[s] /\ debt'[s] = debt[s] /\ size'[s] = size[s]
    PROVE  SentAccount' /\ WindowAccount'
<1>1. Numbers
  BY Typed DEF IInv
<1>2. Numbers'
  BY TypedNext
<1>3. SentAccount'
  <2> SUFFICES ASSUME created # -1 PROVE Account(Sleeping, sent, created)'
    BY DEF SentAccount
  <2>1. PICK W \in SUBSET Sessions, a \in Nat, c \in Int :
          W = Sleeping /\ a = sent /\ c = created /\ c <= now
    BY <1>1 DEF Numbers, Sleeping
  <2>2. Account(W, a, c)
    BY <2>1 DEF IInv, SentAccount
  <2>3. Account(W, a, c)'
    BY <1>1, <1>2, <2>1, <2>2, Calm
  <2> QED BY <2>1, <2>3
<1>4. WindowAccount'
  <2> SUFFICES ASSUME mark # -1 PROVE Account(Counted, through, mark - 1)'
    BY DEF WindowAccount
  <2>1. PICK W \in SUBSET Sessions, a \in Nat, c \in Int :
          W = Counted /\ a = through /\ c = mark - 1 /\ c <= now
    <3>1. now \in Int /\ mark \in Int /\ mark <= now /\ through \in Nat
      BY <1>1 DEF Numbers
    <3>2. Counted \in SUBSET Sessions /\ mark - 1 \in Int /\ mark - 1 <= now
      BY <3>1 DEF Counted
    <3> QED BY <3>1, <3>2
  <2>2. Account(W, a, c) /\ W \subseteq Sleeping
    BY <2>1 DEF IInv, WindowAccount, Shape
  <2>3. Account(W, a, c)'
    BY <1>1, <1>2, <2>1, <2>2, Calm
  <2> QED BY <2>1, <2>3
<1> QED BY <1>3, <1>4

\* The application sets the limit: the highest one grows, what the tasks read stays.
LEMMA SetLimitStep == ASSUME IInv, NEW request \in Requests, SetLimit(request) PROVE IInv'
<1>1. /\ limit' \in Nat /\ (limit' = 0 \/ limit' >= MinRate)
      /\ highest \in Nat /\ highest' \in Nat /\ highest' >= highest /\ limit' <= highest'
  <2>1. limit' \in Nat /\ (limit' = 0 \/ limit' >= MinRate) /\ highest' = Max({highest, limit'})
    BY EffectiveFacts DEF SetLimit
  <2>2. highest \in Nat
    BY DEF IInv, TypeOK
  <2>3. PICK l \in Nat : l = limit'
    BY <2>1
  <2>4. Max({highest, l}) \in {highest, l} /\ Max({highest, l}) >= highest /\ Max({highest, l}) >= l
    BY <2>2, MinMax
  <2> QED BY <2>1, <2>2, <2>3, <2>4
<1>2. changes' \in 0..MaxChanges
  <2>1. changes \in 0..MaxChanges /\ MaxChanges \in Nat /\ changes < MaxChanges
    BY RateLimiterAssumption DEF IInv, TypeOK, SetLimit
  <2> QED BY <2>1 DEF SetLimit
<1>3. TypeOK'
  BY <1>1, <1>2 DEF SetLimit, IInv, TypeOK, bucketVars, taskVars, observerVars
<1>4. Sleeping' = Sleeping /\ Counted' = Counted /\ now' = now /\ now \in Nat
  BY DEF SetLimit, Sleeping, Counted, taskVars, observerVars, IInv, TypeOK
<1>5. Shape'
  <2>1. tokens <= highest /\ tokens \in Int /\ \A s \in Sessions : rate[s] <= highest /\ rate[s] \in Nat
    BY DEF IInv, TypeOK, Shape
  <2>2. tokens' <= highest' /\ \A s \in Sessions : rate'[s] <= highest'
    BY <1>1, <2>1 DEF SetLimit, bucketVars, taskVars
  <2> QED BY <1>4, <2>2 DEF SetLimit, IInv, Shape, bucketVars, taskVars, observerVars
<1>6. SentAccount' /\ WindowAccount'
  <2>1. now <= now' /\ highest <= highest'
    BY <1>1, <1>4
  <2>2. UNCHANGED <<tokens, last, created, mark, sent, through, start, debt, size>>
    BY DEF SetLimit, bucketVars, taskVars, observerVars
  <2> QED BY <1>3, <1>4, <2>1, <2>2, CalmStep
<1> QED BY <1>3, <1>5, <1>6 DEF IInv

\* A task reads the limit.
LEMMA BeginStep ==
    ASSUME IInv, NEW s \in Sessions, NEW b \in Sizes, Begin(s, b) PROVE IInv'
<1>1. sends' \in 0..MaxSends
  <2>1. sends \in 0..MaxSends /\ MaxSends \in Nat /\ sends < MaxSends
    BY RateLimiterAssumption DEF IInv, TypeOK, Begin
  <2> QED BY <2>1 DEF Begin
<1>2. /\ limit \in Nat /\ limit <= highest /\ highest \in Nat /\ now \in Nat
      /\ pc \in [Sessions -> {"idle", "locking", "sleeping"}]
      /\ rate \in [Sessions -> Nat] /\ size \in [Sessions -> Sizes \cup {0}]
  BY DEF IInv, TypeOK
<1>3. /\ pc' \in [Sessions -> {"idle", "locking", "sleeping"}]
      /\ rate' \in [Sessions -> Nat] /\ size' \in [Sessions -> Sizes \cup {0}]
      /\ Sleeping' = Sleeping /\ UNCHANGED <<start, debt>>
      /\ \A r \in Sleeping : size'[r] = size[r]
      /\ \A r \in Sessions : rate'[r] = rate[r] \/ rate'[r] = limit
  <2>1. CASE limit = 0
    BY <1>2, <2>1 DEF Begin, taskVars, Sleeping
  <2>2. CASE limit # 0
    <3>1. /\ pc[s] = "idle" /\ pc' = [pc EXCEPT ![s] = "locking"]
          /\ rate' = [rate EXCEPT ![s] = limit] /\ size' = [size EXCEPT ![s] = b]
          /\ UNCHANGED <<start, debt>>
      BY <2>2 DEF Begin
    <3>2. Sleeping' = Sleeping /\ s \notin Sleeping
      BY <1>2, <3>1 DEF Sleeping
    <3>3. \A r \in Sleeping : size'[r] = size[r]
      BY <1>2, <3>1, <3>2 DEF Sleeping
    <3> QED BY <1>2, <3>1, <3>2, <3>3
  <2> QED BY <2>1, <2>2
<1>4. TypeOK'
  BY <1>1, <1>3 DEF Begin, IInv, TypeOK, bucketVars, observerVars
<1>5. Counted' = Counted
  BY DEF Begin, observerVars, Counted
<1>6. Shape'
  <2>1. \A r \in Sessions : rate'[r] <= highest
    BY <1>2, <1>3 DEF IInv, Shape
  <2> QED BY <1>3, <1>5, <2>1 DEF Begin, IInv, Shape, bucketVars, observerVars
<1>7. SentAccount' /\ WindowAccount'
  <2>1. now <= now' /\ highest <= highest'
    BY <1>2 DEF Begin
  <2>2. UNCHANGED <<tokens, last, created, mark, sent, through>>
    BY DEF Begin, bucketVars, observerVars
  <2> QED BY <1>3, <1>4, <1>5, <2>1, <2>2, CalmStep
<1> QED BY <1>4, <1>6, <1>7 DEF IInv

\* Time passes, and more is allowed.
LEMMA AdvanceStep == ASSUME IInv, Advance PROVE IInv'
<1>1. now \in 0..MaxTime /\ MaxTime \in Nat /\ now < MaxTime /\ now' = now + 1
  BY RateLimiterAssumption DEF IInv, TypeOK, Advance
<1>2. TypeOK'
  <2>1. now' \in 0..MaxTime /\ 0..now \subseteq 0..now' /\ -1..now \subseteq -1..now'
    BY <1>1
  <2>2. /\ last' \in 0..now' /\ created' \in -1..now' /\ mark' \in -1..now'
        /\ start' \in [Sessions -> 0..now']
    BY <2>1 DEF Advance, IInv, TypeOK, bucketVars, taskVars, observerVars
  <2> QED BY <2>1, <2>2 DEF Advance, IInv, TypeOK, bucketVars, taskVars, observerVars
<1>3. Sleeping' = Sleeping /\ Counted' = Counted
  BY DEF Advance, Sleeping, Counted, taskVars, observerVars
<1>4. Shape'
  BY <1>3 DEF Advance, IInv, Shape, bucketVars, taskVars, observerVars
<1>5. SentAccount' /\ WindowAccount'
  <2>1. now <= now' /\ highest <= highest'
    <3>1. highest \in Nat
      BY DEF IInv, TypeOK
    <3> QED BY <1>1, <3>1 DEF Advance
  <2>2. UNCHANGED <<tokens, last, created, mark, sent, through, start, debt, size>>
    BY DEF Advance, bucketVars, taskVars, observerVars
  <2> QED BY <1>2, <1>3, <2>1, <2>2, CalmStep
<1> QED BY <1>2, <1>4, <1>5 DEF IInv

\* The observer starts to count, with an empty account and what the bucket holds.
LEMMA MarkStep == ASSUME IInv, Mark PROVE IInv'
<1>1. Numbers
  BY Typed DEF IInv
<1>2. /\ mark = -1 /\ mark' = now /\ now \in Nat
      /\ UNCHANGED <<now, limit, bucketVars, taskVars, sent, highest, counted, through,
                     sends, changes>>
  BY <1>1 DEF Mark, Numbers
<1>3. TypeOK'
  <2>1. mark' \in -1..now'
    BY <1>2
  <2> QED BY <1>2, <2>1 DEF IInv, TypeOK, bucketVars, taskVars
<1>4. Sleeping' = Sleeping /\ Counted' = Counted /\ Counted = {} /\ through = 0
  BY <1>2 DEF Sleeping, Counted, taskVars, IInv, Shape
<1>5. Shape'
  BY <1>2, <1>4 DEF IInv, Shape, bucketVars, taskVars
<1>6. SentAccount'
  <2> SUFFICES ASSUME created # -1 PROVE Account(Sleeping, sent, created)'
    BY <1>2 DEF SentAccount, bucketVars
  <2>1. PICK W \in SUBSET Sessions, a \in Nat, c \in Int :
          W = Sleeping /\ a = sent /\ c = created /\ c <= now
    BY <1>1 DEF Numbers, Sleeping
  <2>2. Account(W, a, c)
    BY <2>1 DEF IInv, SentAccount
  <2>3. /\ now <= now' /\ highest <= highest' /\ UNCHANGED <<tokens, last>>
        /\ \A s \in W : start'[s] = start[s] /\ debt'[s] = debt[s] /\ size'[s] = size[s]
    BY <1>1, <1>2 DEF bucketVars, taskVars, Numbers
  <2>4. Numbers'
    BY <1>3, TypedNext
  <2>5. Account(W, a, c)'
    BY <1>1, <2>1, <2>2, <2>3, <2>4, Calm
  <2> QED BY <1>2, <1>4, <2>1, <2>5 DEF bucketVars
<1>7. WindowAccount'
  <2>1. PICK c \in Int : c = now - 1
    BY <1>2
  <2>2. Ledger({}, size', Cap(c)', Top(c)', 0, 0)
    BY LedgerEmpty
  <2>3. Budget(0, c)'
    <3>1. /\ last' = last /\ tokens' = tokens /\ highest' = highest /\ now' = now
          /\ last \in Int /\ last <= now /\ tokens \in Int /\ highest \in Nat
          /\ tokens <= highest
      BY <1>1, <1>2 DEF IInv, Shape, Numbers, bucketVars
    <3>2. CASE last <= c
      <4>1. 0 = 0 /\ c < now' /\ last' <= c
        BY <1>2, <2>1, <3>1, <3>2
      <4> QED BY <4>1 DEF Budget
    <3>3. CASE last = now
      <4>1. highest * (last - c) = highest /\ 0 + tokens = tokens
        <5>1. last - c = 1
          BY <1>2, <2>1, <3>3
        <5> QED BY <3>1, <5>1
      <4>2. c <= last' /\ 0 + tokens' <= highest' * (last' - c)
        BY <1>2, <2>1, <3>1, <3>3, <4>1
      <4> QED BY <4>2 DEF Budget
    <3> QED BY <1>2, <2>1, <3>1, <3>2, <3>3
  <2>4. Account({}, 0, c)'
    BY <2>2, <2>3 DEF Account
  <2>5. mark' - 1 = c /\ Counted' = {} /\ through' = 0
    BY <1>2, <1>4, <2>1
  <2> QED BY <2>4, <2>5 DEF WindowAccount
<1> QED BY <1>3, <1>5, <1>6, <1>7 DEF IInv

\* A task has slept: its bytes go through in both accounts, or in the first only
\* when they were charged before the mark.
LEMMA WakeStep == ASSUME IInv, NEW x \in Sessions, Wake(x) PROVE IInv'
<1>1. Numbers
  BY Typed DEF IInv
<1>2. PICK b \in Nat : b = size[x]
  BY <1>1 DEF Numbers
<1>3. /\ pc[x] = "sleeping" /\ Rested(x)
      /\ sent' = sent + b
      /\ through' = IF counted[x] THEN through + b ELSE through
      /\ pc' = [pc EXCEPT ![x] = "idle"] /\ rate' = [rate EXCEPT ![x] = 0]
      /\ size' = [size EXCEPT ![x] = 0] /\ start' = [start EXCEPT ![x] = 0]
      /\ debt' = [debt EXCEPT ![x] = 0] /\ counted' = [counted EXCEPT ![x] = FALSE]
      /\ UNCHANGED <<now, limit, tokens, last, created, highest, mark, sends, changes>>
  BY <1>2 DEF Wake, LetThrough, Return, bucketVars
<1>4. /\ pc \in [Sessions -> {"idle", "locking", "sleeping"}]
      /\ rate \in [Sessions -> Nat] /\ size \in [Sessions -> Sizes \cup {0}]
      /\ start \in [Sessions -> 0..now] /\ debt \in [Sessions -> Nat]
      /\ counted \in [Sessions -> BOOLEAN]
  BY DEF IInv, TypeOK
<1>5. TypeOK'
  <2>1. sent' \in Nat /\ through' \in 0..sent'
    <3>1. sent \in Nat /\ through \in Nat /\ through <= sent
      BY <1>1 DEF Numbers
    <3> QED BY <1>3, <3>1
  <2>2. start' \in [Sessions -> 0..now']
    <3>1. now \in Nat
      BY <1>1 DEF Numbers
    <3> QED BY <1>3, <1>4, <3>1
  <2>3. counted' \in [Sessions -> BOOLEAN]
    BY <1>3, <1>4
  <2>4. /\ pc' \in [Sessions -> {"idle", "locking", "sleeping"}]
        /\ rate' \in [Sessions -> Nat] /\ size' \in [Sessions -> Sizes \cup {0}]
        /\ debt' \in [Sessions -> Nat]
    BY <1>3, <1>4
  <2> QED BY <1>3, <2>1, <2>2, <2>3, <2>4 DEF IInv, TypeOK
<1>6. Sleeping' = Sleeping \ {x} /\ x \in Sleeping
  BY <1>3, <1>4 DEF Sleeping
<1>7. Counted' = Counted \ {x} /\ (counted[x] <=> x \in Counted)
  BY <1>3, <1>4 DEF Counted
<1>8. Shape'
  <2>1. \A s \in Sessions : rate'[s] <= highest
    BY <1>1, <1>3, <1>4 DEF IInv, Shape, Numbers
  <2>2. created # -1
    BY <1>6 DEF IInv, Shape
  <2>3. mark = -1 => Counted = {} /\ through = 0
    BY DEF IInv, Shape
  <2>4. mark = -1 => Counted' = {} /\ through' = 0
    BY <1>3, <1>7, <2>3
  <2>5. /\ tokens' <= highest' /\ created' <= last' /\ Counted' \subseteq Sleeping'
        /\ created' # -1
    BY <1>3, <1>6, <1>7, <2>2 DEF IInv, Shape
  <2> QED BY <1>3, <2>1, <2>4, <2>5 DEF Shape
<1>9. Numbers'
  BY <1>5, TypedNext
<1>10. \A s \in Sessions \ {x} :
          start'[s] = start[s] /\ debt'[s] = debt[s] /\ size'[s] = size[s]
  BY <1>3, <1>4
<1>11. rate[x] <= highest
  BY DEF IInv, Shape
<1>12. SentAccount'
  <2>1. created # -1
    BY <1>6 DEF IInv, Shape
  <2>2. PICK W \in SUBSET Sessions, a \in Nat, c \in Int :
          W = Sleeping /\ a = sent /\ c = created /\ c <= now
    BY <1>1 DEF Numbers, Sleeping
  <2>3. Account(W, a, c)
    BY <2>1, <2>2 DEF IInv, SentAccount
  <2>4. x \in W /\ \A s \in W \ {x} :
          start'[s] = start[s] /\ debt'[s] = debt[s] /\ size'[s] = size[s]
    BY <1>6, <1>10, <2>2
  <2>5. Account(W \ {x}, a + b, c)'
    BY <1>1, <1>2, <1>3, <1>9, <1>11, <2>2, <2>3, <2>4, Woken
  <2> QED BY <1>3, <1>6, <2>2, <2>5 DEF SentAccount
<1>13. WindowAccount'
  <2> SUFFICES ASSUME mark # -1 PROVE Account(Counted, through, mark - 1)'
    BY <1>3 DEF WindowAccount
  <2>1. PICK W \in SUBSET Sessions, a \in Nat, c \in Int :
          W = Counted /\ a = through /\ c = mark - 1 /\ c <= now
    <3>1. now \in Int /\ mark \in Int /\ mark <= now /\ through \in Nat
      BY <1>1 DEF Numbers
    <3>2. Counted \in SUBSET Sessions /\ mark - 1 \in Int /\ mark - 1 <= now
      BY <3>1 DEF Counted
    <3> QED BY <3>1, <3>2
  <2>2. Account(W, a, c)
    BY <2>1 DEF IInv, WindowAccount
  <2>3. CASE counted[x]
    <3>1. x \in W /\ \A s \in W \ {x} :
            start'[s] = start[s] /\ debt'[s] = debt[s] /\ size'[s] = size[s]
      BY <1>7, <1>10, <2>1, <2>3
    <3>2. Account(W \ {x}, a + b, c)'
      BY <1>1, <1>2, <1>3, <1>9, <1>11, <2>1, <2>2, <3>1, Woken
    <3>3. Counted' = W \ {x} /\ through' = a + b /\ mark' - 1 = c
      BY <1>3, <1>7, <2>1, <2>3
    <3> QED BY <3>2, <3>3
  <2>4. CASE ~counted[x]
    <3>1. /\ \A s \in W : start'[s] = start[s] /\ debt'[s] = debt[s] /\ size'[s] = size[s]
          /\ now <= now' /\ highest <= highest'
      BY <1>1, <1>3, <1>7, <1>10, <2>1, <2>4 DEF Numbers
    <3>2. Account(W, a, c)'
      BY <1>1, <1>3, <1>9, <2>1, <2>2, <3>1, Calm
    <3>3. Counted' = W /\ through' = a /\ mark' - 1 = c
      BY <1>3, <1>7, <2>1, <2>4
    <3> QED BY <3>2, <3>3
  <2> QED BY <2>3, <2>4
<1> QED BY <1>5, <1>8, <1>12, <1>13 DEF IInv

\* A charge in terms of what it leaves: the task sleeps, or its message went through.
LEMMA AcquireParts ==
    ASSUME IInv, NEW x \in Sessions, Acquire(x), NEW b \in Nat, b = size[x]
    PROVE  /\ pc[x] = "locking" /\ x \notin Sleeping /\ x \notin Counted
           /\ tokens' = Refilled(x) - b /\ tokens' \in Int /\ last' = now
           /\ created' = (IF created = -1 THEN now ELSE created) /\ created' # -1
           /\ UNCHANGED <<now, limit, highest, mark, sends, changes>>
           /\ TypeOK'
           /\ \A s \in Sessions \ {x} :
                 start'[s] = start[s] /\ debt'[s] = debt[s] /\ size'[s] = size[s]
           /\ \A s \in Sessions : rate'[s] = rate[s] \/ rate'[s] = 0
           /\ \/ /\ tokens' < 0 /\ Sleeping' = Sleeping \cup {x}
                 /\ Counted' = (IF mark = -1 THEN Counted ELSE Counted \cup {x})
                 /\ start'[x] = now /\ debt'[x] = -tokens' /\ size'[x] = b
                 /\ sent' = sent /\ through' = through
              \/ /\ tokens' >= 0 /\ Sleeping' = Sleeping /\ Counted' = Counted
                 /\ sent' = sent + b
                 /\ through' = IF mark = -1 THEN through ELSE through + b
<1>1. Numbers
  BY Typed DEF IInv
<1>2. Refilled(x) \in Int
  BY <1>1, RefillFacts DEF IInv
<1>3. /\ pc \in [Sessions -> {"idle", "locking", "sleeping"}]
      /\ rate \in [Sessions -> Nat] /\ size \in [Sessions -> Sizes \cup {0}]
      /\ start \in [Sessions -> 0..now] /\ debt \in [Sessions -> Nat]
      /\ counted \in [Sessions -> BOOLEAN] /\ now \in Nat
      /\ sent \in Nat /\ through \in Nat /\ through <= sent
      /\ created \in Int /\ -1 <= created /\ created <= now
  BY <1>1 DEF IInv, TypeOK, Numbers
<1>4. /\ pc[x] = "locking" /\ tokens' = Refilled(x) - b /\ last' = now
      /\ created' = (IF created = -1 THEN now ELSE created)
      /\ UNCHANGED <<now, limit, highest, mark, sends, changes>>
  BY DEF Acquire
<1>5. tokens' \in Int /\ created' \in -1..now' /\ created' # -1 /\ last' \in 0..now'
  <2>1. tokens' \in Int /\ last' \in 0..now'
    BY <1>2, <1>3, <1>4
  <2>2. created' \in -1..now' /\ created' # -1
    BY <1>3, <1>4
  <2> QED BY <2>1, <2>2
<1>6. x \notin Sleeping /\ x \notin Counted
  BY <1>4 DEF Sleeping, IInv, Shape
<1>7. CASE tokens' < 0
  <2>1. /\ pc' = [pc EXCEPT ![x] = "sleeping"]
        /\ start' = [start EXCEPT ![x] = now]
        /\ debt' = [debt EXCEPT ![x] = -tokens']
        /\ counted' = [counted EXCEPT ![x] = mark # -1]
        /\ UNCHANGED <<sent, through, rate, size>>
    BY <1>7 DEF Acquire
  <2>2. -tokens' \in Nat
    <3>1. PICK t \in Int : t = tokens'
      BY <1>5
    <3>2. t < 0
      BY <1>7, <3>1
    <3>3. -t \in Nat
      BY <3>2
    <3> QED BY <3>1, <3>3, Zenon
  <2>3. Sleeping' = Sleeping \cup {x}
    BY <1>3, <2>1 DEF Sleeping
  <2>4. Counted' = IF mark = -1 THEN Counted ELSE Counted \cup {x}
    <3>1. mark = -1 => counted'[x] = FALSE
      BY <1>3, <2>1
    <3>2. mark # -1 => counted'[x] = TRUE
      BY <1>3, <2>1
    <3>3. \A s \in Sessions \ {x} : counted'[s] = counted[s]
      BY <1>3, <2>1
    <3> QED BY <1>6, <3>1, <3>2, <3>3 DEF Counted
  <2>5. /\ pc' \in [Sessions -> {"idle", "locking", "sleeping"}]
        /\ start' \in [Sessions -> 0..now'] /\ debt' \in [Sessions -> Nat]
    BY <1>3, <1>4, <2>1, <2>2
  <2>6. counted' \in [Sessions -> BOOLEAN]
    <3>1. (mark # -1) \in BOOLEAN
      OBVIOUS
    <3> QED BY <1>3, <2>1, <3>1
  <2>7. TypeOK'
    BY <1>4, <1>5, <2>1, <2>5, <2>6 DEF IInv, TypeOK
  <2>8. /\ \A s \in Sessions \ {x} :
               start'[s] = start[s] /\ debt'[s] = debt[s] /\ size'[s] = size[s]
        /\ \A s \in Sessions : rate'[s] = rate[s]
        /\ start'[x] = now /\ debt'[x] = -tokens' /\ size'[x] = b
    BY <1>3, <2>1
  <2> QED BY <1>4, <1>5, <1>6, <1>7, <2>1, <2>3, <2>4, <2>7, <2>8
<1>8. CASE ~(tokens' < 0)
  <2>1. /\ sent' = sent + b
        /\ through' = (IF mark # -1 THEN through + b ELSE through)
        /\ pc' = [pc EXCEPT ![x] = "idle"] /\ rate' = [rate EXCEPT ![x] = 0]
        /\ size' = [size EXCEPT ![x] = 0] /\ start' = [start EXCEPT ![x] = 0]
        /\ debt' = [debt EXCEPT ![x] = 0] /\ counted' = [counted EXCEPT ![x] = FALSE]
    BY <1>8 DEF Acquire, LetThrough, Return
  <2>2. sent' \in Nat /\ through' \in 0..sent'
    BY <1>3, <2>1
  <2>3. Sleeping' = Sleeping
    BY <1>3, <1>4, <2>1 DEF Sleeping
  <2>4. Counted' = Counted
    <3>1. ~counted'[x] /\ \A s \in Sessions \ {x} : counted'[s] = counted[s]
      BY <1>3, <2>1
    <3> QED BY <1>6, <3>1 DEF Counted
  <2>5. /\ pc' \in [Sessions -> {"idle", "locking", "sleeping"}]
        /\ rate' \in [Sessions -> Nat] /\ size' \in [Sessions -> Sizes \cup {0}]
        /\ start' \in [Sessions -> 0..now'] /\ debt' \in [Sessions -> Nat]
    BY <1>3, <1>4, <2>1
  <2>6. counted' \in [Sessions -> BOOLEAN]
    BY <1>3, <2>1
  <2>7. TypeOK'
    BY <1>4, <1>5, <2>2, <2>5, <2>6 DEF IInv, TypeOK
  <2>8. /\ \A s \in Sessions \ {x} :
               start'[s] = start[s] /\ debt'[s] = debt[s] /\ size'[s] = size[s]
        /\ \A s \in Sessions : rate'[s] = rate[s] \/ rate'[s] = 0
    BY <1>3, <2>1
  <2>9. tokens' >= 0
    BY <1>5, <1>8
  <2> QED BY <1>4, <1>5, <1>6, <2>1, <2>3, <2>4, <2>7, <2>8, <2>9
<1> QED BY <1>7, <1>8

\* An account a charge is entered into: of the time since the bucket was made, or
\* of the time since the observer's mark.
LEMMA Room ==
    ASSUME IInv, NEW x \in Sessions, NEW W, NEW amount, NEW since \in Int, since <= now,
           Account(W, amount, since)
    PROVE  /\ \A s \in W : since <= start[s]
           /\ \E C \in Nat : /\ Ledger(W, size, Cap(since), Top(since), amount, C)
                             /\ C + Refilled(x) <= Top(since)
<1>1. Numbers
  BY Typed DEF IInv
<1>2. PICK C \in Nat : Ledger(W, size, Cap(since), Top(since), amount, C) /\ Budget(C, since)
  BY DEF Account
<1>3. /\ Refilled(x) \in Int /\ Refilled(x) <= highest
      /\ Refilled(x) <= tokens + highest * (now - last)
  BY <1>1, RefillFacts DEF IInv
<1>4. /\ highest \in Nat /\ tokens \in Int /\ last \in Int /\ now \in Int /\ last <= now
  BY <1>1 DEF Numbers
<1>5. \/ since <= last /\ C + tokens <= highest * (last - since)
      \/ C = 0 /\ since < now /\ last <= since
  BY <1>2 DEF Budget
<1>6. C + Refilled(x) <= highest * (now - since)
  BY <1>3, <1>4, <1>5, Fit
<1> QED BY <1>2, <1>6 DEF Account, Top

\* A message is charged, in both accounts.
LEMMA AcquireStep == ASSUME IInv, NEW x \in Sessions, Acquire(x) PROVE IInv'
<1>1. Numbers
  BY Typed DEF IInv
<1>2. PICK b \in Nat : b = size[x]
  BY <1>1 DEF Numbers
<1>3. /\ x \notin Sleeping /\ x \notin Counted
      /\ tokens' = Refilled(x) - b /\ tokens' \in Int /\ last' = now
      /\ created' = (IF created = -1 THEN now ELSE created) /\ created' # -1
      /\ UNCHANGED <<now, highest, mark>>
      /\ TypeOK'
      /\ \A s \in Sessions \ {x} :
            start'[s] = start[s] /\ debt'[s] = debt[s] /\ size'[s] = size[s]
      /\ \A s \in Sessions : rate'[s] = rate[s] \/ rate'[s] = 0
  BY <1>2, AcquireParts
<1>4. \/ /\ tokens' < 0 /\ Sleeping' = Sleeping \cup {x}
         /\ Counted' = (IF mark = -1 THEN Counted ELSE Counted \cup {x})
         /\ start'[x] = now /\ debt'[x] = -tokens' /\ size'[x] = size[x]
         /\ sent' = sent /\ through' = through
      \/ /\ tokens' >= 0 /\ Sleeping' = Sleeping /\ Counted' = Counted
         /\ sent' = sent + b
         /\ through' = IF mark = -1 THEN through ELSE through + b
  BY <1>2, AcquireParts
<1>5. Numbers'
  BY <1>3, TypedNext
<1>6. Refilled(x) \in Int /\ Refilled(x) <= highest
  BY <1>1, RefillFacts DEF IInv
<1>7. /\ now \in Int /\ highest \in Nat /\ last \in Int /\ last <= now
      /\ created \in Int /\ created <= now /\ mark \in Int /\ mark <= now
      /\ sent \in Nat /\ through \in Nat
      /\ Sleeping \in SUBSET Sessions /\ Counted \in SUBSET Sessions
  BY <1>1 DEF Numbers, Sleeping, Counted
<1>8. Shape'
  <2>1. tokens' <= highest'
    BY <1>3, <1>6, <1>7
  <2>2. \A s \in Sessions : rate'[s] <= highest'
    BY <1>3, <1>7 DEF IInv, Shape
  <2>3. created' <= last'
    BY <1>3, <1>7
  <2>4. Counted' \subseteq Sleeping'
    BY <1>4 DEF IInv, Shape
  <2>5. mark' = -1 => Counted' = {} /\ through' = 0
    BY <1>3, <1>4 DEF IInv, Shape
  <2> QED BY <1>3, <2>1, <2>2, <2>3, <2>4, <2>5 DEF Shape
<1>9. ASSUME NEW W \in SUBSET Sessions, NEW a \in Nat, NEW c \in Int, c <= now, x \notin W,
             \A s \in W : c <= start[s],
             NEW C \in Nat, Ledger(W, size, Cap(c), Top(c), a, C), C + Refilled(x) <= Top(c)
      PROVE  /\ start'[x] = now /\ debt'[x] = -tokens' /\ size'[x] = size[x]
                   => Account(W \cup {x}, a, c)'
             /\ tokens' >= 0 => Account(W, a + b, c)'
  <2>1. \A s \in W : start'[s] = start[s] /\ debt'[s] = debt[s] /\ size'[s] = size[s]
    BY <1>3, <1>9
  <2> QED BY <1>1, <1>2, <1>3, <1>5, <1>6, <1>9, <2>1, Charge
<1>10. SentAccount'
  <2>1. PICK W \in SUBSET Sessions, a \in Nat, c \in Int :
          /\ W = Sleeping /\ a = sent /\ c <= now
          /\ c = created'
    BY <1>3, <1>7
  <2>2. \E C \in Nat : /\ Ledger(W, size, Cap(c), Top(c), a, C)
                       /\ C + Refilled(x) <= Top(c)
                       /\ \A s \in W : c <= start[s]
    <3>1. CASE created # -1
      <4>1. c = created /\ Account(W, a, c)
        BY <1>3, <2>1, <3>1 DEF IInv, SentAccount
      <4> QED BY <2>1, <4>1, Room
    <3>2. CASE created = -1
      <4>1. W = {} /\ a = 0 /\ c = now /\ Refilled(x) = 0
        BY <1>3, <2>1, <3>2 DEF IInv, Shape, Refilled
      <4>2. Ledger(W, size, Cap(c), Top(c), a, 0)
        BY <4>1, LedgerEmpty
      <4>3. Top(c) = 0
        <5>1. now - c = 0
          BY <1>7, <4>1
        <5> QED BY <1>7, <5>1 DEF Top
      <4> QED BY <4>1, <4>2, <4>3
    <3> QED BY <3>1, <3>2
  <2>3. /\ start'[x] = now /\ debt'[x] = -tokens' /\ size'[x] = size[x]
              => Account(W \cup {x}, a, c)'
        /\ tokens' >= 0 => Account(W, a + b, c)'
    BY <1>3, <1>9, <2>1, <2>2
  <2>4. \/ Sleeping' = W \cup {x} /\ sent' = a /\ Account(W \cup {x}, a, c)'
        \/ Sleeping' = W /\ sent' = a + b /\ Account(W, a + b, c)'
    BY <1>4, <2>1, <2>3
  <2> QED BY <2>1, <2>4 DEF SentAccount
<1>11. WindowAccount'
  <2> SUFFICES ASSUME mark # -1 PROVE Account(Counted, through, mark - 1)'
    BY <1>3 DEF WindowAccount
  <2>1. PICK W \in SUBSET Sessions, a \in Nat, c \in Int :
          W = Counted /\ a = through /\ c = mark - 1 /\ c <= now
    <3>1. mark - 1 \in Int /\ mark - 1 <= now
      BY <1>7
    <3> QED BY <1>7, <3>1
  <2>2. Account(W, a, c)
    BY <2>1 DEF IInv, WindowAccount
  <2>3. \E C \in Nat : /\ Ledger(W, size, Cap(c), Top(c), a, C)
                       /\ C + Refilled(x) <= Top(c)
                       /\ \A s \in W : c <= start[s]
    BY <2>1, <2>2, Room
  <2>4. /\ start'[x] = now /\ debt'[x] = -tokens' /\ size'[x] = size[x]
              => Account(W \cup {x}, a, c)'
        /\ tokens' >= 0 => Account(W, a + b, c)'
    BY <1>3, <1>9, <2>1, <2>3
  <2>5. mark' - 1 = c
    BY <1>3, <2>1
  <2>6. \/ Counted' = W \cup {x} /\ through' = a /\ Account(W \cup {x}, a, c)'
        \/ Counted' = W /\ through' = a + b /\ Account(W, a + b, c)'
    BY <1>4, <2>1, <2>4
  <2> QED BY <2>5, <2>6
<1> QED BY <1>3, <1>8, <1>10, <1>11 DEF IInv

\* Every step keeps the invariant.
LEMMA StepIInv == IInv /\ [Next]_vars => IInv'
<1> SUFFICES ASSUME IInv, [Next]_vars PROVE IInv'
  OBVIOUS
<1>1. CASE UNCHANGED vars
  <2>1. UNCHANGED <<now, limit, tokens, last, created, pc, rate, size, start, debt, sent,
                    highest, mark, counted, through, sends, changes>>
    BY <1>1 DEF vars
  <2>2. TypeOK' /\ Sleeping' = Sleeping /\ Counted' = Counted
    BY <2>1 DEF IInv, TypeOK, Sleeping, Counted
  <2>3. Shape'
    BY <2>1, <2>2 DEF IInv, Shape
  <2>4. now <= now' /\ highest <= highest'
    BY <2>1 DEF IInv, TypeOK
  <2>5. SentAccount' /\ WindowAccount'
    BY <2>1, <2>2, <2>4, CalmStep
  <2> QED BY <2>2, <2>3, <2>5 DEF IInv
<1> QED BY <1>1, SetLimitStep, BeginStep, AcquireStep, WakeStep, MarkStep, AdvanceStep
        DEF Next

-----------------------------------------------------------------------------
\* The strengthened invariant holds throughout: it keeps the two accounts, of what
\* acquire_send_tokens charged since the bucket was made and since the mark.
THEOREM Inductive == Spec => []IInv
BY InitIInv, StepIInv, PTL DEF Spec

\* The state keeps its types; in particular no limit in force is below the floor
\* (effective_kbps) nor above the highest one.
THEOREM TypeCorrect == Spec => []TypeOK
BY Inductive, PTL DEF IInv

\* The limiter (acquire_send_tokens) lets no more through than the highest limit
\* allows for the time since the first charge, whatever stale limits its tasks
\* read and whenever they wake.
THEOREM LimitKept == Spec => []Throttled
<1>1. IInv => Throttled
  <2> SUFFICES ASSUME IInv PROVE Throttled
    OBVIOUS
  <2>1. Numbers
    BY Typed DEF IInv
  <2>2. CASE created = -1
    BY <2>2 DEF IInv, Shape, Throttled
  <2>3. CASE created # -1
    <3>1. PICK C \in Nat : Ledger(Sleeping, size, Cap(created), Top(created), sent, C)
      BY <2>3 DEF IInv, SentAccount, Account
    <3>2. Top(created) \in Nat
      <4>1. now - created \in Nat /\ highest \in Nat
        BY <2>1 DEF Numbers
      <4> QED BY <4>1 DEF Top
    <3>3. sent <= Top(created)
      BY <3>1, <3>2, LedgerBounds
    <3> QED BY <2>3, <3>3 DEF Throttled, Top
  <2> QED BY <2>2, <2>3
<1> QED BY <1>1, Inductive, PTL

\* The same from any moment on, but for the one unit's worth that the bucket may
\* have saved (the .min of the refill).
THEOREM LimitKeptFromAnyMoment == Spec => []WindowThrottled
<1>1. IInv => WindowThrottled
  <2> SUFFICES ASSUME IInv, mark # -1 PROVE through <= highest * (now - mark + 1)
    BY DEF WindowThrottled
  <2>1. Numbers
    BY Typed DEF IInv
  <2>2. PICK c \in Int : c = mark - 1
    BY <2>1 DEF Numbers
  <2>3. now - c \in Nat /\ now - c = now - mark + 1 /\ highest \in Nat
    BY <2>1, <2>2 DEF Numbers
  <2>4. PICK C \in Nat : Ledger(Counted, size, Cap(c), Top(c), through, C)
    BY <2>2 DEF IInv, WindowAccount, Account
  <2>5. Top(c) \in Nat
    BY <2>3 DEF Top
  <2>6. through <= Top(c)
    BY <2>4, <2>5, LedgerBounds
  <2> QED BY <2>3, <2>6 DEF Top
<1> QED BY <1>1, Inductive, PTL
=============================================================================
