-------------------------- MODULE InfoDataProofs --------------------------
(***************************************************************************)
(* Theorems about what the Info server shows: the array of seeing values   *)
(* (SeeingRing), for an array of any size and any number of values and of  *)
(* clients that ask and reset, and one client that sets values (with two,  *)
(* a value can be stored past the end of the array); and the list of       *)
(* parameters that the commands of operators leave behind, and what these  *)
(* do (Commands), for any number of operators, commands and failures.      *)
(***************************************************************************)
EXTENDS InfoData, TLAPS

-----------------------------------------------------------------------------
(* The slot of a value is the remainder of its number.                     *)

LEMMA Divides ==
  ASSUME NEW S \in Nat \ {0}, NEW n \in Nat
  PROVE  (n % S) \in 0 .. S - 1 /\ n \div S \in Nat /\ n = S * (n \div S) + (n % S)
OBVIOUS

\* A multiple of S and a multiple of S that is greater are S apart at least.
LEMMA MultiplesApart ==
  ASSUME NEW S \in Nat \ {0}, NEW a \in Nat, NEW b \in Nat, a < b
  PROVE  S * a \in Nat /\ S * b \in Nat /\ S * a + S <= S * b
<1>1. PICK c \in Nat : b = a + 1 + c
  <2>1. b - a - 1 \in Nat /\ b = a + 1 + (b - a - 1)
    OBVIOUS
  <2> QED  BY <2>1
<1>2. S * (a + 1 + c) = S * a + S + S * c
  OBVIOUS
<1>3. S * c \in Nat /\ S * a \in Nat
  OBVIOUS
<1> QED  BY <1>1, <1>2, <1>3

LEMMA UniqueRemainder ==
  ASSUME NEW S \in Nat \ {0}, NEW q \in Nat, NEW p \in Nat,
         NEW r \in 0 .. S - 1, NEW t \in 0 .. S - 1, S * q + r = S * p + t
  PROVE  r = t
<1>1. S * q \in Nat /\ S * p \in Nat
  OBVIOUS
<1>2. CASE q < p
  BY <1>1, <1>2, MultiplesApart
<1>3. CASE p < q
  BY <1>1, <1>3, MultiplesApart
<1>4. CASE p = q
  BY <1>1, <1>4
<1> QED  BY <1>2, <1>3, <1>4

\* The slot after the last one is the first.
LEMMA NextSlot ==
  ASSUME NEW S \in Nat \ {0}, NEW n \in Nat
  PROVE  (n + 1) % S = IF (n % S) + 1 >= S THEN 0 ELSE (n % S) + 1
<1> DEFINE q == n \div S
           p == (n + 1) \div S
           r == n % S
           t == (n + 1) % S
<1>1. r \in 0 .. S - 1 /\ t \in 0 .. S - 1 /\ q \in Nat /\ p \in Nat /\ n = S * q + r /\ n + 1 = S * p + t
  BY Divides, n + 1 \in Nat
<1> HIDE DEF q, p, r, t
<1>2. S * q \in Nat /\ S * p \in Nat /\ S * (q + 1) = S * q + S
  BY <1>1
<1>3. CASE r + 1 < S
  <2>1. S * q + (r + 1) = S * p + t /\ r + 1 \in 0 .. S - 1
    BY <1>1, <1>2, <1>3
  <2>2. r + 1 = t
    BY <1>1, <2>1, UniqueRemainder
  <2> QED  BY <2>2, <1>1, <1>3 DEF t, r
<1>4. CASE r + 1 >= S
  <2>1. S * (q + 1) + 0 = S * p + t /\ q + 1 \in Nat /\ 0 \in 0 .. S - 1
    BY <1>1, <1>2, <1>4
  <2>2. 0 = t
    BY <1>1, <2>1, UniqueRemainder
  <2> QED  BY <2>2, <1>1, <1>4 DEF t, r
<1> QED  BY <1>1, <1>3, <1>4

\* Fewer than S values set one after the other have slots of their own.
LEMMA SlotsApart ==
  ASSUME NEW S \in Nat \ {0}, NEW n \in Nat, NEW j \in Nat, j < n, n - j < S
  PROVE  j % S # n % S
<1> SUFFICES ASSUME j % S = n % S PROVE FALSE
  OBVIOUS
<1> DEFINE q == n \div S
           p == j \div S
           r == n % S
<1>1. r \in 0 .. S - 1 /\ q \in Nat /\ p \in Nat /\ n = S * q + r /\ j = S * p + r
  BY Divides
<1> HIDE DEF q, p, r
<1>2. S * q \in Nat /\ S * p \in Nat
  BY <1>1
<1>3. CASE q < p
  BY <1>1, <1>2, <1>3, MultiplesApart
<1>4. CASE q > p
  BY <1>1, <1>2, <1>4, MultiplesApart
<1>5. CASE q = p
  BY <1>1, <1>2, <1>5
<1> QED  BY <1>1, <1>3, <1>4, <1>5

-----------------------------------------------------------------------------
(* The invariant.                                                          *)

Places == {"idle", "reset", "time", "load", "move", "next", "count", "wrap",
           "zero", "all", "oldest", "old", "new"}
Moved == {"next", "count", "wrap", "zero"}    \* position has been moved on

ArrayTyped ==
  /\ value \in [Cells -> Nat] /\ time \in [Cells -> Nat]
  /\ position \in 0 .. Size /\ total \in Nat
  /\ pc \in [Clients -> Places]
  /\ \A w \in Writers : pc[w] \in Places \ {"all", "oldest", "old", "new"}
  /\ setting \in [Writers -> Nat] /\ loaded \in [Writers -> Nat]
  /\ count \in Nat /\ log \in Seq(Nat) /\ orderly \in BOOLEAN

\* The position is past the end only between its increment and its way back.
PositionInside ==
  \A w \in Writers : /\ pc[w] \notin Moved => position < Size
                     /\ pc[w] = "move" => loaded[w] < Size

\* The slots hold the values stored, except those that m values would cover.
Fits(m) ==
  \A k \in 1 .. Len(log) : k > m - Size =>
    value[(k - 1) % Size] = log[k] /\ time[(k - 1) % Size] = log[k]

Resetting == \E t \in Clients : pc[t] = "reset"

ResetOrderly == log = <<>> /\ position = 0 /\ \A w \in Writers : pc[w] \in {"idle", "reset"}

RestOrderly == total = Len(log) /\ position = Len(log) % Size /\ Fits(Len(log))

\* While w stores a value: as far as it has come, the array has the new value too.
StoreOrderly(w) ==
  /\ Fits(Len(log) + 1)
  /\ value[Len(log) % Size] = setting[w]
  /\ pc[w] # "time" => time[Len(log) % Size] = setting[w]
  /\ position = IF pc[w] \in Moved THEN (Len(log) % Size) + 1 ELSE Len(log) % Size
  /\ total = IF pc[w] \in {"wrap", "zero"} THEN Len(log) + 1 ELSE Len(log)
  /\ pc[w] = "move" => loaded[w] = position
  /\ pc[w] = "count" => loaded[w] = total
  /\ pc[w] = "zero" => position >= Size

Orderly ==
  orderly =>
    /\ Resetting => ResetOrderly
    /\ ~Resetting /\ (\A w \in Writers : pc[w] = "idle") => RestOrderly
    /\ ~Resetting => \A w \in Writers : pc[w] # "idle" => StoreOrderly(w)

ArrayInv == ArrayTyped /\ PositionInside /\ Orderly

SingleWriter == \A v, w \in Writers : v = w

LEMMA InitArray == Init => ArrayInv
<1> SUFFICES ASSUME Init PROVE ArrayInv
  OBVIOUS
<1> USE SeeingAssumption DEF Init
<1>1. ArrayTyped
  BY DEF ArrayTyped, Cells, Places, Clients
<1>2. PositionInside
  BY DEF PositionInside, Clients
<1>3. 0 % Size = 0
  OBVIOUS
<1>4. Orderly
  BY <1>3 DEF Orderly, Resetting, RestOrderly, Fits, Clients
<1> QED  BY <1>1, <1>2, <1>4 DEF ArrayInv

\* Where the next value goes is inside the array.
LEMMA Slot ==
  ASSUME ArrayTyped
  PROVE  Len(log) \in Nat /\ Len(log) % Size \in 0 .. Size - 1 /\ Len(log) % Size \in Cells
         /\ position \in Cells
<1>1. Len(log) \in Nat
  BY DEF ArrayTyped
<1>2. Len(log) % Size \in 0 .. Size - 1
  BY <1>1, Divides, SeeingAssumption
<1>3. 0 .. Size \subseteq Cells
  BY SeeingAssumption DEF Cells
<1>4. 0 .. Size - 1 \subseteq 0 .. Size /\ position \in 0 .. Size
  BY SeeingAssumption DEF ArrayTyped
<1> QED  BY <1>1, <1>2, <1>3, <1>4

\* The last access of a store: the value is among those stored.
LEMMA StoreEnds ==
  ASSUME ArrayTyped, SingleWriter, NEW w \in Writers, StoreOrderly(w), pc[w] \in {"wrap", "zero"},
         log' = Append(log, setting[w]), UNCHANGED <<value, time, total>>,
         position' = IF position >= Size THEN 0 ELSE position
  PROVE  RestOrderly'
<1> DEFINE n == Len(log)
<1>1. n \in Nat /\ n % Size \in 0 .. Size - 1
  BY Slot
<1>2. Len(log') = n + 1 /\ log'[n + 1] = setting[w] /\ \A k \in 1 .. n : log'[k] = log[k]
  BY DEF ArrayTyped
<1>3. total' = n + 1
  BY DEF StoreOrderly
<1>4. position' = (n + 1) % Size
  BY <1>1, NextSlot, SeeingAssumption DEF StoreOrderly, Moved
<1>5. ASSUME NEW k \in 1 .. n + 1, k > n + 1 - Size
      PROVE  value[(k - 1) % Size] = log'[k] /\ time[(k - 1) % Size] = log'[k]
  <2>1. CASE k = n + 1
    <3>1. k - 1 = n
      BY <2>1, <1>1
    <3> QED  BY <3>1, <2>1, <1>2 DEF StoreOrderly
  <2>2. CASE k # n + 1
    <3>1. k \in 1 .. n
      BY <2>2, <1>1
    <3>2. Fits(n + 1)
      BY DEF StoreOrderly
    <3>3. k \in 1 .. Len(log) /\ k > Len(log) + 1 - Size
      BY <3>1, <1>5, <1>1
    <3>4. value[(k - 1) % Size] = log[k] /\ time[(k - 1) % Size] = log[k]
      BY <3>2, <3>3, <1>1, SeeingAssumption DEF Fits
    <3> QED  BY <3>1, <3>4, <1>2
  <2> QED  BY <2>1, <2>2
<1> HIDE DEF n
<1>6. Fits(Len(log))'
  <2> SUFFICES ASSUME NEW k \in 1 .. Len(log'), k > Len(log') - Size
               PROVE  value'[(k - 1) % Size] = log'[k] /\ time'[(k - 1) % Size] = log'[k]
    BY DEF Fits
  <2>1. k \in 1 .. n + 1 /\ k > n + 1 - Size
    BY <1>1, <1>2, SeeingAssumption
  <2> QED  BY <2>1, <1>5
<1> QED  BY <1>2, <1>3, <1>4, <1>6 DEF RestOrderly

LEMMA StepArray ==
  ASSUME SingleWriter
  PROVE  ArrayInv /\ [Next]_vars => ArrayInv'
<1> SUFFICES ASSUME ArrayTyped, PositionInside, Orderly, [Next]_vars PROVE ArrayInv'
  BY DEF ArrayInv
<1> USE SeeingAssumption DEF arrayVars, writerVars, readerVars, history
<1> DEFINE n == Len(log)
<1>n. n \in Nat /\ n % Size \in 0 .. Size - 1 /\ n % Size \in Cells /\ position \in Cells
  BY Slot
<1>c. \A w \in Writers : w \in Clients
  BY DEF Clients
\* A step within a store: no reset is half done, and nobody else stores.
<1>s. ASSUME NEW w \in Writers, pc[w] \notin {"idle", "reset"}, orderly
      PROVE  ~Resetting /\ StoreOrderly(w)
  BY <1>s DEF Orderly, ResetOrderly
<1>p. ASSUME NEW w \in Writers, NEW to, pc[w] \notin {"reset"}, to # "reset", pc' = [pc EXCEPT ![w] = to],
             ~Resetting
      PROVE  ~Resetting'
  BY <1>p, <1>c DEF Resetting, ArrayTyped
<1>o. ASSUME NEW w \in Writers, pc'[w] # "idle", ~Resetting', orderly' => StoreOrderly(w)'
      PROVE  Orderly'
  BY <1>o DEF Orderly, SingleWriter
<1>r. ASSUME NEW w \in Writers, pc'[w] = "idle", ~Resetting', orderly' => RestOrderly'
      PROVE  Orderly'
  BY <1>r DEF Orderly, SingleWriter
<1>1. ASSUME NEW w \in Writers, StoreValue(w) PROVE ArrayInv'
  <2> USE <1>1 DEF StoreValue, Go
  <2>1. ArrayTyped'
    BY <1>c, <1>n DEF ArrayTyped, Places
  <2>2. pc'[w] = "time" /\ setting'[w] = count' /\ n' = n /\ log' = log
    BY <1>c DEF ArrayTyped
  <2>3. PositionInside'
    BY <2>2 DEF PositionInside, SingleWriter, Moved, ArrayTyped
  <2>4. Orderly'
    <3>1. CASE ~orderly'
      BY <3>1 DEF Orderly
    <3>2. CASE orderly'
      <4>1. ~Resetting /\ orderly /\ RestOrderly
        BY <3>2, <1>c DEF Orderly, SingleWriter, Resetting
      <4>2. value'[n % Size] = count' /\ \A s \in Cells : s # n % Size => value'[s] = value[s]
        BY <4>1, <1>n DEF RestOrderly, ArrayTyped
      <4>3. ASSUME NEW k \in 1 .. n, k > n + 1 - Size
            PROVE  value'[(k - 1) % Size] = log[k] /\ time[(k - 1) % Size] = log[k]
        <5>1. k - 1 \in Nat /\ k - 1 < n /\ n - (k - 1) < Size
          BY <4>3, <1>n
        <5>2. (k - 1) % Size # n % Size
          BY <5>1, <1>n, SlotsApart
        <5>3. (k - 1) % Size \in Cells
          BY <5>1, Divides DEF Cells
        <5> QED  BY <5>2, <5>3, <4>1, <4>2, <4>3, <1>n DEF RestOrderly, Fits
      <4>4. Fits(n + 1)'
        BY <4>3, <2>2 DEF Fits
      <4>5. StoreOrderly(w)'
        BY <4>1, <4>2, <4>4, <2>2 DEF StoreOrderly, RestOrderly, Moved
      <4>6. ~Resetting'
        BY <1>p, <4>1
      <4> QED  BY <4>5, <4>6, <2>2, <1>o
    <3> QED  BY <3>1, <3>2 DEF ArrayTyped
  <2> QED  BY <2>1, <2>3, <2>4 DEF ArrayInv
<1>2. ASSUME NEW w \in Writers, StoreTime(w) PROVE ArrayInv'
  <2> USE <1>2 DEF StoreTime, Go
  <2>1. ArrayTyped'
    BY <1>c, <1>n DEF ArrayTyped, Places
  <2>2. pc'[w] = "load" /\ n' = n /\ log' = log
    BY <1>c DEF ArrayTyped
  <2>3. PositionInside'
    BY <2>2 DEF PositionInside, SingleWriter, Moved
  <2>4. Orderly'
    <3>1. CASE ~orderly
      BY <3>1 DEF Orderly
    <3>2. CASE orderly
      <4>1. ~Resetting /\ StoreOrderly(w)
        BY <3>2, <1>s
      <4>2. time'[n % Size] = setting[w] /\ \A s \in Cells : s # n % Size => time'[s] = time[s]
        BY <4>1, <1>n DEF StoreOrderly, ArrayTyped, Moved
      <4>3. ASSUME NEW k \in 1 .. n, k > n + 1 - Size
            PROVE  value[(k - 1) % Size] = log[k] /\ time'[(k - 1) % Size] = log[k]
        <5>1. k - 1 \in Nat /\ k - 1 < n /\ n - (k - 1) < Size
          BY <4>3, <1>n
        <5>2. (k - 1) % Size # n % Size
          BY <5>1, <1>n, SlotsApart
        <5>3. (k - 1) % Size \in Cells
          BY <5>1, Divides DEF Cells
        <5> QED  BY <5>2, <5>3, <4>1, <4>2, <4>3 DEF StoreOrderly, Fits
      <4>4. Fits(n + 1)'
        BY <4>3, <2>2 DEF Fits
      <4>5. StoreOrderly(w)'
        BY <4>1, <4>2, <4>4, <2>2 DEF StoreOrderly, Moved
      <4>6. ~Resetting'
        BY <1>p, <4>1
      <4> QED  BY <4>5, <4>6, <2>2, <1>o
    <3> QED  BY <3>1, <3>2
  <2> QED  BY <2>1, <2>3, <2>4 DEF ArrayInv
<1>3. ASSUME NEW w \in Writers, Load(w) PROVE ArrayInv'
  <2> USE <1>3 DEF Load, Go
  <2>1. ArrayTyped'
    <3>1. position \in Nat /\ total \in Nat
      BY DEF ArrayTyped
    <3>2. CASE Go(w, "load", "move") /\ loaded' = [loaded EXCEPT ![w] = position]
      BY <3>1, <3>2, <1>c DEF ArrayTyped, Places
    <3>3. CASE Go(w, "next", "count") /\ loaded' = [loaded EXCEPT ![w] = total]
      BY <3>1, <3>3, <1>c DEF ArrayTyped, Places
    <3> QED  BY <3>2, <3>3
  <2>2. /\ n' = n /\ log' = log
        /\ \/ pc[w] = "load" /\ pc'[w] = "move" /\ loaded'[w] = position
           \/ pc[w] = "next" /\ pc'[w] = "count" /\ loaded'[w] = total
    BY <1>c DEF ArrayTyped
  <2>3. PositionInside'
    BY <2>2 DEF PositionInside, SingleWriter, Moved
  <2>4. Orderly'
    <3>1. CASE ~orderly
      BY <3>1, <1>3 DEF Orderly, history
    <3>2. CASE orderly
      <4>1. ~Resetting /\ StoreOrderly(w)
        BY <3>2, <1>s
      <4>2. StoreOrderly(w)'
        BY <4>1, <2>2 DEF StoreOrderly, Moved, Fits, arrayVars
      <4>3. ~Resetting'
        BY <1>p, <4>1
      <4> QED  BY <4>2, <4>3, <2>2, <1>o
    <3> QED  BY <3>1, <3>2
  <2> QED  BY <2>1, <2>3, <2>4 DEF ArrayInv
<1>4. ASSUME NEW w \in Writers, MovePosition(w) PROVE ArrayInv'
  <2> USE <1>4 DEF MovePosition, Go
  <2>1. ArrayTyped'
    BY <1>c DEF ArrayTyped, Places, PositionInside
  <2>2. pc'[w] = "next" /\ n' = n /\ log' = log
    BY <1>c DEF ArrayTyped
  <2>3. PositionInside'
    BY <2>2 DEF PositionInside, SingleWriter, Moved
  <2>4. Orderly'
    <3>1. CASE ~orderly
      BY <3>1 DEF Orderly
    <3>2. CASE orderly
      <4>1. ~Resetting /\ StoreOrderly(w)
        BY <3>2, <1>s
      <4>2. StoreOrderly(w)'
        BY <4>1, <2>2 DEF StoreOrderly, Moved, Fits
      <4>3. ~Resetting'
        BY <1>p, <4>1
      <4> QED  BY <4>2, <4>3, <2>2, <1>o
    <3> QED  BY <3>1, <3>2
  <2> QED  BY <2>1, <2>3, <2>4 DEF ArrayInv
<1>5. ASSUME NEW w \in Writers, CountValue(w) PROVE ArrayInv'
  <2> USE <1>5 DEF CountValue, Go
  <2>1. ArrayTyped'
    BY <1>c DEF ArrayTyped, Places
  <2>2. pc'[w] = "wrap" /\ n' = n /\ log' = log
    BY <1>c DEF ArrayTyped
  <2>3. PositionInside'
    BY <2>2 DEF PositionInside, SingleWriter, Moved
  <2>4. Orderly'
    <3>1. CASE ~orderly
      BY <3>1 DEF Orderly
    <3>2. CASE orderly
      <4>1. ~Resetting /\ StoreOrderly(w)
        BY <3>2, <1>s
      <4>2. StoreOrderly(w)'
        BY <4>1, <2>2 DEF StoreOrderly, Moved, Fits
      <4>3. ~Resetting'
        BY <1>p, <4>1
      <4> QED  BY <4>2, <4>3, <2>2, <1>o
    <3> QED  BY <3>1, <3>2
  <2> QED  BY <2>1, <2>3, <2>4 DEF ArrayInv
<1>6. ASSUME NEW w \in Writers, Wrap(w) PROVE ArrayInv'
  <2> USE <1>6 DEF Wrap, Go
  <2>1. ArrayTyped'
    <3>1. CASE Go(w, "wrap", "zero") /\ UNCHANGED log
      BY <3>1, <1>c DEF ArrayTyped, Places
    <3>2. CASE Go(w, "wrap", "idle") /\ log' = Append(log, setting[w])
      BY <3>2, <1>c DEF ArrayTyped, Places
    <3> QED  BY <3>1, <3>2
  <2>2. /\ UNCHANGED <<arrayVars, loaded, setting, orderly>>
        /\ pc[w] = "wrap"
        /\ \/ position >= Size /\ pc'[w] = "zero" /\ log' = log
           \/ position < Size /\ pc'[w] = "idle" /\ log' = Append(log, setting[w])
    BY <1>c DEF ArrayTyped, arrayVars, writerVars
  <2>3. PositionInside'
    BY <2>2 DEF PositionInside, SingleWriter, Moved, arrayVars
  <2>4. Orderly'
    <3>1. CASE ~orderly
      BY <3>1, <2>2 DEF Orderly
    <3>2. CASE orderly
      <4>1. ~Resetting /\ StoreOrderly(w)
        BY <3>2, <2>2, <1>s
      <4>2. ~Resetting'
        BY <1>p, <4>1, <2>2
      <4>3. CASE pc'[w] = "zero"
        <5>1. StoreOrderly(w)'
          BY <4>1, <4>3, <2>2 DEF StoreOrderly, Moved, Fits, arrayVars
        <5> QED  BY <5>1, <4>2, <4>3, <1>o
      <4>4. CASE pc'[w] = "idle"
        <5>1. RestOrderly'
          BY <4>1, <4>4, <2>2, StoreEnds DEF arrayVars, ArrayTyped
        <5> QED  BY <5>1, <4>2, <4>4, <1>r
      <4> QED  BY <4>3, <4>4, <2>2
    <3> QED  BY <3>1, <3>2
  <2> QED  BY <2>1, <2>3, <2>4 DEF ArrayInv
<1>7. ASSUME NEW w \in Writers, BackToZero(w) PROVE ArrayInv'
  <2> USE <1>7 DEF BackToZero, Go
  <2>1. ArrayTyped'
    BY <1>c DEF ArrayTyped, Places, writerVars
  <2>2. pc[w] = "zero" /\ pc'[w] = "idle"
    BY <1>c DEF ArrayTyped
  <2>3. PositionInside'
    BY <2>2 DEF PositionInside, SingleWriter, Moved
  <2>4. Orderly'
    <3>1. CASE ~orderly
      BY <3>1 DEF Orderly
    <3>2. CASE orderly
      <4>1. ~Resetting /\ StoreOrderly(w)
        BY <3>2, <2>2, <1>s
      <4>2. ~Resetting'
        BY <1>p, <4>1, <2>2
      <4>3. position >= Size
        BY <4>1, <2>2 DEF StoreOrderly
      <4>4. RestOrderly'
        BY <4>1, <4>3, <2>2, StoreEnds
      <4> QED  BY <4>4, <4>2, <2>2, <1>r
    <3> QED  BY <3>1, <3>2
  <2> QED  BY <2>1, <2>3, <2>4 DEF ArrayInv
<1>8. ASSUME NEW t \in Clients, Reset(t) PROVE ArrayInv'
  <2> USE <1>8 DEF Reset, Go
  <2>1. ArrayTyped'
    BY DEF ArrayTyped, Places, writerVars
  <2>2. pc'[t] = "reset" /\ \A u \in Clients : u # t => pc'[u] = pc[u]
    BY DEF ArrayTyped
  <2>3. PositionInside'
    BY <2>2, <1>c DEF PositionInside, SingleWriter, Moved, writerVars
  <2>4. Orderly'
    BY <2>2, <1>c DEF Orderly, Resetting, ResetOrderly
  <2> QED  BY <2>1, <2>3, <2>4 DEF ArrayInv
<1>9. ASSUME NEW t \in Clients, ResetTotal(t) PROVE ArrayInv'
  <2> USE <1>9 DEF ResetTotal, Go
  <2>1. ArrayTyped'
    BY DEF ArrayTyped, Places, writerVars
  <2>2. pc[t] = "reset" /\ pc'[t] = "idle" /\ \A u \in Clients : u # t => pc'[u] = pc[u]
    BY DEF ArrayTyped
  <2>3. PositionInside'
    BY <2>2, <1>c DEF PositionInside, Moved, writerVars
  <2>4. Orderly'
    <3>1. CASE ~orderly
      BY <3>1 DEF Orderly
    <3>2. CASE orderly
      <4>1. Resetting /\ ResetOrderly
        BY <3>2, <2>2 DEF Orderly, Resetting
      <4>2. ResetOrderly'
        BY <4>1, <2>2, <1>c DEF ResetOrderly
      <4>3. 0 % Size = 0 /\ Len(<<>>) = 0
        OBVIOUS
      <4>4. RestOrderly'
        BY <4>2, <4>3 DEF RestOrderly, ResetOrderly, Fits
      <4>5. ~Resetting' => \A w \in Writers : pc'[w] = "idle"
        BY <4>2, <1>c DEF Resetting, ResetOrderly
      <4> QED  BY <4>2, <4>4, <4>5 DEF Orderly
    <3> QED  BY <3>1, <3>2
  <2> QED  BY <2>1, <2>3, <2>4 DEF ArrayInv
\* What a reader does disturbs nothing.
<1>q. ASSUME NEW r \in Readers, NEW to \in Places \ {"reset"}, pc[r] # "reset", pc' = [pc EXCEPT ![r] = to],
             UNCHANGED <<value, time, position, total, setting, loaded, count, log, orderly>>
      PROVE  ArrayInv'
  <2> USE <1>q
  <2>1. r \in Clients /\ \A w \in Writers : pc'[w] = pc[w]
    BY <1>c DEF Clients, ArrayTyped
  <2>2. ArrayTyped'
    BY <2>1 DEF ArrayTyped
  <2>3. PositionInside'
    BY <2>1 DEF PositionInside
  <2>4. Resetting' <=> Resetting
    BY <2>1 DEF Resetting, ArrayTyped
  <2>5. Orderly'
    BY <2>1, <2>4 DEF Orderly, ResetOrderly, RestOrderly, StoreOrderly, Fits
  <2> QED  BY <2>2, <2>3, <2>5 DEF ArrayInv
<1>10. ASSUME NEW r \in Readers, Reply(r) PROVE ArrayInv'
  <2>1. PICK to \in {"idle", "all", "oldest"} : Go(r, "idle", to)
    BY <1>10 DEF Reply
  <2> QED  BY <1>10, <2>1, <1>q DEF Reply, Go, Places, arrayVars, writerVars
<1>11. ASSUME NEW r \in Readers, FindOldest(r) PROVE ArrayInv'
  BY <1>11, <1>q DEF FindOldest, Go, Places, arrayVars, writerVars, history
<1>12. ASSUME NEW r \in Readers, EndLoop(r) PROVE ArrayInv'
  <2>1. PICK from \in {"all", "old", "new"}, to \in {"idle", "new"} : Go(r, from, to)
    BY <1>12 DEF EndLoop
  <2> QED  BY <1>12, <2>1, <1>q DEF EndLoop, Go, Places, arrayVars, writerVars, history
<1>13. ASSUME NEW r \in Readers, WriteFails(r) PROVE ArrayInv'
  BY <1>13, <1>q DEF WriteFails, Go, Places, arrayVars, writerVars
<1>14. CASE UNCHANGED <<value, time, position, total, pc, setting, loaded, count, log, orderly>>
  BY <1>14 DEF ArrayInv, ArrayTyped, PositionInside, Orderly, Resetting, ResetOrderly, RestOrderly,
               StoreOrderly, Fits
<1>15. ASSUME NEW r \in Readers, SendLine(r) PROVE ArrayInv'
  BY <1>15, <1>14 DEF SendLine, arrayVars, writerVars, history
<1>16. CASE UNCHANGED vars
  BY <1>16, <1>14 DEF vars, arrayVars, writerVars, history
<1> QED
  BY <1>1, <1>2, <1>3, <1>4, <1>5, <1>6, <1>7, <1>8, <1>9, <1>10, <1>11, <1>12, <1>13, <1>15, <1>16
     DEF Next

-----------------------------------------------------------------------------
LEMMA ArrayFromInv == ArrayInv => StoresInside /\ ArrayHoldsNewest
<1>1. ArrayInv => StoresInside
  BY DEF ArrayInv, PositionInside, StoresInside, Moved
<1>2. ArrayInv => ArrayHoldsNewest
  BY DEF ArrayInv, Orderly, Resetting, RestOrderly, Fits, Still, ArrayHoldsNewest, Clients
<1> QED  BY <1>1, <1>2

\* With one client that sets values, they are stored inside the array, wherever
\* a reset comes between the steps of a store.
THEOREM InsideTheArray == SingleWriter => (Spec => []StoresInside)
<1> SUFFICES ASSUME SingleWriter PROVE Spec => []StoresInside
  OBVIOUS
<1>1. ArrayInv => StoresInside
  BY ArrayFromInv
<1>2. ArrayInv /\ [Next]_vars => ArrayInv'
  BY StepArray
<1> QED  BY <1>1, <1>2, InitArray, PTL DEF Spec

\* Between stores the array holds the newest values with their times, each in
\* its slot, however often the array has come round, unless a reset came in the
\* middle of a store.
THEOREM NewestInPlace == SingleWriter => (Spec => []ArrayHoldsNewest)
<1> SUFFICES ASSUME SingleWriter PROVE Spec => []ArrayHoldsNewest
  OBVIOUS
<1>1. ArrayInv => ArrayHoldsNewest
  BY ArrayFromInv
<1>2. ArrayInv /\ [Next]_vars => ArrayInv'
  BY StepArray
<1> QED  BY <1>1, <1>2, InitArray, PTL DEF Spec

\* Both: stores stay inside, and the newest values are in place.
THEOREM ArrayCorrect == SingleWriter => (Spec => []ArrayRight)
<1> SUFFICES ASSUME SingleWriter PROVE Spec => []ArrayRight
  OBVIOUS
<1>1. Spec => []StoresInside
  BY InsideTheArray
<1>2. Spec => []ArrayHoldsNewest
  BY NewestInPlace
<1> QED  BY <1>1, <1>2, PTL DEF ArrayRight

-----------------------------------------------------------------------------
(* Replies that nothing disturbs.                                          *)

Lines     == [time : Nat, value : Nat]
LineAt(j) == [time |-> time[j], value |-> value[j]]

\* The lines of n slots from the slot j on; the last n slots and then the first m.
LinesFrom(s, n, j) ==
  s \in Seq(Lines) /\ Len(s) = n /\ \A k \in 1 .. n : s[k] = LineAt(j + k - 1)
LinesRound(s, n, m) ==
  /\ s \in Seq(Lines) /\ Len(s) = n + m
  /\ \A k \in 1 .. n : s[k] = LineAt(Size - n + k - 1)
  /\ \A k \in 1 .. m : s[n + k] = LineAt(k - 1)

\* What of the array has been sent, when the array is as it was when r asked.
HasSent(r) ==
  /\ pc[r] = "all" => total \in 1 .. Size /\ i[r] \in 0 .. total /\ LinesFrom(sent[r], i[r], 0)
  /\ pc[r] = "oldest" => total > Size /\ sent[r] = <<>>
  /\ pc[r] = "old" => /\ total > Size /\ i[r] \in position .. Size
                      /\ LinesFrom(sent[r], i[r] - position, position)
  /\ pc[r] = "new" => /\ total > Size /\ i[r] \in 0 .. position
                      /\ LinesRound(sent[r], Size - position, i[r])
  /\ pc[r] = "idle" => IF total <= Size THEN LinesFrom(sent[r], total, 0)
                                        ELSE LinesRound(sent[r], Size - position, position)

ReplyTyped == DOMAIN i = Readers /\ DOMAIN sent = Readers /\ touched \in [Readers -> BOOLEAN]
ReplyInv   == ReplyTyped /\ \A r \in Readers : ~touched[r] => HasSent(r)

LEMMA InitReply == Init => ReplyInv
<1> SUFFICES ASSUME Init PROVE ReplyInv
  OBVIOUS
<1>1. ReplyTyped
  BY DEF Init, ReplyTyped
<1>2. ASSUME NEW r \in Readers PROVE HasSent(r)
  <2>1. pc[r] = "idle" /\ sent[r] = <<>> /\ total = 0
    BY DEF Init, Clients
  <2>2. LinesFrom(<<>>, 0, 0)
    BY DEF LinesFrom
  <2> QED  BY <2>1, <2>2, SeeingAssumption DEF HasSent
<1> QED  BY <1>1, <1>2 DEF ReplyInv

LEMMA OneLine ==
  ASSUME NEW s \in Seq(Lines), NEW e \in Lines, NEW z, z = Append(s, e)
  PROVE  /\ z \in Seq(Lines) /\ Len(z) = Len(s) + 1 /\ z[Len(s) + 1] = e
         /\ \A k \in 1 .. Len(s) : z[k] = s[k]
OBVIOUS

LEMMA LineType == ASSUME ArrayTyped, NEW j \in 0 .. Size PROVE LineAt(j) \in Lines
<1>1. j \in Cells
  BY SeeingAssumption DEF Cells
<1> QED  BY <1>1 DEF ArrayTyped, LineAt, Lines

\* SendLine.
LEMMA LineMore ==
  ASSUME ArrayTyped, NEW s, NEW n \in Nat, NEW j \in Nat, LinesFrom(s, n, j), j + n \in 0 .. Size,
         NEW z, z = Append(s, LineAt(j + n))
  PROVE  LinesFrom(z, n + 1, j)
<1>1. PICK e \in Lines : e = LineAt(j + n)
  BY LineType
<1>2. s \in Seq(Lines) /\ Len(s) = n /\ \A k \in 1 .. n : s[k] = LineAt(j + k - 1)
  BY DEF LinesFrom
<1>3. z \in Seq(Lines) /\ Len(z) = n + 1 /\ z[n + 1] = e /\ \A k \in 1 .. n : z[k] = s[k]
  BY <1>1, <1>2, OneLine
<1>4. ASSUME NEW k \in 1 .. n + 1 PROVE z[k] = LineAt(j + k - 1)
  <2>1. CASE k = n + 1
    <3>1. j + k - 1 = j + n
      BY <2>1
    <3> QED  BY <1>1, <1>3, <2>1, <3>1
  <2>2. CASE k # n + 1
    BY <1>2, <1>3, <2>2
  <2> QED  BY <2>1, <2>2
<1> QED  BY <1>3, <1>4 DEF LinesFrom

LEMMA LineMoreRound ==
  ASSUME ArrayTyped, NEW s, NEW n \in Nat, NEW m \in 0 .. Size, LinesRound(s, n, m),
         NEW z, z = Append(s, LineAt(m))
  PROVE  LinesRound(z, n, m + 1)
<1>1. PICK e \in Lines : e = LineAt(m)
  BY LineType
<1>2. /\ s \in Seq(Lines) /\ Len(s) = n + m
      /\ \A k \in 1 .. n : s[k] = LineAt(Size - n + k - 1)
      /\ \A k \in 1 .. m : s[n + k] = LineAt(k - 1)
  BY DEF LinesRound
<1>3. /\ z \in Seq(Lines) /\ Len(z) = (n + m) + 1 /\ z[(n + m) + 1] = e
      /\ \A k \in 1 .. n + m : z[k] = s[k]
  BY <1>1, <1>2, OneLine
<1>4. ASSUME NEW k \in 1 .. n PROVE z[k] = LineAt(Size - n + k - 1)
  BY <1>2, <1>3
<1>5. ASSUME NEW k \in 1 .. m + 1 PROVE z[n + k] = LineAt(k - 1)
  <2>1. CASE k = m + 1
    <3>1. k - 1 = m /\ n + k = (n + m) + 1
      BY <2>1
    <3> QED  BY <1>1, <1>3, <3>1
  <2>2. CASE k # m + 1
    <3>1. k \in 1 .. m /\ n + k \in 1 .. n + m
      BY <2>2
    <3> QED  BY <1>2, <1>3, <3>1
  <2> QED  BY <2>1, <2>2
<1>6. Len(z) = n + (m + 1)
  BY <1>3
<1> QED  BY <1>3, <1>4, <1>5, <1>6 DEF LinesRound

LEMMA StepReply == ArrayInv /\ ReplyInv /\ [Next]_vars => ReplyInv'
<1> SUFFICES ASSUME ArrayInv, ReplyInv, [Next]_vars PROVE ReplyInv'
  OBVIOUS
<1> USE DEF arrayVars, writerVars, readerVars, history
<1>t. /\ position \in 0 .. Size /\ total \in Nat /\ Size \in Nat \ {0} /\ DOMAIN pc = Clients
      /\ Readers \subseteq Clients /\ \A w \in Writers : w \notin Readers
      /\ DOMAIN i = Readers /\ DOMAIN sent = Readers /\ touched \in [Readers -> BOOLEAN]
  BY SeeingAssumption DEF ArrayInv, ArrayTyped, ReplyInv, ReplyTyped, Clients
<1>a. ArrayTyped
  BY DEF ArrayInv
<1>0. CASE Touch /\ UNCHANGED <<i, sent>>
  BY <1>0, <1>t DEF Touch, ReplyInv, ReplyTyped
<1>1. CASE UNCHANGED <<value, time, position, total, i, sent, touched>> /\ \A r \in Readers : pc'[r] = pc[r]
  <2>1. ASSUME NEW r \in Readers, ~touched[r] PROVE HasSent(r)'
    BY <1>1, <2>1 DEF ReplyInv, HasSent, LinesFrom, LinesRound, LineAt
  <2> QED  BY <1>1, <2>1 DEF ReplyInv, ReplyTyped
<1>2. ASSUME NEW w \in Writers,
             StoreValue(w) \/ StoreTime(w) \/ MovePosition(w) \/ CountValue(w) \/ BackToZero(w)
      PROVE  ReplyInv'
  BY <1>0, <1>2 DEF StoreValue, StoreTime, MovePosition, CountValue, BackToZero
<1>3. ASSUME NEW w \in Writers, Load(w) PROVE ReplyInv'
  BY <1>1, <1>3, <1>t DEF Load, Go
<1>4. ASSUME NEW w \in Writers, Wrap(w) PROVE ReplyInv'
  BY <1>1, <1>4, <1>t DEF Wrap, Go
<1>5. ASSUME NEW t \in Clients, Reset(t) \/ ResetTotal(t) PROVE ReplyInv'
  BY <1>0, <1>5 DEF Reset, ResetTotal
\* A reader is on its own.
<1>r. ASSUME NEW r \in Readers, DOMAIN i' = Readers, DOMAIN sent' = Readers, touched' \in [Readers -> BOOLEAN],
             \A q \in Readers \ {r} : /\ pc'[q] = pc[q] /\ i'[q] = i[q] /\ sent'[q] = sent[q]
                                       /\ touched'[q] = touched[q],
             UNCHANGED <<value, time, position, total>>,
             ~touched'[r] => HasSent(r)'
      PROVE  ReplyInv'
  <2>1. ASSUME NEW q \in Readers, q # r, ~touched[q] PROVE HasSent(q)'
    <3>1. pc'[q] = pc[q] /\ HasSent(q)
      BY <1>r, <1>t, <2>1 DEF ReplyInv
    <3> QED  BY <1>r, <2>1, <3>1 DEF HasSent, LinesFrom, LinesRound, LineAt
  <2> QED  BY <1>r, <2>1 DEF ReplyInv, ReplyTyped
<1>6. ASSUME NEW r \in Readers, Reply(r) PROVE ReplyInv'
  <2>1. PICK to : /\ pc[r] = "idle" /\ pc' = [pc EXCEPT ![r] = to]
                  /\ \/ total <= 0 /\ to = "idle"
                     \/ total \in 1 .. Size /\ to = "all"
                     \/ total > Size /\ to = "oldest"
    BY <1>6 DEF Reply, Go
  <2>2. /\ i' = [i EXCEPT ![r] = 0] /\ sent' = [sent EXCEPT ![r] = <<>>]
        /\ touched' = [touched EXCEPT ![r] = FALSE] /\ UNCHANGED <<value, time, position, total>>
    BY <1>6 DEF Reply
  <2>3. pc'[r] = to /\ i'[r] = 0 /\ sent'[r] = <<>>
    BY <1>t, <2>1, <2>2
  <2>4. LinesFrom(<<>>, 0, 0)'
    BY DEF LinesFrom
  <2>5. HasSent(r)'
    <3>1. CASE total <= 0 /\ to = "idle"
      <4>1. total' = 0 /\ 0 <= Size
        BY <1>t, <2>2, <3>1
      <4> QED  BY <2>3, <2>4, <3>1, <4>1 DEF HasSent
    <3>2. CASE total \in 1 .. Size /\ to = "all"
      <4>1. 0 \in 0 .. total
        BY <3>2
      <4> QED  BY <2>2, <2>3, <2>4, <3>2, <4>1 DEF HasSent
    <3>3. CASE total > Size /\ to = "oldest"
      BY <2>2, <2>3, <3>3 DEF HasSent
    <3> QED  BY <2>1, <3>1, <3>2, <3>3
  <2>6. /\ DOMAIN i' = Readers /\ DOMAIN sent' = Readers /\ touched' \in [Readers -> BOOLEAN]
        /\ \A q \in Readers \ {r} : i'[q] = i[q] /\ sent'[q] = sent[q] /\ touched'[q] = touched[q]
    BY <1>t, <2>2
  <2>7. \A q \in Readers \ {r} : pc'[q] = pc[q]
    BY <1>t, <2>1
  <2> QED  BY <1>r, <2>2, <2>5, <2>6, <2>7
<1>7. ASSUME NEW r \in Readers, FindOldest(r) PROVE ReplyInv'
  <2>1. /\ pc[r] = "oldest" /\ pc' = [pc EXCEPT ![r] = "old"] /\ i' = [i EXCEPT ![r] = position]
        /\ UNCHANGED <<value, time, position, total, sent, touched>>
    BY <1>7 DEF FindOldest, Go
  <2>2. pc'[r] = "old" /\ i'[r] = position
    BY <1>t, <2>1
  <2>3. LinesFrom(<<>>, 0, position)'
    BY DEF LinesFrom
  <2>4. ASSUME ~touched[r] PROVE HasSent(r)'
    <3>1. total > Size /\ sent[r] = <<>>
      BY <2>1, <2>4 DEF ReplyInv, HasSent
    <3>2. position - position = 0 /\ position \in position .. Size
      BY <1>t
    <3> QED  BY <2>1, <2>2, <2>3, <3>1, <3>2 DEF HasSent
  <2>5. /\ DOMAIN i' = Readers /\ \A q \in Readers \ {r} : i'[q] = i[q]
    BY <1>t, <2>1
  <2> QED  BY <1>r, <1>t, <2>1, <2>4, <2>5
<1>8. ASSUME NEW r \in Readers, SendLine(r) PROVE ReplyInv'
  <2>1. /\ pc[r] \in {"all", "old", "new"} /\ i[r] < LoopEnd(r) /\ i' = [i EXCEPT ![r] = i[r] + 1]
        /\ sent' = [sent EXCEPT ![r] = Append(sent[r], LineAt(i[r]))]
        /\ UNCHANGED <<value, time, position, total, touched, pc>>
    BY <1>8 DEF SendLine, LineAt
  <2>2. i'[r] = i[r] + 1 /\ sent'[r] = Append(sent[r], LineAt(i[r]))
    BY <1>t, <2>1
  <2>3. ASSUME ~touched[r] PROVE HasSent(r)'
    <3>0. HasSent(r)
      BY <2>3 DEF ReplyInv
    <3>1. CASE pc[r] = "all"
      <4>1. total \in 1 .. Size /\ i[r] \in Nat /\ i[r] < total /\ LinesFrom(sent[r], i[r], 0)
        BY <2>1, <3>0, <3>1 DEF HasSent, LoopEnd
      <4>2. 0 + i[r] \in 0 .. Size /\ 0 + i[r] = i[r] /\ i[r] + 1 \in 0 .. total
        BY <1>t, <4>1
      <4>3. LinesFrom(sent'[r], i[r] + 1, 0)
        BY <1>a, <2>2, <4>1, <4>2, LineMore
      <4>4. LinesFrom(sent[r], i[r], 0)'
        BY <2>1, <2>2, <4>3 DEF LinesFrom, LineAt
      <4> QED  BY <2>1, <2>2, <3>1, <4>1, <4>2, <4>4 DEF HasSent
    <3>2. CASE pc[r] = "old"
      <4>1. /\ total > Size /\ i[r] \in position .. Size /\ i[r] < Size
            /\ LinesFrom(sent[r], i[r] - position, position)
        BY <2>1, <3>0, <3>2 DEF HasSent, LoopEnd
      <4>2. PICK n \in Nat : n = i[r] - position /\ position + n = i[r] /\ n + 1 = (i[r] + 1) - position
        BY <1>t, <4>1
      <4>7. LinesFrom(sent[r], n, position) /\ position + n \in 0 .. Size /\ position \in Nat
            /\ sent'[r] = Append(sent[r], LineAt(position + n))
        BY <1>t, <2>2, <4>1, <4>2
      <4>3. LinesFrom(sent'[r], n + 1, position)
        BY <1>a, <4>7, LineMore
      <4>4. LinesFrom(sent'[r], i'[r] - position, position)
        BY <2>2, <4>2, <4>3
      <4>5. LinesFrom(sent[r], i[r] - position, position)'
        BY <2>1, <4>4 DEF LinesFrom, LineAt
      <4>6. i'[r] \in position .. Size
        BY <1>t, <2>2, <4>1
      <4> QED  BY <2>1, <3>2, <4>1, <4>5, <4>6 DEF HasSent
    <3>3. CASE pc[r] = "new"
      <4>1. /\ total > Size /\ i[r] \in 0 .. position /\ i[r] < position
            /\ LinesRound(sent[r], Size - position, i[r])
        BY <2>1, <3>0, <3>3 DEF HasSent, LoopEnd
      <4>2. Size - position \in Nat /\ i[r] \in 0 .. Size /\ i'[r] \in 0 .. position
        BY <1>t, <2>2, <4>1
      <4>3. LinesRound(sent'[r], Size - position, i[r] + 1)
        BY <1>a, <2>2, <4>1, <4>2, LineMoreRound
      <4>4. LinesRound(sent[r], Size - position, i[r])'
        BY <2>1, <2>2, <4>3 DEF LinesRound, LineAt
      <4> QED  BY <2>1, <3>3, <4>1, <4>2, <4>4 DEF HasSent
    <3> QED  BY <2>1, <3>1, <3>2, <3>3
  <2>4. /\ DOMAIN i' = Readers /\ DOMAIN sent' = Readers
        /\ \A q \in Readers \ {r} : i'[q] = i[q] /\ sent'[q] = sent[q]
    BY <1>t, <2>1
  <2> QED  BY <1>r, <1>t, <2>1, <2>2, <2>3, <2>4
<1>9. ASSUME NEW r \in Readers, EndLoop(r) PROVE ReplyInv'
  <2>1. /\ pc[r] \in {"all", "old", "new"} /\ i[r] >= LoopEnd(r)
        /\ UNCHANGED <<value, time, position, total, touched, sent>>
    BY <1>9 DEF EndLoop
  <2>2. CASE pc[r] = "old"
    <3>1. pc' = [pc EXCEPT ![r] = "new"] /\ i' = [i EXCEPT ![r] = 0]
      BY <1>9, <2>2 DEF EndLoop, Go
    <3>2. pc'[r] = "new" /\ i'[r] = 0
      BY <1>t, <3>1
    <3>3. ASSUME ~touched[r] PROVE HasSent(r)'
      <4>1. total > Size /\ i[r] \in position .. Size /\ LinesFrom(sent[r], i[r] - position, position)
        BY <2>2, <3>3 DEF ReplyInv, HasSent
      <4>2. i[r] = Size
        BY <1>t, <2>1, <2>2, <4>1 DEF LoopEnd
      <4>3. PICK n \in Nat : n = Size - position /\ Size - n = position /\ n + 0 = n
        BY <1>t
      <4>4. LinesFrom(sent[r], n, position)
        BY <4>1, <4>2, <4>3
      <4>5. LinesRound(sent[r], n, 0)
        BY <4>3, <4>4 DEF LinesFrom, LinesRound
      <4>6. LinesRound(sent[r], Size - position, i[r])'
        BY <2>1, <3>2, <4>3, <4>5 DEF LinesRound, LineAt
      <4>7. 0 \in 0 .. position
        BY <1>t
      <4> QED  BY <2>1, <3>2, <4>1, <4>6, <4>7 DEF HasSent
    <3>4. DOMAIN i' = Readers /\ \A q \in Readers \ {r} : i'[q] = i[q]
      BY <1>t, <3>1
    <3> QED  BY <1>r, <1>t, <2>1, <3>1, <3>3, <3>4
  <2>3. CASE pc[r] # "old"
    <3>1. pc' = [pc EXCEPT ![r] = "idle"] /\ i' = i
      BY <1>9, <2>3 DEF EndLoop, Go
    <3>2. pc'[r] = "idle"
      BY <1>t, <3>1
    <3>3. ASSUME ~touched[r] PROVE HasSent(r)'
      <4>0. HasSent(r)
        BY <3>3 DEF ReplyInv
      <4>1. CASE pc[r] = "all"
        <5>1. total \in 1 .. Size /\ i[r] \in 0 .. total /\ LinesFrom(sent[r], i[r], 0)
          BY <4>0, <4>1 DEF HasSent
        <5>2. i[r] = total /\ total <= Size
          BY <1>t, <2>1, <4>1, <5>1 DEF LoopEnd
        <5>3. LinesFrom(sent[r], total, 0)'
          BY <2>1, <5>1, <5>2 DEF LinesFrom, LineAt
        <5> QED  BY <2>1, <3>2, <5>2, <5>3 DEF HasSent
      <4>2. CASE pc[r] = "new"
        <5>1. total > Size /\ i[r] \in 0 .. position /\ LinesRound(sent[r], Size - position, i[r])
          BY <4>0, <4>2 DEF HasSent
        <5>2. i[r] = position /\ ~(total <= Size)
          BY <1>t, <2>1, <4>2, <5>1 DEF LoopEnd
        <5>3. LinesRound(sent[r], Size - position, position)'
          BY <2>1, <5>1, <5>2 DEF LinesRound, LineAt
        <5> QED  BY <2>1, <3>2, <5>2, <5>3 DEF HasSent
      <4> QED  BY <2>1, <2>3, <4>1, <4>2
    <3> QED  BY <1>r, <1>t, <2>1, <3>1, <3>3
  <2> QED  BY <2>2, <2>3
<1>10. ASSUME NEW r \in Readers, WriteFails(r) PROVE ReplyInv'
  <2>1. /\ pc' = [pc EXCEPT ![r] = "idle"] /\ sent' = [sent EXCEPT ![r] = <<>>]
        /\ touched' = [touched EXCEPT ![r] = TRUE] /\ UNCHANGED <<value, time, position, total, i>>
    BY <1>10 DEF WriteFails, Go
  <2>2. /\ DOMAIN sent' = Readers /\ touched' \in [Readers -> BOOLEAN] /\ touched'[r]
        /\ \A q \in Readers \ {r} : sent'[q] = sent[q] /\ touched'[q] = touched[q]
    BY <1>t, <2>1
  <2> QED  BY <1>r, <1>t, <2>1, <2>2
<1>11. CASE UNCHANGED vars
  BY <1>1, <1>11 DEF vars
<1> QED
  BY <1>2, <1>3, <1>4, <1>5, <1>6, <1>7, <1>8, <1>9, <1>10, <1>11 DEF Next

LEMMA SmallerOf ==
  ASSUME NEW a \in Nat, NEW b \in Nat
  PROVE  Min({a, b}) = IF a <= b THEN a ELSE b
<1> DEFINE m == IF a <= b THEN a ELSE b
<1>1. m \in {a, b} /\ \A y \in {a, b} : m <= y
  OBVIOUS
<1>2. \A x \in {a, b} : (\A y \in {a, b} : x <= y) => x = m
  OBVIOUS
<1> QED  BY <1>1, <1>2 DEF Min

\* A sequence is the function of its elements.
LEMMA SameLines ==
  ASSUME NEW s \in Seq(Lines), NEW n \in Nat, Len(s) = n, NEW f, DOMAIN f = 1 .. n, f = [k \in 1 .. n |-> f[k]],
         \A k \in 1 .. n : s[k] = f[k]
  PROVE  s = f
<1>1. s = [k \in 1 .. n |-> s[k]]
  OBVIOUS
<1> QED  BY <1>1

LEMMA SmallIndex ==
  ASSUME NEW S \in Nat \ {0}, NEW j \in 0 .. S - 1
  PROVE  j % S = j
<1>1. PICK q \in Nat, r \in 0 .. S - 1 : q = j \div S /\ r = j % S /\ j = S * q + r
  BY Divides
<1>2. S * 0 + j = S * q + r
  BY <1>1
<1>3. j = r
  BY <1>1, <1>2, UniqueRemainder
<1> QED  BY <1>1, <1>3

\* Of a number that is a little less than S more than a multiple of S.
LEMMA Remainder ==
  ASSUME NEW S \in Nat \ {0}, NEW q \in Nat, NEW j \in 0 .. S - 1, NEW a \in Nat, a = S * q + j
  PROVE  a % S = j
<1>1. PICK p \in Nat, r \in 0 .. S - 1 : p = a \div S /\ r = a % S /\ a = S * p + r
  BY Divides
<1>2. S * q + j = S * p + r
  BY <1>1
<1>3. j = r
  BY <1>1, <1>2, UniqueRemainder
<1> QED  BY <1>1, <1>3

\* The slot of the k-th of the newest S of n values, when there are more.
LEMMA SlotOf ==
  ASSUME NEW S \in Nat \ {0}, NEW n \in Nat, n > S, NEW p \in 0 .. S - 1, n % S = p, NEW k \in 1 .. S
  PROVE  (n - S + k - 1) % S = IF k <= S - p THEN p + k - 1 ELSE k - (S - p) - 1
<1>1. PICK q \in Nat : n = S * q + p
  BY Divides
<1>2. PICK g \in Nat : q = g + 1
  <2>1. q # 0
    <3>1. S * 0 = 0
      OBVIOUS
    <3>2. q = 0 => n = p
      BY <1>1, <3>1
    <3> QED  BY <3>2
  <2>2. q - 1 \in Nat /\ q = (q - 1) + 1
    BY <1>1, <2>1
  <2> QED  BY <2>2
<1>3. S * (g + 1) = S * g + S /\ S * g \in Nat
  OBVIOUS
<1>4. PICK x \in Nat : x = S * g /\ n = x + S + p /\ S * q = x + S
  BY <1>1, <1>2, <1>3
<1>5. PICK a \in Nat : a = n - S + k - 1
  OBVIOUS
<1>6. CASE k <= S - p
  <2>1. PICK j \in 0 .. S - 1 : j = p + k - 1
    BY <1>6
  <2>2. a = x + j
    BY <1>4, <1>5, <2>1
  <2>3. a = S * g + j
    BY <1>4, <2>2
  <2>4. a % S = j
    BY <2>3, Remainder
  <2> QED  BY <1>5, <1>6, <2>1, <2>4
<1>7. CASE ~(k <= S - p)
  <2>1. PICK j \in 0 .. S - 1 : j = k - (S - p) - 1
    BY <1>7
  <2>2. a = (x + S) + j
    BY <1>4, <1>5, <2>1
  <2>3. a = S * q + j
    BY <1>4, <2>2
  <2>4. a % S = j
    BY <2>3, Remainder
  <2> QED  BY <1>5, <1>7, <2>1, <2>4
<1> QED  BY <1>6, <1>7

\* When the array holds the newest values, the reply is they.
LEMMA QuietFollows == ArrayInv /\ ReplyInv => QuietReply
<1> SUFFICES ASSUME ArrayInv, ReplyInv, NEW r \in Readers, Still, orderly, pc[r] = "idle", ~touched[r]
             PROVE  sent[r] = Newest
  BY DEF QuietReply
<1>1. PICK n \in Nat : n = Len(log)
  BY Slot DEF ArrayInv
<1>2. /\ total = n /\ position = n % Size /\ Size \in Nat \ {0} /\ position \in 0 .. Size - 1
      /\ \A k \in 1 .. n : k > n - Size => value[(k - 1) % Size] = log[k] /\ time[(k - 1) % Size] = log[k]
  <2>1. ArrayHoldsNewest
    BY DEF ArrayInv, Orderly, Resetting, RestOrderly, Fits, Still, ArrayHoldsNewest, Clients
  <2>2. ArrayTyped
    BY DEF ArrayInv
  <2> QED  BY <1>1, <2>1, <2>2, Slot, SeeingAssumption DEF ArrayHoldsNewest
<1>3. PICK s : s = sent[r] /\ IF n <= Size THEN LinesFrom(s, n, 0) ELSE LinesRound(s, Size - position, position)
  BY <1>2 DEF ReplyInv, HasSent
<1>4. PICK m \in Nat : m = Min({n, Size}) /\ m = IF n <= Size THEN n ELSE Size
  BY <1>2, SmallerOf
<1>5. PICK f : f = Newest
  OBVIOUS
<1>6. /\ f = [k \in 1 .. m |-> [time |-> log[n - m + k], value |-> log[n - m + k]]]
      /\ DOMAIN f = 1 .. m /\ f = [k \in 1 .. m |-> f[k]]
      /\ \A k \in 1 .. m : f[k] = [time |-> log[n - m + k], value |-> log[n - m + k]]
  BY <1>1, <1>4, <1>5 DEF Newest
<1>7. ASSUME NEW k \in 1 .. n, k > n - Size, NEW j, (k - 1) % Size = j
      PROVE  LineAt(j) = [time |-> log[k], value |-> log[k]]
  BY <1>2, <1>7 DEF LineAt
<1>8. CASE n <= Size
  <2>1. s \in Seq(Lines) /\ Len(s) = n /\ \A k \in 1 .. n : s[k] = LineAt(0 + k - 1)
    BY <1>3, <1>8 DEF LinesFrom
  <2>2. m = n
    BY <1>4, <1>8
  <2>3. ASSUME NEW k \in 1 .. n PROVE s[k] = f[k]
    <3>1. PICK j \in 0 .. Size - 1 : j = k - 1 /\ 0 + k - 1 = j
      BY <1>2, <1>8
    <3>2. (k - 1) % Size = j
      BY <1>2, <3>1, SmallIndex
    <3>3. k > n - Size /\ n - m + k = k
      BY <1>2, <1>8, <2>2
    <3>4. LineAt(j) = [time |-> log[k], value |-> log[k]]
      BY <1>7, <3>2, <3>3
    <3>5. f[k] = [time |-> log[k], value |-> log[k]]
      BY <1>6, <2>2, <3>3
    <3> QED  BY <2>1, <3>1, <3>4, <3>5
  <2>4. DOMAIN f = 1 .. n /\ f = [k \in 1 .. n |-> f[k]]
    BY <1>6, <2>2
  <2>5. s = f
    BY <2>1, <2>3, <2>4, SameLines
  <2> QED  BY <1>3, <1>5, <2>5
<1>9. CASE ~(n <= Size)
  <2>0. n > Size
    BY <1>2, <1>9
  <2>1. PICK p \in 0 .. Size - 1 : p = position /\ n % Size = p
    BY <1>2
  <2>2. LinesRound(s, Size - p, p)
    BY <1>3, <1>9, <2>1
  <2>3. /\ s \in Seq(Lines) /\ Len(s) = Size - p + p
        /\ \A k \in 1 .. Size - p : s[k] = LineAt(Size - (Size - p) + k - 1)
        /\ \A k \in 1 .. p : s[Size - p + k] = LineAt(k - 1)
    BY <2>2 DEF LinesRound
  <2>4. m = Size
    BY <1>4, <1>9
  <2>5. ASSUME NEW k \in 1 .. Size PROVE s[k] = f[k]
    <3>1. PICK a \in 1 .. n : a = n - Size + k /\ a > n - Size /\ n - m + k = a /\ n - Size + k - 1 = a - 1
      BY <1>2, <2>0, <2>4
    <3>2. f[k] = [time |-> log[a], value |-> log[a]]
      BY <1>6, <2>4, <3>1
    <3>3. (a - 1) % Size = IF k <= Size - p THEN p + k - 1 ELSE k - (Size - p) - 1
      <4>1. Size \in Nat \ {0} /\ n % Size = p
        BY <1>2, <2>1
      <4>2. (n - Size + k - 1) % Size = IF k <= Size - p THEN p + k - 1 ELSE k - (Size - p) - 1
        BY <2>0, <4>1, SlotOf
      <4> QED  BY <3>1, <4>2
    <3>4. CASE k <= Size - p
      <4>1. k \in 1 .. Size - p /\ Size - (Size - p) + k - 1 = p + k - 1
        BY <1>2, <3>4
      <4>2. s[k] = LineAt(p + k - 1)
        BY <2>3, <4>1
      <4>3. (a - 1) % Size = p + k - 1
        BY <3>3, <3>4
      <4>4. LineAt(p + k - 1) = [time |-> log[a], value |-> log[a]]
        BY <1>7, <3>1, <4>3
      <4> QED  BY <3>2, <4>2, <4>4
    <3>5. CASE ~(k <= Size - p)
      <4>1. PICK h \in 1 .. p : h = k - (Size - p) /\ Size - p + h = k
        BY <1>2, <3>5
      <4>2. s[k] = LineAt(h - 1)
        BY <2>3, <4>1
      <4>3. (a - 1) % Size = h - 1
        BY <3>3, <3>5, <4>1
      <4>4. LineAt(h - 1) = [time |-> log[a], value |-> log[a]]
        BY <1>7, <3>1, <4>3
      <4> QED  BY <3>2, <4>2, <4>4
    <3> QED  BY <3>4, <3>5
  <2>6. Len(s) = Size /\ DOMAIN f = 1 .. Size /\ f = [k \in 1 .. Size |-> f[k]]
    <3>1. Size - p + p = Size
      BY <1>2
    <3> QED  BY <1>6, <2>3, <2>4, <3>1
  <2>7. s = f
    BY <1>2, <2>3, <2>5, <2>6, SameLines
  <2> QED  BY <1>3, <1>5, <2>7
<1> QED  BY <1>8, <1>9

\* A reply that no store and no reset came between has the newest values, as
\* many as the array has slots, the oldest first and each with its time,
\* wherever the array has come round to (Info_SeeingArray.c).
THEOREM QuietReplyIsRight == SingleWriter => (Spec => []QuietReply)
<1> SUFFICES ASSUME SingleWriter PROVE Spec => []QuietReply
  OBVIOUS
<1>1. ArrayInv /\ ReplyInv /\ [Next]_vars => (ArrayInv /\ ReplyInv)'
  BY StepArray, StepReply
<1> QED  BY <1>1, InitArray, InitReply, QuietFollows, PTL DEF Spec
-----------------------------------------------------------------------------
(* Commands: what is noted in the list.                                    *)

\* What is noted of an exchange is what the PCR does of what the list shows.
Honest(s) ==
  /\ DOMAIN s.notes \subseteq DOMAIN s.does /\ \A p \in DOMAIN s.notes : s.notes[p] = s.does[p]
  /\ DOMAIN s.does \cap DOMAIN Idle \subseteq DOMAIN s.notes
  /\ s.skip \in Nat

LEMMA HonestSend ==
  ASSUME NEW does, NEW s, s.does = does, s.notes = does, s.skip \in Nat PROVE Honest(s)
BY DEF Honest

LEMMA HonestSends == ASSUME NEW does PROVE Honest(Send(does))
BY HonestSend DEF Send

LEMMA OneStep == ASSUME NEW s, Honest(s), NEW k \in 1 .. Len(<<s>>) PROVE Honest(<<s>>[k])
<1>1. k = 1 /\ <<s>>[1] = s
  OBVIOUS
<1> QED  BY <1>1

LEMMA TwoSteps == ASSUME NEW s, NEW z, Honest(s), Honest(z), NEW k \in 1 .. Len(<<s, z>>) PROVE Honest(<<s, z>>[k])
<1>1. (k = 1 \/ k = 2) /\ <<s, z>>[1] = s /\ <<s, z>>[2] = z
  OBVIOUS
<1> QED  BY <1>1

LEMMA ThreeSteps ==
  ASSUME NEW s, NEW z, NEW e, Honest(s), Honest(z), Honest(e), NEW k \in 1 .. Len(<<s, z, e>>)
  PROVE  Honest(<<s, z, e>>[k])
<1>1. (k = 1 \/ k = 2 \/ k = 3) /\ <<s, z, e>>[1] = s /\ <<s, z, e>>[2] = z /\ <<s, z, e>>[3] = e
  OBVIOUS
<1> QED  BY <1>1

LEMMA HonestSimply == ASSUME NEW does, NEW k \in 1 .. Len(Simply(does)) PROVE Honest(Simply(does)[k])
<1>1. Honest(Send(does))
  BY HonestSends
<1> QED  BY <1>1, OneStep DEF Simply

LEMMA HonestCamera == ASSUME NEW source PROVE Honest(Camera(source))
<1>1. PICK does : does = [Source |-> source, Initialized |-> TRUE]
  OBVIOUS
<1>2. /\ Camera(source).does = does /\ Camera(source).notes = does /\ Camera(source).skip \in Nat
  BY <1>1 DEF Camera, Send
<1> QED  BY <1>2, HonestSend

LEMMA HonestBin ==
  ASSUME NEW unless, NEW skip \in Nat
  PROVE  /\ Honest(Bin) /\ Honest([Bin EXCEPT !.unless = unless])
         /\ Honest([Bin EXCEPT !.unless = unless, !.skip = skip])
<1>1. PICK does : does = [Size |-> "Bin"]
  OBVIOUS
<1>2. ASSUME NEW s, s = Bin PROVE Honest(s)
  <2>1. s.does = does /\ s.notes = does /\ s.skip \in Nat
    BY <1>1, <1>2 DEF Bin, Send
  <2> QED  BY <2>1, HonestSend
<1>3. ASSUME NEW s, s = [Bin EXCEPT !.unless = unless] PROVE Honest(s)
  <2>1. s.does = does /\ s.notes = does /\ s.skip \in Nat
    BY <1>1, <1>3 DEF Bin, Send
  <2> QED  BY <2>1, HonestSend
<1>4. ASSUME NEW s, s = [Bin EXCEPT !.unless = unless, !.skip = skip] PROVE Honest(s)
  <2>1. s.does = does /\ s.notes = does /\ s.skip \in Nat
    BY <1>1, <1>4 DEF Bin, Send
  <2> QED  BY <2>1, HonestSend
<1> QED  BY <1>2, <1>3, <1>4

LEMMA HonestOpen ==
  ASSUME NEW unless, NEW fatal
  PROVE  /\ Honest([Open EXCEPT !.unless = unless]) /\ Honest([Open EXCEPT !.fatal = fatal]) /\ Honest(ZeroGain)
<1>1. PICK does : does = [Loop |-> FALSE]
  OBVIOUS
<1>2. ASSUME NEW s, s = [Open EXCEPT !.unless = unless] PROVE Honest(s)
  <2>1. s.does = does /\ s.notes = does /\ s.skip \in Nat
    BY <1>1, <1>2 DEF Open, Send
  <2> QED  BY <2>1, HonestSend
<1>3. ASSUME NEW s, s = [Open EXCEPT !.fatal = fatal] PROVE Honest(s)
  <2>1. s.does = does /\ s.notes = does /\ s.skip \in Nat
    BY <1>1, <1>3 DEF Open, Send
  <2> QED  BY <2>1, HonestSend
<1>4. Honest(ZeroGain)
  BY HonestSends DEF ZeroGain
<1> QED  BY <1>2, <1>3, <1>4

\* Nobody is shown the picture of the background.
LEMMA HonestBackground == Honest([Send([Background |-> "new"]) EXCEPT !.notes = <<>>])
<1>1. PICK s : s = [Send([Background |-> "new"]) EXCEPT !.notes = <<>>]
  OBVIOUS
<1>2. PICK does : does = [Background |-> "new"]
  OBVIOUS
<1>3. s.does = does /\ s.notes = <<>> /\ s.skip \in Nat
  BY <1>1, <1>2 DEF Send
<1>4. DOMAIN s.notes = {}
  <2>1. DOMAIN <<>> = {}
    OBVIOUS
  <2> QED  BY <1>3, <2>1
<1>5. "Background" \notin DOMAIN Idle
  BY DEF Idle
<1> QED  BY <1>1, <1>2, <1>3, <1>4, <1>5 DEF Honest

LEMMA HonestUnheard == Honest([Send([Save |-> TRUE]) EXCEPT !.answered = FALSE])
<1>1. PICK s : s = [Send([Save |-> TRUE]) EXCEPT !.answered = FALSE]
  OBVIOUS
<1>2. PICK does : does = [Save |-> TRUE]
  OBVIOUS
<1>3. s.does = does /\ s.notes = does /\ s.skip \in Nat
  BY <1>1, <1>2 DEF Send
<1> QED  BY <1>1, <1>3, HonestSend

\* Every exchange of every command is of that kind.
LEMMA HonestProgram ==
  ASSUME NEW name \in CommandNames, NEW k \in 1 .. Len(Program(name))
  PROVE  Honest(Program(name)[k])
<1> USE HonestSends, HonestSimply, OneStep, TwoSteps, ThreeSteps
<1>1. CASE name = "cam_test"
  <2>1. Program(name) = <<Camera("Test"), [Bin EXCEPT !.unless = "sized"]>>
    BY <1>1 DEF Program, Cam_Test, UntoldGains, UntoldTaps, UntoldVectors
  <2> QED  BY <2>1, HonestCamera, HonestBin
<1>2. CASE name = "cam_image"
  <2>1. PICK s, z, e : /\ s = Camera("Camera") /\ z = [Bin EXCEPT !.unless = "full_or_bin", !.skip = 2]
                       /\ e = Send([Rate |-> 550])
    OBVIOUS
  <2>2. Honest(s) /\ Honest(z) /\ Honest(e)
    BY <2>1, HonestCamera, HonestBin
  <2>3. Program(name) = <<s, z, e>>
    BY <1>2, <2>1 DEF Program, Cam_Image, UntoldGains, UntoldTaps, UntoldVectors
  <2> QED  BY <2>2, <2>3
<1>3. CASE name = "cam_bin"
  <2>1. Program(name) = <<Bin>>
    BY <1>3 DEF Program, UntoldGains, UntoldTaps, UntoldVectors
  <2> QED  BY <2>1, HonestBin
<1>4. CASE name = "cam_stop"
  <2>1. Program(name) = <<[Open EXCEPT !.unless = "open"], Send([Running |-> FALSE])>>
    BY <1>4 DEF Program, Cam_Stop, UntoldGains, UntoldTaps, UntoldVectors
  <2> QED  BY <2>1, HonestOpen
<1>5. CASE name = "loop_close"
  <2>1. Program(name) = <<ZeroGain, Send([Loop |-> TRUE])>>
    BY <1>5 DEF Program, Loop_Close, UntoldGains, UntoldTaps, UntoldVectors
  <2> QED  BY <2>1, HonestOpen
<1>6. CASE name = "loop_open"
  <2>1. Program(name) = <<[Open EXCEPT !.fatal = TRUE], ZeroGain>>
    BY <1>6 DEF Program, Loop_Open, UntoldGains, UntoldTaps, UntoldVectors
  <2> QED  BY <2>1, HonestOpen
<1>7. CASE name = "cam_bg_set"
  <2>1. Program(name) = <<[Send([Background |-> "new"]) EXCEPT !.notes = <<>>], Send([Bg |-> TRUE])>>
    BY <1>7 DEF Program, Cam_BgSet, UntoldGains, UntoldTaps, UntoldVectors
  <2> QED  BY <2>1, HonestBackground
<1>8. CASE name = "dm_cmd"
  <2>1. Program(name) = <<[Send([Save |-> TRUE]) EXCEPT !.answered = FALSE]>>
    BY <1>8 DEF Program, Dm_Cmd, UntoldGains, UntoldTaps, UntoldVectors
  <2> QED  BY <2>1, HonestUnheard
<1>9. CASE name \in UntoldGains \cup UntoldTaps \cup UntoldVectors
  <2>1. Program(name) = <<Send(<<>>)>>
    BY <1>9 DEF Program, UntoldGains, UntoldTaps, UntoldVectors
  <2> QED  BY <2>1
<1>10. CASE name = "nothing"
  <2>1. Program(name) = <<>> /\ Len(<<>>) = 0
    BY <1>10 DEF Program, UntoldGains, UntoldTaps, UntoldVectors
  <2> QED  BY <2>1
<1>11. CASE name \in {"cam_full", "cam_bias_set", "cam_rate_set", "recon_set", "cam_start", "loop_gain"}
  <2>1. PICK does : Program(name) = Simply(does)
    BY <1>11 DEF Program, Cam_Full, Cam_Bias, Cam_Rate, Recon, Loop_Gain, UntoldGains, UntoldTaps, UntoldVectors
  <2> QED  BY <2>1
<1>12. CASE name \in {"cam_bg_on", "cam_bg_off", "cam_dynamic_on", "cam_dynamic_off", "slope_offset_set"}
  <2>1. PICK does : Program(name) = Simply(does)
    BY <1>12 DEF Program, Bg, Dynamic, UntoldGains, UntoldTaps, UntoldVectors
  <2> QED  BY <2>1
<1> QED
  BY <1>1, <1>2, <1>3, <1>4, <1>5, <1>6, <1>7, <1>8, <1>9, <1>10, <1>11, <1>12 DEF CommandNames

LEMMA ProgramLength == ASSUME NEW name \in CommandNames PROVE Len(Program(name)) \in Nat
<1>1. ASSUME NEW does PROVE Len(Simply(does)) = 1
  BY DEF Simply
<1>2. \/ Program(name) \in {Cam_Test, Cam_Image, <<Bin>>, Cam_Stop, Loop_Close, Loop_Open, Cam_BgSet, Dm_Cmd,
                            <<Send(<<>>)>>, <<>>}
      \/ \E does : Program(name) = Simply(does)
  BY DEF Program, CommandNames, UntoldGains, UntoldTaps, UntoldVectors, Cam_Full, Cam_Bias, Cam_Rate, Recon,
         Loop_Gain, Bg, Dynamic
<1>3. \A z \in {Cam_Test, Cam_Image, <<Bin>>, Cam_Stop, Loop_Close, Loop_Open, Cam_BgSet, Dm_Cmd,
                <<Send(<<>>)>>, <<>>} : Len(z) \in Nat
  BY DEF Cam_Test, Cam_Image, Cam_Stop, Loop_Close, Loop_Open, Cam_BgSet, Dm_Cmd
<1> QED  BY <1>1, <1>2, <1>3

-----------------------------------------------------------------------------
(* The list follows.                                                       *)

CommandsTyped ==
  /\ command \in [Commanders -> [at : {"read", "decide", "ask", "note"}, name : CommandNames,
                                 i : Nat \ {0}, ok : BOOLEAN, clean : BOOLEAN]]
  /\ \A c \in Commanders : command[c].at \in {"ask", "note"} => command[c].i \in 1 .. Len(Program(command[c].name))
  /\ DOMAIN list = DOMAIN Idle /\ DOMAIN pcr = DOMAIN Idle \cup {"Background"}
  /\ (poll = Nothing \/ DOMAIN poll = Polled) /\ alarm \in BOOLEAN

\* Unless p is muddled, all who are about to note something of it note what the
\* PCR does; and when there is none, the list has it.
Noting(d, p) == command[d].at = "note" /\ p \in DOMAIN Notes(d)
Told(p) ==
  /\ \A d \in Commanders : Noting(d, p) => Notes(d)[p] = pcr[p]
  /\ p \in DOMAIN poll => poll[p] = pcr[p]
  /\ alarm /\ p \in DOMAIN Opened => pcr[p] = Opened[p]
  /\ p \notin Others \cup DOMAIN poll => list[p] = pcr[p]

ListInv == CommandsTyped /\ \A p \in DOMAIN Idle \ muddled : Told(p)

LEMMA StepIsHonest ==
  ASSUME CommandsTyped, NEW c \in Commanders, command[c].at \in {"ask", "note"} PROVE Honest(Step(c))
<1>1. command[c].name \in CommandNames /\ command[c].i \in 1 .. Len(Program(command[c].name))
  BY DEF CommandsTyped
<1> QED  BY <1>1, HonestProgram DEF Step

LEMMA DomainUpdate == ASSUME NEW f, NEW g PROVE DOMAIN Update(f, g) = DOMAIN f
BY DEF Update

LEMMA ValueUpdate ==
  ASSUME NEW f, NEW g, NEW p \in DOMAIN f PROVE Update(f, g)[p] = IF p \in DOMAIN g THEN g[p] ELSE f[p]
BY DEF Update

LEMMA InitList == Commands_Init => ListInv
<1> SUFFICES ASSUME Commands_Init PROVE ListInv
  OBVIOUS
<1>1. PICK start \in {Idle, AtWork} :
        /\ list = start
        /\ pcr = [p \in DOMAIN start \cup {"Background"} |-> IF p = "Background" THEN "old" ELSE start[p]]
  BY DEF Commands_Init
<1>2. DOMAIN start = DOMAIN Idle /\ "Background" \notin DOMAIN Idle
  BY DEF Idle, AtWork
<1>3. /\ command = [c \in Commanders |-> Waits] /\ poll = Nothing /\ alarm = FALSE
  BY DEF Commands_Init
<1>4. Waits \in [at : {"read", "decide", "ask", "note"}, name : CommandNames, i : Nat \ {0}, ok : BOOLEAN, clean : BOOLEAN]
      /\ Waits.at = "read"
  BY DEF Waits, CommandNames
<1>5. CommandsTyped
  <2>1. DOMAIN list = DOMAIN Idle /\ DOMAIN pcr = DOMAIN Idle \cup {"Background"}
    BY <1>1, <1>2
  <2>2. \A c \in Commanders : command[c].at = "read"
    BY <1>3, <1>4
  <2> QED  BY <1>3, <1>4, <2>1, <2>2 DEF CommandsTyped
<1>6. ASSUME NEW p \in DOMAIN Idle PROVE Told(p)
  <2>1. list[p] = pcr[p]
    BY <1>1, <1>2, <1>6
  <2>2. \A d \in Commanders : command[d].at = "read"
    BY <1>3, <1>4
  <2>3. DOMAIN poll = {}
    BY <1>3 DEF Nothing
  <2> QED  BY <1>3, <2>1, <2>2, <2>3 DEF Told, Noting
<1> QED  BY <1>5, <1>6 DEF ListInv

\* What a thread is at, whether or not it is disturbed.
Place(r) == <<r.at, r.name, r.i, r.ok>>
CommandRecords ==
  [at : {"read", "decide", "ask", "note"}, name : CommandNames, i : Nat \ {0}, ok : BOOLEAN, clean : BOOLEAN]
Sound(r) == r \in CommandRecords /\ (r.at \in {"ask", "note"} => r.i \in 1 .. Len(Program(r.name)))

LEMMA SamePlace ==
  ASSUME NEW r, NEW s, Place(r) = Place(s) PROVE r.at = s.at /\ r.name = s.name /\ r.i = s.i /\ r.ok = s.ok
BY DEF Place

\* What becomes of d when c, which is at r then, disturbs the others.
DisturbedAt(c, r, d) ==
  /\ Sound(Disturbed(c, r)[d])
  /\ IF d = c THEN Disturbed(c, r)[d] = r ELSE Place(Disturbed(c, r)[d]) = Place(command[d])

LEMMA DisturbedIs ==
  ASSUME CommandsTyped, NEW c \in Commanders, NEW r, Sound(r), NEW d \in Commanders
  PROVE  DisturbedAt(c, r, d)
<1>1. Disturbed(c, r)[d] = IF d = c THEN r ELSE [command[d] EXCEPT !.clean = FALSE]
  BY DEF Disturbed
<1>2. PICK s \in CommandRecords : s = command[d] /\ Sound(s)
  BY DEF CommandsTyped, Sound, CommandRecords
<1>3. PICK z : z = [s EXCEPT !.clean = FALSE]
  OBVIOUS
<1>4. z \in CommandRecords /\ z.at = s.at /\ z.name = s.name /\ z.i = s.i /\ z.ok = s.ok
  BY <1>3 DEF CommandRecords
<1>5. Sound(z) /\ Place(z) = Place(s)
  BY <1>2, <1>4 DEF Sound, Place
<1> QED  BY <1>1, <1>2, <1>3, <1>5 DEF DisturbedAt

\* A thread takes a step.
Moves(c) ==
  \E r : /\ Sound(r) /\ command' \in [Commanders -> CommandRecords] /\ command'[c] = r
         /\ \A d \in Commanders \ {c} : Sound(command'[d]) /\ Place(command'[d]) = Place(command[d])

LEMMA MovesByExcept ==
  ASSUME CommandsTyped, NEW c \in Commanders, NEW r, Sound(r), command' = [command EXCEPT ![c] = r]
  PROVE  Moves(c) /\ command'[c] = r
BY DEF CommandsTyped, Moves, Sound, CommandRecords

LEMMA MovesAndDisturbs ==
  ASSUME CommandsTyped, NEW c \in Commanders, NEW r, Sound(r), command' = Disturbed(c, r)
  PROVE  Moves(c) /\ command'[c] = r
<1>1. ASSUME NEW d \in Commanders
      PROVE  /\ Sound(command'[d])
             /\ d = c => command'[d] = r
             /\ d # c => Place(command'[d]) = Place(command[d])
  <2>1. DisturbedAt(c, r, d)
    BY DisturbedIs
  <2> QED  BY <2>1 DEF DisturbedAt
<1>2. command'[c] = r
  BY DEF Disturbed
<1>3. command' \in [Commanders -> CommandRecords]
  <2>1. command' = [d \in Commanders |-> command'[d]]
    BY DEF Disturbed
  <2>2. \A d \in Commanders : command'[d] \in CommandRecords
    BY <1>1 DEF Sound
  <2> QED  BY <2>1, <2>2
<1> QED  BY <1>1, <1>2, <1>3 DEF Moves

\* The step of one thread, and what it leaves at.
LEMMA CommandSteps ==
  ASSUME CommandsTyped, NEW c \in Commanders
  PROVE  /\ Commence(c) => Moves(c) /\ command'[c].at = "decide"
         /\ Decide(c) => Moves(c) /\ command'[c].at \in {"decide", "ask"}
         /\ Finish(c) => Moves(c) /\ command'[c].at = "read"
         /\ Ask(c) => Moves(c) /\ command'[c].at = "note" /\ Notes(c)' = Step(c).notes
         /\ Ask_Fails(c) => Moves(c) /\ command'[c].at = "note" /\ Notes(c)' = Step(c).fails
         /\ Ask_Unheard(c) => Moves(c) /\ command'[c].at = "note" /\ Notes(c)' = Step(c).notes
         /\ Note(c) => Moves(c) /\ command'[c].at = "decide"
<1>1. PICK r \in CommandRecords : r = command[c] /\ Sound(r)
  BY DEF CommandsTyped, Sound, CommandRecords
<1>w. /\ Sound(Waits) /\ Waits.at = "read"
  BY DEF Sound, CommandRecords, Waits, CommandNames
<1>2. ASSUME Commence(c) PROVE Moves(c) /\ command'[c].at = "decide"
  <2>1. PICK name \in Commanded : command' = [command EXCEPT ![c] = [Waits EXCEPT !.at = "decide", !.name = name, !.clean = Alone(c)]]
    BY <1>2 DEF Commence
  <2>2. PICK b \in BOOLEAN : b = Alone(c)
    BY DEF Alone
  <2>3. PICK s : s = [Waits EXCEPT !.at = "decide", !.name = name, !.clean = Alone(c)]
    OBVIOUS
  <2>4. s = [at |-> "decide", name |-> name, i |-> 1, ok |-> TRUE, clean |-> b]
    BY <2>2, <2>3 DEF Waits
  <2>5. s \in CommandRecords /\ s.at = "decide"
    BY <2>4, CommandsAssumption DEF CommandRecords
  <2> QED  BY <2>1, <2>3, <2>5, MovesByExcept DEF Sound
<1>3. ASSUME Decide(c) PROVE Moves(c) /\ command'[c].at \in {"decide", "ask"}
  <2>1. /\ r.at = "decide" /\ r.i <= Len(Program(r.name))
        /\ command' = [command EXCEPT ![c] = IF Shown(Step(c).unless) THEN [r EXCEPT !.i = @ + Step(c).skip]
                                             ELSE [r EXCEPT !.at = "ask"]]
    BY <1>1, <1>3 DEF Decide
  <2>2. CASE Shown(Step(c).unless)
    <3>1. Step(c).skip \in Nat
      <4>1. r.name \in CommandNames /\ r.i \in 1 .. Len(Program(r.name))
        BY <1>1, <2>1 DEF CommandRecords
      <4> QED  BY <1>1, <4>1, HonestProgram DEF Step, Honest
    <3>2. PICK n \in Nat \ {0} : n = r.i + Step(c).skip
      BY <1>1, <3>1 DEF CommandRecords
    <3>3. PICK s : s = [r EXCEPT !.i = @ + Step(c).skip]
      OBVIOUS
    <3>4. s = [r EXCEPT !.i = n]
      BY <3>2, <3>3
    <3>5. s \in CommandRecords /\ s.at = "decide"
      BY <2>1, <3>4 DEF CommandRecords
    <3> QED  BY <2>1, <2>2, <3>3, <3>5, MovesByExcept DEF Sound
  <2>3. CASE ~Shown(Step(c).unless)
    <3>1. PICK s : s = [r EXCEPT !.at = "ask"]
      OBVIOUS
    <3>2. s \in CommandRecords /\ s.at = "ask" /\ s.i = r.i /\ s.name = r.name
      BY <3>1 DEF CommandRecords
    <3>3. Sound(s)
      BY <2>1, <3>2 DEF Sound, CommandRecords
    <3> QED  BY <2>1, <2>3, <3>1, <3>2, <3>3, MovesByExcept
  <2> QED  BY <2>2, <2>3
<1>4. ASSUME Finish(c) PROVE Moves(c) /\ command'[c].at = "read"
  BY <1>4, <1>w, MovesByExcept DEF Finish
<1>5. ASSUME NEW ok \in BOOLEAN, NEW clean \in BOOLEAN, r.at = "ask", NEW s,
             s = [r EXCEPT !.at = "note", !.ok = ok, !.clean = clean]
      PROVE  Sound(s) /\ s.at = "note" /\ s.ok = ok /\ s.name = r.name /\ s.i = r.i
  <2>1. s \in CommandRecords /\ s.at = "note" /\ s.i = r.i /\ s.name = r.name /\ s.ok = ok
    BY <1>5 DEF CommandRecords
  <2> QED  BY <1>1, <1>5, <2>1 DEF Sound
<1>c. r.clean \in BOOLEAN
  BY DEF CommandRecords
<1>6. ASSUME Ask(c) PROVE Moves(c) /\ command'[c].at = "note" /\ Notes(c)' = Step(c).notes
  <2>1. PICK s : s = [r EXCEPT !.at = "note", !.ok = TRUE] /\ command' = Disturbed(c, s) /\ r.at = "ask"
    BY <1>1, <1>6 DEF Ask
  <2>2. s = [r EXCEPT !.at = "note", !.ok = TRUE, !.clean = r.clean]
    BY <2>1 DEF CommandRecords
  <2>3. Sound(s) /\ s.at = "note" /\ s.ok = TRUE /\ s.name = r.name /\ s.i = r.i
    BY <1>5, <1>c, <2>1, <2>2
  <2>4. Moves(c) /\ command'[c] = s
    BY <2>1, <2>3, MovesAndDisturbs
  <2> QED  BY <1>1, <2>3, <2>4 DEF Notes, Step
<1>7. ASSUME Ask_Fails(c) PROVE Moves(c) /\ command'[c].at = "note" /\ Notes(c)' = Step(c).fails
  <2>1. PICK s : s = [r EXCEPT !.at = "note", !.ok = FALSE, !.clean = FALSE] /\ command' = Disturbed(c, s) /\ r.at = "ask"
    BY <1>1, <1>7 DEF Ask_Fails
  <2>3. Sound(s) /\ s.at = "note" /\ s.ok = FALSE /\ s.name = r.name /\ s.i = r.i
    BY <1>5, <2>1
  <2>4. Moves(c) /\ command'[c] = s
    BY <2>1, <2>3, MovesAndDisturbs
  <2> QED  BY <1>1, <2>3, <2>4 DEF Notes, Step
<1>8. ASSUME Ask_Unheard(c) PROVE Moves(c) /\ command'[c].at = "note" /\ Notes(c)' = Step(c).notes
  <2>0. /\ r.at = "ask" /\ command' = [command EXCEPT ![c].at = "note", ![c].ok = TRUE, ![c].clean = FALSE]
    BY <1>1, <1>8 DEF Ask_Unheard
  <2>1. PICK s : s = [r EXCEPT !.at = "note", !.ok = TRUE, !.clean = FALSE]
    OBVIOUS
  <2>2. command' = [command EXCEPT ![c] = s]
    BY <1>1, <2>0, <2>1 DEF CommandsTyped, CommandRecords
  <2>3. Sound(s) /\ s.at = "note" /\ s.ok = TRUE /\ s.name = r.name /\ s.i = r.i
    BY <1>5, <2>0, <2>1
  <2>4. Moves(c) /\ command'[c] = s
    BY <2>2, <2>3, MovesByExcept
  <2> QED  BY <1>1, <2>3, <2>4 DEF Notes, Step
<1>9. ASSUME Note(c) PROVE Moves(c) /\ command'[c].at = "decide"
  <2>1. PICK n : n = IF ~r.ok /\ Step(c).fatal THEN Len(Program(r.name)) + 1 ELSE r.i + 1
    OBVIOUS
  <2>2. n \in Nat \ {0}
    <3>1. r.at = "note"
      BY <1>1, <1>9 DEF Note
    <3>2. r.i \in Nat /\ r.i \in 1 .. Len(Program(r.name))
      BY <1>1, <3>1 DEF Sound, CommandRecords
    <3>3. r.i + 1 \in Nat \ {0}
      BY <3>2
    <3>4. Len(Program(r.name)) \in Nat => Len(Program(r.name)) + 1 \in Nat \ {0}
      OBVIOUS
    <3>5. Len(Program(r.name)) \in Nat
      BY <1>1, ProgramLength DEF CommandRecords
    <3> QED  BY <2>1, <3>3, <3>4, <3>5
  <2>3. command' = [command EXCEPT ![c].at = "decide", ![c].i = n]
    BY <1>1, <1>9, <2>1 DEF Note
  <2>4. PICK s : s = [r EXCEPT !.at = "decide", !.i = n]
    OBVIOUS
  <2>5. command' = [command EXCEPT ![c] = s]
    BY <1>1, <2>3, <2>4 DEF CommandsTyped, CommandRecords
  <2>6. s \in CommandRecords /\ s.at = "decide"
    BY <2>2, <2>4 DEF CommandRecords
  <2> QED  BY <2>5, <2>6, MovesByExcept DEF Sound
<1> QED  BY <1>2, <1>3, <1>4, <1>6, <1>7, <1>8, <1>9

LEMMA InNoted ==
  ASSUME NEW threads, NEW p
  PROVE  p \in NotedBy(threads) <=> \E d \in threads : Noting(d, p)
BY Zenon DEF NotedBy, Noting

LEMMA InAlarm == ASSUME NEW p PROVE p \in Alarmed <=> alarm /\ p \in DOMAIN Opened
BY DEF Alarmed

LEMMA InOthers ==
  ASSUME NEW p
  PROVE  p \in Others <=> (\E d \in Commanders : Noting(d, p)) \/ (alarm /\ p \in DOMAIN Opened)
<1>1. p \in Others <=> p \in NotedBy(Commanders) \/ p \in Alarmed
  BY DEF Others
<1> QED  BY <1>1, InNoted, InAlarm

LEMMA InTheAir ==
  ASSUME NEW c, NEW p
  PROVE  p \in InFlight(c) <=> \/ \E d \in Commanders \ {c} : Noting(d, p)
                               \/ p \in DOMAIN poll
                               \/ alarm /\ p \in DOMAIN Opened
<1>1. p \in InFlight(c) <=> p \in NotedBy(Commanders \ {c}) \/ p \in DOMAIN poll \/ p \in Alarmed
  BY DEF InFlight
<1> QED  BY <1>1, InNoted, InAlarm

\* A thread that stays at its place is about to note what it was.
LEMMA SameNotes ==
  ASSUME NEW d \in Commanders, Place(command'[d]) = Place(command[d])
  PROVE  Notes(d)' = Notes(d) /\ \A p : Noting(d, p)' <=> Noting(d, p)
<1>1. /\ command'[d].at = command[d].at /\ command'[d].name = command[d].name
      /\ command'[d].i = command[d].i /\ command'[d].ok = command[d].ok
  BY SamePlace
<1>2. Notes(d)' = Notes(d)
  BY <1>1 DEF Notes, Step
<1> QED  BY <1>1, <1>2 DEF Noting

LEMMA StepTyped == CommandsTyped /\ [Commands_Next]_commandVars => CommandsTyped'
<1> SUFFICES ASSUME CommandsTyped, [Commands_Next]_commandVars PROVE CommandsTyped'
  OBVIOUS
<1>1. ASSUME NEW c \in Commanders, Moves(c),
             DOMAIN list' = DOMAIN list, DOMAIN pcr' = DOMAIN pcr, UNCHANGED <<poll, alarm>>
      PROVE  CommandsTyped'
  <2>1. command' \in [Commanders -> CommandRecords] /\ \A d \in Commanders : Sound(command'[d])
    BY <1>1 DEF Moves
  <2> QED  BY <1>1, <2>1 DEF CommandsTyped, Sound, CommandRecords
<1>2. ASSUME NEW c \in Commanders,
             Commence(c) \/ Decide(c) \/ Finish(c) \/ Ask(c) \/ Ask_Fails(c) \/ Ask_Unheard(c) \/ Note(c)
      PROVE  CommandsTyped'
  <2>1. Moves(c)
    BY <1>2, CommandSteps
  <2>2. /\ \/ list' = list
           \/ list' = Update(list, Notes(c))
        /\ \/ pcr' = pcr
           \/ pcr' = Update(pcr, Step(c).does)
        /\ UNCHANGED <<poll, alarm>>
    BY <1>2 DEF Commence, Decide, Finish, Ask, Ask_Fails, Ask_Unheard, Note
  <2> QED  BY <1>1, <2>1, <2>2, DomainUpdate
<1>3. ASSUME UNCHANGED command \/ command' = [d \in Commanders |-> [command[d] EXCEPT !.clean = FALSE]],
             DOMAIN list' = DOMAIN list, DOMAIN pcr' = DOMAIN pcr,
             poll' = Nothing \/ DOMAIN poll' = Polled, alarm' \in BOOLEAN
      PROVE  CommandsTyped'
  <2>1. CASE UNCHANGED command
    BY <1>3, <2>1 DEF CommandsTyped
  <2>2. CASE command' = [d \in Commanders |-> [command[d] EXCEPT !.clean = FALSE]]
    <3>1. ASSUME NEW d \in Commanders PROVE Sound(command'[d])
      <4>1. PICK s \in CommandRecords : s = command[d] /\ Sound(s)
        BY DEF CommandsTyped, Sound, CommandRecords
      <4>2. PICK z : z = [s EXCEPT !.clean = FALSE] /\ command'[d] = z
        BY <2>2, <4>1
      <4>3. z \in CommandRecords /\ z.at = s.at /\ z.name = s.name /\ z.i = s.i
        BY <4>2 DEF CommandRecords
      <4> QED  BY <4>1, <4>2, <4>3 DEF Sound
    <3>2. command' \in [Commanders -> CommandRecords]
      <4>1. command' = [d \in Commanders |-> command'[d]]
        BY <2>2
      <4> QED  BY <3>1, <4>1 DEF Sound
    <3> QED  BY <1>3, <3>1, <3>2 DEF CommandsTyped, Sound, CommandRecords
  <2> QED  BY <1>3, <2>1, <2>2
<1>4. CASE Status_Read
  <2>1. DOMAIN poll' = Polled /\ UNCHANGED <<pcr, list, command, alarm>>
    BY <1>4 DEF Status_Read
  <2> QED  BY <1>3, <2>1 DEF CommandsTyped
<1>5. CASE Status_UpdateParameters
  <2>1. poll' = Nothing /\ list' = Update(list, poll) /\ UNCHANGED <<pcr, command, alarm>>
    BY <1>5 DEF Status_UpdateParameters
  <2> QED  BY <1>3, <2>1, DomainUpdate DEF CommandsTyped
<1>6. CASE PCR_Opens
  <2>1. /\ pcr' = Update(pcr, Opened) /\ command' = [d \in Commanders |-> [command[d] EXCEPT !.clean = FALSE]]
        /\ alarm' = TRUE \/ alarm' = alarm
        /\ UNCHANGED <<list, poll>>
    BY <1>6 DEF PCR_Opens
  <2>2. alarm' \in BOOLEAN /\ (poll' = Nothing \/ DOMAIN poll' = Polled)
    BY <2>1 DEF CommandsTyped
  <2> QED  BY <1>3, <2>1, <2>2, DomainUpdate
<1>7. CASE Error_Master
  <2>1. alarm' = FALSE /\ list' = Update(list, Opened) /\ UNCHANGED <<pcr, command, poll>>
    BY <1>7 DEF Error_Master
  <2> QED  BY <1>3, <2>1, DomainUpdate DEF CommandsTyped
<1>8. CASE UNCHANGED commandVars
  BY <1>8 DEF CommandsTyped, commandVars
<1> QED  BY <1>2, <1>4, <1>5, <1>6, <1>7, <1>8 DEF Commands_Next

\* What a step of the thread c leaves to show of a parameter p that is not
\* muddled after it, for each kind of step.
LEMMA StepTold ==
  ASSUME CommandsTyped, NEW c \in Commanders, NEW p \in DOMAIN Idle,
         Commence(c) \/ Decide(c) \/ Finish(c) \/ Ask(c) \/ Ask_Fails(c) \/ Ask_Unheard(c) \/ Note(c),
         p \in muddled \/ Told(p), p \notin muddled'
  PROVE  Told(p)'
<1>1. Moves(c)
  BY CommandSteps
<1>2. UNCHANGED <<poll, alarm>>
  BY DEF Commence, Decide, Finish, Ask, Ask_Fails, Ask_Unheard, Note
<1>3. \A d \in Commanders \ {c} : Notes(d)' = Notes(d) /\ (Noting(d, p)' <=> Noting(d, p))
  <2>1. \A d \in Commanders \ {c} : Place(command'[d]) = Place(command[d])
    BY <1>1 DEF Moves
  <2> QED  BY <2>1, SameNotes
<1>4. /\ p \in Others <=> (\E d \in Commanders : Noting(d, p)) \/ (alarm /\ p \in DOMAIN Opened)
      /\ p \in InFlight(c) <=> \/ \E d \in Commanders \ {c} : Noting(d, p)
                               \/ p \in DOMAIN poll
                               \/ alarm /\ p \in DOMAIN Opened
  BY InOthers, InTheAir
<1>5. (p \in Others <=> (\E d \in Commanders : Noting(d, p)) \/ (alarm /\ p \in DOMAIN Opened))'
  <2>1. (p \in NotedBy(Commanders) <=> \E d \in Commanders : Noting(d, p))'
    BY Zenon DEF NotedBy, Noting
  <2>2. (p \in Alarmed <=> alarm /\ p \in DOMAIN Opened)'
    BY DEF Alarmed
  <2>3. (p \in Others <=> p \in NotedBy(Commanders) \/ p \in Alarmed)'
    BY DEF Others
  <2> QED  BY <2>1, <2>2, <2>3
<1>6. p \in DOMAIN pcr /\ p \in DOMAIN list
  BY DEF CommandsTyped
\* Steps that leave the list and the PCR alone, and note nothing.
<1>7. CASE Commence(c) \/ Decide(c) \/ Finish(c)
  <2>1. UNCHANGED <<pcr, list, muddled>> /\ command[c].at \in {"read", "decide"}
    BY <1>7 DEF Commence, Decide, Finish
  <2>2. ~Noting(c, p) /\ ~Noting(c, p)'
    <3>1. command'[c].at \in {"decide", "ask", "read"}
      BY <1>7, CommandSteps
    <3> QED  BY <2>1, <3>1 DEF Noting
  <2> QED  BY <1>2, <1>3, <1>4, <1>5, <2>1, <2>2 DEF Told
\* The thread asked, p is none of what it asked for.
<1>8. ASSUME command[c].at = "ask", p \notin muddled, pcr'[p] = pcr[p], list' = list, ~Noting(c, p)'
      PROVE  Told(p)'
  <2>1. ~Noting(c, p)
    BY <1>8 DEF Noting
  <2> QED  BY <1>2, <1>3, <1>4, <1>5, <1>8, <2>1 DEF Told
<1>9. CASE Ask(c)
  <2>1. /\ command[c].at = "ask" /\ pcr' = Update(pcr, Step(c).does) /\ list' = list
        /\ muddled' = (muddled \ DOMAIN Step(c).notes) \cup (DOMAIN Step(c).does \cap InFlight(c))
    BY <1>9 DEF Ask
  <2>2. Honest(Step(c))
    BY <2>1, StepIsHonest
  <2>3. Notes(c)' = Step(c).notes /\ command'[c].at = "note"
    BY <1>9, CommandSteps
  <2>4. pcr'[p] = IF p \in DOMAIN Step(c).does THEN Step(c).does[p] ELSE pcr[p]
    BY <1>6, <2>1, ValueUpdate
  <2>5. CASE p \in DOMAIN Step(c).does
    <3>1. p \in DOMAIN Step(c).notes /\ Step(c).notes[p] = pcr'[p]
      BY <2>2, <2>4, <2>5 DEF Honest
    <3>2. p \notin InFlight(c)
      BY <2>1, <2>5
    <3>3. Noting(c, p)' /\ Notes(c)'[p] = pcr'[p]
      BY <2>3, <3>1 DEF Noting
    <3> QED  BY <1>2, <1>3, <1>4, <1>5, <3>2, <3>3 DEF Told
  <2>6. CASE p \notin DOMAIN Step(c).does
    <3>1. p \notin DOMAIN Step(c).notes
      BY <2>2, <2>6 DEF Honest
    <3>2. ~Noting(c, p)'
      BY <2>3, <3>1 DEF Noting
    <3>3. p \notin muddled
      BY <2>1, <3>1
    <3> QED  BY <1>8, <2>1, <2>4, <2>6, <3>2, <3>3
  <2> QED  BY <2>5, <2>6
<1>10. CASE Ask_Fails(c)
  <2>1. /\ command[c].at = "ask" /\ (pcr' = pcr \/ pcr' = Update(pcr, Step(c).does)) /\ list' = list
        /\ muddled' = muddled \cup DOMAIN Step(c).does \cup DOMAIN Step(c).fails
    BY <1>10 DEF Ask_Fails
  <2>2. Notes(c)' = Step(c).fails /\ command'[c].at = "note"
    BY <1>10, CommandSteps
  <2>3. p \notin muddled /\ p \notin DOMAIN Step(c).does /\ p \notin DOMAIN Step(c).fails
    BY <2>1
  <2>4. pcr'[p] = pcr[p]
    BY <1>6, <2>1, <2>3, ValueUpdate
  <2>5. ~Noting(c, p)'
    BY <2>2, <2>3 DEF Noting
  <2> QED  BY <1>8, <2>1, <2>3, <2>4, <2>5
<1>11. CASE Ask_Unheard(c)
  <2>1. /\ command[c].at = "ask" /\ pcr' = pcr /\ list' = list
        /\ muddled' = muddled \cup DOMAIN Step(c).does
    BY <1>11 DEF Ask_Unheard
  <2>2. Notes(c)' = Step(c).notes /\ command'[c].at = "note"
    BY <1>11, CommandSteps
  <2>3. p \notin DOMAIN Step(c).notes
    BY <2>1, StepIsHonest DEF Honest
  <2>5. ~Noting(c, p)'
    BY <2>2, <2>3 DEF Noting
  <2> QED  BY <1>8, <2>1, <2>5
<1>12. CASE Note(c)
  <2>1. command[c].at = "note" /\ list' = Update(list, Notes(c)) /\ UNCHANGED <<pcr, muddled>>
    BY <1>12 DEF Note
  <2>2. ~Noting(c, p)'
    <3>1. command'[c].at = "decide"
      BY <1>12, CommandSteps
    <3> QED  BY <3>1 DEF Noting
  <2>3. list'[p] = IF p \in DOMAIN Notes(c) THEN Notes(c)[p] ELSE list[p]
    BY <1>6, <2>1, ValueUpdate
  <2>4. Noting(c, p) <=> p \in DOMAIN Notes(c)
    BY <2>1 DEF Noting
  <2>5. Told(p)
    BY <2>1
  <2> QED  BY <1>2, <1>3, <1>4, <1>5, <2>1, <2>2, <2>3, <2>4, <2>5 DEF Told
<1> QED  BY <1>7, <1>9, <1>10, <1>11, <1>12

LEMMA StepList == ListInv /\ [Commands_Next]_commandVars => ListInv'
<1> SUFFICES ASSUME ListInv, [Commands_Next]_commandVars PROVE ListInv'
  OBVIOUS
<1>0. CommandsTyped /\ CommandsTyped'
  BY StepTyped DEF ListInv
<1> SUFFICES ASSUME NEW p \in DOMAIN Idle, p \notin muddled' PROVE Told(p)'
  BY <1>0 DEF ListInv
<1>t. p \in muddled \/ Told(p)
  BY DEF ListInv
<1>1. ASSUME NEW c \in Commanders,
             Commence(c) \/ Decide(c) \/ Finish(c) \/ Ask(c) \/ Ask_Fails(c) \/ Ask_Unheard(c) \/ Note(c)
      PROVE  Told(p)'
  BY <1>0, <1>1, <1>t, StepTold
<1>4. p \in Others <=> (\E d \in Commanders : Noting(d, p)) \/ (alarm /\ p \in DOMAIN Opened)
  BY InOthers
<1>5. (p \in Others <=> (\E d \in Commanders : Noting(d, p)) \/ (alarm /\ p \in DOMAIN Opened))'
  <2>1. (p \in NotedBy(Commanders) <=> \E d \in Commanders : Noting(d, p))'
    BY Zenon DEF NotedBy, Noting
  <2>2. (p \in Alarmed <=> alarm /\ p \in DOMAIN Opened)'
    BY DEF Alarmed
  <2>3. (p \in Others <=> p \in NotedBy(Commanders) \/ p \in Alarmed)'
    BY DEF Others
  <2> QED  BY <2>1, <2>2, <2>3
<1>6. p \in DOMAIN pcr /\ p \in DOMAIN list
  BY <1>0 DEF CommandsTyped
<1>7. ASSUME \/ command' = command
             \/ command' = [d \in Commanders |-> [command[d] EXCEPT !.clean = FALSE]]
      PROVE  \A d \in Commanders : Notes(d)' = Notes(d) /\ (Noting(d, p)' <=> Noting(d, p))
  <2>1. CASE command' = command
    BY <2>1 DEF Notes, Step, Noting
  <2>2. CASE command' = [d \in Commanders |-> [command[d] EXCEPT !.clean = FALSE]]
    <3>1. ASSUME NEW d \in Commanders PROVE Place(command'[d]) = Place(command[d])
      <4>1. PICK s \in CommandRecords : s = command[d]
        BY <1>0 DEF CommandsTyped, CommandRecords
      <4>2. PICK z : z = [s EXCEPT !.clean = FALSE] /\ command'[d] = z
        BY <2>2, <4>1
      <4>3. z.at = s.at /\ z.name = s.name /\ z.i = s.i /\ z.ok = s.ok
        BY <4>2 DEF CommandRecords
      <4> QED  BY <4>1, <4>2, <4>3 DEF Place
    <3> QED  BY <3>1, SameNotes
  <2> QED  BY <1>7, <2>1, <2>2
<1>8. CASE Status_Read
  <2>1. /\ poll = Nothing /\ poll' = [q \in Polled |-> pcr[q]]
        /\ UNCHANGED <<pcr, list, command, alarm, muddled>>
    BY <1>8 DEF Status_Read
  <2>2. DOMAIN poll = {} /\ DOMAIN poll' = Polled /\ (p \in Polled => poll'[p] = pcr'[p])
    BY <2>1 DEF Nothing
  <2>3. \A d \in Commanders : Notes(d)' = Notes(d) /\ (Noting(d, p)' <=> Noting(d, p))
    BY <1>7, <2>1
  <2>4. Told(p)
    BY <1>t, <2>1
  <2> QED  BY <1>4, <1>5, <2>1, <2>2, <2>3, <2>4 DEF Told
<1>9. CASE Status_UpdateParameters
  <2>1. /\ poll # Nothing /\ poll' = Nothing /\ list' = Update(list, poll)
        /\ muddled' = muddled \ {q \in Polled : poll[q] = pcr[q] /\ q \notin Others}
        /\ UNCHANGED <<pcr, command, alarm>>
    BY <1>9 DEF Status_UpdateParameters
  <2>2. DOMAIN poll = Polled /\ DOMAIN poll' = {}
    BY <1>0, <2>1 DEF CommandsTyped, Nothing
  <2>3. \A d \in Commanders : Notes(d)' = Notes(d) /\ (Noting(d, p)' <=> Noting(d, p))
    BY <1>7, <2>1
  <2>4. list'[p] = IF p \in Polled THEN poll[p] ELSE list[p]
    BY <1>6, <2>1, <2>2, ValueUpdate
  <2>5. CASE p \in muddled
    <3>1. p \in Polled /\ poll[p] = pcr[p] /\ p \notin Others
      BY <2>1, <2>5
    <3> QED  BY <1>4, <1>5, <2>1, <2>2, <2>3, <2>4, <3>1 DEF Told
  <2>6. CASE p \notin muddled
    <3>1. Told(p)
      BY <1>t, <2>6
    <3> QED  BY <1>4, <1>5, <2>1, <2>2, <2>3, <2>4, <3>1 DEF Told
  <2> QED  BY <2>5, <2>6
<1>10. CASE PCR_Opens
  <2>1. /\ pcr' = Update(pcr, Opened) /\ command' = [d \in Commanders |-> [command[d] EXCEPT !.clean = FALSE]]
        /\ \/ alarm' = TRUE /\ muddled' = muddled \cup (DOMAIN Opened \cap (Others \cup DOMAIN poll))
           \/ alarm' = alarm /\ muddled' = muddled \cup DOMAIN Opened
        /\ UNCHANGED <<list, poll>>
    BY <1>10 DEF PCR_Opens
  <2>2. \A d \in Commanders : Notes(d)' = Notes(d) /\ (Noting(d, p)' <=> Noting(d, p))
    BY <1>7, <2>1
  <2>3. pcr'[p] = IF p \in DOMAIN Opened THEN Opened[p] ELSE pcr[p]
    BY <1>6, <2>1, ValueUpdate
  <2>4. Told(p)
    BY <1>t, <2>1
  <2>5. CASE p \in DOMAIN Opened
    <3>1. alarm' /\ p \notin Others /\ p \notin DOMAIN poll
      BY <2>1, <2>5
    <3> QED  BY <1>4, <1>5, <2>1, <2>2, <2>3, <2>5, <3>1 DEF Told
  <2>6. CASE p \notin DOMAIN Opened
    BY <1>4, <1>5, <2>1, <2>2, <2>3, <2>4, <2>6 DEF Told
  <2> QED  BY <2>5, <2>6
<1>11. CASE Error_Master
  <2>1. alarm /\ alarm' = FALSE /\ list' = Update(list, Opened) /\ UNCHANGED <<pcr, command, poll, muddled>>
    BY <1>11 DEF Error_Master
  <2>2. \A d \in Commanders : Notes(d)' = Notes(d) /\ (Noting(d, p)' <=> Noting(d, p))
    BY <1>7, <2>1
  <2>3. list'[p] = IF p \in DOMAIN Opened THEN Opened[p] ELSE list[p]
    BY <1>6, <2>1, ValueUpdate
  <2>4. Told(p)
    BY <1>t, <2>1
  <2> QED  BY <1>4, <1>5, <2>1, <2>2, <2>3, <2>4 DEF Told
<1>12. CASE UNCHANGED commandVars
  <2>1. UNCHANGED <<pcr, list, command, poll, alarm, muddled>>
    BY <1>12 DEF commandVars
  <2>2. \A d \in Commanders : Notes(d)' = Notes(d) /\ (Noting(d, p)' <=> Noting(d, p))
    BY <1>7, <2>1
  <2>3. Told(p)
    BY <1>t, <2>1
  <2> QED  BY <1>4, <1>5, <2>1, <2>2, <2>3 DEF Told
<1> QED  BY <1>1, <1>8, <1>9, <1>10, <1>11, <1>12 DEF Commands_Next

LEMMA ListFromInv == ListInv => ListFollows
BY DEF ListInv, CommandsTyped, Told, ListFollows

\* The list of parameters shows what the PC-Reconstructor does, of everything
\* that no two threads were about to note at a time and no failed exchange left
\* open, however the commands of the operators, the reading of the status and
\* the messages of errors come between each other (PCR_Process.c,
\* Status_Master.c, Error_Master.c).
THEOREM ListShowsThePcr == Commands_Spec => []ListFollows
BY ListFromInv, InitList, StepList, PTL DEF Commands_Spec

-----------------------------------------------------------------------------
(* Commands of several exchanges.                                          *)

Sets(s, p, v) == p \in DOMAIN s.does /\ s.does[p] = v
Leaves(s, p)  == p \notin DOMAIN s.does

\* The exchanges that CommandsDo is about, one by one.
LEMMA SeveralExchanges ==
  /\ Program("cam_test") = Cam_Test /\ Program("cam_image") = Cam_Image /\ Program("cam_stop") = Cam_Stop
  /\ Program("loop_close") = Loop_Close /\ Program("loop_open") = Loop_Open /\ Program("cam_bg_set") = Cam_BgSet
  /\ Program("dm_cmd") = Dm_Cmd
BY DEF Program, UntoldGains, UntoldTaps, UntoldVectors

LEMMA CameraExchange ==
  ASSUME NEW source, NEW s, s = Camera(source)
  PROVE  /\ Sets(s, "Source", source) /\ Leaves(s, "Size") /\ Leaves(s, "Loop") /\ "Size" \notin DOMAIN s.notes
         /\ s.unless = "never" /\ s.answered = TRUE
<1>1. PICK does : does = [Source |-> source, Initialized |-> TRUE]
  OBVIOUS
<1>2. s.does = does /\ s.notes = does /\ s.unless = "never" /\ s.answered = TRUE
  BY <1>1 DEF Camera, Send
<1> QED  BY <1>1, <1>2 DEF Sets, Leaves

LEMMA BinSets ==
  ASSUME NEW does, does = [Size |-> "Bin"], NEW s, s.does = does
  PROVE  Sets(s, "Size", "Bin") /\ Leaves(s, "Source") /\ Leaves(s, "Loop")
BY DEF Sets, Leaves

LEMMA CamTestExchanges ==
  /\ Len(Cam_Test) = 2
  /\ Sets(Cam_Test[1], "Source", "Test") /\ Leaves(Cam_Test[1], "Size") /\ "Size" \notin DOMAIN Cam_Test[1].notes
  /\ Cam_Test[1].unless = "never" /\ Leaves(Cam_Test[1], "Loop") /\ Cam_Test[1].answered = TRUE
  /\ Sets(Cam_Test[2], "Size", "Bin") /\ Leaves(Cam_Test[2], "Source") /\ Cam_Test[2].unless = "sized"
  /\ Cam_Test[2].skip = 1 /\ Leaves(Cam_Test[2], "Loop") /\ Cam_Test[2].answered = TRUE
<1>1. PICK s, z : s = Camera("Test") /\ z = [Bin EXCEPT !.unless = "sized"]
  OBVIOUS
<1>2. Cam_Test = <<s, z>>
  BY <1>1 DEF Cam_Test
<1>4. Cam_Test[1] = s /\ Cam_Test[2] = z /\ Len(Cam_Test) = 2
  BY <1>2
<1>5. /\ Sets(s, "Source", "Test") /\ Leaves(s, "Size") /\ Leaves(s, "Loop") /\ "Size" \notin DOMAIN s.notes
      /\ s.unless = "never" /\ s.answered = TRUE
  BY <1>1, CameraExchange
<1>6. Sets(z, "Size", "Bin") /\ Leaves(z, "Source") /\ Leaves(z, "Loop") /\ z.unless = "sized" /\ z.skip = 1
      /\ z.answered = TRUE
  <2>1. PICK does : does = [Size |-> "Bin"]
    OBVIOUS
  <2>2. z.does = does /\ z.unless = "sized" /\ z.skip = 1 /\ z.answered = TRUE
    BY <1>1, <2>1 DEF Bin, Send
  <2> QED  BY <2>1, <2>2 DEF Sets, Leaves
<1> QED  BY <1>4, <1>5, <1>6

LEMMA CamImageExchanges ==
  /\ Len(Cam_Image) = 3
  /\ Sets(Cam_Image[1], "Source", "Camera") /\ Leaves(Cam_Image[1], "Size") /\ "Size" \notin DOMAIN Cam_Image[1].notes
  /\ Cam_Image[1].unless = "never" /\ Leaves(Cam_Image[1], "Loop") /\ Cam_Image[1].answered = TRUE
  /\ Sets(Cam_Image[2], "Size", "Bin") /\ Leaves(Cam_Image[2], "Source") /\ Cam_Image[2].unless = "full_or_bin"
  /\ Cam_Image[2].skip = 2 /\ Leaves(Cam_Image[2], "Loop") /\ Cam_Image[2].answered = TRUE
  /\ Leaves(Cam_Image[3], "Source") /\ Leaves(Cam_Image[3], "Size") /\ Leaves(Cam_Image[3], "Loop")
  /\ Cam_Image[3].unless = "never" /\ Cam_Image[3].answered = TRUE
<1>1. PICK s, z, e : /\ s = Camera("Camera") /\ z = [Bin EXCEPT !.unless = "full_or_bin", !.skip = 2]
                     /\ e = Send([Rate |-> 550])
  OBVIOUS
<1>2. Cam_Image = <<s, z, e>>
  BY <1>1 DEF Cam_Image
<1>4. Cam_Image[1] = s /\ Cam_Image[2] = z /\ Cam_Image[3] = e /\ Len(Cam_Image) = 3
  BY <1>2
<1>5. /\ Sets(s, "Source", "Camera") /\ Leaves(s, "Size") /\ Leaves(s, "Loop") /\ "Size" \notin DOMAIN s.notes
      /\ s.unless = "never" /\ s.answered = TRUE
  BY <1>1, CameraExchange
<1>6. Sets(z, "Size", "Bin") /\ Leaves(z, "Source") /\ Leaves(z, "Loop") /\ z.unless = "full_or_bin" /\ z.skip = 2
      /\ z.answered = TRUE
  <2>1. PICK does : does = [Size |-> "Bin"]
    OBVIOUS
  <2>2. z.does = does /\ z.unless = "full_or_bin" /\ z.skip = 2 /\ z.answered = TRUE
    BY <1>1, <2>1 DEF Bin, Send
  <2>3. Sets(z, "Size", "Bin") /\ Leaves(z, "Source") /\ Leaves(z, "Loop")
    BY <2>1, <2>2, BinSets
  <2> QED  BY <2>2, <2>3
<1>7. Leaves(e, "Source") /\ Leaves(e, "Size") /\ Leaves(e, "Loop") /\ e.unless = "never" /\ e.answered = TRUE
  <2>1. PICK does : does = [Rate |-> 550]
    OBVIOUS
  <2>2. e.does = does /\ e.unless = "never" /\ e.answered = TRUE
    BY <1>1, <2>1 DEF Send
  <2> QED  BY <2>1, <2>2 DEF Leaves
<1> QED  BY <1>4, <1>5, <1>6, <1>7

LEMMA CamStopExchanges ==
  /\ Len(Cam_Stop) = 2
  /\ Sets(Cam_Stop[1], "Loop", FALSE) /\ Cam_Stop[1].unless = "open" /\ Cam_Stop[1].skip = 1
  /\ Cam_Stop[1].answered = TRUE
  /\ Sets(Cam_Stop[2], "Running", FALSE) /\ Leaves(Cam_Stop[2], "Loop") /\ Cam_Stop[2].unless = "never"
  /\ Cam_Stop[2].answered = TRUE
<1>1. PICK s, z : s = [Open EXCEPT !.unless = "open"] /\ z = Send([Running |-> FALSE])
  OBVIOUS
<1>2. Cam_Stop = <<s, z>>
  BY <1>1 DEF Cam_Stop
<1>4. Cam_Stop[1] = s /\ Cam_Stop[2] = z /\ Len(Cam_Stop) = 2
  BY <1>2
<1>5. Sets(s, "Loop", FALSE) /\ s.unless = "open" /\ s.skip = 1 /\ s.answered = TRUE
  <2>1. PICK does : does = [Loop |-> FALSE]
    OBVIOUS
  <2>2. s.does = does /\ s.unless = "open" /\ s.skip = 1 /\ s.answered = TRUE
    BY <1>1, <2>1 DEF Open, Send
  <2> QED  BY <2>1, <2>2 DEF Sets
<1>6. Sets(z, "Running", FALSE) /\ Leaves(z, "Loop") /\ z.unless = "never" /\ z.answered = TRUE
  <2>1. PICK does : does = [Running |-> FALSE]
    OBVIOUS
  <2>2. z.does = does /\ z.unless = "never" /\ z.answered = TRUE
    BY <1>1, <2>1 DEF Send
  <2> QED  BY <2>1, <2>2 DEF Sets, Leaves
<1> QED  BY <1>4, <1>5, <1>6

LEMMA LoopCloseExchanges ==
  /\ Len(Loop_Close) = 2
  /\ Sets(Loop_Close[1], "Gain", 0) /\ Leaves(Loop_Close[1], "Loop") /\ Loop_Close[1].unless = "never"
  /\ Loop_Close[1].answered = TRUE
  /\ Sets(Loop_Close[2], "Loop", TRUE) /\ Leaves(Loop_Close[2], "Gain") /\ Loop_Close[2].unless = "never"
  /\ Loop_Close[2].answered = TRUE
<1>1. PICK s, z : s = ZeroGain /\ z = Send([Loop |-> TRUE])
  OBVIOUS
<1>2. Loop_Close[1] = s /\ Loop_Close[2] = z /\ Len(Loop_Close) = 2
  BY <1>1 DEF Loop_Close
<1>3. PICK does : does = [Gain |-> 0]
  OBVIOUS
<1>4. s.does = does /\ s.unless = "never" /\ s.answered = TRUE
  BY <1>1, <1>3 DEF ZeroGain, Send
<1>5. PICK more : more = [Loop |-> TRUE]
  OBVIOUS
<1>6. z.does = more /\ z.unless = "never" /\ z.answered = TRUE
  BY <1>1, <1>5 DEF Send
<1>7. Sets(s, "Gain", 0) /\ Leaves(s, "Loop")
  BY <1>3, <1>4 DEF Sets, Leaves
<1>8. Sets(z, "Loop", TRUE) /\ Leaves(z, "Gain")
  BY <1>5, <1>6 DEF Sets, Leaves
<1> QED  BY <1>2, <1>4, <1>6, <1>7, <1>8

LEMMA LoopOpenExchanges ==
  /\ Len(Loop_Open) = 2
  /\ Sets(Loop_Open[1], "Loop", FALSE) /\ Loop_Open[1].unless = "never" /\ Loop_Open[1].answered = TRUE
  /\ Sets(Loop_Open[2], "Gain", 0) /\ Leaves(Loop_Open[2], "Loop") /\ Loop_Open[2].unless = "never"
  /\ Loop_Open[2].answered = TRUE
<1>1. PICK s, z : s = [Open EXCEPT !.fatal = TRUE] /\ z = ZeroGain
  OBVIOUS
<1>2. Loop_Open = <<s, z>>
  BY <1>1 DEF Loop_Open
<1>4. Loop_Open[1] = s /\ Loop_Open[2] = z /\ Len(Loop_Open) = 2
  BY <1>2
<1>5. Sets(s, "Loop", FALSE) /\ s.unless = "never" /\ s.answered = TRUE
  <2>1. PICK does : does = [Loop |-> FALSE]
    OBVIOUS
  <2>2. s.does = does /\ s.unless = "never" /\ s.answered = TRUE
    BY <1>1, <2>1 DEF Open, Send
  <2> QED  BY <2>1, <2>2 DEF Sets
<1>6. Sets(z, "Gain", 0) /\ Leaves(z, "Loop") /\ z.unless = "never" /\ z.answered = TRUE
  <2>1. PICK does : does = [Gain |-> 0]
    OBVIOUS
  <2>2. z.does = does /\ z.unless = "never" /\ z.answered = TRUE
    BY <1>1, <2>1 DEF ZeroGain, Send
  <2> QED  BY <2>1, <2>2 DEF Sets, Leaves
<1> QED  BY <1>4, <1>5, <1>6

LEMMA CamBgSetExchanges ==
  /\ Len(Cam_BgSet) = 2
  /\ Sets(Cam_BgSet[1], "Background", "new") /\ Cam_BgSet[1].unless = "never" /\ Leaves(Cam_BgSet[1], "Loop")
  /\ Cam_BgSet[1].answered = TRUE
  /\ Sets(Cam_BgSet[2], "Bg", TRUE) /\ Leaves(Cam_BgSet[2], "Background") /\ Cam_BgSet[2].unless = "never"
  /\ Leaves(Cam_BgSet[2], "Loop") /\ Cam_BgSet[2].answered = TRUE
<1>1. PICK s, z : s = [Send([Background |-> "new"]) EXCEPT !.notes = <<>>] /\ z = Send([Bg |-> TRUE])
  OBVIOUS
<1>2. Cam_BgSet = <<s, z>>
  BY <1>1 DEF Cam_BgSet
<1>3. Cam_BgSet[1] = s /\ Cam_BgSet[2] = z /\ Len(Cam_BgSet) = 2
  BY <1>2
<1>4. PICK does, more : does = [Background |-> "new"] /\ more = [Bg |-> TRUE]
  OBVIOUS
<1>5. s.does = does /\ s.unless = "never" /\ s.answered = TRUE
  BY <1>1, <1>4 DEF Send
<1>6. z.does = more /\ z.unless = "never" /\ z.answered = TRUE
  BY <1>1, <1>4 DEF Send
<1>7. Sets(s, "Background", "new") /\ Leaves(s, "Loop")
  BY <1>4, <1>5 DEF Sets, Leaves
<1>8. Sets(z, "Bg", TRUE) /\ Leaves(z, "Background") /\ Leaves(z, "Loop")
  BY <1>4, <1>6 DEF Sets, Leaves
<1> QED  BY <1>3, <1>5, <1>6, <1>7, <1>8

\* Whatever else is asked closes no loop, and is answered unless it is about saving.
Calm(s) == (Leaves(s, "Loop") \/ Sets(s, "Loop", FALSE)) /\ (s.answered = TRUE \/ DOMAIN s.notes \subseteq {"Save"})

LEMMA CalmSimply ==
  ASSUME NEW does, "Loop" \notin DOMAIN does, NEW k \in 1 .. Len(Simply(does))
  PROVE  Calm(Simply(does)[k])
<1>1. k = 1 /\ Simply(does)[1] = Send(does)
  BY DEF Simply
<1>2. Send(does).does = does /\ Send(does).answered = TRUE
  BY DEF Send
<1> QED  BY <1>1, <1>2 DEF Calm, Leaves

LEMMA CalmProgram ==
  ASSUME NEW name \in CommandNames, NEW k \in 1 .. Len(Program(name)), name # "loop_close"
  PROVE  Calm(Program(name)[k])
<1> USE SeveralExchanges
<1>1. CASE name = "cam_test"
  <2>0. Program(name) = Cam_Test /\ Len(Cam_Test) = 2
    BY <1>1, CamTestExchanges
  <2>1. k \in {1, 2}
    BY <2>0
  <2>2. \A j \in {1, 2} : Calm(Cam_Test[j])
    BY CamTestExchanges DEF Calm
  <2> QED  BY <2>0, <2>1, <2>2
<1>2. CASE name = "cam_image"
  <2>0. Program(name) = Cam_Image /\ Len(Cam_Image) = 3
    BY <1>2, CamImageExchanges
  <2>1. k \in {1, 2, 3}
    BY <2>0
  <2>2. \A j \in {1, 2, 3} : Calm(Cam_Image[j])
    BY CamImageExchanges DEF Calm
  <2> QED  BY <2>0, <2>1, <2>2
<1>3. CASE name = "cam_stop"
  <2>0. Program(name) = Cam_Stop /\ Len(Cam_Stop) = 2
    BY <1>3, CamStopExchanges
  <2>1. k \in {1, 2}
    BY <2>0
  <2>2. \A j \in {1, 2} : Calm(Cam_Stop[j])
    BY CamStopExchanges DEF Calm
  <2> QED  BY <2>0, <2>1, <2>2
<1>4. CASE name = "loop_open"
  <2>0. Program(name) = Loop_Open /\ Len(Loop_Open) = 2
    BY <1>4, LoopOpenExchanges
  <2>1. k \in {1, 2}
    BY <2>0
  <2>2. \A j \in {1, 2} : Calm(Loop_Open[j])
    BY LoopOpenExchanges DEF Calm
  <2> QED  BY <2>0, <2>1, <2>2
<1>5. CASE name = "cam_bg_set"
  <2>0. Program(name) = Cam_BgSet /\ Len(Cam_BgSet) = 2
    BY <1>5, CamBgSetExchanges
  <2>1. k \in {1, 2}
    BY <2>0
  <2>2. \A j \in {1, 2} : Calm(Cam_BgSet[j])
    BY CamBgSetExchanges DEF Calm
  <2> QED  BY <2>0, <2>1, <2>2
<1>6. CASE name = "dm_cmd"
  <2>1. PICK s : s = [Send([Save |-> TRUE]) EXCEPT !.answered = FALSE]
    OBVIOUS
  <2>2. PICK does : does = [Save |-> TRUE]
    OBVIOUS
  <2>3. s.does = does /\ s.notes = does
    BY <2>1, <2>2 DEF Send
  <2>4. Dm_Cmd = <<s>>
    BY <2>1 DEF Dm_Cmd
  <2>5. k = 1 /\ Program(name)[k] = s
    BY <1>6, <2>4
  <2>6. Calm(s)
    BY <2>2, <2>3 DEF Calm, Leaves
  <2> QED  BY <2>5, <2>6
<1>7. CASE name = "cam_bin"
  <2>1. PICK s : s = Bin
    OBVIOUS
  <2>2. Program(name) = <<s>>
    BY <1>7, <2>1 DEF Program, UntoldGains, UntoldTaps, UntoldVectors
  <2>3. PICK does : does = [Size |-> "Bin"]
    OBVIOUS
  <2>4. s.does = does /\ s.answered = TRUE
    BY <2>1, <2>3 DEF Bin, Send
  <2>5. Calm(s)
    BY <2>3, <2>4 DEF Calm, Leaves
  <2>6. Program(name)[k] = s
    BY <2>2
  <2> QED  BY <2>5, <2>6
<1>8. CASE name \in UntoldGains \cup UntoldTaps \cup UntoldVectors
  <2>1. Program(name) = Simply(<<>>)
    BY <1>8 DEF Program, Simply, UntoldGains, UntoldTaps, UntoldVectors
  <2> QED  BY <2>1, CalmSimply
<1>9. CASE name = "nothing"
  <2>1. Program(name) = <<>> /\ Len(<<>>) = 0
    BY <1>9 DEF Program, UntoldGains, UntoldTaps, UntoldVectors
  <2> QED  BY <2>1
<1>10. CASE name \in {"cam_full", "cam_bias_set", "cam_rate_set", "recon_set", "cam_start", "loop_gain",
                      "cam_bg_on", "cam_bg_off", "cam_dynamic_on", "cam_dynamic_off", "slope_offset_set"}
  <2>1. PICK does : Program(name) = Simply(does) /\ "Loop" \notin DOMAIN does
    <3>1. \E does : Program(name) = Simply(does)
             /\ does \in {[Size |-> "Full"], [Bias |-> 100], [Rate |-> 100], [Recon |-> 80], [Running |-> TRUE], [Gain |-> 1],
                      [Bg |-> TRUE], [Bg |-> FALSE], [Dynamic |-> TRUE], [Dynamic |-> FALSE], [Static |-> 1]}
      BY <1>10 DEF Program, Cam_Full, Cam_Bias, Cam_Rate, Recon, Loop_Gain, Bg, Dynamic, UntoldGains, UntoldTaps, UntoldVectors
    <3>2. \A does \in {[Size |-> "Full"], [Bias |-> 100], [Rate |-> 100], [Recon |-> 80], [Running |-> TRUE], [Gain |-> 1],
                      [Bg |-> TRUE], [Bg |-> FALSE], [Dynamic |-> TRUE], [Dynamic |-> FALSE], [Static |-> 1]} :
             "Loop" \notin DOMAIN does
      OBVIOUS
    <3> QED  BY <3>1, <3>2
  <2> QED  BY <2>1, CalmSimply
<1> QED
  BY <1>1, <1>2, <1>3, <1>4, <1>5, <1>6, <1>7, <1>8, <1>9, <1>10 DEF CommandNames

\* The exchanges of its command that a thread has made, or passed over.
Made(r) == IF r.at = "note" THEN r.i ELSE r.i - 1

\* The list, and what Status_Master may put there, show what the PCR does of p.
Knows(p) == list[p] = pcr[p] /\ (p \in DOMAIN poll => poll[p] = pcr[p])

\* What a command relies on after n exchanges, and what it has done by then.
Relies(name, n) ==
  /\ name \in {"cam_test", "cam_image"} /\ n <= 1 => Knows("Size")
  /\ name = "cam_stop" /\ n = 0 => Knows("Loop")
Does(name, n) ==
  /\ name = "cam_test"   => (n >= 1 => pcr["Source"] = "Test") /\ (n >= 2 => pcr["Size"] # "--")
  /\ name = "cam_image"  => (n >= 1 => pcr["Source"] = "Camera") /\ (n >= 2 => pcr["Size"] # "--")
  /\ name = "cam_stop"   => (n >= 1 => ~pcr["Loop"]) /\ (n >= 2 => ~pcr["Running"])
  /\ name = "loop_close" => (n >= 1 => pcr["Gain"] = 0) /\ (n >= 2 => pcr["Loop"])
  /\ name = "loop_open"  => (n >= 1 => ~pcr["Loop"]) /\ (n >= 2 => pcr["Gain"] = 0)
  /\ name = "cam_bg_set" => (n >= 1 => pcr["Background"] = "new") /\ (n >= 2 => pcr["Bg"])

Several == {"cam_test", "cam_image", "cam_stop", "loop_close", "loop_open", "cam_bg_set"}

LEMMA OtherCommands ==
  ASSUME NEW name, name \notin Several, NEW n PROVE Relies(name, n) /\ Does(name, n)
BY DEF Several, Relies, Does

\* The list says that an exchange is not needed, and it is not.
LEMMA PassedOver ==
  ASSUME CommandsTyped, NEW name \in CommandNames, NEW k \in 1 .. Len(Program(name)),
         Relies(name, k - 1), Does(name, k - 1), Shown(Program(name)[k].unless),
         NEW n, n = k - 1 + Program(name)[k].skip
  PROVE  Relies(name, n) /\ Does(name, n)
<1> USE SeveralExchanges
<1>n. ~Shown("never")
  BY DEF Shown
<1>1. CASE name = "cam_test"
  <2>0. Program(name) = Cam_Test /\ Len(Cam_Test) = 2
    BY <1>1, CamTestExchanges
  <2>1. k = 2 /\ Shown("sized") /\ n = 2
    <3>1. k \in {1, 2}
      BY <2>0
    <3>2. Cam_Test[1].unless = "never" /\ Cam_Test[2].unless = "sized" /\ Cam_Test[2].skip = 1
      BY CamTestExchanges
    <3>3. k = 2
      BY <1>n, <2>0, <3>1, <3>2
    <3>4. Program(name)[k].unless = "sized" /\ Program(name)[k].skip = 1
      BY <2>0, <3>2, <3>3
    <3>5. n = k - 1 + 1
      BY <3>4
    <3> QED  BY <3>3, <3>4, <3>5
  <2>2. list["Size"] # "--"
    BY <2>1 DEF Shown
  <2>3. list["Size"] = pcr["Size"] /\ pcr["Source"] = "Test"
    <3>1. k - 1 = 1
      BY <2>1
    <3>2. Relies(name, 1) /\ Does(name, 1)
      BY <3>1
    <3> QED  BY <1>1, <3>2 DEF Relies, Does, Knows
  <2> QED  BY <1>1, <2>1, <2>2, <2>3 DEF Relies, Does
<1>2. CASE name = "cam_image"
  <2>0. Program(name) = Cam_Image /\ Len(Cam_Image) = 3
    BY <1>2, CamImageExchanges
  <2>1. k = 2 /\ Shown("full_or_bin") /\ n = 3
    <3>1. k \in {1, 2, 3}
      BY <2>0
    <3>2. /\ Cam_Image[1].unless = "never" /\ Cam_Image[2].unless = "full_or_bin" /\ Cam_Image[2].skip = 2
          /\ Cam_Image[3].unless = "never"
      BY CamImageExchanges
    <3>3. k = 2
      BY <1>n, <2>0, <3>1, <3>2
    <3>4. Program(name)[k].unless = "full_or_bin" /\ Program(name)[k].skip = 2
      BY <2>0, <3>2, <3>3
    <3>5. n = k - 1 + 2
      BY <3>4
    <3> QED  BY <3>3, <3>4, <3>5
  <2>2. list["Size"] # "--"
    BY <2>1 DEF Shown
  <2>3. list["Size"] = pcr["Size"] /\ pcr["Source"] = "Camera"
    <3>1. k - 1 = 1
      BY <2>1
    <3>2. Relies(name, 1) /\ Does(name, 1)
      BY <3>1
    <3> QED  BY <1>2, <3>2 DEF Relies, Does, Knows
  <2> QED  BY <1>2, <2>1, <2>2, <2>3 DEF Relies, Does
<1>3. CASE name = "cam_stop"
  <2>0. Program(name) = Cam_Stop /\ Len(Cam_Stop) = 2
    BY <1>3, CamStopExchanges
  <2>1. k = 1 /\ Shown("open") /\ n = 1
    <3>1. k \in {1, 2}
      BY <2>0
    <3>2. Cam_Stop[1].unless = "open" /\ Cam_Stop[2].unless = "never" /\ Cam_Stop[1].skip = 1
      BY CamStopExchanges
    <3>3. k = 1
      BY <1>n, <2>0, <3>1, <3>2
    <3> QED  BY <2>0, <3>2, <3>3
  <2>2. ~list["Loop"]
    BY <2>1 DEF Shown
  <2>3. list["Loop"] = pcr["Loop"]
    BY <1>3, <2>1 DEF Relies, Knows
  <2>4. ~pcr["Loop"]
    BY <2>2, <2>3
  <2> QED  BY <1>3, <2>1, <2>4 DEF Relies, Does
<1>4. CASE name \in {"loop_close", "loop_open", "cam_bg_set"}
  <2>1. Program(name)[k].unless = "never"
    <3>1. CASE name = "loop_close"
      <4>1. Program(name) = Loop_Close /\ Len(Loop_Close) = 2
        BY <3>1, LoopCloseExchanges
      <4>2. k \in {1, 2}
        BY <4>1
      <4> QED  BY <4>1, <4>2, LoopCloseExchanges
    <3>2. CASE name = "loop_open"
      <4>1. Program(name) = Loop_Open /\ Len(Loop_Open) = 2
        BY <3>2, LoopOpenExchanges
      <4>2. k \in {1, 2}
        BY <4>1
      <4> QED  BY <4>1, <4>2, LoopOpenExchanges
    <3>3. CASE name = "cam_bg_set"
      <4>1. Program(name) = Cam_BgSet /\ Len(Cam_BgSet) = 2
        BY <3>3, CamBgSetExchanges
      <4>2. k \in {1, 2}
        BY <4>1
      <4> QED  BY <4>1, <4>2, CamBgSetExchanges
    <3> QED  BY <1>4, <3>1, <3>2, <3>3
  <2> QED  BY <1>n, <2>1
<1> QED  BY <1>1, <1>2, <1>3, <1>4, OtherCommands DEF Several

\* What an exchange that is answered does of a field, and what it leaves.
LEMMA DoneBy ==
  ASSUME CommandsTyped, NEW s, pcr' = Update(pcr, s.does), NEW p \in DOMAIN pcr
  PROVE  /\ Leaves(s, p) => pcr'[p] = pcr[p]
         /\ \A v : Sets(s, p, v) => pcr'[p] = v
<1>1. pcr'[p] = IF p \in DOMAIN s.does THEN s.does[p] ELSE pcr[p]
  BY ValueUpdate
<1> QED  BY <1>1 DEF Leaves, Sets

\* The PCR has done the exchange k, or it seems so.
LEMMA AskDone ==
  ASSUME CommandsTyped, NEW name \in CommandNames, NEW k \in 1 .. Len(Program(name)),
         Relies(name, k - 1), Does(name, k - 1), pcr' = Update(pcr, Program(name)[k].does),
         UNCHANGED <<list, poll>>
  PROVE  (Relies(name, k) /\ Does(name, k))'
<1> USE SeveralExchanges
<1>0. {"Source", "Size", "Loop", "Gain", "Running", "Bg", "Background"} \subseteq DOMAIN pcr
  BY DEF CommandsTyped, Idle
<1>d. ASSUME NEW s, pcr' = Update(pcr, s.does),
             NEW p \in {"Source", "Size", "Loop", "Gain", "Running", "Bg", "Background"}
      PROVE  /\ Leaves(s, p) => pcr'[p] = pcr[p]
             /\ \A v : Sets(s, p, v) => pcr'[p] = v
  BY <1>0, <1>d, DoneBy
<1>1. CASE name = "cam_test"
  <2>0. Program(name) = Cam_Test /\ Len(Cam_Test) = 2
    BY <1>1, CamTestExchanges
  <2>1. k \in {1, 2}
    BY <2>0
  <2>2. CASE k = 1
    <3>1. PICK s : s = Cam_Test[1] /\ pcr' = Update(pcr, s.does) /\ Sets(s, "Source", "Test") /\ Leaves(s, "Size")
      BY <2>0, <2>2, CamTestExchanges
    <3>2. pcr'["Source"] = "Test" /\ pcr'["Size"] = pcr["Size"]
      BY <1>d, <3>1
    <3>3. Relies(name, 0)
      BY <2>2
    <3> QED  BY <1>1, <2>2, <3>2, <3>3 DEF Relies, Does, Knows
  <2>3. CASE k = 2
    <3>1. PICK s : s = Cam_Test[2] /\ pcr' = Update(pcr, s.does) /\ Sets(s, "Size", "Bin") /\ Leaves(s, "Source")
      BY <2>0, <2>3, CamTestExchanges
    <3>2. pcr'["Size"] = "Bin" /\ pcr'["Source"] = pcr["Source"]
      BY <1>d, <3>1
    <3>3. Does(name, 1)
      BY <2>3
    <3> QED  BY <1>1, <2>3, <3>2, <3>3 DEF Relies, Does
  <2> QED  BY <2>1, <2>2, <2>3
<1>2. CASE name = "cam_image"
  <2>0. Program(name) = Cam_Image /\ Len(Cam_Image) = 3
    BY <1>2, CamImageExchanges
  <2>1. k \in {1, 2, 3}
    BY <2>0
  <2>2. CASE k = 1
    <3>1. PICK s : s = Cam_Image[1] /\ pcr' = Update(pcr, s.does) /\ Sets(s, "Source", "Camera") /\ Leaves(s, "Size")
      BY <2>0, <2>2, CamImageExchanges
    <3>2. pcr'["Source"] = "Camera" /\ pcr'["Size"] = pcr["Size"]
      BY <1>d, <3>1
    <3>3. Relies(name, 0)
      BY <2>2
    <3> QED  BY <1>2, <2>2, <3>2, <3>3 DEF Relies, Does, Knows
  <2>3. CASE k = 2
    <3>1. PICK s : s = Cam_Image[2] /\ pcr' = Update(pcr, s.does) /\ Sets(s, "Size", "Bin") /\ Leaves(s, "Source")
      BY <2>0, <2>3, CamImageExchanges
    <3>2. pcr'["Size"] = "Bin" /\ pcr'["Source"] = pcr["Source"]
      BY <1>d, <3>1
    <3>3. Does(name, 1)
      BY <2>3
    <3> QED  BY <1>2, <2>3, <3>2, <3>3 DEF Relies, Does
  <2>4. CASE k = 3
    <3>1. PICK s : s = Cam_Image[3] /\ pcr' = Update(pcr, s.does) /\ Leaves(s, "Size") /\ Leaves(s, "Source")
      BY <2>0, <2>4, CamImageExchanges
    <3>2. pcr'["Size"] = pcr["Size"] /\ pcr'["Source"] = pcr["Source"]
      BY <1>d, <3>1
    <3>3. Does(name, 2)
      BY <2>4
    <3> QED  BY <1>2, <2>4, <3>2, <3>3 DEF Relies, Does
  <2> QED  BY <2>1, <2>2, <2>3, <2>4
<1>3. CASE name = "cam_stop"
  <2>0. Program(name) = Cam_Stop /\ Len(Cam_Stop) = 2
    BY <1>3, CamStopExchanges
  <2>1. k \in {1, 2}
    BY <2>0
  <2>2. CASE k = 1
    <3>1. PICK s : s = Cam_Stop[1] /\ pcr' = Update(pcr, s.does) /\ Sets(s, "Loop", FALSE)
      BY <2>0, <2>2, CamStopExchanges
    <3>2. pcr'["Loop"] = FALSE
      BY <1>d, <3>1
    <3> QED  BY <1>3, <2>2, <3>2 DEF Relies, Does
  <2>3. CASE k = 2
    <3>1. PICK s : s = Cam_Stop[2] /\ pcr' = Update(pcr, s.does) /\ Sets(s, "Running", FALSE) /\ Leaves(s, "Loop")
      BY <2>0, <2>3, CamStopExchanges
    <3>2. pcr'["Running"] = FALSE /\ pcr'["Loop"] = pcr["Loop"]
      BY <1>d, <3>1
    <3>3. Does(name, 1)
      BY <2>3
    <3> QED  BY <1>3, <2>3, <3>2, <3>3 DEF Relies, Does
  <2> QED  BY <2>1, <2>2, <2>3
<1>4. CASE name = "loop_close"
  <2>0. Program(name) = Loop_Close /\ Len(Loop_Close) = 2
    BY <1>4, LoopCloseExchanges
  <2>1. k \in {1, 2}
    BY <2>0
  <2>2. CASE k = 1
    <3>1. PICK s : s = Loop_Close[1] /\ pcr' = Update(pcr, s.does) /\ Sets(s, "Gain", 0)
      BY <2>0, <2>2, LoopCloseExchanges
    <3>2. pcr'["Gain"] = 0
      BY <1>d, <3>1
    <3> QED  BY <1>4, <2>2, <3>2 DEF Relies, Does
  <2>3. CASE k = 2
    <3>1. PICK s : s = Loop_Close[2] /\ pcr' = Update(pcr, s.does) /\ Sets(s, "Loop", TRUE) /\ Leaves(s, "Gain")
      BY <2>0, <2>3, LoopCloseExchanges
    <3>2. pcr'["Loop"] = TRUE /\ pcr'["Gain"] = pcr["Gain"]
      BY <1>d, <3>1
    <3>3. Does(name, 1)
      BY <2>3
    <3> QED  BY <1>4, <2>3, <3>2, <3>3 DEF Relies, Does
  <2> QED  BY <2>1, <2>2, <2>3
<1>5. CASE name = "loop_open"
  <2>0. Program(name) = Loop_Open /\ Len(Loop_Open) = 2
    BY <1>5, LoopOpenExchanges
  <2>1. k \in {1, 2}
    BY <2>0
  <2>2. CASE k = 1
    <3>1. PICK s : s = Loop_Open[1] /\ pcr' = Update(pcr, s.does) /\ Sets(s, "Loop", FALSE)
      BY <2>0, <2>2, LoopOpenExchanges
    <3>2. pcr'["Loop"] = FALSE
      BY <1>d, <3>1
    <3> QED  BY <1>5, <2>2, <3>2 DEF Relies, Does
  <2>3. CASE k = 2
    <3>1. PICK s : s = Loop_Open[2] /\ pcr' = Update(pcr, s.does) /\ Sets(s, "Gain", 0) /\ Leaves(s, "Loop")
      BY <2>0, <2>3, LoopOpenExchanges
    <3>2. pcr'["Gain"] = 0 /\ pcr'["Loop"] = pcr["Loop"]
      BY <1>d, <3>1
    <3>3. Does(name, 1)
      BY <2>3
    <3> QED  BY <1>5, <2>3, <3>2, <3>3 DEF Relies, Does
  <2> QED  BY <2>1, <2>2, <2>3
<1>6. CASE name = "cam_bg_set"
  <2>0. Program(name) = Cam_BgSet /\ Len(Cam_BgSet) = 2
    BY <1>6, CamBgSetExchanges
  <2>1. k \in {1, 2}
    BY <2>0
  <2>2. CASE k = 1
    <3>1. PICK s : s = Cam_BgSet[1] /\ pcr' = Update(pcr, s.does) /\ Sets(s, "Background", "new")
      BY <2>0, <2>2, CamBgSetExchanges
    <3>2. pcr'["Background"] = "new"
      BY <1>d, <3>1
    <3> QED  BY <1>6, <2>2, <3>2 DEF Relies, Does
  <2>3. CASE k = 2
    <3>1. PICK s : s = Cam_BgSet[2] /\ pcr' = Update(pcr, s.does) /\ Sets(s, "Bg", TRUE) /\ Leaves(s, "Background")
      BY <2>0, <2>3, CamBgSetExchanges
    <3>2. pcr'["Bg"] = TRUE /\ pcr'["Background"] = pcr["Background"]
      BY <1>d, <3>1
    <3>3. Does(name, 1)
      BY <2>3
    <3> QED  BY <1>6, <2>3, <3>2, <3>3 DEF Relies, Does
  <2> QED  BY <2>1, <2>2, <2>3
<1>7. CASE name \notin Several
  BY <1>7 DEF Several, Relies, Does
<1> QED  BY <1>1, <1>2, <1>3, <1>4, <1>5, <1>6, <1>7 DEF Several

\* What came of the exchange k is noted: what the command relies on is not in it.
LEMMA NoteDone ==
  ASSUME CommandsTyped, NEW name \in CommandNames, NEW k \in 1 .. Len(Program(name)),
         Relies(name, k), Does(name, k), list' = Update(list, Program(name)[k].notes),
         UNCHANGED <<pcr, poll>>
  PROVE  (Relies(name, k) /\ Does(name, k))'
<1> USE SeveralExchanges
<1>1. Does(name, k)'
  BY DEF Does
<1>2. CASE name \in {"cam_test", "cam_image"} /\ k <= 1
  <2>1. k = 1
    BY <1>2
  <2>2. "Size" \notin DOMAIN Program(name)[1].notes
    BY <1>2, CamTestExchanges, CamImageExchanges
  <2>3. list'["Size"] = list["Size"]
    <3>1. "Size" \in DOMAIN list
      BY DEF CommandsTyped, Idle
    <3> QED  BY <2>1, <2>2, <3>1, ValueUpdate
  <2> QED  BY <1>1, <1>2, <2>1, <2>3 DEF Relies, Knows
<1>3. CASE ~(name \in {"cam_test", "cam_image"} /\ k <= 1)
  <2>1. k # 0
    OBVIOUS
  <2> QED  BY <1>1, <1>3, <2>1 DEF Relies
<1> QED  BY <1>2, <1>3

\* A thread that is about to note nothing, or only whether frames are saved.
Silent(d) == command[d].at = "note" => DOMAIN Notes(d) \subseteq {"Save"}

\* A command that was alone, and had no failure: the rest of what it relies on.
Sure(c) ==
  command[c].clean /\ command[c].at # "read" =>
    /\ ~alarm /\ (command[c].at = "note" => command[c].ok)
    /\ \A d \in Commanders \ {c} : Silent(d)
    /\ Relies(command[c].name, Made(command[c])) /\ Does(command[c].name, Made(command[c]))
DoInv == ListInv /\ \A c \in Commanders : Sure(c)

\* What the command relies on stays while the PCR does as before and the list
\* gets only what it shows already.
LEMMA StillRelies ==
  ASSUME NEW name, NEW n, Relies(name, n), Does(name, n), pcr' = pcr,
         Knows("Size") => Knows("Size")', Knows("Loop") => Knows("Loop")'
  PROVE  (Relies(name, n) /\ Does(name, n))'
BY DEF Relies, Does

\* The thread c, sure of itself before a step of others, is so after it.
LEMMA StaysSure ==
  ASSUME NEW c \in Commanders, Sure(c), command'[c] = command[c] \/ ~command'[c].clean,
         pcr' = pcr, alarm' = alarm, Knows("Size") => Knows("Size")', Knows("Loop") => Knows("Loop")',
         \A d \in Commanders \ {c} : Silent(d) => Silent(d)'
  PROVE  Sure(c)'
<1> SUFFICES ASSUME command'[c].clean, command'[c].at # "read"
             PROVE  /\ ~alarm' /\ (command'[c].at = "note" => command'[c].ok)
                    /\ (\A d \in Commanders \ {c} : Silent(d))'
                    /\ (Relies(command[c].name, Made(command[c])) /\ Does(command[c].name, Made(command[c])))'
  BY DEF Sure
<1>1. PICK r \in {command[c]} : r = command[c] /\ command'[c] = r
  OBVIOUS
<1>2. /\ ~alarm /\ (r.at = "note" => r.ok)
      /\ \A d \in Commanders \ {c} : Silent(d)
      /\ Relies(r.name, Made(r)) /\ Does(r.name, Made(r))
  BY <1>1 DEF Sure
<1>3. PICK name \in {r.name}, n \in {Made(r)} : name = r.name /\ n = Made(r)
  OBVIOUS
<1>4. (Relies(name, n) /\ Does(name, n))'
  BY <1>2, <1>3, StillRelies
<1>5. (Relies(command[c].name, Made(command[c])) /\ Does(command[c].name, Made(command[c])))'
  BY <1>1, <1>3, <1>4
<1> QED  BY <1>1, <1>2, <1>5

\* What a step of another thread leaves to a command that is sure of itself.
LEMMA OthersStep ==
  ASSUME CommandsTyped, NEW c \in Commanders, NEW d \in Commanders \ {c}, Sure(c),
         Commence(d) \/ Decide(d) \/ Finish(d) \/ Ask(d) \/ Ask_Fails(d) \/ Ask_Unheard(d) \/ Note(d)
  PROVE  Sure(c)'
<1>1. UNCHANGED <<poll, alarm>>
  BY DEF Commence, Decide, Finish, Ask, Ask_Fails, Ask_Unheard, Note
<1>2. \A e \in Commanders \ {d} : Silent(e) => Silent(e)'
  <2>1. ASSUME NEW e \in Commanders \ {d} PROVE Silent(e) => Silent(e)'
    <3>1. Place(command'[e]) = Place(command[e])
      BY CommandSteps DEF Moves
    <3>2. Notes(e)' = Notes(e)
      BY <3>1, SameNotes
    <3>3. command'[e].at = command[e].at
      BY <3>1, SamePlace
    <3> QED  BY <3>2, <3>3 DEF Silent
  <2> QED  BY <2>1
<1>3. CASE Ask(d) \/ Ask_Fails(d)
  <2>1. PICK s : command' = Disturbed(d, s)
    BY <1>3 DEF Ask, Ask_Fails
  <2>2. command'[c] = [command[c] EXCEPT !.clean = FALSE]
    BY <2>1 DEF Disturbed
  <2>3. ~command'[c].clean
    BY <2>2 DEF CommandsTyped
  <2> QED  BY <2>3 DEF Sure
<1>4. CASE Commence(d) \/ Decide(d) \/ Finish(d) \/ Ask_Unheard(d) \/ Note(d)
  <2>1. command'[c] = command[c] /\ pcr' = pcr
    BY <1>4 DEF Commence, Decide, Finish, Ask_Unheard, Note, CommandsTyped
  <2>2. SUFFICES ASSUME command[c].clean, command[c].at # "read" PROVE Sure(c)'
    BY <2>1 DEF Sure
  <2>3. \A e \in Commanders \ {c} : Silent(e)
    BY <2>2 DEF Sure
  <2>4. Silent(d)'
    <3>1. CASE Commence(d) \/ Decide(d) \/ Finish(d) \/ Note(d)
      <4>1. command'[d].at \in {"decide", "ask", "read"}
        BY <3>1, CommandSteps
      <4> QED  BY <4>1 DEF Silent
    <3>2. CASE Ask_Unheard(d)
      <4>1. Notes(d)' = Step(d).notes /\ ~Step(d).answered /\ command[d].at = "ask"
        BY <3>2, CommandSteps DEF Ask_Unheard
      <4>2. command[d].name \in CommandNames /\ command[d].i \in 1 .. Len(Program(command[d].name))
        BY <4>1 DEF CommandsTyped
      <4>3. command[d].name # "loop_close"
        <5>1. ASSUME command[d].name = "loop_close" PROVE Step(d).answered = TRUE
          <6>1. Program(command[d].name) = Loop_Close /\ Len(Loop_Close) = 2
            BY <5>1, SeveralExchanges, LoopCloseExchanges
          <6>2. command[d].i \in {1, 2}
            BY <4>2, <6>1
          <6> QED  BY <6>1, <6>2, LoopCloseExchanges DEF Step
        <5> QED  BY <4>1, <5>1
      <4>4. Calm(Step(d))
        BY <4>2, <4>3, CalmProgram DEF Step
      <4> QED  BY <4>1, <4>4 DEF Calm, Silent
    <3> QED  BY <1>4, <3>1, <3>2
  <2>5. \A e \in Commanders \ {c} : Silent(e) => Silent(e)'
    BY <1>2, <2>4
  <2>6. list'["Size"] = list["Size"] /\ list'["Loop"] = list["Loop"]
    <3>1. CASE Note(d)
      <4>1. list' = Update(list, Notes(d)) /\ command[d].at = "note"
        BY <3>1 DEF Note
      <4>2. DOMAIN Notes(d) \subseteq {"Save"}
        BY <2>3, <4>1 DEF Silent
      <4>3. "Size" \in DOMAIN list /\ "Loop" \in DOMAIN list
        BY DEF CommandsTyped, Idle
      <4>4. "Size" \notin DOMAIN Notes(d) /\ "Loop" \notin DOMAIN Notes(d)
        BY <4>2
      <4> QED  BY <4>1, <4>3, <4>4, ValueUpdate
    <3>2. CASE ~Note(d)
      BY <1>4, <3>2 DEF Commence, Decide, Finish, Ask_Unheard
    <3> QED  BY <3>1, <3>2
  <2>7. (Knows("Size") => Knows("Size")') /\ (Knows("Loop") => Knows("Loop")')
    BY <1>1, <2>1, <2>6 DEF Knows
  <2> QED  BY <1>1, <2>1, <2>5, <2>7, StaysSure
<1> QED  BY <1>3, <1>4

\* What the steps of Status_Master, of Error_Master and of the PCR leave to it.
LEMMA MastersStep ==
  ASSUME CommandsTyped, NEW c \in Commanders, Sure(c),
         Status_Read \/ Status_UpdateParameters \/ PCR_Opens \/ Error_Master \/ UNCHANGED commandVars
  PROVE  Sure(c)'
<1>1. CASE PCR_Opens
  <2>1. command'[c] = [command[c] EXCEPT !.clean = FALSE]
    BY <1>1 DEF PCR_Opens
  <2>2. ~command'[c].clean
    BY <2>1 DEF CommandsTyped
  <2> QED  BY <2>2 DEF Sure
<1>2. CASE Error_Master
  <2>1. alarm /\ command' = command
    BY <1>2 DEF Error_Master
  <2>2. ~(command[c].clean /\ command[c].at # "read")
    BY <2>1 DEF Sure
  <2> QED  BY <2>1, <2>2 DEF Sure
<1>3. CASE Status_Read \/ Status_UpdateParameters \/ UNCHANGED commandVars
  <2>1. UNCHANGED <<pcr, command, alarm>>
    BY <1>3 DEF Status_Read, Status_UpdateParameters, commandVars
  <2>2. \A d \in Commanders \ {c} : Silent(d) => Silent(d)'
    BY <2>1 DEF Silent, Notes, Step
  <2>3. ASSUME NEW p \in {"Size", "Loop"}, Knows(p) PROVE Knows(p)'
    <3>1. CASE Status_Read
      <4>1. list' = list /\ poll' = [q \in Polled |-> pcr[q]]
        BY <3>1 DEF Status_Read
      <4>2. p \in DOMAIN poll' => poll'[p] = pcr[p]
        BY <4>1
      <4> QED  BY <2>1, <2>3, <4>1, <4>2 DEF Knows
    <3>2. CASE Status_UpdateParameters
      <4>1. list' = Update(list, poll) /\ poll' = Nothing
        BY <3>2 DEF Status_UpdateParameters
      <4>2. p \in DOMAIN list
        BY DEF CommandsTyped, Idle
      <4>3. list'[p] = IF p \in DOMAIN poll THEN poll[p] ELSE list[p]
        BY <4>1, <4>2, ValueUpdate
      <4>4. p \notin DOMAIN poll'
        BY <4>1 DEF Nothing
      <4> QED  BY <2>1, <2>3, <4>3, <4>4 DEF Knows
    <3>3. CASE UNCHANGED commandVars
      BY <2>3, <3>3 DEF Knows, commandVars
    <3> QED  BY <1>3, <3>1, <3>2, <3>3
  <2> QED  BY <2>1, <2>2, <2>3, StaysSure
<1> QED  BY <1>1, <1>2, <1>3

\* The steps of the thread itself.
LEMMA BeginsSure ==
  ASSUME ListInv, NEW c \in Commanders, Commence(c)
  PROVE  Sure(c)'
<1>1. PICK name \in Commanded :
        command' = [command EXCEPT ![c] = [Waits EXCEPT !.at = "decide", !.name = name, !.clean = Alone(c)]]
  BY DEF Commence
<1>2. PICK s : s = [Waits EXCEPT !.at = "decide", !.name = name, !.clean = Alone(c)]
  OBVIOUS
<1>3. s.at = "decide" /\ s.name = name /\ s.i = 1 /\ s.clean = Alone(c)
  BY <1>2 DEF Waits
<1>4. command'[c] = s /\ \A d \in Commanders \ {c} : command'[d] = command[d]
  BY <1>1, <1>2 DEF ListInv, CommandsTyped
<1>5. command[c].at = "read" /\ UNCHANGED <<pcr, list, poll, alarm>>
  BY DEF Commence
<1>6. SUFFICES ASSUME Alone(c)
               PROVE  /\ ~alarm /\ \A d \in Commanders \ {c} : command[d].at = "read"
                      /\ Knows("Size") /\ Knows("Loop")
  <2>1. Made(s) = 0
    BY <1>3 DEF Made
  <2>2. Does(name, 0)
    BY DEF Does
  <2>3. Knows("Size") /\ Knows("Loop") => Relies(name, 0)
    BY DEF Relies
  <2>4. SUFFICES ASSUME command'[c].clean PROVE Sure(c)'
    BY DEF Sure
  <2>5. Alone(c)
    BY <1>3, <1>4, <2>4
  <2>6. /\ ~alarm /\ \A d \in Commanders \ {c} : command[d].at = "read"
        /\ Knows("Size") /\ Knows("Loop")
    BY <1>6, <2>5
  <2>7. (\A d \in Commanders \ {c} : Silent(d))'
    BY <1>4, <2>6 DEF Silent
  <2>8. (Relies(name, 0) /\ Does(name, 0))'
    BY <1>5, <2>2, <2>3, <2>6 DEF Relies, Does, Knows
  <2> QED  BY <1>3, <1>4, <1>5, <2>1, <2>6, <2>7, <2>8 DEF Sure
<1>7. InFlight(c) = {} /\ muddled = {} /\ \A d \in Commanders \ {c} : command[d].at = "read"
  BY <1>6 DEF Alone
<1>8. ~alarm /\ DOMAIN poll = {}
  <2>1. "Loop" \in DOMAIN Opened
    BY DEF Opened
  <2>2. "Loop" \notin InFlight(c)
    BY <1>7
  <2>3. ~alarm
    BY <2>1, <2>2, InTheAir
  <2>4. DOMAIN poll = {}
    BY <1>7 DEF InFlight
  <2> QED  BY <2>3, <2>4
<1>9. ASSUME NEW p \in {"Size", "Loop"} PROVE Knows(p)
  <2>1. p \in DOMAIN Idle
    BY DEF Idle
  <2>2. Told(p)
    BY <1>7, <2>1 DEF ListInv
  <2>3. \A d \in Commanders : ~Noting(d, p)
    BY <1>5, <1>7 DEF Noting
  <2>4. p \notin Others
    BY <1>8, <2>3, InOthers
  <2> QED  BY <1>8, <2>2, <2>4 DEF Told, Knows
<1> QED  BY <1>7, <1>8, <1>9

LEMMA OwnStep ==
  ASSUME ListInv, NEW c \in Commanders, Sure(c),
         Commence(c) \/ Decide(c) \/ Finish(c) \/ Ask(c) \/ Ask_Fails(c) \/ Ask_Unheard(c) \/ Note(c)
  PROVE  Sure(c)'
<1>0. CommandsTyped
  BY DEF ListInv
<1>1. PICK r \in CommandRecords : r = command[c] /\ Sound(r)
  BY <1>0 DEF CommandsTyped, Sound, CommandRecords
<1>2. PICK name \in CommandNames, k \in Nat \ {0}, n \in Int : name = r.name /\ k = r.i /\ n = Made(r)
  BY DEF CommandRecords, Made
<1>3. \A d \in Commanders \ {c} : Silent(d) => Silent(d)'
  <2>1. ASSUME NEW d \in Commanders \ {c} PROVE Silent(d) => Silent(d)'
    <3>1. Place(command'[d]) = Place(command[d])
      BY <1>0, CommandSteps DEF Moves
    <3>2. Notes(d)' = Notes(d)
      BY <3>1, SameNotes
    <3>3. command'[d].at = command[d].at
      BY <3>1, SamePlace
    <3> QED  BY <3>2, <3>3 DEF Silent
  <2> QED  BY <2>1
<1>4. UNCHANGED <<poll, alarm>>
  BY DEF Commence, Decide, Finish, Ask, Ask_Fails, Ask_Unheard, Note
<1>5. CASE Commence(c)
  BY <1>5, BeginsSure
<1>6. CASE Finish(c)
  <2>1. command'[c].at = "read"
    BY <1>0, <1>6, CommandSteps
  <2> QED  BY <2>1 DEF Sure
<1>7. CASE Ask_Fails(c) \/ Ask_Unheard(c)
  <2>1. ~command'[c].clean
    <3>1. CASE Ask_Fails(c)
      <4>1. PICK s : s = [r EXCEPT !.at = "note", !.ok = FALSE, !.clean = FALSE] /\ command' = Disturbed(c, s)
        BY <1>1, <3>1 DEF Ask_Fails
      <4>2. command'[c] = s
        BY <4>1 DEF Disturbed
      <4> QED  BY <4>1, <4>2 DEF CommandRecords
    <3>2. CASE Ask_Unheard(c)
      BY <1>0, <3>2 DEF Ask_Unheard, CommandsTyped
    <3> QED  BY <1>7, <3>1, <3>2
  <2> QED  BY <2>1 DEF Sure
\* The steps that leave the command as sure as it was.
<1>8. ASSUME NEW s \in CommandRecords, command'[c] = s, s.clean = r.clean, r.at # "read", s.name = name,
             s.at = "note" => s.ok,
             r.clean /\ Relies(name, n) /\ Does(name, n) => (Relies(name, Made(s)) /\ Does(name, Made(s)))'
      PROVE  Sure(c)'
  <2>1. SUFFICES ASSUME s.clean PROVE Sure(c)'
    BY <1>8 DEF Sure
  <2>2. ~alarm /\ (\A d \in Commanders \ {c} : Silent(d)) /\ Relies(name, n) /\ Does(name, n)
    BY <1>1, <1>2, <1>8, <2>1 DEF Sure
  <2>3. (\A d \in Commanders \ {c} : Silent(d))'
    BY <1>3, <2>2
  <2>4. PICK m \in {Made(s)} : m = Made(s)
    OBVIOUS
  <2>5. (Relies(name, m) /\ Does(name, m))'
    BY <1>8, <2>1, <2>2, <2>4
  <2>6. (Relies(command[c].name, Made(command[c])) /\ Does(command[c].name, Made(command[c])))'
    BY <1>8, <2>4, <2>5
  <2> QED  BY <1>4, <1>8, <2>2, <2>3, <2>6 DEF Sure
<1>9. CASE Decide(c)
  <2>1. /\ r.at = "decide" /\ k <= Len(Program(name)) /\ UNCHANGED <<pcr, list>>
        /\ command' = [command EXCEPT ![c] = IF Shown(Step(c).unless) THEN [r EXCEPT !.i = @ + Step(c).skip]
                                             ELSE [r EXCEPT !.at = "ask"]]
    BY <1>1, <1>2, <1>9 DEF Decide
  <2>2. k \in 1 .. Len(Program(name)) /\ Step(c) = Program(name)[k] /\ n = k - 1
    <3>1. Len(Program(name)) \in Nat
      BY ProgramLength
    <3> QED  BY <1>1, <1>2, <2>1, <3>1 DEF Step, Made
  <2>3. PICK skip \in Nat : skip = Program(name)[k].skip
    BY <2>2, HonestProgram DEF Honest
  <2>4. CASE Shown(Program(name)[k].unless)
    <3>1. PICK s : s = [r EXCEPT !.i = k + skip]
      OBVIOUS
    <3>2. s \in CommandRecords /\ s.at = "decide" /\ s.clean = r.clean /\ s.name = name /\ s.i = k + skip
      <4>1. k + skip \in Nat \ {0}
        OBVIOUS
      <4> QED  BY <1>2, <2>1, <3>1, <4>1 DEF CommandRecords
    <3>3. command' = [command EXCEPT ![c] = s]
      BY <1>2, <2>1, <2>2, <2>3, <2>4, <3>1
    <3>4. command'[c] = s
      BY <1>0, <3>3 DEF CommandsTyped
    <3>5. PICK m \in Int : m = k - 1 + skip /\ Made(s) = m
      BY <3>2 DEF Made
    <3>6. Relies(name, n) /\ Does(name, n) => Relies(name, m) /\ Does(name, m)
      BY <1>0, <2>2, <2>3, <2>4, <3>5, PassedOver
    <3>7. Relies(name, n) /\ Does(name, n) => (Relies(name, m) /\ Does(name, m))'
      BY <1>4, <2>1, <3>6 DEF Relies, Does, Knows
    <3> QED  BY <1>8, <2>1, <3>2, <3>4, <3>5, <3>7
  <2>5. CASE ~Shown(Program(name)[k].unless)
    <3>1. PICK s : s = [r EXCEPT !.at = "ask"]
      OBVIOUS
    <3>2. s \in CommandRecords /\ s.at = "ask" /\ s.clean = r.clean /\ s.name = name /\ s.i = k
      BY <1>2, <3>1 DEF CommandRecords
    <3>3. command' = [command EXCEPT ![c] = s]
      BY <2>1, <2>2, <2>5, <3>1
    <3>4. command'[c] = s
      BY <1>0, <3>3 DEF CommandsTyped
    <3>5. Made(s) = n
      BY <2>2, <3>2 DEF Made
    <3>7. Relies(name, n) /\ Does(name, n) => (Relies(name, n) /\ Does(name, n))'
      BY <1>4, <2>1 DEF Relies, Does, Knows
    <3> QED  BY <1>8, <2>1, <3>2, <3>4, <3>5, <3>7
  <2> QED  BY <2>4, <2>5
<1>10. CASE Ask(c)
  <2>1. PICK s : s = [r EXCEPT !.at = "note", !.ok = TRUE] /\ command' = Disturbed(c, s)
    BY <1>1, <1>10 DEF Ask
  <2>2. r.at = "ask" /\ pcr' = Update(pcr, Step(c).does) /\ list' = list
    BY <1>1, <1>10 DEF Ask
  <2>3. k \in 1 .. Len(Program(name)) /\ Step(c) = Program(name)[k] /\ n = k - 1
    BY <1>1, <1>2, <2>2 DEF Sound, Step, Made
  <2>4. s \in CommandRecords /\ s.at = "note" /\ s.ok = TRUE /\ s.clean = r.clean /\ s.name = name /\ s.i = k
    BY <1>2, <2>1 DEF CommandRecords
  <2>5. command'[c] = s
    BY <2>1 DEF Disturbed
  <2>6. Made(s) = k
    BY <2>4 DEF Made
  <2>7. Relies(name, n) /\ Does(name, n) => (Relies(name, k) /\ Does(name, k))'
    BY <1>0, <1>4, <2>2, <2>3, AskDone
  <2> QED  BY <1>8, <2>2, <2>4, <2>5, <2>6, <2>7
<1>11. CASE Note(c)
  <2>1. SUFFICES ASSUME r.clean PROVE Sure(c)'
    <3>1. command' = [command EXCEPT ![c].at = "decide",
                                     ![c].i = IF ~r.ok /\ Step(c).fatal THEN Len(Program(r.name)) + 1 ELSE r.i + 1]
      BY <1>1, <1>11 DEF Note
    <3>2. command'[c].clean = command[c].clean
      BY <1>0, <3>1 DEF CommandsTyped
    <3> QED  BY <1>1, <2>1, <3>2 DEF Sure
  <2>2. r.at = "note" /\ r.ok
    <3>1. r.at = "note"
      BY <1>1, <1>11 DEF Note
    <3> QED  BY <1>1, <2>1, <3>1 DEF Sure
  <2>3. command' = [command EXCEPT ![c].at = "decide", ![c].i = k + 1]
    <3>1. command' = [command EXCEPT ![c].at = "decide",
                                     ![c].i = IF ~r.ok /\ Step(c).fatal THEN Len(Program(r.name)) + 1 ELSE r.i + 1]
      BY <1>1, <1>11 DEF Note
    <3>2. r.i + 1 = IF ~r.ok /\ Step(c).fatal THEN Len(Program(r.name)) + 1 ELSE r.i + 1
      BY <2>2
    <3> QED  BY <1>2, <3>1, <3>2
  <2>4. PICK s : s = [r EXCEPT !.at = "decide", !.i = k + 1]
    OBVIOUS
  <2>5. s \in CommandRecords /\ s.at = "decide" /\ s.clean = r.clean /\ s.name = name /\ s.i = k + 1
    <3>1. k + 1 \in Nat \ {0}
      OBVIOUS
    <3> QED  BY <1>2, <2>4, <3>1 DEF CommandRecords
  <2>6. command'[c] = s
    BY <1>0, <1>1, <2>3, <2>4 DEF CommandsTyped, CommandRecords
  <2>7. k \in 1 .. Len(Program(name)) /\ n = k /\ Step(c) = Program(name)[k]
    BY <1>1, <1>2, <2>2 DEF Sound, Step, Made
  <2>8. Made(s) = k
    <3>1. s.i - 1 = k
      BY <2>5
    <3> QED  BY <2>5, <3>1 DEF Made
  <2>9. list' = Update(list, Program(name)[k].notes) /\ pcr' = pcr
    BY <1>1, <1>11, <2>2, <2>7 DEF Note, Notes
  <2>10. Relies(name, n) /\ Does(name, n) => (Relies(name, k) /\ Does(name, k))'
    BY <1>0, <1>4, <2>7, <2>9, NoteDone
  <2> QED  BY <1>8, <2>2, <2>5, <2>6, <2>8, <2>10
<1> QED  BY <1>5, <1>6, <1>7, <1>9, <1>10, <1>11

LEMMA StepSure == DoInv /\ [Commands_Next]_commandVars => DoInv'
<1> SUFFICES ASSUME DoInv, [Commands_Next]_commandVars PROVE DoInv'
  OBVIOUS
<1>1. ListInv /\ ListInv' /\ CommandsTyped
  BY StepList DEF DoInv, ListInv
<1>2. ASSUME NEW c \in Commanders PROVE Sure(c)'
  <2>1. Sure(c)
    BY DEF DoInv
  <2>2. ASSUME NEW d \in Commanders,
               Commence(d) \/ Decide(d) \/ Finish(d) \/ Ask(d) \/ Ask_Fails(d) \/ Ask_Unheard(d) \/ Note(d)
        PROVE  Sure(c)'
    <3>1. CASE d = c
      BY <1>1, <2>1, <2>2, <3>1, OwnStep
    <3>2. CASE d # c
      BY <1>1, <2>1, <2>2, <3>2, OthersStep
    <3> QED  BY <3>1, <3>2
  <2>3. CASE Status_Read \/ Status_UpdateParameters \/ PCR_Opens \/ Error_Master \/ UNCHANGED commandVars
    BY <1>1, <2>1, <2>3, MastersStep
  <2> QED  BY <2>2, <2>3 DEF Commands_Next
<1> QED  BY <1>1, <1>2 DEF DoInv

LEMMA InitSure == Commands_Init => DoInv
<1> SUFFICES ASSUME Commands_Init PROVE DoInv
  OBVIOUS
<1>1. \A c \in Commanders : command[c].at = "read"
  BY DEF Commands_Init, Waits
<1> QED  BY <1>1, InitList DEF DoInv, Sure

\* Which thread takes a step to its next place.
LEMMA WhoMoves ==
  ASSUME CommandsTyped, [Commands_Next]_commandVars, NEW c \in Commanders, command'[c].at # command[c].at
  PROVE  Commence(c) \/ Decide(c) \/ Finish(c) \/ Ask(c) \/ Ask_Fails(c) \/ Ask_Unheard(c) \/ Note(c)
<1>1. ASSUME NEW d \in Commanders \ {c},
             Commence(d) \/ Decide(d) \/ Finish(d) \/ Ask(d) \/ Ask_Fails(d) \/ Ask_Unheard(d) \/ Note(d)
      PROVE  FALSE
  <2>1. Place(command'[c]) = Place(command[c])
    BY <1>1, CommandSteps DEF Moves
  <2> QED  BY <2>1, SamePlace
<1>2. CASE Status_Read \/ Status_UpdateParameters \/ Error_Master \/ UNCHANGED commandVars
  BY <1>2 DEF Status_Read, Status_UpdateParameters, Error_Master, commandVars
<1>3. CASE PCR_Opens
  <2>1. command'[c] = [command[c] EXCEPT !.clean = FALSE]
    BY <1>3 DEF PCR_Opens
  <2> QED  BY <2>1 DEF CommandsTyped
<1> QED  BY <1>1, <1>2, <1>3 DEF Commands_Next

\* What a command has done when it is at its end.
Promised(name) ==
  CASE name = "cam_test"   -> pcr.Source = "Test" /\ pcr.Size # "--"
    [] name = "cam_image"  -> pcr.Source = "Camera" /\ pcr.Size # "--"
    [] name = "cam_stop"   -> ~pcr.Running /\ ~pcr.Loop
    [] name = "loop_close" -> pcr.Loop /\ pcr.Gain = 0
    [] name = "loop_open"  -> ~pcr.Loop /\ pcr.Gain = 0
    [] name = "cam_bg_set" -> pcr.Bg /\ pcr.Background = "new"
    [] OTHER -> TRUE

LEMMA AtItsEnd == ASSUME NEW name, NEW n \in Int, Does(name, n), n >= 2 PROVE Promised(name)
BY DEF Does, Promised

LEMMA EndsWell ==
  ASSUME DoInv, [Commands_Next]_commandVars, NEW c \in Commanders,
         command[c].clean, command[c].at # "read", command'[c].at = "read"
  PROVE  Promised(command[c].name)
<1>0. CommandsTyped
  BY DEF DoInv, ListInv
<1>1. Finish(c)
  <2>1. Commence(c) \/ Decide(c) \/ Finish(c) \/ Ask(c) \/ Ask_Fails(c) \/ Ask_Unheard(c) \/ Note(c)
    BY <1>0, WhoMoves
  <2>2. /\ Commence(c) => command'[c].at = "decide"
        /\ Decide(c) => command'[c].at \in {"decide", "ask"}
        /\ (Ask(c) \/ Ask_Fails(c) \/ Ask_Unheard(c)) => command'[c].at = "note"
        /\ Note(c) => command'[c].at = "decide"
    BY <1>0, CommandSteps
  <2> QED  BY <2>1, <2>2
<1>2. command[c].at = "decide" /\ command[c].i > Len(Program(command[c].name))
  BY <1>1 DEF Finish
<1>3. PICK name \in CommandNames, k \in Nat : name = command[c].name /\ k = command[c].i
  BY <1>0 DEF CommandsTyped
<1>4. PICK n \in Int : n = k - 1 /\ n = Made(command[c])
  BY <1>2, <1>3 DEF Made
<1>5. Does(name, n)
  BY <1>2, <1>3, <1>4 DEF DoInv, Sure
<1>6. CASE name \in Several
  <2>1. PICK length \in {2, 3} : length = Len(Program(name))
    BY <1>6, SeveralExchanges, CamTestExchanges, CamImageExchanges, CamStopExchanges, LoopCloseExchanges,
       LoopOpenExchanges, CamBgSetExchanges DEF Several
  <2>2. n >= 2
    <3>1. k > length
      BY <1>2, <1>3, <2>1
    <3>2. n = k - 1
      BY <1>4
    <3> QED  BY <3>1, <3>2
  <2> QED  BY <1>3, <1>5, <2>2, AtItsEnd
<1>7. CASE name \notin Several
  BY <1>3, <1>7 DEF Several, Promised
<1> QED  BY <1>6, <1>7

LEMMA ClosesAtZero ==
  ASSUME DoInv, [Commands_Next]_commandVars, NEW c \in Commanders,
         command[c].clean, command[c].at = "ask", command'[c].at = "note", ~pcr.Loop, pcr'.Loop
  PROVE  pcr.Gain = 0
<1>0. CommandsTyped
  BY DEF DoInv, ListInv
<1>1. Ask(c) \/ Ask_Fails(c) \/ Ask_Unheard(c)
  <2>1. Commence(c) \/ Decide(c) \/ Finish(c) \/ Ask(c) \/ Ask_Fails(c) \/ Ask_Unheard(c) \/ Note(c)
    BY <1>0, WhoMoves
  <2> QED  BY <2>1 DEF Commence, Decide, Finish, Note
<1>2. pcr' = pcr \/ pcr' = Update(pcr, Step(c).does)
  BY <1>1 DEF Ask, Ask_Fails, Ask_Unheard
<1>3. pcr' = Update(pcr, Step(c).does)
  BY <1>2
<1>4. PICK name \in CommandNames, k \in 1 .. Len(Program(command[c].name)) : name = command[c].name /\ k = command[c].i
  BY <1>0 DEF CommandsTyped
<1>5. PICK s : s = Step(c) /\ s = Program(name)[k]
  BY <1>4 DEF Step
<1>6. ~Leaves(s, "Loop") /\ ~Sets(s, "Loop", FALSE)
  <2>1. "Loop" \in DOMAIN pcr
    BY <1>0 DEF CommandsTyped, Idle
  <2>2. pcr'["Loop"] = IF "Loop" \in DOMAIN s.does THEN s.does["Loop"] ELSE pcr["Loop"]
    BY <1>3, <1>5, <2>1, ValueUpdate
  <2> QED  BY <2>2 DEF Leaves, Sets
<1>7. name = "loop_close"
  <2>1. name # "loop_close" => Calm(s)
    BY <1>4, <1>5, CalmProgram
  <2> QED  BY <1>6, <2>1 DEF Calm
<1>8. k = 2
  <2>1. Program(name) = Loop_Close /\ Len(Loop_Close) = 2
    BY <1>7, SeveralExchanges, LoopCloseExchanges
  <2>2. k \in {1, 2}
    BY <1>4, <2>1
  <2>3. Leaves(Loop_Close[1], "Loop")
    BY LoopCloseExchanges
  <2> QED  BY <1>5, <1>6, <2>1, <2>2, <2>3
<1>9. Made(command[c]) = 1
  BY <1>4, <1>8 DEF Made
<1>10. Does("loop_close", 1)
  BY <1>4, <1>7, <1>9 DEF DoInv, Sure
<1> QED  BY <1>10 DEF Does

\* A command of one operator that meets no other and no failure has made the
\* PC-Reconstructor do, when it ends, what its name promises, through all its
\* exchanges and the list that it looks at before some of them; and it closes
\* the loop only at a gain of zero, whatever Status_Master and the threads of
\* other operators do meanwhile that does not disturb it (PCR_Process.c).
THEOREM CommandsDoRight == Commands_Spec => CommandsRight
<1>1. DoInv /\ [Commands_Next]_commandVars =>
        [\A c \in Commanders :
           command[c].clean /\ command[c].at # "read" /\ command'[c].at = "read" => Promised(command[c].name)]_commandVars
  BY EndsWell
<1>2. DoInv /\ [Commands_Next]_commandVars =>
        [\A c \in Commanders :
           command[c].clean /\ command[c].at = "ask" /\ command'[c].at = "note" /\ ~pcr.Loop /\ pcr'.Loop
             => pcr.Gain = 0]_commandVars
  BY ClosesAtZero
<1> QED  BY <1>1, <1>2, InitSure, StepSure, PTL DEF Commands_Spec, CommandsRight, CommandsDo, ClosesAtZeroGain, Promised
-----------------------------------------------------------------------------
(* InfoData: the list and the array beside each other.                     *)

InfoDataInv == ListInv /\ DoInv /\ ArrayInv /\ ReplyInv

LEMMA StepInfoData ==
  ASSUME SingleWriter
  PROVE  InfoDataInv /\ [Data_Next]_dataVars => InfoDataInv' /\ [Commands_Next]_commandVars
<1> SUFFICES ASSUME InfoDataInv, [Data_Next]_dataVars
             PROVE  InfoDataInv' /\ [Commands_Next]_commandVars
  OBVIOUS
<1>1. [Commands_Next]_commandVars /\ [Next]_vars
  BY DEF Data_Next, List, Array, dataVars
<1>2. ListInv' /\ DoInv'
  BY <1>1, StepList, StepSure DEF InfoDataInv
<1>3. ArrayInv' /\ ReplyInv'
  BY <1>1, StepArray, StepReply DEF InfoDataInv
<1> QED
  BY <1>1, <1>2, <1>3 DEF InfoDataInv

\* What holds of the list of parameters and of the array of seeing values alone holds of
\* both beside each other.
THEOREM InfoDataRight ==
  SingleWriter => (Data_Spec => [](ListFollows /\ ArrayRight /\ QuietReply) /\ CommandsRight)
<1> SUFFICES ASSUME SingleWriter
             PROVE  Data_Spec => [](ListFollows /\ ArrayRight /\ QuietReply) /\ CommandsRight
  OBVIOUS
<1>1. Data_Init => InfoDataInv
  BY InitList, InitSure, InitArray, InitReply DEF Data_Init, InfoDataInv
<1>2. InfoDataInv => ListFollows /\ ArrayRight /\ QuietReply
  BY ListFromInv, ArrayFromInv, QuietFollows DEF InfoDataInv, ArrayRight
<1>3. InfoDataInv /\ [Data_Next]_dataVars => InfoDataInv' /\ [Commands_Next]_commandVars
  BY StepInfoData
<1>4. DoInv /\ [Commands_Next]_commandVars =>
        [\A c \in Commanders :
           command[c].clean /\ command[c].at # "read" /\ command'[c].at = "read" => Promised(command[c].name)]_commandVars
  BY EndsWell
<1>5. DoInv /\ [Commands_Next]_commandVars =>
        [\A c \in Commanders :
           command[c].clean /\ command[c].at = "ask" /\ command'[c].at = "note" /\ ~pcr.Loop /\ pcr'.Loop
             => pcr.Gain = 0]_commandVars
  BY ClosesAtZero
<1>6. InfoDataInv => DoInv
  BY DEF InfoDataInv
<1> QED
  BY <1>1, <1>2, <1>3, <1>4, <1>5, <1>6, PTL
     DEF Data_Spec, CommandsRight, CommandsDo, ClosesAtZeroGain, Promised
=============================================================================
