--------------------------- MODULE Platform_proofs ---------------------------
(***************************************************************************)
(* Proofs about the services of MCPlatform, for every number of tenants,   *)
(* nested blocks, notifications, workers, customers, calls, employees,     *)
(* tabs, stock rows, orders, lines and payments, and requests about them.  *)
(* A behaviour of the platform is one of each part that may also stand     *)
(* still, so a part's invariant is proved of the part's own steps.         *)
(***************************************************************************)
EXTENDS MCPlatform, Sums_proofs, SequenceTheorems

LEMMA Behaviour ==
    PlatformSpec =>
      PlatformInit /\ [][PlatformNext]_<<part, accessVars, configVars, bindingVars, noticeVars,
                                         clubVars, leavingVars, recordVars, bookVars, deskVars,
                                         shelfVars, countVars>>
BY PTL DEF PlatformSpec

-----------------------------------------------------------------------------
(* Document numbers: for any callers, days, numbers and attempts, and whatever *)
(* numbers older software issued.                                            *)

\* What a caller may hold between its steps.
Held ==
    [at : {"out"}] \union [at : {"arrived"}, on : Days]
        \union [at : {"locked", "numbered"}, on : Days, value : 0..MaxNumber, attempts : Nat]

RowsTyped ==
    /\ day \in Days
    /\ lastNumber \in [Days -> 0..MaxNumber]
    /\ issued \in [Days -> [Numbers -> Nat]]
    /\ issuer \in [Issuers -> Held]

\* A day's row is locked by one caller.
OneHolder ==
    \A x, y \in Issuers, d \in Days : Holds(x, d) /\ Holds(y, d) => x = y

\* Nothing above the committed counter is issued, and everything up to it is.
CounterTells ==
    \A d \in Days, n \in Numbers :
        issued[d][n] = IF n <= lastNumber[d] /\ <<d, n>> \notin legacy THEN 1 ELSE 0

\* A number in hand is new, and those its caller has passed over are old.
AtCounter(x) == issuer[x].at \in {"locked", "numbered"}

HandIsNew(x) ==
    AtCounter(x) =>
        /\ issuer[x].value >= lastNumber[issuer[x].on]
        /\ \A n \in Numbers :
              n > lastNumber[issuer[x].on] /\ n < issuer[x].value => <<issuer[x].on, n>> \in legacy
        /\ issuer[x].at = "locked" =>
              issuer[x].value = lastNumber[issuer[x].on] \/ <<issuer[x].on, issuer[x].value>> \in legacy
        /\ issuer[x].at = "numbered" =>
              issuer[x].value > lastNumber[issuer[x].on] /\ <<issuer[x].on, issuer[x].value>> \notin legacy

HandsAreNew == \A x \in Issuers : HandIsNew(x)

OrdersHaveNoLegacy == scope # "invoice" => legacy = {}

Counting == RowsTyped /\ OneHolder /\ CounterTells /\ HandsAreNew /\ OrdersHaveNoLegacy

LEMMA CountingInit == Init => Counting
<1> SUFFICES ASSUME Init PROVE Counting
  OBVIOUS
<1>1. Out \in Held
  BY DEF Out, Held
<1>2. RowsTyped
  BY <1>1, NumberingAssumption DEF Init, RowsTyped, Days, Numbers
<1>3. OneHolder /\ HandsAreNew
  BY DEF Init, OneHolder, Holds, HandsAreNew, HandIsNew, AtCounter, Out
<1>4. CounterTells
  BY NumberingAssumption DEF Init, CounterTells, Days, Numbers
<1> QED
  BY <1>2, <1>3, <1>4 DEF Init, Counting, OrdersHaveNoLegacy

\* What a caller holds of a counter, if anything.
LEMMA HandTyped ==
    ASSUME RowsTyped, NEW x \in Issuers, AtCounter(x)
    PROVE  /\ issuer[x].on \in Days /\ issuer[x].value \in 0..MaxNumber
           /\ issuer[x].attempts \in Nat
  BY DEF RowsTyped, Held, AtCounter

\* A step of one caller that leaves the rows alone leaves the others' hands new.
LEMMA OtherHands ==
    ASSUME HandsAreNew, NEW x \in Issuers, NEW y \in Issuers \ {x}, issuer'[y] = issuer[y],
           UNCHANGED <<lastNumber, legacy>>
    PROVE  HandIsNew(y)'
  BY DEF HandsAreNew, HandIsNew, AtCounter

\* A caller that lets go, or has yet to come to the counter, holds no day.
LEMMA Unlocks ==
    ASSUME RowsTyped, OneHolder, NEW x \in Issuers, NEW holding \in Held, holding.at \in {"out", "arrived"},
           issuer' = [issuer EXCEPT ![x] = holding]
    PROVE  issuer' \in [Issuers -> Held] /\ OneHolder' /\ HandIsNew(x)'
<1>1. issuer' \in [Issuers -> Held] /\ ~AtCounter(x)'
  BY DEF RowsTyped, AtCounter
<1>2. \A y \in Issuers, d \in Days : Holds(y, d)' => Holds(y, d)
  BY DEF RowsTyped, Holds
<1> QED
  BY <1>1, <1>2 DEF OneHolder, HandIsNew

\* Each step of a caller changes what that caller holds, and only Commit the rows.
LEMMA CountingStep == Counting /\ [Next]_numberVars => Counting'
<1> SUFFICES ASSUME Counting, [Next]_numberVars PROVE Counting'
  OBVIOUS
<1> USE DEF Counting
<1>1. CASE Midnight
  <2>1. RowsTyped'
    BY <1>1, NumberingAssumption DEF Midnight, RowsTyped, Days
  <2> QED
    BY <1>1, <2>1 DEF Midnight, OneHolder, Holds, CounterTells, HandsAreNew, HandIsNew, AtCounter,
                      OrdersHaveNoLegacy
<1>2. ASSUME NEW x \in Issuers, Arrive(x) PROVE Counting'
  <2> DEFINE holding == [at |-> "arrived", on |-> day]
  <2>1. holding \in Held /\ holding.at = "arrived"
    BY DEF Held, RowsTyped
  <2>2. issuer' = [issuer EXCEPT ![x] = holding]
    BY <1>2 DEF Arrive
  <2> HIDE DEF holding
  <2>3. RowsTyped' /\ OneHolder' /\ HandIsNew(x)'
    BY <1>2, <2>1, <2>2, Unlocks DEF Arrive, RowsTyped
  <2>4. \A y \in Issuers \ {x} : HandIsNew(y)'
    BY <1>2, <2>2, OtherHands DEF Arrive, RowsTyped
  <2> QED
    BY <1>2, <2>3, <2>4 DEF Arrive, CounterTells, HandsAreNew, OrdersHaveNoLegacy
<1>3. ASSUME NEW x \in Issuers, LockCounter(x) PROVE Counting'
  <2> DEFINE d == issuer[x].on
             holding == [at |-> "locked", on |-> d, value |-> lastNumber[d], attempts |-> 0]
  <2>1. d \in Days /\ lastNumber[d] \in 0..MaxNumber
    BY <1>3 DEF LockCounter, RowsTyped, Held
  <2>2. holding \in Held
    BY <2>1 DEF Held
  <2>3. /\ issuer' \in [Issuers -> Held] /\ issuer'[x] = holding
        /\ \A y \in Issuers \ {x} : issuer'[y] = issuer[y]
    BY <1>3, <2>2 DEF LockCounter, RowsTyped
  <2>4. OneHolder'
    <3>1. \A y \in Issuers : ~Holds(y, d)
      BY <1>3 DEF LockCounter, RowIsFree
    <3>2. \A y \in Issuers \ {x}, e \in Days : Holds(y, e)' => Holds(y, e)
      BY <2>3 DEF Holds
    <3>3. \A e \in Days : Holds(x, e)' => e = d
      BY <2>3 DEF Holds
    <3> QED
      BY <3>1, <3>2, <3>3 DEF OneHolder
  <2>5. HandIsNew(x)'
    BY <1>3, <2>1, <2>3 DEF LockCounter, HandIsNew, Numbers
  <2>6. \A y \in Issuers \ {x} : HandIsNew(y)'
    BY <1>3, <2>3, OtherHands DEF LockCounter
  <2> QED
    BY <1>3, <2>3, <2>4, <2>5, <2>6
    DEF LockCounter, RowsTyped, CounterTells, HandsAreNew, OrdersHaveNoLegacy
<1>4. ASSUME NEW x \in Issuers, NextNumber(x) PROVE Counting'
  <2> DEFINE d == issuer[x].on
             n == issuer[x].value + 1
             holding == [at |-> IF Taken(d, n) THEN "locked" ELSE "numbered",
                      on |-> d, value |-> n, attempts |-> issuer[x].attempts + 1]
  <2>1. AtCounter(x) /\ issuer[x].at = "locked" /\ issuer[x].value < MaxNumber
    BY <1>4 DEF NextNumber, AtCounter
  <2>2. /\ d \in Days /\ n \in Numbers /\ n \in 0..MaxNumber /\ issuer[x].attempts + 1 \in Nat
        /\ lastNumber[d] \in 0..MaxNumber /\ issuer[x].value \in 0..MaxNumber
    BY <2>1, HandTyped, NumberingAssumption DEF RowsTyped, Numbers
  <2>3. holding \in Held
    BY <2>2 DEF Held
  <2>4. /\ issuer' \in [Issuers -> Held] /\ issuer'[x] = holding
        /\ \A y \in Issuers \ {x} : issuer'[y] = issuer[y]
    BY <1>4, <2>3 DEF NextNumber, RowsTyped
  <2>5. OneHolder'
    <3>1. \A y \in Issuers, e \in Days : Holds(y, e)' => Holds(y, e)
      BY <2>1, <2>4 DEF Holds
    <3> QED
      BY <3>1 DEF OneHolder
  <2>6. /\ issuer[x].value >= lastNumber[d]
        /\ \A m \in Numbers : m > lastNumber[d] /\ m < n => <<d, m>> \in legacy
    <3>1. /\ issuer[x].value >= lastNumber[d]
          /\ \A m \in Numbers : m > lastNumber[d] /\ m < issuer[x].value => <<d, m>> \in legacy
          /\ issuer[x].value = lastNumber[d] \/ <<d, issuer[x].value>> \in legacy
      BY <2>1 DEF HandsAreNew, HandIsNew
    <3>2. ASSUME NEW m \in Numbers, m > lastNumber[d], m < n PROVE <<d, m>> \in legacy
      <4>1. m < issuer[x].value \/ m = issuer[x].value
        BY <2>2, <3>2 DEF Numbers
      <4>2. CASE m = issuer[x].value
        BY <2>2, <3>1, <3>2, <4>2
      <4> QED
        BY <3>1, <3>2, <4>1, <4>2
    <3> QED
      BY <3>1, <3>2
  <2>7. Taken(d, n) <=> <<d, n>> \in legacy
    BY <2>2, <2>6 DEF Taken, CounterTells, OrdersHaveNoLegacy
  <2>8. HandIsNew(x)'
    <3>1. /\ issuer'[x].on = d /\ issuer'[x].value = n
          /\ issuer'[x].at = "locked" => Taken(d, n)
          /\ issuer'[x].at = "numbered" => ~Taken(d, n)
      BY <2>4
    <3>2. lastNumber' = lastNumber /\ legacy' = legacy /\ n > lastNumber[d]
      BY <1>4, <2>2, <2>6 DEF NextNumber
    <3>3. issuer'[x].value >= lastNumber'[issuer'[x].on] /\ issuer'[x].value > lastNumber'[issuer'[x].on]
      BY <2>2, <3>1, <3>2
    <3>4. \A m \in Numbers :
             m > lastNumber'[issuer'[x].on] /\ m < issuer'[x].value => <<issuer'[x].on, m>> \in legacy'
      BY <2>6, <3>1, <3>2
    <3>5. /\ issuer'[x].at = "locked" => <<issuer'[x].on, issuer'[x].value>> \in legacy'
          /\ issuer'[x].at = "numbered" => <<issuer'[x].on, issuer'[x].value>> \notin legacy'
      BY <2>7, <3>1, <3>2
    <3> QED
      BY <3>3, <3>4, <3>5 DEF HandIsNew
  <2>9. \A y \in Issuers \ {x} : HandIsNew(y)'
    BY <1>4, <2>4, OtherHands DEF NextNumber
  <2> QED
    BY <1>4, <2>4, <2>5, <2>8, <2>9
    DEF NextNumber, RowsTyped, CounterTells, HandsAreNew, OrdersHaveNoLegacy
<1>5. ASSUME NEW x \in Issuers, Commit(x) PROVE Counting'
  <2> DEFINE d == issuer[x].on
             v == issuer[x].value
  <2>1. AtCounter(x) /\ Holds(x, d)
    BY <1>5 DEF Commit, AtCounter, Holds
  <2>2. /\ d \in Days /\ v \in 0..MaxNumber /\ lastNumber[d] \in 0..MaxNumber
        /\ v > lastNumber[d] /\ <<d, v>> \notin legacy
        /\ \A n \in Numbers : n > lastNumber[d] /\ n < v => <<d, n>> \in legacy
    BY <1>5, <2>1, HandTyped DEF Commit, RowsTyped, HandsAreNew, HandIsNew
  <2>3. v \in Numbers
    BY <2>2 DEF Numbers
  <2>4. Out \in Held /\ Out.at = "out"
    BY DEF Out, Held
  <2>5. issuer' \in [Issuers -> Held] /\ OneHolder' /\ HandIsNew(x)'
    BY <1>5, <2>4, Unlocks DEF Commit
  <2>6. /\ lastNumber' \in [Days -> 0..MaxNumber]
        /\ lastNumber'[d] = v /\ \A e \in Days \ {d} : lastNumber'[e] = lastNumber[e]
    BY <1>5, <2>2 DEF Commit, RowsTyped
  <2>7. /\ issued' = [issued EXCEPT ![d] = [issued[d] EXCEPT ![v] = issued[d][v] + 1]]
        /\ issued[d] \in [Numbers -> Nat]
    BY <1>5, <2>2 DEF Commit, RowsTyped
  <2>8. /\ issued' \in [Days -> [Numbers -> Nat]]
        /\ \A e \in Days \ {d} : issued'[e] = issued[e]
        /\ \A n \in Numbers : issued'[d][n] = IF n = v THEN issued[d][n] + 1 ELSE issued[d][n]
    BY <2>2, <2>3, <2>7 DEF RowsTyped
  <2>9. CounterTells'
    <3>1. legacy' = legacy
      BY <1>5 DEF Commit
    <3>2. ASSUME NEW n \in Numbers
          PROVE  issued'[d][n] = IF n <= lastNumber'[d] /\ <<d, n>> \notin legacy THEN 1 ELSE 0
      <4>1. issued[d][n] = IF n <= lastNumber[d] /\ <<d, n>> \notin legacy THEN 1 ELSE 0
        BY <2>2 DEF CounterTells
      <4>2. issued'[d][n] = (IF n = v THEN issued[d][n] + 1 ELSE issued[d][n]) /\ lastNumber'[d] = v
        BY <2>6, <2>8
      <4>3. n \in Int /\ v \in Int /\ lastNumber[d] \in Int /\ lastNumber[d] < v
        BY <2>2 DEF Numbers
      <4>4. n > lastNumber[d] /\ n < v => <<d, n>> \in legacy
        BY <2>2
      <4> HIDE DEF d, v
      <4>5. CASE n = v
        BY <2>2, <4>1, <4>2, <4>3, <4>5
      <4>6. CASE n # v
        BY <4>1, <4>2, <4>3, <4>4, <4>6
      <4> QED
        BY <4>5, <4>6
    <3>3. ASSUME NEW e \in Days \ {d}, NEW n \in Numbers
          PROVE  issued'[e][n] = IF n <= lastNumber'[e] /\ <<e, n>> \notin legacy THEN 1 ELSE 0
      BY <2>6, <2>8 DEF CounterTells
    <3> QED
      BY <3>1, <3>2, <3>3 DEF CounterTells
  <2>10. ASSUME NEW y \in Issuers \ {x} PROVE HandIsNew(y)'
    <3>1. issuer'[y] = issuer[y] /\ legacy' = legacy
      BY <1>5 DEF Commit, RowsTyped
    <3>2. CASE ~AtCounter(y)
      BY <3>1, <3>2 DEF HandIsNew, AtCounter
    <3>3. CASE AtCounter(y)
      <4>1. issuer[y].on \in Days /\ issuer[y].on # d
        BY <2>1, <2>2, <3>3, HandTyped DEF OneHolder, Holds, AtCounter
      <4> QED
        BY <2>6, <3>1, <4>1 DEF HandsAreNew, HandIsNew, AtCounter
    <3> QED
      BY <3>2, <3>3
  <2> QED
    BY <1>5, <2>5, <2>6, <2>8, <2>9, <2>10 DEF Commit, RowsTyped, HandsAreNew, OrdersHaveNoLegacy
<1>6. ASSUME NEW x \in Issuers, Rollback(x) PROVE Counting'
  <2>1. Out \in Held /\ Out.at = "out"
    BY DEF Out, Held
  <2>2. RowsTyped' /\ OneHolder' /\ HandIsNew(x)'
    BY <1>6, <2>1, Unlocks DEF Rollback, RowsTyped
  <2>3. \A y \in Issuers \ {x} : HandIsNew(y)'
    BY <1>6, OtherHands DEF Rollback, RowsTyped
  <2> QED
    BY <1>6, <2>2, <2>3 DEF Rollback, CounterTells, HandsAreNew, OrdersHaveNoLegacy
<1>7. CASE UNCHANGED numberVars
  BY <1>7 DEF numberVars, RowsTyped, OneHolder, Holds, CounterTells, HandsAreNew, HandIsNew, AtCounter,
              OrdersHaveNoLegacy
<1> QED
  BY <1>1, <1>2, <1>3, <1>4, <1>5, <1>6, <1>7 DEF Next

\* Order, ticket, invoice and document numbers of a day are gapless and unique,
\* whoever rolls back, whatever date a waiting caller had fixed, and whichever
\* numbers older counters had issued (sequences.py, invoice_service.py).
THEOREM NumbersAreGapless == Spec => []GaplessAndUnique
<1>1. ASSUME Counting PROVE GaplessAndUnique
  <2> SUFFICES ASSUME NEW d \in Days, NEW n \in Numbers
               PROVE  LET copies == issued[d][n] + (IF <<d, n>> \in legacy THEN 1 ELSE 0)
                      IN copies <= 1 /\ (n <= lastNumber[d] => copies = 1)
    BY DEF GaplessAndUnique
  <2>1. issued[d][n] = IF n <= lastNumber[d] /\ <<d, n>> \notin legacy THEN 1 ELSE 0
    BY <1>1 DEF Counting, CounterTells
  <2> QED
    BY <2>1
<1> QED
  BY <1>1, CountingInit, CountingStep, PTL DEF Spec

-----------------------------------------------------------------------------
(* Tenancy *)

LEMMA BindingSteps == PlatformSpec => Binding!Init /\ [][Binding!Next]_bindingVars
<1>1. PlatformInit => Binding!Init
    BY DEF PlatformInit
<1>2. [PlatformNext]_<<part, accessVars, configVars, bindingVars, noticeVars, clubVars, leavingVars,
                       recordVars, bookVars, deskVars, shelfVars, countVars>>
      => [Binding!Next]_bindingVars
    BY DEF PlatformNext, bindingVars
<1>3. QED
    BY <1>1, <1>2, Behaviour, PTL

Someone == Tenants \union {NoTenant}
Blocks ==
    {b \in [kind : {"request", "exempt", "task", "scope", "bypass", "atomic"},
            tenant : Someone, previous : Someone] :
        Binding!ForTenant(b) => b.tenant \in Tenants}

\* The block that work at depth i is done for.
OwnerAt(stack, i, j) ==
    /\ j \in 1..i /\ Binding!ForTenant(stack[j])
    /\ \A k \in (j + 1)..i : ~Binding!ForTenant(stack[k])

\* Each scope and transaction would put back the tenant of the block around it.
Nested(stack) ==
    \A i, j \in DOMAIN stack :
        stack[i].kind \in {"scope", "atomic"} /\ OwnerAt(stack, i - 1, j) =>
           stack[i].previous = stack[j].tenant

\* A statement fails for good only within a transaction, and its exception is then
\* on its way out; on a connection that works, context and session are the innermost
\* block's.
BindingInv ==
    /\ blocks \in Seq(Blocks) /\ bound \in Someone /\ guc \in Someone
    /\ {raising, aborted, broken} \subseteq BOOLEAN
    /\ \A i \in DOMAIN blocks : i > 1 => blocks[i].kind \in {"scope", "bypass", "atomic"}
    /\ aborted => raising /\ \E i \in DOMAIN blocks : blocks[i].kind = "atomic"
    /\ ~broken => Nested(blocks)
    /\ \A j \in DOMAIN blocks : ~broken /\ OwnerAt(blocks, Len(blocks), j) =>
          bound = blocks[j].tenant /\ (~aborted => guc = blocks[j].tenant)

LEMMA BlockFacts ==
    ASSUME blocks \in Seq(Blocks), blocks # <<>>
    PROVE  /\ Binding!Front(blocks) \in Seq(Blocks)
           /\ Len(blocks) \in Nat /\ Len(blocks) > 0
           /\ Len(Binding!Front(blocks)) = Len(blocks) - 1
           /\ \A i \in 1..(Len(blocks) - 1) : Binding!Front(blocks)[i] = blocks[i]
           /\ Binding!Last(blocks) = blocks[Len(blocks)]
           /\ blocks[Len(blocks)] \in Blocks
           /\ DOMAIN blocks = 1..Len(blocks)
<1>1. blocks[Len(blocks)] \in Blocks /\ Len(blocks) \in Nat /\ Len(blocks) > 0
    BY EmptySeq, LenProperties
<1>2. \A i \in 1..(Len(blocks) - 1) : blocks[i] \in Blocks
    BY <1>1
<1>3. QED
    <2>1. 1 \in Int /\ Len(blocks) - 1 \in Int /\ 1 + Len(blocks) - 1 = Len(blocks)
        BY <1>1
    <2>2. /\ Binding!Front(blocks) \in Seq(Blocks)
          /\ Len(Binding!Front(blocks)) = Len(blocks) - 1
          /\ \A i \in 1..(Len(blocks) - 1) : Binding!Front(blocks)[i] = blocks[i]
        BY <1>1, <1>2, <2>1 DEF Binding!Front
    <2>3. QED
        BY <1>1, <2>2, LenProperties DEF Binding!Last

LEMMA SameOwner ==
    ASSUME NEW stack, NEW other, NEW i, \A k \in 1..i : other[k] = stack[k], NEW j
    PROVE  OwnerAt(other, i, j) <=> OwnerAt(stack, i, j)
BY DEF OwnerAt

\* What stays nested when a block is entered or left.
LEMMA NestedPush ==
    ASSUME blocks \in Seq(Blocks), Nested(blocks), NEW b \in Blocks,
           b.kind \in {"scope", "atomic"} =>
              \A j \in DOMAIN blocks : OwnerAt(blocks, Len(blocks), j) => b.previous = blocks[j].tenant
    PROVE  Nested(Append(blocks, b))
<1> DEFINE n == Len(blocks)
           more == Append(blocks, b)
<1>1. /\ n \in Nat /\ DOMAIN blocks = 1..n /\ DOMAIN more = 1..(n + 1)
      /\ \A i \in 1..n : more[i] = blocks[i]
      /\ more[n + 1] = b
    BY LenProperties, AppendProperties
<1> HIDE DEF n, more
<1>2. ASSUME NEW i \in 1..(n + 1), NEW j \in 1..(n + 1), more[i].kind \in {"scope", "atomic"},
             OwnerAt(more, i - 1, j)
      PROVE  more[i].previous = more[j].tenant
    <2>1. j \in 1..n /\ i - 1 \in 0..n /\ j <= i - 1
        BY <1>1, <1>2 DEF OwnerAt
    <2>2. OwnerAt(blocks, i - 1, j)
        BY <1>1, <1>2, <2>1, SameOwner
    <2>3. CASE i = n + 1
        BY <1>1, <1>2, <2>1, <2>2, <2>3 DEF n
    <2>4. CASE i \in 1..n
        BY <1>1, <1>2, <2>1, <2>2, <2>4 DEF Nested
    <2>5. QED
        BY <1>1, <2>3, <2>4
<1>3. QED
    BY <1>1, <1>2 DEF Nested, more

LEMMA NestedPop ==
    ASSUME blocks \in Seq(Blocks), blocks # <<>>, Nested(blocks)
    PROVE  Nested(Binding!Front(blocks))
<1> DEFINE n == Len(blocks)
           less == Binding!Front(blocks)
<1>1. /\ n \in Nat /\ n > 0 /\ DOMAIN blocks = 1..n /\ DOMAIN less = 1..(n - 1)
      /\ \A i \in 1..(n - 1) : less[i] = blocks[i]
    BY LenProperties, BlockFacts
<1> HIDE DEF n, less
<1>2. ASSUME NEW i \in 1..(n - 1), NEW j \in 1..(n - 1), less[i].kind \in {"scope", "atomic"},
             OwnerAt(less, i - 1, j)
      PROVE  less[i].previous = less[j].tenant
    <2>1. OwnerAt(blocks, i - 1, j)
        BY <1>1, <1>2, SameOwner
    <2>2. QED
        BY <1>1, <1>2, <2>1 DEF Nested
<1>3. QED
    BY <1>1, <1>2 DEF Nested, less

LEMMA BindingNext == BindingInv /\ [Binding!Next]_bindingVars => BindingInv'
<1> SUFFICES ASSUME BindingInv, [Binding!Next]_bindingVars PROVE BindingInv'
    OBVIOUS
<1> DEFINE n == Len(blocks)
<1>n. /\ n \in Nat /\ DOMAIN blocks = 1..n
      /\ \A i \in 1..n : blocks[i] \in Blocks
      /\ NoTenant \in Someone /\ Tenants \subseteq Someone
    BY LenProperties DEF BindingInv, Someone
<1>t. {raising, aborted, broken} \subseteq BOOLEAN /\ bound \in Someone /\ guc \in Someone
    BY DEF BindingInv
<1>0. CASE UNCHANGED bindingVars
    BY <1>0 DEF BindingInv, bindingVars
\* A unit of work begins: nothing around it.
<1>1. ASSUME NEW b \in Blocks, b.kind \in {"request", "exempt", "task"}, Binding!Idle,
             blocks' = <<b>>, UNCHANGED <<broken, aborted, raising>>,
             bound' \in Someone, guc' \in Someone,
             Binding!ForTenant(b) => bound' = b.tenant /\ guc' = b.tenant
      PROVE  BindingInv'
    <2>1. blocks' \in Seq(Blocks) /\ Len(blocks') = 1 /\ DOMAIN blocks' = {1} /\ blocks'[1] = b
        BY <1>1
    <2>2. ~aborted
        BY <1>1, <1>t DEF BindingInv, Binding!Idle
    <2>3. Nested(blocks')
        BY <2>1 DEF Nested, OwnerAt
    <2>4. \A j \in DOMAIN blocks' : OwnerAt(blocks', 1, j) => bound' = b.tenant /\ guc' = b.tenant
        BY <1>1, <2>1 DEF OwnerAt
    <2>5. QED
        BY <1>1, <1>t, <2>1, <2>2, <2>3, <2>4 DEF BindingInv
<1>2. CASE (\E t \in Tenants : Binding!StartRequest(t)) \/ Binding!StartExempt \/ Binding!StartTask
    <2>1. CASE \E t \in Tenants : Binding!StartRequest(t)
        <3>1. PICK t \in Tenants : Binding!StartRequest(t)
            BY <2>1
        <3> DEFINE b == Binding!Block("request", t, NoTenant)
        <3>2. b \in Blocks /\ b.kind = "request" /\ b.tenant = t
            BY <1>n DEF Blocks, Binding!Block
        <3>3. /\ Binding!Idle /\ bound' = t /\ guc' = t /\ blocks' = <<b>>
              /\ UNCHANGED <<broken, aborted, raising>>
            BY <3>1 DEF Binding!StartRequest
        <3> HIDE DEF b
        <3>4. QED
            BY <1>1, <1>n, <3>2, <3>3
    <2>2. CASE Binding!StartExempt \/ Binding!StartTask
        <3>1. PICK kind \in {"exempt", "task"} :
                 /\ blocks' = <<Binding!Block(kind, NoTenant, NoTenant)>> /\ Binding!Idle
                 /\ UNCHANGED <<bound, guc, broken, aborted, raising>>
            BY <2>2 DEF Binding!StartExempt, Binding!StartTask
        <3> DEFINE b == Binding!Block(kind, NoTenant, NoTenant)
        <3>2. b \in Blocks /\ b.kind = kind /\ ~Binding!ForTenant(b)
            BY <1>n DEF Blocks, Binding!Block, Binding!ForTenant
        <3>3. blocks' = <<b>>
            BY <3>1
        <3> HIDE DEF b
        <3>4. QED
            BY <1>1, <1>t, <3>1, <3>2, <3>3
    <2>3. QED
        BY <1>2, <2>1, <2>2
<1>3. CASE Binding!Reconnect
    <2>1. blocks = <<>> /\ blocks' = blocks /\ broken' = FALSE /\ guc' = NoTenant
          /\ UNCHANGED <<bound, aborted, raising>>
        BY <1>3 DEF Binding!Reconnect, Binding!Idle
    <2>2. Nested(blocks') /\ DOMAIN blocks' = {}
        BY <2>1 DEF Nested
    <2>3. QED
        BY <1>n, <1>t, <2>1, <2>2 DEF BindingInv
\* A block is entered within others.
<1>4. ASSUME NEW b \in Blocks, b.kind \in {"scope", "bypass", "atomic"}, Binding!Running,
             blocks' = Append(blocks, b), UNCHANGED <<broken, aborted, raising>>,
             bound' \in Someone, guc' \in Someone,
             b.kind = "scope" => Binding!SqlWorks /\ bound' = b.tenant /\ guc' = b.tenant
                                 /\ b.previous = bound,
             b.kind = "atomic" => Binding!SqlWorks /\ b.previous = guc,
             b.kind # "scope" => UNCHANGED <<bound, guc>>
      PROVE  BindingInv'
    <2>1. /\ blocks' \in Seq(Blocks) /\ Len(blocks') = n + 1 /\ DOMAIN blocks' = 1..(n + 1)
          /\ \A i \in 1..n : blocks'[i] = blocks[i]
          /\ blocks'[n + 1] = b
        BY <1>4, <1>n, AppendProperties, LenProperties DEF BindingInv
    <2>2. ~aborted /\ n > 0
        BY <1>4, <1>n, <1>t DEF BindingInv, Binding!Running, Binding!Idle
    <2>3. ~broken => Nested(blocks')
        <3>1. ~broken /\ b.kind \in {"scope", "atomic"} =>
                 \A j \in DOMAIN blocks : OwnerAt(blocks, n, j) => b.previous = blocks[j].tenant
            BY <1>4, <2>2 DEF BindingInv
        <3>2. QED
            BY <1>4, <3>1, NestedPush DEF BindingInv
    <2>4. \A j \in DOMAIN blocks' : OwnerAt(blocks', n + 1, j) =>
             \/ j = n + 1 /\ b.kind = "scope"
             \/ b.kind # "scope" /\ j \in 1..n /\ OwnerAt(blocks, n, j)
        BY <1>4, <1>n, <2>1 DEF OwnerAt, Binding!ForTenant
    <2>5. \A j \in DOMAIN blocks' : ~broken' /\ OwnerAt(blocks', n + 1, j) =>
             bound' = blocks'[j].tenant /\ guc' = blocks'[j].tenant
        <3> HIDE DEF n
        <3>1. QED
            BY <1>4, <1>n, <2>1, <2>2, <2>4 DEF BindingInv, n
    <2>6. \A i \in DOMAIN blocks' : i > 1 => blocks'[i].kind \in {"scope", "bypass", "atomic"}
        <3> HIDE DEF n
        <3>1. QED
            BY <1>4, <1>n, <2>1 DEF BindingInv
    <2> HIDE DEF n
    <2>7. QED
        BY <1>4, <1>t, <2>1, <2>2, <2>3, <2>5, <2>6 DEF BindingInv

<1>5. CASE (\E t \in Tenants : Binding!EnterScope(t)) \/ Binding!EnterBypass \/ Binding!EnterAtomic
    <2>1. ASSUME NEW t \in Tenants, Binding!EnterScope(t), Binding!SqlWorks PROVE BindingInv'
        <3> DEFINE b == Binding!Block("scope", t, bound)
        <3>1. b \in Blocks /\ b.kind = "scope" /\ b.tenant = t /\ b.previous = bound
            BY <1>n, <1>t DEF Blocks, Binding!Block
        <3>2. /\ Binding!Running /\ bound' = t /\ guc' = t /\ blocks' = Append(blocks, b)
              /\ UNCHANGED <<broken, aborted, raising>>
            BY <2>1 DEF Binding!EnterScope
        <3> HIDE DEF b
        <3>3. QED
            BY <1>4, <1>n, <2>1, <3>1, <3>2
    \* The connection is gone, for an open transaction that refuses statements is
    \* being left.
    <2>2. ASSUME NEW t \in Tenants, Binding!EnterScope(t), ~Binding!SqlWorks PROVE BindingInv'
        <3>1. /\ ~raising /\ bound' = t /\ raising' = TRUE
              /\ UNCHANGED <<blocks, guc, broken, aborted>>
            BY <2>2 DEF Binding!EnterScope, Binding!Running
        <3>2. broken
            BY <2>2, <3>1 DEF BindingInv, Binding!SqlWorks
        <3>3. QED
            BY <1>n, <3>1, <3>2 DEF BindingInv
    <2>3. CASE Binding!EnterBypass
        <3> DEFINE b == Binding!Block("bypass", NoTenant, NoTenant)
        <3>1. b \in Blocks /\ b.kind = "bypass"
            BY <1>n DEF Blocks, Binding!Block, Binding!ForTenant
        <3>2. /\ Binding!Running /\ blocks' = Append(blocks, b)
              /\ UNCHANGED <<bound, guc, broken, aborted, raising>>
            BY <2>3 DEF Binding!EnterBypass
        <3> HIDE DEF b
        <3>3. QED
            BY <1>4, <1>t, <3>1, <3>2
    <2>4. CASE Binding!EnterAtomic
        <3> DEFINE b == Binding!Block("atomic", NoTenant, guc)
        <3>1. b \in Blocks /\ b.kind = "atomic" /\ b.previous = guc
            BY <1>n, <1>t DEF Blocks, Binding!Block, Binding!ForTenant
        <3>2. /\ Binding!Running /\ Binding!SqlWorks /\ blocks' = Append(blocks, b)
              /\ UNCHANGED <<bound, guc, broken, aborted, raising>>
            BY <2>4 DEF Binding!EnterAtomic
        <3> HIDE DEF b
        <3>3. QED
            BY <1>4, <1>t, <3>1, <3>2
    <2>5. QED
        BY <1>5, <2>1, <2>2, <2>3, <2>4
<1>6. CASE Binding!Raise
    <2>1. raising' = TRUE /\ UNCHANGED <<blocks, bound, guc>>
        BY <1>6 DEF Binding!Raise
    <2>2. /\ broken' \in BOOLEAN /\ aborted' \in BOOLEAN
          /\ broken => broken'
          /\ aborted => aborted'
          /\ aborted' => aborted \/ \E i \in DOMAIN blocks : blocks[i].kind = "atomic"
        <3>1. /\ broken' = broken \/ broken' = TRUE
              /\ aborted' = aborted \/ aborted' = (Binding!InAtomic \/ aborted)
            BY <1>6 DEF Binding!Raise
        <3>2. aborted \in BOOLEAN /\ broken \in BOOLEAN
            BY <1>t
        <3>3. broken' \in BOOLEAN /\ (broken => broken')
            BY <3>1, <3>2
        <3>4. CASE aborted' = aborted
            BY <3>2, <3>3, <3>4
        <3>5. CASE aborted' = (Binding!InAtomic \/ aborted)
            <4>1. aborted' \in BOOLEAN /\ (aborted' <=> Binding!InAtomic \/ aborted)
                BY <3>5, Zenon
            <4>2. QED
                BY <3>3, <4>1, Zenon DEF Binding!InAtomic
        <3>6. QED
            BY <3>1, <3>4, <3>5, Zenon
    <2>3. QED
        BY <1>n, <1>t, <2>1, <2>2 DEF BindingInv
<1>7. CASE Binding!Catch
    BY <1>n, <1>t, <1>7 DEF Binding!Catch, BindingInv
\* The innermost block is left.
<1>8. ASSUME blocks # <<>>, blocks' = Binding!Front(blocks), UNCHANGED broken,
             bound' \in Someone, guc' \in Someone, {raising', aborted'} \subseteq BOOLEAN,
             aborted' => raising' /\ \E i \in 1..(n - 1) : blocks[i].kind = "atomic",
             \A j \in 1..(n - 1) : ~broken /\ OwnerAt(blocks, n - 1, j) =>
                bound' = blocks[j].tenant /\ (~aborted' => guc' = blocks[j].tenant)
      PROVE  BindingInv'
    <2>1. /\ n > 0 /\ blocks' \in Seq(Blocks) /\ Len(blocks') = n - 1 /\ DOMAIN blocks' = 1..(n - 1)
          /\ \A i \in 1..(n - 1) : blocks'[i] = blocks[i]
        BY <1>8, <1>n, BlockFacts, LenProperties DEF BindingInv
    <2>2. ~broken => Nested(blocks')
        BY <1>8, NestedPop DEF BindingInv
    <2> HIDE DEF n
    <2>3. \A j \in DOMAIN blocks' : OwnerAt(blocks', n - 1, j) => OwnerAt(blocks, n - 1, j)
        BY <2>1, SameOwner
    <2>4. QED
        BY <1>8, <1>n, <2>1, <2>2, <2>3 DEF BindingInv
<1>9. CASE Binding!Leave
    <2> DEFINE b == blocks[n]
    <2>1. /\ blocks # <<>> /\ blocks' = Binding!Front(blocks) /\ UNCHANGED broken /\ n > 0
          /\ Binding!LeaveScope(b) \/ Binding!LeaveBypass(b) \/ Binding!LeaveAtomic(b)
             \/ Binding!Finish(b)
        BY <1>9, BlockFacts DEF Binding!Leave, Binding!Idle, BindingInv
    <2>2. b \in Blocks /\ b.previous \in Someone
        BY <1>n, <2>1 DEF Blocks
    <2>3. \A j \in 1..(n - 1) : OwnerAt(blocks, n - 1, j) /\ ~Binding!ForTenant(b) =>
                                   OwnerAt(blocks, n, j)
        BY <1>n, <2>1 DEF OwnerAt
    <2>4. \A j \in 1..(n - 1) : ~broken /\ OwnerAt(blocks, n - 1, j) /\ b.kind \in {"scope", "atomic"} =>
                                   b.previous = blocks[j].tenant
        BY <1>n, <2>1 DEF BindingInv, Nested
    <2>5. \A j \in 1..(n - 1) : ~broken /\ OwnerAt(blocks, n - 1, j) /\ ~Binding!ForTenant(b) =>
                                   bound = blocks[j].tenant /\ (~aborted => guc = blocks[j].tenant)
        BY <1>n, <2>1, <2>3 DEF BindingInv
    <2>6. aborted => raising /\ (b.kind # "atomic" => \E i \in 1..(n - 1) : blocks[i].kind = "atomic")
        BY <1>n, <2>1 DEF BindingInv
    <2>7. n > 1 => b.kind \in {"scope", "bypass", "atomic"}
        BY <1>n, <2>1 DEF BindingInv
    <2> HIDE DEF n, b
    <2>8. CASE Binding!LeaveScope(b)
        BY <1>8, <1>t, <2>1, <2>2, <2>4, <2>6, <2>8 DEF Binding!LeaveScope, Binding!SqlWorks
    <2>9. CASE Binding!LeaveBypass(b)
        BY <1>8, <1>t, <2>1, <2>5, <2>6, <2>9 DEF Binding!LeaveBypass, Binding!ForTenant
    <2>10. CASE Binding!LeaveAtomic(b)
        BY <1>8, <1>t, <2>1, <2>2, <2>4, <2>5, <2>10 DEF Binding!LeaveAtomic, Binding!ForTenant
    <2>11. CASE Binding!Finish(b)
        <3>1. n = 1
            BY <1>n, <2>1, <2>7, <2>11 DEF Binding!Finish
        <3>2. QED
            <4>1. ~aborted /\ 1..(n - 1) = {}
                BY <2>6, <2>11, <3>1 DEF Binding!Finish
            <4>2. bound' \in Someone /\ guc' \in Someone /\ raising' = FALSE /\ aborted' = aborted
                BY <1>n, <1>t, <2>11 DEF Binding!Finish
            <4>3. QED
                BY <1>8, <1>t, <2>1, <4>1, <4>2
    <2>12. QED
        BY <2>1, <2>8, <2>9, <2>10, <2>11
<1>10. CASE Binding!Next
    BY <1>2, <1>3, <1>5, <1>6, <1>7, <1>9, <1>10 DEF Binding!Next
<1>11. QED
    BY <1>0, <1>10

LEMMA BindingInit == Binding!Init => BindingInv
<1> SUFFICES ASSUME Binding!Init PROVE BindingInv
    OBVIOUS
<1>1. blocks = <<>> /\ blocks \in Seq(Blocks) /\ Len(blocks) = 0 /\ DOMAIN blocks = {}
    BY EmptySeq DEF Binding!Init
<1>2. QED
    BY <1>1 DEF Binding!Init, BindingInv, Nested, Someone

\* Work for a tenant reads and writes that tenant's rows only, however many scopes
\* and transactions are nested, whatever is raised, caught or rolled back half-way,
\* and whatever connection and context the task before left (shared/tenancy).
THEOREM OwnRows == PlatformSpec => []OwnRowsOnly
<1>1. BindingInv => OwnRowsOnly
    <2> SUFFICES ASSUME BindingInv, NEW i \in DOMAIN blocks, Binding!Owns(i)
                 PROVE  Binding!Readable \union Binding!Writable \subseteq {blocks[i].tenant}
        BY DEF OwnRowsOnly, Binding!OwnRowsOnly
    <2>1. OwnerAt(blocks, Len(blocks), i)
        <3>1. Len(blocks) \in Nat /\ DOMAIN blocks = 1..Len(blocks)
            BY LenProperties DEF BindingInv
        <3>2. QED
            BY <3>1 DEF OwnerAt, Binding!Owns
    <2>2. Binding!SqlWorks => guc = blocks[i].tenant
        BY <2>1 DEF BindingInv, Binding!SqlWorks
    <2>3. QED
        BY <2>2 DEF Binding!Readable, Binding!Writable
<1>2. PlatformSpec => []BindingInv
    BY BindingInit, BindingNext, BindingSteps, PTL
<1>3. QED
    BY <1>1, <1>2, PTL

-----------------------------------------------------------------------------
(* StaffRecords *)

LEMMA StaffSteps == PlatformSpec => Staff!Init /\ [][Staff!Next]_recordVars
<1>1. PlatformInit => Staff!Init
    BY DEF PlatformInit
<1>2. [PlatformNext]_<<part, accessVars, configVars, bindingVars, noticeVars, clubVars, leavingVars,
                       recordVars, bookVars, deskVars, shelfVars, countVars>>
      => [Staff!Next]_recordVars
    BY DEF PlatformNext, recordVars
<1>3. QED
    BY <1>1, <1>2, Behaviour, PTL

IsStaffCall(c) ==
    \/ c = Staff!NoCall
    \/ c = [kind |-> "clock_in", staff |-> c.staff] /\ c.staff \subseteq Employees
    \/ /\ c = [kind |-> "payroll", staff |-> c.staff, period |-> c.period, todo |-> c.todo,
               made |-> c.made]
       /\ c.period \in Periods /\ c.staff \subseteq Employees
       /\ c.todo \subseteq c.staff /\ c.made \subseteq c.staff

StaffTyped ==
    /\ onPayroll \subseteq Employees
    /\ attendance \in [Employees -> Seq(SUBSET Staff!Stamps)]
    /\ payouts \in [Employees -> [Periods -> Nat]]
    /\ DOMAIN staffCall = StaffCalls
    /\ \A x \in StaffCalls : IsStaffCall(staffCall[x])

\* Nobody else has an employee in hand for the same thing, and what a call has found
\* missing is missing still when it creates it.
RecordsOf(e) ==
    /\ Len(attendance[e]) <= 1 /\ \A p \in Periods : payouts[e][p] <= 1
    /\ \A x, y \in StaffCalls :
          x # y /\ staffCall[x].kind = staffCall[y].kind => e \notin staffCall[x].staff \intersect staffCall[y].staff
    /\ \A x \in StaffCalls :
          staffCall[x].kind = "clock_in" /\ e \in staffCall[x].staff => attendance[e] = <<>>
    /\ \A x \in StaffCalls :
          staffCall[x].kind = "payroll" /\ e \in staffCall[x].made => payouts[e][staffCall[x].period] = 0

StaffInv == StaffTyped /\ \A e \in Employees \ (addedByHand \union doubled) : RecordsOf(e)

LEMMA StaffInit == Staff!Init => StaffInv
<1> SUFFICES ASSUME Staff!Init PROVE StaffInv
    OBVIOUS
<1>1. \A e \in Employees : attendance[e] = <<>> /\ Len(attendance[e]) = 0 /\ attendance[e] \in Seq(SUBSET Staff!Stamps)
    BY EmptySeq DEF Staff!Init
<1>2. StaffTyped
    BY <1>1 DEF Staff!Init, StaffTyped, IsStaffCall
<1>3. QED
    BY <1>1, <1>2 DEF Staff!Init, StaffInv, RecordsOf, Staff!NoCall

LEMMA StaffNext == StaffInv /\ [Staff!Next]_recordVars => StaffInv'
<1> SUFFICES ASSUME StaffInv, [Staff!Next]_recordVars PROVE StaffInv'
    OBVIOUS
<1>t. StaffTyped /\ DOMAIN payouts = Employees
      /\ \A e \in Employees : attendance[e] \in Seq(SUBSET Staff!Stamps) /\ Len(attendance[e]) \in Nat
                              /\ DOMAIN payouts[e] = Periods
                              /\ \A p \in Periods : payouts[e][p] \in Nat
    BY LenProperties DEF StaffInv, StaffTyped
<1>k. ASSUME NEW x \in StaffCalls
      PROVE  /\ staffCall[x].staff \subseteq Employees
             /\ staffCall[x].kind = "payroll" =>
                   staffCall[x].period \in Periods /\ staffCall[x].made \subseteq staffCall[x].staff
    <2> DEFINE c == staffCall[x]
    <2>1. IsStaffCall(c)
        BY <1>t DEF StaffTyped
    <2> HIDE DEF c
    <2>2. c.staff \subseteq Employees
          /\ (c.kind = "payroll" => c.period \in Periods /\ c.made \subseteq c.staff)
        BY <2>1 DEF IsStaffCall, Staff!NoCall
    <2>3. QED
        BY <2>2 DEF c
<1>0. CASE UNCHANGED recordVars
    BY <1>0 DEF recordVars, StaffInv, StaffTyped, RecordsOf
\* A call begins, goes on, or ends, and the rows stay as they are.
<1>1. ASSUME NEW x \in StaffCalls, NEW c, IsStaffCall(c), staffCall' = [staffCall EXCEPT ![x] = c],
             UNCHANGED <<onPayroll, attendance, payouts, addedByHand>>, doubled \subseteq doubled',
             \A e \in Employees \ (addedByHand \union doubled') :
                e \in c.staff =>
                   /\ \A y \in StaffCalls \ {x} : staffCall[y].kind = c.kind => e \notin staffCall[y].staff
                   /\ c.kind = "clock_in" => attendance[e] = <<>>
                   /\ c.kind = "payroll" /\ e \in c.made => payouts[e][c.period] = 0
      PROVE  StaffInv'
    <2>1. StaffTyped'
        BY <1>1, <1>t DEF StaffTyped
    <2>2. ASSUME NEW e \in Employees \ (addedByHand' \union doubled') PROVE RecordsOf(e)'
        <3>1. RecordsOf(e)
            BY <1>1, <2>2 DEF StaffInv
        <3>2. staffCall'[x] = c /\ \A y \in StaffCalls \ {x} : staffCall'[y] = staffCall[y]
            BY <1>1, <1>t DEF StaffTyped
        <3>3. c.kind = "payroll" => c.made \subseteq c.staff
            BY <1>1 DEF IsStaffCall, Staff!NoCall
        <3>4. QED
            BY <1>1, <2>2, <3>1, <3>2, <3>3 DEF RecordsOf
    <2>3. QED
        BY <2>1, <2>2 DEF StaffInv
\* The rows of one employee change by hand, or a call that ends creates them.
<1>2. ASSUME NEW x \in StaffCalls, Staff!End(x) PROVE
             /\ DOMAIN staffCall' = StaffCalls /\ staffCall'[x] = Staff!NoCall
             /\ \A y \in StaffCalls \ {x} : staffCall'[y] = staffCall[y]
             /\ \A y \in StaffCalls : IsStaffCall(staffCall'[y])
    BY <1>2, <1>t DEF Staff!End, StaffTyped, IsStaffCall
<1>3. ASSUME NEW x \in StaffCalls, Staff!Fail(x) PROVE StaffInv'
    BY <1>1, <1>3 DEF Staff!Fail, Staff!End, IsStaffCall, Staff!NoCall
<1>4. ASSUME NEW x \in StaffCalls, NEW e \in Employees, Staff!LookUpDay(x, e) PROVE StaffInv'
    <2> DEFINE c == [kind |-> "clock_in", staff |-> {e}]
    <2>1. /\ attendance[e] = <<>> /\ staffCall' = [staffCall EXCEPT ![x] = c]
          /\ doubled' = doubled \union ({e} \intersect Staff!InHand("clock_in"))
          /\ UNCHANGED <<onPayroll, attendance, payouts, addedByHand>>
        BY <1>4 DEF Staff!LookUpDay, Staff!Begin
    <2>2. IsStaffCall(c) /\ c.kind = "clock_in" /\ c.staff = {e}
        BY DEF IsStaffCall
    <2>3. e \notin doubled' => \A y \in StaffCalls : staffCall[y].kind = "clock_in" => e \notin staffCall[y].staff
        BY <2>1 DEF Staff!InHand
    <2> HIDE DEF c
    <2>4. QED
        BY <1>1, <2>1, <2>2, <2>3
<1>5. ASSUME NEW x \in StaffCalls, NEW p \in Periods, Staff!StartPayroll(x, p) PROVE StaffInv'
    <2> DEFINE c == [kind |-> "payroll", staff |-> onPayroll, period |-> p, todo |-> onPayroll, made |-> {}]
    <2>1. /\ staffCall' = [staffCall EXCEPT ![x] = c]
          /\ doubled' = doubled \union (onPayroll \intersect Staff!InHand("payroll"))
          /\ UNCHANGED <<onPayroll, attendance, payouts, addedByHand>>
        BY <1>5 DEF Staff!StartPayroll, Staff!Begin
    <2>2. IsStaffCall(c) /\ c.kind = "payroll" /\ c.staff = onPayroll /\ c.made = {}
        BY <1>t DEF IsStaffCall, StaffTyped
    <2>3. \A e \in onPayroll \ doubled' : \A y \in StaffCalls : staffCall[y].kind = "payroll" => e \notin staffCall[y].staff
        BY <2>1 DEF Staff!InHand
    <2> HIDE DEF c
    <2>4. QED
        BY <1>1, <2>1, <2>2, <2>3
<1>6. ASSUME NEW x \in StaffCalls, Staff!PayEmployee(x) PROVE StaffInv'
    <2> DEFINE b == staffCall[x]
    <2>1. PICK e \in b.todo :
             staffCall' = [staffCall EXCEPT ![x].todo = @ \ {e},
                                            ![x].made = IF Staff!HasPayout(e, b.period) THEN @ ELSE @ \union {e}]
        BY <1>6 DEF Staff!PayEmployee
    <2>2. b.kind = "payroll" /\ UNCHANGED <<onPayroll, attendance, payouts, addedByHand, doubled>>
        BY <1>6 DEF Staff!PayEmployee
    <2>3. /\ b = [kind |-> "payroll", staff |-> b.staff, period |-> b.period, todo |-> b.todo, made |-> b.made]
          /\ b.period \in Periods /\ b.staff \subseteq Employees
          /\ b.todo \subseteq b.staff /\ b.made \subseteq b.staff
        BY <1>t, <2>2 DEF StaffTyped, IsStaffCall, Staff!NoCall
    <2> DEFINE made == IF Staff!HasPayout(e, b.period) THEN b.made ELSE b.made \union {e}
               c == [kind |-> "payroll", staff |-> b.staff, period |-> b.period, todo |-> b.todo \ {e},
                     made |-> made]
    <2>4. made \subseteq b.made \union {e} /\ (e \in made => e \in b.made \/ payouts[e][b.period] = 0)
        BY <1>t, <2>1, <2>3 DEF Staff!HasPayout
    <2>5. staffCall' = [staffCall EXCEPT ![x] = c]
        <3>1. [[b EXCEPT !.todo = @ \ {e}] EXCEPT !.made = made] = c
            <4> HIDE DEF b, made
            <4>1. PICK s, q, t, m : b = [kind |-> "payroll", staff |-> s, period |-> q, todo |-> t, made |-> m]
                BY <2>3
            <4>2. b.staff = s /\ b.period = q /\ b.todo = t
                BY <4>1
            <4> DEFINE d == [b EXCEPT !.todo = t \ {e}]
            <4>3. d = [kind |-> "payroll", staff |-> s, period |-> q, todo |-> t \ {e}, made |-> m]
                BY <4>1
            <4> HIDE DEF d
            <4>4. [d EXCEPT !.made = made]
                    = [kind |-> "payroll", staff |-> s, period |-> q, todo |-> t \ {e}, made |-> made]
                BY <4>3
            <4> USE DEF d
            <4>5. QED
                BY <4>2, <4>4
        <3>2. staffCall' = [staffCall EXCEPT ![x] = [[b EXCEPT !.todo = @ \ {e}] EXCEPT !.made = made]]
            BY <1>t, <2>1 DEF StaffTyped
        <3>3. QED
            BY <3>1, <3>2
    <2>6. /\ c.kind = "payroll" /\ c.staff = b.staff /\ c.made = made /\ c.period = b.period
          /\ c.todo = b.todo \ {e}
          /\ c = [kind |-> "payroll", staff |-> c.staff, period |-> c.period, todo |-> c.todo, made |-> c.made]
        OBVIOUS
    <2> HIDE DEF c, made
    <2>7. IsStaffCall(c)
        BY <2>1, <2>3, <2>4, <2>6 DEF IsStaffCall
    <2>8. ASSUME NEW f \in Employees \ (addedByHand \union doubled), f \in c.staff
          PROVE  /\ \A y \in StaffCalls \ {x} : staffCall[y].kind = c.kind => f \notin staffCall[y].staff
                 /\ f \in c.made => payouts[f][c.period] = 0
        BY <2>2, <2>3, <2>4, <2>6, <2>8 DEF StaffInv, RecordsOf
    <2>8a. doubled \subseteq doubled' /\ UNCHANGED <<onPayroll, attendance, payouts, addedByHand>>
        BY <2>2
    <2>9. \A f \in Employees \ (addedByHand \union doubled') : f \in c.staff =>
             /\ \A y \in StaffCalls \ {x} : staffCall[y].kind = c.kind => f \notin staffCall[y].staff
             /\ c.kind = "clock_in" => attendance[f] = <<>>
             /\ c.kind = "payroll" /\ f \in c.made => payouts[f][c.period] = 0
        BY <2>2, <2>6, <2>8
    <2> HIDE DEF b
    <2>10. QED
        BY <1>1, <2>5, <2>7, <2>8a, <2>9

\* New attendance rows, of an employee whom a call of the day has in hand or a form.
<1>7. ASSUME NEW e \in Employees, Staff!NewRow(e) PROVE
             /\ attendance' \in [Employees -> Seq(SUBSET Staff!Stamps)]
             /\ \A f \in Employees \ {e} : attendance'[f] = attendance[f]
             /\ Len(attendance'[e]) = Len(attendance[e]) + 1
    <2>1. Append(attendance[e], {"check_in"}) \in Seq(SUBSET Staff!Stamps)
          /\ Len(Append(attendance[e], {"check_in"})) = Len(attendance[e]) + 1
        BY <1>t, AppendProperties DEF Staff!Stamps
    <2>2. QED
        BY <1>7, <1>t, <2>1 DEF Staff!NewRow, StaffTyped
<1>8. ASSUME NEW x \in StaffCalls, Staff!ClockIn(x) PROVE StaffInv'
    <2>1. PICK e \in staffCall[x].staff : Staff!NewRow(e)
        BY <1>8 DEF Staff!ClockIn
    <2>2. /\ staffCall[x].kind = "clock_in" /\ Staff!End(x)
          /\ UNCHANGED <<onPayroll, payouts, addedByHand, doubled>>
        BY <1>8 DEF Staff!ClockIn
    <2>3. e \in Employees
        BY <1>k, <2>1, <2>2
    <2>4. StaffTyped'
        BY <1>t, <1>2, <1>7, <2>1, <2>2, <2>3 DEF StaffTyped
    <2>5. ASSUME NEW f \in Employees \ (addedByHand \union doubled) PROVE RecordsOf(f)'
        <3>1. RecordsOf(f)
            BY <2>5 DEF StaffInv
        <3>2. /\ \A g \in Employees \ {e} : attendance'[g] = attendance[g]
              /\ Len(attendance'[e]) = Len(attendance[e]) + 1
            BY <1>7, <2>1, <2>3
        <3>3. /\ staffCall'[x].kind = "none" /\ staffCall'[x].staff = {}
              /\ \A y \in StaffCalls \ {x} : staffCall'[y] = staffCall[y]
            BY <1>2, <2>2 DEF Staff!NoCall
        <3>4. Len(attendance'[f]) <= 1
            <4>1. f = e => attendance[f] = <<>> /\ Len(attendance[f]) = 0
                BY <2>1, <2>2, <3>1, EmptySeq DEF RecordsOf
            <4>2. QED
                BY <3>1, <3>2, <4>1 DEF RecordsOf
        <3>5. \A y \in StaffCalls : staffCall'[y].kind = "clock_in" /\ f \in staffCall'[y].staff =>
                 attendance'[f] = <<>>
            BY <2>1, <2>2, <3>1, <3>2, <3>3 DEF RecordsOf
        <3>6. QED
            BY <2>2, <3>1, <3>3, <3>4, <3>5 DEF RecordsOf
    <2>6. QED
        BY <2>2, <2>4, <2>5 DEF StaffInv
<1>9. ASSUME NEW e \in Employees, Staff!AddAttendance(e) PROVE StaffInv'
    <2>1. /\ Staff!NewRow(e) /\ addedByHand' = addedByHand \union {e}
          /\ UNCHANGED <<onPayroll, payouts, staffCall, doubled>>
        BY <1>9 DEF Staff!AddAttendance
    <2>2. StaffTyped'
        BY <1>t, <1>7, <2>1 DEF StaffTyped
    <2>3. ASSUME NEW f \in Employees \ (addedByHand' \union doubled') PROVE RecordsOf(f)'
        <3>1. RecordsOf(f) /\ attendance'[f] = attendance[f]
            BY <1>7, <2>1, <2>3 DEF StaffInv
        <3>2. QED
            BY <2>1, <3>1 DEF RecordsOf
    <2>4. QED
        BY <2>2, <2>3 DEF StaffInv
<1>10. ASSUME NEW e \in Employees, NEW i \in DOMAIN attendance[e], Staff!Stamp(e, i) PROVE StaffInv'
    <2>1. PICK stamp \in Staff!Stamps : attendance' = [attendance EXCEPT ![e][i] = @ \union {stamp}]
        BY <1>10 DEF Staff!Stamp
    <2>2. UNCHANGED <<onPayroll, payouts, staffCall, addedByHand, doubled>>
        BY <1>10 DEF Staff!Stamp
    <2>3. /\ i \in 1..Len(attendance[e]) /\ attendance[e][i] \subseteq Staff!Stamps /\ attendance[e] # <<>>
        BY <1>t, <1>10, LenProperties, EmptySeq
    <2>4. /\ attendance'[e] = [attendance[e] EXCEPT ![i] = attendance[e][i] \union {stamp}]
          /\ DOMAIN attendance' = Employees
          /\ \A f \in Employees \ {e} : attendance'[f] = attendance[f]
          /\ attendance' = [f \in Employees |-> attendance'[f]]
        BY <1>t, <2>1 DEF StaffTyped
    <2>5. attendance'[e] \in Seq(SUBSET Staff!Stamps) /\ Len(attendance'[e]) = Len(attendance[e])
        BY <1>t, <2>3, <2>4, ExceptSeq
    <2>6. StaffTyped'
        BY <1>t, <2>2, <2>4, <2>5 DEF StaffTyped
    <2>7. ASSUME NEW f \in Employees \ (addedByHand \union doubled) PROVE RecordsOf(f)'
        <3>1. RecordsOf(f)
            BY <2>7 DEF StaffInv
        <3>2. QED
            BY <2>2, <2>3, <2>4, <2>5, <3>1 DEF RecordsOf
    <2>8. QED
        BY <2>2, <2>6, <2>7 DEF StaffInv
<1>11. ASSUME NEW e \in Employees, Staff!EditEmployee(e) PROVE StaffInv'
    BY <1>t, <1>11 DEF Staff!EditEmployee, StaffInv, StaffTyped, RecordsOf
<1>12. ASSUME NEW x \in StaffCalls, Staff!FinishPayroll(x) PROVE StaffInv'
    <2>1. /\ staffCall[x].kind = "payroll" /\ Staff!End(x)
          /\ payouts' = [e \in Employees |-> [p \in Periods |->
                payouts[e][p] + IF e \in staffCall[x].made /\ p = staffCall[x].period THEN 1 ELSE 0]]
          /\ UNCHANGED <<onPayroll, attendance, addedByHand, doubled>>
        BY <1>12 DEF Staff!FinishPayroll
    <2>2. staffCall[x].made \subseteq staffCall[x].staff /\ staffCall[x].period \in Periods
        BY <1>t, <2>1 DEF StaffTyped, IsStaffCall, Staff!NoCall
    <2>3. \A e \in Employees : \A p \in Periods :
             payouts'[e][p] = payouts[e][p] + IF e \in staffCall[x].made /\ p = staffCall[x].period THEN 1 ELSE 0
        BY <2>1
    <2>4. payouts' \in [Employees -> [Periods -> Nat]]
        BY <1>t, <2>1
    <2>5. StaffTyped'
        BY <1>t, <1>2, <2>1, <2>4 DEF StaffTyped
    <2>6. ASSUME NEW e \in Employees \ (addedByHand \union doubled) PROVE RecordsOf(e)'
        <3>1. RecordsOf(e)
            BY <2>6 DEF StaffInv
        <3>2. /\ staffCall'[x].kind = "none" /\ staffCall'[x].staff = {}
              /\ \A y \in StaffCalls \ {x} : staffCall'[y] = staffCall[y]
            BY <1>2, <2>1 DEF Staff!NoCall
        <3>3. \A p \in Periods : payouts'[e][p] <= 1
            BY <1>t, <2>1, <2>3, <3>1 DEF RecordsOf
        <3>4. ASSUME NEW y \in StaffCalls, staffCall'[y].kind = "payroll", e \in staffCall'[y].made
              PROVE  payouts'[e][staffCall'[y].period] = 0
            <4>1. y # x /\ staffCall'[y] = staffCall[y]
                BY <3>2, <3>4
            <4>2. /\ e \in staffCall[y].staff /\ staffCall[y].period \in Periods
                  /\ payouts[e][staffCall[y].period] = 0
                BY <1>t, <3>1, <3>4, <4>1 DEF StaffTyped, IsStaffCall, Staff!NoCall, RecordsOf
            <4>3. e \notin staffCall[x].made
                BY <2>1, <2>2, <3>1, <3>4, <4>1, <4>2 DEF RecordsOf
            <4>4. QED
                BY <2>3, <4>1, <4>2, <4>3
        <3>5. QED
            BY <2>1, <3>1, <3>2, <3>3, <3>4 DEF RecordsOf
    <2>7. QED
        BY <2>1, <2>5, <2>6 DEF StaffInv
\* A form adds or removes a payout.
<1>13. ASSUME NEW e \in Employees, NEW p \in Periods, Staff!AddPayout(e, p) PROVE StaffInv'
    <2>1. /\ payouts' = [payouts EXCEPT ![e][p] = @ + 1] /\ addedByHand' = addedByHand \union {e}
          /\ UNCHANGED <<onPayroll, attendance, staffCall, doubled>>
        BY <1>13 DEF Staff!AddPayout
    <2>2. StaffTyped'
        BY <1>t, <2>1 DEF StaffTyped
    <2>3. ASSUME NEW f \in Employees \ (addedByHand' \union doubled') PROVE RecordsOf(f)'
        <3>1. RecordsOf(f) /\ payouts'[f] = payouts[f]
            BY <1>t, <2>1, <2>3 DEF StaffInv
        <3>2. QED
            BY <2>1, <3>1 DEF RecordsOf
    <2>4. QED
        BY <2>2, <2>3 DEF StaffInv
<1>14. ASSUME NEW e \in Employees, NEW p \in Periods, Staff!DeletePayout(e, p) PROVE StaffInv'
    <2>1. /\ payouts[e][p] > 0 /\ payouts' = [payouts EXCEPT ![e][p] = @ - 1]
          /\ UNCHANGED <<onPayroll, attendance, staffCall, addedByHand, doubled>>
        BY <1>14 DEF Staff!DeletePayout, Staff!HasPayout
    <2>2. StaffTyped'
        BY <1>t, <2>1 DEF StaffTyped
    <2>3. \A f \in Employees, q \in Periods : payouts'[f][q] <= payouts[f][q] /\ payouts'[f][q] \in Nat
        BY <1>t, <2>1
    <2>4. ASSUME NEW f \in Employees \ (addedByHand \union doubled) PROVE RecordsOf(f)'
        <3>1. RecordsOf(f)
            BY <2>4 DEF StaffInv
        <3>2. \A q \in Periods : payouts'[f][q] <= 1
            BY <1>t, <2>3, <3>1 DEF RecordsOf
        <3>3. \A x \in StaffCalls : staffCall[x].kind = "payroll" => staffCall[x].period \in Periods
            BY <1>k
        <3>4. \A x \in StaffCalls : staffCall[x].kind = "payroll" /\ f \in staffCall[x].made =>
                 payouts'[f][staffCall[x].period] = 0
            BY <1>t, <2>3, <3>1, <3>3 DEF RecordsOf
        <3>5. QED
            BY <2>1, <3>1, <3>2, <3>4 DEF RecordsOf
    <2>5. QED
        BY <2>1, <2>2, <2>4 DEF StaffInv
<1>15. CASE Staff!Next
    BY <1>3, <1>4, <1>5, <1>6, <1>8, <1>9, <1>10, <1>11, <1>12, <1>13, <1>14, <1>15 DEF Staff!Next
<1>16. QED
    BY <1>0, <1>15

-----------------------------------------------------------------------------
(* LeaveRequests *)

LEMMA LeavingSteps == PlatformSpec => Leaving!Init /\ [][Leaving!Next]_leavingVars
<1>1. PlatformInit => Leaving!Init
    BY DEF PlatformInit
<1>2. [PlatformNext]_<<part, accessVars, configVars, bindingVars, noticeVars, clubVars, leavingVars,
                       recordVars, bookVars, deskVars, shelfVars, countVars>>
      => [Leaving!Next]_leavingVars
    BY DEF PlatformNext, leavingVars
<1>3. QED
    BY <1>1, <1>2, Behaviour, PTL

LEMMA SameSum == \A f : Leaving!SumOver(f) = SumOver(f) /\ Club!SumOver(f) = SumOver(f)
BY DEF Leaving!SumOver, Leaving!SumTable, Leaving!Pick, Club!SumOver, Club!SumTable, Club!Pick,
       SumOver, SumTable, Pick

LeaveRows == [employee : Employees, days : Nat, live : BOOLEAN, status : Leaving!LeaveStatus]

\* The days of leave that rows approve for an employee, by request.
DaysOfLeave(rows, e) ==
    [l \in Leaves |-> IF rows[l] # Leaving!NoLeave /\ rows[l].employee = e /\ rows[l].status = "approved"
                      THEN rows[l].days ELSE 0]

ChargedTo(e) == IF used[e] = Leaving!NoBalance THEN 0 ELSE used[e]

Approves(x) == approval[x] # Leaving!NoApproval
RequestOf(x) == leave[approval[x].of]

LeavingTyped ==
    /\ leave \in [Leaves -> {Leaving!NoLeave} \union LeaveRows]
    /\ used \in [Employees -> Nat \union {Leaving!NoBalance}]
    /\ DOMAIN approval = Approvers
    /\ \A x \in Approvers : Approves(x) => approval[x] \in [of : Leaves, balance : Nat]

\* A request is decided by the one approver that has locked it.  What an approver
\* has read is what is charged, unless the employee has a second approval; at worst
\* it is less than what has been approved since.
ApproversAgree ==
    /\ \A x \in Approvers : Approves(x) =>
          RequestOf(x) # Leaving!NoLeave /\ RequestOf(x).status \in Leaving!Undecided
    /\ \A x, y \in Approvers : x # y /\ Approves(x) /\ Approves(y) =>
          /\ approval[x].of # approval[y].of
          /\ RequestOf(x).employee = RequestOf(y).employee => RequestOf(x).employee \in overlapped
    /\ \A x \in Approvers, e \in Employees \ editedByHand : Approves(x) /\ RequestOf(x).employee = e =>
          /\ approval[x].balance <= Leaving!ApprovedDays(e)
          /\ e \notin overlapped => approval[x].balance = ChargedTo(e)

LeavingInv == LeavingTyped /\ ApproversAgree /\ Leaving!LeaveIsChargedOnce

LEMMA DaysSum ==
    ASSUME NEW rows \in [Leaves -> {Leaving!NoLeave} \union LeaveRows], NEW e
    PROVE  /\ IsSummable(DaysOfLeave(rows, e)) /\ SumOver(DaysOfLeave(rows, e)) \in Nat
           /\ DOMAIN DaysOfLeave(rows, e) = Leaves
<1>1. \A l \in Leaves : DaysOfLeave(rows, e)[l] \in Nat
    <2> SUFFICES ASSUME NEW l \in Leaves, rows[l] # Leaving!NoLeave PROVE rows[l].days \in Nat
        BY DEF DaysOfLeave
    <2>1. rows[l] \in LeaveRows
        OBVIOUS
    <2>2. QED
        BY <2>1 DEF LeaveRows
<1>2. DOMAIN DaysOfLeave(rows, e) = Leaves /\ IsFiniteSet(Leaves)
    BY PlatformAssumption DEF DaysOfLeave
<1>3. QED
    BY <1>1, <1>2, SumOverNat DEF IsSummable

LEMMA DaysAre == \A e : Leaving!ApprovedDays(e) = SumOver(DaysOfLeave(leave, e))
BY SameSum DEF Leaving!ApprovedDays, DaysOfLeave

\* An approval adds the days of its request to its employee's.
LEMMA DaysApproved ==
    ASSUME NEW rows \in [Leaves -> {Leaving!NoLeave} \union LeaveRows], NEW l \in Leaves,
           rows[l] \in LeaveRows, rows[l].status # "approved", NEW e
    PROVE  LET more == [rows EXCEPT ![l].status = "approved"]
           IN  SumOver(DaysOfLeave(more, e)) = SumOver(DaysOfLeave(rows, e)) + IF rows[l].employee = e THEN rows[l].days ELSE 0
<1> DEFINE more == [rows EXCEPT ![l].status = "approved"]
<1>1. /\ more[l].status = "approved" /\ more[l].employee = rows[l].employee /\ more[l].days = rows[l].days
      /\ more[l] \in LeaveRows
      /\ \A k \in Leaves \ {l} : more[k] = rows[k]
      /\ more \in [Leaves -> {Leaving!NoLeave} \union LeaveRows]
    BY DEF LeaveRows, Leaving!LeaveStatus
<1> HIDE DEF more
<1>2. more[l] # Leaving!NoLeave /\ rows[l] # Leaving!NoLeave /\ rows[l].days \in Nat
    BY <1>1 DEF LeaveRows, Leaving!NoLeave, Leaving!LeaveStatus
<1>3. /\ DaysOfLeave(rows, e)[l] = 0
      /\ DaysOfLeave(more, e)[l] = IF rows[l].employee = e THEN rows[l].days ELSE 0
      /\ \A k \in Leaves \ {l} : DaysOfLeave(more, e)[k] = DaysOfLeave(rows, e)[k]
    BY <1>1, <1>2 DEF DaysOfLeave
<1>4. SumOver(DaysOfLeave(more, e)) = SumOver(DaysOfLeave(rows, e)) + (DaysOfLeave(more, e)[l] - DaysOfLeave(rows, e)[l])
    BY <1>1, <1>3, DaysSum, SumOverChange
<1>5. SumOver(DaysOfLeave(rows, e)) \in Nat
    BY DaysSum
<1>6. QED
    BY <1>2, <1>3, <1>4, <1>5 DEF more

LEMMA LeavingInit == Leaving!Init => LeavingInv
<1> SUFFICES ASSUME Leaving!Init PROVE LeavingInv
    OBVIOUS
<1>1. LeavingTyped /\ ApproversAgree
    BY DEF Leaving!Init, LeavingTyped, ApproversAgree, Approves
<1>2. ASSUME NEW e PROVE SumOver(DaysOfLeave(leave, e)) = 0
    <2>1. DOMAIN DaysOfLeave(leave, e) = Leaves /\ \A l \in Leaves : DaysOfLeave(leave, e)[l] = 0
        BY DEF Leaving!Init, DaysOfLeave
    <2>2. QED
        BY <2>1, SumOverZero, PlatformAssumption
<1>3. QED
    BY <1>1, <1>2, DaysAre DEF Leaving!Init, LeavingInv, Leaving!LeaveIsChargedOnce

LEMMA LeavingNext == LeavingInv /\ [Leaving!Next]_leavingVars => LeavingInv'
<1> SUFFICES ASSUME LeavingInv, [Leaving!Next]_leavingVars PROVE LeavingInv'
    OBVIOUS
<1>t. /\ leave \in [Leaves -> {Leaving!NoLeave} \union LeaveRows]
      /\ used \in [Employees -> Nat \union {Leaving!NoBalance}] /\ DOMAIN approval = Approvers
      /\ \A x \in Approvers : Approves(x) =>
            /\ approval[x].of \in Leaves /\ approval[x].balance \in Nat
            /\ RequestOf(x) \in LeaveRows /\ RequestOf(x).status \in Leaving!Undecided
            /\ RequestOf(x).employee \in Employees /\ RequestOf(x).days \in Nat
    BY DEF LeavingInv, LeavingTyped, ApproversAgree, LeaveRows, RequestOf
<1>s. /\ \A e : Leaving!ApprovedDays(e) = SumOver(DaysOfLeave(leave, e)) /\ Leaving!ApprovedDays(e) \in Nat
      /\ \A e \in Employees : ChargedTo(e) \in Nat
    BY <1>t, DaysAre, DaysSum DEF ChargedTo, Leaving!NoBalance
<1>p. \A e : Leaving!ApprovedDays(e)' = SumOver(DaysOfLeave(leave', e))
    BY SameSum DEF Leaving!ApprovedDays, DaysOfLeave
<1>c. LeavingTyped' /\ ApproversAgree'
      /\ (\A e \in Employees \ editedByHand' :
             ChargedTo(e)' <= Leaving!ApprovedDays(e)'
             /\ (e \notin overlapped' => ChargedTo(e)' = Leaving!ApprovedDays(e)'))
      => LeavingInv'
    BY DEF LeavingInv, Leaving!LeaveIsChargedOnce, ChargedTo
<1>o. \A e \in Employees \ editedByHand :
             ChargedTo(e) <= Leaving!ApprovedDays(e)
             /\ (e \notin overlapped => ChargedTo(e) = Leaving!ApprovedDays(e))
    BY DEF LeavingInv, Leaving!LeaveIsChargedOnce, ChargedTo
<1>0. CASE UNCHANGED leavingVars
    <2>1. UNCHANGED <<leave, used, approval, editedByHand, overlapped>>
        BY <1>0 DEF leavingVars
    <2>2. \A f : ChargedTo(f)' = ChargedTo(f) /\ Leaving!ApprovedDays(f)' = Leaving!ApprovedDays(f)
        BY <1>s, <1>p, <2>1 DEF ChargedTo
    <2>3. LeavingTyped' /\ ApproversAgree'
        BY <2>1, <2>2 DEF LeavingInv, LeavingTyped, ApproversAgree, Approves, RequestOf
    <2>4. QED
        BY <1>c, <1>o, <2>1, <2>2, <2>3
\* One request changes that no approver has locked, and that approves nothing new.
<1>1. ASSUME NEW l \in Leaves, NEW r \in LeaveRows, leave' = [leave EXCEPT ![l] = r],
             ~Leaving!LeaveIsLocked(l), UNCHANGED <<used, approval, overlapped>>,
             editedByHand \subseteq editedByHand',
             \A e \in Employees \ editedByHand' : DaysOfLeave(leave', e)[l] = DaysOfLeave(leave, e)[l]
      PROVE  LeavingInv'
    <2>1. /\ leave' \in [Leaves -> {Leaving!NoLeave} \union LeaveRows]
          /\ \A k \in Leaves \ {l} : leave'[k] = leave[k]
        BY <1>1, <1>t
    <2>2. \A x \in Approvers : (Approves(x)' <=> Approves(x)) /\ approval'[x] = approval[x]
        BY <1>1 DEF Approves
    <2>3. \A x \in Approvers : Approves(x) => RequestOf(x)' = RequestOf(x)
        BY <1>1, <1>t, <2>1 DEF RequestOf, Leaving!LeaveIsLocked, Approves
    <2>4. LeavingTyped'
        BY <1>1, <1>t, <2>1 DEF LeavingInv, LeavingTyped, Approves
    <2>5. \A e \in Employees \ editedByHand' : Leaving!ApprovedDays(e)' = Leaving!ApprovedDays(e)
        <3>1. ASSUME NEW e \in Employees \ editedByHand'
              PROVE  SumOver(DaysOfLeave(leave', e)) = SumOver(DaysOfLeave(leave, e))
            <4>1. \A k \in Leaves : DaysOfLeave(leave', e)[k] = DaysOfLeave(leave, e)[k]
                BY <1>1, <2>1, <3>1 DEF DaysOfLeave
            <4>2. QED
                BY <1>t, <2>1, <4>1, DaysSum, SumOverSame
        <3>2. QED
            BY <1>s, <1>p, <3>1
    <2>6. \A e : ChargedTo(e)' = ChargedTo(e)
        BY <1>1 DEF ChargedTo
    <2>7. ApproversAgree'
        <3>1. \A x \in Approvers : Approves(x) =>
                 RequestOf(x) # Leaving!NoLeave /\ RequestOf(x).status \in Leaving!Undecided
            BY DEF LeavingInv, ApproversAgree
        <3>2. \A x, y \in Approvers : x # y /\ Approves(x) /\ Approves(y) =>
                 /\ approval[x].of # approval[y].of
                 /\ RequestOf(x).employee = RequestOf(y).employee => RequestOf(x).employee \in overlapped
            BY DEF LeavingInv, ApproversAgree
        <3>3. \A x \in Approvers, e \in Employees \ editedByHand' : Approves(x) /\ RequestOf(x).employee = e =>
                 /\ approval[x].balance <= Leaving!ApprovedDays(e)'
                 /\ e \notin overlapped => approval[x].balance = ChargedTo(e)
            BY <1>1, <1>t, <2>5 DEF LeavingInv, ApproversAgree
        <3>4. QED
            BY <1>1, <2>2, <2>3, <2>6, <3>1, <3>2, <3>3 DEF ApproversAgree
    <2>8. QED
        BY <1>1, <1>c, <1>o, <2>4, <2>5, <2>6, <2>7
<1>2. ASSUME NEW l \in Leaves, Leaving!RequestLeave(l) PROVE LeavingInv'
    <2>1. PICK e \in Employees, n \in LengthsOfLeave :
             leave' = [leave EXCEPT ![l] = [employee |-> e, days |-> n, live |-> TRUE, status |-> "pending_manager"]]
        BY <1>2 DEF Leaving!RequestLeave
    <2> DEFINE r == [employee |-> e, days |-> n, live |-> TRUE, status |-> "pending_manager"]
    <2>2. r \in LeaveRows /\ r.status = "pending_manager"
        BY PlatformAssumption DEF LeaveRows, Leaving!LeaveStatus
    <2> HIDE DEF r
    <2>3. leave[l] = Leaving!NoLeave /\ leave' = [leave EXCEPT ![l] = r]
          /\ UNCHANGED <<used, approval, editedByHand, overlapped>>
        BY <1>2, <2>1 DEF Leaving!RequestLeave, r
    <2>4. ~Leaving!LeaveIsLocked(l)
        BY <2>3 DEF LeavingInv, ApproversAgree, Leaving!LeaveIsLocked, Approves, RequestOf
    <2>5. \A f : DaysOfLeave(leave', f)[l] = DaysOfLeave(leave, f)[l]
        BY <1>t, <2>2, <2>3 DEF DaysOfLeave
    <2>6. QED
        BY <1>1, <2>2, <2>3, <2>4, <2>5
\* A live request that is not being approved.
<1>3. ASSUME NEW l \in Leaves, Leaving!Reachable(l)
      PROVE  leave[l] # Leaving!NoLeave /\ leave[l] \in LeaveRows /\ ~Leaving!LeaveIsLocked(l)
    BY <1>3, <1>t DEF Leaving!Reachable
<1>4. ASSUME NEW l \in Leaves, Leaving!Reject(l) PROVE LeavingInv'
    <2> DEFINE r == [leave[l] EXCEPT !.status = "rejected"]
    <2>1. /\ leave[l].status \in Leaving!Undecided /\ leave' = [leave EXCEPT ![l] = r]
          /\ UNCHANGED <<used, approval, editedByHand, overlapped>>
        BY <1>t, <1>4 DEF Leaving!Reject, Leaving!Open
    <2>2. leave[l] \in LeaveRows /\ ~Leaving!LeaveIsLocked(l)
        BY <1>3, <1>4 DEF Leaving!Reject, Leaving!Open
    <2>3. r \in LeaveRows /\ r.status = "rejected"
        BY <2>2 DEF LeaveRows, Leaving!LeaveStatus
    <2> HIDE DEF r
    <2>4. \A f : DaysOfLeave(leave', f)[l] = DaysOfLeave(leave, f)[l]
        BY <1>t, <2>1, <2>3 DEF DaysOfLeave, Leaving!Undecided
    <2>5. QED
        BY <1>1, <2>1, <2>2, <2>3, <2>4
<1>5. ASSUME NEW l \in Leaves, Leaving!EditLeave(l) PROVE LeavingInv'
    <2>1. PICK s \in Leaving!LeaveStatus, n \in LengthsOfLeave :
             leave' = [leave EXCEPT ![l].status = s, ![l].days = n]
        BY <1>5 DEF Leaving!EditLeave
    <2> DEFINE q == [leave[l] EXCEPT !.status = s]
               r == [q EXCEPT !.days = n]
    <2>2. leave[l] \in LeaveRows /\ leave[l] # Leaving!NoLeave /\ ~Leaving!LeaveIsLocked(l)
        BY <1>3, <1>5 DEF Leaving!EditLeave
    <2>3. q \in LeaveRows /\ q.employee = leave[l].employee
        BY <2>2 DEF LeaveRows
    <2>4. r \in LeaveRows /\ r.employee = leave[l].employee
        <3> HIDE DEF q
        <3>1. n \in Nat
            BY PlatformAssumption
        <3>2. QED
            BY <2>3, <3>1 DEF LeaveRows
    <2>5. leave' = [leave EXCEPT ![l] = r]
        BY <1>t, <2>1
    <2>6. editedByHand' = editedByHand \union {leave[l].employee} /\ UNCHANGED <<used, approval, overlapped>>
        BY <1>5 DEF Leaving!EditLeave
    <2> HIDE DEF q, r
    <2>7. \A f \in Employees \ editedByHand' : DaysOfLeave(leave', f)[l] = DaysOfLeave(leave, f)[l]
        BY <1>t, <2>4, <2>5, <2>6 DEF DaysOfLeave
    <2>8. QED
        BY <1>1, <2>2, <2>4, <2>5, <2>6, <2>7
<1>6. ASSUME NEW l \in Leaves, Leaving!DeleteLeave(l) PROVE LeavingInv'
    <2> DEFINE r == [leave[l] EXCEPT !.live = FALSE]
    <2>1. leave' = [leave EXCEPT ![l] = r] /\ UNCHANGED <<used, approval, editedByHand, overlapped>>
        BY <1>t, <1>6 DEF Leaving!DeleteLeave
    <2>2. leave[l] \in LeaveRows /\ leave[l] # Leaving!NoLeave /\ ~Leaving!LeaveIsLocked(l)
        BY <1>3, <1>6 DEF Leaving!DeleteLeave
    <2>3. r \in LeaveRows /\ r.status = leave[l].status /\ r.employee = leave[l].employee /\ r.days = leave[l].days
        BY <2>2 DEF LeaveRows
    <2>4. r # Leaving!NoLeave
        BY <2>3 DEF LeaveRows, Leaving!NoLeave, Leaving!LeaveStatus
    <2> HIDE DEF r
    <2>5. \A f : DaysOfLeave(leave', f)[l] = DaysOfLeave(leave, f)[l]
        BY <1>t, <2>1, <2>2, <2>3, <2>4 DEF DaysOfLeave
    <2>6. QED
        BY <1>1, <2>1, <2>2, <2>3, <2>5
<1>7. ASSUME NEW x \in Approvers, NEW l \in Leaves, Leaving!BeginApproval(x, l) PROVE LeavingInv'
    <2> DEFINE e == leave[l].employee
               a == [of |-> l, balance |-> IF used[e] = Leaving!NoBalance THEN 0 ELSE used[e]]
    <2>1. /\ ~Approves(x) /\ approval' = [approval EXCEPT ![x] = a]
          /\ overlapped' = IF Leaving!ApprovalsOf(e) = {} THEN overlapped ELSE overlapped \union {e}
          /\ UNCHANGED <<leave, used, editedByHand>>
        BY <1>7 DEF Leaving!BeginApproval, Approves
    <2>2. /\ leave[l] \in LeaveRows /\ leave[l] # Leaving!NoLeave /\ ~Leaving!LeaveIsLocked(l)
          /\ leave[l].status \in Leaving!Undecided /\ e \in Employees
        BY <1>3, <1>7 DEF Leaving!BeginApproval, Leaving!Open, LeaveRows
    <2>3. a.of = l /\ a.balance = ChargedTo(e) /\ a \in [of : Leaves, balance : Nat]
        BY <1>s, <2>2 DEF ChargedTo
    <2>4. e \notin overlapped' => \A y \in Approvers : Approves(y) => RequestOf(y).employee # e
        BY <2>1 DEF Leaving!ApprovalsOf, Approves, RequestOf
    <2>5. \A y \in Approvers : Approves(y) => approval[y].of # l
        BY <2>2 DEF Leaving!LeaveIsLocked, Approves
    <2>6. overlapped \subseteq overlapped'
        BY <2>1
    <2> HIDE DEF a, e
    <2>7. /\ approval'[x] = a /\ \A y \in Approvers \ {x} : approval'[y] = approval[y] /\ (Approves(y)' <=> Approves(y))
          /\ DOMAIN approval' = Approvers
        BY <1>t, <2>1 DEF Approves
    <2>8. RequestOf(x)' = leave[l] /\ \A y \in Approvers \ {x} : RequestOf(y)' = RequestOf(y)
        BY <2>1, <2>3, <2>7 DEF RequestOf
    <2>9. \A f : ChargedTo(f)' = ChargedTo(f) /\ Leaving!ApprovedDays(f)' = Leaving!ApprovedDays(f)
        BY <1>s, <1>p, <2>1 DEF ChargedTo
    <2>10. LeavingTyped'
        BY <1>t, <2>1, <2>3, <2>7 DEF LeavingInv, LeavingTyped
    <2>11. ApproversAgree'
        <3>1. \A y \in Approvers : Approves(y)' =>
                 RequestOf(y)' # Leaving!NoLeave /\ RequestOf(y)'.status \in Leaving!Undecided
            BY <2>2, <2>7, <2>8 DEF LeavingInv, ApproversAgree
        <3>2. \A y, z \in Approvers : y # z /\ Approves(y)' /\ Approves(z)' =>
                 /\ approval'[y].of # approval'[z].of
                 /\ RequestOf(y)'.employee = RequestOf(z)'.employee => RequestOf(y)'.employee \in overlapped'
            <4>1. ASSUME NEW y \in Approvers \ {x}, Approves(y)
                  PROVE  /\ approval'[y].of # approval'[x].of
                         /\ RequestOf(y)'.employee = RequestOf(x)'.employee => RequestOf(y)'.employee \in overlapped'
                BY <2>3, <2>4, <2>5, <2>7, <2>8, <4>1 DEF e
            <4>2. ASSUME NEW y \in Approvers \ {x}, NEW z \in Approvers \ {x}, y # z, Approves(y), Approves(z)
                  PROVE  /\ approval'[y].of # approval'[z].of
                         /\ RequestOf(y)'.employee = RequestOf(z)'.employee => RequestOf(y)'.employee \in overlapped'
                BY <2>6, <2>7, <2>8, <4>2 DEF LeavingInv, ApproversAgree
            <4>3. QED
                BY <2>7, <2>8, <4>1, <4>2
        <3>3. \A y \in Approvers, f \in Employees \ editedByHand' : Approves(y)' /\ RequestOf(y)'.employee = f =>
                 /\ approval'[y].balance <= Leaving!ApprovedDays(f)
                 /\ f \notin overlapped' => approval'[y].balance = ChargedTo(f)
            <4>1. e \notin editedByHand =>
                    approval'[x].balance = ChargedTo(e) /\ ChargedTo(e) <= Leaving!ApprovedDays(e)
                BY <1>o, <2>2, <2>3, <2>7
            <4>2. ASSUME NEW y \in Approvers \ {x}, NEW f \in Employees \ editedByHand, Approves(y),
                         RequestOf(y).employee = f
                  PROVE  /\ approval[y].balance <= Leaving!ApprovedDays(f)
                         /\ f \notin overlapped' => approval[y].balance = ChargedTo(f)
                BY <2>6, <4>2 DEF LeavingInv, ApproversAgree
            <4>3. RequestOf(x)'.employee = e
                BY <2>8 DEF e
            <4>4. QED
                BY <2>1, <2>7, <2>8, <4>1, <4>2, <4>3
        <3>4. QED
            BY <2>9, <3>1, <3>2, <3>3 DEF ApproversAgree
    <2>12. QED
        BY <1>c, <1>o, <2>1, <2>6, <2>9, <2>10, <2>11

\* An approver is done.
<1>8. ASSUME NEW x \in Approvers, approval' = [approval EXCEPT ![x] = Leaving!NoApproval],
             UNCHANGED <<editedByHand, overlapped>>
      PROVE  /\ DOMAIN approval' = Approvers /\ ~Approves(x)'
             /\ \A y \in Approvers \ {x} : approval'[y] = approval[y] /\ (Approves(y)' <=> Approves(y))
    BY <1>8, <1>t DEF Approves
<1>9. ASSUME NEW x \in Approvers, Leaving!Rollback(x) PROVE LeavingInv'
    <2>1. /\ approval' = [approval EXCEPT ![x] = Leaving!NoApproval]
          /\ UNCHANGED <<leave, used, editedByHand, overlapped>>
        BY <1>9 DEF Leaving!Rollback
    <2>2. /\ DOMAIN approval' = Approvers /\ ~Approves(x)'
          /\ \A y \in Approvers \ {x} : approval'[y] = approval[y] /\ (Approves(y)' <=> Approves(y))
                                        /\ RequestOf(y)' = RequestOf(y)
        BY <1>8, <2>1 DEF RequestOf
    <2>3. \A f : ChargedTo(f)' = ChargedTo(f) /\ Leaving!ApprovedDays(f)' = Leaving!ApprovedDays(f)
        BY <1>s, <1>p, <2>1 DEF ChargedTo
    <2>4. LeavingTyped' /\ ApproversAgree'
        BY <1>t, <2>1, <2>2, <2>3 DEF LeavingInv, LeavingTyped, ApproversAgree
    <2>5. QED
        BY <1>c, <1>o, <2>1, <2>3, <2>4
<1>10. ASSUME NEW x \in Approvers, Leaving!Approve(x) PROVE LeavingInv'
    <2>0. PICK l, e, n, d : l = approval[x].of /\ e = leave[l].employee /\ n = approval[x].balance
                            /\ d = leave[l].days
        OBVIOUS
    <2>1. /\ Approves(x) /\ leave' = [leave EXCEPT ![l].status = "approved"]
          /\ used' = [used EXCEPT ![e] = n + d]
          /\ approval' = [approval EXCEPT ![x] = Leaving!NoApproval]
          /\ UNCHANGED <<editedByHand, overlapped>>
        BY <1>10, <2>0 DEF Leaving!Approve, Approves
    <2>2. /\ l \in Leaves /\ n \in Nat /\ leave[l] \in LeaveRows /\ e \in Employees /\ d \in Nat
          /\ leave[l].status \in Leaving!Undecided
        BY <1>t, <2>0, <2>1 DEF RequestOf
    <2>3. /\ e \notin editedByHand => n <= Leaving!ApprovedDays(e)
          /\ e \notin editedByHand /\ e \notin overlapped => n = ChargedTo(e)
        BY <2>0, <2>1, <2>2 DEF LeavingInv, ApproversAgree, RequestOf
    <2>4. \A y \in Approvers \ {x} : Approves(y) =>
             approval[y].of # l /\ (RequestOf(y).employee = e => e \in overlapped)
        BY <2>0, <2>1 DEF LeavingInv, ApproversAgree, RequestOf
    <2>5. /\ DOMAIN approval' = Approvers /\ ~Approves(x)'
          /\ \A y \in Approvers \ {x} : approval'[y] = approval[y] /\ (Approves(y)' <=> Approves(y))
        BY <1>8, <2>1
    <2>6. \A y \in Approvers \ {x} : Approves(y) => RequestOf(y)' = RequestOf(y)
        BY <1>t, <2>1, <2>4, <2>5 DEF RequestOf
    <2>7. \A f : Leaving!ApprovedDays(f)' = Leaving!ApprovedDays(f) + IF e = f THEN d ELSE 0
        <3>1. leave[l].status # "approved"
            BY <2>2 DEF Leaving!Undecided
        <3>2. ASSUME NEW f PROVE SumOver(DaysOfLeave(leave', f))
                                   = SumOver(DaysOfLeave(leave, f)) + IF leave[l].employee = f THEN leave[l].days ELSE 0
            BY <1>t, <2>1, <2>2, <3>1, DaysApproved
        <3>3. QED
            BY <1>s, <1>p, <2>0, <3>2
    <2>8. /\ ChargedTo(e)' = n + d
          /\ \A f \in Employees \ {e} : ChargedTo(f)' = ChargedTo(f)
        <3>1. n + d # Leaving!NoBalance
            BY <2>2 DEF Leaving!NoBalance
        <3>2. used'[e] = n + d /\ \A f \in Employees \ {e} : used'[f] = used[f]
            BY <1>t, <2>1, <2>2
        <3>3. QED
            BY <3>1, <3>2 DEF ChargedTo
    <2>9. LeavingTyped'
        <3>1. leave' \in [Leaves -> {Leaving!NoLeave} \union LeaveRows]
            <4> DEFINE r == [leave[l] EXCEPT !.status = "approved"]
            <4>1. r \in LeaveRows /\ leave' = [leave EXCEPT ![l] = r]
                BY <1>t, <2>1, <2>2 DEF LeaveRows, Leaving!LeaveStatus
            <4> HIDE DEF r
            <4>2. QED
                BY <1>t, <4>1
        <3>2. used' \in [Employees -> Nat \union {Leaving!NoBalance}]
            BY <1>t, <2>1, <2>2
        <3>3. QED
            BY <2>5, <3>1, <3>2 DEF LeavingInv, LeavingTyped
    <2>10. ApproversAgree'
        <3>1. \A y \in Approvers : Approves(y)' =>
                 RequestOf(y)' # Leaving!NoLeave /\ RequestOf(y)'.status \in Leaving!Undecided
            BY <2>5, <2>6 DEF LeavingInv, ApproversAgree
        <3>2. \A y, z \in Approvers : y # z /\ Approves(y)' /\ Approves(z)' =>
                 /\ approval'[y].of # approval'[z].of
                 /\ RequestOf(y)'.employee = RequestOf(z)'.employee => RequestOf(y)'.employee \in overlapped'
            BY <2>1, <2>5, <2>6 DEF LeavingInv, ApproversAgree
        <3>3. ASSUME NEW y \in Approvers \ {x}, NEW f \in Employees \ editedByHand, Approves(y),
                     RequestOf(y).employee = f
              PROVE  /\ approval[y].balance <= Leaving!ApprovedDays(f)'
                     /\ f \notin overlapped => approval[y].balance = ChargedTo(f)'
            <4>1. /\ approval[y].balance <= Leaving!ApprovedDays(f) /\ approval[y].balance \in Nat
                  /\ f \notin overlapped => approval[y].balance = ChargedTo(f)
                  /\ f = e => e \in overlapped
                BY <1>t, <2>4, <3>3 DEF LeavingInv, ApproversAgree
            <4>2. QED
                BY <1>s, <2>2, <2>7, <2>8, <4>1
        <3>4. \A y \in Approvers, f \in Employees \ editedByHand' : Approves(y)' /\ RequestOf(y)'.employee = f =>
                 /\ approval'[y].balance <= Leaving!ApprovedDays(f)'
                 /\ f \notin overlapped' => approval'[y].balance = ChargedTo(f)'
            BY <2>1, <2>5, <2>6, <3>3
        <3>5. QED
            BY <2>1, <3>1, <3>2, <3>4 DEF ApproversAgree
    <2>11. \A f \in Employees \ editedByHand' :
              ChargedTo(f)' <= Leaving!ApprovedDays(f)'
              /\ (f \notin overlapped' => ChargedTo(f)' = Leaving!ApprovedDays(f)')
        <3> SUFFICES ASSUME NEW f \in Employees \ editedByHand
                     PROVE  ChargedTo(f)' <= Leaving!ApprovedDays(f)'
                            /\ (f \notin overlapped => ChargedTo(f)' = Leaving!ApprovedDays(f)')
            BY <2>1
        <3>1. CASE f = e
            BY <1>s, <1>o, <2>2, <2>3, <2>7, <2>8, <3>1
        <3>2. CASE f # e
            BY <1>s, <1>o, <2>2, <2>7, <2>8, <3>2
        <3>3. QED
            BY <3>1, <3>2
    <2>12. QED
        BY <1>c, <2>9, <2>10, <2>11
<1>11. CASE Leaving!Next
    BY <1>2, <1>4, <1>5, <1>6, <1>7, <1>9, <1>10, <1>11 DEF Leaving!Next
<1>12. QED
    BY <1>0, <1>11

\* Approved leave is charged once, attendance is opened and salary paid once,
\* whatever calls of whichever employees overlap, except for an employee two of whose
\* calls overlap or whose rows a form has changed (employees services, payroll).
THEOREM StaffBooked == PlatformSpec => []StaffBookedOnce
<1>1. LeavingInv /\ StaffInv => StaffBookedOnce
    BY DEF LeavingInv, StaffInv, RecordsOf, StaffBookedOnce, Staff!CreatedOnce
<1>2. PlatformSpec => []LeavingInv
    BY LeavingInit, LeavingNext, LeavingSteps, PTL
<1>3. PlatformSpec => []StaffInv
    BY StaffInit, StaffNext, StaffSteps, PTL
<1>4. QED
    BY <1>1, <1>2, <1>3, PTL

-----------------------------------------------------------------------------
(* Customers *)

LEMMA ClubSteps == PlatformSpec => Club!Init /\ [][Club!Next]_clubVars
<1>1. PlatformInit => Club!Init
    BY DEF PlatformInit
<1>2. [PlatformNext]_<<part, accessVars, configVars, bindingVars, noticeVars, clubVars, leavingVars,
                       recordVars, bookVars, deskVars, shelfVars, countVars>>
      => [Club!Next]_clubVars
    BY DEF PlatformNext, clubVars
<1>3. QED
    BY <1>1, <1>2, Behaviour, PTL

CustomerRows ==
    [live : BOOLEAN, points : Int, lifetime : Int, tier : {Club!TierFor(n) : n \in Int},
     wallet : Int, credit : Int, limit : Limits]
CouponRows == [uses : Int, max : Limits]
ServiceCalls == [customer : Customers, service : DOMAIN Club!Services, amount : Amounts,
                 key : Keys \union {NoKey}]

ClubTyped ==
    /\ customer \in [Customers -> {Club!NoCustomer} \union CustomerRows]
    /\ ledger \in [Customers -> [Club!Accounts -> Int]]
    /\ coupon \in CouponRows
    /\ redemptions \in [Customers -> Int]
    /\ posted \in [Club!Ledgers -> [Keys -> Nat]]
    /\ DOMAIN call = Calls
    /\ \A r \in Calls : call[r] # Club!NoCall => call[r] \in ServiceCalls
    /\ DOMAIN form = Club!Resources
    /\ \A c \in Customers : form[c] # Club!NoForm => form[c] \in CustomerRows
    /\ form["coupon"] # Club!NoForm => form["coupon"] \in CouponRows

\* A customer's row agrees with the ledgers.
Agrees(of, books) ==
    /\ of.points = books["points"] /\ of.points >= 0
    /\ of.wallet = books["wallet"] /\ of.wallet >= 0
    /\ of.credit >= books["credit"]
    /\ of.lifetime >= of.points

\* Nothing is posted for a customer who does not exist.
ClubInv ==
    /\ ClubTyped
    /\ \A c \in Customers : customer[c] = Club!NoCustomer => \A a \in Club!Accounts : ledger[c][a] = 0
    /\ \A c \in Customers \ overwritten : customer[c] # Club!NoCustomer => Agrees(customer[c], ledger[c])
    /\ Club!KeysPostedOnce
    /\ \A c \in Customers : redemptions[c] <= PerCustomer
    /\ "coupon" \notin overwritten => coupon.uses = SumOver(redemptions)

\* What each service writes under its guard keeps a row in agreement.
LEMMA PostedAgrees ==
    ASSUME NEW r \in CustomerRows, NEW s \in DOMAIN Club!Services, s # "coupon", NEW n \in Nat,
           Club!Allowed(r, s, n), NEW books \in [Club!Accounts -> Int]
    PROVE  LET more == [books EXCEPT ![Club!Services[s]] = @ + Club!Entry(s, n)]
           IN  /\ Club!Posted(r, s, n) \in CustomerRows
               /\ more \in [Club!Accounts -> Int] /\ Club!Services[s] \in Club!Accounts
               /\ Agrees(r, books) => Agrees(Club!Posted(r, s, n), more)
<1> DEFINE a == Club!Services[s]
           d == Club!Entry(s, n)
           more == [books EXCEPT ![a] = @ + d]
           post == Club!Posted(r, s, n)
<1>1. s \in {"earn", "redeem", "deposit", "pay", "charge", "settle"}
    BY DEF Club!Services
<1>2. /\ a = IF s \in {"earn", "redeem"} THEN "points"
             ELSE IF s \in {"deposit", "pay"} THEN "wallet" ELSE "credit"
      /\ d = IF s \in {"redeem", "pay", "settle"} THEN -n ELSE n
    BY <1>1 DEF Club!Services, Club!Entry
<1>3. /\ DOMAIN books = {"points", "wallet", "credit"} /\ d \in Int
      /\ books["points"] \in Int /\ books["wallet"] \in Int /\ books["credit"] \in Int
    BY <1>2 DEF Club!Accounts
<1>4. /\ more \in [Club!Accounts -> Int] /\ a \in Club!Accounts
      /\ more[a] = books[a] + d
      /\ \A b \in Club!Accounts \ {a} : more[b] = books[b]
    <2> HIDE DEF a, d
    <2>1. QED
        BY <1>2, <1>3 DEF Club!Accounts
<1>5. /\ r.points \in Int /\ r.lifetime \in Int /\ r.wallet \in Int /\ r.credit \in Int
    BY DEF CustomerRows
<1> HIDE DEF a, d, more
<1>6. CASE s = "earn"
    <2> DEFINE r1 == [r EXCEPT !.points = @ + n]
               r2 == [r1 EXCEPT !.lifetime = @ + n]
               r3 == [r2 EXCEPT !.tier = Club!TierFor(r.lifetime + n)]
    <2>1. post = r3
        BY <1>6 DEF Club!Posted
    <2>2. r1 \in CustomerRows /\ r1.points = r.points + n /\ r1.wallet = r.wallet /\ r1.credit = r.credit
          /\ r1.lifetime = r.lifetime
        BY <1>5 DEF CustomerRows
    <2> HIDE DEF r1
    <2>3. r2 \in CustomerRows /\ r2.points = r.points + n /\ r2.wallet = r.wallet /\ r2.credit = r.credit
          /\ r2.lifetime = r.lifetime + n
        BY <1>5, <2>2 DEF CustomerRows
    <2> HIDE DEF r2
    <2>4. r3 \in CustomerRows /\ r3.points = r.points + n /\ r3.wallet = r.wallet /\ r3.credit = r.credit
          /\ r3.lifetime = r.lifetime + n
        <3> DEFINE t == Club!TierFor(r.lifetime + n)
        <3>1. t \in {Club!TierFor(m) : m \in Int}
            BY <1>5
        <3> HIDE DEF t
        <3>2. QED
            BY <2>3, <3>1 DEF CustomerRows, t
    <2> HIDE DEF r3
    <2>5. Agrees(r, books) => Agrees(r3, more)
        BY <1>2, <1>3, <1>4, <1>5, <1>6, <2>4 DEF Agrees, Club!Accounts
    <2>6. QED
        BY <1>4, <2>1, <2>4, <2>5 DEF more, a, d
<1>7. CASE s = "redeem"
    <2> DEFINE r1 == [r EXCEPT !.points = @ - n]
    <2>1. post = r1 /\ r.points >= n
        BY <1>7 DEF Club!Posted, Club!Allowed
    <2>2. r1 \in CustomerRows /\ r1.points = r.points - n /\ r1.wallet = r.wallet /\ r1.credit = r.credit
          /\ r1.lifetime = r.lifetime
        BY <1>5 DEF CustomerRows
    <2> HIDE DEF r1
    <2>3. Agrees(r, books) => Agrees(r1, more)
        BY <1>2, <1>3, <1>4, <1>5, <1>7, <2>1, <2>2 DEF Agrees, Club!Accounts
    <2>4. QED
        BY <1>4, <2>1, <2>2, <2>3 DEF more, a, d
<1>8. CASE s = "deposit" \/ s = "pay"
    <2> DEFINE w == IF s = "pay" THEN r.wallet - n ELSE r.wallet + n
               r1 == [r EXCEPT !.wallet = w]
    <2>1. post = r1 /\ (s = "pay" => r.wallet >= n)
        BY <1>8 DEF Club!Posted, Club!Allowed
    <2>2. w \in Int
        BY <1>5
    <2>3. r1 \in CustomerRows /\ r1.points = r.points /\ r1.wallet = w /\ r1.credit = r.credit
          /\ r1.lifetime = r.lifetime
        <3> HIDE DEF w
        <3>1. QED
            BY <2>2 DEF CustomerRows
    <2> HIDE DEF r1
    <2>4. Agrees(r, books) => Agrees(r1, more)
        BY <1>2, <1>3, <1>4, <1>5, <1>8, <2>1, <2>3 DEF Agrees, Club!Accounts
    <2> HIDE DEF w
    <2>5. QED
        BY <1>4, <2>1, <2>3, <2>4 DEF more, a, d
<1>9. CASE s = "charge" \/ s = "settle"
    <2> DEFINE w == IF s = "charge" THEN r.credit + n ELSE IF n > r.credit THEN 0 ELSE r.credit - n
               r1 == [r EXCEPT !.credit = w]
    <2>1. post = r1
        BY <1>9 DEF Club!Posted
    <2>2. w \in Int
        BY <1>5
    <2>3. r1 \in CustomerRows /\ r1.points = r.points /\ r1.wallet = r.wallet /\ r1.credit = w
          /\ r1.lifetime = r.lifetime
        <3> HIDE DEF w
        <3>1. QED
            BY <2>2 DEF CustomerRows
    <2> HIDE DEF r1
    <2>4. Agrees(r, books) => Agrees(r1, more)
        BY <1>2, <1>3, <1>4, <1>5, <1>9, <2>1, <2>3 DEF Agrees, Club!Accounts
    <2> HIDE DEF w
    <2>5. QED
        BY <1>4, <2>1, <2>3, <2>4 DEF more, a, d
<1>10. QED
    BY <1>1, <1>6, <1>7, <1>8, <1>9

LEMMA ClubInit == Club!Init => ClubInv
<1> SUFFICES ASSUME Club!Init PROVE ClubInv
    OBVIOUS
<1>1. ClubTyped
    <2>1. coupon \in CouponRows
        BY DEF Club!Init, CouponRows
    <2>2. ledger \in [Customers -> [Club!Accounts -> Int]] /\ posted \in [Club!Ledgers -> [Keys -> Nat]]
        BY DEF Club!Init
    <2>3. \A x \in Club!Resources : form[x] = Club!NoForm
        BY DEF Club!Init
    <2>4. QED
        BY <2>1, <2>2, <2>3 DEF Club!Init, ClubTyped, Club!Resources, Club!CouponRow
<1>2. SumOver(redemptions) = 0
    <2>1. DOMAIN redemptions = Customers /\ \A c \in Customers : redemptions[c] = 0
        BY DEF Club!Init
    <2>2. QED
        BY <2>1, SumOverZero, PlatformAssumption
<1>3. QED
    BY <1>1, <1>2, PlatformAssumption DEF Club!Init, ClubInv, Club!KeysPostedOnce

LEMMA ClubNext == ClubInv /\ [Club!Next]_clubVars => ClubInv'
<1> SUFFICES ASSUME ClubInv, [Club!Next]_clubVars PROVE ClubInv'
    OBVIOUS
<1>t. /\ customer \in [Customers -> {Club!NoCustomer} \union CustomerRows]
      /\ ledger \in [Customers -> [Club!Accounts -> Int]]
      /\ coupon \in CouponRows /\ redemptions \in [Customers -> Int]
      /\ posted \in [Club!Ledgers -> [Keys -> Nat]]
      /\ DOMAIN form = Customers \union {"coupon"} /\ "coupon" \notin Customers
    BY PlatformAssumption DEF ClubInv, ClubTyped, Club!Resources, Club!CouponRow
<1>u. \A r \in CustomerRows : r # Club!NoCustomer
    <2>1. \A r \in CustomerRows : DOMAIN r # DOMAIN Club!NoCustomer
        BY DEF CustomerRows, Club!NoCustomer
    <2>2. QED
        BY <2>1
\* Calls and forms alone: nothing that is posted changes.
<1>1. ASSUME UNCHANGED <<customer, ledger, coupon, redemptions, posted, overwritten>>,
             DOMAIN call' = Calls, \A r \in Calls : call'[r] # Club!NoCall => call'[r] \in ServiceCalls,
             DOMAIN form' = Club!Resources,
             \A c \in Customers : form'[c] # Club!NoForm => form'[c] \in CustomerRows,
             form'["coupon"] # Club!NoForm => form'["coupon"] \in CouponRows
      PROVE  ClubInv'
    BY <1>1 DEF ClubInv, ClubTyped, Club!KeysPostedOnce
<1>0. CASE UNCHANGED clubVars
    BY <1>0, <1>1 DEF clubVars, ClubInv, ClubTyped
\* One customer's row changes, and no ledger.
<1>2. ASSUME NEW c \in Customers, NEW r \in CustomerRows, customer' = [customer EXCEPT ![c] = r],
             UNCHANGED <<ledger, coupon, redemptions, posted, call, form, overwritten>>,
             c \notin overwritten => Agrees(r, ledger[c])
      PROVE  ClubInv'
    <2>1. /\ customer'[c] = r /\ \A d \in Customers \ {c} : customer'[d] = customer[d]
          /\ customer' \in [Customers -> {Club!NoCustomer} \union CustomerRows]
        BY <1>2, <1>t
    <2>2. ClubTyped'
        BY <1>2, <2>1 DEF ClubInv, ClubTyped
    <2>3. \A d \in Customers : customer'[d] = Club!NoCustomer => \A a \in Club!Accounts : ledger[d][a] = 0
        BY <1>u, <2>1 DEF ClubInv
    <2>4. \A d \in Customers \ overwritten : customer'[d] # Club!NoCustomer => Agrees(customer'[d], ledger[d])
        BY <1>2, <2>1 DEF ClubInv
    <2>5. QED
        BY <1>2, <2>2, <2>3, <2>4 DEF ClubInv, Club!KeysPostedOnce
<1>3. ASSUME NEW c \in Customers, Club!CreateCustomer(c) PROVE ClubInv'
    <2>1. PICK limit \in Limits : customer' = [customer EXCEPT ![c] =
             [live |-> TRUE, points |-> 0, lifetime |-> 0, tier |-> Club!TierFor(0),
              wallet |-> 0, credit |-> 0, limit |-> limit]]
        BY <1>3 DEF Club!CreateCustomer
    <2> DEFINE t == Club!TierFor(0)
               r == [live |-> TRUE, points |-> 0, lifetime |-> 0, tier |-> t,
                     wallet |-> 0, credit |-> 0, limit |-> limit]
    <2>2. t \in {Club!TierFor(m) : m \in Int}
        OBVIOUS
    <2>3. customer' = [customer EXCEPT ![c] = r]
        BY <2>1
    <2> HIDE DEF t
    <2>4. /\ r \in CustomerRows
          /\ r.points = 0 /\ r.lifetime = 0 /\ r.wallet = 0 /\ r.credit = 0
        BY <2>2 DEF CustomerRows
    <2> HIDE DEF r
    <2>5. \A a \in Club!Accounts : ledger[c][a] = 0
        BY <1>3 DEF Club!CreateCustomer, ClubInv
    <2>6. Agrees(r, ledger[c])
        BY <2>4, <2>5 DEF Agrees, Club!Accounts
    <2>7. QED
        BY <1>2, <1>3, <2>3, <2>4, <2>6 DEF Club!CreateCustomer
<1>4. ASSUME NEW c \in Customers, Club!DeleteCustomer(c) PROVE ClubInv'
    <2> DEFINE r == [customer[c] EXCEPT !.live = FALSE]
    <2>1. customer[c].live /\ customer' = [customer EXCEPT ![c] = r]
        BY <1>t, <1>4 DEF Club!DeleteCustomer
    <2>2. customer[c] # Club!NoCustomer /\ customer[c] \in CustomerRows
        BY <1>t, <2>1 DEF Club!NoCustomer
    <2>3. /\ r \in CustomerRows /\ r.points = customer[c].points /\ r.lifetime = customer[c].lifetime
          /\ r.wallet = customer[c].wallet /\ r.credit = customer[c].credit
        BY <2>2 DEF CustomerRows
    <2> HIDE DEF r
    <2>4. c \notin overwritten => Agrees(r, ledger[c])
        BY <2>2, <2>3 DEF ClubInv, Agrees
    <2>5. QED
        BY <1>2, <1>4, <2>1, <2>3, <2>4 DEF Club!DeleteCustomer
<1>5. ASSUME NEW x \in Club!Resources, Club!OpenForm(x) PROVE ClubInv'
    <2>1. /\ form' = [form EXCEPT ![x] = Club!Row(x)]
          /\ x \in Customers => customer[x].live
          /\ UNCHANGED <<customer, ledger, coupon, redemptions, posted, call, overwritten>>
        BY <1>5 DEF Club!OpenForm
    <2>2. x \in Customers => Club!Row(x) \in CustomerRows
        BY <1>t, <2>1 DEF Club!Row, Club!CouponRow, Club!NoCustomer
    <2>3. x = "coupon" => Club!Row(x) \in CouponRows
        BY <1>t DEF Club!Row, Club!CouponRow
    <2>4. x \in Customers \/ x = "coupon"
        BY DEF Club!Resources, Club!CouponRow
    <2>5. QED
        BY <1>1, <1>t, <2>1, <2>2, <2>3, <2>4 DEF ClubInv, ClubTyped
\* A form closes.
<1>6. ASSUME NEW x \in Club!Resources, form' = [form EXCEPT ![x] = Club!NoForm]
      PROVE  /\ DOMAIN form' = Club!Resources
             /\ \A c \in Customers : form'[c] # Club!NoForm => form'[c] \in CustomerRows
             /\ form'["coupon"] # Club!NoForm => form'["coupon"] \in CouponRows
    BY <1>6 DEF ClubInv, ClubTyped, Club!Resources, Club!CouponRow
<1>7. ASSUME NEW c \in Customers, Club!SaveForm(c) PROVE ClubInv'
    <2>1. PICK limit \in Limits : customer' = [customer EXCEPT ![c] = [form[c] EXCEPT !.limit = limit]]
        BY <1>7, <1>t DEF Club!SaveForm, Club!CouponRow
    <2> DEFINE r == [form[c] EXCEPT !.limit = limit]
    <2>2. form[c] # Club!NoForm /\ form' = [form EXCEPT ![c] = Club!NoForm]
          /\ UNCHANGED <<coupon, ledger, redemptions, posted, call>>
        BY <1>7, <1>t DEF Club!SaveForm, Club!CouponRow
    <2>3. overwritten' = IF customer[c] = form[c] THEN overwritten ELSE overwritten \union {c}
        BY <1>7, <1>t DEF Club!SaveForm, Club!CouponRow, Club!Row
    <2>4. form[c] \in CustomerRows
        BY <2>2 DEF ClubInv, ClubTyped
    <2>5. /\ r \in CustomerRows /\ r.points = form[c].points /\ r.lifetime = form[c].lifetime
          /\ r.wallet = form[c].wallet /\ r.credit = form[c].credit
        BY <2>4 DEF CustomerRows
    <2>6. customer' = [customer EXCEPT ![c] = r]
        BY <2>1
    <2> HIDE DEF r
    <2>7. /\ customer'[c] = r /\ \A d \in Customers \ {c} : customer'[d] = customer[d]
          /\ customer' \in [Customers -> {Club!NoCustomer} \union CustomerRows]
        BY <1>t, <2>5, <2>6
    <2>8. overwritten \subseteq overwritten' /\ ("coupon" \notin overwritten' => "coupon" \notin overwritten)
        BY <2>3
    <2>9. ClubTyped'
        BY <1>6, <2>2, <2>7 DEF ClubInv, ClubTyped, Club!Resources
    <2>10. \A d \in Customers : customer'[d] = Club!NoCustomer => \A a \in Club!Accounts : ledger[d][a] = 0
        BY <1>u, <2>5, <2>7 DEF ClubInv
    <2>11. \A d \in Customers \ overwritten' : customer'[d] # Club!NoCustomer => Agrees(customer'[d], ledger[d])
        <3>1. c \notin overwritten' => Agrees(r, ledger[c])
            BY <1>u, <2>3, <2>4, <2>5 DEF ClubInv, Agrees
        <3>2. QED
            BY <2>7, <2>8, <3>1 DEF ClubInv
    <2>12. QED
        BY <2>2, <2>8, <2>9, <2>10, <2>11 DEF ClubInv, Club!KeysPostedOnce
<1>8. ASSUME Club!SaveForm("coupon") PROVE ClubInv'
    <2>1. PICK limit \in Limits : coupon' = [form["coupon"] EXCEPT !.max = limit]
        BY <1>8 DEF Club!SaveForm, Club!CouponRow
    <2>2. form["coupon"] # Club!NoForm /\ form' = [form EXCEPT !["coupon"] = Club!NoForm]
          /\ UNCHANGED <<customer, ledger, redemptions, posted, call>>
        BY <1>8 DEF Club!SaveForm, Club!CouponRow
    <2>3. overwritten' = IF coupon = form["coupon"] THEN overwritten ELSE overwritten \union {"coupon"}
        BY <1>8 DEF Club!SaveForm, Club!CouponRow, Club!Row
    <2>4. form["coupon"] \in CouponRows
        BY <2>2 DEF ClubInv, ClubTyped
    <2>5. coupon' \in CouponRows /\ coupon'.uses = form["coupon"].uses
        BY <2>1, <2>4 DEF CouponRows
    <2>6. overwritten \subseteq overwritten'
        BY <2>3
    <2>7. "coupon" \notin overwritten' => "coupon" \notin overwritten /\ coupon'.uses = coupon.uses
        BY <2>3, <2>5
    <2>8. ClubTyped'
        BY <1>6, <2>2, <2>5 DEF ClubInv, ClubTyped, Club!Resources, Club!CouponRow
    <2>9. QED
        BY <2>2, <2>6, <2>7, <2>8 DEF ClubInv, Club!KeysPostedOnce
<1>9. ASSUME NEW r \in Calls, Club!Request(r) PROVE ClubInv'
    <2>1. PICK c \in Customers, s \in DOMAIN Club!Services, n \in Amounts, k \in Keys \union {NoKey} :
             call' = [call EXCEPT ![r] = [customer |-> c, service |-> s, amount |-> n, key |-> k]]
        BY <1>9 DEF Club!Request
    <2>2. [customer |-> c, service |-> s, amount |-> n, key |-> k] \in ServiceCalls
        BY DEF ServiceCalls
    <2>3. UNCHANGED <<customer, ledger, coupon, redemptions, posted, form, overwritten>>
        BY <1>9 DEF Club!Request
    <2>4. QED
        BY <1>1, <2>1, <2>2, <2>3 DEF ClubInv, ClubTyped
\* A call that is answered.
<1>10. ASSUME NEW r \in Calls, call' = [call EXCEPT ![r] = Club!NoCall], UNCHANGED form
      PROVE  /\ DOMAIN call' = Calls
             /\ \A q \in Calls : call'[q] # Club!NoCall => call'[q] \in ServiceCalls
             /\ DOMAIN form' = Club!Resources
             /\ \A c \in Customers : form'[c] # Club!NoForm => form'[c] \in CustomerRows
             /\ form'["coupon"] # Club!NoForm => form'["coupon"] \in CouponRows
    BY <1>10 DEF ClubInv, ClubTyped
\* A key that is free is recorded once.
<1>11. ASSUME NEW l \in Club!Ledgers, NEW k \in Keys \union {NoKey}, Club!RowIsUnique(k, l),
              Club!RecordKey(k, l)
       PROVE  posted' \in [Club!Ledgers -> [Keys -> Nat]] /\ Club!KeysPostedOnce'
    <2>1. CASE k = NoKey
        BY <1>11, <1>t, <2>1 DEF Club!RecordKey, ClubInv, Club!KeysPostedOnce
    <2>2. CASE k # NoKey
        <3>1. posted[l][k] = 0 /\ posted' = [posted EXCEPT ![l][k] = @ + 1] /\ k \in Keys
            BY <1>11, <2>2 DEF Club!RowIsUnique, Club!KeyIsFree, Club!RecordKey
        <3>2. QED
            BY <1>t, <3>1 DEF ClubInv, Club!KeysPostedOnce
    <2>3. QED
        BY <2>1, <2>2
<1>12. ASSUME NEW r \in Calls, Club!Serve(r) PROVE ClubInv'
    <2>0. PICK q : q = call[r]
        OBVIOUS
    <2> DEFINE c == q.customer
               s == q.service
               n == q.amount
               a == Club!Services[s]
    <2>1. /\ q \in ServiceCalls /\ c \in Customers /\ s \in DOMAIN Club!Services /\ n \in Nat
          /\ q.key \in Keys \union {NoKey}
        BY <1>12, <2>0, PlatformAssumption DEF Club!Serve, ClubInv, ClubTyped, ServiceCalls
    <2>2. call' = [call EXCEPT ![r] = Club!NoCall] /\ UNCHANGED <<form, overwritten>>
        BY <1>12 DEF Club!Serve
    <2>3. a \in Club!Ledgers /\ (a = "coupon" <=> s = "coupon")
        BY <2>1 DEF Club!Services, Club!Ledgers, Club!Accounts
    <2>4. CASE UNCHANGED <<customer, ledger, coupon, redemptions, posted>>
        BY <1>1, <1>10, <2>2, <2>4
    <2>5. CASE Club!Accepted(q) /\ Club!PostEntry(q) /\ Club!RecordKey(q.key, a)
        <3>1. /\ s # "coupon" /\ customer' = [customer EXCEPT ![c] = Club!Posted(customer[c], s, n)]
              /\ ledger' = [ledger EXCEPT ![c][a] = @ + Club!Entry(s, n)]
              /\ UNCHANGED <<coupon, redemptions>>
            BY <1>t, <2>1, <2>3, <2>5 DEF Club!PostEntry
        <3>2. customer[c].live /\ Club!Allowed(customer[c], s, n) /\ Club!RowIsUnique(q.key, a)
            BY <2>5, <3>1 DEF Club!Accepted
        <3>3. customer[c] \in CustomerRows /\ customer[c] # Club!NoCustomer
            BY <1>t, <2>1, <3>2 DEF Club!NoCustomer
        <3> DEFINE books == ledger[c]
                   more == [books EXCEPT ![a] = @ + Club!Entry(s, n)]
                   post == Club!Posted(customer[c], s, n)
        <3>4. /\ post \in CustomerRows /\ more \in [Club!Accounts -> Int]
              /\ Agrees(customer[c], books) => Agrees(post, more)
            BY <1>t, <2>1, <3>1, <3>2, <3>3, PostedAgrees
        <3>5. ledger' = [ledger EXCEPT ![c] = more] /\ customer' = [customer EXCEPT ![c] = post]
            BY <1>t, <2>1, <3>1
        <3> HIDE DEF more, post, c, s, n, a
        <3>6. /\ customer'[c] = post /\ \A d \in Customers \ {c} : customer'[d] = customer[d]
              /\ ledger'[c] = more /\ \A d \in Customers \ {c} : ledger'[d] = ledger[d]
              /\ customer' \in [Customers -> {Club!NoCustomer} \union CustomerRows]
              /\ ledger' \in [Customers -> [Club!Accounts -> Int]]
            BY <1>t, <2>1, <3>4, <3>5
        <3>7. posted' \in [Club!Ledgers -> [Keys -> Nat]] /\ Club!KeysPostedOnce'
            BY <1>11, <2>1, <2>3, <2>5, <3>2
        <3>8. ClubTyped'
            BY <1>10, <1>t, <2>2, <3>1, <3>6, <3>7 DEF ClubTyped
        <3>9. \A d \in Customers : customer'[d] = Club!NoCustomer => \A b \in Club!Accounts : ledger'[d][b] = 0
            BY <1>u, <3>4, <3>6 DEF ClubInv
        <3>10. \A d \in Customers \ overwritten' : customer'[d] # Club!NoCustomer => Agrees(customer'[d], ledger'[d])
            BY <2>2, <3>3, <3>4, <3>6 DEF ClubInv
        <3>11. QED
            BY <2>2, <3>1, <3>7, <3>8, <3>9, <3>10 DEF ClubInv
    <2>6. CASE Club!Accepted(q) /\ Club!RedeemCoupon(q) /\ Club!RecordKey(q.key, a)
        <3>1. /\ s = "coupon" /\ coupon' = [coupon EXCEPT !.uses = @ + 1]
              /\ redemptions' = [redemptions EXCEPT ![c] = @ + 1]
              /\ UNCHANGED <<customer, ledger>>
            BY <2>6 DEF Club!RedeemCoupon
        <3>2. redemptions[c] < PerCustomer /\ Club!RowIsUnique(q.key, a)
            BY <2>6, <3>1 DEF Club!Accepted
        <3> HIDE DEF c, s, n, a
        <3>3. /\ redemptions' \in [Customers -> Int] /\ redemptions'[c] = redemptions[c] + 1
              /\ \A d \in Customers \ {c} : redemptions'[d] = redemptions[d]
            BY <1>t, <2>1, <3>1
        <3>4. coupon' \in CouponRows /\ coupon'.uses = coupon.uses + 1 /\ coupon.uses \in Int
            BY <1>t, <3>1 DEF CouponRows
        <3>5. \A d \in Customers : redemptions'[d] <= PerCustomer
            BY <1>t, <2>1, <3>2, <3>3, PlatformAssumption DEF ClubInv
        <3>6. SumOver(redemptions') = SumOver(redemptions) + 1 /\ SumOver(redemptions) \in Int
            <4>1. IsSummable(redemptions) /\ IsSummable(redemptions') /\ DOMAIN redemptions = Customers
                  /\ DOMAIN redemptions' = Customers
                BY <1>t, <3>3, PlatformAssumption DEF IsSummable
            <4>2. SumOver(redemptions') = SumOver(redemptions) + (redemptions'[c] - redemptions[c])
                BY <2>1, <3>3, <4>1, SumOverChange
            <4>3. QED
                BY <1>t, <2>1, <3>3, <4>1, <4>2, SumOverInt
        <3>7. posted' \in [Club!Ledgers -> [Keys -> Nat]] /\ Club!KeysPostedOnce'
            BY <1>11, <2>1, <2>3, <2>6, <3>2
        <3>8. ClubTyped'
            BY <1>10, <1>t, <2>2, <3>1, <3>3, <3>4, <3>7 DEF ClubTyped
        <3>9. QED
            BY <2>2, <3>1, <3>4, <3>5, <3>6, <3>7, <3>8 DEF ClubInv
    <2>7. QED
        BY <1>12, <2>0, <2>4, <2>5, <2>6 DEF Club!Serve
<1>13. CASE Club!Next
    BY <1>3, <1>4, <1>5, <1>7, <1>8, <1>9, <1>12, <1>13 DEF Club!Next, Club!Resources, Club!CouponRow
<1>14. QED
    BY <1>0, <1>13

\* Balances follow their ledgers, a key is posted once and a coupon is redeemed within
\* its limits, however calls overlap, repeat their keys, or meet deleted customers; a
\* stale form excepts only the row it was saved over (customers services).
THEOREM CountersFollow == PlatformSpec => []CountersFollowRows
<1>1. ClubInv => CountersFollowRows
    BY SameSum DEF ClubInv, Agrees, CountersFollowRows, Club!CountersFollowRows, Club!BalancesFollowLedgers,
                   Club!CouponWithinLimits, Club!CouponRow
<1>2. PlatformSpec => []ClubInv
    BY ClubInit, ClubNext, ClubSteps, PTL
<1>3. QED
    BY <1>1, <1>2, PTL

-----------------------------------------------------------------------------
(* Notifications *)

LEMMA NoticeSteps == PlatformSpec => Notices!Init /\ [][Notices!Next]_noticeVars
<1>1. PlatformInit => Notices!Init
    BY DEF PlatformInit
<1>2. [PlatformNext]_<<part, accessVars, configVars, bindingVars, noticeVars, clubVars, leavingVars,
                       recordVars, bookVars, deskVars, shelfVars, countVars>>
      => [Notices!Next]_noticeVars
    BY DEF PlatformNext, noticeVars
<1>3. QED
    BY <1>1, <1>2, Behaviour, PTL

NoteRows == [status : {"none", "pending", "scheduled", "queued", "sent"}]
Retries  == 0..MaxRetries
Sendings == [at : {"read", "sending", "accepted", "failed"}, of : Notices!Notes, retries : Retries]

NoticeTyped ==
    /\ note \in [Notices!Notes -> NoteRows]
    /\ owed \subseteq Notices!Callers \X Notices!Notes
    /\ queue \in [Notices!Notes -> [Retries -> Nat]]
    /\ DOMAIN worker = Workers
    /\ \A w \in Workers : worker[w] # Notices!Idle => worker[w] \in Sendings
    /\ DOMAIN listed = Sweepers /\ \A s \in Sweepers : listed[s] \subseteq Notices!Notes
    /\ bulk \subseteq Notices!Notes
    /\ accepted \in [Notices!Notes -> Nat]

\* The places a notification can be sent from.
Owes(c, n) == <<c, n>> \in owed
Carries(w, n) == worker[w] # Notices!Idle /\ worker[w].of = n

NotOwed(n)   == \A c \in Notices!Callers : ~Owes(c, n)
NotQueued(n) == \A t \in Retries : queue[n][t] = 0
NotHeld(n)   == \A w \in Workers : ~Carries(w, n)

\* It is in one place at most, in none until it is due, and once the provider has taken
\* it nobody sends it any more.
InOnePlace(n) ==
    /\ n \in bulk => NotOwed(n) /\ NotQueued(n) /\ NotHeld(n)
    /\ \A c, d \in Notices!Callers : Owes(c, n) =>
          NotQueued(n) /\ NotHeld(n) /\ (Owes(d, n) => c = d)
    /\ \A t, u \in Retries : queue[n][t] > 0 =>
          queue[n][t] = 1 /\ NotHeld(n) /\ (queue[n][u] > 0 => t = u)
    /\ \A v, w \in Workers : Carries(v, n) /\ Carries(w, n) => v = w
    /\ \A r, s \in Sweepers : n \in listed[s] =>
          note[n].status = "scheduled" /\ (n \in listed[r] => r = s)
    /\ note[n].status \in {"none", "scheduled"} =>
          n \notin bulk /\ NotOwed(n) /\ NotQueued(n) /\ NotHeld(n) /\ accepted[n] = 0
    /\ accepted[n] <= 1
    /\ accepted[n] = 1 =>
          n \notin bulk /\ NotOwed(n) /\ NotQueued(n)
          /\ \A w \in Workers : Carries(w, n) => worker[w].at = "accepted"

Sound(n) ==
    /\ n \notin sentAgain => InOnePlace(n)
    /\ note[n].status \in {"pending", "queued"} /\ n \notin lost => Notices!InHand(n)

NoticeInv == NoticeTyped /\ \A n \in Notices!Notes : Sound(n)

LEMMA NoticeInit == Notices!Init => NoticeInv
<1> SUFFICES ASSUME Notices!Init PROVE NoticeInv
    OBVIOUS
<1>1. NoticeTyped
    BY DEF Notices!Init, NoticeTyped, NoteRows, Notices!NoNote, Notices!Idle, Retries
<1>2. ASSUME NEW n \in Notices!Notes PROVE Sound(n)
    BY <1>2 DEF Notices!Init, Notices!NoNote, Sound, InOnePlace, NotOwed, NotQueued, NotHeld, Owes, Carries, Retries
<1>3. QED
    BY <1>1, <1>2 DEF NoticeInv

LEMMA NoticeNext == NoticeInv /\ [Notices!Next]_noticeVars => NoticeInv'
<1> SUFFICES ASSUME NoticeInv, [Notices!Next]_noticeVars PROVE NoticeInv'
    OBVIOUS
<1>t. /\ note \in [Notices!Notes -> NoteRows] /\ owed \subseteq Notices!Callers \X Notices!Notes
      /\ queue \in [Notices!Notes -> [Retries -> Nat]]
      /\ DOMAIN worker = Workers
      /\ \A w \in Workers : worker[w] # Notices!Idle => worker[w] \in Sendings
      /\ DOMAIN listed = Sweepers /\ \A s \in Sweepers : listed[s] \subseteq Notices!Notes
      /\ bulk \subseteq Notices!Notes
      /\ accepted \in [Notices!Notes -> Nat]
      /\ \A n \in Notices!Notes : Sound(n)
    BY DEF NoticeInv, NoticeTyped
<1>i. \A x \in Sendings : x # Notices!Idle
    <2>1. \A x \in Sendings : x.at # Notices!Idle.at
        BY DEF Sendings, Notices!Idle
    <2>2. QED
        BY <2>1
\* A notification that a step leaves alone.
<1>k. ASSUME NEW n \in Notices!Notes, note'[n] = note[n], n \in bulk' <=> n \in bulk,
             \A c \in Notices!Callers : Owes(c, n)' <=> Owes(c, n),
             queue'[n] = queue[n],
             \A w \in Workers : worker'[w] = worker[w] \/ (~Carries(w, n) /\ ~Carries(w, n)'),
             \A s \in Sweepers : n \in listed'[s] <=> n \in listed[s],
             accepted'[n] = accepted[n], sentAgain \subseteq sentAgain', lost \subseteq lost'
      PROVE  Sound(n)'
    <2>1. \A w \in Workers : (Carries(w, n)' <=> Carries(w, n)) /\ (Carries(w, n) => worker'[w] = worker[w])
        BY <1>k DEF Carries
    <2>2. n \notin sentAgain' => InOnePlace(n)'
        BY <1>k, <1>t, <2>1 DEF Sound, InOnePlace, NotOwed, NotQueued, NotHeld
    <2>3. note'[n].status \in {"pending", "queued"} /\ n \notin lost' => Notices!InHand(n)'
        BY <1>k, <1>t, <2>1 DEF Sound, Notices!InHand, Owes, Carries, Retries
    <2>4. QED
        BY <2>2, <2>3 DEF Sound
\* Somebody has a notification in hand.
<1>h. ASSUME NEW n \in Notices!Notes,
             \/ n \in bulk' \/ \E c \in Notices!Callers : Owes(c, n)'
             \/ \E t \in Retries : queue'[n][t] > 0
             \/ \E w \in Workers : Carries(w, n)'
      PROVE  Notices!InHand(n)'
    BY <1>h DEF Notices!InHand, Owes, Carries, Retries
<1>0. CASE UNCHANGED noticeVars
    <2>1. UNCHANGED <<note, owed, queue, worker, listed, bulk, accepted, lost, sentAgain>>
        BY <1>0 DEF noticeVars
    <2>2. NoticeTyped'
        BY <2>1 DEF NoticeInv, NoticeTyped
    <2>3. \A n \in Notices!Notes : Sound(n)'
        BY <1>k, <2>1 DEF Owes
    <2>4. QED
        BY <2>2, <2>3 DEF NoticeInv
<1>1. ASSUME NEW S \in SUBSET Notices!Notes, NEW s \in {"pending", "scheduled"}, Notices!Insert(S, s)
      PROVE  /\ note' \in [Notices!Notes -> NoteRows]
             /\ \A n \in S : note[n].status = "none" /\ note'[n].status = s
             /\ \A n \in Notices!Notes \ S : note'[n] = note[n]
             /\ \A n \in S \ sentAgain : n \notin bulk /\ NotOwed(n) /\ NotQueued(n) /\ NotHeld(n)
                                         /\ accepted[n] = 0 /\ \A r \in Sweepers : n \notin listed[r]
    <2>1. \A n \in S : note[n].status = "none"
        BY <1>1 DEF Notices!Insert, Notices!Unused, Notices!NoNote
    <2>2. note' = [n \in Notices!Notes |-> IF n \in S THEN [status |-> s] ELSE note[n]]
        BY <1>1 DEF Notices!Insert, Notices!Row
    <2>3. note' \in [Notices!Notes -> NoteRows]
        BY <1>t, <2>2 DEF NoteRows
    <2>4. QED
        BY <1>t, <2>1, <2>2, <2>3 DEF Sound, InOnePlace
<1>2. ASSUME NEW n \in Notices!Notes, NEW b \in BOOLEAN, Notices!CreateNotification(n, b) PROVE NoticeInv'
    <2> DEFINE s == IF b THEN "scheduled" ELSE "pending"
    <2>1. /\ Notices!Insert({n}, s) /\ s \in {"scheduled", "pending"} /\ (b <=> s = "scheduled")
          /\ owed' = IF b THEN owed ELSE owed \union {<<"create", n>>}
          /\ UNCHANGED <<queue, worker, listed, bulk, accepted, lost, sentAgain>>
        BY <1>2 DEF Notices!CreateNotification
    <2> HIDE DEF s
    <2>2. /\ note' \in [Notices!Notes -> NoteRows] /\ note'[n].status = s /\ note[n].status = "none"
          /\ \A m \in Notices!Notes \ {n} : note'[m] = note[m]
          /\ n \notin sentAgain => n \notin bulk /\ NotOwed(n) /\ NotQueued(n) /\ NotHeld(n)
                                   /\ accepted[n] = 0 /\ \A r \in Sweepers : n \notin listed[r]
        BY <1>1, <2>1
    <2>3. /\ "create" \in Notices!Callers /\ owed' \subseteq Notices!Callers \X Notices!Notes
          /\ \A c, m : Owes(c, m)' <=> Owes(c, m) \/ (~b /\ c = "create" /\ m = n)
        BY <1>t, <2>1 DEF Notices!Callers, Owes
    <2>4. NoticeTyped'
        BY <2>1, <2>2, <2>3 DEF NoticeInv, NoticeTyped
    <2>5. \A w \in Workers, m \in Notices!Notes : Carries(w, m)' <=> Carries(w, m)
        BY <2>1 DEF Carries
    <2>6. \A m \in Notices!Notes \ {n} : Sound(m)'
        BY <1>k, <2>1, <2>2, <2>3
    <2>7. Sound(n)'
        <3>1. n \notin sentAgain' => InOnePlace(n)'
            BY <2>1, <2>2, <2>3, <2>5 DEF InOnePlace, NotOwed, NotQueued, NotHeld
        <3>2. note'[n].status \in {"pending", "queued"} => Notices!InHand(n)'
            BY <1>h, <2>1, <2>2, <2>3
        <3>3. QED
            BY <3>1, <3>2 DEF Sound
    <2>8. QED
        BY <2>4, <2>6, <2>7 DEF NoticeInv
<1>3. ASSUME NEW S \in SUBSET Notices!Notes, Notices!BulkCreate(S) PROVE NoticeInv'
    <2>1. /\ Notices!Insert(S, "pending") /\ bulk = {} /\ bulk' = S
          /\ UNCHANGED <<owed, queue, worker, listed, accepted, lost, sentAgain>>
        BY <1>3 DEF Notices!BulkCreate
    <2>2. /\ note' \in [Notices!Notes -> NoteRows]
          /\ \A n \in S : note[n].status = "none" /\ note'[n].status = "pending"
          /\ \A n \in Notices!Notes \ S : note'[n] = note[n]
          /\ \A n \in S \ sentAgain : n \notin bulk /\ NotOwed(n) /\ NotQueued(n) /\ NotHeld(n)
                                      /\ accepted[n] = 0 /\ \A r \in Sweepers : n \notin listed[r]
        BY <1>1, <2>1
    <2>3. NoticeTyped'
        BY <2>1, <2>2 DEF NoticeInv, NoticeTyped
    <2>4. \A c, n : Owes(c, n)' <=> Owes(c, n)
        BY <2>1 DEF Owes
    <2>5. \A w, n : Carries(w, n)' <=> Carries(w, n)
        BY <2>1 DEF Carries
    <2>6. \A n \in Notices!Notes \ S : Sound(n)'
        BY <1>k, <2>1, <2>2, <2>4
    <2>7. ASSUME NEW n \in S PROVE Sound(n)'
        <3>1. n \notin sentAgain' => InOnePlace(n)'
            BY <2>1, <2>2, <2>4, <2>5, <2>7 DEF InOnePlace, NotOwed, NotQueued, NotHeld
        <3>2. Notices!InHand(n)'
            BY <1>h, <2>1, <2>7
        <3>3. QED
            BY <3>1, <3>2 DEF Sound
    <2>8. QED
        BY <2>3, <2>6, <2>7 DEF NoticeInv
<1>4. CASE Notices!BulkRefetch
    <2>0. PICK found : found = Notices!Latest(Notices!Pending, Notices!Cardinality(bulk))
        OBVIOUS
    <2>1. /\ owed' = owed \union {<<"bulk", n>> : n \in found}
          /\ sentAgain' = sentAgain \union (found \ bulk)
          /\ lost' = lost \union (bulk \ found)
          /\ bulk' = {}
          /\ UNCHANGED <<note, queue, worker, listed, accepted>>
        BY <1>4, <2>0 DEF Notices!BulkRefetch
    <2>2. found \subseteq Notices!Notes /\ \A n \in found : note[n].status = "pending"
        BY <2>0 DEF Notices!Latest, Notices!Pending
    <2>3. /\ "bulk" \in Notices!Callers
          /\ \A c, n : Owes(c, n)' <=> Owes(c, n) \/ (c = "bulk" /\ n \in found)
        BY <2>1 DEF Notices!Callers, Owes
    <2>4. owed' \subseteq Notices!Callers \X Notices!Notes
        BY <1>t, <2>1, <2>2, <2>3
    <2>5. NoticeTyped'
        BY <2>1, <2>4 DEF NoticeInv, NoticeTyped
    <2>6. \A w, n : Carries(w, n)' <=> Carries(w, n)
        BY <2>1 DEF Carries
    <2>7. ASSUME NEW n \in Notices!Notes PROVE Sound(n)'
        <3>1. CASE n \notin bulk /\ n \notin found
            BY <1>k, <2>1, <2>3, <3>1
        <3>2. CASE n \in found
            <4>1. Notices!InHand(n)'
                BY <1>h, <2>3, <3>2
            <4>2. n \notin sentAgain' => n \in bulk /\ n \notin sentAgain
                BY <2>1, <3>2
            <4>3. n \notin sentAgain' => InOnePlace(n)'
                BY <1>t, <2>1, <2>2, <2>3, <2>6, <3>2, <4>2 DEF Sound, InOnePlace, NotOwed, NotQueued, NotHeld
            <4>4. QED
                BY <4>1, <4>3 DEF Sound
        <3>3. CASE n \in bulk /\ n \notin found
            <4>1. n \in lost' /\ (n \notin sentAgain' => n \notin sentAgain)
                BY <2>1, <3>3
            <4>2. n \notin sentAgain' => InOnePlace(n)'
                BY <1>t, <2>1, <2>3, <2>6, <3>3, <4>1 DEF Sound, InOnePlace, NotOwed, NotQueued, NotHeld
            <4>3. QED
                BY <4>1, <4>2 DEF Sound
        <3>4. QED
            BY <3>1, <3>2, <3>3
    <2>8. QED
        BY <2>5, <2>7 DEF NoticeInv
\* One message more.
<1>p. ASSUME NEW n \in Notices!Notes, NEW t \in Retries, Notices!Put(n, t)
      PROVE  /\ queue' \in [Notices!Notes -> [Retries -> Nat]]
             /\ \A m \in Notices!Notes \ {n} : queue'[m] = queue[m]
             /\ queue'[n][t] = queue[n][t] + 1
             /\ \A u \in Retries \ {t} : queue'[n][u] = queue[n][u]
    <2>1. queue' = [queue EXCEPT ![n] = [queue[n] EXCEPT ![t] = queue[n][t] + 1]]
        BY <1>p DEF Notices!Put
    <2>2. queue[n] \in [Retries -> Nat] /\ queue[n][t] + 1 \in Nat
        BY <1>t
    <2>3. [queue[n] EXCEPT ![t] = queue[n][t] + 1] \in [Retries -> Nat]
        BY <2>2
    <2>4. QED
        BY <1>t, <2>1, <2>2, <2>3
\* A worker goes on with its notification.
<1>g. ASSUME NEW w \in Workers, NEW stage \in {"read", "sending", "accepted", "failed"},
             worker[w] # Notices!Idle, Notices!Goes(w, stage)
      PROVE  /\ DOMAIN worker' = Workers /\ worker'[w] \in Sendings /\ worker'[w].at = stage
             /\ worker'[w].of = worker[w].of
             /\ \A u \in Workers \ {w} : worker'[u] = worker[u]
             /\ \A u \in Workers : worker'[u] # Notices!Idle => worker'[u] \in Sendings
             /\ \A u \in Workers : \A n : Carries(u, n)' <=> Carries(u, n)
    <2>1. worker[w] \in Sendings /\ worker' = [worker EXCEPT ![w] = [worker[w] EXCEPT !.at = stage]]
        BY <1>g, <1>t DEF Notices!Goes
    <2>2. [worker[w] EXCEPT !.at = stage] \in Sendings
        BY <2>1 DEF Sendings
    <2>3. worker'[w] = [worker[w] EXCEPT !.at = stage]
        BY <1>t, <2>1
    <2>4. worker'[w] \in Sendings /\ worker'[w].at = stage /\ worker'[w].of = worker[w].of
        BY <2>1, <2>2, <2>3 DEF Sendings
    <2>5. DOMAIN worker' = Workers /\ \A u \in Workers \ {w} : worker'[u] = worker[u]
        BY <1>t, <2>1
    <2>6. \A u \in Workers : worker'[u] # Notices!Idle => worker'[u] \in Sendings
        BY <1>t, <2>4, <2>5
    <2>7. ASSUME NEW u \in Workers, NEW n PROVE Carries(u, n)' <=> Carries(u, n)
        <3>1. CASE u = w
            BY <1>g, <1>i, <2>4, <3>1 DEF Carries
        <3>2. CASE u # w
            BY <2>5, <3>2 DEF Carries
        <3>3. QED
            BY <3>1, <3>2
    <2>8. QED
        BY <2>4, <2>5, <2>6, <2>7
\* A worker lets go of its notification.
<1>q. ASSUME NEW w \in Workers, Notices!Stops(w)
      PROVE  /\ DOMAIN worker' = Workers
             /\ worker'[w] = Notices!Idle /\ \A u \in Workers \ {w} : worker'[u] = worker[u]
             /\ \A u \in Workers : worker'[u] # Notices!Idle => worker'[u] \in Sendings
             /\ \A u \in Workers : \A n : Carries(u, n)' <=> Carries(u, n) /\ u # w
    <2>1. /\ DOMAIN worker' = Workers
          /\ worker'[w] = Notices!Idle /\ \A u \in Workers \ {w} : worker'[u] = worker[u]
        BY <1>q, <1>t DEF Notices!Stops
    <2>2. QED
        BY <1>t, <2>1 DEF Carries
<1>5. ASSUME NEW c \in Notices!Callers, NEW n \in Notices!Notes, Notices!Delay(c, n) PROVE NoticeInv'
    <2>1. /\ Owes(c, n) /\ Notices!Put(n, 0) /\ owed' = owed \ {<<c, n>>}
          /\ UNCHANGED <<note, worker, listed, bulk, accepted, lost, sentAgain>>
        BY <1>5 DEF Notices!Delay, Owes
    <2>2. 0 \in Retries
        BY PlatformAssumption DEF Retries
    <2>3. /\ queue' \in [Notices!Notes -> [Retries -> Nat]]
          /\ \A m \in Notices!Notes \ {n} : queue'[m] = queue[m]
          /\ queue'[n][0] = queue[n][0] + 1
          /\ \A u \in Retries \ {0} : queue'[n][u] = queue[n][u]
        BY <1>p, <2>1, <2>2
    <2>4. NoticeTyped'
        BY <1>t, <2>1, <2>3 DEF NoticeTyped
    <2>5. \A d, m : Owes(d, m)' <=> Owes(d, m) /\ ~(d = c /\ m = n)
        BY <2>1 DEF Owes
    <2>6. \A w, m : Carries(w, m)' <=> Carries(w, m)
        BY <2>1 DEF Carries
    <2>7. \A m \in Notices!Notes \ {n} : Sound(m)'
        BY <1>k, <2>1, <2>3, <2>5
    <2>8. Sound(n)'
        <3>1. ASSUME n \notin sentAgain' PROVE InOnePlace(n)'
            <4>1. InOnePlace(n)
                BY <1>t, <2>1, <3>1 DEF Sound
            <4>2. /\ NotQueued(n) /\ NotHeld(n) /\ \A d \in Notices!Callers : Owes(d, n) => c = d
                  /\ n \notin bulk /\ note[n].status \notin {"none", "scheduled"} /\ accepted[n] # 1
                BY <4>1, <2>1 DEF InOnePlace, NotOwed
            <4>3. NotOwed(n)' /\ NotHeld(n)' /\ n \notin bulk' /\ accepted'[n] # 1 /\ accepted'[n] <= 1
                BY <4>1, <4>2, <2>1, <2>5, <2>6 DEF NotOwed, NotHeld, InOnePlace
            <4>4. queue'[n][0] = 1 /\ \A u \in Retries : queue'[n][u] > 0 => u = 0
                BY <1>t, <2>2, <2>3, <4>2 DEF NotQueued
            <4>5. QED
                BY <4>1, <4>2, <4>3, <4>4, <2>1 DEF InOnePlace, NotOwed, NotHeld
        <3>2. Notices!InHand(n)'
            <4>1. queue[n][0] \in Nat
                BY <1>t, <2>2
            <4>2. queue'[n][0] > 0
                BY <2>3, <4>1
            <4>3. QED
                BY <1>h, <2>2, <4>2
        <3>3. QED
            BY <3>1, <3>2 DEF Sound
    <2>9. QED
        BY <2>4, <2>7, <2>8 DEF NoticeInv
<1>6. ASSUME NEW c \in Notices!Callers, NEW n \in Notices!Notes, Notices!DelayFails(c, n) PROVE NoticeInv'
    <2>1. /\ owed' = owed \ {<<c, n>>} /\ lost' = lost \union {n}
          /\ UNCHANGED <<note, queue, worker, listed, bulk, accepted, sentAgain>>
        BY <1>6 DEF Notices!DelayFails
    <2>2. NoticeTyped'
        BY <1>t, <2>1 DEF NoticeTyped
    <2>3. \A d, m : Owes(d, m)' <=> Owes(d, m) /\ ~(d = c /\ m = n)
        BY <2>1 DEF Owes
    <2>4. \A w, m : Carries(w, m)' <=> Carries(w, m)
        BY <2>1 DEF Carries
    <2>5. \A m \in Notices!Notes \ {n} : Sound(m)'
        BY <1>k, <2>1, <2>3
    <2>6. n \notin sentAgain' => InOnePlace(n)'
        BY <1>t, <2>1, <2>3, <2>4 DEF Sound, InOnePlace, NotOwed, NotQueued, NotHeld
    <2>7. Sound(n)'
        BY <2>1, <2>6 DEF Sound
    <2>8. QED
        BY <2>2, <2>5, <2>7 DEF NoticeInv
<1>7. ASSUME NEW n \in Notices!Notes, Notices!Retry(n) PROVE NoticeInv'
    <2>1. /\ Notices!Put(n, 0) /\ sentAgain' = sentAgain \union {n}
          /\ UNCHANGED <<note, owed, worker, listed, bulk, accepted, lost>>
        BY <1>7 DEF Notices!Retry
    <2>2. 0 \in Retries
        BY PlatformAssumption DEF Retries
    <2>3. /\ queue' \in [Notices!Notes -> [Retries -> Nat]]
          /\ \A m \in Notices!Notes \ {n} : queue'[m] = queue[m]
          /\ queue'[n][0] = queue[n][0] + 1 /\ queue[n][0] \in Nat
        BY <1>p, <1>t, <2>1, <2>2
    <2>4. NoticeTyped'
        BY <1>t, <2>1, <2>3 DEF NoticeTyped
    <2>5. \A d, m : Owes(d, m)' <=> Owes(d, m)
        BY <2>1 DEF Owes
    <2>6. \A m \in Notices!Notes \ {n} : Sound(m)'
        BY <1>k, <2>1, <2>3, <2>5
    <2>7. Notices!InHand(n)'
        <3>1. queue'[n][0] > 0
            BY <2>3
        <3>2. QED
            BY <1>h, <2>2, <3>1
    <2>8. QED
        BY <2>1, <2>4, <2>6, <2>7 DEF NoticeInv, Sound
<1>8. ASSUME NEW s \in Sweepers, NEW S \in SUBSET Notices!Notes, Notices!ListScheduled(s, S) PROVE NoticeInv'
    <2>1. /\ listed[s] = {} /\ \A n \in S : note[n].status = "scheduled"
          /\ listed' = [listed EXCEPT ![s] = S]
          /\ sentAgain' = sentAgain \union (S \intersect UNION {listed[r] : r \in Sweepers})
          /\ UNCHANGED <<note, owed, queue, worker, bulk, accepted, lost>>
        BY <1>8 DEF Notices!ListScheduled
    <2>2. /\ DOMAIN listed' = Sweepers /\ listed'[s] = S
          /\ \A r \in Sweepers \ {s} : listed'[r] = listed[r]
        BY <1>t, <2>1
    <2>3. NoticeTyped'
        BY <1>t, <2>1, <2>2 DEF NoticeTyped
    <2>4. \A d, m : Owes(d, m)' <=> Owes(d, m)
        BY <2>1 DEF Owes
    <2>5. \A w, m : Carries(w, m)' <=> Carries(w, m)
        BY <2>1 DEF Carries
    <2>6. \A n \in Notices!Notes \ S : Sound(n)'
        BY <1>k, <2>1, <2>2, <2>4
    <2>7. ASSUME NEW n \in S PROVE Sound(n)'
        <3>1. n \notin sentAgain' => n \notin sentAgain /\ \A r \in Sweepers : n \notin listed[r]
            BY <2>1, <2>7
        <3>2. n \notin sentAgain' => \A q, r \in Sweepers : n \in listed'[r] =>
                  note'[n].status = "scheduled" /\ (n \in listed'[q] => q = r)
            BY <2>1, <2>2, <2>7, <3>1
        <3>3. n \notin sentAgain' => InOnePlace(n)'
            BY <1>t, <2>1, <2>4, <2>5, <3>1, <3>2 DEF Sound, InOnePlace, NotOwed, NotQueued, NotHeld
        <3>4. note'[n].status = "scheduled"
            BY <2>1, <2>7
        <3>5. QED
            BY <3>3, <3>4 DEF Sound
    <2>8. QED
        BY <2>3, <2>6, <2>7 DEF NoticeInv
<1>9. ASSUME NEW s \in Sweepers, NEW n \in Notices!Notes, Notices!MarkPending(s, n) PROVE NoticeInv'
    <2>1. /\ n \in listed[s] /\ note' = [note EXCEPT ![n].status = "pending"]
          /\ listed' = [listed EXCEPT ![s] = @ \ {n}] /\ owed' = owed \union {<<s, n>>}
          /\ UNCHANGED <<queue, worker, bulk, accepted, lost, sentAgain>>
        BY <1>9 DEF Notices!MarkPending
    <2>2. /\ DOMAIN listed' = Sweepers /\ listed'[s] = listed[s] \ {n}
          /\ \A r \in Sweepers \ {s} : listed'[r] = listed[r]
        BY <1>t, <2>1
    <2>3. /\ note' \in [Notices!Notes -> NoteRows] /\ note'[n].status = "pending"
          /\ \A m \in Notices!Notes \ {n} : note'[m] = note[m]
        BY <1>t, <2>1 DEF NoteRows
    <2>4. /\ s \in Notices!Callers /\ owed' \subseteq Notices!Callers \X Notices!Notes
          /\ \A d, m : Owes(d, m)' <=> Owes(d, m) \/ (d = s /\ m = n)
        BY <1>t, <2>1 DEF Owes, Notices!Callers
    <2>5. NoticeTyped'
        BY <1>t, <2>1, <2>2, <2>3, <2>4 DEF NoticeTyped
    <2>6. \A w, m : Carries(w, m)' <=> Carries(w, m)
        BY <2>1 DEF Carries
    <2>7. \A m \in Notices!Notes \ {n} : Sound(m)'
        BY <1>k, <2>1, <2>2, <2>3, <2>4
    <2>8. Sound(n)'
        <3>1. ASSUME n \notin sentAgain' PROVE InOnePlace(n)'
            <4>1. InOnePlace(n)
                BY <1>t, <2>1, <3>1 DEF Sound
            <4>2. /\ n \notin bulk /\ NotOwed(n) /\ NotQueued(n) /\ NotHeld(n) /\ accepted[n] = 0
                  /\ \A r \in Sweepers : n \in listed[r] => r = s
                BY <2>1, <4>1 DEF InOnePlace
            <4>3. NotQueued(n)' /\ NotHeld(n)' /\ n \notin bulk' /\ accepted'[n] = 0
                BY <2>1, <2>6, <4>2 DEF NotQueued, NotHeld
            <4>4. \A d \in Notices!Callers : Owes(d, n)' => d = s
                BY <2>4, <4>2 DEF NotOwed
            <4>5. \A r \in Sweepers : n \notin listed'[r]
                BY <2>2, <4>2
            <4>6. QED
                BY <2>3, <4>3, <4>4, <4>5 DEF InOnePlace, NotQueued, NotHeld
        <3>2. Notices!InHand(n)'
            BY <1>h, <2>4
        <3>3. QED
            BY <3>1, <3>2 DEF Sound
    <2>9. QED
        BY <2>5, <2>7, <2>8 DEF NoticeInv
<1>10. ASSUME NEW s \in Sweepers, Notices!SweepEnds(s) PROVE NoticeInv'
    <2>1. /\ listed' = [listed EXCEPT ![s] = {}]
          /\ UNCHANGED <<note, owed, queue, worker, bulk, accepted, lost, sentAgain>>
        BY <1>10 DEF Notices!SweepEnds
    <2>2. DOMAIN listed' = Sweepers /\ \A r \in Sweepers : listed'[r] \subseteq listed[r]
        BY <1>t, <2>1
    <2>3. NoticeTyped'
        BY <1>t, <2>1, <2>2 DEF NoticeTyped
    <2>4. \A d, m : Owes(d, m)' <=> Owes(d, m)
        BY <2>1 DEF Owes
    <2>5. \A w, m : Carries(w, m)' <=> Carries(w, m)
        BY <2>1 DEF Carries
    <2>6. ASSUME NEW n \in Notices!Notes PROVE Sound(n)'
        <3>1. n \notin sentAgain' => InOnePlace(n)'
            BY <1>t, <2>1, <2>2, <2>4, <2>5 DEF Sound, InOnePlace, NotOwed, NotQueued, NotHeld
        <3>2. note'[n].status \in {"pending", "queued"} /\ n \notin lost' => Notices!InHand(n)'
            BY <1>t, <2>1 DEF Sound, Notices!InHand
        <3>3. QED
            BY <3>1, <3>2 DEF Sound
    <2>7. QED
        BY <2>3, <2>6 DEF NoticeInv
<1>11. ASSUME NEW w \in Workers, NEW n \in Notices!Notes, NEW t \in Retries, Notices!Take(w, n, t) PROVE NoticeInv'
    <2>1. /\ worker[w] = Notices!Idle /\ queue[n][t] > 0
          /\ queue' = [queue EXCEPT ![n] = [queue[n] EXCEPT ![t] = queue[n][t] - 1]]
          /\ UNCHANGED <<note, owed, listed, bulk, accepted, lost, sentAgain>>
        BY <1>11 DEF Notices!Take
    <2>2. worker' = [worker EXCEPT ![w] = IF note[n].status = "sent" THEN Notices!Idle
                                          ELSE [at |-> "read", of |-> n, retries |-> t]]
        BY <1>11 DEF Notices!Take, Notices!AlreadySent
    <2>3. queue[n] \in [Retries -> Nat] /\ queue[n][t] - 1 \in Nat
        BY <1>t, <2>1
    <2>4. [queue[n] EXCEPT ![t] = queue[n][t] - 1] \in [Retries -> Nat]
        BY <2>3
    <2>5. /\ queue' \in [Notices!Notes -> [Retries -> Nat]]
          /\ \A m \in Notices!Notes \ {n} : queue'[m] = queue[m]
          /\ queue'[n][t] = queue[n][t] - 1
          /\ \A u \in Retries \ {t} : queue'[n][u] = queue[n][u]
        BY <1>t, <2>1, <2>3, <2>4
    <2>6. /\ DOMAIN worker' = Workers /\ \A v \in Workers \ {w} : worker'[v] = worker[v]
          /\ worker'[w] = IF note[n].status = "sent" THEN Notices!Idle
                          ELSE [at |-> "read", of |-> n, retries |-> t]
        BY <1>t, <2>2
    <2>7. [at |-> "read", of |-> n, retries |-> t] \in Sendings
        BY DEF Sendings
    <2>8. NoticeTyped'
        BY <1>t, <2>1, <2>5, <2>6, <2>7 DEF NoticeTyped
    <2>9. \A d, m : Owes(d, m)' <=> Owes(d, m)
        BY <2>1 DEF Owes
    <2>10. \A v \in Workers : \A m : Carries(v, m)' <=> Carries(v, m) \/ (note[n].status # "sent" /\ v = w /\ m = n)
        <3>1. [at |-> "read", of |-> n, retries |-> t] # Notices!Idle
            BY <1>i, <2>7
        <3>2. QED
            BY <2>1, <2>6, <3>1 DEF Carries
    <2>11. \A m \in Notices!Notes \ {n} : Sound(m)'
        <3>1. \A m \in Notices!Notes \ {n} : ~Carries(w, m) /\ ~Carries(w, m)'
            BY <2>1, <2>10 DEF Carries
        <3>2. QED
            BY <1>k, <2>1, <2>5, <2>6, <2>9, <3>1
    <2>12. Sound(n)'
        <3>1. ASSUME n \notin sentAgain' PROVE InOnePlace(n)'
            <4>1. InOnePlace(n)
                BY <1>t, <2>1, <3>1 DEF Sound
            <4>2. /\ NotHeld(n) /\ NotOwed(n) /\ n \notin bulk /\ queue[n][t] = 1
                  /\ \A u \in Retries : queue[n][u] > 0 => u = t
                  /\ note[n].status \notin {"none", "scheduled"}
                  /\ accepted[n] <= 1 /\ accepted[n] # 1
                BY <2>1, <4>1 DEF InOnePlace, NotOwed, NotQueued
            <4>3. NotOwed(n)' /\ n \notin bulk'
                BY <2>1, <2>9, <4>2 DEF NotOwed
            <4>4. NotQueued(n)'
                BY <2>3, <2>5, <4>2 DEF NotQueued
            <4>5. \A v \in Workers : Carries(v, n)' => v = w
                BY <2>10, <4>2 DEF NotHeld
            <4>6. QED
                BY <2>1, <4>1, <4>2, <4>3, <4>4, <4>5 DEF InOnePlace, NotOwed, NotQueued
        <3>2. note'[n].status \in {"pending", "queued"} => Notices!InHand(n)'
            <4>1. ASSUME note'[n].status \in {"pending", "queued"} PROVE Carries(w, n)'
                BY <4>1, <2>1, <2>10
            <4>2. QED
                BY <1>h, <4>1
        <3>3. QED
            BY <3>1, <3>2 DEF Sound
    <2>13. QED
        BY <2>8, <2>11, <2>12 DEF NoticeInv
\* What a worker holds, nobody else has.
<1>a. ASSUME NEW w \in Workers, NEW n \in Notices!Notes, Carries(w, n), n \notin sentAgain
      PROVE  /\ InOnePlace(n) /\ n \notin bulk /\ NotOwed(n) /\ NotQueued(n)
             /\ note[n].status \notin {"none", "scheduled"} /\ \A s \in Sweepers : n \notin listed[s]
             /\ \A v \in Workers : Carries(v, n) => v = w
             /\ accepted[n] <= 1 /\ (worker[w].at # "accepted" => accepted[n] = 0)
    <2>1. InOnePlace(n) /\ ~NotHeld(n)
        BY <1>a, <1>t DEF Sound, NotHeld
    <2>2. \A t \in Retries : queue[n][t] = 0
        BY <1>t, <2>1 DEF InOnePlace
    <2>3. accepted[n] \in Nat /\ accepted[n] <= 1 /\ (worker[w].at # "accepted" => accepted[n] # 1)
        BY <1>a, <1>t, <2>1 DEF InOnePlace
    <2>4. accepted[n] <= 1 /\ (worker[w].at # "accepted" => accepted[n] = 0)
        BY <2>3
    <2>5. QED
        BY <1>a, <2>1, <2>2, <2>4 DEF InOnePlace, NotOwed, NotQueued
<1>12. ASSUME NEW w \in Workers, Notices!MarkQueued(w) PROVE NoticeInv'
    <2>1. worker[w] # Notices!Idle /\ worker[w].at = "read"
        BY <1>12 DEF Notices!MarkQueued, Notices!Idle
    <2>2. PICK n \in Notices!Notes : n = worker[w].of
        BY <1>t, <2>1 DEF Sendings
    <2>3. /\ note' = [note EXCEPT ![n].status = "queued"] /\ Notices!Goes(w, "sending")
          /\ UNCHANGED <<owed, queue, listed, bulk, accepted, lost, sentAgain>>
        BY <1>12, <2>2 DEF Notices!MarkQueued
    <2>4. /\ DOMAIN worker' = Workers /\ worker'[w].at = "sending"
          /\ \A u \in Workers \ {w} : worker'[u] = worker[u]
          /\ \A u \in Workers : worker'[u] # Notices!Idle => worker'[u] \in Sendings
          /\ \A u \in Workers : \A m : Carries(u, m)' <=> Carries(u, m)
        BY <1>g, <2>1, <2>3
    <2>5. /\ note' \in [Notices!Notes -> NoteRows] /\ note'[n].status = "queued"
          /\ \A m \in Notices!Notes \ {n} : note'[m] = note[m]
        BY <1>t, <2>3 DEF NoteRows
    <2>6. NoticeTyped'
        BY <1>t, <2>3, <2>4, <2>5 DEF NoticeTyped
    <2>7. Carries(w, n) /\ \A m \in Notices!Notes \ {n} : ~Carries(w, m)
        BY <2>1, <2>2 DEF Carries
    <2>8. \A d, m : Owes(d, m)' <=> Owes(d, m)
        BY <2>3 DEF Owes
    <2>9. \A m \in Notices!Notes \ {n} : Sound(m)'
        BY <1>k, <2>3, <2>4, <2>5, <2>7, <2>8
    <2>10. n \notin sentAgain' => InOnePlace(n)'
        BY <1>a, <2>1, <2>3, <2>4, <2>5, <2>7, <2>8 DEF InOnePlace, NotOwed, NotQueued
    <2>11. Notices!InHand(n)'
        BY <1>h, <2>4, <2>7
    <2>12. QED
        BY <2>6, <2>9, <2>10, <2>11 DEF NoticeInv, Sound
<1>13. ASSUME NEW w \in Workers, Notices!MarkSent(w) PROVE NoticeInv'
    <2>1. worker[w] # Notices!Idle /\ worker[w].at = "accepted"
        BY <1>13 DEF Notices!MarkSent, Notices!Idle
    <2>2. PICK n \in Notices!Notes : n = worker[w].of
        BY <1>t, <2>1 DEF Sendings
    <2>3. /\ note' = [note EXCEPT ![n].status = "sent"] /\ Notices!Stops(w)
          /\ UNCHANGED <<owed, queue, listed, bulk, accepted, lost, sentAgain>>
        BY <1>13, <2>2 DEF Notices!MarkSent
    <2>4. /\ DOMAIN worker' = Workers /\ \A u \in Workers \ {w} : worker'[u] = worker[u]
          /\ \A u \in Workers : worker'[u] # Notices!Idle => worker'[u] \in Sendings
          /\ \A u \in Workers : \A m : Carries(u, m)' <=> Carries(u, m) /\ u # w
        BY <1>q, <2>3
    <2>5. /\ note' \in [Notices!Notes -> NoteRows] /\ note'[n].status = "sent"
          /\ \A m \in Notices!Notes \ {n} : note'[m] = note[m]
        BY <1>t, <2>3 DEF NoteRows
    <2>6. NoticeTyped'
        BY <1>t, <2>3, <2>4, <2>5 DEF NoticeTyped
    <2>7. Carries(w, n) /\ \A m \in Notices!Notes \ {n} : ~Carries(w, m) /\ ~Carries(w, m)'
        BY <2>1, <2>2, <2>4 DEF Carries
    <2>8. \A d, m : Owes(d, m)' <=> Owes(d, m)
        BY <2>3 DEF Owes
    <2>9. \A m \in Notices!Notes \ {n} : Sound(m)'
        BY <1>k, <2>3, <2>4, <2>5, <2>7, <2>8
    <2>10. n \notin sentAgain' => InOnePlace(n)'
        BY <1>a, <2>3, <2>4, <2>5, <2>7, <2>8 DEF InOnePlace, NotOwed, NotQueued
    <2>11. QED
        BY <2>5, <2>6, <2>9, <2>10 DEF NoticeInv, Sound
<1>14. ASSUME NEW w \in Workers, Notices!MarkSentFails(w) PROVE NoticeInv'
    <2>1. worker[w] # Notices!Idle /\ worker[w].at = "accepted"
        BY <1>14 DEF Notices!MarkSentFails, Notices!Idle
    <2>2. PICK n \in Notices!Notes : n = worker[w].of
        BY <1>t, <2>1 DEF Sendings
    <2>3. /\ sentAgain' = sentAgain \union {n} /\ Notices!Goes(w, "failed")
          /\ UNCHANGED <<note, owed, queue, listed, bulk, accepted, lost>>
        BY <1>14, <2>2 DEF Notices!MarkSentFails
    <2>4. /\ DOMAIN worker' = Workers /\ \A u \in Workers \ {w} : worker'[u] = worker[u]
          /\ \A u \in Workers : worker'[u] # Notices!Idle => worker'[u] \in Sendings
          /\ \A u \in Workers : \A m : Carries(u, m)' <=> Carries(u, m)
        BY <1>g, <2>1, <2>3
    <2>5. NoticeTyped'
        BY <1>t, <2>3, <2>4 DEF NoticeTyped
    <2>6. Carries(w, n) /\ \A m \in Notices!Notes \ {n} : ~Carries(w, m)
        BY <2>1, <2>2 DEF Carries
    <2>7. \A d, m : Owes(d, m)' <=> Owes(d, m)
        BY <2>3 DEF Owes
    <2>8. \A m \in Notices!Notes \ {n} : Sound(m)'
        BY <1>k, <2>3, <2>4, <2>6, <2>7
    <2>9. Notices!InHand(n)'
        BY <1>h, <2>4, <2>6
    <2>10. QED
        BY <2>3, <2>5, <2>8, <2>9 DEF NoticeInv, Sound
<1>15. ASSUME NEW w \in Workers, Notices!RetryLater(w) PROVE NoticeInv'
    <2>1. worker[w] # Notices!Idle /\ worker[w].at = "failed"
        BY <1>15 DEF Notices!RetryLater, Notices!Idle
    <2>2. PICK n \in Notices!Notes : n = worker[w].of
        BY <1>t, <2>1 DEF Sendings
    <2>3. PICK t \in Retries : t = worker[w].retries
        BY <1>t, <2>1 DEF Sendings
    <2>4. /\ \/ t < MaxRetries /\ Notices!Put(n, t + 1) /\ lost' = lost
             \/ queue' = queue /\ lost' = lost \union {n}
          /\ Notices!Stops(w)
          /\ UNCHANGED <<note, owed, listed, bulk, accepted, sentAgain>>
        BY <1>15, <2>2, <2>3 DEF Notices!RetryLater
    <2>5. /\ DOMAIN worker' = Workers /\ \A u \in Workers \ {w} : worker'[u] = worker[u]
          /\ \A u \in Workers : worker'[u] # Notices!Idle => worker'[u] \in Sendings
          /\ \A u \in Workers : \A m : Carries(u, m)' <=> Carries(u, m) /\ u # w
        BY <1>q, <2>4
    <2>6. Carries(w, n) /\ \A m \in Notices!Notes \ {n} : ~Carries(w, m) /\ ~Carries(w, m)'
        BY <2>1, <2>2, <2>5 DEF Carries
    <2>7. \A d, m : Owes(d, m)' <=> Owes(d, m)
        BY <2>4 DEF Owes
    <2>8. n \notin sentAgain' => NotOwed(n)' /\ NotHeld(n)' /\ n \notin bulk' /\ accepted'[n] = 0
                                 /\ \A s \in Sweepers : n \notin listed'[s]
        BY <1>a, <2>1, <2>4, <2>5, <2>6, <2>7 DEF NotOwed, NotHeld
    <2>9. n \notin sentAgain' => NotQueued(n) /\ note'[n].status \notin {"none", "scheduled"}
        BY <1>a, <2>4, <2>6
    <2>10. CASE t < MaxRetries /\ Notices!Put(n, t + 1) /\ lost' = lost
        <3>1. t + 1 \in Retries
            BY <2>10, PlatformAssumption DEF Retries
        <3>2. PICK u \in Retries : u = t + 1
            BY <3>1
        <3>3. /\ queue' \in [Notices!Notes -> [Retries -> Nat]]
              /\ \A m \in Notices!Notes \ {n} : queue'[m] = queue[m]
              /\ queue'[n][u] = queue[n][u] + 1 /\ queue[n][u] \in Nat
              /\ \A v \in Retries \ {u} : queue'[n][v] = queue[n][v]
            BY <1>p, <1>t, <2>10, <3>2
        <3>4. NoticeTyped'
            BY <1>t, <2>4, <2>5, <3>3 DEF NoticeTyped
        <3>5. \A m \in Notices!Notes \ {n} : Sound(m)'
            BY <1>k, <2>4, <2>5, <2>6, <2>7, <3>3, <2>10
        <3>6. n \notin sentAgain' => queue'[n][u] = 1 /\ \A v \in Retries : queue'[n][v] > 0 => v = u
            BY <2>9, <3>3 DEF NotQueued
        <3>7. n \notin sentAgain' => InOnePlace(n)'
            BY <2>8, <2>9, <3>6 DEF InOnePlace, NotOwed, NotHeld
        <3>8. Notices!InHand(n)'
            <4>1. queue'[n][u] > 0
                BY <3>3
            <4>2. QED
                BY <1>h, <4>1
        <3>9. QED
            BY <3>4, <3>5, <3>7, <3>8 DEF NoticeInv, Sound
    <2>11. CASE queue' = queue /\ lost' = lost \union {n}
        <3>1. NoticeTyped'
            BY <1>t, <2>4, <2>5, <2>11 DEF NoticeTyped
        <3>2. \A m \in Notices!Notes \ {n} : Sound(m)'
            BY <1>k, <2>4, <2>5, <2>6, <2>7, <2>11
        <3>3. n \notin sentAgain' => NotQueued(n)'
            BY <2>9, <2>11 DEF NotQueued
        <3>4. n \notin sentAgain' => InOnePlace(n)'
            BY <2>8, <2>9, <3>3 DEF InOnePlace, NotOwed, NotQueued, NotHeld
        <3>5. QED
            BY <2>11, <3>1, <3>2, <3>4 DEF NoticeInv, Sound
    <2>12. QED
        BY <2>4, <2>10, <2>11
<1>16. ASSUME NEW w \in Workers, Notices!WorkerDies(w) PROVE NoticeInv'
    <2>1. worker[w] # Notices!Idle
        BY <1>16 DEF Notices!WorkerDies
    <2>2. PICK n \in Notices!Notes : n = worker[w].of
        BY <1>t, <2>1 DEF Sendings
    <2>3. /\ lost' = lost \union {n} /\ Notices!Stops(w)
          /\ UNCHANGED <<note, owed, queue, listed, bulk, accepted, sentAgain>>
        BY <1>16, <2>2 DEF Notices!WorkerDies
    <2>4. /\ DOMAIN worker' = Workers /\ \A u \in Workers \ {w} : worker'[u] = worker[u]
          /\ \A u \in Workers : worker'[u] # Notices!Idle => worker'[u] \in Sendings
          /\ \A u \in Workers : \A m : Carries(u, m)' <=> Carries(u, m) /\ u # w
        BY <1>q, <2>3
    <2>5. NoticeTyped'
        BY <1>t, <2>3, <2>4 DEF NoticeTyped
    <2>6. Carries(w, n) /\ \A m \in Notices!Notes \ {n} : ~Carries(w, m) /\ ~Carries(w, m)'
        BY <2>1, <2>2, <2>4 DEF Carries
    <2>7. \A d, m : Owes(d, m)' <=> Owes(d, m)
        BY <2>3 DEF Owes
    <2>8. \A m \in Notices!Notes \ {n} : Sound(m)'
        BY <1>k, <2>3, <2>4, <2>6, <2>7
    <2>9. n \notin sentAgain' => InOnePlace(n)'
        BY <1>a, <2>3, <2>4, <2>6, <2>7 DEF InOnePlace, NotOwed, NotQueued
    <2>10. QED
        BY <2>3, <2>5, <2>8, <2>9 DEF NoticeInv, Sound
<1>17. ASSUME NEW w \in Workers, NEW took \in BOOLEAN, NEW answered \in BOOLEAN, Notices!Send(w, took, answered)
       PROVE  NoticeInv'
    <2>1. worker[w] # Notices!Idle /\ worker[w].at = "sending"
        BY <1>17 DEF Notices!Send, Notices!Idle
    <2>2. PICK n \in Notices!Notes : n = worker[w].of
        BY <1>t, <2>1 DEF Sendings
    <2>3. /\ accepted' = [accepted EXCEPT ![n] = @ + (IF took THEN 1 ELSE 0)] /\ (answered => took)
          /\ sentAgain' = IF took /\ ~answered THEN sentAgain \union {n} ELSE sentAgain
          /\ Notices!Goes(w, IF answered THEN "accepted" ELSE "failed")
          /\ UNCHANGED <<note, owed, queue, listed, bulk, lost>>
        BY <1>17, <2>2 DEF Notices!Send
    <2>4. PICK stage \in {"read", "sending", "accepted", "failed"} : stage = IF answered THEN "accepted" ELSE "failed"
        OBVIOUS
    <2>5. /\ DOMAIN worker' = Workers /\ \A u \in Workers \ {w} : worker'[u] = worker[u]
          /\ worker'[w].at = stage
          /\ \A u \in Workers : worker'[u] # Notices!Idle => worker'[u] \in Sendings
          /\ \A u \in Workers : \A m : Carries(u, m)' <=> Carries(u, m)
        BY <1>g, <2>1, <2>3, <2>4
    <2>6. /\ accepted' \in [Notices!Notes -> Nat] /\ accepted'[n] = accepted[n] + (IF took THEN 1 ELSE 0)
          /\ \A m \in Notices!Notes \ {n} : accepted'[m] = accepted[m]
        BY <1>t, <2>3
    <2>7. NoticeTyped'
        BY <1>t, <2>3, <2>5, <2>6 DEF NoticeTyped
    <2>8. Carries(w, n) /\ \A m \in Notices!Notes \ {n} : ~Carries(w, m)
        BY <2>1, <2>2 DEF Carries
    <2>9. \A d, m : Owes(d, m)' <=> Owes(d, m)
        BY <2>3 DEF Owes
    <2>10. \A m \in Notices!Notes \ {n} : Sound(m)'
        BY <1>k, <2>3, <2>5, <2>6, <2>8, <2>9
    <2>11. ASSUME n \notin sentAgain' PROVE InOnePlace(n)'
        <3>1. n \notin sentAgain /\ (took => answered)
            BY <2>3, <2>11
        <3>2. accepted[n] = 0
            BY <1>a, <2>1, <2>8, <3>1
        <3>3. accepted'[n] <= 1 /\ (accepted'[n] = 1 => worker'[w].at = "accepted")
            BY <2>4, <2>5, <2>6, <3>1, <3>2
        <3>4. QED
            BY <1>a, <2>3, <2>5, <2>8, <2>9, <3>1, <3>3 DEF InOnePlace, NotOwed, NotQueued
    <2>12. Notices!InHand(n)'
        BY <1>h, <2>5, <2>8
    <2>13. QED
        BY <2>7, <2>10, <2>11, <2>12 DEF NoticeInv, Sound
<1>n. CASE Notices!Next
    BY <1>n, <1>2, <1>3, <1>4, <1>5, <1>6, <1>7, <1>8, <1>9, <1>10, <1>11, <1>12, <1>13, <1>14, <1>15, <1>16, <1>17
    DEF Notices!Next, Retries
<1> QED
    BY <1>0, <1>n

\* A notification the provider took twice was retried by hand, picked up by two callers,
\* or its send or its last save failed half-way; and one shown as on its way is in
\* somebody's hands unless a process died, its retries ran out or a bulk call missed it
\* (send_notification_task, process_scheduled_notifications, bulk_create).
THEOREM SentOnceAndKept == PlatformSpec => []SentAndOnce
<1>1. NoticeInv => SentAndOnce
    BY DEF NoticeInv, NoticeTyped, Sound, InOnePlace, SentAndOnce, Notices!SentOnce, Notices!NoneForgotten
<1>2. PlatformSpec => []NoticeInv
    BY NoticeInit, NoticeNext, NoticeSteps, PTL
<1>3. QED
    BY <1>1, <1>2, PTL

-----------------------------------------------------------------------------
(* The screens' rows: for any number of tabs open at once. *)

LEMMA DeskSteps == PlatformSpec => Desk!Init /\ [][Desk!Next]_deskVars
<1>1. PlatformInit => Desk!Init
    BY DEF PlatformInit
<1>2. [PlatformNext]_<<part, accessVars, configVars, bindingVars, noticeVars, clubVars, leavingVars,
                       recordVars, bookVars, deskVars, shelfVars, countVars>>
      => [Desk!Next]_deskVars
    BY DEF PlatformNext, deskVars
<1>3. QED
    BY <1>1, <1>2, Behaviour, PTL

Statuses == {"none", "on", "off", "pending", "approved", "A", "B", "draft", "in_transit", "received",
             "active", "suspended", "closed", "vacant", "occupied"}
DeskRow == [here : BOOLEAN, deleted : BOOLEAN, status : Statuses, main : BOOLEAN]
Forms == [step : {"open", "taken"}, at : Desk!Rows, copy : DeskRow]

DeskTyped ==
    /\ desk \in Desk!Desks
    /\ row \in [Desk!Rows -> DeskRow] /\ audited \in [Desk!Rows -> DeskRow]
    /\ opened \in [Tabs -> {Desk!Idle} \union Forms]
    /\ moved \in [Desk!Rows -> Nat]
    /\ crossed \in BOOLEAN

Documents == {"adjustment", "transfer"}

\* What a row, or a form's copy of one, may look like at this desk.
Proper(x) ==
    /\ x.here \/ x = Desk!NoRow
    /\ x.main => desk \in {"warehouse", "printer"}
    /\ x.status = "closed" => desk = "restaurant"

RowsProper == \A r \in Desk!Rows : Proper(row[r])

FormsProper ==
    \A q \in Tabs :
        opened[q] # Desk!Idle =>
            /\ Proper(opened[q].copy)
            /\ opened[q].copy.here \/ desk = "printer"
            /\ opened[q].step = "taken" => desk = "printer"

\* A row no stale copy was saved over, and a document that moved stock is no draft.
RowKeeps(r) ==
    /\ row[r] = audited[r]
    /\ <<r, "deleted">> \in ever => row[r].deleted
    /\ <<r, "closed">> \in ever => row[r].status = "closed"
    /\ moved[r] <= 1
    /\ moved[r] = 1 => desk \in Documents /\ row[r].status \notin {"none", "draft"}

RowsKeep == \A r \in Desk!Rows \ savedOver : RowKeeps(r)

Default(r) == Desk!Live(r) /\ row[r].main

\* While a form has taken the flag no other printer has it, and there is one holder.
OneDefault ==
    /\ desk = "warehouse" => \A r, s \in Desk!Rows : Default(r) /\ Default(s) => r = s
    /\ desk = "printer" /\ ~crossed =>
         /\ \A r, s \in Desk!Rows : Default(r) /\ Default(s) => r = s
         /\ \A q \in Tabs, r \in Desk!Rows :
              opened[q].step = "taken" /\ Default(r) => opened[q].at = r

DeskInv == DeskTyped /\ RowsProper /\ FormsProper /\ RowsKeep /\ OneDefault

LEMMA DeskInit == Desk!Init => DeskInv
<1> SUFFICES ASSUME Desk!Init PROVE DeskInv
    OBVIOUS
<1>1. Desk!NoRow \in DeskRow /\ ~Desk!NoRow.here /\ ~Desk!NoRow.main /\ Desk!NoRow.status = "none"
    BY DEF Desk!NoRow, DeskRow, Statuses
<1>2. DeskTyped
    BY <1>1 DEF Desk!Init, DeskTyped
<1>3. \A r \in Desk!Rows : row[r] = Desk!NoRow /\ audited[r] = Desk!NoRow /\ moved[r] = 0
    BY DEF Desk!Init
<1>4. RowsProper /\ FormsProper /\ RowsKeep
    BY <1>1, <1>3 DEF Desk!Init, RowsProper, Proper, FormsProper, RowsKeep, RowKeeps
<1>5. OneDefault
    BY <1>1, <1>3 DEF OneDefault, Default
<1>6. QED
    BY <1>2, <1>4, <1>5 DEF DeskInv

\* What a save of the changed columns leaves of the row that is there.
Merge(copy, new, old) ==
    [here    |-> IF new.here # copy.here THEN new.here ELSE old.here,
     deleted |-> IF new.deleted # copy.deleted THEN new.deleted ELSE old.deleted,
     status  |-> IF new.status # copy.status THEN new.status ELSE old.status,
     main    |-> IF new.main # copy.main THEN new.main ELSE old.main]

LEMMA Merged ==
    \A copy, new, old \in DeskRow :
        /\ [c \in Desk!Columns |-> IF new[c] # copy[c] THEN new[c] ELSE old[c]] = Merge(copy, new, old)
        /\ Merge(copy, new, old) \in DeskRow
<1> SUFFICES ASSUME NEW copy \in DeskRow, NEW new \in DeskRow, NEW old \in DeskRow
             PROVE  /\ [c \in Desk!Columns |-> IF new[c] # copy[c] THEN new[c] ELSE old[c]] = Merge(copy, new, old)
                    /\ Merge(copy, new, old) \in DeskRow
    OBVIOUS
<1>1. Merge(copy, new, old) \in DeskRow
    BY DEF Merge, DeskRow
<1>2. [c \in Desk!Columns |-> IF new[c] # copy[c] THEN new[c] ELSE old[c]] = Merge(copy, new, old)
    BY DEF Merge, DeskRow, Desk!Columns
<1>3. QED
    BY <1>1, <1>2

LEMMA MergeAll == \A copy, new \in DeskRow : Merge(copy, new, copy) = new
BY DEF Merge, DeskRow

-----------------------------------------------------------------------------
(* The moves a screen's step amounts to. *)

\* A row as it is created, and what an edit, and a service's step, make of one.
Born(new) ==
    /\ new \in DeskRow /\ new.here /\ ~new.deleted
    /\ new.main => desk = "warehouse"
    /\ new.status # "closed"

Edit(copy, new) ==
    /\ new \in DeskRow /\ new.here = copy.here
    /\ copy.deleted => new.deleted
    /\ new.main = copy.main \/ desk = "warehouse"
    /\ \/ new.status = copy.status
       \/ new.status # "closed" /\ desk \notin Documents \union {"restaurant"}

Served(old, new) ==
    /\ new \in DeskRow /\ new.here = old.here /\ new.main = old.main
    /\ old.deleted => new.deleted
    /\ new.status = "closed" => old.status = "closed" \/ desk = "restaurant"
    /\ old.status = "closed" => new.status = "closed"

\* A document leaves its draft as it moves stock, and does not come back to it.
StockMoves(r, new) ==
    \/ UNCHANGED moved /\ (desk \in Documents /\ row[r].status \notin {"none", "draft"}
                             => new.status \notin {"none", "draft"})
    \/ /\ desk \in Documents /\ row[r].status = "draft" /\ new.status \notin {"none", "draft"}
       /\ moved' = [moved EXCEPT ![r] = @ + 1]

CreateMove == \E r \in Desk!Rows, new \in DeskRow : Born(new) /\ Desk!Create(r, new)
SaveMove ==
    \E q \in Tabs, r \in Desk!Rows, new \in DeskRow :
        /\ desk # "printer" /\ Desk!Opened(q, r) /\ Edit(opened[q].copy, new)
        /\ Desk!SaveAll(q, r, new) /\ UNCHANGED crossed
PatchMove ==
    \E r \in Desk!Rows, new \in DeskRow :
        /\ Desk!Live(r) /\ Served(row[r], new) /\ StockMoves(r, new)
        /\ Desk!SaveSome(r, row[r], new) /\ UNCHANGED opened
ToggleMove ==
    \E q \in Tabs, new \in DeskRow :
        /\ desk = "menu" /\ Desk!Opened(q, 2) /\ row[2].here
        /\ new.status # "closed" /\ new.here = opened[q].copy.here
        /\ new.deleted = opened[q].copy.deleted /\ new.main = opened[q].copy.main
        /\ Desk!SaveSome(2, opened[q].copy, new) /\ Desk!Finish(q) /\ UNCHANGED moved
PrinterMove ==
    /\ desk = "printer"
    /\ \E q \in Tabs, r \in Desk!Rows :
        Desk!Compose(q, r) \/ Desk!TakeDefault(q, r) \/ Desk!SavePrinter(q, r)

DeskMove ==
    \/ CreateMove \/ SaveMove \/ PatchMove \/ ToggleMove \/ PrinterMove
    \/ \E q \in Tabs, r \in Desk!Rows : Desk!Open(q, r)
    \/ \E q \in Tabs : Desk!GiveUp(q)

LEMMA NewRows ==
    \A s \in Statuses \ {"closed"} : Desk!New(s) \in DeskRow /\ Born(Desk!New(s))
BY DEF Desk!New, DeskRow, Born, Statuses

LEMMA FormOf ==
    ASSUME DeskTyped, NEW q \in Tabs, opened[q] # Desk!Idle
    PROVE  opened[q] \in Forms /\ opened[q].copy \in DeskRow /\ opened[q].at \in Desk!Rows
           /\ opened[q].step \in {"open", "taken"}
BY DEF DeskTyped, Forms

LEMMA OpenedForm == \A q, r : Desk!Opened(q, r) => opened[q] # Desk!Idle
BY DEF Desk!Opened, Desk!Idle

LEMMA ToTheSame == \A copy \in DeskRow : Edit(copy, copy)
BY DEF Edit

LEMMA ToStatus ==
    \A copy \in DeskRow, s \in Statuses :
        LET new == [copy EXCEPT !.status = s] IN
        /\ new \in DeskRow
        /\ new.here = copy.here /\ new.deleted = copy.deleted /\ new.main = copy.main /\ new.status = s
BY DEF DeskRow

LEMMA ToMain ==
    \A copy \in DeskRow, m \in BOOLEAN :
        LET new == [copy EXCEPT !.main = m] IN
        /\ new \in DeskRow
        /\ new.here = copy.here /\ new.deleted = copy.deleted /\ new.main = m /\ new.status = copy.status
BY DEF DeskRow

LEMMA ToDeleted ==
    \A copy \in DeskRow :
        LET new == [copy EXCEPT !.deleted = TRUE] IN
        /\ new \in DeskRow
        /\ new.here = copy.here /\ new.deleted /\ new.main = copy.main /\ new.status = copy.status
BY DEF DeskRow

\* A screen's save of a copy with another status, or with its flag.
LEMMA StatusSaved ==
    ASSUME DeskTyped, desk \notin Documents \union {"restaurant", "printer"},
           NEW q \in Tabs, NEW r \in Desk!Rows, Desk!Opened(q, r),
           NEW s \in Statuses \ {"closed"},
           Desk!SaveAll(q, r, [opened[q].copy EXCEPT !.status = s]), UNCHANGED crossed
    PROVE  SaveMove
<1>1. opened[q].copy \in DeskRow
    BY OpenedForm, FormOf
<1> DEFINE new == [opened[q].copy EXCEPT !.status = s]
<1>2. new \in DeskRow /\ Edit(opened[q].copy, new)
    BY <1>1, ToStatus DEF Edit
<1>3. QED
    BY <1>2 DEF SaveMove, Documents

LEMMA CopySaved ==
    ASSUME DeskTyped, desk # "printer",
           NEW q \in Tabs, NEW r \in Desk!Rows, Desk!Opened(q, r),
           Desk!SaveAll(q, r, opened[q].copy), UNCHANGED crossed
    PROVE  SaveMove
<1>1. opened[q].copy \in DeskRow
    BY OpenedForm, FormOf
<1>2. QED
    BY <1>1, ToTheSame DEF SaveMove

LEMMA DeletedIsPatch ==
    ASSUME DeskTyped, NEW r \in Desk!Rows, Desk!Delete(r)
    PROVE  PatchMove
<1>1. row[r] \in DeskRow
    BY DEF DeskTyped
<1> DEFINE new == [row[r] EXCEPT !.deleted = TRUE]
<1>2. new \in DeskRow /\ Served(row[r], new) /\ new.status = row[r].status
    BY <1>1, ToDeleted DEF Served
<1>3. Desk!Live(r) /\ Desk!SaveSome(r, row[r], new) /\ UNCHANGED opened /\ UNCHANGED moved
    BY DEF Desk!Delete
<1>4. QED
    BY <1>2, <1>3 DEF PatchMove, StockMoves

LEMMA LockedIsPatch ==
    ASSUME DeskTyped, desk \notin Documents, NEW r \in Desk!Rows, NEW from, NEW to \in Statuses,
           Desk!Locked(r, from, to), UNCHANGED moved,
           desk = "restaurant" => "closed" \notin from,
           desk # "restaurant" => to # "closed" /\ row[r].status # "closed"
    PROVE  PatchMove
<1>1. row[r] \in DeskRow
    BY DEF DeskTyped
<1> DEFINE new == [row[r] EXCEPT !.status = to]
<1>2. Desk!Live(r) /\ row[r].status \in from /\ Desk!SaveSome(r, row[r], new) /\ UNCHANGED opened
    BY DEF Desk!Locked
<1>3. new \in DeskRow /\ Served(row[r], new)
    BY <1>1, <1>2, ToStatus DEF Served
<1>4. QED
    BY <1>2, <1>3 DEF PatchMove, StockMoves

LEMMA OneIsRow == 1 \in Desk!Rows /\ 2 \in Desk!Rows
BY DEF Desk!Rows

LEMMA CreatedIsMove ==
    ASSUME NEW r \in Desk!Rows, NEW s \in Statuses \ {"closed"}, Desk!Create(r, Desk!New(s))
    PROVE  CreateMove
BY NewRows DEF CreateMove

\* A screen that saves its copy as it is.
PlainScreen(r, born) ==
    \/ \E s \in born : Desk!Create(r, Desk!New(s))
    \/ \E q \in Tabs :
        \/ Desk!Open(q, r)
        \/ Desk!Opened(q, r) /\ Desk!SaveAll(q, r, opened[q].copy) /\ UNCHANGED crossed
    \/ Desk!Delete(r)

LEMMA PlainScreenMoves ==
    ASSUME DeskTyped, desk # "printer", NEW r \in Desk!Rows, NEW born \in SUBSET (Statuses \ {"closed"}),
           PlainScreen(r, born)
    PROVE  DeskMove
<1>1. CASE \E s \in born : Desk!Create(r, Desk!New(s))
    BY <1>1, CreatedIsMove DEF DeskMove
<1>2. CASE \E q \in Tabs : Desk!Open(q, r)
    BY <1>2 DEF DeskMove
<1>3. CASE \E q \in Tabs : Desk!Opened(q, r) /\ Desk!SaveAll(q, r, opened[q].copy) /\ UNCHANGED crossed
    BY <1>3, CopySaved DEF DeskMove
<1>4. CASE Desk!Delete(r)
    BY <1>4, DeletedIsPatch DEF DeskMove
<1>5. QED
    BY <1>1, <1>2, <1>3, <1>4, PlainScreen(r, born) DEF PlainScreen

\* A screen that gives its copy one of some statuses.
StatusScreen(r, born, to) ==
    \/ \E s \in born : Desk!Create(r, Desk!New(s))
    \/ \E q \in Tabs :
        \/ Desk!Open(q, r)
        \/ /\ Desk!Opened(q, r)
           /\ \E s \in to : Desk!SaveAll(q, r, [opened[q].copy EXCEPT !.status = s]) /\ UNCHANGED crossed
    \/ Desk!Delete(r)

LEMMA StatusScreenMoves ==
    ASSUME DeskTyped, desk \notin Documents \union {"restaurant", "printer"}, NEW r \in Desk!Rows,
           NEW born \in SUBSET (Statuses \ {"closed"}), NEW to \in SUBSET (Statuses \ {"closed"}),
           StatusScreen(r, born, to)
    PROVE  DeskMove
<1>1. CASE \E s \in born : Desk!Create(r, Desk!New(s))
    BY <1>1, CreatedIsMove DEF DeskMove
<1>2. CASE \E q \in Tabs : Desk!Open(q, r)
    BY <1>2 DEF DeskMove
<1>3. CASE \E q \in Tabs, s \in to :
              /\ Desk!Opened(q, r) /\ Desk!SaveAll(q, r, [opened[q].copy EXCEPT !.status = s])
              /\ UNCHANGED crossed
    <2>1. PICK q \in Tabs, s \in to :
              /\ Desk!Opened(q, r) /\ Desk!SaveAll(q, r, [opened[q].copy EXCEPT !.status = s])
              /\ UNCHANGED crossed
        BY <1>3
    <2>2. QED
        BY <2>1, StatusSaved DEF DeskMove
<1>4. CASE Desk!Delete(r)
    BY <1>4, DeletedIsPatch DEF DeskMove
<1>5. QED
    BY <1>1, <1>2, <1>3, <1>4, StatusScreen(r, born, to) DEF StatusScreen

LEMMA SomeStatuses ==
    /\ \A born \in {{"on"}, {"draft"}, {"on", "off"}, {"pending", "approved"}, {"A", "B"}, {"vacant", "occupied"}} :
          born \in SUBSET (Statuses \ {"closed"})
    /\ \A s \in {"on", "off", "draft", "vacant", "approved", "A", "B"} : s \in Statuses \ {"closed"}
BY DEF Statuses

LEMMA StaffDesk ==
    ASSUME DeskTyped,
           Desk!Departments \/ Desk!Designations \/ Desk!StaffResources \/ Desk!Shifts
             \/ Desk!WeeklyOffs \/ Desk!AttendanceLogs \/ Desk!Documents
    PROVE  DeskMove
<1> USE OneIsRow, SomeStatuses
<1>1. CASE Desk!Departments
    <2>1. desk = "staff" /\ PlainScreen(1, {"on"})
        BY <1>1 DEF Desk!Departments, Desk!Screen, Desk!Change, Desk!Unchanged, PlainScreen
    <2>2. QED
        BY <2>1, PlainScreenMoves
<1>2. CASE Desk!Designations
    <2>1. desk = "staff" /\ PlainScreen(2, {"on"})
        BY <1>2 DEF Desk!Designations, Desk!Screen, Desk!Change, Desk!Unchanged, PlainScreen
    <2>2. QED
        BY <2>1, PlainScreenMoves
<1>3. CASE Desk!StaffResources
    <2>1. desk \in {"staff", "shift"} /\ StatusScreen(1, {"on", "off"}, {"on", "off"})
        BY <1>3 DEF Desk!StaffResources, Desk!Screen, Desk!Change, Desk!OnOff, StatusScreen
    <2>2. QED
        BY <2>1, StatusScreenMoves DEF Documents
<1>4. CASE Desk!Shifts
    <2>1. desk = "shift" /\ StatusScreen(1, {"on", "off"}, {"on", "off"})
        BY <1>4 DEF Desk!Shifts, Desk!Screen, Desk!Change, Desk!OnOff, StatusScreen
    <2>2. QED
        BY <2>1, StatusScreenMoves DEF Documents
<1>5. CASE Desk!WeeklyOffs
    <2>1. desk = "shift" /\ PlainScreen(1, {"on"})
        BY <1>5 DEF Desk!WeeklyOffs, Desk!Screen, Desk!Change, Desk!Unchanged, PlainScreen
    <2>2. QED
        BY <2>1, PlainScreenMoves
<1>6. CASE Desk!AttendanceLogs
    <2>1. desk = "shift" /\ StatusScreen(1, {"on", "off"}, {"on", "off"})
        BY <1>6 DEF Desk!AttendanceLogs, Desk!Screen, Desk!Change, Desk!OnOff, StatusScreen
    <2>2. QED
        BY <2>1, StatusScreenMoves DEF Documents
<1>7. CASE Desk!Documents
    <2>1. desk = "shift" /\ PlainScreen(1, {"on"})
        BY <1>7 DEF Desk!Documents, Desk!Screen, Desk!Change, Desk!Unchanged, PlainScreen
    <2>2. QED
        BY <2>1, PlainScreenMoves
<1>8. QED
    BY <1>1, <1>2, <1>3, <1>4, <1>5, <1>6, <1>7

LEMMA LeaveAndMenuDesk ==
    ASSUME DeskTyped, RowsProper,
           \/ Desk!LeaveForms \/ Desk!PayoutForms \/ Desk!LeaveDecision \/ Desk!ModifierGroups
           \/ Desk!Modifiers \/ Desk!ModifierToggle \/ Desk!NewCategory \/ Desk!ComboOffers
           \/ Desk!MenuResources \/ Desk!BusinessHours \/ Desk!RestaurantResources
    PROVE  DeskMove
<1> USE OneIsRow, SomeStatuses
<1>1. CASE Desk!LeaveForms
    <2>1. desk = "leave" /\ StatusScreen(1, {"pending", "approved"}, {"pending", "approved"})
        BY <1>1 DEF Desk!LeaveForms, Desk!Screen, Desk!Change, Desk!AnyLeaveStatus, Desk!LeaveStatus, StatusScreen
    <2>2. QED
        BY <2>1, StatusScreenMoves DEF Documents
<1>2. CASE Desk!PayoutForms
    <2>1. desk = "leave" /\ StatusScreen(1, {"pending", "approved"}, {"pending", "approved"})
        BY <1>2 DEF Desk!PayoutForms, Desk!Screen, Desk!Change, Desk!AnyLeaveStatus, Desk!LeaveStatus, StatusScreen
    <2>2. QED
        BY <2>1, StatusScreenMoves DEF Documents
<1>3. CASE Desk!LeaveDecision
    <2>1. desk = "leave" /\ Desk!Locked(1, {"pending"}, "approved") /\ UNCHANGED moved
        BY <1>3 DEF Desk!LeaveDecision
    <2>2. row[1].status # "closed"
        BY <2>1 DEF RowsProper, Proper
    <2>3. QED
        BY <2>1, <2>2, LockedIsPatch DEF DeskMove, Documents
<1>4. CASE Desk!ModifierGroups
    <2>1. desk = "menu" /\ StatusScreen(1, {"on"}, {"on", "off"})
        BY <1>4 DEF Desk!ModifierGroups, Desk!Screen, Desk!Change, Desk!OnOff, StatusScreen
    <2>2. QED
        BY <2>1, StatusScreenMoves DEF Documents
<1>5. CASE Desk!Modifiers
    <2>1. CASE Desk!Create(2, Desk!New("on"))
        BY <2>1, CreatedIsMove DEF DeskMove
    <2>2. CASE StatusScreen(2, {}, {"on", "off"})
        <3>1. desk = "menu" /\ {} \in SUBSET (Statuses \ {"closed"})
            BY <1>5 DEF Desk!Modifiers
        <3>2. QED
            BY <3>1, <2>2, StatusScreenMoves DEF Documents
    <2>3. QED
        BY <1>5, <2>1, <2>2 DEF Desk!Modifiers, Desk!Change, Desk!OnOff, StatusScreen
<1>6. CASE Desk!ModifierToggle
    <2>1. PICK q \in Tabs :
            /\ Desk!Opened(q, 2) /\ row[2].here /\ Desk!Finish(q)
            /\ Desk!SaveSome(2, opened[q].copy, [opened[q].copy EXCEPT !.status =
                        IF opened[q].copy.status = "on" THEN "off" ELSE "on"])
            /\ UNCHANGED moved
        BY <1>6 DEF Desk!ModifierToggle
    <2> DEFINE s == IF opened[q].copy.status = "on" THEN "off" ELSE "on"
               new == [opened[q].copy EXCEPT !.status = s]
    <2>2. opened[q].copy \in DeskRow /\ s \in Statuses \ {"closed"} /\ desk = "menu"
        BY <1>6, <2>1, OpenedForm, FormOf DEF Desk!ModifierToggle
    <2>3. new \in DeskRow /\ new.status # "closed" /\ new.here = opened[q].copy.here
          /\ new.deleted = opened[q].copy.deleted /\ new.main = opened[q].copy.main
        BY <2>2, ToStatus
    <2>4. QED
        BY <2>1, <2>2, <2>3 DEF ToggleMove, DeskMove
<1>7. CASE Desk!NewCategory
    BY <1>7, CreatedIsMove DEF Desk!NewCategory, DeskMove
<1>8. CASE Desk!ComboOffers
    <2>1. CASE Desk!Create(1, Desk!New("on"))
        BY <2>1, CreatedIsMove DEF DeskMove
    <2>2. CASE StatusScreen(1, {}, {"on", "off"})
        <3>1. desk = "offer" /\ {} \in SUBSET (Statuses \ {"closed"})
            BY <1>8 DEF Desk!ComboOffers
        <3>2. QED
            BY <3>1, <2>2, StatusScreenMoves DEF Documents
    <2>3. QED
        BY <1>8, <2>1, <2>2 DEF Desk!ComboOffers, Desk!Change, Desk!OnOff, StatusScreen
<1>9. CASE Desk!MenuResources
    <2>1. desk = "offer" /\ StatusScreen(1, {"on", "off"}, {"on", "off"})
        BY <1>9 DEF Desk!MenuResources, Desk!Screen, Desk!Change, Desk!OnOff, StatusScreen
    <2>2. QED
        BY <2>1, StatusScreenMoves DEF Documents
<1>10. CASE Desk!BusinessHours
    <2>1. CASE Desk!Create(1, Desk!New("on"))
        BY <2>1, CreatedIsMove DEF DeskMove
    <2>2. CASE StatusScreen(1, {}, {"on", "off"})
        <3>1. desk = "hours" /\ {} \in SUBSET (Statuses \ {"closed"})
            BY <1>10 DEF Desk!BusinessHours
        <3>2. QED
            BY <3>1, <2>2, StatusScreenMoves DEF Documents
    <2>3. QED
        BY <1>10, <2>1, <2>2 DEF Desk!BusinessHours, Desk!Change, Desk!OnOff, StatusScreen
<1>11. CASE Desk!RestaurantResources
    <2>1. desk = "hours" /\ StatusScreen(1, {"on", "off"}, {"on", "off"})
        BY <1>11 DEF Desk!RestaurantResources, Desk!Screen, Desk!Change, Desk!OnOff, StatusScreen
    <2>2. QED
        BY <2>1, StatusScreenMoves DEF Documents
<1>12. QED
    BY <1>1, <1>2, <1>3, <1>4, <1>5, <1>6, <1>7, <1>8, <1>9, <1>10, <1>11

LEMMA StockDesk ==
    ASSUME DeskTyped, RowsProper,
           \/ Desk!SupplierForms \/ Desk!SupplierResource \/ Desk!Warehouses
           \/ Desk!Adjustments \/ Desk!Transfers \/ Desk!DocumentResources
    PROVE  DeskMove
<1> USE OneIsRow, SomeStatuses
<1>t. \A r \in Desk!Rows : row[r] \in DeskRow
    BY DEF DeskTyped
<1>1. CASE Desk!SupplierForms
    <2>1. PICK r \in Desk!Rows :
            \/ \E c \in {"A", "B"} : Desk!Create(r, Desk!New(c))
            \/ \E c \in {"A", "B"} : Desk!Locked(r, {"A", "B"}, c) /\ UNCHANGED moved
            \/ Desk!Delete(r)
        BY <1>1 DEF Desk!SupplierForms, Desk!SupplierCodes
    <2>2. CASE \E c \in {"A", "B"} : Desk!Create(r, Desk!New(c))
        BY <2>2, CreatedIsMove DEF DeskMove
    <2>3. CASE \E c \in {"A", "B"} : Desk!Locked(r, {"A", "B"}, c) /\ UNCHANGED moved
        <3>1. PICK c \in {"A", "B"} : Desk!Locked(r, {"A", "B"}, c) /\ UNCHANGED moved
            BY <2>3
        <3>2. desk = "supplier" /\ row[r].status # "closed" /\ c \in Statuses /\ c # "closed"
            BY <1>1 DEF Desk!SupplierForms, RowsProper, Proper
        <3>3. QED
            BY <3>1, <3>2, LockedIsPatch DEF DeskMove, Documents
    <2>4. CASE Desk!Delete(r)
        BY <2>4, DeletedIsPatch DEF DeskMove
    <2>5. QED
        BY <2>1, <2>2, <2>3, <2>4
<1>2. CASE Desk!SupplierResource
    <2>1. desk = "supplier" /\ \E r \in Desk!Rows : StatusScreen(r, {"A", "B"}, {"A", "B"})
        BY <1>2 DEF Desk!SupplierResource, Desk!Screen, Desk!Change, Desk!AnyCode, Desk!SupplierCodes, StatusScreen
    <2>2. QED
        BY <2>1, StatusScreenMoves DEF Documents
<1>3. CASE Desk!Warehouses
    <2>1. PICK r \in Desk!Rows :
            \/ \E m \in BOOLEAN : Desk!Create(r, [Desk!New("on") EXCEPT !.main = m])
            \/ \E q \in Tabs : Desk!Open(q, r)
            \/ \E q \in Tabs, m \in BOOLEAN :
                  /\ Desk!Opened(q, r) /\ Desk!SaveAll(q, r, [opened[q].copy EXCEPT !.main = m])
                  /\ UNCHANGED crossed
            \/ Desk!Delete(r)
        BY <1>3 DEF Desk!Warehouses, Desk!Change, Desk!AnyMain
    <2>2. desk = "warehouse"
        BY <1>3 DEF Desk!Warehouses
    <2>3. CASE \E m \in BOOLEAN : Desk!Create(r, [Desk!New("on") EXCEPT !.main = m])
        <3>1. PICK m \in BOOLEAN : Desk!Create(r, [Desk!New("on") EXCEPT !.main = m])
            BY <2>3
        <3>2. Desk!New("on") \in DeskRow /\ Born(Desk!New("on"))
            BY NewRows
        <3>3. [Desk!New("on") EXCEPT !.main = m] \in DeskRow /\ Born([Desk!New("on") EXCEPT !.main = m])
            BY <2>2, <3>2, ToMain DEF Born
        <3>4. QED
            BY <3>1, <3>3 DEF CreateMove, DeskMove
    <2>4. CASE \E q \in Tabs : Desk!Open(q, r)
        BY <2>4 DEF DeskMove
    <2>5. CASE \E q \in Tabs, m \in BOOLEAN :
                  /\ Desk!Opened(q, r) /\ Desk!SaveAll(q, r, [opened[q].copy EXCEPT !.main = m])
                  /\ UNCHANGED crossed
        <3>1. PICK q \in Tabs, m \in BOOLEAN :
                  /\ Desk!Opened(q, r) /\ Desk!SaveAll(q, r, [opened[q].copy EXCEPT !.main = m])
                  /\ UNCHANGED crossed
            BY <2>5
        <3>2. opened[q].copy \in DeskRow
            BY <3>1, OpenedForm, FormOf
        <3> DEFINE new == [opened[q].copy EXCEPT !.main = m]
        <3>3. new \in DeskRow /\ Edit(opened[q].copy, new)
            BY <2>2, <3>2, ToMain DEF Edit
        <3>4. QED
            BY <2>2, <3>1, <3>3 DEF SaveMove, DeskMove
    <2>6. CASE Desk!Delete(r)
        BY <2>6, DeletedIsPatch DEF DeskMove
    <2>7. QED
        BY <2>1, <2>3, <2>4, <2>5, <2>6
<1>4. ASSUME NEW from, NEW to \in {"approved", "in_transit", "received"}, desk \in Documents,
             Desk!Locked(1, from, to),
             \/ from = {"draft"} /\ Desk!Post(1)
             \/ UNCHANGED moved
      PROVE  DeskMove
    <2> DEFINE new == [row[1] EXCEPT !.status = to]
    <2>1. Desk!Live(1) /\ row[1].status \in from /\ Desk!SaveSome(1, row[1], new) /\ UNCHANGED opened
        BY <1>4 DEF Desk!Locked
    <2>2. to \in Statuses /\ row[1].status # "closed"
        BY <1>4 DEF Statuses, Documents, RowsProper, Proper
    <2>3. new \in DeskRow /\ Served(row[1], new) /\ new.status = to
        BY <1>4, <1>t, <2>2, ToStatus DEF Served
    <2>4. StockMoves(1, new)
        BY <1>4, <2>1, <2>3 DEF StockMoves, Desk!Post
    <2>5. QED
        BY <2>1, <2>3, <2>4 DEF PatchMove, DeskMove
<1>5. CASE Desk!Adjustments
    BY <1>4, <1>5, CreatedIsMove DEF Desk!Adjustments, DeskMove, Documents
<1>6. CASE Desk!Transfers
    BY <1>4, <1>6, CreatedIsMove DEF Desk!Transfers, DeskMove, Documents
<1>7. CASE Desk!DocumentResources
    <2>1. desk \in Documents /\ PlainScreen(1, {})
        BY <1>7 DEF Desk!DocumentResources, Desk!Change, Desk!Unchanged, PlainScreen, Documents
    <2>2. QED
        BY <2>1, PlainScreenMoves DEF Documents
<1>8. QED
    BY <1>1, <1>2, <1>3, <1>5, <1>6, <1>7

LEMMA RestaurantDesk ==
    ASSUME DeskTyped, RowsProper,
           Desk!Restaurants \/ Desk!PrinterViews \/ Desk!Tables \/ Desk!TableResource
    PROVE  DeskMove
<1> USE OneIsRow, SomeStatuses
<1>1. CASE Desk!Restaurants
    <2>1. CASE PlainScreen(1, {"draft"})
        <3>1. desk # "printer"
            BY <1>1 DEF Desk!Restaurants
        <3>2. QED
            BY <3>1, <2>1, PlainScreenMoves
    <2>2. CASE \E to \in {"active", "suspended", "closed"} : Desk!SetRestaurantStatus(to)
        <3>1. PICK to \in {"active", "suspended", "closed"} : Desk!SetRestaurantStatus(to)
            BY <2>2
        <3> DEFINE from == {s \in DOMAIN Desk!ValidTransitions : to \in Desk!ValidTransitions[s]}
        <3>2. Desk!Locked(1, from, to) /\ UNCHANGED moved
            BY <3>1 DEF Desk!SetRestaurantStatus
        <3>3. "closed" \notin from /\ to \in Statuses
            BY DEF Desk!ValidTransitions, Statuses
        <3>4. desk = "restaurant"
            BY <1>1 DEF Desk!Restaurants
        <3> HIDE DEF from
        <3>5. QED
            BY <3>2, <3>3, <3>4, LockedIsPatch DEF DeskMove, Documents
    <2>3. QED
        BY <1>1, <2>1, <2>2 DEF Desk!Restaurants, Desk!Screen, Desk!Change, Desk!Unchanged, PlainScreen
<1>2. CASE Desk!PrinterViews
    <2>1. PICK r \in Desk!Rows :
            \/ \E q \in Tabs : Desk!Compose(q, r) \/ Desk!Open(q, r) \/ Desk!TakeDefault(q, r) \/ Desk!SavePrinter(q, r)
            \/ Desk!Delete(r)
        BY <1>2 DEF Desk!PrinterViews
    <2>2. CASE Desk!Delete(r)
        BY <2>2, DeletedIsPatch DEF DeskMove
    <2>3. desk = "printer"
        BY <1>2 DEF Desk!PrinterViews
    <2>4. QED
        BY <2>1, <2>2, <2>3 DEF DeskMove, PrinterMove
<1>3. CASE Desk!Tables
    <2>1. desk = "table" /\ row[1].status # "closed"
        BY <1>3 DEF Desk!Tables, RowsProper, Proper
    <2>2. CASE Desk!Create(1, Desk!New("vacant"))
        BY <2>2, CreatedIsMove DEF DeskMove
    <2>3. CASE Desk!Locked(1, {"vacant"}, "occupied") /\ UNCHANGED moved
        BY <2>1, <2>3, LockedIsPatch DEF DeskMove, Documents, Statuses
    <2>4. CASE Desk!Locked(1, {"occupied"}, "vacant") /\ UNCHANGED moved
        BY <2>1, <2>4, LockedIsPatch DEF DeskMove, Documents, Statuses
    <2>5. CASE \E q \in Tabs : Desk!Open(q, 1)
        BY <2>5 DEF DeskMove
    <2>6. CASE \E q \in Tabs :
                 /\ Desk!Opened(q, 1) /\ opened[q].copy.status # "occupied"
                 /\ Desk!SaveAll(q, 1, [opened[q].copy EXCEPT !.deleted = TRUE])
                 /\ UNCHANGED crossed
        <3>1. PICK q \in Tabs :
                 /\ Desk!Opened(q, 1)
                 /\ Desk!SaveAll(q, 1, [opened[q].copy EXCEPT !.deleted = TRUE])
                 /\ UNCHANGED crossed
            BY <2>6
        <3>2. opened[q].copy \in DeskRow
            BY <3>1, OpenedForm, FormOf
        <3> DEFINE new == [opened[q].copy EXCEPT !.deleted = TRUE]
        <3>3. new \in DeskRow /\ Edit(opened[q].copy, new)
            BY <3>2, ToDeleted DEF Edit
        <3>4. QED
            BY <2>1, <3>1, <3>3 DEF SaveMove, DeskMove
    <2>7. QED
        BY <1>3, <2>2, <2>3, <2>4, <2>5, <2>6 DEF Desk!Tables
<1>4. CASE Desk!TableResource
    <2>1. desk = "table" /\ StatusScreen(1, {"vacant", "occupied"}, {"vacant", "occupied"})
        BY <1>4 DEF Desk!TableResource, Desk!Screen, Desk!Change, StatusScreen
    <2>2. QED
        BY <2>1, StatusScreenMoves DEF Documents
<1>5. QED
    BY <1>1, <1>2, <1>3, <1>4

LEMMA StepsAreMoves == DeskTyped /\ RowsProper /\ Desk!Next => DeskMove
BY StaffDesk, LeaveAndMenuDesk, StockDesk, RestaurantDesk DEF Desk!Next, DeskMove

LEMMA DeskCount == \A S : Desk!Cardinality(S) = Cardinality(S)
BY DEF Desk!Cardinality, Cardinality

LEMMA TwoOfRows ==
    \A s, t \in Desk!Rows : s # t => {s, t} = Desk!Rows /\ Cardinality(Desk!Rows) = 2
<1>1. Desk!Rows = {1, 2}
    BY DEF Desk!Rows
<1>2. Cardinality({1, 2}) = 2
    <2>1. IsFiniteSet({}) /\ Cardinality({}) = 0
        BY FS_EmptySet
    <2>2. IsFiniteSet({1}) /\ Cardinality({1}) = 1
        <3>1. {} \union {1} = {1} /\ 1 \notin {}
            OBVIOUS
        <3>2. QED
            BY <2>1, <3>1, FS_AddElement
    <2>3. {1} \union {2} = {1, 2} /\ 2 \notin {1}
        OBVIOUS
    <2>4. QED
        BY <2>2, <2>3, FS_AddElement
<1>3. QED
    BY <1>1, <1>2

\* What a write leaves in the rows and in what is known of them.
LEMMA Written ==
    ASSUME DeskTyped, NEW r \in Desk!Rows, NEW new \in DeskRow, Desk!Write(r, new), UNCHANGED desk
    PROVE  /\ row' \in [Desk!Rows -> DeskRow]
           /\ row'[r] = new /\ \A s \in Desk!Rows \ {r} : row'[s] = row[s]
           /\ \A s : <<s, "deleted">> \in ever' => <<s, "deleted">> \in ever \/ (s = r /\ new.deleted)
           /\ \A s : <<s, "closed">> \in ever' => <<s, "closed">> \in ever \/ (s = r /\ new.status = "closed")
           /\ desk = "warehouse" => \A s, t \in Desk!Rows : Default(s)' /\ Default(t)' => s = t
<1>1. row' = [row EXCEPT ![r] = new] /\ Desk!Permitted(row') /\ ever' = ever \union Desk!Facts(r, new)
    BY DEF Desk!Write
<1>2. row' \in [Desk!Rows -> DeskRow] /\ row'[r] = new /\ \A s \in Desk!Rows \ {r} : row'[s] = row[s]
    BY <1>1 DEF DeskTyped
<1>3. /\ \A s : <<s, "deleted">> \in ever' => <<s, "deleted">> \in ever \/ (s = r /\ new.deleted)
      /\ \A s : <<s, "closed">> \in ever' => <<s, "closed">> \in ever \/ (s = r /\ new.status = "closed")
    BY <1>1 DEF Desk!Facts
<1>4. ASSUME desk = "warehouse", NEW s \in Desk!Rows, NEW t \in Desk!Rows, Default(s)', Default(t)', s # t
      PROVE  FALSE
    <2> DEFINE alive == {u \in Desk!Rows : row'[u].here /\ ~row'[u].deleted}
    <2>1. s \in alive /\ t \in alive /\ row'[s].main /\ row'[t].main
        BY <1>4 DEF Default, Desk!Live
    <2>2. alive = Desk!Rows /\ Cardinality(alive) = 2
        BY <1>4, <2>1, TwoOfRows
    <2>3. Desk!Cardinality(alive) > 1 => \E u \in alive : ~row'[u].main
        BY <1>1, <1>4 DEF Desk!Permitted
    <2>4. Desk!Cardinality(alive) > 1
        <3> HIDE DEF alive
        <3>1. QED
            BY <2>2, DeskCount
    <2>5. PICK u \in alive : ~row'[u].main
        BY <2>3, <2>4
    <2>6. u = s \/ u = t
        BY <1>4, <2>5, TwoOfRows
    <2>7. QED
        BY <2>1, <2>5, <2>6
<1>5. QED
    BY <1>2, <1>3, <1>4

LEMMA Audited ==
    ASSUME DeskTyped, NEW r \in Desk!Rows, NEW copy \in DeskRow, NEW new \in DeskRow,
           Desk!Audit(r, copy, new)
    PROVE  /\ audited' \in [Desk!Rows -> DeskRow]
           /\ audited'[r] = Merge(copy, new, audited[r])
           /\ \A s \in Desk!Rows \ {r} : audited'[s] = audited[s]
<1>1. audited[r] \in DeskRow
    BY DEF DeskTyped
<1>2. [c \in Desk!Columns |-> IF new[c] # copy[c] THEN new[c] ELSE audited[r][c]]
        = Merge(copy, new, audited[r]) /\ Merge(copy, new, audited[r]) \in DeskRow
    BY <1>1, Merged
<1>3. audited' = [audited EXCEPT ![r] = Merge(copy, new, audited[r])]
    BY <1>2 DEF Desk!Audit
<1>4. QED
    BY <1>2, <1>3 DEF DeskTyped

\* A write of a row that takes back nothing keeps what is said of rows.
LEMMA WriteKeeps ==
    ASSUME DeskTyped, RowsProper, RowsKeep, UNCHANGED desk,
           NEW r \in Desk!Rows, NEW new \in DeskRow, Desk!Write(r, new), Proper(new),
           NEW copy \in DeskRow, NEW written \in DeskRow, Desk!Audit(r, copy, written),
           savedOver \subseteq savedOver', moved' \in [Desk!Rows -> Nat],
           \A s \in Desk!Rows \ {r} : moved'[s] = moved[s],
           r \notin savedOver' =>
               /\ new = Merge(copy, written, row[r])
               /\ row[r].deleted => new.deleted
               /\ row[r].status = "closed" => new.status = "closed"
               /\ moved[r] <= 1 /\ (moved[r] = 1 => desk \in Documents /\ row[r].status \notin {"none", "draft"})
                    => /\ moved'[r] <= 1
                       /\ moved'[r] = 1 => desk \in Documents /\ new.status \notin {"none", "draft"}
    PROVE  /\ row' \in [Desk!Rows -> DeskRow] /\ audited' \in [Desk!Rows -> DeskRow]
           /\ RowsProper' /\ RowsKeep'
<1>1. /\ row' \in [Desk!Rows -> DeskRow]
      /\ row'[r] = new /\ \A s \in Desk!Rows \ {r} : row'[s] = row[s]
      /\ \A s : <<s, "deleted">> \in ever' => <<s, "deleted">> \in ever \/ (s = r /\ new.deleted)
      /\ \A s : <<s, "closed">> \in ever' => <<s, "closed">> \in ever \/ (s = r /\ new.status = "closed")
    BY Written
<1>2. /\ audited' \in [Desk!Rows -> DeskRow]
      /\ audited'[r] = Merge(copy, written, audited[r])
      /\ \A s \in Desk!Rows \ {r} : audited'[s] = audited[s]
    BY Audited
<1>3. RowsProper'
    BY <1>1 DEF RowsProper, Proper
<1>4. ASSUME NEW s \in Desk!Rows \ savedOver' PROVE RowKeeps(s)'
    <2>1. s \in Desk!Rows \ savedOver /\ RowKeeps(s)
        BY <1>4 DEF RowsKeep
    <2>2. CASE s # r
        BY <1>1, <1>2, <2>1, <2>2 DEF RowKeeps
    <2>3. CASE s = r
        <3>1. row'[r] = audited'[r]
            BY <1>1, <1>2, <1>4, <2>1, <2>3 DEF RowKeeps
        <3>2. <<r, "deleted">> \in ever' => new.deleted
            BY <1>1, <1>4, <2>1, <2>3 DEF RowKeeps
        <3>3. <<r, "closed">> \in ever' => new.status = "closed"
            BY <1>1, <1>4, <2>1, <2>3 DEF RowKeeps
        <3>4. moved'[r] <= 1 /\ (moved'[r] = 1 => desk \in Documents /\ new.status \notin {"none", "draft"})
            BY <1>4, <2>1, <2>3 DEF RowKeeps
        <3>5. QED
            BY <1>1, <2>3, <3>1, <3>2, <3>3, <3>4 DEF RowKeeps
    <2>4. QED
        BY <2>2, <2>3
<1>5. QED
    BY <1>1, <1>2, <1>3, <1>4 DEF RowsKeep

LEMMA FormsAfter ==
    ASSUME DeskTyped, FormsProper, UNCHANGED desk, NEW q \in Tabs, Desk!Finish(q) \/ UNCHANGED opened
    PROVE  opened' \in [Tabs -> {Desk!Idle} \union Forms] /\ FormsProper'
<1>1. /\ opened' \in [Tabs -> {Desk!Idle} \union Forms]
      /\ \A p \in Tabs : opened'[p] = opened[p] \/ opened'[p] = Desk!Idle
    BY DEF DeskTyped, Desk!Finish
<1>2. QED
    BY <1>1 DEF FormsProper, Proper

LEMMA CreateKeeps == DeskInv /\ CreateMove => DeskInv'
<1> SUFFICES ASSUME DeskInv, CreateMove PROVE DeskInv'
    OBVIOUS
<1> USE DEF DeskInv
<1>1. PICK r \in Desk!Rows, new \in DeskRow : Born(new) /\ Desk!Create(r, new)
    BY DEF CreateMove
<1>2. /\ ~row[r].here /\ Desk!Write(r, new) /\ Desk!Audit(r, Desk!NoRow, new)
      /\ UNCHANGED <<desk, opened, savedOver, moved, crossed>>
    BY <1>1 DEF Desk!Create
<1>3. Desk!NoRow \in DeskRow /\ row[r] = Desk!NoRow
    BY <1>2 DEF Desk!NoRow, DeskRow, Statuses, RowsProper, Proper
<1>4. ~row[r].deleted /\ row[r].status = "none"
    BY <1>3 DEF Desk!NoRow
<1>5. Proper(new) /\ new = Merge(Desk!NoRow, new, row[r])
    BY <1>1, <1>3, MergeAll DEF Born, Proper
<1>6. row' \in [Desk!Rows -> DeskRow] /\ audited' \in [Desk!Rows -> DeskRow] /\ RowsProper' /\ RowsKeep'
    <2>1. /\ savedOver \subseteq savedOver' /\ moved' \in [Desk!Rows -> Nat]
          /\ \A s \in Desk!Rows : moved'[s] = moved[s]
        BY <1>2 DEF DeskTyped
    <2>2. moved[r] \in Nat /\ (moved[r] = 1 => row[r].status \notin {"none", "draft"}) /\ moved[r] <= 1 => moved[r] = 0
        BY <1>4 DEF DeskTyped
    <2>3. QED
        BY <1>2, <1>3, <1>4, <1>5, <2>1, <2>2, WriteKeeps
<1>7. DeskTyped' /\ FormsProper'
    BY <1>2, <1>6 DEF DeskTyped, FormsProper, Proper
<1>8. OneDefault'
    <2>1. /\ row'[r] = new /\ \A s \in Desk!Rows \ {r} : row'[s] = row[s]
          /\ desk = "warehouse" => \A s, t \in Desk!Rows : Default(s)' /\ Default(t)' => s = t
        BY <1>2, Written
    <2>2. desk = "printer" => \A s \in Desk!Rows : Default(s)' => Default(s)
        BY <1>1, <2>1 DEF Default, Desk!Live, Born
    <2>3. QED
        BY <1>2, <2>1, <2>2 DEF OneDefault
<1>9. QED
    BY <1>6, <1>7, <1>8

LEMMA SaveKeeps == DeskInv /\ SaveMove => DeskInv'
<1> SUFFICES ASSUME DeskInv, SaveMove PROVE DeskInv'
    OBVIOUS
<1> USE DEF DeskInv
<1>1. PICK q \in Tabs, r \in Desk!Rows, new \in DeskRow :
        /\ desk # "printer" /\ Desk!Opened(q, r) /\ Edit(opened[q].copy, new)
        /\ Desk!SaveAll(q, r, new) /\ UNCHANGED crossed
    BY DEF SaveMove
<1>2. PICK copy \in DeskRow : copy = opened[q].copy
    BY <1>1, OpenedForm, FormOf
<1>3. /\ Desk!Write(r, new) /\ Desk!Audit(r, copy, new) /\ Desk!Finish(q)
      /\ savedOver' = IF row[r] = copy THEN savedOver ELSE savedOver \union {r}
      /\ UNCHANGED <<desk, moved, crossed>>
    BY <1>1, <1>2 DEF Desk!SaveAll
<1>4. Proper(copy) /\ copy.here /\ Edit(copy, new)
    BY <1>1, <1>2, OpenedForm DEF FormsProper
<1>5. Proper(new)
    BY <1>4 DEF Proper, Edit
<1>6. row' \in [Desk!Rows -> DeskRow] /\ audited' \in [Desk!Rows -> DeskRow] /\ RowsProper' /\ RowsKeep'
    <2>1. /\ savedOver \subseteq savedOver' /\ moved' \in [Desk!Rows -> Nat]
          /\ \A s \in Desk!Rows : moved'[s] = moved[s]
        BY <1>3 DEF DeskTyped
    <2>2. r \notin savedOver' =>
               /\ new = Merge(copy, new, row[r])
               /\ row[r].deleted => new.deleted
               /\ row[r].status = "closed" => new.status = "closed"
               /\ desk \in Documents => new.status = row[r].status
        <3>1. r \notin savedOver' => row[r] = copy
            BY <1>3
        <3>2. row[r] = copy /\ row[r].status = "closed" => desk = "restaurant"
            BY <1>4 DEF Proper
        <3>3. QED
            BY <1>4, <3>1, <3>2, MergeAll DEF Edit
    <2>3. QED
        BY <1>3, <1>5, <2>1, <2>2, WriteKeeps
<1>7. DeskTyped' /\ FormsProper'
    BY <1>3, <1>6, FormsAfter DEF DeskTyped
<1>8. OneDefault'
    BY <1>1, <1>3, Written DEF OneDefault
<1>9. QED
    BY <1>6, <1>7, <1>8

LEMMA PatchKeeps == DeskInv /\ PatchMove => DeskInv'
<1> SUFFICES ASSUME DeskInv, PatchMove PROVE DeskInv'
    OBVIOUS
<1> USE DEF DeskInv
<1>1. PICK r \in Desk!Rows, new \in DeskRow :
        /\ Desk!Live(r) /\ Served(row[r], new) /\ StockMoves(r, new)
        /\ Desk!SaveSome(r, row[r], new) /\ UNCHANGED opened
    BY DEF PatchMove
<1>2. row[r] \in DeskRow
    BY DEF DeskTyped
<1>3. Desk!Write(r, new) /\ Desk!Audit(r, row[r], new) /\ UNCHANGED <<desk, savedOver, crossed, opened>>
    BY <1>1, <1>2, Merged, MergeAll DEF Desk!SaveSome
<1>4. Proper(new) /\ new = Merge(row[r], new, row[r])
    BY <1>1, <1>2, MergeAll DEF RowsProper, Proper, Served, Desk!Live
<1>5. /\ moved' \in [Desk!Rows -> Nat] /\ \A s \in Desk!Rows \ {r} : moved'[s] = moved[s]
      /\ moved[r] <= 1 /\ (moved[r] = 1 => desk \in Documents /\ row[r].status \notin {"none", "draft"})
            => /\ moved'[r] <= 1
               /\ moved'[r] = 1 => desk \in Documents /\ new.status \notin {"none", "draft"}
    <2>1. moved \in [Desk!Rows -> Nat] /\ moved[r] \in Nat
        BY DEF DeskTyped
    <2>2. CASE UNCHANGED moved /\ (desk \in Documents /\ row[r].status \notin {"none", "draft"}
                                     => new.status \notin {"none", "draft"})
        BY <2>1, <2>2
    <2>3. CASE /\ desk \in Documents /\ row[r].status = "draft" /\ new.status \notin {"none", "draft"}
               /\ moved' = [moved EXCEPT ![r] = @ + 1]
        BY <2>1, <2>3
    <2>4. QED
        BY <1>1, <2>2, <2>3 DEF StockMoves
<1>6. row' \in [Desk!Rows -> DeskRow] /\ audited' \in [Desk!Rows -> DeskRow] /\ RowsProper' /\ RowsKeep'
    <2>1. savedOver \subseteq savedOver'
        BY <1>3
    <2>2. (row[r].deleted => new.deleted) /\ (row[r].status = "closed" => new.status = "closed")
        BY <1>1 DEF Served
    <2>3. QED
        BY <1>2, <1>3, <1>4, <1>5, <2>1, <2>2, WriteKeeps
<1>7. DeskTyped' /\ FormsProper'
    BY <1>3, <1>5, <1>6 DEF DeskTyped, FormsProper, Proper
<1>8. OneDefault'
    <2>1. /\ row'[r] = new /\ \A s \in Desk!Rows \ {r} : row'[s] = row[s]
          /\ desk = "warehouse" => \A s, t \in Desk!Rows : Default(s)' /\ Default(t)' => s = t
        BY <1>3, Written
    <2>2. \A s \in Desk!Rows : Default(s)' => Default(s)
        BY <1>1, <2>1 DEF Default, Desk!Live, Served
    <2>3. QED
        BY <1>3, <2>1, <2>2 DEF OneDefault
<1>9. QED
    BY <1>6, <1>7, <1>8

LEMMA ToggleKeeps == DeskInv /\ ToggleMove => DeskInv'
<1> SUFFICES ASSUME DeskInv, ToggleMove PROVE DeskInv'
    OBVIOUS
<1> USE DEF DeskInv
<1>1. PICK q \in Tabs, new \in DeskRow :
        /\ desk = "menu" /\ Desk!Opened(q, 2) /\ row[2].here
        /\ new.status # "closed" /\ new.here = opened[q].copy.here
        /\ new.deleted = opened[q].copy.deleted /\ new.main = opened[q].copy.main
        /\ Desk!SaveSome(2, opened[q].copy, new) /\ Desk!Finish(q) /\ UNCHANGED moved
    BY DEF ToggleMove
<1>2. PICK copy \in DeskRow : copy = opened[q].copy
    BY <1>1, OpenedForm, FormOf
<1>3. PICK old \in DeskRow : old = row[2]
    BY OneIsRow DEF DeskTyped
<1>4. PICK into \in DeskRow : into = Merge(copy, new, old)
    BY Merged
<1>5. /\ Desk!Write(2, into) /\ Desk!Audit(2, copy, new) /\ Desk!Finish(q)
      /\ UNCHANGED <<desk, savedOver, crossed, moved>>
    BY <1>1, <1>2, <1>3, <1>4, Merged DEF Desk!SaveSome
<1>6. into.here = old.here /\ into.deleted = old.deleted /\ into.main = old.main
      /\ into.status \in {new.status, old.status}
    BY <1>1, <1>2, <1>4 DEF Merge
<1>7. Proper(old) /\ Proper(into) /\ old.status # "closed"
    BY <1>1, <1>3, <1>6, OneIsRow DEF RowsProper, Proper
<1>8. row' \in [Desk!Rows -> DeskRow] /\ audited' \in [Desk!Rows -> DeskRow] /\ RowsProper' /\ RowsKeep'
    <2>1. /\ savedOver \subseteq savedOver' /\ moved' \in [Desk!Rows -> Nat]
          /\ \A s \in Desk!Rows : moved'[s] = moved[s]
        BY <1>5 DEF DeskTyped
    <2>2. desk \notin Documents
        BY <1>1 DEF Documents
    <2>3. QED
        BY <1>3, <1>4, <1>5, <1>6, <1>7, <2>1, <2>2, OneIsRow, WriteKeeps
<1>9. DeskTyped' /\ FormsProper'
    BY <1>5, <1>8, FormsAfter DEF DeskTyped
<1>10. OneDefault'
    BY <1>1, <1>5 DEF OneDefault
<1>11. QED
    BY <1>8, <1>9, <1>10

LEMMA OpenKeeps ==
    ASSUME DeskInv, NEW q \in Tabs, NEW r \in Desk!Rows, Desk!Open(q, r)
    PROVE  DeskInv'
<1> USE DEF DeskInv
<1>1. /\ Desk!Live(r)
      /\ opened' = [opened EXCEPT ![q] = [step |-> "open", at |-> r, copy |-> row[r]]]
      /\ UNCHANGED <<desk, row, audited, savedOver, ever, moved, crossed>>
    BY DEF Desk!Open
<1>2. row[r] \in DeskRow /\ Proper(row[r]) /\ row[r].here
    BY <1>1 DEF DeskTyped, RowsProper, Desk!Live
<1>3. PICK page \in Forms : page = [step |-> "open", at |-> r, copy |-> row[r]]
    BY <1>2 DEF Forms
<1>4. page.step = "open" /\ page.copy = row[r] /\ page.at = r
    BY <1>3
<1>5. /\ opened' \in [Tabs -> {Desk!Idle} \union Forms] /\ opened'[q] = page
      /\ \A p \in Tabs \ {q} : opened'[p] = opened[p]
    BY <1>1, <1>3 DEF DeskTyped
<1>6. FormsProper'
    BY <1>1, <1>2, <1>4, <1>5 DEF FormsProper, Proper
<1>7. OneDefault'
    BY <1>1, <1>4, <1>5 DEF OneDefault, Default, Desk!Live
<1>8. QED
    BY <1>1, <1>5, <1>6, <1>7 DEF DeskTyped, RowsProper, Proper, RowsKeep, RowKeeps

LEMMA GiveUpKeeps ==
    ASSUME DeskInv, NEW q \in Tabs, Desk!GiveUp(q)
    PROVE  DeskInv'
<1> USE DEF DeskInv
<1>1. Desk!Finish(q) /\ UNCHANGED <<desk, row, audited, savedOver, ever, moved, crossed>>
    BY DEF Desk!GiveUp
<1>2. opened' \in [Tabs -> {Desk!Idle} \union Forms] /\ FormsProper'
    BY <1>1, FormsAfter
<1>3. \A p \in Tabs : opened'[p] = opened[p] \/ opened'[p] = Desk!Idle
    BY <1>1 DEF Desk!Finish, DeskTyped
<1>4. OneDefault'
    BY <1>1, <1>3 DEF OneDefault, Default, Desk!Live, Desk!Idle
<1>5. QED
    BY <1>1, <1>2, <1>4 DEF DeskTyped, RowsProper, Proper, RowsKeep, RowKeeps

LEMMA PrinterKeeps == DeskInv /\ PrinterMove => DeskInv'
<1> SUFFICES ASSUME DeskInv, PrinterMove PROVE DeskInv'
    OBVIOUS
<1> USE DEF DeskInv
<1>p. desk = "printer"
    BY DEF PrinterMove
<1>n. /\ Desk!NoRow \in DeskRow /\ ~Desk!NoRow.main /\ Desk!NoRow.status # "closed"
      /\ Proper(Desk!NoRow)
    BY DEF Desk!NoRow, DeskRow, Statuses, Proper
<1>1. ASSUME NEW q \in Tabs, NEW r \in Desk!Rows, Desk!Compose(q, r) PROVE DeskInv'
    <2>1. /\ opened' = [opened EXCEPT ![q] = [step |-> "open", at |-> r, copy |-> Desk!NoRow]]
          /\ UNCHANGED <<desk, row, audited, savedOver, ever, moved, crossed>>
        BY <1>1 DEF Desk!Compose
    <2>2. PICK page \in Forms : page = [step |-> "open", at |-> r, copy |-> Desk!NoRow]
        BY <1>n DEF Forms
    <2>3. page.step = "open" /\ page.copy = Desk!NoRow
        BY <2>2
    <2>4. /\ opened' \in [Tabs -> {Desk!Idle} \union Forms] /\ opened'[q] = page
          /\ \A p \in Tabs \ {q} : opened'[p] = opened[p]
        BY <2>1, <2>2 DEF DeskTyped
    <2>5. FormsProper'
        BY <1>p, <1>n, <2>1, <2>3, <2>4 DEF FormsProper, Proper
    <2>6. OneDefault'
        BY <2>1, <2>3, <2>4 DEF OneDefault, Default, Desk!Live
    <2>7. QED
        BY <2>1, <2>4, <2>5, <2>6 DEF DeskTyped, RowsProper, Proper, RowsKeep, RowKeeps
<1>2. ASSUME NEW q \in Tabs, NEW r \in Desk!Rows, Desk!TakeDefault(q, r) PROVE DeskInv'
    <2> DEFINE others == {s \in Desk!Rows \ {r} : Desk!Live(s) /\ row[s].main}
    <2>1. /\ opened[q].step = "open" /\ opened[q].at = r
          /\ row' = [s \in Desk!Rows |-> IF s \in others THEN [row[s] EXCEPT !.main = FALSE] ELSE row[s]]
          /\ savedOver' = savedOver \union others
          /\ opened' = [opened EXCEPT ![q].step = "taken"]
          /\ UNCHANGED <<desk, audited, ever, moved, crossed>>
        BY <1>2 DEF Desk!TakeDefault
    <2>2. opened[q] \in Forms /\ opened[q] # Desk!Idle
        BY <2>1, FormOf DEF Desk!Idle
    <2>3. PICK page \in Forms : page = [opened[q] EXCEPT !.step = "taken"]
        BY <2>2 DEF Forms
    <2>4. page.step = "taken" /\ page.at = r /\ page.copy = opened[q].copy
        BY <2>1, <2>2, <2>3 DEF Forms
    <2>5. /\ opened' \in [Tabs -> {Desk!Idle} \union Forms] /\ opened'[q] = page
          /\ \A p \in Tabs \ {q} : opened'[p] = opened[p]
        <3>1. opened' = [opened EXCEPT ![q] = page]
            BY <2>1, <2>3
        <3>2. QED
            BY <3>1 DEF DeskTyped
    <2>6. FormsProper'
        <3>1. Proper(page.copy)
            BY <2>2, <2>4 DEF FormsProper
        <3>2. QED
            BY <1>p, <2>1, <2>4, <2>5, <3>1 DEF FormsProper, Proper
    <2>7. \A s \in Desk!Rows : row[s] \in DeskRow /\ [row[s] EXCEPT !.main = FALSE] \in DeskRow
              /\ [row[s] EXCEPT !.main = FALSE].here = row[s].here
              /\ [row[s] EXCEPT !.main = FALSE].deleted = row[s].deleted
              /\ [row[s] EXCEPT !.main = FALSE].status = row[s].status
              /\ ~[row[s] EXCEPT !.main = FALSE].main
        BY ToMain DEF DeskTyped
    <2>8. \A s \in Desk!Rows : row'[s] = IF s \in others THEN [row[s] EXCEPT !.main = FALSE] ELSE row[s]
        BY <2>1
    <2> HIDE DEF others
    <2>9. row' \in [Desk!Rows -> DeskRow]
        BY <2>1, <2>7
    <2>10. RowsProper'
        <3> SUFFICES ASSUME NEW s \in Desk!Rows PROVE Proper(row[s])'
            BY DEF RowsProper
        <3>1. CASE s \in others
            <4>1. row[s].here
                BY <3>1 DEF others, Desk!Live
            <4>2. QED
                BY <2>1, <2>7, <2>8, <3>1, <4>1 DEF RowsProper, Proper
        <3>2. CASE s \notin others
            BY <2>1, <2>8, <3>2 DEF RowsProper, Proper
        <3>3. QED
            BY <3>1, <3>2
    <2>11. RowsKeep'
        BY <2>1, <2>8 DEF RowsKeep, RowKeeps
    <2>12. \A s \in Desk!Rows : Default(s)' => Default(s) /\ s = r
        BY <2>7, <2>8 DEF Default, Desk!Live, others
    <2>13. OneDefault'
        BY <1>p, <2>1, <2>4, <2>5, <2>12 DEF OneDefault
    <2>14. QED
        BY <2>1, <2>5, <2>6, <2>9, <2>10, <2>11, <2>13 DEF DeskTyped
<1>3. ASSUME NEW q \in Tabs, NEW r \in Desk!Rows, Desk!SavePrinter(q, r) PROVE DeskInv'
    <2>1. PICK main \in BOOLEAN : main = (opened[q].step = "taken")
        OBVIOUS
    <2>2. opened[q] # Desk!Idle /\ opened[q].at = r
        BY <1>3 DEF Desk!SavePrinter
    <2>3. PICK copy \in DeskRow : copy = opened[q].copy
        BY <2>2, FormOf
    <2>4. PICK new : new = [copy EXCEPT !.here = TRUE, !.status = "on", !.main = main]
        OBVIOUS
    <2>5. new \in DeskRow /\ new.here /\ new.status = "on" /\ new.main = main /\ new.deleted = copy.deleted
        BY <2>4 DEF DeskRow, Statuses
    <2>6. /\ Desk!SaveAll(q, r, new)
          /\ crossed' = (crossed \/ (main /\ \E p \in Tabs \ {q} : opened[p].step = "taken"))
        BY <1>3, <2>1, <2>3, <2>4 DEF Desk!SavePrinter
    <2>7. /\ Desk!Write(r, new) /\ Desk!Audit(r, copy, new) /\ Desk!Finish(q)
          /\ savedOver' = IF row[r] = copy THEN savedOver ELSE savedOver \union {r}
          /\ UNCHANGED <<desk, moved>>
        BY <2>3, <2>6 DEF Desk!SaveAll
    <2>8. Proper(new) /\ Proper(copy)
        BY <1>p, <2>2, <2>3, <2>5 DEF Proper, FormsProper
    <2>9. row' \in [Desk!Rows -> DeskRow] /\ audited' \in [Desk!Rows -> DeskRow] /\ RowsProper' /\ RowsKeep'
        <3>1. /\ savedOver \subseteq savedOver' /\ moved' \in [Desk!Rows -> Nat]
              /\ \A s \in Desk!Rows : moved'[s] = moved[s]
            BY <2>7 DEF DeskTyped
        <3>2. r \notin savedOver' =>
               /\ new = Merge(copy, new, row[r])
               /\ row[r].deleted => new.deleted
               /\ row[r].status # "closed"
            <4>1. r \notin savedOver' => row[r] = copy
                BY <2>7
            <4>2. copy.status # "closed"
                BY <1>p, <2>8 DEF Proper
            <4>3. QED
                BY <2>5, <4>1, <4>2, MergeAll
        <3>3. desk \notin Documents
            BY <1>p DEF Documents
        <3>4. QED
            BY <2>5, <2>7, <2>8, <3>1, <3>2, <3>3, WriteKeeps
    <2>10. opened' \in [Tabs -> {Desk!Idle} \union Forms] /\ FormsProper'
        BY <2>7, FormsAfter
    <2>11. DeskTyped'
        BY <2>6, <2>7, <2>9, <2>10 DEF DeskTyped
    <2>12. OneDefault'
        <3>1. row'[r] = new /\ \A s \in Desk!Rows \ {r} : row'[s] = row[s]
            BY <2>5, <2>7, Written
        <3>2. opened'[q] = Desk!Idle /\ \A p \in Tabs \ {q} : opened'[p] = opened[p]
            BY <2>7 DEF Desk!Finish, DeskTyped
        <3>3. \A s \in Desk!Rows \ {r} : Default(s)' <=> Default(s)
            BY <3>1 DEF Default, Desk!Live
        <3>4. Default(r)' => main = TRUE
            BY <2>5, <3>1 DEF Default
        <3>5. SUFFICES ASSUME ~crossed'
                       PROVE  /\ \A t, s \in Desk!Rows : Default(t)' /\ Default(s)' => t = s
                              /\ \A p \in Tabs, s \in Desk!Rows :
                                   opened'[p].step = "taken" /\ Default(s)' => opened'[p].at = s
            BY <1>p, <2>7 DEF OneDefault
        <3>6. ~crossed /\ (main = TRUE => \A p \in Tabs \ {q} : opened[p].step # "taken")
            BY <2>6, <3>5
        <3>7. CASE main = TRUE
            <4>1. \A s \in Desk!Rows : Default(s) => s = r
                BY <1>p, <2>1, <2>2, <3>6, <3>7 DEF OneDefault
            <4>2. \A p \in Tabs : opened'[p].step # "taken"
                BY <3>2, <3>6, <3>7 DEF Desk!Idle
            <4>3. QED
                BY <3>3, <4>1, <4>2
        <3>8. CASE main = FALSE
            <4>1. \A s \in Desk!Rows : Default(s)' => Default(s)
                BY <3>3, <3>4, <3>8
            <4>2. \A p \in Tabs : opened'[p].step = "taken" => opened[p].step = "taken" /\ opened'[p].at = opened[p].at
                BY <3>2 DEF Desk!Idle
            <4>3. QED
                BY <1>p, <3>6, <4>1, <4>2 DEF OneDefault
        <3>9. QED
            BY <3>7, <3>8
    <2>13. QED
        BY <2>9, <2>10, <2>11, <2>12
<1>4. QED
    BY <1>1, <1>2, <1>3 DEF PrinterMove

LEMMA DeskNext == DeskInv /\ [Desk!Next]_deskVars => DeskInv'
<1>1. DeskInv /\ Desk!Next => DeskInv'
    BY StepsAreMoves, CreateKeeps, SaveKeeps, PatchKeeps, ToggleKeeps, PrinterKeeps, OpenKeeps,
       GiveUpKeeps DEF DeskInv, DeskMove
<1>2. DeskInv /\ UNCHANGED deskVars => DeskInv'
    BY DEF deskVars, DeskInv, DeskTyped, RowsProper, Proper, FormsProper, RowsKeep, RowKeeps,
           OneDefault, Default, Desk!Live
<1>3. QED
    BY <1>1, <1>2

LEMMA DeskRecordsKeep == DeskInv => Desk!RecordsKeep
<1> SUFFICES ASSUME DeskInv PROVE Desk!RecordsKeep
    OBVIOUS
<1> USE DEF DeskInv
<1>1. \A r \in Desk!Rows \ savedOver : RowKeeps(r)
    BY DEF RowsKeep
<1> DEFINE holders == {r \in Desk!Rows : Desk!Live(r) /\ row[r].main}
<1>2. desk \notin {"warehouse", "printer"} => holders = {}
    BY DEF RowsProper, Proper
<1>3. ~crossed => \A r, s \in holders : r = s
    BY <1>2 DEF OneDefault, Default
<1>4. ASSUME ~crossed PROVE ~(Desk!Cardinality(holders) > 1)
    <2>1. CASE holders = {}
        BY <2>1, DeskCount, FS_EmptySet
    <2>2. CASE \E r : holders = {r}
        <3>1. PICK r : holders = {r}
            BY <2>2
        <3>2. Cardinality(holders) = 1
            BY <3>1, FS_Singleton
        <3> HIDE DEF holders
        <3>3. QED
            BY <3>2, DeskCount
    <2>3. QED
        BY <1>3, <1>4, <2>1, <2>2
<1>5. Desk!Cardinality(holders) > 1 => crossed
    BY <1>4
<1>6. QED
    BY <1>1, <1>5 DEF Desk!RecordsKeep, RowKeeps

-----------------------------------------------------------------------------
(* Stock records: for any number of requests, and any quantities and costs, *)
(* while records are created, moved, saved over, deleted and reconciled.    *)

LEMMA Division ==
    \A t \in Nat, n \in Nat \ {0} :
        /\ t \div n \in Nat /\ t % n \in 0..(n - 1)
        /\ t = n * (t \div n) + (t % n)
OBVIOUS

LEMMA ProductMonotone == \A a, b, n \in Nat : a <= b => a * n <= b * n /\ n * a <= n * b
<1> SUFFICES ASSUME NEW a \in Nat, NEW b \in Nat, NEW n \in Nat, a <= b
             PROVE  a * n <= b * n /\ n * a <= n * b
    OBVIOUS
<1>1. PICK k \in Nat : b = a + k
    OBVIOUS
<1>2. k * n \in Nat /\ a * n \in Nat /\ n * a = a * n /\ n * b = b * n
    OBVIOUS
<1>3. b * n = a * n + k * n
    BY <1>1
<1>4. QED
    BY <1>2, <1>3

LEMMA Between ==
    ASSUME NEW n \in Nat \ {0}, NEW lo \in Nat, NEW d \in Nat, NEW rest \in 0..(n - 1)
    PROVE  /\ lo * n <= n * d + rest => lo <= d
           /\ n * d + rest <= lo * n => d <= lo
           /\ n * d + rest <= lo * n /\ rest > 0 => d + 1 <= lo
<1>1. (d + 1) * n = n * d + n /\ n * d \in Nat /\ lo * n \in Nat /\ d * n = n * d
    OBVIOUS
<1>2. d + 1 <= lo => (d + 1) * n <= lo * n
    BY ProductMonotone
<1>3. lo <= d => lo * n <= d * n
    BY ProductMonotone
<1>4. lo >= d + 1 => lo * n >= n * d + n
    BY <1>1, <1>2
<1>5. ASSUME lo * n <= n * d + rest PROVE lo <= d
    BY <1>1, <1>4, <1>5
<1>6. ASSUME n * d + rest <= lo * n PROVE d <= lo
    <2>1. SUFFICES ASSUME lo <= d - 1, d >= 1 PROVE FALSE
        OBVIOUS
    <2>2. lo * n <= (d - 1) * n /\ d - 1 \in Nat
        BY <2>1, ProductMonotone
    <2>3. (d - 1) * n = n * d - n
        BY <2>1
    <2>4. QED
        BY <1>1, <1>6, <2>2, <2>3
<1>7. ASSUME n * d + rest <= lo * n, rest > 0 PROVE d + 1 <= lo
    BY <1>1, <1>3, <1>7
<1>8. QED
    BY <1>5, <1>6, <1>7

\* A rounded quotient lies between bounds of the exact one.
LEMMA QuantizeBetween ==
    ASSUME NEW t \in Nat, NEW n \in Nat \ {0}, NEW lo \in Nat, NEW hi \in Nat,
           lo * n <= t, t <= hi * n
    PROVE  Shelf!Quantize(t, n) \in Nat /\ lo <= Shelf!Quantize(t, n) /\ Shelf!Quantize(t, n) <= hi
<1>1. PICK d \in Nat, rest \in 0..(n - 1) : d = t \div n /\ rest = t % n /\ t = n * d + rest
    BY Division
<1>2. lo <= d /\ d <= hi /\ (rest > 0 => d + 1 <= hi)
    BY <1>1, Between
<1>3. Shelf!Quantize(t, n) = IF 2 * rest < n \/ (2 * rest = n /\ d % 2 = 0) THEN d ELSE d + 1
    BY <1>1 DEF Shelf!Quantize
<1>4. ~(2 * rest < n) => rest > 0
    OBVIOUS
<1>5. QED
    BY <1>2, <1>3, <1>4

\* The new average lies between the old one and the cost that came in.
LEMMA AverageBetween ==
    ASSUME NEW old \in Int, NEW cost \in Nat, NEW q \in Nat \ {0}, NEW c \in Nat,
           NEW lo \in Nat, NEW hi \in Nat, lo <= c, c <= hi,
           old > 0 => lo <= cost /\ cost <= hi
    PROVE  Shelf!Average(old, cost, q, c) \in lo..hi
<1>1. CASE old <= 0
    BY <1>1 DEF Shelf!Average
<1>2. CASE old > 0
    <2>1. PICK n \in Nat \ {0} : n = old + q
        BY <1>2
    <2>2. lo * old <= cost * old /\ cost * old <= hi * old /\ lo * q <= c * q /\ c * q <= hi * q
        BY <1>2, ProductMonotone
    <2>3. lo * n = lo * old + lo * q /\ hi * n = hi * old + hi * q
        BY <1>2, <2>1
    <2>4. old * cost = cost * old /\ q * c = c * q
        BY <1>2
    <2>5. /\ cost * old \in Nat /\ c * q \in Nat /\ lo * old \in Nat /\ lo * q \in Nat
          /\ hi * old \in Nat /\ hi * q \in Nat
        BY <1>2
    <2>6. PICK t \in Nat : t = old * cost + q * c
        BY <2>4, <2>5
    <2>7. lo * n <= t /\ t <= hi * n
        BY <2>2, <2>3, <2>4, <2>5, <2>6
    <2>8. Shelf!Average(old, cost, q, c) = Shelf!Quantize(t, n)
        BY <1>2, <2>1, <2>6 DEF Shelf!Average
    <2>9. QED
        BY <2>7, <2>8, QuantizeBetween
<1>3. QED
    BY <1>1, <1>2

LEMMA ShelfSteps == PlatformSpec => Shelf!Init /\ [][Shelf!Next]_shelfVars
<1>1. PlatformInit => Shelf!Init
    BY DEF PlatformInit
<1>2. [PlatformNext]_<<part, accessVars, configVars, bindingVars, noticeVars, clubVars, leavingVars,
                       recordVars, bookVars, deskVars, shelfVars, countVars>>
      => [Shelf!Next]_shelfVars
    BY DEF PlatformNext, shelfVars
<1>3. QED
    BY <1>1, <1>2, Behaviour, PTL

StockRow ==
    [live : BOOLEAN, new : {FALSE}, qty : Int, cost : Nat, floor : Floors \union {0}, active : BOOLEAN]
OrderStatus == {"draft", "partially_received", "received"}
PlacedOrder == [status : OrderStatus, row : StockRows, ordered : Nat, cost : Costs, got : Nat]

\* What a request may have in hand.
Wanted == [step : {"find", "insert"}, row : {NoStockRow}, qty : Quantities \union {0}, cost : Costs]
Created == [step : {"opening", "link"}, row : StockRows, qty : Quantities \union {0}, cost : Costs]
RecordCopy == [step : {"record"}, row : StockRows, copy : StockRow]
LotCopy == [step : {"lot"}, row : StockRows, copy : Nat]
OrderCopy == [step : {"order"}, row : StockRows, copy : OrderStatus]
Balance == [step : {"balance"}, row : StockRows, qty : Int, then : Int]
Told == [step : {"told"}, row : StockRows, discrepancy : Int, disturbed : BOOLEAN]
InHand == {Shelf!Idle} \union Wanted \union Created \union RecordCopy \union LotCopy
              \union OrderCopy \union Balance \union Told

ShelfTyped ==
    /\ record \in [StockRows -> {Shelf!Fresh} \union StockRow]
    /\ lot \in [StockRows -> Int]
    /\ order \in {Shelf!NoOrder} \union PlacedOrder
    /\ hand \in [Hands -> InHand]
    /\ sums \in [StockRows -> [all : Int, lot : Int]]
    /\ costs \in [StockRows -> SUBSET Nat]
    /\ asked \in [StockRows -> Floors \union {0}]

\* The average lies between two of the costs that came in, and all of them do.
Averaged(cost, qty, S) ==
    \/ S = {} /\ cost = 0 /\ qty <= 0
    \/ \E lo, hi \in S : lo <= cost /\ cost <= hi /\ \A c \in S : lo <= c /\ c <= hi

\* Nothing is known of a row that no record took yet; a record no stale copy was saved
\* over agrees with its ledger, its costs and the level last asked for.
RecordSound(i) ==
    /\ record[i] = Shelf!Fresh => sums[i].all = 0 /\ costs[i] = {} /\ asked[i] = 0
    /\ record[i] # Shelf!Fresh /\ <<"record", i>> \notin recopied =>
         /\ record[i].qty = sums[i].all /\ record[i].floor = asked[i]
         /\ Averaged(record[i].cost, record[i].qty, costs[i])

LotSound(i) ==
    <<"lot", i>> \notin recopied => sums[i].lot = IF lot[i] >= 0 THEN lot[i] ELSE 0

OrderSound ==
    /\ order # Shelf!NoOrder /\ <<"order", order.row>> \notin recopied /\ order.got > 0 =>
        order.status = Shelf!StatusAfter(order.got)

HandSound(r) ==
    LET h == hand[r] IN
    /\ h.step \in {"opening", "link", "record", "balance", "told"} => record[h.row] # Shelf!Fresh
    /\ h.step = "record" => h.copy.live
    /\ h.step = "lot" => lot[h.row] >= 0
    /\ h.step = "order" => order # Shelf!NoOrder
    /\ h.step = "balance" => h.qty = h.then \/ <<"record", h.row>> \in recopied
    /\ h.step = "told" => h.discrepancy = 0 \/ h.disturbed \/ <<"record", h.row>> \in recopied

OneLive == \A i, j \in StockRows : record[i].live /\ record[j].live => i = j

\* The live record is the product's, unless a request is still at it or broke off.
InCreation(i) == \E r \in Hands : hand[r].step \in {"opening", "link"} /\ hand[r].row = i
LiveLinked ==
    \A i \in StockRows :
        record[i].live /\ <<"record", i>> \notin recopied =>
            InCreation(i) \/ i \in loose \/ linked = i \/ linked \in loose

ShelfInv ==
    /\ ShelfTyped
    /\ \A i \in StockRows : RecordSound(i) /\ LotSound(i)
    /\ OrderSound
    /\ \A r \in Hands : HandSound(r)
    /\ OneLive /\ LiveLinked

LEMMA WithQty ==
    \A x \in StockRow, n \in Int :
        LET y == [x EXCEPT !.qty = n] IN
        y \in StockRow /\ y.live = x.live /\ y.qty = n /\ y.cost = x.cost /\ y.floor = x.floor
BY DEF StockRow

LEMMA WithQtyAndCost ==
    \A x \in StockRow, n \in Int, c \in Nat :
        LET y == [x EXCEPT !.qty = n, !.cost = c] IN
        y \in StockRow /\ y.live = x.live /\ y.qty = n /\ y.cost = c /\ y.floor = x.floor
BY DEF StockRow

LEMMA NewRecordIs ==
    /\ Shelf!NewRecord \in StockRow /\ Shelf!NewRecord # Shelf!Fresh /\ Shelf!NewRecord.live
    /\ Shelf!NewRecord.qty = 0 /\ Shelf!NewRecord.cost = 0 /\ Shelf!NewRecord.floor = 0
    /\ [Shelf!NewRecord EXCEPT !.qty = 1] \in StockRow
    /\ [Shelf!NewRecord EXCEPT !.qty = 1] # Shelf!Fresh
    /\ [Shelf!NewRecord EXCEPT !.qty = 1].qty = 1 /\ [Shelf!NewRecord EXCEPT !.qty = 1].cost = 0
    /\ [Shelf!NewRecord EXCEPT !.qty = 1].floor = 0
    /\ ~Shelf!Fresh.live /\ Shelf!Fresh.new
<1>1. Shelf!NewRecord.new = FALSE /\ [Shelf!NewRecord EXCEPT !.qty = 1].new = FALSE /\ Shelf!Fresh.new = TRUE
    BY DEF Shelf!NewRecord, Shelf!Fresh
<1>2. Shelf!NewRecord # Shelf!Fresh /\ [Shelf!NewRecord EXCEPT !.qty = 1] # Shelf!Fresh
    BY <1>1
<1>3. Shelf!NewRecord \in StockRow
    BY DEF StockRow, Shelf!NewRecord
<1>4. /\ Shelf!NewRecord.qty = 0 /\ Shelf!NewRecord.cost = 0 /\ Shelf!NewRecord.floor = 0
      /\ Shelf!NewRecord.live
    BY DEF Shelf!NewRecord
<1>5. [Shelf!NewRecord EXCEPT !.qty = 1] \in StockRow
    BY <1>3, WithQty
<1>6. /\ [Shelf!NewRecord EXCEPT !.qty = 1].qty = 1 /\ [Shelf!NewRecord EXCEPT !.qty = 1].cost = 0
      /\ [Shelf!NewRecord EXCEPT !.qty = 1].floor = 0
    BY <1>3, <1>4, WithQty
<1>7. ~Shelf!Fresh.live /\ Shelf!Fresh.new
    BY DEF Shelf!Fresh
<1>8. QED
    BY <1>2, <1>3, <1>4, <1>5, <1>6, <1>7

LEMMA RecordIs ==
    \A x \in {Shelf!Fresh} \union StockRow :
        /\ x.live => x \in StockRow
        /\ x \in StockRow <=> ~x.new
        /\ x = Shelf!Fresh <=> x.new
        /\ x \in StockRow <=> x # Shelf!Fresh
        /\ x \in StockRow => x.live \in BOOLEAN /\ x.qty \in Int /\ x.cost \in Nat
<1>1. Shelf!Fresh.live = FALSE /\ Shelf!Fresh.new = TRUE
    BY DEF Shelf!Fresh
<1>2. \A x \in StockRow : x.new = FALSE /\ x.live \in BOOLEAN /\ x.qty \in Int /\ x.cost \in Nat
    BY DEF StockRow
<1>3. QED
    BY <1>1, <1>2

LEMMA ShelfInit == Shelf!Init => ShelfInv
<1> SUFFICES ASSUME Shelf!Init PROVE ShelfInv
    OBVIOUS
<1>1. PICK first :
        /\ \A i, j \in first : i = j
        /\ record = [i \in StockRows |->
                        IF i \in first THEN [Shelf!NewRecord EXCEPT !.qty = 1] ELSE Shelf!Fresh]
        /\ lot = [i \in StockRows |-> IF i \in first THEN 1 ELSE -1]
        /\ linked = IF first = {} THEN NoStockRow ELSE CHOOSE i \in first : TRUE
        /\ sums = [i \in StockRows |->
                     IF i \in first THEN [all |-> 1, lot |-> 1] ELSE [all |-> 0, lot |-> 0]]
        /\ costs = [i \in StockRows |-> IF i \in first THEN {0} ELSE {}]
    <2> DEFINE least == CHOOSE i \in StockRows : \A j \in StockRows : i <= j
    <2>1. PICK first \in {{}, {least}} :
            /\ record = [i \in StockRows |->
                            IF i \in first THEN [Shelf!NewRecord EXCEPT !.qty = 1] ELSE Shelf!Fresh]
            /\ lot = [i \in StockRows |-> IF i \in first THEN 1 ELSE -1]
            /\ linked = IF first = {} THEN NoStockRow ELSE CHOOSE i \in first : TRUE
            /\ sums = [i \in StockRows |->
                         IF i \in first THEN [all |-> 1, lot |-> 1] ELSE [all |-> 0, lot |-> 0]]
            /\ costs = [i \in StockRows |-> IF i \in first THEN {0} ELSE {}]
        BY Zenon DEF Shelf!Init
    <2>2. \A i, j \in first : i = j
        OBVIOUS
    <2>3. QED
        BY <2>1, <2>2
<1>2. /\ order = Shelf!NoOrder /\ hand = [r \in Hands |-> Shelf!Idle]
      /\ asked = [i \in StockRows |-> 0] /\ recopied = {}
    BY DEF Shelf!Init
<1>3. ShelfTyped
    <2>1. record \in [StockRows -> {Shelf!Fresh} \union StockRow]
        BY <1>1, NewRecordIs
    <2>2. lot \in [StockRows -> Int] /\ sums \in [StockRows -> [all : Int, lot : Int]]
          /\ costs \in [StockRows -> SUBSET Nat]
        BY <1>1
    <2>3. QED
        BY <1>2, <2>1, <2>2 DEF ShelfTyped, InHand
<1>4. ASSUME NEW i \in StockRows PROVE RecordSound(i) /\ LotSound(i)
    <2>1. CASE i \in first
        <3>1. record[i] = [Shelf!NewRecord EXCEPT !.qty = 1] /\ lot[i] = 1 /\ sums[i].all = 1 /\ sums[i].lot = 1
              /\ costs[i] = {0} /\ asked[i] = 0
            BY <1>1, <1>2, <2>1
        <3>2. record[i] # Shelf!Fresh /\ record[i].qty = 1 /\ record[i].cost = 0 /\ record[i].floor = 0
            BY <3>1, NewRecordIs
        <3>3. QED
            BY <3>1, <3>2 DEF RecordSound, LotSound, Averaged
    <2>2. CASE i \notin first
        BY <1>1, <1>2, <2>2 DEF RecordSound, LotSound
    <2>3. QED
        BY <2>1, <2>2
<1>5. OrderSound /\ \A r \in Hands : HandSound(r)
    BY <1>2 DEF OrderSound, HandSound, Shelf!Idle
<1>6. \A i \in StockRows : record[i].live => i \in first
    BY <1>1, NewRecordIs
<1>7. OneLive /\ LiveLinked
    BY <1>1, <1>6 DEF OneLive, LiveLinked
<1>8. QED
    BY <1>3, <1>4, <1>5, <1>7 DEF ShelfInv

LEMMA AverageIn ==
    \A old \in Int, cost \in Nat, q \in Int, c \in Nat, lo \in Nat, hi \in Nat :
        q > 0 /\ lo <= c /\ c <= hi /\ (old > 0 => lo <= cost /\ cost <= hi)
            => Shelf!Average(old, cost, q, c) \in lo..hi
<1> SUFFICES ASSUME NEW old \in Int, NEW cost \in Nat, NEW q \in Int, NEW c \in Nat,
                    NEW lo \in Nat, NEW hi \in Nat,
                    q > 0, lo <= c, c <= hi, old > 0 => lo <= cost /\ cost <= hi
             PROVE  Shelf!Average(old, cost, q, c) \in lo..hi
    OBVIOUS
<1>1. q \in Nat \ {0}
    OBVIOUS
<1>2. QED
    BY <1>1, AverageBetween

LEMMA LedgerWith ==
    \A u \in [all : Int, lot : Int], a, b \in Int :
        LET v == [u EXCEPT !.all = a, !.lot = b] IN
        v \in [all : Int, lot : Int] /\ v.all = a /\ v.lot = b
OBVIOUS

\* The average, and the costs it is one of, after a movement of a record.
CostAfter(x, q, c) == IF q > 0 /\ c > 0 THEN Shelf!Average(x.qty, x.cost, q, c) ELSE x.cost
CostsAfter(x, S, q, c) == IF q > 0 /\ (c > 0 \/ x.cost = 0) THEN S \union {c} ELSE S

LEMMA CostAfterNat ==
    ASSUME NEW x \in StockRow, NEW q \in Int, NEW c \in Nat
    PROVE  CostAfter(x, q, c) \in Nat
<1>1. x.qty \in Int /\ x.cost \in Nat
    BY DEF StockRow
<1>2. CASE q > 0 /\ c > 0
    <2> DEFINE lo == IF x.cost <= c THEN x.cost ELSE c
               hi == IF x.cost <= c THEN c ELSE x.cost
    <2>1. lo \in Nat /\ hi \in Nat /\ lo <= c /\ c <= hi /\ lo <= x.cost /\ x.cost <= hi
        BY <1>1
    <2> HIDE DEF lo, hi
    <2>2. Shelf!Average(x.qty, x.cost, q, c) \in lo..hi
        BY <1>1, <1>2, <2>1, AverageIn
    <2>3. QED
        BY <1>2, <2>1, <2>2 DEF CostAfter
<1>3. CASE ~(q > 0 /\ c > 0)
    BY <1>1, <1>3 DEF CostAfter
<1>4. QED
    BY <1>2, <1>3

\* A movement of a live record: its row, its ledger and its costs, and no other row's.
LEMMA PostIs ==
    ASSUME ShelfTyped, NEW i \in StockRows, record[i].live, NEW q \in Int, NEW c \in Nat,
           NEW tracked \in BOOLEAN, Shelf!Post(i, q, c, tracked)
    PROVE  /\ record' \in [StockRows -> {Shelf!Fresh} \union StockRow]
           /\ record'[i] \in StockRow /\ record'[i].live = record[i].live
           /\ record'[i].qty = record[i].qty + q /\ record'[i].cost = CostAfter(record[i], q, c)
           /\ record'[i].floor = record[i].floor
           /\ sums' \in [StockRows -> [all : Int, lot : Int]]
           /\ sums'[i].all = sums[i].all + q
           /\ sums'[i].lot = IF tracked THEN sums[i].lot + q ELSE sums[i].lot
           /\ costs' \in [StockRows -> SUBSET Nat]
           /\ costs'[i] = CostsAfter(record[i], costs[i], q, c)
           /\ \A j \in StockRows \ {i} :
                record'[j] = record[j] /\ sums'[j] = sums[j] /\ costs'[j] = costs[j]
<1>1. record[i] \in StockRow /\ sums[i] \in [all : Int, lot : Int] /\ costs[i] \in SUBSET Nat
    BY RecordIs DEF ShelfTyped
<1>2. PICK old \in StockRow : old = record[i]
    BY <1>1
<1>3. old.qty \in Int /\ old.qty + q \in Int
    BY DEF StockRow
<1>4. PICK cost \in Nat : cost = CostAfter(old, q, c)
    BY CostAfterNat
<1>5. PICK y \in StockRow :
        /\ y = [old EXCEPT !.qty = old.qty + q, !.cost = cost]
        /\ y.live = old.live /\ y.qty = old.qty + q /\ y.cost = cost /\ y.floor = old.floor
    <2>1. [old EXCEPT !.qty = old.qty + q, !.cost = cost] \in StockRow
        BY <1>3, WithQtyAndCost
    <2>2. PICK y \in StockRow : y = [old EXCEPT !.qty = old.qty + q, !.cost = cost]
        BY <2>1
    <2>3. y.live = old.live /\ y.qty = old.qty + q /\ y.cost = cost /\ y.floor = old.floor
        BY <1>3, <2>2 DEF StockRow
    <2>4. QED
        BY <2>2, <2>3
<1>6. record' = [record EXCEPT ![i] = y]
    <2>1. record' = [record EXCEPT ![i] = [old EXCEPT !.qty = old.qty + q, !.cost = CostAfter(old, q, c)]]
        BY <1>2 DEF Shelf!Post, ShelfTyped, CostAfter
    <2>2. QED
        BY <1>4, <1>5, <2>1
<1>7. PICK u \in [all : Int, lot : Int] : u = sums[i]
    BY <1>1
<1>8. PICK b \in Int : b = IF tracked THEN u.lot + q ELSE u.lot
    BY <1>7
<1>9. PICK v \in [all : Int, lot : Int] :
        v = [u EXCEPT !.all = u.all + q, !.lot = b] /\ v.all = u.all + q /\ v.lot = b
    <2>1. u.all + q \in Int
        OBVIOUS
    <2>2. QED
        <3>1. [u EXCEPT !.all = u.all + q, !.lot = b] \in [all : Int, lot : Int]
            BY <2>1, LedgerWith
        <3>2. PICK v \in [all : Int, lot : Int] : v = [u EXCEPT !.all = u.all + q, !.lot = b]
            BY <3>1
        <3>3. v.all = u.all + q /\ v.lot = b
            BY <2>1, <3>2, LedgerWith
        <3>4. QED
            BY <3>2, <3>3
<1>10. sums' = [sums EXCEPT ![i] = v]
    BY <1>7, <1>8, <1>9 DEF Shelf!Post, ShelfTyped
<1>11. CostsAfter(old, costs[i], q, c) \in SUBSET Nat
    BY <1>1 DEF CostsAfter
<1>12. costs' = [costs EXCEPT ![i] = CostsAfter(old, costs[i], q, c)]
    BY <1>2 DEF Shelf!Post, ShelfTyped, CostsAfter
<1>13. /\ record' \in [StockRows -> {Shelf!Fresh} \union StockRow] /\ record'[i] = y
       /\ sums' \in [StockRows -> [all : Int, lot : Int]] /\ sums'[i] = v
       /\ costs' \in [StockRows -> SUBSET Nat] /\ costs'[i] = CostsAfter(old, costs[i], q, c)
       /\ \A j \in StockRows \ {i} : record'[j] = record[j] /\ sums'[j] = sums[j] /\ costs'[j] = costs[j]
    BY <1>6, <1>10, <1>11, <1>12 DEF ShelfTyped
<1>14. QED
    BY <1>2, <1>4, <1>5, <1>7, <1>8, <1>9, <1>13

LEMMA PostKeeps ==
    ASSUME ShelfTyped, \A j \in StockRows : RecordSound(j), NEW i \in StockRows, record[i].live,
           NEW q \in Int, NEW c \in Nat, NEW tracked \in BOOLEAN, Shelf!Post(i, q, c, tracked),
           UNCHANGED <<asked, recopied>>
    PROVE  /\ record' \in [StockRows -> {Shelf!Fresh} \union StockRow]
           /\ sums' \in [StockRows -> [all : Int, lot : Int]]
           /\ costs' \in [StockRows -> SUBSET Nat]
           /\ \A j \in StockRows :
                /\ RecordSound(j)'
                /\ record'[j].live = record[j].live
                /\ record'[j] = Shelf!Fresh <=> record[j] = Shelf!Fresh
                /\ sums'[j].lot = IF j = i /\ tracked THEN sums[j].lot + q ELSE sums[j].lot
<1>1. PICK old \in StockRow : old = record[i]
    BY RecordIs DEF ShelfTyped
<1>2. PICK cost \in Nat, S \in SUBSET Nat : cost = CostAfter(old, q, c) /\ S = CostsAfter(old, costs[i], q, c)
    <2>1. CostsAfter(old, costs[i], q, c) \in SUBSET Nat
        BY DEF CostsAfter, ShelfTyped
    <2>2. QED
        BY <2>1, CostAfterNat
<1>3. old.qty \in Int /\ old.cost \in Nat /\ old # Shelf!Fresh /\ old.floor \in Floors \union {0}
      /\ old.live \in BOOLEAN /\ old.active \in BOOLEAN
    BY RecordIs DEF StockRow
<1>4. costs[i] \in SUBSET Nat /\ sums[i].all \in Int /\ sums[i].lot \in Int
    BY DEF ShelfTyped
<1>5. cost \in Nat /\ (<<"record", i>> \notin recopied => Averaged(cost, old.qty + q, S))
    <2>1. CASE q > 0 /\ c > 0
        <3>1. cost = Shelf!Average(old.qty, old.cost, q, c) /\ S = costs[i] \union {c} /\ c \in S
            BY <1>2, <2>1 DEF CostAfter, CostsAfter
        <3>3. ASSUME <<"record", i>> \notin recopied PROVE Averaged(cost, old.qty + q, S)
            <4>1. Averaged(old.cost, old.qty, costs[i])
                BY <1>1, <1>3, <3>3 DEF RecordSound
            <4>2. CASE costs[i] = {} /\ old.qty <= 0
                <5>1. Shelf!Average(old.qty, old.cost, q, c) \in c..c
                    BY <1>3, <4>2 DEF Shelf!Average
                <5>2. cost = c /\ S = {c}
                    BY <3>1, <4>2, <5>1
                <5>3. QED
                    BY <5>2 DEF Averaged
            <4>3. CASE \E lo, hi \in costs[i] :
                          lo <= old.cost /\ old.cost <= hi /\ \A x \in costs[i] : lo <= x /\ x <= hi
                <5>1. PICK lo, hi \in costs[i] :
                          lo <= old.cost /\ old.cost <= hi /\ \A x \in costs[i] : lo <= x /\ x <= hi
                    BY <4>3
                <5>2. lo \in Nat /\ hi \in Nat
                    BY <1>4
                <5> DEFINE least == IF lo <= c THEN lo ELSE c
                           most == IF hi <= c THEN c ELSE hi
                <5>3. /\ least \in Nat /\ most \in Nat /\ least <= c /\ c <= most
                      /\ least <= lo /\ hi <= most
                      /\ least <= old.cost /\ old.cost <= most
                    BY <1>3, <5>1, <5>2
                <5>4. least \in S /\ most \in S
                    BY <3>1, <5>1
                <5>5. \A x \in S : least <= x /\ x <= most
                    <6>1. \A x \in costs[i] : x \in Nat /\ lo <= x /\ x <= hi
                        BY <1>4, <5>1
                    <6> HIDE DEF least, most
                    <6>2. QED
                        BY <3>1, <5>2, <5>3, <6>1
                <5> HIDE DEF least, most
                <5>6. cost \in least..most
                    BY <1>3, <2>1, <3>1, <5>3, AverageIn
                <5>7. QED
                    BY <5>3, <5>4, <5>5, <5>6 DEF Averaged
            <4>4. QED
                BY <4>1, <4>2, <4>3 DEF Averaged
        <3>4. QED
            BY <3>3
    <2>2. CASE q > 0 /\ c = 0
        <3>1. cost = old.cost /\ S = IF old.cost = 0 THEN costs[i] \union {0} ELSE costs[i]
            BY <1>2, <2>2 DEF CostAfter, CostsAfter
        <3>2. ASSUME <<"record", i>> \notin recopied PROVE Averaged(cost, old.qty + q, S)
            <4>1. Averaged(old.cost, old.qty, costs[i])
                BY <1>1, <1>3, <3>2 DEF RecordSound
            <4>2. CASE costs[i] = {} /\ old.cost = 0
                <5>1. cost = 0 /\ S = {0}
                    BY <3>1, <4>2
                <5>2. QED
                    BY <5>1 DEF Averaged
            <4>3. CASE \E lo, hi \in costs[i] :
                          lo <= old.cost /\ old.cost <= hi /\ \A x \in costs[i] : lo <= x /\ x <= hi
                <5>1. PICK lo, hi \in costs[i] :
                          lo <= old.cost /\ old.cost <= hi /\ \A x \in costs[i] : lo <= x /\ x <= hi
                    BY <4>3
                <5>2. CASE old.cost = 0
                    <6>1. lo = 0 /\ hi \in Nat
                        BY <1>4, <5>1, <5>2
                    <6>2. S = costs[i] /\ cost = old.cost
                        BY <3>1, <5>1, <5>2, <6>1
                    <6>3. QED
                        BY <5>1, <6>2 DEF Averaged
                <5>3. CASE old.cost # 0
                    BY <3>1, <5>1, <5>3 DEF Averaged
                <5>4. QED
                    BY <5>2, <5>3
            <4>4. QED
                BY <4>1, <4>2, <4>3 DEF Averaged
        <3>3. QED
            BY <1>3, <3>1, <3>2
    <2>3. CASE ~(q > 0)
        <3>1. cost = old.cost /\ S = costs[i] /\ (old.qty <= 0 => old.qty + q <= 0)
            BY <1>2, <1>3, <2>3 DEF CostAfter, CostsAfter
        <3>2. QED
            BY <1>1, <1>3, <3>1 DEF RecordSound, Averaged
    <2>4. QED
        BY <2>1, <2>2, <2>3
<1>6. PICK y \in StockRow : y = record'[i]
    BY PostIs
<1>7. /\ y.live = old.live /\ y.qty = old.qty + q /\ y.cost = cost /\ y.floor = old.floor /\ y # Shelf!Fresh
      /\ sums'[i].all = sums[i].all + q
      /\ sums'[i].lot = IF tracked THEN sums[i].lot + q ELSE sums[i].lot
      /\ costs'[i] = S
    BY <1>1, <1>2, <1>6, PostIs, RecordIs
<1>8. \A j \in StockRows \ {i} : record'[j] = record[j] /\ sums'[j] = sums[j] /\ costs'[j] = costs[j]
    BY PostIs
<1>9. /\ record' \in [StockRows -> {Shelf!Fresh} \union StockRow]
      /\ sums' \in [StockRows -> [all : Int, lot : Int]] /\ costs' \in [StockRows -> SUBSET Nat]
    BY PostIs
<1>10. RecordSound(i)'
    <2>1. ASSUME <<"record", i>> \notin recopied
          PROVE  y.qty = sums'[i].all /\ y.floor = asked[i] /\ Averaged(y.cost, y.qty, S)
        BY <1>1, <1>3, <1>5, <1>7, <2>1 DEF RecordSound
    <2>2. QED
        BY <1>6, <1>7, <2>1 DEF RecordSound
<1>11. \A j \in StockRows \ {i} : RecordSound(j)'
    BY <1>8 DEF RecordSound
<1>12. QED
    BY <1>1, <1>3, <1>6, <1>7, <1>8, <1>9, <1>10, <1>11

LEMMA HandIs ==
    \A h \in InHand :
        /\ h.step \in {"find", "insert"} => h \in Wanted
        /\ h.step \in {"opening", "link"} => h \in Created
        /\ h.step = "record" => h \in RecordCopy
        /\ h.step = "lot" => h \in LotCopy
        /\ h.step = "order" => h \in OrderCopy
        /\ h.step = "balance" => h \in Balance
        /\ h.step = "told" => h \in Told
BY DEF InHand, Shelf!Idle, Wanted, Created, RecordCopy, LotCopy, OrderCopy, Balance, Told

LEMMA LiveIs == \A i : i \in Shelf!Live <=> i \in StockRows /\ record[i].live
BY DEF Shelf!Live

LEMMA IdleIs == Shelf!Idle \in InHand /\ Shelf!Idle.step = "idle"
BY DEF InHand, Shelf!Idle

LEMMA StartsIs ==
    ASSUME ShelfTyped, NEW r \in Hands, NEW h \in InHand, Shelf!Starts(r, h)
    PROVE  /\ hand' \in [Hands -> InHand] /\ hand'[r] = h /\ hand[r].step = "idle"
           /\ \A p \in Hands \ {r} : hand'[p] = hand[p]
BY IdleIs DEF Shelf!Starts, ShelfTyped

LEMMA EndsIs ==
    ASSUME ShelfTyped, NEW r \in Hands, Shelf!Ends(r)
    PROVE  /\ hand' \in [Hands -> InHand] /\ hand'[r].step = "idle"
           /\ \A p \in Hands \ {r} : hand'[p] = hand[p]
BY IdleIs DEF Shelf!Ends, ShelfTyped

LEMMA GoesIs ==
    ASSUME ShelfTyped, NEW r \in Hands, hand[r].step = "opening", Shelf!Goes(r, "link")
    PROVE  /\ hand' \in [Hands -> InHand] /\ hand'[r].step = "link" /\ hand'[r].row = hand[r].row
           /\ \A p \in Hands \ {r} : hand'[p] = hand[p]
<1>1. PICK h \in Created : h = hand[r]
    BY HandIs DEF ShelfTyped
<1>2. PICK k : k = [h EXCEPT !.step = "link"]
    OBVIOUS
<1>3. k \in Created /\ k.step = "link" /\ k.row = h.row
    BY <1>2 DEF Created
<1>4. hand' = [hand EXCEPT ![r] = k]
    BY <1>1, <1>2 DEF Shelf!Goes, ShelfTyped
<1>5. QED
    BY <1>1, <1>3, <1>4 DEF ShelfTyped, InHand

\* What a request has in hand stays right while rows stay, batches stay, and the order.
RowsStay ==
    /\ \A j \in StockRows : record[j] # Shelf!Fresh => record'[j] # Shelf!Fresh
    /\ \A j \in StockRows : lot[j] >= 0 => lot'[j] >= 0
    /\ order # Shelf!NoOrder => order' # Shelf!NoOrder
    /\ recopied \subseteq recopied'

LEMMA HandKept ==
    ASSUME ShelfTyped, NEW r \in Hands, HandSound(r), hand'[r] = hand[r], RowsStay
    PROVE  HandSound(r)'
<1>1. PICK h \in InHand : h = hand[r]
    BY DEF ShelfTyped
<1>2. h.step \in {"opening", "link", "record", "lot", "balance", "told"} => h.row \in StockRows
    BY HandIs DEF Created, RecordCopy, LotCopy, Balance, Told
<1>3. QED
    BY <1>1, <1>2 DEF HandSound, RowsStay

LEMMA IdleSound == \A r \in Hands : hand[r].step \in {"idle", "find", "insert"} => HandSound(r)
BY DEF HandSound

\* The product stays linked while no row becomes live and no creation is forgotten.
LEMMA LinkedKept ==
    ASSUME LiveLinked, UNCHANGED linked, loose \subseteq loose',
           \A i \in StockRows :
              record'[i].live /\ <<"record", i>> \notin recopied' =>
                  record[i].live /\ <<"record", i>> \notin recopied,
           \A i \in StockRows : InCreation(i) => InCreation(i)' \/ i \in loose'
    PROVE  LiveLinked'
BY DEF LiveLinked

LEMMA CreationKept ==
    ASSUME NEW r \in Hands, \A p \in Hands \ {r} : hand'[p] = hand[p],
           hand[r].step \in {"opening", "link"} =>
               \/ hand'[r].step \in {"opening", "link"} /\ hand'[r].row = hand[r].row
               \/ hand[r].row \in loose'
    PROVE  \A i \in StockRows : InCreation(i) => InCreation(i)' \/ i \in loose'
BY DEF InCreation

\* A step that changes only what one request has in hand.
LEMMA HandStep ==
    ASSUME ShelfInv, NEW r \in Hands, hand' \in [Hands -> InHand],
           \A p \in Hands \ {r} : hand'[p] = hand[p], HandSound(r)',
           UNCHANGED <<record, lot, linked, order, sums, costs, asked, recopied>>,
           loose \subseteq loose',
           hand[r].step \in {"opening", "link"} =>
               \/ hand'[r].step \in {"opening", "link"} /\ hand'[r].row = hand[r].row
               \/ hand[r].row \in loose'
    PROVE  ShelfInv'
<1> USE DEF ShelfInv
<1>1. ShelfTyped'
    BY DEF ShelfTyped
<1>2. \A i \in StockRows : RecordSound(i)' /\ LotSound(i)'
    BY DEF RecordSound, LotSound
<1>3. OrderSound' /\ OneLive'
    BY DEF OrderSound, OneLive, Shelf!StatusAfter
<1>4. RowsStay
    BY DEF RowsStay
<1>5. \A p \in Hands : HandSound(p)'
    BY <1>4, HandKept
<1>6. LiveLinked'
    BY CreationKept, LinkedKept
<1>7. QED
    BY <1>1, <1>2, <1>3, <1>5, <1>6

LEMMA AskStep ==
    ASSUME ShelfInv, NEW r \in Hands, NEW q \in Quantities \union {0}, NEW c \in Costs, NEW screen,
           Shelf!AskForRecord(r, q, c, screen)
    PROVE  ShelfInv'
<1> DEFINE h == [step |-> "find", row |-> NoStockRow, qty |-> q, cost |-> c]
<1>1. h \in InHand /\ h.step = "find"
    BY DEF InHand, Wanted
<1> HIDE DEF h
<1>2. Shelf!Starts(r, h) /\ UNCHANGED <<record, lot, linked, order, sums, costs, asked, recopied, loose>>
    BY DEF Shelf!AskForRecord, h
<1>3. /\ hand' \in [Hands -> InHand] /\ hand'[r].step = "find" /\ hand[r].step = "idle"
      /\ \A p \in Hands \ {r} : hand'[p] = hand[p]
    BY <1>1, <1>2, StartsIs DEF ShelfInv
<1>4. HandSound(r)'
    BY <1>3 DEF HandSound
<1>5. QED
    BY <1>2, <1>3, <1>4, HandStep

LEMMA FindStep ==
    ASSUME ShelfInv, NEW r \in Hands, Shelf!FindRecord(r)
    PROVE  ShelfInv'
<1>1. hand[r].step = "find" /\ UNCHANGED <<record, lot, linked, order, sums, costs, asked, recopied, loose>>
    BY DEF Shelf!FindRecord
<1>2. PICK h \in Wanted : h = hand[r]
    BY <1>1, HandIs DEF ShelfInv, ShelfTyped
<1>3. CASE Shelf!Live = {} /\ Shelf!Goes(r, "insert")
    <2>1. PICK k : k = [h EXCEPT !.step = "insert"]
        OBVIOUS
    <2>2. k \in Wanted /\ k.step = "insert"
        BY <2>1 DEF Wanted
    <2>3. hand' = [hand EXCEPT ![r] = k]
        BY <1>2, <1>3, <2>1 DEF Shelf!Goes, ShelfInv, ShelfTyped
    <2>4. /\ hand' \in [Hands -> InHand] /\ hand'[r] = k
          /\ \A p \in Hands \ {r} : hand'[p] = hand[p]
        BY <2>2, <2>3 DEF ShelfInv, ShelfTyped, InHand
    <2>5. HandSound(r)'
        BY <2>2, <2>4 DEF HandSound
    <2>6. QED
        BY <1>1, <2>4, <2>5, HandStep
<1>4. CASE \E i \in Shelf!Live : hand' = [hand EXCEPT ![r].row = i, ![r].step = "opening"]
    <2>1. PICK i \in StockRows : record[i].live /\ hand' = [hand EXCEPT ![r].row = i, ![r].step = "opening"]
        BY <1>4, LiveIs
    <2>2. PICK k : k = [h EXCEPT !.row = i, !.step = "opening"]
        OBVIOUS
    <2>3. k \in Created /\ k.step = "opening" /\ k.row = i
        BY <2>2 DEF Wanted, Created
    <2>4. hand' = [hand EXCEPT ![r] = k]
        BY <1>2, <2>1, <2>2 DEF ShelfInv, ShelfTyped
    <2>5. /\ hand' \in [Hands -> InHand] /\ hand'[r] = k
          /\ \A p \in Hands \ {r} : hand'[p] = hand[p]
        BY <2>3, <2>4 DEF ShelfInv, ShelfTyped, InHand
    <2>6. record[i] # Shelf!Fresh
        BY <2>1, NewRecordIs
    <2>7. HandSound(r)'
        BY <1>1, <2>3, <2>5, <2>6 DEF HandSound
    <2>8. QED
        BY <1>1, <2>5, <2>7, HandStep
<1>5. QED
    BY <1>3, <1>4 DEF Shelf!FindRecord

LEMMA BreakStep ==
    ASSUME ShelfInv, NEW r \in Hands, Shelf!BreaksOff(r)
    PROVE  ShelfInv'
<1>1. /\ hand[r].step \in {"opening", "link"} /\ loose' = loose \union {hand[r].row} /\ Shelf!Ends(r)
      /\ UNCHANGED <<record, lot, linked, order, sums, costs, asked, recopied>>
    BY DEF Shelf!BreaksOff
<1>2. /\ hand' \in [Hands -> InHand] /\ hand'[r].step = "idle"
      /\ \A p \in Hands \ {r} : hand'[p] = hand[p]
    BY <1>1, EndsIs DEF ShelfInv
<1>3. HandSound(r)'
    BY <1>2 DEF HandSound
<1>4. QED
    BY <1>1, <1>2, <1>3, HandStep

LEMMA InsertStep ==
    ASSUME ShelfInv, NEW r \in Hands, Shelf!InsertRecord(r)
    PROVE  ShelfInv'
<1>1. hand[r].step = "insert" /\ UNCHANGED <<lot, linked, order, sums, costs, asked, recopied, loose>>
    BY DEF Shelf!InsertRecord
<1>2. CASE Shelf!Ends(r) /\ UNCHANGED record
    <2>1. /\ hand' \in [Hands -> InHand] /\ hand'[r].step = "idle"
          /\ \A p \in Hands \ {r} : hand'[p] = hand[p]
        BY <1>2, EndsIs DEF ShelfInv
    <2>2. HandSound(r)'
        BY <2>1 DEF HandSound
    <2>3. QED
        BY <1>1, <1>2, <2>1, <2>2, HandStep
<1>3. CASE /\ Shelf!Live = {}
           /\ \E i \in StockRows :
               /\ record[i] = Shelf!Fresh /\ record' = [record EXCEPT ![i] = Shelf!NewRecord]
               /\ hand' = [hand EXCEPT ![r].row = i, ![r].step = "opening"]
    <2>1. PICK i \in StockRows :
               /\ record[i] = Shelf!Fresh /\ record' = [record EXCEPT ![i] = Shelf!NewRecord]
               /\ hand' = [hand EXCEPT ![r].row = i, ![r].step = "opening"]
        BY <1>3
    <2>2. PICK h \in Wanted : h = hand[r]
        BY <1>1, HandIs DEF ShelfInv, ShelfTyped
    <2>3. PICK k : k = [h EXCEPT !.row = i, !.step = "opening"]
        OBVIOUS
    <2>4. k \in Created /\ k.step = "opening" /\ k.row = i
        BY <2>3 DEF Wanted, Created
    <2>5. hand' = [hand EXCEPT ![r] = k]
        BY <2>1, <2>2, <2>3 DEF ShelfInv, ShelfTyped
    <2>6. /\ hand' \in [Hands -> InHand] /\ hand'[r] = k
          /\ \A p \in Hands \ {r} : hand'[p] = hand[p]
        BY <2>4, <2>5 DEF ShelfInv, ShelfTyped, InHand
    <2>7. /\ record' \in [StockRows -> {Shelf!Fresh} \union StockRow] /\ record'[i] = Shelf!NewRecord
          /\ \A j \in StockRows \ {i} : record'[j] = record[j]
        BY <2>1, NewRecordIs DEF ShelfInv, ShelfTyped
    <2>8. ShelfTyped'
        BY <1>1, <2>6, <2>7 DEF ShelfInv, ShelfTyped
    <2>9. RecordSound(i)'
        <3>1. sums[i].all = 0 /\ costs[i] = {} /\ asked[i] = 0
            BY <2>1 DEF ShelfInv, RecordSound
        <3>2. QED
            BY <1>1, <2>7, <3>1, NewRecordIs DEF RecordSound, Averaged
    <2>10. \A j \in StockRows \ {i} : RecordSound(j)'
        BY <1>1, <2>7 DEF ShelfInv, RecordSound
    <2>11. (\A j \in StockRows : LotSound(j)') /\ OrderSound'
        BY <1>1 DEF ShelfInv, LotSound, OrderSound, Shelf!StatusAfter
    <2>12. RowsStay
        BY <1>1, <2>7, NewRecordIs DEF RowsStay
    <2>13. \A p \in Hands \ {r} : HandSound(p)'
        BY <2>6, <2>12, HandKept DEF ShelfInv
    <2>14. HandSound(r)'
        BY <2>4, <2>6, <2>7, NewRecordIs DEF HandSound
    <2>15. \A j \in StockRows : ~record[j].live
        BY <1>3, LiveIs
    <2>16. OneLive'
        BY <2>7, <2>15 DEF OneLive
    <2>17. InCreation(i)'
        BY <2>4, <2>6 DEF InCreation
    <2>18. LiveLinked'
        BY <2>7, <2>15, <2>17 DEF LiveLinked
    <2>19. QED
        BY <2>8, <2>9, <2>10, <2>11, <2>13, <2>14, <2>16, <2>18 DEF ShelfInv
<1>4. QED
    BY <1>2, <1>3 DEF Shelf!InsertRecord

\* A movement, with what becomes of its batch, its order and its request.
LEMMA PostStep ==
    ASSUME ShelfInv, NEW i \in StockRows, record[i].live, NEW q \in Int, NEW c \in Nat,
           NEW tracked \in BOOLEAN, Shelf!Post(i, q, c, tracked),
           UNCHANGED <<linked, asked, recopied, loose>>,
           lot' \in [StockRows -> Int],
           \A j \in StockRows \ {i} : lot'[j] = lot[j],
           lot[i] >= 0 => lot'[i] >= 0,
           LotSound(i) => (IF lot'[i] >= 0 THEN lot'[i] ELSE 0)
                            = (IF lot[i] >= 0 THEN lot[i] ELSE 0) + (IF tracked THEN q ELSE 0),
           order' \in {Shelf!NoOrder} \union PlacedOrder, OrderSound',
           order # Shelf!NoOrder => order' # Shelf!NoOrder,
           hand' \in [Hands -> InHand],
           \A p \in Hands :
              \/ hand'[p] = hand[p]
              \/ hand[p].step = "opening" /\ hand'[p].step = "link" /\ hand'[p].row = hand[p].row
    PROVE  ShelfInv'
<1>1. /\ record' \in [StockRows -> {Shelf!Fresh} \union StockRow]
      /\ sums' \in [StockRows -> [all : Int, lot : Int]]
      /\ costs' \in [StockRows -> SUBSET Nat]
      /\ \A j \in StockRows :
           /\ RecordSound(j)'
           /\ record'[j].live = record[j].live
           /\ record'[j] = Shelf!Fresh <=> record[j] = Shelf!Fresh
           /\ sums'[j].lot = IF j = i /\ tracked THEN sums[j].lot + q ELSE sums[j].lot
    BY PostKeeps DEF ShelfInv
<1>2. ShelfTyped'
    BY <1>1 DEF ShelfInv, ShelfTyped
<1>3. LotSound(i)'
    <2>1. sums[i].lot \in Int
        BY DEF ShelfInv, ShelfTyped
    <2>2. LotSound(i)
        BY DEF ShelfInv
    <2>3. QED
        BY <1>1, <2>1, <2>2 DEF LotSound
<1>4. \A j \in StockRows \ {i} : LotSound(j)'
    BY <1>1 DEF ShelfInv, LotSound
<1>5. RowsStay
    BY <1>1 DEF RowsStay
<1>6. ASSUME NEW p \in Hands PROVE HandSound(p)'
    <2>1. CASE hand'[p] = hand[p]
        BY <1>5, <2>1, HandKept DEF ShelfInv
    <2>2. CASE hand[p].step = "opening" /\ hand'[p].step = "link" /\ hand'[p].row = hand[p].row
        <3>1. PICK h \in Created : h = hand[p]
            BY <2>2, HandIs DEF ShelfInv, ShelfTyped
        <3>2. hand[p].row \in StockRows
            BY <3>1 DEF Created
        <3>3. record[hand[p].row] # Shelf!Fresh
            BY <2>2 DEF ShelfInv, HandSound
        <3>4. QED
            BY <1>5, <2>2, <3>2, <3>3 DEF HandSound, RowsStay
    <2>3. QED
        BY <2>1, <2>2
<1>7. OneLive'
    BY <1>1 DEF ShelfInv, OneLive
<1>8. \A j \in StockRows : InCreation(j) => InCreation(j)'
    BY DEF InCreation
<1>9. LiveLinked'
    BY <1>1, <1>8, LinkedKept DEF ShelfInv
<1>10. QED
    BY <1>1, <1>2, <1>3, <1>4, <1>6, <1>7, <1>9 DEF ShelfInv

LEMMA GoodsAre ==
    (\A q \in Quantities : q \in Nat /\ -q \in Int) /\ \A c \in Costs : c \in Nat
BY PlatformAssumption

LEMMA OrderKept ==
    OrderSound /\ UNCHANGED <<order, recopied>> => OrderSound'
BY DEF OrderSound, Shelf!StatusAfter

LEMMA SellStep ==
    ASSUME ShelfInv, NEW i \in StockRows, NEW q \in Quantities,
           Shelf!Sell(i, q) \/ Shelf!Restock(i, q) \/ Shelf!WriteOff(i, q)
    PROVE  ShelfInv'
<1>1. record[i].live /\ UNCHANGED <<linked, order, hand, asked, recopied, loose>>
    BY LiveIs DEF Shelf!Sell, Shelf!Restock, Shelf!WriteOff
<1>2. q \in Nat /\ -q \in Int
    BY GoodsAre
<1>3. OrderSound' /\ order' \in {Shelf!NoOrder} \union PlacedOrder /\ hand' \in [Hands -> InHand]
      /\ (order # Shelf!NoOrder => order' # Shelf!NoOrder)
    BY <1>1, OrderKept DEF ShelfInv, ShelfTyped
<1>4. lot \in [StockRows -> Int] /\ lot[i] \in Int
    BY DEF ShelfInv, ShelfTyped
<1>5. CASE Shelf!Sell(i, q) \/ Shelf!Restock(i, q)
    <2>1. UNCHANGED lot
        BY <1>5 DEF Shelf!Sell, Shelf!Restock
    <2>2. PICK n \in Int : Shelf!Post(i, n, 0, FALSE)
        <3>1. CASE Shelf!Sell(i, q)
            BY <1>2, <3>1 DEF Shelf!Sell
        <3>2. CASE Shelf!Restock(i, q)
            <4>1. Shelf!Post(i, q, 0, FALSE)
                BY <3>2 DEF Shelf!Restock
            <4>2. q \in Int
                BY <1>2
            <4>3. QED
                BY <4>1, <4>2, Zenon
        <3>3. QED
            BY <1>5, <3>1, <3>2
    <2>3. lot' \in [StockRows -> Int] /\ lot'[i] = lot[i] /\ \A j \in StockRows \ {i} : lot'[j] = lot[j]
        BY <1>4, <2>1
    <2>4. (IF lot'[i] >= 0 THEN lot'[i] ELSE 0)
             = (IF lot[i] >= 0 THEN lot[i] ELSE 0) + (IF FALSE THEN n ELSE 0)
        BY <1>4, <2>3
    <2>5. QED
        BY <1>1, <1>3, <1>4, <2>2, <2>3, <2>4, PostStep
<1>6. CASE Shelf!WriteOff(i, q)
    <2>1. lot[i] >= q /\ Shelf!Post(i, -q, 0, TRUE) /\ lot' = [lot EXCEPT ![i] = @ - q]
        BY <1>6 DEF Shelf!WriteOff
    <2>2. PICK n \in Int : n = -q
        BY <1>2
    <2>3. lot' \in [StockRows -> Int] /\ lot'[i] = lot[i] - q /\ \A j \in StockRows \ {i} : lot'[j] = lot[j]
        BY <1>2, <1>4, <2>1
    <2>4. lot[i] >= 0 /\ lot'[i] >= 0
        BY <1>2, <1>4, <2>1, <2>3
    <2>5. (IF lot'[i] >= 0 THEN lot'[i] ELSE 0)
             = (IF lot[i] >= 0 THEN lot[i] ELSE 0) + (IF TRUE THEN n ELSE 0)
        BY <1>2, <1>4, <2>2, <2>3, <2>4
    <2>6. QED
        BY <1>1, <1>3, <1>4, <2>1, <2>2, <2>3, <2>4, <2>5, PostStep
<1>7. QED
    BY <1>5, <1>6

LEMMA OpeningStep ==
    ASSUME ShelfInv, NEW r \in Hands, Shelf!PostOpening(r)
    PROVE  ShelfInv'
<1>1. hand[r].step = "opening" /\ UNCHANGED <<lot, linked, order, asked, recopied>>
    BY DEF Shelf!PostOpening
<1>2. PICK h \in Created : h = hand[r]
    BY <1>1, HandIs DEF ShelfInv, ShelfTyped
<1>3. h.row \in StockRows /\ h.qty \in Nat /\ h.cost \in Nat
    BY GoodsAre DEF Created
<1>4. record[h.row] # Shelf!Fresh
    BY <1>1, <1>2 DEF ShelfInv, HandSound
<1>5. CASE h.qty = 0 /\ Shelf!Goes(r, "link") /\ UNCHANGED <<record, sums, costs, loose>>
    <2>1. /\ hand' \in [Hands -> InHand] /\ hand'[r].step = "link" /\ hand'[r].row = h.row
          /\ \A p \in Hands \ {r} : hand'[p] = hand[p]
        BY <1>1, <1>2, <1>5, GoesIs DEF ShelfInv
    <2>2. HandSound(r)'
        BY <1>4, <1>5, <2>1 DEF HandSound
    <2>3. QED
        BY <1>1, <1>2, <1>5, <2>1, <2>2, HandStep
<1>6. CASE /\ h.row \in Shelf!Live /\ Shelf!Post(h.row, h.qty, h.cost, FALSE)
           /\ Shelf!Goes(r, "link") /\ UNCHANGED loose
    <2>1. /\ hand' \in [Hands -> InHand] /\ hand'[r].step = "link" /\ hand'[r].row = hand[r].row
          /\ \A p \in Hands \ {r} : hand'[p] = hand[p]
        BY <1>1, <1>6, GoesIs DEF ShelfInv
    <2>2. record[h.row].live
        BY <1>6, LiveIs
    <2>3. OrderSound' /\ order' \in {Shelf!NoOrder} \union PlacedOrder
          /\ (order # Shelf!NoOrder => order' # Shelf!NoOrder)
        BY <1>1, OrderKept DEF ShelfInv, ShelfTyped
    <2>4. PICK i \in StockRows : i = h.row
        BY <1>3
    <2>5. PICK n \in Int : n = h.qty
        BY <1>3
    <2>6. lot \in [StockRows -> Int] /\ lot[i] \in Int
        BY DEF ShelfInv, ShelfTyped
    <2>7. lot' \in [StockRows -> Int] /\ lot'[i] = lot[i] /\ \A j \in StockRows \ {i} : lot'[j] = lot[j]
        BY <1>1, <2>6
    <2>8. (IF lot'[i] >= 0 THEN lot'[i] ELSE 0)
             = (IF lot[i] >= 0 THEN lot[i] ELSE 0) + (IF FALSE THEN n ELSE 0)
        BY <2>6, <2>7
    <2>9. \A p \in Hands :
              \/ hand'[p] = hand[p]
              \/ hand[p].step = "opening" /\ hand'[p].step = "link" /\ hand'[p].row = hand[p].row
        BY <1>1, <2>1
    <2>10. Shelf!Post(i, n, h.cost, FALSE) /\ record[i].live
        BY <1>6, <2>2, <2>4, <2>5
    <2>11. QED
        BY <1>1, <1>3, <1>6, <2>1, <2>3, <2>6, <2>7, <2>8, <2>9, <2>10, PostStep
<1>7. CASE /\ Shelf!Ends(r) /\ loose' = loose \union {h.row} /\ UNCHANGED <<record, sums, costs>>
    <2>1. /\ hand' \in [Hands -> InHand] /\ hand'[r].step = "idle"
          /\ \A p \in Hands \ {r} : hand'[p] = hand[p]
        BY <1>7, EndsIs DEF ShelfInv
    <2>2. HandSound(r)'
        BY <2>1 DEF HandSound
    <2>3. QED
        BY <1>1, <1>2, <1>7, <2>1, <2>2, HandStep
<1>8. QED
    BY <1>2, <1>5, <1>6, <1>7 DEF Shelf!PostOpening

LEMMA LinkStep ==
    ASSUME ShelfInv, NEW r \in Hands, Shelf!LinkProduct(r)
    PROVE  ShelfInv'
<1>1. /\ hand[r].step = "link" /\ linked' = hand[r].row /\ Shelf!Ends(r)
      /\ loose' = IF hand[r].row \in Shelf!Live THEN loose ELSE loose \union {hand[r].row}
      /\ UNCHANGED <<record, lot, order, sums, costs, asked, recopied>>
    BY DEF Shelf!LinkProduct
<1>2. PICK h \in Created : h = hand[r]
    BY <1>1, HandIs DEF ShelfInv, ShelfTyped
<1>3. /\ hand' \in [Hands -> InHand] /\ hand'[r].step = "idle"
      /\ \A p \in Hands \ {r} : hand'[p] = hand[p]
    BY <1>1, EndsIs DEF ShelfInv
<1>4. h.row \in StockRows /\ linked' = h.row /\ (record[h.row].live \/ linked' \in loose')
    BY <1>1, <1>2, LiveIs DEF Created
<1>5. ShelfTyped'
    BY <1>1, <1>3 DEF ShelfInv, ShelfTyped
<1>6. (\A i \in StockRows : RecordSound(i)' /\ LotSound(i)') /\ OrderSound' /\ OneLive'
    BY <1>1 DEF ShelfInv, RecordSound, LotSound, OrderSound, OneLive, Shelf!StatusAfter
<1>7. RowsStay
    BY <1>1 DEF RowsStay
<1>8. \A p \in Hands \ {r} : HandSound(p)'
    BY <1>3, <1>7, HandKept DEF ShelfInv
<1>9. HandSound(r)'
    BY <1>3 DEF HandSound
<1>10. LiveLinked'
    BY <1>1, <1>4 DEF ShelfInv, LiveLinked, OneLive
<1>11. QED
    BY <1>5, <1>6, <1>8, <1>9, <1>10 DEF ShelfInv

\* A change of one record's row that is no movement.
LEMMA RowStep ==
    ASSUME ShelfInv, NEW i \in StockRows, NEW y \in StockRow, NEW n,
           record[i] # Shelf!Fresh, record' = [record EXCEPT ![i] = y],
           asked' = [asked EXCEPT ![i] = n], n \in Floors \union {0},
           UNCHANGED <<lot, linked, order, sums, costs, loose>>, recopied \subseteq recopied',
           \A j \in StockRows : <<"lot", j>> \in recopied' => <<"lot", j>> \in recopied,
           \A j : <<"order", j>> \in recopied' => <<"order", j>> \in recopied,
           <<"record", i>> \notin recopied' =>
               y.qty = record[i].qty /\ y.cost = record[i].cost /\ y.floor = n /\ (y.live => record[i].live),
           y.live => \A j \in StockRows \ {i} : ~record[j].live,
           hand' \in [Hands -> InHand],
           \A p \in Hands : hand'[p] = hand[p] \/ (hand'[p].step = "idle" /\ hand[p].step = "record")
    PROVE  ShelfInv'
<1>1. /\ record' \in [StockRows -> {Shelf!Fresh} \union StockRow] /\ record'[i] = y /\ y # Shelf!Fresh
      /\ \A j \in StockRows \ {i} : record'[j] = record[j]
      /\ asked' \in [StockRows -> Floors \union {0}] /\ asked'[i] = n
      /\ \A j \in StockRows \ {i} : asked'[j] = asked[j]
    BY RecordIs DEF ShelfInv, ShelfTyped
<1>2. ShelfTyped'
    BY <1>1 DEF ShelfInv, ShelfTyped
<1>3. RecordSound(i)'
    <2>1. RecordSound(i)
        BY DEF ShelfInv
    <2>2. QED
        BY <1>1, <2>1 DEF RecordSound
<1>4. \A j \in StockRows \ {i} : RecordSound(j)'
    BY <1>1 DEF ShelfInv, RecordSound
<1>5. \A j \in StockRows : LotSound(j)'
    BY DEF ShelfInv, LotSound
<1>6. OrderSound'
    BY DEF ShelfInv, OrderSound, Shelf!StatusAfter
<1>7. RowsStay
    BY <1>1 DEF RowsStay
<1>8. ASSUME NEW p \in Hands PROVE HandSound(p)'
    <2>1. CASE hand'[p] = hand[p]
        BY <1>7, <2>1, HandKept DEF ShelfInv
    <2>2. CASE hand'[p].step = "idle"
        BY <2>2 DEF HandSound
    <2>3. QED
        BY <2>1, <2>2
<1>9. OneLive'
    <2>1. CASE y.live = TRUE
        BY <1>1, <2>1 DEF OneLive
    <2>2. CASE y.live = FALSE
        BY <1>1, <2>2 DEF ShelfInv, OneLive
    <2>3. y.live \in BOOLEAN
        BY RecordIs
    <2>4. QED
        BY <2>1, <2>2, <2>3
<1>10. \A j \in StockRows : InCreation(j) => InCreation(j)'
    BY DEF InCreation
<1>11. \A j \in StockRows :
              record'[j].live /\ <<"record", j>> \notin recopied' =>
                  record[j].live /\ <<"record", j>> \notin recopied
    BY <1>1
<1>12. LiveLinked'
    BY <1>10, <1>11, LinkedKept DEF ShelfInv
<1>13. QED
    BY <1>2, <1>3, <1>4, <1>5, <1>6, <1>8, <1>9, <1>12 DEF ShelfInv

LEMMA WithFloor ==
    ASSUME NEW x \in StockRow, NEW n \in Floors \union {0}
    PROVE  LET y == [x EXCEPT !.floor = n] IN
           y \in StockRow /\ y.live = x.live /\ y.qty = x.qty /\ y.cost = x.cost /\ y.floor = n
BY DEF StockRow

LEMMA WithActive ==
    ASSUME NEW x \in StockRow, NEW on \in BOOLEAN
    PROVE  LET y == [x EXCEPT !.active = on] IN
           y \in StockRow /\ y.live = x.live /\ y.qty = x.qty /\ y.cost = x.cost /\ y.floor = x.floor
BY DEF StockRow

LEMMA WithoutLife ==
    ASSUME NEW x \in StockRow
    PROVE  LET y == [x EXCEPT !.live = FALSE] IN
           y \in StockRow /\ y.live = FALSE /\ y.qty = x.qty /\ y.cost = x.cost /\ y.floor = x.floor
BY DEF StockRow

LEMMA LiveRow ==
    ASSUME ShelfInv, NEW i \in StockRows, record[i].live
    PROVE  record[i] \in StockRow /\ record[i] # Shelf!Fresh /\ asked[i] \in Floors \union {0}
           /\ asked = [asked EXCEPT ![i] = asked[i]]
           /\ (<<"record", i>> \notin recopied => record[i].floor = asked[i])
           /\ \A j \in StockRows \ {i} : ~record[j].live
<1>1. record[i] \in StockRow /\ record[i] # Shelf!Fresh
    BY RecordIs DEF ShelfInv, ShelfTyped
<1>2. asked[i] \in Floors \union {0} /\ asked = [asked EXCEPT ![i] = asked[i]]
    BY DEF ShelfInv, ShelfTyped
<1>3. \A j \in StockRows \ {i} : ~record[j].live
    BY DEF ShelfInv, OneLive
<1>4. <<"record", i>> \notin recopied => record[i].floor = asked[i]
    BY <1>1 DEF ShelfInv, RecordSound
<1>5. QED
    BY <1>1, <1>2, <1>3, <1>4

LEMMA LevelsStep ==
    ASSUME ShelfInv, NEW i \in StockRows, NEW n \in Floors, Shelf!SetLevels(i, n)
    PROVE  ShelfInv'
<1>1. /\ record[i].live /\ record' = [record EXCEPT ![i].floor = n] /\ asked' = [asked EXCEPT ![i] = n]
      /\ UNCHANGED <<lot, linked, order, hand, sums, costs, recopied, loose>>
    BY LiveIs DEF Shelf!SetLevels, Shelf!WithLevels
<1>2. PICK x \in StockRow : x = record[i]
    BY <1>1, LiveRow
<1>3. PICK y : y = [x EXCEPT !.floor = n]
    OBVIOUS
<1>4. y \in StockRow /\ y.live = x.live /\ y.qty = x.qty /\ y.cost = x.cost /\ y.floor = n
    BY <1>3, WithFloor
<1>5. record' = [record EXCEPT ![i] = y]
    BY <1>1, <1>2, <1>3
<1>6. hand' \in [Hands -> InHand]
    BY <1>1 DEF ShelfInv, ShelfTyped
<1>7. QED
    BY <1>1, <1>2, <1>4, <1>5, <1>6, LiveRow, RowStep

LEMMA DeleteStep ==
    ASSUME ShelfInv, NEW i \in StockRows, Shelf!DeleteRecord(i)
    PROVE  ShelfInv'
<1>1. /\ record[i].live /\ record' = [record EXCEPT ![i].live = FALSE]
      /\ UNCHANGED <<lot, linked, order, hand, sums, costs, asked, recopied, loose>>
    BY LiveIs DEF Shelf!DeleteRecord
<1>2. PICK x \in StockRow : x = record[i]
    BY <1>1, LiveRow
<1>3. PICK y : y = [x EXCEPT !.live = FALSE]
    OBVIOUS
<1>4. y \in StockRow /\ y.live = FALSE /\ y.qty = x.qty /\ y.cost = x.cost /\ y.floor = x.floor
    BY <1>3, WithoutLife
<1>5. record' = [record EXCEPT ![i] = y]
    BY <1>1, <1>2, <1>3
<1>6. hand' \in [Hands -> InHand] /\ asked' = [asked EXCEPT ![i] = asked[i]]
    BY <1>1, LiveRow DEF ShelfInv, ShelfTyped
<1>7. asked[i] \in Floors \union {0} /\ (<<"record", i>> \notin recopied => x.floor = asked[i])
      /\ record[i] # Shelf!Fresh
    BY <1>1, <1>2, LiveRow
<1>8. /\ recopied \subseteq recopied' /\ (y.live => \A j \in StockRows \ {i} : ~record[j].live)
      /\ \A j : <<"lot", j>> \in recopied' => <<"lot", j>> \in recopied
      /\ \A j : <<"order", j>> \in recopied' => <<"order", j>> \in recopied
      /\ <<"record", i>> \notin recopied' =>
            y.qty = record[i].qty /\ y.cost = record[i].cost /\ y.floor = asked[i] /\ (y.live => record[i].live)
      /\ \A p \in Hands : hand'[p] = hand[p]
    BY <1>1, <1>2, <1>4, <1>7
<1>9. QED
    BY <1>1, <1>4, <1>5, <1>6, <1>7, <1>8, RowStep

LEMMA SaveRecordStep ==
    ASSUME ShelfInv, NEW r \in Hands, Shelf!SaveRecord(r)
    PROVE  ShelfInv'
<1>1. hand[r].step = "record" /\ Shelf!Ends(r) /\ UNCHANGED <<lot, linked, order, sums, costs, loose>>
    BY DEF Shelf!SaveRecord
<1>2. PICK h \in RecordCopy : h = hand[r]
    BY <1>1, HandIs DEF ShelfInv, ShelfTyped
<1>3. PICK i \in StockRows, x \in StockRow : i = h.row /\ x = h.copy
    BY DEF RecordCopy
<1>4. x.live /\ record[i] # Shelf!Fresh
    BY <1>1, <1>2, <1>3 DEF ShelfInv, HandSound
<1>5. /\ hand' \in [Hands -> InHand] /\ hand'[r].step = "idle"
      /\ \A p \in Hands \ {r} : hand'[p] = hand[p]
    BY <1>1, EndsIs DEF ShelfInv
<1>6. \A p \in Hands : hand'[p] = hand[p] \/ (hand'[p].step = "idle" /\ hand[p].step = "record")
    BY <1>1, <1>5
<1>7. CASE ~(Shelf!Live \subseteq {i})
    <2>1. UNCHANGED <<record, asked, recopied>>
        BY <1>2, <1>3, <1>7 DEF Shelf!SaveRecord
    <2>2. HandSound(r)'
        BY <1>5 DEF HandSound
    <2>3. QED
        BY <1>1, <1>5, <2>1, <2>2, HandStep
<1>8. CASE Shelf!Live \subseteq {i}
    <2>1. /\ \/ /\ \E on \in BOOLEAN : record' = [record EXCEPT ![i] = [x EXCEPT !.active = on]]
                /\ UNCHANGED asked
             \/ \E n \in Floors :
                  /\ record' = [record EXCEPT ![i] = [x EXCEPT !.floor = n]]
                  /\ asked' = [asked EXCEPT ![i] = n]
          /\ recopied' = IF record[i] = x THEN recopied ELSE recopied \union {<<"record", i>>}
        BY <1>2, <1>3, <1>8 DEF Shelf!SaveRecord, Shelf!SavedOver
    <2>2. /\ recopied \subseteq recopied'
          /\ \A j \in StockRows : <<"lot", j>> \in recopied' => <<"lot", j>> \in recopied
          /\ \A j : <<"order", j>> \in recopied' => <<"order", j>> \in recopied
          /\ <<"record", i>> \notin recopied' => record[i] = x /\ <<"record", i>> \notin recopied
        BY <2>1
    <2>3. \A j \in StockRows \ {i} : ~record[j].live
        BY <1>8, LiveIs
    <2>4. CASE \E on \in BOOLEAN : record' = [record EXCEPT ![i] = [x EXCEPT !.active = on]] /\ UNCHANGED asked
        <3>1. PICK on \in BOOLEAN : record' = [record EXCEPT ![i] = [x EXCEPT !.active = on]] /\ UNCHANGED asked
            BY <2>4
        <3>2. PICK y : y = [x EXCEPT !.active = on]
            OBVIOUS
        <3>3. y \in StockRow /\ y.live = x.live /\ y.qty = x.qty /\ y.cost = x.cost /\ y.floor = x.floor
            BY <3>2, WithActive
        <3>4. asked[i] \in Floors \union {0} /\ asked' = [asked EXCEPT ![i] = asked[i]]
            BY <3>1 DEF ShelfInv, ShelfTyped
        <3>5. <<"record", i>> \notin recopied' => record[i].floor = asked[i]
            BY <1>4, <2>2 DEF ShelfInv, RecordSound
        <3>6. record' = [record EXCEPT ![i] = y]
            BY <3>1, <3>2
        <3>7. <<"record", i>> \notin recopied' =>
                 y.qty = record[i].qty /\ y.cost = record[i].cost /\ y.floor = asked[i] /\ (y.live => record[i].live)
            BY <2>2, <3>3, <3>5
        <3>8. QED
            BY <1>1, <1>4, <1>5, <1>6, <2>2, <2>3, <3>3, <3>4, <3>6, <3>7, RowStep
    <2>5. CASE \E n \in Floors : record' = [record EXCEPT ![i] = [x EXCEPT !.floor = n]] /\ asked' = [asked EXCEPT ![i] = n]
        <3>1. PICK n \in Floors : record' = [record EXCEPT ![i] = [x EXCEPT !.floor = n]] /\ asked' = [asked EXCEPT ![i] = n]
            BY <2>5
        <3>2. PICK y : y = [x EXCEPT !.floor = n]
            OBVIOUS
        <3>3. y \in StockRow /\ y.live = x.live /\ y.qty = x.qty /\ y.cost = x.cost /\ y.floor = n
            BY <3>2, WithFloor
        <3>4. record' = [record EXCEPT ![i] = y]
            BY <3>1, <3>2
        <3>5. <<"record", i>> \notin recopied' =>
                 y.qty = record[i].qty /\ y.cost = record[i].cost /\ y.floor = n /\ (y.live => record[i].live)
            BY <2>2, <3>3
        <3>6. QED
            BY <1>1, <1>4, <1>5, <1>6, <2>2, <2>3, <3>1, <3>3, <3>4, <3>5, RowStep
    <2>6. QED
        BY <2>1, <2>4, <2>5
<1>9. QED
    BY <1>7, <1>8

LEMMA OpenStep ==
    ASSUME ShelfInv, NEW r \in Hands, NEW i \in StockRows,
           Shelf!OpenRecord(r, i) \/ Shelf!OpenLot(r, i) \/ Shelf!ReadBalance(r, i)
    PROVE  ShelfInv'
<1>1. UNCHANGED <<record, lot, linked, order, sums, costs, asked, recopied, loose>>
    BY DEF Shelf!OpenRecord, Shelf!OpenLot, Shelf!ReadBalance
<1>2. CASE Shelf!OpenRecord(r, i)
    <2>1. record[i].live /\ Shelf!Starts(r, [step |-> "record", row |-> i, copy |-> record[i]])
        BY <1>2, LiveIs DEF Shelf!OpenRecord
    <2>2. PICK h : h = [step |-> "record", row |-> i, copy |-> record[i]]
        OBVIOUS
    <2>3. record[i] \in StockRow /\ record[i] # Shelf!Fresh
        BY <2>1, LiveRow
    <2>4. h \in InHand /\ h.step = "record" /\ h.row = i /\ h.copy = record[i]
        BY <2>2, <2>3 DEF InHand, RecordCopy
    <2>5. /\ hand' \in [Hands -> InHand] /\ hand'[r] = h /\ hand[r].step = "idle"
          /\ \A p \in Hands \ {r} : hand'[p] = hand[p]
        BY <2>1, <2>2, <2>4, StartsIs DEF ShelfInv
    <2>6. HandSound(r)'
        BY <1>1, <2>1, <2>3, <2>4, <2>5 DEF HandSound
    <2>7. QED
        BY <1>1, <2>5, <2>6, HandStep
<1>3. CASE Shelf!OpenLot(r, i)
    <2>1. lot[i] >= 0 /\ Shelf!Starts(r, [step |-> "lot", row |-> i, copy |-> lot[i]])
        BY <1>3 DEF Shelf!OpenLot
    <2>2. PICK h : h = [step |-> "lot", row |-> i, copy |-> lot[i]]
        OBVIOUS
    <2>3. lot[i] \in Nat
        BY <2>1 DEF ShelfInv, ShelfTyped
    <2>4. h \in InHand /\ h.step = "lot" /\ h.row = i
        BY <2>2, <2>3 DEF InHand, LotCopy
    <2>5. /\ hand' \in [Hands -> InHand] /\ hand'[r] = h /\ hand[r].step = "idle"
          /\ \A p \in Hands \ {r} : hand'[p] = hand[p]
        BY <2>1, <2>2, <2>4, StartsIs DEF ShelfInv
    <2>6. HandSound(r)'
        BY <1>1, <2>1, <2>4, <2>5 DEF HandSound
    <2>7. QED
        BY <1>1, <2>5, <2>6, HandStep
<1>4. CASE Shelf!ReadBalance(r, i)
    <2>1. /\ record[i].live
          /\ Shelf!Starts(r, [step |-> "balance", row |-> i, qty |-> record[i].qty, then |-> sums[i].all])
        BY <1>4, LiveIs DEF Shelf!ReadBalance
    <2>2. PICK h : h = [step |-> "balance", row |-> i, qty |-> record[i].qty, then |-> sums[i].all]
        OBVIOUS
    <2>3. record[i].qty \in Int /\ sums[i].all \in Int /\ record[i] # Shelf!Fresh
        BY <2>1, LiveRow, RecordIs DEF ShelfInv, ShelfTyped
    <2>4. /\ h \in InHand /\ h.step = "balance" /\ h.row = i
          /\ h.qty = record[i].qty /\ h.then = sums[i].all
        BY <2>2, <2>3 DEF InHand, Balance
    <2>5. /\ hand' \in [Hands -> InHand] /\ hand'[r] = h /\ hand[r].step = "idle"
          /\ \A p \in Hands \ {r} : hand'[p] = hand[p]
        BY <2>1, <2>2, <2>4, StartsIs DEF ShelfInv
    <2>6. h.qty = h.then \/ <<"record", i>> \in recopied
        BY <2>3, <2>4 DEF ShelfInv, RecordSound
    <2>7. HandSound(r)'
        BY <1>1, <2>3, <2>4, <2>5, <2>6 DEF HandSound
    <2>8. QED
        BY <1>1, <2>5, <2>7, HandStep
<1>5. QED
    BY <1>2, <1>3, <1>4

LEMMA OpenOrderStep ==
    ASSUME ShelfInv, NEW r \in Hands, Shelf!OpenOrder(r)
    PROVE  ShelfInv'
<1>1. /\ order # Shelf!NoOrder
      /\ Shelf!Starts(r, [step |-> "order", row |-> order.row, copy |-> order.status])
      /\ UNCHANGED <<record, lot, linked, order, sums, costs, asked, recopied, loose>>
    BY DEF Shelf!OpenOrder
<1>2. PICK h : h = [step |-> "order", row |-> order.row, copy |-> order.status]
    OBVIOUS
<1>3. order.row \in StockRows /\ order.status \in OrderStatus
    BY <1>1 DEF ShelfInv, ShelfTyped, PlacedOrder
<1>4. h \in InHand /\ h.step = "order"
    BY <1>2, <1>3 DEF InHand, OrderCopy
<1>5. /\ hand' \in [Hands -> InHand] /\ hand'[r] = h /\ hand[r].step = "idle"
      /\ \A p \in Hands \ {r} : hand'[p] = hand[p]
    BY <1>1, <1>2, <1>4, StartsIs DEF ShelfInv
<1>6. HandSound(r)'
    BY <1>1, <1>4, <1>5 DEF HandSound
<1>7. QED
    BY <1>1, <1>5, <1>6, HandStep

LEMMA AnswerStep ==
    ASSUME ShelfInv, NEW r \in Hands, Shelf!SumLedger(r) \/ Shelf!Answer(r)
    PROVE  ShelfInv'
<1>1. UNCHANGED <<record, lot, linked, order, sums, costs, asked, recopied, loose>>
    BY DEF Shelf!SumLedger, Shelf!Answer
<1>2. CASE Shelf!SumLedger(r)
    <2>1. hand[r].step = "balance"
        BY <1>2 DEF Shelf!SumLedger
    <2>2. PICK h \in Balance : h = hand[r]
        BY <2>1, HandIs DEF ShelfInv, ShelfTyped
    <2>3. PICK n \in Int : n = sums[h.row].all
        BY DEF ShelfInv, ShelfTyped, Balance
    <2>4. PICK b \in BOOLEAN : b = (n # h.then)
        OBVIOUS
    <2>5. PICK k : k = [step |-> "told", row |-> h.row, discrepancy |-> h.qty - n, disturbed |-> b]
        OBVIOUS
    <2>6. hand' = [hand EXCEPT ![r] = k]
        BY <1>2, <2>2, <2>3, <2>4, <2>5 DEF Shelf!SumLedger
    <2>7. /\ k \in InHand /\ k.step = "told" /\ k.row = h.row /\ k.discrepancy = h.qty - n /\ k.disturbed = b
          /\ h.qty \in Int /\ h.then \in Int
        BY <2>2, <2>3, <2>5 DEF InHand, Told, Balance
    <2>8. hand' \in [Hands -> InHand] /\ hand'[r] = k /\ \A p \in Hands \ {r} : hand'[p] = hand[p]
        BY <2>6, <2>7 DEF ShelfInv, ShelfTyped
    <2>9. record[h.row] # Shelf!Fresh /\ (h.qty = h.then \/ <<"record", h.row>> \in recopied)
        BY <2>1, <2>2 DEF ShelfInv, HandSound
    <2>10. k.discrepancy = 0 \/ k.disturbed = TRUE \/ <<"record", k.row>> \in recopied
        <3>1. CASE n # h.then
            <4>1. b = TRUE
                BY <2>4, <3>1
            <4>2. QED
                BY <2>7, <4>1
        <3>2. CASE n = h.then /\ h.qty = h.then
            <4>1. h.qty - n = 0
                BY <2>3, <2>7, <3>2
            <4>2. QED
                BY <2>7, <4>1
        <3>3. CASE <<"record", h.row>> \in recopied
            BY <2>7, <3>3
        <3>4. QED
            BY <2>9, <3>1, <3>2, <3>3
    <2>11. HandSound(r)'
        BY <1>1, <2>7, <2>8, <2>9, <2>10 DEF HandSound
    <2>12. QED
        BY <1>1, <2>1, <2>8, <2>11, HandStep
<1>3. CASE Shelf!Answer(r)
    <2>1. hand[r].step = "told" /\ Shelf!Ends(r)
        BY <1>3 DEF Shelf!Answer
    <2>2. /\ hand' \in [Hands -> InHand] /\ hand'[r].step = "idle"
          /\ \A p \in Hands \ {r} : hand'[p] = hand[p]
        BY <2>1, EndsIs DEF ShelfInv
    <2>3. HandSound(r)'
        BY <2>2 DEF HandSound
    <2>4. QED
        BY <1>1, <2>1, <2>2, <2>3, HandStep
<1>4. QED
    BY <1>2, <1>3

\* A step that changes a batch's quantity or the order, and perhaps a request.
LEMMA PaperStep ==
    ASSUME ShelfInv, UNCHANGED <<record, linked, sums, costs, asked, loose>>,
           lot' \in [StockRows -> Int], \A j \in StockRows : lot[j] >= 0 => lot'[j] >= 0,
           \A j \in StockRows : LotSound(j)',
           order' \in {Shelf!NoOrder} \union PlacedOrder, OrderSound',
           order # Shelf!NoOrder => order' # Shelf!NoOrder,
           recopied \subseteq recopied',
           \A j \in StockRows : <<"record", j>> \in recopied' => <<"record", j>> \in recopied,
           hand' \in [Hands -> InHand],
           \A p \in Hands : hand'[p] = hand[p] \/ (hand'[p].step = "idle" /\ hand[p].step \in {"lot", "order"})
    PROVE  ShelfInv'
<1>1. ShelfTyped'
    BY DEF ShelfInv, ShelfTyped
<1>2. \A j \in StockRows : RecordSound(j)'
    BY DEF ShelfInv, RecordSound
<1>3. RowsStay
    BY DEF RowsStay
<1>4. ASSUME NEW p \in Hands PROVE HandSound(p)'
    <2>1. CASE hand'[p] = hand[p]
        BY <1>3, <2>1, HandKept DEF ShelfInv
    <2>2. CASE hand'[p].step = "idle"
        BY <2>2 DEF HandSound
    <2>3. QED
        BY <2>1, <2>2
<1>5. OneLive'
    BY DEF ShelfInv, OneLive
<1>6. \A j \in StockRows : InCreation(j) => InCreation(j)'
    BY DEF InCreation
<1>7. LiveLinked'
    BY <1>6, LinkedKept DEF ShelfInv
<1>8. QED
    BY <1>1, <1>2, <1>4, <1>5, <1>7 DEF ShelfInv

LEMMA SaveLotStep ==
    ASSUME ShelfInv, NEW r \in Hands, Shelf!SaveLot(r)
    PROVE  ShelfInv'
<1>1. hand[r].step = "lot" /\ Shelf!Ends(r) /\ UNCHANGED <<record, linked, order, sums, costs, asked, loose>>
    BY DEF Shelf!SaveLot
<1>2. PICK h \in LotCopy : h = hand[r]
    BY <1>1, HandIs DEF ShelfInv, ShelfTyped
<1>3. PICK i \in StockRows : i = h.row
    BY DEF LotCopy
<1>4. PICK q \in Nat :
        /\ lot' = [lot EXCEPT ![i] = q]
        /\ recopied' = IF lot[i] = q THEN recopied ELSE recopied \union {<<"lot", i>>}
    <2>1. PICK q \in Quantities \union {h.copy} :
            /\ lot' = [lot EXCEPT ![i] = q]
            /\ recopied' = IF lot[i] = q THEN recopied ELSE recopied \union {<<"lot", i>>}
        BY <1>2, <1>3 DEF Shelf!SaveLot, Shelf!SavedOver
    <2>2. q \in Nat
        BY GoodsAre DEF LotCopy
    <2>3. QED
        BY <2>1, <2>2
<1>5. lot' \in [StockRows -> Int] /\ lot'[i] = q /\ \A j \in StockRows \ {i} : lot'[j] = lot[j]
    BY <1>4 DEF ShelfInv, ShelfTyped
<1>6. /\ recopied \subseteq recopied'
      /\ \A j \in StockRows : <<"record", j>> \in recopied' => <<"record", j>> \in recopied
      /\ \A j : <<"order", j>> \in recopied' => <<"order", j>> \in recopied
      /\ <<"lot", i>> \notin recopied' => lot[i] = q /\ <<"lot", i>> \notin recopied
    BY <1>4
<1>7. \A j \in StockRows : LotSound(j)'
    BY <1>1, <1>5, <1>6 DEF ShelfInv, LotSound
<1>8. OrderSound' /\ order' \in {Shelf!NoOrder} \union PlacedOrder
    BY <1>1, <1>6 DEF ShelfInv, ShelfTyped, OrderSound, Shelf!StatusAfter
<1>9. /\ hand' \in [Hands -> InHand] /\ hand'[r].step = "idle"
      /\ \A p \in Hands \ {r} : hand'[p] = hand[p]
    BY <1>1, EndsIs DEF ShelfInv
<1>10. \A p \in Hands : hand'[p] = hand[p] \/ (hand'[p].step = "idle" /\ hand[p].step \in {"lot", "order"})
    BY <1>1, <1>9
<1>11. \A j \in StockRows : lot[j] >= 0 => lot'[j] >= 0
    BY <1>5
<1>12. QED
    BY <1>1, <1>5, <1>6, <1>7, <1>8, <1>9, <1>10, <1>11, PaperStep

LEMMA PlacedIs ==
    ASSUME ShelfInv, order # Shelf!NoOrder
    PROVE  order \in PlacedOrder /\ order.row \in StockRows /\ order.got \in Nat
           /\ order.ordered \in Nat /\ order.cost \in Costs
BY DEF ShelfInv, ShelfTyped, PlacedOrder

LEMMA PlacedIsSome == \A o \in PlacedOrder : o # Shelf!NoOrder
<1>1. Shelf!NoOrder.status = "none"
    BY DEF Shelf!NoOrder
<1>2. QED
    BY <1>1 DEF PlacedOrder, OrderStatus

LEMMA SaveOrderStep ==
    ASSUME ShelfInv, NEW r \in Hands, Shelf!SaveOrder(r)
    PROVE  ShelfInv'
<1>1. /\ hand[r].step = "order" /\ Shelf!Ends(r)
      /\ UNCHANGED <<record, lot, linked, sums, costs, asked, loose>>
    BY DEF Shelf!SaveOrder
<1>2. PICK h \in OrderCopy : h = hand[r]
    BY <1>1, HandIs DEF ShelfInv, ShelfTyped
<1>3. PICK s \in OrderStatus : s = h.copy
    BY DEF OrderCopy
<1>4. order # Shelf!NoOrder
    BY <1>1 DEF ShelfInv, HandSound
<1>5. PICK o \in PlacedOrder : o = order
    BY <1>4, PlacedIs
<1>6. PICK p : p = [o EXCEPT !.status = s]
    OBVIOUS
<1>7. p \in PlacedOrder /\ p.status = s /\ p.row = o.row /\ p.got = o.got /\ p.ordered = o.ordered
    BY <1>6 DEF PlacedOrder
<1>8. /\ order' = p
      /\ recopied' = IF o.status = s THEN recopied ELSE recopied \union {<<"order", o.row>>}
    BY <1>2, <1>3, <1>5, <1>6 DEF Shelf!SaveOrder, Shelf!SavedOver
<1>9. /\ recopied \subseteq recopied'
      /\ \A j : <<"record", j>> \in recopied' => <<"record", j>> \in recopied
      /\ \A j : <<"lot", j>> \in recopied' => <<"lot", j>> \in recopied
      /\ <<"order", o.row>> \notin recopied' => o.status = s /\ <<"order", o.row>> \notin recopied
    BY <1>8
<1>10. order' # Shelf!NoOrder /\ order' \in {Shelf!NoOrder} \union PlacedOrder
    BY <1>7, <1>8, PlacedIsSome
<1>11. OrderSound'
    BY <1>5, <1>7, <1>8, <1>9, <1>4 DEF ShelfInv, OrderSound, Shelf!StatusAfter
<1>12. \A j \in StockRows : LotSound(j)'
    BY <1>1, <1>9 DEF ShelfInv, LotSound
<1>13. /\ hand' \in [Hands -> InHand] /\ hand'[r].step = "idle"
       /\ \A x \in Hands \ {r} : hand'[x] = hand[x]
    BY <1>1, EndsIs DEF ShelfInv
<1>14. \A x \in Hands : hand'[x] = hand[x] \/ (hand'[x].step = "idle" /\ hand[x].step \in {"lot", "order"})
    BY <1>1, <1>13
<1>15. lot' \in [StockRows -> Int] /\ \A j \in StockRows : lot[j] >= 0 => lot'[j] >= 0
    BY <1>1 DEF ShelfInv, ShelfTyped
<1>16. QED
    BY <1>1, <1>9, <1>10, <1>11, <1>12, <1>13, <1>14, <1>15, PaperStep

LEMMA CreateOrderStep ==
    ASSUME ShelfInv, NEW i \in StockRows, NEW q \in Quantities, NEW c \in Costs, Shelf!CreateOrder(i, q, c)
    PROVE  ShelfInv'
<1>1. /\ order = Shelf!NoOrder
      /\ order' = [status |-> "draft", row |-> i, ordered |-> q, cost |-> c, got |-> 0]
      /\ UNCHANGED <<record, lot, linked, hand, sums, costs, asked, recopied, loose>>
    BY DEF Shelf!CreateOrder
<1>2. PICK o : o = [status |-> "draft", row |-> i, ordered |-> q, cost |-> c, got |-> 0]
    OBVIOUS
<1>3. o \in PlacedOrder /\ o.got = 0
    BY <1>2, GoodsAre DEF PlacedOrder, OrderStatus
<1>4. OrderSound' /\ order' \in {Shelf!NoOrder} \union PlacedOrder
    BY <1>1, <1>2, <1>3 DEF OrderSound
<1>5. \A j \in StockRows : LotSound(j)'
    BY <1>1 DEF ShelfInv, LotSound
<1>6. /\ hand' \in [Hands -> InHand] /\ lot' \in [StockRows -> Int]
      /\ (\A j \in StockRows : lot[j] >= 0 => lot'[j] >= 0) /\ \A p \in Hands : hand'[p] = hand[p]
    BY <1>1 DEF ShelfInv, ShelfTyped
<1>7. QED
    BY <1>1, <1>4, <1>5, <1>6, PaperStep

LEMMA OrAtLeastNothing == \A a \in Int : Shelf!Max({a, 0}) = IF a >= 0 THEN a ELSE 0
<1> SUFFICES ASSUME NEW a \in Int PROVE Shelf!Max({a, 0}) = IF a >= 0 THEN a ELSE 0
    OBVIOUS
<1> DEFINE m == IF a >= 0 THEN a ELSE 0
<1>1. m \in {a, 0} /\ \A y \in {a, 0} : m >= y
    OBVIOUS
<1>2. \A x \in {a, 0} : (\A y \in {a, 0} : x >= y) => x = m
    OBVIOUS
<1>3. Shelf!Max({a, 0}) = CHOOSE x \in {a, 0} : \A y \in {a, 0} : x >= y
    BY DEF Shelf!Max
<1> HIDE DEF m
<1>4. Shelf!Max({a, 0}) = m
    BY <1>1, <1>2, <1>3
<1>5. QED
    BY <1>4 DEF m

LEMMA ReceiveStep ==
    ASSUME ShelfInv, NEW q \in Quantities, NEW tracked \in BOOLEAN, Shelf!ReceiveOrder(q, tracked)
    PROVE  ShelfInv'
<1>1. /\ order.status \in {"draft", "partially_received"} /\ record[order.row].live
      /\ UNCHANGED <<linked, hand, asked, recopied, loose>>
    BY LiveIs DEF Shelf!ReceiveOrder
<1>2. order # Shelf!NoOrder
    BY <1>1 DEF Shelf!NoOrder
<1>3. PICK o \in PlacedOrder : o = order
    BY <1>2, PlacedIs
<1>4. PICK i \in StockRows, c \in Nat, n \in Nat : i = o.row /\ c = o.cost /\ n = q
    BY GoodsAre DEF PlacedOrder
<1>5. Shelf!Post(i, n, c, tracked) /\ lot' = [lot EXCEPT ![i] = IF tracked THEN Shelf!Max({@, 0}) + n ELSE @]
    BY <1>3, <1>4 DEF Shelf!ReceiveOrder
<1>6. lot \in [StockRows -> Int] /\ lot[i] \in Int
    BY DEF ShelfInv, ShelfTyped
<1>7. PICK m \in Int : m = IF tracked THEN (IF lot[i] >= 0 THEN lot[i] ELSE 0) + n ELSE lot[i]
    BY <1>6
<1>8. lot' = [lot EXCEPT ![i] = m]
    BY <1>5, <1>6, <1>7, OrAtLeastNothing
<1>9. lot' \in [StockRows -> Int] /\ lot'[i] = m /\ \A j \in StockRows \ {i} : lot'[j] = lot[j]
    BY <1>6, <1>8
<1>10. /\ lot[i] >= 0 => lot'[i] >= 0
       /\ (IF lot'[i] >= 0 THEN lot'[i] ELSE 0)
             = (IF lot[i] >= 0 THEN lot[i] ELSE 0) + (IF tracked THEN n ELSE 0)
    BY <1>6, <1>7, <1>9
<1>11. o.got + n \in Nat /\ o.ordered \in Nat
    BY <1>4 DEF PlacedOrder
<1>12. PICK s \in OrderStatus : s = Shelf!StatusAfter(o.got + n)
    BY DEF OrderStatus, Shelf!StatusAfter
<1>13. PICK p : p = [o EXCEPT !.got = o.got + n, !.status = s]
    OBVIOUS
<1>14. p \in PlacedOrder
    BY <1>11, <1>13 DEF PlacedOrder
<1>15. p.got = o.got + n /\ p.status = s /\ p.ordered = o.ordered
    BY <1>11, <1>13 DEF PlacedOrder
<1>16. order' = p
    BY <1>3, <1>4, <1>12, <1>13 DEF Shelf!ReceiveOrder
<1>17. Shelf!StatusAfter(p.got)' = s
    BY <1>3, <1>12, <1>15, <1>16 DEF Shelf!StatusAfter
<1>18. OrderSound'
    BY <1>15, <1>16, <1>17 DEF OrderSound, Shelf!StatusAfter
<1>19. order' # Shelf!NoOrder /\ order' \in {Shelf!NoOrder} \union PlacedOrder
    BY <1>14, <1>16, PlacedIsSome
<1>20. hand' \in [Hands -> InHand] /\ \A x \in Hands : hand'[x] = hand[x]
    BY <1>1 DEF ShelfInv, ShelfTyped
<1>21. record[i].live /\ n \in Int
    BY <1>1, <1>3, <1>4
<1>22. /\ UNCHANGED <<linked, asked, recopied, loose>>
       /\ order # Shelf!NoOrder => order' # Shelf!NoOrder
       /\ \A x \in Hands :
             \/ hand'[x] = hand[x]
             \/ hand[x].step = "opening" /\ hand'[x].step = "link" /\ hand'[x].row = hand[x].row
    BY <1>1, <1>19, <1>20
<1>23. Shelf!Post(i, n, c, tracked) /\ i \in StockRows /\ c \in Nat
    BY <1>5
<1>24. QED
    BY <1>9, <1>10, <1>18, <1>19, <1>20, <1>21, <1>22, <1>23, PostStep

\* Every operation on the stock of a product keeps its records sound.
LEMMA ShelfNext == ShelfInv /\ [Shelf!Next]_shelfVars => ShelfInv'
<1> SUFFICES ASSUME ShelfInv, [Shelf!Next]_shelfVars PROVE ShelfInv'
    OBVIOUS
<1>1. CASE UNCHANGED shelfVars
    <2>1. UNCHANGED <<record, lot, linked, order, hand, sums, costs, asked, recopied, loose>>
        BY <1>1 DEF shelfVars
    <2>2. ShelfTyped'
        BY <2>1 DEF ShelfInv, ShelfTyped
    <2>3. (\A i \in StockRows : RecordSound(i)' /\ LotSound(i)') /\ OrderSound' /\ OneLive'
        BY <2>1 DEF ShelfInv, RecordSound, LotSound, OrderSound, OneLive, Shelf!StatusAfter
    <2>4. \A r \in Hands : HandSound(r)'
        BY <2>1 DEF ShelfInv, HandSound
    <2>5. LiveLinked'
        BY <2>1 DEF ShelfInv, LiveLinked, InCreation
    <2>6. QED
        BY <2>2, <2>3, <2>4, <2>5 DEF ShelfInv
<1>2. ASSUME NEW r \in Hands, NEW q \in Quantities \union {0}, NEW c \in Costs, NEW screen \in BOOLEAN,
             Shelf!AskForRecord(r, q, c, screen)
      PROVE  ShelfInv'
    BY <1>2, AskStep
<1>3. ASSUME NEW r \in Hands,
             \/ Shelf!FindRecord(r) \/ Shelf!InsertRecord(r) \/ Shelf!PostOpening(r)
             \/ Shelf!LinkProduct(r) \/ Shelf!BreaksOff(r)
      PROVE  ShelfInv'
    BY <1>3, FindStep, InsertStep, OpeningStep, LinkStep, BreakStep
<1>4. ASSUME NEW r \in Hands, NEW i \in StockRows,
             Shelf!OpenRecord(r, i) \/ Shelf!OpenLot(r, i) \/ Shelf!ReadBalance(r, i)
      PROVE  ShelfInv'
    BY <1>4, OpenStep
<1>5. ASSUME NEW r \in Hands,
             \/ Shelf!SaveRecord(r) \/ Shelf!SaveLot(r) \/ Shelf!OpenOrder(r) \/ Shelf!SaveOrder(r)
             \/ Shelf!SumLedger(r) \/ Shelf!Answer(r)
      PROVE  ShelfInv'
    BY <1>5, SaveRecordStep, SaveLotStep, OpenOrderStep, SaveOrderStep, AnswerStep
<1>6. ASSUME NEW i \in StockRows, Shelf!DeleteRecord(i) \/ \E n \in Floors : Shelf!SetLevels(i, n)
      PROVE  ShelfInv'
    BY <1>6, DeleteStep, LevelsStep
<1>7. ASSUME NEW i \in StockRows, NEW q \in Quantities,
             Shelf!Sell(i, q) \/ Shelf!Restock(i, q) \/ Shelf!WriteOff(i, q)
      PROVE  ShelfInv'
    BY <1>7, SellStep
<1>8. ASSUME NEW i \in StockRows, NEW q \in Quantities, NEW c \in Costs, Shelf!CreateOrder(i, q, c)
      PROVE  ShelfInv'
    BY <1>8, CreateOrderStep
<1>9. ASSUME NEW q \in Quantities, NEW tracked \in BOOLEAN, Shelf!ReceiveOrder(q, tracked)
      PROVE  ShelfInv'
    BY <1>9, ReceiveStep
<1>10. CASE Shelf!Next
    BY <1>10, <1>2, <1>3, <1>4, <1>5, <1>6, <1>7, <1>8, <1>9, Zenon DEF Shelf!Next
<1>11. QED
    BY <1>1, <1>10

LEMMA UntouchedIs ==
    ASSUME ShelfInv, NEW kind
    PROVE  \A i : i \in Shelf!Untouched(kind) <=>
                  i \in StockRows /\ record[i] # Shelf!Fresh /\ <<kind, i>> \notin recopied
<1>1. \A i \in StockRows : record[i].new <=> record[i] = Shelf!Fresh
    BY RecordIs DEF ShelfInv, ShelfTyped
<1>2. QED
    BY <1>1 DEF Shelf!Untouched

LEMMA CostsBetween ==
    ASSUME NEW S \in SUBSET Nat, NEW lo \in S, NEW hi \in S, \A c \in S : lo <= c /\ c <= hi
    PROVE  Shelf!Min(S) = lo /\ Shelf!Max(S) = hi
<1>1. Shelf!Min(S) = lo
    <2>1. Shelf!Min(S) = CHOOSE x \in S : \A y \in S : x <= y
        BY DEF Shelf!Min
    <2>2. \A x \in S : (\A y \in S : x <= y) => x = lo
        OBVIOUS
    <2>3. QED
        BY <2>1, <2>2
<1>2. Shelf!Max(S) = hi
    <2>1. Shelf!Max(S) = CHOOSE x \in S : \A y \in S : x >= y
        BY DEF Shelf!Max
    <2>2. \A x \in S : (\A y \in S : x >= y) => x = hi
        OBVIOUS
    <2>3. \A y \in S : hi >= y
        OBVIOUS
    <2>4. QED
        BY <2>1, <2>2, <2>3
<1>3. QED
    BY <1>1, <1>2

\* What the inductive invariant says of rows is what the screens rely on.
LEMMA ShelfRecordsAgree == ShelfInv => Shelf!RecordsAgree
<1> SUFFICES ASSUME ShelfInv PROVE Shelf!RecordsAgree
    OBVIOUS
<1>1. Shelf!LedgersAgree
    BY UntouchedIs DEF Shelf!LedgersAgree, ShelfInv, RecordSound, LotSound
<1>2. Shelf!AverageIsAnAverage
    <2>1. SUFFICES ASSUME NEW i \in Shelf!Untouched("record")
                   PROVE  IF costs[i] = {} THEN record[i].cost = 0
                          ELSE record[i].cost \in Shelf!Min(costs[i])..Shelf!Max(costs[i])
        BY DEF Shelf!AverageIsAnAverage
    <2>2. /\ i \in StockRows /\ costs[i] \in SUBSET Nat /\ record[i].cost \in Nat
          /\ Averaged(record[i].cost, record[i].qty, costs[i])
        BY UntouchedIs, RecordIs DEF ShelfInv, ShelfTyped, RecordSound
    <2>3. CASE costs[i] = {}
        BY <2>2, <2>3 DEF Averaged
    <2>4. CASE costs[i] # {}
        <3>1. PICK lo, hi \in costs[i] :
                  lo <= record[i].cost /\ record[i].cost <= hi /\ \A c \in costs[i] : lo <= c /\ c <= hi
            BY <2>2, <2>4 DEF Averaged
        <3>2. Shelf!Min(costs[i]) = lo /\ Shelf!Max(costs[i]) = hi
            BY <2>2, <3>1, CostsBetween
        <3>3. lo \in Nat /\ hi \in Nat
            BY <2>2
        <3>4. record[i].cost \in lo..hi
            BY <2>2, <3>1, <3>3
        <3>5. QED
            BY <2>4, <3>2, <3>4
    <2>5. QED
        BY <2>3, <2>4
<1>3. Shelf!ProductIsLinked
    <2>1. SUFFICES ASSUME NEW i, i \in Shelf!Live, i \in Shelf!Untouched("record"),
                          i \notin Shelf!Creating, i \notin loose
                   PROVE  linked = i \/ linked \in loose
        BY DEF Shelf!ProductIsLinked
    <2>2. i \in StockRows /\ record[i].live /\ <<"record", i>> \notin recopied
        BY <2>1, LiveIs, UntouchedIs
    <2>3. ~InCreation(i)
        BY <2>1 DEF InCreation, Shelf!Creating
    <2>4. QED
        BY <2>1, <2>2, <2>3 DEF ShelfInv, LiveLinked
<1>4. Shelf!LevelsStay
    <2>1. \A i \in Shelf!Untouched("record") : record[i].floor = asked[i]
        BY UntouchedIs DEF ShelfInv, RecordSound
    <2>2. ASSUME NEW i \in Shelf!Untouched("order"), order # Shelf!NoOrder, order.row = i, order.got > 0
          PROVE  order.status = Shelf!StatusAfter(order.got)
        BY <2>2, UntouchedIs DEF ShelfInv, OrderSound
    <2>3. QED
        BY <2>1, <2>2 DEF Shelf!LevelsStay
<1>5. Shelf!AlarmsAreReal
    <2>1. SUFFICES ASSUME NEW r \in Hands, hand[r].step = "told", hand[r].discrepancy # 0
                   PROVE  hand[r].disturbed \/ hand[r].row \notin Shelf!Untouched("record")
        BY DEF Shelf!AlarmsAreReal
    <2>2. hand[r].disturbed \/ <<"record", hand[r].row>> \in recopied
        BY <2>1 DEF ShelfInv, HandSound
    <2>3. QED
        BY <2>2, UntouchedIs
<1>6. QED
    BY <1>1, <1>2, <1>3, <1>4, <1>5 DEF Shelf!RecordsAgree

\* Whatever screens, REST resources and movements do at the same time, the rows of
\* the office and the stock records of a product keep agreeing with the documents,
\* ledgers, costs and levels they stand for, unless a stale copy is saved over one.
THEOREM RecordsKept == PlatformSpec => []RecordsKeep
<1>1. PlatformSpec => Desk!Init /\ [][Desk!Next]_deskVars
    BY DeskSteps
<1>2. DeskInv /\ [Desk!Next]_deskVars => DeskInv'
    BY DeskNext
<1>3. PlatformSpec => []DeskInv
    BY <1>1, <1>2, DeskInit, PTL
<1>4. PlatformSpec => []ShelfInv
    BY ShelfSteps, ShelfInit, ShelfNext, PTL
<1>5. DeskInv /\ ShelfInv => RecordsKeep
    BY DeskRecordsKeep, ShelfRecordsAgree DEF RecordsKeep
<1>6. QED
    BY <1>3, <1>4, <1>5, PTL

-----------------------------------------------------------------------------
(* Reports: for any orders, items, prices, rates, payments, methods and        *)
(* calendars.  What is added up is sound (BookInv); then every page is an        *)
(* identity between sums.                                                        *)

LEMMA BookSteps == PlatformSpec => Books!Init /\ [][Books!Next]_bookVars
<1>1. PlatformInit => Books!Init
    BY DEF PlatformInit
<1>2. [PlatformNext]_<<part, accessVars, configVars, bindingVars, noticeVars, clubVars, leavingVars,
                       recordVars, bookVars, deskVars, shelfVars, countVars>>
      => [Books!Next]_bookVars
    BY DEF PlatformNext, bookVars
<1>3. QED
    BY <1>1, <1>2, Behaviour, PTL

LEMMA BookSums ==
    /\ \A f, S : Books!SumIn(f, S) = SumIn(f, S)
    /\ \A f : Books!SumOver(f) = SumOver(f)
BY DEF Books!SumIn, Books!SumOver, Books!SumTable, Books!Pick, SumIn, SumOver, SumTable, Pick

LEMMA BookCount == \A S : Books!Cardinality(S) = Cardinality(S)
BY DEF Books!Cardinality, Cardinality

BookDays == 1..LastDay
BillRow ==
    [status : {"none", "open", "settled", "void"}, opened : Nat, off : 0..100, subtotal : Nat,
     discount : Int, tax : Nat, total : Int, paid : Int]
ItemRow == [order : Bills \union {0}, active : BOOLEAN]
PaymentRow ==
    [order : Bills, kind : {"payment", "refund"}, method : Methods \union {"cash"}, amount : Nat,
     day : BookDays]
InvoiceRow == [status : {"none", "issued", "void"}, day : Nat]

BooksTyped ==
    /\ today \in BookDays
    /\ bill \in [Bills -> BillRow]
    /\ item \in [Items -> ItemRow]
    /\ payments \in Seq(PaymentRow)
    /\ invoice \in [Bills -> InvoiceRow]

\* A bill is what its live lines make of it, and its invoice follows its status.
BillSound(o) ==
    /\ bill[o].status # "none" => bill[o].opened \in BookDays
    /\ bill[o].subtotal = SumIn(Books!LineTotals, Books!LiveOf(item, o))
    /\ bill[o].tax > 0 => \E i \in Items : item[i].order = o
    /\ bill[o].status \in {"none", "open"} => invoice[o] = Books!NoInvoice
    /\ bill[o].status = "settled" => invoice[o] # Books!NoInvoice
    /\ invoice[o] # Books!NoInvoice => invoice[o].day \in BookDays

\* Lines and payments are of orders that exist.
ItemSound(i) ==
    /\ item[i].order # 0 => bill[item[i].order].status # "none"
    /\ item[i].active => item[i].order # 0
PaymentSound(p) ==
    bill[p.order].status # "none" /\ (p.kind = "payment" => p.method \in Methods)

BookInv ==
    /\ BooksTyped
    /\ \A o \in Bills : BillSound(o)
    /\ \A i \in Items : ItemSound(i)
    /\ \A n \in DOMAIN payments : PaymentSound(payments[n])

LEMMA BillsAre == 0 \notin Bills /\ IsFiniteSet(Bills) /\ IsFiniteSet(Items) /\ IsFiniteSet(Methods)
BY BooksAssumption

LEMMA LineTotalsAre ==
    /\ IsSummable(Books!LineTotals) /\ DOMAIN Books!LineTotals = Items
    /\ \A i \in Items : Books!LineTotals[i] = Sold[i].amount /\ Books!LineTotals[i] \in Nat
BY BooksAssumption DEF Books!LineTotals, IsSummable

LEMMA Products == \A a, b \in Nat : a * b \in Nat
OBVIOUS

LEMMA BillFromIs ==
    ASSUME BooksTyped, NEW rows \in [Items -> ItemRow], NEW o \in Bills, NEW off \in 0..100
    PROVE  /\ Books!BillFrom(rows, o, off) \in BillRow
           /\ Books!BillFrom(rows, o, off).status = bill[o].status
           /\ Books!BillFrom(rows, o, off).opened = bill[o].opened
           /\ Books!BillFrom(rows, o, off).subtotal = SumIn(Books!LineTotals, Books!LiveOf(rows, o))
           /\ Books!BillFrom(rows, o, off).tax > 0 => \E i \in Items : rows[i].order = o
<1> DEFINE live == Books!LiveOf(rows, o)
           charged == Books!TaxesAt(off)
<1>1. live \in SUBSET Items
    BY DEF Books!LiveOf
<1>2. \A i \in Items : charged[i] \in Nat
    <2> SUFFICES ASSUME NEW i \in Items PROVE charged[i] \in Nat
        OBVIOUS
    <2>1. PICK a \in Nat, r \in Nat, p \in Nat : a = Sold[i].amount /\ r = Sold[i].rate /\ p = 100 - off
        BY BooksAssumption
    <2>2. a * p * r \in Nat
        BY Products
    <2>3. (a * p * r) \div 10000 \in Nat
        BY <2>2, Division
    <2>4. QED
        BY <2>1, <2>3 DEF Books!TaxesAt
<1>3. DOMAIN charged = Items
    BY DEF Books!TaxesAt
<1>4. IsSummable(charged)
    BY <1>2, <1>3, BillsAre DEF IsSummable
<1> HIDE DEF charged
<1>5. PICK s \in Nat : s = SumIn(Books!LineTotals, live)
    BY <1>1, LineTotalsAre, SumInNat
<1>6. PICK t \in Nat : t = SumIn(charged, live)
    BY <1>1, <1>2, <1>3, <1>4, SumInNat
<1>7. t > 0 => live # {}
    BY <1>4, <1>6, SumTableEmpty DEF SumIn
<1>8. PICK b \in BillRow : b = bill[o]
    BY DEF BooksTyped
<1>9. Books!BillFrom(rows, o, off) = Books!Billed(b, off, s, t)
    BY <1>5, <1>6, <1>8, BookSums DEF Books!BillFrom, charged
<1>10. live # {} => \E i \in Items : rows[i].order = o
    BY DEF Books!LiveOf
<1>11. PICK y : y = Books!Billed(b, off, s, t)
    OBVIOUS
<1>12. y \in BillRow /\ y.status = b.status /\ y.opened = b.opened /\ y.subtotal = s /\ y.tax = t
    <2>1. s * off \in Nat
        BY Products
    <2>2. (s * off) \div 100 \in Nat
        BY <2>1, Division
    <2>3. PICK d \in Int : d = (s * off) \div 100
        BY <2>2
    <2>4. PICK n \in Int : n = s - d + t
        OBVIOUS
    <2>5. y = [b EXCEPT !.off = off, !.subtotal = s, !.discount = d, !.tax = t, !.total = n]
        BY <1>11, <2>3, <2>4 DEF Books!Billed
    <2>6. y \in BillRow
        BY <2>5 DEF BillRow
    <2>7. y.status = b.status /\ y.opened = b.opened /\ y.subtotal = s /\ y.tax = t
        BY <2>5 DEF BillRow
    <2>8. QED
        BY <2>6, <2>7
<1>13. y.tax > 0 => \E i \in Items : rows[i].order = o
    BY <1>7, <1>10, <1>12
<1>14. y.status = bill[o].status /\ y.opened = bill[o].opened
    BY <1>8, <1>12
<1>15. y.subtotal = SumIn(Books!LineTotals, live)
    BY <1>5, <1>12
<1>16. QED
    BY <1>9, <1>11, <1>12, <1>13, <1>14, <1>15

\* Amounts of payment rows can be summed, and what was paid is a number.
LEMMA AmountsAre ==
    ASSUME BooksTyped
    PROVE  /\ IsFiniteSet(DOMAIN payments)
           /\ IsSummable([n \in DOMAIN payments |-> payments[n].amount])
           /\ \A n \in DOMAIN payments : payments[n] \in PaymentRow /\ payments[n].amount \in Nat
<1>1. DOMAIN payments = 1..Len(payments) /\ Len(payments) \in Nat
    BY DEF BooksTyped
<1>2. IsFiniteSet(DOMAIN payments)
    BY <1>1, FS_Interval
<1>3. \A n \in DOMAIN payments : payments[n] \in PaymentRow
    BY <1>1 DEF BooksTyped
<1>4. \A n \in DOMAIN payments : payments[n].amount \in Nat
    BY <1>3 DEF PaymentRow
<1>5. QED
    BY <1>2, <1>3, <1>4 DEF IsSummable

LEMMA TotalsAre ==
    ASSUME BooksTyped, NEW N \in SUBSET DOMAIN payments
    PROVE  Books!TotalOf(N) \in Int
BY AmountsAre, BookSums, SumInInt DEF Books!TotalOf

LEMMA NetPaidIs ==
    ASSUME BooksTyped, NEW o
    PROVE  Books!NetPaid(o) \in Int
<1>1. Books!Captured(o, "payment") \in SUBSET DOMAIN payments
      /\ Books!Captured(o, "refund") \in SUBSET DOMAIN payments
    BY DEF Books!Captured
<1>2. QED
    BY <1>1, TotalsAre DEF Books!NetPaid

LEMMA BillAt ==
    ASSUME BooksTyped, NEW o \in Bills
    PROVE  /\ bill[o] \in BillRow /\ invoice[o] \in InvoiceRow
           /\ bill[o].status \in {"none", "open", "settled", "void"} /\ bill[o].opened \in Nat
           /\ bill[o].off \in 0..100 /\ bill[o].subtotal \in Nat /\ bill[o].discount \in Int
           /\ bill[o].tax \in Nat /\ bill[o].total \in Int /\ bill[o].paid \in Int
<1>1. PICK b \in BillRow : b = bill[o]
    BY DEF BooksTyped
<1>2. /\ b.status \in {"none", "open", "settled", "void"} /\ b.opened \in Nat
      /\ b.off \in 0..100 /\ b.subtotal \in Nat /\ b.discount \in Int
      /\ b.tax \in Nat /\ b.total \in Int /\ b.paid \in Int
    BY DEF BillRow
<1>3. invoice[o] \in InvoiceRow
    BY DEF BooksTyped
<1>4. QED
    BY <1>1, <1>2, <1>3

LEMMA InvoiceIs ==
    \A v \in InvoiceRow : v = Books!NoInvoice <=> v.status = "none" /\ v.day = 0
BY DEF InvoiceRow, Books!NoInvoice

\* A step at one order, which changes no other order's bill, lines or payments.
LEMMA BookStep ==
    ASSUME BookInv, BooksTyped', NEW o \in Bills,
           \A q \in Bills \ {o} : /\ bill'[q] = bill[q] /\ invoice'[q] = invoice[q]
                                  /\ Books!LiveOf(item', q) = Books!LiveOf(item, q),
           \A i \in Items : item[i].order \in Bills => item'[i].order = item[i].order,
           \A i \in Items : item'[i] # item[i] =>
                              item'[i].order = o \/ (item'[i].order = 0 /\ ~item'[i].active),
           bill'[o].status # "none" \/ (item' = item /\ payments' = payments),
           bill[o].status = "none" \/ bill'[o].status # "none",
           BillSound(o)',
           \A n \in DOMAIN payments' :
              \/ n \in DOMAIN payments /\ payments'[n] = payments[n]
              \/ /\ payments'[n].order = o
                 /\ payments'[n].kind = "payment" => payments'[n].method \in Methods
    PROVE  BookInv'
<1>1. \A q \in Bills : BillSound(q)'
    <2> SUFFICES ASSUME NEW q \in Bills, q # o PROVE BillSound(q)'
        OBVIOUS
    <2>1. BillSound(q)
        BY DEF BookInv
    <2>2. PICK b, v, L : b = bill[q] /\ v = invoice[q] /\ L = Books!LiveOf(item, q)
        OBVIOUS
    <2>3. b = bill'[q] /\ v = invoice'[q] /\ L = Books!LiveOf(item', q)
        BY <2>2
    <2>4. (\E i \in Items : item[i].order = q) => (\E i \in Items : item'[i].order = q)
        OBVIOUS
    <2>5. QED
        BY <2>1, <2>2, <2>3, <2>4 DEF BillSound
<1>2. \A q \in Bills : bill[q].status # "none" => bill'[q].status # "none"
    OBVIOUS
<1>3. \A i \in Items : ItemSound(i)'
    <2> SUFFICES ASSUME NEW i \in Items PROVE ItemSound(i)'
        OBVIOUS
    <2>1. ItemSound(i) /\ item[i] \in ItemRow /\ item'[i] \in ItemRow
        BY DEF BookInv, BooksTyped
    <2>2. CASE item'[i] = item[i]
        <3>1. item[i].order \in Bills \union {0}
            BY <2>1 DEF ItemRow
        <3>2. QED
            BY <1>2, <2>1, <2>2, <3>1 DEF ItemSound
    <2>3. CASE item'[i] # item[i]
        <3>1. bill'[o].status # "none"
            BY <2>3
        <3>2. QED
            BY <2>3, <3>1, BillsAre DEF ItemSound
    <2>4. QED
        BY <2>2, <2>3
<1>4. \A n \in DOMAIN payments' : PaymentSound(payments[n])'
    <2> SUFFICES ASSUME NEW n \in DOMAIN payments' PROVE PaymentSound(payments[n])'
        OBVIOUS
    <2>1. CASE n \in DOMAIN payments /\ payments'[n] = payments[n]
        <3>1. PaymentSound(payments[n]) /\ payments[n].order \in Bills
            BY <2>1, AmountsAre DEF BookInv, PaymentRow
        <3>2. QED
            BY <1>2, <2>1, <3>1 DEF PaymentSound
    <2>2. CASE /\ ~(n \in DOMAIN payments /\ payments'[n] = payments[n])
               /\ payments'[n].order = o
               /\ payments'[n].kind = "payment" => payments'[n].method \in Methods
        <3>1. bill'[o].status # "none"
            BY <2>2
        <3>2. QED
            BY <2>2, <3>1 DEF PaymentSound
    <2>3. QED
        BY <2>1, <2>2
<1>5. QED
    BY <1>1, <1>3, <1>4 DEF BookInv

LEMMA BookInit == Books!Init => BookInv
<1> SUFFICES ASSUME Books!Init PROVE BookInv
    OBVIOUS
<1>1. Books!NoBill \in BillRow /\ Books!NoItem \in ItemRow /\ Books!NoInvoice \in InvoiceRow
    BY DEF Books!NoBill, Books!NoItem, Books!NoInvoice, BillRow, ItemRow, InvoiceRow
<1>2. BooksTyped
    BY <1>1, BooksAssumption DEF Books!Init, BooksTyped, BookDays
<1>3. \A o \in Bills : BillSound(o)
    <2> SUFFICES ASSUME NEW o \in Bills PROVE BillSound(o)
        OBVIOUS
    <2>1. bill[o].status = "none" /\ bill[o].subtotal = 0 /\ bill[o].tax = 0
        BY DEF Books!Init, Books!NoBill
    <2>2. Books!LiveOf(item, o) = {}
        BY DEF Books!Init, Books!LiveOf, Books!NoItem
    <2>3. SumIn(Books!LineTotals, {}) = 0
        BY LineTotalsAre, SumTableEmpty DEF SumIn
    <2>4. bill[o].subtotal = SumIn(Books!LineTotals, Books!LiveOf(item, o))
        BY <2>1, <2>2, <2>3
    <2>5. invoice[o] = Books!NoInvoice
        BY DEF Books!Init
    <2>6. QED
        BY <2>1, <2>4, <2>5 DEF BillSound
<1>4. \A i \in Items : ItemSound(i)
    BY DEF Books!Init, Books!NoItem, ItemSound
<1>5. QED
    BY <1>2, <1>3, <1>4 DEF BookInv, Books!Init

LEMMA BookStays == BookInv /\ UNCHANGED bookVars => BookInv'
<1> SUFFICES ASSUME BookInv, UNCHANGED bookVars PROVE BookInv'
    OBVIOUS
<1>1. today' = today /\ bill' = bill /\ item' = item /\ payments' = payments /\ invoice' = invoice
    BY DEF bookVars
<1>2. BooksTyped'
    BY <1>1 DEF BookInv, BooksTyped
<1>3. \A o \in Bills : BillSound(o)'
    BY <1>1 DEF BookInv, BillSound
<1>4. \A i \in Items : ItemSound(i)'
    BY <1>1 DEF BookInv, ItemSound
<1>5. \A n \in DOMAIN payments' : PaymentSound(payments[n])'
    BY <1>1 DEF BookInv, PaymentSound
<1>6. QED
    BY <1>2, <1>3, <1>4, <1>5 DEF BookInv

LEMMA BookNextDay == BookInv /\ Books!NextDay => BookInv'
<1> SUFFICES ASSUME BookInv, Books!NextDay PROVE BookInv'
    OBVIOUS
<1>1. today' = today + 1 /\ today < LastDay
      /\ bill' = bill /\ item' = item /\ payments' = payments /\ invoice' = invoice
    BY DEF Books!NextDay
<1>2. BooksTyped'
    BY <1>1, BooksAssumption DEF BookInv, BooksTyped, BookDays
<1>3. \A o \in Bills : BillSound(o)'
    BY <1>1 DEF BookInv, BillSound
<1>4. \A i \in Items : ItemSound(i)'
    BY <1>1 DEF BookInv, ItemSound
<1>5. \A n \in DOMAIN payments' : PaymentSound(payments[n])'
    BY <1>1 DEF BookInv, PaymentSound
<1>6. QED
    BY <1>2, <1>3, <1>4, <1>5 DEF BookInv

LEMMA BookCreateOrder ==
    ASSUME BookInv, NEW o \in Bills, Books!CreateOrder(o)
    PROVE  BookInv'
<1>1. BooksTyped /\ BillSound(o) /\ today \in BookDays
    BY DEF BookInv, BooksTyped
<1>2. PICK b : b = [Books!NoBill EXCEPT !.status = "open", !.opened = today]
    OBVIOUS
<1>3. /\ bill[o].status = "none" /\ bill' = [bill EXCEPT ![o] = b]
      /\ today' = today /\ item' = item /\ payments' = payments /\ invoice' = invoice
    BY <1>2 DEF Books!CreateOrder, Books!Status
<1>4. b \in BillRow /\ b.status = "open" /\ b.opened = today /\ b.subtotal = 0 /\ b.tax = 0
    <2>1. PICK d \in Nat : d = today
        BY <1>1 DEF BookDays
    <2>2. b = [status |-> "open", opened |-> d, off |-> 0, subtotal |-> 0,
               discount |-> 0, tax |-> 0, total |-> 0, paid |-> 0]
        BY <1>2, <2>1 DEF Books!NoBill
    <2>3. b \in BillRow
        BY <2>2 DEF BillRow
    <2>4. QED
        BY <2>1, <2>2, <2>3
<1>5. bill'[o] = b /\ \A q \in Bills \ {o} : bill'[q] = bill[q]
    BY <1>1, <1>3 DEF BooksTyped
<1>6. BooksTyped'
    BY <1>1, <1>3, <1>4 DEF BooksTyped
<1>7. Books!LiveOf(item, o) = {}
    <2>1. \A i \in Items : item[i].order # o
        BY <1>3, BillsAre DEF BookInv, ItemSound
    <2>2. QED
        BY <2>1 DEF Books!LiveOf
<1>8. SumIn(Books!LineTotals, {}) = 0
    BY LineTotalsAre, SumTableEmpty DEF SumIn
<1>9. BillSound(o)'
    <2>1. bill'[o].subtotal = SumIn(Books!LineTotals, Books!LiveOf(item', o))
        BY <1>3, <1>4, <1>5, <1>7, <1>8
    <2>2. invoice'[o] = Books!NoInvoice
        BY <1>1, <1>3 DEF BillSound
    <2>3. bill'[o].status = "open" /\ bill'[o].opened \in BookDays /\ bill'[o].tax = 0
        BY <1>1, <1>4, <1>5
    <2>4. QED
        BY <2>1, <2>2, <2>3 DEF BillSound
<1>10. bill'[o].status # "none"
    BY <1>4, <1>5
<1>11. QED
    BY <1>3, <1>5, <1>6, <1>9, <1>10, BookStep

\* Recalculating an order from its lines keeps its bill sound.
LEMMA BookRecalculated ==
    ASSUME BookInv, NEW o \in Bills, NEW off \in 0..100, NEW rows \in [Items -> ItemRow],
           item' = rows, bill' = [bill EXCEPT ![o] = Books!BillFrom(rows, o, off)],
           UNCHANGED <<today, payments, invoice>>, bill[o].status # "none"
    PROVE  /\ BooksTyped' /\ BillSound(o)' /\ bill'[o].status # "none"
           /\ \A q \in Bills \ {o} : bill'[q] = bill[q] /\ invoice'[q] = invoice[q]
<1>1. BooksTyped /\ BillSound(o)
    BY DEF BookInv
<1>2. PICK y : y = Books!BillFrom(rows, o, off)
    OBVIOUS
<1>3. /\ y \in BillRow /\ y.status = bill[o].status /\ y.opened = bill[o].opened
      /\ y.subtotal = SumIn(Books!LineTotals, Books!LiveOf(rows, o))
      /\ y.tax > 0 => \E i \in Items : rows[i].order = o
    BY <1>1, <1>2, BillFromIs
<1>4. bill' = [bill EXCEPT ![o] = y]
    BY <1>2
<1>5. bill'[o] = y /\ \A q \in Bills \ {o} : bill'[q] = bill[q]
    BY <1>1, <1>4 DEF BooksTyped
<1>6. BooksTyped'
    BY <1>1, <1>3, <1>4 DEF BooksTyped
<1>7. BillSound(o)'
    <2>1. bill'[o].subtotal = SumIn(Books!LineTotals, Books!LiveOf(item', o))
        BY <1>3, <1>5
    <2>2. bill'[o].tax > 0 => \E i \in Items : item'[i].order = o
        BY <1>3, <1>5
    <2>3. QED
        BY <1>1, <1>3, <1>5, <2>1, <2>2 DEF BillSound
<1>8. QED
    BY <1>3, <1>5, <1>6, <1>7

LEMMA BookAddItem ==
    ASSUME BookInv, NEW o \in Bills, NEW i \in Items, Books!AddItem(o, i)
    PROVE  BookInv'
<1>1. BooksTyped
    BY DEF BookInv
<1>2. PICK off \in 0..100 : off = bill[o].off
    BY <1>1, BillAt
<1>3. PICK new : new = [order |-> o, active |-> TRUE]
    OBVIOUS
<1>4. PICK rows : rows = [item EXCEPT ![i] = new]
    OBVIOUS
<1>5. /\ bill[o].status = "open" /\ item[i] = Books!NoItem /\ item' = rows
      /\ bill' = [bill EXCEPT ![o] = Books!BillFrom(item', o, bill[o].off)]
      /\ today' = today /\ payments' = payments /\ invoice' = invoice
    BY <1>3, <1>4 DEF Books!AddItem, Books!Status, Books!BillOf
<1>6. bill' = [bill EXCEPT ![o] = Books!BillFrom(rows, o, off)]
    BY <1>2, <1>5
<1>7. new \in ItemRow /\ new.order = o
    BY <1>3 DEF ItemRow
<1>8. rows \in [Items -> ItemRow] /\ rows[i] = new /\ \A j \in Items \ {i} : rows[j] = item[j]
    BY <1>1, <1>4, <1>7 DEF BooksTyped
<1>9. /\ BooksTyped' /\ BillSound(o)' /\ bill'[o].status # "none"
      /\ \A q \in Bills \ {o} : bill'[q] = bill[q] /\ invoice'[q] = invoice[q]
    <2>1. item' = rows
        BY <1>5
    <2>2. UNCHANGED <<today, payments, invoice>>
        BY <1>5
    <2>3. bill[o].status # "none"
        BY <1>5
    <2>4. rows \in [Items -> ItemRow]
        BY <1>8
    <2>5. QED
        BY <1>6, <2>1, <2>2, <2>3, <2>4, BookRecalculated
<1>10. item[i].order = 0
    BY <1>5 DEF Books!NoItem
<1>11. \A q \in Bills \ {o} : Books!LiveOf(item', q) = Books!LiveOf(item, q)
    <2> SUFFICES ASSUME NEW q \in Bills \ {o} PROVE Books!LiveOf(rows, q) = Books!LiveOf(item, q)
        BY <1>5
    <2>1. rows[i].order # q /\ item[i].order # q
        BY <1>7, <1>8, <1>10, BillsAre
    <2>2. QED
        BY <1>8, <2>1 DEF Books!LiveOf
<1>12. \A j \in Items : item[j].order \in Bills => item'[j].order = item[j].order
    BY <1>5, <1>8, <1>10, BillsAre
<1>13. \A j \in Items : item'[j] # item[j] => item'[j].order = o
    BY <1>5, <1>7, <1>8
<1>14. QED
    BY <1>5, <1>9, <1>11, <1>12, <1>13, BookStep

LEMMA BookVoidItem ==
    ASSUME BookInv, NEW i \in Items, Books!VoidItem(i)
    PROVE  BookInv'
<1>1. BooksTyped /\ ItemSound(i) /\ item[i] \in ItemRow
    BY DEF BookInv, BooksTyped
<1>2. item[i].active /\ item[i].order \in Bills /\ bill[item[i].order].status # "none"
    BY <1>1 DEF Books!VoidItem, ItemSound, ItemRow
<1>3. PICK o \in Bills : o = item[i].order
    BY <1>2
<1>4. PICK off \in 0..100 : off = bill[o].off
    BY <1>1, BillAt
<1>5. PICK rows : rows = [item EXCEPT ![i].active = FALSE]
    OBVIOUS
<1>6. /\ item' = rows /\ bill' = [bill EXCEPT ![o] = Books!BillFrom(item', o, bill[o].off)]
      /\ today' = today /\ payments' = payments /\ invoice' = invoice
    BY <1>3, <1>5 DEF Books!VoidItem, Books!BillOf
<1>7. bill' = [bill EXCEPT ![o] = Books!BillFrom(rows, o, off)]
    BY <1>4, <1>6
<1>8. /\ rows \in [Items -> ItemRow] /\ rows[i].order = o
      /\ \A j \in Items \ {i} : rows[j] = item[j]
    <2>1. PICK r : r = [item[i] EXCEPT !.active = FALSE]
        OBVIOUS
    <2>2. r \in ItemRow /\ r.order = o
        BY <1>1, <1>3, <2>1 DEF ItemRow
    <2>3. rows = [item EXCEPT ![i] = r]
        BY <1>5, <2>1
    <2>4. QED
        BY <1>1, <2>2, <2>3 DEF BooksTyped
<1>9. /\ BooksTyped' /\ BillSound(o)' /\ bill'[o].status # "none"
      /\ \A q \in Bills \ {o} : bill'[q] = bill[q] /\ invoice'[q] = invoice[q]
    <2>1. item' = rows
        BY <1>6
    <2>2. UNCHANGED <<today, payments, invoice>>
        BY <1>6
    <2>3. bill[o].status # "none"
        BY <1>2, <1>3
    <2>4. rows \in [Items -> ItemRow]
        BY <1>8
    <2>5. QED
        BY <1>7, <2>1, <2>2, <2>3, <2>4, BookRecalculated
<1>10. \A q \in Bills \ {o} : Books!LiveOf(item', q) = Books!LiveOf(item, q)
    <2> SUFFICES ASSUME NEW q \in Bills \ {o} PROVE Books!LiveOf(rows, q) = Books!LiveOf(item, q)
        BY <1>6
    <2>1. QED
        BY <1>3, <1>8 DEF Books!LiveOf
<1>11. \A j \in Items : item[j].order \in Bills => item'[j].order = item[j].order
    BY <1>3, <1>6, <1>8
<1>12. \A j \in Items : item'[j] # item[j] => item'[j].order = o
    BY <1>3, <1>6, <1>8
<1>13. QED
    BY <1>6, <1>9, <1>10, <1>11, <1>12, BookStep

LEMMA BookApplyDiscount ==
    ASSUME BookInv, NEW o \in Bills, NEW off \in Discounts[o], Books!ApplyDiscount(o, off)
    PROVE  BookInv'
<1>1. BooksTyped /\ item \in [Items -> ItemRow]
    BY DEF BookInv, BooksTyped
<1>2. off \in 0..100
    BY BooksAssumption
<1>3. PICK rows \in [Items -> ItemRow] : rows = item
    BY <1>1
<1>4. /\ bill[o].status = "open" /\ item' = item
      /\ bill' = [bill EXCEPT ![o] = Books!BillFrom(item', o, off)]
      /\ today' = today /\ payments' = payments /\ invoice' = invoice
    BY DEF Books!ApplyDiscount, Books!Status, Books!BillOf
<1>5. bill' = [bill EXCEPT ![o] = Books!BillFrom(rows, o, off)]
    BY <1>3, <1>4
<1>6. /\ BooksTyped' /\ BillSound(o)' /\ bill'[o].status # "none"
      /\ \A q \in Bills \ {o} : bill'[q] = bill[q] /\ invoice'[q] = invoice[q]
    <2>1. item' = rows
        BY <1>3, <1>4
    <2>2. UNCHANGED <<today, payments, invoice>>
        BY <1>4
    <2>3. bill[o].status # "none"
        BY <1>4
    <2>4. QED
        BY <1>2, <1>5, <2>1, <2>2, <2>3, BookRecalculated
<1>7. QED
    BY <1>4, <1>6, BookStep

\* A step that leaves lines, prices and opening days alone keeps a bill sound.
LEMMA BookStandsAt ==
    ASSUME BookInv, NEW o \in Bills, item' = item,
           bill'[o].opened = bill[o].opened, bill'[o].subtotal = bill[o].subtotal,
           bill'[o].tax = bill[o].tax, bill[o].status # "none",
           bill'[o].status \in {"none", "open"} => invoice'[o] = Books!NoInvoice,
           bill'[o].status = "settled" => invoice'[o] # Books!NoInvoice,
           invoice'[o] # Books!NoInvoice => invoice'[o].day \in BookDays
    PROVE  BillSound(o)'
<1>1. BillSound(o)
    BY DEF BookInv
<1>2. PICK L : L = Books!LiveOf(item, o)
    OBVIOUS
<1>3. L = Books!LiveOf(item', o)
    BY <1>2
<1>4. bill'[o].subtotal = SumIn(Books!LineTotals, L)
    BY <1>1, <1>2 DEF BillSound
<1>5. bill'[o].subtotal = SumIn(Books!LineTotals, Books!LiveOf(item', o))
    BY <1>3, <1>4
<1>6. bill'[o].opened \in BookDays /\ (bill'[o].tax > 0 => \E i \in Items : item'[i].order = o)
    BY <1>1 DEF BillSound
<1>7. QED
    BY <1>5, <1>6 DEF BillSound

LEMMA BookCapture ==
    ASSUME BookInv, NEW o \in Bills, NEW k \in {"payment", "refund"},
           NEW m \in Methods \union {"cash"}, NEW a \in Nat, k = "payment" => m \in Methods,
           Books!Capture(o, k, m, a)
    PROVE  /\ payments' \in Seq(PaymentRow)
           /\ \A n \in DOMAIN payments' :
                \/ n \in DOMAIN payments /\ payments'[n] = payments[n]
                \/ /\ payments'[n].order = o
                   /\ payments'[n].kind = "payment" => payments'[n].method \in Methods
<1>1. payments \in Seq(PaymentRow) /\ today \in BookDays
    BY DEF BookInv, BooksTyped
<1>2. PICK p : p = [order |-> o, kind |-> k, method |-> m, amount |-> a, day |-> today]
    OBVIOUS
<1>3. p \in PaymentRow /\ p.order = o /\ p.kind = k /\ p.method = m
    BY <1>1, <1>2 DEF PaymentRow
<1>4. payments' = Append(payments, p)
    BY <1>2 DEF Books!Capture
<1>5. payments' \in Seq(PaymentRow)
    BY <1>1, <1>3, <1>4, AppendProperties
<1>6. DOMAIN payments = 1..Len(payments) /\ Len(payments) \in Nat
    BY <1>1
<1>7. /\ DOMAIN payments' = 1..(Len(payments) + 1)
      /\ \A n \in 1..Len(payments) : payments'[n] = payments[n]
      /\ payments'[Len(payments) + 1] = p
    BY <1>1, <1>3, <1>4
<1>8. QED
    BY <1>3, <1>5, <1>6, <1>7

LEMMA BookAddPayment ==
    ASSUME BookInv, NEW o \in Bills, NEW m \in Tender[o], Books!AddPayment(o, m, Books!Due(o))
    PROVE  BookInv'
<1>1. BooksTyped /\ BillSound(o)
    BY DEF BookInv
<1>2. PICK a \in Int : a = Books!Due(o)
    BY <1>1, BillAt DEF Books!Due
<1>3. PICK n \in Int : n = Books!NetPaid(o) + a
    BY <1>1, NetPaidIs
<1>4. PICK b \in BillRow : b = bill[o]
    BY <1>1 DEF BooksTyped
<1>5. PICK y : y = [b EXCEPT !.paid = n]
    OBVIOUS
<1>6. /\ bill[o].status # "none" /\ a > 0 /\ Books!Capture(o, "payment", m, a)
      /\ bill' = [bill EXCEPT ![o].paid = Books!NetPaid(o) + a]
      /\ today' = today /\ item' = item /\ invoice' = invoice
    BY <1>2 DEF Books!AddPayment, Books!Status
<1>7. bill' = [bill EXCEPT ![o] = y]
    BY <1>3, <1>4, <1>5, <1>6
<1>8. /\ y \in BillRow /\ y.status = b.status /\ y.opened = b.opened /\ y.subtotal = b.subtotal
      /\ y.tax = b.tax
    BY <1>5 DEF BillRow
<1>9. bill'[o] = y /\ \A q \in Bills \ {o} : bill'[q] = bill[q]
    BY <1>1, <1>7 DEF BooksTyped
<1>10. a \in Nat /\ m \in Methods
    BY <1>6, BooksAssumption
<1>11. /\ payments' \in Seq(PaymentRow)
       /\ \A i \in DOMAIN payments' :
            \/ i \in DOMAIN payments /\ payments'[i] = payments[i]
            \/ /\ payments'[i].order = o
               /\ payments'[i].kind = "payment" => payments'[i].method \in Methods
    BY <1>6, <1>10, BookCapture
<1>12. BooksTyped'
    BY <1>1, <1>6, <1>7, <1>8, <1>11 DEF BooksTyped
<1>13. BillSound(o)'
    <2>1. bill'[o].opened = bill[o].opened /\ bill'[o].subtotal = bill[o].subtotal
          /\ bill'[o].tax = bill[o].tax /\ bill'[o].status = bill[o].status
        BY <1>4, <1>8, <1>9
    <2>2. /\ bill'[o].status \in {"none", "open"} => invoice'[o] = Books!NoInvoice
          /\ bill'[o].status = "settled" => invoice'[o] # Books!NoInvoice
          /\ invoice'[o] # Books!NoInvoice => invoice'[o].day \in BookDays
        BY <1>1, <1>6, <2>1 DEF BillSound
    <2>3. QED
        BY <1>6, <2>1, <2>2, BookStandsAt
<1>14. bill'[o].status # "none"
    BY <1>4, <1>6, <1>8, <1>9
<1>15. QED
    BY <1>6, <1>9, <1>11, <1>12, <1>13, <1>14, BookStep

LEMMA BookSettle ==
    ASSUME BookInv, NEW o \in Bills, Books!SettleAndInvoice(o)
    PROVE  BookInv'
<1>1. BooksTyped /\ BillSound(o) /\ today \in BookDays
    BY DEF BookInv, BooksTyped
<1>2. PICK b \in BillRow : b = bill[o]
    BY <1>1 DEF BooksTyped
<1>3. PICK y : y = [b EXCEPT !.status = "settled"]
    OBVIOUS
<1>4. PICK v : v = [status |-> "issued", day |-> today]
    OBVIOUS
<1>5. /\ bill[o].status = "open" /\ bill' = [bill EXCEPT ![o].status = "settled"]
      /\ invoice' = [invoice EXCEPT ![o] = v]
      /\ today' = today /\ item' = item /\ payments' = payments
    BY <1>4 DEF Books!SettleAndInvoice, Books!Status
<1>6. bill' = [bill EXCEPT ![o] = y]
    BY <1>2, <1>3, <1>5
<1>7. /\ y \in BillRow /\ y.status = "settled" /\ y.opened = b.opened /\ y.subtotal = b.subtotal
      /\ y.tax = b.tax
    BY <1>3 DEF BillRow
<1>8. v \in InvoiceRow /\ v.status = "issued" /\ v.day \in BookDays
    BY <1>1, <1>4 DEF InvoiceRow, BookDays
<1>9. v # Books!NoInvoice
    BY <1>8, InvoiceIs
<1>10. /\ bill'[o] = y /\ invoice'[o] = v
       /\ \A q \in Bills \ {o} : bill'[q] = bill[q] /\ invoice'[q] = invoice[q]
    BY <1>1, <1>5, <1>6 DEF BooksTyped
<1>11. BooksTyped'
    BY <1>1, <1>5, <1>6, <1>7, <1>8 DEF BooksTyped
<1>12. BillSound(o)'
    <2>1. bill'[o].opened = bill[o].opened /\ bill'[o].subtotal = bill[o].subtotal
          /\ bill'[o].tax = bill[o].tax /\ bill'[o].status = "settled"
        BY <1>2, <1>7, <1>10
    <2>2. invoice'[o] # Books!NoInvoice /\ invoice'[o].day \in BookDays
        BY <1>8, <1>9, <1>10
    <2>3. QED
        BY <1>5, <2>1, <2>2, BookStandsAt
<1>13. bill'[o].status # "none"
    BY <1>7, <1>10
<1>14. QED
    BY <1>5, <1>10, <1>11, <1>12, <1>13, BookStep

LEMMA BookVoidOrder ==
    ASSUME BookInv, NEW o \in Bills, Books!VoidOrder(o)
    PROVE  BookInv'
<1>1. BooksTyped /\ BillSound(o)
    BY DEF BookInv
<1>2. PICK b \in BillRow : b = bill[o]
    BY <1>1 DEF BooksTyped
<1>3. PICK y : y = [b EXCEPT !.status = "void"]
    OBVIOUS
<1>4. /\ bill[o].status = "open" /\ bill' = [bill EXCEPT ![o].status = "void"]
      /\ today' = today /\ item' = item /\ payments' = payments /\ invoice' = invoice
    BY DEF Books!VoidOrder, Books!Status
<1>5. bill' = [bill EXCEPT ![o] = y]
    BY <1>2, <1>3, <1>4
<1>6. /\ y \in BillRow /\ y.status = "void" /\ y.opened = b.opened /\ y.subtotal = b.subtotal
      /\ y.tax = b.tax
    BY <1>3 DEF BillRow
<1>7. bill'[o] = y /\ \A q \in Bills \ {o} : bill'[q] = bill[q] /\ invoice'[q] = invoice[q]
    BY <1>1, <1>4, <1>5 DEF BooksTyped
<1>8. BooksTyped'
    BY <1>1, <1>4, <1>5, <1>6 DEF BooksTyped
<1>9. BillSound(o)'
    <2>1. bill'[o].opened = bill[o].opened /\ bill'[o].subtotal = bill[o].subtotal
          /\ bill'[o].tax = bill[o].tax /\ bill'[o].status = "void"
        BY <1>2, <1>6, <1>7
    <2>2. invoice'[o] # Books!NoInvoice => invoice'[o].day \in BookDays
        BY <1>1, <1>4 DEF BillSound
    <2>3. QED
        BY <1>4, <2>1, <2>2, BookStandsAt
<1>10. bill'[o].status # "none"
    BY <1>6, <1>7
<1>11. QED
    BY <1>4, <1>7, <1>8, <1>9, <1>10, BookStep

LEMMA BookLeast ==
    ASSUME NEW S, S \subseteq Nat, S # {}
    PROVE  Books!Min(S) \in S
<1>1. PICK n \in S : \A k \in S : n <= k
    BY LeastElement
<1>2. QED
    BY <1>1 DEF Books!Min

LEMMA BookInitiateRefund ==
    ASSUME BookInv, NEW o \in Bills, NEW a \in {1, Books!Refundable(o)},
           Books!InitiateRefund(o, a)
    PROVE  BookInv'
<1>1. BooksTyped /\ BillSound(o) /\ invoice[o] \in InvoiceRow
    BY DEF BookInv, BooksTyped
<1>2. a > 0 /\ bill[o].status \in {"settled", "void"}
    BY DEF Books!InitiateRefund, Books!Status
<1>3. a \in Nat
    <2>1. Books!Captured(o, "refund") \in SUBSET DOMAIN payments
        BY DEF Books!Captured
    <2>2. Books!Refundable(o) \in Int
        BY <1>1, <2>1, TotalsAre, BillAt DEF Books!Refundable
    <2>3. QED
        BY <1>2, <2>2
<1>4. PICK S : S = Books!Captured(o, "payment")
    OBVIOUS
<1>5. PICK m : m = IF S = {} THEN "cash" ELSE payments[Books!Min(S)].method
    OBVIOUS
<1>6. m \in Methods \union {"cash"}
    <2>1. CASE S = {}
        BY <1>5, <2>1
    <2>2. CASE S # {}
        <3>1. S \subseteq DOMAIN payments /\ DOMAIN payments = 1..Len(payments)
            BY <1>1, <1>4 DEF Books!Captured, BooksTyped
        <3>2. S \subseteq Nat
            BY <3>1
        <3>3. Books!Min(S) \in S
            BY <2>2, <3>2, BookLeast
        <3>4. payments[Books!Min(S)] \in PaymentRow
            BY <1>1, <3>1, <3>3, AmountsAre
        <3>5. payments[Books!Min(S)].method \in Methods \union {"cash"}
            BY <3>4 DEF PaymentRow
        <3>6. QED
            BY <1>5, <2>2, <3>5
    <2>3. QED
        BY <2>1, <2>2
<1>7. PICK full \in BOOLEAN :
        full = (Books!TotalOf(Books!Captured(o, "refund")) + a >= bill[o].total)
    <2>1. Books!Captured(o, "refund") \in SUBSET DOMAIN payments
        BY DEF Books!Captured
    <2>2. PICK n \in Int, t \in Int : n = Books!TotalOf(Books!Captured(o, "refund")) + a /\ t = bill[o].total
        BY <1>1, <1>3, <2>1, TotalsAre, BillAt
    <2>3. (n >= t) \in BOOLEAN
        OBVIOUS
    <2>4. QED
        BY <2>2, <2>3
<1>8. /\ Books!Capture(o, "refund", m, a)
      /\ bill' = [bill EXCEPT ![o].status = IF full THEN "void" ELSE @]
      /\ invoice' = [invoice EXCEPT ![o].status = IF full /\ @ # "none" THEN "void" ELSE @]
      /\ today' = today /\ item' = item
    BY <1>4, <1>5, <1>7 DEF Books!InitiateRefund
<1>9. PICK b \in BillRow, v \in InvoiceRow : b = bill[o] /\ v = invoice[o]
    BY <1>1 DEF BooksTyped
<1>10. PICK to : to = IF full THEN "void" ELSE b.status
    OBVIOUS
<1>11. PICK as : as = IF full /\ v.status # "none" THEN "void" ELSE v.status
    OBVIOUS
<1>12. PICK y, z : y = [b EXCEPT !.status = to] /\ z = [v EXCEPT !.status = as]
    OBVIOUS
<1>13. bill' = [bill EXCEPT ![o] = y]
    BY <1>8, <1>9, <1>10, <1>12
<1>14. invoice' = [invoice EXCEPT ![o] = z]
    BY <1>8, <1>9, <1>11, <1>12
<1>15. to \in {b.status, "void"} /\ as \in {v.status, "void"} /\ (v.status = "none" => as = "none")
    BY <1>10, <1>11
<1>16. /\ y \in BillRow /\ y.status = to /\ y.opened = b.opened /\ y.subtotal = b.subtotal
       /\ y.tax = b.tax
    BY <1>12, <1>15 DEF BillRow
<1>17. z \in InvoiceRow /\ z.status = as /\ z.day = v.day
    BY <1>12, <1>15 DEF InvoiceRow
<1>18. z # Books!NoInvoice <=> v # Books!NoInvoice
    BY <1>15, <1>17, InvoiceIs
<1>19. /\ bill'[o] = y /\ invoice'[o] = z
       /\ \A q \in Bills \ {o} : bill'[q] = bill[q] /\ invoice'[q] = invoice[q]
    BY <1>1, <1>13, <1>14 DEF BooksTyped
<1>20. /\ payments' \in Seq(PaymentRow)
       /\ \A n \in DOMAIN payments' :
            \/ n \in DOMAIN payments /\ payments'[n] = payments[n]
            \/ /\ payments'[n].order = o
               /\ payments'[n].kind = "payment" => payments'[n].method \in Methods
    BY <1>3, <1>6, <1>8, BookCapture
<1>21. BooksTyped'
    BY <1>1, <1>8, <1>13, <1>14, <1>16, <1>17, <1>20 DEF BooksTyped
<1>22. bill'[o].status \in {"settled", "void"}
    BY <1>2, <1>9, <1>15, <1>16, <1>19
<1>23. BillSound(o)'
    <2>1. bill'[o].opened = bill[o].opened /\ bill'[o].subtotal = bill[o].subtotal
          /\ bill'[o].tax = bill[o].tax
        BY <1>9, <1>16, <1>19
    <2>2. bill'[o].status = "settled" => invoice'[o] # Books!NoInvoice
        <3>1. bill'[o].status = "settled" => b.status = "settled"
            BY <1>15, <1>16, <1>19
        <3>2. b.status = "settled" => v # Books!NoInvoice
            BY <1>1, <1>9 DEF BillSound
        <3>3. QED
            BY <1>18, <1>19, <3>1, <3>2
    <2>3. invoice'[o] # Books!NoInvoice => invoice'[o].day \in BookDays
        BY <1>1, <1>9, <1>17, <1>18, <1>19 DEF BillSound
    <2>4. QED
        BY <1>2, <1>8, <1>22, <2>1, <2>2, <2>3, BookStandsAt
<1>24. QED
    BY <1>8, <1>19, <1>20, <1>21, <1>22, <1>23, BookStep

LEMMA BookNext == BookInv /\ [Books!Next]_bookVars => BookInv'
<1> SUFFICES ASSUME BookInv, [Books!Next]_bookVars PROVE BookInv'
    OBVIOUS
<1>1. CASE UNCHANGED bookVars
    BY <1>1, BookStays
<1>2. CASE Books!NextDay
    BY <1>2, BookNextDay
<1>3. ASSUME NEW o \in Bills, Books!CreateOrder(o) PROVE BookInv'
    BY <1>3, BookCreateOrder
<1>4. ASSUME NEW o \in Bills, Books!SettleAndInvoice(o) PROVE BookInv'
    BY <1>4, BookSettle
<1>5. ASSUME NEW o \in Bills, Books!VoidOrder(o) PROVE BookInv'
    BY <1>5, BookVoidOrder
<1>6. ASSUME NEW o \in Bills, NEW i \in Items, Books!AddItem(o, i) PROVE BookInv'
    BY <1>6, BookAddItem
<1>7. ASSUME NEW o \in Bills, NEW off \in Discounts[o], Books!ApplyDiscount(o, off) PROVE BookInv'
    BY <1>7, BookApplyDiscount
<1>8. ASSUME NEW o \in Bills, NEW m \in Tender[o], Books!AddPayment(o, m, Books!Due(o))
      PROVE  BookInv'
    BY <1>8, BookAddPayment
<1>9. ASSUME NEW o \in Bills, NEW a \in {1, Books!Refundable(o)}, Books!InitiateRefund(o, a)
      PROVE  BookInv'
    BY <1>9, BookInitiateRefund
<1>10. ASSUME NEW i \in Items, Books!VoidItem(i) PROVE BookInv'
    BY <1>10, BookVoidItem
<1>11. QED
    BY <1>1, <1>2, <1>3, <1>4, <1>5, <1>6, <1>7, <1>8, <1>9, <1>10 DEF Books!Next

-----------------------------------------------------------------------------
(* Columns of the order table, and what splits them.                           *)

LEMMA ColumnsAre ==
    ASSUME BooksTyped, NEW c \in {"subtotal", "discount", "tax", "total"}
    PROVE  /\ IsSummable(Books!Column(c)) /\ DOMAIN Books!Column(c) = Bills
           /\ \A o \in Bills : Books!Column(c)[o] = bill[o][c] /\ bill[o][c] \in Int
           /\ c \in {"subtotal", "tax"} => \A o \in Bills : bill[o][c] \in Nat
<1>1. \A o \in Bills : bill[o][c] \in Int /\ (c \in {"subtotal", "tax"} => bill[o][c] \in Nat)
    BY BillAt
<1>2. DOMAIN Books!Column(c) = Bills /\ \A o \in Bills : Books!Column(c)[o] = bill[o][c]
    BY DEF Books!Column
<1>3. IsSummable(Books!Column(c))
    BY <1>1, <1>2, BillsAre DEF IsSummable
<1>4. QED
    BY <1>1, <1>2, <1>3

LEMMA OrdersIn ==
    ASSUME NEW range
    PROVE  /\ Books!OpenedIn(range) \subseteq Bills
           /\ Books!SettledIn(range) \subseteq Books!NotVoid(Books!OpenedIn(range))
           /\ Books!NotVoid(Books!OpenedIn(range)) \subseteq Books!OpenedIn(range)
           /\ Books!SettledIn(range) \subseteq Books!OpenedIn(range)
           /\ Books!SettledIn(range) \subseteq Bills
BY DEF Books!OpenedIn, Books!SettledIn, Books!NotVoid

\* Totals and taxes of a set of orders and of the rest.
LEMMA TotalsSplit ==
    ASSUME BooksTyped, NEW S \in SUBSET Bills, NEW A \in SUBSET S
    PROVE  /\ Books!Total(S) = Books!Total(A) + Books!Total(S \ A)
           /\ Books!Tax(S) = Books!Tax(A) + Books!Tax(S \ A)
           /\ Books!Gross(S) = Books!Gross(A) + Books!Gross(S \ A)
           /\ Books!Total(A) \in Int /\ Books!Tax(A) \in Int /\ Books!Gross(A) \in Int
<1>1. \A c \in {"subtotal", "discount", "tax", "total"} :
          /\ SumIn(Books!Column(c), S) = SumIn(Books!Column(c), A) + SumIn(Books!Column(c), S \ A)
          /\ SumIn(Books!Column(c), A) \in Int
    <2> SUFFICES ASSUME NEW c \in {"subtotal", "discount", "tax", "total"}
                 PROVE  /\ SumIn(Books!Column(c), S)
                             = SumIn(Books!Column(c), A) + SumIn(Books!Column(c), S \ A)
                        /\ SumIn(Books!Column(c), A) \in Int
        OBVIOUS
    <2>1. PICK f : f = Books!Column(c)
        OBVIOUS
    <2>2. IsSummable(f) /\ S \in SUBSET DOMAIN f /\ A \in SUBSET DOMAIN f
        BY <2>1, ColumnsAre
    <2>3. SumIn(f, S) = SumIn(f, A) + SumIn(f, S \ A)
        BY <2>2, SumInSplit
    <2>4. SumIn(f, A) \in Int
        BY <2>2, SumInInt
    <2>5. QED
        BY <2>1, <2>3, <2>4
<1>2. QED
    BY <1>1, BookSums DEF Books!Total, Books!Tax, Books!Gross

\* Money of a set of payment rows and of the rest.
LEMMA MoneySplits ==
    ASSUME BooksTyped, NEW N \in SUBSET DOMAIN payments, NEW A \in SUBSET N
    PROVE  /\ Books!TotalOf(N) = Books!TotalOf(A) + Books!TotalOf(N \ A)
           /\ Books!TotalOf(A) \in Nat
<1>1. PICK f : f = [n \in DOMAIN payments |-> payments[n].amount]
    OBVIOUS
<1>2. IsSummable(f) /\ N \in SUBSET DOMAIN f /\ A \in SUBSET DOMAIN f /\ \A n \in A : f[n] \in Nat
    BY <1>1, AmountsAre
<1>3. SumIn(f, N) = SumIn(f, A) + SumIn(f, N \ A)
    BY <1>2, SumInSplit
<1>4. SumIn(f, A) \in Nat
    BY <1>2, SumInNat
<1>5. QED
    BY <1>1, <1>3, <1>4, BookSums DEF Books!TotalOf

\* However payment rows are grouped, the groups' money adds up to all of it.
LEMMA MoneyGroups ==
    ASSUME BooksTyped, NEW N \in SUBSET DOMAIN payments, NEW K, IsFiniteSet(K), NEW key,
           \A n \in N : key[n] \in K
    PROVE  SumOver([k \in K |-> Books!TotalOf({n \in N : key[n] = k})]) = Books!TotalOf(N)
<1>1. PICK f : f = [n \in DOMAIN payments |-> payments[n].amount]
    OBVIOUS
<1>2. IsSummable(f) /\ N \in SUBSET DOMAIN f
    BY <1>1, AmountsAre
<1>3. SumOver([k \in K |-> SumIn(f, {n \in N : key[n] = k})]) = SumIn(f, N)
    BY <1>2, GroupsAddUp
<1>4. \A M : Books!TotalOf(M) = SumIn(f, M)
    BY <1>1, BookSums DEF Books!TotalOf
<1>5. QED
    BY <1>3, <1>4

\* Without a filter on the method an order is there once.
LEMMA JoinedOnce ==
    ASSUME BooksTyped, NEW S \in SUBSET Bills
    PROVE  /\ \A o \in Bills : Books!Times(o, AnyMethod) = 1
           /\ SumIn(Books!JoinedColumn("total", AnyMethod), S) = Books!Total(S)
           /\ SumIn(Books!JoinedColumn("tax", AnyMethod), S) = Books!Tax(S)
           /\ SumIn(Books!JoinedColumn("subtotal", AnyMethod), S) = Books!Gross(S)
<1>1. \A o \in Bills : Books!Times(o, AnyMethod) = 1
    BY DEF Books!Times
<1>2. \A c \in {"subtotal", "discount", "tax", "total"} :
          Books!JoinedColumn(c, AnyMethod) = Books!Column(c)
    BY <1>1, ColumnsAre DEF Books!JoinedColumn, Books!Column
<1>3. QED
    BY <1>1, <1>2, BookSums DEF Books!Total, Books!Tax, Books!Gross

LEMMA JoinedAre ==
    ASSUME BooksTyped, NEW m
    PROVE  /\ IsSummable(Books!Joined(m)) /\ DOMAIN Books!Joined(m) = Bills
           /\ \A c \in {"subtotal", "discount", "tax", "total"} :
                 IsSummable(Books!JoinedColumn(c, m)) /\ DOMAIN Books!JoinedColumn(c, m) = Bills
<1>1. \A o \in Bills : Books!Times(o, m) \in Nat
    <2> SUFFICES ASSUME NEW o \in Bills PROVE Books!Times(o, m) \in Nat
        OBVIOUS
    <2>1. PICK N : N = {n \in DOMAIN payments : payments[n].order = o /\ payments[n].method = m}
        OBVIOUS
    <2>2. N \subseteq DOMAIN payments /\ IsFiniteSet(DOMAIN payments)
        BY <2>1, AmountsAre
    <2>3. IsFiniteSet(N)
        BY <2>2, FS_Subset
    <2>4. Cardinality(N) \in Nat
        BY <2>3, FS_CardinalityType
    <2>5. QED
        BY <2>1, <2>4, BookCount DEF Books!Times
<1>2. \A a \in Nat, b \in Int : a * b \in Int
    OBVIOUS
<1>3. IsSummable(Books!Joined(m)) /\ DOMAIN Books!Joined(m) = Bills
    BY <1>1, BillsAre DEF Books!Joined, IsSummable
<1>4. ASSUME NEW c \in {"subtotal", "discount", "tax", "total"}
      PROVE  IsSummable(Books!JoinedColumn(c, m)) /\ DOMAIN Books!JoinedColumn(c, m) = Bills
    <2>1. \A o \in Bills : Books!Times(o, m) * bill[o][c] \in Int
        BY <1>1, <1>2, ColumnsAre
    <2>2. DOMAIN Books!JoinedColumn(c, m) = Bills
          /\ \A o \in Bills : Books!JoinedColumn(c, m)[o] = Books!Times(o, m) * bill[o][c]
        BY DEF Books!JoinedColumn
    <2>3. QED
        BY <2>1, <2>2, BillsAre DEF IsSummable
<1>5. QED
    BY <1>3, <1>4

-----------------------------------------------------------------------------
(* The pages agree: a day's kept orders are the settled and the pending ones.  *)

LEMMA SalesAre ==
    ASSUME BooksTyped, NEW range
    PROVE  /\ Books!Sales(range, AnyMethod) = Books!SettledIn(range)
           /\ \A m : Books!Sales(range, m) \subseteq Bills
<1>1. \A o \in Bills : Books!Times(o, AnyMethod) > 0
    BY JoinedOnce
<1>2. Books!SettledIn(range) \subseteq Bills
    BY OrdersIn
<1>3. Books!Sales(range, AnyMethod) = Books!SettledIn(range)
    BY <1>1, <1>2 DEF Books!Sales
<1>4. \A m : Books!Sales(range, m) \subseteq Bills
    BY <1>2 DEF Books!Sales
<1>5. QED
    BY <1>3, <1>4

LEMMA SalesRowIs ==
    ASSUME BooksTyped, NEW S \in SUBSET Bills
    PROVE  /\ Books!SalesRow(S, AnyMethod).net = Books!Total(S)
           /\ Books!SalesRow(S, AnyMethod).gross = Books!Gross(S)
           /\ Books!SalesRow(S, AnyMethod).taxes = Books!Tax(S)
<1>1. \A c \in {"subtotal", "tax", "total"} :
          Books!SumIn(Books!JoinedColumn(c, AnyMethod), S) = SumIn(Books!JoinedColumn(c, AnyMethod), S)
    BY BookSums
<1>2. QED
    BY <1>1, JoinedOnce DEF Books!SalesRow

LEMMA PagesDoAgree == BookInv => Books!PagesAgree
<1> SUFFICES ASSUME BookInv PROVE Books!PagesAgree
    OBVIOUS
<1>0. BooksTyped
    BY DEF BookInv
<1>1. ASSUME NEW d
      PROVE  LET home == Books!Home(d)
                 billing == Books!BillingDay(d)
                 summary == Books!Summary(d)
             IN  /\ home.revenue = billing.revenue + billing.pending
                 /\ summary.sales = home.revenue /\ summary.orders = home.orders
                 /\ summary.pending = billing.pending /\ summary.refunds = billing.refunds
                 /\ home.orders + home.cancelled = Books!Cardinality(Books!OpenedIn({d}))
                 /\ \A e \in Books!Days : d \in DOMAIN Books!Home(e).chart =>
                                           Books!Home(e).chart[d] = home.revenue
                 /\ billing.revenue = Books!SalesKpis({d}, AnyMethod).sales.net
    <2> DEFINE all == Books!OpenedIn({d})
               kept == Books!NotVoid(all)
               settled == Books!SettledIn({d})
               cancelled == {o \in all : Books!Status(o) = "void"}
    <2>1. settled \subseteq kept /\ kept \subseteq all /\ all \subseteq Bills
        BY OrdersIn
    <2>2. all \ cancelled = kept /\ cancelled \subseteq all
        BY DEF Books!NotVoid
    <2>3. Books!Total(kept) = Books!Total(settled) + Books!Total(kept \ settled)
        BY <1>0, <2>1, TotalsSplit
    <2>4. Books!Cardinality(kept) + Books!Cardinality(cancelled) = Books!Cardinality(all)
        <3>1. IsFiniteSet(all)
            BY <2>1, BillsAre, FS_Subset
        <3>2. IsFiniteSet(cancelled) /\ all \cap cancelled = cancelled
            BY <2>2, <3>1, FS_Subset
        <3>3. Cardinality(all) \in Nat /\ Cardinality(cancelled) \in Nat
            BY <3>1, <3>2, FS_CardinalityType
        <3>4. Cardinality(kept) = Cardinality(all) - Cardinality(cancelled)
            BY <2>2, <3>1, <3>2, FS_Difference
        <3>5. QED
            BY <3>3, <3>4, BookCount
    <2>5. /\ Books!Home(d).revenue = Books!Total(kept)
          /\ Books!Home(d).orders = Books!Cardinality(kept)
          /\ Books!Home(d).cancelled = Books!Cardinality(cancelled)
        BY <2>2 DEF Books!Home
    <2>6. /\ Books!Summary(d).sales = Books!Total(kept)
          /\ Books!Summary(d).orders = Books!Cardinality(kept)
          /\ Books!Summary(d).pending = Books!Total(kept \ settled)
          /\ Books!Summary(d).refunds = Books!TotalOf(Books!PaidFor(all, "refund"))
        BY DEF Books!Summary
    <2>7. /\ Books!BillingDay(d).revenue = Books!Total(settled)
          /\ Books!BillingDay(d).pending = Books!Total(kept \ settled)
          /\ Books!BillingDay(d).refunds = Books!TotalOf(Books!PaidFor(all, "refund"))
        BY DEF Books!BillingDay
    <2>8. ASSUME NEW e, d \in DOMAIN Books!Home(e).chart
          PROVE  Books!Home(e).chart[d] = Books!Total(kept)
        <3>1. Books!Home(e).chart
                = [n \in (e - 13)..e |-> Books!Total(Books!NotVoid(Books!OpenedIn({n})))]
            BY DEF Books!Home
        <3>2. QED
            BY <2>8, <3>1
    <2>9. Books!SalesKpis({d}, AnyMethod).sales.net = Books!Total(settled)
        <3>1. Books!SalesKpis({d}, AnyMethod).sales = Books!SalesRow(settled, AnyMethod)
            BY <1>0, SalesAre DEF Books!SalesKpis
        <3>2. QED
            BY <1>0, <2>1, <3>1, SalesRowIs
    <2> HIDE DEF all, kept, settled, cancelled
    <2>10. QED
        BY <2>3, <2>4, <2>5, <2>6, <2>7, <2>8, <2>9 DEF all
<1>2. QED
    BY <1>1 DEF Books!PagesAgree

-----------------------------------------------------------------------------
(* However sales are split, the rows add up.                                   *)

LEMMA RowsAddUp ==
    ASSUME BooksTyped, NEW key, NEW range, NEW m, NEW c \in {"orders", "taxes", "net"}
    PROVE  Books!AddUp(Books!SalesRows(key, range, m), c)
             = Books!SalesRow(Books!Sales(range, m), m)[c]
<1>1. PICK of, S : of = Books!Keyed(key) /\ S = Books!Sales(range, m)
    OBVIOUS
<1>2. PICK f : /\ IsSummable(f) /\ DOMAIN f = Bills
               /\ \A T : Books!SalesRow(T, m)[c] = SumIn(f, T)
    <2>1. CASE c = "orders"
        <3>1. \A T : Books!SalesRow(T, m)[c] = SumIn(Books!Joined(m), T)
            BY <2>1, BookSums DEF Books!SalesRow
        <3>2. QED
            BY <3>1, JoinedAre
    <2>2. CASE c = "taxes"
        <3>1. \A T : Books!SalesRow(T, m)[c] = SumIn(Books!JoinedColumn("tax", m), T)
            BY <2>2, BookSums DEF Books!SalesRow
        <3>2. QED
            BY <3>1, JoinedAre
    <2>3. CASE c = "net"
        <3>1. \A T : Books!SalesRow(T, m)[c] = SumIn(Books!JoinedColumn("total", m), T)
            BY <2>3, BookSums DEF Books!SalesRow
        <3>2. QED
            BY <3>1, JoinedAre
    <2>4. QED
        BY <2>1, <2>2, <2>3
<1>3. Books!SalesRows(key, range, m)
        = [k \in {of[o] : o \in S} |-> Books!SalesRow({o \in S : of[o] = k}, m)]
    BY <1>1 DEF Books!SalesRows
<1>4. Books!AddUp(Books!SalesRows(key, range, m), c)
        = SumOver([k \in {of[o] : o \in S} |-> Books!SalesRow({o \in S : of[o] = k}, m)[c]])
    <2>1. PICK rows : rows = Books!SalesRows(key, range, m)
        OBVIOUS
    <2>2. Books!AddUp(rows, c) = SumOver([k \in DOMAIN rows |-> rows[k][c]])
        BY BookSums DEF Books!AddUp
    <2>3. [k \in DOMAIN rows |-> rows[k][c]]
            = [k \in {of[o] : o \in S} |-> Books!SalesRow({o \in S : of[o] = k}, m)[c]]
        BY <1>3, <2>1
    <2>4. QED
        BY <2>1, <2>2, <2>3
<1>5. [k \in {of[o] : o \in S} |-> Books!SalesRow({o \in S : of[o] = k}, m)[c]]
        = [k \in {of[o] : o \in S} |-> SumIn(f, {o \in S : of[o] = k})]
    BY <1>2
<1>6. S \in SUBSET DOMAIN f
    BY <1>1, <1>2, SalesAre
<1>7. SumOver([k \in {of[o] : o \in S} |-> SumIn(f, {o \in S : of[o] = k})]) = SumIn(f, S)
    BY <1>2, <1>6, GroupsOfKeys
<1>8. QED
    BY <1>1, <1>2, <1>4, <1>5, <1>7

LEMMA ChartAddsUp ==
    ASSUME BooksTyped, NEW range
    PROVE  Books!SumOver(Books!Chart(range)) = Books!Total(Books!SettledIn(range))
<1>1. PICK f, S : f = Books!Column("total") /\ S = Books!SettledIn(range)
    OBVIOUS
<1>2. PICK of : of = [o \in Bills |-> bill[o].opened]
    OBVIOUS
<1>3. IsSummable(f) /\ S \in SUBSET DOMAIN f
    BY <1>1, ColumnsAre, OrdersIn
<1>4. S \subseteq Bills
    BY <1>1, OrdersIn
<1>5. {bill[o].opened : o \in S} = {of[o] : o \in S}
    BY <1>2, <1>4
<1>6. \A d \in {of[o] : o \in S} : Books!SettledIn({d}) = {o \in S : of[o] = d}
    BY <1>1, <1>2 DEF Books!SettledIn, Books!OpenedIn
<1>7. \A T : Books!Total(T) = SumIn(f, T)
    BY <1>1, BookSums DEF Books!Total
<1>8. Books!Chart(range) = [d \in {of[o] : o \in S} |-> SumIn(f, {o \in S : of[o] = d})]
    BY <1>1, <1>5, <1>6, <1>7 DEF Books!Chart
<1>9. SumOver([d \in {of[o] : o \in S} |-> SumIn(f, {o \in S : of[o] = d})]) = SumIn(f, S)
    BY <1>3, GroupsOfKeys
<1>10. QED
    BY <1>1, <1>7, <1>8, <1>9, BookSums

LEMMA SplitsDoAddUp == BookInv => Books!SplitsAddUp
<1> SUFFICES ASSUME BookInv PROVE Books!SplitsAddUp
    OBVIOUS
<1>0. BooksTyped
    BY DEF BookInv
<1>1. ASSUME NEW range
      PROVE  LET net(rows) == Books!AddUp(rows, "net")
                 plain == Books!SalesKpis(range, AnyMethod)
             IN  /\ \A key \in {"day", "week", "month", "year", "cashier", "branch"} :
                       net(Books!SalesRows(key, range, AnyMethod)) = plain.sales.net
                 /\ \A m \in Methods :
                       net(Books!SalesRows("cashier", range, m)) = Books!SalesKpis(range, m).sales.net
                 /\ Books!AddUp(Books!SalesRows("day", range, AnyMethod), "orders") = plain.sales.orders
                 /\ Books!SumOver(Books!Chart(range)) = plain.sales.net
                 /\ Books!AddUp(Books!SalesMetrics("year", range), "taxes") = Books!TaxReport(range).tax
                 /\ net(Books!Export("staff", range)) = Books!Export("financial", range).sales.net
                 /\ plain.categories = Books!TopCategories(range)
    <2>1. PICK S : S = Books!SettledIn(range)
        OBVIOUS
    <2>2. S \subseteq Bills /\ Books!Sales(range, AnyMethod) = S
        BY <1>0, <2>1, OrdersIn, SalesAre
    <2>3. \A m : Books!SalesKpis(range, m).sales = Books!SalesRow(Books!Sales(range, m), m)
        BY DEF Books!SalesKpis
    <2>4. \A key, m : Books!AddUp(Books!SalesRows(key, range, m), "net")
                        = Books!SalesKpis(range, m).sales.net
        BY <1>0, <2>3, RowsAddUp
    <2>5. Books!AddUp(Books!SalesRows("day", range, AnyMethod), "orders")
            = Books!SalesKpis(range, AnyMethod).sales.orders
        BY <1>0, <2>3, RowsAddUp
    <2>6. Books!SalesKpis(range, AnyMethod).sales.net = Books!Total(S)
          /\ Books!SalesRow(S, AnyMethod).taxes = Books!Tax(S)
        BY <1>0, <2>2, <2>3, SalesRowIs
    <2>7. Books!SumOver(Books!Chart(range)) = Books!SalesKpis(range, AnyMethod).sales.net
        BY <1>0, <2>1, <2>6, ChartAddsUp
    <2>8. Books!AddUp(Books!SalesMetrics("year", range), "taxes") = Books!TaxReport(range).tax
        <3>1. Books!SalesMetrics("year", range) = Books!SalesRows("month", range, AnyMethod)
            BY DEF Books!SalesMetrics
        <3>2. Books!TaxReport(range).tax = Books!Tax(S)
            BY <2>1 DEF Books!TaxReport
        <3>3. Books!AddUp(Books!SalesRows("month", range, AnyMethod), "taxes")
                = Books!SalesRow(S, AnyMethod).taxes
            BY <1>0, <2>2, RowsAddUp
        <3>4. QED
            BY <2>6, <3>1, <3>2, <3>3
    <2>9. Books!AddUp(Books!Export("staff", range), "net")
            = Books!Export("financial", range).sales.net
        <3>1. Books!Export("staff", range) = Books!SalesRows("cashier", range, AnyMethod)
            BY DEF Books!Export
        <3>2. Books!Export("financial", range).sales = Books!SalesRow(S, AnyMethod)
            BY <2>1 DEF Books!Export
        <3>3. QED
            BY <2>2, <2>3, <2>4, <3>1, <3>2
    <2>10. Books!SalesKpis(range, AnyMethod).categories = Books!TopCategories(range)
        BY <2>1, <2>2 DEF Books!SalesKpis, Books!TopCategories
    <2>11. QED
        BY <2>4, <2>5, <2>7, <2>8, <2>9, <2>10
<1>2. QED
    BY <1>1 DEF Books!SplitsAddUp

-----------------------------------------------------------------------------
(* Items sold make the gross sales.                                            *)

\* The live lines of a set of orders are their subtotals, voided lines apart.
LEMMA LinesAreSubtotals ==
    ASSUME BookInv, NEW S \in SUBSET Bills
    PROVE  /\ Books!Lines(S) \in SUBSET Items
           /\ SumIn(Books!LineTotals, Books!Lines(S))
                = Books!Gross(S)
                    + SumIn(Books!LineTotals, {i \in Books!Lines(S) : ~item[i].active})
<1>0. BooksTyped
    BY DEF BookInv
<1>1. PICK f, rows : f = Books!LineTotals /\ rows = Books!Lines(S)
    OBVIOUS
<1>2. IsSummable(f) /\ DOMAIN f = Items /\ rows \in SUBSET Items
    BY <1>1, LineTotalsAre DEF Books!Lines
<1>3. PICK gone, kept : gone = {i \in rows : ~item[i].active} /\ kept = {i \in rows : item[i].active}
    OBVIOUS
<1>4. kept = rows \ gone /\ gone \in SUBSET rows /\ kept \in SUBSET Items
    BY <1>2, <1>3
<1>5. SumIn(f, rows) = SumIn(f, gone) + SumIn(f, kept)
    BY <1>2, <1>4, SumInSplit
<1>6. SumIn(f, gone) \in Int /\ SumIn(f, kept) \in Int
    BY <1>2, <1>3, SumInInt
<1>7. PICK of : of = [i \in Items |-> item[i].order]
    OBVIOUS
<1>8. \A i \in kept : of[i] \in S
    BY <1>1, <1>2, <1>3, <1>7 DEF Books!Lines
<1>9. IsFiniteSet(S)
    BY BillsAre, FS_Subset
<1>10. SumOver([o \in S |-> SumIn(f, {i \in kept : of[i] = o})]) = SumIn(f, kept)
    <2>1. kept \in SUBSET DOMAIN f
        BY <1>2, <1>4
    <2>2. QED
        BY <1>2, <1>8, <1>9, <2>1, GroupsAddUp
<1>11. \A o \in S : {i \in kept : of[i] = o} = Books!LiveOf(item, o)
    BY <1>1, <1>2, <1>3, <1>7 DEF Books!Lines, Books!LiveOf
<1>12. \A o \in S : SumIn(f, {i \in kept : of[i] = o}) = bill[o].subtotal
    BY <1>1, <1>11 DEF BookInv, BillSound
<1>13. PICK g : g = Books!Column("subtotal")
    OBVIOUS
<1>14. IsSummable(g) /\ DOMAIN g = Bills /\ \A o \in Bills : g[o] = bill[o]["subtotal"]
    BY <1>0, <1>13, ColumnsAre
<1>15. [o \in S |-> SumIn(f, {i \in kept : of[i] = o})] = [o \in S |-> g[o]]
    BY <1>12, <1>14
<1>16. SumOver([o \in S |-> g[o]]) = SumIn(g, S)
    BY <1>14, SumOverPart DEF SumIn
<1>17. Books!Gross(S) = SumIn(g, S)
    BY <1>13, BookSums DEF Books!Gross
<1>18. SumIn(f, kept) = Books!Gross(S)
    BY <1>10, <1>15, <1>16, <1>17
<1>19. PICK a \in Int, b \in Int : a = SumIn(f, gone) /\ b = SumIn(f, kept)
    BY <1>6
<1>20. SumIn(f, rows) = b + a
    BY <1>5, <1>19
<1>21. SumIn(f, rows) = Books!Gross(S) + SumIn(f, gone)
    BY <1>18, <1>19, <1>20
<1>22. {i \in Books!Lines(S) : ~item[i].active} = gone
    BY <1>1, <1>3
<1>23. Books!Lines(S) \in SUBSET Items
    BY <1>1, <1>2
<1>24. QED
    BY <1>1, <1>21, <1>22, <1>23

\* Rows by product and by rate add up to the lines they group.
LEMMA ItemRowsAddUp ==
    ASSUME BooksTyped, NEW range
    PROVE  Books!AddUp(Books!ItemRows(range), "revenue")
             = SumIn(Books!LineTotals, Books!Lines(Books!SettledIn(range)))
<1>1. PICK f, rows : f = Books!LineTotals /\ rows = Books!Lines(Books!SettledIn(range))
    OBVIOUS
<1>2. IsSummable(f) /\ DOMAIN f = Items /\ rows \in SUBSET DOMAIN f
    BY <1>1, LineTotalsAre DEF Books!Lines
<1>3. PICK of : of = [i \in Items |-> Sold[i].product]
    OBVIOUS
<1>4. PICK table : table = Books!ItemRows(range)
    OBVIOUS
<1>5. /\ DOMAIN table = {Sold[i].product : i \in rows}
      /\ \A p \in DOMAIN table : table[p].revenue = SumIn(f, {i \in rows : Sold[i].product = p})
    BY <1>1, <1>4, BookSums DEF Books!ItemRows
<1>6. \A p : {i \in rows : Sold[i].product = p} = {i \in rows : of[i] = p}
    BY <1>2, <1>3
<1>7. {Sold[i].product : i \in rows} = {of[i] : i \in rows}
    BY <1>2, <1>3
<1>8. [p \in DOMAIN table |-> table[p]["revenue"]]
        = [p \in {of[i] : i \in rows} |-> SumIn(f, {i \in rows : of[i] = p})]
    BY <1>5, <1>6, <1>7
<1>9. SumOver([p \in {of[i] : i \in rows} |-> SumIn(f, {i \in rows : of[i] = p})]) = SumIn(f, rows)
    BY <1>2, GroupsOfKeys
<1>10. Books!AddUp(table, "revenue") = SumOver([p \in DOMAIN table |-> table[p]["revenue"]])
    BY BookSums DEF Books!AddUp
<1>11. QED
    BY <1>1, <1>4, <1>8, <1>9, <1>10

LEMMA RateRowsAddUp ==
    ASSUME BooksTyped, NEW range
    PROVE  Books!AddUp(Books!HsnSummary(range), "taxable")
             = SumIn(Books!LineTotals, Books!Lines(Books!SettledIn(range)))
<1>1. PICK f, rows : f = Books!LineTotals /\ rows = Books!Lines(Books!SettledIn(range))
    OBVIOUS
<1>2. IsSummable(f) /\ DOMAIN f = Items /\ rows \in SUBSET DOMAIN f
    BY <1>1, LineTotalsAre DEF Books!Lines
<1>3. PICK of : of = [i \in Items |-> Sold[i].rate]
    OBVIOUS
<1>4. PICK table : table = Books!HsnSummary(range)
    OBVIOUS
<1>5. /\ DOMAIN table = {Sold[i].rate : i \in rows}
      /\ \A r \in DOMAIN table : table[r].taxable = SumIn(f, {i \in rows : Sold[i].rate = r})
    BY <1>1, <1>4, BookSums DEF Books!HsnSummary
<1>6. \A r : {i \in rows : Sold[i].rate = r} = {i \in rows : of[i] = r}
    BY <1>2, <1>3
<1>7. {Sold[i].rate : i \in rows} = {of[i] : i \in rows}
    BY <1>2, <1>3
<1>8. [r \in DOMAIN table |-> table[r]["taxable"]]
        = [r \in {of[i] : i \in rows} |-> SumIn(f, {i \in rows : of[i] = r})]
    BY <1>5, <1>6, <1>7
<1>9. SumOver([r \in {of[i] : i \in rows} |-> SumIn(f, {i \in rows : of[i] = r})]) = SumIn(f, rows)
    BY <1>2, GroupsOfKeys
<1>10. Books!AddUp(table, "taxable") = SumOver([r \in DOMAIN table |-> table[r]["taxable"]])
    BY BookSums DEF Books!AddUp
<1>11. QED
    BY <1>1, <1>4, <1>8, <1>9, <1>10

\* The tax report's three kinds of sales are the gross sales.
LEMMA KindsOfSales ==
    ASSUME BooksTyped, NEW range
    PROVE  /\ Books!TaxReport(range).taxable + Books!TaxReport(range).exempt
                + Books!TaxReport(range).nonTaxable = Books!Gross(Books!SettledIn(range))
           /\ Books!TaxReport(range).tax = Books!Tax(Books!SettledIn(range))
<1>1. PICK S \in SUBSET Bills : S = Books!SettledIn(range)
    BY OrdersIn
<1>2. PICK taxed : taxed = {o \in S : bill[o].tax > 0}
    OBVIOUS
<1>3. PICK after : after = [o \in Bills |-> bill[o].subtotal - bill[o].discount]
    OBVIOUS
<1>4. PICK off : off = [o \in Bills |-> bill[o].subtotal - after[o]]
    OBVIOUS
<1>5. PICK f : f = Books!Column("subtotal")
    OBVIOUS
<1>6. IsSummable(f) /\ DOMAIN f = Bills /\ \A o \in Bills : f[o] = bill[o].subtotal
    BY <1>5, ColumnsAre
<1>7. \A o \in Bills : bill[o].subtotal \in Int /\ bill[o].discount \in Int /\ bill[o].tax \in Nat
    BY BillAt
<1>8. /\ IsSummable(after) /\ DOMAIN after = Bills /\ IsSummable(off) /\ DOMAIN off = Bills
      /\ \A o \in Bills : f[o] = after[o] + off[o]
    BY <1>3, <1>4, <1>6, <1>7, BillsAre DEF IsSummable
<1>9. S \ taxed = {o \in S : bill[o].tax = 0} /\ taxed \in SUBSET S /\ taxed \in SUBSET Bills
    BY <1>2, <1>7
<1>10. SumIn(f, taxed) = SumIn(after, taxed) + SumIn(off, taxed)
    <2>1. taxed \subseteq DOMAIN f /\ taxed \subseteq DOMAIN after /\ taxed \subseteq DOMAIN off
          /\ \A o \in taxed : f[o] = after[o] + off[o]
        BY <1>6, <1>8, <1>9
    <2>2. QED
        BY <1>6, <1>8, <2>1, SumInPlus
<1>11. SumIn(after, taxed) \in Int /\ SumIn(off, taxed) \in Int
    BY <1>8, <1>9, SumInInt
<1>12. Books!Gross(taxed) = SumIn(f, taxed)
    BY <1>5, BookSums DEF Books!Gross
<1>13. /\ Books!Gross(S) = Books!Gross(taxed) + Books!Gross(S \ taxed)
       /\ Books!Gross(S \ taxed) \in Int
    <2>1. S \ taxed \in SUBSET S
        OBVIOUS
    <2>2. QED
        BY <1>9, <2>1, TotalsSplit
<1>14. /\ Books!TaxReport(range).taxable = SumIn(after, taxed)
       /\ Books!TaxReport(range).exempt = Books!Gross({o \in S : bill[o].tax = 0})
       /\ Books!TaxReport(range).nonTaxable = SumIn(off, taxed)
       /\ Books!TaxReport(range).tax = Books!Tax(S)
    BY <1>1, <1>2, <1>3, <1>4, BookSums DEF Books!TaxReport
<1>15. PICK a \in Int, b \in Int, c \in Int :
          a = SumIn(after, taxed) /\ b = SumIn(off, taxed) /\ c = Books!Gross(S \ taxed)
    BY <1>11, <1>13
<1>16. Books!TaxReport(range).taxable = a /\ Books!TaxReport(range).nonTaxable = b
       /\ Books!TaxReport(range).exempt = c
    BY <1>9, <1>14, <1>15
<1>17. Books!Gross(S) = a + b + c
    BY <1>10, <1>12, <1>13, <1>15
<1>18. QED
    BY <1>1, <1>14, <1>16, <1>17

LEMMA ItemsDoMakeSales == BookInv => Books!ItemsMakeSales
<1> SUFFICES ASSUME BookInv PROVE Books!ItemsMakeSales
    OBVIOUS
<1>0. BooksTyped
    BY DEF BookInv
<1>1. ASSUME NEW range
      PROVE  LET gross == Books!SalesKpis(range, AnyMethod).sales.gross
                 voided == Books!SumIn(Books!LineTotals,
                             {i \in Books!Lines(Books!SettledIn(range)) : ~item[i].active})
                 tax == Books!TaxReport(range)
             IN  /\ Books!AddUp(Books!ItemRows(range), "revenue") = gross + voided
                 /\ Books!AddUp(Books!Export("tax", range), "taxable") = gross + voided
                 /\ \A x \in DOMAIN Books!TopItems(range) :
                       Books!TopItems(range)[x].profit
                         = Books!Profits(range)[x].revenue - Books!Profits(range)[x].cost
                 /\ tax.taxable + tax.exempt + tax.nonTaxable = gross
    <2>1. PICK S \in SUBSET Bills : S = Books!SettledIn(range)
        BY OrdersIn
    <2>2. Books!SalesKpis(range, AnyMethod).sales.gross = Books!Gross(S)
        <3>1. Books!SalesKpis(range, AnyMethod).sales = Books!SalesRow(S, AnyMethod)
            BY <1>0, <2>1, SalesAre DEF Books!SalesKpis
        <3>2. QED
            BY <1>0, <3>1, SalesRowIs
    <2>3. Books!Export("tax", range) = Books!HsnSummary(range)
        BY DEF Books!Export, Books!GstReports
    <2>4. PICK v : v = SumIn(Books!LineTotals, {i \in Books!Lines(S) : ~item[i].active})
        OBVIOUS
    <2>5. SumIn(Books!LineTotals, Books!Lines(S)) = Books!Gross(S) + v
        BY <2>4, LinesAreSubtotals
    <2>6. Books!AddUp(Books!ItemRows(range), "revenue") = Books!Gross(S) + v
        BY <1>0, <2>1, <2>5, ItemRowsAddUp
    <2>7. Books!AddUp(Books!HsnSummary(range), "taxable") = Books!Gross(S) + v
        BY <1>0, <2>1, <2>5, RateRowsAddUp
    <2>8. ASSUME NEW x \in DOMAIN Books!TopItems(range)
          PROVE  Books!TopItems(range)[x].profit
                   = Books!Profits(range)[x].revenue - Books!Profits(range)[x].cost
        <3>1. PICK table : table = Books!ItemRows(range)
            OBVIOUS
        <3>2. x \in DOMAIN table /\ Books!TopItems(range)[x].profit = table[x].profit
              /\ Books!Profits(range)[x].revenue = table[x].revenue
              /\ Books!Profits(range)[x].cost = table[x].cost
            BY <3>1 DEF Books!TopItems, Books!Profits
        <3>3. table[x].profit = table[x].revenue - table[x].cost
            BY <3>1, <3>2 DEF Books!ItemRows
        <3>4. QED
            BY <3>2, <3>3
    <2>9. Books!TaxReport(range).taxable + Books!TaxReport(range).exempt
            + Books!TaxReport(range).nonTaxable = Books!Gross(S)
        BY <1>0, <2>1, KindsOfSales
    <2>10. Books!SumIn(Books!LineTotals,
                       {i \in Books!Lines(Books!SettledIn(range)) : ~item[i].active}) = v
        BY <2>1, <2>4, BookSums
    <2>11. QED
        BY <2>2, <2>3, <2>6, <2>7, <2>8, <2>9, <2>10
<1>2. QED
    BY <1>1 DEF Books!ItemsMakeSales

-----------------------------------------------------------------------------
(* Tax is accounted for.                                                       *)

\* A set of orders in three parts.
LEMMA TaxInThree ==
    ASSUME BooksTyped, NEW S \in SUBSET Bills, NEW A \in SUBSET S, NEW B \in SUBSET (S \ A)
    PROVE  Books!Tax(A) + Books!Tax(B) + Books!Tax((S \ A) \ B) = Books!Tax(S)
<1>1. /\ Books!Tax(S) = Books!Tax(A) + Books!Tax(S \ A)
      /\ Books!Tax(A) \in Int
    BY TotalsSplit
<1>2. PICK R \in SUBSET Bills : R = S \ A
    OBVIOUS
<1>3. PICK C \in SUBSET R : C = R \ B
    OBVIOUS
<1>4. B \in SUBSET R
    BY <1>2
<1>5. /\ Books!Tax(R) = Books!Tax(B) + Books!Tax(R \ B)
      /\ Books!Tax(B) \in Int
    BY <1>2, <1>4, TotalsSplit
<1>6. Books!Tax(C) \in Int
    BY <1>2, <1>3, TotalsSplit
<1>7. QED
    BY <1>1, <1>2, <1>3, <1>5, <1>6

\* Every rate's tax counts an order's whole tax for each of its lines.
LEMMA RatesShowAllTax ==
    ASSUME BookInv, NEW range
    PROVE  Books!AddUp(Books!HsnSummary(range), "tax") >= Books!Tax(Books!SettledIn(range))
<1>0. BooksTyped
    BY DEF BookInv
<1>1. PICK S \in SUBSET Bills : S = Books!SettledIn(range)
    BY OrdersIn
<1>2. PICK rows : rows = Books!Lines(S)
    OBVIOUS
<1>3. rows \subseteq Items /\ \A i \in rows : item[i].order \in S
    BY <1>2 DEF Books!Lines
<1>4. IsFiniteSet(rows) /\ IsFiniteSet(S)
    BY <1>3, BillsAre, FS_Subset
<1>5. PICK g : g = [i \in rows |-> bill[item[i].order].tax]
    OBVIOUS
<1>6. DOMAIN g = rows /\ \A i \in rows : g[i] = bill[item[i].order].tax /\ g[i] \in Nat
    BY <1>0, <1>3, <1>5, BillAt
<1>7. IsSummable(g) /\ rows \in SUBSET DOMAIN g
    BY <1>4, <1>6 DEF IsSummable
<1>8. Books!AddUp(Books!HsnSummary(range), "tax") = SumIn(g, rows)
    <2>1. PICK table : table = Books!HsnSummary(range)
        OBVIOUS
    <2>2. PICK of : of = [i \in Items |-> Sold[i].rate]
        OBVIOUS
    <2>3. /\ DOMAIN table = {Sold[i].rate : i \in rows}
          /\ \A r \in DOMAIN table : table[r].tax = SumIn(g, {i \in rows : Sold[i].rate = r})
        BY <1>1, <1>2, <1>5, <2>1, BookSums DEF Books!HsnSummary
    <2>4. \A r : {i \in rows : Sold[i].rate = r} = {i \in rows : of[i] = r}
        BY <1>3, <2>2
    <2>5. {Sold[i].rate : i \in rows} = {of[i] : i \in rows}
        BY <1>3, <2>2
    <2>6. [r \in DOMAIN table |-> table[r]["tax"]]
            = [r \in {of[i] : i \in rows} |-> SumIn(g, {i \in rows : of[i] = r})]
        BY <2>3, <2>4, <2>5
    <2>7. SumOver([r \in {of[i] : i \in rows} |-> SumIn(g, {i \in rows : of[i] = r})]) = SumIn(g, rows)
        BY <1>7, GroupsOfKeys
    <2>8. Books!AddUp(table, "tax") = SumOver([r \in DOMAIN table |-> table[r]["tax"]])
        BY BookSums DEF Books!AddUp
    <2>9. QED
        BY <2>1, <2>6, <2>7, <2>8
<1>9. PICK of : of = [i \in Items |-> item[i].order]
    OBVIOUS
<1>10. \A i \in rows : of[i] = item[i].order /\ of[i] \in S
    BY <1>3, <1>9
<1>11. PICK by : by = [o \in S |-> SumIn(g, {i \in rows : of[i] = o})]
    OBVIOUS
<1>12. IsSummable(by) /\ DOMAIN by = S /\ SumOver(by) = SumIn(g, rows)
    <2>1. IsFiniteSet(S) /\ \A i \in rows : of[i] \in S
        BY <1>4, <1>10
    <2>2. /\ IsSummable([o \in S |-> SumIn(g, {i \in rows : of[i] = o})])
          /\ SumOver([o \in S |-> SumIn(g, {i \in rows : of[i] = o})]) = SumIn(g, rows)
        BY <1>7, <2>1, GroupsAddUp
    <2>3. QED
        BY <1>11, <2>2
<1>13. ASSUME NEW o \in S PROVE bill[o].tax <= by[o]
    <2>1. PICK its : its = {i \in rows : of[i] = o}
        OBVIOUS
    <2>2. PICK t \in Nat : t = bill[o].tax
        BY <1>0, BillAt
    <2>3. its \in SUBSET DOMAIN g /\ \A i \in its : g[i] \in Nat /\ g[i] = t
        BY <1>6, <1>10, <2>1, <2>2
    <2>4. by[o] = SumIn(g, its) /\ SumIn(g, its) \in Nat
        BY <1>7, <1>11, <2>1, <2>3, SumInNat
    <2>5. CASE t = 0
        BY <2>2, <2>4, <2>5
    <2>6. CASE t > 0
        <3>1. BillSound(o)
            BY DEF BookInv
        <3>2. PICK i \in Items : item[i].order = o
            BY <2>2, <2>6, <3>1 DEF BillSound
        <3>3. i \in its
            BY <1>2, <1>10, <2>1, <3>2 DEF Books!Lines
        <3>4. g[i] <= SumIn(g, its)
            BY <1>7, <2>3, <3>3, SumInOne
        <3>5. QED
            BY <2>2, <2>3, <2>4, <3>3, <3>4
    <2>7. QED
        BY <2>5, <2>6
<1>14. PICK f : f = Books!Column("tax")
    OBVIOUS
<1>15. IsSummable(f) /\ DOMAIN f = Bills /\ \A o \in Bills : f[o] = bill[o].tax
    BY <1>0, <1>14, ColumnsAre
<1>16. SumIn(f, S) <= SumIn(by, S)
    <2>1. S \subseteq DOMAIN f /\ S \subseteq DOMAIN by
        BY <1>12, <1>15
    <2>2. \A o \in S : f[o] <= by[o]
        BY <1>13, <1>15
    <2>3. QED
        BY <1>12, <1>15, <2>1, <2>2, SumInLeq
<1>17. SumIn(by, S) = SumOver(by)
    BY <1>12 DEF SumIn, SumOver
<1>18. Books!Tax(S) = SumIn(f, S)
    BY <1>14, BookSums DEF Books!Tax
<1>19. SumIn(f, S) <= SumIn(g, rows)
    BY <1>12, <1>16, <1>17
<1>20. PICK a \in Int, b \in Int : a = SumIn(f, S) /\ b = SumIn(g, rows)
    BY <1>7, <1>15, SumInInt
<1>21. a <= b
    BY <1>19, <1>20
<1>22. b >= a
    BY <1>21
<1>23. QED
    BY <1>1, <1>8, <1>18, <1>20, <1>22

LEMMA TaxIsAll == BookInv => Books!TaxIsAccountedFor
<1> SUFFICES ASSUME BookInv PROVE Books!TaxIsAccountedFor
    OBVIOUS
<1>0. BooksTyped
    BY DEF BookInv
<1>1. ASSUME NEW range
      PROVE  LET summary == Books!TaxSummary(range)
                 overpaid == {o \in Books!OpenedIn(range) :
                                 Books!Status(o) # "void" /\ Books!Due(o) < 0}
             IN  /\ summary.collected + summary.outstanding + Books!Tax(overpaid) = summary.tax
                 /\ summary.tax = Books!TaxReport(range).tax
                      + Books!Tax({o \in Books!OpenedIn(range) : Books!Status(o) = "open"})
                 /\ Books!AddUp(Books!HsnSummary(range), "tax") >= Books!TaxReport(range).tax
                 /\ Books!GstReports(Books!Days).b2c.tax = Books!TaxReport(Books!Days).tax
                      + Books!Tax({o \in Bills : Books!Status(o) = "void"
                                                   /\ invoice[o] # Books!NoInvoice})
    <2>1. PICK all \in SUBSET Bills : all = Books!OpenedIn(range)
        BY OrdersIn
    <2>2. PICK S \in SUBSET Bills : S = Books!NotVoid(all)
        BY <2>1, OrdersIn
    <2>3. \A o \in Bills : Books!Due(o) \in Int
        BY <1>0, BillAt DEF Books!Due
    <2>4. Books!TaxSummary(range).collected + Books!TaxSummary(range).outstanding
            + Books!Tax({o \in all : Books!Status(o) # "void" /\ Books!Due(o) < 0})
            = Books!TaxSummary(range).tax
        <3>1. PICK A, B, C : /\ A = {o \in S : Books!Due(o) = 0}
                             /\ B = {o \in S : Books!Due(o) > 0}
                             /\ C = {o \in all : Books!Status(o) # "void" /\ Books!Due(o) < 0}
            OBVIOUS
        <3>2. A \in SUBSET S /\ B \in SUBSET (S \ A) /\ C = (S \ A) \ B
            BY <2>2, <2>3, <3>1 DEF Books!NotVoid
        <3>3. Books!Tax(A) + Books!Tax(B) + Books!Tax(C) = Books!Tax(S)
            BY <1>0, <3>2, TaxInThree
        <3>4. /\ Books!TaxSummary(range).tax = Books!Tax(S)
              /\ Books!TaxSummary(range).collected = Books!Tax(A)
              /\ Books!TaxSummary(range).outstanding = Books!Tax(B)
            BY <2>1, <2>2, <3>1 DEF Books!TaxSummary
        <3>5. QED
            BY <3>1, <3>3, <3>4
    <2>5. Books!TaxReport(range).tax = Books!Tax(Books!SettledIn(range))
        BY <1>0, KindsOfSales
    <2>6. Books!TaxSummary(range).tax = Books!TaxReport(range).tax
            + Books!Tax({o \in all : Books!Status(o) = "open"})
        <3>1. PICK A : A = Books!SettledIn(range)
            OBVIOUS
        <3>2. \A o \in Bills : Books!Status(o) \in {"none", "open", "settled", "void"}
            BY <1>0, BillAt DEF Books!Status
        <3>3. A \in SUBSET S /\ S \ A = {o \in all : Books!Status(o) = "open"}
            BY <2>1, <2>2, <3>1, <3>2 DEF Books!SettledIn, Books!NotVoid, Books!OpenedIn
        <3>4. Books!Tax(S) = Books!Tax(A) + Books!Tax(S \ A)
            BY <1>0, <3>3, TotalsSplit
        <3>5. Books!TaxSummary(range).tax = Books!Tax(S)
            BY <2>1, <2>2 DEF Books!TaxSummary
        <3>6. QED
            BY <2>5, <3>1, <3>3, <3>4, <3>5
    <2>7. Books!AddUp(Books!HsnSummary(range), "tax") >= Books!TaxReport(range).tax
        BY <2>5, RatesShowAllTax
    <2>8. Books!GstReports(Books!Days).b2c.tax = Books!TaxReport(Books!Days).tax
            + Books!Tax({o \in Bills : Books!Status(o) = "void" /\ invoice[o] # Books!NoInvoice})
        <3>1. PICK F, A, V : /\ F = {o \in Bills : invoice[o] # Books!NoInvoice
                                                     /\ invoice[o].day \in Books!Days}
                             /\ A = Books!SettledIn(Books!Days)
                             /\ V = {o \in Bills : Books!Status(o) = "void"
                                                     /\ invoice[o] # Books!NoInvoice}
            OBVIOUS
        <3>2. Books!Days = BookDays
            BY DEF Books!Days, BookDays
        <3>3. ASSUME NEW o \in Bills
              PROVE  /\ o \in A => o \in F /\ o \notin V
                     /\ o \in F => o \in A \/ o \in V
                     /\ o \in V => o \in F
            <4>1. BillSound(o) /\ bill[o].status \in {"none", "open", "settled", "void"}
                BY <1>0, BillAt DEF BookInv
            <4>2. QED
                BY <3>1, <3>2, <4>1
                   DEF BillSound, Books!SettledIn, Books!OpenedIn, Books!Status
        <3>4. F \in SUBSET Bills /\ A \in SUBSET F /\ F \ A = V
            BY <3>1, <3>3, OrdersIn
        <3>5. Books!Tax(F) = Books!Tax(A) + Books!Tax(F \ A)
            BY <1>0, <3>4, TotalsSplit
        <3>6. Books!GstReports(Books!Days).b2c.tax = Books!Tax(F)
            BY <3>1 DEF Books!GstReports, Books!Filed
        <3>7. Books!TaxReport(Books!Days).tax = Books!Tax(A)
            BY <1>0, <3>1, KindsOfSales
        <3>8. QED
            BY <3>1, <3>4, <3>5, <3>6, <3>7
    <2>9. QED
        BY <2>1, <2>4, <2>6, <2>7, <2>8
<1>2. QED
    BY <1>1 DEF Books!TaxIsAccountedFor

-----------------------------------------------------------------------------
(* Money is counted once.                                                      *)

LEMMA BookDaysAre == Books!Days = BookDays /\ IsFiniteSet(BookDays)
<1>1. Books!Days = BookDays
    BY DEF Books!Days, BookDays
<1>2. IsFiniteSet(BookDays)
    BY BooksAssumption, FS_Interval DEF BookDays
<1>3. QED
    BY <1>1, <1>2

OfKind(k) == {n \in DOMAIN payments : payments[n].kind = k}
OfMethod(k, m) == {n \in OfKind(k) : payments[n].method = m}

\* A payment row has one order, which opened on one day, and one day of its own.
LEMMA RowsAre ==
    ASSUME BookInv, NEW n \in DOMAIN payments
    PROVE  /\ payments[n].order \in Bills /\ payments[n].day \in BookDays
           /\ bill[payments[n].order].status # "none"
           /\ bill[payments[n].order].opened \in BookDays
           /\ payments[n].kind \in {"payment", "refund"}
           /\ payments[n].kind = "payment" => payments[n].method \in Methods
<1>1. PICK p \in PaymentRow : p = payments[n]
    BY AmountsAre DEF BookInv
<1>2. PaymentSound(p)
    BY <1>1 DEF BookInv
<1>3. p.order \in Bills /\ p.day \in BookDays /\ p.kind \in {"payment", "refund"}
    BY DEF PaymentRow
<1>4. BillSound(p.order)
    BY <1>3 DEF BookInv
<1>5. QED
    BY <1>1, <1>2, <1>3, <1>4 DEF PaymentSound, BillSound

LEMMA PaidForIs ==
    ASSUME NEW S, NEW k, NEW n
    PROVE  n \in Books!PaidFor(S, k)
             <=> n \in DOMAIN payments /\ payments[n].order \in S /\ payments[n].kind = k
BY DEF Books!PaidFor, Books!Captured

\* The rows of orders whatever day they were opened, or paid.
LEMMA PaidByDay ==
    ASSUME BookInv, NEW k
    PROVE  /\ Books!PaidFor(Books!OpenedIn(BookDays), k) = OfKind(k)
           /\ Books!CapturedIn(BookDays, k) = OfKind(k)
<1>1. Books!PaidFor(Books!OpenedIn(BookDays), k) = OfKind(k)
    BY PaidForIs, RowsAre DEF OfKind, Books!OpenedIn, Books!Status
<1>2. Books!CapturedIn(BookDays, k) = OfKind(k)
    BY RowsAre DEF OfKind, Books!CapturedIn
<1>3. QED
    BY <1>1, <1>2

\* By the day the order was opened, and by the day of the row.
LEMMA MoneyByDay ==
    ASSUME BookInv, NEW N \in SUBSET DOMAIN payments
    PROVE  /\ SumOver([d \in BookDays |->
                Books!TotalOf({n \in N : bill[payments[n].order].opened = d})]) = Books!TotalOf(N)
           /\ SumOver([d \in BookDays |-> Books!TotalOf({n \in N : payments[n].day = d})])
                = Books!TotalOf(N)
<1>0. BooksTyped
    BY DEF BookInv
<1>1. PICK start : start = [n \in DOMAIN payments |-> bill[payments[n].order].opened]
    OBVIOUS
<1>2. PICK own : own = [n \in DOMAIN payments |-> payments[n].day]
    OBVIOUS
<1>3. \A n \in N : start[n] \in BookDays
    BY <1>1, RowsAre
<1>4. \A n \in N : own[n] \in BookDays
    BY <1>2, RowsAre
<1>5. SumOver([d \in BookDays |-> Books!TotalOf({n \in N : start[n] = d})]) = Books!TotalOf(N)
    BY <1>0, <1>3, BookDaysAre, MoneyGroups
<1>6. SumOver([d \in BookDays |-> Books!TotalOf({n \in N : own[n] = d})]) = Books!TotalOf(N)
    BY <1>0, <1>4, BookDaysAre, MoneyGroups
<1>7. \A d : {n \in N : start[n] = d} = {n \in N : bill[payments[n].order].opened = d}
    BY <1>1
<1>8. \A d : {n \in N : own[n] = d} = {n \in N : payments[n].day = d}
    BY <1>2
<1>9. QED
    BY <1>5, <1>6, <1>7, <1>8

LEMMA MoneyIsOnce == BookInv => Books!MoneyIsCountedOnce
<1> SUFFICES ASSUME BookInv PROVE Books!MoneyIsCountedOnce
    OBVIOUS
<1>0. BooksTyped
    BY DEF BookInv
<1>1. PICK P, R : P = OfKind("payment") /\ R = OfKind("refund")
    OBVIOUS
<1>2. P \in SUBSET DOMAIN payments /\ R \in SUBSET DOMAIN payments
    BY <1>1 DEF OfKind
<1>3. PICK by : by = [m \in Methods |-> Books!TotalOf(OfMethod("payment", m))]
    OBVIOUS
<1>4. \A m : OfMethod("payment", m) \in SUBSET DOMAIN payments
    BY DEF OfMethod, OfKind
<1>5. ASSUME NEW m \in Methods
      PROVE  SumOver([d \in BookDays |-> Books!BillingDay(d).by[m]]) = by[m]
    <2>1. PICK N : N = OfMethod("payment", m)
        OBVIOUS
    <2>2. ASSUME NEW d \in BookDays
          PROVE  Books!BillingDay(d).by[m]
                   = Books!TotalOf({n \in N : bill[payments[n].order].opened = d})
        <3>1. Books!BillingDay(d).by
                = [w \in Methods |-> Books!TotalOf({n \in Books!PaidFor(Books!OpenedIn({d}), "payment") :
                                                      payments[n].method = w})]
            BY DEF Books!BillingDay
        <3>2. {n \in Books!PaidFor(Books!OpenedIn({d}), "payment") : payments[n].method = m}
                = {n \in N : bill[payments[n].order].opened = d}
            <4>1. Books!PaidFor(Books!OpenedIn({d}), "payment")
                    = {n \in P : bill[payments[n].order].opened = d}
                BY <1>1, PaidForIs, RowsAre DEF OfKind, Books!OpenedIn, Books!Status
            <4>2. N = {n \in P : payments[n].method = m}
                BY <1>1, <2>1 DEF OfMethod
            <4>3. QED
                BY <4>1, <4>2
        <3>3. QED
            BY <3>1, <3>2
    <2>3. SumOver([d \in BookDays |-> Books!TotalOf({n \in N : bill[payments[n].order].opened = d})])
            = Books!TotalOf(N)
        BY <1>4, <2>1, MoneyByDay
    <2>4. [d \in BookDays |-> Books!BillingDay(d).by[m]]
            = [d \in BookDays |-> Books!TotalOf({n \in N : bill[payments[n].order].opened = d})]
        BY <2>2
    <2>5. QED
        BY <1>3, <2>1, <2>3, <2>4
<1>6. [m \in Methods |-> Books!SumOver([d \in Books!Days |-> Books!BillingDay(d).by[m]])] = by
    BY <1>3, <1>5, BookSums, BookDaysAre
<1>7. Books!SalesKpis(Books!Days, AnyMethod).by = by
    <2>1. Books!SalesKpis(Books!Days, AnyMethod).by
            = [w \in Methods |-> Books!TotalOf({n \in Books!CapturedIn(BookDays, "payment") :
                                                  payments[n].method = w})]
        BY BookDaysAre DEF Books!SalesKpis
    <2>2. \A w : {n \in Books!CapturedIn(BookDays, "payment") : payments[n].method = w}
                   = OfMethod("payment", w)
        BY PaidByDay DEF OfMethod
    <2>3. QED
        BY <1>3, <2>1, <2>2
<1>8. Books!SumOver([d \in Books!Days |-> Books!BillingDay(d).refunds]) = Books!TotalOf(R)
    <2>1. ASSUME NEW d \in BookDays
          PROVE  Books!BillingDay(d).refunds
                   = Books!TotalOf({n \in R : bill[payments[n].order].opened = d})
        <3>1. Books!BillingDay(d).refunds
                = Books!TotalOf(Books!PaidFor(Books!OpenedIn({d}), "refund"))
            BY DEF Books!BillingDay
        <3>2. Books!PaidFor(Books!OpenedIn({d}), "refund")
                = {n \in R : bill[payments[n].order].opened = d}
            BY <1>1, PaidForIs, RowsAre DEF OfKind, Books!OpenedIn, Books!Status
        <3>3. QED
            BY <3>1, <3>2
    <2>2. [d \in BookDays |-> Books!BillingDay(d).refunds]
            = [d \in BookDays |-> Books!TotalOf({n \in R : bill[payments[n].order].opened = d})]
        BY <2>1
    <2>3. SumOver([d \in BookDays |-> Books!TotalOf({n \in R : bill[payments[n].order].opened = d})])
            = Books!TotalOf(R)
        BY <1>2, MoneyByDay
    <2>4. QED
        BY <2>2, <2>3, BookSums, BookDaysAre
<1>9. Books!SalesKpis(Books!Days, AnyMethod).refunds = Books!TotalOf(R)
    <2>1. Books!SalesKpis(Books!Days, AnyMethod).refunds
            = Books!TotalOf(Books!CapturedIn(BookDays, "refund"))
        BY BookDaysAre DEF Books!SalesKpis
    <2>2. QED
        BY <1>1, <2>1, PaidByDay
<1>10. Books!SumOver(Books!RefundRows(Books!Days)) = Books!TotalOf(R)
    <2>1. PICK own : own = [n \in DOMAIN payments |-> payments[n].day]
        OBVIOUS
    <2>2. PICK K : K = {own[n] : n \in R}
        OBVIOUS
    <2>3. IsFiniteSet(R)
        BY <1>0, <1>2, AmountsAre, FS_Subset
    <2>4. IsFiniteSet(K) /\ \A n \in R : own[n] \in K
        BY <2>2, <2>3, FiniteImage
    <2>5. SumOver([d \in K |-> Books!TotalOf({n \in R : own[n] = d})]) = Books!TotalOf(R)
        BY <1>0, <1>2, <2>4, MoneyGroups
    <2>6. K = {payments[n].day : n \in R} /\ \A d : {n \in R : own[n] = d} = {n \in R : payments[n].day = d}
        BY <1>2, <2>1, <2>2
    <2>7. Books!PaidFor(Books!OpenedIn(Books!Days), "refund") = R
        BY <1>1, PaidByDay, BookDaysAre
    <2>8. Books!RefundRows(Books!Days) = [d \in K |-> Books!TotalOf({n \in R : own[n] = d})]
        BY <2>6, <2>7 DEF Books!RefundRows
    <2>9. QED
        BY <2>5, <2>8, BookSums
<1>11. Books!SumOver([d \in Books!Days |-> Books!CollectedOn(d)]) = Books!TotalOf(P) + Books!TotalOf(R)
    <2>1. PICK paid : paid = [d \in BookDays |-> Books!TotalOf({n \in P : payments[n].day = d})]
        OBVIOUS
    <2>2. PICK back : back = [d \in BookDays |-> Books!TotalOf({n \in R : payments[n].day = d})]
        OBVIOUS
    <2>3. PICK both : both = [d \in BookDays |-> Books!CollectedOn(d)]
        OBVIOUS
    <2>4. \A d \in BookDays : both[d] = paid[d] + back[d]
        <3> SUFFICES ASSUME NEW d \in BookDays PROVE both[d] = paid[d] + back[d]
            OBVIOUS
        <3>1. Books!CapturedIn({d}, "payment") = {n \in P : payments[n].day = d}
            BY <1>1 DEF OfKind, Books!CapturedIn
        <3>2. Books!CapturedIn({d}, "refund") = {n \in R : payments[n].day = d}
            BY <1>1 DEF OfKind, Books!CapturedIn
        <3>3. both[d] = Books!TotalOf({n \in P : payments[n].day = d})
                          + Books!TotalOf({n \in R : payments[n].day = d})
            BY <2>3, <3>1, <3>2 DEF Books!CollectedOn
        <3>4. QED
            BY <2>1, <2>2, <3>3
    <2>5. \A d \in BookDays : paid[d] \in Int /\ back[d] \in Int
        <3> SUFFICES ASSUME NEW d \in BookDays PROVE paid[d] \in Int /\ back[d] \in Int
            OBVIOUS
        <3>1. {n \in P : payments[n].day = d} \in SUBSET DOMAIN payments
              /\ {n \in R : payments[n].day = d} \in SUBSET DOMAIN payments
            BY <1>2
        <3>2. QED
            BY <1>0, <2>1, <2>2, <3>1, TotalsAre
    <2>6. /\ DOMAIN paid = BookDays /\ DOMAIN back = BookDays /\ DOMAIN both = BookDays
          /\ \A d \in BookDays : both[d] \in Int
        <3>1. DOMAIN paid = BookDays /\ DOMAIN back = BookDays /\ DOMAIN both = BookDays
            BY <2>1, <2>2, <2>3
        <3>2. \A d \in BookDays : both[d] \in Int
            BY <2>4, <2>5
        <3>3. QED
            BY <3>1, <3>2
    <2>7. IsSummable(paid) /\ IsSummable(back) /\ IsSummable(both)
        BY <2>5, <2>6, BookDaysAre DEF IsSummable
    <2>8. SumOver(both) = SumOver(paid) + SumOver(back)
        BY <2>4, <2>6, <2>7, SumOverPlus
    <2>9. SumOver(paid) = Books!TotalOf(P) /\ SumOver(back) = Books!TotalOf(R)
        BY <1>2, <2>1, <2>2, MoneyByDay
    <2>10. QED
        BY <2>3, <2>8, <2>9, BookSums, BookDaysAre
<1>12. SumOver(by) = Books!TotalOf(P)
    <2>1. PICK way : way = [n \in DOMAIN payments |-> payments[n].method]
        OBVIOUS
    <2>2. \A n \in P : way[n] \in Methods
        BY <1>1, <2>1, RowsAre DEF OfKind
    <2>3. SumOver([m \in Methods |-> Books!TotalOf({n \in P : way[n] = m})]) = Books!TotalOf(P)
        BY <1>0, <1>2, <2>2, BillsAre, MoneyGroups
    <2>4. \A m : {n \in P : way[n] = m} = OfMethod("payment", m)
        BY <1>1, <1>2, <2>1 DEF OfMethod
    <2>5. QED
        BY <1>3, <2>3, <2>4
<1>13. ASSUME NEW m \in Methods PROVE Books!PaymentSummary(Books!Days)[m] <= by[m]
    <2>1. PICK N, A : /\ N = OfMethod("payment", m)
                      /\ A = {n \in Books!PaidFor(Books!SettledIn(Books!Days), "payment") :
                                payments[n].method = m}
        OBVIOUS
    <2>2. A \in SUBSET N /\ N \in SUBSET DOMAIN payments
        BY <1>4, <2>1, PaidForIs DEF OfMethod, OfKind
    <2>3. Books!TotalOf(N) = Books!TotalOf(A) + Books!TotalOf(N \ A) /\ Books!TotalOf(A) \in Nat
        BY <1>0, <2>2, MoneySplits
    <2>4. Books!TotalOf(N \ A) \in Nat
        <3>1. N \ A \in SUBSET N
            OBVIOUS
        <3>2. QED
            BY <1>0, <2>2, <3>1, MoneySplits
    <2>5. Books!TotalOf(A) <= Books!TotalOf(N)
        BY <2>3, <2>4
    <2>6. Books!PaymentSummary(Books!Days)[m] = Books!TotalOf(A)
        BY <2>1 DEF Books!PaymentSummary
    <2>7. QED
        BY <1>3, <2>1, <2>5, <2>6
<1>14. QED
    BY <1>6, <1>7, <1>8, <1>9, <1>10, <1>11, <1>12, <1>13, BookSums DEF Books!MoneyIsCountedOnce

\* Revenue, splits, items, tax and money agree across the report pages, exports and API
\* resources, for any number of orders, items, days, prices, rates, discounts and payment
\* methods: each page's query is an identity between sums over the same rows
\* (reporting views and services).
THEOREM BooksKept == PlatformSpec => []BooksAgree
<1>1. Books!Init => BookInv
    BY BookInit
<1>2. BookInv /\ [Books!Next]_bookVars => BookInv'
    BY BookNext
<1>3. BookInv => BooksAgree
    BY PagesDoAgree, SplitsDoAddUp, ItemsDoMakeSales, TaxIsAll, MoneyIsOnce
       DEF BooksAgree, Books!BooksAgree
<1>4. QED
    BY <1>1, <1>2, <1>3, BookSteps, PTL
=============================================================================
