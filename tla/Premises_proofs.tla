--------------------------- MODULE Premises_proofs ---------------------------
(***************************************************************************)
(* Proofs about the parts of MCPremises.  Each part changes its own         *)
(* variables only, so a behaviour of the premises is one of each part that  *)
(* may stutter, and an invariant of a part is one of the premises.          *)
(***************************************************************************)
EXTENDS MCPremises, Sums_proofs, SequenceTheorems

premisesVars == <<part, stockVars, diningVars, paperVars, warningVars, rowVars, offerVars,
                  menuVars, billedVars, tillVars, boardVars, dealVars>>

-----------------------------------------------------------------------------
(* Row locks *)

LEMMA LockingSteps == PremisesSpec => Locking!Init /\ [][Locking!Next]_rowVars
<1>1. PremisesInit => Locking!Init
    BY DEF PremisesInit
<1>2. [PremisesNext]_premisesVars => [Locking!Next]_rowVars
    BY DEF PremisesNext, premisesVars, rowVars
<1>3. PremisesSpec => PremisesInit /\ [][PremisesNext]_premisesVars
    BY PTL DEF PremisesSpec, premisesVars
<1>4. QED
    BY <1>1, <1>2, <1>3, PTL

OrderRows == Locking!Rows("order", OrderIds)
ItemRows == Locking!Rows("item", ItemIds)
CounterRow == Locking!Counter
BillRows == OrderRows \union ItemRows \union {CounterRow}

LEMMA SameCardinality ==
    ASSUME NEW S
    PROVE  Locking!Cardinality(S) = Cardinality(S)
BY DEF Locking!Cardinality, Cardinality

\* The three kinds of rows.
LEMMA Kinds ==
    /\ \A r \in OrderRows : r \notin ItemRows /\ r # CounterRow
    /\ \A r \in ItemRows : r # CounterRow /\ r[2] \in ItemIds
    /\ CounterRow \notin ItemRows
BY DEF OrderRows, ItemRows, CounterRow, Locking!Rows, Locking!Counter

LEMMA OrderOfRows ==
    ASSUME NEW rows, IsFiniteSet(rows), NEW s \in Locking!InAnyOrder(rows)
    PROVE  s \in Seq(rows)
<1>1. Locking!Cardinality(rows) \in Nat
    BY SameCardinality, FS_CardinalityType
<1>2. QED
    BY <1>1 DEF Locking!InAnyOrder, Locking!SetToSeqs

\* The lines of a document, in whatever order.
LEMMA SomeItems ==
    ASSUME NEW rows \in Locking!Several("item", ItemIds)
    PROVE  IsFiniteSet(rows) /\ rows \subseteq ItemRows
<1>1. PICK ids \in SUBSET ItemIds : rows = Locking!Rows("item", ids)
    BY DEF Locking!Several
<1>2. IsFiniteSet(ids)
    BY <1>1, LocksAssumption, FS_Subset
<1>3. rows = {<<"item", id>> : id \in ids}
    BY <1>1 DEF Locking!Rows
<1>4. IsFiniteSet(rows)
    <2> DEFINE f == [id \in ids |-> <<"item", id>>]
    <2>1. f \in Surjection(ids, rows)
        BY <1>3 DEF Surjection
    <2>2. QED
        BY <1>2, <2>1, FS_Surjection
<1>5. QED
    BY <1>3, <1>4 DEF ItemRows, Locking!Rows

LEMMA ItemSequences ==
    ASSUME NEW s \in Locking!ItemsAsTheyCome
    PROVE  s \in Seq(ItemRows)
<1>1. PICK rows \in Locking!Several("item", ItemIds) : s \in Locking!InAnyOrder(rows)
    BY DEF Locking!ItemsAsTheyCome
<1>2. s \in Seq(rows)
    BY <1>1, SomeItems, OrderOfRows
<1>3. QED
    BY <1>1, <1>2, SomeItems

\* The services that lock their lines in the order of the records' ids.
InIdOrder(w) ==
    /\ w \in Seq(ItemRows)
    /\ \A i, j \in DOMAIN w : i < j => w[i][2] < w[j][2]

LEMMA OrderedSequences ==
    ASSUME NEW s \in Locking!ItemsInIdOrder
    PROVE  InIdOrder(s)
<1>1. PICK rows \in Locking!Several("item", ItemIds) : s \in Locking!InIdOrder(rows)
    BY DEF Locking!ItemsInIdOrder
<1>2. s \in Locking!InAnyOrder(rows)
    BY <1>1 DEF Locking!InIdOrder, Locking!InAnyOrder
<1>3. s \in Seq(ItemRows)
    BY <1>1, <1>2, SomeItems, OrderOfRows
<1>4. \A i, j \in DOMAIN s : i < j => s[i][2] < s[j][2]
    BY <1>1 DEF Locking!InIdOrder
<1>5. QED
    BY <1>3, <1>4 DEF InIdOrder

\* A finite, non-empty set of ids has a largest.
LEMMA LargestId ==
    ASSUME NEW S, IsFiniteSet(S), S \subseteq Int, S # {}
    PROVE  \E m \in S : \A n \in S : n <= m
<1> DEFINE W == {T \in SUBSET S : T = {} \/ \E m \in T : \A n \in T : n <= m}
<1>1. ASSUME NEW T \in SUBSET S, \A x \in T : T \ {x} \in W PROVE T \in W
    <2>1. CASE T = {}
        BY <2>1
    <2>2. CASE T # {}
        <3>1. PICK x \in T : TRUE
            BY <2>2
        <3>2. T \ {x} = {} \/ \E m \in T \ {x} : \A n \in T \ {x} : n <= m
            BY <1>1
        <3>3. CASE T \ {x} = {}
            BY <3>3
        <3>4. CASE \E m \in T \ {x} : \A n \in T \ {x} : n <= m
            <4>1. PICK m \in T \ {x} : \A n \in T \ {x} : n <= m
                BY <3>4
            <4>2. x \in Int /\ m \in Int /\ \A n \in T : n \in Int
                OBVIOUS
            <4>3. CASE x <= m
                <5>1. \A n \in T : n <= m
                    BY <4>1, <4>3
                <5>2. QED
                    BY <5>1
            <4>4. CASE m < x
                <5>1. \A n \in T : n <= x
                    BY <4>1, <4>2, <4>4
                <5>2. QED
                    BY <5>1
            <4>5. QED
                BY <4>2, <4>3, <4>4
        <3>5. QED
            BY <3>2, <3>3, <3>4
    <2>3. QED
        BY <2>1, <2>2
<1> HIDE DEF W
<1>2. \A T \in SUBSET S : T \in W
    BY <1>1, SubsetInduction
<1>3. S \in W
    BY <1>2
<1>4. QED
    BY <1>3 DEF W

\* What a transaction still wants and holds: a payment one order; the documents
\* their lines in order, behind those they hold; a checkout its order, then the
\* counter, then lines in any order.
PayShape(w, h) ==
    /\ w \in Seq(OrderRows) /\ h \subseteq OrderRows
    /\ w = <<>> \/ (h = {} /\ Len(w) = 1)
LinesShape(w, h) ==
    /\ InIdOrder(w) /\ h \subseteq ItemRows
    /\ \A r \in h : \A i \in DOMAIN w : r[2] < w[i][2]
CheckoutShape(w, h) ==
    \/ h = {} /\ \E o \in OrderRows, s \in Seq(ItemRows) : w = <<o, CounterRow>> \o s
    \/ h \subseteq OrderRows /\ \E s \in Seq(ItemRows) : w = <<CounterRow>> \o s
    \/ CounterRow \in h /\ h \subseteq BillRows /\ w \in Seq(ItemRows)

LockShape(s, w, h) ==
    /\ s = "none" => w = <<>> /\ h = {}
    /\ s = "pay" => PayShape(w, h)
    /\ s \in {"adjust", "dispatch"} => LinesShape(w, h)
    /\ s = "checkout" => CheckoutShape(w, h)

\* No row is locked twice, and every transaction takes its rows in its order.
LockOrder ==
    /\ DOMAIN service = Transactions /\ DOMAIN wants = Transactions /\ DOMAIN holds = Transactions
    /\ \A x, y \in Transactions : x # y => holds[x] \cap holds[y] = {}
    /\ \A x \in Transactions : LockShape(service[x], wants[x], holds[x])

\* What a service wants when it begins.
LEMMA LocksShaped ==
    ASSUME NEW s \in DOMAIN Locking!Locks, NEW w \in Locking!Locks[s]
    PROVE  LockShape(s, w, {})
<1>0. s \in {"pay", "merge", "checkout", "refund", "adjust", "dispatch", "receive", "tables"}
    BY DEF Locking!Locks
<1>1. CASE s = "pay"
    <2>1. w \in Locking!PayLocks
        BY <1>1 DEF Locking!Locks
    <2>2. PICK o \in OrderRows : w = <<o>>
        BY <2>1 DEF Locking!PayLocks, OrderRows
    <2>3. w \in Seq(OrderRows) /\ Len(w) = 1
        BY <2>2
    <2>4. QED
        BY <1>1, <2>3 DEF LockShape, PayShape
<1>2. CASE s \in {"adjust", "dispatch"}
    <2>1. w \in Locking!ItemsInIdOrder
        BY <1>2 DEF Locking!Locks, Locking!AdjustLocks, Locking!DispatchLocks
    <2>2. InIdOrder(w)
        BY <2>1, OrderedSequences
    <2>3. QED
        BY <1>2, <2>2 DEF LockShape, LinesShape
<1>3. CASE s = "checkout"
    <2>1. w \in Locking!CheckoutLocks
        BY <1>3 DEF Locking!Locks
    <2>2. PICK o \in OrderRows : w \in Locking!After(<<o, CounterRow>>, Locking!ItemsAsTheyCome)
        BY <2>1 DEF Locking!CheckoutLocks, OrderRows, CounterRow
    <2>3. PICK t \in Locking!ItemsAsTheyCome : w = <<o, CounterRow>> \o t
        BY <2>2 DEF Locking!After
    <2>4. t \in Seq(ItemRows)
        BY <2>3, ItemSequences
    <2>5. QED
        BY <1>3, <2>3, <2>4 DEF LockShape, CheckoutShape
<1>4. CASE s \in {"merge", "refund", "receive", "tables"}
    BY <1>4 DEF LockShape
<1>5. QED
    BY <1>0, <1>1, <1>2, <1>3, <1>4

\* Locking the next row keeps the order.
LEMMA LockKeepsShape ==
    ASSUME NEW s, NEW w, NEW h, LockShape(s, w, h), w # <<>>
    PROVE  LockShape(s, Tail(w), h \union {Head(w)})
<1>0. s # "none"
    BY DEF LockShape
<1>1. CASE s = "pay"
    <2>1. PayShape(w, h)
        BY <1>1 DEF LockShape
    <2>2. w \in Seq(OrderRows) /\ Len(w) = 1 /\ h = {}
        BY <2>1 DEF PayShape
    <2>3. Head(w) \in OrderRows /\ Tail(w) \in Seq(OrderRows) /\ Len(Tail(w)) = 0
        BY <2>2, HeadTailProperties
    <2>4. Tail(w) = <<>>
        BY <2>3, EmptySeq
    <2>5. QED
        BY <1>1, <2>2, <2>3, <2>4 DEF LockShape, PayShape
<1>2. CASE s \in {"adjust", "dispatch"}
    <2>1. w \in Seq(ItemRows) /\ h \subseteq ItemRows
          /\ (\A i, j \in DOMAIN w : i < j => w[i][2] < w[j][2])
          /\ \A r \in h : \A i \in DOMAIN w : r[2] < w[i][2]
        BY <1>2 DEF LockShape, LinesShape, InIdOrder
    <2>2. /\ Head(w) \in ItemRows /\ Tail(w) \in Seq(ItemRows) /\ Len(Tail(w)) = Len(w) - 1
          /\ \A i \in 1..Len(Tail(w)) : Tail(w)[i] = w[i + 1]
          /\ Head(w) = w[1] /\ Len(w) \in Nat \ {0}
          /\ DOMAIN w = 1..Len(w) /\ DOMAIN Tail(w) = 1..Len(Tail(w))
        BY <2>1, HeadTailProperties, LenProperties, EmptySeq
    <2>3. \A i \in DOMAIN Tail(w) : i \in Nat /\ i + 1 \in DOMAIN w /\ Tail(w)[i] = w[i + 1] /\ 1 < i + 1
        BY <2>2
    <2>4. InIdOrder(Tail(w))
        BY <2>1, <2>2, <2>3 DEF InIdOrder
    <2>5. \A r \in h \union {Head(w)} : \A i \in DOMAIN Tail(w) : r[2] < Tail(w)[i][2]
        <3>1. 1 \in DOMAIN w
            BY <2>2
        <3>2. ASSUME NEW i \in DOMAIN Tail(w) PROVE Head(w)[2] < Tail(w)[i][2]
            <4>1. w[1][2] < w[i + 1][2]
                BY <2>1, <2>3, <3>1
            <4>2. QED
                BY <2>2, <2>3, <4>1
        <3>3. ASSUME NEW r \in h, NEW i \in DOMAIN Tail(w) PROVE r[2] < Tail(w)[i][2]
            <4>1. r[2] < w[i + 1][2]
                BY <2>1, <2>3
            <4>2. QED
                BY <2>3, <4>1
        <3>4. QED
            BY <3>2, <3>3
    <2>6. QED
        BY <1>2, <2>1, <2>2, <2>4, <2>5 DEF LockShape, LinesShape
<1>3. CASE s = "checkout"
    <2>0. CheckoutShape(w, h)
        BY <1>3 DEF LockShape
    <2>1. CASE h = {} /\ \E o \in OrderRows, t \in Seq(ItemRows) : w = <<o, CounterRow>> \o t
        <3>1. PICK o \in OrderRows, t \in Seq(ItemRows) : w = <<o, CounterRow>> \o t
            BY <2>1
        <3>2. t \in Seq(BillRows) /\ <<o, CounterRow>> \in Seq(BillRows) /\ <<CounterRow>> \in Seq(BillRows)
            BY DEF BillRows
        <3>3. /\ w \in Seq(BillRows) /\ Len(w) = 2 + Len(t) /\ Len(t) \in Nat
              /\ \A i \in 1..Len(w) : w[i] = IF i <= 2 THEN <<o, CounterRow>>[i] ELSE t[i - 2]
            BY <3>1, <3>2, ConcatProperties, LenProperties
        <3>4. /\ <<CounterRow>> \o t \in Seq(BillRows) /\ Len(<<CounterRow>> \o t) = 1 + Len(t)
              /\ \A i \in 1..1 + Len(t) : (<<CounterRow>> \o t)[i]
                                            = IF i <= 1 THEN <<CounterRow>>[i] ELSE t[i - 1]
            BY <3>2, ConcatProperties, LenProperties
        <3>5. /\ Tail(w) \in Seq(BillRows) /\ Len(Tail(w)) = 1 + Len(t) /\ Head(w) = o
              /\ \A i \in 1..1 + Len(t) : Tail(w)[i] = w[i + 1]
            BY <3>3, HeadTailProperties
        <3>6. \A i \in 1..1 + Len(t) : Tail(w)[i] = (<<CounterRow>> \o t)[i]
            BY <3>3, <3>4, <3>5
        <3>7. Tail(w) = <<CounterRow>> \o t
            BY <3>4, <3>5, <3>6, SeqEqual
        <3>8. QED
            BY <1>3, <2>1, <3>5, <3>7 DEF LockShape, CheckoutShape
    <2>2. CASE h \subseteq OrderRows /\ \E t \in Seq(ItemRows) : w = <<CounterRow>> \o t
        <3>1. PICK t \in Seq(ItemRows) : w = <<CounterRow>> \o t
            BY <2>2
        <3>2. t \in Seq(BillRows) /\ <<CounterRow>> \in Seq(BillRows)
            BY DEF BillRows
        <3>3. /\ w \in Seq(BillRows) /\ Len(w) = 1 + Len(t) /\ Len(t) \in Nat
              /\ \A i \in 1..Len(w) : w[i] = IF i <= 1 THEN <<CounterRow>>[i] ELSE t[i - 1]
            BY <3>1, <3>2, ConcatProperties, LenProperties
        <3>4. /\ Tail(w) \in Seq(BillRows) /\ Len(Tail(w)) = Len(t) /\ Head(w) = CounterRow
              /\ \A i \in 1..Len(t) : Tail(w)[i] = w[i + 1]
            BY <3>3, HeadTailProperties
        <3>5. \A i \in 1..Len(t) : Tail(w)[i] = t[i]
            BY <3>3, <3>4
        <3>6. Tail(w) = t
            BY <3>2, <3>4, <3>5, SeqEqual
        <3>7. CounterRow \in h \union {Head(w)} /\ h \union {Head(w)} \subseteq BillRows
            BY <2>2, <3>4 DEF BillRows
        <3>8. QED
            BY <1>3, <3>6, <3>7 DEF LockShape, CheckoutShape
    <2>3. CASE CounterRow \in h /\ h \subseteq BillRows /\ w \in Seq(ItemRows)
        <3>1. Head(w) \in ItemRows /\ Tail(w) \in Seq(ItemRows)
            BY <2>3, HeadTailProperties
        <3>2. QED
            BY <1>3, <2>3, <3>1 DEF LockShape, CheckoutShape, BillRows
    <2>4. QED
        BY <2>0, <2>1, <2>2, <2>3 DEF CheckoutShape
<1>4. CASE s \notin {"pay", "adjust", "dispatch", "checkout"}
    BY <1>0, <1>4 DEF LockShape
<1>5. QED
    BY <1>1, <1>2, <1>3, <1>4

LEMMA LockOrderNext == LockOrder /\ [Locking!Next]_rowVars => LockOrder'
<1> SUFFICES ASSUME LockOrder, [Locking!Next]_rowVars PROVE LockOrder'
    OBVIOUS
<1>0. /\ DOMAIN service = Transactions /\ DOMAIN wants = Transactions /\ DOMAIN holds = Transactions
      /\ \A x, y \in Transactions : x # y => holds[x] \cap holds[y] = {}
      /\ \A x \in Transactions : LockShape(service[x], wants[x], holds[x])
    BY DEF LockOrder
<1>1. CASE UNCHANGED rowVars
    BY <1>0, <1>1 DEF rowVars, LockOrder
<1>2. ASSUME NEW x \in Transactions, NEW s \in DOMAIN Locking!Locks, Locking!Begin(x, s)
      PROVE  LockOrder'
    <2>1. PICK w \in Locking!Locks[s] : wants' = [wants EXCEPT ![x] = w]
        BY <1>2 DEF Locking!Begin
    <2>2. service[x] = "none" /\ service' = [service EXCEPT ![x] = s] /\ holds' = holds
        BY <1>2 DEF Locking!Begin
    <2>3. holds[x] = {}
        BY <1>0, <2>2 DEF LockShape
    <2>4. LockShape(s, w, holds[x])
        BY <2>1, <2>3, LocksShaped
    <2>5. QED
        BY <1>0, <2>1, <2>2, <2>4 DEF LockOrder
<1>3. ASSUME NEW x \in Transactions, Locking!Lock(x) PROVE LockOrder'
    <2>1. /\ wants[x] # <<>> /\ (\A y \in Transactions : ~Locking!WaitsFor(x, y))
          /\ holds' = [holds EXCEPT ![x] = holds[x] \union {Head(wants[x])}]
          /\ wants' = [wants EXCEPT ![x] = Tail(wants[x])] /\ service' = service
        BY <1>0, <1>3 DEF Locking!Lock
    <2>2. \A y \in Transactions \ {x} : Head(wants[x]) \notin holds[y]
        BY <2>1 DEF Locking!WaitsFor
    <2>3. LockShape(service[x], Tail(wants[x]), holds[x] \union {Head(wants[x])})
        BY <1>0, <2>1, LockKeepsShape
    <2>4. QED
        BY <1>0, <2>1, <2>2, <2>3 DEF LockOrder
<1>4. ASSUME NEW x \in Transactions, Locking!End(x) PROVE LockOrder'
    <2>1. LockShape("none", <<>>, {})
        BY DEF LockShape
    <2>2. QED
        BY <1>0, <1>4, <2>1 DEF Locking!End, LockOrder
<1>5. CASE Locking!Next
    BY <1>2, <1>3, <1>4, <1>5 DEF Locking!Next, Locking!Finish, Locking!AbortVictim
<1>6. QED
    BY <1>1, <1>5

LEMMA LockOrderInit == Locking!Init => LockOrder
BY DEF Locking!Init, LockOrder, LockShape

\* Who waits for whom, of those that must not wait in a circle.
LEMMA PaymentsFinish ==
    ASSUME LockOrder, NEW x \in Transactions, service[x] = "pay", wants[x] # <<>>
    PROVE  holds[x] = {} /\ Head(wants[x]) \in OrderRows
<1>1. PayShape(wants[x], holds[x])
    BY DEF LockOrder, LockShape
<1>2. QED
    BY <1>1, HeadTailProperties DEF PayShape

LEMMA LinesGoUp ==
    ASSUME LockOrder, NEW x \in Transactions, service[x] \in {"adjust", "dispatch"}, wants[x] # <<>>
    PROVE  /\ Head(wants[x]) \in ItemRows /\ holds[x] \subseteq ItemRows
           /\ \A r \in holds[x] : r[2] < Head(wants[x])[2]
<1>1. LinesShape(wants[x], holds[x])
    BY DEF LockOrder, LockShape
<1>2. wants[x] \in Seq(ItemRows) /\ holds[x] \subseteq ItemRows
      /\ \A r \in holds[x] : \A i \in DOMAIN wants[x] : r[2] < wants[x][i][2]
    BY <1>1 DEF LinesShape, InIdOrder
<1>3. Head(wants[x]) \in ItemRows /\ Head(wants[x]) = wants[x][1] /\ 1 \in DOMAIN wants[x]
    BY <1>2, HeadTailProperties, EmptySeq, LenProperties
<1>4. QED
    BY <1>2, <1>3

LEMMA CheckoutPhases ==
    ASSUME LockOrder, NEW x \in Transactions, service[x] = "checkout", wants[x] # <<>>
    PROVE  \/ Head(wants[x]) \in OrderRows /\ holds[x] = {}
           \/ Head(wants[x]) = CounterRow /\ holds[x] \subseteq OrderRows
           \/ Head(wants[x]) \in ItemRows /\ CounterRow \in holds[x]
<1> DEFINE w == wants[x]
           h == holds[x]
<1>0. CheckoutShape(w, h)
    BY DEF LockOrder, LockShape
<1>1. CASE h = {} /\ \E o \in OrderRows, t \in Seq(ItemRows) : w = <<o, CounterRow>> \o t
    <2>1. PICK o \in OrderRows, t \in Seq(ItemRows) : w = <<o, CounterRow>> \o t
        BY <1>1
    <2>2. t \in Seq(BillRows) /\ <<o, CounterRow>> \in Seq(BillRows)
        BY DEF BillRows
    <2>3. w[1] = o
        BY <2>1, <2>2, ConcatProperties, LenProperties
    <2>4. QED
        BY <1>1, <2>3
<1>2. CASE h \subseteq OrderRows /\ \E t \in Seq(ItemRows) : w = <<CounterRow>> \o t
    <2>1. PICK t \in Seq(ItemRows) : w = <<CounterRow>> \o t
        BY <1>2
    <2>2. t \in Seq(BillRows) /\ <<CounterRow>> \in Seq(BillRows)
        BY DEF BillRows
    <2>3. w[1] = CounterRow
        BY <2>1, <2>2, ConcatProperties, LenProperties
    <2>4. QED
        BY <1>2, <2>3
<1>3. CASE CounterRow \in h /\ h \subseteq BillRows /\ w \in Seq(ItemRows)
    BY <1>3, HeadTailProperties
<1>4. QED
    BY <1>0, <1>1, <1>2, <1>3 DEF CheckoutShape

\* Payments and checkouts: who wants a line holds the counter, and only one does.
LEMMA BillsNeverCircle ==
    ASSUME LockOrder, NEW xs \in SUBSET Transactions, \A x \in xs : service[x] \in {"pay", "checkout"},
           \A x \in xs : \E y \in xs : Locking!WaitsFor(x, y)
    PROVE  xs = {}
<1>1. \A x \in xs : /\ wants[x] # <<>>
                    /\ \E y \in xs : x # y /\ Head(wants[x]) \in holds[y]
    BY DEF Locking!WaitsFor
<1>2. \A x \in xs : \/ Head(wants[x]) \in OrderRows /\ holds[x] = {}
                    \/ Head(wants[x]) = CounterRow /\ holds[x] \subseteq OrderRows
                    \/ Head(wants[x]) \in ItemRows /\ CounterRow \in holds[x]
    BY <1>1, PaymentsFinish, CheckoutPhases
<1>3. \A x, y \in xs : x # y => holds[x] \cap holds[y] = {}
    BY DEF LockOrder
<1>4. \A x \in xs : Head(wants[x]) \notin ItemRows
    <2> SUFFICES ASSUME NEW x \in xs, Head(wants[x]) \in ItemRows PROVE FALSE
        OBVIOUS
    <2>1. PICK y \in xs : x # y /\ Head(wants[x]) \in holds[y]
        BY <1>1
    <2>2. CounterRow \in holds[x] /\ CounterRow \in holds[y]
        BY <1>2, <2>1, Kinds
    <2>3. QED
        BY <1>3, <2>1, <2>2
<1>5. \A x \in xs : Head(wants[x]) # CounterRow
    <2> SUFFICES ASSUME NEW x \in xs, Head(wants[x]) = CounterRow PROVE FALSE
        OBVIOUS
    <2>1. PICK y \in xs : x # y /\ CounterRow \in holds[y]
        BY <1>1
    <2>2. QED
        BY <1>2, <1>4, <2>1, Kinds
<1>6. \A x \in xs : holds[x] = {}
    BY <1>2, <1>4, <1>5
<1>7. QED
    BY <1>1, <1>6

\* Payments, adjustments and dispatches: of those that wait for a line, one waits
\* for the line with the largest id.
LEMMA LinesNeverCircle ==
    ASSUME LockOrder, NEW xs \in SUBSET Transactions,
           \A x \in xs : service[x] \in {"pay", "adjust", "dispatch"},
           \A x \in xs : \E y \in xs : Locking!WaitsFor(x, y)
    PROVE  xs = {}
<1> SUFFICES ASSUME xs # {} PROVE FALSE
    OBVIOUS
<1>1. \A x \in xs : /\ wants[x] # <<>>
                    /\ \E y \in xs : x # y /\ Head(wants[x]) \in holds[y]
    BY DEF Locking!WaitsFor
<1>2. \A x \in xs : \/ Head(wants[x]) \in OrderRows /\ holds[x] = {}
                    \/ /\ Head(wants[x]) \in ItemRows /\ holds[x] \subseteq ItemRows
                       /\ \A r \in holds[x] : r[2] < Head(wants[x])[2]
    BY <1>1, PaymentsFinish, LinesGoUp
<1>3. \A x \in xs : Head(wants[x]) \in ItemRows
    BY <1>1, <1>2, Kinds
<1> DEFINE ids == {Head(wants[x])[2] : x \in xs}
<1>4. ids \subseteq ItemIds /\ ids # {}
    BY <1>3, Kinds
<1>5. IsFiniteSet(ids) /\ ids \subseteq Int
    BY <1>4, LocksAssumption, FS_Subset
<1>6. PICK m \in ids : \A n \in ids : n <= m
    BY <1>4, <1>5, LargestId
<1>7. PICK x \in xs : m = Head(wants[x])[2]
    BY <1>6
<1>8. PICK y \in xs : Head(wants[x]) \in holds[y]
    BY <1>1
<1>9. m < Head(wants[y])[2]
    BY <1>2, <1>7, <1>8, Kinds
<1>10. Head(wants[y])[2] \in ids /\ Head(wants[y])[2] \in Int /\ m \in Int
    BY <1>5
<1>11. Head(wants[y])[2] <= m
    BY <1>6, <1>10
<1>12. QED
    BY <1>9, <1>10, <1>11

\* Any number of payments, dispatches and adjustments over any lines, or of
\* payments and checkouts, never deadlock (lock_fefo_batches, lock_in_order and
\* the counter of next_number).
THEOREM NoCircle == PremisesSpec => []OrderedNeverCircle
<1>1. ASSUME LockOrder PROVE OrderedNeverCircle
    <2> SUFFICES ASSUME NEW xs \in SUBSET Transactions,
                        LET running == {service[x] : x \in xs} IN
                          \/ running \subseteq {"pay", "adjust", "dispatch"}
                          \/ running \subseteq {"pay", "checkout"},
                        Locking!Circular(xs)
                 PROVE  FALSE
        BY DEF OrderedNeverCircle, Locking!OrderedNeverCircle
    <2>1. xs # {} /\ \A x \in xs : \E y \in xs : Locking!WaitsFor(x, y)
        BY DEF Locking!Circular
    <2>2. \/ \A x \in xs : service[x] \in {"pay", "adjust", "dispatch"}
          \/ \A x \in xs : service[x] \in {"pay", "checkout"}
        OBVIOUS
    <2>3. QED
        BY <1>1, <2>1, <2>2, BillsNeverCircle, LinesNeverCircle
<1>2. QED
    BY <1>1, LockOrderInit, LockOrderNext, LockingSteps, PTL

-----------------------------------------------------------------------------
(* Printing *)

LEMMA PrintingSteps == PremisesSpec => Printing!Init /\ [][Printing!Next]_paperVars
<1>1. PremisesInit => Printing!Init
    BY DEF PremisesInit
<1>2. [PremisesNext]_premisesVars => [Printing!Next]_paperVars
    BY DEF PremisesNext, premisesVars, paperVars
<1>3. PremisesSpec => PremisesInit /\ [][PremisesNext]_premisesVars
    BY PTL DEF PremisesSpec, premisesVars
<1>4. QED
    BY <1>1, <1>2, <1>3, PTL

\* A row of PrintJob, and what a request or a task holds while it prints one.
IsJobRow(r) == r = [status |-> r.status, retries |-> r.retries]
IsPrinting(h) == h = [at |-> h.at, job |-> h.job, row |-> h.row]

\* What the draft, the rows and the answered requests say is on paper: a draft
\* is committed and an answer stored later, when no paper comes out any more.
PaperInv ==
    /\ DOMAIN job = JobTypes /\ DOMAIN printer = Printers
    /\ \A j \in JobTypes : IsJobRow(job[j]) /\ (job[j].status = "printed" => j \in paper)
    /\ sale \in {"settling", "dispatched"} =>
         /\ DOMAIN draft = JobTypes
         /\ \A j \in JobTypes : IsJobRow(draft[j]) /\ (draft[j].status = "printed" => j \in paper)
    /\ \A p \in Printers : printer[p] = Printing!Resting \/ IsPrinting(printer[p])
    /\ \A p \in Printers : printer[p].at = "sent" => printer[p].job \in paper

\* Rows that keep to what is on paper.
OnPaper(rows, sheets) ==
    /\ DOMAIN rows = JobTypes
    /\ \A j \in JobTypes : IsJobRow(rows[j]) /\ (rows[j].status = "printed" => j \in sheets)

\* One row saved with a status that says printed only of what is on paper.
LEMMA StatusStored ==
    ASSUME NEW rows, NEW sheets, OnPaper(rows, sheets), NEW j, NEW s,
           s = "printed" => j \in sheets
    PROVE  OnPaper([rows EXCEPT ![j].status = s], sheets)
<1>1. ASSUME NEW k \in JobTypes
      PROVE  /\ IsJobRow([rows EXCEPT ![j].status = s][k])
             /\ [rows EXCEPT ![j].status = s][k].status = "printed" => k \in sheets
    <2>1. CASE k = j
        <3> DEFINE st == rows[k].status
                   re == rows[k].retries
        <3>1. rows[k] = [status |-> st, retries |-> re]
            BY DEF OnPaper, IsJobRow
        <3>2. [rows EXCEPT ![j].status = s][k] = [rows[k] EXCEPT !.status = s]
            BY <2>1 DEF OnPaper
        <3> HIDE DEF st, re
        <3>3. [rows[k] EXCEPT !.status = s] = [status |-> s, retries |-> re]
            BY <3>1
        <3>4. QED
            BY <2>1, <3>2, <3>3 DEF IsJobRow
    <2>2. CASE k # j
        BY <2>2 DEF OnPaper
    <2>3. QED
        BY <2>1, <2>2
<1>2. QED
    BY <1>1 DEF OnPaper

LEMMA RowStored ==
    ASSUME NEW rows, NEW sheets, OnPaper(rows, sheets), NEW j, NEW r, IsJobRow(r),
           r.status = "printed" => j \in sheets
    PROVE  OnPaper([rows EXCEPT ![j] = r], sheets)
BY DEF OnPaper

LEMMA PaperInvParts ==
    PaperInv <=>
    /\ OnPaper(job, paper)
    /\ sale \in {"settling", "dispatched"} => OnPaper(draft, paper)
    /\ DOMAIN printer = Printers
    /\ \A p \in Printers : printer[p] = Printing!Resting \/ IsPrinting(printer[p])
    /\ \A p \in Printers : printer[p].at = "sent" => printer[p].job \in paper
BY DEF PaperInv, OnPaper

LEMMA PaperNext == PaperInv /\ [Printing!Next]_paperVars => PaperInv'
<1> SUFFICES ASSUME PaperInv, [Printing!Next]_paperVars PROVE PaperInv'
    OBVIOUS
<1>0. /\ OnPaper(job, paper)
      /\ sale \in {"settling", "dispatched"} => OnPaper(draft, paper)
      /\ DOMAIN printer = Printers
      /\ \A p \in Printers : printer[p] = Printing!Resting \/ IsPrinting(printer[p])
      /\ \A p \in Printers : printer[p].at = "sent" => printer[p].job \in paper
    BY PaperInvParts
<1>a. ASSUME /\ OnPaper(job', paper')
             /\ sale' \in {"settling", "dispatched"} => OnPaper(draft', paper')
             /\ DOMAIN printer' = Printers
             /\ \A p \in Printers : printer'[p] = Printing!Resting \/ IsPrinting(printer'[p])
             /\ \A p \in Printers : printer'[p].at = "sent" => printer'[p].job \in paper'
      PROVE  PaperInv'
    BY <1>a DEF PaperInv, OnPaper
<1>b. ASSUME OnPaper(job', paper), paper' = paper, UNCHANGED <<sale, draft, printer>>
      PROVE  PaperInv'
    BY <1>0, <1>a, <1>b
<1>c. IsJobRow(Printing!NewJob) /\ Printing!NewJob.status = "pending"
    BY DEF IsJobRow, Printing!NewJob
\* A printer that rests again, or prints on with what it holds.
<1>d. ASSUME NEW p \in Printers, NEW h, printer' = [printer EXCEPT ![p] = h],
             h = Printing!Resting \/ (IsPrinting(h) /\ (h.at = "sent" => h.job \in paper')),
             paper \subseteq paper'
      PROVE  /\ DOMAIN printer' = Printers
             /\ \A q \in Printers : printer'[q] = Printing!Resting \/ IsPrinting(printer'[q])
             /\ \A q \in Printers : printer'[q].at = "sent" => printer'[q].job \in paper'
    BY <1>0, <1>d DEF Printing!Resting
<1>e. ASSUME NEW p \in Printers, NEW place, printer[p].at # "rest",
             printer' = [printer EXCEPT ![p].at = place]
      PROVE  \E h : /\ printer' = [printer EXCEPT ![p] = h] /\ IsPrinting(h)
                    /\ h.at = place /\ h.job = printer[p].job
    <2>1. IsPrinting(printer[p])
        BY <1>0, <1>e DEF Printing!Resting
    <2> DEFINE b == printer[p].job
               r == printer[p].row
               h == [at |-> place, job |-> b, row |-> r]
    <2>2. printer[p] = [at |-> printer[p].at, job |-> b, row |-> r]
        BY <2>1 DEF IsPrinting
    <2>3. [printer[p] EXCEPT !.at = place] = h
        <3> HIDE DEF b, r
        <3>1. QED
            BY <2>2
    <2>4. printer' = [printer EXCEPT ![p] = h]
        BY <1>e, <2>3
    <2>5. IsPrinting(h) /\ h.at = place /\ h.job = b
        BY DEF IsPrinting
    <2>6. QED
        BY <2>4, <2>5
<1>f. ASSUME NEW rows, OnPaper(rows, paper), paper \subseteq paper' PROVE OnPaper(rows, paper')
    BY <1>f DEF OnPaper
<1>1. CASE Printing!Settle
    <2>1. OnPaper(draft', paper)
        BY <1>0, <1>1, <1>c DEF Printing!Settle, OnPaper
    <2>2. QED
        BY <1>0, <1>1, <1>a, <2>1 DEF Printing!Settle
<1>2. CASE Printing!SkipDispatch \/ Printing!Commit \/ Printing!Abort
    BY <1>0, <1>2, <1>a DEF Printing!SkipDispatch, Printing!Commit, Printing!Abort
<1>3. ASSUME NEW answered \in BOOLEAN, NEW rows, OnPaper(rows, paper), Printing!Send("customer", answered)
      PROVE  paper \subseteq paper' /\ OnPaper(Printing!WithReceipt(rows, answered), paper')
    <2>1. paper \subseteq paper' /\ (answered => "customer" \in paper')
        BY <1>3 DEF Printing!Send
    <2>2. OnPaper(rows, paper')
        BY <1>3, <1>f, <2>1
    <2>3. OnPaper([rows EXCEPT !["customer"].status = IF answered THEN "printed" ELSE "failed"], paper')
        BY <2>1, <2>2, StatusStored
    <2>4. QED
        BY <2>1, <2>3 DEF Printing!WithReceipt
<1>4. ASSUME NEW answered \in BOOLEAN, Printing!DispatchInCheckout(answered) PROVE PaperInv'
    <2>1. paper \subseteq paper' /\ OnPaper(draft', paper') /\ UNCHANGED <<job, printer>>
        BY <1>0, <1>3, <1>4 DEF Printing!DispatchInCheckout
    <2>2. QED
        BY <1>0, <1>a, <1>f, <2>1
<1>5. ASSUME NEW answered \in BOOLEAN, Printing!Reprint(answered) PROVE PaperInv'
    <2>1. paper \subseteq paper' /\ OnPaper(job', paper') /\ UNCHANGED <<sale, draft, printer>>
        BY <1>0, <1>3, <1>5 DEF Printing!Reprint
    <2>2. QED
        BY <1>0, <1>a, <1>f, <2>1
<1>6. ASSUME NEW bound \in BOOLEAN, Printing!ListWaiting(bound) PROVE PaperInv'
    BY <1>0, <1>6, <1>b DEF Printing!ListWaiting
<1>7. ASSUME NEW j \in JobTypes, Printing!Retry(j) PROVE PaperInv'
    <2>1. OnPaper(job', paper)
        BY <1>0, <1>7, <1>c, RowStored DEF Printing!Retry
    <2>2. QED
        BY <1>7, <1>b, <2>1 DEF Printing!Retry
\* A step of one printer that may save a row and prints nothing.
<1>8. ASSUME NEW p \in Printers, NEW h, printer' = [printer EXCEPT ![p] = h],
             h = Printing!Resting \/ (IsPrinting(h) /\ h.at # "sent"),
             OnPaper(job', paper), paper' = paper, UNCHANGED <<sale, draft>>
      PROVE  PaperInv'
    BY <1>0, <1>a, <1>d, <1>8
<1>9. ASSUME NEW p \in Printers, Printing!PrintTicket(p) PROVE PaperInv'
    <2> DEFINE row == IF Printing!Exists("kot") THEN job["kot"] ELSE Printing!NewJob
    <2>1. /\ job' = [job EXCEPT !["kot"] = row]
          /\ printer' = [printer EXCEPT ![p] = [at |-> "begin", job |-> "kot", row |-> row]]
          /\ paper' = paper /\ UNCHANGED <<sale, draft>>
        BY <1>9 DEF Printing!PrintTicket
    <2>2. OnPaper(job', paper)
        <3>1. CASE "kot" \in JobTypes
            <4>1. IsJobRow(row) /\ (row.status = "printed" => "kot" \in paper)
                BY <1>0, <1>c, <3>1 DEF OnPaper
            <4> HIDE DEF row
            <4>2. QED
                BY <1>0, <2>1, <4>1, RowStored
        <3>2. CASE "kot" \notin JobTypes
            BY <1>0, <2>1, <3>2 DEF OnPaper
        <3>3. QED
            BY <3>1, <3>2
    <2>3. IsPrinting([at |-> "begin", job |-> "kot", row |-> row])
        BY DEF IsPrinting
    <2>4. QED
        BY <1>8, <2>1, <2>2, <2>3
<1>10. ASSUME NEW p \in Printers, NEW j \in JobTypes, Printing!ManualReprint(p, j) PROVE PaperInv'
    <2>1. OnPaper(job', paper)
        BY <1>0, <1>10, <1>c, RowStored DEF Printing!ManualReprint
    <2>2. QED
        BY <1>8, <1>10, <2>1 DEF Printing!ManualReprint, IsPrinting
<1>11. ASSUME NEW p \in Printers, Printing!TakeNext(p) PROVE PaperInv'
    BY <1>0, <1>8, <1>11 DEF Printing!TakeNext, IsPrinting
<1>12. ASSUME NEW p \in Printers, Printing!SkipPrinted(p) \/ Printing!Die(p) PROVE PaperInv'
    BY <1>0, <1>8, <1>12 DEF Printing!SkipPrinted, Printing!Die
<1>13. ASSUME NEW p \in Printers, Printing!MarkPrinting(p) PROVE PaperInv'
    <2>1. OnPaper(job', paper)
        BY <1>0, <1>13, StatusStored DEF Printing!MarkPrinting
    <2>2. printer[p].at = "begin" /\ printer' = [printer EXCEPT ![p].at = "send"]
        BY <1>13 DEF Printing!MarkPrinting
    <2>2a. \E h : /\ printer' = [printer EXCEPT ![p] = h] /\ IsPrinting(h)
                  /\ h.at = "send" /\ h.job = printer[p].job
        BY <1>e, <2>2
    <2>2b. PICK h : printer' = [printer EXCEPT ![p] = h] /\ IsPrinting(h) /\ h.at = "send"
        BY <2>2a
    <2>3. QED
        BY <1>8, <1>13, <2>1, <2>2b DEF Printing!MarkPrinting
<1>14. ASSUME NEW p \in Printers, NEW answered \in BOOLEAN, Printing!SendJob(p, answered)
       PROVE  PaperInv'
    <2> DEFINE place == IF answered THEN "sent" ELSE "refused"
    <2>0. printer[p].at = "send" /\ printer' = [printer EXCEPT ![p].at = place]
        BY <1>14 DEF Printing!SendJob
    <2>0a. \E h : /\ printer' = [printer EXCEPT ![p] = h] /\ IsPrinting(h)
                  /\ h.at = place /\ h.job = printer[p].job
        <3> HIDE DEF place
        <3>1. QED
            BY <1>e, <2>0
    <2>1. PICK h : /\ printer' = [printer EXCEPT ![p] = h] /\ IsPrinting(h)
                   /\ h.at = place /\ h.job = printer[p].job
        BY <2>0a
    <2>2. paper \subseteq paper' /\ (answered => printer[p].job \in paper')
          /\ UNCHANGED <<sale, job, draft>>
        BY <1>14 DEF Printing!SendJob, Printing!Send
    <2>3. h.at = "sent" => h.job \in paper'
        BY <2>1, <2>2
    <2>4. /\ DOMAIN printer' = Printers
          /\ \A q \in Printers : printer'[q] = Printing!Resting \/ IsPrinting(printer'[q])
          /\ \A q \in Printers : printer'[q].at = "sent" => printer'[q].job \in paper'
        BY <1>d, <2>1, <2>2, <2>3
    <2>5. QED
        BY <1>0, <1>a, <1>f, <2>2, <2>4
<1>15. ASSUME NEW p \in Printers, Printing!NoPrinter(p) PROVE PaperInv'
    <2>0. printer[p].at = "send" /\ printer' = [printer EXCEPT ![p].at = "refused"]
        BY <1>15 DEF Printing!NoPrinter
    <2>0a. \E h : /\ printer' = [printer EXCEPT ![p] = h] /\ IsPrinting(h)
                  /\ h.at = "refused" /\ h.job = printer[p].job
        BY <1>e, <2>0
    <2>1. PICK h : printer' = [printer EXCEPT ![p] = h] /\ IsPrinting(h) /\ h.at = "refused"
        BY <2>0a
    <2>2. QED
        BY <1>0, <1>8, <1>15, <2>1 DEF Printing!NoPrinter
<1>16. ASSUME NEW p \in Printers, Printing!StorePrinted(p) PROVE PaperInv'
    <2>1. OnPaper(job', paper)
        BY <1>0, <1>16, StatusStored DEF Printing!StorePrinted
    <2>2. QED
        BY <1>8, <1>16, <2>1 DEF Printing!StorePrinted
<1>17. ASSUME NEW p \in Printers, Printing!StoreRefused(p) PROVE PaperInv'
    <2> DEFINE tried == printer[p].row.retries
               r == IF tried + 1 < MaxRetries THEN [status |-> "retrying", retries |-> tried + 1]
                    ELSE [status |-> "failed", retries |-> MaxRetries]
    <2>1. job' = [job EXCEPT ![printer[p].job] = r]
        BY <1>17 DEF Printing!StoreRefused
    <2>1a. IsJobRow(r) /\ r.status # "printed"
        BY DEF IsJobRow
    <2>2. OnPaper(job', paper)
        <3> HIDE DEF r
        <3>1. QED
            BY <1>0, <2>1, <2>1a, RowStored
    <2>3. QED
        BY <1>8, <1>17, <2>2 DEF Printing!StoreRefused
<1>18. CASE UNCHANGED paperVars
    BY <1>0, <1>18, <1>b DEF paperVars
<1>19. CASE Printing!Next
    BY <1>1, <1>2, <1>4, <1>5, <1>6, <1>7, <1>9, <1>10, <1>11, <1>12, <1>13, <1>14, <1>15, <1>16,
       <1>17, <1>19 DEF Printing!Next
<1>20. QED
    BY <1>18, <1>19

LEMMA PaperInit == Printing!Init => PaperInv
BY DEF Printing!Init, Printing!NoJob, Printing!Resting, PaperInv, IsJobRow

-----------------------------------------------------------------------------
(* Receipts *)

LEMMA BilledSteps == PremisesSpec => Billed!Init /\ [][Billed!Next]_billedVars
<1>1. PremisesInit => Billed!Init
    BY DEF PremisesInit
<1>2. [PremisesNext]_premisesVars => [Billed!Next]_billedVars
    BY DEF PremisesNext, premisesVars, billedVars
<1>3. PremisesSpec => PremisesInit /\ [][PremisesNext]_premisesVars
    BY PTL DEF PremisesSpec, premisesVars
<1>4. QED
    BY <1>1, <1>2, <1>3, PTL

\* A snapshot is of a settled sale that had items; a sale not settled has no copy.
ReceiptInv ==
    /\ DOMAIN settled = Invoices /\ DOMAIN soldAs = Invoices /\ DOMAIN snapshot = Invoices
    /\ DOMAIN copies = Invoices
    /\ \A i \in Invoices :
         /\ ~Billed!Settled(i) => ~snapshot[i].taken /\ copies[i] = Billed!NoCopy
         /\ snapshot[i].taken => snapshot[i].items # {}
    /\ Billed!SnapshotShowsSale

\* A copy made from the snapshot of a sale shows the sale.
LEMMA CopyShowsSale ==
    ASSUME NEW i \in Invoices, NEW snap, NEW items, snap.taken, snap.items # {}, Billed!ShowsSale(i, snap)
    PROVE  Billed!ShowsSale(i, Billed!Copy(snap, items).payload)
BY DEF Billed!ShowsSale, Billed!Copy, Billed!Payload

LEMMA ReceiptNext == ReceiptInv /\ [Billed!Next]_billedVars => ReceiptInv'
<1> SUFFICES ASSUME ReceiptInv, [Billed!Next]_billedVars PROVE ReceiptInv'
    OBVIOUS
<1> USE DEF ReceiptInv, Billed!SnapshotShowsSale, Billed!Settled, Billed!ShowsSale
<1>1. CASE UNCHANGED billedVars
    BY <1>1 DEF billedVars
<1>2. ASSUME UNCHANGED <<settled, snapshot, soldAs, copies>> PROVE ReceiptInv'
    BY <1>2
<1>3. CASE (\E n \in Names \union {Blank}, s \in Styles : Billed!SaveConfig(n, s)) \/ Billed!ResetConfig
    BY <1>2, <1>3 DEF Billed!SaveConfig, Billed!ResetConfig
<1>4. ASSUME NEW i \in Invoices, NEW items \in (SUBSET Billed!SaleItems) \ {{}}, Billed!Checkout(i, items)
      PROVE  ReceiptInv'
    <2> DEFINE snap == Billed!CreateSnapshot(items)
               sale1 == [settled |-> TRUE, name |-> config.name, items |-> items]
    <2>1. /\ ~soldAs[i].settled /\ items # {}
          /\ settled' = [settled EXCEPT ![i] = items]
          /\ soldAs' = [soldAs EXCEPT ![i] = sale1]
          /\ snapshot' = [snapshot EXCEPT ![i] = snap]
          /\ copies' = [copies EXCEPT ![i] = Billed!Copy(snap, items)] \/ copies' = copies
        <3>1. /\ snapshot' = [snapshot EXCEPT ![i] = snap]
              /\ copies' = [copies EXCEPT ![i] = Billed!Copy(snap, items)] \/ copies' = copies
            <4> HIDE DEF Billed!CreateSnapshot
            <4>1. QED
                BY <1>4 DEF Billed!Checkout
        <3>2. /\ ~soldAs[i].settled
              /\ settled' = [settled EXCEPT ![i] = items]
              /\ soldAs' = [soldAs EXCEPT ![i] = sale1]
            BY <1>4 DEF Billed!Checkout, Billed!Settle
        <3>3. items # {}
            OBVIOUS
        <3> HIDE DEF snap, sale1, Billed!CreateSnapshot
        <3>4. QED
            BY <3>1, <3>2, <3>3
    <2>2. /\ snap.taken /\ snap.name = config.name /\ snap.items = items
          /\ snap.total = Billed!Total(items)
        BY DEF Billed!CreateSnapshot
    <2>3. soldAs'[i] = sale1 /\ snapshot'[i] = snap
        BY <2>1
    <2>4. sale1.settled /\ sale1.name = config.name /\ sale1.items = items
        OBVIOUS
    <2>5. copies'[i] # Billed!NoCopy => copies'[i] = Billed!Copy(snap, items)
        BY <2>1
    <2>6. (soldAs'[i].name # Blank => Billed!Copy(snap, items).payload.name = soldAs'[i].name)
          /\ Billed!Copy(snap, items).payload.items = soldAs'[i].items
        BY <2>1, <2>2, <2>3, <2>4 DEF Billed!Copy, Billed!Payload
    <2>7. \A j \in Invoices \ {i} : soldAs'[j] = soldAs[j] /\ snapshot'[j] = snapshot[j]
                                    /\ copies'[j] = copies[j]
        BY <2>1
    <2> HIDE DEF snap, sale1
    <2>8. QED
        BY <2>1, <2>2, <2>3, <2>4, <2>5, <2>6, <2>7
<1>5. ASSUME NEW i \in Invoices, NEW items \in (SUBSET Billed!SaleItems) \ {{}},
             Billed!SettleWithoutSnapshot(i, items)
      PROVE  ReceiptInv'
    BY <1>5 DEF Billed!SettleWithoutSnapshot, Billed!Settle
<1>6. ASSUME NEW i \in Invoices, NEW x \in Billed!SaleItems, Billed!VoidItem(i, x) PROVE ReceiptInv'
    BY <1>6 DEF Billed!VoidItem
<1>7. ASSUME NEW i \in Invoices, Billed!Reprint(i) PROVE ReceiptInv'
    <2>1. /\ soldAs[i].settled /\ copies' = [copies EXCEPT ![i] = Billed!Copy(snapshot[i], settled[i])]
          /\ UNCHANGED <<settled, snapshot, soldAs>>
        BY <1>7 DEF Billed!Reprint
    <2>2. snapshot[i].taken => Billed!ShowsSale(i, Billed!Copy(snapshot[i], settled[i]).payload)
        BY CopyShowsSale
    <2>3. QED
        BY <2>1, <2>2
<1>8. CASE Billed!Next
    BY <1>3, <1>4, <1>5, <1>6, <1>7, <1>8 DEF Billed!Next
<1>9. QED
    BY <1>1, <1>8

LEMMA ReceiptInit == Billed!Init => ReceiptInv
BY DEF Billed!Init, Billed!NoSale, Billed!NoSnapshot, Billed!NoCopy, ReceiptInv,
       Billed!SnapshotShowsSale, Billed!Settled

\* Whatever answers are lost, whoever dies and whatever is rolled back, retried or
\* reconfigured: a job that is shown as printed is on paper, and the history page
\* and payloads show the sale as it was (execute_print_job, create_invoice_snapshot).
THEOREM PaperTrue == PremisesSpec => []PaperIsTrue
<1>1. PaperInv /\ ReceiptInv => PaperIsTrue
    BY DEF PaperInv, ReceiptInv, PaperIsTrue, Printing!PrintedIsOnPaper
<1>2. PremisesSpec => []PaperInv
    BY PaperInit, PaperNext, PrintingSteps, PTL
<1>3. PremisesSpec => []ReceiptInv
    BY ReceiptInit, ReceiptNext, BilledSteps, PTL
<1>4. QED
    BY <1>1, <1>2, <1>3, PTL

-----------------------------------------------------------------------------
(* Stock alerts *)

LEMMA AlertSteps == PremisesSpec => Alerts!Init /\ [][Alerts!Next]_warningVars
<1>1. PremisesInit => Alerts!Init
    BY DEF PremisesInit
<1>2. [PremisesNext]_premisesVars => [Alerts!Next]_warningVars
    BY DEF PremisesNext, premisesVars, warningVars
<1>3. PremisesSpec => PremisesInit /\ [][PremisesNext]_premisesVars
    BY PTL DEF PremisesSpec, premisesVars
<1>4. QED
    BY <1>1, <1>2, <1>3, PTL

AlertInv == level \in Int /\ due \in Nat /\ disturbed \in BOOLEAN /\ Alerts!AlertsFollowStock

\* What is asked of a stock level.
LevelConditions ==
    /\ Alerts!Condition("out_of_stock") <=> level <= 0
    /\ Alerts!Condition("low_stock") <=> level > 0 /\ level <= MinimumStock

LEMMA LevelConditionsHold == LevelConditions
BY DEF LevelConditions, Alerts!Condition

LEMMA AlertInit == Alerts!Init => AlertInv
<1> SUFFICES ASSUME Alerts!Init PROVE AlertInv
    OBVIOUS
<1>1. MinimumStock > 0 => ~Alerts!Condition("out_of_stock") /\ ~Alerts!Condition("low_stock")
    BY AlertsAssumption, LevelConditionsHold DEF LevelConditions, Alerts!Init
<1>2. QED
    BY <1>1, AlertsAssumption DEF Alerts!Init, AlertInv, Alerts!AlertsFollowStock, Alerts!StockTypes

LEMMA AlertNext == AlertInv /\ [Alerts!Next]_warningVars => AlertInv'
<1> SUFFICES ASSUME AlertInv, [Alerts!Next]_warningVars PROVE AlertInv'
    OBVIOUS
<1> USE AlertsAssumption DEF AlertInv, Alerts!AlertsFollowStock, Alerts!StockTypes
<1>c. LevelConditions /\ LevelConditions'
    BY LevelConditionsHold, PTL
<1>0. CASE UNCHANGED warningVars
    BY <1>0, <1>c DEF warningVars, LevelConditions
<1>1. ASSUME NEW l \in Alerts!Levels, Alerts!Movement(l) PROVE AlertInv'
    <2>1. l \in Int
        BY DEF Alerts!Levels
    <2>2. /\ level' = l /\ alerts' = alerts
          /\ \/ due' = due + 1 /\ disturbed' = disturbed
             \/ disturbed' = TRUE /\ due' = due
        BY <1>1 DEF Alerts!Movement
    <2>3. CASE due' = due + 1 /\ disturbed' = disturbed
        BY <2>1, <2>2, <2>3, <1>c DEF LevelConditions
    <2>4. CASE disturbed' = TRUE /\ due' = due
        BY <2>1, <2>2, <2>4, <1>c DEF LevelConditions
    <2>5. QED
        BY <2>2, <2>3, <2>4
<1>2. ASSUME NEW age \in Alerts!BatchAges, Alerts!AgeBatch(age) PROVE AlertInv'
    BY <1>2, <1>c DEF Alerts!AgeBatch, LevelConditions
<1>3. CASE Alerts!Evaluate
    <2>0. due' \in Nat /\ disturbed' = FALSE /\ level' = level
        BY <1>3 DEF Alerts!Evaluate
    <2>1. /\ alerts' = IF MinimumStock <= 0 THEN alerts
                       ELSE IF level > MinimumStock THEN alerts \ Alerts!StockTypes
                       ELSE alerts \union {type \in Alerts!StockTypes : Alerts!Condition(type)}
        BY <1>3 DEF Alerts!Evaluate, Alerts!Evaluated
    <2>2. CASE level > MinimumStock
        <3>1. MinimumStock > 0 => alerts' = alerts \ Alerts!StockTypes
            BY <2>1, <2>2
        <3>2. level' > MinimumStock
            BY <2>0, <2>2
        <3>3. MinimumStock > 0 => \A type \in Alerts!StockTypes : ~Alerts!Condition(type)'
            BY <1>c, <2>0, <3>2 DEF LevelConditions
        <3>4. QED
            BY <2>0, <3>1, <3>2, <3>3
    <2>3. CASE level <= MinimumStock
        <3>1. MinimumStock > 0 => alerts' = alerts \union {type \in Alerts!StockTypes : Alerts!Condition(type)}
            BY <2>1, <2>3
        <3>2. level' <= MinimumStock
            BY <2>0, <2>3
        <3>3. \A type \in Alerts!StockTypes : Alerts!Condition(type)' => Alerts!Condition(type)
            BY <1>c, <2>0 DEF LevelConditions
        <3>4. MinimumStock > 0 => \A type \in Alerts!StockTypes : Alerts!Condition(type)' => type \in alerts'
            BY <3>1, <3>3
        <3>5. level' \in Int /\ ~(level' > MinimumStock)
            BY <2>0, <3>2
        <3>6. Alerts!AlertsFollowStock'
            BY <3>4, <3>5, Zenon
        <3>7. QED
            BY <2>0, <3>5, <3>6
    <2>4. QED
        BY <2>2, <2>3
<1>4. CASE Alerts!RaiseListed
    <2>1. /\ alerts' = alerts \union {scan} /\ level' = level /\ due' = due
          /\ disturbed' = (disturbed \/ (scan \in Alerts!StockTypes /\ ~Alerts!Condition(scan)))
        BY <1>4 DEF Alerts!RaiseListed
    <2>2. disturbed' \in BOOLEAN /\ (~disturbed' => ~disturbed /\ (scan \in Alerts!StockTypes => Alerts!Condition(scan)))
        BY <2>1
    <2>3. QED
        BY <1>c, <2>1, <2>2 DEF LevelConditions
<1>5. ASSUME NEW type \in Alerts!AlertType, Alerts!List(type) PROVE AlertInv'
    BY <1>5, <1>c DEF Alerts!List, LevelConditions
<1>6. ASSUME NEW type \in Alerts!AlertType, Alerts!Acknowledge(type) PROVE AlertInv'
    BY <1>6 DEF Alerts!Acknowledge
<1>7. ASSUME NEW type \in Alerts!AlertType, Alerts!Resolve(type) PROVE AlertInv'
    BY <1>7 DEF Alerts!Resolve
<1> QED
    BY <1>0, <1>1, <1>2, <1>3, <1>4, <1>5, <1>6, <1>7 DEF Alerts!Next

-----------------------------------------------------------------------------
(* Products and their events *)

LEMMA MenuSteps == PremisesSpec => Menu!Init /\ [][Menu!Next]_menuVars
<1>1. PremisesInit => Menu!Init
    BY DEF PremisesInit
<1>2. [PremisesNext]_premisesVars => [Menu!Next]_menuVars
    BY DEF PremisesNext, premisesVars, menuVars
<1>3. PremisesSpec => PremisesInit /\ [][PremisesNext]_premisesVars
    BY PTL DEF PremisesSpec, premisesVars
<1>4. QED
    BY <1>1, <1>2, <1>3, PTL

\* A call has read the row of a product that was on the menu.
OnMenu(r) == r.live /\ r = Menu!Row(r.price)

MenuInv ==
    /\ DOMAIN product = CatalogProducts /\ DOMAIN told = CatalogProducts /\ DOMAIN writer = Writers
    /\ \A p \in CatalogProducts : product[p] = Menu!NoProduct \/ OnMenu(product[p])
    /\ \A w \in Writers : writer[w].at # "ready" => writer[w].of \in CatalogProducts /\ OnMenu(writer[w].seen)
    /\ Menu!EventsTellTheMenu

LEMMA MenuInit == Menu!Init => MenuInv
BY DEF Menu!Init, MenuInv, Menu!EventsTellTheMenu, Menu!Ready

LEMMA MenuNext == MenuInv /\ [Menu!Next]_menuVars => MenuInv'
<1> SUFFICES ASSUME MenuInv, [Menu!Next]_menuVars PROVE MenuInv'
    OBVIOUS
<1> USE DEF MenuInv, Menu!EventsTellTheMenu
<1>r. \A n : OnMenu(Menu!Row(n))
    BY DEF OnMenu, Menu!Row
<1>0. CASE UNCHANGED menuVars
    BY <1>0 DEF menuVars
<1>1. ASSUME NEW p \in CatalogProducts, Menu!CreateProduct(p) PROVE MenuInv'
    <2>1. PICK n \in MenuPrices : product' = [product EXCEPT ![p] = Menu!Row(n)]
        BY <1>1 DEF Menu!CreateProduct
    <2>2. told' = [told EXCEPT ![p] = Menu!Row(n)] /\ UNCHANGED <<writer, untold, overwritten>>
        BY <1>1, <2>1 DEF Menu!CreateProduct
    <2>3. QED
        BY <1>r, <2>1, <2>2
<1>2. ASSUME NEW p \in CatalogProducts, Menu!CreateUntold(p) PROVE MenuInv'
    BY <1>2, <1>r DEF Menu!CreateUntold
<1>3. ASSUME NEW w \in Writers, NEW p \in CatalogProducts, NEW by \in {"service", "rest"}, Menu!Read(w, p, by)
      PROVE  MenuInv'
    <2>1. /\ OnMenu(product[p])
          /\ writer' = [writer EXCEPT ![w] = [at |-> by, of |-> p, seen |-> product[p]]]
          /\ UNCHANGED <<product, told, untold, overwritten>>
        BY <1>3 DEF Menu!Read, Menu!NoProduct
    <2>2. QED
        BY <2>1
\* The row a call writes back.
<1>w. ASSUME NEW w \in Writers, NEW n \in MenuPrices, writer[w].at # "ready", Menu!WriteBack(w, n)
      PROVE  /\ writer[w].of \in CatalogProducts
             /\ product' = [product EXCEPT ![writer[w].of] = Menu!Row(n)]
             /\ \A q \in CatalogProducts : product'[q] = Menu!NoProduct \/ OnMenu(product'[q])
             /\ DOMAIN writer' = Writers
             /\ \A v \in Writers : writer'[v].at # "ready" => writer'[v].of \in CatalogProducts /\ OnMenu(writer'[v].seen)
             /\ overwritten' = IF product[writer[w].of] = writer[w].seen THEN overwritten
                               ELSE overwritten \union {writer[w].of}
    <2>1. /\ product' = [product EXCEPT ![writer[w].of] = Menu!Row(n)]
          /\ overwritten' = IF product[writer[w].of] = writer[w].seen THEN overwritten
                            ELSE overwritten \union {writer[w].of}
          /\ writer' = [writer EXCEPT ![w] = Menu!Ready]
        BY <1>w DEF Menu!WriteBack
    <2>2. \A v \in Writers : writer'[v].at # "ready" => writer'[v].of \in CatalogProducts /\ OnMenu(writer'[v].seen)
        BY <2>1 DEF Menu!Ready
    <2>3. QED
        BY <1>r, <1>w, <2>1, <2>2
<1>4. ASSUME NEW w \in Writers, Menu!UpdateProduct(w) PROVE MenuInv'
    <2>1. PICK n \in MenuPrices : Menu!WriteBack(w, n) /\ Menu!Announce(writer[w].of, writer[w].seen.price, n)
        BY <1>4 DEF Menu!UpdateProduct
    <2>2. writer[w].at # "ready" /\ untold' = untold
        BY <1>4 DEF Menu!UpdateProduct
    <2>3. PICK p \in CatalogProducts : p = writer[w].of
        BY <2>2
    <2>4. PICK old : old = writer[w].seen /\ OnMenu(old)
        BY <2>2
    <2>5. /\ product' = [product EXCEPT ![p] = Menu!Row(n)]
          /\ overwritten' = IF product[p] = old THEN overwritten ELSE overwritten \union {p}
          /\ told' = IF old.price = n THEN told ELSE [told EXCEPT ![p] = Menu!Row(n)]
        BY <1>w, <2>1, <2>2, <2>3, <2>4 DEF Menu!Announce
    <2>6. Menu!EventsTellTheMenu'
        <3>1. CASE old.price = n
            <4>1. old = Menu!Row(n)
                BY <2>4, <3>1 DEF OnMenu
            <4>2. QED
                BY <2>2, <2>5, <3>1, <4>1
        <3>2. CASE old.price # n
            BY <2>2, <2>5, <3>2
        <3>3. QED
            BY <3>1, <3>2
    <2>7. DOMAIN product' = CatalogProducts /\ DOMAIN told' = CatalogProducts
        BY <2>5
    <2>8. QED
        BY <1>w, <2>1, <2>2, <2>6, <2>7
<1>5. ASSUME NEW w \in Writers, Menu!UpdateUntold(w) PROVE MenuInv'
    <2>1. PICK n \in MenuPrices : Menu!WriteBack(w, n)
        BY <1>5 DEF Menu!UpdateUntold
    <2>2. writer[w].at # "ready" /\ untold' = untold \union {writer[w].of} /\ told' = told
        BY <1>5 DEF Menu!UpdateUntold
    <2>3. PICK p \in CatalogProducts : p = writer[w].of
        BY <2>2
    <2>4. /\ product' = [product EXCEPT ![p] = Menu!Row(n)] /\ overwritten \subseteq overwritten'
        BY <1>w, <2>1, <2>2, <2>3
    <2>5. Menu!EventsTellTheMenu'
        BY <2>2, <2>3, <2>4
    <2>6. QED
        BY <1>w, <2>1, <2>2, <2>4, <2>5
<1>6. ASSUME NEW p \in CatalogProducts, Menu!DeleteProduct(p) PROVE MenuInv'
    BY <1>6 DEF Menu!DeleteProduct
<1>7. ASSUME NEW p \in CatalogProducts, Menu!DeleteUntold(p) PROVE MenuInv'
    BY <1>7 DEF Menu!DeleteUntold
<1>8. ASSUME NEW w \in Writers, Menu!GiveUp(w) PROVE MenuInv'
    BY <1>8 DEF Menu!GiveUp, Menu!Ready
<1> QED
    BY <1>0, <1>1, <1>2, <1>3, <1>4, <1>5, <1>6, <1>7, <1>8 DEF Menu!Next

\* Once every movement has been evaluated a record has the alert its level asks for, in
\* whatever order movements, evaluations and scans run; and who follows the catalog's
\* events knows price and presence of every product nobody wrote past the service and no
\* two calls changed at once (_evaluate_low_stock_alert, product_service).
THEOREM FollowersInformed == PremisesSpec => []FollowersKnow
<1>1. AlertInv /\ MenuInv => FollowersKnow
    BY DEF AlertInv, MenuInv, FollowersKnow
<1>2. PremisesSpec => []AlertInv
    BY AlertInit, AlertNext, AlertSteps, PTL
<1>3. PremisesSpec => []MenuInv
    BY MenuInit, MenuNext, MenuSteps, PTL
<1>4. QED
    BY <1>1, <1>2, <1>3, PTL
=============================================================================
