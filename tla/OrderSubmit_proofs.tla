------------------------- MODULE OrderSubmit_proofs -------------------------
(***************************************************************************)
(* Theorems about the batch of orders of a signal, for any accounts,       *)
(* stops levels, signals, prices and faults.                               *)
(***************************************************************************)
EXTENDS OrderSubmit, SequenceTheorems, FiniteSetTheorems, TLAPS

Orders == [slice : Nat, kind : Kinds, sl : Int, tp : Int, state : States]
Jobs == [at : {"waiting", "start", "send", "reprice", "undo", "returned"},
         slice : Nat, order : Orders \cup {None}, tries : 0..(Attempts - 1),
         tickets : Seq(Nat), result : {"pending", "all", "none"}]
Levels == [sl : Int, tp : Int]
Plans == [built : BOOLEAN, market : BOOLEAN, cur : Int \cup {None}, levels : Seq(Levels)]

Types ==
    /\ sig \in Signals /\ price \in Prices
    /\ plan \in Plans
    /\ book \in [Accounts -> Seq(Orders)]
    /\ job \in [Accounts -> Jobs]
    /\ unsure \subseteq Accounts
    /\ loose \in [Accounts -> SUBSET Nat]

\* The plan gives every slice the same stop.
PlanSound ==
    plan.built => /\ plan.levels \in [Slices -> Levels]
                  /\ \A i, k \in Slices : plan.levels[i].sl = plan.levels[k].sl
                  /\ ~plan.market => PendingKind(plan.cur) = "limit"

\* An order has the stop of its slice, and its target unless it was sent to
\* market in place of a limit, which may only move the target outward.
GoodOrder(o) ==
    /\ o.slice \in Slices /\ o.kind \in {"limit", "market"}
    /\ plan.market => o.kind = "market"
    /\ o.kind = "market" => o.state # "pending"
    /\ o.sl = plan.levels[o.slice].sl
    /\ o.kind = "limit" \/ plan.market => o.tp = plan.levels[o.slice].tp
    /\ o.kind = "market" => Ahead(o.tp, plan.levels[o.slice].tp) >= 0

Sending(j) == j.at \in {"send", "reprice"}

\* Job j of an account at whose broker are the orders b.
InOrder(b, j) ==
    /\ j.at \in {"waiting", "start"} => b = <<>> /\ j.tickets = <<>>
    /\ plan.built = (j.at # "waiting")
    /\ (j.at = "returned") = (j.result # "pending")
    /\ j.at = "undo" => j.tickets # <<>>
    /\ j.result = "none" => j.tickets = <<>>
    /\ Sending(j) => /\ j.order \in Orders /\ GoodOrder(j.order)
                     /\ j.order.slice = j.slice /\ j.slice \in Slices
                     /\ Reached(b) \in {j.slice - 1, j.slice}
    /\ j.at = "reprice" => j.order.kind = "limit"
    /\ j.slice \in 1..(Len(sig.tps) + 1)
    /\ Reached(b) \in 0..Len(sig.tps)
    /\ \A n \in DOMAIN b : GoodOrder(b[n])
    /\ \A k \in DOMAIN j.tickets : j.tickets[k] \in DOMAIN b

\* The same for an account all of whose orders have a ticket: there is one for
\* each slice so far.
Whole(b, j) ==
    /\ \A n \in DOMAIN b : b[n].slice = n
    /\ Sending(j) => /\ Len(b) = j.slice - 1 /\ Len(j.tickets) = Len(b)
                     /\ \A k \in DOMAIN j.tickets : j.tickets[k] = k
    /\ j.result = "all" => Len(b) = Len(sig.tps)

IInv ==
    /\ Types
    /\ PlanSound
    /\ \A a \in Accounts : InOrder(book[a], job[a])
    /\ \A a \in Accounts \ unsure : Whole(book[a], job[a])

\* What a step from b and j to c and k makes of the batch.
Advances(b, j, c, k) ==
    \/ k.result = j.result /\ Reached(c) = Reached(b)
    \/ /\ j.result = "pending" /\ k.result = "pending"
       /\ Reached(c) = Reached(b) + 1 /\ Reached(c) <= Len(sig.tps)
    \/ /\ j.result = "pending" /\ k.result = "all"
       /\ Len(sig.tps) <= Reached(b) + 1 /\ Reached(c) = Len(sig.tps)
    \/ /\ j.result = "pending" /\ k.result = "none"
       /\ Reached(c) \in {Reached(b), Reached(b) + 1} /\ Reached(c) <= Len(sig.tps)

\* A step of account a alone, after which its orders are c and its job is k.
Step(a, c, k) ==
    /\ plan.built
    /\ book' = [book EXCEPT ![a] = c] /\ c \in Seq(Orders)
    /\ job' = [job EXCEPT ![a] = k] /\ k \in Jobs
    /\ UNCHANGED <<sig, price, plan>>
    /\ unsure \subseteq unsure' /\ unsure' \subseteq Accounts
    /\ \E l \in SUBSET Nat : loose' = [loose EXCEPT ![a] = l]
    /\ InOrder(c, k)
    /\ a \notin unsure' => Whole(c, k)
    /\ Advances(book[a], job[a], c, k)

\* The stops level that the plan is made with is one.
LEMMA MinDistType == MinDist \in Nat
<1>1. PICK a \in Accounts : \A b \in Accounts : StopLevel[b] <= StopLevel[a]
  BY ConstantsOK DEF ConstantsOK
<1>2. \E d \in {StopLevel[c] : c \in Accounts} : \A b \in Accounts : StopLevel[b] <= d
  BY <1>1
<1>3. MinDist \in {StopLevel[c] : c \in Accounts}
  BY <1>2 DEF MinDist
<1>4. QED
  BY <1>3, ConstantsOK DEF ConstantsOK

\* The slices are the places of the targets.
LEMMA SlicesAre ==
    ASSUME sig \in Signals
    PROVE  /\ sig.tps \in Seq(Int) /\ Slices = 1..Len(sig.tps) /\ Len(sig.tps) \in Nat
           /\ sig.side \in {"buy", "sell"} /\ sig.entry \in Int /\ sig.sl \in Int
           /\ \A i \in Slices : sig.tps[i] \in Int
BY SignalsOK, LenProperties, ElementOfSeq DEF SignalsOK, Slices

\* The plan is one.
LEMMA OrderPlanType ==
    ASSUME sig \in Signals, NEW cur \in Int \cup {None}
    PROVE  /\ OrderPlan(cur) \in Plans
           /\ OrderPlan(cur).built
           /\ OrderPlan(cur).levels \in [Slices -> Levels]
<1> DEFINE market == cur # None /\ Ahead(cur, sig.entry) < MinDist
           ref == IF market THEN cur ELSE sig.entry
           levels == [i \in Slices |-> StopsFloor(ref, sig.sl, sig.tps[i])]
<1>1. ref \in Int /\ market \in BOOLEAN
  BY SlicesAre
<1>2. \A i \in Slices : StopsFloor(ref, sig.sl, sig.tps[i]) \in Levels
  <2> HIDE DEF ref
  <2> QED
    BY <1>1, SlicesAre, MinDistType DEF StopsFloor, Levels, Beyond
<1>3. levels \in [Slices -> Levels]
  BY <1>2
<1>4. levels \in Seq(Levels)
  <2>1. levels \in [1..Len(sig.tps) -> Levels]
    <3> HIDE DEF levels
    <3> QED BY <1>3, SlicesAre
  <2>2. QED
    <3> HIDE DEF levels
    <3> QED BY <2>1, SlicesAre, IsASeq
<1>5. OrderPlan(cur) = [built |-> TRUE, market |-> market, cur |-> cur, levels |-> levels]
  BY DEF OrderPlan
<1>6. QED
  <2> HIDE DEF levels, market
  <2> QED BY <1>1, <1>3, <1>4, <1>5 DEF Plans

\* Turning to a slice, giving up and trying again change a job as they say.
LEMMA TurnIs ==
    ASSUME Types, plan.levels \in [Slices -> Levels], Attempts \in Nat \ {0}
    PROVE  \A j \in Jobs, i \in Nat, market \in BOOLEAN :
              /\ Turn(j, i, market) \in Jobs
              /\ Turn(j, i, market).tickets = j.tickets
              /\ i \notin Slices => /\ Turn(j, i, market).at = "returned"
                                    /\ Turn(j, i, market).result = "all"
                                    /\ Turn(j, i, market).slice = j.slice
              /\ i \in Slices => /\ Turn(j, i, market).at = "send"
                                 /\ Turn(j, i, market).slice = i
                                 /\ Turn(j, i, market).tries = 0
                                 /\ Turn(j, i, market).result = j.result
                                 /\ Turn(j, i, market).order \in Orders
                                 /\ market => Turn(j, i, market).order
                                                 = Order(i, "market", plan.levels[i])
                                 /\ ~market => Turn(j, i, market).order
                                                 = Order(i, PendingKind(plan.cur), plan.levels[i])
<1> SUFFICES ASSUME NEW j \in Jobs, NEW i \in Nat, NEW market \in BOOLEAN
             PROVE  LET t == Turn(j, i, market)
                    IN /\ t \in Jobs /\ t.tickets = j.tickets
                       /\ i \notin Slices => t.at = "returned" /\ t.result = "all" /\ t.slice = j.slice
                       /\ i \in Slices => /\ t.at = "send" /\ t.slice = i /\ t.tries = 0
                                          /\ t.result = j.result /\ t.order \in Orders
                                          /\ market => t.order = Order(i, "market", plan.levels[i])
                                          /\ ~market => t.order = Order(i, PendingKind(plan.cur), plan.levels[i])
  OBVIOUS
<1>1. CASE i \notin Slices
  BY <1>1 DEF Turn, Jobs
<1>2. CASE i \in Slices
  <2> DEFINE kind == IF market THEN "market" ELSE PendingKind(plan.cur)
             o == Order(i, kind, plan.levels[i])
  <2>1. kind \in Kinds
    BY DEF Kinds, PendingKind
  <2>2. plan.levels[i] \in Levels
    BY <1>2
  <2>3. o \in Orders
    <3> HIDE DEF kind
    <3> QED BY <2>1, <2>2 DEF Order, Orders, Levels, States
  <2>4. Turn(j, i, market) = [j EXCEPT !.at = "send", !.slice = i, !.tries = 0, !.order = o]
    BY <1>2 DEF Turn
  <2>5. 0 \in 0..(Attempts - 1)
    OBVIOUS
  <2>6. /\ market => o = Order(i, "market", plan.levels[i])
        /\ ~market => o = Order(i, PendingKind(plan.cur), plan.levels[i])
    OBVIOUS
  <2>7. QED
    <3> HIDE DEF o, kind
    <3>1. [j EXCEPT !.at = "send", !.slice = i, !.tries = 0, !.order = o] \in Jobs
      BY <2>3, <2>5 DEF Jobs
    <3>2. QED
      BY <1>2, <2>3, <2>4, <2>6, <3>1 DEF Jobs
<1>3. QED
  BY <1>1, <1>2

LEMMA FailedIs ==
    ASSUME NEW j \in Jobs
    PROVE  LET t == Failed(j)
           IN /\ t \in Jobs /\ t.tickets = j.tickets /\ t.slice = j.slice
              /\ j.tickets = <<>> => t.at = "returned" /\ t.result = "none"
              /\ j.tickets # <<>> => t.at = "undo" /\ t.result = j.result
<1>1. 0 \in 0..(Attempts - 1)
  BY ConstantsOK DEF ConstantsOK
<1>2. CASE j.tickets = <<>>
  BY <1>1, <1>2 DEF Failed, Jobs
<1>3. CASE j.tickets # <<>>
  BY <1>1, <1>3 DEF Failed, Jobs
<1>4. QED
  BY <1>2, <1>3

\* What is loose may be left as it is.
LEMMA LooseSame ==
    ASSUME Types, NEW a \in Accounts, loose' = loose
    PROVE  \E l \in SUBSET Nat : loose' = [loose EXCEPT ![a] = l]
<1>1. loose[a] \in SUBSET Nat /\ loose = [loose EXCEPT ![a] = loose[a]]
  BY DEF Types
<1>2. QED
  BY <1>1

\* A job that tries again sends the same order, or is given up.
LEMMA AgainIs ==
    ASSUME NEW a \in Accounts, job \in [Accounts -> Jobs], Again(a)
    PROVE  LET t == job'[a]
           IN /\ job' = [job EXCEPT ![a] = t] /\ t \in Jobs
              /\ t.tickets = job[a].tickets /\ t.slice = job[a].slice
              /\ \/ /\ t.at = job[a].at /\ t.order = job[a].order /\ t.result = job[a].result
                    /\ t.tries = job[a].tries + 1
                 \/ t = Failed(job[a])
<1> DEFINE again == [job[a] EXCEPT !.tries = job[a].tries + 1]
<1>1. job'[a] = IF job[a].tries + 1 < Attempts THEN again ELSE Failed(job[a])
  BY DEF Again
<1>2. job' = [job EXCEPT ![a] = job'[a]]
  <2> DEFINE next == IF job[a].tries + 1 < Attempts THEN again ELSE Failed(job[a])
  <2>1. job' = [job EXCEPT ![a] = next]
    BY DEF Again
  <2> HIDE DEF next
  <2>2. QED
    BY <2>1
<1>3. job[a] \in Jobs
  OBVIOUS
<1>4. CASE job[a].tries + 1 < Attempts
  <2>1. job[a].tries + 1 \in 0..(Attempts - 1)
    BY <1>3, <1>4, ConstantsOK DEF Jobs, ConstantsOK
  <2>2. again \in Jobs /\ again.at = job[a].at /\ again.order = job[a].order
        /\ again.result = job[a].result /\ again.tickets = job[a].tickets /\ again.slice = job[a].slice
        /\ again.tries = job[a].tries + 1
    BY <1>3, <2>1 DEF Jobs
  <2>3. QED
    BY <1>1, <1>2, <1>4, <2>2
<1>5. CASE ~(job[a].tries + 1 < Attempts)
  BY <1>1, <1>2, <1>3, <1>5, FailedIs
<1>6. QED
  BY <1>4, <1>5

\* The ticket of the order that is sent turns the job to the next slice.
LEMMA TicketedIs ==
    ASSUME Types, plan.levels \in [Slices -> Levels],
           NEW a \in Accounts, Sending(job[a]), job[a].order \in Orders, Ticketed(a)
    PROVE  LET j == job[a]
               t == job'[a]
               o == Order(j.slice + 1, IF j.order.kind = "market" THEN "market" ELSE PendingKind(plan.cur),
                          plan.levels[j.slice + 1])
           IN /\ job' = [job EXCEPT ![a] = t] /\ t \in Jobs
              /\ t.tickets = Append(j.tickets, Len(book[a]) + 1)
              /\ j.slice + 1 \notin Slices => t.at = "returned" /\ t.result = "all" /\ t.slice = j.slice
              /\ j.slice + 1 \in Slices => /\ t.at = "send" /\ t.slice = j.slice + 1 /\ t.order = o
                                           /\ o \in Orders /\ t.result = j.result /\ t.tries = 0
<1> DEFINE j == [job[a] EXCEPT !.tickets = Append(@, Len(book[a]) + 1)]
<1>1. job[a] \in Jobs /\ book[a] \in Seq(Orders)
  BY DEF Types
<1>2. Append(job[a].tickets, Len(book[a]) + 1) \in Seq(Nat)
  BY <1>1, LenProperties, AppendProperties DEF Jobs
<1>3. /\ j \in Jobs /\ j.slice = job[a].slice /\ j.order = job[a].order /\ j.result = job[a].result
      /\ j.tickets = Append(job[a].tickets, Len(book[a]) + 1)
  <2> DEFINE ts == Append(job[a].tickets, Len(book[a]) + 1)
  <2> HIDE DEF ts
  <2>1. ts \in Seq(Nat)
    BY <1>2 DEF ts
  <2>2. [job[a] EXCEPT !.tickets = ts] \in Jobs
    BY <1>1, <2>1 DEF Jobs
  <2>3. QED
    BY <1>1, <2>2 DEF Jobs, ts
<1>4. job' = [job EXCEPT ![a] = Turn(j, j.slice + 1, j.order.kind = "market")]
  BY DEF Ticketed
<1>5. job'[a] = Turn(j, j.slice + 1, j.order.kind = "market") /\ job' = [job EXCEPT ![a] = job'[a]]
  BY <1>4 DEF Types
<1>6. j.slice + 1 \in Nat /\ (j.order.kind = "market") \in BOOLEAN
  BY <1>1, <1>3 DEF Jobs
<1>7. Attempts \in Nat \ {0}
  BY ConstantsOK DEF ConstantsOK
<1>8. \A k \in BOOLEAN : j.order.kind = "market" <=> k => job'[a] = Turn(j, j.slice + 1, k)
  <2> HIDE DEF j
  <2> QED BY <1>5
<1>9. CASE j.order.kind = "market"
  <2> HIDE DEF j
  <2>1. job'[a] = Turn(j, j.slice + 1, TRUE)
    BY <1>8, <1>9
  <2> DEFINE i == j.slice + 1
             o == Order(i, "market", plan.levels[i])
  <2>2. /\ job'[a] \in Jobs /\ job'[a].tickets = j.tickets
        /\ i \notin Slices => job'[a].at = "returned" /\ job'[a].result = "all" /\ job'[a].slice = j.slice
        /\ i \in Slices => /\ job'[a].at = "send" /\ job'[a].slice = i /\ job'[a].tries = 0
                           /\ job'[a].result = j.result /\ job'[a].order = o /\ o \in Orders
    <3> HIDE DEF i
    <3> DEFINE t == Turn(j, i, TRUE)
    <3>1. i \in Nat /\ j \in Jobs
      BY <1>3, <1>6 DEF i
    <3>2. t \in Jobs /\ t.tickets = j.tickets
      BY <1>7, <3>1, TurnIs
    <3>3. i \notin Slices => t.at = "returned" /\ t.result = "all" /\ t.slice = j.slice
      BY <1>7, <3>1, TurnIs
    <3>4. i \in Slices => t.at = "send" /\ t.slice = i /\ t.tries = 0 /\ t.result = j.result
      BY <1>7, <3>1, TurnIs
    <3>5. i \in Slices => t.order = Order(i, "market", plan.levels[i]) /\ t.order \in Orders
      BY <1>7, <3>1, TurnIs
    <3>6. job'[a] = t
      BY <2>1 DEF i
    <3> HIDE DEF t
    <3>7. QED
      BY <3>2, <3>3, <3>4, <3>5, <3>6
  <2>3. QED
    BY <1>3, <1>5, <1>9, <2>2
<1>10. CASE j.order.kind # "market"
  <2> HIDE DEF j
  <2>1. job'[a] = Turn(j, j.slice + 1, FALSE)
    BY <1>8, <1>10
  <2> DEFINE i == j.slice + 1
             o == Order(i, PendingKind(plan.cur), plan.levels[i])
  <2>2. /\ job'[a] \in Jobs /\ job'[a].tickets = j.tickets
        /\ i \notin Slices => job'[a].at = "returned" /\ job'[a].result = "all" /\ job'[a].slice = j.slice
        /\ i \in Slices => /\ job'[a].at = "send" /\ job'[a].slice = i /\ job'[a].tries = 0
                           /\ job'[a].result = j.result /\ job'[a].order = o /\ o \in Orders
    <3> HIDE DEF i
    <3> DEFINE t == Turn(j, i, FALSE)
    <3>1. i \in Nat /\ j \in Jobs
      BY <1>3, <1>6 DEF i
    <3>2. t \in Jobs /\ t.tickets = j.tickets
      BY <1>7, <3>1, TurnIs
    <3>3. i \notin Slices => t.at = "returned" /\ t.result = "all" /\ t.slice = j.slice
      BY <1>7, <3>1, TurnIs
    <3>4. i \in Slices => t.at = "send" /\ t.slice = i /\ t.tries = 0 /\ t.result = j.result
      BY <1>7, <3>1, TurnIs
    <3>5. i \in Slices => t.order = Order(i, PendingKind(plan.cur), plan.levels[i]) /\ t.order \in Orders
      BY <1>7, <3>1, TurnIs
    <3>6. job'[a] = t
      BY <2>1 DEF i
    <3> HIDE DEF t
    <3>7. QED
      BY <3>2, <3>3, <3>4, <3>5, <3>6
  <2>3. QED
    BY <1>3, <1>5, <1>10, <2>2
<1>11. QED
  BY <1>9, <1>10

\* One more order at the broker.
LEMMA OneMore ==
    ASSUME NEW b \in Seq(Orders), NEW o \in Orders
    PROVE  LET c == Append(b, o)
           IN /\ c \in Seq(Orders) /\ Len(c) = Len(b) + 1 /\ DOMAIN c = 1..(Len(b) + 1)
              /\ \A n \in DOMAIN b : c[n] = b[n]
              /\ c[Len(b) + 1] = o
              /\ Reached(c) = o.slice
<1> DEFINE c == Append(b, o)
<1>1. /\ c \in Seq(Orders) /\ Len(c) = Len(b) + 1 /\ c # <<>>
      /\ \A n \in 1..Len(b) : c[n] = b[n]
      /\ c[Len(b) + 1] = o
  BY AppendProperties
<1>2. DOMAIN c = 1..(Len(b) + 1) /\ DOMAIN b = 1..Len(b)
  BY <1>1, LenProperties
<1>3. QED
  <2> HIDE DEF c
  <2>1. Reached(c) = o.slice
    BY <1>1 DEF Reached
  <2>2. QED
    BY <1>1, <1>2, <2>1 DEF c

\* An order at the broker changes its state.
LEMMA OneChanged ==
    ASSUME NEW b \in Seq(Orders), NEW n \in DOMAIN b, NEW st \in States
    PROVE  LET o == [b[n] EXCEPT !.state = st]
               c == [b EXCEPT ![n] = o]
           IN /\ c \in Seq(Orders) /\ Len(c) = Len(b) /\ DOMAIN c = DOMAIN b
              /\ \A m \in DOMAIN b : m # n => c[m] = b[m]
              /\ c[n] = o /\ o.state = st /\ o.kind = b[n].kind /\ o.slice = b[n].slice
              /\ o.sl = b[n].sl /\ o.tp = b[n].tp
              /\ Reached(c) = Reached(b)
<1> DEFINE o == [b[n] EXCEPT !.state = st]
           c == [b EXCEPT ![n] = o]
<1>1. b[n] \in Orders /\ DOMAIN b = 1..Len(b) /\ n \in 1..Len(b) /\ Len(b) \in Nat
  BY ElementOfSeq, LenProperties
<1>2. /\ o \in Orders /\ o.state = st /\ o.kind = b[n].kind /\ o.slice = b[n].slice
      /\ o.sl = b[n].sl /\ o.tp = b[n].tp
  BY <1>1 DEF Orders
<1>3. c \in Seq(Orders) /\ Len(c) = Len(b) /\ DOMAIN c = DOMAIN b
      /\ (\A m \in DOMAIN b : m # n => c[m] = b[m]) /\ c[n] = o
  <2> HIDE DEF o
  <2> QED BY <1>1, <1>2, ExceptSeq, LenProperties
<1>4. Reached(c) = Reached(b)
  <2> HIDE DEF c, o
  <2>1. b # <<>> /\ c # <<>>
    BY <1>1, <1>3, EmptySeq
  <2>2. b[Len(b)].slice = c[Len(c)].slice
    BY <1>1, <1>2, <1>3
  <2>3. QED
    BY <2>1, <2>2 DEF Reached
<1>5. QED
  BY <1>2, <1>3, <1>4

\* A step of one account keeps the invariant.
LEMMA StepKeeps ==
    ASSUME IInv, NEW a \in Accounts, NEW c, NEW k, Step(a, c, k)
    PROVE  IInv'
<1>1. Types'
  BY DEF IInv, Types, Step
<1>2. plan' = plan /\ sig' = sig /\ Slices' = Slices
  BY DEF Step, Slices
<1>3. PlanSound'
  BY <1>2 DEF IInv, PlanSound, PendingKind, Ahead
<1>4. \A x \in Accounts : x # a => book'[x] = book[x] /\ job'[x] = job[x]
  BY DEF IInv, Types, Step
<1>5. book'[a] = c /\ job'[a] = k
  BY DEF IInv, Types, Step
<1>6. ASSUME NEW x \in Accounts PROVE InOrder(book[x], job[x])'
  <2>1. CASE x # a
    <3>1. InOrder(book[x], job[x])
      BY DEF IInv
    <3>2. QED
      BY SMTT(60), <1>2, <1>4, <2>1, <3>1 DEF InOrder, Sending, GoodOrder, Reached, Ahead
  <2>2. CASE x = a
    <3>1. InOrder(c, k)
      BY DEF Step
    <3>2. QED
      BY ZenonT(60), <1>2, <1>5, <2>2, <3>1 DEF InOrder, Sending, GoodOrder, Reached, Ahead
  <2>3. QED
    BY <2>1, <2>2
<1>7. ASSUME NEW x \in Accounts \ unsure' PROVE Whole(book[x], job[x])'
  <2>1. CASE x # a
    <3>1. Whole(book[x], job[x])
      BY DEF IInv, Step
    <3>2. QED
      BY <1>2, <1>4, <2>1, <3>1 DEF Whole, Sending
  <2>2. CASE x = a
    <3>1. Whole(c, k)
      BY <2>2 DEF Step
    <3>2. QED
      BY <1>2, <1>5, <2>2, <3>1 DEF Whole, Sending
  <2>3. QED
    BY <2>1, <2>2
<1>8. QED
  BY <1>1, <1>3, <1>6, <1>7 DEF IInv

\* A job that is given up, whatever it still has to undo.
LEMMA GivenUp ==
    ASSUME IInv, plan.built, NEW a \in Accounts, NEW j \in Jobs, NEW c \in Seq(Orders),
           j.result = "pending", j.slice \in 1..(Len(sig.tps) + 1), Reached(c) \in 0..Len(sig.tps),
           \A n \in DOMAIN c : GoodOrder(c[n]),
           \A k \in DOMAIN j.tickets : j.tickets[k] \in DOMAIN c
    PROVE  LET t == Failed(j)
           IN /\ t \in Jobs /\ InOrder(c, t)
              /\ t.result \in {"pending", "none"}
              /\ (\A n \in DOMAIN c : c[n].slice = n) => Whole(c, t)
<1> DEFINE t == Failed(j)
<1>1. /\ t \in Jobs /\ t.tickets = j.tickets /\ t.slice = j.slice
      /\ j.tickets = <<>> => t.at = "returned" /\ t.result = "none"
      /\ j.tickets # <<>> => t.at = "undo" /\ t.result = j.result
  BY FailedIs
<1> HIDE DEF t
<1>2. InOrder(c, t)
  BY <1>1 DEF InOrder, Sending
<1>3. ASSUME \A n \in DOMAIN c : c[n].slice = n
      PROVE  Whole(c, t)
  BY <1>1, <1>3 DEF Whole, Sending
<1>4. t.result \in {"pending", "none"}
  BY <1>1
<1>5. QED
  BY <1>1, <1>2, <1>3, <1>4 DEF t

\* The order of a slice that is turned to.
LEMMA PlannedOrder ==
    ASSUME IInv, plan.built, NEW i \in Slices, NEW kind \in {"market", PendingKind(plan.cur)},
           plan.market => kind = "market"
    PROVE  GoodOrder(Order(i, kind, plan.levels[i]))
<1> DEFINE o == Order(i, kind, plan.levels[i])
<1>1. /\ o.slice = i /\ o.kind = kind /\ o.sl = plan.levels[i].sl /\ o.tp = plan.levels[i].tp
      /\ kind = "market" => o.state = "live"
  BY DEF Order
<1>2. kind \in {"limit", "market"}
  BY DEF IInv, PlanSound
<1>3. plan.levels[i].tp \in Int
  BY DEF IInv, PlanSound, Levels
<1>4. Ahead(o.tp, plan.levels[i].tp) >= 0
  BY <1>1, <1>3 DEF Ahead
<1>5. QED
  <2> HIDE DEF o
  <2>1. GoodOrder(o)
    BY <1>1, <1>2, <1>4 DEF GoodOrder
  <2>2. QED
    BY <2>1 DEF o

\* submit_signal_orders() starts.
LEMMA StartSteps ==
    ASSUME IInv, NEW a \in Accounts, Start(a)
    PROVE  Step(a, book[a], job'[a])
<1>1. /\ Types /\ job[a] \in Jobs /\ book[a] \in Seq(Orders) /\ plan \in Plans
      /\ InOrder(book[a], job[a]) /\ sig \in Signals
  BY DEF IInv, Types
<1>2. /\ job[a].at = "start" /\ book[a] = <<>> /\ job[a].tickets = <<>> /\ plan.built
      /\ job[a].result = "pending"
  BY <1>1 DEF Start, InOrder
<1>3. Reached(book[a]) = 0 /\ DOMAIN book[a] = {} /\ Len(book[a]) = 0 /\ DOMAIN job[a].tickets = {}
      /\ Len(job[a].tickets) = 0
  BY <1>2 DEF Reached
<1>4. Slices = 1..Len(sig.tps) /\ Len(sig.tps) \in Nat /\ sig.tps \in Seq(Int)
  BY <1>1, SlicesAre
<1>5. job' = [job EXCEPT ![a] = job'[a]] /\ UNCHANGED <<sig, price, plan, book, unsure, loose>>
  BY <1>1 DEF Start, Types
<1>6. job'[a] \in Jobs /\ InOrder(book[a], job'[a]) /\ Whole(book[a], job'[a])
      /\ job'[a].result \in {"pending", "none"}
  <2>1. CASE sig.tps = <<>>
    <3>1. job'[a] = Failed(job[a])
      BY <1>1, <2>1 DEF Start, Types
    <3>2. Failed(job[a]).at = "returned" /\ Failed(job[a]).result = "none"
          /\ Failed(job[a]).tickets = <<>> /\ Failed(job[a]) \in Jobs /\ Failed(job[a]).slice = job[a].slice
      BY <1>1, <1>2, FailedIs
    <3>3. QED
      BY <1>1, <1>2, <1>3, <1>4, <3>1, <3>2 DEF InOrder, Whole, Sending
  <2>2. CASE sig.tps # <<>>
    <3>1. 1 \in Slices
      BY <1>4, <2>2, EmptySeq, LenProperties
    <3>2. job'[a] = Turn(job[a], 1, plan.market)
      BY <1>1, <2>2 DEF Start, Types
    <3>3. plan.levels \in [Slices -> Levels] /\ Attempts \in Nat \ {0} /\ plan.market \in BOOLEAN
      BY <1>1, <1>2, ConstantsOK DEF IInv, PlanSound, ConstantsOK, Plans
    <3>4. /\ job'[a] \in Jobs /\ job'[a].tickets = job[a].tickets /\ job'[a].at = "send"
          /\ job'[a].slice = 1 /\ job'[a].result = job[a].result /\ job'[a].order \in Orders
      BY <1>1, <3>1, <3>2, <3>3, TurnIs
    <3>5. \E kind \in {"market", PendingKind(plan.cur)} :
             /\ plan.market => kind = "market"
             /\ job'[a].order = Order(1, kind, plan.levels[1])
      BY <1>1, <3>1, <3>2, <3>3, TurnIs
    <3>6. GoodOrder(job'[a].order)
      BY <1>2, <3>1, <3>5, PlannedOrder
    <3>7. job'[a].order.slice = 1
      BY <3>5 DEF Order
    <3>8. QED
      BY <1>1, <1>2, <1>3, <1>4, <3>1, <3>4, <3>6, <3>7 DEF InOrder, Whole, Sending
  <2>3. QED
    BY <2>1, <2>2
<1>7. Advances(book[a], job[a], book[a], job'[a])
  BY <1>2, <1>3, <1>4, <1>6 DEF Advances
<1>8. QED
  BY <1>1, <1>2, <1>5, <1>6, <1>7 DEF Step, Types, IInv

\* What holds of an account that sends or reprices an order.
LEMMA WhileSending ==
    ASSUME IInv, NEW a \in Accounts, Sending(job[a])
    PROVE  /\ Types /\ PlanSound /\ plan.built /\ plan.levels \in [Slices -> Levels]
           /\ job[a] \in Jobs /\ book[a] \in Seq(Orders) /\ InOrder(book[a], job[a])
           /\ job[a].order \in Orders /\ GoodOrder(job[a].order) /\ job[a].order.slice = job[a].slice
           /\ job[a].slice \in 1..Len(sig.tps) /\ Slices = 1..Len(sig.tps) /\ Len(sig.tps) \in Nat
           /\ Reached(book[a]) \in {job[a].slice - 1, job[a].slice}
           /\ job[a].result = "pending"
           /\ \A k \in DOMAIN job[a].tickets : job[a].tickets[k] \in DOMAIN book[a]
           /\ a \notin unsure => Whole(book[a], job[a])
           /\ DOMAIN book[a] = 1..Len(book[a]) /\ Len(book[a]) \in Nat
           /\ DOMAIN job[a].tickets = 1..Len(job[a].tickets) /\ Len(job[a].tickets) \in Nat
<1>1. /\ Types /\ PlanSound /\ job[a] \in Jobs /\ book[a] \in Seq(Orders)
      /\ InOrder(book[a], job[a]) /\ sig \in Signals
      /\ a \notin unsure => Whole(book[a], job[a])
  BY DEF IInv, Types
<1>2. Slices = 1..Len(sig.tps) /\ Len(sig.tps) \in Nat
  BY <1>1, SlicesAre
<1>3. /\ plan.built /\ job[a].result = "pending" /\ job[a].order \in Orders
      /\ GoodOrder(job[a].order) /\ job[a].order.slice = job[a].slice /\ job[a].slice \in Slices
      /\ Reached(book[a]) \in {job[a].slice - 1, job[a].slice}
      /\ \A k \in DOMAIN job[a].tickets : job[a].tickets[k] \in DOMAIN book[a]
  BY <1>1 DEF InOrder, Sending
<1>4. plan.levels \in [Slices -> Levels]
  BY <1>1, <1>3 DEF PlanSound
<1>5. DOMAIN book[a] = 1..Len(book[a]) /\ Len(book[a]) \in Nat
  BY <1>1, LenProperties
<1>6. DOMAIN job[a].tickets = 1..Len(job[a].tickets) /\ Len(job[a].tickets) \in Nat
  BY <1>1, LenProperties DEF Jobs
<1>7. QED
  BY <1>1, <1>2, <1>3, <1>4, <1>5, <1>6

\* A sending job that is given up leaves what it placed to be undone.
LEMMA SendingGivenUp ==
    ASSUME IInv, NEW a \in Accounts, Sending(job[a]), NEW c \in Seq(Orders),
           Reached(c) \in {Reached(book[a]), Reached(book[a]) + 1}, Reached(c) \in 0..Len(sig.tps),
           DOMAIN book[a] \subseteq DOMAIN c, \A n \in DOMAIN c : GoodOrder(c[n])
    PROVE  LET t == Failed(job[a])
           IN /\ t \in Jobs /\ InOrder(c, t)
              /\ c = book[a] /\ a \notin unsure => Whole(c, t)
              /\ (t.result = "pending" => Reached(c) = Reached(book[a])
                                          \/ Reached(c) = Reached(book[a]) + 1)
              /\ Advances(book[a], job[a], c, t)
<1> DEFINE t == Failed(job[a])
<1>1. /\ job[a] \in Jobs /\ job[a].result = "pending" /\ plan.built
      /\ job[a].slice \in 1..(Len(sig.tps) + 1)
      /\ \A k \in DOMAIN job[a].tickets : job[a].tickets[k] \in DOMAIN book[a]
  BY WhileSending
<1>2. \A k \in DOMAIN job[a].tickets : job[a].tickets[k] \in DOMAIN c
  BY <1>1
<1>3. /\ t \in Jobs /\ InOrder(c, t) /\ t.result \in {"pending", "none"}
      /\ (\A n \in DOMAIN c : c[n].slice = n) => Whole(c, t)
  BY <1>1, <1>2, GivenUp
<1> HIDE DEF t
<1>4. ASSUME c = book[a], a \notin unsure PROVE Whole(c, t)
  <2>1. \A n \in DOMAIN book[a] : book[a][n].slice = n
    BY <1>4, WhileSending DEF Whole
  <2>2. QED
    BY <1>3, <1>4, <2>1
<1>5. Advances(book[a], job[a], c, t)
  BY <1>1, <1>3 DEF Advances
<1>6. QED
  BY <1>3, <1>4, <1>5 DEF t

\* An attempt without a usable answer, whatever became of the order.
LEMMA AgainSteps ==
    ASSUME IInv, NEW a \in Accounts, job[a].at = "send", Again(a), NEW c \in Seq(Orders),
           Reached(c) \in {Reached(book[a]), job[a].slice},
           DOMAIN book[a] \subseteq DOMAIN c, \A n \in DOMAIN c : GoodOrder(c[n])
    PROVE  LET k == job'[a]
           IN /\ job' = [job EXCEPT ![a] = k] /\ k \in Jobs /\ InOrder(c, k)
              /\ c = book[a] /\ a \notin unsure => Whole(c, k)
              /\ Advances(book[a], job[a], c, k)
<1>1. Sending(job[a])
  BY DEF Sending
<1>2. /\ job \in [Accounts -> Jobs] /\ job[a].result = "pending" /\ plan.built
      /\ job[a].slice \in 1..Len(sig.tps) /\ Len(sig.tps) \in Nat
      /\ Reached(book[a]) \in {job[a].slice - 1, job[a].slice}
      /\ InOrder(book[a], job[a]) /\ (a \notin unsure => Whole(book[a], job[a]))
      /\ \A k \in DOMAIN job[a].tickets : job[a].tickets[k] \in DOMAIN book[a]
      /\ job[a].order \in Orders /\ GoodOrder(job[a].order) /\ job[a].order.slice = job[a].slice
      /\ Slices = 1..Len(sig.tps)
  BY <1>1, WhileSending DEF Types
<1>3. /\ job' = [job EXCEPT ![a] = job'[a]] /\ job'[a] \in Jobs
      /\ job'[a].tickets = job[a].tickets /\ job'[a].slice = job[a].slice
      /\ \/ job'[a].at = job[a].at /\ job'[a].order = job[a].order /\ job'[a].result = job[a].result
         \/ job'[a] = Failed(job[a])
  BY <1>2, AgainIs
<1>4. Reached(c) \in {Reached(book[a]), Reached(book[a]) + 1} /\ Reached(c) \in 0..Len(sig.tps)
      /\ Reached(c) \in {job[a].slice - 1, job[a].slice}
  BY <1>2
<1>5. CASE job'[a].at = job[a].at /\ job'[a].order = job[a].order /\ job'[a].result = job[a].result
  <2> DEFINE k == job'[a]
  <2> HIDE DEF k
  <2>1. k.at = "send" /\ k.order = job[a].order /\ k.result = "pending"
        /\ k.tickets = job[a].tickets /\ k.slice = job[a].slice
    BY <1>2, <1>3, <1>5 DEF k
  <2>2. InOrder(c, k)
    BY <1>2, <1>4, <2>1 DEF InOrder, Sending
  <2>3. c = book[a] /\ a \notin unsure => Whole(c, k)
    BY <1>2, <2>1 DEF Whole, Sending
  <2>4. Advances(book[a], job[a], c, k)
    BY <1>2, <1>4, <2>1 DEF Advances
  <2>5. QED
    BY <1>3, <2>2, <2>3, <2>4 DEF k
<1>6. CASE job'[a] = Failed(job[a])
  BY <1>1, <1>3, <1>4, <1>6, SendingGivenUp
<1>7. QED
  BY <1>3, <1>5, <1>6

\* One more order of the slice that is being sent.
LEMMA OneMoreSent ==
    ASSUME IInv, NEW a \in Accounts, Sending(job[a])
    PROVE  LET c == Append(book[a], job[a].order)
           IN /\ c \in Seq(Orders) /\ Reached(c) = job[a].slice
              /\ Len(c) = Len(book[a]) + 1 /\ DOMAIN c = 1..(Len(book[a]) + 1)
              /\ DOMAIN book[a] \subseteq DOMAIN c /\ \A n \in DOMAIN c : GoodOrder(c[n])
              /\ \A n \in DOMAIN book[a] : c[n] = book[a][n]
              /\ c[Len(book[a]) + 1] = job[a].order
<1> DEFINE c == Append(book[a], job[a].order)
<1>1. /\ book[a] \in Seq(Orders) /\ job[a].order \in Orders /\ GoodOrder(job[a].order)
      /\ job[a].order.slice = job[a].slice /\ InOrder(book[a], job[a])
      /\ DOMAIN book[a] = 1..Len(book[a]) /\ Len(book[a]) \in Nat
  BY WhileSending
<1>2. /\ c \in Seq(Orders) /\ Len(c) = Len(book[a]) + 1 /\ DOMAIN c = 1..(Len(book[a]) + 1)
      /\ \A n \in DOMAIN book[a] : c[n] = book[a][n]
      /\ c[Len(book[a]) + 1] = job[a].order
      /\ Reached(c) = job[a].slice
  BY <1>1, OneMore
<1>3. \A n \in DOMAIN book[a] : GoodOrder(book[a][n])
  BY <1>1 DEF InOrder
<1> HIDE DEF c
<1>4. \A n \in DOMAIN c : GoodOrder(c[n])
  BY SMTT(40), <1>1, <1>2, <1>3
<1>5. QED
  BY <1>1, <1>2, <1>4 DEF c

\* The order is placed and its ticket comes back.
LEMMA PlacedSteps ==
    ASSUME IInv, NEW a \in Accounts, job[a].at = "send", Ticketed(a)
    PROVE  LET c == Append(book[a], job[a].order)
               k == job'[a]
           IN /\ job' = [job EXCEPT ![a] = k] /\ k \in Jobs /\ InOrder(c, k)
              /\ a \notin unsure => Whole(c, k)
              /\ Advances(book[a], job[a], c, k)
<1> DEFINE c == Append(book[a], job[a].order)
           k == job'[a]
           i == job[a].slice + 1
           kind == IF job[a].order.kind = "market" THEN "market" ELSE PendingKind(plan.cur)
<1>1. Sending(job[a])
  BY DEF Sending
<1>2. /\ Types /\ plan.built /\ plan.levels \in [Slices -> Levels]
      /\ job[a].order \in Orders /\ GoodOrder(job[a].order) /\ job[a].result = "pending"
      /\ job[a].slice \in 1..Len(sig.tps) /\ Slices = 1..Len(sig.tps) /\ Len(sig.tps) \in Nat
      /\ Reached(book[a]) \in {job[a].slice - 1, job[a].slice}
      /\ \A n \in DOMAIN job[a].tickets : job[a].tickets[n] \in DOMAIN book[a]
      /\ job[a].tickets \in Seq(Nat) /\ Len(book[a]) \in Nat
  BY <1>1, WhileSending DEF Jobs
<1>3. a \notin unsure =>
        /\ Len(job[a].tickets) = Len(book[a]) /\ Len(book[a]) = job[a].slice - 1
        /\ \A n \in DOMAIN job[a].tickets : job[a].tickets[n] = n
        /\ \A n \in DOMAIN book[a] : book[a][n].slice = n
  BY <1>1, WhileSending DEF Whole
<1>4. /\ c \in Seq(Orders) /\ Reached(c) = job[a].slice
      /\ Len(c) = Len(book[a]) + 1 /\ DOMAIN c = 1..(Len(book[a]) + 1)
      /\ DOMAIN book[a] \subseteq DOMAIN c /\ \A n \in DOMAIN c : GoodOrder(c[n])
      /\ \A n \in DOMAIN book[a] : c[n] = book[a][n]
      /\ c[Len(book[a]) + 1] = job[a].order
  BY <1>1, OneMoreSent
<1>5. /\ job' = [job EXCEPT ![a] = k] /\ k \in Jobs
      /\ k.tickets = Append(job[a].tickets, Len(book[a]) + 1)
      /\ i \notin Slices => k.at = "returned" /\ k.result = "all" /\ k.slice = job[a].slice
      /\ i \in Slices => /\ k.at = "send" /\ k.slice = i /\ k.result = "pending" /\ k.order \in Orders
                         /\ k.order = Order(i, kind, plan.levels[i])
  BY <1>1, <1>2, TicketedIs
<1>6. \A n \in DOMAIN k.tickets : k.tickets[n] \in DOMAIN c
  <2>1. /\ DOMAIN k.tickets = 1..(Len(job[a].tickets) + 1) /\ Len(job[a].tickets) \in Nat
        /\ \A n \in 1..Len(job[a].tickets) : k.tickets[n] = job[a].tickets[n]
        /\ k.tickets[Len(job[a].tickets) + 1] = Len(book[a]) + 1
        /\ DOMAIN job[a].tickets = 1..Len(job[a].tickets)
    BY <1>2, <1>5, AppendProperties, LenProperties
  <2> HIDE DEF c, k
  <2>2. ASSUME NEW n \in DOMAIN k.tickets PROVE k.tickets[n] \in DOMAIN c
    <3>1. CASE n = Len(job[a].tickets) + 1
      BY <1>2, <1>4, <2>1, <3>1
    <3>2. CASE n # Len(job[a].tickets) + 1
      <4>1. n \in DOMAIN job[a].tickets
        BY <2>1, <3>2
      <4>2. QED
        BY <1>2, <1>4, <2>1, <4>1
    <3>3. QED
      BY <3>1, <3>2
  <2>3. QED
    BY <2>2
<1>7. a \notin unsure => /\ Len(k.tickets) = Len(c)
                         /\ \A n \in DOMAIN k.tickets : k.tickets[n] = n
                         /\ \A n \in DOMAIN c : c[n].slice = n
  <2>1. /\ DOMAIN k.tickets = 1..(Len(job[a].tickets) + 1) /\ Len(job[a].tickets) \in Nat
        /\ Len(k.tickets) = Len(job[a].tickets) + 1
        /\ \A n \in 1..Len(job[a].tickets) : k.tickets[n] = job[a].tickets[n]
        /\ k.tickets[Len(job[a].tickets) + 1] = Len(book[a]) + 1
        /\ DOMAIN job[a].tickets = 1..Len(job[a].tickets)
        /\ DOMAIN book[a] = 1..Len(book[a])
    BY <1>1, <1>2, <1>5, AppendProperties, LenProperties, WhileSending
  <2>2. job[a].order.slice = job[a].slice
    BY <1>1, WhileSending
  <2> HIDE DEF c, k
  <2>3. ASSUME a \notin unsure, NEW n \in DOMAIN k.tickets PROVE k.tickets[n] = n
    <3>1. CASE n = Len(job[a].tickets) + 1
      BY <1>3, <2>1, <2>3, <3>1
    <3>2. CASE n # Len(job[a].tickets) + 1
      <4>1. n \in DOMAIN job[a].tickets
        BY <2>1, <3>2
      <4>2. QED
        BY <1>3, <2>1, <2>3, <4>1
    <3>3. QED
      BY <3>1, <3>2
  <2>4. ASSUME a \notin unsure, NEW n \in DOMAIN c PROVE c[n].slice = n
    <3>1. CASE n = Len(book[a]) + 1
      BY <1>2, <1>3, <1>4, <2>2, <2>4, <3>1
    <3>2. CASE n # Len(book[a]) + 1
      <4>1. n \in DOMAIN book[a]
        BY <1>2, <1>4, <2>1, <3>2
      <4>2. QED
        BY <1>3, <1>4, <2>4, <4>1
    <3>3. QED
      BY <3>1, <3>2
  <2>5. a \notin unsure => Len(k.tickets) = Len(c)
    BY <1>3, <1>4, <2>1
  <2>6. QED
    BY <2>3, <2>4, <2>5
<1>8. CASE i \notin Slices
  <2> HIDE DEF c, k
  <2>1. job[a].slice = Len(sig.tps)
    BY <1>2, <1>8
  <2>2. InOrder(c, k)
    <3>1. k.at = "returned" /\ k.result = "all" /\ k.slice \in 1..(Len(sig.tps) + 1)
          /\ Reached(c) \in 0..Len(sig.tps)
      BY <1>2, <1>4, <1>5, <1>8
    <3>2. QED
      BY <1>2, <1>4, <1>6, <3>1 DEF InOrder, Sending
  <2>3. a \notin unsure => Whole(c, k)
    BY <1>2, <1>3, <1>4, <1>5, <1>7, <1>8, <2>1 DEF Whole, Sending
  <2>4. Advances(book[a], job[a], c, k)
    BY <1>2, <1>4, <1>5, <1>8, <2>1 DEF Advances
  <2>5. QED
    BY <1>5, <2>2, <2>3, <2>4 DEF c, k
<1>9. CASE i \in Slices
  <2>1. kind \in {"market", PendingKind(plan.cur)} /\ (plan.market => kind = "market")
    BY <1>2 DEF GoodOrder
  <2>2. GoodOrder(k.order) /\ k.order.slice = i
    <3> HIDE DEF kind
    <3>1. GoodOrder(Order(i, kind, plan.levels[i]))
      BY <1>2, <1>9, <2>1, PlannedOrder
    <3>2. QED
      BY <1>5, <1>9, <3>1 DEF Order
  <2> HIDE DEF c, k, kind
  <2>3. InOrder(c, k)
    <3>1. k.at = "send" /\ k.slice = i /\ k.result = "pending" /\ k.order \in Orders
      BY <1>5, <1>9
    <3>2. i \in 1..(Len(sig.tps) + 1) /\ Reached(c) = i - 1 /\ Reached(c) \in 0..Len(sig.tps)
      BY <1>2, <1>4
    <3> HIDE DEF i
    <3>3. QED
      BY <1>2, <1>4, <1>6, <1>9, <2>2, <3>1, <3>2 DEF InOrder, Sending
  <2>4. a \notin unsure => Whole(c, k)
    <3>1. k.at = "send" /\ k.slice = i /\ k.result = "pending"
      BY <1>5, <1>9
    <3>2. a \notin unsure => Len(c) = i - 1
      BY <1>2, <1>3, <1>4
    <3> HIDE DEF i
    <3>3. QED
      BY <1>7, <3>1, <3>2 DEF Whole, Sending
  <2>5. Advances(book[a], job[a], c, k)
    BY <1>2, <1>4, <1>5, <1>9 DEF Advances
  <2>6. QED
    BY <1>5, <2>3, <2>4, <2>5 DEF c, k
<1>10. QED
  BY <1>8, <1>9

\* A pending order whose price is invalid is priced anew.
LEMMA RefusedSteps ==
    ASSUME IInv, NEW a \in Accounts, job[a].at = "send", Verdict(a, job[a].order) = "invalid price"
    PROVE  LET k == [job[a] EXCEPT !.at = "reprice"]
           IN /\ k \in Jobs /\ InOrder(book[a], k)
              /\ a \notin unsure => Whole(book[a], k)
              /\ Advances(book[a], job[a], book[a], k)
<1> DEFINE k == [job[a] EXCEPT !.at = "reprice"]
<1>1. Sending(job[a])
  BY DEF Sending
<1>2. /\ job[a] \in Jobs /\ InOrder(book[a], job[a]) /\ GoodOrder(job[a].order)
      /\ (a \notin unsure => Whole(book[a], job[a]))
  BY <1>1, WhileSending
<1>3. job[a].order.kind = "limit"
  BY <1>2 DEF Verdict, GoodOrder
<1>4. /\ k \in Jobs /\ k.at = "reprice" /\ k.slice = job[a].slice /\ k.order = job[a].order
      /\ k.tickets = job[a].tickets /\ k.result = job[a].result
  BY <1>2 DEF Jobs
<1> HIDE DEF k
<1>5. InOrder(book[a], k)
  BY <1>1, <1>2, <1>3, <1>4 DEF InOrder, Sending
<1>6. a \notin unsure => Whole(book[a], k)
  BY <1>1, <1>2, <1>4 DEF Whole, Sending
<1>7. Advances(book[a], job[a], book[a], k)
  BY <1>4 DEF Advances
<1>8. QED
  BY <1>4, <1>5, <1>6, <1>7 DEF k

\* One attempt to send the order.
LEMMA SendSteps ==
    ASSUME IInv, NEW a \in Accounts, Send(a)
    PROVE  \E c : Step(a, c, job'[a])
<1>1. job[a].at = "send" /\ Sending(job[a]) /\ UNCHANGED <<sig, price, plan>>
  BY DEF Send, Sending
<1>2. /\ Types /\ plan.built /\ book[a] \in Seq(Orders) /\ InOrder(book[a], job[a]) /\ unsure \subseteq Accounts
      /\ Reached(book[a]) \in 0..Len(sig.tps) /\ job[a].slice \in 1..Len(sig.tps) /\ Len(sig.tps) \in Nat
  BY <1>1, WhileSending DEF InOrder, Types
<1>3. \A n \in DOMAIN book[a] : GoodOrder(book[a][n])
  BY <1>2 DEF InOrder
<1> DEFINE c == Append(book[a], job[a].order)
<1>4. /\ c \in Seq(Orders) /\ Reached(c) = job[a].slice
      /\ DOMAIN book[a] \subseteq DOMAIN c /\ \A n \in DOMAIN c : GoodOrder(c[n])
  BY <1>1, OneMoreSent
<1>5. book = [book EXCEPT ![a] = book[a]]
      /\ loose[a] \in SUBSET Nat /\ loose = [loose EXCEPT ![a] = loose[a]]
  BY <1>2 DEF Types
<1>6. CASE /\ book' = [book EXCEPT ![a] = c] /\ Ticketed(a) /\ UNCHANGED <<unsure, loose>>
  <2>1. /\ job' = [job EXCEPT ![a] = job'[a]] /\ job'[a] \in Jobs /\ InOrder(c, job'[a])
        /\ a \notin unsure => Whole(c, job'[a])
        /\ Advances(book[a], job[a], c, job'[a])
    BY <1>1, <1>6, PlacedSteps
  <2> HIDE DEF c
  <2>2. Step(a, c, job'[a])
    BY <1>1, <1>2, <1>4, <1>5, <1>6, <2>1 DEF Step
  <2>3. QED
    BY <2>2
<1>7. CASE /\ book' = [book EXCEPT ![a] = c] /\ LosesTicket(a) /\ Again(a)
  <2> HIDE DEF c
  <2>1. /\ job' = [job EXCEPT ![a] = job'[a]] /\ job'[a] \in Jobs /\ InOrder(c, job'[a])
        /\ Advances(book[a], job[a], c, job'[a])
    BY <1>1, <1>4, <1>7, AgainSteps
  <2>2. unsure' = unsure \cup {a} /\ \E l \in SUBSET Nat : loose' = [loose EXCEPT ![a] = l]
    <3>1. loose[a] \cup {Len(book[a]) + 1} \in SUBSET Nat
      BY <1>2, LenProperties DEF Types
    <3>2. QED
      BY <1>7, <3>1 DEF LosesTicket
  <2>3. Step(a, c, job'[a])
    BY <1>1, <1>2, <1>4, <1>7, <2>1, <2>2 DEF Step
  <2>4. QED
    BY <2>3
<1>8. CASE /\ job' = [job EXCEPT ![a] = IF Verdict(a, job[a].order) = "invalid price"
                                        THEN [@ EXCEPT !.at = "reprice"] ELSE Failed(@)]
           /\ UNCHANGED <<book, unsure, loose>>
  <2> DEFINE k == IF Verdict(a, job[a].order) = "invalid price"
                  THEN [job[a] EXCEPT !.at = "reprice"] ELSE Failed(job[a])
  <2>1. k \in Jobs /\ InOrder(book[a], k) /\ (a \notin unsure => Whole(book[a], k))
        /\ Advances(book[a], job[a], book[a], k)
    <3>1. CASE Verdict(a, job[a].order) = "invalid price"
      BY <1>1, <3>1, RefusedSteps
    <3>2. CASE Verdict(a, job[a].order) # "invalid price"
      <4>1. k = Failed(job[a])
        BY <3>2
      <4> HIDE DEF k
      <4>2. QED
        BY <1>1, <1>2, <1>3, <4>1, SendingGivenUp
    <3>3. QED
      BY <3>1, <3>2
  <2>2. job' = [job EXCEPT ![a] = k] /\ job'[a] = k
    BY <1>2, <1>8 DEF Types
  <2> HIDE DEF k
  <2>3. Step(a, book[a], job'[a])
    BY <1>1, <1>2, <1>5, <1>8, <2>1, <2>2 DEF Step
  <2>4. QED
    BY <2>3
<1>9. CASE Again(a) /\ UNCHANGED <<book, unsure, loose>>
  <2>1. /\ job' = [job EXCEPT ![a] = job'[a]] /\ job'[a] \in Jobs /\ InOrder(book[a], job'[a])
        /\ a \notin unsure => Whole(book[a], job'[a])
        /\ Advances(book[a], job[a], book[a], job'[a])
    BY <1>1, <1>2, <1>3, <1>9, AgainSteps
  <2>2. Step(a, book[a], job'[a])
    BY <1>1, <1>2, <1>5, <1>9, <2>1 DEF Step
  <2>3. QED
    BY <2>2
<1>10. QED
  BY <1>6, <1>7, <1>8, <1>9 DEF Send

\* The order that enters at market in place of the limit o.
LEMMA FallbackOrder ==
    ASSUME IInv, plan.built, NEW o \in Orders, GoodOrder(o), o.kind = "limit",
           NEW cur \in Int \cup {None}, Room(cur, o.sl)
    PROVE  LET m == Order(o.slice, "market", StopsFloor(cur, o.sl, o.tp))
           IN m \in Orders /\ GoodOrder(m) /\ m.slice = o.slice
<1> DEFINE m == Order(o.slice, "market", StopsFloor(cur, o.sl, o.tp))
<1>1. cur \in Int /\ Ahead(cur, o.sl) >= MinDist
  BY DEF Room
<1>2. o.sl \in Int /\ o.tp \in Int /\ o.slice \in Nat /\ MinDist \in Nat /\ sig.side \in {"buy", "sell"}
  BY MinDistType, SlicesAre DEF Orders, IInv, Types
<1>3. /\ m.slice = o.slice /\ m.kind = "market" /\ m.state = "live"
      /\ m.sl = StopsFloor(cur, o.sl, o.tp).sl /\ m.tp = StopsFloor(cur, o.sl, o.tp).tp
      /\ m = [slice |-> o.slice, kind |-> "market", sl |-> m.sl, tp |-> m.tp, state |-> "live"]
  BY DEF Order
<1> HIDE DEF m
<1>4. m.sl = o.sl
  BY <1>1, <1>2, <1>3 DEF StopsFloor, Ahead
<1>5. m.tp = IF Ahead(o.tp, cur) < MinDist THEN Beyond(cur, MinDist) ELSE o.tp
  BY <1>3 DEF StopsFloor
<1>6. m.tp \in Int /\ Ahead(m.tp, o.tp) >= 0
  BY <1>1, <1>2, <1>5 DEF Ahead, Beyond
<1>7. m \in Orders
  BY <1>2, <1>3, <1>4, <1>6 DEF Orders, Kinds, States
<1>8. o.slice \in Slices /\ o.sl = plan.levels[o.slice].sl /\ o.tp = plan.levels[o.slice].tp
      /\ ~plan.market
  BY DEF GoodOrder
<1>9. GoodOrder(m)
  BY <1>3, <1>4, <1>6, <1>8 DEF GoodOrder
<1>10. QED
  BY <1>3, <1>7, <1>9 DEF m

\* The price has left the limit.
LEMMA RepriceSteps ==
    ASSUME IInv, NEW a \in Accounts, Reprice(a)
    PROVE  Step(a, book[a], job'[a])
<1>1. job[a].at = "reprice" /\ Sending(job[a]) /\ UNCHANGED <<sig, price, plan, book, unsure, loose>>
  BY DEF Reprice, Sending
<1>2. /\ Types /\ plan.built /\ job[a] \in Jobs /\ job[a].order \in Orders /\ GoodOrder(job[a].order)
      /\ InOrder(book[a], job[a]) /\ book[a] \in Seq(Orders) /\ (a \notin unsure => Whole(book[a], job[a]))
      /\ unsure \subseteq Accounts /\ Reached(book[a]) \in 0..Len(sig.tps) /\ Len(sig.tps) \in Nat
  BY <1>1, WhileSending DEF Types, InOrder
<1>3. job[a].order.kind = "limit" /\ \A n \in DOMAIN book[a] : GoodOrder(book[a][n])
  BY <1>1, <1>2 DEF InOrder
<1>4. PICK cur \in {price} \cup (IF "noprice" \in Faults THEN {plan.cur} ELSE {}) :
         job' = [job EXCEPT ![a] =
                    IF Room(cur, job[a].order.sl)
                    THEN [@ EXCEPT !.at = "send", !.tries = 0,
                                   !.order = Order(job[a].order.slice, "market",
                                                   StopsFloor(cur, job[a].order.sl, job[a].order.tp))]
                    ELSE Failed(@)]
  BY DEF Reprice
<1>5. cur \in Int \cup {None}
  BY <1>2, ConstantsOK DEF Types, Plans, ConstantsOK
<1> DEFINE m == Order(job[a].order.slice, "market", StopsFloor(cur, job[a].order.sl, job[a].order.tp))
           again == [job[a] EXCEPT !.at = "send", !.tries = 0, !.order = m]
           k == IF Room(cur, job[a].order.sl) THEN again ELSE Failed(job[a])
<1>6. k \in Jobs /\ InOrder(book[a], k) /\ (a \notin unsure => Whole(book[a], k))
      /\ Advances(book[a], job[a], book[a], k)
  <2>1. CASE Room(cur, job[a].order.sl)
    <3>1. m \in Orders /\ GoodOrder(m) /\ m.slice = job[a].order.slice
      BY <1>2, <1>3, <1>5, <2>1, FallbackOrder
    <3> HIDE DEF m
    <3>2. 0 \in 0..(Attempts - 1)
      BY ConstantsOK DEF ConstantsOK
    <3>3. /\ again \in Jobs /\ again.at = "send" /\ again.order = m /\ again.slice = job[a].slice
          /\ again.tickets = job[a].tickets /\ again.result = job[a].result
      BY <1>2, <3>1, <3>2 DEF Jobs
    <3>4. k = again
      BY <2>1
    <3> HIDE DEF k, again
    <3>5. InOrder(book[a], k)
      BY <1>1, <1>2, <3>1, <3>3, <3>4 DEF InOrder, Sending
    <3>6. a \notin unsure => Whole(book[a], k)
      BY <1>1, <1>2, <3>3, <3>4 DEF Whole, Sending
    <3>7. Advances(book[a], job[a], book[a], k)
      BY <3>3, <3>4 DEF Advances
    <3>8. QED
      BY <3>3, <3>4, <3>5, <3>6, <3>7
  <2>2. CASE ~Room(cur, job[a].order.sl)
    <3>1. k = Failed(job[a])
      BY <2>2
    <3> HIDE DEF k
    <3>2. QED
      BY <1>1, <1>2, <1>3, <3>1, SendingGivenUp
  <2>3. QED
    BY <2>1, <2>2
<1>7. job' = [job EXCEPT ![a] = k] /\ job'[a] = k
  BY <1>2, <1>4 DEF Types
<1>8. book' = [book EXCEPT ![a] = book[a]]
  BY <1>1, <1>2 DEF Types
<1>9. \E l \in SUBSET Nat : loose' = [loose EXCEPT ![a] = l]
  BY <1>1, <1>2, LooseSame
<1> HIDE DEF k
<1>10. QED
  BY <1>1, <1>2, <1>6, <1>7, <1>8, <1>9 DEF Step

\* An order that waits at the broker fills.
LEMMA FillSteps ==
    ASSUME IInv, NEW a \in Accounts, NEW n \in DOMAIN book[a], Fill(a, n)
    PROVE  Step(a, book'[a], job[a])
<1> DEFINE b == book[a]
           o == [b[n] EXCEPT !.state = "live"]
           c == [b EXCEPT ![n] = o]
<1>1. /\ Types /\ job[a] \in Jobs /\ b \in Seq(Orders) /\ InOrder(b, job[a])
      /\ (a \notin unsure => Whole(b, job[a])) /\ unsure \subseteq Accounts
  BY DEF IInv, Types
<1>2. UNCHANGED <<sig, price, plan, job, unsure, loose>> /\ b[n].state = "pending"
  BY DEF Fill
<1>3. book' = [book EXCEPT ![a] = c] /\ book'[a] = c
  BY <1>1 DEF Fill, Types
<1>4. job' = [job EXCEPT ![a] = job[a]]
  BY <1>1, <1>2 DEF Types
<1>5. /\ c \in Seq(Orders) /\ Len(c) = Len(b) /\ DOMAIN c = DOMAIN b
      /\ \A m \in DOMAIN b : m # n => c[m] = b[m]
      /\ c[n] = o /\ o.state = "live" /\ o.kind = b[n].kind /\ o.slice = b[n].slice
      /\ o.sl = b[n].sl /\ o.tp = b[n].tp
      /\ Reached(c) = Reached(b)
  <2>1. "live" \in States
    BY DEF States
  <2> HIDE DEF b
  <2>2. b \in Seq(Orders) /\ n \in DOMAIN b
    BY <1>1 DEF b
  <2>3. QED
    BY <2>1, <2>2, OneChanged
<1>6. GoodOrder(b[n]) /\ \A m \in DOMAIN b : GoodOrder(b[m])
  BY <1>1 DEF InOrder
<1>7. b[n].kind = "limit" /\ b # <<>>
  BY <1>2, <1>6 DEF GoodOrder
<1>8. plan.built
  BY <1>1, <1>7 DEF InOrder
<1> HIDE DEF c, b, o
<1>9. \A m \in DOMAIN c : GoodOrder(c[m])
  <2>1. GoodOrder(c[n])
    BY <1>5, <1>6, <1>7 DEF GoodOrder
  <2>2. QED
    BY <1>5, <1>6, <2>1
<1>10. InOrder(c, job[a])
  <2>1. job[a].at \notin {"waiting", "start"}
    BY <1>1, <1>7 DEF InOrder
  <2>2. QED
    BY <1>1, <1>5, <1>9, <2>1 DEF InOrder
<1>11. a \notin unsure => Whole(c, job[a])
  <2>1. \A m \in DOMAIN c : c[m].slice = b[m].slice
    BY <1>5
  <2>2. QED
    BY <1>1, <1>5, <2>1 DEF Whole, Sending
<1>12. Advances(b, job[a], c, job[a])
  BY <1>5 DEF Advances
<1>13. \E l \in SUBSET Nat : loose' = [loose EXCEPT ![a] = l]
  BY <1>1, <1>2, LooseSame
<1>14. QED
  BY <1>1, <1>2, <1>3, <1>4, <1>5, <1>8, <1>10, <1>11, <1>12, <1>13 DEF Step, b

\* An undone order is gone, or as it was.
LEMMA UndoneIs ==
    ASSUME NEW o \in Orders, GoodOrder(o)
    PROVE  \E st \in States : /\ Undone(o) = [o EXCEPT !.state = st]
                              /\ o.kind = "market" => st # "pending"
<1>1. CASE \/ o.kind # "market" /\ o.state = "pending"
           \/ o.kind = "market" /\ o.state = "live"
  BY <1>1 DEF Undone, States
<1>2. CASE /\ ~(o.kind # "market" /\ o.state = "pending")
           /\ ~(o.kind = "market" /\ o.state = "live")
  <2>1. Undone(o) = o
    BY <1>2 DEF Undone
  <2>2. o = [o EXCEPT !.state = o.state] /\ o.state \in States
    BY DEF Orders
  <2>3. o.kind = "market" => o.state # "pending"
    BY DEF GoodOrder
  <2>4. QED
    BY <2>1, <2>2, <2>3
<1>3. QED
  BY <1>1, <1>2

\* What an attempt to undo does to the order, to the job and to what is loose.
LEMMA UndoIs ==
    ASSUME Types, NEW a \in Accounts, Undo(a)
    PROVE  LET j == job[a]
               h == Head(j.tickets)
               next == Failed([j EXCEPT !.tickets = Tail(j.tickets)])
           IN /\ j.at = "undo" /\ UNCHANGED <<sig, price, plan, unsure>>
              /\ job' = [job EXCEPT ![a] = job'[a]]
              /\ \/ job'[a] = next
                 \/ /\ job'[a] \in Jobs /\ job'[a].tickets = j.tickets /\ job'[a].at = j.at
                    /\ job'[a].slice = j.slice /\ job'[a].result = j.result
              /\ \/ book' = [book EXCEPT ![a][h] = Undone(@)] /\ loose' = loose
                 \/ /\ book' = book
                    /\ \/ loose' = loose /\ job'[a].tickets = j.tickets
                       \/ loose' = [loose EXCEPT ![a] = @ \cup {h}]
<1> DEFINE j == job[a]
           h == Head(j.tickets)
           next == Failed([j EXCEPT !.tickets = Tail(j.tickets)])
<1>1. j \in Jobs /\ job \in [Accounts -> Jobs]
  BY DEF Types
<1>2. ASSUME NextTicket(a) PROVE job' = [job EXCEPT ![a] = job'[a]] /\ job'[a] = next
  BY <1>1, <1>2 DEF NextTicket
<1>3. ASSUME UndoAgain(a)
      PROVE  /\ job' = [job EXCEPT ![a] = job'[a]]
             /\ \/ job'[a] = next
                \/ /\ job'[a] \in Jobs /\ job'[a].tickets = j.tickets /\ job'[a].at = j.at
                   /\ job'[a].slice = j.slice /\ job'[a].result = j.result
  <2>1. CASE j.tries + 1 < Attempts
    <3>1. j.tries + 1 \in 0..(Attempts - 1)
      BY <1>1, <2>1, ConstantsOK DEF Jobs, ConstantsOK
    <3>2. job' = [job EXCEPT ![a] = [j EXCEPT !.tries = @ + 1]]
      BY <1>3, <2>1 DEF UndoAgain
    <3>3. job'[a] = [j EXCEPT !.tries = j.tries + 1]
      BY <1>1, <3>2
    <3>4. job' = [job EXCEPT ![a] = job'[a]]
      BY <3>2, <3>3
    <3> HIDE DEF j
    <3>5. QED
      BY <1>1, <3>1, <3>3, <3>4 DEF Jobs
  <2>2. CASE ~(j.tries + 1 < Attempts)
    BY <1>2, <1>3, <2>2 DEF UndoAgain
  <2>3. QED
    BY <2>1, <2>2
<1>4. NextTicket(a) \/ UndoAgain(a)
  BY DEF Undo
<1>5. j.at = "undo" /\ UNCHANGED <<sig, price, plan, unsure>>
  BY DEF Undo
<1>6. \/ book' = [book EXCEPT ![a][h] = Undone(@)] /\ loose' = loose
      \/ /\ book' = book
         /\ \/ loose' = loose /\ job'[a].tickets = j.tickets
            \/ loose' = [loose EXCEPT ![a] = @ \cup {h}]
  BY DEF Undo
<1>7. QED
  BY <1>2, <1>3, <1>4, <1>5, <1>6

\* One attempt for a ticket of an abandoned batch.
LEMMA UndoSteps ==
    ASSUME IInv, NEW a \in Accounts, Undo(a)
    PROVE  \E c : Step(a, c, job'[a])
<1> DEFINE b == book[a]
           h == Head(job[a].tickets)
           j == [job[a] EXCEPT !.tickets = Tail(@)]
           k == job'[a]
<1>1. /\ Types /\ job[a] \in Jobs /\ b \in Seq(Orders) /\ InOrder(b, job[a])
      /\ (a \notin unsure => Whole(b, job[a])) /\ unsure \subseteq Accounts
      /\ loose \in [Accounts -> SUBSET Nat]
  BY DEF IInv, Types
<1>2. /\ job[a].at = "undo" /\ UNCHANGED <<sig, price, plan, unsure>>
      /\ job' = [job EXCEPT ![a] = k]
      /\ \/ k = Failed(j)
         \/ /\ k \in Jobs /\ k.tickets = job[a].tickets /\ k.at = job[a].at
            /\ k.slice = job[a].slice /\ k.result = job[a].result
      /\ \/ book' = [book EXCEPT ![a][h] = Undone(@)] /\ loose' = loose
         \/ book' = book /\ (loose' = loose \/ loose' = [loose EXCEPT ![a] = @ \cup {h}])
  BY <1>1, UndoIs
<1>3. /\ job[a].tickets \in Seq(Nat) /\ job[a].tickets # <<>> /\ plan.built /\ job[a].result = "pending"
      /\ job[a].slice \in 1..(Len(sig.tps) + 1) /\ Reached(b) \in 0..Len(sig.tps)
      /\ \A n \in DOMAIN b : GoodOrder(b[n])
      /\ \A i \in DOMAIN job[a].tickets : job[a].tickets[i] \in DOMAIN b
  BY <1>1, <1>2 DEF InOrder, Jobs
<1>4. /\ h = job[a].tickets[1] /\ 1 \in DOMAIN job[a].tickets /\ h \in DOMAIN b
      /\ Tail(job[a].tickets) \in Seq(Nat)
      /\ DOMAIN job[a].tickets = 1..Len(job[a].tickets) /\ Len(job[a].tickets) \in Nat
      /\ DOMAIN Tail(job[a].tickets) = 1..(Len(job[a].tickets) - 1)
      /\ \A i \in 1..(Len(job[a].tickets) - 1) : Tail(job[a].tickets)[i] = job[a].tickets[i + 1]
  BY <1>3, EmptySeq, LenProperties, HeadTailProperties
<1>5. /\ j \in Jobs /\ j.tickets = Tail(job[a].tickets) /\ j.slice = job[a].slice /\ j.result = "pending"
  <2> DEFINE ts == Tail(job[a].tickets)
  <2>1. ts \in Seq(Nat)
    BY <1>4
  <2> HIDE DEF ts
  <2>2. [job[a] EXCEPT !.tickets = ts] \in Jobs
    BY <1>1, <2>1 DEF Jobs
  <2>3. QED
    BY <1>1, <1>3, <2>2 DEF Jobs, ts
<1> HIDE DEF j
<1>6. \A i \in DOMAIN j.tickets : j.tickets[i] \in DOMAIN b
  <2>1. \A i \in DOMAIN j.tickets : i + 1 \in DOMAIN job[a].tickets /\ j.tickets[i] = job[a].tickets[i + 1]
    BY <1>4, <1>5
  <2>2. QED
    BY <1>3, <2>1
<1>7. \E l \in SUBSET Nat : loose' = [loose EXCEPT ![a] = l]
  <2>1. h \in Nat /\ loose[a] \in SUBSET Nat
    BY <1>1, <1>4, LenProperties
  <2>2. loose[a] \cup {h} \in SUBSET Nat /\ loose = [loose EXCEPT ![a] = loose[a]]
    BY <1>1, <2>1
  <2>3. QED
    BY <1>2, <2>1, <2>2
<1> HIDE DEF h, k
<1>8. ASSUME NEW c \in Seq(Orders), DOMAIN c = DOMAIN b, Len(c) = Len(b), Reached(c) = Reached(b),
             \A n \in DOMAIN c : GoodOrder(c[n]) /\ c[n].slice = b[n].slice,
             book' = [book EXCEPT ![a] = c]
      PROVE  Step(a, c, k)
  <2>1. a \notin unsure => \A n \in DOMAIN c : c[n].slice = n
    BY <1>1, <1>8 DEF Whole
  <2>2. k \in Jobs /\ InOrder(c, k) /\ (a \notin unsure => Whole(c, k)) /\ k.result \in {"pending", "none"}
    <3>1. CASE k = Failed(j)
      BY <1>3, <1>5, <1>6, <1>8, <2>1, <3>1, GivenUp
    <3>2. CASE /\ k \in Jobs /\ k.tickets = job[a].tickets /\ k.at = job[a].at
               /\ k.slice = job[a].slice /\ k.result = job[a].result
      <4>1. InOrder(c, k)
        BY <1>1, <1>2, <1>8, <3>2 DEF InOrder, Sending
      <4>2. a \notin unsure => Whole(c, k)
        BY <1>2, <1>3, <2>1, <3>2 DEF Whole, Sending
      <4>3. QED
        BY <1>3, <3>2, <4>1, <4>2
    <3>3. QED
      BY <1>2, <3>1, <3>2
  <2>3. Advances(b, job[a], c, k)
    BY <1>3, <1>8, <2>2 DEF Advances
  <2>4. QED
    BY <1>1, <1>2, <1>3, <1>7, <1>8, <2>2, <2>3 DEF Step
<1>9. CASE book' = [book EXCEPT ![a][h] = Undone(@)]
  <2>1. b[h] \in Orders /\ GoodOrder(b[h])
    BY <1>1, <1>3, <1>4, ElementOfSeq, LenProperties
  <2>2. PICK st \in States : /\ Undone(b[h]) = [b[h] EXCEPT !.state = st]
                             /\ b[h].kind = "market" => st # "pending"
    BY <2>1, UndoneIs
  <2> DEFINE o == [b[h] EXCEPT !.state = st]
             c == [b EXCEPT ![h] = o]
  <2>3. /\ c \in Seq(Orders) /\ Len(c) = Len(b) /\ DOMAIN c = DOMAIN b
        /\ \A m \in DOMAIN b : m # h => c[m] = b[m]
        /\ c[h] = o /\ o.state = st /\ o.kind = b[h].kind /\ o.slice = b[h].slice
        /\ o.sl = b[h].sl /\ o.tp = b[h].tp
        /\ Reached(c) = Reached(b)
    <3> HIDE DEF b
    <3>1. b \in Seq(Orders) /\ h \in DOMAIN b /\ st \in States
      BY <1>1, <1>4, <2>2
    <3>2. c \in Seq(Orders)
      BY <3>1, OneChanged
    <3>3. Len(c) = Len(b)
      BY <3>1, OneChanged
    <3>4. DOMAIN c = DOMAIN b
      BY DEF c
    <3>5. Reached(c) = Reached(b)
      BY <3>1, OneChanged
    <3>6. c[h] = o /\ \A m \in DOMAIN b : m # h => c[m] = b[m]
      BY <3>1, OneChanged
    <3>7. o.state = st /\ o.kind = b[h].kind /\ o.slice = b[h].slice /\ o.sl = b[h].sl /\ o.tp = b[h].tp
      BY <3>1, OneChanged
    <3>8. QED
      BY <3>2, <3>3, <3>4, <3>5, <3>6, <3>7
  <2>4. book' = [book EXCEPT ![a] = c]
    BY <1>9, <2>2
  <2> HIDE DEF b, c, o
  <2>5. \A n \in DOMAIN c : GoodOrder(c[n]) /\ c[n].slice = b[n].slice
    <3>1. GoodOrder(c[h])
      BY <2>1, <2>2, <2>3 DEF GoodOrder
    <3>2. QED
      BY <1>3, <2>3, <3>1
  <2>6. Step(a, c, k)
    BY <1>8, <2>3, <2>4, <2>5
  <2>7. QED
    BY <2>6 DEF k
<1>10. CASE book' = book
  <2>1. book' = [book EXCEPT ![a] = b]
    BY <1>1, <1>10 DEF Types
  <2> HIDE DEF b
  <2>2. Step(a, b, k)
    BY <1>1, <1>3, <1>8, <2>1
  <2>3. QED
    BY <2>2 DEF k
<1>11. QED
  BY <1>2, <1>9, <1>10

\* The plan of a signal is sound.
LEMMA PlanIsSound ==
    ASSUME sig \in Signals, NEW cur \in Int \cup {None}
    PROVE  LET p == OrderPlan(cur)
           IN /\ p \in Plans /\ p.built /\ p.levels \in [Slices -> Levels]
              /\ \A i, k \in Slices : p.levels[i].sl = p.levels[k].sl
              /\ ~p.market => PendingKind(p.cur) = "limit"
<1>1. OrderPlan(cur) \in Plans /\ OrderPlan(cur).built /\ OrderPlan(cur).levels \in [Slices -> Levels]
  BY OrderPlanType
<1>2. \A i, k \in Slices : OrderPlan(cur).levels[i].sl = OrderPlan(cur).levels[k].sl
  BY DEF OrderPlan, StopsFloor
<1>3. OrderPlan(cur).cur = cur
      /\ (~OrderPlan(cur).market => ~(cur # None /\ Ahead(cur, sig.entry) < MinDist))
  BY DEF OrderPlan
<1>4. ~OrderPlan(cur).market => PendingKind(cur) = "limit"
  BY <1>3, MinDistType, SlicesAre DEF PendingKind, Ahead
<1>5. QED
  BY <1>1, <1>2, <1>3, <1>4

\* Before its plan is made, a signal has no orders.
LEMMA Unplanned ==
    ASSUME IInv, ~plan.built, NEW a \in Accounts
    PROVE  book[a] = <<>> /\ job[a].result = "pending" /\ job[a].at = "waiting"
BY DEF IInv, InOrder, Types, Jobs

\* The plan is made, and every account starts.
LEMMA BuildPlanKeeps ==
    ASSUME IInv, BuildPlan
    PROVE  /\ IInv' /\ plan'.built /\ ~plan.built /\ UNCHANGED <<sig, book>>
           /\ \A a \in Accounts : job'[a].result = "pending"
<1>1. ~plan.built /\ UNCHANGED <<sig, price, book, unsure, loose>> /\ Types /\ sig \in Signals
  BY DEF BuildPlan, IInv, Types
<1>2. PICK cur \in {price} \cup (IF "noprice" \in Faults THEN {None} ELSE {}) : plan' = OrderPlan(cur)
  BY DEF BuildPlan
<1>3. cur \in Int \cup {None}
  BY <1>1, ConstantsOK DEF Types, ConstantsOK
<1>4. /\ plan' \in Plans /\ plan'.built /\ plan'.levels \in [Slices -> Levels]
      /\ \A i, k \in Slices : plan'.levels[i].sl = plan'.levels[k].sl
      /\ ~plan'.market => PendingKind(plan'.cur) = "limit"
  BY <1>1, <1>2, <1>3, PlanIsSound
<1> DEFINE begin == [Idle EXCEPT !.at = "start"]
<1>5. job' = [a \in Accounts |-> begin]
  BY DEF BuildPlan
<1>6. /\ begin \in Jobs /\ begin.at = "start" /\ begin.tickets = <<>> /\ begin.result = "pending"
      /\ begin.slice = 1
  <2>1. 0 \in 0..(Attempts - 1) /\ <<>> \in Seq(Nat)
    BY ConstantsOK DEF ConstantsOK
  <2>2. begin = [at |-> "start", slice |-> 1, order |-> None, tries |-> 0,
                 tickets |-> <<>>, result |-> "pending"]
    BY DEF Idle
  <2> HIDE DEF begin
  <2>3. QED
    BY <2>1, <2>2 DEF Jobs
<1> HIDE DEF begin
<1>7. Types'
  BY <1>1, <1>4, <1>5, <1>6 DEF Types
<1>8. Slices' = Slices /\ sig' = sig
  BY <1>1 DEF Slices
<1>9. PlanSound'
  BY <1>4, <1>8 DEF PlanSound, PendingKind, Ahead
<1>10. Len(sig.tps) \in Nat
  BY <1>1, SlicesAre
<1>11. ASSUME NEW a \in Accounts PROVE book'[a] = <<>> /\ job'[a] = begin
  BY <1>1, <1>5, <1>11, Unplanned
<1>12. ASSUME NEW a \in Accounts PROVE InOrder(book[a], job[a])'
  <2>1. /\ book'[a] = <<>> /\ job'[a] = begin /\ DOMAIN book'[a] = {} /\ Reached(book'[a]) = 0
        /\ DOMAIN begin.tickets = {}
    BY <1>6, <1>11 DEF Reached
  <2>2. 1 \in 1..(Len(sig'.tps) + 1) /\ 0 \in 0..Len(sig'.tps)
    BY <1>8, <1>10
  <2>3. plan'.built = TRUE
    BY <1>4 DEF Plans
  <2>4. QED
    BY <1>6, <2>1, <2>2, <2>3 DEF InOrder, Sending, Reached
<1>13. ASSUME NEW a \in Accounts PROVE Whole(book[a], job[a])'
  BY <1>6, <1>11, <1>13 DEF Whole, Sending
<1>14. QED
  BY <1>1, <1>4, <1>5, <1>6, <1>7, <1>9, <1>12, <1>13 DEF IInv

\* The price moves and nothing else does.
LEMMA PriceMovesKeeps ==
    ASSUME IInv, PriceMoves
    PROVE  IInv' /\ UNCHANGED <<sig, plan, book, job, unsure, loose>>
<1>1. UNCHANGED <<sig, plan, book, job, unsure, loose>> /\ price' \in Prices
  BY DEF PriceMoves
<1>2. QED
  BY SMTT(60), <1>1 DEF IInv, Types, PlanSound, InOrder, Whole, Sending, GoodOrder, Reached,
              PendingKind, Ahead, Slices

\* Every step is one of these.
LEMMA Steps ==
    ASSUME IInv, Next
    PROVE  \/ PriceMoves
           \/ BuildPlan
           \/ \E a \in Accounts : \E c : Step(a, c, job'[a])
<1>1. ASSUME NEW a \in Accounts, NEW n \in DOMAIN book[a], Fill(a, n)
      PROVE  \E c : Step(a, c, job'[a])
  <2>1. job' = job
    BY <1>1 DEF Fill
  <2>2. QED
    BY <1>1, <2>1, FillSteps
<1>2. ASSUME NEW a \in Accounts, Submit(a)
      PROVE  \E c : Step(a, c, job'[a])
  BY <1>2, StartSteps, SendSteps, RepriceSteps, UndoSteps DEF Submit
<1>3. QED
  BY <1>1, <1>2 DEF Next

\* The invariant holds at first.
LEMMA InitHolds == Init => IInv
<1> SUFFICES ASSUME Init PROVE IInv
  OBVIOUS
<1>1. /\ sig \in Signals /\ price \in Prices /\ plan = NoPlan /\ unsure = {}
      /\ loose = [a \in Accounts |-> {}]
      /\ book = [a \in Accounts |-> <<>>] /\ job = [a \in Accounts |-> Idle]
  BY DEF Init
<1>2. NoPlan \in Plans /\ NoPlan.built = FALSE
  BY DEF NoPlan, Plans
<1>3. /\ Idle \in Jobs /\ Idle.at = "waiting" /\ Idle.tickets = <<>> /\ Idle.result = "pending"
      /\ Idle.slice = 1
  <2>1. 0 \in 0..(Attempts - 1) /\ <<>> \in Seq(Nat)
    BY ConstantsOK DEF ConstantsOK
  <2>2. QED
    BY <2>1 DEF Jobs, Idle
<1>4. Types
  BY <1>1, <1>2, <1>3 DEF Types
<1>5. PlanSound
  BY <1>1, <1>2 DEF PlanSound
<1>6. Len(sig.tps) \in Nat
  BY <1>1, SlicesAre
<1>7. ASSUME NEW a \in Accounts PROVE book[a] = <<>> /\ job[a] = Idle
  BY <1>1, <1>7
<1>8. ASSUME NEW a \in Accounts PROVE InOrder(book[a], job[a])
  <2>1. 1 \in 1..(Len(sig.tps) + 1) /\ 0 \in 0..Len(sig.tps)
    BY <1>6
  <2>2. /\ book[a] = <<>> /\ job[a] = Idle /\ DOMAIN book[a] = {} /\ Reached(book[a]) = 0
        /\ DOMAIN Idle.tickets = {} /\ plan.built = FALSE
    BY <1>1, <1>2, <1>3, <1>7 DEF Reached
  <2>3. QED
    BY <1>3, <2>1, <2>2 DEF InOrder, Sending
<1>9. ASSUME NEW a \in Accounts PROVE Whole(book[a], job[a])
  BY <1>3, <1>7, <1>9 DEF Whole, Sending
<1>10. QED
  BY <1>4, <1>5, <1>8, <1>9 DEF IInv

\* The invariant is inductive.
LEMMA NextHolds == IInv /\ [Next]_vars => IInv'
<1>1. ASSUME IInv, Next PROVE IInv'
  BY <1>1, Steps, PriceMovesKeeps, BuildPlanKeeps, StepKeeps
<1>2. ASSUME IInv, UNCHANGED vars PROVE IInv'
  BY SMTT(60), <1>2 DEF vars, IInv, Types, PlanSound, InOrder, Whole, Sending, GoodOrder, Reached,
              PendingKind, Ahead, Slices
<1>3. QED
  BY <1>1, <1>2

\* All states a submission reaches satisfy the invariant.
THEOREM Inductive == Spec => []IInv
BY InitHolds, NextHolds, PTL DEF Spec

\* Whatever the accounts' stops levels, the price, the faults and the fallbacks,
\* all orders of a signal share one stop; those of one slice share one target,
\* but that a fallback to the market may move its own outward.
THEOREM MirrorsAgree == Spec => []MirrorsAligned
<1>1. ASSUME IInv PROVE MirrorsAligned
  <2>1. SUFFICES ASSUME NEW a \in Accounts, NEW b \in Accounts,
                        NEW m \in DOMAIN book[a], NEW n \in DOMAIN book[b]
                 PROVE  LET o == book[a][m]
                            p == book[b][n]
                        IN /\ o.sl = p.sl
                           /\ o.slice = p.slice /\ o.kind = p.kind /\ plan.market => o.tp = p.tp
                           /\ o.slice = p.slice /\ o.kind = "limit" /\ p.kind = "market"
                                 => Ahead(p.tp, o.tp) >= 0
    BY DEF MirrorsAligned
  <2> DEFINE o == book[a][m]
             p == book[b][n]
  <2>2. GoodOrder(o) /\ GoodOrder(p) /\ book[a] # <<>>
    BY <1>1 DEF IInv, InOrder
  <2>3. plan.built
    BY <1>1, <2>2 DEF IInv, InOrder
  <2>4. \A i, k \in Slices : plan.levels[i].sl = plan.levels[k].sl
    BY <1>1, <2>3 DEF IInv, PlanSound
  <2> HIDE DEF o, p
  <2>5. o.sl = p.sl
    BY <2>2, <2>4 DEF GoodOrder
  <2>6. o.slice = p.slice /\ o.kind = p.kind /\ plan.market => o.tp = p.tp
    BY <2>2 DEF GoodOrder
  <2>7. o.slice = p.slice /\ o.kind = "limit" /\ p.kind = "market" => Ahead(p.tp, o.tp) >= 0
    BY <2>2 DEF GoodOrder
  <2>8. QED
    BY <2>5, <2>6, <2>7 DEF o, p
<1>2. QED
  BY <1>1, Inductive, PTL

\* An account all of whose orders have a ticket and that reports its batch has
\* exactly one order for each slice.
THEOREM OneEach == Spec => []OneOrderPerSlice
<1>1. ASSUME IInv PROVE OneOrderPerSlice
  <2>1. ASSUME NEW a \in Accounts \ unsure, job[a].result = "all"
        PROVE  [n \in DOMAIN book[a] |-> book[a][n].slice] = [i \in Slices |-> i]
    <3>1. Whole(book[a], job[a]) /\ book[a] \in Seq(Orders) /\ sig \in Signals
      BY <1>1 DEF IInv, Types
    <3>2. \A n \in DOMAIN book[a] : book[a][n].slice = n
      BY <3>1 DEF Whole
    <3>3. DOMAIN book[a] = Slices
      BY <2>1, <3>1, SlicesAre, LenProperties DEF Whole
    <3>4. QED
      BY <3>2, <3>3
  <2>2. QED
    BY <2>1 DEF OneOrderPerSlice
<1>2. QED
  BY <1>1, Inductive, PTL

\* A step of one account is a step of the batch it promises, or none of it.
LEMMA StepRefines ==
    ASSUME IInv, NEW a \in Accounts, NEW c, NEW k, Step(a, c, k)
    PROVE  Batch!Next \/ UNCHANGED Batch!vars
<1> DEFINE size == IF plan.built THEN Len(sig.tps) ELSE None
           reached == [x \in Accounts |-> Reached(book[x])]
           report == [x \in Accounts |-> job[x].result]
           from == Reached(book[a])
           to == Reached(c)
<1>1. /\ plan.built /\ UNCHANGED <<sig, plan>> /\ Advances(book[a], job[a], c, k)
      /\ book' = [book EXCEPT ![a] = c] /\ job' = [job EXCEPT ![a] = k]
      /\ InOrder(book[a], job[a]) /\ InOrder(c, k) /\ k \in Jobs /\ job[a] \in Jobs
      /\ book \in [Accounts -> Seq(Orders)] /\ job \in [Accounts -> Jobs] /\ sig \in Signals
  BY DEF Step, IInv, Types
<1>2. size = Len(sig.tps) /\ size' = size /\ size \in Nat /\ size # None
  BY <1>1, SlicesAre, ConstantsOK DEF ConstantsOK
<1>3. from \in 0..size /\ to \in 0..size
  BY <1>1, <1>2 DEF InOrder
<1>4. \A x \in Accounts : x # a => book'[x] = book[x] /\ job'[x] = job[x]
  BY <1>1
<1>5. book'[a] = c /\ job'[a] = k
  BY <1>1
<1>6. reached' = [reached EXCEPT ![a] = to] /\ reached[a] = from
  <2>1. reached' = [x \in Accounts |-> Reached(book'[x])]
    BY DEF Reached
  <2>2. \A x \in Accounts : Reached(book'[x]) = IF x = a THEN to ELSE Reached(book[x])
    BY <1>4, <1>5
  <2>3. QED
    BY <2>1, <2>2
<1>7. report' = [report EXCEPT ![a] = k.result] /\ report[a] = job[a].result
  <2>1. \A x \in Accounts : job'[x].result = IF x = a THEN k.result ELSE job[x].result
    BY <1>4, <1>5
  <2>2. QED
    BY <2>1
<1>8. reached \in [Accounts -> Nat] /\ report \in [Accounts -> {"pending", "all", "none"}]
  <2>1. ASSUME NEW x \in Accounts PROVE Reached(book[x]) \in Nat /\ job[x].result \in {"pending", "all", "none"}
    <3>1. InOrder(book[x], job[x]) /\ job[x] \in Jobs /\ Len(sig.tps) \in Nat
      BY <1>1, SlicesAre DEF IInv
    <3>2. QED
      BY <3>1 DEF InOrder, Jobs
  <2>2. QED
    BY <2>1
<1> HIDE DEF reached, report, from, to, size
<1>9. CASE k.result = job[a].result /\ to = from
  <2>1. reached' = reached /\ report' = report
    BY <1>6, <1>7, <1>8, <1>9
  <2>2. QED
    BY <1>2, <2>1 DEF Batch!vars, reached, report, size
<1>10. CASE /\ job[a].result = "pending" /\ k.result = "pending"
            /\ to = from + 1 /\ to <= Len(sig.tps)
  <2>1. /\ size # None /\ report[a] = "pending" /\ reached[a] < size
        /\ reached' = [reached EXCEPT ![a] = reached[a] + 1] /\ size' = size /\ report' = report
    BY <1>2, <1>3, <1>6, <1>7, <1>8, <1>10
  <2>2. Batch!Reach(a)
    BY <2>1 DEF Batch!Reach, reached, report, size
  <2>3. QED
    BY <2>2 DEF Batch!Next
<1>11. CASE /\ job[a].result = "pending" /\ k.result = "all"
            /\ Len(sig.tps) <= from + 1 /\ to = Len(sig.tps)
  <2>1. /\ size # None /\ report[a] = "pending" /\ size <= reached[a] + 1
        /\ reached' = [reached EXCEPT ![a] = size] /\ size' = size
        /\ report' = [report EXCEPT ![a] = "all"]
    BY <1>2, <1>3, <1>6, <1>7, <1>8, <1>11
  <2>2. Batch!ReportAll(a)
    BY <2>1 DEF Batch!ReportAll, reached, report, size
  <2>3. QED
    BY <2>2 DEF Batch!Next
<1>12. CASE /\ job[a].result = "pending" /\ k.result = "none"
            /\ to \in {from, from + 1} /\ to <= Len(sig.tps)
  <2>1. /\ size # None /\ report[a] = "pending" /\ size' = size
        /\ to \in {reached[a], reached[a] + 1} /\ to <= size /\ reached' = [reached EXCEPT ![a] = to]
        /\ report' = [report EXCEPT ![a] = "none"]
    BY <1>2, <1>3, <1>6, <1>7, <1>8, <1>12
  <2>2. Batch!ReportNone(a)
    BY <2>1 DEF Batch!ReportNone, reached, report, size
  <2>3. QED
    BY <2>2 DEF Batch!Next
<1>13. QED
  BY <1>1, <1>9, <1>10, <1>11, <1>12 DEF Advances, from, to

\* The plan is the acceptance of the batch.
LEMMA BuildPlanRefines ==
    ASSUME IInv, BuildPlan
    PROVE  Batch!Accept
<1>1. /\ plan'.built /\ ~plan.built /\ UNCHANGED <<sig, book>>
      /\ \A a \in Accounts : job'[a].result = "pending"
      /\ \A a \in Accounts : job[a].result = "pending"
  BY BuildPlanKeeps, Unplanned
<1>2. Len(sig.tps) \in Nat
  BY SlicesAre DEF IInv, Types
<1>3. (IF plan.built THEN Len(sig.tps) ELSE None) = None
      /\ (IF plan'.built THEN Len(sig'.tps) ELSE None) \in Nat
  BY <1>1, <1>2
<1>4. [a \in Accounts |-> job'[a].result] = [a \in Accounts |-> job[a].result]
  BY <1>1
<1>5. [a \in Accounts |-> Reached(book'[a])] = [a \in Accounts |-> Reached(book[a])]
  BY <1>1
<1>6. QED
  BY <1>3, <1>4, <1>5 DEF Batch!Accept, Reached

\* Every account reports all slices of a signal only once all have reached the
\* broker, in the order of the targets, and places nothing after its report:
\* the submission implements the batch that the copy trader relies on.
THEOREM Implements == Spec => KeepsPromise
<1>1. Init => Batch!Init
  <2> SUFFICES ASSUME Init PROVE Batch!Init
    OBVIOUS
  <2>1. (IF plan.built THEN Len(sig.tps) ELSE None) = None
    BY DEF Init, NoPlan
  <2>2. [a \in Accounts |-> Reached(book[a])] = [a \in Accounts |-> 0]
    BY DEF Init, Reached
  <2>3. [a \in Accounts |-> job[a].result] = [a \in Accounts |-> "pending"]
    BY DEF Init, Idle
  <2>4. QED
    BY <2>1, <2>2, <2>3 DEF Batch!Init
<1>2. IInv /\ [Next]_vars => [Batch!Next]_(Batch!vars)
  <2>1. ASSUME IInv, Next PROVE Batch!Next \/ UNCHANGED Batch!vars
    <3>1. CASE PriceMoves
      BY <2>1, <3>1, PriceMovesKeeps DEF Batch!vars, Reached
    <3>2. CASE BuildPlan
      BY <2>1, <3>2, BuildPlanRefines DEF Batch!Next
    <3>3. CASE \E a \in Accounts : \E c : Step(a, c, job'[a])
      BY <2>1, <3>3, StepRefines
    <3>4. QED
      BY <2>1, <3>1, <3>2, <3>3, Steps
  <2>2. ASSUME UNCHANGED vars PROVE UNCHANGED Batch!vars
    BY <2>2 DEF vars, Batch!vars, Reached
  <2>3. QED
    BY <2>1, <2>2
<1>3. QED
  BY <1>1, <1>2, Inductive, PTL DEF Spec, KeepsPromise, Batch!Spec
-----------------------------------------------------------------------------
(***************************************************************************)
(* What a batch that is given up leaves behind.                            *)
(***************************************************************************)
\* A limit that filled, which no cancel touches, or an order that is gone.
Left(o) == Live(o) => o.kind = "limit" /\ o.state = "live"

HasTicket(j, n) == \E k \in DOMAIN j.tickets : j.tickets[k] = n

\* Every order has a ticket that is still to be undone, or is loose, or is left.
Accounted(b, j, l) ==
    /\ l \subseteq DOMAIN b
    /\ \A n \in DOMAIN b : n \in l \/ HasTicket(j, n) \/ Left(b[n])

AccountInv == IInv /\ \A a \in Accounts : Accounted(book[a], job[a], loose[a])

\* A step that leaves the orders and loses no ticket.
LEMMA SameAccount ==
    ASSUME NEW b, NEW j, NEW k, NEW l, Accounted(b, j, l), k.tickets = j.tickets
    PROVE  Accounted(b, k, l)
BY DEF Accounted, HasTicket

\* One more order: it has a ticket, or is loose.
LEMMA MoreAccount ==
    ASSUME NEW b \in Seq(Orders), NEW o \in Orders, NEW j \in Jobs, NEW k \in Jobs, NEW l, NEW m,
           Accounted(b, j, l), l \subseteq m, m \subseteq l \cup {Len(b) + 1},
           \/ k.tickets = j.tickets /\ Len(b) + 1 \in m
           \/ k.tickets = Append(j.tickets, Len(b) + 1)
    PROVE  Accounted(Append(b, o), k, m)
<1> DEFINE c == Append(b, o)
<1>1. /\ DOMAIN b = 1..Len(b) /\ Len(b) \in Nat /\ DOMAIN c = 1..(Len(b) + 1)
      /\ \A n \in DOMAIN b : c[n] = b[n]
  BY OneMore, LenProperties
<1>2. (\A n : HasTicket(j, n) => HasTicket(k, n)) /\ (Len(b) + 1 \in m \/ HasTicket(k, Len(b) + 1))
  <2>1. CASE k.tickets = Append(j.tickets, Len(b) + 1)
    <3>1. j.tickets \in Seq(Nat) /\ Len(j.tickets) \in Nat /\ DOMAIN j.tickets = 1..Len(j.tickets)
      BY LenProperties DEF Jobs
    <3>2. /\ DOMAIN k.tickets = 1..(Len(j.tickets) + 1)
          /\ \A i \in 1..Len(j.tickets) : k.tickets[i] = j.tickets[i]
          /\ k.tickets[Len(j.tickets) + 1] = Len(b) + 1
      BY <1>1, <2>1, <3>1, AppendProperties, LenProperties
    <3>3. DOMAIN j.tickets \subseteq DOMAIN k.tickets /\ Len(j.tickets) + 1 \in DOMAIN k.tickets
      BY <3>1, <3>2
    <3>4. QED
      BY <3>1, <3>2, <3>3 DEF HasTicket
  <2>2. CASE k.tickets = j.tickets /\ Len(b) + 1 \in m
    BY <2>2 DEF HasTicket
  <2>3. QED
    BY <2>1, <2>2
<1> HIDE DEF c
<1>3. m \subseteq DOMAIN c
  BY <1>1 DEF Accounted
<1>4. ASSUME NEW n \in DOMAIN c PROVE n \in m \/ HasTicket(k, n) \/ Left(c[n])
  <2>1. CASE n = Len(b) + 1
    BY <1>2, <2>1
  <2>2. CASE n # Len(b) + 1
    <3>1. n \in DOMAIN b
      BY <1>1, <2>2
    <3>2. QED
      BY <1>1, <1>2, <3>1 DEF Accounted
  <2>3. QED
    BY <2>1, <2>2
<1>5. QED
  BY <1>3, <1>4 DEF Accounted, c

LEMMA StartAccounts ==
    ASSUME AccountInv, NEW a \in Accounts, Start(a) \/ Reprice(a)
    PROVE  Accounted(book'[a], job'[a], loose'[a])
<1>1. /\ IInv /\ Types /\ job \in [Accounts -> Jobs] /\ job[a] \in Jobs
      /\ Accounted(book[a], job[a], loose[a]) /\ InOrder(book[a], job[a])
  BY DEF AccountInv, IInv, Types
<1>2. CASE Start(a)
  <2>1. book[a] = <<>> /\ book' = book /\ loose' = loose
    BY <1>1, <1>2 DEF Start, InOrder
  <2>2. DOMAIN book[a] = {}
    BY <2>1
  <2>3. QED
    BY <1>1, <2>1, <2>2 DEF Accounted
<1>3. CASE Reprice(a)
  <2>1. PICK m : job'[a] = m /\ m.tickets = job[a].tickets
    <3>1. PICK cur : \/ \E o : job'[a] = [job[a] EXCEPT !.at = "send", !.tries = 0, !.order = o]
                     \/ job'[a] = Failed(job[a])
      BY <1>1, <1>3 DEF Reprice
    <3>2. Failed(job[a]).tickets = job[a].tickets
      BY <1>1, FailedIs
    <3>3. \A o : [job[a] EXCEPT !.at = "send", !.tries = 0, !.order = o].tickets = job[a].tickets
      BY <1>1 DEF Jobs
    <3>4. QED
      BY <3>1, <3>2, <3>3
  <2>2. book' = book /\ loose' = loose
    BY <1>3 DEF Reprice
  <2>3. QED
    BY <1>1, <2>1, <2>2, SameAccount
<1>4. QED
  BY <1>2, <1>3

LEMMA SendAccounts ==
    ASSUME AccountInv, NEW a \in Accounts, Send(a)
    PROVE  Accounted(book'[a], job'[a], loose'[a])
<1> DEFINE b == book[a]
           o == job[a].order
           c == Append(b, o)
<1>1. job[a].at = "send" /\ Sending(job[a]) /\ IInv /\ Accounted(b, job[a], loose[a])
  BY DEF Send, Sending, AccountInv
<1>2. /\ Types /\ plan.levels \in [Slices -> Levels] /\ job[a] \in Jobs /\ o \in Orders
      /\ b \in Seq(Orders) /\ job \in [Accounts -> Jobs] /\ book \in [Accounts -> Seq(Orders)]
      /\ loose \in [Accounts -> SUBSET Nat]
  BY <1>1, WhileSending DEF Types
<1>3. CASE book' = [book EXCEPT ![a] = c] /\ Ticketed(a) /\ UNCHANGED <<unsure, loose>>
  <2>1. book'[a] = c /\ loose'[a] = loose[a]
    BY <1>2, <1>3
  <2>2. job'[a] \in Jobs /\ job'[a].tickets = Append(job[a].tickets, Len(b) + 1)
    BY <1>1, <1>2, <1>3, TicketedIs
  <2> HIDE DEF b, o
  <2>3. Accounted(c, job'[a], loose[a])
    BY <1>1, <1>2, <2>2, MoreAccount
  <2> HIDE DEF c
  <2>4. QED
    BY <2>1, <2>3
<1>4. CASE book' = [book EXCEPT ![a] = c] /\ LosesTicket(a) /\ Again(a)
  <2>1. book'[a] = c /\ loose'[a] = loose[a] \cup {Len(b) + 1}
    BY <1>2, <1>4 DEF LosesTicket
  <2>2. job'[a] \in Jobs /\ job'[a].tickets = job[a].tickets
    BY <1>2, <1>4, AgainIs
  <2> HIDE DEF b, o
  <2>3. Accounted(c, job'[a], loose[a] \cup {Len(b) + 1})
    BY <1>1, <1>2, <2>2, MoreAccount
  <2> HIDE DEF c
  <2>4. QED
    BY <2>1, <2>3
<1>5. CASE /\ job' = [job EXCEPT ![a] = IF Verdict(a, o) = "invalid price"
                                        THEN [@ EXCEPT !.at = "reprice"] ELSE Failed(@)]
           /\ UNCHANGED <<book, unsure, loose>>
  <2>1. job'[a] = [job[a] EXCEPT !.at = "reprice"] \/ job'[a] = Failed(job[a])
    BY <1>2, <1>5
  <2>2. job'[a].tickets = job[a].tickets
    BY <1>2, <2>1, FailedIs DEF Jobs
  <2>3. QED
    BY <1>1, <1>5, <2>2, SameAccount
<1>6. CASE Again(a) /\ UNCHANGED <<book, unsure, loose>>
  <2>1. job'[a].tickets = job[a].tickets
    BY <1>2, <1>6, AgainIs
  <2>2. QED
    BY <1>1, <1>6, <2>1, SameAccount
<1>7. QED
  BY <1>3, <1>4, <1>5, <1>6 DEF Send

\* What a cancel or a close has been carried out on is gone, or filled before.
LEMMA UndoneLeft == ASSUME NEW o \in Orders, GoodOrder(o) PROVE Left(Undone(o))
<1>1. CASE \/ o.kind # "market" /\ o.state = "pending"
           \/ o.kind = "market" /\ o.state = "live"
  <2>1. Undone(o) = [o EXCEPT !.state = "gone"]
    BY <1>1 DEF Undone
  <2>2. [o EXCEPT !.state = "gone"].state = "gone"
    BY DEF Orders
  <2>3. QED
    BY <2>1, <2>2 DEF Left, Live
<1>2. CASE /\ ~(o.kind # "market" /\ o.state = "pending")
           /\ ~(o.kind = "market" /\ o.state = "live")
  <2>1. Undone(o) = o
    BY <1>2 DEF Undone
  <2>2. o.kind \in {"limit", "market"} /\ (o.kind = "market" => o.state # "pending")
    BY DEF GoodOrder
  <2>3. QED
    BY <1>2, <2>1, <2>2 DEF Left, Live
<1>3. QED
  BY <1>1, <1>2

LEMMA UndoAccounts ==
    ASSUME AccountInv, NEW a \in Accounts, Undo(a)
    PROVE  Accounted(book'[a], job'[a], loose'[a])
<1> DEFINE b == book[a]
           ts == job[a].tickets
           h == Head(ts)
           j == [job[a] EXCEPT !.tickets = Tail(@)]
           k == job'[a]
<1>1. /\ IInv /\ Types /\ job[a] \in Jobs /\ b \in Seq(Orders) /\ InOrder(b, job[a])
      /\ Accounted(b, job[a], loose[a]) /\ book \in [Accounts -> Seq(Orders)]
      /\ loose \in [Accounts -> SUBSET Nat]
  BY DEF AccountInv, IInv, Types
<1>2. /\ job[a].at = "undo"
      /\ k = Failed(j) \/ k.tickets = ts
      /\ \/ book' = [book EXCEPT ![a][h] = Undone(@)] /\ loose' = loose
         \/ /\ book' = book
            /\ \/ loose' = loose /\ k.tickets = ts
               \/ loose' = [loose EXCEPT ![a] = @ \cup {h}]
  BY <1>1, UndoIs
<1>3. /\ ts \in Seq(Nat) /\ ts # <<>>
      /\ \A n \in DOMAIN b : GoodOrder(b[n]) /\ b[n] \in Orders
      /\ \A i \in DOMAIN ts : ts[i] \in DOMAIN b
  BY <1>1, <1>2, ElementOfSeq, LenProperties DEF InOrder, Jobs
<1>4. /\ h = ts[1] /\ h \in DOMAIN b /\ Tail(ts) \in Seq(Nat)
      /\ DOMAIN ts = 1..Len(ts) /\ Len(ts) \in Nat
      /\ DOMAIN Tail(ts) = 1..(Len(ts) - 1)
      /\ \A i \in 1..(Len(ts) - 1) : Tail(ts)[i] = ts[i + 1]
  BY <1>3, EmptySeq, LenProperties, HeadTailProperties
<1>5. k.tickets = Tail(ts) \/ k.tickets = ts
  <2>1. CASE k = Failed(j)
    <3> DEFINE rest == Tail(ts)
    <3>1. rest \in Seq(Nat) /\ j = [job[a] EXCEPT !.tickets = rest]
      BY <1>4
    <3> HIDE DEF rest
    <3>2. j \in Jobs /\ j.tickets = rest
      BY <1>1, <3>1 DEF Jobs
    <3> HIDE DEF j
    <3>3. k.tickets = rest
      BY <2>1, <3>2, FailedIs
    <3>4. QED
      BY <3>3 DEF rest
  <2>2. QED
    BY <1>2, <2>1
<1>6. \A n : HasTicket(job[a], n) => n = h \/ HasTicket(k, n)
  <2>1. SUFFICES ASSUME NEW n, NEW i \in DOMAIN ts, ts[i] = n, n # h
                 PROVE  HasTicket(k, n)
    BY DEF HasTicket
  <2>2. CASE k.tickets = ts
    BY <2>1, <2>2 DEF HasTicket
  <2>3. CASE k.tickets = Tail(ts)
    <3>1. i - 1 \in DOMAIN k.tickets /\ (i - 1) + 1 = i
      BY <1>4, <2>1, <2>3
    <3>2. k.tickets[i - 1] = n
      BY <1>4, <2>1, <2>3, <3>1
    <3>3. QED
      BY <3>1, <3>2 DEF HasTicket
  <2>4. QED
    BY <1>5, <2>2, <2>3
<1>7. CASE book' = [book EXCEPT ![a][h] = Undone(@)] /\ loose' = loose
  <2>1. book'[a] = [b EXCEPT ![h] = Undone(b[h])]
    BY <1>1, <1>7
  <2>2. Left(Undone(b[h]))
    BY <1>3, <1>4, UndoneLeft
  <2> HIDE DEF b, h, k
  <2>3. DOMAIN book'[a] = DOMAIN b /\ book'[a][h] = Undone(b[h])
        /\ \A n \in DOMAIN b : n # h => book'[a][n] = b[n]
    BY <1>4, <2>1
  <2>4. \A n \in DOMAIN b : n \in loose[a] \/ HasTicket(k, n) \/ Left(book'[a][n])
    BY <1>1, <1>6, <2>2, <2>3 DEF Accounted
  <2>5. QED
    BY <1>1, <1>7, <2>3, <2>4 DEF Accounted, k
<1>8. CASE book' = book /\ loose' = loose /\ k.tickets = ts
  BY <1>1, <1>8, SameAccount
<1>9. CASE book' = book /\ loose' = [loose EXCEPT ![a] = @ \cup {h}]
  <2>1. book'[a] = b /\ loose'[a] = loose[a] \cup {h}
    BY <1>1, <1>9
  <2> HIDE DEF b, h, k
  <2>2. \A n \in DOMAIN b : n \in loose'[a] \/ HasTicket(k, n) \/ Left(b[n])
    BY <1>1, <1>6, <2>1 DEF Accounted
  <2>3. loose'[a] \subseteq DOMAIN b
    BY <1>1, <1>4, <2>1 DEF Accounted
  <2>4. QED
    BY <2>1, <2>2, <2>3 DEF Accounted, k
<1>10. QED
  BY <1>2, <1>7, <1>8, <1>9

LEMMA FillAccounts ==
    ASSUME AccountInv, NEW a \in Accounts, NEW n \in DOMAIN book[a], Fill(a, n)
    PROVE  Accounted(book'[a], job'[a], loose'[a])
<1>1. /\ book \in [Accounts -> Seq(Orders)] /\ book[a] \in Seq(Orders)
      /\ Accounted(book[a], job[a], loose[a]) /\ GoodOrder(book[a][n])
      /\ job' = job /\ loose' = loose /\ book[a][n].state = "pending"
  BY DEF AccountInv, IInv, Types, InOrder, Fill
<1>2. book'[a] = [book[a] EXCEPT ![n] = [book[a][n] EXCEPT !.state = "live"]]
  BY <1>1 DEF Fill
<1>3. book[a][n] \in Orders /\ book[a][n].kind = "limit"
  BY <1>1, ElementOfSeq, LenProperties DEF GoodOrder
<1>4. Left([book[a][n] EXCEPT !.state = "live"])
  <2>1. /\ [book[a][n] EXCEPT !.state = "live"].state = "live"
        /\ [book[a][n] EXCEPT !.state = "live"].kind = "limit"
    BY <1>3 DEF Orders
  <2>2. QED
    BY <2>1 DEF Left
<1>5. QED
  BY <1>1, <1>2, <1>4 DEF Accounted

\* The other accounts are left alone.
LEMMA AccountsElsewhere ==
    ASSUME AccountInv, NEW a \in Accounts, NEW c, Step(a, c, job'[a]),
           Accounted(book'[a], job'[a], loose'[a])
    PROVE  AccountInv'
<1>1. IInv'
  BY StepKeeps DEF AccountInv
<1>2. ASSUME NEW x \in Accounts PROVE Accounted(book'[x], job'[x], loose'[x])
  <2>1. CASE x = a
    BY <2>1
  <2>2. CASE x # a
    <3>1. book'[x] = book[x] /\ job'[x] = job[x] /\ loose'[x] = loose[x]
      BY <2>2 DEF Step, AccountInv, IInv, Types
    <3>2. QED
      BY <3>1 DEF AccountInv
  <2>3. QED
    BY <2>1, <2>2
<1>3. ASSUME NEW x \in Accounts PROVE Accounted(book[x], job[x], loose[x])'
  BY <1>2 DEF Accounted, HasTicket, Left, Live
<1>4. QED
  BY <1>1, <1>3 DEF AccountInv

\* The orders are accounted for in all states a submission reaches.
LEMMA AccountInductive == Spec => []AccountInv
<1>1. Init => AccountInv
  <2> SUFFICES ASSUME Init PROVE AccountInv
    OBVIOUS
  <2>1. IInv
    BY InitHolds
  <2>2. ASSUME NEW a \in Accounts PROVE Accounted(book[a], job[a], loose[a])
    <3>1. book[a] = <<>> /\ loose[a] = {} /\ DOMAIN book[a] = {}
      BY DEF Init
    <3>2. QED
      BY <3>1 DEF Accounted
  <2>3. QED
    BY <2>1, <2>2 DEF AccountInv
<1>2. AccountInv /\ [Next]_vars => AccountInv'
  <2>1. CASE UNCHANGED vars
    BY <2>1, NextHolds DEF vars, AccountInv, Accounted, HasTicket, Left, Live
  <2>2. ASSUME AccountInv, PriceMoves PROVE AccountInv'
    <3>1. IInv' /\ UNCHANGED <<book, job, loose>>
      BY <2>2, PriceMovesKeeps DEF AccountInv
    <3>2. QED
      BY <2>2, <3>1 DEF AccountInv, Accounted, HasTicket, Left, Live
  <2>3. ASSUME AccountInv, BuildPlan PROVE AccountInv'
    <3>1. IInv' /\ UNCHANGED <<book, loose>> /\ ~plan.built
      BY <2>3, BuildPlanKeeps DEF AccountInv, BuildPlan
    <3>2. ASSUME NEW a \in Accounts PROVE Accounted(book[a], job[a], loose[a])'
      <4>1. book'[a] = <<>> /\ loose'[a] = loose[a]
        BY <2>3, <3>1, Unplanned DEF AccountInv
      <4>2. loose'[a] \subseteq DOMAIN book'[a] /\ DOMAIN book'[a] = {}
        BY <2>3, <3>1, <4>1 DEF AccountInv, Accounted
      <4>3. QED
        BY <4>2 DEF Accounted
    <3>3. QED
      BY <3>1, <3>2 DEF AccountInv
  <2>4. ASSUME AccountInv, NEW a \in Accounts, Submit(a) PROVE AccountInv'
    <3>1. \E c : Step(a, c, job'[a])
      BY <2>4, StartSteps, SendSteps, RepriceSteps, UndoSteps DEF Submit, AccountInv
    <3>2. Accounted(book'[a], job'[a], loose'[a])
      BY <2>4, StartAccounts, SendAccounts, UndoAccounts DEF Submit
    <3>3. QED
      BY <2>4, <3>1, <3>2, AccountsElsewhere
  <2>5. ASSUME AccountInv, NEW a \in Accounts, NEW n \in DOMAIN book[a], Fill(a, n) PROVE AccountInv'
    <3>1. job' = job /\ Step(a, book'[a], job[a])
      BY <2>5, FillSteps DEF Fill, AccountInv
    <3>2. Accounted(book'[a], job'[a], loose'[a])
      BY <2>5, FillAccounts
    <3>3. QED
      BY <2>5, <3>1, <3>2, AccountsElsewhere
  <2>6. QED
    BY <2>1, <2>2, <2>3, <2>4, <2>5 DEF Next
<1>3. QED
  BY <1>1, <1>2, PTL DEF Spec

\* A batch that is given up leaves nothing at the broker by oversight, on any
\* account: an order that is still there filled before its cancel, or one of its own
\* requests failed, so that it has no ticket or could not be undone.
THEOREM AbortIsClean == Spec => []AbortLeavesOnlyFailed
<1>1. ASSUME AccountInv PROVE AbortLeavesOnlyFailed
  <2>1. ASSUME NEW a \in Accounts, job[a].result = "none", NEW n \in DOMAIN book[a], Live(book[a][n])
        PROVE  \/ book[a][n].kind = "limit" /\ book[a][n].state = "live"
               \/ n \in loose[a]
    <3>1. InOrder(book[a], job[a]) /\ Accounted(book[a], job[a], loose[a])
      BY <1>1 DEF AccountInv, IInv
    <3>2. DOMAIN job[a].tickets = {}
      BY <2>1, <3>1 DEF InOrder
    <3>3. Left(book[a][n]) \/ n \in loose[a]
      BY <2>1, <3>1, <3>2 DEF Accounted, HasTicket
    <3>4. QED
      BY <2>1, <3>3 DEF Left
  <2>2. QED
    BY <2>1 DEF AbortLeavesOnlyFailed
<1>2. QED
  BY <1>1, AccountInductive, PTL

\* TypeOK: also that the tries of a request stay below Attempts, that every
\* ticket is that of an order, and that a job returns exactly when it has a
\* result.
THEOREM TypeCorrect == Spec => []TypeOK
<1>1. ASSUME AccountInv PROVE TypeOK
  <2>1. Types /\ sig \in Signals /\ Len(sig.tps) \in Nat
    BY <1>1, SlicesAre DEF AccountInv, IInv, Types
  <2>2. plan.market \in BOOLEAN /\ plan.cur \in Int \cup {None}
    BY <2>1 DEF Types, Plans
  <2>3. ASSUME NEW a \in Accounts
        PROVE  /\ \A n \in DOMAIN book[a] : /\ book[a][n].slice \in Slices /\ book[a][n].kind \in Kinds
                                            /\ book[a][n].state \in States
               /\ job[a].at \in {"waiting", "start", "send", "reprice", "undo", "returned"}
               /\ job[a].slice \in 1..(Len(sig.tps) + 1) /\ job[a].tries \in 0..(Attempts - 1)
               /\ \A k \in DOMAIN job[a].tickets : job[a].tickets[k] \in DOMAIN book[a]
               /\ (job[a].at = "returned") = (job[a].result # "pending")
    <3>1. InOrder(book[a], job[a]) /\ job[a] \in Jobs /\ book[a] \in Seq(Orders)
      BY <1>1, <2>1 DEF AccountInv, IInv, Types
    <3>2. ASSUME NEW n \in DOMAIN book[a]
          PROVE  book[a][n].slice \in Slices /\ book[a][n].kind \in Kinds /\ book[a][n].state \in States
      <4>1. book[a][n] \in Orders
        BY <3>1, ElementOfSeq, LenProperties
      <4>2. GoodOrder(book[a][n])
        BY <3>1 DEF InOrder
      <4>3. QED
        BY <4>1, <4>2 DEF GoodOrder, Orders
    <3>3. QED
      BY <3>1, <3>2 DEF InOrder, Jobs
  <2>4. QED
    BY <1>1, <2>1, <2>2, <2>3 DEF TypeOK, Types, AccountInv, Accounted
<1>2. QED
  BY <1>1, AccountInductive, PTL
-----------------------------------------------------------------------------
(***************************************************************************)
(* How often a slice may reach the broker.                                 *)
(***************************************************************************)
Of(b, i) == {n \in DOMAIN b : b[n].slice = i}

\* What the limit's attempts may have placed before a fallback to the market.
Before(o) == IF o.kind = "market" /\ ~plan.market THEN Attempts - 1 ELSE 0

\* The orders of the slice being sent are at most its attempts so far.
Counted(b, j) ==
    /\ \A i \in Slices : Cardinality(Of(b, i)) <= 2 * Attempts - 1
    /\ Sending(j) => /\ \A n \in DOMAIN b : b[n].slice <= j.slice
                     /\ Cardinality(Of(b, j.slice)) <= j.tries + Before(j.order)

CountInv == IInv /\ \A a \in Accounts : Counted(book[a], job[a])

\* A slice has finitely many orders, none if none has come to it.
LEMMA CountIs ==
    ASSUME NEW b \in Seq(Orders), NEW i
    PROVE  /\ IsFiniteSet(Of(b, i)) /\ Cardinality(Of(b, i)) \in Nat
           /\ (\A n \in DOMAIN b : b[n].slice # i) => Cardinality(Of(b, i)) = 0
<1>1. DOMAIN b = 1..Len(b) /\ Len(b) \in Nat
  BY LenProperties
<1>2. IsFiniteSet(1..Len(b))
  BY <1>1, FS_Interval
<1>3. IsFiniteSet(Of(b, i))
  BY <1>1, <1>2, FS_Subset DEF Of
<1>4. (\A n \in DOMAIN b : b[n].slice # i) => Of(b, i) = {}
  BY DEF Of
<1>5. QED
  BY <1>3, <1>4, FS_CardinalityType, FS_EmptySet

\* One more order counts for its slice alone.
LEMMA CountMore ==
    ASSUME NEW b \in Seq(Orders), NEW o \in Orders, NEW i
    PROVE  Cardinality(Of(Append(b, o), i)) = Cardinality(Of(b, i)) + (IF i = o.slice THEN 1 ELSE 0)
<1> DEFINE c == Append(b, o)
<1>1. /\ DOMAIN b = 1..Len(b) /\ Len(b) \in Nat /\ DOMAIN c = 1..(Len(b) + 1)
      /\ \A n \in DOMAIN b : c[n] = b[n]
      /\ c[Len(b) + 1] = o
  BY OneMore, LenProperties
<1> HIDE DEF c
<1>2. CASE i = o.slice
  <2>1. Of(c, i) = Of(b, i) \cup {Len(b) + 1} /\ Len(b) + 1 \notin Of(b, i)
    BY <1>1, <1>2 DEF Of
  <2>2. QED
    BY ZenonT(60), <1>2, <2>1, CountIs, FS_AddElement DEF c
<1>3. CASE i # o.slice
  <2>1. Of(c, i) = Of(b, i)
    BY <1>1, <1>3 DEF Of
  <2>2. QED
    BY <1>3, <2>1, CountIs DEF c
<1>4. QED
  BY <1>2, <1>3

\* Orders that change their state count the same.
LEMMA CountSame ==
    ASSUME NEW b, NEW c, DOMAIN c = DOMAIN b, \A n \in DOMAIN b : c[n].slice = b[n].slice, NEW i
    PROVE  Of(c, i) = Of(b, i)
BY DEF Of

\* A job that does not send has nothing more to count.
LEMMA StopsCounting ==
    ASSUME NEW b, NEW k, \A i \in Slices : Cardinality(Of(b, i)) <= 2 * Attempts - 1, ~Sending(k)
    PROVE  Counted(b, k)
BY DEF Counted

\* A job that is given up sends nothing.
LEMMA FailedStops ==
    ASSUME NEW j \in Jobs
    PROVE  ~Sending(Failed(j))
BY FailedIs DEF Sending

\* The bounds of a slice's orders, before and after one more.
LEMMA SentCount ==
    ASSUME CountInv, NEW a \in Accounts, job[a].at = "send"
    PROVE  LET c == Append(book[a], job[a].order)
               s == job[a].slice
           IN /\ \A i \in Slices : Cardinality(Of(c, i)) <= 2 * Attempts - 1
              /\ \A n \in DOMAIN c : c[n].slice <= s
              /\ Cardinality(Of(c, s)) <= job[a].tries + Before(job[a].order) + 1
              /\ Cardinality(Of(c, s + 1)) = 0
<1> DEFINE c == Append(book[a], job[a].order)
           s == job[a].slice
<1>1. Sending(job[a]) /\ IInv /\ Counted(book[a], job[a])
  BY DEF Sending, CountInv
<1>2. /\ book[a] \in Seq(Orders) /\ job[a].order \in Orders /\ job[a].order.slice = s /\ s \in Nat
      /\ job[a] \in Jobs /\ DOMAIN book[a] = 1..Len(book[a]) /\ Len(book[a]) \in Nat /\ Slices \subseteq Nat
  BY <1>1, WhileSending
<1>3. /\ c \in Seq(Orders) /\ DOMAIN c = 1..(Len(book[a]) + 1)
      /\ \A n \in DOMAIN book[a] : c[n] = book[a][n]
      /\ c[Len(book[a]) + 1] = job[a].order
  BY <1>1, OneMoreSent
<1>4. \A i : Cardinality(Of(c, i)) = Cardinality(Of(book[a], i)) + (IF i = s THEN 1 ELSE 0)
  BY <1>2, CountMore
<1>5. \A i : Cardinality(Of(book[a], i)) \in Nat
  BY <1>2, CountIs
<1>6. /\ \A i \in Slices : Cardinality(Of(book[a], i)) <= 2 * Attempts - 1
      /\ \A n \in DOMAIN book[a] : book[a][n].slice <= s
      /\ Cardinality(Of(book[a], s)) <= job[a].tries + Before(job[a].order)
  BY <1>1 DEF Counted
<1>7. job[a].tries \in 0..(Attempts - 1) /\ Attempts \in Nat \ {0}
  BY <1>2, ConstantsOK DEF Jobs, ConstantsOK
<1>8. Before(job[a].order) \in 0..(Attempts - 1)
  BY <1>7 DEF Before
<1> HIDE DEF c, s
<1>9. Cardinality(Of(c, s)) <= job[a].tries + Before(job[a].order) + 1
  BY <1>4, <1>5, <1>6, <1>7, <1>8
<1>10. \A i \in Slices : Cardinality(Of(c, i)) <= 2 * Attempts - 1
  BY <1>4, <1>5, <1>6, <1>7, <1>8
<1>11. ASSUME NEW n \in DOMAIN c PROVE c[n].slice <= s
  <2>1. CASE n = Len(book[a]) + 1
    BY <1>2, <1>3, <2>1
  <2>2. CASE n # Len(book[a]) + 1
    <3>1. n \in DOMAIN book[a]
      BY <1>2, <1>3, <2>2
    <3>2. QED
      BY <1>3, <1>6, <3>1
  <2>3. QED
    BY <2>1, <2>2
<1>12. Cardinality(Of(c, s + 1)) = 0
  <2>1. ASSUME NEW n \in DOMAIN c PROVE c[n].slice \in Nat
    <3>1. c[n] \in Orders
      BY <1>3, ElementOfSeq, LenProperties
    <3>2. QED
      BY <3>1 DEF Orders
  <2>2. \A n \in DOMAIN c : c[n].slice # s + 1
    BY <1>2, <1>11, <2>1
  <2>3. QED
    BY <1>3, <2>2, CountIs
<1>13. QED
  BY <1>9, <1>10, <1>11, <1>12 DEF c, s

\* Sending an order counts it.
LEMMA SendCounts ==
    ASSUME CountInv, NEW a \in Accounts, Send(a)
    PROVE  Counted(book'[a], job'[a])
<1> DEFINE b == book[a]
           c == Append(b, job[a].order)
           s == job[a].slice
           k == job'[a]
<1>1. job[a].at = "send" /\ Sending(job[a]) /\ IInv /\ Counted(b, job[a])
  BY DEF Send, Sending, CountInv
<1>2. /\ Types /\ plan.levels \in [Slices -> Levels] /\ job[a] \in Jobs /\ job[a].order \in Orders
      /\ s \in Nat /\ b \in Seq(Orders) /\ job \in [Accounts -> Jobs] /\ book \in [Accounts -> Seq(Orders)]
      /\ job[a].tries \in 0..(Attempts - 1) /\ Attempts \in Nat \ {0} /\ s \in Slices
  BY <1>1, WhileSending, ConstantsOK DEF ConstantsOK, Jobs, Types
<1>3. /\ \A i \in Slices : Cardinality(Of(c, i)) <= 2 * Attempts - 1
      /\ \A n \in DOMAIN c : c[n].slice <= s
      /\ Cardinality(Of(c, s)) <= job[a].tries + Before(job[a].order) + 1
      /\ Cardinality(Of(c, s + 1)) = 0
  BY <1>1, SentCount
<1>4. /\ \A i \in Slices : Cardinality(Of(b, i)) <= 2 * Attempts - 1
      /\ \A n \in DOMAIN b : b[n].slice <= s
      /\ Cardinality(Of(b, s)) <= job[a].tries + Before(job[a].order)
  BY <1>1 DEF Counted
<1>5. \A o : Before(o) \in Nat
  BY <1>2 DEF Before
<1>6. Cardinality(Of(c, s)) \in Nat /\ Cardinality(Of(b, s)) \in Nat /\ c \in Seq(Orders)
  BY <1>2, CountIs, OneMore
<1>7. \A n \in DOMAIN c : c[n].slice \in Nat
  <2> HIDE DEF c
  <2>1. SUFFICES ASSUME NEW n \in DOMAIN c PROVE c[n].slice \in Nat
    OBVIOUS
  <2>2. c[n] \in Orders
    BY <1>6, ElementOfSeq, LenProperties
  <2>3. QED
    BY <2>2 DEF Orders
<1>8. CASE book' = [book EXCEPT ![a] = c] /\ Ticketed(a)
  <2>1. book'[a] = c
    BY <1>2, <1>8
  <2>2. /\ s + 1 \notin Slices => k.at = "returned"
        /\ s + 1 \in Slices => k.slice = s + 1 /\ k.tries = 0
    BY <1>1, <1>2, <1>8, TicketedIs
  <2> HIDE DEF c, k
  <2>3. CASE s + 1 \notin Slices
    BY <1>3, <2>1, <2>2, <2>3, StopsCounting DEF Sending, k
  <2>4. CASE s + 1 \in Slices
    <3>1. k.slice = s + 1 /\ k.tries = 0
      BY <2>2, <2>4
    <3>2. \A n \in DOMAIN c : c[n].slice <= k.slice
      BY <1>2, <1>3, <1>7, <3>1
    <3>3. Cardinality(Of(c, k.slice)) <= k.tries + Before(k.order)
      BY <1>3, <1>5, <3>1
    <3>4. QED
      BY <1>3, <2>1, <3>2, <3>3 DEF Counted, k
  <2>5. QED
    BY <2>3, <2>4
<1>9. ASSUME NEW d, book'[a] = d, Again(a), \A i \in Slices : Cardinality(Of(d, i)) <= 2 * Attempts - 1,
             \A n \in DOMAIN d : d[n].slice <= s,
             Cardinality(Of(d, s)) <= job[a].tries + Before(job[a].order) + 1
      PROVE  Counted(d, k)
  <2>1. /\ k.slice = s
        /\ \/ k.at = job[a].at /\ k.order = job[a].order /\ k.tries = job[a].tries + 1
           \/ k = Failed(job[a])
    BY <1>2, <1>9, AgainIs
  <2> HIDE DEF k
  <2>2. CASE k.at = job[a].at /\ k.order = job[a].order /\ k.tries = job[a].tries + 1
    <3>1. k.tries + Before(k.order) = job[a].tries + Before(job[a].order) + 1
      BY <1>2, <1>5, <2>2
    <3>2. QED
      BY <1>9, <2>1, <3>1 DEF Counted
  <2>3. CASE k = Failed(job[a])
    BY <1>2, <1>9, <2>3, FailedStops, StopsCounting
  <2>4. QED
    BY <2>1, <2>2, <2>3
<1>10. CASE book' = [book EXCEPT ![a] = c] /\ Again(a)
  <2>1. book'[a] = c
    BY <1>2, <1>10
  <2> HIDE DEF c, k
  <2>2. QED
    BY <1>3, <1>9, <1>10, <2>1 DEF k
<1>11. CASE book' = book /\ Again(a)
  <2>1. book'[a] = b
    BY <1>11
  <2>2. Cardinality(Of(b, s)) <= job[a].tries + Before(job[a].order) + 1
    BY <1>2, <1>4, <1>5, <1>6
  <2> HIDE DEF b, k
  <2>3. QED
    BY <1>4, <1>9, <1>11, <2>1, <2>2 DEF k
<1>12. CASE /\ book' = book
            /\ job' = [job EXCEPT ![a] = IF Verdict(a, job[a].order) = "invalid price"
                                         THEN [@ EXCEPT !.at = "reprice"] ELSE Failed(@)]
  <2>1. CASE Verdict(a, job[a].order) = "invalid price"
    <3>1. k = [job[a] EXCEPT !.at = "reprice"]
      BY <1>2, <1>12, <2>1
    <3>2. k.slice = s /\ k.order = job[a].order /\ k.tries = job[a].tries
      BY <1>2, <3>1 DEF Jobs
    <3> HIDE DEF k
    <3>3. Counted(b, k)
      BY <1>4, <3>2 DEF Counted
    <3>4. QED
      BY <1>12, <3>3 DEF k
  <2>2. CASE Verdict(a, job[a].order) # "invalid price"
    <3>1. k = Failed(job[a])
      BY <1>2, <1>12, <2>2
    <3>2. QED
      BY <1>2, <1>4, <1>12, <3>1, FailedStops, StopsCounting
  <2>3. QED
    BY <2>1, <2>2
<1>13. QED
  BY <1>8, <1>10, <1>11, <1>12 DEF Send

\* What else an account does adds no order, but for a fallback that may do so.
LEMMA RestCounts ==
    ASSUME CountInv, NEW a \in Accounts, Start(a) \/ Reprice(a) \/ Undo(a)
    PROVE  Counted(book'[a], job'[a])
<1> DEFINE b == book[a]
           k == job'[a]
<1>1. /\ IInv /\ Counted(b, job[a]) /\ Types /\ job \in [Accounts -> Jobs] /\ b \in Seq(Orders)
      /\ job[a] \in Jobs /\ InOrder(b, job[a]) /\ book \in [Accounts -> Seq(Orders)]
  BY DEF CountInv, IInv, Types
<1>2. Attempts \in Nat \ {0} /\ job[a].tries \in 0..(Attempts - 1) /\ \A o : Before(o) \in Nat
  BY <1>1, ConstantsOK DEF ConstantsOK, Jobs, Before
<1>3. \A i \in Slices : Cardinality(Of(b, i)) <= 2 * Attempts - 1
  BY <1>1 DEF Counted
<1>4. CASE Start(a)
  <2>1. b = <<>> /\ book' = book /\ k \in Jobs
    BY <1>1, <1>4, StartSteps DEF Start, InOrder, Step
  <2>2. k.tries \in Nat /\ Before(k.order) \in Nat
    BY <1>2, <2>1 DEF Jobs
  <2>3. Cardinality(Of(b, k.slice)) = 0 /\ DOMAIN b = {}
    BY <1>1, <2>1, CountIs
  <2> HIDE DEF b, k
  <2>4. Counted(b, k)
    BY <1>3, <2>2, <2>3 DEF Counted
  <2>5. QED
    BY <2>1, <2>4 DEF b, k
<1>5. CASE Reprice(a)
  <2>1. /\ job[a].at = "reprice" /\ Sending(job[a]) /\ book' = book /\ job[a].order.kind = "limit"
    BY <1>1, <1>5 DEF Reprice, Sending, InOrder
  <2>2. /\ GoodOrder(job[a].order) /\ \A n \in DOMAIN b : b[n].slice <= job[a].slice
        /\ Cardinality(Of(b, job[a].slice)) <= job[a].tries + Before(job[a].order)
        /\ Cardinality(Of(b, job[a].slice)) \in Nat
    BY <1>1, <2>1, CountIs, WhileSending DEF Counted
  <2>3. ~plan.market /\ Before(job[a].order) = 0
    BY <2>1, <2>2 DEF GoodOrder, Before
  <2>4. PICK cur \in {price} \cup (IF "noprice" \in Faults THEN {plan.cur} ELSE {}) :
           job' = [job EXCEPT ![a] =
                      IF Room(cur, job[a].order.sl)
                      THEN [@ EXCEPT !.at = "send", !.tries = 0,
                                     !.order = Order(job[a].order.slice, "market",
                                                     StopsFloor(cur, job[a].order.sl, job[a].order.tp))]
                      ELSE Failed(@)]
    BY <1>5 DEF Reprice
  <2> DEFINE m == Order(job[a].order.slice, "market", StopsFloor(cur, job[a].order.sl, job[a].order.tp))
  <2>5. CASE Room(cur, job[a].order.sl)
    <3>1. m.kind = "market"
      BY DEF Order
    <3> HIDE DEF m
    <3>2. k = [job[a] EXCEPT !.at = "send", !.tries = 0, !.order = m]
      BY <1>1, <2>4, <2>5 DEF m
    <3>3. k.slice = job[a].slice /\ k.tries = 0 /\ k.order = m
      BY <1>1, <3>2 DEF Jobs
    <3>4. Before(m) = Attempts - 1
      BY <2>3, <3>1 DEF Before
    <3> HIDE DEF k, b
    <3>5. Cardinality(Of(b, k.slice)) <= k.tries + Before(k.order)
      BY <1>2, <2>2, <2>3, <3>3, <3>4
    <3>6. Counted(b, k)
      BY <1>3, <2>2, <3>3, <3>5 DEF Counted
    <3>7. QED
      BY <2>1, <3>6 DEF k, b
  <2>6. CASE ~Room(cur, job[a].order.sl)
    <3>1. k = Failed(job[a])
      BY <1>1, <2>4, <2>6
    <3>2. QED
      BY <1>1, <1>3, <2>1, <3>1, FailedStops, StopsCounting
  <2>7. QED
    BY <2>5, <2>6
<1>6. CASE Undo(a)
  <2> DEFINE j == [job[a] EXCEPT !.tickets = Tail(@)]
             h == Head(job[a].tickets)
  <2>1. /\ job[a].at = "undo" /\ (k = Failed(j) \/ k.at = job[a].at)
        /\ book' = [book EXCEPT ![a][h] = Undone(@)] \/ book' = book
    BY <1>1, <1>6, UndoIs
  <2>2. ~Sending(k)
    BY <1>1, <2>1 DEF Failed, Sending, Jobs
  <2>3. DOMAIN book'[a] = DOMAIN b /\ \A n \in DOMAIN b : book'[a][n].slice = b[n].slice
    <3>1. CASE book' = [book EXCEPT ![a][h] = Undone(@)]
      <4>1. book'[a] = [b EXCEPT ![h] = Undone(b[h])]
        BY <1>1, <3>1
      <4>2. ASSUME NEW n \in DOMAIN b PROVE book'[a][n].slice = b[n].slice
        <5>1. b[n] \in Orders
          BY <1>1, ElementOfSeq, LenProperties
        <5>2. Undone(b[n]).slice = b[n].slice
          BY <5>1 DEF Undone, Orders
        <5>3. QED
          BY <4>1, <5>2
      <4>3. QED
        BY <4>1, <4>2
    <3>2. CASE book' = book
      BY <3>2
    <3>3. QED
      BY <2>1, <3>1, <3>2
  <2>4. \A i \in Slices : Cardinality(Of(book'[a], i)) <= 2 * Attempts - 1
    BY <1>3, <2>3, CountSame
  <2>5. QED
    BY <2>2, <2>4, StopsCounting
<1>7. QED
  BY <1>4, <1>5, <1>6

\* A fill changes no count.
LEMMA FillCounts ==
    ASSUME CountInv, NEW a \in Accounts, NEW n \in DOMAIN book[a], Fill(a, n)
    PROVE  Counted(book'[a], job'[a])
<1>1. /\ Counted(book[a], job[a]) /\ book[a] \in Seq(Orders) /\ book \in [Accounts -> Seq(Orders)]
      /\ job' = job
  BY DEF CountInv, IInv, Types, Fill
<1>2. book'[a] = [book[a] EXCEPT ![n] = [book[a][n] EXCEPT !.state = "live"]]
  BY <1>1 DEF Fill
<1>3. DOMAIN book'[a] = DOMAIN book[a]
  BY <1>2
<1>4. ASSUME NEW m \in DOMAIN book[a] PROVE book'[a][m].slice = book[a][m].slice
  <2>1. book[a][m] \in Orders
    BY <1>1, ElementOfSeq, LenProperties
  <2>2. [book[a][m] EXCEPT !.state = "live"].slice = book[a][m].slice
    BY <2>1 DEF Orders
  <2>3. QED
    BY <1>2, <2>2
<1>5. \A i : Of(book'[a], i) = Of(book[a], i)
  BY <1>3, <1>4, CountSame
<1>6. QED
  BY <1>1, <1>3, <1>4, <1>5 DEF Counted

\* The other accounts are left alone.
LEMMA CountsElsewhere ==
    ASSUME CountInv, NEW a \in Accounts, NEW c, Step(a, c, job'[a]), Counted(book'[a], job'[a])
    PROVE  CountInv'
<1>1. IInv' /\ plan' = plan /\ Slices' = Slices
  BY StepKeeps DEF CountInv, Step, Slices
<1>2. ASSUME NEW x \in Accounts PROVE Counted(book'[x], job'[x])
  <2>1. CASE x = a
    BY <2>1
  <2>2. CASE x # a
    <3>1. book'[x] = book[x] /\ job'[x] = job[x]
      BY <2>2 DEF Step, CountInv, IInv, Types
    <3>2. QED
      BY <3>1 DEF CountInv
  <2>3. QED
    BY <2>1, <2>2
<1>3. ASSUME NEW x \in Accounts PROVE Counted(book[x], job[x])'
  BY <1>1, <1>2 DEF Counted, Sending, Before, Of
<1>4. QED
  BY <1>1, <1>3 DEF CountInv

\* The counts hold in all states a submission reaches.
LEMMA CountInductive == Spec => []CountInv
<1>1. Init => CountInv
  <2> SUFFICES ASSUME Init PROVE CountInv
    OBVIOUS
  <2>1. IInv
    BY InitHolds
  <2>2. ASSUME NEW a \in Accounts PROVE Counted(book[a], job[a])
    <3>1. book[a] = <<>> /\ job[a].at = "waiting" /\ book[a] \in Seq(Orders) /\ DOMAIN book[a] = {}
      BY DEF Init, Idle
    <3>2. \A i \in Slices : Cardinality(Of(book[a], i)) = 0
      BY <3>1, CountIs
    <3>3. 0 <= 2 * Attempts - 1
      BY ConstantsOK DEF ConstantsOK
    <3>4. QED
      BY <3>1, <3>2, <3>3 DEF Counted, Sending
  <2>3. QED
    BY <2>1, <2>2 DEF CountInv
<1>2. CountInv /\ [Next]_vars => CountInv'
  <2>1. CASE UNCHANGED vars
    BY <2>1, NextHolds DEF vars, CountInv, Counted, Sending, Before, Of, Slices
  <2>2. ASSUME CountInv, PriceMoves PROVE CountInv'
    <3>1. IInv' /\ UNCHANGED <<sig, plan, book, job, unsure, loose>>
      BY <2>2, PriceMovesKeeps DEF CountInv
    <3>2. QED
      BY <2>2, <3>1 DEF CountInv, Counted, Sending, Before, Of, Slices
  <2>3. ASSUME CountInv, BuildPlan PROVE CountInv'
    <3>1. IInv' /\ UNCHANGED <<sig, book>> /\ ~plan.built
      BY <2>3, BuildPlanKeeps DEF CountInv
    <3>2. ASSUME NEW a \in Accounts PROVE Counted(book[a], job[a])'
      <4>1. job'[a] = [Idle EXCEPT !.at = "start"]
        BY <2>3 DEF BuildPlan
      <4>2. job'[a].at = "start"
        BY <4>1 DEF Idle
      <4>3. QED
        BY <2>3, <3>1, <4>2 DEF CountInv, Counted, Sending, Of, Slices
    <3>3. QED
      BY <3>1, <3>2 DEF CountInv
  <2>4. ASSUME CountInv, NEW a \in Accounts, Submit(a) PROVE CountInv'
    <3>1. \E c : Step(a, c, job'[a])
      BY <2>4, StartSteps, SendSteps, RepriceSteps, UndoSteps DEF Submit, CountInv
    <3>2. Counted(book'[a], job'[a])
      BY <2>4, SendCounts, RestCounts DEF Submit
    <3>3. QED
      BY <2>4, <3>1, <3>2, CountsElsewhere
  <2>5. ASSUME CountInv, NEW a \in Accounts, NEW n \in DOMAIN book[a], Fill(a, n) PROVE CountInv'
    <3>1. job' = job /\ Step(a, book'[a], job[a])
      BY <2>5, FillSteps DEF Fill, CountInv
    <3>2. Counted(book'[a], job'[a])
      BY <2>5, FillCounts
    <3>3. QED
      BY <2>5, <3>1, <3>2, CountsElsewhere
  <2>6. QED
    BY <2>1, <2>2, <2>3, <2>4, <2>5 DEF Next
<1>3. QED
  BY <1>1, <1>2, PTL DEF Spec

\* However often answers are lost, a slice reaches the broker at most twice the
\* attempts of one request, less one: the attempt of the limit that was refused
\* and led to the market.
THEOREM BoundedExposure == Spec => []ExposureBounded
<1>1. ASSUME CountInv PROVE ExposureBounded
  BY <1>1 DEF CountInv, Counted, Of, ExposureBounded
<1>2. QED
  BY <1>1, CountInductive, PTL
=============================================================================
