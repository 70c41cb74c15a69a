---------------------------- MODULE Basket_proofs -----------------------------
(***************************************************************************)
(* Theorems about module Basket, for every cart and any number of clients. *)
(*                                                                         *)
(* A version alone does not tell what a line was: it starts at 1 whenever  *)
(* a product enters the cart.  Together with the rec_id, which is given    *)
(* once, it does.  LinesOK is what the table keeps, LineStep what any step *)
(* does to a row under one rec_id, and JobStep what it does to a client    *)
(* that was shown a line; SeenOK, that no row is older than what a client  *)
(* saw of it, follows from the three.                                      *)
(***************************************************************************)
EXTENDS Basket, SumLemmas

LineRow == [rec : Nat, qty : Nat, version : Nat]

\* The conjuncts of TypeOK about ecs_cart.
LinesOK ==
    /\ line \in [Goods -> LineRow]
    /\ nextRec \in Nat \ {0}
    /\ \A g \in Goods : line[g] = NoLine \/ /\ line[g].rec \in 1..(nextRec - 1)
                                             /\ line[g].version > 0
    /\ \A g, h \in InCart : line[g].rec = line[h].rec => g = h

JobRow(q) ==
    [op : {"idle", "shown", "quoted", "ordering"}, goods : Goods \union {Null},
     seen : LineRow, asked : Payment \union {0}, pay : Payment \union {0}, quote : {q}]

JobsOK ==
    /\ job = [c \in Client |-> job[c]]
    /\ \A c \in Client : job[c] \in JobRow(job[c].quote)

\* What a client was shown is a state its row had, and versions only grow.
SeenOK ==
    \A c \in Client : job[c].op = "shown" =>
        LET seen == job[c].seen
        IN  /\ seen.rec \in 1..(nextRec - 1)
            /\ \A g \in Goods : line[g].rec = seen.rec =>
                  /\ g = job[c].goods
                  /\ seen.version <= line[g].version
                  /\ seen.version = line[g].version => line[g].qty = seen.qty

IInv == TypeOK /\ JobsOK /\ SeenOK

\* A row whose rec_id was given before is the same row, unchanged or with a
\* higher version.
LineStep ==
    /\ nextRec' >= nextRec
    /\ \A g \in Goods : line'[g].rec \in 1..(nextRec - 1) =>
          /\ line'[g].rec = line[g].rec
          /\ line'[g] = line[g] \/ line'[g].version > line[g].version

\* A client that was shown a line still knows the same.
JobStep ==
    \A c \in Client : job'[c].op = "shown" =>
        job[c].op = "shown" /\ job'[c].goods = job[c].goods /\ job'[c].seen = job[c].seen
-----------------------------------------------------------------------------
LEMMA TypeHasLines == TypeOK => LinesOK
BY DEF TypeOK, LinesOK, LineRow

LEMMA BumpedRow ==
    ASSUME NEW l \in LineRow, NEW q \in Nat
    PROVE  /\ Bumped(l, q) \in LineRow
           /\ Bumped(l, q).rec = l.rec /\ Bumped(l, q).version = l.version + 1
           /\ Bumped(l, q).qty = q
BY DEF LineRow, Bumped

\* Inserting or bumping the rows of f keeps the table in order; the rows of f and
\* those of `rest` are in it afterwards.
LEMMA PutLines ==
    ASSUME LinesOK, NEW f, DOMAIN f \subseteq Goods, \A g \in DOMAIN f : f[g] \in Nat,
           NEW rest, rest = line \/ rest = NoLines, Put(f, rest)
    PROVE  /\ LinesOK' /\ LineStep
           /\ \A g \in Goods : g \in DOMAIN f \/ rest[g].rec # 0 => g \in InCart'
<1> DEFINE new == {g \in DOMAIN f : rest[g] = NoLine}
           n == Cardinality(new)
<1>1. n \in Nat
  BY FS_Subset, FS_CardinalityType, BasketAssumption
<1>2. NoLine \in LineRow
  BY DEF NoLine, LineRow
<1>3. /\ rest \in [Goods -> LineRow]
      /\ \A g \in Goods : rest[g] = line[g] \/ rest[g] = NoLine
      /\ \A g \in Goods : rest[g] = NoLine \/ /\ rest[g].rec \in 1..(nextRec - 1)
                                              /\ rest[g].version > 0
      /\ \A g, h \in Goods : rest[g].rec # 0 /\ rest[g].rec = rest[h].rec => g = h
  BY <1>2 DEF LinesOK, NoLines, NoLine, InCart
<1>4. PICK ids \in [new -> nextRec..(nextRec + n - 1)] :
          /\ \A g, h \in new : ids[g] = ids[h] => g = h
          /\ nextRec' = nextRec + n
          /\ line' = [g \in Goods |->
                IF g \in new THEN [rec |-> ids[g], qty |-> f[g], version |-> 1]
                ELSE IF g \in DOMAIN f THEN Bumped(rest[g], f[g]) ELSE rest[g]]
  BY DEF Put, RecIds
<1>5. nextRec \in Nat /\ nextRec > 0
  BY DEF LinesOK
<1>6. nextRec' \in Nat /\ nextRec' = nextRec + n
  BY <1>1, <1>4, <1>5
<1>7. new \subseteq DOMAIN f /\ \A g \in DOMAIN f : g \in new <=> rest[g] = NoLine
  OBVIOUS
<1> HIDE DEF new, n
<1>8. ASSUME NEW g \in new
      PROVE  /\ line'[g] \in LineRow /\ line'[g].rec = ids[g] /\ line'[g].version = 1
             /\ ids[g] \in Nat /\ nextRec <= ids[g] /\ ids[g] < nextRec'
  <2>1. line'[g] = [rec |-> ids[g], qty |-> f[g], version |-> 1]
    BY <1>4, <1>7
  <2>2. ids[g] \in nextRec..(nextRec + n - 1)
    BY <1>4
  <2>3. ids[g] \in Nat /\ nextRec <= ids[g] /\ ids[g] < nextRec'
    BY <2>2, <1>1, <1>5, <1>6
  <2> QED
    BY <2>1, <2>3, <1>7 DEF LineRow
<1>9. ASSUME NEW g \in DOMAIN f, g \notin new
      PROVE  /\ line'[g] \in LineRow /\ line'[g].rec = rest[g].rec
             /\ line'[g].version = rest[g].version + 1
             /\ rest[g] = line[g] /\ rest[g] # NoLine
  <2>1. rest[g] # NoLine /\ rest[g] \in LineRow /\ rest[g] = line[g]
    BY <1>3, <1>7, <1>9
  <2>2. line'[g] = Bumped(rest[g], f[g])
    BY <1>4, <1>9
  <2> QED
    BY <2>1, <2>2, BumpedRow
<1>10. ASSUME NEW g \in Goods, g \notin DOMAIN f
       PROVE  line'[g] = rest[g]
  BY <1>4, <1>7, <1>10
<1>11. \A g \in Goods : /\ line'[g] \in LineRow
                        /\ g \in new \/ line'[g].rec = rest[g].rec
  BY <1>3, <1>8, <1>9, <1>10
<1>12. \A g \in Goods : line'[g] = NoLine \/ /\ line'[g].rec \in 1..(nextRec' - 1)
                                             /\ line'[g].version > 0
  <2> TAKE g \in Goods
  <2>1. CASE g \in new
    BY <2>1, <1>5, <1>6, <1>8
  <2>2. CASE g \in DOMAIN f /\ g \notin new
    <3>1. rest[g].rec \in 1..(nextRec - 1) /\ rest[g].version > 0 /\ rest[g] \in LineRow
      BY <2>2, <1>3, <1>9
    <3>2. line'[g].rec = rest[g].rec /\ line'[g].version = rest[g].version + 1
      BY <2>2, <1>9
    <3> QED
      BY <3>1, <3>2, <1>1, <1>5, <1>6 DEF LineRow
  <2>3. CASE g \notin DOMAIN f
    BY <2>3, <1>1, <1>3, <1>5, <1>6, <1>10
  <2> QED
    BY <2>1, <2>2, <2>3
<1>13. ASSUME NEW g \in Goods, NEW h \in Goods, line'[g].rec # 0, line'[g].rec = line'[h].rec
       PROVE  g = h
  <2>1. \A x \in Goods : rest[x].rec < nextRec
    BY <1>3, <1>5 DEF NoLine
  <2>2. CASE g \in new /\ h \in new
    BY <2>2, <1>4, <1>8, <1>13
  <2>3. CASE g \notin new /\ h \notin new
    BY <2>3, <1>3, <1>11, <1>13
  <2>4. CASE g \in new /\ h \notin new
    BY <2>1, <2>4, <1>5, <1>8, <1>11, <1>13
  <2>5. CASE g \notin new /\ h \in new
    BY <2>1, <2>5, <1>5, <1>8, <1>11, <1>13
  <2> QED
    BY <2>2, <2>3, <2>4, <2>5
<1>14. LineStep
  <2>1. ASSUME NEW g \in Goods, line'[g].rec \in 1..(nextRec - 1)
        PROVE  /\ line'[g].rec = line[g].rec
               /\ line'[g] = line[g] \/ line'[g].version > line[g].version
    <3>1. g \notin new
      BY <2>1, <1>5, <1>8
    <3>2. CASE g \in DOMAIN f
      <4>1. line[g].version \in Nat /\ line'[g].version = line[g].version + 1
        BY <3>1, <3>2, <1>9 DEF LinesOK, LineRow
      <4> QED
        BY <3>1, <3>2, <4>1, <1>9
    <3>3. CASE g \notin DOMAIN f
      BY <2>1, <3>3, <1>3, <1>10 DEF NoLine
    <3> QED
      BY <3>2, <3>3
  <2> QED
    BY <2>1, <1>1, <1>5, <1>6 DEF LineStep
<1>15. ASSUME NEW g \in Goods, g \in DOMAIN f \/ rest[g].rec # 0
       PROVE  line'[g].rec # 0
  <2>1. CASE g \in new
    BY <2>1, <1>5, <1>8
  <2>2. CASE g \notin new /\ g \in DOMAIN f
    BY <2>2, <1>3, <1>9
  <2>3. CASE g \notin DOMAIN f
    BY <2>3, <1>10, <1>15
  <2> QED
    BY <2>1, <2>2, <2>3
<1>16. line' \in [Goods -> LineRow]
  BY <1>4, <1>11
<1> QED
  BY <1>5, <1>6, <1>1, <1>12, <1>13, <1>14, <1>15, <1>16 DEF LinesOK, InCart
-----------------------------------------------------------------------------
\* The other conjuncts of TypeOK.
RowsOK ==
    /\ price \in [Goods -> PriceRow]
    /\ stock \in [Goods -> 0..MaxStock]
    /\ spec \subseteq InCart \intersect SkuGoods
    /\ sel \in [pay : Payment \union {0}, pack : Packs \union {Null}]
    /\ DOMAIN order.lines \subseteq Goods
    /\ \A g \in DOMAIN order.lines : order.lines[g] \in Nat

LEMMA TypeParts == TypeOK <=> LinesOK /\ RowsOK
BY DEF TypeOK, LinesOK, RowsOK, LineRow

\* A write to the rows leaves a client at most the line it was shown.
LEMMA JobsAfterWrite ==
    ASSUME JobsOK, SomebodyWrites \/ \E c \in Client : Writes(c)
    PROVE  JobsOK' /\ JobStep
<1>1. Idle \in JobRow(Null) /\ Idle.op # "shown" /\ Idle.quote = Null
  BY DEF Idle, JobRow, NoLine, LineRow
<1>2. ASSUME NEW c \in Client
      PROVE  LET j == Overtaken(job[c])
             IN  /\ j \in JobRow(j.quote)
                 /\ j.op = "shown" => /\ job[c].op = "shown"
                                      /\ j.goods = job[c].goods /\ j.seen = job[c].seen
  <2>1. job[c] \in JobRow(job[c].quote)
    BY DEF JobsOK
  <2>2. [job[c] EXCEPT !.quote = Null] \in JobRow(Null)
    BY <2>1 DEF JobRow
  <2>3. LET j == [job[c] EXCEPT !.quote = Null]
        IN  j.op = job[c].op /\ j.goods = job[c].goods /\ j.seen = job[c].seen
            /\ j.quote = Null
    BY <2>1 DEF JobRow
  <2> QED
    BY <1>1, <2>2, <2>3 DEF Overtaken
<1>3. \A c \in Client : job'[c] = Idle \/ job'[c] = Overtaken(job[c])
  BY DEF SomebodyWrites, Writes
<1>4. job' = [c \in Client |-> job'[c]]
  BY DEF SomebodyWrites, Writes
<1>5. \A c \in Client : job'[c] \in JobRow(job'[c].quote)
  BY <1>1, <1>2, <1>3
<1> QED
  BY <1>1, <1>2, <1>3, <1>4, <1>5 DEF JobsOK, JobStep

LEMMA SeenAfter ==
    ASSUME LinesOK, JobsOK, SeenOK, LinesOK', LineStep, JobStep
    PROVE  SeenOK'
<1> SUFFICES ASSUME NEW c \in Client, job'[c].op = "shown"
             PROVE  LET seen == job'[c].seen
                    IN  /\ seen.rec \in 1..(nextRec' - 1)
                        /\ \A g \in Goods : line'[g].rec = seen.rec =>
                              /\ g = job'[c].goods
                              /\ seen.version <= line'[g].version
                              /\ seen.version = line'[g].version => line'[g].qty = seen.qty
  BY DEF SeenOK
<1> DEFINE seen == job[c].seen
<1>1. job[c].op = "shown" /\ job'[c].goods = job[c].goods /\ job'[c].seen = seen
  BY DEF JobStep
<1>2. nextRec \in Nat /\ nextRec' \in Nat /\ nextRec <= nextRec' /\ seen.rec \in 1..(nextRec - 1)
  BY <1>1 DEF SeenOK, LinesOK, LineStep
<1>3. ASSUME NEW g \in Goods, line'[g].rec = seen.rec
      PROVE  /\ g = job[c].goods
             /\ seen.version <= line'[g].version
             /\ seen.version = line'[g].version => line'[g].qty = seen.qty
  <2>1. /\ line'[g].rec = line[g].rec
        /\ line'[g] = line[g] \/ line'[g].version > line[g].version
    BY <1>2, <1>3 DEF LineStep
  <2>2. /\ g = job[c].goods
        /\ seen.version <= line[g].version
        /\ seen.version = line[g].version => line[g].qty = seen.qty
    BY <1>1, <1>3, <2>1 DEF SeenOK
  <2>3. line[g].version \in Nat /\ line'[g].version \in Nat
    BY DEF LinesOK, LineRow
  <2>4. CASE line'[g] = line[g]
    BY <2>2, <2>4
  <2>5. CASE line'[g].version > line[g].version
    <3>1. seen.version \in Nat
      BY DEF JobsOK, JobRow, LineRow
    <3> QED
      BY <3>1, <2>2, <2>3, <2>5
  <2> QED
    BY <2>1, <2>4, <2>5
<1> QED
  BY <1>1, <1>2, <1>3
-----------------------------------------------------------------------------
(* One lemma per kind of action: what it keeps.                            *)

StepOK == LinesOK' /\ RowsOK' /\ LineStep

LEMMA KeptLines ==
    ASSUME LinesOK, UNCHANGED <<line, nextRec>>
    PROVE  LinesOK' /\ LineStep /\ InCart' = InCart
BY DEF LinesOK, LineStep, InCart

\* A row that leaves the cart, or all of them, and what is left of the SKU rows.
LEMMA DeletedLine ==
    ASSUME LinesOK, NEW g \in Goods, line' = [line EXCEPT ![g] = NoLine], UNCHANGED nextRec
    PROVE  LinesOK' /\ LineStep /\ InCart' = InCart \ {g}
<1>1. NoLine \in LineRow /\ NoLine.rec = 0
  BY DEF NoLine, LineRow
<1>2. \A h \in Goods : line'[h] = IF h = g THEN NoLine ELSE line[h]
  BY DEF LinesOK
<1>3. line' \in [Goods -> LineRow]
  BY <1>1 DEF LinesOK
<1>4. nextRec \in Nat
  BY DEF LinesOK
<1> QED
  BY <1>1, <1>2, <1>3, <1>4 DEF LinesOK, LineStep, InCart

LEMMA NoLinesStep ==
    ASSUME LinesOK, line' = NoLines, UNCHANGED nextRec
    PROVE  LinesOK' /\ LineStep
<1>1. NoLine \in LineRow /\ NoLine.rec = 0
  BY DEF NoLine, LineRow
<1>2. \A h \in Goods : line'[h] = NoLine
  BY DEF NoLines
<1>3. line' \in [Goods -> LineRow] /\ nextRec \in Nat
  BY <1>1 DEF LinesOK, NoLines
<1> QED
  BY <1>1, <1>2, <1>3 DEF LinesOK, LineStep, InCart

LEMMA CartSteps ==
    ASSUME LinesOK, RowsOK, CartNext
    PROVE  StepOK /\ SomebodyWrites
<1> USE BasketAssumption
<1>1. ASSUME NEW g \in Goods, NEW q \in 1..MaxQty, NEW s \in SUBSET {g}, cart_add(g, q, s)
      PROVE  StepOK /\ SomebodyWrites
  <2> DEFINE f == [h \in {g} |-> line[g].qty + q]
  <2>1. line[g].qty + q \in Nat
    BY DEF LinesOK, LineRow
  <2>2. Put(f, line)
    BY <1>1 DEF cart_add
  <2>3. DOMAIN f = {g} /\ \A h \in DOMAIN f : f[h] \in Nat
    BY <2>1
  <2> HIDE DEF f
  <2>4. /\ LinesOK' /\ LineStep
        /\ \A h \in Goods : h \in {g} \/ line[h].rec # 0 => h \in InCart'
    BY <2>2, <2>3, PutLines
  <2>5. RowsOK'
    BY <1>1, <2>4 DEF RowsOK, cart_add, InCart
  <2> QED
    BY <1>1, <2>4, <2>5 DEF StepOK, cart_add
<1>2. ASSUME NEW g \in Goods, cart_delete(g) PROVE StepOK /\ SomebodyWrites
  <2>1. LinesOK' /\ LineStep /\ InCart' = InCart \ {g}
    BY <1>2, DeletedLine DEF cart_delete
  <2> QED
    BY <1>2, <2>1 DEF StepOK, RowsOK, cart_delete
<1>3. ASSUME NEW f, DOMAIN f \subseteq Goods, ReplaceCart(f) PROVE StepOK /\ SomebodyWrites
  <2>1. \A g \in DOMAIN f : f[g] \in Nat
    BY <1>3 DEF ReplaceCart
  <2>2. LinesOK' /\ LineStep
    BY <1>3, <2>1, PutLines DEF ReplaceCart
  <2> QED
    BY <1>3, <2>2 DEF StepOK, RowsOK, ReplaceCart
<1>4. CASE clear
  <2>1. DOMAIN <<>> = {}
    OBVIOUS
  <2> QED
    BY <1>3, <1>4, <2>1 DEF clear
<1>5. ASSUME NEW g \in Goods, NEW q \in 1..MaxQty, linked_buy(g, q)
      PROVE  StepOK /\ SomebodyWrites
  <2>1. DOMAIN [h \in {g} |-> q] \subseteq Goods
    OBVIOUS
  <2> QED
    BY <1>3, <1>5, <2>1 DEF linked_buy
<1>6. CASE package
  BY <1>3, <1>6 DEF package
<1>7. CASE order_return_to_cart
  <2> DEFINE sold == {g \in DOMAIN order.lines : stock[g] > 0}
             f == [g \in sold |->
                     Lesser(line[g].qty + Lesser(order.lines[g], stock[g]), stock[g])]
  <2>1. Put(f, line)
    BY <1>7 DEF order_return_to_cart
  <2>2. DOMAIN f = sold /\ sold \subseteq Goods
    BY DEF RowsOK
  <2>3. ASSUME NEW g \in sold PROVE f[g] \in Nat
    <3>1. line[g].qty \in Nat /\ order.lines[g] \in Nat /\ stock[g] \in Nat
      BY <2>2 DEF LinesOK, LineRow, RowsOK
    <3> QED
      BY <3>1 DEF Lesser
  <2> HIDE DEF f, sold
  <2>4. /\ LinesOK' /\ LineStep
        /\ \A h \in Goods : line[h].rec # 0 => h \in InCart'
    BY <2>1, <2>2, <2>3, PutLines
  <2>5. RowsOK'
    BY <1>7, <2>4 DEF RowsOK, order_return_to_cart, InCart
  <2> QED
    BY <1>7, <2>4, <2>5 DEF StepOK, order_return_to_cart
<1>8. ASSUME NEW row, select(row) PROVE StepOK /\ SomebodyWrites
  <2>1. row \in [pay : Payment \union {0}, pack : Packs \union {Null}]
    BY <1>8 DEF select, RowsOK
  <2>2. LinesOK' /\ LineStep /\ InCart' = InCart
    BY <1>8, KeptLines DEF select
  <2> QED
    BY <1>8, <2>1, <2>2 DEF StepOK, RowsOK, select
<1> QED
  BY <1>1, <1>2, <1>4, <1>5, <1>6, <1>7, <1>8 DEF CartNext

LEMMA OthersSteps ==
    ASSUME LinesOK, RowsOK, OthersNext
    PROVE  StepOK /\ (SomebodyWrites \/ UNCHANGED job)
<1>1. LinesOK' /\ LineStep /\ InCart' = InCart
  BY KeptLines DEF OthersNext, others, promotion
<1>2. ASSUME NEW g \in Goods, NEW n \in 0..MaxStock, others(g, n)
      PROVE  RowsOK' /\ UNCHANGED job
  BY <1>1, <1>2 DEF RowsOK, others
<1>3. ASSUME NEW g \in Goods, promotion(g)
      PROVE  RowsOK' /\ SomebodyWrites
  <2>1. ASSUME NEW r \in PriceRow PROVE [r EXCEPT !.running = ~r.running] \in PriceRow
    BY DEF PriceRow
  <2>2. price' \in [Goods -> PriceRow]
    BY <1>3, <2>1 DEF promotion, RowsOK
  <2> QED
    BY <1>1, <1>3, <2>2 DEF RowsOK, promotion
<1> QED
  BY <1>1, <1>2, <1>3 DEF OthersNext, StepOK

\* A client's own steps but reading the cart.
LEMMA ClientSteps ==
    ASSUME LinesOK, RowsOK, JobsOK, NEW c \in Client, ClientNext(c),
           ~ \E g \in Goods : cart_list(c, g)
    PROVE  StepOK /\ JobsOK' /\ JobStep
<1>1. /\ job[c] \in JobRow(job[c].quote) /\ Idle \in JobRow(Null)
      /\ Idle.op # "shown" /\ Idle.quote = Null
  BY DEF JobsOK, JobRow, Idle, NoLine, LineRow
<1>2. sel.pay \in Payment \union {0}
  BY DEF RowsOK
<1>3. ASSUME NEW j, job' = [job EXCEPT ![c] = j], j \in JobRow(j.quote), j.op # "shown"
      PROVE  JobsOK' /\ JobStep
  <2>1. \A d \in Client : job'[d] = IF d = c THEN j ELSE job[d]
    BY <1>3 DEF JobsOK
  <2>2. job' = [d \in Client |-> job'[d]]
    BY <1>3 DEF JobsOK
  <2> QED
    BY <1>3, <2>1, <2>2 DEF JobsOK, JobStep
<1>4. ASSUME UNCHANGED <<price, stock, line, nextRec, spec, sel, order>>
      PROVE  StepOK
  BY <1>4, KeptLines DEF StepOK, RowsOK
<1>5. ASSUME NEW q \in 1..MaxQty, cart_update(c, q)
      PROVE  StepOK /\ JobsOK' /\ JobStep
  <2>1. PICK g \in Goods : /\ line[g].rec # 0 /\ line' = [line EXCEPT ![g] = Bumped(@, q)]
                           /\ Writes(c)
                           /\ UNCHANGED <<price, stock, nextRec, spec, sel, order>>
    BY <1>5 DEF cart_update, InCart
  <2>2. line[g] \in LineRow /\ q \in Nat /\ line[g] # NoLine /\ nextRec \in Nat
    BY <2>1, BasketAssumption DEF LinesOK, NoLine
  <2>3. line' \in [Goods -> LineRow] /\ line'[g] = Bumped(line[g], q)
    BY <2>1, <2>2, BumpedRow DEF LinesOK
  <2>4. /\ line'[g].rec = line[g].rec /\ line'[g].version = line[g].version + 1
        /\ line[g].version \in Nat /\ line[g].version > 0
    BY <2>2, <2>3, BumpedRow DEF LinesOK, LineRow
  <2>5. \A h \in Goods : h # g => line'[h] = line[h]
    BY <2>1 DEF LinesOK
  <2>6. InCart' = InCart
    BY <2>4, <2>5 DEF InCart
  <2>7. \A h \in Goods : line'[h].rec = line[h].rec
    BY <2>4, <2>5
  <2>8. LineStep
    BY <2>1, <2>2, <2>4, <2>5, <2>7 DEF LineStep
  <2>9. LinesOK'
    BY <2>1, <2>2, <2>3, <2>4, <2>5, <2>6, <2>7 DEF LinesOK
  <2> QED
    BY <2>1, <2>6, <2>8, <2>9, JobsAfterWrite DEF StepOK, RowsOK
<1>6. ASSUME NEW p \in Payment \union {0}, checkout_quote(c, p)
      PROVE  StepOK /\ JobsOK' /\ JobStep
  <2> DEFINE v == QuoteAmount(Filled(p))
             j == [job[c] EXCEPT !.op = "quoted", !.asked = p, !.quote = v]
  <2>1. job' = [job EXCEPT ![c] = j]
    BY <1>6 DEF checkout_quote
  <2> HIDE DEF v
  <2>2. j \in JobRow(v) /\ j.op = "quoted" /\ j.quote = v
    BY <1>1 DEF JobRow
  <2> HIDE DEF j
  <2>3. JobsOK' /\ JobStep
    BY <1>3, <2>1, <2>2
  <2> QED
    BY <1>4, <1>6, <2>3 DEF checkout_quote
<1>7. ASSUME NEW p \in Payment \union {0}, order_create_begins(c, p)
      PROVE  StepOK /\ JobsOK' /\ JobStep
  <2> DEFINE j == [job[c] EXCEPT !.op = "ordering", !.asked = 0, !.pay = Filled(p)]
  <2>1. job' = [job EXCEPT ![c] = j]
    BY <1>7 DEF order_create_begins
  <2>2. Filled(p) \in Payment \union {0}
    BY <1>2 DEF Filled
  <2>3. j \in JobRow(job[c].quote) /\ j.op = "ordering" /\ j.quote = job[c].quote
    BY <1>1, <2>2 DEF JobRow
  <2> HIDE DEF j
  <2>4. JobsOK' /\ JobStep
    BY <1>3, <2>1, <2>3
  <2> QED
    BY <1>4, <1>7, <2>4 DEF order_create_begins
<1>8. CASE order_create(c)
  <2>1. LinesOK' /\ LineStep
    BY <1>8, NoLinesStep DEF order_create
  <2>2. \A g \in Goods : line[g].qty \in Nat /\ stock[g] \in 0..MaxStock
    BY DEF LinesOK, LineRow, RowsOK
  <2>3. \A g \in Goods : line[g].qty <= stock[g]
    BY <1>8, <2>2 DEF order_create, CartAccepted, Accepted, InCart, LinesOK, NoLine
  <2>4. stock' \in [Goods -> 0..MaxStock]
    BY <1>8, <2>2, <2>3, BasketAssumption DEF order_create
  <2>5. sel' \in [pay : Payment \union {0}, pack : Packs \union {Null}]
    BY <1>8 DEF order_create, EmptySel
  <2>6. order'.lines = [g \in InCart |-> line[g].qty]
    BY <1>8 DEF order_create
  <2>7. /\ DOMAIN order'.lines \subseteq Goods
        /\ \A g \in DOMAIN order'.lines : order'.lines[g] \in Nat
    BY <2>2, <2>6 DEF InCart
  <2>8. price' = price /\ spec' = {} /\ Writes(c)
    BY <1>8 DEF order_create
  <2> QED
    BY <2>1, <2>4, <2>5, <2>7, <2>8, JobsAfterWrite DEF StepOK, RowsOK
<1>9. CASE leave(c)
  BY <1>1, <1>3, <1>4, <1>9 DEF leave
<1> QED
  BY <1>5, <1>6, <1>7, <1>8, <1>9 DEF ClientNext
-----------------------------------------------------------------------------
LEMMA InitInv == Init => IInv
<1> SUFFICES ASSUME Init PROVE IInv
  OBVIOUS
<1> USE BasketAssumption
<1>1. NoLine \in LineRow /\ NoLine.rec = 0 /\ NoLines = [g \in Goods |-> NoLine]
  BY DEF NoLine, NoLines, LineRow
<1>2. LinesOK
  BY <1>1 DEF Init, LinesOK, InCart
<1>3. NoOrder.lines = <<>> /\ DOMAIN <<>> = {}
  BY DEF NoOrder
<1>4. RowsOK
  BY <1>3 DEF Init, RowsOK, EmptySel
<1>5. Idle \in JobRow(Null) /\ Idle.op # "shown" /\ Idle.quote = Null
  BY DEF Idle, JobRow, NoLine, LineRow
<1>6. JobsOK /\ SeenOK
  BY <1>5 DEF Init, JobsOK, SeenOK
<1> QED
  BY <1>2, <1>4, <1>6, TypeParts DEF IInv

LEMMA StepInv == IInv /\ [Next]_vars => IInv'
<1> SUFFICES ASSUME IInv, [Next]_vars PROVE IInv'
  OBVIOUS
<1>1. LinesOK /\ RowsOK /\ JobsOK /\ SeenOK
  BY TypeParts DEF IInv
<1>2. (LinesOK' /\ RowsOK') => TypeOK'
  BY DEF TypeOK, LinesOK, RowsOK, LineRow, InCart
<1>3. UNCHANGED job => JobsOK' /\ JobStep
  BY <1>1 DEF JobsOK, JobStep
<1>4. ASSUME StepOK, JobsOK', JobStep PROVE IInv'
  BY <1>1, <1>2, <1>4, SeenAfter DEF StepOK, IInv
<1>5. CASE CartNext
  BY <1>1, <1>4, <1>5, CartSteps, JobsAfterWrite
<1>6. CASE OthersNext
  BY <1>1, <1>3, <1>4, <1>6, OthersSteps, JobsAfterWrite
<1>7. ASSUME NEW c \in Client, NEW g \in Goods, cart_list(c, g) PROVE IInv'
  <2> DEFINE j == [job[c] EXCEPT !.op = "shown", !.goods = g, !.seen = line[g]]
  <2>1. /\ job' = [job EXCEPT ![c] = j] /\ line[g].rec # 0
        /\ UNCHANGED <<price, stock, line, nextRec, spec, sel, order>>
    BY <1>7 DEF cart_list, InCart
  <2>2. LinesOK' /\ RowsOK'
    BY <1>1, <2>1, KeptLines DEF RowsOK
  <2>3. line[g] \in LineRow /\ line[g].rec \in 1..(nextRec - 1)
    BY <1>1, <2>1 DEF LinesOK, NoLine
  <2>4. job[c] \in JobRow(job[c].quote)
    BY <1>1 DEF JobsOK
  <2>5. /\ j \in JobRow(job[c].quote) /\ j.quote = job[c].quote
        /\ j.goods = g /\ j.seen = line[g]
    BY <2>3, <2>4 DEF JobRow
  <2> HIDE DEF j
  <2>6. \A d \in Client : job'[d] = IF d = c THEN j ELSE job[d]
    BY <1>1, <2>1 DEF JobsOK
  <2>7. JobsOK'
    <3>1. job' = [d \in Client |-> job'[d]]
      BY <1>1, <2>1 DEF JobsOK
    <3> QED
      BY <1>1, <2>5, <2>6, <3>1 DEF JobsOK
  <2>8. \A h \in Goods : line[h].rec = line[g].rec => h = g
    BY <1>1, <2>1 DEF LinesOK, InCart
  <2>9. line[g].version \in Nat
    BY <2>3 DEF LineRow
  <2>10. SeenOK'
    <3> SUFFICES ASSUME NEW d \in Client, job'[d].op = "shown"
                 PROVE  LET seen == job'[d].seen
                        IN  /\ seen.rec \in 1..(nextRec - 1)
                            /\ \A h \in Goods : line[h].rec = seen.rec =>
                                  /\ h = job'[d].goods
                                  /\ seen.version <= line[h].version
                                  /\ seen.version = line[h].version => line[h].qty = seen.qty
      BY <2>1 DEF SeenOK
    <3>1. CASE d = c
      BY <3>1, <2>3, <2>5, <2>6, <2>8, <2>9
    <3>2. CASE d # c
      BY <3>2, <1>1, <2>6 DEF SeenOK
    <3> QED
      BY <3>1, <3>2
  <2> QED
    BY <1>2, <2>2, <2>7, <2>10 DEF IInv
<1>8. ASSUME NEW c \in Client, ClientNext(c) PROVE IInv'
  <2>1. CASE \E g \in Goods : cart_list(c, g)
    BY <1>7, <2>1
  <2>2. CASE ~ \E g \in Goods : cart_list(c, g)
    BY <1>1, <1>4, <1>8, <2>2, ClientSteps
  <2> QED
    BY <2>1, <2>2
<1>9. CASE UNCHANGED vars
  <2>1. StepOK /\ UNCHANGED job
    BY <1>1, <1>9, KeptLines DEF vars, StepOK, RowsOK
  <2> QED
    BY <1>3, <1>4, <2>1
<1> QED
  BY <1>5, <1>6, <1>8, <1>9 DEF Next
-----------------------------------------------------------------------------
(* Prices.                                                                 *)

\* Where no member price is below zero or above the rank-discounted price, comparing
\* both is the same as letting the member price replace the discount.
LEMMA NoDearerMember ==
    ASSUME NEW r \in PriceRow, NEW q,
           \A p \in MemberPrice(r) : p >= 0 /\ p <= RankDiscounted(r)
    PROVE  Min(Candidates(r, q)) = Min(Replacing(r, q))
<1>1. CASE MemberPrice(r) = {}
  <2>1. Candidates(r, q) = Replacing(r, q)
    BY <1>1 DEF Candidates, Replacing
  <2> QED
    BY <2>1
<1>2. CASE MemberPrice(r) # {}
  <2> DEFINE C == Candidates(r, q)
             R == Replacing(r, q)
  <2>1. /\ r.shop \in Nat /\ r.percent \in Int /\ r.promo \in Int
        /\ r.member \subseteq Int /\ r.tiers \subseteq Nat \X Int
    BY DEF PriceRow
  <2>2. RankDiscounted(r) \in Int /\ MemberPrice(r) \subseteq Int
    BY <2>1 DEF RankDiscounted, MemberPrice
  <2>3. VolumePrice(r, q) \subseteq Int /\ PromotePrice(r) \subseteq Nat
    BY <2>1 DEF VolumePrice, Reached, PromotePrice
  <2>4. C = R \union {RankDiscounted(r)}
    BY <1>2 DEF Candidates, Replacing
  <2>5. R \in SUBSET Nat /\ MemberPrice(r) \subseteq R
    BY <1>2, <2>2, <2>3 DEF Replacing
  <2> HIDE DEF C, R
  <2>6. PICK m \in R : \A p \in R : m <= p
    BY <1>2, <2>5, LeastNat
  <2>7. m <= RankDiscounted(r)
    <3>1. PICK p \in MemberPrice(r) : p <= RankDiscounted(r)
      BY <1>2
    <3> QED
      BY <3>1, <2>2, <2>5, <2>6
  <2>8. \A x \in R : (\A p \in R : x <= p) => x = m
    BY <2>5, <2>6
  <2>9. m \in C /\ (\A p \in C : m <= p) /\ \A x \in C : (\A p \in C : x <= p) => x = m
    BY <2>2, <2>4, <2>5, <2>6, <2>7
  <2>10. Min(R) = m
    BY <2>6, <2>8 DEF Min
  <2>11. Min(C) = m
    BY <2>9 DEF Min
  <2> QED
    BY <2>10, <2>11 DEF C, R
<1> QED
  BY <1>1, <1>2

\* Every price row is one the tables can hold.
PricesOK == price \in [Goods -> PriceRow] /\ \A g \in Goods : Keyed(price[g])

\* Only promotions change price rows.
LEMMA PriceSteps ==
    ASSUME Next
    PROVE  UNCHANGED price \/ \E g \in Goods : promotion(g)
<1>1. CASE CartNext
  BY <1>1 DEF CartNext, cart_add, cart_delete, clear, linked_buy, package, ReplaceCart,
              order_return_to_cart, select
<1>2. CASE OthersNext
  BY <1>2 DEF OthersNext, others
<1>3. CASE \E c \in Client : ClientNext(c)
  BY <1>3 DEF ClientNext, cart_list, cart_update, checkout_quote, order_create_begins,
              order_create, leave
<1> QED
  BY <1>1, <1>2, <1>3 DEF Next
-----------------------------------------------------------------------------
(* Quote and order.                                                        *)

\* A quote somebody may still order by is the amount of the cart of the present,
\* for the payment method it was computed with.
QuotesCurrent ==
    \A c \in Client :
        LET j == job[c]
        IN  /\ j.op \in {"idle", "shown"} => j.quote = Null
            /\ j.op = "quoted" => j.quote = QuoteAmount(Filled(j.asked))
            /\ j.op = "ordering" /\ j.quote # Null => j.quote = QuoteAmount(j.pay)

\* Whatever is configured, an accepted unit has a price that is no fraction.
LEMMA UnitIsNat ==
    ASSUME NEW r \in PriceRow, NEW q \in Nat, NEW g, NEW S, Priced(r, q, g \in S)
    PROVE  Unit(r, q, g \in S) \in Nat
<1>1. /\ r.shop \in Nat /\ r.percent \in Int /\ r.promo \in Int /\ r.attr \in Int
      /\ r.member \subseteq Int /\ r.tiers \subseteq Nat \X Int
      /\ r.ranked => r.percent \in 0..100
  BY DEF PriceRow, Priced
<1>2. RankDiscounted(r) \in Nat
  <2>1. r.ranked => r.shop * r.percent \in Nat
    BY <1>1
  <2>2. \A n \in Nat : n \div 100 \in Nat
    OBVIOUS
  <2> QED
    BY <1>1, <2>1, <2>2 DEF RankDiscounted
<1>3. PromotePrice(r) \subseteq Nat
  BY <1>1 DEF PromotePrice
<1>4. MemberPrice(r) \subseteq Int /\ VolumePrice(r, q) \subseteq Int
  BY <1>1 DEF MemberPrice, VolumePrice, Reached
<1> DEFINE C == Candidates(r, q)
<1>5. C \in SUBSET Nat /\ C # {}
  BY <1>2, <1>3, <1>4 DEF Candidates
<1> HIDE DEF C
<1>6. \E x \in C : \A y \in C : x <= y
  BY <1>5, LeastNat
<1>7. Min(C) \in C
  BY <1>6 DEF Min
<1>8. Min(C) \in Int
  <2>1. \A m \in C : m \in Int
    BY <1>5
  <2> QED
    BY <1>7, <2>1
<1>9. Unit(r, q, g \in S) = Min(C) + (IF g \in S THEN r.attr ELSE 0)
  BY DEF Unit, C
<1>10. Unit(r, q, g \in S) \in Int /\ Unit(r, q, g \in S) >= 0
  BY <1>1, <1>8, <1>9 DEF Priced
<1> QED
  BY <1>10

\* What an accepted cart costs.
LEMMA AmountIsInt ==
    ASSUME LinesOK, RowsOK, CartAccepted, NEW p \in Payment
    PROVE  QuoteAmount(p) \in Int
<1> DEFINE f == [g \in InCart |-> Subtotal(g)]
<1>1. IsFiniteSet(InCart)
  BY FS_Subset, BasketAssumption DEF InCart
<1>2. ASSUME NEW g \in InCart PROVE f[g] \in Int
  <2>1. g \in Goods /\ price[g] \in PriceRow /\ line[g].qty \in Nat
    BY DEF InCart, RowsOK, LinesOK, LineRow
  <2>2. Priced(price[g], line[g].qty, g \in spec)
    BY DEF CartAccepted, Accepted
  <2>3. Unit(price[g], line[g].qty, g \in spec) \in Nat
    BY <2>1, <2>2, UnitIsNat
  <2>4. Subtotal(g) \in Int
    BY <2>1, <2>3 DEF Subtotal, LinePrice
  <2> QED
    BY <2>4
<1> HIDE DEF f
<1>3. SumFunctionOnSet(f, InCart) \in Int
  BY <1>1, <1>2, SumInt
<1>4. Extra \in Int /\ PayFee[p] \in Int /\ ShippingFee \in Int
  BY BasketAssumption DEF Extra, RowsOK
<1>5. QuoteAmount(p) = SumFunctionOnSet(f, InCart) + ShippingFee + PayFee[p] + Extra
  BY DEF QuoteAmount, f
<1> QED
  BY <1>3, <1>4, <1>5

\* A write leaves no quote in force.
LEMMA WritesEndQuotes ==
    ASSUME JobsOK, QuotesCurrent, SomebodyWrites \/ \E c \in Client : Writes(c)
    PROVE  QuotesCurrent'
<1>1. Idle.op = "idle" /\ Idle.quote = Null
  BY DEF Idle
<1>2. ASSUME NEW c \in Client
      PROVE  Overtaken(job[c]).op # "quoted" /\ Overtaken(job[c]).quote = Null
  <2>1. job[c] \in JobRow(job[c].quote)
    BY DEF JobsOK
  <2> QED
    BY <1>1, <2>1 DEF Overtaken, JobRow
<1>3. \A c \in Client : job'[c] = Idle \/ job'[c] = Overtaken(job[c])
  BY DEF SomebodyWrites, Writes
<1>4. \A c \in Client : job'[c].op # "quoted" /\ job'[c].quote = Null
  BY <1>1, <1>2, <1>3
<1> QED
  BY <1>4 DEF QuotesCurrent

\* A step that changes neither the cart nor a price.
LEMMA SameAmounts ==
    ASSUME UNCHANGED <<price, line, spec, sel>>
    PROVE  /\ \A p : QuoteAmount(p)' = QuoteAmount(p)
           /\ \A p : Filled(p)' = Filled(p)
BY DEF QuoteAmount, Subtotal, LinePrice, InCart, Extra, Filled

QuoteInv == IInv /\ QuotesCurrent /\ QuoteIsOrder

LEMMA QuoteInit == Init => QuoteInv
<1>1. Init => QuotesCurrent /\ QuoteIsOrder
  BY DEF Init, QuotesCurrent, QuoteIsOrder, Idle, NoOrder
<1> QED
  BY <1>1, InitInv DEF QuoteInv

\* A client's step that writes no row.
LEMMA ReadingKeepsQuotes ==
    ASSUME JobsOK, QuotesCurrent, NEW c \in Client, NEW j, job' = [job EXCEPT ![c] = j],
           UNCHANGED <<price, line, spec, sel>>,
           j.op \in {"idle", "shown"} => j.quote = Null,
           j.op = "quoted" => j.quote = QuoteAmount(Filled(j.asked)),
           j.op = "ordering" /\ j.quote # Null => j.quote = QuoteAmount(j.pay)
    PROVE  QuotesCurrent'
<1>1. \A d \in Client : job'[d] = IF d = c THEN j ELSE job[d]
  BY DEF JobsOK
<1>2. (\A p : QuoteAmount(p)' = QuoteAmount(p)) /\ (\A p : Filled(p)' = Filled(p))
  BY SameAmounts
<1> QED
  BY <1>1, <1>2 DEF QuotesCurrent

LEMMA QuoteStep == QuoteInv /\ [Next]_vars => QuotesCurrent' /\ QuoteIsOrder'
<1> SUFFICES ASSUME QuoteInv, [Next]_vars PROVE QuotesCurrent' /\ QuoteIsOrder'
  OBVIOUS
<1>1. LinesOK /\ RowsOK /\ JobsOK /\ QuotesCurrent /\ QuoteIsOrder
  BY TypeParts DEF QuoteInv, IInv
<1>2. ASSUME SomebodyWrites \/ \E c \in Client : Writes(c), UNCHANGED order
      PROVE  QuotesCurrent' /\ QuoteIsOrder'
  BY <1>1, <1>2, WritesEndQuotes DEF QuoteIsOrder
<1>3. ASSUME UNCHANGED <<price, line, spec, sel, order, job>>
      PROVE  QuotesCurrent' /\ QuoteIsOrder'
  BY <1>1, <1>3, SameAmounts DEF QuotesCurrent, QuoteIsOrder
<1>4. CASE CartNext
  <2>1. SomebodyWrites
    BY <1>1, <1>4, CartSteps
  <2>2. UNCHANGED order
    BY <1>4 DEF CartNext, cart_add, cart_delete, clear, linked_buy, package, ReplaceCart,
                order_return_to_cart, select
  <2> QED
    BY <1>2, <2>1, <2>2
<1>5. CASE OthersNext
  BY <1>2, <1>3, <1>5 DEF OthersNext, others, promotion
<1>6. ASSUME NEW c \in Client, NEW j, job' = [job EXCEPT ![c] = j],
             UNCHANGED <<price, line, spec, sel, order>>,
             j.op \in {"idle", "shown"} => j.quote = Null,
             j.op = "quoted" => j.quote = QuoteAmount(Filled(j.asked)),
             j.op = "ordering" /\ j.quote # Null => j.quote = QuoteAmount(j.pay)
      PROVE  QuotesCurrent' /\ QuoteIsOrder'
  BY <1>1, <1>6, ReadingKeepsQuotes DEF QuoteIsOrder
<1>7. Idle.op = "idle" /\ Idle.quote = Null
  BY DEF Idle
<1>8. ASSUME NEW c \in Client, NEW g \in Goods, cart_list(c, g)
      PROVE  QuotesCurrent' /\ QuoteIsOrder'
  <2> DEFINE j == [job[c] EXCEPT !.op = "shown", !.goods = g, !.seen = line[g]]
  <2>1. /\ job' = [job EXCEPT ![c] = j] /\ job[c] = Idle
        /\ UNCHANGED <<price, line, spec, sel, order>>
    BY <1>8 DEF cart_list
  <2>2. j.op = "shown" /\ j.quote = Null
    BY <2>1 DEF Idle
  <2> HIDE DEF j
  <2> QED
    BY <1>6, <2>1, <2>2
<1>9. ASSUME NEW c \in Client, NEW p \in Payment \union {0}, checkout_quote(c, p)
      PROVE  QuotesCurrent' /\ QuoteIsOrder'
  <2> DEFINE v == QuoteAmount(Filled(p))
             j == [job[c] EXCEPT !.op = "quoted", !.asked = p, !.quote = v]
  <2>1. /\ job' = [job EXCEPT ![c] = j] /\ job[c] = Idle
        /\ UNCHANGED <<price, line, spec, sel, order>>
    BY <1>9 DEF checkout_quote
  <2> HIDE DEF v
  <2>2. j.op = "quoted" /\ j.asked = p /\ j.quote = v
    BY <2>1 DEF Idle
  <2> HIDE DEF j
  <2>3. j.quote = QuoteAmount(Filled(j.asked))
    BY <2>2 DEF v
  <2> QED
    BY <1>6, <2>1, <2>2, <2>3
<1>10. ASSUME NEW c \in Client, NEW p \in Payment \union {0}, order_create_begins(c, p)
       PROVE  QuotesCurrent' /\ QuoteIsOrder'
  <2> DEFINE j == [job[c] EXCEPT !.op = "ordering", !.asked = 0, !.pay = Filled(p)]
  <2>1. /\ job' = [job EXCEPT ![c] = j] /\ job[c].op \in {"idle", "quoted"}
        /\ job[c].op = "quoted" => p = job[c].asked
        /\ UNCHANGED <<price, line, spec, sel, order>>
    BY <1>10 DEF order_create_begins
  <2>2. j.op = "ordering" /\ j.pay = Filled(p) /\ j.quote = job[c].quote
    BY <1>1 DEF JobsOK, JobRow
  <2>3. job[c].quote # Null => job[c].quote = QuoteAmount(Filled(p))
    BY <1>1, <2>1 DEF QuotesCurrent
  <2> HIDE DEF j
  <2>4. j.quote # Null => j.quote = QuoteAmount(j.pay)
    BY <2>2, <2>3
  <2> QED
    BY <1>6, <2>1, <2>2, <2>4
<1>11. ASSUME NEW c \in Client, leave(c) PROVE QuotesCurrent' /\ QuoteIsOrder'
  BY <1>6, <1>7, <1>11 DEF leave
<1>12. ASSUME NEW c \in Client, NEW q \in 1..MaxQty, cart_update(c, q)
       PROVE  QuotesCurrent' /\ QuoteIsOrder'
  BY <1>2, <1>12 DEF cart_update
<1>13. ASSUME NEW c \in Client, order_create(c) PROVE QuotesCurrent' /\ QuoteIsOrder'
  <2>1. /\ job[c].op = "ordering" /\ job[c].pay \in Payment /\ CartAccepted /\ Writes(c)
        /\ order'.over = IF job[c].quote = Null THEN 0
                         ELSE OrderAmount(job[c].pay) - job[c].quote
    BY <1>13 DEF order_create
  <2>2. QuotesCurrent'
    BY <1>1, <2>1, WritesEndQuotes
  <2>3. QuoteAmount(job[c].pay) \in Int
    BY <1>1, <2>1, AmountIsInt
  <2>4. OrderAmount(job[c].pay) = QuoteAmount(job[c].pay)
    BY DEF OrderAmount, QuoteAmount
  <2>5. job[c].quote # Null => job[c].quote = QuoteAmount(job[c].pay)
    BY <1>1, <2>1 DEF QuotesCurrent
  <2>6. order'.over = 0
    BY ONLY <2>1, <2>3, <2>4, <2>5
  <2> QED
    BY <2>2, <2>6 DEF QuoteIsOrder
<1>14. CASE UNCHANGED vars
  BY <1>3, <1>14 DEF vars
<1> QED
  BY <1>4, <1>5, <1>8, <1>9, <1>10, <1>11, <1>12, <1>13, <1>14 DEF Next, ClientNext
-----------------------------------------------------------------------------
(* Theorems.                                                               *)

\* The rows of the cart keep their types, rec_ids are never given twice, and only
\* goods in the cart have a chosen SKU, whatever clients, other users and the shop
\* do.  The bounds of the counters are any numbers.
THEOREM BasketTypes == Spec => []TypeOK
<1>1. IInv => TypeOK
  BY DEF IInv
<1> QED
  BY InitInv, StepInv, <1>1, PTL DEF Spec

\* docs/14_mysql_promotions_legacy_payment_design.md:22 holds of every shop whose member
\* prices are at least zero and at most the rank-discounted ones: the price of a line
\* is then what precedence over the discount would make it.  Only a dearer member price
\* shows that pricing::unit compares both (pricing.rs:123-144).
THEOREM MemberPriceUnlessDearer ==
    ASSUME \A r \in PriceRows : \A p \in MemberPrice(r) : p >= 0 /\ p <= RankDiscounted(r)
    PROVE  Spec => []MemberPriceFirst
<1> DEFINE NoneDearer ==
        \A g \in Goods : \A p \in MemberPrice(price[g]) : p >= 0 /\ p <= RankDiscounted(price[g])
<1>1. Init => PricesOK /\ NoneDearer
  BY BasketAssumption DEF Init, PricesOK
<1>2. PricesOK /\ NoneDearer /\ [Next]_vars => PricesOK' /\ NoneDearer'
  <2> SUFFICES ASSUME PricesOK, NoneDearer, [Next]_vars PROVE PricesOK' /\ NoneDearer'
    OBVIOUS
  <2>1. CASE UNCHANGED price
    BY <2>1 DEF PricesOK
  <2>2. ASSUME NEW g \in Goods, promotion(g) PROVE PricesOK' /\ NoneDearer'
    <3> DEFINE row == [price[g] EXCEPT !.running = ~@]
    <3>1. price[g] \in PriceRow /\ Keyed(price[g])
      BY DEF PricesOK
    <3>2. /\ row \in PriceRow /\ Keyed(row)
          /\ MemberPrice(row) = MemberPrice(price[g])
          /\ RankDiscounted(row) = RankDiscounted(price[g])
      BY <3>1 DEF PriceRow, Keyed, MemberPrice, RankDiscounted
    <3>3. price' = [price EXCEPT ![g] = row]
      BY <2>2 DEF promotion
    <3>4. \A h \in Goods : price'[h] = IF h = g THEN row ELSE price[h]
      BY <3>3 DEF PricesOK
    <3> HIDE DEF row
    <3>5. PricesOK'
      BY <3>2, <3>3 DEF PricesOK
    <3>6. NoneDearer'
      BY <3>2, <3>4
    <3> QED
      BY <3>5, <3>6
  <2>3. CASE UNCHANGED vars
    BY <2>1, <2>3 DEF vars
  <2> QED
    BY <2>1, <2>2, <2>3, PriceSteps
<1>3. PricesOK /\ NoneDearer => MemberPriceFirst
  <2> SUFFICES ASSUME PricesOK, NoneDearer, NEW g \in InCart
               PROVE  LinePrice(g) = Min(Replacing(price[g], line[g].qty))
                          + (IF g \in spec THEN price[g].attr ELSE 0)
    BY DEF MemberPriceFirst
  <2>1. price[g] \in PriceRow /\ g \in Goods
    BY DEF PricesOK, InCart
  <2>2. \A p \in MemberPrice(price[g]) : p >= 0 /\ p <= RankDiscounted(price[g])
    BY <2>1
  <2>3. Min(Candidates(price[g], line[g].qty)) = Min(Replacing(price[g], line[g].qty))
    BY <2>1, <2>2, NoDearerMember
  <2> QED
    BY <2>3 DEF LinePrice, Unit
<1> QED
  BY <1>1, <1>2, <1>3, PTL DEF Spec

\* A conditional UPDATE of cart_update that finds its rec_id and version replaces
\* exactly what its client was shown.
THEOREM VersionsTell == Spec => []VersionTellsLine
<1>1. IInv => VersionTellsLine
  BY DEF IInv, SeenOK, VersionTellsLine, InCart
<1> QED
  BY InitInv, StepInv, <1>1, PTL DEF Spec

\* docs/14_mysql_promotions_legacy_payment_design.md:8: an order charges exactly what
\* its client was quoted unless cart, selection or a price changed in between,
\* whatever prices and fees are configured and however requests overlap.
THEOREM QuotesAreCharged == Spec => []QuoteIsOrder
<1>1. QuoteInv /\ [Next]_vars => QuoteInv'
  BY StepInv, QuoteStep DEF QuoteInv
<1>2. QuoteInv => QuoteIsOrder
  BY DEF QuoteInv
<1> QED
  BY QuoteInit, <1>1, <1>2, PTL DEF Spec
=============================================================================
