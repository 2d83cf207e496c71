---------------------------- MODULE ZlLogProofs ----------------------------
(***************************************************************************)
(* For any number of handlers, any lane, partition, ring and plan: what    *)
(* the drain of zllog.c takes out of the lane is what the handlers put in, *)
(* and what the log wrote is on the partition, whatever failed and         *)
(* wherever the power went.                                                *)
(***************************************************************************)
EXTENDS ZlLog, Integers, SequenceTheorems, TLAPS

\* The lane.
Holds(i) == isr[i].pc \in {"first", "second", "publish"}
Busy == drain.pc \in {"clear", "advance"}
Mine(i) == [by |-> i, at |-> isr[i].at]

\* The indexes reserved and not drained fit in the lane.
Window ==
    /\ rd <= wr /\ wr <= rd + LaneSize
    /\ \A i \in Isr : isr[i].pc = "swap" => isr[i].at < rd + LaneSize

\* A handler that fills has an index of its own in the window, and what it has
\* written is in the cell, which says that it is not valid.
Filling ==
    /\ \A i \in Isr : Holds(i) =>
        /\ rd <= isr[i].at /\ isr[i].at < wr
        /\ cell[Cell(isr[i].at)].valid = 0
        /\ isr[i].pc \in {"second", "publish"} => cell[Cell(isr[i].at)].a = Mine(i)
        /\ isr[i].pc = "publish" => cell[Cell(isr[i].at)].b = Mine(i)
    /\ \A i, j \in Isr : Holds(i) /\ Holds(j) /\ i # j => isr[i].at # isr[j].at

Whole(c, n) == \E i \in Isr : c.a = [by |-> i, at |-> n] /\ c.b = [by |-> i, at |-> n]

\* A valid cell is whole, of an index in the window that nobody fills.
Published ==
    \A c \in 0..LaneSize - 1 : cell[c].valid # 0 =>
        LET n == cell[c].valid - 1 IN
        /\ rd <= n /\ n < wr /\ Cell(n) = c
        /\ Whole(cell[c], n)

\* The drain works on the cell at rd and records it before it moves on.
Draining ==
    /\ drain.pc # "idle" => rd <= drain.end /\ drain.end <= wr
    /\ Busy => rd < drain.end /\ \A i \in Isr : Holds(i) => isr[i].at # rd
    /\ drain.pc = "clear" => cell[Cell(rd)].valid = rd + 1
    /\ drain.pc = "advance" => cell[Cell(rd)].valid = 0
    /\ drained \in Seq((Half \cup {<<>>}) \X (Half \cup {<<>>}))
    /\ Len(drained) = IF Busy THEN rd + 1 ELSE rd

IInv == LaneTypeOK /\ Window /\ Filling /\ Published /\ Draining /\ LaneExact

\* Two indexes less than the lane's size apart never share a cell.
LEMMA CellsDiffer ==
    ASSUME NEW x \in Nat, NEW y \in Nat, NEW L \in Nat \ {0},
           x <= y, y < x + L, x % L = y % L
    PROVE  x = y
<1> DEFINE p == x \div L
           q == y \div L
<1>1. x = L * p + (x % L) /\ y = L * q + (y % L) /\ p \in Int /\ q \in Int
  OBVIOUS
<1> HIDE DEF p, q
<1>2. y - x = L * (q - p) /\ q - p \in Int
  BY <1>1
<1>3. 0 <= L * (q - p) /\ L * (q - p) < L
  BY <1>2
<1>4. q - p < 1 /\ q - p >= 0
  BY <1>2, <1>3
<1> QED  BY <1>2, <1>4

\* zllog.c:332: the indexes in the window have cells of their own.
LEMMA OwnCells ==
    ASSUME LaneTypeOK, Window,
           NEW x \in Nat, NEW y \in Nat, Cell(x) = Cell(y),
           rd <= x, x < wr, rd <= y, y < wr
    PROVE  x = y
<1>1. x < y + LaneSize /\ y < x + LaneSize /\ LaneSize \in Nat \ {0}
  BY LaneAssumption DEF LaneTypeOK, Window
<1>2. CASE x <= y  BY <1>1, <1>2, CellsDiffer DEF Cell
<1>3. CASE y <= x  BY <1>1, <1>3, CellsDiffer DEF Cell
<1> QED  BY <1>2, <1>3

LEMMA CellInLane ==
    ASSUME NEW x \in Nat
    PROVE  Cell(x) \in 0..LaneSize - 1
BY LaneAssumption DEF Cell

LEMMA InvInit == LaneInit => IInv
<1> SUFFICES ASSUME LaneInit PROVE IInv  OBVIOUS
<1>1. LaneTypeOK
  BY LaneAssumption DEF LaneInit, LaneTypeOK, BlankCell, Handler, NoDrain
<1>2. Window /\ Filling /\ Published
  BY LaneAssumption DEF LaneInit, Window, Filling, Published, Holds, BlankCell
<1>3. Draining /\ LaneExact
  BY DEF LaneInit, Draining, LaneExact, Busy, NoDrain
<1> QED  BY <1>1, <1>2, <1>3 DEF IInv

LEMMA ResetKeeps == LaneReset => IInv'
<1> SUFFICES ASSUME LaneReset PROVE IInv'  OBVIOUS
<1>1. LaneTypeOK'
  BY LaneAssumption DEF LaneReset, LaneTypeOK, BlankCell, Handler, NoDrain
<1>2. Window' /\ Filling' /\ Published'
  BY LaneAssumption DEF LaneReset, Window, Filling, Published, Holds, BlankCell
<1>3. Draining' /\ LaneExact'
  BY DEF LaneReset, Draining, LaneExact, Busy, NoDrain
<1> QED  BY <1>1, <1>2, <1>3 DEF IInv
\* Before it holds an index a handler touches nothing that others see, except
\* irq_write, which makes the index its own.
LEMMA ReservingKeeps ==
    ASSUME IInv, NEW i \in Isr, LoadWrite(i) \/ LoadRead(i) \/ Reserve(i)
    PROVE  IInv'
<1> USE DEF IInv
<1>1. /\ isr[i].pc \in {"idle", "read", "swap"} /\ isr[i].at \in 0..MaxIrq
      /\ wr \in Nat /\ rd \in Nat /\ LaneSize \in Nat \ {0} /\ MaxIrq \in Nat
  BY LaneAssumption DEF LaneTypeOK, LoadWrite, LoadRead, Reserve, Handler
<1>2. /\ rd' = rd /\ cell' = cell /\ drain' = drain /\ drained' = drained
      /\ \/ wr' = wr /\ isr'[i].pc \in {"idle", "read", "swap"}
            /\ (isr'[i].pc = "swap" => isr'[i].at < rd + LaneSize)
         \/ /\ wr' = wr + 1 /\ wr' <= MaxIrq /\ wr < rd + LaneSize
            /\ isr'[i].pc = "first" /\ isr'[i].at = wr
      /\ isr'[i].at \in 0..MaxIrq /\ isr'[i] \in Handler
      /\ isr' = [isr EXCEPT ![i] = isr'[i]]
  <2>1. CASE LoadWrite(i)
    BY <1>1, <2>1 DEF LoadWrite, LaneTypeOK, Handler
  <2>2. CASE LoadRead(i)
    BY <1>1, <2>2 DEF LoadRead, Full, LaneTypeOK, Handler
  <2>3. CASE Reserve(i)
    BY <1>1, <2>3 DEF Reserve, LaneTypeOK, Handler, Window
  <2> QED  BY <2>1, <2>2, <2>3
<1>3. \A j \in Isr \ {i} : isr'[j] = isr[j]
  BY <1>2 DEF LaneTypeOK
<1>4. LaneTypeOK'
  <2>1. wr' \in 0..MaxIrq
    BY <1>1, <1>2 DEF LaneTypeOK
  <2>2. isr' \in [Isr -> Handler]
    BY <1>1, <1>2 DEF LaneTypeOK
  <2> QED  BY <1>1, <1>2, <2>1, <2>2 DEF LaneTypeOK
<1>5. Window'
  BY <1>1, <1>2, <1>3 DEF Window
<1>6. cell[Cell(wr)].valid = 0 \/ wr' = wr
  <2>1. SUFFICES ASSUME cell[Cell(wr)].valid # 0, wr' # wr PROVE FALSE
    OBVIOUS
  <2> DEFINE n == cell[Cell(wr)].valid - 1
  <2>2. Cell(wr) \in 0..LaneSize - 1
    BY <1>1, CellInLane
  <2>3. n \in Nat /\ rd <= n /\ n < wr /\ Cell(n) = Cell(wr)
    BY <1>1, <2>1, <2>2 DEF Published, LaneTypeOK
  <2>4. wr < n + LaneSize
    BY <1>1, <1>2, <2>1, <2>3
  <2>5. n % LaneSize = wr % LaneSize  BY <2>3 DEF Cell
  <2> HIDE DEF n
  <2>6. n \in Nat /\ n <= wr /\ wr \in Nat /\ LaneSize \in Nat \ {0}
    BY <1>1, <2>3
  <2>7. n = wr  BY <2>4, <2>5, <2>6, CellsDiffer
  <2> QED  BY <1>1, <2>3, <2>7
<1>7. Filling'
  <2>1. \A j \in Isr : Holds(j)' =>
            \/ j # i /\ Holds(j)
            \/ j = i /\ wr' = wr + 1 /\ isr'[j].at = wr /\ isr'[j].pc = "first"
    BY <1>2, <1>3 DEF Holds
  <2>2. \A j \in Isr : Holds(j)' =>
            /\ rd' <= isr'[j].at /\ isr'[j].at < wr'
            /\ cell'[Cell(isr'[j].at)].valid = 0
    <3> SUFFICES ASSUME NEW j \in Isr, Holds(j)'
                 PROVE  /\ rd <= isr'[j].at /\ isr'[j].at < wr'
                        /\ cell[Cell(isr'[j].at)].valid = 0
      BY <1>2 DEF Cell
    <3>1. CASE j # i /\ Holds(j)
      <4>1. isr[j].at \in Nat /\ isr'[j].at = isr[j].at
        BY <1>1, <1>3, <3>1 DEF LaneTypeOK, Handler
      <4>2. /\ rd <= isr[j].at /\ isr[j].at < wr /\ cell[Cell(isr[j].at)].valid = 0
        BY <3>1 DEF Filling
      <4>3. wr <= wr'  BY <1>1, <1>2
      <4> QED  BY <1>1, <1>2, <4>1, <4>2, <4>3
    <3>2. CASE wr' = wr + 1 /\ isr'[j].at = wr
      BY <1>1, <1>6, <3>2 DEF Window
    <3> QED  BY <2>1, <3>1, <3>2
  <2>3. \A j \in Isr : Holds(j)' =>
            /\ isr'[j].pc \in {"second", "publish"} => cell'[Cell(isr'[j].at)].a = Mine(j)'
            /\ isr'[j].pc = "publish" => cell'[Cell(isr'[j].at)].b = Mine(j)'
    BY <1>2, <1>3, <2>1 DEF Filling, Mine
  <2>4. \A j, k \in Isr : Holds(j)' /\ Holds(k)' /\ j # k => isr'[j].at # isr'[k].at
    BY <1>1, <1>2, <1>3, <2>1 DEF Filling, LaneTypeOK
  <2> QED  BY <2>2, <2>3, <2>4 DEF Filling
<1>8. Published'
  <2> SUFFICES ASSUME NEW c \in 0..LaneSize - 1, cell[c].valid # 0
               PROVE  LET n == cell[c].valid - 1 IN
                      rd <= n /\ n < wr' /\ Cell(n) = c /\ Whole(cell[c], n)
    BY <1>2 DEF Published, Whole, Cell
  <2>1. cell[c].valid \in Nat  BY DEF LaneTypeOK
  <2> QED  BY <1>1, <1>2, <2>1 DEF Published
<1>9. Draining'
  <2>1. \A j \in Isr : Busy /\ Holds(j)' => isr'[j].at # rd
    <3> SUFFICES ASSUME NEW j \in Isr, Busy, Holds(j)' PROVE isr'[j].at # rd
      OBVIOUS
    <3>1. CASE j = i
      BY <1>1, <1>2, <3>1 DEF Draining, Holds, LaneTypeOK, Busy
    <3>2. CASE j # i
      BY <1>3, <3>2 DEF Draining, Holds
    <3> QED  BY <3>1, <3>2
  <2>2. drain.end \in Nat  BY DEF LaneTypeOK
  <2> QED  BY <1>1, <1>2, <2>1, <2>2 DEF Draining, Busy, Holds, Cell
<1>10. LaneExact'
  BY <1>2 DEF LaneExact
<1> QED  BY <1>4, <1>5, <1>7, <1>8, <1>9, <1>10

\* The cell a handler fills is in the lane, and nobody else's.
LEMMA OwnCell ==
    ASSUME IInv, NEW i \in Isr, Holds(i)
    PROVE  /\ isr[i].at \in Nat /\ Cell(isr[i].at) \in 0..LaneSize - 1
           /\ \A j \in Isr : Holds(j) /\ j # i => Cell(isr[j].at) # Cell(isr[i].at)
           /\ \A n \in Nat : rd <= n /\ n < wr /\ Cell(n) = Cell(isr[i].at) => n = isr[i].at
<1>1. isr[i].at \in Nat
  BY LaneAssumption DEF IInv, LaneTypeOK, Handler
<1>2. rd <= isr[i].at /\ isr[i].at < wr
  BY DEF IInv, Filling
<1>3. ASSUME NEW n \in Nat, rd <= n, n < wr, Cell(n) = Cell(isr[i].at) PROVE n = isr[i].at
  BY <1>1, <1>2, <1>3, OwnCells DEF IInv
<1>4. ASSUME NEW j \in Isr, Holds(j), j # i, Cell(isr[j].at) = Cell(isr[i].at) PROVE FALSE
  <2>1. isr[j].at \in Nat /\ rd <= isr[j].at /\ isr[j].at < wr
    BY <1>4, LaneAssumption DEF IInv, LaneTypeOK, Handler, Filling
  <2>2. isr[j].at # isr[i].at
    BY <1>4 DEF IInv, Filling
  <2> QED  BY <2>1, <2>2, <1>3, <1>4
<1> QED  BY <1>1, <1>3, <1>4, CellInLane

\* What a handler writes, the fields and the valid word, stays in its cell.
LEMMA FillingKeeps ==
    ASSUME IInv, NEW i \in Isr, FillFirst(i) \/ FillSecond(i) \/ Publish(i)
    PROVE  IInv'
<1> DEFINE mine == Cell(isr[i].at)
<1>1. /\ Holds(i) /\ isr[i].at \in 0..MaxIrq /\ isr[i].at < MaxIrq /\ rd <= isr[i].at
      /\ isr[i].at < wr /\ cell[mine].valid = 0
      /\ wr \in Nat /\ rd \in Nat /\ LaneSize \in Nat \ {0} /\ MaxIrq \in Nat
  BY LaneAssumption
  DEF IInv, LaneTypeOK, FillFirst, FillSecond, Publish, Handler, Holds, Filling
<1>2. /\ mine \in 0..LaneSize - 1
      /\ \A j \in Isr : Holds(j) /\ j # i => Cell(isr[j].at) # mine
      /\ \A n \in Nat : rd <= n /\ n < wr /\ Cell(n) = mine => n = isr[i].at
  BY <1>1, OwnCell
<1>3. /\ wr' = wr /\ rd' = rd /\ drain' = drain /\ drained' = drained
      /\ isr' \in [Isr -> Handler]
      /\ isr'[i].at = isr[i].at
      /\ isr'[i].pc \in {"second", "publish", "idle"}
      /\ \A j \in Isr \ {i} : isr'[j] = isr[j]
  <2>1. isr \in [Isr -> Handler]  BY DEF IInv, LaneTypeOK
  <2>2. PICK next \in {"second", "publish", "idle"} : isr' = [isr EXCEPT ![i].pc = next]
    BY DEF FillFirst, FillSecond, Publish
  <2>3. [isr[i] EXCEPT !.pc = next] \in Handler
    BY <2>1, <2>2 DEF Handler
  <2>4. wr' = wr /\ rd' = rd /\ drain' = drain /\ drained' = drained
    BY DEF FillFirst, FillSecond, Publish
  <2>5. isr'[i] = [isr[i] EXCEPT !.pc = next]  BY <2>1, <2>2
  <2>6. isr'[i].at = isr[i].at /\ isr'[i].pc = next
    BY <2>1, <2>5 DEF Handler
  <2> QED  BY <2>1, <2>2, <2>3, <2>4, <2>6
<1>4. /\ DOMAIN cell' = 0..LaneSize - 1
      /\ \A c \in 0..LaneSize - 1 : c # mine => cell'[c] = cell[c]
  BY DEF IInv, LaneTypeOK, FillFirst, FillSecond, Publish
<1>5. Mine(i) \in Half
  BY <1>1 DEF Mine, Half
<1>6. LaneTypeOK'
  <2> DEFINE Word == [valid : 0..MaxIrq, a : Half \cup {<<>>}, b : Half \cup {<<>>}]
  <2>1. cell \in [0..LaneSize - 1 -> Word] /\ cell[mine] \in Word
    BY <1>2 DEF IInv, LaneTypeOK
  <2>2. \E new \in Word : cell' = [cell EXCEPT ![mine] = new]
    <3>1. CASE FillFirst(i)
      <4>1. cell' = [cell EXCEPT ![mine] = [cell[mine] EXCEPT !.a = Mine(i)]]
        BY <2>1, <3>1 DEF FillFirst, Mine
      <4>2. [cell[mine] EXCEPT !.a = Mine(i)] \in Word  BY <1>5, <2>1
      <4> QED  BY <4>1, <4>2
    <3>2. CASE FillSecond(i)
      <4>1. cell' = [cell EXCEPT ![mine] = [cell[mine] EXCEPT !.b = Mine(i)]]
        BY <2>1, <3>2 DEF FillSecond, Mine
      <4>2. [cell[mine] EXCEPT !.b = Mine(i)] \in Word  BY <1>5, <2>1
      <4> QED  BY <4>1, <4>2
    <3>3. CASE Publish(i)
      <4>1. cell' = [cell EXCEPT ![mine] = [cell[mine] EXCEPT !.valid = isr[i].at + 1]]
        BY <2>1, <3>3 DEF Publish
      <4>2. isr[i].at + 1 \in 0..MaxIrq  BY <1>1
      <4>3. [cell[mine] EXCEPT !.valid = isr[i].at + 1] \in Word  BY <2>1, <4>2
      <4> QED  BY <4>1, <4>3
    <3> QED  BY <3>1, <3>2, <3>3
  <2>3. cell' \in [0..LaneSize - 1 -> Word]
    BY <2>1, <2>2
  <2> HIDE DEF Word
  <2> QED  BY <1>3, <2>3 DEF IInv, LaneTypeOK, Word
<1>7. Window'
  BY <1>1, <1>3 DEF IInv, Window
<1>8. /\ isr'[i].pc \in {"second", "publish"} => cell'[mine].a = Mine(i) /\ cell'[mine].valid = 0
      /\ isr'[i].pc = "publish" => cell'[mine].b = Mine(i)
      /\ isr'[i].pc = "idle" => /\ cell'[mine].valid = isr[i].at + 1
                                /\ cell'[mine].a = Mine(i) /\ cell'[mine].b = Mine(i)
  <2>1. isr[i].pc \in {"second", "publish"} => cell[mine].a = Mine(i)
    BY <1>1 DEF IInv, Filling
  <2>2. isr[i].pc = "publish" => cell[mine].b = Mine(i)
    BY <1>1 DEF IInv, Filling
  <2>3. CASE FillFirst(i)
    BY <1>1, <1>2, <2>3 DEF FillFirst, IInv, LaneTypeOK, Mine
  <2>4. CASE FillSecond(i)
    BY <1>1, <1>2, <2>1, <2>4 DEF FillSecond, IInv, LaneTypeOK, Mine
  <2>5. CASE Publish(i)
    BY <1>1, <1>2, <2>1, <2>2, <2>5 DEF Publish, IInv, LaneTypeOK, Mine
  <2> QED  BY <2>3, <2>4, <2>5
<1>9. Filling'
  <2>1. \A j \in Isr : Holds(j)' /\ j # i =>
            Holds(j) /\ Cell(isr[j].at) # mine /\ Cell(isr[j].at) \in 0..LaneSize - 1
    BY <1>2, <1>3, OwnCell DEF Holds
  <2>2. \A j \in Isr : Holds(j)' =>
            /\ rd' <= isr'[j].at /\ isr'[j].at < wr'
            /\ cell'[Cell(isr'[j].at)].valid = 0
            /\ isr'[j].pc \in {"second", "publish"} => cell'[Cell(isr'[j].at)].a = Mine(j)'
            /\ isr'[j].pc = "publish" => cell'[Cell(isr'[j].at)].b = Mine(j)'
    <3> SUFFICES ASSUME NEW j \in Isr, Holds(j)'
                 PROVE  /\ rd' <= isr'[j].at /\ isr'[j].at < wr'
                        /\ cell'[Cell(isr'[j].at)].valid = 0
                        /\ isr'[j].pc \in {"second", "publish"} =>
                               cell'[Cell(isr'[j].at)].a = Mine(j)'
                        /\ isr'[j].pc = "publish" => cell'[Cell(isr'[j].at)].b = Mine(j)'
      OBVIOUS
    <3>1. CASE j = i
      BY <1>1, <1>3, <1>8, <3>1 DEF Holds, Mine
    <3>2. CASE j # i
      BY <1>3, <1>4, <2>1, <3>2 DEF IInv, Filling, Holds, Mine
    <3> QED  BY <3>1, <3>2
  <2>3. \A j, k \in Isr : Holds(j)' /\ Holds(k)' /\ j # k => isr'[j].at # isr'[k].at
    BY <1>1, <1>3 DEF IInv, Filling, Holds
  <2> QED  BY <2>2, <2>3 DEF Filling
<1>10. Published'
  <2> SUFFICES ASSUME NEW c \in 0..LaneSize - 1, cell'[c].valid # 0
               PROVE  LET n == cell'[c].valid - 1 IN
                      rd <= n /\ n < wr /\ Cell(n) = c /\ Whole(cell'[c], n)
    BY <1>3 DEF Published, Whole, Cell
  <2>1. CASE c = mine
    <3>1. cell'[c].valid = isr[i].at + 1 /\ cell'[c].a = Mine(i) /\ cell'[c].b = Mine(i)
      BY <1>3, <1>8, <2>1
    <3>2. cell'[c].valid - 1 = isr[i].at
      BY <1>1, <3>1
    <3> QED  BY <1>1, <2>1, <3>1, <3>2 DEF Whole, Mine
  <2>2. CASE c # mine
    BY <1>4, <2>2 DEF IInv, Published
  <2> QED  BY <2>1, <2>2
<1>11. Draining'
  <2>1. \A j \in Isr : Holds(j)' => Holds(j)
    BY <1>1, <1>3 DEF Holds
  <2>2. Busy => Cell(rd) # mine
    <3> SUFFICES ASSUME Busy, Cell(rd) = mine PROVE FALSE  OBVIOUS
    <3>1. rd < wr /\ isr[i].at # rd
      BY <1>1 DEF IInv, Draining, Busy, LaneTypeOK
    <3> QED  BY <1>1, <1>2, <3>1
  <2>3. Busy => cell'[Cell(rd)] = cell[Cell(rd)]
    BY <1>1, <1>4, <2>2, CellInLane
  <2>4. Busy' = Busy  BY <1>3 DEF Busy
  <2>5. Busy' => \A j \in Isr : Holds(j)' => isr'[j].at # rd'
    BY <1>3, <2>1, <2>4 DEF IInv, Draining
  <2> QED  BY <1>3, <2>3, <2>4, <2>5 DEF IInv, Draining, Busy, Cell
<1>12. LaneExact'
  BY <1>3 DEF IInv, LaneExact
<1> QED  BY <1>6, <1>7, <1>9, <1>10, <1>11, <1>12 DEF IInv

\* The drain looks and moves its end: nothing others see changes.
LEMMA LookingKeeps ==
    ASSUME IInv, DrainStart \/ DrainEnd
    PROVE  IInv'
<1>1. /\ cell' = cell /\ wr' = wr /\ rd' = rd /\ isr' = isr /\ drained' = drained
      /\ ~Busy /\ ~Busy' /\ (drain'.pc # "idle" => drain'.end = wr)
      /\ drain'.pc \in {"idle", "take"} /\ drain'.end \in 0..MaxIrq
  BY LaneAssumption DEF DrainStart, DrainEnd, Busy, NoDrain, IInv, LaneTypeOK
<1>2. LaneTypeOK'
  <2>1. drain' \in [pc : {"idle", "take", "clear", "advance"}, end : 0..MaxIrq]
    BY LaneAssumption DEF DrainStart, DrainEnd, NoDrain, IInv, LaneTypeOK
  <2> QED  BY <1>1, <2>1 DEF IInv, LaneTypeOK
<1>5. Window' /\ Filling' /\ LaneExact'
  BY <1>1 DEF IInv, Window, Filling, LaneExact, Holds, Mine, Cell
<1>3. Published'
  BY <1>1 DEF IInv, Published, Whole, Cell
<1>4. Draining'
  BY <1>1 DEF IInv, Draining, Busy, Window
<1> QED  BY <1>2, <1>3, <1>4, <1>5 DEF IInv

\* zllog.c:372: the record taken is the one that reserved this index.
LEMMA TakeKeeps ==
    ASSUME IInv, DrainTake
    PROVE  IInv'
<1> DEFINE c == Cell(rd)
<1>1. /\ rd \in Nat /\ wr \in Nat /\ drain.end \in Nat /\ LaneSize \in Nat \ {0}
      /\ c \in 0..LaneSize - 1 /\ cell[c].valid = rd + 1
      /\ rd # drain.end /\ drain.pc = "take" /\ ~Busy
  BY LaneAssumption, CellInLane DEF IInv, LaneTypeOK, DrainTake, Takes, Busy
<1>2. rd < drain.end /\ drain.end <= wr
  BY <1>1 DEF IInv, Draining
<1>3. Whole(cell[c], rd)
  <2>1. cell[c].valid # 0 /\ cell[c].valid - 1 = rd  BY <1>1
  <2> QED  BY <1>1, <2>1 DEF IInv, Published
<1>4. /\ cell' = cell /\ wr' = wr /\ rd' = rd /\ isr' = isr
      /\ drain' = [drain EXCEPT !.pc = "clear"]
      /\ drained' = Append(drained, <<cell[c].a, cell[c].b>>)
  BY DEF DrainTake
<1>5. drain'.pc = "clear" /\ drain'.end = drain.end
  <2>1. drain \in [pc : {"idle", "take", "clear", "advance"}, end : 0..MaxIrq]
    BY DEF IInv, LaneTypeOK
  <2> QED  BY <1>4, <2>1
<1>6. LaneTypeOK' /\ Window' /\ Filling'
  BY <1>4, <1>5 DEF IInv, LaneTypeOK, Window, Filling, Holds, Mine
<1>7. Published'
  BY <1>4 DEF IInv, Published, Whole, Cell
<1>8. /\ drained \in Seq((Half \cup {<<>>}) \X (Half \cup {<<>>})) /\ Len(drained) = rd
      /\ <<cell[c].a, cell[c].b>> \in (Half \cup {<<>>}) \X (Half \cup {<<>>})
  BY <1>1 DEF IInv, Draining, LaneTypeOK
<1>9. /\ drained' \in Seq((Half \cup {<<>>}) \X (Half \cup {<<>>}))
      /\ Len(drained') = rd + 1 /\ drained'[rd + 1] = <<cell[c].a, cell[c].b>>
      /\ \A n \in 1..rd : drained'[n] = drained[n]
      /\ DOMAIN drained' = 1..(rd + 1) /\ DOMAIN drained = 1..rd
  BY <1>1, <1>4, <1>8
<1>10. Draining'
  <2>1. \A i \in Isr : Holds(i) => isr[i].at # rd
    BY <1>1 DEF IInv, Filling
  <2> QED
    BY <1>1, <1>2, <1>4, <1>5, <1>9, <2>1 DEF Draining, Busy, Holds, Cell
<1>11. LaneExact'
  <2> SUFFICES ASSUME NEW n \in 1..(rd + 1)
               PROVE  \E i \in Isr :
                   drained'[n] = <<[by |-> i, at |-> n - 1], [by |-> i, at |-> n - 1]>>
    BY <1>9 DEF LaneExact
  <2>1. CASE n = rd + 1
    <3>1. PICK i \in Isr : cell[c].a = [by |-> i, at |-> rd] /\ cell[c].b = [by |-> i, at |-> rd]
      BY <1>3 DEF Whole
    <3>2. n - 1 = rd  BY <1>1, <2>1
    <3> QED  BY <1>9, <2>1, <3>1, <3>2
  <2>2. CASE n \in 1..rd
    BY <1>9, <2>2 DEF IInv, LaneExact
  <2>3. n = rd + 1 \/ n \in 1..rd  BY <1>1
  <2> QED  BY <2>1, <2>2, <2>3
<1> QED  BY <1>6, <1>7, <1>10, <1>11 DEF IInv

\* zllog.c:376: the valid word is cleared before the index is given back.
LEMMA ClearKeeps ==
    ASSUME IInv, DrainClear
    PROVE  IInv'
<1> DEFINE c == Cell(rd)
<1>1. /\ rd \in Nat /\ wr \in Nat /\ LaneSize \in Nat \ {0} /\ drain.pc = "clear" /\ Busy
      /\ c \in 0..LaneSize - 1 /\ cell[c].valid = rd + 1
  BY LaneAssumption, CellInLane DEF IInv, LaneTypeOK, DrainClear, Draining, Busy
<1>2. drain \in [pc : {"idle", "take", "clear", "advance"}, end : 0..MaxIrq]
  BY DEF IInv, LaneTypeOK
<1>3. /\ cell' = [cell EXCEPT ![c].valid = 0]
      /\ wr' = wr /\ rd' = rd /\ isr' = isr /\ drained' = drained
      /\ drain'.pc = "advance" /\ drain'.end = drain.end
      /\ drain' \in [pc : {"idle", "take", "clear", "advance"}, end : 0..MaxIrq]
  BY <1>2 DEF DrainClear
<1>4. /\ \A d \in 0..LaneSize - 1 : d # c => cell'[d] = cell[d]
      /\ cell'[c].valid = 0 /\ DOMAIN cell' = 0..LaneSize - 1
  BY <1>1, <1>3 DEF IInv, LaneTypeOK
<1>5. LaneTypeOK' /\ Window'
  <2> DEFINE Word == [valid : 0..MaxIrq, a : Half \cup {<<>>}, b : Half \cup {<<>>}]
  <2>1. cell \in [0..LaneSize - 1 -> Word] /\ cell[c] \in Word /\ MaxIrq \in Nat
    BY <1>1, LaneAssumption DEF IInv, LaneTypeOK
  <2>2. [cell[c] EXCEPT !.valid = 0] \in Word  BY <2>1
  <2>3. cell' = [cell EXCEPT ![c] = [cell[c] EXCEPT !.valid = 0]]
    BY <1>3, <2>1
  <2>4. cell' \in [0..LaneSize - 1 -> Word]  BY <2>1, <2>2, <2>3
  <2> HIDE DEF Word
  <2>5. LaneTypeOK'  BY <1>3, <2>4 DEF IInv, LaneTypeOK, Word
  <2> QED  BY <1>3, <2>5 DEF IInv, Window
<1>6. \A i \in Isr : Holds(i) =>
          Cell(isr[i].at) # c /\ Cell(isr[i].at) \in 0..LaneSize - 1
  <2> SUFFICES ASSUME NEW i \in Isr, Holds(i)
               PROVE  Cell(isr[i].at) # c /\ Cell(isr[i].at) \in 0..LaneSize - 1
    OBVIOUS
  <2>1. cell[Cell(isr[i].at)].valid = 0
    BY DEF IInv, Filling
  <2> QED  BY <1>1, <2>1, OwnCell
<1>7. Filling'
  BY <1>3, <1>4, <1>6 DEF IInv, Filling, Holds, Mine
<1>8. Published'
  BY <1>3, <1>4 DEF IInv, Published, Whole, Cell
<1>9. Draining'
  BY <1>1, <1>3, <1>4 DEF IInv, Draining, Busy, Holds, Cell
<1>10. LaneExact'
  BY <1>3 DEF IInv, LaneExact
<1> QED  BY <1>5, <1>7, <1>8, <1>9, <1>10 DEF IInv

LEMMA AdvanceKeeps ==
    ASSUME IInv, DrainAdvance
    PROVE  IInv'
<1>1. /\ rd \in Nat /\ wr \in Nat /\ LaneSize \in Nat \ {0} /\ MaxIrq \in Nat
      /\ drain.pc = "advance" /\ Busy /\ drain.end \in Nat
      /\ Cell(rd) \in 0..LaneSize - 1 /\ cell[Cell(rd)].valid = 0
      /\ rd < drain.end /\ drain.end <= wr /\ wr <= MaxIrq
  BY LaneAssumption, CellInLane DEF IInv, LaneTypeOK, DrainAdvance, Draining, Busy
<1>2. drain \in [pc : {"idle", "take", "clear", "advance"}, end : 0..MaxIrq]
  BY DEF IInv, LaneTypeOK
<1>3. /\ cell' = cell /\ wr' = wr /\ rd' = rd + 1 /\ isr' = isr /\ drained' = drained
      /\ drain'.pc = "take" /\ drain'.end = drain.end
      /\ drain' \in [pc : {"idle", "take", "clear", "advance"}, end : 0..MaxIrq]
  BY <1>2 DEF DrainAdvance
<1>4. LaneTypeOK'
  BY <1>1, <1>3 DEF IInv, LaneTypeOK
<1>5. Window'
  <2>1. \A i \in Isr : isr[i].at \in Nat
    BY LaneAssumption DEF IInv, LaneTypeOK, Handler
  <2> QED  BY <1>1, <1>3, <2>1 DEF IInv, Window
<1>6. Filling'
  <2>1. \A i \in Isr : Holds(i) => rd + 1 <= isr[i].at
    <3> SUFFICES ASSUME NEW i \in Isr, Holds(i) PROVE rd + 1 <= isr[i].at  OBVIOUS
    <3>1. isr[i].at \in Nat /\ rd <= isr[i].at
      BY OwnCell DEF IInv, Filling
    <3>2. isr[i].at # rd
      BY <1>1 DEF IInv, Draining
    <3> QED  BY <1>1, <3>1, <3>2
  <2> QED  BY <1>3, <2>1 DEF IInv, Filling, Holds, Mine
<1>7. Published'
  <2> SUFFICES ASSUME NEW c \in 0..LaneSize - 1, cell[c].valid # 0
               PROVE  LET n == cell[c].valid - 1 IN
                      rd + 1 <= n /\ n < wr /\ Cell(n) = c /\ Whole(cell[c], n)
    BY <1>3 DEF Published, Whole, Cell
  <2> DEFINE n == cell[c].valid - 1
  <2>1. n \in Int /\ rd <= n /\ n < wr /\ Cell(n) = c /\ Whole(cell[c], n)
    BY DEF IInv, Published, LaneTypeOK
  <2>2. n # rd
    BY <1>1, <2>1
  <2> QED  BY <1>1, <2>1, <2>2
<1>8. Draining'
  BY <1>1, <1>3 DEF IInv, Draining, Busy, Holds, Cell
<1>9. LaneExact'
  BY <1>3 DEF IInv, LaneExact
<1> QED  BY <1>4, <1>5, <1>6, <1>7, <1>8, <1>9 DEF IInv

LEMMA InvNext == IInv /\ [LaneNext]_laneVars => IInv'
<1> SUFFICES ASSUME IInv, [LaneNext]_laneVars PROVE IInv'  OBVIOUS
<1>1. ASSUME NEW i \in Isr, Handle(i) PROVE IInv'
  BY <1>1, ReservingKeeps, FillingKeeps DEF Handle
<1>2. CASE DrainNext
  BY <1>2, LookingKeeps, TakeKeeps, ClearKeeps, AdvanceKeeps DEF DrainNext
<1>3. CASE UNCHANGED laneVars
  BY <1>3 DEF laneVars, IInv, LaneTypeOK, Window, Filling, Published, Draining,
              LaneExact, Holds, Busy, Mine, Whole, Cell
<1> QED  BY <1>1, <1>2, <1>3, ResetKeeps DEF LaneNext

(***************************************************************************)
(* The lane's cells, indexes and handlers stay in range: no index is lost  *)
(* to a handler that was stopped between its two loads.                    *)
(***************************************************************************)
THEOREM LaneTypeCorrect == LaneSpec => []LaneTypeOK
<1>1. IInv => LaneTypeOK  BY DEF IInv
<1> QED  BY <1>1, InvInit, InvNext, PTL DEF LaneSpec

(***************************************************************************)
(* zllog.c:332 and :361: whatever handlers nest in or run beside one       *)
(* another, the drain takes out every accepted record once, whole and in   *)
(* the order of its index.                                                 *)
(***************************************************************************)
THEOREM LaneExactAlways == LaneSpec => []LaneExact
<1>1. IInv => LaneExact  BY DEF IInv
<1> QED  BY <1>1, InvInit, InvNext, PTL DEF LaneSpec
-----------------------------------------------------------------------------
(***************************************************************************)
(* The log. A write that fails, or in the middle of which the power goes,  *)
(* leaves any part of it: so the invariant says what every block may hold  *)
(* (Device), and a write adds what it brings (Midway). No write brings     *)
(* anything a header counts (ReachedIsOld), and only checkpoints and new   *)
(* slots change what is counted.                                           *)
(***************************************************************************)
SuperBlock == [gen : Nat, active : 0..Slots, after : 0..Slots, next : Nat]
HeadBlock == [state : {"blank", "writing", "complete"}, last : Nat, count : 0..Capacity, boot : Nat]
LogRec == [seq : Nat, id : Nat, boot : Nat]

\* What the device may hold of each block, stored or in its own cache, and
\* what it may hold in the middle of the write under way.
Device == [a \in Addr |-> {media[a]} \cup {pending[b] : b \in {a} \cap DOMAIN pending}]
Midway == [a \in Addr |-> Device[a] \cup {Writes[b] : b \in {a} \cap DOMAIN Writes}]

Blocks(H) ==
    /\ \A c \in {0, 1} : H[Super(c)] \subseteq SuperBlock
    /\ \A t \in Slot : H[Hdr(t)] \subseteq HeadBlock
    /\ \A t \in Slot, p \in 0..Capacity - 1 : H[Rec(t, p)] \subseteq LogRec

\* A record that a header counts is of the header's boot.
Counts(H) ==
    \A t \in Slot : \A h \in H[Hdr(t)] :
        /\ h.count > 0 => h.state # "blank"
        /\ \A p \in 0..h.count - 1 : \A r \in H[Rec(t, p)] : r.boot = h.boot /\ r.id # 0

\* And it has no higher number than the header's last.
Tops(H) ==
    \A t \in Slot : \A h \in H[Hdr(t)] : \A p \in 0..h.count - 1 :
        \A r \in H[Rec(t, p)] : r.seq <= h.last

\* What was forgotten is counted by every header its slot may have.
Keeps(H) ==
    \A k \in kept : \E p \in 0..Capacity - 1 :
        /\ \A h \in H[Hdr(k.slot)] : p < h.count
        /\ \A r \in H[Rec(k.slot, p)] : r.id = k.id

\* The records a header counts or, in the active slot, may come to count.
Reached(H, t) ==
    {p \in 0..Capacity - 1 :
        IF slot.active /\ slot.index = t THEN p < slot.count
        ELSE \E h \in H[Hdr(t)] : p < h.count}
Found(H, t) == UNION {H[Rec(t, p)] : p \in Reached(H, t)}

\* The superblocks a mount may select.
Wins(x, y) == IF x.gen >= y.gen THEN x ELSE y
Chosen(H) == {Wins(x, y) : x \in H[Super(0)], y \in H[Super(1)]}

\* Whatever it names as next, or the active slot's last, is above all numbers.
Follows(H) ==
    \A w \in Chosen(H) : \A t \in Slot : t # w.active => \A r \in Found(H, t) : r.seq < w.next

Above(r, n) == n < r.seq /\ \A i \in 1..Len(r.ram) : n < r.ram[i].seq
Later(H) ==
    /\ \A t, u \in Slot : \A q \in Found(H, t), r \in Found(H, u) : q.boot < r.boot => q.seq < r.seq
    /\ \A t \in Slot : \A r \in Found(H, t) : r.boot <= Boot
    /\ up = "mounted" => \A t \in Slot : \A r \in Found(H, t) :
        r.seq < seq /\ (r.boot < Boot => Above(Ring, r.seq))
-----------------------------------------------------------------------------
OnDisk == DOMAIN media = Addr /\ DOMAIN pending \subseteq Addr /\ Blocks(Device)

Pc == {"idle", "drain", "start", "enter", "data", "check", "seal", "leave", "restart",
       "return", "tail", "again", "final", "close"}
Logged ==
    /\ ram \in Seq(LogRec) /\ Len(ram) <= RamRecords /\ seq \in Nat
    /\ up \in {"early", "mounted", "refused", "halted"}
    /\ super \in [gen : Nat, active : 0..Slots, after : 0..Slots, next : Nat, copy : {0, 1}]
    /\ slot \in [active : BOOLEAN, index : Slot, count : 0..Capacity, last : Nat]
    /\ job \in [pc : Pc, n : 0..Chunk, then : {"data", "end"}, ok : BOOLEAN, completing : BOOLEAN]
    /\ lost \in [dropped : Nat, reported : Nat] /\ lost.reported <= lost.dropped
    /\ kept \subseteq [id : Nat, slot : Slot]
    /\ spent \in [made : Nat, events : Nat, faults : Nat, cuts : Nat, back : BOOLEAN]

\* The ring holds this boot's records in the order of their numbers.
Numbered ==
    \A i \in 1..Len(ram) :
        /\ ram[i].boot = Boot /\ ram[i].id # 0 /\ ram[i].seq < seq
        /\ \A j \in 1..i - 1 : ram[j].seq < ram[i].seq

\* What each place in a flush knows.
Working ==
    /\ job.pc # "idle" => up = "mounted"
    /\ drain.pc # "idle" => job.pc \in {"drain", "tail"}
    /\ up = "early" => DOMAIN pending = {} /\ ~slot.active
    /\ job.pc \in {"data", "check", "seal", "leave", "final", "close"} => slot.active
    /\ job.pc \in {"return", "tail"} /\ job.ok => slot.active
    /\ job.pc \in {"start", "enter", "restart"} => ~slot.active
    /\ job.pc \in {"start", "enter"} => slot.count = 0
    /\ job.pc = "data" => job.n \in 1..Len(ram) /\ slot.count + job.n <= Capacity
    /\ job.pc = "check" => job.n \in 1..Len(ram) /\ job.n <= slot.count
    /\ job.pc \in {"seal", "leave"} => slot.count = Capacity

\* What the recorder knows of its slot.
Own ==
    /\ slot.active \/ job.pc = "enter" =>
        \A h \in Device[Hdr(slot.index)] : h.boot = Boot /\ h.count <= slot.count
    /\ slot.active =>
        \A p \in 0..slot.count - 1 : \A r \in Device[Rec(slot.index, p)] :
            r.boot = Boot /\ r.id # 0
    /\ job.pc = "start" => \A k \in kept : k.slot # slot.index
    /\ job.pc = "check" =>
        \A j \in 1..job.n : \A r \in Device[Rec(slot.index, slot.count - job.n + j - 1)] :
            r.id = ram[j].id

\* As long as there is room in the slot, a mount that can read both copies
\* would select its superblock. The copy that was not read may be the newer.
InCharge ==
    up = "mounted" =>
        /\ \A x \in Device[Super(super.copy)] : x.gen <= super.gen
        /\ slot.active /\ slot.count < Capacity =>
            \A w \in Chosen(Device) : w.active = slot.index

NumbersGrow ==
    ~spent.back =>
        /\ Tops(Device) /\ Follows(Device) /\ Later(Device)
        /\ slot.active => \A p \in 0..slot.count - 1 :
            \A r \in Device[Rec(slot.index, p)] : r.seq <= slot.last

LogInv ==
    /\ OnDisk /\ Logged /\ Numbered /\ Working /\ Counts(Device) /\ Own /\ Keeps(Device)
    /\ InCharge /\ NumbersGrow
-----------------------------------------------------------------------------
LEMMA Constants ==
    /\ Slots \in Nat \ {0} /\ Capacity \in Nat \ {0} /\ Chunk \in Nat \ {0}
    /\ RamRecords \in Nat \ {0} /\ RamNormal \in Nat /\ RamSampled \in Nat
    /\ RamSampled <= RamNormal /\ RamNormal <= RamRecords
    /\ Slot = 0..Slots - 1 /\ None = Slots
BY LogAssumption DEF Slot, None

LEMMA Addresses ==
    /\ \A c \in {0, 1} : Super(c) \in Addr
    /\ \A t \in Slot : Hdr(t) \in Addr
    /\ \A t \in Slot, p \in 0..Capacity - 1 : Rec(t, p) \in Addr
BY DEF Addr

LEMMA Apart ==
    /\ \A c, d : Super(c) = Super(d) => c = d
    /\ \A s, t : Hdr(s) = Hdr(t) => s = t
    /\ \A s, t, p, q : Rec(s, p) = Rec(t, q) => s = t /\ p = q
    /\ \A c, t : Super(c) # Hdr(t)
    /\ \A c, t, p : Super(c) # Rec(t, p)
    /\ \A s, t, p : Hdr(s) # Rec(t, p)
BY DEF Super, Hdr, Rec

LEMMA Fields ==
    ASSUME Logged
    PROVE  /\ slot.active \in BOOLEAN /\ slot.index \in Slot /\ slot.index \in Nat
           /\ slot.count \in Nat /\ slot.count <= Capacity /\ slot.last \in Nat
           /\ super.gen \in Nat /\ super.active \in 0..Slots /\ super.after \in 0..Slots
           /\ super.copy \in {0, 1} /\ job.n \in Nat /\ job.n <= Chunk /\ job.pc \in Pc
           /\ Boot \in Nat /\ spent.made \in Nat /\ spent.back \in BOOLEAN
           /\ Len(ram) \in Nat /\ DOMAIN ram = 1..Len(ram) /\ seq \in Nat
<1>1. slot.count \in 0..Capacity /\ job.n \in 0..Chunk /\ slot.index \in Slot
  BY DEF Logged
<1>2. Len(ram) \in Nat /\ DOMAIN ram = 1..Len(ram)
  BY DEF Logged
<1> QED  BY <1>1, <1>2, Constants DEF Logged, Boot

\* What a superblock may name, and the copies it may go to.
LEMMA InRange ==
    ASSUME Logged
    PROVE  /\ slot.index \in 0..Slots /\ None \in 0..Slots
           /\ super.copy \in {0, 1} /\ 1 - super.copy \in {0, 1} /\ super.gen \in Nat
<1>1. slot.index \in 0..Slots - 1 /\ Slots \in Nat /\ None = Slots
  BY Fields, Constants
<1>2. super.copy \in {0, 1} /\ super.gen \in Nat
  BY Fields
<1> QED  BY <1>1, <1>2

\* The write under way is of known blocks, in a place known to be its own.
Writing == job.pc \in {"start", "enter", "data", "check", "seal", "leave", "final", "close"}
SuperPc == job.pc \in {"enter", "leave", "close"}
HeadPc == job.pc \in {"start", "check", "seal", "final"}

LEMMA SuperWrites ==
    ASSUME SuperPc
    PROVE  Writes = SuperPage(NextSuper(IF job.pc = "enter" THEN slot.index ELSE None))
BY DEF SuperPc, Writes

LEMMA HeadWrites ==
    ASSUME HeadPc
    PROVE  \E state \in {"writing", "complete"} : Writes = SlotPage(state, slot.last, slot.count)
BY DEF HeadPc, Writes

LEMMA DataWrites ==
    ASSUME job.pc = "data"
    PROVE  Writes = [a \in {Rec(slot.index, slot.count + k) : k \in 0..job.n - 1} |->
                        ram[a[3] - slot.count + 1]]
BY DEF Writes

LEMMA NoWrites ==
    ASSUME ~Writing
    PROVE  DOMAIN Writes = {}
<1>1. Writes = << >>  BY DEF Writing, Writes
<1> QED  BY <1>1

LEMMA WrittenSuper ==
    ASSUME Logged, NEW c \in {0, 1}, Super(c) \in DOMAIN Writes
    PROVE  /\ SuperPc /\ c = 1 - super.copy
           /\ Writes[Super(c)] = NextSuper(IF job.pc = "enter" THEN slot.index ELSE None)
<1>1. Writing  BY NoWrites
<1>2. CASE SuperPc
  BY <1>2, SuperWrites, Apart DEF SuperPage
<1>3. CASE HeadPc
  BY <1>3, HeadWrites, Apart DEF SlotPage
<1>4. CASE job.pc = "data"
  BY <1>4, DataWrites, Apart
<1> QED  BY <1>1, <1>2, <1>3, <1>4 DEF Writing, SuperPc, HeadPc

LEMMA WrittenHead ==
    ASSUME Logged, NEW t, Hdr(t) \in DOMAIN Writes
    PROVE  /\ HeadPc /\ t = slot.index
           /\ \E state \in {"writing", "complete"} :
                Writes[Hdr(t)] = [state |-> state, last |-> slot.last,
                                  count |-> slot.count, boot |-> Boot]
<1>1. Writing  BY NoWrites
<1>2. CASE SuperPc
  BY <1>2, SuperWrites, Apart DEF SuperPage
<1>3. CASE HeadPc
  <2>1. PICK state \in {"writing", "complete"} : Writes = SlotPage(state, slot.last, slot.count)
    BY <1>3, HeadWrites
  <2> QED  BY <1>3, <2>1, Apart DEF SlotPage
<1>4. CASE job.pc = "data"
  BY <1>4, DataWrites, Apart
<1> QED  BY <1>1, <1>2, <1>3, <1>4 DEF Writing, SuperPc, HeadPc

LEMMA WrittenRec ==
    ASSUME Logged, NEW t, NEW p \in Nat, Rec(t, p) \in DOMAIN Writes
    PROVE  /\ job.pc = "data" /\ t = slot.index
           /\ slot.count <= p /\ p < slot.count + job.n
           /\ Writes[Rec(t, p)] = ram[p - slot.count + 1]
<1>1. Writing  BY NoWrites
<1>2. CASE SuperPc
  BY <1>2, SuperWrites, Apart DEF SuperPage
<1>3. CASE HeadPc
  BY <1>3, HeadWrites, Apart DEF SlotPage
<1>4. CASE job.pc = "data"
  <2>1. PICK k \in 0..job.n - 1 : Rec(t, p) = Rec(slot.index, slot.count + k)
    BY <1>4, DataWrites
  <2>2. t = slot.index /\ p = slot.count + k
    BY <2>1, Apart
  <2>3. Rec(t, p)[3] = p
    BY DEF Rec
  <2>4. Writes[Rec(t, p)] = ram[p - slot.count + 1]
    BY <1>4, DataWrites, <2>3
  <2>5. slot.count \in Nat /\ job.n \in Nat
    BY Constants DEF Logged
  <2> QED  BY <1>4, <2>2, <2>4, <2>5
<1> QED  BY <1>1, <1>2, <1>3, <1>4 DEF Writing, SuperPc, HeadPc

LEMMA WritesInAddr ==
    ASSUME Logged, Working
    PROVE  DOMAIN Writes \subseteq Addr
<1>1. slot.index \in Slot /\ slot.count \in 0..Capacity /\ super.copy \in {0, 1}
  BY DEF Logged
<1>2. CASE SuperPc
  BY <1>1, <1>2, SuperWrites, Addresses DEF SuperPage
<1>3. CASE HeadPc
  BY <1>1, <1>3, HeadWrites, Addresses DEF SlotPage
<1>4. CASE job.pc = "data"
  <2>1. slot.count + job.n <= Capacity /\ job.n \in Nat
    BY <1>4 DEF Working, Logged
  <2>2. \A k \in 0..job.n - 1 : slot.count + k \in 0..Capacity - 1
    BY <1>1, <2>1, Constants
  <2> QED  BY <1>1, <1>4, <2>2, DataWrites, Addresses
<1> QED  BY <1>2, <1>3, <1>4, NoWrites DEF Writing, SuperPc, HeadPc

\* The value of Device and Midway at one address.
LEMMA DeviceAt ==
    ASSUME NEW a \in Addr
    PROVE  /\ Device[a] = {media[a]} \cup {pending[b] : b \in {a} \cap DOMAIN pending}
           /\ Midway[a] = Device[a] \cup {Writes[b] : b \in {a} \cap DOMAIN Writes}
           /\ media[a] \in Device[a] /\ Device[a] \subseteq Midway[a]
           /\ \A x \in Midway[a] : x \in Device[a] \/ (a \in DOMAIN Writes /\ x = Writes[a])
BY DEF Device, Midway

LEMMA NextDeviceAt ==
    ASSUME NEW a \in Addr
    PROVE  Device'[a] = {media'[a]} \cup {pending'[b] : b \in {a} \cap DOMAIN pending'}
BY DEF Device

LEMMA AfterWrite ==
    ASSUME OnDisk, Logged, Working, Stored \/ HalfStored
    PROVE  /\ DOMAIN media' = Addr /\ DOMAIN pending' \subseteq Addr
           /\ \A a \in Addr : Device'[a] \subseteq Midway[a]
           /\ Stored => \A a \in DOMAIN Writes : Device'[a] = {Writes[a]}
<1>1. DOMAIN Writes \subseteq Addr /\ DOMAIN pending \subseteq Addr /\ DOMAIN media = Addr
  BY WritesInAddr DEF OnDisk
<1>2. CASE Stored
  <2>1. media' = Over(Over(Writes, pending), media) /\ pending' = << >>
    BY <1>2 DEF Stored
  <2>2. DOMAIN media' = Addr /\ DOMAIN pending' = {}
    BY <1>1, <2>1 DEF Over
  <2>3. ASSUME NEW a \in Addr
        PROVE  /\ Device'[a] \subseteq Midway[a]
               /\ a \in DOMAIN Writes => Device'[a] = {Writes[a]}
    <3>1. Device'[a] = {media'[a]}
      BY <2>2, NextDeviceAt
    <3>2. CASE a \in DOMAIN Writes
      <4>1. media'[a] = Writes[a]
        BY <1>1, <2>1, <3>2 DEF Over
      <4> QED  BY <3>1, <3>2, <4>1 DEF Midway
    <3>3. CASE a \notin DOMAIN Writes
      <4>1. media'[a] = IF a \in DOMAIN pending THEN pending[a] ELSE media[a]
        BY <1>1, <2>1, <3>3 DEF Over
      <4>2. media'[a] \in Device[a]
        BY <4>1 DEF Device
      <4> QED  BY <3>1, <3>3, <4>2, DeviceAt
    <3> QED  BY <3>2, <3>3
  <2> QED  BY <1>1, <2>2, <2>3
<1>3. CASE HalfStored /\ ~Stored
  <2>1. PICK S \in SUBSET DOMAIN Writes :
          /\ pending' = Over(Only(Writes, S), pending)
          /\ \E old \in SUBSET (S \cap DOMAIN pending) : media' = Over(Only(pending, old), media)
    BY <1>3 DEF HalfStored
  <2>2. PICK old \in SUBSET (S \cap DOMAIN pending) : media' = Over(Only(pending, old), media)
    BY <2>1
  <2>3. DOMAIN media' = Addr /\ DOMAIN pending' = S \cup DOMAIN pending
    BY <1>1, <2>1, <2>2 DEF Over, Only
  <2>4. ASSUME NEW a \in Addr PROVE Device'[a] \subseteq Midway[a]
    <3>1. media'[a] \in Device[a]
      <4>1. media'[a] = IF a \in old THEN pending[a] ELSE media[a]
        BY <1>1, <2>2 DEF Over, Only
      <4> QED  BY <4>1 DEF Device
    <3>2. a \in DOMAIN pending' => pending'[a] \in Midway[a]
      <4>1. SUFFICES ASSUME a \in DOMAIN pending' PROVE pending'[a] \in Midway[a]
        OBVIOUS
      <4>2. pending'[a] = IF a \in S THEN Writes[a] ELSE pending[a]
        BY <2>1, <2>3, <4>1 DEF Over, Only
      <4>3. a \in S => a \in DOMAIN Writes
        OBVIOUS
      <4>4. a \notin S => a \in DOMAIN pending
        BY <2>3, <4>1
      <4> QED  BY <4>2, <4>3, <4>4 DEF Device, Midway
    <3> QED  BY <3>1, <3>2, DeviceAt, NextDeviceAt
  <2> QED  BY <1>1, <1>3, <2>3, <2>4
<1> QED  BY <1>2, <1>3

\* What a power cut leaves is what the blocks may be in the middle.
LEMMA InCrash ==
    ASSUME OnDisk, Logged, Working, NEW m \in CrashMedia
    PROVE  DOMAIN m = Addr /\ \A a \in Addr : m[a] \in Midway[a]
<1>1. DOMAIN Writes \subseteq Addr /\ DOMAIN pending \subseteq Addr /\ DOMAIN media = Addr
  BY WritesInAddr DEF OnDisk
<1>2. PICK S \in SUBSET DOMAIN Writes, P \in SUBSET DOMAIN pending :
        m = Over(Only(Writes, S), Over(Only(pending, P), media))
  BY DEF CrashMedia
<1>3. DOMAIN m = Addr
  BY <1>1, <1>2 DEF Over, Only
<1>4. ASSUME NEW a \in Addr PROVE m[a] \in Midway[a]
  <2>1. m[a] = IF a \in S THEN Writes[a] ELSE IF a \in P THEN pending[a] ELSE media[a]
    BY <1>1, <1>2 DEF Over, Only
  <2> QED  BY <2>1 DEF Device, Midway
<1> QED  BY <1>3, <1>4

LEMMA AfterCut ==
    ASSUME OnDisk, Logged, Working, media' \in CrashMedia, pending' = << >>
    PROVE  /\ DOMAIN media' = Addr /\ DOMAIN pending' = {}
           /\ \A a \in Addr : Device'[a] \subseteq Midway[a]
<1>1. DOMAIN media' = Addr /\ \A a \in Addr : media'[a] \in Midway[a]
  BY InCrash
<1> QED  BY <1>1, NextDeviceAt
-----------------------------------------------------------------------------
\* What holds of the blocks holds in the middle of a write.
Sound == OnDisk /\ Logged /\ Numbered /\ Working /\ Counts(Device) /\ Own

LEMMA MidwayBlocks ==
    ASSUME Sound
    PROVE  Blocks(Midway)
<1> USE DEF Sound
<1>1. ASSUME NEW c \in {0, 1} PROVE Midway[Super(c)] \subseteq SuperBlock
  <2>1. \A x \in 0..Slots : NextSuper(x) \in SuperBlock
    <3>1. super.gen + 1 \in Nat /\ super.after \in 0..Slots /\ seq \in Nat
      BY Fields
    <3> QED  BY <3>1 DEF NextSuper, SuperBlock
  <2>3. slot.index \in 0..Slots /\ None \in 0..Slots
    BY InRange
  <2>2. Device[Super(c)] \subseteq SuperBlock
    BY DEF OnDisk, Blocks
  <2>4. ASSUME Super(c) \in DOMAIN Writes PROVE Writes[Super(c)] \in SuperBlock
    BY <2>1, <2>3, <2>4, WrittenSuper
  <2> QED  BY <2>2, <2>4, DeviceAt, Addresses
<1>2. ASSUME NEW t \in Slot PROVE Midway[Hdr(t)] \subseteq HeadBlock
  <2>1. \A state \in {"writing", "complete"} :
          [state |-> state, last |-> slot.last, count |-> slot.count, boot |-> Boot] \in HeadBlock
    BY DEF HeadBlock, Logged, Boot
  <2>2. Device[Hdr(t)] \subseteq HeadBlock
    BY DEF OnDisk, Blocks
  <2> QED  BY <2>1, <2>2, WrittenHead, DeviceAt, Addresses
<1>3. ASSUME NEW t \in Slot, NEW p \in 0..Capacity - 1 PROVE Midway[Rec(t, p)] \subseteq LogRec
  <2>1. ASSUME Rec(t, p) \in DOMAIN Writes PROVE Writes[Rec(t, p)] \in LogRec
    <3>1. p \in Nat /\ slot.count \in Nat /\ job.n \in Nat /\ Len(ram) \in Nat
      BY Constants DEF Logged
    <3>2. job.n <= Len(ram) /\ slot.count <= p /\ p < slot.count + job.n
      BY <2>1, <3>1, WrittenRec DEF Working
    <3>3. p - slot.count + 1 \in 1..Len(ram)
      BY <3>1, <3>2
    <3>4. ram[p - slot.count + 1] \in LogRec
      BY <3>3, ElementOfSeq DEF Logged
    <3> QED  BY <2>1, <3>1, <3>4, WrittenRec
  <2>2. Device[Rec(t, p)] \subseteq LogRec
    BY DEF OnDisk, Blocks
  <2> QED  BY <2>1, <2>2, DeviceAt, Addresses
<1> QED  BY <1>1, <1>2, <1>3 DEF Blocks

\* A header being written is either that of a slot being started, empty, or
\* that of the active slot.
LEMMA HeadMidway ==
    ASSUME Sound, NEW t \in Slot, NEW h \in Midway[Hdr(t)]
    PROVE  /\ h \in HeadBlock
           /\ \/ h \in Device[Hdr(t)]
              \/ /\ t = slot.index /\ h.count = slot.count /\ h.boot = Boot /\ h.last = slot.last
                 /\ h.state # "blank" /\ HeadPc
                 /\ slot.active \/ (job.pc = "start" /\ h.count = 0)
<1>1. h \in HeadBlock
  BY MidwayBlocks DEF Blocks
<1>2. CASE Hdr(t) \in DOMAIN Writes /\ h = Writes[Hdr(t)]
  <2>1. /\ HeadPc /\ t = slot.index /\ h.count = slot.count /\ h.boot = Boot
        /\ h.last = slot.last /\ h.state # "blank"
    BY <1>2, WrittenHead DEF Sound
  <2> QED  BY <1>1, <2>1 DEF HeadPc, Sound, Working
<1> QED  BY <1>1, <1>2, DeviceAt, Addresses

LEMMA RecMidway ==
    ASSUME Sound, NEW t \in Slot, NEW p \in 0..Capacity - 1, NEW r \in Midway[Rec(t, p)]
    PROVE  /\ r \in LogRec
           /\ \/ r \in Device[Rec(t, p)]
              \/ job.pc = "data" /\ slot.active /\ t = slot.index /\ slot.count <= p
<1>1. r \in LogRec
  BY MidwayBlocks DEF Blocks
<1>2. p \in Nat
  BY Constants
<1> QED  BY <1>1, <1>2, DeviceAt, Addresses, WrittenRec DEF Sound, Working

\* Headers count only what is reached.
LEMMA CountedReached ==
    ASSUME Sound, NEW t \in Slot, NEW h \in Midway[Hdr(t)], NEW p \in 0..h.count - 1
    PROVE  p \in Reached(Midway, t) /\ p \in 0..Capacity - 1
<1>1. h \in HeadBlock /\ h.count \in 0..Capacity
  BY HeadMidway DEF HeadBlock
<1>2. p \in 0..Capacity - 1 /\ p < h.count
  BY <1>1, Constants
<1>3. CASE slot.active /\ slot.index = t
  <2>1. slot.count \in Nat /\ h.count \in Nat /\ p \in Nat
    <3>1. slot.count \in Nat
      BY Fields DEF Sound
    <3> QED  BY <1>1, <3>1, Constants
  <2>2. h \in Device[Hdr(t)] => h.count <= slot.count
    BY <1>3 DEF Sound, Own
  <2>3. h.count <= slot.count
    BY <2>1, <2>2, HeadMidway
  <2>4. p < slot.count
    BY <1>2, <2>1, <2>3
  <2> QED  BY <1>2, <1>3, <2>4 DEF Reached
<1>4. CASE ~(slot.active /\ slot.index = t)
  BY <1>2, <1>4 DEF Reached
<1> QED  BY <1>2, <1>3, <1>4

\* What is reached in the middle of a write was there before.
LEMMA ReachedIsOld ==
    ASSUME Sound, NEW t \in Slot, NEW p \in Reached(Midway, t)
    PROVE  p \in Reached(Device, t) /\ Midway[Rec(t, p)] \subseteq Device[Rec(t, p)]
<1>1. p \in 0..Capacity - 1 /\ p \in Nat
  BY Constants DEF Reached
<1>2. CASE slot.active /\ slot.index = t
  <2>1. p < slot.count /\ p \in Reached(Device, t)
    BY <1>2 DEF Reached
  <2>2. slot.count \in Nat
    BY Fields DEF Sound
  <2>3. Midway[Rec(t, p)] \subseteq Device[Rec(t, p)]
    BY <1>1, <2>1, <2>2, RecMidway
  <2> QED  BY <2>1, <2>3
<1>3. CASE ~(slot.active /\ slot.index = t)
  <2>1. PICK h \in Midway[Hdr(t)] : p < h.count
    BY <1>3 DEF Reached
  <2>2. h \in Device[Hdr(t)]
    BY <1>1, <1>3, <2>1, HeadMidway
  <2>3. p \in Reached(Device, t)
    BY <1>1, <1>3, <2>1, <2>2 DEF Reached
  <2> QED  BY <1>1, <1>3, <2>3, RecMidway
<1> QED  BY <1>2, <1>3

LEMMA FoundIsOld ==
    ASSUME Sound, NEW t \in Slot
    PROVE  Found(Midway, t) \subseteq Found(Device, t)
BY ReachedIsOld DEF Found

LEMMA MidwayCounts ==
    ASSUME Sound
    PROVE  Counts(Midway)
<1> SUFFICES ASSUME NEW t \in Slot, NEW h \in Midway[Hdr(t)]
             PROVE  /\ h.count > 0 => h.state # "blank"
                    /\ \A p \in 0..h.count - 1 : \A r \in Midway[Rec(t, p)] :
                        r.boot = h.boot /\ r.id # 0
  BY DEF Counts
<1>1. h.count > 0 => h.state # "blank"
  BY HeadMidway DEF Sound, Counts
<1>2. ASSUME NEW p \in 0..h.count - 1, NEW r \in Midway[Rec(t, p)]
      PROVE  r.boot = h.boot /\ r.id # 0
  <2>1. r \in Device[Rec(t, p)]
    BY CountedReached, ReachedIsOld
  <2>2. CASE h \in Device[Hdr(t)]
    BY <2>1, <2>2 DEF Sound, Counts
  <2>3. CASE h \notin Device[Hdr(t)]
    <3>1. t = slot.index /\ h.count = slot.count /\ h.boot = Boot /\ slot.active
      <4>1. h.count # 0
        BY HeadMidway DEF HeadBlock
      <4> QED  BY <2>3, <4>1, HeadMidway
    <3> QED  BY <2>1, <3>1 DEF Sound, Own
  <2> QED  BY <2>2, <2>3
<1> QED  BY <1>1, <1>2

LEMMA MidwayKeeps ==
    ASSUME Sound, Keeps(Device)
    PROVE  Keeps(Midway)
<1> SUFFICES ASSUME NEW k \in kept
             PROVE  \E p \in 0..Capacity - 1 :
                        /\ \A h \in Midway[Hdr(k.slot)] : p < h.count
                        /\ \A r \in Midway[Rec(k.slot, p)] : r.id = k.id
  BY DEF Keeps
<1>1. k.slot \in Slot
  BY DEF Sound, Logged
<1>2. PICK p \in 0..Capacity - 1 :
        /\ \A h \in Device[Hdr(k.slot)] : p < h.count
        /\ \A r \in Device[Rec(k.slot, p)] : r.id = k.id
  BY DEF Keeps
<1>3. PICK g \in Device[Hdr(k.slot)] : p < g.count
  BY <1>1, <1>2, DeviceAt, Addresses
<1>4. p \in Nat /\ g.count \in Nat /\ slot.count \in Nat
  <2>1. Device[Hdr(k.slot)] \subseteq HeadBlock
    BY <1>1 DEF Sound, OnDisk, Blocks
  <2>2. g.count \in 0..Capacity
    BY <1>3, <2>1 DEF HeadBlock
  <2> QED  BY <2>2, Constants, Fields DEF Sound
<1>5. ASSUME NEW h \in Midway[Hdr(k.slot)] PROVE p < h.count
  <2>1. CASE h \in Device[Hdr(k.slot)]
    BY <1>2, <2>1
  <2>2. CASE h \notin Device[Hdr(k.slot)]
    <3>1. k.slot = slot.index /\ h.count = slot.count /\ (slot.active \/ job.pc = "start")
      BY <1>1, <2>2, HeadMidway
    <3>2. slot.active
      BY <3>1 DEF Sound, Own
    <3>3. g.count <= slot.count
      BY <1>3, <3>1, <3>2 DEF Sound, Own
    <3> QED  BY <1>3, <1>4, <3>1, <3>3
  <2> QED  BY <2>1, <2>2
<1>6. p \in Reached(Midway, k.slot)
  <2>1. g \in Midway[Hdr(k.slot)] /\ p \in 0..g.count - 1
    BY <1>1, <1>3, <1>4, DeviceAt, Addresses
  <2> QED  BY <1>1, <2>1, CountedReached
<1>7. \A r \in Midway[Rec(k.slot, p)] : r.id = k.id
  BY <1>1, <1>2, <1>6, ReachedIsOld
<1> QED  BY <1>5, <1>7

\* The superblock under way has a higher generation than any other.
New == NextSuper(IF job.pc = "enter" THEN slot.index ELSE None)

LEMMA ChosenMidway ==
    ASSUME Sound, InCharge, NEW w \in Chosen(Midway)
    PROVE  w \in Chosen(Device) \/ (SuperPc /\ w = New)
<1>1. PICK x \in Midway[Super(0)], y \in Midway[Super(1)] : w = Wins(x, y)
  BY DEF Chosen
<1>2. Super(0) \in Addr /\ Super(1) \in Addr
  BY Addresses
<1>3. Device[Super(0)] \subseteq SuperBlock /\ Device[Super(1)] \subseteq SuperBlock
  BY DEF Sound, OnDisk, Blocks
<1>4. x \in Device[Super(0)] \/ (SuperPc /\ x = New /\ 0 = 1 - super.copy)
  BY <1>2, DeviceAt, WrittenSuper DEF New, Sound
<1>5. y \in Device[Super(1)] \/ (SuperPc /\ y = New /\ 1 = 1 - super.copy)
  BY <1>2, DeviceAt, WrittenSuper DEF New, Sound
<1>6. New.gen = super.gen + 1 /\ super.gen \in Nat /\ super.copy \in {0, 1}
  BY Fields DEF New, NextSuper, Sound
<1>7. SuperPc => \A z \in Device[Super(super.copy)] : z.gen <= super.gen
  BY DEF Sound, Working, SuperPc, InCharge
<1>8. CASE x \in Device[Super(0)] /\ y \in Device[Super(1)]
  BY <1>1, <1>8 DEF Chosen
<1>9. CASE x \notin Device[Super(0)]
  <2>1. x = New /\ SuperPc /\ y \in Device[Super(1)]
    BY <1>4, <1>5, <1>6, <1>9
  <2>2. y.gen <= super.gen /\ y.gen \in Nat
    BY <1>3, <1>4, <1>5, <1>6, <1>7, <1>9, <2>1 DEF SuperBlock
  <2> QED  BY <1>1, <1>6, <2>1, <2>2 DEF Wins
<1>10. CASE y \notin Device[Super(1)]
  <2>1. y = New /\ SuperPc /\ x \in Device[Super(0)]
    BY <1>4, <1>5, <1>6, <1>10
  <2>2. x.gen <= super.gen /\ x.gen \in Nat
    BY <1>3, <1>4, <1>5, <1>6, <1>7, <1>10, <2>1 DEF SuperBlock
  <2> QED  BY <1>1, <1>6, <2>1, <2>2 DEF Wins
<1> QED  BY <1>8, <1>9, <1>10

LEMMA MidwayNumbers ==
    ASSUME LogInv, ~spent.back
    PROVE  Tops(Midway) /\ Follows(Midway) /\ Later(Midway)
<1>1. Sound /\ InCharge /\ Tops(Device) /\ Follows(Device) /\ Later(Device)
  BY DEF LogInv, Sound, NumbersGrow
<1>2. Tops(Midway)
  <2> SUFFICES ASSUME NEW t \in Slot, NEW h \in Midway[Hdr(t)],
                      NEW p \in 0..h.count - 1, NEW r \in Midway[Rec(t, p)]
               PROVE  r.seq <= h.last
    BY DEF Tops
  <2>1. r \in Device[Rec(t, p)]
    BY <1>1, CountedReached, ReachedIsOld
  <2>2. CASE h \in Device[Hdr(t)]
    BY <1>1, <2>1, <2>2 DEF Tops
  <2>3. CASE h \notin Device[Hdr(t)]
    <3>1. t = slot.index /\ h.count = slot.count /\ h.last = slot.last /\ slot.active
      <4>1. h.count # 0
        BY <1>1, HeadMidway DEF HeadBlock
      <4> QED  BY <1>1, <2>3, <4>1, HeadMidway
    <3> QED  BY <2>1, <3>1 DEF LogInv, NumbersGrow
  <2> QED  BY <2>2, <2>3
<1>3. Follows(Midway)
  <2> SUFFICES ASSUME NEW w \in Chosen(Midway), NEW t \in Slot, t # w.active,
                      NEW r \in Found(Midway, t)
               PROVE  r.seq < w.next
    BY DEF Follows
  <2>1. r \in Found(Device, t)
    BY <1>1, FoundIsOld
  <2>2. CASE w \in Chosen(Device)
    BY <1>1, <2>1, <2>2 DEF Follows
  <2>3. CASE SuperPc /\ w = New
    <3>1. up = "mounted" /\ w.next = seq
      BY <1>1, <2>3 DEF Sound, Working, SuperPc, New, NextSuper
    <3> QED  BY <1>1, <2>1, <3>1 DEF Later
  <2> QED  BY <1>1, <2>2, <2>3, ChosenMidway
<1>4. Later(Midway)
  BY <1>1, FoundIsOld DEF Later
<1> QED  BY <1>2, <1>3, <1>4
-----------------------------------------------------------------------------
\* A write, or the power cut in the middle of it, leaves nothing else.
DiskStep == \A a \in Addr : Device'[a] \subseteq Midway[a]

LEMMA CountsAfter ==
    ASSUME Sound, DiskStep
    PROVE  Blocks(Device)' /\ Counts(Device)' /\ (Tops(Midway) => Tops(Device)')
<1>1. Blocks(Midway) /\ Counts(Midway)
  BY MidwayBlocks, MidwayCounts
<1>2. Blocks(Device)'
  BY <1>1, Addresses DEF DiskStep, Blocks
<1>3. ASSUME NEW t \in Slot, NEW h \in Device'[Hdr(t)]
      PROVE  /\ h \in Midway[Hdr(t)]
             /\ \A p \in 0..h.count - 1 : Device'[Rec(t, p)] \subseteq Midway[Rec(t, p)]
  <2>1. h \in Midway[Hdr(t)]
    BY Addresses DEF DiskStep
  <2>2. \A p \in 0..h.count - 1 : p \in 0..Capacity - 1
    BY <2>1, CountedReached
  <2> QED  BY <2>1, <2>2, Addresses DEF DiskStep
<1>4. Counts(Device)'
  BY <1>1, <1>3 DEF Counts
<1>5. Tops(Midway) => Tops(Device)'
  BY <1>3 DEF Tops
<1> QED  BY <1>2, <1>4, <1>5

LEMMA KeptAfter ==
    ASSUME Sound, DiskStep, Keeps(Device), NEW k \in kept
    PROVE  \E p \in 0..Capacity - 1 :
                /\ \A h \in Device'[Hdr(k.slot)] : p < h.count
                /\ \A r \in Device'[Rec(k.slot, p)] : r.id = k.id
<1>1. k.slot \in Slot
  BY DEF Sound, Logged
<1>2. PICK p \in 0..Capacity - 1 :
        /\ \A h \in Midway[Hdr(k.slot)] : p < h.count
        /\ \A r \in Midway[Rec(k.slot, p)] : r.id = k.id
  BY MidwayKeeps DEF Keeps
<1> QED  BY <1>1, <1>2, Addresses DEF DiskStep

LEMMA ChosenAfter ==
    ASSUME DiskStep
    PROVE  Chosen(Device)' \subseteq Chosen(Midway)
<1>1. Device'[Super(0)] \subseteq Midway[Super(0)] /\ Device'[Super(1)] \subseteq Midway[Super(1)]
  BY Addresses DEF DiskStep
<1> QED  BY <1>1 DEF Chosen, Wins

\* The slot is as it was, or begins, or is left.
SlotStep ==
    slot'.active => /\ slot'.index = slot.index
                    /\ \/ slot'.count = 0
                       \/ slot.active /\ slot'.count = slot.count /\ slot'.last = slot.last

LEMMA FoundAfter ==
    ASSUME Sound, DiskStep, SlotStep, Blocks(Device)', NEW t \in Slot
    PROVE  Found(Device, t)' \subseteq Found(Midway, t)
<1> SUFFICES ASSUME NEW p \in Reached(Device, t)'
             PROVE  p \in Reached(Midway, t) /\ Device'[Rec(t, p)] \subseteq Midway[Rec(t, p)]
  BY DEF Found
<1>1. p \in 0..Capacity - 1 /\ p \in Nat
  BY Constants DEF Reached
<1>2. p \in Reached(Midway, t)
  <2>1. CASE slot'.active /\ slot'.index = t
    <3>1. p < slot'.count
      BY <2>1 DEF Reached
    <3>2. slot.active /\ slot.index = t /\ p < slot.count
      BY <1>1, <2>1, <3>1 DEF SlotStep
    <3> QED  BY <1>1, <3>2 DEF Reached
  <2>2. CASE ~(slot'.active /\ slot'.index = t)
    <3>1. PICK h \in Device'[Hdr(t)] : p < h.count
      BY <2>2 DEF Reached
    <3>2. h \in Midway[Hdr(t)]
      BY Addresses DEF DiskStep
    <3>3. h.count \in Nat
      BY <3>2, HeadMidway, Constants DEF HeadBlock
    <3>4. p \in 0..h.count - 1
      BY <1>1, <3>1, <3>3
    <3> QED  BY <3>2, <3>4, CountedReached
  <2> QED  BY <2>1, <2>2
<1> QED  BY <1>1, <1>2, Addresses DEF DiskStep

\* The ring goes on, or its boot is over.
RingStep ==
    /\ Boot <= Boot'
    /\ up' = "mounted" =>
        /\ up = "mounted" /\ Boot' = Boot /\ seq <= seq'
        /\ \A n \in Nat : n < seq /\ Above(Ring, n) => Above(Ring, n)'

LEMMA NumbersAfter ==
    ASSUME LogInv, DiskStep, SlotStep, RingStep, spent'.back = spent.back, Logged'
    PROVE  NumbersGrow'
<1> SUFFICES ASSUME ~spent.back
             PROVE  /\ Tops(Device)' /\ Follows(Device)' /\ Later(Device)'
                    /\ slot'.active => \A p \in 0..slot'.count - 1 :
                        \A r \in Device'[Rec(slot'.index, p)] : r.seq <= slot'.last
  BY DEF NumbersGrow
<1>1. Sound /\ Blocks(Device)'
  BY CountsAfter DEF LogInv, Sound
<1>2. Tops(Midway) /\ Follows(Midway) /\ Later(Midway)
  BY MidwayNumbers
<1>3. Tops(Device)'
  BY <1>1, <1>2, CountsAfter
<1>4. \A t \in Slot : Found(Device, t)' \subseteq Found(Midway, t)
  BY <1>1, FoundAfter
<1>5. Follows(Device)'
  BY <1>2, <1>4, ChosenAfter DEF Follows
<1>6. Later(Device)'
  <2>1. ASSUME NEW t \in Slot, NEW r \in Found(Midway, t) PROVE r.seq \in Nat /\ r.boot \in Nat
    <3>1. PICK p \in Reached(Midway, t) : r \in Midway[Rec(t, p)]
      BY DEF Found
    <3>2. r \in LogRec
      BY <1>1, <3>1, RecMidway DEF Reached
    <3> QED  BY <3>2 DEF LogRec
  <2>2. Boot \in Nat /\ Boot' \in Nat /\ seq \in Nat /\ seq' \in Nat
    BY Fields DEF LogInv, Logged, Boot
  <2>3. \A t, u \in Slot : \A q \in Found(Device, t)', r \in Found(Device, u)' :
            q.boot < r.boot => q.seq < r.seq
    BY <1>2, <1>4 DEF Later
  <2>4. ASSUME NEW t \in Slot, NEW r \in Found(Device, t)' PROVE r.boot <= Boot'
    BY <1>2, <1>4, <2>1, <2>2 DEF Later, RingStep
  <2>5. ASSUME up' = "mounted", NEW t \in Slot, NEW r \in Found(Device, t)'
        PROVE  r.seq < seq' /\ (r.boot < Boot' => Above(Ring, r.seq)')
    <3>1. r \in Found(Midway, t)
      BY <1>4
    <3>2. up = "mounted" /\ Boot' = Boot /\ seq <= seq'
          /\ \A n \in Nat : n < seq /\ Above(Ring, n) => Above(Ring, n)'
      BY <2>5 DEF RingStep
    <3>3. r.seq < seq /\ (r.boot < Boot => Above(Ring, r.seq))
      BY <1>2, <3>1, <3>2 DEF Later
    <3> QED  BY <2>1, <2>2, <3>1, <3>2, <3>3
  <2> QED  BY <2>3, <2>4, <2>5 DEF Later
<1>7. ASSUME slot'.active, NEW p \in 0..slot'.count - 1, NEW r \in Device'[Rec(slot'.index, p)]
      PROVE  r.seq <= slot'.last
  <2>1. slot'.count \in 0..Capacity /\ slot'.index \in Slot
    BY DEF Logged
  <2>2. p \in Nat /\ p < slot'.count /\ p \in 0..Capacity - 1
    BY <2>1, Constants
  <2>3. slot.active /\ slot'.index = slot.index /\ slot'.count = slot.count /\ slot'.last = slot.last
    BY <1>7, <2>2 DEF SlotStep
  <2>4. p \in Reached(Midway, slot.index)
    BY <2>2, <2>3 DEF Reached
  <2>5. r \in Device[Rec(slot.index, p)]
    BY <1>1, <2>1, <2>2, <2>3, <2>4, ReachedIsOld, Addresses DEF DiskStep
  <2> QED  BY <2>3, <2>5 DEF LogInv, NumbersGrow
<1> QED  BY <1>3, <1>5, <1>6, <1>7

LEMMA OwnStays ==
    ASSUME Sound, DiskStep, SlotStep, Logged', job'.pc \notin {"start", "check"},
           slot'.active \/ job'.pc = "enter" =>
                /\ slot.active \/ job.pc = "enter"
                /\ slot'.index = slot.index /\ slot'.count = slot.count /\ Boot' = Boot
    PROVE  Own'
<1>1. ASSUME slot'.active \/ job'.pc = "enter", NEW h \in Device'[Hdr(slot'.index)]
      PROVE  h.boot = Boot' /\ h.count <= slot'.count
  <2>1. slot.index \in Slot /\ slot.count \in Nat
    BY Fields DEF Sound
  <2>2. h \in Midway[Hdr(slot.index)]
    BY <1>1, <2>1, Addresses DEF DiskStep
  <2>3. CASE h \in Device[Hdr(slot.index)]
    BY <1>1, <2>3 DEF Sound, Own
  <2>4. CASE h \notin Device[Hdr(slot.index)]
    BY <1>1, <2>1, <2>2, <2>4, HeadMidway
  <2> QED  BY <2>3, <2>4
<1>2. ASSUME slot'.active, NEW p \in 0..slot'.count - 1, NEW r \in Device'[Rec(slot'.index, p)]
      PROVE  r.boot = Boot' /\ r.id # 0
  <2>1. slot.index \in Slot /\ slot.count \in Nat /\ slot.count <= Capacity
    BY Fields DEF Sound
  <2>2. p \in Nat /\ p < slot.count /\ p \in 0..Capacity - 1 /\ slot'.index = slot.index
        /\ slot'.count = slot.count
    BY <1>2, <2>1, Constants
  <2>3. slot.active
    BY <1>2, <2>2 DEF SlotStep
  <2>4. p \in Reached(Midway, slot.index)
    BY <2>2, <2>3 DEF Reached
  <2>5. r \in Device[Rec(slot.index, p)]
    BY <2>1, <2>2, <2>4, ReachedIsOld, Addresses DEF DiskStep
  <2> QED  BY <1>2, <2>2, <2>3, <2>5 DEF Sound, Own
<1> QED  BY <1>1, <1>2 DEF Own

LEMMA InChargeStays ==
    ASSUME Sound, InCharge, DiskStep,
           up' = "mounted" =>
                /\ up = "mounted" /\ super'.gen \in Nat /\ super.gen <= super'.gen
                /\ \/ super'.copy = super.copy
                   \/ \A x \in Device'[Super(super'.copy)] : x.gen <= super'.gen
                /\ slot'.active /\ slot'.count < Capacity =>
                    /\ slot.active /\ slot.count < Capacity /\ slot'.index = slot.index
                    /\ ~SuperPc
    PROVE  InCharge'
<1> SUFFICES ASSUME up' = "mounted"
             PROVE  /\ \A x \in Device'[Super(super'.copy)] : x.gen <= super'.gen
                    /\ slot'.active /\ slot'.count < Capacity =>
                        \A w \in Chosen(Device)' : w.active = slot'.index
  BY DEF InCharge
<1>1. ASSUME NEW x \in Device'[Super(super'.copy)] PROVE x.gen <= super'.gen
  <2>1. CASE super'.copy = super.copy
    <3>1. super.copy \in {0, 1} /\ super.gen \in Nat
      BY Fields DEF Sound
    <3>2. x \in Midway[Super(super.copy)]
      BY <2>1, <3>1, Addresses DEF DiskStep
    <3>3. Super(super.copy) \notin DOMAIN Writes
      BY <3>1, WrittenSuper DEF Sound
    <3>4. x \in Device[Super(super.copy)]
      BY <3>1, <3>2, <3>3, DeviceAt, Addresses
    <3>5. x.gen <= super.gen
      BY <3>4 DEF InCharge
    <3>6. x.gen \in Nat
      BY <3>1, <3>4 DEF Sound, OnDisk, Blocks, SuperBlock
    <3> QED  BY <3>1, <3>5, <3>6
  <2> QED  BY <2>1
<1>2. ASSUME slot'.active, slot'.count < Capacity, NEW w \in Chosen(Device)'
      PROVE  w.active = slot'.index
  <2>1. w \in Chosen(Device)
    BY <1>2, ChosenAfter, ChosenMidway
  <2> QED  BY <1>2, <2>1 DEF InCharge
<1> QED  BY <1>1, <1>2

LEMMA StepKeeps ==
    ASSUME LogInv, DiskStep, SlotStep, RingStep, spent'.back = spent.back,
           kept' \subseteq kept \/ Keeps(Device)', DOMAIN media' = Addr, DOMAIN pending' \subseteq Addr,
           Logged', Numbered', Working', Own', InCharge'
    PROVE  LogInv'
<1>1. Sound /\ Keeps(Device)
  BY DEF LogInv, Sound
<1>2. OnDisk' /\ Counts(Device)'
  BY <1>1, CountsAfter DEF OnDisk
<1>4. Keeps(Device)'
  BY <1>1, KeptAfter DEF Keeps
<1>3. NumbersGrow'
  BY NumbersAfter
<1> QED  BY <1>2, <1>3, <1>4 DEF LogInv

\* A step that leaves the disk alone.
LEMMA QuietDisk ==
    ASSUME OnDisk, UNCHANGED <<media, pending>>
    PROVE  DiskStep /\ Device' = Device /\ DOMAIN media' = Addr /\ DOMAIN pending' \subseteq Addr
<1>1. Device' = Device
  BY DEF Device
<1> QED  BY <1>1, DeviceAt DEF DiskStep, OnDisk

LEMMA QuietKeeps ==
    ASSUME LogInv, UNCHANGED <<media, pending, super, slot, kept>>, RingStep,
           Boot' = Boot, spent'.back = spent.back,
           job'.pc \notin {"start", "check", "enter"},
           Logged', Numbered', Working'
    PROVE  LogInv'
<1>1. Sound /\ InCharge /\ OnDisk
  BY DEF LogInv, Sound
<1>2. DiskStep /\ Device' = Device /\ DOMAIN media' = Addr /\ DOMAIN pending' \subseteq Addr
  BY <1>1, QuietDisk
<1>3. SlotStep
  BY DEF SlotStep
<1>4. Own'
  BY <1>1, <1>2, <1>3, OwnStays
<1>5. InCharge'
  BY <1>1, <1>2 DEF InCharge, RingStep, Chosen
<1> QED  BY <1>2, <1>3, <1>4, <1>5, StepKeeps
-----------------------------------------------------------------------------
\* The ring of memory, as Record changes it.
RingOK(r) ==
    /\ r \in [ram : Seq(LogRec), seq : Nat, made : Nat, dropped : Nat]
    /\ Len(r.ram) <= RamRecords
    /\ \A i \in 1..Len(r.ram) :
        /\ r.ram[i].boot = Boot /\ r.ram[i].id # 0 /\ r.ram[i].seq < r.seq
        /\ \A j \in 1..i - 1 : r.ram[j].seq < r.ram[i].seq

Grown(r, s) ==
    /\ RingOK(s) /\ r.seq <= s.seq /\ r.dropped <= s.dropped /\ Len(r.ram) <= Len(s.ram)
    /\ \A n \in Nat : Above(r, n) => Above(s, n)

LEMMA RingIsOK ==
    ASSUME Logged, Numbered
    PROVE  RingOK(Ring) /\ Ring.ram = ram /\ Ring.seq = seq /\ Ring.dropped = lost.dropped
BY DEF Logged, Numbered, Ring, RingOK

LEMMA SetFields ==
    ASSUME NEW A, NEW r \in [ram : A, seq : Nat, made : Nat, dropped : Nat],
           NEW w \in A, NEW x \in Nat, NEW y \in Nat, NEW z \in Nat,
           NEW s, s = [r EXCEPT !.ram = w, !.dropped = x, !.seq = y, !.made = z]
    PROVE  /\ s \in [ram : A, seq : Nat, made : Nat, dropped : Nat]
           /\ s.ram = w /\ s.seq = y /\ s.made = z /\ s.dropped = x
OBVIOUS

LEMMA RecordFields ==
    ASSUME Logged, NEW r, RingOK(r), NEW limit \in {RamRecords, RamNormal, RamSampled}
    PROVE  LET s == Record(r, limit)
               new == [seq |-> r.seq, id |-> r.made + 1, boot |-> Boot] IN
           /\ s \in [ram : Seq(LogRec), seq : Nat, made : Nat, dropped : Nat]
           /\ s.seq = r.seq + 1 /\ r.dropped <= s.dropped
           /\ s.ram = IF Len(r.ram) >= limit THEN r.ram ELSE Append(r.ram, new)
<1> DEFINE new == [seq |-> r.seq, id |-> r.made + 1, boot |-> Boot]
           w == IF Len(r.ram) >= limit THEN r.ram ELSE Append(r.ram, new)
           x == IF Len(r.ram) >= limit THEN r.dropped + 1 ELSE r.dropped
           s == Record(r, limit)
<1>1. /\ r \in [ram : Seq(LogRec), seq : Nat, made : Nat, dropped : Nat]
      /\ r.ram \in Seq(LogRec) /\ r.seq \in Nat /\ r.made \in Nat /\ r.dropped \in Nat
      /\ Boot \in Nat
  BY Fields DEF RingOK
<1>2. new \in LogRec
  BY <1>1 DEF LogRec
<1>3. s = [r EXCEPT !.ram = w, !.dropped = x, !.seq = r.seq + 1, !.made = r.made + 1]
  BY DEF Record
<1>4. w \in Seq(LogRec) /\ x \in Nat /\ r.dropped <= x
  <2> HIDE DEF new
  <2>1. Append(r.ram, new) \in Seq(LogRec)
    BY <1>1, <1>2, AppendProperties
  <2> QED  BY <1>1, <2>1
<1>5. r.seq + 1 \in Nat /\ r.made + 1 \in Nat
  BY <1>1
<1> HIDE DEF w, x, s
<1>6. /\ s \in [ram : Seq(LogRec), seq : Nat, made : Nat, dropped : Nat]
      /\ s.ram = w /\ s.seq = r.seq + 1 /\ s.dropped = x
  BY <1>1, <1>3, <1>4, <1>5, SetFields
<1> QED  BY <1>4, <1>6 DEF w, s

LEMMA RecordGrows ==
    ASSUME Logged, NEW r, RingOK(r), NEW limit \in {RamRecords, RamNormal, RamSampled}
    PROVE  Grown(r, Record(r, limit))
<1> DEFINE s == Record(r, limit)
           new == [seq |-> r.seq, id |-> r.made + 1, boot |-> Boot]
<1>1. /\ r.ram \in Seq(LogRec) /\ Len(r.ram) \in Nat /\ Len(r.ram) <= RamRecords
      /\ r.seq \in Nat /\ r.made \in Nat /\ r.dropped \in Nat /\ Boot \in Nat
  BY Fields DEF RingOK
<1>2. limit <= RamRecords /\ limit \in Nat /\ RamRecords \in Nat
  BY Constants
<1>3. new \in LogRec /\ new.id # 0 /\ new.boot = Boot /\ new.seq = r.seq
  BY <1>1 DEF LogRec
<1>4. \A i \in 1..Len(r.ram) : r.ram[i].seq \in Nat
  <2>1. \A i \in 1..Len(r.ram) : r.ram[i] \in LogRec
    BY <1>1, ElementOfSeq
  <2> QED  BY <2>1 DEF LogRec
<1>5. /\ s \in [ram : Seq(LogRec), seq : Nat, made : Nat, dropped : Nat]
      /\ s.seq = r.seq + 1 /\ r.dropped <= s.dropped
      /\ s.ram = IF Len(r.ram) >= limit THEN r.ram ELSE Append(r.ram, new)
  BY RecordFields
<1> HIDE DEF s, new
<1>6. CASE Len(r.ram) >= limit
  <2>1. s.ram = r.ram
    BY <1>5, <1>6
  <2>2. RingOK(s)
    BY <1>1, <1>4, <1>5, <2>1 DEF RingOK
  <2>3. \A n \in Nat : Above(r, n) => Above(s, n)
    BY <1>1, <1>5, <2>1 DEF Above
  <2>4. Grown(r, s)
    BY <1>1, <1>5, <2>1, <2>2, <2>3 DEF Grown
  <2> QED  BY <2>4 DEF s
<1>7. CASE Len(r.ram) < limit
  <2> DEFINE q == s.ram
  <2>1. q = Append(r.ram, new)
    BY <1>1, <1>2, <1>5, <1>7
  <2>2. /\ q \in Seq(LogRec) /\ Len(q) = Len(r.ram) + 1
        /\ \A i \in 1..Len(r.ram) : q[i] = r.ram[i]
        /\ q[Len(r.ram) + 1] = new
    BY <1>1, <1>3, <2>1, AppendProperties
  <2>3. ASSUME NEW i \in 1..Len(q)
        PROVE  /\ q[i].boot = Boot /\ q[i].id # 0 /\ q[i].seq < s.seq
               /\ \A j \in 1..i - 1 : q[j].seq < q[i].seq
    <3> HIDE DEF q
    <3>1. CASE i \in 1..Len(r.ram)
      <4>1. \A j \in 1..i - 1 : j \in 1..Len(r.ram)
        BY <1>1, <3>1
      <4>2. /\ r.ram[i].boot = Boot /\ r.ram[i].id # 0 /\ r.ram[i].seq < r.seq
            /\ \A j \in 1..i - 1 : r.ram[j].seq < r.ram[i].seq
        BY <3>1 DEF RingOK
      <4>3. q[i] = r.ram[i] /\ \A j \in 1..i - 1 : q[j] = r.ram[j]
        BY <2>2, <3>1, <4>1
      <4>4. r.ram[i].seq < s.seq
        <5>1. r.ram[i].seq \in Nat /\ r.seq \in Nat /\ s.seq = r.seq + 1
          BY <1>1, <1>4, <1>5, <3>1
        <5> QED  BY <4>2, <5>1
      <4>5. \A j \in 1..i - 1 : q[j].seq < q[i].seq
        BY <4>2, <4>3
      <4> QED  BY <4>2, <4>3, <4>4, <4>5
    <3>2. CASE i = Len(r.ram) + 1
      <4>1. \A j \in 1..i - 1 : j \in 1..Len(r.ram)
        BY <1>1, <3>2
      <4>2. \A j \in 1..Len(r.ram) : r.ram[j].seq < r.seq
        BY DEF RingOK
      <4>3. q[i] = new /\ \A j \in 1..i - 1 : q[j] = r.ram[j]
        BY <2>2, <3>2, <4>1
      <4>4. \A j \in 1..i - 1 : q[j].seq < r.seq
        BY <4>1, <4>2, <4>3
      <4>5. r.seq < s.seq
        BY <1>1, <1>5
      <4> QED  BY <1>3, <4>3, <4>4, <4>5
    <3> QED  BY <1>1, <2>2, <3>1, <3>2
  <2>4. RingOK(s)
    <3>1. Len(q) <= RamRecords
      BY <1>1, <1>2, <1>7, <2>2
    <3> QED  BY <1>5, <2>3, <3>1 DEF RingOK
  <2>5. ASSUME NEW n \in Nat, Above(r, n) PROVE Above(s, n)
    <3>1. n < r.seq /\ \A i \in 1..Len(r.ram) : n < r.ram[i].seq
      BY <2>5 DEF Above
    <3>2. ASSUME NEW i \in 1..Len(q) PROVE n < q[i].seq
      <4> HIDE DEF q
      <4>1. CASE i \in 1..Len(r.ram)
        BY <2>2, <3>1, <4>1
      <4>2. CASE i = Len(r.ram) + 1
        BY <1>3, <2>2, <3>1, <4>2
      <4> QED  BY <1>1, <2>2, <4>1, <4>2
    <3>3. n < s.seq
      BY <1>1, <1>5, <3>1
    <3> QED  BY <3>2, <3>3 DEF Above
  <2>6. Grown(r, s)
    BY <1>1, <1>5, <2>2, <2>4, <2>5 DEF Grown
  <2> QED  BY <2>6 DEF s
<1> QED  BY <1>1, <1>2, <1>6, <1>7 DEF s

LEMMA GrownTwice ==
    ASSUME NEW r, NEW s, NEW t, RingOK(r), Grown(r, s), Grown(s, t)
    PROVE  Grown(r, t)
<1>1. /\ r.seq \in Nat /\ s.seq \in Nat /\ t.seq \in Nat
      /\ r.dropped \in Nat /\ s.dropped \in Nat /\ t.dropped \in Nat
      /\ Len(r.ram) \in Nat /\ Len(s.ram) \in Nat /\ Len(t.ram) \in Nat
  BY DEF RingOK, Grown
<1>2. /\ r.seq <= s.seq /\ r.dropped <= s.dropped /\ Len(r.ram) <= Len(s.ram)
      /\ s.seq <= t.seq /\ s.dropped <= t.dropped /\ Len(s.ram) <= Len(t.ram)
  BY DEF Grown
<1>3. r.seq <= t.seq /\ r.dropped <= t.dropped /\ Len(r.ram) <= Len(t.ram)
  BY <1>1, <1>2
<1>4. RingOK(t) /\ \A n \in Nat : Above(r, n) => Above(t, n)
  BY DEF Grown
<1> QED  BY <1>3, <1>4 DEF Grown

\* What a step that sets the ring knows afterwards.
RingSet(r) ==
    /\ ram' = r.ram /\ seq' = r.seq /\ lost'.dropped = r.dropped /\ spent'.made = r.made
    /\ Boot' = Boot /\ spent'.back = spent.back

LEMMA RingAfter ==
    ASSUME Logged, Numbered, NEW r, Grown(Ring, r), RingSet(r), up' = "mounted" => up = "mounted"
    PROVE  /\ RingStep /\ Numbered'
           /\ ram' \in Seq(LogRec) /\ Len(ram') <= RamRecords /\ seq' \in Nat
           /\ r.made \in Nat /\ r.dropped \in Nat /\ lost.dropped <= r.dropped
           /\ Len(ram) <= Len(ram')
<1>1. RingOK(r) /\ Ring.seq = seq /\ Ring.dropped = lost.dropped /\ Ring.ram = ram
  BY RingIsOK DEF Grown
<1>2. Numbered'
  BY <1>1 DEF RingOK, RingSet, Numbered
<1>3. \A n \in Nat : Above(Ring, n) => Above(Ring, n)'
  BY <1>1 DEF Grown, RingSet, Above, Ring
<1>4. Boot \in Nat /\ seq <= seq'
  BY <1>1, Fields DEF Grown, RingSet
<1>5. RingStep
  BY <1>3, <1>4 DEF RingStep, RingSet
<1> QED  BY <1>1, <1>2, <1>5 DEF RingOK, RingSet, Grown
-----------------------------------------------------------------------------
\* Steps that leave the disk alone.
LEMMA GrownSelf ==
    ASSUME NEW r, RingOK(r)
    PROVE  Grown(r, r)
BY DEF Grown, RingOK

LEMMA RingSame ==
    ASSUME Logged, Numbered, UNCHANGED <<ram, seq, spent>>, up' = "mounted" => up = "mounted"
    PROVE  RingStep /\ Numbered' /\ Boot' = Boot
<1>1. Boot' = Boot /\ Boot \in Nat /\ seq \in Nat
  BY Fields DEF Boot
<1>2. Numbered'
  BY <1>1 DEF Numbered
<1>3. \A n \in Nat : Above(Ring, n) => Above(Ring, n)'
  BY DEF Above, Ring
<1> QED  BY <1>1, <1>2, <1>3 DEF RingStep

\* What is set in the records spent and lost, when the ring is.
\* As Logged has it.
SpentType == [made : Nat, events : Nat, faults : Nat, cuts : Nat, back : BOOLEAN]

LEMMA SpentAfter ==
    ASSUME Logged, NEW r, r.made \in Nat, r.dropped \in Nat, lost.dropped <= r.dropped
    PROVE  /\ \A s : s = [spent EXCEPT !.made = r.made] =>
                s \in SpentType /\ s.made = r.made /\ s.cuts = spent.cuts /\ s.back = spent.back
           /\ \A s : s = [spent EXCEPT !.made = r.made, !.events = @ + 1] =>
                s \in SpentType /\ s.made = r.made /\ s.cuts = spent.cuts /\ s.back = spent.back
           /\ \A s : s = [spent EXCEPT !.made = r.made, !.faults = @ + 1] =>
                s \in SpentType /\ s.made = r.made /\ s.cuts = spent.cuts /\ s.back = spent.back
           /\ \A t : t = [lost EXCEPT !.dropped = r.dropped] =>
                /\ t \in [dropped : Nat, reported : Nat] /\ t.reported <= t.dropped
                /\ t.dropped = r.dropped
<1>1. /\ spent \in SpentType /\ spent.events + 1 \in Nat /\ spent.faults + 1 \in Nat
      /\ lost \in [dropped : Nat, reported : Nat] /\ lost.reported <= r.dropped
  <2>1. /\ spent \in SpentType /\ lost \in [dropped : Nat, reported : Nat]
        /\ lost.reported <= lost.dropped
    BY DEF Logged, SpentType
  <2>2. spent.events \in Nat /\ spent.faults \in Nat /\ lost.dropped \in Nat /\ lost.reported \in Nat
    BY <2>1 DEF SpentType
  <2> QED  BY <2>1, <2>2
<1>2. \A s : s = [spent EXCEPT !.made = r.made] =>
        s \in SpentType /\ s.made = r.made /\ s.cuts = spent.cuts /\ s.back = spent.back
  BY <1>1 DEF SpentType
<1>3. \A s : s = [spent EXCEPT !.made = r.made, !.events = @ + 1] =>
        s \in SpentType /\ s.made = r.made /\ s.cuts = spent.cuts /\ s.back = spent.back
  BY <1>1 DEF SpentType
<1>4. \A s : s = [spent EXCEPT !.made = r.made, !.faults = @ + 1] =>
        s \in SpentType /\ s.made = r.made /\ s.cuts = spent.cuts /\ s.back = spent.back
  BY <1>1 DEF SpentType
<1>5. \A t : t = [lost EXCEPT !.dropped = r.dropped] =>
        /\ t \in [dropped : Nat, reported : Nat] /\ t.reported <= t.dropped
        /\ t.dropped = r.dropped
  BY <1>1
<1> QED  BY <1>2, <1>3, <1>4, <1>5, Zenon

LEMMA EventKeeps ==
    ASSUME LogInv, NEW limit \in {RamRecords, RamNormal, RamSampled}, Event(limit)
    PROVE  LogInv'
<1> DEFINE r == Record(Ring, limit)
<1>1. Logged /\ Numbered /\ Working /\ Grown(Ring, r)
  BY RingIsOK, RecordGrows DEF LogInv
<1> HIDE DEF r
<1>2. /\ ram' = r.ram /\ seq' = r.seq /\ lost' = [lost EXCEPT !.dropped = r.dropped]
      /\ spent' = [spent EXCEPT !.made = r.made, !.events = @ + 1]
      /\ UNCHANGED <<laneVars, media, pending, up, super, slot, job, kept>> /\ job.pc = "idle"
  BY DEF Event, r
<1>3. r.made \in Nat /\ r.dropped \in Nat /\ lost.dropped <= r.dropped
  BY <1>1, RingIsOK DEF Grown, RingOK
<1>4. RingSet(r)
  BY <1>1, <1>2, <1>3, SpentAfter DEF RingSet, Boot
<1>5. /\ RingStep /\ Numbered'
      /\ ram' \in Seq(LogRec) /\ Len(ram') <= RamRecords /\ seq' \in Nat
  BY <1>1, <1>2, <1>4, RingAfter
<1>6. Logged'
  BY <1>1, <1>2, <1>3, <1>5, SpentAfter DEF Logged, SpentType
<1>7. Working'
  BY <1>1, <1>2 DEF Working, laneVars
<1> QED  BY <1>2, <1>4, <1>5, <1>6, <1>7, QuietKeeps DEF RingSet

LEMMA RefusedKeeps ==
    ASSUME LogInv, NEW for_good \in BOOLEAN, zllog_mount_refused(for_good)
    PROVE  LogInv'
<1> DEFINE q == Critical(Ring)
           r == Critical(q)
<1>1. Logged /\ Numbered /\ Working /\ RingOK(Ring)
  BY RingIsOK DEF LogInv
<1>2. Grown(Ring, q) /\ RingOK(q)
  BY <1>1, RecordGrows DEF Critical, Grown
<1>3. Grown(Ring, r)
  BY <1>1, <1>2, RecordGrows, GrownTwice DEF Critical
<1> HIDE DEF q
<1>4. /\ ram' = r.ram /\ seq' = r.seq /\ lost' = [lost EXCEPT !.dropped = r.dropped]
      /\ spent' = [spent EXCEPT !.made = r.made, !.faults = @ + 1]
      /\ UNCHANGED <<laneVars, media, pending, super, slot, job, kept>>
      /\ job.pc = "idle" /\ up = "early" /\ up' \in {"early", "refused"}
  BY DEF zllog_mount_refused, q
<1> HIDE DEF r
<1>5. r.made \in Nat /\ r.dropped \in Nat /\ lost.dropped <= r.dropped
  BY <1>1, <1>3, RingIsOK DEF Grown, RingOK
<1>6. RingSet(r)
  BY <1>1, <1>4, <1>5, SpentAfter DEF RingSet, Boot
<1>7. /\ RingStep /\ Numbered'
      /\ ram' \in Seq(LogRec) /\ Len(ram') <= RamRecords /\ seq' \in Nat
  BY <1>1, <1>3, <1>4, <1>6, RingAfter
<1>8. Logged'
  BY <1>1, <1>4, <1>5, <1>7, SpentAfter DEF Logged, SpentType
<1>9. Working'
  BY <1>1, <1>4 DEF Working, laneVars
<1> QED  BY <1>4, <1>6, <1>7, <1>8, <1>9, QuietKeeps DEF RingSet

\* A flush is called, goes on or returns.
LEMMA CallKeeps ==
    ASSUME LogInv,
           (\E completing \in BOOLEAN : FlushCall(completing)) \/ Returning \/ FlushAgain
    PROVE  LogInv'
<1>1. Logged /\ Numbered /\ Working
  BY DEF LogInv
<1>2. /\ UNCHANGED <<media, pending, ram, seq, up, super, slot, lost, kept, spent>>
      /\ drain'.pc = "take" /\ up = "mounted"
      /\ job' \in [pc : Pc, n : 0..Chunk, then : {"data", "end"}, ok : BOOLEAN, completing : BOOLEAN]
      /\ \/ job'.pc = "drain"
         \/ job'.pc = "tail" /\ (job'.ok => slot.active)
  <2>1. CASE \E completing \in BOOLEAN : FlushCall(completing)
    <3>1. PICK completing \in BOOLEAN : FlushCall(completing)
      BY <2>1
    <3>2. NoJob \in [pc : Pc, n : 0..Chunk, then : {"data", "end"}, ok : BOOLEAN, completing : BOOLEAN]
      BY Constants DEF NoJob, Pc
    <3>3. "drain" \in Pc
      BY DEF Pc
    <3>4. job' = [NoJob EXCEPT !.pc = "drain", !.completing = completing]
      BY <3>1 DEF FlushCall
    <3> HIDE DEF NoJob
    <3>5. /\ job'.pc = "drain"
          /\ job' \in [pc : Pc, n : 0..Chunk, then : {"data", "end"}, ok : BOOLEAN, completing : BOOLEAN]
      BY <3>2, <3>3, <3>4
    <3> QED  BY <3>1, <3>5 DEF FlushCall, DrainStart
  <2>2. CASE Returning
    BY <1>1, <2>2 DEF Returning, DrainStart, Logged, Working, Pc
  <2>3. CASE FlushAgain
    BY <1>1, <2>3 DEF FlushAgain, DrainStart, Logged, Working, Pc
  <2> QED  BY <2>1, <2>2, <2>3
<1>3. RingStep /\ Numbered' /\ Boot' = Boot
  BY <1>1, <1>2, RingSame
<1>4. Logged'
  BY <1>1, <1>2 DEF Logged
<1>5. Working'
  BY <1>1, <1>2 DEF Working
<1> QED  BY <1>2, <1>3, <1>4, <1>5, QuietKeeps

LEMMA DrainKeeps ==
    ASSUME LogInv, Drain
    PROVE  LogInv'
<1>1. Logged /\ Numbered /\ Working
  BY DEF LogInv
<1>2. /\ UNCHANGED <<media, pending, up, super, slot, job, kept>>
      /\ job.pc \in {"drain", "tail"}
  BY <1>1 DEF Drain, Working
<1>3. CASE UNCHANGED <<ram, seq, lost, spent>>
  <2>1. RingStep /\ Numbered' /\ Boot' = Boot
    BY <1>1, <1>2, <1>3, RingSame
  <2>2. Logged'
    BY <1>1, <1>2, <1>3 DEF Logged
  <2>3. Working'
    BY <1>1, <1>2, <1>3 DEF Working
  <2> QED  BY <1>2, <1>3, <2>1, <2>2, <2>3, QuietKeeps
<1>4. CASE \E limit \in {RamRecords, RamNormal} : SetRing(Record(Ring, limit))
  <2>1. PICK limit \in {RamRecords, RamNormal} : SetRing(Record(Ring, limit))
    BY <1>4
  <2> DEFINE r == Record(Ring, limit)
  <2>2. Grown(Ring, r)
    BY <1>1, RingIsOK, RecordGrows
  <2> HIDE DEF r
  <2>3. /\ ram' = r.ram /\ seq' = r.seq /\ lost' = [lost EXCEPT !.dropped = r.dropped]
        /\ spent' = [spent EXCEPT !.made = r.made]
    BY <2>1 DEF SetRing, r
  <2>4. r.made \in Nat /\ r.dropped \in Nat /\ lost.dropped <= r.dropped
    BY <1>1, <2>2, RingIsOK DEF Grown, RingOK
  <2>5. RingSet(r)
    BY <1>1, <2>3, <2>4, SpentAfter DEF RingSet, Boot
  <2>6. /\ RingStep /\ Numbered'
        /\ ram' \in Seq(LogRec) /\ Len(ram') <= RamRecords /\ seq' \in Nat
    BY <1>1, <1>2, <2>2, <2>5, RingAfter
  <2>7. Logged'
    BY <1>1, <1>2, <2>3, <2>4, <2>6, SpentAfter DEF Logged, SpentType
  <2>8. Working'
    BY <1>1, <1>2 DEF Working
  <2> QED  BY <1>2, <2>5, <2>6, <2>7, <2>8, QuietKeeps DEF RingSet
<1> QED  BY <1>3, <1>4 DEF Drain

LEMMA ReturnedKeeps ==
    ASSUME LogInv, Returned
    PROVE  LogInv'
<1> DEFINE r == IF job.ok THEN Ring ELSE Critical(Ring)
<1>1. Logged /\ Numbered /\ Working /\ Grown(Ring, r)
  BY RingIsOK, RecordGrows, GrownSelf DEF LogInv, Critical
<1> HIDE DEF r
<1>2. /\ ram' = r.ram /\ seq' = r.seq /\ lost' = [lost EXCEPT !.dropped = r.dropped]
      /\ spent' = [spent EXCEPT !.made = r.made]
      /\ UNCHANGED <<media, pending, super, slot, kept>>
      /\ drain'.pc = "idle" /\ job.pc = "tail"
  BY DEF Returned, SetRing, r, DrainEnd, NoDrain
<1>3. r.made \in Nat /\ r.dropped \in Nat /\ lost.dropped <= r.dropped
  BY <1>1, RingIsOK DEF Grown, RingOK
<1>4. /\ job' \in [pc : Pc, n : 0..Chunk, then : {"data", "end"}, ok : BOOLEAN, completing : BOOLEAN]
      /\ up' \in {up, "halted"} /\ up = "mounted"
      /\ \/ job'.pc = "idle"
         \/ job'.pc \in {"again", "final"} /\ slot.active /\ up' = "mounted"
  <2>1. up = "mounted" /\ up' = IF job.completing /\ ~job.ok THEN "halted" ELSE up
    BY <1>1, <1>2 DEF Returned, Working
  <2>2. CASE job.completing /\ job.ok
    <3>1. slot.active
      BY <1>1, <1>2, <2>2 DEF Working
    <3>2. job' = [job EXCEPT !.pc = IF ram # <<>> THEN "again" ELSE "final"]
      BY <2>2 DEF Returned
    <3> QED  BY <1>1, <2>1, <2>2, <3>1, <3>2 DEF Logged, Pc
  <2>3. CASE ~(job.completing /\ job.ok)
    <3>1. job' = NoJob
      BY <2>3 DEF Returned
    <3> QED  BY <2>1, <3>1, Constants DEF NoJob, Pc
  <2> QED  BY <2>2, <2>3
<1>5. RingSet(r)
  BY <1>1, <1>2, <1>3, SpentAfter DEF RingSet, Boot
<1>6. /\ RingStep /\ Numbered'
      /\ ram' \in Seq(LogRec) /\ Len(ram') <= RamRecords /\ seq' \in Nat
  BY <1>1, <1>4, <1>5, RingAfter
<1>7. Logged'
  BY <1>1, <1>2, <1>3, <1>4, <1>6, SpentAfter DEF Logged, SpentType
<1>8. Working'
  BY <1>1, <1>2, <1>4 DEF Working
<1> QED  BY <1>2, <1>4, <1>5, <1>6, <1>7, <1>8, QuietKeeps DEF RingSet

\* As Logged has it.
JobType == [pc : Pc, n : 0..Chunk, then : {"data", "end"}, ok : BOOLEAN, completing : BOOLEAN]

LEMMA NothingKeeps ==
    ASSUME LogInv, UNCHANGED logVars, drain' = drain
    PROVE  LogInv'
<1>1. Logged /\ Numbered /\ Working /\ OnDisk /\ Own /\ InCharge
  BY DEF LogInv
<1>2. DiskStep /\ Device' = Device /\ DOMAIN media' = Addr /\ DOMAIN pending' \subseteq Addr
  BY <1>1, QuietDisk DEF logVars
<1>3. RingStep /\ Numbered' /\ Boot' = Boot
  BY <1>1, RingSame DEF logVars
<1>4. SlotStep
  BY <1>1 DEF SlotStep, logVars
<1>5. Logged'
  BY <1>1 DEF Logged, logVars
<1>6. Working'
  BY <1>1 DEF Working, logVars
<1>7. Own'
  BY <1>1, <1>2, <1>3 DEF Own, logVars
<1>8. InCharge'
  BY <1>1, <1>2 DEF InCharge, Chosen, logVars
<1> QED  BY <1>2, <1>3, <1>4, <1>5, <1>6, <1>7, <1>8, StepKeeps DEF logVars

LEMMA InterruptKeeps ==
    ASSUME LogInv, NEW i \in Isr, Interrupt(i)
    PROVE  LogInv'
<1>1. drain' = drain
  BY DEF Interrupt, Handle, LoadWrite, LoadRead, Reserve, FillFirst, FillSecond, Publish
<1> QED  BY <1>1, NothingKeeps DEF Interrupt

\* What the flush does with the records it found.
LEMMA WriteOutGoes ==
    ASSUME Logged, NEW records \in Seq(LogRec), WriteOut(records, slot.count)
    PROVE  /\ job' \in JobType
           /\ \/ job'.pc = "return" /\ job'.ok
              \/ job'.pc = "seal" /\ slot.count = Capacity
              \/ job'.pc = "data" /\ job'.n \in 1..Len(records) /\ slot.count + job'.n <= Capacity
<1>1. job \in JobType /\ slot.count \in Nat /\ slot.count <= Capacity
  BY Fields DEF Logged, JobType
<1>2. {"return", "seal", "data"} \subseteq Pc
  BY DEF Pc
<1>3. Len(records) \in Nat /\ (records # <<>> => Len(records) > 0)
  BY EmptySeq
<1>4. CASE records = <<>>
  <2>1. job' = [job EXCEPT !.pc = "return", !.ok = TRUE]
    BY <1>4 DEF WriteOut, Return
  <2> QED  BY <1>1, <1>2, <2>1 DEF JobType
<1>5. CASE records # <<>> /\ SlotFull(slot.count)
  <2>1. job' = [job EXCEPT !.pc = "seal", !.then = "data"]
    BY <1>5 DEF WriteOut
  <2>2. slot.count = Capacity
    BY <1>1, <1>5, Constants DEF SlotFull
  <2> QED  BY <1>1, <1>2, <2>1, <2>2 DEF JobType
<1>6. CASE records # <<>> /\ ~SlotFull(slot.count)
  <2> DEFINE n == Batch(records, slot.count)
  <2>1. job' = [job EXCEPT !.pc = "data", !.n = n]
    BY <1>6 DEF WriteOut
  <2>2. slot.count < Capacity
    BY <1>1, <1>6, Constants DEF SlotFull
  <2>3. n \in Nat /\ 1 <= n /\ n <= Len(records) /\ n <= Chunk /\ slot.count + n <= Capacity
    BY <1>1, <1>3, <1>6, <2>2, Constants DEF Batch, Least
  <2> HIDE DEF n
  <2>4. n \in 0..Chunk /\ n \in 1..Len(records)
    BY <1>3, <2>3, Constants
  <2>5. job' \in JobType /\ job'.pc = "data" /\ job'.n = n
    BY <1>1, <1>2, <2>1, <2>4 DEF JobType
  <2> QED  BY <2>3, <2>4, <2>5
<1> QED  BY <1>4, <1>5, <1>6

\* A slot is started: nothing that was forgotten is in it.
LEMMA StartSlotGoes ==
    ASSUME Logged, NEW then \in {"data", "end"}, StartSlot(then)
    PROVE  /\ job' \in JobType /\ job'.pc = "start"
           /\ slot' \in [active : BOOLEAN, index : Slot, count : 0..Capacity, last : Nat]
           /\ slot'.active = FALSE /\ slot'.count = 0
           /\ kept' \subseteq kept /\ \A k \in kept' : k.slot # slot'.index
<1>1. job \in JobType /\ "start" \in Pc
  BY DEF Logged, JobType, Pc
<1>2. job' = [job EXCEPT !.pc = "start", !.then = then]
  BY DEF StartSlot
<1>3. job' \in JobType /\ job'.pc = "start"
  BY <1>1, <1>2 DEF JobType
<1>4. next_slot \in Slot
  <2>1. /\ super.active \in Nat /\ super.after \in Nat /\ Slots \in Nat /\ Slots > 0
        /\ Slot = 0..Slots - 1
    BY Fields, Constants
  <2>2. \A x \in Nat : (x + 1) % Slots \in 0..Slots - 1
    BY <2>1
  <2>3. 0 \in 0..Slots - 1
    BY <2>1
  <2> QED  BY <2>1, <2>2, <2>3 DEF next_slot
<1>5. slot' = [active |-> FALSE, index |-> next_slot, count |-> 0, last |-> 0]
      /\ kept' = {k \in kept : k.slot # next_slot}
  BY DEF StartSlot
<1> HIDE DEF next_slot
<1> QED  BY <1>3, <1>4, <1>5, Constants

LEMMA StartKeeps ==
    ASSUME LogInv, UNCHANGED <<media, pending, super, up>>, up = "mounted", drain'.pc = "idle",
           NEW then \in {"data", "end"}, StartSlot(then), RingStep,
           Boot' = Boot, spent'.back = spent.back,
           ram' \in Seq(LogRec), Len(ram') <= RamRecords, seq' \in Nat, Numbered',
           spent' \in SpentType, lost' \in [dropped : Nat, reported : Nat],
           lost'.reported <= lost'.dropped
    PROVE  LogInv'
<1>1. Logged /\ OnDisk /\ InCharge
  BY DEF LogInv
<1>2. /\ job' \in JobType /\ job'.pc = "start"
      /\ slot' \in [active : BOOLEAN, index : Slot, count : 0..Capacity, last : Nat]
      /\ slot'.active = FALSE /\ slot'.count = 0
      /\ kept' \subseteq kept /\ \A k \in kept' : k.slot # slot'.index
  BY <1>1, StartSlotGoes
<1>3. DiskStep /\ Device' = Device /\ DOMAIN media' = Addr /\ DOMAIN pending' \subseteq Addr
  BY <1>1, QuietDisk
<1>4. Logged'
  BY <1>1, <1>2 DEF Logged, JobType, SpentType
<1>5. Working'
  BY <1>2 DEF Working
<1>6. Own'
  BY <1>2 DEF Own
<1>7. InCharge'
  BY <1>1, <1>2, <1>3 DEF InCharge
<1> QED  BY <1>2, <1>3, <1>4, <1>5, <1>6, <1>7, StepKeeps DEF SlotStep

LEMMA FlushDrainedKeeps ==
    ASSUME LogInv, FlushDrained
    PROVE  LogInv'
<1> DEFINE r == IF lost.dropped # lost.reported THEN Critical(Ring) ELSE Ring
<1>1. Logged /\ Numbered /\ Working /\ Grown(Ring, r)
  BY RingIsOK, RecordGrows, GrownSelf DEF LogInv, Critical
<1> HIDE DEF r
<1>2. /\ ram' = r.ram /\ seq' = r.seq /\ spent' = [spent EXCEPT !.made = r.made]
      /\ lost' = [dropped |-> r.dropped, reported |-> lost.dropped]
      /\ UNCHANGED <<media, pending, up, super>>
      /\ drain'.pc = "idle" /\ job.pc = "drain" /\ up = "mounted"
  BY <1>1 DEF FlushDrained, r, DrainEnd, NoDrain, Working
<1>3. /\ r.made \in Nat /\ r.dropped \in Nat /\ lost.dropped <= r.dropped /\ lost.dropped \in Nat
      /\ lost'.dropped = r.dropped /\ lost' \in [dropped : Nat, reported : Nat]
      /\ lost'.reported <= lost'.dropped
  <2>1. r.made \in Nat /\ r.dropped \in Nat /\ lost.dropped <= r.dropped
    BY <1>1, RingIsOK DEF Grown, RingOK
  <2>2. lost.dropped \in Nat
    BY <1>1 DEF Logged
  <2> QED  BY <1>2, <2>1, <2>2
<1>4. RingSet(r) /\ spent' \in SpentType
  BY <1>1, <1>2, <1>3, SpentAfter DEF RingSet, Boot
<1>5. /\ RingStep /\ Numbered'
      /\ ram' \in Seq(LogRec) /\ Len(ram') <= RamRecords /\ seq' \in Nat
  BY <1>1, <1>2, <1>4, RingAfter
<1>6. CASE slot.active
  <2>1. WriteOut(ram', slot.count) /\ UNCHANGED <<slot, kept>>
    BY <1>2, <1>6 DEF FlushDrained, r
  <2>2. /\ job' \in JobType
        /\ \/ job'.pc = "return" /\ job'.ok
           \/ job'.pc = "seal" /\ slot.count = Capacity
           \/ job'.pc = "data" /\ job'.n \in 1..Len(ram') /\ slot.count + job'.n <= Capacity
    BY <1>1, <1>5, <2>1, WriteOutGoes
  <2>3. Logged'
    BY <1>1, <1>2, <1>3, <1>4, <1>5, <2>1, <2>2 DEF Logged, JobType, SpentType
  <2>4. Working'
    BY <1>1, <1>2, <1>6, <2>1, <2>2 DEF Working
  <2> QED  BY <1>2, <1>4, <1>5, <2>1, <2>2, <2>3, <2>4, QuietKeeps DEF RingSet
<1>7. CASE ~slot.active
  <2>1. StartSlot("data")
    BY <1>7 DEF FlushDrained
  <2> QED  BY <1>2, <1>3, <1>4, <1>5, <2>1, StartKeeps DEF RingSet
<1> QED  BY <1>6, <1>7

LEMMA RestartedKeeps ==
    ASSUME LogInv, SlotRestarted
    PROVE  LogInv'
<1>1. Logged /\ Numbered /\ Working
  BY DEF LogInv
<1>2. /\ UNCHANGED <<media, pending, ram, seq, super, up, lost, spent, drain>>
      /\ job.pc = "restart" /\ StartSlot(job.then) /\ job.then \in {"data", "end"}
  BY <1>1 DEF SlotRestarted, At, laneVars, Logged
<1>3. up = "mounted" /\ drain'.pc = "idle"
  BY <1>1, <1>2 DEF Working
<1>4. RingStep /\ Numbered' /\ Boot' = Boot
  BY <1>1, <1>2, RingSame
<1>5. /\ ram' \in Seq(LogRec) /\ Len(ram') <= RamRecords /\ seq' \in Nat /\ spent' \in SpentType
      /\ lost' \in [dropped : Nat, reported : Nat] /\ lost'.reported <= lost'.dropped
  BY <1>1, <1>2 DEF Logged, SpentType
<1> QED  BY <1>2, <1>3, <1>4, <1>5, StartKeeps
-----------------------------------------------------------------------------
\* A mount goes on from the partition's numbers.
LEMMA RebasedOK ==
    ASSUME Logged, Numbered, NEW first \in Nat
    PROVE  /\ RingOK(Rebased(first)) /\ Rebased(first).dropped = lost.dropped
           /\ first <= Rebased(first).seq
           /\ \A n \in Nat : n < first => Above(Rebased(first), n)
<1> DEFINE q == [i \in DOMAIN ram |-> [ram[i] EXCEPT !.seq = first + i - 1]]
           r == Rebased(first)
<1>1. /\ Ring \in [ram : Seq(LogRec), seq : Nat, made : Nat, dropped : Nat]
      /\ Ring.dropped = lost.dropped
  BY RingIsOK DEF RingOK
<1>2. Len(ram) \in Nat /\ DOMAIN ram = 1..Len(ram) /\ Len(ram) <= RamRecords /\ ram \in Seq(LogRec)
  BY Fields DEF Logged
<1>3. ASSUME NEW i \in 1..Len(ram)
      PROVE  /\ q[i] \in LogRec /\ q[i].seq = first + i - 1
             /\ q[i].boot = ram[i].boot /\ q[i].id = ram[i].id
  <2>1. ram[i] \in LogRec /\ first + i - 1 \in Nat
    BY <1>2, ElementOfSeq
  <2>2. q[i] = [ram[i] EXCEPT !.seq = first + i - 1]
    BY <1>2
  <2> HIDE DEF q
  <2> QED  BY <2>1, <2>2 DEF LogRec
<1>4. q \in Seq(LogRec) /\ Len(q) = Len(ram)
  <2>1. q \in [1..Len(ram) -> LogRec]
    <3>1. DOMAIN q = 1..Len(ram) /\ q = [i \in DOMAIN q |-> q[i]]
      BY <1>2
    <3> HIDE DEF q
    <3> QED  BY <1>3, <3>1
  <2> HIDE DEF q
  <2> QED  BY <1>2, <2>1, SeqDef
<1>5. r = [Ring EXCEPT !.ram = q, !.seq = first + Len(ram)]
  BY DEF Rebased
<1>6. first + Len(ram) \in Nat
  BY <1>2
<1> HIDE DEF q, r
<1>7. /\ r \in [ram : Seq(LogRec), seq : Nat, made : Nat, dropped : Nat]
      /\ r.ram = q /\ r.seq = first + Len(ram) /\ r.dropped = lost.dropped
  BY <1>1, <1>4, <1>5, <1>6
<1>8. ASSUME NEW i \in 1..Len(q)
      PROVE  /\ q[i].boot = Boot /\ q[i].id # 0 /\ q[i].seq < r.seq
             /\ \A j \in 1..i - 1 : q[j].seq < q[i].seq
  <2>1. i \in 1..Len(ram) /\ \A j \in 1..i - 1 : j \in 1..Len(ram)
    BY <1>2, <1>4
  <2>2. q[i].seq = first + i - 1 /\ \A j \in 1..i - 1 : q[j].seq = first + j - 1
    BY <1>3, <2>1
  <2>3. q[i].boot = Boot /\ q[i].id # 0
    BY <1>3, <2>1 DEF Numbered
  <2> QED  BY <1>2, <1>7, <2>1, <2>2, <2>3
<1>9. RingOK(r)
  BY <1>2, <1>4, <1>7, <1>8 DEF RingOK
<1>10. ASSUME NEW n \in Nat, n < first PROVE Above(r, n)
  <2>1. n < r.seq
    BY <1>2, <1>7, <1>10
  <2>2. ASSUME NEW i \in 1..Len(q) PROVE n < q[i].seq
    <3>1. i \in 1..Len(ram) /\ i \in Nat /\ i >= 1
      BY <1>4
    <3>2. q[i].seq = first + i - 1
      BY <1>3, <3>1
    <3> QED  BY <1>10, <3>1, <3>2
  <2> QED  BY <1>7, <2>1, <2>2 DEF Above
<1>11. first <= r.seq
  BY <1>2, <1>7
<1> QED  BY <1>7, <1>9, <1>10, <1>11 DEF r

\* Before the mount, the device holds nothing back.
LEMMA AtMount ==
    ASSUME OnDisk, DOMAIN pending = {}, NEW m, m = Over(pending, media)
    PROVE  /\ \A a \in Addr : Device[a] = {m[a]}
           /\ \A c \in {0, 1} : m[Super(c)] \in SuperBlock
           /\ \A valid : Selected(m, valid) \in {0, 1}
           /\ m[Super(Selected(m, {0, 1}))] \in Chosen(Device)
<1>1. \A a \in Addr : Device[a] = {m[a]}
  BY DEF OnDisk, Over, Device
<1>2. \A c \in {0, 1} : m[Super(c)] \in SuperBlock
  BY <1>1, Addresses DEF OnDisk, Blocks
<1>3. m[Super(0)].gen \in Nat /\ m[Super(1)].gen \in Nat
  BY <1>2 DEF SuperBlock
<1>4. \A valid : Selected(m, valid) \in {0, 1}
  BY DEF Selected
<1>5. m[Super(Selected(m, {0, 1}))] = Wins(m[Super(0)], m[Super(1)])
  BY <1>3 DEF Selected, Wins
<1>6. m[Super(Selected(m, {0, 1}))] \in Chosen(Device)
  <2>1. m[Super(0)] \in Device[Super(0)] /\ m[Super(1)] \in Device[Super(1)]
    BY <1>1, Addresses
  <2>2. Wins(m[Super(0)], m[Super(1)]) \in Chosen(Device)
    BY <2>1 DEF Chosen
  <2> QED  BY <1>5, <2>2
<1> QED  BY <1>1, <1>2, <1>4, <1>6

\* What the first number is after.
LEMMA FirstNumber ==
    ASSUME OnDisk, DOMAIN pending = {}, NEW m, m = Over(pending, media),
           NEW c \in {0, 1}, NEW header \in BOOLEAN
    PROVE  /\ durable_next(m, c, header) \in Nat
           /\ m[Super(c)].next <= durable_next(m, c, header)
           /\ m[Super(c)].active \in Slot /\ header =>
                m[Hdr(m[Super(c)].active)].last < durable_next(m, c, header)
<1> DEFINE s == m[Super(c)]
           h == m[Hdr(s.active)]
           first == durable_next(m, c, header)
<1>1. (\A a \in Addr : Device[a] = {m[a]}) /\ s \in SuperBlock
  BY AtMount
<1>2. s.next \in Nat /\ s.active \in 0..Slots
  BY <1>1 DEF SuperBlock
<1>3. s.active \in Slot => h \in HeadBlock /\ h.last \in Nat
  BY <1>1, Addresses DEF OnDisk, Blocks, HeadBlock
<1>4. s.active # None <=> s.active \in Slot
  BY <1>2, Constants
<1>5. first = IF s.active # None /\ header
              THEN Most(Most(s.next, 1), h.last + 1) ELSE Most(s.next, 1)
  BY DEF durable_next
<1> HIDE DEF s, h, first
<1>6. /\ first \in Nat /\ s.next <= first
      /\ s.active \in Slot /\ header => h.last < first
  BY <1>2, <1>3, <1>4, <1>5 DEF Most
<1> QED  BY <1>6 DEF s, h, first

\* No number found on the partition reaches the first of a boot that could
\* read it all.
LEMMA DurableNext ==
    ASSUME LogInv, up = "early", NEW m, m = Over(pending, media), ~spent.back,
           NEW t \in Slot, NEW r \in Found(Device, t)
    PROVE  r.seq < durable_next(m, Selected(m, {0, 1}), TRUE)
<1> DEFINE c == Selected(m, {0, 1})
           s == m[Super(c)]
           first == durable_next(m, c, TRUE)
<1>1. OnDisk /\ DOMAIN pending = {} /\ ~slot.active
  BY DEF LogInv, Working
<1>2. /\ \A a \in Addr : Device[a] = {m[a]}
      /\ c \in {0, 1} /\ s \in SuperBlock /\ s \in Chosen(Device)
  BY <1>1, AtMount
<1>3. /\ first \in Nat /\ s.next <= first /\ s.next \in Nat
      /\ s.active \in Slot => m[Hdr(s.active)].last < first
  BY <1>1, <1>2, FirstNumber DEF SuperBlock
<1> SUFFICES r.seq < first
  OBVIOUS
<1> HIDE DEF first, c
<1>4. Tops(Device) /\ Follows(Device)
  BY DEF LogInv, NumbersGrow
<1>5. PICK p \in Reached(Device, t) : r \in Device[Rec(t, p)]
  BY DEF Found
<1>6. p \in 0..Capacity - 1 /\ p \in Nat
  BY Constants DEF Reached
<1>7. PICK h \in Device[Hdr(t)] : p < h.count
  BY <1>1, <1>5 DEF Reached
<1>8. h \in HeadBlock /\ h = m[Hdr(t)]
  BY <1>1, <1>2, <1>7, Addresses DEF OnDisk, Blocks
<1>9. h.last \in Nat /\ p \in 0..h.count - 1
  BY <1>6, <1>7, <1>8, Constants DEF HeadBlock
<1>10. r.seq \in Nat
  BY <1>1, <1>5, <1>6 DEF OnDisk, Blocks, LogRec
<1>11. CASE t # s.active
  <2>1. r.seq < s.next
    BY <1>2, <1>4, <1>11 DEF Follows
  <2> HIDE DEF s
  <2> QED  BY <1>3, <1>10, <2>1
<1>12. CASE t = s.active
  <2>1. h.last < first
    BY <1>3, <1>8, <1>12
  <2>2. r.seq <= h.last
    BY <1>4, <1>5, <1>7, <1>9 DEF Tops
  <2> QED  BY <1>3, <1>9, <1>10, <2>1, <2>2
<1> QED  BY <1>11, <1>12

LEMMA MountKeeps ==
    ASSUME LogInv, NEW valid \in {{0, 1}, {0}, {1}}, NEW header \in BOOLEAN,
           zllog_mount(valid, header)
    PROVE  LogInv'
<1>1. Logged /\ Numbered /\ Working /\ OnDisk /\ up = "early" /\ DOMAIN pending = {}
      /\ ~slot.active /\ job.pc = "idle"
  BY DEF LogInv, Working, zllog_mount
<1> DEFINE m == Over(pending, media)
<1>2. m = Over(pending, media)
  OBVIOUS
<1> DEFINE copy == Selected(m, valid)
           s == m[Super(copy)]
           first == durable_next(m, copy, header)
           best == durable_next(m, Selected(m, {0, 1}), TRUE)
           behind == Behind(m, copy, header)
           lower == spent.back \/ behind
           failed == Unread(valid, header)
           b == Rebased(first)
           r == Normal(Normal(b))
<1>11. /\ \A a \in Addr : Device[a] = {m[a]}
       /\ copy \in {0, 1} /\ s \in SuperBlock /\ Selected(m, {0, 1}) \in {0, 1}
  BY <1>1, <1>2, AtMount
<1>22. first \in Nat /\ best \in Nat
  BY <1>1, <1>2, <1>11, FirstNumber
<1>5. /\ super' = FromCopy(s, copy)
      /\ ram' = r.ram /\ seq' = r.seq /\ lost' = [lost EXCEPT !.dropped = r.dropped]
      /\ spent' = [spent EXCEPT !.made = r.made, !.faults = @ + failed, !.back = lower]
      /\ up' = "mounted" /\ job' = [NoJob EXCEPT !.pc = "drain"]
      /\ UNCHANGED <<media, pending, slot, kept>>
      /\ drain'.pc = "take"
  BY DEF zllog_mount, DrainStart
<1>25. behind <=> first < best
  BY DEF Behind
<1>26. failed \in Nat
  BY DEF Unread
<1> HIDE DEF m, copy, first, best, behind, failed
<1>23. ~lower => \A t \in Slot : \A x \in Found(Device, t) : x.seq < first
  <2> SUFFICES ASSUME ~lower, NEW t \in Slot, NEW x \in Found(Device, t) PROVE x.seq < first
    OBVIOUS
  <2>1. ~spent.back /\ ~behind
    OBVIOUS
  <2>2. x.seq < best
    BY <1>1, <1>2, <2>1, DurableNext DEF best
  <2>3. x.seq \in Nat
    BY <1>1 DEF Found, Reached, OnDisk, Blocks, LogRec
  <2>4. best <= first
    BY <1>22, <1>25, <2>1
  <2> QED  BY <1>22, <2>2, <2>3, <2>4
<1>27. spent.back \in BOOLEAN /\ behind \in BOOLEAN
  BY <1>1, Fields DEF behind, Behind
<1>24. failed \in Nat /\ lower \in BOOLEAN /\ (~lower => ~spent.back)
  BY <1>26, <1>27
<1> HIDE DEF lower
<1>6. RingOK(b) /\ b.dropped = lost.dropped /\ first <= b.seq
      /\ \A n \in Nat : n < first => Above(b, n)
  BY <1>1, <1>22, RebasedOK
<1> HIDE DEF b
<1>7. Grown(b, r)
  <2>1. RingOK(Normal(b)) /\ Grown(b, Normal(b))
    BY <1>1, <1>6, RecordGrows DEF Normal, Grown
  <2>2. Grown(Normal(b), Normal(Normal(b)))
    BY <1>1, <2>1, RecordGrows DEF Normal
  <2> QED  BY <1>6, <2>1, <2>2, GrownTwice
<1> HIDE DEF r
<1>9. /\ r.made \in Nat /\ r.dropped \in Nat /\ lost.dropped <= r.dropped
      /\ ram' \in Seq(LogRec) /\ Len(ram') <= RamRecords /\ seq' \in Nat
      /\ first <= seq'
  <2>1. b.seq \in Nat /\ r.seq \in Nat /\ b.seq <= r.seq /\ RingOK(r) /\ b.dropped <= r.dropped
    BY <1>6, <1>7 DEF RingOK, Grown
  <2>2. first <= r.seq
    BY <1>6, <1>22, <2>1
  <2> QED  BY <1>5, <1>6, <2>1, <2>2 DEF RingOK
<1>10. spent' \in SpentType /\ Boot' = Boot /\ spent'.back = lower
       /\ lost' \in [dropped : Nat, reported : Nat] /\ lost'.reported <= lost'.dropped
  <2>1. spent \in SpentType /\ spent.faults + failed \in Nat
    BY <1>1, <1>24 DEF Logged, SpentType
  <2>2. spent' \in SpentType /\ spent'.cuts = spent.cuts /\ spent'.back = lower
    BY <1>5, <1>9, <1>24, <2>1 DEF SpentType
  <2> QED  BY <1>1, <1>5, <1>9, <2>2, SpentAfter DEF Boot
<1>12. /\ super' \in [gen : Nat, active : 0..Slots, after : 0..Slots, next : Nat, copy : {0, 1}]
       /\ super'.gen = s.gen
  <2>1. s \in SuperBlock /\ copy \in {0, 1} /\ super' = FromCopy(s, copy)
    BY <1>5, <1>11
  <2> HIDE DEF s
  <2> QED  BY <2>1 DEF FromCopy, SuperBlock
<1>13. job' \in JobType /\ job'.pc = "drain"
  <2>1. NoJob \in JobType /\ "drain" \in Pc
    BY Constants DEF NoJob, JobType, Pc
  <2> HIDE DEF NoJob
  <2> QED  BY <1>5, <2>1 DEF JobType
<1>14. DiskStep /\ Device' = Device /\ DOMAIN media' = Addr /\ DOMAIN pending' \subseteq Addr
  BY <1>1, <1>5, QuietDisk
<1>15. OnDisk' /\ Counts(Device)' /\ Keeps(Device)'
  BY <1>5, <1>14 DEF LogInv, OnDisk, Blocks, Counts, Keeps
<1>16. Logged'
  BY <1>1, <1>5, <1>9, <1>10, <1>12, <1>13 DEF Logged, JobType, SpentType
<1>17. Numbered'
  BY <1>5, <1>7, <1>10 DEF Grown, RingOK, Numbered
<1>18. Working'
  BY <1>1, <1>5, <1>13 DEF Working
<1>19. Own'
  BY <1>1, <1>5, <1>13 DEF Own
<1>20. InCharge'
  <2>1. super'.copy = copy /\ Device'[Super(copy)] = {s} /\ super'.gen = s.gen
    BY <1>5, <1>11, <1>12, <1>14, Addresses DEF FromCopy
  <2>2. s.gen \in Nat
    BY <1>11 DEF SuperBlock
  <2> HIDE DEF s
  <2> QED  BY <1>1, <1>5, <2>1, <2>2 DEF InCharge
<1>21. NumbersGrow'
  <2> SUFFICES ASSUME ~lower
               PROVE  Tops(Device)' /\ Follows(Device)' /\ Later(Device)' /\ ~slot'.active
    BY <1>1, <1>10 DEF NumbersGrow
  <2>1. Tops(Device) /\ Follows(Device) /\ Later(Device)
    BY <1>24 DEF LogInv, NumbersGrow
  <2>2. \A t \in Slot : Found(Device, t)' = Found(Device, t)
    BY <1>5, <1>14 DEF Found, Reached
  <2>3. Tops(Device)' /\ Follows(Device)'
    BY <1>14, <2>1, <2>2 DEF Tops, Follows, Chosen
  <2>4. ASSUME NEW t \in Slot, NEW x \in Found(Device, t)
        PROVE  x.seq < seq' /\ Above(Ring, x.seq)'
    <3>1. x.seq < first
      BY <1>23
    <3>2. x.seq \in Nat
      BY <1>1 DEF Found, Reached, OnDisk, Blocks, LogRec
    <3>3. Above(r, x.seq)
      BY <1>6, <1>7, <3>1, <3>2 DEF Grown
    <3>4. Above(Ring, x.seq)'
      BY <1>5, <3>3 DEF Above, Ring
    <3> QED  BY <1>9, <1>22, <3>1, <3>2, <3>4
  <2>5. Later(Device)'
    BY <1>10, <2>1, <2>2, <2>4 DEF Later
  <2> QED  BY <1>1, <1>5, <2>3, <2>5
<1> QED  BY <1>15, <1>16, <1>17, <1>18, <1>19, <1>20, <1>21 DEF LogInv
-----------------------------------------------------------------------------
\* Steps that write.
LEMMA WriteGoes ==
    ASSUME LogInv, Stored \/ HalfStored
    PROVE  /\ OnDisk /\ Logged /\ Numbered /\ Working /\ Own /\ InCharge /\ Sound
           /\ DiskStep /\ DOMAIN media' = Addr /\ DOMAIN pending' \subseteq Addr
           /\ Stored => \A a \in DOMAIN Writes : Device'[a] = {Writes[a]}
BY AfterWrite DEF LogInv, Sound, DiskStep

LEMMA PublishedSuper ==
    ASSUME Logged, NEW active \in 0..Slots, NEW c \in {0, 1}
    PROVE  /\ FromCopy(NextSuper(active), c) \in
                [gen : Nat, active : 0..Slots, after : 0..Slots, next : Nat, copy : {0, 1}]
           /\ FromCopy(NextSuper(active), c).gen = super.gen + 1
<1> DEFINE b == NextSuper(active)
<1>1. b \in SuperBlock /\ b.gen = super.gen + 1
  <2>1. super.gen + 1 \in Nat /\ super.after \in 0..Slots /\ seq \in Nat
    BY Fields
  <2> QED  BY <2>1 DEF NextSuper, SuperBlock
<1> HIDE DEF b
<1>2. /\ FromCopy(b, c) \in [gen : Nat, active : 0..Slots, after : 0..Slots, next : Nat, copy : {0, 1}]
      /\ FromCopy(b, c).gen = super.gen + 1
  BY <1>1 DEF FromCopy, SuperBlock
<1> QED  BY <1>2 DEF b

LEMMA StartedKeeps ==
    ASSUME LogInv, SlotStarted
    PROVE  LogInv'
<1>1. /\ job.pc = "start" /\ Stored /\ job' = [job EXCEPT !.pc = "enter"]
      /\ UNCHANGED <<ram, seq, super, slot, lost, kept, spent, up, drain>>
  BY DEF SlotStarted, At, laneVars
<1>2. /\ OnDisk /\ Logged /\ Numbered /\ Working /\ Own /\ InCharge /\ Sound
      /\ DiskStep /\ DOMAIN media' = Addr /\ DOMAIN pending' \subseteq Addr
      /\ \A a \in DOMAIN Writes : Device'[a] = {Writes[a]}
  BY <1>1, WriteGoes
<1>3. job' \in JobType /\ job'.pc = "enter"
  BY <1>1, <1>2 DEF Logged, JobType, Pc
<1>4. RingStep /\ Numbered' /\ Boot' = Boot
  BY <1>1, <1>2, RingSame
<1>5. Logged'
  BY <1>1, <1>2, <1>3 DEF Logged, JobType
<1>6. Working'
  BY <1>1, <1>2, <1>3 DEF Working
<1>7. ~slot.active /\ slot.count = 0 /\ slot.index \in Slot
  BY <1>1, <1>2, Fields DEF Working
<1>8. Own'
  <2>1. Writes = SlotPage("writing", slot.last, slot.count)
    BY <1>1 DEF Writes
  <2>2. Device'[Hdr(slot.index)] =
            {[state |-> "writing", last |-> slot.last, count |-> slot.count, boot |-> Boot]}
    BY <1>2, <2>1 DEF SlotPage
  <2>3. \A h \in Device'[Hdr(slot.index)] : h.boot = Boot /\ h.count <= slot.count
    BY <1>7, <2>2
  <2> QED  BY <1>1, <1>3, <1>4, <1>7, <2>3 DEF Own
<1>9. SlotStep
  BY <1>1, <1>7 DEF SlotStep
<1>10. InCharge'
  BY <1>1, <1>2, <1>7, Fields, InChargeStays DEF SuperPc
<1> QED  BY <1>1, <1>2, <1>4, <1>5, <1>6, <1>8, <1>9, <1>10, StepKeeps

\* The superblock that publishes the slot is the one a mount selects.
LEMMA EnteredKeeps ==
    ASSUME LogInv, SlotEntered
    PROVE  LogInv'
<1>1. /\ job.pc = "enter" /\ Stored /\ super' = FromCopy(NextSuper(slot.index), 1 - super.copy)
      /\ slot' = [slot EXCEPT !.active = TRUE]
      /\ IF job.then = "data" THEN WriteOut(ram, slot.count) ELSE Return(TRUE)
      /\ UNCHANGED <<ram, seq, lost, kept, spent, up, drain>>
  BY DEF SlotEntered, At, laneVars
<1>2. /\ OnDisk /\ Logged /\ Numbered /\ Working /\ Own /\ InCharge /\ Sound
      /\ DiskStep /\ DOMAIN media' = Addr /\ DOMAIN pending' \subseteq Addr
      /\ \A a \in DOMAIN Writes : Device'[a] = {Writes[a]}
  BY <1>1, WriteGoes
<1>3. /\ job' \in JobType
      /\ \/ job'.pc = "return" /\ job'.ok
         \/ job'.pc = "seal" /\ slot.count = Capacity
         \/ job'.pc = "data" /\ job'.n \in 1..Len(ram) /\ slot.count + job'.n <= Capacity
  <2>1. CASE job.then = "data"
    BY <1>1, <1>2, <2>1, WriteOutGoes DEF Logged
  <2>2. CASE job.then # "data"
    <3>1. job' = [job EXCEPT !.pc = "return", !.ok = TRUE]
      BY <1>1, <2>2 DEF Return
    <3> QED  BY <1>2, <3>1 DEF Logged, JobType, Pc
  <2> QED  BY <2>1, <2>2
<1>4. RingStep /\ Numbered' /\ Boot' = Boot
  BY <1>1, <1>2, RingSame
<1>5. /\ slot' \in [active : BOOLEAN, index : Slot, count : 0..Capacity, last : Nat]
      /\ slot'.active = TRUE /\ slot'.index = slot.index /\ slot'.count = slot.count
  BY <1>1, <1>2 DEF Logged
<1>6. super' \in [gen : Nat, active : 0..Slots, after : 0..Slots, next : Nat, copy : {0, 1}]
      /\ super'.gen = super.gen + 1
  BY <1>1, <1>2, InRange, PublishedSuper
<1>7. Logged'
  BY <1>1, <1>2, <1>3, <1>5, <1>6 DEF Logged, JobType
<1>8. up = "mounted" /\ ~slot.active /\ slot.count = 0
  BY <1>1, <1>2 DEF Working
<1>9. Working'
  BY <1>1, <1>2, <1>3, <1>5, <1>8 DEF Working
<1>11. SlotStep
  BY <1>5, <1>8 DEF SlotStep
<1>10. Own'
  <2>1. job'.pc \notin {"start", "check"} /\ job.pc = "enter"
    BY <1>1, <1>3
  <2> QED  BY <1>2, <1>4, <1>5, <1>7, <1>11, <2>1, OwnStays
<1>12. InCharge'
  <2>1. super.gen \in Nat /\ super.copy \in {0, 1} /\ slot.index \in Slot
    BY <1>2, Fields
  <2>2. SuperPc /\ New = NextSuper(slot.index) /\ New.gen = super.gen + 1 /\ New.active = slot.index
    BY <1>1 DEF SuperPc, New, NextSuper
  <2>3. Writes = SuperPage(New)
    BY <1>1, <2>2 DEF Writes
  <2>4. Device'[Super(1 - super.copy)] = {New}
    BY <1>2, <2>3 DEF SuperPage
  <2>5. ASSUME NEW x \in Device'[Super(super.copy)]
        PROVE  x.gen \in Nat /\ x.gen <= super.gen
    <3>1. x \in Midway[Super(super.copy)]
      BY <1>2, <2>1, Addresses DEF DiskStep
    <3>2. Super(super.copy) \notin DOMAIN Writes
      BY <2>1, <2>3, Apart DEF SuperPage
    <3>3. x \in Device[Super(super.copy)]
      BY <2>1, <3>1, <3>2, DeviceAt, Addresses
    <3> QED  BY <1>2, <1>8, <2>1, <3>3 DEF InCharge, OnDisk, Blocks, SuperBlock
  <2>6. ASSUME NEW x \in Device'[Super(super'.copy)]
        PROVE  x.gen <= super'.gen
    <3>1. super'.copy = 1 - super.copy
      BY <1>1 DEF FromCopy
    <3> QED  BY <1>6, <2>1, <2>2, <2>4, <2>6, <3>1
  <2>7. ASSUME NEW x \in Device'[Super(0)], NEW y \in Device'[Super(1)]
        PROVE  Wins(x, y) = New
    <3>1. CASE super.copy = 0
      <4>1. y = New /\ x.gen \in Nat /\ x.gen <= super.gen
        BY <2>4, <2>5, <3>1
      <4> QED  BY <2>1, <2>2, <4>1 DEF Wins
    <3>2. CASE super.copy = 1
      <4>1. x = New /\ y.gen \in Nat /\ y.gen <= super.gen
        BY <2>4, <2>5, <3>2
      <4> QED  BY <2>1, <2>2, <4>1 DEF Wins
    <3> QED  BY <2>1, <3>1, <3>2
  <2>8. \A w \in Chosen(Device)' : w.active = slot'.index
    BY <1>5, <2>2, <2>7 DEF Chosen, Wins
  <2> QED  BY <2>6, <2>8 DEF InCharge
<1> QED  BY <1>1, <1>2, <1>4, <1>7, <1>9, <1>10, <1>11, <1>12, StepKeeps

\* Of what the ring held, the records after the first n.
LEMMA RingDropped ==
    ASSUME Logged, Numbered, NEW n \in 0..Len(ram), ram' = SubSeq(ram, n + 1, Len(ram)),
           UNCHANGED <<seq, spent>>, up' = "mounted" => up = "mounted"
    PROVE  /\ RingStep /\ Numbered' /\ Boot' = Boot
           /\ ram' \in Seq(LogRec) /\ Len(ram') <= RamRecords
<1>1. Len(ram) \in Nat /\ ram \in Seq(LogRec) /\ n \in Nat /\ n <= Len(ram) /\ Len(ram) <= RamRecords
      /\ RamRecords \in Nat
  BY Fields, Constants DEF Logged
<1>2. /\ ram' \in Seq(LogRec) /\ Len(ram') = Len(ram) - n
      /\ \A i \in 1..Len(ram) - n : ram'[i] = ram[n + i]
  <2>1. n + 1 \in 1..Len(ram) + 1 /\ Len(ram) \in n..Len(ram)
    BY <1>1
  <2>2. \A i \in n + 1..Len(ram) : ram[i] \in LogRec
    <3>1. \A i \in n + 1..Len(ram) : i \in 1..Len(ram)
      BY <1>1
    <3> QED  BY <1>1, <3>1, ElementOfSeq
  <2>3. /\ SubSeq(ram, n + 1, Len(ram)) \in Seq(LogRec)
        /\ Len(SubSeq(ram, n + 1, Len(ram))) = IF n + 1 <= Len(ram) THEN Len(ram) - (n + 1) + 1 ELSE 0
        /\ \A i \in 1..Len(ram) - (n + 1) + 1 : SubSeq(ram, n + 1, Len(ram))[i] = ram[n + 1 + i - 1]
    BY <1>1, <2>2, SubSeqProperties
  <2>4. Len(ram) - (n + 1) + 1 = Len(ram) - n
    BY <1>1
  <2>5. \A i \in 1..Len(ram) - n : n + 1 + i - 1 = n + i
    BY <1>1
  <2>6. (IF n + 1 <= Len(ram) THEN Len(ram) - (n + 1) + 1 ELSE 0) = Len(ram) - n
    BY <1>1
  <2> QED  BY <2>3, <2>4, <2>5, <2>6
<1>3. Boot' = Boot /\ Boot \in Nat /\ seq \in Nat
  BY Fields DEF Boot
<1>4. \A i \in 1..Len(ram') : n + i \in 1..Len(ram) /\ ram'[i] = ram[n + i]
  BY <1>1, <1>2
<1>5. Numbered'
  <2> SUFFICES ASSUME NEW i \in 1..Len(ram')
               PROVE  /\ ram'[i].boot = Boot /\ ram'[i].id # 0 /\ ram'[i].seq < seq
                      /\ \A j \in 1..i - 1 : ram'[j].seq < ram'[i].seq
    BY <1>3 DEF Numbered
  <2>1. n + i \in 1..Len(ram) /\ ram'[i] = ram[n + i]
    BY <1>4
  <2>2. \A j \in 1..i - 1 : /\ j \in 1..Len(ram')
                            /\ n + j \in 1..(n + i) - 1
    BY <1>1, <1>2
  <2>3. \A j \in 1..i - 1 : ram'[j] = ram[n + j]
    BY <1>4, <2>2
  <2> QED  BY <2>1, <2>2, <2>3 DEF Numbered
<1>6. \A x \in Nat : Above(Ring, x) => Above(Ring, x)'
  BY <1>4 DEF Above, Ring
<1>7. RingStep
  BY <1>3, <1>6 DEF RingStep
<1>8. Len(ram') <= RamRecords
  BY <1>1, <1>2
<1> QED  BY <1>2, <1>3, <1>5, <1>7, <1>8

\* What is forgotten is counted by then.
LEMMA CheckpointedKeeps ==
    ASSUME LogInv, Checkpointed
    PROVE  LogInv'
<1> DEFINE gone == {[id |-> ram[k].id, slot |-> slot.index] : k \in 1..job.n}
<1>1. /\ job.pc = "check" /\ Stored /\ ram' = SubSeq(ram, job.n + 1, Len(ram))
      /\ kept' = kept \cup gone /\ super' = [super EXCEPT !.next = seq]
      /\ IF ram' # <<>> /\ SlotFull(slot.count)
         THEN job' = [job EXCEPT !.pc = "seal", !.then = "end"] ELSE Return(TRUE)
      /\ UNCHANGED <<seq, slot, lost, spent, up, drain>>
  BY DEF Checkpointed, At, laneVars
<1>2. /\ OnDisk /\ Logged /\ Numbered /\ Working /\ Own /\ InCharge /\ Sound
      /\ DiskStep /\ DOMAIN media' = Addr /\ DOMAIN pending' \subseteq Addr
      /\ \A a \in DOMAIN Writes : Device'[a] = {Writes[a]}
  BY <1>1, WriteGoes
<1>3. /\ job.n \in 1..Len(ram) /\ job.n <= slot.count /\ slot.active
      /\ job.n \in Nat /\ slot.count \in Nat /\ slot.count <= Capacity /\ slot.index \in Slot
      /\ Len(ram) \in Nat
  BY <1>1, <1>2, Fields DEF Working
<1>4. /\ job' \in JobType
      /\ \/ job'.pc = "return" /\ job'.ok
         \/ job'.pc = "seal" /\ slot.count = Capacity
  <2>1. job \in JobType /\ "seal" \in Pc /\ "return" \in Pc
    BY <1>2 DEF Logged, JobType, Pc
  <2>2. CASE ram' # <<>> /\ SlotFull(slot.count)
    <3>1. job' = [job EXCEPT !.pc = "seal", !.then = "end"]
      BY <1>1, <2>2
    <3>2. slot.count = Capacity
      BY <1>3, <2>2, Constants DEF SlotFull
    <3> QED  BY <2>1, <3>1, <3>2 DEF JobType
  <2>3. CASE ~(ram' # <<>> /\ SlotFull(slot.count))
    <3>1. job' = [job EXCEPT !.pc = "return", !.ok = TRUE]
      BY <1>1, <2>3 DEF Return
    <3> QED  BY <2>1, <3>1 DEF JobType
  <2> QED  BY <2>2, <2>3
<1>5. /\ RingStep /\ Numbered' /\ Boot' = Boot
      /\ ram' \in Seq(LogRec) /\ Len(ram') <= RamRecords
  <2>1. job.n \in 0..Len(ram)
    BY <1>3
  <2> QED  BY <1>1, <1>2, <2>1, RingDropped
<1>6. gone \subseteq [id : Nat, slot : Slot]
  <2>1. \A k \in 1..job.n : ram[k] \in LogRec
    <3>1. \A k \in 1..job.n : k \in 1..Len(ram)
      BY <1>3
    <3> QED  BY <1>2, <3>1, ElementOfSeq DEF Logged
  <2> QED  BY <1>3, <2>1 DEF LogRec
<1> HIDE DEF gone
<1>7. /\ super' \in [gen : Nat, active : 0..Slots, after : 0..Slots, next : Nat, copy : {0, 1}]
      /\ super'.gen = super.gen
  BY <1>1, <1>2 DEF Logged
<1>8. Logged'
  BY <1>1, <1>2, <1>4, <1>5, <1>6, <1>7 DEF Logged, JobType
<1>9. Working'
  BY <1>1, <1>2, <1>3, <1>4 DEF Working
<1>10. SlotStep
  BY <1>1, <1>3 DEF SlotStep
<1>11. Own'
  <2>1. job'.pc \notin {"start", "check", "enter"}
    BY <1>4
  <2> QED  BY <1>1, <1>2, <1>5, <1>8, <1>10, <2>1, OwnStays
<1>12. InCharge'
  <2>1. ~SuperPc /\ super.gen \in Nat
    BY <1>1, <1>2, Fields DEF SuperPc
  <2>2. super'.gen \in Nat /\ super.gen <= super'.gen /\ super'.copy = super.copy
    BY <1>1, <1>2, <1>7, <2>1 DEF Logged
  <2> QED  BY <1>1, <1>2, <1>3, <2>1, <2>2, InChargeStays
<1>13. Keeps(Device)'
  <2> SUFFICES ASSUME NEW k \in kept'
               PROVE  \E p \in 0..Capacity - 1 :
                        /\ \A h \in Device'[Hdr(k.slot)] : p < h.count
                        /\ \A r \in Device'[Rec(k.slot, p)] : r.id = k.id
    BY DEF Keeps
  <2>1. CASE k \in kept
    BY <1>2, <2>1, KeptAfter DEF LogInv
  <2>2. CASE k \in gone
    <3>1. PICK j \in 1..job.n : k = [id |-> ram[j].id, slot |-> slot.index]
      BY <2>2 DEF gone
    <3> DEFINE p == slot.count - job.n + j - 1
    <3>2. p \in 0..Capacity - 1 /\ p \in Nat /\ p < slot.count
      BY <1>3, Constants
    <3>3. ASSUME NEW h \in Device'[Hdr(slot.index)] PROVE p < h.count
      <4>1. Writes = SlotPage("writing", slot.last, slot.count)
        BY <1>1 DEF Writes
      <4>2. Device'[Hdr(slot.index)] =
                {[state |-> "writing", last |-> slot.last, count |-> slot.count, boot |-> Boot]}
        BY <1>2, <4>1 DEF SlotPage
      <4>3. h.count = slot.count
        BY <4>2
      <4> QED  BY <3>2, <4>3
    <3>4. ASSUME NEW r \in Device'[Rec(slot.index, p)] PROVE r.id = ram[j].id
      <4>1. p \in Reached(Midway, slot.index)
        BY <1>3, <3>2 DEF Reached
      <4>2. r \in Device[Rec(slot.index, p)]
        BY <1>2, <1>3, <3>2, <4>1, ReachedIsOld, Addresses DEF DiskStep
      <4> QED  BY <1>1, <1>2, <4>2 DEF Own
    <3>5. k.id = ram[j].id /\ k.slot = slot.index
      BY <3>1
    <3> HIDE DEF p
    <3> QED  BY <3>2, <3>3, <3>4, <3>5
  <2> QED  BY <1>1, <2>1, <2>2
<1> QED  BY <1>1, <1>2, <1>5, <1>8, <1>9, <1>10, <1>11, <1>12, <1>13, StepKeeps

\* The slot is sealed, by a rotation or by zllog_complete.
LEMMA SealedKeeps ==
    ASSUME LogInv, SlotSealed \/ Finalized
    PROVE  LogInv'
<1>1. /\ Stored
      /\ \/ job.pc = "seal" /\ job' = [job EXCEPT !.pc = "leave"]
         \/ job.pc = "final" /\ job' = [job EXCEPT !.pc = "close"]
      /\ UNCHANGED <<ram, seq, super, slot, lost, kept, spent, up, drain>>
  BY DEF SlotSealed, Finalized, At, laneVars
<1>2. /\ OnDisk /\ Logged /\ Numbered /\ Working /\ Own /\ InCharge /\ Sound
      /\ DiskStep /\ DOMAIN media' = Addr /\ DOMAIN pending' \subseteq Addr
  BY <1>1, WriteGoes
<1>3. /\ job' \in JobType /\ slot.active
      /\ \/ job'.pc = "leave" /\ slot.count = Capacity
         \/ job'.pc = "close"
  <2>1. job \in JobType /\ "leave" \in Pc /\ "close" \in Pc
    BY <1>2 DEF Logged, JobType, Pc
  <2>2. slot.active /\ (job.pc = "seal" => slot.count = Capacity)
    BY <1>1, <1>2 DEF Working
  <2>3. CASE job.pc = "seal" /\ job' = [job EXCEPT !.pc = "leave"]
    BY <2>1, <2>2, <2>3 DEF JobType
  <2>4. CASE job.pc = "final" /\ job' = [job EXCEPT !.pc = "close"]
    BY <2>1, <2>2, <2>4 DEF JobType
  <2> QED  BY <1>1, <2>3, <2>4
<1>4. RingStep /\ Numbered' /\ Boot' = Boot
  BY <1>1, <1>2, RingSame
<1>5. Logged'
  BY <1>1, <1>2, <1>3 DEF Logged, JobType
<1>6. Working'
  BY <1>1, <1>2, <1>3 DEF Working
<1>7. SlotStep
  BY <1>1, <1>3 DEF SlotStep
<1>8. Own'
  <2>1. job'.pc \notin {"start", "check", "enter"}
    BY <1>3
  <2> QED  BY <1>1, <1>2, <1>3, <1>4, <1>5, <1>7, <2>1, OwnStays
<1>9. InCharge'
  <2>1. ~SuperPc /\ super.gen \in Nat /\ super'.gen = super.gen
    BY <1>1, <1>2, Fields DEF SuperPc
  <2> QED  BY <1>1, <1>2, <1>3, <2>1, InChargeStays
<1> QED  BY <1>1, <1>2, <1>4, <1>5, <1>6, <1>7, <1>8, <1>9, StepKeeps

LEMMA LeftKeeps ==
    ASSUME LogInv, SlotLeft
    PROVE  LogInv'
<1> DEFINE r == Normal(Ring)
<1>1. /\ job.pc = "leave" /\ Stored /\ super' = FromCopy(NextSuper(None), 1 - super.copy)
      /\ slot' = [slot EXCEPT !.active = FALSE] /\ job' = [job EXCEPT !.pc = "restart"]
      /\ SetRing(r) /\ UNCHANGED <<kept, up, drain>>
  BY DEF SlotLeft, At, laneVars
<1>2. /\ OnDisk /\ Logged /\ Numbered /\ Working /\ Own /\ InCharge /\ Sound
      /\ DiskStep /\ DOMAIN media' = Addr /\ DOMAIN pending' \subseteq Addr
  BY <1>1, WriteGoes
<1>3. job' \in JobType /\ job'.pc = "restart"
  BY <1>1, <1>2 DEF Logged, JobType, Pc
<1>4. Grown(Ring, r)
  BY <1>2, RingIsOK, RecordGrows DEF Normal
<1> HIDE DEF r
<1>5. /\ ram' = r.ram /\ seq' = r.seq /\ lost' = [lost EXCEPT !.dropped = r.dropped]
      /\ spent' = [spent EXCEPT !.made = r.made]
  BY <1>1 DEF SetRing
<1>6. r.made \in Nat /\ r.dropped \in Nat /\ lost.dropped <= r.dropped
  BY <1>2, <1>4, RingIsOK DEF Grown, RingOK
<1>7. RingSet(r) /\ spent' \in SpentType
      /\ lost' \in [dropped : Nat, reported : Nat] /\ lost'.reported <= lost'.dropped
  BY <1>2, <1>5, <1>6, SpentAfter DEF RingSet, Boot
<1>8. /\ RingStep /\ Numbered'
      /\ ram' \in Seq(LogRec) /\ Len(ram') <= RamRecords /\ seq' \in Nat
  BY <1>1, <1>2, <1>4, <1>7, RingAfter
<1>9. /\ slot' \in [active : BOOLEAN, index : Slot, count : 0..Capacity, last : Nat]
      /\ slot'.active = FALSE
  BY <1>1, <1>2 DEF Logged
<1>10. /\ super' \in [gen : Nat, active : 0..Slots, after : 0..Slots, next : Nat, copy : {0, 1}]
       /\ super'.gen = super.gen + 1 /\ super.gen \in Nat
  BY <1>1, <1>2, InRange, PublishedSuper
<1>11. Logged'
  BY <1>1, <1>2, <1>3, <1>7, <1>8, <1>9, <1>10 DEF Logged, JobType, SpentType
<1>12. Working'
  BY <1>1, <1>2, <1>3, <1>9 DEF Working
<1>13. SlotStep
  BY <1>9 DEF SlotStep
<1>14. Own'
  BY <1>3, <1>9 DEF Own
<1>15. InCharge'
  <2>1. super'.gen \in Nat /\ super.gen <= super'.gen
    BY <1>10
  <2>2. Writes = SuperPage(NextSuper(None))
    BY <1>1 DEF Writes
  <2>3. Device'[Super(1 - super.copy)] = {NextSuper(None)}
    BY <1>1, <2>2, WriteGoes DEF SuperPage
  <2>4. super'.copy = 1 - super.copy /\ super'.gen = NextSuper(None).gen
    BY <1>1 DEF FromCopy
  <2>5. \A x \in Device'[Super(super'.copy)] : x.gen <= super'.gen
    BY <2>1, <2>3, <2>4
  <2> QED  BY <1>1, <1>2, <1>9, <2>1, <2>5, InChargeStays
<1> QED  BY <1>1, <1>2, <1>7, <1>8, <1>11, <1>12, <1>13, <1>14, <1>15, StepKeeps DEF RingSet

LEMMA FailsKeeps ==
    ASSUME LogInv, StepFails
    PROVE  LogInv'
<1>1. /\ job.pc \in {"start", "enter", "data", "check", "seal", "leave"} /\ HalfStored
      /\ spent' = [spent EXCEPT !.faults = @ + 1]
      /\ super' = CASE job.pc = "enter" -> FromCopy(NextSuper(slot.index), super.copy)
                    [] job.pc = "leave" -> FromCopy(NextSuper(None), super.copy)
                    [] OTHER -> super
      /\ job' = [job EXCEPT !.pc = "return", !.ok = FALSE]
      /\ UNCHANGED <<up, drain, ram, seq, slot, lost, kept>>
  BY DEF StepFails, Return, laneVars
<1>2. /\ OnDisk /\ Logged /\ Numbered /\ Working /\ Own /\ InCharge /\ Sound
      /\ DiskStep /\ DOMAIN media' = Addr /\ DOMAIN pending' \subseteq Addr
  BY <1>1, WriteGoes
<1>3. job' \in JobType /\ job'.pc = "return" /\ ~job'.ok
  BY <1>1, <1>2 DEF Logged, JobType, Pc
<1>4. /\ spent' \in SpentType /\ Boot' = Boot /\ spent'.back = spent.back
  <2>1. spent \in SpentType /\ spent.faults + 1 \in Nat
    BY <1>2 DEF Logged, SpentType
  <2> QED  BY <1>1, <2>1 DEF SpentType, Boot
<1>5. RingStep /\ Numbered'
  <2>1. Boot \in Nat /\ seq \in Nat
    BY <1>2, Fields
  <2>2. \A n \in Nat : Above(Ring, n) => Above(Ring, n)'
    BY <1>1 DEF Above, Ring
  <2>3. RingStep
    BY <1>1, <1>4, <2>1, <2>2 DEF RingStep
  <2> QED  BY <1>1, <1>2, <1>4, <2>3 DEF Numbered
<1>6. /\ super' \in [gen : Nat, active : 0..Slots, after : 0..Slots, next : Nat, copy : {0, 1}]
      /\ super'.gen \in Nat /\ super.gen <= super'.gen /\ super'.copy = super.copy
  <2>1. None \in 0..Slots /\ slot.index \in 0..Slots /\ super.copy \in {0, 1} /\ super.gen \in Nat
    BY <1>2, InRange
  <2>2. CASE job.pc \in {"enter", "leave"}
    <3>1. \E a \in 0..Slots : super' = FromCopy(NextSuper(a), super.copy)
      BY <1>1, <2>1, <2>2
    <3>2. /\ super' \in [gen : Nat, active : 0..Slots, after : 0..Slots, next : Nat, copy : {0, 1}]
          /\ super'.gen = super.gen + 1
      BY <1>2, <2>1, <3>1, PublishedSuper
    <3>3. super'.copy = super.copy
      BY <3>1 DEF FromCopy
    <3> QED  BY <2>1, <3>2, <3>3
  <2>3. CASE job.pc \notin {"enter", "leave"}
    <3>1. super' = super
      BY <1>1, <2>3
    <3>3. super \in [gen : Nat, active : 0..Slots, after : 0..Slots, next : Nat, copy : {0, 1}]
      BY <1>2 DEF Logged
    <3>4. super'.gen \in Nat /\ super.gen <= super'.gen
      BY <2>1, <3>1
    <3> QED  BY <3>1, <3>3, <3>4
  <2> QED  BY <2>2, <2>3
<1>7. Logged'
  BY <1>1, <1>2, <1>3, <1>4, <1>6 DEF Logged, JobType, SpentType
<1>8. Working'
  BY <1>1, <1>2, <1>3 DEF Working
<1>9. SlotStep
  BY <1>1 DEF SlotStep
<1>10. Own'
  <2>1. job'.pc \notin {"start", "check", "enter"}
    BY <1>3
  <2> QED  BY <1>1, <1>2, <1>4, <1>7, <1>9, <2>1, OwnStays
<1>11. InCharge'
  <2>1. slot.active /\ slot.count < Capacity => ~SuperPc
    <3>1. job.pc = "enter" => ~slot.active
      BY <1>2 DEF Working
    <3>2. job.pc = "leave" => slot.count = Capacity
      BY <1>2 DEF Working
    <3>3. slot.count = Capacity => ~(slot.count < Capacity)
      BY Constants
    <3> QED  BY <1>1, <3>1, <3>2, <3>3 DEF SuperPc
  <2> QED  BY <1>1, <1>2, <1>6, <2>1, InChargeStays
<1> QED  BY <1>1, <1>2, <1>4, <1>5, <1>7, <1>8, <1>9, <1>10, <1>11, StepKeeps

\* zllog_complete ends, and the kernel halts.
LEMMA CompletedKeeps ==
    ASSUME LogInv, Completed \/ CompleteFails
    PROVE  LogInv'
<1>1. /\ Stored \/ HalfStored
      /\ job.pc \in {"final", "close"} /\ up' = "halted" /\ job' = NoJob
      /\ \/ spent' = spent
         \/ spent' = [spent EXCEPT !.faults = @ + 1]
      /\ \/ super' = super
         \/ super' = FromCopy(NextSuper(None), super.copy)
         \/ super' = FromCopy(NextSuper(None), 1 - super.copy)
      /\ slot' = slot \/ slot' = [slot EXCEPT !.active = FALSE]
      /\ UNCHANGED <<drain, ram, seq, lost, kept>>
  BY DEF Completed, CompleteFails, laneVars
<1>2. /\ OnDisk /\ Logged /\ Numbered /\ Working /\ Own /\ InCharge /\ Sound
      /\ DiskStep /\ DOMAIN media' = Addr /\ DOMAIN pending' \subseteq Addr
  BY <1>1, WriteGoes
<1>3. job' \in JobType /\ job'.pc = "idle"
  BY <1>1, Constants DEF NoJob, JobType, Pc
<1>4. /\ spent' \in SpentType /\ Boot' = Boot /\ spent'.back = spent.back
  <2>1. spent \in SpentType /\ spent.faults + 1 \in Nat
    BY <1>2 DEF Logged, SpentType
  <2>2. CASE spent' = spent
    BY <2>1, <2>2 DEF Boot
  <2>3. CASE spent' = [spent EXCEPT !.faults = @ + 1]
    BY <2>1, <2>3 DEF SpentType, Boot
  <2> QED  BY <1>1, <2>2, <2>3
<1>5. RingStep /\ Numbered'
  <2>1. Boot \in Nat
    BY <1>2, Fields
  <2>2. RingStep
    BY <1>1, <1>4, <2>1 DEF RingStep
  <2> QED  BY <1>1, <1>2, <1>4, <2>2 DEF Numbered
<1>6. super' \in [gen : Nat, active : 0..Slots, after : 0..Slots, next : Nat, copy : {0, 1}]
  <2>1. super \in [gen : Nat, active : 0..Slots, after : 0..Slots, next : Nat, copy : {0, 1}]
    BY <1>2 DEF Logged
  <2>2. CASE super' = super
    BY <2>1, <2>2
  <2>3. CASE super' = FromCopy(NextSuper(None), super.copy)
    BY <1>2, <2>3, InRange, PublishedSuper
  <2>4. CASE super' = FromCopy(NextSuper(None), 1 - super.copy)
    BY <1>2, <2>4, InRange, PublishedSuper
  <2> QED  BY <1>1, <2>2, <2>3, <2>4
<1>7. /\ slot' \in [active : BOOLEAN, index : Slot, count : 0..Capacity, last : Nat]
      /\ slot'.active => slot' = slot /\ slot.active
  <2>1. slot \in [active : BOOLEAN, index : Slot, count : 0..Capacity, last : Nat]
    BY <1>2 DEF Logged
  <2>2. CASE slot' = slot
    BY <2>1, <2>2
  <2>3. CASE slot' = [slot EXCEPT !.active = FALSE]
    BY <2>1, <2>3
  <2> QED  BY <1>1, <2>2, <2>3
<1>8. Logged'
  BY <1>1, <1>2, <1>3, <1>4, <1>6, <1>7 DEF Logged, JobType, SpentType
<1>9. Working'
  BY <1>1, <1>2, <1>3 DEF Working
<1>10. SlotStep
  BY <1>7 DEF SlotStep
<1>11. Own'
  <2>1. job'.pc \notin {"start", "check", "enter"}
    BY <1>3
  <2> QED  BY <1>2, <1>4, <1>7, <1>8, <1>10, <2>1, OwnStays
<1>12. InCharge'
  BY <1>1 DEF InCharge
<1> QED  BY <1>1, <1>2, <1>4, <1>5, <1>8, <1>9, <1>10, <1>11, <1>12, StepKeeps

LEMMA CutKeeps ==
    ASSUME LogInv, PowerCut
    PROVE  LogInv'
<1>1. /\ media' \in CrashMedia /\ pending' = << >> /\ drain'.pc = "idle"
      /\ ram' = <<>> /\ seq' = 1 /\ up' = "early"
      /\ super' = FromCopy(BlankSuper(0), 0) /\ slot' = NoSlot /\ job' = NoJob
      /\ lost' = [dropped |-> 0, reported |-> 0]
      /\ spent' = [spent EXCEPT !.cuts = @ + 1]
      /\ UNCHANGED kept
  BY DEF PowerCut, LaneReset, NoDrain
<1>2. OnDisk /\ Logged /\ Working /\ Sound
  BY DEF LogInv, Sound
<1>3. DOMAIN media' = Addr /\ DOMAIN pending' = {} /\ DiskStep
  BY <1>1, <1>2, AfterCut DEF DiskStep
<1>4. /\ spent' \in SpentType /\ Boot <= Boot' /\ spent'.back = spent.back
  <2>1. spent \in SpentType /\ spent.cuts + 1 \in Nat /\ spent.cuts <= spent.cuts + 1
    <3>1. spent \in SpentType
      BY <1>2 DEF Logged, SpentType
    <3>2. spent.cuts \in Nat
      BY <3>1 DEF SpentType
    <3> QED  BY <3>1, <3>2
  <2>2. spent' \in SpentType /\ spent'.cuts = spent.cuts + 1 /\ spent'.back = spent.back
    BY <1>1, <2>1 DEF SpentType
  <2> QED  BY <2>1, <2>2 DEF Boot
<1>5. RingStep /\ Numbered'
  BY <1>1, <1>4 DEF RingStep, Numbered
<1>6. super' \in [gen : Nat, active : 0..Slots, after : 0..Slots, next : Nat, copy : {0, 1}]
  BY <1>1, Constants DEF FromCopy, BlankSuper
<1>7. job' \in JobType /\ job'.pc = "idle"
  BY <1>1, Constants DEF NoJob, JobType, Pc
<1>8. /\ slot' \in [active : BOOLEAN, index : Slot, count : 0..Capacity, last : Nat]
      /\ slot'.active = FALSE
  BY <1>1, Constants DEF NoSlot
<1>9. ram' \in Seq(LogRec) /\ Len(ram') = 0
  BY <1>1, EmptySeq
<1>10. Logged'
  BY <1>1, <1>2, <1>4, <1>6, <1>7, <1>8, <1>9, Constants DEF Logged, JobType, SpentType
<1>11. Working'
  BY <1>1, <1>3, <1>7, <1>8 DEF Working
<1>12. SlotStep
  BY <1>8 DEF SlotStep
<1>13. Own'
  BY <1>7, <1>8 DEF Own
<1>14. InCharge'
  BY <1>1 DEF InCharge
<1> QED  BY <1>1, <1>3, <1>4, <1>5, <1>10, <1>11, <1>12, <1>13, <1>14, StepKeeps

\* The records are on the device, and are counted in memory only. If the last
\* number has not gone back, the numbers still grow.
LEMMA DataKeeps ==
    ASSUME LogInv, DataStored
    PROVE  LogInv'
<1> DEFINE n == job.n
<1>1. /\ job.pc = "data" /\ Stored
      /\ slot' = [slot EXCEPT !.count = @ + job.n,
                              !.last = IF job.n = 0 THEN @ ELSE ram[job.n].seq]
      /\ spent' = [spent EXCEPT !.back = @ \/ slot'.last < slot.last]
      /\ job' = [job EXCEPT !.pc = "check"]
      /\ UNCHANGED <<ram, seq, super, lost, kept, up, drain>>
  BY DEF DataStored, At, laneVars
<1>2. /\ OnDisk /\ Logged /\ Numbered /\ Working /\ Own /\ InCharge /\ Sound
      /\ DiskStep /\ DOMAIN media' = Addr /\ DOMAIN pending' \subseteq Addr
      /\ \A a \in DOMAIN Writes : Device'[a] = {Writes[a]}
  BY <1>1, WriteGoes
<1>3. /\ n \in 1..Len(ram) /\ slot.active /\ n \in Nat /\ n >= 1 /\ slot.count \in Nat
      /\ slot.count + n <= Capacity /\ slot.count < Capacity /\ slot.index \in Slot
      /\ Len(ram) \in Nat /\ Capacity \in Nat /\ up = "mounted" /\ slot.last \in Nat
  <2>1. /\ n \in 1..Len(ram) /\ slot.active /\ slot.count + n <= Capacity /\ up = "mounted"
    BY <1>1, <1>2 DEF Working
  <2>2. /\ slot.count \in Nat /\ slot.index \in Slot /\ Len(ram) \in Nat /\ slot.last \in Nat
        /\ n \in Nat
    BY <1>2, Fields
  <2>3. Capacity \in Nat
    BY Constants
  <2>4. n >= 1 /\ slot.count < Capacity
    BY <2>1, <2>2, <2>3
  <2> QED  BY <2>1, <2>2, <2>3, <2>4
<1>4. \A j \in 1..n : j \in 1..Len(ram) /\ ram[j] \in LogRec /\ ram[j].seq \in Nat
  <2>1. \A j \in 1..n : j \in 1..Len(ram)
    BY <1>3
  <2>2. \A j \in 1..n : ram[j] \in LogRec
    BY <1>2, <2>1, ElementOfSeq DEF Logged
  <2> QED  BY <2>1, <2>2 DEF LogRec
<1>5. /\ slot' \in [active : BOOLEAN, index : Slot, count : 0..Capacity, last : Nat]
      /\ slot'.active = TRUE /\ slot'.index = slot.index
      /\ slot'.count = slot.count + n /\ slot'.last = ram[n].seq
  <2>1. slot.count + n \in 0..Capacity /\ ram[n].seq \in Nat /\ n # 0
    BY <1>3, <1>4
  <2>2. slot \in [active : BOOLEAN, index : Slot, count : 0..Capacity, last : Nat]
    BY <1>2 DEF Logged
  <2>3. slot' = [slot EXCEPT !.count = slot.count + n, !.last = ram[n].seq]
    BY <1>1, <2>1
  <2> HIDE DEF n
  <2> QED  BY <1>3, <2>1, <2>2, <2>3
<1>6. /\ spent' \in SpentType /\ Boot' = Boot
      /\ ~spent'.back => ~spent.back /\ slot.last <= ram[n].seq
  <2>1. spent \in SpentType
    BY <1>2 DEF Logged, SpentType
  <2>2. PICK b \in BOOLEAN : b = (spent.back \/ slot'.last < slot.last)
    OBVIOUS
  <2>3. spent' = [spent EXCEPT !.back = b]
    BY <1>1, <2>2
  <2>4. spent' \in SpentType /\ spent'.cuts = spent.cuts /\ spent'.back = b
    BY <2>1, <2>3 DEF SpentType
  <2>5. ram[n].seq \in Nat
    BY <1>3, <1>4
  <2>6. ~b => ~spent.back /\ slot.last <= ram[n].seq
    BY <1>3, <1>5, <2>2, <2>5
  <2> QED  BY <2>4, <2>6 DEF Boot
<1>7. job' \in JobType /\ job'.pc = "check" /\ job'.n = n
  BY <1>1, <1>2 DEF Logged, JobType, Pc
<1>8. Logged'
  BY <1>1, <1>2, <1>5, <1>6, <1>7 DEF Logged, JobType, SpentType
<1>9. Numbered'
  BY <1>1, <1>2, <1>6 DEF Numbered
<1>10. Working'
  BY <1>1, <1>2, <1>3, <1>5, <1>7 DEF Working
\* What the new records' blocks hold.
<1>11. ASSUME NEW j \in 1..n
       PROVE  /\ slot.count + j - 1 \in 0..Capacity - 1
              /\ Device'[Rec(slot.index, slot.count + j - 1)] = {ram[j]}
  <2> DEFINE p == slot.count + j - 1
  <2>1. p \in 0..Capacity - 1 /\ p \in Nat /\ j - 1 \in 0..n - 1 /\ p = slot.count + (j - 1)
        /\ p - slot.count + 1 = j
    BY <1>3
  <2> HIDE DEF p
  <2>2. Writes = [a \in {Rec(slot.index, slot.count + k) : k \in 0..job.n - 1} |->
                    ram[a[3] - slot.count + 1]]
    BY <1>1, DataWrites
  <2>3. Rec(slot.index, p) \in {Rec(slot.index, slot.count + k) : k \in 0..job.n - 1}
    BY <2>1
  <2>4. Rec(slot.index, p)[3] = p
    BY DEF Rec
  <2>5. Rec(slot.index, p) \in DOMAIN Writes /\ Writes[Rec(slot.index, p)] = ram[j]
    BY <2>1, <2>2, <2>3, <2>4
  <2>6. Device'[Rec(slot.index, p)] = {ram[j]}
    BY <1>2, <2>5
  <2> QED  BY <2>1, <2>6 DEF p
\* What the blocks before them hold was there.
<1>12. ASSUME NEW p \in 0..slot.count - 1
       PROVE  /\ p \in 0..Capacity - 1 /\ p \in Reached(Midway, slot.index)
              /\ Device'[Rec(slot.index, p)] \subseteq Device[Rec(slot.index, p)]
  <2>1. p \in 0..Capacity - 1 /\ p < slot.count
    BY <1>3
  <2>2. p \in Reached(Midway, slot.index)
    BY <1>3, <2>1 DEF Reached
  <2> QED  BY <1>2, <1>3, <2>1, <2>2, ReachedIsOld, Addresses DEF DiskStep
<1>13. ASSUME NEW p \in 0..slot.count + n - 1
       PROVE  p \in 0..slot.count - 1 \/ \E j \in 1..n : p = slot.count + j - 1
  <2>1. CASE p < slot.count
    BY <1>3, <2>1
  <2>2. CASE p >= slot.count
    <3> DEFINE j == p - slot.count + 1
    <3>1. p \in Int /\ p <= slot.count + n - 1 /\ slot.count \in Int /\ n \in Int
      BY <1>3
    <3>2. j \in Int /\ 1 <= j /\ j <= n /\ p = slot.count + j - 1
      BY <2>2, <3>1
    <3> HIDE DEF j
    <3>3. j \in 1..n
      BY <3>1, <3>2
    <3> QED  BY <3>2, <3>3
  <2> QED  BY <1>3, <2>1, <2>2
<1> HIDE DEF n
<1>14. Own'
  <2>1. ASSUME NEW h \in Device'[Hdr(slot.index)]
        PROVE  h.boot = Boot /\ h.count <= slot.count + n
    <3>1. h \in Device[Hdr(slot.index)]
      <4>1. h \in Midway[Hdr(slot.index)]
        BY <1>2, <1>3, Addresses DEF DiskStep
      <4> QED  BY <1>1, <1>2, <1>3, <4>1, HeadMidway DEF HeadPc
    <3>2. h.boot = Boot /\ h.count <= slot.count
      BY <1>2, <1>3, <3>1 DEF Own
    <3>3. h.count \in Nat
      <4>1. h \in HeadBlock
        BY <1>2, <1>3, <3>1 DEF OnDisk, Blocks
      <4> QED  BY <4>1, Constants DEF HeadBlock
    <3> QED  BY <1>3, <3>2, <3>3
  <2>2. ASSUME NEW p \in 0..slot.count + n - 1, NEW r \in Device'[Rec(slot.index, p)]
        PROVE  r.boot = Boot /\ r.id # 0
    <3>1. CASE p \in 0..slot.count - 1
      BY <1>2, <1>3, <1>12, <3>1 DEF Own
    <3>2. CASE \E j \in 1..n : p = slot.count + j - 1
      <4>1. PICK j \in 1..n : p = slot.count + j - 1
        BY <3>2
      <4>2. r = ram[j]
        BY <1>11, <4>1
      <4> QED  BY <1>2, <1>4, <4>2 DEF Numbered
    <3> QED  BY <1>13, <3>1, <3>2
  <2>3. ASSUME NEW j \in 1..n, NEW r \in Device'[Rec(slot.index, slot'.count - n + j - 1)]
        PROVE  r.id = ram[j].id
    <3>1. slot'.count - n + j - 1 = slot.count + j - 1
      BY <1>3, <1>5
    <3> QED  BY <1>11, <3>1
  <2>4. /\ \A h \in Device'[Hdr(slot'.index)] : h.boot = Boot' /\ h.count <= slot'.count
        /\ \A p \in 0..slot'.count - 1 : \A r \in Device'[Rec(slot'.index, p)] :
            r.boot = Boot' /\ r.id # 0
    <3>1. \A h \in Device'[Hdr(slot'.index)] : h.boot = Boot' /\ h.count <= slot'.count
      BY <1>5, <1>6, <2>1
    <3>2. ASSUME NEW p \in 0..slot'.count - 1, NEW r \in Device'[Rec(slot'.index, p)]
          PROVE  r.boot = Boot' /\ r.id # 0
      <4>1. p \in 0..slot.count + n - 1 /\ Rec(slot'.index, p) = Rec(slot.index, p)
        BY <1>3, <1>5
      <4>2. r.boot = Boot /\ r.id # 0
        BY <2>2, <4>1
      <4> QED  BY <1>6, <4>2
    <3> QED  BY <3>1, <3>2
  <2>5. \A j \in 1..job'.n : \A r \in Device'[Rec(slot'.index, slot'.count - job'.n + j - 1)] :
            r.id = ram'[j].id
    BY <1>1, <1>5, <1>7, <2>3
  <2>6. job'.pc # "start"
    BY <1>7
  <2> QED  BY <2>4, <2>5, <2>6 DEF Own
<1>15. InCharge'
  <2>1. ~SuperPc /\ super.gen \in Nat /\ super'.gen = super.gen
    BY <1>1, <1>2, Fields DEF SuperPc
  <2> QED  BY <1>1, <1>2, <1>3, <1>5, <2>1, InChargeStays
<1>16. OnDisk' /\ Counts(Device)'
  BY <1>2, CountsAfter DEF OnDisk
<1>17. Keeps(Device)'
  BY <1>1, <1>2, KeptAfter DEF Keeps, LogInv
<1>18. NumbersGrow'
  <2> SUFFICES ASSUME ~spent'.back
               PROVE  /\ Tops(Device)' /\ Follows(Device)' /\ Later(Device)'
                      /\ slot'.active => \A p \in 0..slot'.count - 1 :
                          \A r \in Device'[Rec(slot'.index, p)] : r.seq <= slot'.last
    BY DEF NumbersGrow
  <2>1. ~spent.back /\ slot.last <= ram[n].seq
    BY <1>6
  <2>2. /\ Tops(Midway) /\ Follows(Midway) /\ Later(Midway)
        /\ \A p \in 0..slot.count - 1 : \A r \in Device[Rec(slot.index, p)] : r.seq <= slot.last
    BY <1>3, <2>1, MidwayNumbers DEF LogInv, NumbersGrow
  <2>3. Tops(Device)'
    BY <1>2, <2>2, CountsAfter
  <2>4. ASSUME NEW t \in Slot, NEW r \in Found(Device, t)'
        PROVE  \/ r \in Found(Midway, t)
               \/ t = slot.index /\ \E j \in 1..n : r = ram[j]
    <3>1. PICK p \in Reached(Device, t)' : r \in Device'[Rec(t, p)]
      BY DEF Found
    <3>2. p \in 0..Capacity - 1 /\ p \in Nat
      BY Constants DEF Reached
    <3>3. r \in Midway[Rec(t, p)]
      BY <1>2, <3>1, <3>2, Addresses DEF DiskStep
    <3>4. CASE t = slot.index
      <4>1. p \in 0..slot.count + n - 1
        <5>1. p < slot.count + n
          BY <1>5, <3>4 DEF Reached
        <5> QED  BY <1>3, <3>2, <5>1
      <4>2. CASE p \in 0..slot.count - 1
        <5>1. p \in Reached(Midway, t)
          BY <1>12, <3>4, <4>2
        <5> QED  BY <3>3, <5>1 DEF Found
      <4>3. CASE \E j \in 1..n : p = slot.count + j - 1
        BY <1>11, <3>1, <3>4, <4>3
      <4> QED  BY <1>13, <4>1, <4>2, <4>3
    <3>5. CASE t # slot.index
      <4>1. PICK h \in Device'[Hdr(t)] : p < h.count
        BY <1>5, <3>5 DEF Reached
      <4>2. h \in Midway[Hdr(t)]
        BY <1>2, <4>1, Addresses DEF DiskStep
      <4>3. p \in Reached(Midway, t)
        BY <3>2, <3>5, <4>1, <4>2 DEF Reached
      <4> QED  BY <3>3, <4>3 DEF Found
    <3> QED  BY <3>4, <3>5
  <2>5. Follows(Device)'
    <3> SUFFICES ASSUME NEW w \in Chosen(Device)', NEW t \in Slot, t # w.active,
                        NEW r \in Found(Device, t)'
                 PROVE  r.seq < w.next
      BY DEF Follows
    <3>1. w \in Chosen(Midway) /\ w \in Chosen(Device)
      BY <1>1, <1>2, ChosenAfter, ChosenMidway DEF SuperPc
    <3>2. w.active = slot.index
      BY <1>2, <1>3, <3>1 DEF InCharge
    <3>3. r \in Found(Midway, t)
      BY <2>4, <3>2
    <3> QED  BY <2>2, <3>1, <3>3 DEF Follows
  <2>6. ASSUME NEW t \in Slot, NEW r \in Found(Midway, t)
        PROVE  /\ r.seq \in Nat /\ r.boot \in Nat /\ r.boot <= Boot
               /\ r.seq < seq /\ (r.boot < Boot => \A j \in 1..n : r.seq < ram[j].seq)
    <3>1. PICK p \in Reached(Midway, t) : r \in Midway[Rec(t, p)]
      BY DEF Found
    <3>2. r \in LogRec
      BY <1>2, <3>1, RecMidway DEF Reached
    <3>3. r.seq < seq /\ r.boot <= Boot /\ (r.boot < Boot => Above(Ring, r.seq))
      BY <1>3, <2>2 DEF Later
    <3>4. Above(Ring, r.seq) => \A j \in 1..n : r.seq < ram[j].seq
      BY <1>4 DEF Above, Ring
    <3> QED  BY <3>2, <3>3, <3>4 DEF LogRec
  <2>7. \A j \in 1..n : ram[j].boot = Boot /\ ram[j].seq < seq
    BY <1>2, <1>4 DEF Numbered
  <2>8. Boot \in Nat
    BY <1>2, Fields
  <2>9. Later(Device)'
    <3>1. ASSUME NEW t \in Slot, NEW u \in Slot, NEW q \in Found(Device, t)',
                 NEW r \in Found(Device, u)', q.boot < r.boot
          PROVE  q.seq < r.seq
      <4>1. CASE q \in Found(Midway, t)
        <5>1. CASE r \in Found(Midway, u)
          BY <2>2, <3>1, <4>1, <5>1 DEF Later
        <5>2. CASE \E j \in 1..n : r = ram[j]
          BY <2>6, <2>7, <3>1, <4>1, <5>2
        <5> QED  BY <2>4, <5>1, <5>2
      <4>2. CASE \E j \in 1..n : q = ram[j]
        <5>1. q.boot = Boot
          BY <2>7, <4>2
        <5>2. r.boot <= Boot /\ r.boot \in Nat
          BY <2>4, <2>6, <2>7, <2>8
        <5> QED  BY <2>8, <3>1, <5>1, <5>2
      <4> QED  BY <2>4, <4>1, <4>2
    <3>2. ASSUME NEW t \in Slot, NEW r \in Found(Device, t)'
          PROVE  /\ r.boot <= Boot' /\ r.seq < seq'
                 /\ r.boot < Boot' => Above(Ring, r.seq)'
      <4>1. Boot' = Boot /\ seq' = seq
        BY <1>1, <1>6
      <4>2. CASE r \in Found(Midway, t)
        <5>1. r.boot <= Boot /\ r.seq < seq /\ (r.boot < Boot => Above(Ring, r.seq))
          BY <1>3, <2>2, <4>2 DEF Later
        <5>2. Above(Ring, r.seq) => Above(Ring, r.seq)'
          BY <1>1 DEF Above, Ring
        <5> QED  BY <4>1, <5>1, <5>2
      <4>3. CASE \E j \in 1..n : r = ram[j]
        BY <2>7, <2>8, <4>1, <4>3
      <4> QED  BY <2>4, <4>2, <4>3
    <3> QED  BY <3>1, <3>2 DEF Later
  <2>10. ASSUME NEW p \in 0..slot.count + n - 1, NEW r \in Device'[Rec(slot.index, p)]
         PROVE  r.seq <= ram[n].seq
    <3>1. CASE p \in 0..slot.count - 1
      <4>1. r \in Device[Rec(slot.index, p)] /\ p \in 0..Capacity - 1
        BY <1>12, <3>1
      <4>2. r.seq <= slot.last /\ r.seq \in Nat
        BY <1>2, <1>3, <2>2, <3>1, <4>1 DEF OnDisk, Blocks, LogRec
      <4>3. ram[n].seq \in Nat
        BY <1>3, <1>4
      <4> QED  BY <1>3, <2>1, <4>2, <4>3
    <3>2. CASE \E j \in 1..n : p = slot.count + j - 1
      <4>1. PICK j \in 1..n : r = ram[j]
        BY <1>11, <3>2
      <4>2. CASE j = n
        BY <1>3, <1>4, <4>1, <4>2
      <4>3. CASE j # n
        <5>1. j \in 1..n - 1 /\ n \in 1..Len(ram)
          BY <1>3, <4>3
        <5>2. ram[j].seq < ram[n].seq
          BY <1>2, <5>1 DEF Numbered
        <5>3. ram[j].seq \in Nat /\ ram[n].seq \in Nat
          BY <1>3, <1>4
        <5> QED  BY <4>1, <5>2, <5>3
      <4> QED  BY <4>2, <4>3
    <3> QED  BY <1>13, <3>1, <3>2
  <2>11. \A p \in 0..slot'.count - 1 : \A r \in Device'[Rec(slot'.index, p)] : r.seq <= slot'.last
    <3> SUFFICES ASSUME NEW p \in 0..slot'.count - 1, NEW r \in Device'[Rec(slot'.index, p)]
                 PROVE  r.seq <= slot'.last
      OBVIOUS
    <3>1. p \in 0..slot.count + n - 1 /\ Rec(slot'.index, p) = Rec(slot.index, p)
      BY <1>3, <1>5
    <3>2. r.seq <= ram[n].seq
      BY <2>10, <3>1
    <3> QED  BY <1>5, <3>2
  <2> QED  BY <2>3, <2>5, <2>9, <2>11
<1> QED  BY <1>8, <1>9, <1>10, <1>14, <1>15, <1>16, <1>17, <1>18 DEF LogInv
-----------------------------------------------------------------------------
LEMMA InitLog ==
    ASSUME Init
    PROVE  LogInv
<1>1. /\ media = [a \in Addr |-> CASE a[1] = "super" -> BlankSuper(1 - a[2])
                                   [] a[1] = "head" -> BlankHead
                                   [] OTHER -> BlankRec]
      /\ pending = << >> /\ ram = <<>> /\ seq = 1 /\ up = "early"
      /\ super = FromCopy(BlankSuper(0), 0) /\ slot = NoSlot /\ job = NoJob
      /\ lost = [dropped |-> 0, reported |-> 0]
      /\ kept = {} /\ spent = [made |-> 0, events |-> 0, faults |-> 0, cuts |-> 0, back |-> FALSE]
      /\ drain.pc = "idle"
  BY DEF Init, LaneInit, NoDrain
<1>2. DOMAIN media = Addr /\ DOMAIN pending = {}
  BY <1>1
<1>3. \A a \in Addr : Device[a] = {media[a]}
  BY <1>2 DEF Device
<1>4. /\ \A c \in {0, 1} : media[Super(c)] = BlankSuper(1 - c)
      /\ \A t \in Slot : media[Hdr(t)] = BlankHead
      /\ \A t \in Slot, p \in 0..Capacity - 1 : media[Rec(t, p)] = BlankRec
  <2>1. \A c \in {0, 1} : Super(c)[1] = "super" /\ Super(c)[2] = c
    BY DEF Super
  <2>2. \A t \in Slot : Hdr(t)[1] = "head"
    BY DEF Hdr
  <2>3. \A t \in Slot, p \in 0..Capacity - 1 : Rec(t, p)[1] = "rec"
    BY DEF Rec
  <2> QED  BY <1>1, <2>1, <2>2, <2>3, Addresses
<1>5. OnDisk
  <2>1. \A c \in {0, 1} : BlankSuper(1 - c) \in SuperBlock
    BY Constants DEF BlankSuper, SuperBlock
  <2>2. BlankHead \in HeadBlock /\ BlankRec \in LogRec
    BY Constants DEF BlankHead, HeadBlock, BlankRec, LogRec
  <2>3. Blocks(Device)
    BY <1>3, <1>4, <2>1, <2>2, Addresses DEF Blocks
  <2> QED  BY <1>2, <2>3 DEF OnDisk
<1>6. slot.active = FALSE /\ slot.count = 0 /\ job.pc = "idle"
  BY <1>1 DEF NoSlot, NoJob
<1>7. Logged
  <2>1. ram \in Seq(LogRec) /\ Len(ram) = 0
    BY <1>1, EmptySeq
  <2>2. super \in [gen : Nat, active : 0..Slots, after : 0..Slots, next : Nat, copy : {0, 1}]
    BY <1>1, Constants DEF FromCopy, BlankSuper
  <2>3. slot \in [active : BOOLEAN, index : Slot, count : 0..Capacity, last : Nat]
    BY <1>1, Constants DEF NoSlot
  <2>4. job \in JobType
    BY <1>1, Constants DEF NoJob, JobType, Pc
  <2> QED  BY <1>1, <2>1, <2>2, <2>3, <2>4, Constants DEF Logged, JobType
<1>8. Numbered
  BY <1>1, EmptySeq DEF Numbered
<1>9. Working
  BY <1>1, <1>2, <1>6 DEF Working
<1>10. \A t \in Slot : \A h \in Device[Hdr(t)] : h.count = 0
  BY <1>3, <1>4, Addresses DEF BlankHead
<1>11. \A t \in Slot : Found(Device, t) = {}
  <2> SUFFICES ASSUME NEW t \in Slot, NEW p \in Reached(Device, t) PROVE FALSE
    BY DEF Found
  <2>1. p \in Nat
    BY Constants DEF Reached
  <2>2. PICK h \in Device[Hdr(t)] : p < h.count
    BY <1>6 DEF Reached
  <2> QED  BY <1>10, <2>1, <2>2
<1>12. Counts(Device) /\ Tops(Device)
  BY <1>10 DEF Counts, Tops
<1>13. Own /\ Keeps(Device) /\ InCharge
  BY <1>1, <1>6 DEF Own, Keeps, InCharge
<1>14. NumbersGrow
  BY <1>6, <1>11, <1>12 DEF NumbersGrow, Follows, Later
<1> QED  BY <1>5, <1>7, <1>8, <1>9, <1>12, <1>13, <1>14 DEF LogInv

LEMMA LogNext ==
    ASSUME LogInv, [Next]_vars
    PROVE  LogInv'
<1>1. CASE UNCHANGED vars
  BY <1>1, NothingKeeps DEF vars, laneVars
<1>2. CASE Step
  <2>1. CASE \E limit \in {RamRecords, RamNormal, RamSampled} : Event(limit)
    BY <2>1, EventKeeps
  <2>2. CASE \E i \in Isr : Interrupt(i)
    BY <2>2, InterruptKeeps
  <2>3. CASE \E valid \in {{0, 1}, {0}, {1}}, header \in BOOLEAN : zllog_mount(valid, header)
    BY <2>3, MountKeeps
  <2>4. CASE \E for_good \in BOOLEAN : zllog_mount_refused(for_good)
    BY <2>4, RefusedKeeps
  <2>5. CASE \E completing \in BOOLEAN : FlushCall(completing)
    BY <2>5, CallKeeps
  <2>6. CASE Drain \/ FlushDrained \/ SlotRestarted
    BY <2>6, DrainKeeps, FlushDrainedKeeps, RestartedKeeps
  <2>7. CASE SlotStarted \/ SlotEntered \/ DataStored \/ Checkpointed
    BY <2>7, StartedKeeps, EnteredKeeps, DataKeeps, CheckpointedKeeps
  <2>8. CASE SlotSealed \/ SlotLeft \/ Finalized \/ StepFails
    BY <2>8, SealedKeeps, LeftKeeps, FailsKeeps
  <2>9. CASE Completed \/ CompleteFails
    BY <2>9, CompletedKeeps
  <2>10. CASE Returning \/ FlushAgain \/ Returned
    BY <2>10, CallKeeps, ReturnedKeeps
  <2>11. CASE PowerCut
    BY <2>11, CutKeeps
  <2> QED  BY <1>2, <2>1, <2>2, <2>3, <2>4, <2>5, <2>6, <2>7, <2>8, <2>9, <2>10, <2>11
           DEF Step, FlushStep
<1> QED  BY <1>1, <1>2 DEF Next

(***************************************************************************)
(* What the device may hold of every block, written or being written, is   *)
(* what the recorder relies on: the inductive invariant of the log.        *)
(***************************************************************************)
THEOREM LogInvHolds == Spec => []LogInv
<1>1. Init => LogInv
  BY InitLog
<1>2. LogInv /\ [Next]_vars => LogInv'
  BY LogNext
<1> QED  BY <1>1, <1>2, PTL DEF Spec

LEMMA LogInvSound ==
    ASSUME LogInv
    PROVE  Sound /\ Keeps(Device) /\ OnDisk /\ Logged /\ Working
BY DEF LogInv, Sound

(***************************************************************************)
(* zllog.c:1145. A record that was forgotten is found in the slot it was   *)
(* written to until that slot is started again, whatever failed before and *)
(* wherever the power goes: for any partition, ring and number of faults.  *)
(***************************************************************************)
THEOREM ForgottenAlwaysKept == Spec => []ForgottenIsKept
<1>1. ASSUME LogInv PROVE ForgottenIsKept
  <2> SUFFICES ASSUME NEW m \in CrashMedia, NEW k \in kept
               PROVE  \E r \in Named(m, k.slot) : r.id = k.id
    BY DEF ForgottenIsKept
  <2>1. Sound /\ Keeps(Midway) /\ k.slot \in Slot
    BY <1>1, LogInvSound, MidwayKeeps DEF Logged
  <2>2. PICK p \in 0..Capacity - 1 :
          /\ \A h \in Midway[Hdr(k.slot)] : p < h.count
          /\ \A r \in Midway[Rec(k.slot, p)] : r.id = k.id
    BY <2>1 DEF Keeps
  <2>3. m[Hdr(k.slot)] \in Midway[Hdr(k.slot)] /\ m[Rec(k.slot, p)] \in Midway[Rec(k.slot, p)]
    BY <1>1, <2>1, LogInvSound, InCrash, Addresses
  <2>4. m[Hdr(k.slot)].count \in Nat
    <3>1. m[Hdr(k.slot)] \in HeadBlock
      BY <2>1, <2>3, HeadMidway
    <3> QED  BY <3>1, Constants DEF HeadBlock
  <2>5. p \in 0..m[Hdr(k.slot)].count - 1
    BY <2>2, <2>3, <2>4, Constants
  <2> QED  BY <2>2, <2>3, <2>5 DEF Named
<1> QED  BY <1>1, LogInvHolds, PTL

\* A reader of what a cut leaves finds what the device could hold.
LEMMA NamedFound ==
    ASSUME LogInv, NEW m \in CrashMedia, NEW t \in Slot, NEW p \in 0..m[Hdr(t)].count - 1
    PROVE  /\ m[Hdr(t)] \in Midway[Hdr(t)] /\ m[Rec(t, p)] \in Midway[Rec(t, p)]
           /\ m[Rec(t, p)] \in Found(Midway, t)
<1>1. m[Hdr(t)] \in Midway[Hdr(t)]
  BY LogInvSound, InCrash, Addresses
<1>2. p \in Reached(Midway, t) /\ p \in 0..Capacity - 1
  BY <1>1, LogInvSound, CountedReached
<1>3. m[Rec(t, p)] \in Midway[Rec(t, p)]
  BY <1>2, LogInvSound, InCrash, Addresses
<1> QED  BY <1>1, <1>2, <1>3 DEF Found

(***************************************************************************)
(* zllog.c:1067. No header ever counts a record of an earlier use of its   *)
(* slot, whatever a power cut leaves of the writes under way.              *)
(***************************************************************************)
THEOREM CheckpointAlwaysTrue == Spec => []CheckpointIsTrue
<1>1. ASSUME LogInv PROVE CheckpointIsTrue
  <2> SUFFICES ASSUME NEW m \in CrashMedia, NEW s \in Slot, NEW p \in 0..m[Hdr(s)].count - 1
               PROVE  m[Rec(s, p)].id # 0 /\ m[Rec(s, p)].boot = m[Hdr(s)].boot
    BY DEF CheckpointIsTrue, Named
  <2>1. m[Hdr(s)] \in Midway[Hdr(s)] /\ m[Rec(s, p)] \in Midway[Rec(s, p)]
    BY <1>1, NamedFound
  <2>2. Counts(Midway)
    BY <1>1, LogInvSound, MidwayCounts
  <2> QED  BY <2>1, <2>2 DEF Counts
<1> QED  BY <1>1, LogInvHolds, PTL

(***************************************************************************)
(* zllog.c:928. The numbers of a boot are above those of every boot before *)
(* it, unless a slot's last number went back (:1180), or a mount went on   *)
(* from a lower number for want of the active slot's header (:932) or of   *)
(* the newer superblock (:918).                                            *)
(***************************************************************************)
THEOREM BootsAlwaysInOrder == Spec => []BootsInOrder
<1>1. ASSUME LogInv PROVE BootsInOrder
  <2> SUFFICES ASSUME ~spent.back, NEW m \in CrashMedia, NEW s \in Slot, NEW t \in Slot,
                      NEW q \in Named(m, s), NEW r \in Named(m, t), q.boot < r.boot
               PROVE  ~(r.seq <= q.seq)
    BY DEF BootsInOrder, NumberUsedAgain
  <2>1. Later(Midway)
    BY <1>1, MidwayNumbers
  <2>2. q \in Found(Midway, s) /\ r \in Found(Midway, t)
    BY <1>1, NamedFound DEF Named
  <2>3. q.seq < r.seq
    BY <2>1, <2>2 DEF Later
  <2>4. Blocks(Midway)
    BY <1>1, LogInvSound, MidwayBlocks
  <2>5. q.seq \in Nat /\ r.seq \in Nat
    BY <2>2, <2>4 DEF Found, Reached, Blocks, LogRec
  <2> QED  BY <2>3, <2>5
<1> QED  BY <1>1, LogInvHolds, PTL
-----------------------------------------------------------------------------
\* To the lane, every step of the log is one of its own or none.
LEMMA LaneStep ==
    ASSUME [Next]_vars
    PROVE  [LaneNext]_laneVars
<1>1. CASE UNCHANGED laneVars
  BY <1>1
<1>2. CASE \E i \in Isr : Interrupt(i)
  BY <1>2 DEF Interrupt, LaneNext
<1>3. CASE DrainStart \/ DrainTake \/ DrainClear \/ DrainAdvance \/ DrainEnd \/ LaneReset
  BY <1>3 DEF LaneNext, DrainNext
<1>4. CASE UNCHANGED vars
  BY <1>1, <1>4 DEF vars
<1>5. CASE Step
  <2>1. CASE \/ \E limit \in {RamRecords, RamNormal, RamSampled} : Event(limit)
             \/ \E for_good \in BOOLEAN : zllog_mount_refused(for_good)
    BY <1>1, <2>1 DEF Event, zllog_mount_refused
  <2>2. CASE \E completing \in BOOLEAN : FlushCall(completing)
    BY <1>3, <2>2 DEF FlushCall
  <2>3. CASE \/ \E valid \in {{0, 1}, {0}, {1}}, header \in BOOLEAN : zllog_mount(valid, header)
             \/ PowerCut \/ Drain
    BY <1>3, <2>3 DEF zllog_mount, PowerCut, Drain
  <2>4. CASE FlushDrained \/ Returning \/ Returned \/ FlushAgain
    BY <1>3, <2>4 DEF FlushDrained, Returning, Returned, FlushAgain
  <2>5. CASE \/ SlotStarted \/ SlotEntered \/ DataStored \/ Checkpointed
             \/ SlotSealed \/ SlotLeft \/ SlotRestarted \/ Finalized
    BY <1>1, <2>5 DEF At, SlotStarted, SlotEntered, DataStored, Checkpointed, SlotSealed,
                      SlotLeft, SlotRestarted, Finalized
  <2>6. CASE StepFails \/ Completed \/ CompleteFails
    BY <1>1, <2>6 DEF StepFails, Completed, CompleteFails
  <2> QED  BY <1>2, <1>5, <2>1, <2>2, <2>3, <2>4, <2>5, <2>6 DEF Step, FlushStep
<1> QED  BY <1>4, <1>5 DEF Next

(***************************************************************************)
(* The log drains its lane as the lane allows: the composition implements  *)
(* the lane by itself, so what holds of the lane holds in the log.         *)
(***************************************************************************)
THEOREM LogImplementsLane == Spec => LaneSpec
<1>1. Init => LaneInit
  BY DEF Init
<1> QED  BY <1>1, LaneStep, PTL DEF Spec, LaneSpec

(***************************************************************************)
(* zllog.c:332 and :361, in the whole log: what the flushes drain is what  *)
(* the handlers put in, power cuts between them included.                  *)
(***************************************************************************)
THEOREM LogDrainsExactly == Spec => []LaneExact
BY LogImplementsLane, LaneExactAlways, PTL

(***************************************************************************)
(* The types of the log: its indexes stay in the partition, its ring       *)
(* within RAM_RECORDS, its count within the slot.                          *)
(***************************************************************************)
THEOREM TypeCorrect == Spec => []TypeOK
<1>1. ASSUME LogInv, LaneTypeOK PROVE TypeOK
  <2>1. Logged /\ OnDisk
    BY <1>1, LogInvSound
  <2>2. super.active \in Slot \cup {None} /\ super.copy \in {0, 1}
    BY <2>1, Fields, Constants
  <2> QED  BY <1>1, <2>1, <2>2 DEF TypeOK, Logged, OnDisk
<1>2. Spec => []LaneTypeOK
  BY LogImplementsLane, LaneTypeCorrect, PTL
<1> QED  BY <1>1, <1>2, LogInvHolds, PTL
=============================================================================
